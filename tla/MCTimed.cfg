SPECIFICATION MCSpec
CONSTANTS
    IdSpace = 4
    MaxTime = 4
    MaxTimers = 5
CHECK_DEADLOCK FALSE
INVARIANTS UniqueIds NothingOverdue ExactlyOnce PathTracked
PROPERTY PathLearned
