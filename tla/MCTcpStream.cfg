CONSTANTS
    capacity = 4
    SeqModulus = 16
    InitialSequence = 13
    WindowUnit = 2
    MaxWireWindow = 9
    MaxSackBlocks = 1
    CallBudget = 2
    MaxStream = 6
    MaxSegment = 3
SPECIFICATION MCSpec
CHECK_DEADLOCK FALSE
INVARIANTS ReceiveExact NoStranding SendExact
PROPERTY StreamMoves
