SPECIFICATION LiveSpec
CONSTANTS
    k1 = k1
    k2 = k2
    k3 = k3
    FlowKeys <- Keys3
    max_flows = 2
    idle_timeout_ms = 2
    InboxCapacity = 1
    RxBudget = 2
    MaxFlowIds = 3
    MaxPause = 1
    IterationMs = 0
    ClockModulus = 6
CHECK_DEADLOCK FALSE
INVARIANT SessionsBound
PROPERTIES IdleBeforeEvicted ClosedFlowGoes 
