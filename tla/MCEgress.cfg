SPECIFICATION MCSpec
CONSTANTS
    NShards = 2
    NQueues = 2
    QueueShard <- OneEach
    Flows = {"f", "g", "u"}
    FlowHash <- Hashes
    Producer <- Makers
    Udp = {"u"}
    Ect = {"f", "g"}
    kTcpTxBudget = 2
    LaneCapacity = 1
    MayBlock = TRUE
    MaxPackets = 4
CHECK_DEADLOCK FALSE
INVARIANTS  SchedulerSound NeverHasty
PROPERTY GatheredDrains
