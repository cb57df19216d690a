SPECIFICATION MCSpec
CONSTANTS
    NShards = 2
    NQueues = 3
    QueueShard <- CrossedQueues
    Flows = {"f0", "f1"}
    FlowShard <- OwnerOf
    Datagrams = {"d"}
    DatagramFlow <- TheFlow
    FragmentShard <- PutTogether
    Parts = {"head", "tail"}
    kRxBudget = 3
    kPacketInboxBudget = 2
    LaneCapacity = 1
    MaxPackets = 3
    MaxPacketsFair = 2
CHECK_DEADLOCK TRUE
INVARIANTS OneHome 
PROPERTY PacketsDrain
