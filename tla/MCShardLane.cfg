CONSTANTS
  MessageCapacity = 2
  ByteCapacity = 3
  CounterModulus = 4
  Sizes <- MCSizes
  MaxPush = 6
SPECIFICATION Spec
INVARIANTS NoSlotRace ByteAccounting
PROPERTY ImplementsFifo
CHECK_DEADLOCK FALSE
