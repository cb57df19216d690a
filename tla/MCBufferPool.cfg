CONSTANTS
  slot_count = 2
  shard = shard
  backend = backend
  Threads <- MCThreads
  Owner = shard
  NoThread = NoThread
  MaxAllocs = 4
  MaxRefs = 2
SPECIFICATION FairSpec
INVARIANTS SoleOwnership FreeListExact
PROPERTIES QueuedIsFreed
