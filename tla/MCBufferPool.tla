--------------------------- MODULE MCBufferPool ---------------------------
(* The shard thread, one backend thread that allocates and releases beside  *)
(* it, and two slots: enough for a stale head to come back with another     *)
(* successor, for the return queue to fill, and for the pool to run dry.    *)
EXTENDS BufferPool

CONSTANTS shard, backend
MCThreads == {shard, backend}
=============================================================================
