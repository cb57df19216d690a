---------------------------- MODULE MCShardLane ----------------------------
(* Two ring slots; head_ and tail_ wrap at 4, so that six pushes wrap them.  *)
(* A size-4 envelope exceeds ByteCapacity, two size-2 envelopes together do. *)
EXTENDS ShardLane

MCSizes == {1, 2, 4}
=============================================================================
