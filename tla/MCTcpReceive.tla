---------------------------- MODULE MCTcpReceive ----------------------------
(* Bounds for TcpReceive: the stream is longer than the ring and crosses    *)
(* the wrap of the sequence space.                                          *)
EXTENDS TcpReceive
=============================================================================
