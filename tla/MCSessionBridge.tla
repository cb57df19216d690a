-------------------------- MODULE MCSessionBridge ---------------------------
(***************************************************************************)
(* Each behaviour is one of a single configuration, part:                   *)
(*   "crowded"  an inbox of one message, three leases from the remote peer, *)
(*              a client that stops reading                                 *)
(*   "closing"  an inbox of one message and a connection that is closed     *)
(*              from all sides                                              *)
(*   "roomy"    an inbox that never fills, a client that reads, and threads *)
(*              that go on                                                  *)
(***************************************************************************)
EXTENDS SessionBridge

VARIABLE part

Crowded == INSTANCE SessionBridge WITH
    inbox_capacity <- 1, MaxOctets <- 6, MaxReady <- 1,
    AppCloses <- FALSE, ClientReads <- FALSE, ClientFins <- TRUE
Closing == INSTANCE SessionBridge WITH
    inbox_capacity <- 1, MaxOctets <- 2, MaxReady <- 1,
    AppCloses <- TRUE, ClientReads <- FALSE, ClientFins <- TRUE

allVars == <<part, vars>>

MCInit == part \in {"crowded", "closing", "roomy"} /\ Init

MCNext ==
    /\ UNCHANGED part
    /\ \/ part = "crowded" /\ Crowded!Next
       \/ part = "closing" /\ Closing!Next
       \/ part = "roomy" /\ Next

\* The shard's loop keeps turning, a thread inside a callback gets on, and the
\* adapter takes what the session holds for it (Fairness of SessionBridge).
ShardGoesOn == part = "roomy" /\ UNCHANGED part /\ ShardTurns
AppGoesOn == part = "roomy" /\ UNCHANGED part /\ App
AdapterGoesOn == part = "roomy" /\ UNCHANGED part /\ DrainSendQueue

MCSpec ==
    /\ MCInit /\ [][MCNext]_allVars
    /\ WF_allVars(ShardGoesOn) /\ WF_allVars(AppGoesOn) /\ WF_allVars(AdapterGoesOn)

-----------------------------------------------------------------------------
\* With an inbox that never fills and a client that reads, Stop returns: the
\* shard's thread sees kStop and every callback in flight ends.
StopReturns == (part = "roomy" /\ stop.called) ~> sh.pc = "exited"

\* With an inbox that never fills, the close of a session reaches its
\* connection (OnClosed, kSessionClosed).
CloseReachesFlow == (part = "roomy" /\ ses.closed) ~> (~flow.session \/ sh.pc = "exited")

\* With an inbox that never fills, a session that was full and has been drained
\* takes the client's octets again (OnWritable, kSessionWritable).
WritableReachesFlow ==
    (part = "roomy" /\ flow.blocked) ~> (~flow.blocked \/ ~flow.session \/ sh.pc = "exited")

\* With an inbox that never fills, the connection hears everything its session
\* has to say: neither a close nor a drained queue goes unnoticed.
NoticesArrive == CloseReachesFlow /\ WritableReachesFlow
=============================================================================
