--------------------------- MODULE MCUdpFlowTable ---------------------------
(* Three clients for a table of two flows. *)
EXTENDS UdpFlowTable

CONSTANTS k1, k2, k3

Keys3 == {k1, k2, k3}
=============================================================================
