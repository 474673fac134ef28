-------------------------- MODULE MCPeerConnections --------------------------
(***************************************************************************)
(* A storage node that dials twice: the watchdog finds its first           *)
(* connection lost before, while and after it comes back on the second,    *)
(* and what was under way on the first arrives late.                       *)
(***************************************************************************)
EXTENDS PeerConnections

CONSTANTS peer, c1, c2

MCOwner == [c \in {c1, c2} |-> peer]
=============================================================================
