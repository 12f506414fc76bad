------------------------------- MODULE MCPeer -------------------------------
(* Instance of Peer for TLC: each of the two users sends a message. *)
EXTENDS Peer, TLC

CONSTANTS a, b

OneEach == (a :> 1) @@ (b :> 1)
=============================================================================
