--------------------------- MODULE MCServerRelay ---------------------------
(* Instances of ServerRelay for TLC: a member with two connections, and a  *)
(* group of three members.                                                 *)
EXTENDS ServerRelay, TLC

CONSTANTS u1, u2, u3, a1, a2, b, c

TwoOwners   == (a1 :> u1) @@ (a2 :> u1) @@ (b :> u2)
ThreeOwners == (a1 :> u1) @@ (b :> u2) @@ (c :> u3)

\* The member with two connections is sent two messages.
TwoToU1 == (a1 :> 0) @@ (a2 :> 0) @@ (b :> 2)
\* Two readers forward to the same channels, one of them two messages.
TwoSend == (a1 :> 2) @@ (b :> 1) @@ (c :> 0)
=============================================================================
