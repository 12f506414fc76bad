--------------------------- MODULE MCClientServer ---------------------------
(* Instance of ClientServer for TLC. *)
EXTENDS ClientServer
=============================================================================
