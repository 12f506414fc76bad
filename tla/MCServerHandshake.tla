------------------------- MODULE MCServerHandshake -------------------------
(* Instance of ServerHandshake for TLC. *)
EXTENDS ServerHandshake
=============================================================================
