--------------------------- MODULE MCConversation ---------------------------
(* Instance of Conversation for TLC. *)
EXTENDS Conversation
=============================================================================
