----------------------------- MODULE MCUpdater -----------------------------
(* Instance of Updater for TLC. *)
EXTENDS Updater
=============================================================================
