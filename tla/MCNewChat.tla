----------------------------- MODULE MCNewChat -----------------------------
(* Small instances of NewChat for TLC. *)
EXTENDS NewChat
=============================================================================
