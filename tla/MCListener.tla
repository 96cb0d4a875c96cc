----------------------------- MODULE MCListener -----------------------------
(* A small instance of Listener for TLC. *)
EXTENDS Listener
=============================================================================
