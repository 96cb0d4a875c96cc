---------------------------- MODULE MCOtherWriter ----------------------------
(* Small instances of OtherWriter for TLC. *)
EXTENDS OtherWriter, TLC

Symmetry == Permutations(Message)
=============================================================================
