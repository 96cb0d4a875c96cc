----------------------------- MODULE MCSlotNotes -----------------------------
(* Small instances of SlotNotes for TLC. *)
EXTENDS SlotNotes
=============================================================================
