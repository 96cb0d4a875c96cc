------------------------------ MODULE MCIntake ------------------------------
(* A small instance of Intake for TLC. *)
EXTENDS Intake, TLC

(* Remembered is what RecentIds holds after each of the rows was added, as enterReady() adds them. *)
ASSUME RememberedIsAdded ==
  \A rows \in UNION {[1 .. n -> 1 .. 3] : n \in 0 .. 5} :
    Remembered(rows, 1, Len(rows)) =
      FoldLeft(LAMBDA slots, s : Remembers(rows, slots, s), {}, [s \in 1 .. Len(rows) |-> s])

Symmetry == Permutations(Id)
=============================================================================
