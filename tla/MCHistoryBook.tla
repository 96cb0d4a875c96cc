---------------------------- MODULE MCHistoryBook ----------------------------
(* Small instances of HistoryBook for TLC. *)
EXTENDS HistoryBook, SequencesExt

(* Restored is what append() makes of a first file and of the rows after it, added one by one. *)
ASSUME RestoredIsAppended ==
  \A start \in [from : 0 .. 2, to : -1 .. 2, prev : {Null, 1}, savedAs : {Null, 1}], added \in 0 .. 4 :
    start.to >= start.from - 1 /\ Cardinality(RowsOf(start)) <= MaxMessages =>
      Restored(start, start.to + added) =
        FoldLeft(LAMBDA acc, row : UNION {Append1(fs, row) : fs \in acc}, {<<start>>},
                 [i \in 1 .. added |-> start.to + i])
=============================================================================
