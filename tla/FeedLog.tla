------------------------------- MODULE FeedLog -------------------------------
(***************************************************************************)
(* What a chat's feed promises its readers, whatever restarts, retries and *)
(* reordering go on behind it: a slot is written once and for all, and the *)
(* confirmed tip only moves forward over slots that hold their entries     *)
(* (README, "Several slots in flight, confirmed in order" and "One entry   *)
(* per slot").                                                             *)
(***************************************************************************)
EXTENDS Integers

CONSTANTS Slot, Entry, NoEntry

VARIABLES
  log,   \* what each slot holds
  tip    \* the last slot confirmed, -1 before the first

Init == log = [s \in Slot |-> NoEntry] /\ tip = -1

\* Slots may fill in any order, each of them once.
Write(s, e) ==
  /\ log[s] = NoEntry
  /\ log' = [log EXCEPT ![s] = e]
  /\ UNCHANGED tip

\* The tip moves to a slot below which there is no gap.
Confirm(n) ==
  /\ n > tip
  /\ \A s \in Slot : s <= n => log[s] # NoEntry
  /\ tip' = n
  /\ UNCHANGED log

Next ==
  \/ \E s \in Slot, e \in Entry : Write(s, e)
  \/ \E n \in Slot : Confirm(n)

Spec == Init /\ [][Next]_<<log, tip>>
=============================================================================
