------------------------------- MODULE NewChat -------------------------------
(***************************************************************************)
(* How a chat without a checkpoint finds the end of its feed: the checks   *)
(* of src/newChat.ts before an absent slot 0 is believed, and the walk of  *)
(* resumeFromFeed() (src/chat.ts) from the slot it finds.                  *)
(*                                                                         *)
(* A node that answers 404 for what is there tells a lie: a failed lookup  *)
(* and a node without peers answer the same. Lies are counted. Another     *)
(* server may write on while the chat is resumed.                          *)
(***************************************************************************)
EXTENDS Integers

CONSTANTS
  MaxSlots,   \* bound: the slots another server may have written
  MaxLies     \* bound: how many answers may be wrong

ASSUME ConstantsAssumption == MaxSlots \in Nat \ {0} /\ MaxLies \in Nat

VARIABLES
  written,   \* how many slots of the feed hold an entry
  before,    \* how many did when this attempt began
  at,        \* the request that is awaited, or how the attempt ended
  head,      \* the last slot found, -1 for none
  lies,      \* how many answers of this attempt were wrong
  faraway    \* how many of them the second node gave

vars == <<written, before, at, head, lies, faraway>>

Init ==
  /\ written \in 0 .. MaxSlots /\ before = written
  /\ at = "lookup" /\ head = -1 /\ lies = 0 /\ faraway = 0

\* A slot that is there is answered as absent.
Lies == lies < MaxLies /\ lies' = lies + 1

\* A node answers that a slot is absent.
AnswersAbsent(slot) == IF slot < written THEN Lies ELSE lies' = lies

Finds(slot) ==
  /\ slot < written
  /\ head' = slot /\ at' = "walk"
  /\ UNCHANGED <<written, before, lies, faraway>>

Asks(request) == at' = request /\ UNCHANGED <<written, before, head>>

-----------------------------------------------------------------------------
(* findHeadWithoutCheckpoint() *)

\* The lookup finds an update, not necessarily the newest one.
LookupFinds == at = "lookup" /\ \E slot \in 0 .. MaxSlots - 1 : Finds(slot)

LookupFindsNothing ==
  /\ at = "lookup"
  /\ AnswersAbsent(0)
  /\ Asks("slotZero") /\ UNCHANGED faraway

SlotZeroFound == at \in {"slotZero", "slotZeroAgain", "secondNode"} /\ Finds(0)

\* readSlot() believes an absent slot only when a second read says the same.
SlotZeroAbsent ==
  /\ at \in {"slotZero", "slotZeroAgain"}
  /\ AnswersAbsent(0)
  /\ Asks(IF at = "slotZero" THEN "slotZeroAgain" ELSE "readiness") /\ UNCHANGED faraway

WriterReady == at = "readiness" /\ Asks("topology") /\ UNCHANGED <<lies, faraway>>

WriterHasPeers_IsEnough == at = "topology" /\ at' = "new" /\ UNCHANGED <<written, before, head, lies, faraway>>

WriterHasPeers == at = "topology" /\ Asks("secondNode") /\ UNCHANGED <<lies, faraway>>

\* The second node is read once.
SecondNodeAgrees ==
  /\ at = "secondNode"
  /\ AnswersAbsent(0)
  /\ faraway' = faraway + (lies' - lies)
  /\ Asks("new")

\* A request fails, the writing node is not ready or has too few peers: resume() tries again later, from the start.
Fails ==
  /\ at \notin {"new", "found", "retry"}
  /\ at' = "retry"
  /\ UNCHANGED <<written, before, head, lies, faraway>>

TriesAgain ==
  /\ at = "retry"
  /\ at' = "lookup" /\ head' = -1 /\ lies' = 0 /\ faraway' = 0 /\ before' = written
  /\ UNCHANGED written

-----------------------------------------------------------------------------
(* resumeFromFeed(): the walk from the slot found *)

WalkFinds ==
  /\ at \in {"walk", "walkAgain"}
  /\ Finds(head + 1)

WalkEnds_AtOnce ==
  /\ at = "walk"
  /\ AnswersAbsent(head + 1)
  /\ Asks("found") /\ UNCHANGED faraway

WalkEnds ==
  /\ at \in {"walk", "walkAgain"}
  /\ AnswersAbsent(head + 1)
  /\ Asks(IF at = "walk" THEN "walkAgain" ELSE "found") /\ UNCHANGED faraway

\* Another server writes the next slot.
OtherWrites ==
  /\ written < MaxSlots /\ written' = written + 1
  /\ UNCHANGED <<before, at, head, lies, faraway>>

Next ==
  \/ LookupFinds \/ LookupFindsNothing \/ SlotZeroFound \/ SlotZeroAbsent
  \/ WriterReady \/ WriterHasPeers \/ SecondNodeAgrees
  \/ WalkFinds \/ WalkEnds \/ Fails \/ TriesAgain
  \/ OtherWrites

Spec == Init /\ [][Next]_vars

-----------------------------------------------------------------------------
(* Properties *)

\* Every variable holds a value of its type.
TypeOK ==
  /\ written \in 0 .. MaxSlots /\ before \in 0 .. written
  /\ head \in -1 .. MaxSlots - 1
  /\ lies \in 0 .. MaxLies /\ faraway \in 0 .. lies
  /\ at \in {"lookup", "slotZero", "slotZeroAgain", "readiness", "topology", "secondNode", "walk", "walkAgain",
             "found", "new", "retry"}

(* "This is the one place a wrong answer would restart a chat at 0" (newChat.ts): a chat with entries is started as
   new only after four wrong answers in a row, one of them by another node, however lookups, reads and failed
   attempts follow on each other. The head that a walk takes up is a slot that was written, as TypeOK has it. *)
NewTakesFourLies == TypeOK /\ (at = "new" /\ before > 0 => lies >= 4 /\ faraway >= 1)

(* The walk passes no entry that was there when it began, unless two reads in a row were wrong: the chat continues
   after the last slot, or after a later one another server has written meanwhile. *)
WalkReachesTheEnd == at = "found" /\ lies < 2 => head + 1 >= before

=============================================================================
