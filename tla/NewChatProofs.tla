---------------------------- MODULE NewChatProofs ----------------------------
(***************************************************************************)
(* What NewChat promises for every number of slots and of wrong answers: a *)
(* chat with entries is taken for new only after four wrong answers, and   *)
(* the walk ends early only after two.                                     *)
(***************************************************************************)
EXTENDS NewChat, TLAPS

-----------------------------------------------------------------------------
(* The inductive invariant: how many wrong answers it took to get to a request *)

\* Each request on the way to "new" was reached over one more wrong answer, if the chat had entries when it began.
LiesTold ==
  before > 0 =>
    /\ at = "slotZero" => lies >= 1
    /\ at = "slotZeroAgain" => lies >= 2
    /\ at \in {"readiness", "topology", "secondNode"} => lies >= 3
    /\ at = "new" => lies >= 4 /\ faraway >= 1

\* The second read at the end of a walk comes after a wrong answer, if the walk is not at the end.
WalkedPast ==
  head + 1 < before =>
    /\ at = "walkAgain" => lies >= 1
    /\ at = "found" => lies >= 2

IInv == TypeOK /\ LiesTold /\ WalkedPast

-----------------------------------------------------------------------------

(* An absent slot that was written costs a wrong answer, and any other answer costs none. *)
LEMMA AbsentCosts ==
  ASSUME TypeOK, NEW STATE slot, slot \in Int, AnswersAbsent(slot)
  PROVE  /\ lies' \in 0 .. MaxLies /\ lies' >= lies
         /\ slot < written => lies' = lies + 1
BY ConstantsAssumption DEF TypeOK, AnswersAbsent, Lies

(* An attempt begins with no wrong answer. *)
LEMMA InitInv == Init => IInv
BY ConstantsAssumption DEF Init, IInv, TypeOK, LiesTold, WalkedPast

(* A slot that is found was written, and leads to the walk. *)
LEMMA FindsInv ==
  ASSUME IInv, NEW STATE slot, slot \in Nat, Finds(slot)
  PROVE  IInv'
BY ConstantsAssumption DEF IInv, TypeOK, LiesTold, WalkedPast, Finds

(* Every request, answer and failure, and every write of another server, keeps the count. *)
LEMMA NextInv == IInv /\ [Next]_vars => IInv'
<1> SUFFICES ASSUME IInv, [Next]_vars PROVE IInv'
  OBVIOUS
<1> USE ConstantsAssumption
<1>1. CASE LookupFinds
  BY <1>1, FindsInv DEF LookupFinds
<1>2. CASE LookupFindsNothing
  BY <1>2, AbsentCosts DEF LookupFindsNothing, Asks, IInv, TypeOK, LiesTold, WalkedPast
<1>3. CASE SlotZeroFound
  BY <1>3, FindsInv DEF SlotZeroFound
<1>4. CASE SlotZeroAbsent
  BY <1>4, AbsentCosts DEF SlotZeroAbsent, Asks, IInv, TypeOK, LiesTold, WalkedPast
<1>5. CASE WriterReady
  BY <1>5 DEF WriterReady, Asks, IInv, TypeOK, LiesTold, WalkedPast
<1>6. CASE WriterHasPeers
  BY <1>6 DEF WriterHasPeers, Asks, IInv, TypeOK, LiesTold, WalkedPast
<1>7. CASE SecondNodeAgrees
  BY <1>7, AbsentCosts DEF SecondNodeAgrees, Asks, IInv, TypeOK, LiesTold, WalkedPast
<1>8. CASE WalkFinds
  BY <1>8, FindsInv DEF WalkFinds, IInv, TypeOK
<1>9. CASE WalkEnds
  <2>1. head + 1 \in Int
    BY DEF IInv, TypeOK
  <2>2. /\ lies' \in 0 .. MaxLies /\ lies' >= lies
        /\ head + 1 < written => lies' = lies + 1
    BY <1>9, <2>1, AbsentCosts DEF WalkEnds, IInv
  <2> QED
    BY <1>9, <2>2 DEF WalkEnds, Asks, IInv, TypeOK, LiesTold, WalkedPast
<1>10. CASE Fails
  BY <1>10 DEF Fails, IInv, TypeOK, LiesTold, WalkedPast
<1>11. CASE TriesAgain
  BY <1>11 DEF TriesAgain, IInv, TypeOK, LiesTold, WalkedPast
<1>12. CASE OtherWrites
  BY <1>12 DEF OtherWrites, IInv, TypeOK, LiesTold, WalkedPast
<1>13. CASE UNCHANGED vars
  BY <1>13 DEF vars, IInv, TypeOK, LiesTold, WalkedPast
<1> QED
  BY <1>1, <1>2, <1>3, <1>4, <1>5, <1>6, <1>7, <1>8, <1>9, <1>10, <1>11, <1>12, <1>13 DEF Next

(* The count of wrong answers fits the request awaited in every reachable state. *)
THEOREM Invariance == Spec => []IInv
BY InitInv, NextInv, PTL DEF Spec

(* newChat.ts, findHeadWithoutCheckpoint(): a chat with entries is started at slot 0 only after four wrong answers in a row, one of
   them by the second node. *)
THEOREM NewAfterFourLies == Spec => []NewTakesFourLies
<1>1. IInv => NewTakesFourLies
  BY DEF IInv, LiesTold, NewTakesFourLies
<1> QED
  BY <1>1, Invariance, PTL

(* chat.ts, resumeFromFeed(): the walk ends before a slot that was there when it began only after two wrong answers. *)
THEOREM WalkIsComplete == Spec => []WalkReachesTheEnd
<1>1. IInv => WalkReachesTheEnd
  BY DEF IInv, TypeOK, WalkedPast, WalkReachesTheEnd
<1> QED
  BY <1>1, Invariance, PTL
=============================================================================
