---------------------------- MODULE SlotNotesProofs ----------------------------
(***************************************************************************)
(* The safety of SlotNotes for every length of a time slot, a heartbeat, a *)
(* write and a delay: no address is tried twice, and the silence between   *)
(* two notes is bounded.                                                   *)
(***************************************************************************)
EXTENDS SlotNotes, TLAPS

-----------------------------------------------------------------------------
(* The inductive invariant *)

\* The timer is set while the chat runs and no note is being written, which names a slot.
TimerOK ==
  /\ dueIn # NoTimer <=> running /\ writing = NoNote
  /\ writing # NoNote => running /\ writing.newest \in Slots
  /\ ~running => writtenAgo = Never

\* It is due when the time slot ends: until then, the rest of the slot is left.
DueAtSlotEnd ==
  dueIn # NoTimer =>
    /\ dueIn > 0 => dueIn + phase = SlotTicks
    /\ dueIn <= 0 => phase = -dueIn

\* The slot that is written about has ended, and once the timer is due another one has.
AgesOK ==
  /\ tickedAgo >= 1 /\ triedAgo >= 1
  /\ dueIn <= 0 => tickedAgo >= 2 /\ triedAgo >= 2
  /\ tickedAgo < LongAgo => triedAgo >= tickedAgo

\* When the timer is due, the last note is not older than what may space two notes and a slot.
SilenceAhead ==
  dueIn # NoTimer /\ ~failing /\ writtenAgo # Never => writtenAgo + dueIn < Spacing + SlotTicks

IInv == TypeOK /\ TimerOK /\ DueAtSlotEnd /\ AgesOK /\ SilenceAhead

-----------------------------------------------------------------------------
(* Lemmas *)

(* Two notes are spaced by a heartbeat and by a write at least. *)
LEMMA SpacingIs == Spacing \in Nat /\ Spacing >= Heartbeat /\ Spacing > WriteTicks /\ Silent = Spacing + SlotTicks + Late + 1
BY ConstantsAssumption DEF Spacing, Silent

(* The phase goes round the time slot. *)
LEMMA PhaseIs ==
  ASSUME NEW STATE p, p \in 0 .. SlotTicks - 1
  PROVE  (p + 1) % SlotTicks = IF p + 1 = SlotTicks THEN 0 ELSE p + 1
BY ConstantsAssumption

(* scheduleNextSlotEnd() sets the timer to what is left of the time slot. *)
LEMMA SchedulesIs ==
  ASSUME phase \in 0 .. SlotTicks - 1, Schedules
  PROVE  dueIn' \in 1 .. SlotTicks /\ dueIn' + phase = SlotTicks /\ dueIn' # NoTimer /\ dueIn' \in -Late .. NoTimer
BY ConstantsAssumption DEF Schedules, NoTimer

(* A note names a slot, and NoNote names none. *)
LEMMA NoteIs ==
  ASSUME NEW STATE newest, newest \in Slots, NEW STATE ago
  PROVE  [newest |-> newest, ago |-> ago] # NoNote
<1>1. newest # NothingNamed
  BY ConstantsAssumption DEF Slots, NothingNamed
<1> QED
  BY <1>1 DEF NoNote

(* What scheduling the timer anew keeps, when no note is being written afterwards. *)
LEMMA Rescheduled ==
  ASSUME phase \in 0 .. SlotTicks - 1, Schedules, phase' = phase,
         writing' = NoNote, running' = TRUE
  PROVE  /\ TimerOK' /\ DueAtSlotEnd'
         /\ tickedAgo' >= 1 /\ triedAgo' >= 1 /\ (tickedAgo' < LongAgo => triedAgo' >= tickedAgo') => AgesOK'
<1>1. dueIn' \in 1 .. SlotTicks /\ dueIn' + phase = SlotTicks /\ dueIn' # NoTimer
  BY SchedulesIs
<1>2. TimerOK'
  BY <1>1 DEF TimerOK
<1>3. ~(dueIn' <= 0)
  BY <1>1, ConstantsAssumption
<1>4. DueAtSlotEnd'
  BY <1>1, <1>3 DEF DueAtSlotEnd
<1> QED
  BY <1>2, <1>3, <1>4 DEF AgesOK

-----------------------------------------------------------------------------
(* Every step keeps the inductive invariant *)

LEMMA Step ==
  ASSUME IInv, [Next]_vars
  PROVE  IInv'
<1> USE ConstantsAssumption
<1>0. /\ TypeOK /\ TimerOK /\ DueAtSlotEnd /\ AgesOK /\ SilenceAhead
      /\ phase \in 0 .. SlotTicks - 1 /\ dueIn \in -Late .. NoTimer /\ NoTimer = SlotTicks + 1
  BY DEF IInv, TypeOK, NoTimer
<1>1. CASE Start
  <2>1. /\ ~running /\ writing = NoNote /\ writtenAgo = Never /\ Schedules
        /\ boot' = boot + 1 /\ boot < MaxBoots /\ running' = TRUE
        /\ UNCHANGED <<phase, tickedAgo, writtenAgo, named, failing, writing, confirmed, recorded, triedAgo>>
    BY <1>0, <1>1 DEF Start, TimerOK
  <2>2. TypeOK'
    BY <1>0, <2>1, SchedulesIs, SpacingIs DEF TypeOK, Slots
  <2>3. TimerOK' /\ DueAtSlotEnd' /\ AgesOK'
    BY <1>0, <2>1, Rescheduled DEF AgesOK
  <2> QED
    BY <2>1, <2>2, <2>3 DEF IInv, SilenceAhead
<1>2. CASE Confirm
  BY <1>0, <1>2 DEF Confirm, IInv, TypeOK, TimerOK, DueAtSlotEnd, AgesOK, SilenceAhead, Slots
<1>3. CASE Record
  BY <1>0, <1>3 DEF Record, IInv, TypeOK, TimerOK, DueAtSlotEnd, AgesOK, SilenceAhead, Slots
<1>4. CASE Stop
  <2>1. TypeOK'
    <3>1. dueIn' \in -Late .. NoTimer /\ writtenAgo' \in -1 .. Silent /\ tickedAgo' \in 0 .. LongAgo
      BY <1>0, <1>4, SpacingIs DEF Stop, LongAgo, Never
    <3>2. writing' \in [newest : Slots \cup {NothingNamed}, ago : 0 .. WriteTicks]
      BY <1>4 DEF Stop, NoNote
    <3> QED
      BY <1>0, <1>4, <3>1, <3>2 DEF Stop, TypeOK
  <2>2. TimerOK' /\ DueAtSlotEnd' /\ SilenceAhead'
    BY <1>0, <1>4 DEF Stop, TimerOK, DueAtSlotEnd, SilenceAhead
  <2>3. AgesOK'
    BY <1>0, <1>4 DEF Stop, TypeOK, AgesOK, LongAgo, NoTimer
  <2> QED
    BY <2>1, <2>2, <2>3 DEF IInv
<1>5. CASE FiresAgain
  <2>1. /\ running /\ dueIn # NoTimer /\ writing = NoNote /\ dueIn > 0 /\ dueIn <= 1 /\ Schedules
        /\ UNCHANGED <<boot, running, phase, tickedAgo, writtenAgo, named, failing, writing, confirmed, recorded, triedAgo>>
    BY <1>0, <1>5 DEF FiresAgain, Fires, TickedAlready, TimerOK, AgesOK, TypeOK, LongAgo
  <2>2. TypeOK'
    BY <1>0, <2>1, SchedulesIs DEF TypeOK, Slots
  <2>3. TimerOK' /\ DueAtSlotEnd' /\ AgesOK'
    BY <1>0, <2>1, Rescheduled DEF AgesOK
  <2>4. dueIn' = dueIn
    BY <1>0, <2>1, SchedulesIs DEF DueAtSlotEnd
  <2> QED
    BY <1>0, <2>1, <2>2, <2>3, <2>4 DEF IInv, SilenceAhead
<1>6. CASE SlotQuiet
  <2>1. /\ running /\ dueIn # NoTimer /\ writing = NoNote /\ Schedules /\ tickedAgo' = 1
        /\ writtenAgo # Never /\ writtenAgo < Heartbeat
        /\ UNCHANGED <<boot, running, phase, writtenAgo, named, failing, writing, confirmed, recorded, triedAgo>>
    BY <1>0, <1>6 DEF SlotQuiet, Fires, HeartbeatDue, TimerOK, TypeOK
  <2>2. TypeOK'
    BY <1>0, <2>1, SchedulesIs DEF TypeOK, Slots, LongAgo
  <2>3. TimerOK' /\ DueAtSlotEnd' /\ AgesOK'
    BY <1>0, <2>1, Rescheduled DEF AgesOK
  <2>4. writtenAgo' + dueIn' < Spacing + SlotTicks
    BY <1>0, <2>1, SchedulesIs, SpacingIs DEF TypeOK
  <2> QED
    BY <2>2, <2>3, <2>4 DEF IInv, SilenceAhead
<1>7. CASE NoteBegins
  <2>1. /\ running /\ writing = NoNote /\ dueIn' = NoTimer /\ tickedAgo' = 1 /\ triedAgo' = 1
        /\ writing' = [newest |-> confirmed, ago |-> 0] /\ confirmed \in Slots
        /\ UNCHANGED <<boot, running, phase, writtenAgo, named, failing, confirmed, recorded>>
    BY <1>0, <1>7 DEF NoteBegins, Fires, TimerOK, TypeOK
  <2>2. writing' # NoNote
    BY <2>1, NoteIs
  <2>3. TypeOK'
    <3>1. writing' \in [newest : Slots \cup {NothingNamed}, ago : 0 .. WriteTicks]
      BY <2>1
    <3>2. dueIn' \in -Late .. NoTimer /\ tickedAgo' \in 0 .. LongAgo /\ triedAgo' \in 0 .. LongAgo
      BY <1>0, <2>1 DEF LongAgo
    <3> QED
      BY <1>0, <2>1, <3>1, <3>2 DEF TypeOK
  <2>4. TimerOK' /\ DueAtSlotEnd' /\ SilenceAhead'
    BY <1>0, <2>1, <2>2 DEF TimerOK, DueAtSlotEnd, SilenceAhead, NoTimer
  <2>5. AgesOK'
    BY <1>0, <2>1 DEF AgesOK, NoTimer
  <2> QED
    BY <2>3, <2>4, <2>5 DEF IInv
<1>8. CASE NoteWritten
  <2>1. /\ writing # NoNote /\ running /\ writing' = NoNote /\ Schedules
        /\ writtenAgo' = writing.ago /\ writing.ago \in 0 .. WriteTicks /\ writing.newest \in Slots
        /\ named' \in Slots \cup {NothingNamed} /\ failing' = FALSE
        /\ UNCHANGED <<boot, running, phase, tickedAgo, confirmed, recorded, triedAgo>>
    BY <1>0, <1>8 DEF NoteWritten, TimerOK, TypeOK
  <2>2. TypeOK'
    <3>1. writtenAgo' \in -1 .. Silent
      BY <2>1, SpacingIs
    <3>2. writing' \in [newest : Slots \cup {NothingNamed}, ago : 0 .. WriteTicks]
      BY <2>1 DEF NoNote
    <3> QED
      BY <1>0, <2>1, <3>1, <3>2, SchedulesIs DEF TypeOK
  <2>3. TimerOK' /\ DueAtSlotEnd' /\ AgesOK'
    BY <1>0, <2>1, Rescheduled DEF AgesOK
  <2>4. writtenAgo' + dueIn' < Spacing + SlotTicks
    BY <1>0, <2>1, SchedulesIs, SpacingIs
  <2> QED
    BY <2>2, <2>3, <2>4 DEF IInv, SilenceAhead
<1>9. CASE NoteFails
  <2>1. /\ writing # NoNote /\ running /\ writing' = NoNote /\ Schedules /\ failing' = TRUE
        /\ UNCHANGED <<boot, running, phase, tickedAgo, writtenAgo, named, confirmed, recorded, triedAgo>>
    BY <1>0, <1>9 DEF NoteFails, TimerOK
  <2>2. TypeOK'
    BY <1>0, <2>1, SchedulesIs DEF TypeOK, NoNote, Slots
  <2>3. TimerOK' /\ DueAtSlotEnd' /\ AgesOK'
    BY <1>0, <2>1, Rescheduled DEF AgesOK
  <2> QED
    BY <2>1, <2>2, <2>3 DEF IInv, SilenceAhead
<1>10. CASE Tick
  <2>1. /\ dueIn > -Late
        /\ phase' = IF phase + 1 = SlotTicks THEN 0 ELSE phase + 1
        /\ dueIn' = IF dueIn = NoTimer THEN NoTimer ELSE dueIn - 1
        /\ UNCHANGED <<boot, running, named, failing, confirmed, recorded>>
    BY <1>0, <1>10, PhaseIs DEF Tick
  <2>2. phase' \in 0 .. SlotTicks - 1 /\ dueIn' \in -Late .. NoTimer /\ (dueIn' = NoTimer <=> dueIn = NoTimer)
    BY <1>0, <2>1
  <2>3. /\ tickedAgo' = (IF phase' = 0 /\ tickedAgo < LongAgo THEN tickedAgo + 1 ELSE tickedAgo)
        /\ triedAgo' = (IF phase' = 0 /\ triedAgo < LongAgo THEN triedAgo + 1 ELSE triedAgo)
        /\ tickedAgo \in 0 .. LongAgo /\ triedAgo \in 0 .. LongAgo /\ LongAgo = 3
    BY <1>0, <1>10 DEF Tick, Older, TypeOK, LongAgo
  <2>4. /\ writing = NoNote => writing' = NoNote
        /\ writing # NoNote => /\ writing'.newest = writing.newest /\ writing' # NoNote
                               /\ writing' \in [newest : Slots \cup {NothingNamed}, ago : 0 .. WriteTicks]
    <3>1. CASE writing = NoNote
      BY <1>10, <3>1 DEF Tick
    <3>2. CASE writing # NoNote
      <4>1. writing' = [newest |-> writing.newest, ago |-> writing.ago + 1] /\ writing.ago \in 0 .. WriteTicks - 1
        BY <1>0, <1>10, <3>2 DEF Tick, TypeOK
      <4>2. writing.newest \in Slots
        BY <1>0, <3>2 DEF TimerOK
      <4> QED
        BY <3>2, <4>1, <4>2, NoteIs
    <3> QED
      BY <3>1, <3>2
  <2>5. /\ writtenAgo = Never => writtenAgo' = Never
        /\ writtenAgo # Never => /\ writtenAgo' \in 0 .. Silent /\ writtenAgo' <= writtenAgo + 1
                                 /\ writtenAgo \in 0 .. Silent
    BY <1>0, <1>10, SpacingIs DEF Tick, Older, TypeOK, Never
  <2>6. TypeOK'
    <3>1. writing' \in [newest : Slots \cup {NothingNamed}, ago : 0 .. WriteTicks]
      BY <1>0, <2>4 DEF TypeOK
    <3>2. tickedAgo' \in 0 .. LongAgo /\ triedAgo' \in 0 .. LongAgo
      BY <2>3
    <3>3. writtenAgo' \in -1 .. Silent
      BY <2>5, SpacingIs DEF Never
    <3> QED
      BY <1>0, <2>1, <2>2, <3>1, <3>2, <3>3 DEF TypeOK, Slots
  <2>7. TimerOK'
    BY <1>0, <2>1, <2>2, <2>4, <2>5 DEF TimerOK, Slots, Never
  <2>8. DueAtSlotEnd'
    BY <1>0, <2>1, <2>2 DEF DueAtSlotEnd, NoTimer
  <2>9. AgesOK'
    <3>1. tickedAgo' >= 1 /\ triedAgo' >= 1
      BY <1>0, <2>3 DEF AgesOK
    <3>2. ASSUME dueIn' <= 0 PROVE tickedAgo' >= 2 /\ triedAgo' >= 2
      <4>1. dueIn # NoTimer /\ dueIn' = dueIn - 1
        BY <1>0, <2>1, <3>2
      <4>2. CASE dueIn <= 0
        BY <1>0, <2>3, <4>2 DEF AgesOK
      <4>3. CASE dueIn = 1
        <5>1. phase' = 0
          BY <1>0, <2>1, <4>1, <4>3 DEF DueAtSlotEnd
        <5> QED
          BY <1>0, <2>3, <5>1 DEF AgesOK
      <4> QED
        BY <1>0, <3>2, <4>1, <4>2, <4>3
    <3>3. tickedAgo' < LongAgo => triedAgo' >= tickedAgo'
      BY <1>0, <2>3 DEF AgesOK
    <3> QED
      BY <3>1, <3>2, <3>3 DEF AgesOK, LongAgo
  <2>10. SilenceAhead'
    BY <1>0, <2>1, <2>2, <2>5, SpacingIs DEF SilenceAhead, NoTimer, Never
  <2> QED
    BY <2>6, <2>7, <2>8, <2>9, <2>10 DEF IInv
<1>11. CASE UNCHANGED vars
  BY <1>0, <1>11 DEF vars, IInv, TypeOK, TimerOK, DueAtSlotEnd, AgesOK, SilenceAhead, Slots
<1> QED
  BY <1>1, <1>2, <1>3, <1>4, <1>5, <1>6, <1>7, <1>8, <1>9, <1>10, <1>11 DEF Next, SlotEnded

-----------------------------------------------------------------------------
(* Theorems *)

(* Init satisfies the inductive invariant and every step keeps it. *)
THEOREM Invariance == Spec => []IInv
<1>1. Init => IInv
  <2> SUFFICES ASSUME Init PROVE IInv
    OBVIOUS
  <2>1. TypeOK
    <3>1. /\ dueIn \in -Late .. NoTimer /\ tickedAgo \in 0 .. LongAgo /\ triedAgo \in 0 .. LongAgo
          /\ writtenAgo \in -1 .. Silent
      BY SpacingIs, ConstantsAssumption DEF Init, NoTimer, Never, LongAgo
    <3>2. /\ writing \in [newest : Slots \cup {NothingNamed}, ago : 0 .. WriteTicks]
          /\ named \in Slots \cup {NothingNamed} /\ confirmed \in Slots /\ recorded \in Slots
      BY ConstantsAssumption DEF Init, NoNote, Slots
    <3>3. boot \in 0 .. MaxBoots /\ phase \in 0 .. SlotTicks - 1
      BY ConstantsAssumption DEF Init
    <3>4. running \in BOOLEAN /\ failing \in BOOLEAN
      BY DEF Init
    <3> QED
      BY <3>1, <3>2, <3>3, <3>4 DEF TypeOK
  <2>2. TimerOK /\ DueAtSlotEnd /\ SilenceAhead
    BY ConstantsAssumption DEF Init, TimerOK, DueAtSlotEnd, SilenceAhead, NoTimer
  <2>3. AgesOK
    BY ConstantsAssumption DEF Init, AgesOK, NoTimer, LongAgo
  <2> QED
    BY <2>1, <2>2, <2>3 DEF IInv
<1> QED
  BY <1>1, Step, PTL DEF Spec

(* notes.ts: heartbeats are due at slot ends only, from a timer that may be late, and after a write that may take long:
   the silence of a chat is longer than a heartbeat by that much at most. *)
THEOREM SilenceBound == Spec => []SilenceIsBounded
<1>1. ASSUME IInv PROVE SilenceIsBounded
  <2>1. dueIn \in -Late .. NoTimer /\ NoTimer = SlotTicks + 1 /\ writtenAgo \in -1 .. Silent
    BY <1>1 DEF IInv, TypeOK, NoTimer
  <2>2. ASSUME ~failing, writing = NoNote PROVE writtenAgo < Spacing + SlotTicks + Late
    <3>1. CASE writtenAgo = Never
      BY <3>1, SpacingIs, ConstantsAssumption DEF Never
    <3>2. CASE writtenAgo # Never
      <4>1. writtenAgo + dueIn < Spacing + SlotTicks
        BY <1>1, <2>2, <3>2 DEF IInv, TimerOK, SilenceAhead
      <4> QED
        BY <2>1, <4>1, SpacingIs, ConstantsAssumption
    <3> QED
      BY <3>1, <3>2
  <2> QED
    BY <1>1, <2>2 DEF IInv, SilenceIsBounded
<1> QED
  BY <1>1, Invariance, PTL

(* slotEnded() never tries an address twice, except by a timer that fires early after a restart. *)
THEOREM AddressesTriedOnce == Spec => OneTryPerAddress
<1>1. ASSUME IInv, [Next]_vars, writing = NoNote, writing' # NoNote
      PROVE  triedAgo > 1 \/ (tickedAgo = LongAgo /\ dueIn > 0)
  <2>1. NoteBegins
    BY <1>1 DEF Next, vars, SlotEnded, Start, Confirm, Record, Stop, FiresAgain, SlotQuiet, NoteWritten, NoteFails, Tick
  <2>2. /\ tickedAgo > 1 /\ tickedAgo \in 0 .. LongAgo /\ triedAgo \in 0 .. LongAgo /\ LongAgo = 3
        /\ dueIn \in -Late .. NoTimer /\ NoTimer = SlotTicks + 1
    BY <1>1, <2>1 DEF NoteBegins, TickedAlready, IInv, TypeOK, LongAgo, NoTimer
  <2> QED
    BY <1>1, <2>2, ConstantsAssumption DEF IInv, AgesOK
<1>2. IInv /\ [Next]_vars =>
        [writing = NoNote /\ writing' # NoNote => triedAgo > 1 \/ (tickedAgo = LongAgo /\ dueIn > 0)]_vars
  BY <1>1
<1> QED
  BY <1>2, Invariance, PTL DEF Spec, OneTryPerAddress

=============================================================================
