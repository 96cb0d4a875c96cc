------------------------------ MODULE SlotNotes ------------------------------
(***************************************************************************)
(* The slot notes of one chat (src/feed/notes.ts): once a time slot ends,  *)
(* a note names the newest confirmed slot, at an address that belongs to   *)
(* that time slot.                                                         *)
(*                                                                         *)
(* Time is counted in ticks, SlotTicks to a time slot, and only as ages:   *)
(* how long ago something happened, up to a cap from which on its age no   *)
(* longer matters. A timer may fire late, or, by the difference between    *)
(* the timer's clock and the wall clock, a tick early.                     *)
(***************************************************************************)
EXTENDS Integers

CONSTANTS
  SlotTicks,     \* timings.slotMs
  Heartbeat,     \* timings.heartbeatMs
  Early,         \* how early a timer may fire, in ticks
  Late,          \* how late a timer may fire
  WriteTicks,    \* how long a write takes at most, the request's timeout
  MaxConfirmed,  \* bound: the last slot confirmed
  MaxBoots       \* bound: how often the chat is started

ASSUME ConstantsAssumption ==
  /\ SlotTicks \in Nat /\ SlotTicks >= 2
  /\ Heartbeat \in Nat /\ Heartbeat >= SlotTicks
  /\ Early \in 0 .. 1 /\ Late \in Nat /\ Late < SlotTicks
  /\ WriteTicks \in Nat \ {0}
  /\ MaxConfirmed \in Nat /\ MaxBoots \in Nat \ {0}

VARIABLES
  boot,       \* how often the chat was started
  running,
  phase,      \* the tick within the current time slot
  dueIn,      \* the ticks until the timer is due, or NoTimer
  tickedAgo,  \* how many time slots ago lastTickedSlot is
  writtenAgo, \* how many ticks ago lastWrittenAt is, or Never
  named,
  failing,    \* lastError is set
  writing,    \* the note being written: what it names and how long ago it was begun
  confirmed,  \* newest(): the newest slot confirmed
  recorded,   \* the newest slot confirmed in the checkpoint, which a restart continues from
  triedAgo    \* how many time slots ago the newest note lies that any boot tried to write

vars == <<boot, running, phase, dueIn, tickedAgo, writtenAgo, named, failing, writing, confirmed, recorded, triedAgo>>

NothingNamed == -2
Never   == -1
NoTimer == SlotTicks + 1
NoNote  == [newest |-> NothingNamed, ago |-> 0]

\* Ages are capped where nothing depends on them any more.
LongAgo  == 3
\* The time that a note may take to be followed by another: the heartbeat, unless its own write takes longer.
Spacing  == IF WriteTicks < Heartbeat THEN Heartbeat ELSE WriteTicks + 1
Silent   == Spacing + SlotTicks + Late + 1
Older(age, cap) == IF age < cap THEN age + 1 ELSE cap

Init ==
  /\ boot = 0 /\ running = FALSE
  /\ phase \in 0 .. SlotTicks - 1
  /\ dueIn = NoTimer /\ tickedAgo = LongAgo /\ writtenAgo = Never /\ triedAgo = LongAgo
  /\ named = NothingNamed /\ failing = FALSE /\ writing = NoNote
  /\ confirmed = -1 /\ recorded = -1

\* scheduleNextSlotEnd()
Schedules == dueIn' = SlotTicks - phase

-----------------------------------------------------------------------------
(* What the publisher does *)

\* start(), by enterReady().
Start ==
  /\ boot < MaxBoots /\ ~running /\ boot' = boot + 1
  /\ running' = TRUE
  /\ Schedules
  /\ UNCHANGED <<phase, tickedAgo, writtenAgo, named, failing, writing, confirmed, recorded, triedAgo>>

Confirm ==
  /\ running /\ confirmed < MaxConfirmed
  /\ confirmed' = confirmed + 1
  /\ UNCHANGED <<boot, running, phase, dueIn, tickedAgo, writtenAgo, named, failing, writing, recorded, triedAgo>>

\* The confirmation reaches the checkpoint.
Record ==
  /\ running /\ recorded' = confirmed
  /\ UNCHANGED <<boot, running, phase, dueIn, tickedAgo, writtenAgo, named, failing, writing, confirmed, triedAgo>>

\* The chat is stopped, evicted or killed. Its next start makes another writer of notes, which knows nothing of this
\* one's, and continues from the checkpoint.
Stop ==
  /\ running
  /\ running' = FALSE /\ dueIn' = NoTimer
  /\ tickedAgo' = LongAgo /\ writtenAgo' = Never /\ named' = NothingNamed /\ failing' = FALSE /\ writing' = NoNote
  /\ confirmed' = recorded
  /\ UNCHANGED <<boot, phase, recorded, triedAgo>>

-----------------------------------------------------------------------------
(* slotEnded() *)

Fires == running /\ dueIn # NoTimer /\ dueIn <= Early

TickedAlready_Never == FALSE

\* The time slot before the current one was ticked before: the timer fired early.
TickedAlready == tickedAgo <= 1

HeartbeatDue_TooLate == writtenAgo = Never \/ writtenAgo > Heartbeat

HeartbeatDue == writtenAgo = Never \/ writtenAgo >= Heartbeat

FiresAgain ==
  /\ Fires /\ TickedAlready
  /\ Schedules
  /\ UNCHANGED <<boot, running, phase, tickedAgo, writtenAgo, named, failing, writing, confirmed, recorded, triedAgo>>

\* Nothing newer to name, and a note was written not long ago.
SlotQuiet ==
  /\ Fires /\ ~TickedAlready
  /\ confirmed <= named /\ ~HeartbeatDue
  /\ tickedAgo' = 1
  /\ Schedules
  /\ UNCHANGED <<boot, running, phase, writtenAgo, named, failing, writing, confirmed, recorded, triedAgo>>

\* The timer is set again only once the write has ended.
NoteBegins ==
  /\ Fires /\ ~TickedAlready
  /\ confirmed > named \/ HeartbeatDue
  /\ tickedAgo' = 1 /\ triedAgo' = 1
  /\ writing' = [newest |-> confirmed, ago |-> 0]
  /\ dueIn' = NoTimer
  /\ UNCHANGED <<boot, running, phase, writtenAgo, named, failing, confirmed, recorded>>

NoteWritten ==
  /\ writing # NoNote
  /\ named' = IF writing.newest > named THEN writing.newest ELSE named
  /\ writtenAgo' = writing.ago /\ failing' = FALSE
  /\ writing' = NoNote
  /\ Schedules
  /\ UNCHANGED <<boot, running, phase, tickedAgo, confirmed, recorded, triedAgo>>

NoteFails_WithoutTimer ==
  /\ writing # NoNote
  /\ failing' = TRUE /\ writing' = NoNote
  /\ UNCHANGED <<boot, running, phase, dueIn, tickedAgo, writtenAgo, named, confirmed, recorded, triedAgo>>

\* What the note would have said stays unnamed.
NoteFails ==
  /\ writing # NoNote
  /\ failing' = TRUE
  /\ writing' = NoNote
  /\ Schedules
  /\ UNCHANGED <<boot, running, phase, tickedAgo, writtenAgo, named, confirmed, recorded, triedAgo>>

-----------------------------------------------------------------------------
\* A tick passes, unless a timer is as late, or a write as long, as it may be.
Tick ==
  /\ dueIn > -Late /\ (writing # NoNote => writing.ago < WriteTicks)
  /\ phase' = (phase + 1) % SlotTicks
  /\ dueIn' = IF dueIn = NoTimer THEN NoTimer ELSE dueIn - 1
  /\ tickedAgo' = IF phase' = 0 THEN Older(tickedAgo, LongAgo) ELSE tickedAgo
  /\ triedAgo' = IF phase' = 0 THEN Older(triedAgo, LongAgo) ELSE triedAgo
  /\ writtenAgo' = IF writtenAgo = Never THEN Never ELSE Older(writtenAgo, Silent)
  /\ writing' = IF writing = NoNote THEN NoNote ELSE [writing EXCEPT !.ago = @ + 1]
  /\ UNCHANGED <<boot, running, named, failing, confirmed, recorded>>

SlotEnded == FiresAgain \/ SlotQuiet \/ NoteBegins

Next ==
  \/ Start \/ Confirm \/ Record \/ Stop
  \/ SlotEnded \/ NoteWritten \/ NoteFails
  \/ Tick

Spec == Init /\ [][Next]_vars

\* Time passes, timers fire, writes end, and they do not all fail for ever.
FairSpec ==
  /\ Spec
  /\ WF_vars(Tick) /\ WF_vars(SlotEnded) /\ WF_vars(NoteWritten \/ NoteFails) /\ SF_vars(NoteWritten)

-----------------------------------------------------------------------------
(* Properties *)

Slots == -1 .. MaxConfirmed

\* Every variable holds a value of its type.
TypeOK ==
  /\ boot \in 0 .. MaxBoots /\ running \in BOOLEAN /\ failing \in BOOLEAN
  /\ phase \in 0 .. SlotTicks - 1 /\ dueIn \in -Late .. NoTimer
  /\ tickedAgo \in 0 .. LongAgo /\ triedAgo \in 0 .. LongAgo /\ writtenAgo \in -1 .. Silent
  /\ named \in Slots \cup {NothingNamed} /\ confirmed \in Slots /\ recorded \in Slots
  /\ writing \in [newest : Slots \cup {NothingNamed}, ago : 0 .. WriteTicks]

(* A note "is never written again at its address" (README "Slot notes"), whether it failed or not and however late its
   timer fired: no note is begun for a time slot that was tried before, or for an earlier one. Over a restart, which
   forgets lastTickedSlot, only a timer that fires early may do so. *)
OneTryPerAddress ==
  [][writing = NoNote /\ writing' # NoNote => triedAgo > 1 \/ (tickedAgo = LongAgo /\ dueIn > 0)]_vars

(* Viewers are told of everything: a confirmed slot is named in the end, through failed notes, slow ones and timers
   that fire early, as long as the chat runs. *)
NewestNamed ==
  \A c \in 0 .. MaxConfirmed : []((running /\ confirmed >= c) => <>(named >= c \/ ~running))

(* README: NOTE_HEARTBEAT_MS is "the longest an active chat goes without a note". A time slot and the lateness of a
   timer have to be added, since heartbeats are due at slot ends only, and counted from a timer that may have been
   late, and so has the time of a write that takes longer than a heartbeat, which the settings allow: while no note
   fails or is under way, the chat was not silent for longer. No timer is set for longer than a time slot, as TypeOK
   has it. *)
SilenceIsBounded == TypeOK /\ (~failing /\ writing = NoNote => writtenAgo < Spacing + SlotTicks + Late)
=============================================================================
