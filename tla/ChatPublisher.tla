---------------------------- MODULE ChatPublisher ----------------------------
(***************************************************************************)
(* One chat's publisher (src/chat.ts) with its checkpoint file             *)
(* (src/checkpoint.ts) and the slots of its feed (src/feed/slots.ts).      *)
(*                                                                         *)
(* The publisher is single-threaded JavaScript: what runs between two      *)
(* awaits is one action here, and every await (a read or a write of Swarm, *)
(* a checkpoint write, a backoff, a pause) is a point where any other      *)
(* action, a crash included, may come first.                               *)
(*                                                                         *)
(* An entry's bytes are abstracted to the message they carry and the boot  *)
(* of the process that staged it, which stands for the receive time and    *)
(* the history link: two boots never encode a message to the same bytes.   *)
(* Boot 0 stands for a process that is not this server.                    *)
(***************************************************************************)
EXTENDS Integers, FiniteSets, Sequences

CONSTANTS
  Message,        \* the checked messages senders send, by addr and id
  MaxSlots,       \* bound: the feed slots a behaviour may use
  Window,         \* timings.publishWindow
  QueueLimit,     \* timings.queueLimit
  MaxBoots,       \* bound: how often the process is started
  Misses,         \* whether a read may miss an entry that is there
  NoEntry,        \* an empty slot
  NoCheckpoint,   \* no checkpoint file, or no checkpoint write running
  Damaged         \* a checkpoint file that is there and cannot be read

Slot  == 0 .. MaxSlots - 1
Bytes == [msg : Message, boot : 0 .. MaxBoots]

\* What another writer may put in a slot, which may or may not parse as an entry of this chat.
Foreign == [msg : Message, boot : {0}]

(* What the checkpoint records: the last slot confirmed in order, the      *)
(* entry of each slot in flight and of each slot up to it, which stands    *)
(* for its row or for the history file it links to, and whether there is a *)
(* gap between that file and the rows.                                     *)
Checkpoint == [index : -1 .. MaxSlots - 1, entries : [Slot -> Bytes \cup {NoEntry}], gap : BOOLEAN]

(* Who waits for a checkpoint write: the delivery of a slot that confirmed *)
(* (that slot), or one of the three below.                                 *)
Persist == -1     \* persist(), before the staged slots are written
Record  == -2     \* resumeFromFeed(), which makes the first checkpoint
History == -3     \* recordHistory(), after a history file is saved
Requester == Slot \cup {Persist, Record, History}

ASSUME ConstantsAssumption ==
  /\ MaxSlots \in Nat \ {0}
  /\ Window \in Nat \ {0}
  /\ QueueLimit \in Nat \ {0}
  /\ MaxBoots \in Nat \ {0}
  /\ Misses \in BOOLEAN

ASSUME SentinelAssumption ==
  /\ NoEntry \notin Bytes
  /\ NoCheckpoint \notin Checkpoint
  /\ Damaged \notin Checkpoint
  /\ NoCheckpoint # Damaged

VARIABLES
  \* the process and the publisher's mode
  boot,           \* how often the process was started
  state,          \* stateValue, or "down" while no process runs
  stopped,        \* stop() was called
  draining,       \* drain() was called, which also ends accepting
  notesOn,        \* the slot notes' timer runs
  saving,         \* the history book is saving (history.isSaving)
  \* the publish loop run()
  loop,           \* where it awaits
  staged,         \* the slots of the batch persist() is recording
  readFirst,      \* that batch's readFirst
  \* messages
  queue, queuedIds, publishedIds,
  \* slots
  confirmed,      \* confirmedIndex
  nextIndex,
  pending,        \* the slots with an entry in flight
  entry,          \* the entry of each confirmed or pending slot
  landed,         \* the pending slots known to hold their entry
  tipConfirmed,
  task,           \* where the delivery of each slot awaits
  \* checkpoint writes
  chain,          \* checkpointWrites: who waits, in order, the running one first
  snapshot,       \* what the running write puts in the file
  disk,           \* the checkpoint file
  \* Swarm
  feed,           \* what each slot of the feed holds
  sent            \* every <<slot, bytes>> ever sent to a slot

life   == <<boot, state, stopped, draining, notesOn>>
intake == <<queue, queuedIds, publishedIds>>
slots  == <<confirmed, nextIndex, pending, entry, landed, tipConfirmed>>
batch  == <<staged, readFirst>>
record == <<chain, snapshot, disk>>
swarm  == <<feed, sent>>
vars   == <<life, saving, loop, batch, intake, slots, task, record, swarm>>

-----------------------------------------------------------------------------
(* Small helpers. A definition named X_Without... or X_With... is a mutated form of X, a bug the properties must   *)
(* catch; no other definition uses one.                                                                           *)

Running == state # "down"

HasCheckpoint == disk \notin {NoCheckpoint, Damaged}

Accepting_WhileDraining == ~stopped

\* accepting, which drain() and stop() end.
Accepting == ~draining /\ ~stopped

Woken_WithoutWake == loop

\* this.wake?.(): ends a pause of the loop, and does nothing to a loop that is not paused.
Woken == IF loop \in {"paused", "retry"} THEN "turn" ELSE loop

StillDelivering_WithoutStop(s) == s \in pending

StillDelivering(s) == ~stopped /\ s \in pending

\* Whether history.rowsAfter() may leave out rows, as it does after a file was closed during its own upload: rows it
\* had, rows added to it meanwhile and rows of the next file, three or more. HistoryBook says exactly when.
MayLackRows == IF tipConfirmed /\ confirmed >= 2 THEN BOOLEAN ELSE {FALSE}

Records(held, lacksRows) ==
  [index   |-> confirmed,
   entries |-> [s \in Slot |-> IF s <= confirmed \/ s \in held THEN entry[s] ELSE NoEntry],
   gap     |-> lacksRows]

Current_WithoutPending(lacksRows) == Records({}, lacksRows)
Current_BatchOnly(lacksRows) == Records(staged, lacksRows)

\* What a checkpoint write that starts now records.
Current(lacksRows) == Records(pending, lacksRows)

InFlight_Without(c) == {}

InFlight(c) == {s \in Slot : s > c.index /\ c.entries[s] # NoEntry}

RowsRunOn(c) == ~c.gap

PendingRunsOn(c) == \A s \in InFlight(c) : \A t \in (c.index + 1) .. s : t \in InFlight(c)

\* The check of a checkpoint read back: rows that run on from the history file up to its index, and pending entries
\* that run on from there.
RunsOn(c) == RowsRunOn(c) /\ PendingRunsOn(c)

\* The queue's first n messages without those published since they were queued.
Fresh(n) == SelectSeq(SubSeq(queue, 1, n), LAMBDA m : m \notin publishedIds)

\* The free places of the window, and of the slots a behaviour may use.
HasRoomFor(k) == Cardinality(pending) + k <= Window /\ nextIndex + k <= MaxSlots

-----------------------------------------------------------------------------
(* Starting, stopping and crashing *)

NoSlots == [s \in Slot |-> NoEntry]
NoTasks == [s \in Slot |-> "none"]

\* Nothing runs yet, and nothing was ever written.
Init ==
  /\ boot = 0 /\ state = "down" /\ loop = "returned"
  /\ stopped = FALSE /\ draining = FALSE /\ notesOn = FALSE /\ saving = FALSE
  /\ staged = {} /\ readFirst = FALSE
  /\ queue = <<>> /\ queuedIds = {} /\ publishedIds = {}
  /\ confirmed = -1 /\ nextIndex = 0 /\ pending = {} /\ landed = {} /\ tipConfirmed = FALSE
  /\ entry = NoSlots /\ task = NoTasks
  /\ chain = <<>> /\ snapshot = NoCheckpoint /\ disk = NoCheckpoint
  /\ feed = NoSlots /\ sent = {}

Start ==
  /\ state = "down" /\ boot < MaxBoots
  /\ boot' = boot + 1 /\ state' = "resuming" /\ loop' = "resuming"
  /\ UNCHANGED <<stopped, draining, notesOn, saving, batch, intake, slots, task, record, swarm>>

\* The process ends, and keeps only the checkpoint file.
PowerOff ==
  /\ state' = "down" /\ loop' = "returned"
  /\ stopped' = FALSE /\ draining' = FALSE /\ notesOn' = FALSE /\ saving' = FALSE
  /\ staged' = {} /\ readFirst' = FALSE
  /\ queue' = <<>> /\ queuedIds' = {} /\ publishedIds' = {}
  /\ confirmed' = -1 /\ nextIndex' = 0 /\ pending' = {} /\ landed' = {} /\ tipConfirmed' = FALSE
  /\ entry' = NoSlots /\ task' = NoTasks
  /\ chain' = <<>> /\ snapshot' = NoCheckpoint
  /\ UNCHANGED <<boot, swarm>>

Crash_WithTornFile ==
  /\ Running
  /\ disk' \in {disk} \cup (IF snapshot = NoCheckpoint THEN {} ELSE {snapshot, Damaged})
  /\ PowerOff

\* A kill. A checkpoint write cut short leaves the old file or the new one.
Crash ==
  /\ Running
  /\ disk' \in {disk} \cup ({snapshot} \ {NoCheckpoint})
  /\ PowerOff

\* drain(): no more messages, and the loop returns once everything taken is published.
Drain ==
  /\ Running /\ ~draining
  /\ draining' = TRUE
  /\ loop' = Woken
  /\ UNCHANGED <<boot, state, stopped, notesOn, saving, batch, intake, slots, task, record, swarm>>

\* stop(), which drain() calls at its deadline or once it has published everything.
Stop ==
  /\ draining /\ ~stopped
  /\ stopped' = TRUE
  /\ state' = IF state = "blocked" THEN "blocked" ELSE "stopped"
  /\ notesOn' = FALSE
  /\ pending' = pending \ staged
  /\ queue' = <<>> /\ queuedIds' = {}
  /\ loop' = Woken
  /\ UNCHANGED <<boot, draining, saving, batch, publishedIds, confirmed, nextIndex, entry, landed,
                 tipConfirmed, task, record, swarm>>

\* drain() has waited for the loop, the deliveries and the checkpoint writes, and the process exits.
Exit ==
  /\ stopped /\ loop = "returned" /\ chain = <<>>
  /\ \A s \in Slot : task[s] = "none"
  /\ disk' = disk
  /\ PowerOff

-----------------------------------------------------------------------------
(* Taking messages *)

\* offer(): every other case drops the message and changes nothing.
Offer(m) ==
  /\ Accepting
  /\ state \in {"resuming", "ready"}
  /\ m \notin publishedIds \cup queuedIds
  /\ Len(queue) < QueueLimit
  /\ queue' = Append(queue, m)
  /\ queuedIds' = queuedIds \cup {m}
  /\ loop' = Woken
  /\ UNCHANGED <<life, saving, batch, publishedIds, slots, task, record, swarm>>

-----------------------------------------------------------------------------
(* Resuming *)

NextAfter_WithoutOne(c, inFlight) == c + Cardinality(inFlight)

NextAfter(c, inFlight) == c + 1 + Cardinality(inFlight)

\* enterReady(): continues after slot c with the slots in flight, whatever stop() said meanwhile. The published
\* ids are those of the current history file, which holds the rows of the newest slots.
EnterReady(c, entries, inFlight) ==
  /\ \E first \in 0 .. (c + 1) : publishedIds' = {entries[s].msg : s \in first .. c}
  /\ confirmed' = c
  /\ nextIndex' = NextAfter(c, inFlight)
  /\ pending' = inFlight
  /\ entry' = entries
  /\ landed' = {}
  /\ tipConfirmed' = FALSE
  /\ queuedIds' = queuedIds \cup {entries[s].msg : s \in inFlight}
  /\ state' = "ready" /\ notesOn' = TRUE
  /\ task' = [s \in Slot |-> IF s \in inFlight /\ ~stopped THEN "reading" ELSE "none"]
  /\ UNCHANGED <<boot, stopped, draining, batch, queue, swarm>>

\* block(): reports the chat and drops everything it holds.
Block ==
  /\ state' = "blocked" /\ notesOn' = FALSE
  /\ queue' = <<>> /\ queuedIds' = {} /\ pending' = {} /\ landed' = {}
  /\ UNCHANGED <<boot, stopped, draining, saving, batch, publishedIds, confirmed, nextIndex, entry,
                 tipConfirmed, swarm>>

\* resumeFromCheckpoint(), which asks for a history save when it has rows no file holds.
ResumeFromCheckpoint ==
  /\ loop = "resuming"
  /\ HasCheckpoint /\ RunsOn(disk)
  /\ EnterReady(disk.index, disk.entries, InFlight(disk))
  /\ saving' \in IF disk.index >= 0 THEN BOOLEAN ELSE {FALSE}
  /\ loop' = "turn"
  /\ UNCHANGED record

\* A checkpoint that does not parse or does not run on blocks the chat, and so does, without a checkpoint, a slot
\* that does not hold an entry of this chat.
ResumeBlocks ==
  /\ loop = "resuming"
  /\ \/ disk = Damaged
     \/ HasCheckpoint /\ ~RunsOn(disk)
     \/ disk = NoCheckpoint /\ \E s \in Slot : feed[s] \in Foreign
  /\ Block
  /\ loop' = "turn"
  /\ UNCHANGED <<task, record>>

ResumeFromFeed_WithoutDamageCheck ==
  /\ loop = "resuming"
  /\ ~HasCheckpoint
  /\ EnterReady(-1, NoSlots, {})
  /\ chain' = Append(chain, Record)
  /\ loop' = "recording"
  /\ UNCHANGED <<saving, snapshot, disk>>

\* resumeFromFeed(): no checkpoint, so the newest slot found and everything before it, recorded at once.
ResumeFromFeed ==
  /\ loop = "resuming"
  /\ disk = NoCheckpoint
  /\ \E head \in -1 .. MaxSlots - 1 :
       /\ \A s \in 0 .. head : feed[s] # NoEntry
       /\ head + 1 \in Slot => feed[head + 1] = NoEntry \/ Misses
       /\ EnterReady(head, [s \in Slot |-> IF s <= head THEN feed[s] ELSE NoEntry], {})
  /\ chain' = Append(chain, Record)
  /\ loop' = "recording"
  /\ UNCHANGED <<saving, snapshot, disk>>

\* A read, a lookup or a download failed.
ResumeFails ==
  /\ loop = "resuming"
  /\ loop' = "retry"
  /\ UNCHANGED <<life, saving, batch, intake, slots, task, record, swarm>>

\* pause(resumeRetryMs) ends by its timer.
ResumeRetry ==
  /\ loop = "retry"
  /\ loop' = "turn"
  /\ UNCHANGED <<life, saving, batch, intake, slots, task, record, swarm>>

-----------------------------------------------------------------------------
(* The publish loop *)

LoopResumes ==
  /\ loop = "turn" /\ ~stopped /\ state = "resuming"
  /\ loop' = "resuming"
  /\ UNCHANGED <<life, saving, batch, intake, slots, task, record, swarm>>

LoopReturns ==
  /\ loop = "turn"
  /\ stopped \/ state \notin {"resuming", "ready"}
  /\ loop' = "returned"
  /\ UNCHANGED <<life, saving, batch, intake, slots, task, record, swarm>>

\* stageFromQueue() takes the first n messages: the whole queue, or just enough to leave no room.
Takes(n, picked) ==
  /\ picked = Fresh(n)
  /\ HasRoomFor(Len(picked))
  /\ n = Len(queue) \/ ~HasRoomFor(Len(picked) + 1)
  /\ \A k \in 0 .. n - 1 : HasRoomFor(Len(Fresh(k)) + 1)
  /\ queue' = SubSeq(queue, n + 1, Len(queue))
  /\ queuedIds' = queuedIds \ ({queue[i] : i \in 1 .. n} \cap publishedIds)

ReadsFirst_Never == FALSE

\* Whether newly staged entries are to read their slot before writing it.
ReadsFirst == ~tipConfirmed

\* A batch gets the next slots, in order, and goes to persist() before any of them is written.
Stage ==
  /\ loop = "turn" /\ ~stopped /\ state = "ready"
  /\ \E n \in 1 .. Len(queue) :
     \E k \in 1 .. MaxSlots :
     \E picked \in [1 .. k -> Message] :
       /\ Takes(n, picked)
       /\ staged' = nextIndex .. (nextIndex + k - 1)
       /\ nextIndex' = nextIndex + k
       /\ pending' = pending \cup staged'
       /\ entry' = [s \in Slot |-> IF s \in staged' THEN [msg |-> picked[s - nextIndex + 1], boot |-> boot]
                                   ELSE entry[s]]
  /\ readFirst' = ReadsFirst
  /\ chain' = Append(chain, Persist)
  /\ loop' = "persisting"
  /\ UNCHANGED <<life, saving, publishedIds, confirmed, landed, tipConfirmed, task, snapshot, disk, swarm>>

\* Nothing to stage: a drained loop returns, any other pauses.
Pause ==
  /\ loop = "turn" /\ ~stopped /\ state = "ready"
  /\ \E n \in 0 .. Len(queue) : Takes(n, <<>>)
  /\ loop' = IF draining /\ pending = {} /\ queue' = <<>> THEN "returned" ELSE "paused"
  /\ UNCHANGED <<life, saving, batch, publishedIds, slots, task, record, swarm>>

\* persist() tries again after a failed write, or gives up once stopped.
PersistRetry ==
  /\ loop = "persistBackoff"
  /\ IF stopped
       THEN loop' = "turn" /\ staged' = {} /\ chain' = chain
       ELSE loop' = "persisting" /\ staged' = staged /\ chain' = Append(chain, Persist)
  /\ UNCHANGED <<life, saving, readFirst, intake, slots, task, snapshot, disk, swarm>>

-----------------------------------------------------------------------------
(* Checkpoint writes, which run one after another *)

BeginCheckpointWrite ==
  /\ chain # <<>> /\ snapshot = NoCheckpoint
  /\ \E lacksRows \in MayLackRows : snapshot' = Current(lacksRows)
  /\ UNCHANGED <<life, saving, loop, batch, intake, slots, task, chain, disk, swarm>>

CheckpointWriteEnds_WithoutError(ok) ==
  /\ snapshot # NoCheckpoint
  /\ disk' \in {disk, snapshot}
  /\ snapshot' = NoCheckpoint
  /\ chain' = Tail(chain)

\* The running write ends. One that fails may have replaced the file already.
CheckpointWriteEnds(ok) ==
  /\ snapshot # NoCheckpoint
  /\ disk' \in IF ok THEN {snapshot} ELSE {disk, snapshot}
  /\ snapshot' = NoCheckpoint
  /\ chain' = Tail(chain)

\* The batch is recorded: each of its slots is launched, and written unread when no read is asked for.
PersistWritten ==
  /\ chain # <<>> /\ Head(chain) = Persist
  /\ CheckpointWriteEnds(TRUE)
  /\ LET live == {s \in staged : StillDelivering(s)} IN
     /\ task' = [s \in Slot |-> IF s \notin live THEN task[s] ELSE IF readFirst THEN "reading" ELSE "writing"]
     /\ sent' = IF readFirst THEN sent ELSE sent \cup {<<s, entry[s]>> : s \in live}
  /\ staged' = {}
  /\ loop' = "turn"
  /\ UNCHANGED <<life, saving, readFirst, intake, slots, feed>>

PersistFails ==
  /\ chain # <<>> /\ Head(chain) = Persist
  /\ CheckpointWriteEnds(FALSE)
  /\ loop' = "persistBackoff"
  /\ UNCHANGED <<life, saving, batch, intake, slots, task, swarm>>

\* landed() goes on whether the write succeeded or not: a history save, and the loop is woken.
ConfirmationRecorded(s) ==
  /\ chain # <<>> /\ Head(chain) = s
  /\ \E ok \in BOOLEAN : CheckpointWriteEnds(ok)
  /\ task' = [task EXCEPT ![s] = "none"]
  /\ saving' = TRUE
  /\ loop' = Woken
  /\ UNCHANGED <<life, batch, intake, slots, swarm>>

\* resumeFromFeed() goes on whether the write succeeded or not.
ResumeRecorded ==
  /\ chain # <<>> /\ Head(chain) = Record
  /\ \E ok \in BOOLEAN : CheckpointWriteEnds(ok)
  /\ saving' \in IF confirmed >= 0 THEN BOOLEAN ELSE {saving}
  /\ loop' = "turn"
  /\ UNCHANGED <<life, batch, intake, slots, task, swarm>>

HistoryRecorded ==
  /\ chain # <<>> /\ Head(chain) = History
  /\ \E ok \in BOOLEAN : CheckpointWriteEnds(ok)
  /\ UNCHANGED <<life, saving, loop, batch, intake, slots, task, swarm>>

\* The history book saved a file: recordHistory(). Another save may follow at once. Bound: one such write waits.
HistorySaved ==
  /\ saving
  /\ \A i \in 1 .. Len(chain) : chain[i] # History
  /\ chain' = IF state = "ready" THEN Append(chain, History) ELSE chain
  /\ saving' \in BOOLEAN
  /\ UNCHANGED <<life, loop, batch, intake, slots, task, snapshot, disk, swarm>>

\* The save failed, or found nothing new to save.
HistoryNotSaved ==
  /\ saving
  /\ saving' = FALSE
  /\ UNCHANGED <<life, loop, batch, intake, slots, task, record, swarm>>

-----------------------------------------------------------------------------
(* Delivering one slot *)

Goes(s, where) == task' = [task EXCEPT ![s] = where]

Follows_WithoutLoop(c, here) == c = IF confirmed + 1 \in here THEN confirmed + 1 ELSE confirmed

Follows_WithGaps(c, here) == c \in here \cup {confirmed} /\ \A d \in here : d <= c

\* The slots after the last confirmed one, up to c and no further, have landed.
Follows(c, here) == (confirmed + 1) .. c \subseteq here /\ c + 1 \notin here

Publishes(done) ==
  /\ publishedIds' = publishedIds \cup {entry[t].msg : t \in done}
  /\ queuedIds' = queuedIds \ {entry[t].msg : t \in done}

\* landed(): confirms every landed slot that follows the last confirmed one, and records them.
Lands(s) ==
  LET here == landed \cup ({s} \cap pending) IN
  \E c \in confirmed .. MaxSlots - 1 :
    /\ Follows(c, here)
    /\ confirmed' = c
    /\ pending' = pending \ ((confirmed + 1) .. c)
    /\ landed' = here \ ((confirmed + 1) .. c)
    /\ Publishes((confirmed + 1) .. c)
    /\ tipConfirmed' = TRUE
    /\ IF c = confirmed
         THEN chain' = chain /\ Goes(s, "none")
         ELSE chain' = Append(chain, s) /\ Goes(s, "recording")
    /\ UNCHANGED <<life, saving, loop, batch, queue, nextIndex, entry, snapshot, disk>>

\* The slot already holds the entry's own bytes.
ReadOwn(s) ==
  /\ task[s] = "reading" /\ feed[s] = entry[s]
  /\ StillDelivering(s)
  /\ Lands(s)
  /\ UNCHANGED swarm

\* Absent, or missed: the entry is sent.
ReadEmpty(s) ==
  /\ task[s] = "reading" /\ (feed[s] = NoEntry \/ Misses)
  /\ StillDelivering(s)
  /\ Goes(s, "writing")
  /\ sent' = sent \cup {<<s, entry[s]>>}
  /\ UNCHANGED <<life, saving, loop, batch, intake, slots, record, feed>>

\* Anything else in the slot means another writer.
ReadForeign(s) ==
  /\ task[s] = "reading" /\ feed[s] \notin {NoEntry, entry[s]}
  /\ Block
  /\ Goes(s, "none")
  /\ UNCHANGED <<loop, record>>

ReadFails(s) ==
  /\ task[s] = "reading"
  /\ StillDelivering(s)
  /\ Goes(s, "backoff")
  /\ UNCHANGED <<life, saving, loop, batch, intake, slots, record, swarm>>

\* A read that answers after a stop or a block.
ReadTooLate(s) ==
  /\ task[s] = "reading" /\ ~StillDelivering(s)
  /\ Goes(s, "none")
  /\ UNCHANGED <<life, saving, loop, batch, intake, slots, record, swarm>>

WriteLands(s) ==
  /\ task[s] = "writing"
  /\ feed' = [feed EXCEPT ![s] = entry[s]]
  /\ Lands(s)
  /\ UNCHANGED sent

\* The answer is an error or a timeout. The entry may be in the slot, or still arrive there.
WriteFails(s) ==
  /\ task[s] = "writing"
  /\ Goes(s, IF StillDelivering(s) THEN "backoff" ELSE "none")
  /\ UNCHANGED <<life, saving, loop, batch, intake, slots, record, swarm>>

\* The backoff ends by its timer or a stop. The slot is read before every further write.
Retry(s) ==
  /\ task[s] = "backoff"
  /\ Goes(s, IF stopped THEN "none" ELSE "reading")
  /\ UNCHANGED <<life, saving, loop, batch, intake, slots, record, swarm>>

\* Swarm, at any later time and even after the sender is gone: bytes sent to a slot reach it.
Arrive ==
  /\ \E w \in sent : feed' = [feed EXCEPT ![w[1]] = w[2]]
  /\ UNCHANGED <<life, saving, loop, batch, intake, slots, task, record, sent>>

-----------------------------------------------------------------------------
Deliver(s) ==
  \/ ReadOwn(s) \/ ReadEmpty(s) \/ ReadForeign(s) \/ ReadFails(s) \/ ReadTooLate(s)
  \/ WriteLands(s) \/ WriteFails(s) \/ Retry(s)

Resume == ResumeFromCheckpoint \/ ResumeBlocks \/ ResumeFromFeed \/ ResumeFails \/ ResumeRetry

Loop == LoopResumes \/ LoopReturns \/ Stage \/ Pause \/ PersistRetry

Checkpointing ==
  \/ BeginCheckpointWrite \/ PersistWritten \/ PersistFails
  \/ \E s \in Slot : ConfirmationRecorded(s)
  \/ ResumeRecorded \/ HistoryRecorded

Next ==
  \/ Start \/ Crash \/ Drain \/ Stop \/ Exit
  \/ \E m \in Message : Offer(m)
  \/ Resume \/ Loop \/ Checkpointing
  \/ HistorySaved \/ HistoryNotSaved
  \/ \E s \in Slot : Deliver(s)
  \/ Arrive

Spec == Init /\ [][Next]_vars

(* Every await ends: requests to Bee and file operations answer or time out, timers fire, and the loop and the    *)
(* checkpoint chain go on when they can. What is retried for ever does not fail for ever: reads of slots, whichever *)
(* slot's, writes of slots, and what the chat waits for in the phase it is in: the resume, the recording of a      *)
(* batch and the exit share one condition, since in one boot one phase is over before the next begins.            *)
Fairness ==
  /\ WF_vars(Loop) /\ WF_vars(Resume) /\ WF_vars(Checkpointing)
  /\ SF_vars(ResumeFromCheckpoint \/ ResumeBlocks \/ ResumeFromFeed \/ PersistWritten \/ Exit)
  /\ \A s \in Slot : WF_vars(Deliver(s))
  /\ SF_vars(\E s \in Slot : ReadOwn(s) \/ ReadEmpty(s) \/ ReadForeign(s))
  /\ SF_vars(\E s \in Slot : WriteLands(s))
  /\ WF_vars(HistoryNotSaved)
  /\ WF_vars(Stop)

FairSpec == Spec /\ Fairness

-----------------------------------------------------------------------------
(* Properties *)

TaskState == {"none", "reading", "writing", "backoff", "recording"}
LoopState == {"resuming", "retry", "recording", "turn", "paused", "persisting", "persistBackoff", "returned"}

(* Every variable holds a value of its type. *)
TypeOK ==
  /\ boot \in 0 .. MaxBoots
  /\ state \in {"down", "resuming", "ready", "blocked", "stopped"}
  /\ stopped \in BOOLEAN /\ draining \in BOOLEAN /\ notesOn \in BOOLEAN /\ saving \in BOOLEAN
  /\ loop \in LoopState
  /\ staged \in SUBSET Slot /\ readFirst \in BOOLEAN
  /\ queue \in Seq(Message) /\ queuedIds \in SUBSET Message /\ publishedIds \in SUBSET Message
  /\ confirmed \in -1 .. MaxSlots - 1 /\ nextIndex \in 0 .. MaxSlots
  /\ pending \in SUBSET Slot /\ landed \in SUBSET Slot /\ tipConfirmed \in BOOLEAN
  /\ entry \in [Slot -> Bytes \cup {NoEntry}]
  /\ task \in [Slot -> TaskState]
  /\ chain \in Seq(Requester)
  /\ snapshot \in Checkpoint \cup {NoCheckpoint}
  /\ disk \in Checkpoint \cup {NoCheckpoint, Damaged}
  /\ feed \in [Slot -> Bytes \cup {NoEntry}]
  /\ sent \in SUBSET (Slot \X Bytes)

(* One entry per slot (README "One entry per slot"): over all boots, retries and late arrivals, only one payload is
   ever sent to a slot. *)
OneEntryPerSlot == \A v, w \in sent : v[1] = w[1] => v[2] = w[2]

(* Written ahead (README "Checkpoints, written ahead"): whatever was sent to a slot was recorded before, and stays
   recorded in the checkpoint through every later write, failed write and crash. *)
WriteAhead == \A w \in sent : HasCheckpoint /\ disk.entries[w[1]] = w[2]

(* Confirmed in order (checkpoint.ts, "Every slot up to it holds its entry"): up to the confirmed slot, in memory
   and in the checkpoint, every slot of the feed holds the entry recorded for it. *)
ConfirmedHolds ==
  /\ \A s \in 0 .. confirmed : feed[s] # NoEntry /\ feed[s] = entry[s]
  /\ HasCheckpoint => \A s \in 0 .. disk.index : feed[s] # NoEntry /\ feed[s] = disk.entries[s]

(* Whenever the server is killed it leaves a checkpoint that can be read, and whose pending entries pass the check
   of the next start. Its rows may not: they may have a gap (HistoryBook's NeverBlocked), the one thing in a
   checkpoint of its own that the server refuses. *)
CheckpointResumable == disk = NoCheckpoint \/ (HasCheckpoint /\ PendingRunsOn(disk))

(* With no other writer only such a gap in the rows of its checkpoint blocks a chat, at its start. No slot conflict
   does: a slot read before a write, after any history of failed and late writes, never holds bytes other than the
   entry recorded for it. Nor do a damaged checkpoint, its pending entries or a feed found without a checkpoint. *)
NeverBlocksAlone == state = "blocked" => HasCheckpoint /\ ~RowsRunOn(disk)

(* A loop that returned without a stop published all it took: nothing is queued or in flight, and nothing is
   accepted after it, so a drain that ends before its deadline loses nothing. *)
DrainedIsEmpty == loop = "returned" /\ state = "ready" /\ ~stopped => queue = <<>> /\ pending = {}

(* No wake-up is lost between the loop's last look at the queue and its pause: it pauses on queued messages only
   while there is no room for one, or while a confirmation that will wake it is being recorded. *)
NoLostWakeUp ==
  loop = "paused" /\ queue # <<>> /\ HasRoomFor(1) => \E s \in Slot : task[s] = "recording"

(* Writes run one after another and a crash leaves the old or the new file (checkpoint.ts): once there is a
   checkpoint there always is one, and its confirmed slot never moves back, whatever order the writes were asked
   for in and however they failed. *)
CheckpointMovesForward ==
  [][HasCheckpoint => HasCheckpoint' /\ disk'.index >= disk.index]_disk

(* Nothing is sent to any slot once the chat is stopped or blocked, even by deliveries already under way. *)
SilentOnceStopped == [][stopped \/ state \in {"blocked", "down"} => sent' = sent]_vars

RecordedTip == IF HasCheckpoint THEN disk.index ELSE -1

Log == INSTANCE FeedLog WITH Entry <- Bytes, log <- feed, tip <- RecordedTip

(* The publisher implements the log readers are promised: what the feed holds, with the confirmed slot a restart
   would continue from as its tip, is written once per slot and moves forward over slots without a gap. *)
ImplementsLog == Log!Spec

(* A stall rather than a gap (README): once the chat stays up, every slot anything was ever sent to, by this boot
   or an earlier one, is confirmed in the end, so no slot below a written one stays empty. *)
SentConfirms ==
  <>[](state = "ready" /\ ~stopped) =>
    []<>(\A s \in Slot : (\E b \in Bytes : <<s, b>> \in sent) => confirmed >= s)

(* Every message queued is published in the end, through resumes that fail, recordings that fail and a full window,
   unless the process stops or dies first. Bound: a message that is still queued when MaxSlots slots are taken. *)
QueuedPublishes == []<>(queuedIds = {} \/ (nextIndex = MaxSlots /\ queue # <<>>) \/ stopped \/ ~Running)

(* A shutdown always comes to an end (README "Shutdown"), whatever requests, retries and checkpoint writes it meets:
   the drain's waits for the loop, the deliveries and the checkpoint writes never wait on each other. *)
ShutdownEnds == []<>~(draining /\ Running)
=============================================================================
