# A formal model of the swarm chat aggregator

The aggregator subscribes to an inbox on Swarm, checks the messages that arrive, and publishes each chat to a feed of
numbered slots, with history files beside it. Its promises are about order and loss: one payload per slot, no gaps, no
slot written that was not recorded first, a chat that continues exactly where it was after a crash, a server that stops
rather than overwrite another writer. Those promises depend on what happens between two `await`s, on requests that fail
but take effect later, and on a process that can die at any point, which is why they are modelled here.

This directory holds TLA+ modules translated from the TypeScript sources, TLC configurations that check them on small
instances, and proofs checked by TLAPS for instances of any size. `PROJECT.json` maps every definition to the source
lines it stands for and lists the hazards, the runs, the theorems and the disagreements found.

Paths below are relative to the repository (`src/chat.ts` is its publisher).

## 1. Inventory

| Component | State it keeps | Operations | Hard behaviours | What makes it correct |
|---|---|---|---|---|
| Chat publisher, `src/chat.ts` | mode (`resuming`, `ready`, `blocked`, `stopped`), queue with its ids, published ids, `confirmedIndex`, `nextIndex`, `pending`, `tipConfirmed`, the chain of checkpoint writes | `start`, `offer`, `drain`, `stop`, the loop `run`, `resume`, `persist`, `writeSlot`, `landed`, `block`, `recordHistory` | deliveries, loop, saver and checkpoint writes interleave at every `await`; writes time out and arrive later; crashes between staging, recording, sending, confirming | one entry per slot, written ahead, confirmed in order, resumable, every queued message published, every shutdown ends |
| Checkpoint file, `src/checkpoint.ts` | one JSON file per chat | `read`, `write` (temporary file, rename) | a crash or an error before or after the rename; a damaged file | the old file or the new one, never neither |
| Feed slots and history store, `src/feed/slots.ts`, `src/server.ts` | none; the feed itself | `readSlot`, `writeSlot`, `lookupHead`, `writeNote` | a read that misses an entry, a write whose answer is lost | a slot is read before it is written again |
| History book, `src/history.ts` | files not saved in their final form, `newest`, `dirty`, the saver | `append`, `requestSave`, `saveUntilClean`, `restore`, `rowsAfter` | rows arrive during an upload, uploads fail for good, a file is lost | no row lost, links lead back, a burst ends saved |
| New chat check, `src/newChat.ts` | none | `findHeadWithoutCheckpoint` | nodes without peers, lookups that fail or answer wrongly | a chat with entries is never started at slot 0 |
| Slot notes, `src/feed/notes.ts` | `lastTickedSlot`, `named`, `lastWrittenAt`, the timer | `start`, `stop`, `slotEnded`, `write` | timers early and late, notes that fail or outlast their time slot, a restart within a time slot | one try per address, every confirmed slot named in the end, bounded silence |
| Folder lock, `src/lock.ts` | the lock file and whose id it holds | `acquire`, `refresh`, `release` | several starts racing on a stale file, a holder that was suspended | one holder, and a holder that lost it stops |
| Listener and heartbeat, `src/listener.ts`, `src/heartbeat.ts` | current and retiring subscriptions, reconnect timer, nonces sent and matched | `start`, `subscribe`, `scheduleReconnect`, `checkIdle`, `stop`, `sendHeartbeat`, `add`, `match` | overlapping subscriptions, closes and timeouts that cross, heartbeats late and twice | none leaks, a subscription or a reconnect timer at any time, deaf by a replacement only while a newer one is overdue, a heartbeat counts once |
| Server, `src/server.ts`, `src/index.ts` | open publishers, lock, shutdown | `chatFor`, `makeRoomForPatternChat`, `fail`, `start`, `stop`, `healthReport` | eviction beside running writes, two publishers over one checkpoint file, lost lock, shutdown deadline | a chat continues where it stood, nothing vanishes unreported, nothing is recorded without the lock |
| Intake, `src/intake.ts`, `src/rate.ts`, `src/utils/recentIds.ts` | rate windows; the ids are the publisher's | `receive`, `admit`, `prune`, `fits`, `record`, `isDuplicate` | ids that are forgotten with their publisher, rates that are not, windows at their limits | rates hold in any window and count only what was taken, a message is taken once |
| Entry codec, settings, statistics, timings, logging, backoff, `src/mine.ts` | caches, counters | pure or observational | none for a model checker | not modelled, see section 8 |

How they interact. A message comes from the listener to the intake, which checks it and asks the server for the chat's
publisher; the server opens one (and evicts an idle one at the cap) and calls `offer`. The publisher's loop takes messages from its
queue, stages them as slots, waits for the checkpoint file to hold them, and launches one delivery per slot; a delivery
reads and writes the slot through `src/feed/slots.ts` and reports to `landed`, which confirms slots in order, appends
their rows to the history book, writes the checkpoint, requests a history save and wakes the loop. The history book
uploads files and calls back `recordHistory`, which writes the checkpoint once more. Slot notes read the confirmed slot
through a callback. Everything runs in one JavaScript thread, so two pieces of code interleave only at their awaits; the
folder lock, late writes and a second server are the places where two processes meet.

## 2. Modules

| Module | Models | Uses |
|---|---|---|
| `FeedLog` | what a feed promises its readers: the abstract specification | |
| `ChatPublisher` | `src/chat.ts` with the checkpoint file and the feed's slots, over crashes and restarts | instance of `FeedLog` |
| `OtherWriter` | the same publisher beside a second writer of its feed and an operator who loses or damages the checkpoint | extends `ChatPublisher` |
| `HistoryBook` | `src/history.ts`, the history store as `src/server.ts` builds it, and the checkpoint's rows | |
| `NewChat` | `src/newChat.ts` and the walk of `resumeFromFeed()` | |
| `FolderLock` | `src/lock.ts`, several instances over one file | |
| `SlotNotes` | `src/feed/notes.ts` | |
| `Listener` | `src/listener.ts`, `src/heartbeat.ts` and `receiveHeartbeat()` | |
| `Server` | `src/server.ts` and `src/index.ts`, one chat's publishers over `src/checkpoint.ts` | |
| `Intake` | `src/intake.ts`, `src/rate.ts`, `src/utils/recentIds.ts` and the ids of a chat's publisher | |
| `ChatPublisherProofs`, `HistoryBookProofs`, `ServerProofs`, `IntakeProofs`, `FolderLockProofs`, `SlotNotesProofs`, `ListenerProofs`, `NewChatProofs` | the inductive invariant of each of these modules, its theorems and proofs; the first also has those of `OtherWriter` | each extends its module, the first `OtherWriter` |
| `MC...` | what the configurations need: symmetry, and in `MCHistoryBook` and `MCIntake` an assumption by which TLC compares a closed form with the steps of the code | |

### ChatPublisher

One action is what runs between two awaits. `loop` is where `run()` awaits, `task[s]` where the delivery of slot `s`
awaits, `chain` who waits for a checkpoint write and `snapshot` what the running write puts in the file; `disk` is the
file, `feed` the slots and `sent` every payload ever sent to a slot.

| Code | Model |
|---|---|
| `start()`, a kill, the exit after `drain()` | `Start`, `Crash`, `Exit`: everything but `disk`, `feed` and `sent` is lost |
| `drain()`, `stop()` | `Drain`, `Stop` |
| `offer()` | `Offer`; its other cases drop the message |
| `resume()`, `resumeFromCheckpoint()`, `resumeFromFeed()`, `enterReady()`, `block()` | `Resume`, `EnterReady`, `Block` |
| `run()`, `stageFromQueue()`, `pause()`, `persist()` | `Loop` (`LoopResumes`, `Stage`, `Pause`, `PersistRetry`, `LoopReturns`), `Woken` |
| `writeCheckpoint()` and those who await it | `Checkpointing`: `BeginCheckpointWrite` takes the snapshot at the write's turn in the chain, as the code does, not at the request |
| `deliver()`, `writeSlot()`, `launch()`, `landed()`, `stillDelivering()` | `Deliver`, `Lands`, `StillDelivering` |
| a write that failed for its sender and arrives later | `Arrive`, at any time, even boots later |

Two things about Swarm are assumed, both from how the code uses it: a slot that a payload was sent to may take it at any
later time, and a read may miss an entry that is there (`Misses`). A read never invents an entry. Payloads are records
of a message and of the boot that staged it: the receive time and the history link in an entry's bytes differ from one
boot to the next, so bytes are equal exactly when both agree.

A checkpoint is read back through the two checks of `resumeFromCheckpoint()`: `RowsRunOn` and `PendingRunsOn`, together `RunsOn`.
Its rows come from the history book, which may have lost some of them when a file was closed during its own upload (`history_restart`,
section 6). Here that is the field `gap`, which any write may set that has three rows or more, as `MayLackRows` says: fewer cannot
be the rows of a file, those added during its upload and those of the next one. When a gap arises, and that it arises in no other
way, is `HistoryBook`'s; here it is what the next start may find.

### OtherWriter

`OtherWrites` fills the first empty slot while the server is down, as a second server resumed from the feed would;
`CheckpointHarmed` deletes or damages the file. `AtRestOnly` restricts both to moments when the checkpoint holds no
entry in flight: without that restriction the README's promise fails (section 6).

### HistoryBook

Rows are the numbers of the slots they belong to, so a file is its first and last row and the rows of a file run on by
construction of `append()`. `Confirm` appends a row; `RequestSave` and `Marks` are `requestSave()`; the `Saver`
actions are `saveUntilClean()` at its awaits; `UploadSucceeds` drops the oldest file when a newer one exists, which is
exactly what the code tests after the upload. `Restart` is `restore()` with the check `resumeFromCheckpoint()` makes.
A file is full by its number of rows, or, by the bytes of its rows, at any point. `raced` records that a file was closed
during its own upload, which the two properties it weakens exclude and `history_restart` is about. `failing` is
`lastSaveErrorValue`. `restore()` appends the checkpoint's rows one by one; `Restored` says at once which files may come of it,
so that it can be reasoned about without a fold, and `RestoredIsAppended` in `MCHistoryBook` has TLC compare it with `Append1`
folded over the rows.

### NewChat

`at` is the request that is awaited, in the order of `findHeadWithoutCheckpoint()`, `proveWriterSeesTheNetwork()` and the
walk. A node that answers 404 for what is there tells a lie; `lies` counts those of the current attempt and `faraway` those of
the second node. The lookup may find an update that is not the newest. `Fails` is every `throw`; `resume()` then starts
over. `ChatPublisher` keeps one step of all this, `ResumeFromFeed`, which finds an end of the written slots.

### FolderLock

`proc[i]` is one process: `at` is where `acquire()` or `release()` awaits, `held` the field, `refresh` where `refresh()`
awaits. `file` has its content, its age, and who made it, since the id is written to the file that was opened even if
another one has the path by then. `timer` counts the ticks to the next refresh or the end of a sleep, and while a takeover
is under way the age of its temporary file. An instance does everything that is due before a tick passes; those in `Slow`
do not, which is a process suspended at any await, or a slow disk. `prompt` is not in the code: it records that nothing was late and
no lock released so far. The file of a holder killed earlier may be there at the start.

### SlotNotes

Times are ages and remaining delays, in ticks, `SlotTicks` to a time slot: `phase` within the current one, `dueIn` until
the timer, `tickedAgo` and `triedAgo` in time slots, `writtenAgo` since the timer that led to the last note written. `triedAgo`
is not in the code: it remembers addresses over restarts. A timer fires up to `Late` ticks late, or up to `Early` ticks
early, which `slotEnded()` has a comment about. `Confirm` and `Record` stand for the publisher: a confirmation, and its
checkpoint write, from which `Stop` lets the next start continue.

### Listener

`subscribe()` is synchronous and its subscription connects later, or dies without a close; `socket` is that connection. `Start`,
`Reconnects` and `WatchdogFires` are the three callers of `subscribe()`, each of which may fail. `faults` counts what the network
did: `NeverDeafByItself` is about behaviours in which it did nothing. `Grace` is `graceMs` of `retire()`, half the idle time or
the 10 s of the code (`GraceCap`), whichever is less. How long a connection takes is bounded by nothing in the code, and `Connect`
may be any number of ticks: less than the grace time, more, or more than the idle time. `Hears` is a frame, of a chat or one of the heartbeats sent so
far: nothing keeps Swarm from delivering one late, twice, or after others. `Sends` is `sendHeartbeat()` up to its request, whose
outcome only the health check looks at, and `Receives` what the intake does with a heartbeat.

### Server

`pub[p]` is a publisher of the one chat modelled in detail, and there may be two: the one in `chats` (`current`) and one that was
evicted and still does something. Each is a small `ChatPublisher` with one slot in flight; what is kept in full is how its steps
meet those of the other through the checkpoint file. `OpensTemporary`, `WritesFile` and `Renames` are the awaits of
`CheckpointStore.write()`. A write goes on in the file it opened, whatever name that has by now (`file`, `Moved`), and two that
write one file may leave a text with the rest of a longer one, which is not JSON (`Half`). `chain` is `checkpointWrites`, whose
snapshot is taken when the write's turn comes. The rows of a checkpoint are not modelled here: as a start may find a gap in them, `Resumes`
may refuse (`refused`) any checkpoint of two slots or more, which is more often than the code does. `OtherOpens` is a message for another chat, the only thing that evicts: those
chats are taken for quiet whenever asked, so every eviction that could happen does in some behaviour. `Stop`, `DrainStops`,
`Drained`, `ReleasesLock` and `Exit` are the shutdown, with the deadline at any time; `Crash` is a kill, or `fail()`, which
exits at once. `accepted`, `dropped`, `doubt` and `overlap` are not in the code: they say what the properties are about.

### Intake

`Takes` and `Refuses` are `admit()` once the chat is looked up, which opens it. `events` is `RateLimiter` for the keys of one chat, its
events being places in `taken`. The publisher is its queue, `queuedIds`, `publishedIds` and the slots (`log`), of which
`confirmed` are published and `recorded` in the checkpoint. `Gone` is what an eviction or a restart leaves: the checkpoint.
`Resumes` rebuilds `publishedIds` from the current history file, which begins at any of the last rows: where files begin
depends on the bytes of their rows, and a file that is lost takes its rows with it. `recent` is `publishedIds`, each id as the newest
slot it was given. `Remembers` is `RecentIds.add()`; `Remembered` says at once what is left when rows are added one by one, and
`RememberedIsAdded` in `MCIntake` has TLC compare the two. `openings` remembers what each publisher knew.

## 3. Runs

Bounds in all runs of the publisher and the history book: `MaxBoots = 2`, one crash or exit and one restart, which is every pair of "what a boot left behind"
and "what the next one makes of it"; a third boot starts from a file that the second one left, and the proofs cover any
number. `Window = 2` is the smallest window in which slots land out of order. Two messages fill it; the third of
`publisher` and `progress` waits while the window is full and takes the third slot, or comes after a restart between two others. Three
confirmed slots are also the fewest with a gap in the rows. `QueuedPublishes` leaves out only a message that finds all `MaxSlots` slots
taken, so with a slot more than the window holds it is asked of the message that waits for room. `progress` does
without symmetry, which is not sound for liveness: `OrderedFairSpec` offers new messages in the order of their numbers instead, as messages that
occur nowhere yet differ in nothing. `publisher` has 417,330 distinct states, `progress` 274,277, `listener` 746,271 and `server` 1,137,092.

| Run | Instance | Shows |
|---|---|---|
| `publisher` | 3 messages, 3 slots, window of 2, queue of 2, reads may miss, rows may have a gap | types, seven safety invariants, two properties of its steps; that `ChatPublisher` implements `FeedLog` |
| `progress` | 3 messages, 3 slots, window of 2, queue of 1, fair | whatever was sent is confirmed in the end once the chat stays up; queued messages are published, also those that wait while the window is full; every shutdown ends |
| `other_writer` | 2 messages, 3 slots, second writer and harmed checkpoint at rest | nothing is written over another writer; a damaged checkpoint keeps the chat silent |
| `history` | 4 rows, files of 2, 2 boots, failing uploads, lost files, fair | no row lost, in memory or by a crash; links lead back; a burst ends in the newest saved file |
| `history_restart` | the same | refutes one sentence |
| `folder_lock` | 2 instances beside a killed one's file, one of them slow, releases, kills, fair | a holder that is prompt keeps its lock; two holders do not stay two; a start that is alone gets the lock |
| `two_holders` | 3 prompt instances, releases | refutes "One writer per checkpoint folder" |
| `slot_notes` | time slots of 3 ticks, timers early and late by 1, writes of up to 4, a restart, fair | one try per address; every confirmed slot is named; bounded silence |
| `listener` | 4 subscriptions, 3 network failures, connecting takes up to 2 ticks and the grace time is 1, 2 heartbeats and room for 1 nonce, fair | none leaks, always a subscription or a timer, deaf by itself only while a newer subscription is overdue; it hears again after the last failure; a heartbeat counts once and is forgotten past the limit only |
| `server` | 2 publishers at a time, 2 messages, 1 eviction, 1 kill, 2 boots, a cap of 1 | no publisher is ahead of the feed, and one opened while no other recorded continues where the chat stood; every message lives or is reported dropped, and then stays so; the lock covers the checkpoint; the file is whole |
| `intake` | 2 senders with 2 ids, 4 messages taken per boot, 3 publishers, limits of 1 and 2 | rates are exact in any window; duplicates were taken, and a message is taken once |
| `new_chat` | 4 slots, 5 wrong answers, a second writer | four wrong answers are needed to restart a chat at slot 0, two to end the walk early |

The lock's times keep what `src/settings.ts` requires of them: the stale time is more than two refreshes. The settling sleep is
no longer than a refresh, and the deadline is computed as in the code. Two instances and the file of a third are enough for a
takeover, a rival takeover and a late rename; with one of them slow the file's age passes the stale time at every await.
Writes of notes longer than a time slot and a heartbeat of two time slots let every comparison go either way. Four
subscriptions hold a current one, two that are being replaced and a new one. With an idle time of 4 the grace time would be 2: the cap of 1
is what counts, as with the default settings, and a connection may be made in time or late. With room for one nonce two heartbeats already make the
listener forget, as a sent one and as a matched one. In `server` two messages give a slot published before the eviction and one
recorded when it happens, or the other way round; with two evictions the instance has five times the states and still no error, and
takes too long to keep. In `intake` four slots are the fewest in which a message is forgotten by the limit of two ids and taken
again; its exceptions are all needed, as TLC finds each of the properties violated without any one of them. Five wrong answers are one more than a new chat
takes.

Four rows in files of at most two give two rollovers at least, and up to four files by the byte limit. Deadlock is not checked for the publisher, the
history book, the new chat, the server and the intake: a behaviour ends when boots, slots or messages are used up, the chat is blocked or the search is over. It is
checked for the others, in which time always goes on.

`ChatPublisher` lists `TypeOK` among its invariants; in the other modules it is the first conjunct of one of
their safety properties.

Every property of a passing run has a mutant in `PROJECT.json`: a form of one mapped definition with a plausible bug
(`X_Without...`, `X_With...` beside `X`), under which TLC finds the property violated.

## 4. Fairness

`FairSpec` of `ChatPublisher` says: every request and file operation ends, with an answer, an error or a timeout (each
request carries one, `requestOptions()` in `src/feed/slots.ts`); every timer fires; the loop and the chain of
checkpoint writes go on whenever they can. These are weak fairness. Strong fairness is assumed where the code retries
without end and would be right to hang otherwise: resuming, reading a slot, writing it and recording a batch do not
fail for ever. Several such conditions are stated as one, of the disjunction: that some slot's read is answered, or some slot's write, since each slot
lands once in a boot and boots are bounded, so answers cannot go to other slots for ever; and that a resume, the recording of a batch or the exit
succeeds, since a boot is over with one before it comes to the next. Once a drain began, `stop()` follows at the deadline (`timings.drainMs`), and a process whose loop, deliveries and
writes ended exits. No fairness is assumed of senders, crashes, starts, history saves or late arrivals. In `HistoryBook` the saver's
awaits end and a confirmation goes on to request its save; an upload
that failed for good is tried again with the next message only, so the promise is made while the last one did not fail.

`Server` and `Intake` state no fairness: what must happen in the end is checked on `ChatPublisher` and `HistoryBook`, of which they
are coarser pictures. In `FolderLock`, `SlotNotes` and `Listener` time passes, timers fire and operations end, all weakly fair, also for a slow instance,
only later. A note is assumed not to fail for ever, and the network fails a bounded number of times. `HearsAgain` is checked with
connections that are made within the idle time; slower ones the watchdog would replace before they are made, for ever. `NeverDeafByItself` assumes
nothing of how long they take. Nothing is assumed of starts,
releases, kills, confirmations or frames.

## 5. Proofs

Eight modules prove, by inductive invariants, what the runs check on small instances. Each theorem holds for every value of the
constants that the module's `ConstantsAssumption` allows (and, for `ChatPublisher`, `SentinelAssumption`: the marks for an empty slot,
an absent file and a damaged one are not themselves entries or checkpoints); those assumptions say what `src/settings.ts` requires, and
TLC evaluates them in every run. TLC checked each inductive invariant before it was proved.

| Module | Theorem | Property |
|---|---|---|
| `ChatPublisherProofs` | `TypeCorrect` | `TypeOK` |
| | `WrittenAhead` | `WriteAhead` |
| | `SlotsHaveOneEntry` | `OneEntryPerSlot` |
| | `ConfirmedSlotsHold` | `ConfirmedHolds` |
| | `AlwaysResumable` | `CheckpointResumable` |
| | `NeverBlocked` | `NeverBlocksAlone` |
| | `DrainLosesNothing` | `DrainedIsEmpty` |
| | `NoWakeUpIsLost` | `NoLostWakeUp` |
| | `CheckpointsMoveForward` | `CheckpointMovesForward` |
| | `StoppedIsSilent` | `SilentOnceStopped` |
| | `Implementation` | `ImplementsLog` |
| | `DamagedChatIsSilent` | `DamagedStaysSilent`, of `OtherSpec` |
| | `NothingSentOver` | `NeverSendsOver`, of `OtherSpec` |
| | `BlockedIsSilent` | `SilentOnceStopped`, of `OtherSpec` |
| | `EveryWaitIsAnswered` | each wait for a checkpoint write has its write, and no write two waits, of `OtherSpec` |
| `HistoryBookProofs` | `NoRowIsLost` | `RowsKept` |
| | `NothingIsLostByACrash` | `CheckpointCompletes` |
| | `LinksLead` | `LinksLeadBack` |
| | `OnlyARaceBlocks` | the chat is blocked only after a file was closed during its own upload |
| `ServerProofs` | `ContinuesThere` | `ContinuesWhereItStood` |
| | `NothingIsLost` | `AccountedFor` |
| | `LockCovers` | `LockCoversRecords` |
| | `WholeAlone` | `WholeUnlessOverlapped` |
| | `TypesHold` | types; the bound of the slots is reached by accepted messages only |
| `IntakeProofs` | `RatesHold` | `RatesAreExact` |
| | `OnlyTheTakenAreDuplicates` | `DuplicatesWereTaken` |
| | `NoneIsTakenTwice` | `TakenOnce` |
| `FolderLockProofs` | `LiveHolderKeepsIt` | `HolderKeepsIt` |
| | `OneHolderWhilePrompt` | one holder, while nothing was late and no lock was released |
| `SlotNotesProofs` | `SilenceBound` | `SilenceIsBounded` |
| | `AddressesTriedOnce` | `OneTryPerAddress` |
| `ListenerProofs` | `NoSubscriptionLeaks` | `NoneLeaks` |
| | `ReconnectIsScheduled` | `ReconnectsWhenClosed` |
| | `NeverDeaf` | `NeverDeafByItself` |
| | `BeatsAreToldApart` | `HeartbeatsAreToldApart` |
| `NewChatProofs` | `NewAfterFourLies` | `NewTakesFourLies` |
| | `WalkIsComplete` | `WalkReachesTheEnd` |

### ChatPublisher

For every set of messages, every number of slots and boots, every window and queue limit, with reads that miss or not.
None of these properties is inductive by itself. That a slot has one payload, for instance, needs that the payload of a
slot in flight is the one on disk; that needs every later checkpoint write to hold it, also one that began before the
newest batch was staged; and that needs to know which slots such a write may lack. The inductive invariant is
`IInv == TypeOK /\ Durable /\ (Blank \/ Loaded)`:

- `Durable` is what file and feed hold whatever the process does: everything sent is on disk, the file has an entry for every
  confirmed slot and its pending entries run on (`Held`), confirmed slots hold their entries, and a slot holds only what was sent to it.
- `Blank` is a process that has not taken over its checkpoint, or refused it for a gap in its rows: it holds nothing, so
  nothing of it can be wrong.
- `Loaded` is a process that has. `SlotsInOrder`: confirmed slots, then those in flight without a gap, then free ones.
  `BatchOnTop`: the batch being recorded is the newest slots and none of it was touched. `ChainInOrder`: `persist()`
  and the first record wait for at most one write each. `AllRecorded`: every slot confirmed or in flight, except
  that batch, is in the file and in the write under way, and a write that `persist()` waits for holds the batch too.
  `Delivered`: only recorded slots were sent, and confirmed or landed slots hold their entries.

There is one lemma per action; those of the actions that end a checkpoint write share `WriteEnds` and `WriteEndsKeeps`,
those that land a slot share `LandsInv`. `ReadForeignInv` proves its step impossible, and `ResumeBlocksInv` all of its step
but the refusal of rows with a gap, which is what `NeverBlocked` says. Nothing is proved here of when rows have a gap, as a write
may always be one that lacks some: `OnlyARaceBlocks` of `HistoryBookProofs` is the other half. `InFlightIsInterval` shows that `enterReady()` may compute the next slot by counting the
entries in flight. The refinement follows from `FeedStep`, `FeedWritesOnce` and `TipStep`. `LoopAtRest` is inductive on top of
`IInv`: a loop that returned from a drain left nothing, and one that pauses has no message it could stage, or a delivery is still
recording a confirmation that will wake it.

### OtherWriter

For the same constants, with a second writer and an operator. `IInv` is lost here: a chat blocks, and a block forgets entries that were
sent. What remains are three invariants of its own, each weaker than a part of `IInv` and each enough for what it proves.

- `Harmless`: a process that has not resumed, or found the file damaged, has nothing staged, in flight or asked for (`Unresumed`).
  So `DamagedChatIsSilent`, and, as a block empties what is in flight (`BlockedIsEmpty`), `BlockedIsSilent`: in `ChatPublisher` alone
  no chat blocks, and `StoppedIsSilent` says nothing about blocks.
- `Clear`: the other writer's entries have no empty slot below them (`TakenInOrder`); an entry in flight or recorded, once sent,
  has none of the other writer's slots after its own (`Mine`, `Above`); so once a slot is confirmed all later ones are free of the
  other writer, and a batch written unread goes to free slots (`TipIsClear`, `BatchIsClear`). `NothingSentOver` needs
  `AtRestOnly` and `~Misses`, as the run does: without the first it fails (section 6), and a read that misses what the other
  writer put in a slot sends over it.
- `Answered`: those who await a checkpoint write, and what the chain of writes will answer, are the same, each once. It is the part of
  `ShutdownEnds` that is a safety property: the loop and the deliveries wait for writes, writes for nothing but the write before them,
  and no block, stop, failed write or second writer takes a write away from its waiter, or launches a batch twice. `Spec` is the case
  of `OtherSpec` in which the other two do nothing.

### HistoryBook

For any number of rows, boots and restarts and any limit of a file. `IInv` says of the files uploaded that each leads back
(`UploadsOK`), of those in memory that they follow each other up to the last row and only the first may have been uploaded (`FilesOK`,
`FirstOK`), of the upload under way that it holds the first rows of the oldest file (`SnapshotOK`), of the newest link that it does not
fall behind what was dropped from memory (`NewestOK`), and of the checkpoint that its rows run on from its link (`CheckpointOK`). Only
`~raced` makes an upload end where the next file begins; without it the link still leads back, which is why `LinksLead` has no
exception and `NoRowIsLost` has one. `Reachable` follows links by a recursive function; that it exists, and that it reaches every row
below a link, is proved from the order of the links (`ReachableIs`).

### Intake

For any senders, ids, limits and window. Rates: a rate remembers every message of the window that is about it
(`EventsOK`), although `fits()`, `record()` and `prune()` each forget by their own comparison; a window that ended
in the past cannot get another message. Ids: messages queued or pending are known and held once (`HeldOnce`), those published are
remembered, or enough others were published since, or a publisher resumed with a file that begins later (`PublishedAreKnown`), and what
is remembered is the newest slot of each id (`NewestAreRecent`), without which forgetting the oldest would forget too much.

### Server

For any number of publishers, messages, evictions, kills, boots and any cap. `IInv` has the shape of a publisher's record at each of
its awaits and that one publisher is open at most (`ShapeOK`), that nothing is left of a process that is down (`DownOK`), that the slots used are
those of accepted messages (`NumbersOK`), and where a message may be: queued, staged, in a checkpoint text, in the feed, and in
which of them at once (`MessagesOK`). Its core is `AloneOK`: while no eviction overlapped with a new publisher, there is one publisher that
is not at rest at most, and the file, its temporary copy, the text being written and what that publisher holds all tell the same story. `Accounted` is
`AccountedFor` without what the property says of messages reported dropped. None is inductive without the others: that a message
lives on needs that the file which will be renamed holds it, which needs that nobody else writes that file. A publisher that refused the
rows of its checkpoint is the only one that is alone and blocked (`Excused`): it wrote nothing, so the file still tells the story. `WrittenOK` does not
need `AloneOK`: nobody, and no text in any file, takes a slot for published that holds nothing, and without a checkpoint nothing was ever
sent. That is the part of `ContinuesWhereItStood` that overlapping publishers cannot break.

### FolderLock

For any number of instances, any of them slow, and any times with `Settle <= Refresh` and `2 * Refresh < Stale`. `PromptOK`
says what holds as long as nothing was late and no lock released: one that made the file is alone with it, one that renamed its own over a
stale file sleeps until all others that found the same stale file have renamed theirs (`SettlingOK`), and a holder's file
is touched long before it is stale (`HoldingOK`). `OneHolderWhilePrompt` is what is left of "One writer per checkpoint folder": `two_holders`
needs a release, and two holders after a delay are what `TwoHoldersEnd` is about.

### SlotNotes, Listener, NewChat

`SlotNotesProofs`: the timer is due when the time slot ends (`DueAtSlotEnd`), and by then the last note is not older than what may
space two notes and a time slot (`SilenceAhead`). `ListenerProofs`: while the network does not fail, of any set of replaced
subscriptions one was replaced by another outside the set, which is connected or will be late when the first is cancelled
(`EachHasASuccessor`, `ConnectedOrLate`), so a set that is all that is heard can only end with one overdue; nonces sent keep their order, the
matched are the last ones counted, and a nonce is sent, counted, or followed by too many others (`EachHasItsPlace`). `NewChatProofs`: each
request on the way to "new" was reached over one more wrong answer.

### Left to TLC

Liveness, since the prover handles neither fairness nor `ENABLED`: `SentConfirms`, `QueuedPublishes`, `ShutdownEnds`,
`SavedInTheEnd`, `TwoHoldersEnd`, `AloneAcquires`, `NewestNamed`, `HearsAgain`. Induction over data: that the closed forms `Restored` and
`Remembered` are what adding rows one by one gives, which TLC evaluates over bounded inputs. Every
other property of a passing run has its theorem.

Two things were found by failed attempts: the bound on silence (section 6), and that `OneEntryPerSlot` does not survive another writer.

## 6. Where the code and its documents disagree

Each of the first two is a run that refutes one sentence; `PROJECT.json` quotes it with its line.

- `history_restart`: a history file closed while its upload runs is dropped after that upload, although the
  upload lacks the rows appended meanwhile. Those rows are in no file, and after the next crash the checkpoint's rows have
  a gap, so the chat blocks at its next start. This is the one way in which a chat without another writer or overlapping publishers comes to be
  blocked, and the exception that `CheckpointResumable` and `NeverBlocksAlone` in `ChatPublisher` and `WholeUnlessOverlapped` in `Server` name.
- `two_holders`: a start that finds the lock file, and then finds it gone when it asks for its age, takes it for stale. It renames
  its own over the path although another start may have made the file meanwhile, which holds the lock without a second look.
  Both hold it until the next refresh of the other.

Met while modelling, and stated by the properties as the code has it:

- `src/README.md:57` has the server check "that the message is not a duplicate of one it already took (by `addr` and `id`)". A message
  queued while the chat resumes is not compared with the recorded entries in flight, neither then nor when it is staged, and is
  published a second time. Ids are also forgotten past `RECENT_ID_LIMIT`, and with a publisher whose successor's history file does not reach
  back to them. `TakenOnce` in `Intake` says exactly this.
- `src/README.md:187-189` says of a slot that holds anything else that "the server stops rather than overwrite". After a restart with an
  entry in flight, that entry's landing ends the reading of slots before they are written, so a slot that another writer took
  after it is written unread. The cause is that `tipConfirmed`, "A slot has been confirmed since the chat resumed" by its
  comment, is set by any slot that lands. `NeverSendsOver` holds with `AtRestOnly = TRUE` and is violated with `FALSE`.
- `src/README.md:162` says "Only a slot's recorded entry is ever written to it. It is resent unchanged". `block()` clears the entries in
  flight (`src/chat.ts:724`), and a checkpoint write that was asked for before, as `recordHistory()` does, takes its snapshot only at its turn
  (`src/chat.ts:685`). So when another writer took the first of two slots in flight and the second was sent meanwhile, the block may be
  followed by a checkpoint without the second's entry. The next start gives both slots to messages anew and, while the first payload has
  not arrived, sends another one to the same slot. `OneEntryPerSlot` and `WriteAhead` are therefore promised of `Spec` only. Asked of
  `OtherSpec`, TLC finds such a behaviour of 21 states that begins before a restart with one confirmed slot, the other writer having taken
  the one after it. The chat was reported as blocked meanwhile.
- `src/checkpoint.ts:37` says that "a crash leaves the old or the new checkpoint and never half of one". Two publishers of one chat
  write through the same temporary file: `idleSince()` does not ask for a checkpoint write that runs, as after every history save,
  so a chat may be evicted during one and opened again by its next message. If that write outlasts the new publisher's resume, the
  later one empties the file that the earlier one then renames, and the next start finds half a checkpoint and blocks the chat.
  `WholeUnlessOverlapped` in `Server` says that nothing else leads there; without its exception TLC finds such a behaviour of 14 steps.
- `src/server.ts:297` says "An evicted chat resumes from its checkpoint on its next message", and `src/chat.ts:173` "Only a chat with nothing to
  lose may be evicted". With such an overlap neither is so. It takes a checkpoint write that is still running when the chat has been quiet for
  `CHAT_IDLE_EVICT_MS`, ten minutes by default. The write then replaces the checkpoint of the chat's next publisher with what
  the evicted one knew. TLC finds, when the exception of each property is left out:
  - the next start stands behind the feed: the new publisher recorded, sent and confirmed an entry, the late write puts the file back, the process
    is killed, and the publisher after that takes the slot for free (24 steps). It reads the slot before it writes it, so the chat blocks
    then and the entry is not replaced;
  - an accepted message vanishes unreported: the new publisher recorded an entry, the late write replaces the file that held it, and a
    shutdown leaves the entry to the checkpoint instead of reporting it (19 steps);
  - with four messages, a slot gets a second entry: after the file was put back to one slot confirmed and one in flight, the landing
    of the latter at the next start lets the slots after it be written unread (51 steps).

  `ContinuesWhereItStood` and `AccountedFor` name this exception. What they say beside it holds with an overlap too: no publisher is ahead of the
  feed, and what was reported as dropped is not published.
- `src/listener.ts:160` has a replaced subscription closed "once the new one has had time to connect". That time is half of
  `RESUBSCRIBE_IDLE_MS` but no more than 10 s, so 10 s by default, and nobody looks whether the new one is connected. When it takes longer, the
  listener is deaf until it is. `NeverDeafByItself` says that this is the only way in which it becomes so by itself.
- `enterReady()` does not look at `stopped`, so a resume that ends after `stop()` makes the chat ready again, and a history save
  that ends then writes the checkpoint of a stopped chat, after the lock is released, although a test is named "a history save that
  finishes after the stop does not write the checkpoint" (`src/test/restart.test.ts:361`). `LockCoversRecords` excepts it (`late`), and an
  evicted publisher, which `stop()` does not wait for. `SilentOnceStopped` holds all the same: nothing is sent.
- `stop()` reports an entry as dropped unless its own record is done. A checkpoint write that ran before, or that replaced the file
  and then failed to sync the folder, may hold it already, and the next start publishes it. `AccountedFor` excepts it (`doubt`).
- The rates are kept in memory and by the system's clock, so `RatesAreExact` speaks of one process and a clock that is not set back.
- `lastTickedSlot` is forgotten by a restart. One within a time slot whose timer then fires a moment early tries a note's address
  again, which `OneTryPerAddress` excepts.
- Heartbeats of notes are due at the ends of time slots and counted from a timer that may have been late, so a quiet chat can go
  without a note for `NOTE_HEARTBEAT_MS` and another time slot, which is the bound in `SilenceIsBounded`. A note whose write takes longer than
  the heartbeat delays the next one by as much (`Spacing`): nothing in the settings excludes it, and the first attempt to prove the
  bound without it failed.

## 7. Plan

Done: `ChatPublisher`, `FeedLog`, `OtherWriter`, `HistoryBook`, `NewChat`, `FolderLock`, `SlotNotes`, `Listener`, `Server`, `Intake`,
and the proofs above: every safety property of the runs, each for all values of the constants.

Next: `ChatWithHistory`, in which the publisher's confirmations drive the history book over one checkpoint file; it implements
`ChatPublisher` and `HistoryBook`. Each of the two now takes from the other what it may do at any time (`saving` there, `Confirm` and `Record`
here).

## 8. Not modelled, and why

Encoding and signing of entries and notes, the JSON of the checkpoint and its upgrade, settings, statistics, timings, logging and the lengths
of delays change no order and lose nothing; delays are nondeterministic instead. `src/mine.ts` is an offline tool.
The health check only reads state. A loop that ends by an unexpected error is left out: no operation modelled throws one.
In `ChatPublisher` a checkpoint lacks rows or does not, by choice; in `Server` the choice is made at the start that reads it.
In `ChatPublisher` the published ids have no limit, which `Intake` has.
In `ChatPublisher` the published ids after a restart are those of the newest rows, any number of them, since the file boundary belongs to `HistoryBook`.
The scan of the feed for a chat without a checkpoint is one step that finds an end of the written slots, or fails.
In `SlotNotes` the wall clock never goes back and never jumps. In `FolderLock` the file system never fails, and all instances share its clock.
