------------------------- MODULE ChatPublisherProofs -------------------------
(***************************************************************************)
(* The safety of ChatPublisher for every number of messages, slots, boots  *)
(* and every window: types, the write-ahead rule, one entry per slot,      *)
(* confirmed slots that hold their entries, checkpoints whose pending      *)
(* entries always pass the check, and a chat that without another writer   *)
(* is blocked by nothing but a gap in its rows. At the end, of             *)
(* OtherWriter: what the server sends when there is another one, and who   *)
(* waits for its checkpoint writes.                                        *)
(***************************************************************************)
EXTENDS OtherWriter, FiniteSetTheorems, SequenceTheorems, TLAPS

-----------------------------------------------------------------------------
(* The inductive invariant. The process either holds nothing yet (Blank) or has resumed (Loaded). *)

\* The slots whose entry the checkpoint holds: the confirmed ones, and those in flight that are not being staged.
Recorded == (0 .. confirmed) \cup (pending \ staged)

\* A checkpoint with an entry for every slot up to its index, and entries in flight that run on from there.
Held(c) == (\A s \in 0 .. c.index : c.entries[s] # NoEntry) /\ PendingRunsOn(c)

\* What the checkpoint file and the feed hold, whatever the process does.
Durable ==
  /\ disk # Damaged
  /\ WriteAhead
  /\ HasCheckpoint => Held(disk)
  /\ HasCheckpoint => \A s \in 0 .. disk.index : feed[s] = disk.entries[s]
  /\ \A s \in Slot : feed[s] # NoEntry => <<s, feed[s]>> \in sent

\* Nothing has been taken over from the checkpoint yet, so nothing is in flight. Nor is it when its rows have a gap.
Blank ==
  /\ state \in {"down", "resuming", "stopped", "blocked"}
  /\ state = "blocked" => disk # NoCheckpoint /\ disk.gap
  /\ loop \in {"resuming", "retry", "turn", "returned"}
  /\ staged = {} /\ pending = {} /\ landed = {} /\ confirmed = -1
  /\ \A s \in Slot : task[s] = "none"
  /\ chain = <<>> /\ snapshot = NoCheckpoint

\* The slots: confirmed, then in flight without a gap, then free.
SlotsInOrder ==
  /\ confirmed < nextIndex
  /\ \A s \in pending : confirmed < s /\ s < nextIndex
  /\ \A s \in pending : \A t \in (confirmed + 1) .. s : t \in pending
  /\ ~stopped => pending = (confirmed + 1) .. (nextIndex - 1)
  /\ \A s \in (0 .. confirmed) \cup pending : entry[s] # NoEntry

\* The batch being recorded: the newest slots, none of them touched yet.
BatchOnTop ==
  /\ staged # {} => loop \in {"persisting", "persistBackoff"}
  /\ \A s \in staged : confirmed < s /\ s < nextIndex
  /\ \A s \in staged : \A t \in s .. (nextIndex - 1) : t \in staged
  /\ stopped => pending \cap staged = {}
  /\ \A s \in Slot : task[s] # "none" => s \in Recorded
  /\ landed \subseteq pending \ staged

\* Who waits for a checkpoint write.
ChainInOrder ==
  /\ \A i \in 1 .. Len(chain) : chain[i] = Persist => loop = "persisting"
  /\ \A i \in 1 .. Len(chain) : chain[i] = Record => loop = "recording"
  /\ \A i, j \in 1 .. Len(chain) : chain[i] = chain[j] /\ chain[i] \in {Persist, Record} => i = j
  /\ snapshot # NoCheckpoint => chain # <<>>

\* The file and the write under way hold everything recorded, and the write persist() waits for its batch too.
AllRecorded ==
  /\ \A s \in Recorded : HasCheckpoint /\ disk.entries[s] = entry[s]
  /\ snapshot # NoCheckpoint =>
       /\ Held(snapshot)
       /\ \A s \in Recorded : snapshot.entries[s] = entry[s]
       /\ \A s \in 0 .. snapshot.index : feed[s] = snapshot.entries[s]
       /\ snapshot.index <= confirmed
       /\ HasCheckpoint => disk.index <= snapshot.index
       /\ Head(chain) = Persist => \A s \in pending : snapshot.entries[s] = entry[s]
  /\ HasCheckpoint => disk.index <= confirmed

\* What was sent, and what is known to have arrived.
Delivered ==
  /\ \A w \in sent : w[1] \in Recorded /\ entry[w[1]] = w[2]
  /\ \A s \in Slot : task[s] = "writing" => <<s, entry[s]>> \in sent
  /\ \A s \in (0 .. confirmed) \cup landed : feed[s] = entry[s]

Loaded ==
  /\ state \in {"ready", "stopped"}
  /\ loop \notin {"resuming", "retry"}
  /\ SlotsInOrder
  /\ BatchOnTop
  /\ ChainInOrder
  /\ AllRecorded
  /\ Delivered

IInv == TypeOK /\ Durable /\ (Blank \/ Loaded)

-----------------------------------------------------------------------------
(* Lemmas about the operators of the model *)

(* The n numbers after i are n. *)
LEMMA IntervalSize ==
  ASSUME NEW i \in Int, NEW n \in Nat
  PROVE  IsFiniteSet((i + 1) .. (i + n)) /\ Cardinality((i + 1) .. (i + n)) = n
<1> DEFINE a == i + 1
           b == i + n
<1>1. a \in Int /\ b \in Int /\ (IF a > b THEN 0 ELSE b - a + 1) = n
  OBVIOUS
<1> HIDE DEF a, b
<1>2. IsFiniteSet(a .. b) /\ Cardinality(a .. b) = n
  BY <1>1, FS_Interval
<1> QED
  BY <1>2 DEF a, b

(* A checkpoint whose entries in flight run on has as many of them as slots up to the next free one: what enterReady()
   counts is what it finds. *)
LEMMA InFlightIsInterval ==
  ASSUME NEW c \in Checkpoint, PendingRunsOn(c)
  PROVE  /\ IsFiniteSet(InFlight(c))
         /\ Cardinality(InFlight(c)) \in Nat
         /\ InFlight(c) = (c.index + 1) .. (c.index + Cardinality(InFlight(c)))
         /\ NextAfter(c.index, InFlight(c)) \in 0 .. MaxSlots
<1> DEFINE D == InFlight(c)
           N == Cardinality(D)
           I == (c.index + 1) .. (c.index + N)
<1>1. MaxSlots \in Nat \ {0} /\ c.index \in -1 .. MaxSlots - 1
  BY ConstantsAssumption DEF Checkpoint
<1>2. D \subseteq (c.index + 1) .. (MaxSlots - 1)
  BY <1>1 DEF InFlight, Slot
<1>3. IsFiniteSet(D) /\ N \in Nat
  <2>1. IsFiniteSet((c.index + 1) .. (MaxSlots - 1))
    BY <1>1, FS_Interval
  <2>2. IsFiniteSet(D)
    BY <1>2, <2>1, FS_Subset
  <2> QED
    BY <2>2, FS_CardinalityType
<1>4. ASSUME NEW d \in D
      PROVE  d <= c.index + N
  <2>1. (c.index + 1) .. d \subseteq D
    BY <1>4 DEF PendingRunsOn
  <2>2. d \in Int /\ d >= c.index + 1
    BY <1>1, <1>2, <1>4
  <2>3. Cardinality((c.index + 1) .. d) = d - c.index
    <3>1. ASSUME NEW a \in Int, NEW b \in Int, b >= a
          PROVE  Cardinality(a .. b) = b - a + 1
      BY <3>1, FS_Interval
    <3>2. c.index \in Int /\ c.index + 1 \in Int
      BY <1>1
    <3>3. Cardinality((c.index + 1) .. d) = d - (c.index + 1) + 1
      BY <2>2, <3>1, <3>2
    <3> HIDE DEF D, N, I
    <3> QED
      BY <2>2, <3>2, <3>3
  <2>4. Cardinality((c.index + 1) .. d) <= N
    BY <1>3, <2>1, FS_Subset
  <2> QED
    BY <1>1, <1>3, <2>2, <2>3, <2>4
<1>5. D \subseteq I
  <2> HIDE DEF D
  <2> QED
    BY <1>1, <1>2, <1>3, <1>4
<1>6. IsFiniteSet(I) /\ Cardinality(I) = N
  <2> HIDE DEF N
  <2> QED
    BY <1>1, <1>3, IntervalSize
<1>7. D = I
  BY <1>3, <1>5, <1>6, FS_Subset
<1>8. NextAfter(c.index, D) \in 0 .. MaxSlots
  <2>1. N > 0 => c.index + N \in D
    BY <1>1, <1>3, <1>7
  <2> HIDE DEF D, N
  <2> QED
    BY <1>1, <1>2, <1>3, <2>1 DEF NextAfter, D, N
<1> HIDE DEF D, N
<1> QED
  BY <1>3, <1>7, <1>8 DEF D, N

(* Whatever is recorded while the slots are in order is a checkpoint whose entries run on, rows aside. *)
LEMMA CurrentRunsOn ==
  ASSUME TypeOK, SlotsInOrder, NEW g \in BOOLEAN
  PROVE  /\ Current(g) \in Checkpoint
         /\ Current(g).index = confirmed
         /\ Held(Current(g))
         /\ \A s \in (0 .. confirmed) \cup pending : Current(g).entries[s] = entry[s]
<1>1. confirmed \in -1 .. MaxSlots - 1 /\ pending \subseteq Slot /\ MaxSlots \in Nat \ {0}
  BY ConstantsAssumption DEF TypeOK
<1>2. Current(g) \in Checkpoint
  BY <1>1 DEF TypeOK, Current, Records, Checkpoint
<1>3. Current(g).index = confirmed
  BY DEF Current, Records
<1>4. \A s \in Slot : Current(g).entries[s] = IF s <= confirmed \/ s \in pending THEN entry[s] ELSE NoEntry
  BY DEF Current, Records
<1>5. InFlight(Current(g)) = pending
  <2>1. \A s \in Slot : s \in InFlight(Current(g)) <=> s > confirmed /\ Current(g).entries[s] # NoEntry
    BY <1>3 DEF InFlight
  <2>2. \A s \in pending : s \in InFlight(Current(g))
    BY <1>1, <1>4, <2>1 DEF SlotsInOrder, Slot
  <2>3. \A s \in InFlight(Current(g)) : s \in pending
    BY <1>1, <1>4, <2>1 DEF InFlight, Slot
  <2> QED
    BY <2>2, <2>3
<1>6. \A s \in (0 .. confirmed) \cup pending : Current(g).entries[s] = entry[s]
  <2>1. \A s \in 0 .. confirmed : s \in Slot /\ s <= confirmed
    BY <1>1 DEF Slot
  <2>2. \A s \in pending : s \in Slot
    BY <1>1
  <2> QED
    BY <1>4, <2>1, <2>2
<1>7. Held(Current(g))
  BY <1>1, <1>3, <1>5, <1>6 DEF Held, PendingRunsOn, SlotsInOrder
<1> QED
  BY <1>2, <1>3, <1>6, <1>7

(* A checkpoint write that ends, or is cut short, keeps everything durable, and the file's confirmed slot does not
   move back. *)
LEMMA WriteKeepsDurable ==
  ASSUME TypeOK, Durable, Loaded, snapshot # NoCheckpoint,
         disk' \in {disk, snapshot}, UNCHANGED swarm
  PROVE  /\ Durable'
         /\ disk' \in Checkpoint \cup {NoCheckpoint, Damaged}
         /\ HasCheckpoint => HasCheckpoint' /\ disk'.index >= disk.index
         /\ HasCheckpoint' => disk'.index <= confirmed
         /\ \A s \in Recorded : HasCheckpoint' /\ disk'.entries[s] = entry[s]
<1>1. snapshot \in Checkpoint /\ NoCheckpoint \notin Checkpoint /\ Damaged \notin Checkpoint
  BY SentinelAssumption DEF TypeOK
<1>2. disk \in Checkpoint \cup {NoCheckpoint, Damaged} /\ disk # Damaged
  BY DEF TypeOK, Durable
<1>3. CASE disk' = disk
  <2> USE <1>3
  <2>1. HasCheckpoint' = HasCheckpoint
    BY DEF HasCheckpoint
  <2>2. Durable'
    BY <2>1 DEF Durable, WriteAhead, Held, PendingRunsOn, InFlight, swarm
  <2>3. HasCheckpoint => disk.index \in Int
    BY <1>2, ConstantsAssumption DEF HasCheckpoint, Checkpoint
  <2> QED
    BY <1>2, <2>1, <2>2, <2>3 DEF Loaded, AllRecorded
<1>4. CASE disk' = snapshot
  <2>1. HasCheckpoint'
    BY <1>1, <1>4 DEF HasCheckpoint
  <2>2. \A s \in Recorded : disk'.entries[s] = entry[s]
    BY <1>4 DEF Loaded, AllRecorded
  <2>3. WriteAhead'
    BY <2>1, <2>2 DEF WriteAhead, Loaded, Delivered, swarm
  <2>4. Held(disk')
    BY <1>4 DEF Loaded, AllRecorded
  <2>5. \A s \in 0 .. disk'.index : feed'[s] = disk'.entries[s]
    BY <1>4 DEF Loaded, AllRecorded, swarm
  <2>6. Durable'
    BY <1>1, <1>4, <2>1, <2>3, <2>4, <2>5 DEF Durable, Held, PendingRunsOn, InFlight, swarm
  <2>7. snapshot.index <= confirmed /\ (HasCheckpoint => disk.index <= snapshot.index)
    BY DEF Loaded, AllRecorded
  <2>8. snapshot.index \in Int /\ (HasCheckpoint => disk.index \in Int)
    BY <1>1, <1>2, ConstantsAssumption DEF HasCheckpoint, Checkpoint
  <2> QED
    BY <1>1, <1>4, <2>1, <2>2, <2>6, <2>7, <2>8
<1> QED
  BY <1>3, <1>4

-----------------------------------------------------------------------------
(* Every step keeps the invariant *)

(* The values of a process that has read nothing yet. *)
LEMMA EmptyTypes ==
  /\ <<>> \in Seq(Message) /\ <<>> \in Seq(Requester)
  /\ NoSlots \in [Slot -> Bytes \cup {NoEntry}]
  /\ NoTasks \in [Slot -> TaskState]
  /\ -1 \in -1 .. MaxSlots - 1 /\ 0 \in 0 .. MaxSlots
  /\ 0 \in 0 .. MaxBoots
BY ConstantsAssumption, EmptySeq DEF NoSlots, NoTasks, TaskState

(* Before the first start nothing is recorded, sent or in flight. *)
LEMMA InitInv == Init => IInv
<1> SUFFICES ASSUME Init PROVE IInv
  OBVIOUS
<1>1. TypeOK
  BY EmptyTypes DEF Init, TypeOK, LoopState
<1>2. Durable
  BY SentinelAssumption DEF Init, Durable, WriteAhead, HasCheckpoint, NoSlots
<1>3. Blank
  BY DEF Init, Blank, NoTasks
<1> QED
  BY <1>1, <1>2, <1>3 DEF IInv

(* What a process leaves behind when it ends: nothing but what is durable. *)
LEMMA PowerOffInv ==
  ASSUME TypeOK, PowerOff, Durable', disk' \in Checkpoint \cup {NoCheckpoint, Damaged}
  PROVE  IInv'
<1>1. TypeOK'
  BY EmptyTypes DEF PowerOff, TypeOK, LoopState, swarm
<1>2. Blank'
  BY DEF PowerOff, Blank, NoTasks
<1> QED
  BY <1>1, <1>2 DEF IInv

(* A kill at any point, one in the middle of a checkpoint write included, leaves a durable state. *)
LEMMA CrashInv ==
  ASSUME IInv, Crash
  PROVE  IInv'
<1>1. disk' \in {disk, snapshot} /\ (disk' = disk \/ snapshot # NoCheckpoint) /\ UNCHANGED swarm
  BY DEF Crash, PowerOff
<1>2. CASE Loaded /\ snapshot # NoCheckpoint
  BY <1>1, <1>2, WriteKeepsDurable, PowerOffInv DEF IInv, Crash
<1>3. CASE disk' = disk
  <2>1. Durable'
    BY <1>1, <1>3 DEF IInv, Durable, WriteAhead, HasCheckpoint, Held, PendingRunsOn, InFlight, swarm
  <2> QED
    BY <1>3, <2>1, PowerOffInv DEF IInv, TypeOK, Crash
<1> QED
  BY <1>1, <1>2, <1>3 DEF IInv, Blank

(* A process that ends by itself, after drain(), leaves a durable state. *)
LEMMA ExitInv ==
  ASSUME IInv, Exit
  PROVE  IInv'
<1>1. Durable'
  BY DEF IInv, Exit, PowerOff, Durable, WriteAhead, HasCheckpoint, Held, PendingRunsOn, InFlight, swarm
<1> QED
  BY <1>1, PowerOffInv DEF IInv, TypeOK, Exit

(* A step that leaves the checkpoint file and Swarm alone keeps everything durable. *)
LEMMA DurableUnchanged ==
  ASSUME Durable, UNCHANGED <<disk, swarm>>
  PROVE  Durable'
BY DEF Durable, WriteAhead, HasCheckpoint, Held, PendingRunsOn, InFlight, swarm

(* A started process holds nothing until resume() has read the checkpoint. *)
LEMMA StartInv ==
  ASSUME IInv, Start
  PROVE  IInv'
<1> USE DEF Start, slots, batch, intake, record, swarm
<1>1. TypeOK'
  BY ConstantsAssumption DEF IInv, TypeOK, LoopState
<1>2. Durable'
  BY DurableUnchanged DEF IInv
<1>3. Blank'
  BY DEF IInv, Blank, Loaded
<1> QED
  BY <1>1, <1>2, <1>3 DEF IInv

(* A wake-up lets the loop go on and changes nothing else it does. *)
LEMMA WokenType ==
  ASSUME loop \in LoopState
  PROVE  /\ Woken \in LoopState
         /\ loop \in {"resuming", "turn", "returned", "persisting", "persistBackoff", "recording"} => Woken = loop
         /\ loop \notin {"resuming", "turn", "returned", "persisting", "persistBackoff", "recording"} => Woken = "turn"
BY DEF Woken, LoopState

(* Steps that only wake the loop, take messages or change the mode keep the slots and the records in order. *)
LEMMA LoadedUnchanged ==
  ASSUME IInv, Loaded, loop' = Woken, state' \in {"ready", "stopped"}, stopped' = stopped,
         UNCHANGED <<slots, batch, task, record, swarm>>
  PROVE  Loaded'
<1> USE DEF slots, batch, record, swarm
<1>1. loop' \notin {"resuming", "retry"}
  BY WokenType DEF IInv, TypeOK, Loaded
<1>2. SlotsInOrder'
  BY DEF Loaded, SlotsInOrder
<1>3. BatchOnTop'
  BY WokenType DEF IInv, TypeOK, Loaded, BatchOnTop, Recorded
<1>4. ChainInOrder'
  BY WokenType DEF IInv, TypeOK, Loaded, ChainInOrder
<1>5. AllRecorded'
  BY DEF Loaded, AllRecorded, Recorded, HasCheckpoint, Held, PendingRunsOn, InFlight
<1>6. Delivered'
  BY DEF Loaded, Delivered, Recorded
<1> QED
  BY <1>1, <1>2, <1>3, <1>4, <1>5, <1>6 DEF Loaded

(* drain() only ends accepting and wakes the loop. *)
LEMMA DrainInv ==
  ASSUME IInv, Drain
  PROVE  IInv'
<1>1. TypeOK'
  BY WokenType DEF Drain, IInv, TypeOK, slots, batch, intake, record, swarm
<1>2. Durable'
  BY DurableUnchanged DEF IInv, Drain, record
<1>3. CASE Blank
  <2>1. loop' \in {"resuming", "turn", "returned"}
    BY <1>3, WokenType DEF Drain, IInv, TypeOK, Blank
  <2>2. Blank'
    BY <1>3, <2>1 DEF Drain, Blank, slots, batch, record
  <2> QED
    BY <1>1, <1>2, <2>2 DEF IInv
<1>4. CASE Loaded
  <2>1. Loaded'
    BY <1>4, LoadedUnchanged DEF Drain, Loaded
  <2> QED
    BY <1>1, <1>2, <2>1 DEF IInv
<1> QED
  BY <1>3, <1>4 DEF IInv

(* offer() only touches the queue and its ids. *)
LEMMA OfferInv ==
  ASSUME IInv, NEW m \in Message, Offer(m)
  PROVE  IInv'
<1>1. TypeOK'
  <2>1. queue' \in Seq(Message)
    BY AppendProperties DEF Offer, IInv, TypeOK
  <2> QED
    BY <2>1, WokenType DEF Offer, IInv, TypeOK, life, slots, batch, record, swarm
<1>2. Durable'
  BY DurableUnchanged DEF IInv, Offer, record
<1>3. CASE Blank
  <2>1. loop' \in {"resuming", "turn", "returned"}
    BY <1>3, WokenType DEF Offer, IInv, TypeOK, Blank
  <2>2. Blank'
    BY <1>3, <2>1 DEF Offer, Blank, life, slots, batch, record
  <2> QED
    BY <1>1, <1>2, <2>2 DEF IInv
<1>4. CASE Loaded
  <2>1. Loaded'
    BY <1>4, LoadedUnchanged DEF Offer, Loaded, life
  <2> QED
    BY <1>1, <1>2, <2>1 DEF IInv
<1> QED
  BY <1>3, <1>4 DEF IInv

(* stop() drops every slot that is not being recorded, whether its delivery has noticed or not. *)
LEMMA StopInv ==
  ASSUME IInv, Stop
  PROVE  IInv'
<1> USE DEF Stop, batch, record, swarm
<1>1. TypeOK'
  <2>1. <<>> \in Seq(Message)
    BY EmptySeq
  <2> QED
    BY <2>1, WokenType DEF IInv, TypeOK
<1>2. Durable'
  BY DurableUnchanged DEF IInv
<1>3. CASE Blank
  <2>1. loop' \in {"resuming", "turn", "returned"}
    BY <1>3, WokenType DEF IInv, TypeOK, Blank
  <2>2. Blank'
    BY <1>3, <2>1 DEF Blank
  <2> QED
    BY <1>1, <1>2, <2>2 DEF IInv
<1>4. CASE Loaded
  <2> USE <1>4
  <2>1. state' \in {"ready", "stopped"} /\ loop' \notin {"resuming", "retry"}
    BY WokenType DEF IInv, TypeOK, Loaded
  <2>2. SlotsInOrder'
    <3>1. ASSUME NEW s \in pending \ staged, NEW t \in (confirmed + 1) .. s
          PROVE  t \in pending \ staged
      <4>1. t \in pending /\ s < nextIndex /\ s \in Int /\ nextIndex \in Int
        BY <3>1, ConstantsAssumption DEF IInv, TypeOK, Loaded, SlotsInOrder, Slot
      <4>2. t \in staged => s \in t .. (nextIndex - 1)
        BY <3>1, <4>1, ConstantsAssumption DEF IInv, TypeOK
      <4> QED
        BY <3>1, <4>1, <4>2 DEF Loaded, BatchOnTop
    <3> QED
      BY <3>1 DEF Loaded, SlotsInOrder
  <2>3. BatchOnTop'
    BY WokenType DEF IInv, TypeOK, Loaded, BatchOnTop, Recorded
  <2>4. ChainInOrder'
    BY WokenType DEF IInv, TypeOK, Loaded, ChainInOrder
  <2>5. AllRecorded'
    BY DEF Loaded, AllRecorded, Recorded, HasCheckpoint, Held, PendingRunsOn, InFlight
  <2>6. Delivered'
    BY DEF Loaded, Delivered, Recorded
  <2>7. Loaded'
    BY <2>1, <2>2, <2>3, <2>4, <2>5, <2>6 DEF Loaded
  <2> QED
    BY <1>1, <1>2, <2>7 DEF IInv
<1> QED
  BY <1>3, <1>4 DEF IInv

-----------------------------------------------------------------------------
(* Resuming *)

\* While the loop resumes or retries, the process holds nothing.
LEMMA ResumingIsBlank ==
  ASSUME IInv, loop \in {"resuming", "retry"} \/ state = "resuming"
  PROVE  Blank
BY DEF IInv, Loaded

(* resumeFromCheckpoint() takes over exactly the slots the file records. *)
LEMMA ResumeFromCheckpointInv ==
  ASSUME IInv, ResumeFromCheckpoint
  PROVE  IInv'
<1> DEFINE c == disk.index
           D == InFlight(disk)
<1>1. Blank /\ TypeOK /\ Durable
  BY ResumingIsBlank DEF ResumeFromCheckpoint, IInv
<1>2. disk \in Checkpoint /\ Held(disk) /\ PendingRunsOn(disk) /\ HasCheckpoint
  BY DEF ResumeFromCheckpoint, HasCheckpoint, IInv, TypeOK, Durable, Held
<1>3. c \in -1 .. MaxSlots - 1 /\ MaxSlots \in Nat \ {0} /\ disk.entries \in [Slot -> Bytes \cup {NoEntry}]
  BY <1>2, ConstantsAssumption DEF Checkpoint
<1>4. /\ D \subseteq Slot
      /\ D = (c + 1) .. (NextAfter(c, D) - 1)
      /\ NextAfter(c, D) \in 0 .. MaxSlots
      /\ c < NextAfter(c, D)
  <2>1. Cardinality(D) \in Nat /\ D = (c + 1) .. (c + Cardinality(D)) /\ NextAfter(c, D) \in 0 .. MaxSlots
    BY <1>2, InFlightIsInterval
  <2>2. NextAfter(c, D) = c + 1 + Cardinality(D)
    BY DEF NextAfter
  <2>3. D \subseteq Slot
    BY DEF InFlight
  <2> HIDE DEF D
  <2> QED
    BY <1>3, <2>1, <2>2, <2>3
<1>5. \A s \in (0 .. c) \cup D : s \in Slot /\ disk.entries[s] \in Bytes
  BY <1>2, <1>3 DEF Held, PendingRunsOn, InFlight, Slot
<1>6. /\ confirmed' = c /\ nextIndex' = NextAfter(c, D) /\ pending' = D /\ entry' = disk.entries
      /\ landed' = {} /\ tipConfirmed' = FALSE
      /\ state' = "ready" /\ loop' = "turn" /\ stopped' = stopped
      /\ task' = [s \in Slot |-> IF s \in D /\ ~stopped THEN "reading" ELSE "none"]
      /\ UNCHANGED <<staged, readFirst, record, swarm>>
  BY DEF ResumeFromCheckpoint, EnterReady, batch
<1>7. staged' = {} /\ chain' = <<>> /\ snapshot' = NoCheckpoint /\ disk' = disk /\ feed' = feed /\ sent' = sent
  BY <1>1, <1>6 DEF Blank, record, swarm
<1> HIDE DEF c, D
<1>8. TypeOK'
  <2>1. \A first \in 0 .. (c + 1) : {disk.entries[s].msg : s \in first .. c} \subseteq Message
    BY <1>3, <1>5 DEF Bytes
  <2>2. {disk.entries[s].msg : s \in D} \subseteq Message
    BY <1>5 DEF Bytes
  <2>3. publishedIds' \in SUBSET Message /\ queuedIds' \in SUBSET Message
    BY <1>1, <2>1, <2>2 DEF ResumeFromCheckpoint, EnterReady, TypeOK, c, D
  <2>4. notesOn' \in BOOLEAN /\ saving' \in BOOLEAN /\ queue' = queue /\ boot' = boot /\ draining' = draining
    BY DEF ResumeFromCheckpoint, EnterReady
  <2>5. task' \in [Slot -> TaskState]
    BY <1>6 DEF TaskState
  <2> QED
    BY <1>1, <1>3, <1>4, <1>6, <1>7, <2>3, <2>4, <2>5, EmptyTypes DEF TypeOK, LoopState
<1>9. Durable'
  BY <1>1, <1>7, DurableUnchanged DEF swarm
<1>10. SlotsInOrder'
  BY <1>3, <1>4, <1>5, <1>6, SentinelAssumption DEF SlotsInOrder
<1>11. Recorded' = (0 .. c) \cup D
  BY <1>6, <1>7 DEF Recorded
<1>12. BatchOnTop'
  BY <1>6, <1>7, <1>11 DEF BatchOnTop
<1>13. ChainInOrder'
  BY <1>7, EmptyTypes, EmptySeq DEF ChainInOrder
<1>14. AllRecorded'
  BY <1>2, <1>3, <1>6, <1>7, <1>11 DEF AllRecorded, HasCheckpoint, c
<1>15. Delivered'
  <2>1. ASSUME NEW w \in sent
        PROVE  w[1] \in (0 .. c) \cup D /\ disk.entries[w[1]] = w[2]
    <3>1. disk.entries[w[1]] = w[2] /\ w[1] \in Slot /\ w[2] \in Bytes
      BY <1>1, <2>1 DEF Durable, WriteAhead, TypeOK
    <3>2. w[1] > c => w[1] \in D
      BY <3>1, SentinelAssumption DEF c, D, InFlight
    <3> QED
      BY <1>3, <3>1, <3>2 DEF Slot
  <2>2. \A s \in 0 .. c : feed[s] = disk.entries[s]
    BY <1>1, <1>2 DEF Durable, c
  <2> QED
    BY <1>6, <1>7, <1>11, <2>1, <2>2 DEF Delivered
<1> QED
  BY <1>6, <1>8, <1>9, <1>10, <1>12, <1>13, <1>14, <1>15 DEF IInv, Loaded

(* Without a checkpoint nothing was ever sent, so every slot is empty. *)
LEMMA NothingSentYet ==
  ASSUME Durable, TypeOK, disk = NoCheckpoint
  PROVE  sent = {} /\ \A s \in Slot : feed[s] = NoEntry
BY DEF Durable, WriteAhead, HasCheckpoint, TypeOK

(* Without another writer, resume() finds nothing it has to block on but a gap in the rows of the checkpoint, and a
   chat it blocks still holds nothing. *)
LEMMA ResumeBlocksInv ==
  ASSUME IInv, ResumeBlocks
  PROVE  IInv'
<1>1. Blank /\ TypeOK /\ Durable
  BY ResumingIsBlank DEF ResumeBlocks, IInv
<1>2. disk # Damaged /\ (HasCheckpoint => PendingRunsOn(disk))
  BY <1>1 DEF Durable, Held
<1>3. disk = NoCheckpoint => \A s \in Slot : feed[s] \notin Foreign
  <2>1. NoEntry \notin Foreign
    BY SentinelAssumption, EmptyTypes DEF Foreign, Bytes
  <2> QED
    BY <1>1, <2>1, NothingSentYet
<1>4. disk # NoCheckpoint /\ disk.gap
  BY <1>2, <1>3 DEF ResumeBlocks, HasCheckpoint, RunsOn, RowsRunOn
<1>5. /\ state' = "blocked" /\ notesOn' = FALSE /\ loop' = "turn"
      /\ queue' = <<>> /\ queuedIds' = {} /\ pending' = {} /\ landed' = {}
      /\ UNCHANGED <<boot, stopped, draining, saving, staged, readFirst, publishedIds, confirmed, nextIndex, entry,
                     tipConfirmed, task, chain, snapshot, disk, feed, sent>>
  BY DEF ResumeBlocks, Block, batch, record, swarm
<1>6. TypeOK'
  BY <1>1, <1>5, EmptySeq DEF TypeOK, LoopState
<1>7. Durable'
  BY <1>1, <1>5, DurableUnchanged DEF swarm
<1>8. Blank'
  BY <1>1, <1>4, <1>5 DEF Blank
<1> QED
  BY <1>6, <1>7, <1>8 DEF IInv

(* Without a checkpoint nothing was ever sent, so resumeFromFeed() finds an empty feed. *)
LEMMA ResumeFromFeedInv ==
  ASSUME IInv, ResumeFromFeed
  PROVE  IInv'
<1>1. Blank /\ TypeOK /\ Durable /\ disk = NoCheckpoint
  BY ResumingIsBlank DEF ResumeFromFeed, IInv
<1>2. sent = {} /\ \A s \in Slot : feed[s] = NoEntry
  BY <1>1, NothingSentYet
<1>3. PICK head \in -1 .. MaxSlots - 1 :
        /\ \A s \in 0 .. head : feed[s] # NoEntry
        /\ EnterReady(head, [s \in Slot |-> IF s <= head THEN feed[s] ELSE NoEntry], {})
  BY DEF ResumeFromFeed
<1>4. head = -1
  BY <1>2, <1>3, ConstantsAssumption DEF Slot
<1>5. [s \in Slot |-> IF s <= head THEN feed[s] ELSE NoEntry] = NoSlots
  BY <1>4, ConstantsAssumption DEF NoSlots, Slot
<1>6. EnterReady(-1, NoSlots, {})
  BY <1>3, <1>4, <1>5
<1>7. NextAfter(-1, {}) = 0
  BY FS_EmptySet DEF NextAfter
<1>8. /\ confirmed' = -1 /\ nextIndex' = 0 /\ pending' = {} /\ entry' = NoSlots /\ landed' = {}
      /\ tipConfirmed' = FALSE /\ state' = "ready" /\ notesOn' = TRUE /\ task' = NoTasks
      /\ UNCHANGED <<boot, stopped, draining, batch, queue, swarm>>
  BY <1>6, <1>7 DEF EnterReady, NoTasks
<1>9. chain' = <<Record>> /\ loop' = "recording" /\ UNCHANGED <<saving, snapshot, disk>>
  BY <1>1 DEF ResumeFromFeed, Blank
<1>10. TypeOK'
  <2>1. publishedIds' = {} /\ queuedIds' = queuedIds
    <3>1. \A first \in 0 .. (-1 + 1) : {NoSlots[s].msg : s \in first .. -1} = {}
      OBVIOUS
    <3> QED
      BY <1>6, <3>1 DEF EnterReady
  <2>2. chain' \in Seq(Requester)
    BY <1>9 DEF Requester
  <2> QED
    BY <1>1, <1>8, <1>9, <2>1, <2>2, EmptyTypes DEF TypeOK, LoopState, batch, swarm
<1>11. Durable'
  BY <1>1, <1>8, <1>9, DurableUnchanged
<1>12. Loaded'
  <2>1. Recorded' = {}
    BY <1>8 DEF Recorded
  <2>2. Len(chain') = 1 /\ chain'[1] = Record /\ chain' # <<>>
    BY <1>9
  <2>3. SlotsInOrder' /\ BatchOnTop'
    BY <1>1, <1>8, <1>9 DEF SlotsInOrder, BatchOnTop, Blank, batch, NoTasks
  <2>4. ChainInOrder'
    BY <1>9, <2>2 DEF ChainInOrder, Persist, Record
  <2>5. AllRecorded' /\ Delivered'
    BY <1>1, <1>2, <1>8, <1>9, <2>1 DEF AllRecorded, Delivered, Blank, HasCheckpoint, swarm, NoTasks
  <2> QED
    BY <1>8, <1>9, <2>3, <2>4, <2>5 DEF Loaded
<1> QED
  BY <1>10, <1>11, <1>12 DEF IInv

(* Steps that only move the loop of a process that holds nothing. *)
LEMMA BlankLoopStep ==
  ASSUME IInv, Blank, loop' \in {"resuming", "retry", "turn", "returned"},
         UNCHANGED <<life, saving, batch, intake, slots, task, record, swarm>>
  PROVE  IInv'
<1> USE DEF life, batch, intake, slots, record, swarm
<1>1. TypeOK'
  BY DEF IInv, TypeOK, LoopState
<1>2. Durable'
  BY DurableUnchanged DEF IInv
<1>3. Blank'
  BY DEF Blank
<1> QED
  BY <1>1, <1>2, <1>3 DEF IInv

(* Every outcome of resume(). *)
LEMMA ResumeInv ==
  ASSUME IInv, Resume
  PROVE  IInv'
<1>1. CASE ResumeFails
  BY <1>1, ResumingIsBlank, BlankLoopStep DEF ResumeFails
<1>2. CASE ResumeRetry
  BY <1>2, ResumingIsBlank, BlankLoopStep DEF ResumeRetry
<1> QED
  BY <1>1, <1>2, ResumeFromCheckpointInv, ResumeBlocksInv, ResumeFromFeedInv DEF Resume

-----------------------------------------------------------------------------
(* The publish loop *)

\* Where persist() does not wait, no batch is being recorded.
LEMMA NoBatch ==
  ASSUME IInv, Loaded, loop \notin {"persisting", "persistBackoff"}
  PROVE  staged = {} /\ \A i \in 1 .. Len(chain) : chain[i] # Persist
BY DEF Loaded, BatchOnTop, ChainInOrder

(* Steps that only move a loop that neither records a batch nor the start. *)
LEMMA LoadedLoopStep ==
  ASSUME IInv, Loaded, loop \in {"turn", "paused"}, loop' \in {"turn", "paused", "returned"},
         state' \in {"ready", "stopped"}, stopped' = stopped, UNCHANGED <<slots, batch, task, record, swarm>>
  PROVE  Loaded'
<1> USE DEF slots, batch, record, swarm
<1>1. staged = {} /\ \A i \in 1 .. Len(chain) : chain[i] # Persist /\ chain[i] # Record
  BY NoBatch DEF Loaded, ChainInOrder
<1>2. SlotsInOrder'
  BY DEF Loaded, SlotsInOrder
<1>3. BatchOnTop'
  BY <1>1 DEF Loaded, BatchOnTop, Recorded
<1>4. ChainInOrder'
  BY <1>1 DEF Loaded, ChainInOrder
<1>5. AllRecorded'
  BY DEF Loaded, AllRecorded, Recorded, HasCheckpoint, Held, PendingRunsOn, InFlight
<1>6. Delivered'
  BY DEF Loaded, Delivered, Recorded
<1> QED
  BY <1>2, <1>3, <1>4, <1>5, <1>6 DEF Loaded

(* What stageFromQueue() leaves of the queue are messages again. *)
LEMMA TakesType ==
  ASSUME TypeOK, NEW n \in 0 .. Len(queue), NEW picked, Takes(n, picked)
  PROVE  queue' \in Seq(Message) /\ queuedIds' \in SUBSET Message
<1>1. Len(queue) \in Nat /\ \A i \in (n + 1) .. Len(queue) : queue[i] \in Message
  BY LenProperties, ElementOfSeq DEF TypeOK
<1>2. n + 1 \in Int /\ Len(queue) \in Int
  BY <1>1
<1>3. SubSeq(queue, n + 1, Len(queue)) \in Seq(Message)
  BY <1>1, <1>2, SubSeqProperties
<1> QED
  BY <1>3 DEF Takes, TypeOK

(* A loop that finds nothing to stage pauses or returns, with nothing in flight left unaccounted. *)
LEMMA PauseInv ==
  ASSUME IInv, Pause
  PROVE  IInv'
<1>1. TypeOK /\ Loaded /\ loop' \in {"returned", "paused"}
  BY DEF IInv, Blank, Pause
<1>2. TypeOK'
  <2>1. PICK n \in 0 .. Len(queue) : Takes(n, <<>>)
    BY DEF Pause
  <2>2. queue' \in Seq(Message) /\ queuedIds' \in SUBSET Message
    BY <1>1, <2>1, TakesType
  <2> QED
    BY <1>1, <2>2 DEF Pause, TypeOK, LoopState, life, batch, slots, record, swarm
<1>3. Durable'
  BY DurableUnchanged DEF IInv, Pause, record
<1>4. Loaded'
  BY <1>1, LoadedLoopStep DEF Pause, life, Loaded
<1> QED
  BY <1>2, <1>3, <1>4 DEF IInv

(* A loop that returns leaves deliveries and checkpoint writes to end by themselves. *)
LEMMA LoopReturnsInv ==
  ASSUME IInv, LoopReturns
  PROVE  IInv'
<1>1. CASE Blank
  BY <1>1, BlankLoopStep DEF LoopReturns
<1>2. CASE Loaded
  <2>1. TypeOK'
    BY DEF IInv, LoopReturns, TypeOK, LoopState, life, batch, slots, intake, record, swarm
  <2>2. Durable'
    BY DurableUnchanged DEF IInv, LoopReturns, record
  <2>3. Loaded'
    BY <1>2, LoadedLoopStep DEF LoopReturns, life, Loaded
  <2> QED
    BY <2>1, <2>2, <2>3 DEF IInv
<1> QED
  BY <1>1, <1>2 DEF IInv

(* A wait for a checkpoint write is added to the others in order. *)
LEMMA ChainAppends ==
  ASSUME TypeOK, NEW r \in Requester, chain' = Append(chain, r)
  PROVE  /\ chain' \in Seq(Requester) /\ chain' # <<>>
         /\ Len(chain) \in Nat /\ Len(chain') = Len(chain) + 1
         /\ chain'[Len(chain) + 1] = r
         /\ \A i \in 1 .. Len(chain) : chain'[i] = chain[i]
         /\ chain # <<>> => Head(chain') = Head(chain)
<1>1. chain \in Seq(Requester)
  BY DEF TypeOK
<1> QED
  BY <1>1, AppendProperties, HeadTailAppend, LenProperties

(* The chain stays in order when a wait is added that is not a second one of its kind. *)
LEMMA ChainStaysInOrder ==
  ASSUME TypeOK, ChainInOrder, NEW r \in Requester, chain' = Append(chain, r), snapshot' = snapshot,
         r \in {Persist, Record} => \A i \in 1 .. Len(chain) : chain[i] # r,
         r = Persist => loop' = "persisting",
         r = Record => loop' = "recording",
         \A i \in 1 .. Len(chain) : /\ chain[i] = Persist => loop' = "persisting"
                                    /\ chain[i] = Record => loop' = "recording"
  PROVE  ChainInOrder'
<1> HIDE DEF Persist, Record
<1>1. /\ chain' # <<>> /\ Len(chain) \in Nat /\ Len(chain') = Len(chain) + 1
      /\ chain'[Len(chain) + 1] = r
      /\ \A i \in 1 .. Len(chain) : chain'[i] = chain[i]
  BY ChainAppends
<1>2. \A i \in 1 .. Len(chain') : i \in 1 .. Len(chain) \/ i = Len(chain) + 1
  BY <1>1
<1> QED
  BY <1>1, <1>2 DEF ChainInOrder

(* persist() asks for another write of its batch, or gives the batch up once stopped. *)
LEMMA PersistRetryInv ==
  ASSUME IInv, PersistRetry
  PROVE  IInv'
<1> USE DEF PersistRetry, life, intake, slots, swarm
<1>1. Loaded /\ TypeOK
  BY DEF IInv, Blank
<1>2. Durable'
  BY DurableUnchanged DEF IInv
<1>3. \A i \in 1 .. Len(chain) : chain[i] \notin {Persist, Record}
  BY <1>1 DEF Loaded, ChainInOrder
<1>4. CASE stopped
  <2>1. TypeOK'
    BY <1>1, <1>4 DEF TypeOK, LoopState
  <2>2. Recorded' = Recorded
    BY <1>1, <1>4 DEF Recorded, Loaded, BatchOnTop
  <2>3. SlotsInOrder' /\ BatchOnTop'
    BY <1>1, <1>4, <2>2 DEF Loaded, SlotsInOrder, BatchOnTop
  <2>4. ChainInOrder'
    BY <1>1, <1>3, <1>4 DEF Loaded, ChainInOrder
  <2>5. AllRecorded' /\ Delivered'
    BY <1>1, <1>4, <2>2 DEF Loaded, AllRecorded, Delivered, HasCheckpoint, Held, PendingRunsOn, InFlight
  <2> QED
    BY <1>1, <1>2, <1>4, <2>1, <2>3, <2>4, <2>5 DEF IInv, Loaded
<1>5. CASE ~stopped
  <2>1. chain' = Append(chain, Persist) /\ Persist \in Requester
    BY <1>5 DEF Requester
  <2>2. TypeOK'
    BY <1>1, <1>5, <2>1, ChainAppends DEF TypeOK, LoopState
  <2>3. SlotsInOrder' /\ BatchOnTop'
    BY <1>1, <1>5 DEF Loaded, SlotsInOrder, BatchOnTop, Recorded
  <2>4. ChainInOrder'
    BY <1>1, <1>3, <1>5, <2>1, ChainStaysInOrder DEF Loaded, Record, Persist
  <2>5. snapshot # NoCheckpoint => Head(chain') = Head(chain)
    BY <1>1, <2>1, ChainAppends DEF Loaded, ChainInOrder
  <2>6. AllRecorded' /\ Delivered'
    BY <1>1, <1>5, <2>5 DEF Loaded, AllRecorded, Delivered, Recorded, HasCheckpoint, Held, PendingRunsOn, InFlight
  <2> QED
    BY <1>1, <1>2, <1>5, <2>2, <2>3, <2>4, <2>6 DEF IInv, Loaded
<1> QED
  BY <1>4, <1>5

(* stageFromQueue() puts its batch on top of the slots in flight, untouched until it is recorded. *)
LEMMA StageInv ==
  ASSUME IInv, Stage
  PROVE  IInv'
<1>1. Loaded /\ TypeOK /\ ~stopped
  BY DEF Stage, IInv, Blank
<1>2. staged = {} /\ \A i \in 1 .. Len(chain) : chain[i] \notin {Persist, Record}
  BY <1>1, NoBatch DEF Stage, Loaded, ChainInOrder
<1>3. PICK k \in 1 .. MaxSlots :
      \E n \in 1 .. Len(queue) : \E picked \in [1 .. k -> Message] :
        /\ Takes(n, picked)
        /\ staged' = nextIndex .. (nextIndex + k - 1)
        /\ nextIndex' = nextIndex + k
        /\ pending' = pending \cup staged'
        /\ entry' = [s \in Slot |-> IF s \in staged' THEN [msg |-> picked[s - nextIndex + 1], boot |-> boot]
                                    ELSE entry[s]]
  BY DEF Stage
<1>3b. PICK n \in 1 .. Len(queue), picked \in [1 .. k -> Message] :
        /\ Takes(n, picked)
        /\ staged' = nextIndex .. (nextIndex + k - 1)
        /\ nextIndex' = nextIndex + k
        /\ pending' = pending \cup staged'
        /\ entry' = [s \in Slot |-> IF s \in staged' THEN [msg |-> picked[s - nextIndex + 1], boot |-> boot]
                                    ELSE entry[s]]
  BY <1>3
<1>4. /\ confirmed \in -1 .. MaxSlots - 1 /\ nextIndex \in 0 .. MaxSlots /\ MaxSlots \in Nat \ {0}
      /\ pending = (confirmed + 1) .. (nextIndex - 1) /\ confirmed < nextIndex
  BY <1>1, ConstantsAssumption DEF TypeOK, Loaded, SlotsInOrder
<1>5. k \in Nat \ {0} /\ nextIndex + k <= MaxSlots /\ nextIndex' \in 0 .. MaxSlots /\ nextIndex < nextIndex'
  <2>1. picked \in Seq(Message)
    BY <1>3b, SeqDef
  <2>2. 1 .. k = 1 .. Len(picked) /\ Len(picked) \in Nat
    BY <1>3b, <2>1, LenProperties
  <2>3. Len(picked) = k
    BY <2>2
  <2>4. k \in Nat \ {0} /\ nextIndex + k <= MaxSlots
    BY <1>4, <1>3b, <2>3 DEF Takes, HasRoomFor
  <2> QED
    BY <1>4, <1>3b, <2>4
<1>6. /\ loop' = "persisting" /\ readFirst' \in BOOLEAN /\ chain' = Append(chain, Persist)
      /\ UNCHANGED <<life, saving, publishedIds, confirmed, landed, tipConfirmed, task, snapshot, disk, swarm>>
  BY <1>1 DEF Stage, ReadsFirst, TypeOK
<1>7. \A s \in (0 .. confirmed) \cup pending : s \in Slot /\ s \notin staged' /\ entry'[s] = entry[s]
  <2>1. \A s \in (0 .. confirmed) \cup pending : s \in 0 .. MaxSlots - 1 /\ s < nextIndex
    BY <1>4
  <2>2. \A s \in (0 .. confirmed) \cup pending : s \notin nextIndex .. (nextIndex + k - 1)
    BY <1>4, <1>5, <2>1
  <2> QED
    BY <1>3b, <2>1, <2>2 DEF Slot
<1>8. \A s \in staged' : s \in Slot /\ entry'[s] \in Bytes
  <2>1. \A s \in nextIndex .. (nextIndex + k - 1) : s \in 0 .. MaxSlots - 1 /\ s - nextIndex + 1 \in 1 .. k
    BY <1>4, <1>5
  <2>2. \A s \in nextIndex .. (nextIndex + k - 1) : picked[s - nextIndex + 1] \in Message
    BY <1>3b, <2>1
  <2>3. boot \in 0 .. MaxBoots
    BY <1>1 DEF TypeOK
  <2>4. \A s \in nextIndex .. (nextIndex + k - 1) :
          s \in Slot /\ entry'[s] = [msg |-> picked[s - nextIndex + 1], boot |-> boot]
    BY <1>3b, <2>1 DEF Slot
  <2> QED
    BY <1>3b, <2>2, <2>3, <2>4 DEF Bytes
<1>9. TypeOK'
  <2>1. queue' \in Seq(Message) /\ queuedIds' \in SUBSET Message
    BY <1>1, <1>3b, TakesType
  <2>2. staged' \subseteq Slot /\ pending' \subseteq Slot
    BY <1>1, <1>3b, <1>8 DEF TypeOK
  <2>3. entry' \in [Slot -> Bytes \cup {NoEntry}]
    BY <1>1, <1>3b, <1>8 DEF TypeOK
  <2>4. chain' \in Seq(Requester)
    BY <1>1, <1>6, ChainAppends DEF Requester
  <2> QED
    BY <1>1, <1>5, <1>6, <2>1, <2>2, <2>3, <2>4 DEF TypeOK, LoopState, life, swarm
<1>10. Durable'
  BY <1>6, DurableUnchanged DEF IInv
<1>11. Recorded' = Recorded
  BY <1>2, <1>3b, <1>6, <1>7 DEF Recorded
<1>12. SlotsInOrder'
  <2> DEFINE next == nextIndex + k
  <2>1. next \in Int /\ nextIndex' = next /\ confirmed < next
    BY <1>4, <1>5, <1>3b
  <2> HIDE DEF next
  <2>2. pending' = (confirmed + 1) .. (next - 1)
    BY <1>4, <1>3b DEF next
  <2>3. \A s \in (confirmed + 1) .. (next - 1) :
          confirmed < s /\ s < next /\ \A t \in (confirmed + 1) .. s : t \in (confirmed + 1) .. (next - 1)
    BY <1>4, <2>1
  <2>4. \A s \in (0 .. confirmed) \cup pending' : entry'[s] # NoEntry
    BY <1>1, <1>3b, <1>7, <1>8, SentinelAssumption DEF Loaded, SlotsInOrder
  <2> QED
    BY <1>6, <2>1, <2>2, <2>3, <2>4 DEF SlotsInOrder
<1>13. BatchOnTop'
  <2>1. \A s \in staged' : /\ confirmed < s /\ s < nextIndex'
                           /\ \A t \in s .. (nextIndex' - 1) : t \in staged'
    BY <1>3b, <1>4
  <2>2. landed \subseteq pending' \ staged'
    BY <1>1, <1>3b, <1>7 DEF Loaded, BatchOnTop
  <2> QED
    BY <1>1, <1>6, <1>11, <2>1, <2>2 DEF BatchOnTop, Loaded, life
<1>14. ChainInOrder'
  BY <1>1, <1>2, <1>6, ChainStaysInOrder DEF Loaded, Record, Persist, Requester
<1>15. snapshot # NoCheckpoint => Head(chain') # Persist
  <2>1. chain # <<>> => Len(chain) \in Nat \ {0} /\ Head(chain) = chain[1]
    BY <1>1, EmptySeq DEF TypeOK
  <2>2. chain # <<>> => Head(chain') # Persist
    BY <1>1, <1>2, <1>6, <2>1, ChainAppends DEF Requester
  <2> QED
    BY <1>1, <2>2 DEF Loaded, ChainInOrder
<1>16. AllRecorded'
  BY <1>1, <1>6, <1>7, <1>11, <1>15 
     DEF Loaded, AllRecorded, Recorded, HasCheckpoint, Held, PendingRunsOn, InFlight, swarm
<1>17. Delivered'
  <2>1. \A s \in Slot : task[s] = "writing" => s \in Recorded
    BY <1>1 DEF Loaded, BatchOnTop
  <2>2. \A s \in Recorded \cup landed : entry'[s] = entry[s]
    BY <1>1, <1>7 DEF Loaded, BatchOnTop, Recorded
  <2> QED
    BY <1>1, <1>6, <1>7, <1>11, <2>1, <2>2 DEF Loaded, Delivered, swarm
<1> QED
  BY <1>1, <1>6, <1>9, <1>10, <1>12, <1>13, <1>14, <1>16, <1>17 DEF IInv, Loaded, life

(* Every step of run(). *)
LEMMA LoopInv ==
  ASSUME IInv, Loop
  PROVE  IInv'
<1>1. CASE LoopResumes
  BY <1>1, ResumingIsBlank, BlankLoopStep DEF LoopResumes
<1> QED
  BY <1>1, LoopReturnsInv, StageInv, PauseInv, PersistRetryInv DEF Loop

-----------------------------------------------------------------------------
(* Checkpoint writes and history saves *)

(* A checkpoint write that starts records every slot in flight, whoever asked for it. *)
LEMMA BeginCheckpointWriteInv ==
  ASSUME IInv, BeginCheckpointWrite
  PROVE  IInv'
<1> USE DEF life, batch, intake, slots, swarm
<1>0. PICK g \in BOOLEAN : snapshot' = Current(g)
  BY DEF BeginCheckpointWrite, MayLackRows
<1>1. TypeOK /\ Loaded /\ snapshot = NoCheckpoint /\ snapshot' = Current(g) /\ chain # <<>>
      /\ UNCHANGED <<life, saving, loop, batch, intake, slots, task, chain, disk, swarm>>
  BY <1>0 DEF IInv, Blank, BeginCheckpointWrite
<1>2. /\ Current(g) \in Checkpoint /\ Current(g).index = confirmed /\ Held(Current(g))
      /\ \A s \in (0 .. confirmed) \cup pending : Current(g).entries[s] = entry[s]
  BY <1>1, CurrentRunsOn DEF Loaded
<1>3. TypeOK'
  BY <1>1, <1>2 DEF TypeOK
<1>4. Durable'
  BY <1>1, DurableUnchanged DEF IInv
<1>5. SlotsInOrder' /\ BatchOnTop' /\ ChainInOrder' /\ Delivered'
  BY <1>1 DEF Loaded, SlotsInOrder, BatchOnTop, ChainInOrder, Delivered, Recorded
<1>6. AllRecorded'
  <2>1. Held(snapshot')
    BY <1>1, <1>2
  <2>2. \A s \in 0 .. confirmed : feed[s] = snapshot'.entries[s]
    BY <1>1, <1>2 DEF Loaded, Delivered
  <2>3. \A s \in Recorded : s \in (0 .. confirmed) \cup pending
    BY DEF Recorded
  <2>4. confirmed \in Int
    BY <1>1, ConstantsAssumption DEF TypeOK
  <2>5. Recorded' = Recorded /\ HasCheckpoint' = HasCheckpoint
    BY <1>1 DEF Recorded, HasCheckpoint
  <2>6. \A s \in Recorded : snapshot'.entries[s] = entry[s]
    BY <1>1, <1>2, <2>3
  <2>7. snapshot'.index = confirmed /\ \A s \in pending : snapshot'.entries[s] = entry[s]
    BY <1>1, <1>2
  <2>8. /\ \A s \in Recorded : HasCheckpoint /\ disk.entries[s] = entry[s]
        /\ HasCheckpoint => disk.index <= confirmed
    BY <1>1 DEF Loaded, AllRecorded
  <2> QED
    BY <1>1, <2>1, <2>2, <2>4, <2>5, <2>6, <2>7, <2>8 DEF AllRecorded, Held, PendingRunsOn, InFlight
<1> QED
  BY <1>1, <1>3, <1>4, <1>5, <1>6 DEF IInv, Loaded

(* The wait of the write that ended leaves the chain, and the others stay in order. *)
LEMMA ChainMovesOn ==
  ASSUME TypeOK, chain # <<>>, chain' = Tail(chain)
  PROVE  /\ chain' \in Seq(Requester)
         /\ Head(chain) = chain[1] /\ 1 \in 1 .. Len(chain)
         /\ \A i \in 1 .. Len(chain') : i + 1 \in 1 .. Len(chain) /\ i + 1 # 1 /\ chain'[i] = chain[i + 1]
<1>1. chain \in Seq(Requester) /\ Len(chain) \in Nat \ {0}
  BY EmptySeq DEF TypeOK
<1>2. /\ Tail(chain) \in Seq(Requester) /\ Len(Tail(chain)) = Len(chain) - 1
      /\ \A i \in 1 .. Len(Tail(chain)) : Tail(chain)[i] = chain[i + 1]
  BY <1>1, HeadTailProperties
<1> QED
  BY <1>1, <1>2

(* What is common to the ends of all writes: the file holds what it must, and who waits next is in order. *)
LEMMA WriteEnds ==
  ASSUME IInv, NEW ok \in BOOLEAN, chain # <<>>, CheckpointWriteEnds(ok), UNCHANGED swarm
  PROVE  /\ TypeOK /\ Loaded /\ snapshot \in Checkpoint /\ disk' \in {disk, snapshot} /\ (ok => disk' = snapshot)
         /\ snapshot' = NoCheckpoint
         /\ Durable' /\ disk' \in Checkpoint \cup {NoCheckpoint, Damaged}
         /\ HasCheckpoint' => disk'.index <= confirmed
         /\ \A s \in Recorded : HasCheckpoint' /\ disk'.entries[s] = entry[s]
         /\ chain' \in Seq(Requester)
         /\ Head(chain) \in {Persist, Record} => \A i \in 1 .. Len(chain') : chain'[i] # Head(chain)
         /\ \A i \in 1 .. Len(chain') : /\ chain'[i] = Persist => loop = "persisting"
                                        /\ chain'[i] = Record => loop = "recording"
         /\ \A i, j \in 1 .. Len(chain') : chain'[i] = chain'[j] /\ chain'[i] \in {Persist, Record} => i = j
<1>1. TypeOK /\ Loaded /\ Durable /\ snapshot # NoCheckpoint
  BY DEF IInv, Blank, CheckpointWriteEnds
<1>2. disk' \in {disk, snapshot} /\ (ok => disk' = snapshot) /\ snapshot' = NoCheckpoint /\ chain' = Tail(chain)
  BY DEF CheckpointWriteEnds
<1>3. /\ Durable' /\ disk' \in Checkpoint \cup {NoCheckpoint, Damaged}
      /\ HasCheckpoint' => disk'.index <= confirmed
      /\ \A s \in Recorded : HasCheckpoint' /\ disk'.entries[s] = entry[s]
  BY <1>1, <1>2, WriteKeepsDurable
<1>4. snapshot \in Checkpoint
  BY <1>1 DEF TypeOK
<1>5. /\ chain' \in Seq(Requester)
      /\ Head(chain) = chain[1] /\ 1 \in 1 .. Len(chain)
      /\ \A i \in 1 .. Len(chain') : i + 1 \in 1 .. Len(chain) /\ i + 1 # 1 /\ chain'[i] = chain[i + 1]
  BY <1>1, <1>2, ChainMovesOn
<1> HIDE DEF Persist, Record
<1>6. Head(chain) \in {Persist, Record} => \A i \in 1 .. Len(chain') : chain'[i] # Head(chain)
  BY <1>1, <1>5 DEF Loaded, ChainInOrder
<1>7. \A i \in 1 .. Len(chain') : /\ chain'[i] = Persist => loop = "persisting"
                                  /\ chain'[i] = Record => loop = "recording"
  BY <1>1, <1>5 DEF Loaded, ChainInOrder
<1>8. \A i, j \in 1 .. Len(chain') : chain'[i] = chain'[j] /\ chain'[i] \in {Persist, Record} => i = j
  BY <1>1, <1>5 DEF Loaded, ChainInOrder
<1> QED
  BY <1>1, <1>2, <1>3, <1>4, <1>5, <1>6, <1>7, <1>8

(* The end of a write that nobody but a confirmation, a history save or a resume waits for. *)
LEMMA WriteEndsKeeps ==
  ASSUME IInv, NEW ok \in BOOLEAN, chain # <<>>, CheckpointWriteEnds(ok), UNCHANGED <<life, batch, slots, swarm>>,
         loop' \in LoopState, loop' \notin {"resuming", "retry"},
         loop \in {"persisting", "persistBackoff"} => loop' \in {"persisting", "persistBackoff"},
         loop = "persisting" /\ (\E i \in 1 .. Len(chain') : chain'[i] = Persist) => loop' = "persisting",
         loop = "recording" /\ (\E i \in 1 .. Len(chain') : chain'[i] = Record) => loop' = "recording",
         task' \in [Slot -> TaskState],
         \A s \in Slot : task'[s] \in {task[s], "none"}
  PROVE  Durable' /\ Loaded'
<1> USE DEF life, batch, slots, swarm
<1>1. /\ TypeOK /\ Loaded /\ snapshot' = NoCheckpoint /\ Durable'
      /\ HasCheckpoint' => disk'.index <= confirmed
      /\ \A s \in Recorded : HasCheckpoint' /\ disk'.entries[s] = entry[s]
      /\ \A i \in 1 .. Len(chain') : /\ chain'[i] = Persist => loop = "persisting"
                                     /\ chain'[i] = Record => loop = "recording"
      /\ \A i, j \in 1 .. Len(chain') : chain'[i] = chain'[j] /\ chain'[i] \in {Persist, Record} => i = j
  BY WriteEnds
<1>2. Recorded' = Recorded
  BY DEF Recorded
<1>3. SlotsInOrder'
  BY <1>1 DEF Loaded, SlotsInOrder
<1>4. BatchOnTop'
  BY <1>1, <1>2 DEF Loaded, BatchOnTop
<1>5. ChainInOrder'
  BY <1>1 DEF ChainInOrder
<1>6. AllRecorded'
  BY <1>1, <1>2 DEF AllRecorded
<1>7. Delivered'
  BY <1>1, <1>2 DEF Loaded, Delivered
<1> QED
  BY <1>1, <1>3, <1>4, <1>5, <1>6, <1>7 DEF Loaded

(* A failed write leaves the batch to be recorded again, even when it did replace the file. *)
LEMMA PersistFailsInv ==
  ASSUME IInv, PersistFails
  PROVE  IInv'
<1>1. chain # <<>> /\ Head(chain) = Persist /\ CheckpointWriteEnds(FALSE) /\ loop' = "persistBackoff"
      /\ UNCHANGED <<life, saving, batch, intake, slots, task, swarm>>
  BY DEF PersistFails
<1>2. /\ TypeOK /\ Loaded /\ disk' \in Checkpoint \cup {NoCheckpoint, Damaged} /\ snapshot' = NoCheckpoint
      /\ chain' \in Seq(Requester) /\ \A i \in 1 .. Len(chain') : chain'[i] # Persist
  BY <1>1, WriteEnds
<1>3. loop = "persisting"
  BY <1>1, <1>2, ChainMovesOn DEF CheckpointWriteEnds, Loaded, ChainInOrder
<1>4. TypeOK'
  BY <1>1, <1>2 DEF TypeOK, LoopState, life, batch, intake, slots, swarm
<1>5. Durable' /\ Loaded'
  <2>1. \A s \in Slot : task'[s] \in {task[s], "none"}
    BY <1>1
  <2>2. loop' \in LoopState /\ task' \in [Slot -> TaskState]
    BY <1>1, <1>2 DEF LoopState, TypeOK
  <2> QED
    BY <1>1, <1>2, <1>3, <2>1, <2>2, WriteEndsKeeps
<1> QED
  BY <1>4, <1>5 DEF IInv

(* landed() goes on after its write, failed or not: the file holds what it held, or more. *)
LEMMA ConfirmationRecordedInv ==
  ASSUME IInv, NEW s \in Slot, ConfirmationRecorded(s)
  PROVE  IInv'
<1>1. PICK ok \in BOOLEAN :
        /\ chain # <<>> /\ CheckpointWriteEnds(ok) /\ loop' = Woken /\ saving' = TRUE
        /\ task' = [task EXCEPT ![s] = "none"]
        /\ UNCHANGED <<life, batch, intake, slots, swarm>>
  BY DEF ConfirmationRecorded
<1>2. /\ TypeOK /\ Loaded /\ disk' \in Checkpoint \cup {NoCheckpoint, Damaged} /\ snapshot' = NoCheckpoint
      /\ chain' \in Seq(Requester)
  BY <1>1, WriteEnds
<1>3. loop' \in LoopState /\ loop' \notin {"resuming", "retry"}
      /\ (loop \in {"persisting", "persistBackoff", "recording"} => loop' = loop)
  BY <1>1, <1>2, WokenType DEF TypeOK, Loaded
<1>4. task' \in [Slot -> TaskState] /\ \A t \in Slot : task'[t] \in {task[t], "none"}
  BY <1>1, <1>2 DEF TypeOK, TaskState
<1>5. TypeOK'
  BY <1>1, <1>2, <1>3, <1>4 DEF TypeOK, life, batch, intake, slots, swarm
<1>6. Durable' /\ Loaded'
  BY <1>1, <1>3, <1>4, WriteEndsKeeps
<1> QED
  BY <1>5, <1>6 DEF IInv

(* resumeFromFeed() goes on after its first write, failed or not. *)
LEMMA ResumeRecordedInv ==
  ASSUME IInv, ResumeRecorded
  PROVE  IInv'
<1>1. PICK ok \in BOOLEAN :
        /\ chain # <<>> /\ Head(chain) = Record /\ CheckpointWriteEnds(ok) /\ loop' = "turn"
        /\ saving' \in {TRUE, FALSE, saving}
        /\ UNCHANGED <<life, batch, intake, slots, task, swarm>>
  BY DEF ResumeRecorded
<1>2. /\ TypeOK /\ Loaded /\ disk' \in Checkpoint \cup {NoCheckpoint, Damaged} /\ snapshot' = NoCheckpoint
      /\ chain' \in Seq(Requester) /\ \A i \in 1 .. Len(chain') : chain'[i] # Record
  BY <1>1, WriteEnds
<1>3. loop = "recording"
  BY <1>1, <1>2, ChainMovesOn DEF CheckpointWriteEnds, Loaded, ChainInOrder
<1>4. TypeOK'
  BY <1>1, <1>2, ZenonT(60) DEF TypeOK, LoopState, life, batch, intake, slots, swarm
<1>5. Durable' /\ Loaded'
  <2>1. \A s \in Slot : task'[s] \in {task[s], "none"}
    BY <1>1
  <2>2. loop' \in LoopState /\ task' \in [Slot -> TaskState]
    BY <1>1, <1>2 DEF LoopState, TypeOK
  <2> QED
    BY <1>1, <1>2, <1>3, <2>1, <2>2, WriteEndsKeeps
<1> QED
  BY <1>4, <1>5 DEF IInv

(* recordHistory() goes on after its write, failed or not. *)
LEMMA HistoryRecordedInv ==
  ASSUME IInv, HistoryRecorded
  PROVE  IInv'
<1>1. PICK ok \in BOOLEAN :
        /\ chain # <<>> /\ CheckpointWriteEnds(ok)
        /\ UNCHANGED <<life, saving, loop, batch, intake, slots, task, swarm>>
  BY DEF HistoryRecorded
<1>2. /\ TypeOK /\ Loaded /\ disk' \in Checkpoint \cup {NoCheckpoint, Damaged} /\ snapshot' = NoCheckpoint
      /\ chain' \in Seq(Requester)
  BY <1>1, WriteEnds
<1>3. TypeOK'
  BY <1>1, <1>2 DEF TypeOK, life, batch, intake, slots, swarm
<1>4. Durable' /\ Loaded'
  <2>1. \A s \in Slot : task'[s] \in {task[s], "none"}
    BY <1>1
  <2>2. loop' \in LoopState /\ task' \in [Slot -> TaskState] /\ loop' \notin {"resuming", "retry"}
    BY <1>1, <1>2 DEF TypeOK, Loaded
  <2> QED
    BY <1>1, <1>2, <2>1, <2>2, WriteEndsKeeps
<1> QED
  BY <1>3, <1>4 DEF IInv

(* The batch is in the file before any of its slots is written. *)
LEMMA PersistWrittenInv ==
  ASSUME IInv, PersistWritten
  PROVE  IInv'
<1> DEFINE live == {s \in staged : StillDelivering(s)}
<1>1. /\ chain # <<>> /\ Head(chain) = Persist /\ CheckpointWriteEnds(TRUE) /\ staged' = {} /\ loop' = "turn"
      /\ task' = [s \in Slot |-> IF s \notin live THEN task[s] ELSE IF readFirst THEN "reading" ELSE "writing"]
      /\ sent' = IF readFirst THEN sent ELSE sent \cup {<<s, entry[s]>> : s \in live}
      /\ UNCHANGED <<life, saving, readFirst, intake, slots, feed>>
  BY DEF PersistWritten
<1>2. TypeOK /\ Loaded /\ Durable /\ snapshot # NoCheckpoint
  BY <1>1 DEF IInv, Blank, CheckpointWriteEnds
<1>3. disk' = snapshot /\ snapshot' = NoCheckpoint /\ chain' = Tail(chain)
  BY <1>1 DEF CheckpointWriteEnds
<1>4. snapshot \in Checkpoint /\ HasCheckpoint' /\ disk' \in Checkpoint
  BY <1>2, <1>3, SentinelAssumption DEF TypeOK, HasCheckpoint
<1>5. /\ chain' \in Seq(Requester)
      /\ Head(chain) = chain[1] /\ 1 \in 1 .. Len(chain)
      /\ \A i \in 1 .. Len(chain') : i + 1 \in 1 .. Len(chain) /\ i + 1 # 1 /\ chain'[i] = chain[i + 1]
  BY <1>1, <1>2, <1>3, ChainMovesOn
<1>6. Recorded' = (0 .. confirmed) \cup pending
  BY <1>1 DEF Recorded, slots
<1>7. \A s \in (0 .. confirmed) \cup pending : disk'.entries[s] = entry[s]
  BY <1>1, <1>2, <1>3 DEF Loaded, AllRecorded, Recorded
<1>8. live \subseteq pending /\ \A s \in live : s \in Slot /\ entry[s] \in Bytes /\ entry[s] # NoEntry
  BY <1>2 DEF StillDelivering, Loaded, SlotsInOrder, TypeOK
<1> HIDE DEF live
<1>9. \A w \in sent' : w \in Slot \X Bytes /\ w[1] \in (0 .. confirmed) \cup pending /\ entry[w[1]] = w[2]
  <2>1. \A w \in sent : w \in Slot \X Bytes /\ w[1] \in (0 .. confirmed) \cup pending /\ entry[w[1]] = w[2]
    BY <1>2 DEF TypeOK, Loaded, Delivered, Recorded
  <2>2. \A s \in live : <<s, entry[s]>> \in Slot \X Bytes /\ s \in pending
    BY <1>8
  <2> QED
    BY <1>1, <2>1, <2>2
<1>10. TypeOK'
  BY <1>1, <1>2, <1>3, <1>4, <1>5, <1>9 DEF TypeOK, TaskState, LoopState, life, intake, slots
<1>11. Durable'
  <2>1. WriteAhead'
    BY <1>4, <1>7, <1>9 DEF WriteAhead
  <2>2. Held(disk') /\ \A s \in 0 .. disk'.index : feed'[s] = disk'.entries[s]
    BY <1>1, <1>2, <1>3 DEF Loaded, AllRecorded
  <2>3. disk' # Damaged
    BY <1>4, SentinelAssumption
  <2> QED
    BY <1>1, <1>2, <2>1, <2>2, <2>3 DEF Durable, Held, PendingRunsOn, InFlight
<1>12. SlotsInOrder'
  BY <1>1, <1>2 DEF Loaded, SlotsInOrder, slots, life
<1>13. BatchOnTop'
  <2>1. \A s \in Slot : task'[s] # "none" => s \in (0 .. confirmed) \cup pending
    BY <1>1, <1>2, <1>8 DEF Loaded, BatchOnTop, Recorded
  <2> QED
    BY <1>1, <1>2, <1>6, <2>1 DEF Loaded, BatchOnTop, slots
<1>14. ChainInOrder'
  <2>1. loop = "persisting"
    BY <1>1, <1>2, <1>5 DEF Loaded, ChainInOrder
  <2>2. \A i \in 1 .. Len(chain') : chain'[i] # Persist /\ chain'[i] # Record
    BY <1>1, <1>2, <1>5, <2>1 DEF Loaded, ChainInOrder
  <2> QED
    BY <1>3, <2>2 DEF ChainInOrder
<1>15. AllRecorded'
  BY <1>1, <1>2, <1>3, <1>4, <1>6, <1>7 DEF Loaded, AllRecorded, slots
<1>16. Delivered'
  BY <1>1, <1>2, <1>6, <1>9 DEF Loaded, Delivered, slots
<1> QED
  BY <1>1, <1>2, <1>10, <1>11, <1>12, <1>13, <1>14, <1>15, <1>16 DEF IInv, Loaded, life

(* Every step of the checkpoint writes. *)
LEMMA CheckpointingInv ==
  ASSUME IInv, Checkpointing
  PROVE  IInv'
BY BeginCheckpointWriteInv, PersistWrittenInv, PersistFailsInv, ConfirmationRecordedInv, ResumeRecordedInv,
   HistoryRecordedInv DEF Checkpointing

(* A saved history file asks for one more checkpoint write. *)
LEMMA HistorySavedInv ==
  ASSUME IInv, HistorySaved
  PROVE  IInv'
<1> USE DEF HistorySaved, life, batch, intake, slots, swarm
<1>1. Durable'
  BY DurableUnchanged DEF IInv
<1>2. CASE chain' = chain
  <2>1. TypeOK'
    BY <1>2 DEF IInv, TypeOK
  <2>2. (Blank \/ Loaded)'
    BY <1>2 DEF IInv, Blank, Loaded, SlotsInOrder, BatchOnTop, ChainInOrder, AllRecorded, Delivered, Recorded,
                HasCheckpoint, Held, PendingRunsOn, InFlight
  <2> QED
    BY <1>1, <2>1, <2>2 DEF IInv
<1>3. CASE chain' = Append(chain, History) /\ state = "ready"
  <2>1. Loaded /\ TypeOK /\ History \in Requester
    BY <1>3 DEF IInv, Blank, Requester
  <2>2. TypeOK'
    BY <1>3, <2>1, ChainAppends DEF TypeOK
  <2>3. ChainInOrder'
    BY <1>3, <2>1, ChainStaysInOrder DEF Loaded, ChainInOrder, History, Persist, Record
  <2>4. snapshot # NoCheckpoint => Head(chain') = Head(chain)
    BY <1>3, <2>1, ChainAppends DEF Loaded, ChainInOrder
  <2>5. SlotsInOrder' /\ BatchOnTop' /\ Delivered'
    BY <2>1 DEF Loaded, SlotsInOrder, BatchOnTop, Delivered, Recorded
  <2>6. AllRecorded'
    BY <2>1, <2>4 DEF Loaded, AllRecorded, Recorded, HasCheckpoint, Held, PendingRunsOn, InFlight
  <2> QED
    BY <1>1, <2>1, <2>2, <2>3, <2>5, <2>6 DEF IInv, Loaded
<1> QED
  BY <1>2, <1>3

(* A history save that ends without a file changes nothing else. *)
LEMMA HistoryNotSavedInv ==
  ASSUME IInv, HistoryNotSaved
  PROVE  IInv'
<1> USE DEF HistoryNotSaved, life, batch, intake, slots, record, swarm
<1>1. TypeOK'
  BY ZenonT(60) DEF IInv, TypeOK
<1>2. Durable'
  BY DurableUnchanged DEF IInv
<1>3. (Blank \/ Loaded)'
  BY DEF IInv, Blank, Loaded, SlotsInOrder, BatchOnTop, ChainInOrder, AllRecorded, Delivered, Recorded,
         HasCheckpoint, Held, PendingRunsOn, InFlight
<1> QED
  BY <1>1, <1>2, <1>3 DEF IInv

-----------------------------------------------------------------------------
(* Delivering a slot, and Swarm *)

\* A delivery under way means that the slot is confirmed or in flight and recorded.
LEMMA DeliveryIsLoaded ==
  ASSUME IInv, NEW s \in Slot, task[s] # "none"
  PROVE  Loaded /\ s \in Recorded
BY DEF IInv, Blank, Loaded, BatchOnTop

(* Steps that only move one delivery. *)
LEMMA DeliveryStep ==
  ASSUME IInv, NEW s \in Slot, task[s] # "none", NEW where \in TaskState \ {"writing"}, Goes(s, where),
         UNCHANGED <<life, saving, loop, batch, intake, slots, record, swarm>>
  PROVE  IInv'
<1> USE DEF life, batch, intake, slots, record, swarm
<1>1. Loaded /\ s \in Recorded /\ TypeOK
  BY DeliveryIsLoaded DEF IInv
<1>2. TypeOK'
  BY <1>1 DEF TypeOK, Goes
<1>3. Durable'
  BY DurableUnchanged DEF IInv
<1>4. SlotsInOrder' /\ ChainInOrder' /\ AllRecorded'
  BY <1>1 DEF Loaded, SlotsInOrder, ChainInOrder, AllRecorded, Recorded, HasCheckpoint, Held, PendingRunsOn, InFlight
<1>5. BatchOnTop' /\ Delivered'
  BY <1>1 DEF Loaded, BatchOnTop, Delivered, Recorded, Goes, TypeOK
<1> QED
  BY <1>1, <1>2, <1>3, <1>4, <1>5 DEF IInv, Loaded

(* writeSlot() sends the entry of a recorded slot, so what is sent is in the file. *)
LEMMA ReadEmptyInv ==
  ASSUME IInv, NEW s \in Slot, ReadEmpty(s)
  PROVE  IInv'
<1> USE DEF life, batch, intake, slots, record
<1>1. /\ task[s] = "reading" /\ s \in pending
      /\ task' = [task EXCEPT ![s] = "writing"] /\ sent' = sent \cup {<<s, entry[s]>>}
      /\ UNCHANGED <<life, saving, loop, batch, intake, slots, record, feed>>
  BY DEF ReadEmpty, StillDelivering, Goes
<1>2. Loaded /\ s \in Recorded /\ TypeOK /\ Durable
  BY <1>1, DeliveryIsLoaded DEF IInv
<1>3. entry[s] \in Bytes
  BY <1>1, <1>2 DEF TypeOK, Loaded, SlotsInOrder
<1>4. TypeOK'
  BY <1>1, <1>2, <1>3 DEF TypeOK, TaskState
<1>5. Durable'
  <2>1. HasCheckpoint /\ disk.entries[s] = entry[s]
    BY <1>2 DEF Loaded, AllRecorded
  <2>2. WriteAhead'
    BY <1>1, <1>2, <2>1 DEF Durable, WriteAhead, HasCheckpoint
  <2> QED
    BY <1>1, <1>2, <2>2 DEF Durable, HasCheckpoint, Held, PendingRunsOn, InFlight
<1>6. SlotsInOrder' /\ ChainInOrder' /\ AllRecorded'
  BY <1>1, <1>2
     DEF Loaded, SlotsInOrder, ChainInOrder, AllRecorded, Recorded, HasCheckpoint, Held, PendingRunsOn, InFlight
<1>7. BatchOnTop'
  BY <1>1, <1>2 DEF Loaded, BatchOnTop, Recorded, TypeOK
<1>8. Delivered'
  BY <1>1, <1>2 DEF Loaded, Delivered, Recorded, TypeOK
<1> QED
  BY <1>1, <1>2, <1>4, <1>5, <1>6, <1>7, <1>8 DEF IInv, Loaded

(* The server never meets bytes it did not record: whatever is in a slot was sent there by one of its boots. *)
LEMMA ReadForeignInv ==
  ASSUME IInv, NEW s \in Slot, ReadForeign(s)
  PROVE  FALSE
<1>1. task[s] = "reading" /\ feed[s] # NoEntry /\ feed[s] # entry[s]
  BY DEF ReadForeign
<1>2. Loaded /\ Durable
  BY <1>1, DeliveryIsLoaded DEF IInv
<1> QED
  BY <1>1, <1>2 DEF Durable, Loaded, Delivered

(* landed(): what is confirmed was in flight, recorded and arrived, so that nothing but the border between confirmed
   and in flight moves. The step is the same whether the entry was found or written. *)
LEMMA LandsInv ==
  ASSUME IInv, NEW s \in Slot, task[s] \in {"reading", "writing"}, Lands(s),
         UNCHANGED <<life, batch, saving, sent>>, Durable', feed' \in [Slot -> Bytes \cup {NoEntry}],
         feed'[s] = entry[s], \A t \in Slot : t # s => feed'[t] = feed[t]
  PROVE  IInv'
<1> DEFINE here == landed \cup ({s} \cap pending)
<1>1. Loaded /\ s \in Recorded /\ TypeOK
  BY DeliveryIsLoaded DEF IInv
<1>2. PICK c \in confirmed .. MaxSlots - 1 :
        /\ Follows(c, here)
        /\ confirmed' = c
        /\ pending' = pending \ ((confirmed + 1) .. c)
        /\ landed' = here \ ((confirmed + 1) .. c)
        /\ Publishes((confirmed + 1) .. c)
        /\ tipConfirmed' = TRUE
        /\ IF c = confirmed
             THEN chain' = chain /\ Goes(s, "none")
             ELSE chain' = Append(chain, s) /\ Goes(s, "recording")
        /\ UNCHANGED <<life, saving, loop, batch, queue, nextIndex, entry, snapshot, disk>>
  BY DEF Lands
<1>3. /\ confirmed \in -1 .. MaxSlots - 1 /\ MaxSlots \in Nat \ {0} /\ nextIndex \in 0 .. MaxSlots
      /\ c \in -1 .. MaxSlots - 1 /\ confirmed <= c
  BY <1>1, <1>2, ConstantsAssumption DEF TypeOK
<1>4. here \subseteq pending \ staged
  BY <1>1, <1>3 DEF Loaded, BatchOnTop, SlotsInOrder, Recorded
<1>5. \A t \in (confirmed + 1) .. c : t \in here /\ t \in pending /\ t \notin staged
  BY <1>2, <1>4 DEF Follows
<1>6. Recorded' = Recorded
  <2>1. \A t : t \in Recorded => t \in Recorded'
    BY <1>1, <1>2, <1>3 DEF Recorded, batch, TypeOK, Slot
  <2>2. \A t : t \in Recorded' => t \in Recorded
    BY <1>2, <1>3, <1>5 DEF Recorded, batch
  <2> QED
    BY <2>1, <2>2
<1>7. \A t \in (0 .. c) \cup here : t \in Slot /\ feed'[t] = entry[t]
  <2>1. \A t \in (0 .. confirmed) \cup landed : t \in Slot /\ feed[t] = entry[t]
    BY <1>1, <1>3 DEF Loaded, Delivered, TypeOK, Slot
  <2>2. \A t \in 0 .. c : t \in 0 .. confirmed \/ t \in (confirmed + 1) .. c
    BY <1>3
  <2> QED
    BY <1>5, <2>1, <2>2
<1>8. \A t \in (confirmed + 1) .. c : entry[t] \in Bytes
  BY <1>1, <1>5 DEF TypeOK, Loaded, SlotsInOrder
<1>9. chain' = chain \/ chain' = Append(chain, s)
  BY <1>2
<1>10. task' = [task EXCEPT ![s] = "none"] \/ task' = [task EXCEPT ![s] = "recording"]
  BY <1>2 DEF Goes
<1> HIDE DEF here
<1>11. TypeOK'
  <2>1. chain' \in Seq(Requester)
    BY <1>1, <1>9, ChainAppends DEF TypeOK, Requester
  <2>2. publishedIds' \in SUBSET Message /\ queuedIds' \in SUBSET Message
    <3>1. {entry[t].msg : t \in (confirmed + 1) .. c} \subseteq Message
      BY <1>8 DEF Bytes
    <3> QED
      BY <1>1, <1>2, <3>1 DEF Publishes, TypeOK
  <2>3. task' \in [Slot -> TaskState]
    BY <1>1, <1>10 DEF TypeOK, TaskState
  <2>4. pending' \in SUBSET Slot /\ landed' \in SUBSET Slot
    BY <1>1, <1>2, <1>4 DEF TypeOK
  <2> QED
    BY <1>1, <1>2, <1>3, <2>1, <2>2, <2>3, <2>4 DEF TypeOK, life, batch
<1>12. SlotsInOrder'
  <2>1. \A t \in pending' : t \in pending /\ c < t /\ t < nextIndex /\ t \in Int
    BY <1>1, <1>2, <1>3 DEF Loaded, SlotsInOrder, TypeOK, Slot
  <2>2. c < nextIndex
    BY <1>1, <1>3, <1>5 DEF Loaded, SlotsInOrder
  <2>3. ASSUME NEW t \in pending', NEW u \in (c + 1) .. t
        PROVE  u \in pending'
    <3>1. u \in (confirmed + 1) .. t /\ u \notin (confirmed + 1) .. c
      BY <1>3, <2>1, <2>3
    <3> QED
      BY <1>1, <1>2, <2>1, <3>1 DEF Loaded, SlotsInOrder
  <2>4. pending = (confirmed + 1) .. (nextIndex - 1) => pending' = (c + 1) .. (nextIndex - 1)
    BY <1>2, <1>3
  <2>5. \A t \in (0 .. c) \cup pending' : entry[t] # NoEntry
    BY <1>1, <1>2, <1>3, <1>5 DEF Loaded, SlotsInOrder
  <2> QED
    BY <1>1, <1>2, <2>1, <2>2, <2>3, <2>4, <2>5 DEF Loaded, SlotsInOrder, life
<1>13. BatchOnTop'
  <2>1. \A t \in staged : c < t
    BY <1>1, <1>3, <1>5 DEF Loaded, BatchOnTop, TypeOK, Slot
  <2>2. landed' \subseteq pending' \ staged
    BY <1>2, <1>4
  <2>3. \A t \in Slot : task'[t] # "none" => t \in Recorded
    BY <1>1, <1>10 DEF Loaded, BatchOnTop, TypeOK
  <2> QED
    BY <1>1, <1>2, <1>6, <2>1, <2>2, <2>3 DEF Loaded, BatchOnTop, batch, life
<1>14. ChainInOrder'
  <2>1. s \notin {Persist, Record} /\ s \in Requester
    BY DEF Persist, Record, Requester, Slot
  <2>2. CASE chain' = chain
    BY <1>1, <1>2, <2>2 DEF Loaded, ChainInOrder
  <2>3. CASE chain' = Append(chain, s)
    BY <1>1, <1>2, <2>1, <2>3, ChainStaysInOrder DEF Loaded, ChainInOrder
  <2> QED
    BY <1>9, <2>2, <2>3
<1>15. AllRecorded'
  <2>1. snapshot # NoCheckpoint => Head(chain') = Head(chain)
    BY <1>1, <1>9, ChainAppends DEF Loaded, ChainInOrder, Requester
  <2>2. snapshot # NoCheckpoint => snapshot.index \in Int /\ snapshot.index <= c
                                   /\ \A t \in 0 .. snapshot.index : t \in 0 .. c
    BY <1>1, <1>3 DEF Loaded, AllRecorded, TypeOK, Checkpoint
  <2>3. HasCheckpoint => disk.index <= c
    BY <1>1, <1>3 DEF Loaded, AllRecorded, TypeOK, Checkpoint, HasCheckpoint
  <2>4. snapshot # NoCheckpoint => \A t \in 0 .. snapshot.index : feed'[t] = snapshot.entries[t]
    <3>1. snapshot # NoCheckpoint => snapshot.index <= confirmed /\ snapshot.index \in Int
      BY <1>1, <2>2 DEF Loaded, AllRecorded
    <3>2. snapshot # NoCheckpoint => \A t \in 0 .. snapshot.index : t \in Recorded
      BY <1>3, <3>1 DEF Recorded
    <3> QED
      BY <1>1, <1>7, <2>2, <3>2 DEF Loaded, AllRecorded
  <2>5. HasCheckpoint' = HasCheckpoint
    BY <1>2 DEF HasCheckpoint
  <2>6. snapshot # NoCheckpoint /\ Head(chain') = Persist => \A t \in pending' : snapshot.entries[t] = entry[t]
    BY <1>1, <1>2, <2>1 DEF Loaded, AllRecorded
  <2>7. snapshot # NoCheckpoint => Held(snapshot) /\ \A t \in Recorded : snapshot.entries[t] = entry[t]
    BY <1>1 DEF Loaded, AllRecorded
  <2>8. /\ \A t \in Recorded : HasCheckpoint /\ disk.entries[t] = entry[t]
        /\ snapshot # NoCheckpoint /\ HasCheckpoint => disk.index <= snapshot.index
    BY <1>1 DEF Loaded, AllRecorded
  <2> QED
    BY <1>2, <1>6, <2>2, <2>3, <2>4, <2>5, <2>6, <2>7, <2>8 DEF AllRecorded, Held, PendingRunsOn, InFlight
<1>16. Delivered'
  <2>1. \A t \in (0 .. c) \cup landed' : feed'[t] = entry[t]
    BY <1>2, <1>7
  <2>2. \A t \in Slot : task'[t] = "writing" => task[t] = "writing"
    BY <1>1, <1>10 DEF TypeOK
  <2> QED
    BY <1>1, <1>2, <1>6, <2>1, <2>2 DEF Loaded, Delivered
<1> QED
  BY <1>1, <1>2, <1>11, <1>12, <1>13, <1>14, <1>15, <1>16 DEF IInv, Loaded, life

(* A slot found to hold its own entry lands. *)
LEMMA ReadOwnInv ==
  ASSUME IInv, NEW s \in Slot, ReadOwn(s)
  PROVE  IInv'
<1>1. /\ task[s] = "reading" /\ feed[s] = entry[s] /\ Lands(s)
      /\ UNCHANGED <<life, batch, saving, sent, feed, disk>>
  BY DEF ReadOwn, Lands, swarm
<1>2. Durable'
  BY <1>1, DurableUnchanged DEF IInv, swarm
<1>3. feed' \in [Slot -> Bytes \cup {NoEntry}]
  BY <1>1 DEF IInv, TypeOK
<1> QED
  BY <1>1, <1>2, <1>3, LandsInv

(* An entry that reaches its slot is the one the checkpoint has for it. *)
LEMMA ArrivalKeepsDurable ==
  ASSUME IInv, NEW w \in sent, feed' = [feed EXCEPT ![w[1]] = w[2]], UNCHANGED <<disk, sent>>
  PROVE  /\ Durable'
         /\ feed' \in [Slot -> Bytes \cup {NoEntry}]
         /\ w[1] \in Slot /\ feed'[w[1]] = w[2]
         /\ \A t \in Slot : t # w[1] => feed'[t] = feed[t]
         /\ \A t \in Slot : feed'[t] # NoEntry => <<t, feed'[t]>> \in sent
<1>1. TypeOK /\ Durable /\ w[1] \in Slot /\ w[2] \in Bytes /\ w = <<w[1], w[2]>>
  BY DEF IInv, TypeOK
<1>2. /\ feed' \in [Slot -> Bytes \cup {NoEntry}] /\ feed'[w[1]] = w[2]
      /\ \A t \in Slot : t # w[1] => feed'[t] = feed[t]
  BY <1>1 DEF TypeOK
<1>3. \A t \in Slot : feed'[t] # NoEntry => <<t, feed'[t]>> \in sent
  BY <1>1, <1>2 DEF Durable
<1>4. HasCheckpoint => \A t \in 0 .. disk.index : feed'[t] = disk.entries[t]
  <2>1. HasCheckpoint /\ disk.entries[w[1]] = w[2]
    BY <1>1 DEF Durable, WriteAhead
  <2>2. HasCheckpoint => \A t \in 0 .. disk.index : t \in Slot
    BY <1>1, ConstantsAssumption DEF HasCheckpoint, TypeOK, Checkpoint, Slot
  <2> QED
    BY <1>1, <1>2, <2>1, <2>2 DEF Durable
<1>5. Durable'
  BY <1>1, <1>3, <1>4 DEF Durable, WriteAhead, HasCheckpoint, Held, PendingRunsOn, InFlight
<1> QED
  BY <1>1, <1>2, <1>3, <1>5

(* A write that is answered lands. *)
LEMMA WriteLandsInv ==
  ASSUME IInv, NEW s \in Slot, WriteLands(s)
  PROVE  IInv'
<1> DEFINE w == <<s, entry[s]>>
<1>1. /\ task[s] = "writing" /\ Lands(s) /\ feed' = [feed EXCEPT ![s] = entry[s]]
      /\ UNCHANGED <<life, batch, saving, sent, disk>>
  BY DEF WriteLands, Lands
<1>2. w \in sent /\ w[1] = s /\ w[2] = entry[s]
  BY <1>1, DeliveryIsLoaded DEF Loaded, Delivered
<1> HIDE DEF w
<1>3. /\ Durable' /\ feed' \in [Slot -> Bytes \cup {NoEntry}] /\ feed'[s] = entry[s]
      /\ \A t \in Slot : t # s => feed'[t] = feed[t]
  BY <1>1, <1>2, ArrivalKeepsDurable
<1> QED
  BY <1>1, <1>3, LandsInv

(* A late write puts the same bytes in its slot that the checkpoint holds for it. *)
LEMMA ArriveInv ==
  ASSUME IInv, Arrive
  PROVE  IInv'
<1> USE DEF life, batch, intake, slots, record
<1>1. PICK w \in sent : feed' = [feed EXCEPT ![w[1]] = w[2]]
  BY DEF Arrive
<1>2. UNCHANGED <<life, saving, loop, batch, intake, slots, task, record, sent>>
  BY DEF Arrive
<1>3. /\ Durable' /\ feed' \in [Slot -> Bytes \cup {NoEntry}] /\ w[1] \in Slot /\ feed'[w[1]] = w[2]
      /\ \A t \in Slot : t # w[1] => feed'[t] = feed[t]
  BY <1>1, <1>2, ArrivalKeepsDurable
<1>4. TypeOK'
  BY <1>2, <1>3 DEF IInv, TypeOK
<1>5. CASE Blank
  <2>1. Blank'
    BY <1>2, <1>5 DEF Blank
  <2> QED
    BY <1>3, <1>4, <2>1 DEF IInv
<1>6. CASE Loaded
  <2>1. SlotsInOrder' /\ BatchOnTop' /\ ChainInOrder'
    BY <1>2, <1>6 DEF Loaded, SlotsInOrder, BatchOnTop, ChainInOrder, Recorded
  <2>2. w[1] \in Recorded /\ entry[w[1]] = w[2]
    BY <1>6 DEF Loaded, Delivered
  <2>3. AllRecorded'
    <3>1. snapshot # NoCheckpoint => \A t \in 0 .. snapshot.index : t \in Slot
      BY ConstantsAssumption DEF IInv, TypeOK, Checkpoint, Slot
    <3>2. snapshot # NoCheckpoint => \A t \in 0 .. snapshot.index : feed'[t] = snapshot.entries[t]
      BY <1>3, <1>6, <2>2, <3>1 DEF Loaded, AllRecorded
    <3> QED
      BY <1>2, <1>6, <3>2 DEF Loaded, AllRecorded, Recorded, HasCheckpoint, Held, PendingRunsOn, InFlight
  <2>4. Delivered'
    <3>1. \A t \in (0 .. confirmed) \cup landed : t \in Slot
      BY ConstantsAssumption DEF IInv, TypeOK, Slot
    <3>2. \A t \in (0 .. confirmed) \cup landed : feed'[t] = entry[t]
      BY <1>3, <1>6, <2>2, <3>1 DEF Loaded, Delivered
    <3> QED
      BY <1>2, <1>6, <3>2 DEF Loaded, Delivered, Recorded
  <2> QED
    BY <1>2, <1>3, <1>4, <1>6, <2>1, <2>3, <2>4 DEF IInv, Loaded
<1> QED
  BY <1>5, <1>6 DEF IInv

(* Every step of a delivery. *)
LEMMA DeliverInv ==
  ASSUME IInv, NEW s \in Slot, Deliver(s)
  PROVE  IInv'
<1> USE DEF TaskState
<1>1. CASE ReadFails(s)
  BY <1>1, DeliveryStep DEF ReadFails
<1>2. CASE ReadTooLate(s)
  BY <1>2, DeliveryStep DEF ReadTooLate
<1>3. CASE WriteFails(s)
  BY <1>3, DeliveryStep DEF WriteFails
<1>4. CASE Retry(s)
  BY <1>4, DeliveryStep DEF Retry
<1> QED
  BY <1>1, <1>2, <1>3, <1>4, ReadOwnInv, ReadEmptyInv, ReadForeignInv, WriteLandsInv DEF Deliver

-----------------------------------------------------------------------------
(* The invariance of IInv, and what follows from it. *)

(* A step that changes nothing keeps IInv. *)
LEMMA StutterInv ==
  ASSUME IInv, UNCHANGED vars
  PROVE  IInv'
<1> USE DEF vars, life, batch, intake, slots, record, swarm
<1>1. TypeOK'
  BY DEF IInv, TypeOK
<1>2. Durable'
  BY DurableUnchanged DEF IInv
<1>3. CASE Blank
  <2>1. Blank'
    BY <1>3 DEF Blank
  <2> QED
    BY <1>1, <1>2, <2>1 DEF IInv
<1>4. CASE Loaded
  <2>1. SlotsInOrder' /\ BatchOnTop' /\ ChainInOrder' /\ Delivered'
    BY <1>4 DEF Loaded, SlotsInOrder, BatchOnTop, ChainInOrder, Delivered, Recorded
  <2>2. AllRecorded'
    BY <1>4 DEF Loaded, AllRecorded, Recorded, HasCheckpoint, Held, PendingRunsOn, InFlight
  <2>3. Loaded'
    BY <1>4, <2>1, <2>2 DEF Loaded
  <2> QED
    BY <1>1, <1>2, <2>3 DEF IInv
<1> QED
  BY <1>3, <1>4 DEF IInv

(* Every step of the publisher, a crash at any point included, keeps IInv. *)
LEMMA NextInv == IInv /\ [Next]_vars => IInv'
<1> SUFFICES ASSUME IInv, [Next]_vars
             PROVE  IInv'
  OBVIOUS
<1>1. CASE Start \/ Crash \/ Drain \/ Stop \/ Exit
  BY <1>1, StartInv, CrashInv, DrainInv, StopInv, ExitInv
<1>2. CASE \E m \in Message : Offer(m)
  BY <1>2, OfferInv
<1>3. CASE Resume \/ Loop \/ Checkpointing
  BY <1>3, ResumeInv, LoopInv, CheckpointingInv
<1>4. CASE HistorySaved \/ HistoryNotSaved
  BY <1>4, HistorySavedInv, HistoryNotSavedInv
<1>5. CASE \E s \in Slot : Deliver(s)
  BY <1>5, DeliverInv
<1>6. CASE Arrive
  BY <1>6, ArriveInv
<1>7. CASE UNCHANGED vars
  BY <1>7, StutterInv
<1> QED
  BY <1>1, <1>2, <1>3, <1>4, <1>5, <1>6, <1>7 DEF Next

(* The inductive invariant holds in every state the publisher (src/chat.ts) reaches. *)
THEOREM Invariance == Spec => []IInv
<1> QED
  BY InitInv, NextInv, PTL DEF Spec

(* Every variable keeps a value of its type: slots never run past the feed's end, and what is written to the
   checkpoint file is a checkpoint. *)
THEOREM TypeCorrect == Spec => []TypeOK
<1>1. IInv => TypeOK
  BY DEF IInv
<1> QED
  BY <1>1, Invariance, PTL

(* Whatever was sent to a slot is in the checkpoint file, from before it was sent and for good: persist() comes
   before writeSlot(), and no later checkpoint write loses the entry. *)
THEOREM WrittenAhead == Spec => []WriteAhead
<1>1. IInv => WriteAhead
  BY DEF IInv, Durable
<1> QED
  BY <1>1, Invariance, PTL

(* Only one payload is ever sent to a slot, over every crash, restart, retry and late write. *)
THEOREM SlotsHaveOneEntry == Spec => []OneEntryPerSlot
<1>1. IInv => OneEntryPerSlot
  BY DEF IInv, Durable, WriteAhead, OneEntryPerSlot
<1> QED
  BY <1>1, Invariance, PTL

(* Up to the confirmed slot, in memory and in the file, the feed holds the entries recorded. *)
THEOREM ConfirmedSlotsHold == Spec => []ConfirmedHolds
<1>1. ASSUME IInv
      PROVE  ConfirmedHolds
  <2>1. \A s \in 0 .. confirmed : feed[s] # NoEntry /\ feed[s] = entry[s]
    BY <1>1 DEF IInv, Blank, Loaded, SlotsInOrder, Delivered
  <2>2. HasCheckpoint => \A s \in 0 .. disk.index : feed[s] # NoEntry /\ feed[s] = disk.entries[s]
    BY <1>1 DEF IInv, Durable, Held, PendingRunsOn
  <2> QED
    BY <2>1, <2>2 DEF ConfirmedHolds
<1> QED
  BY <1>1, Invariance, PTL

(* The file is always one that can be read, and whose pending entries pass the check at the next start. Whether its
   rows do is HistoryBookProofs' matter. *)
THEOREM AlwaysResumable == Spec => []CheckpointResumable
<1>1. IInv => CheckpointResumable
  BY DEF IInv, Durable, Held, CheckpointResumable, HasCheckpoint
<1> QED
  BY <1>1, Invariance, PTL

(* Without another writer a chat is blocked at a resume, by a gap in the rows of its checkpoint, or not at all: never
   by what a delivery reads, by the checkpoint's pending entries or by what the feed holds. *)
THEOREM NeverBlocked == Spec => []NeverBlocksAlone
<1>1. IInv => NeverBlocksAlone
  BY DEF IInv, Durable, Blank, Loaded, NeverBlocksAlone, HasCheckpoint, RowsRunOn
<1> QED
  BY <1>1, Invariance, PTL

-----------------------------------------------------------------------------
(* What a step may do to the checkpoint file and to Swarm. *)

(* The file is only ever touched by a checkpoint write, or by a crash in the middle of one. *)
LEMMA DiskKept ==
  ASSUME [Next]_vars, ~Checkpointing, ~Crash
  PROVE  disk' = disk
<1> USE DEF record
<1>1. CASE Start \/ Drain \/ Stop \/ Exit
  BY <1>1 DEF Start, Drain, Stop, Exit
<1>2. CASE \E m \in Message : Offer(m)
  BY <1>2 DEF Offer
<1>3. CASE Resume
  BY <1>3 DEF Resume, ResumeFromCheckpoint, ResumeBlocks, ResumeFromFeed, ResumeFails, ResumeRetry
<1>4. CASE Loop
  BY <1>4 DEF Loop, LoopResumes, LoopReturns, Stage, Pause, PersistRetry
<1>5. CASE HistorySaved \/ HistoryNotSaved
  BY <1>5 DEF HistorySaved, HistoryNotSaved
<1>6. CASE \E s \in Slot : Deliver(s)
  BY <1>6 DEF Deliver, ReadOwn, ReadEmpty, ReadForeign, ReadFails, ReadTooLate, WriteLands, WriteFails, Retry, Lands
<1>7. CASE Arrive
  BY <1>7 DEF Arrive
<1>8. CASE UNCHANGED vars
  BY <1>8 DEF vars
<1> QED
  BY <1>1, <1>2, <1>3, <1>4, <1>5, <1>6, <1>7, <1>8 DEF Next

(* A checkpoint write, or a crash in the middle of one, puts the snapshot in the file or leaves it alone. *)
LEMMA DiskStep ==
  ASSUME IInv, Checkpointing \/ Crash
  PROVE  disk' = disk \/ (Loaded /\ snapshot # NoCheckpoint /\ disk' = snapshot /\ UNCHANGED swarm)
                      \/ (disk' = snapshot /\ snapshot # NoCheckpoint /\ PersistWritten)
<1>1. snapshot # NoCheckpoint => Loaded
  BY DEF IInv, Blank
<1>2. CASE Crash
  BY <1>1, <1>2 DEF Crash, PowerOff
<1>3. CASE BeginCheckpointWrite
  BY <1>3 DEF BeginCheckpointWrite
<1>4. CASE PersistWritten
  BY <1>4 DEF PersistWritten, CheckpointWriteEnds
<1>5. CASE PersistFails \/ ResumeRecorded \/ HistoryRecorded \/ \E s \in Slot : ConfirmationRecorded(s)
  <2>1. PICK ok \in BOOLEAN : CheckpointWriteEnds(ok) /\ UNCHANGED swarm
    BY <1>5 DEF PersistFails, ResumeRecorded, HistoryRecorded, ConfirmationRecorded
  <2> QED
    BY <1>1, <2>1 DEF CheckpointWriteEnds
<1> QED
  BY <1>2, <1>3, <1>4, <1>5 DEF Checkpointing

(* What Durable and the file's progress follow from, for every step that changes the file. *)
LEMMA DiskMoves ==
  ASSUME IInv, [Next]_vars
  PROVE  \/ disk' = disk
         \/ (HasCheckpoint => HasCheckpoint' /\ disk'.index >= disk.index) /\ feed' = feed
<1>1. CASE ~Checkpointing /\ ~Crash
  BY <1>1, DiskKept
<1>2. CASE (Checkpointing \/ Crash) /\ ~PersistWritten
  BY <1>2, DiskStep, WriteKeepsDurable DEF IInv, swarm
<1>3. CASE PersistWritten
  <2>1. snapshot # NoCheckpoint /\ disk' = snapshot /\ feed' = feed
    BY <1>3 DEF PersistWritten, CheckpointWriteEnds
  <2>2. Loaded /\ TypeOK
    BY <2>1 DEF IInv, Blank
  <2>3. snapshot \in Checkpoint /\ (HasCheckpoint => disk.index <= snapshot.index)
    BY <2>1, <2>2 DEF TypeOK, Loaded, AllRecorded
  <2>4. HasCheckpoint'
    BY <2>1, <2>3, SentinelAssumption DEF HasCheckpoint
  <2>5. HasCheckpoint => disk \in Checkpoint
    BY <2>2 DEF TypeOK, HasCheckpoint
  <2>6. HasCheckpoint => snapshot.index >= disk.index
    BY <2>3, <2>5 DEF Checkpoint
  <2> QED
    BY <2>1, <2>4, <2>6
<1> QED
  BY <1>1, <1>2, <1>3

(* Once there is a checkpoint there always is one, and its confirmed slot never moves back, however the writes of
   checkpoint.ts fail, are cut short or queue up behind each other. *)
THEOREM CheckpointsMoveForward == Spec => CheckpointMovesForward
<1>1. ASSUME IInv, [Next]_vars
      PROVE  [HasCheckpoint => HasCheckpoint' /\ disk'.index >= disk.index]_disk
  BY <1>1, DiskMoves
<1> QED
  BY <1>1, Invariance, PTL DEF Spec, CheckpointMovesForward

(* Entries are sent by persist()'s writes and by the write that follows an empty read, and by nothing else. *)
LEMMA WhoSends ==
  ASSUME [Next]_vars, sent' # sent
  PROVE  PersistWritten \/ \E s \in Slot : ReadEmpty(s)
<1> USE DEF swarm
<1>1. CASE Start \/ Crash \/ Drain \/ Stop \/ Exit
  BY <1>1 DEF Start, Crash, Drain, Stop, Exit, PowerOff
<1>2. CASE \E m \in Message : Offer(m)
  BY <1>2 DEF Offer
<1>3. CASE Resume
  BY <1>3 DEF Resume, ResumeFromCheckpoint, ResumeBlocks, ResumeFromFeed, ResumeFails, ResumeRetry, EnterReady, Block
<1>4. CASE Loop
  BY <1>4 DEF Loop, LoopResumes, LoopReturns, Stage, Pause, PersistRetry
<1>5. CASE HistorySaved \/ HistoryNotSaved
  BY <1>5 DEF HistorySaved, HistoryNotSaved
<1>6. CASE Checkpointing
  BY <1>6 DEF Checkpointing, BeginCheckpointWrite, PersistFails, ConfirmationRecorded, ResumeRecorded,
              HistoryRecorded
<1>7. CASE \E s \in Slot : Deliver(s)
  BY <1>7 DEF Deliver, ReadOwn, ReadForeign, ReadFails, ReadTooLate, WriteLands, WriteFails, Retry, Block
<1>8. CASE Arrive
  BY <1>8 DEF Arrive
<1>9. CASE UNCHANGED vars
  BY <1>9 DEF vars
<1> QED
  BY <1>1, <1>2, <1>3, <1>4, <1>5, <1>6, <1>7, <1>8, <1>9 DEF Next

(* Nothing more is sent once the chat is stopped or its process is gone: an answer that comes late meets the
   checks of writeSlot() and persist() after each of their awaits. *)
THEOREM StoppedIsSilent == Spec => SilentOnceStopped
<1>1. ASSUME IInv, [Next]_vars
      PROVE  [stopped \/ state \in {"blocked", "down"} => sent' = sent]_vars
  <2> SUFFICES ASSUME stopped \/ state \in {"blocked", "down"}, sent' # sent
               PROVE  FALSE
    OBVIOUS
  <2>1. CASE PersistWritten
    <3>1. Loaded /\ stopped
      BY <1>1, <2>1 DEF PersistWritten, IInv, Blank, Loaded
    <3>2. {s \in staged : StillDelivering(s)} = {}
      BY <3>1 DEF StillDelivering
    <3> QED
      BY <2>1, <3>2 DEF PersistWritten
  <2>2. CASE \E s \in Slot : ReadEmpty(s)
    BY <1>1, <2>2, DeliveryIsLoaded DEF ReadEmpty, StillDelivering, Loaded
  <2> QED
    BY <1>1, <2>1, <2>2, WhoSends
<1> QED
  BY <1>1, Invariance, PTL DEF Spec, SilentOnceStopped

-----------------------------------------------------------------------------
(* The publisher implements the log its readers are promised. *)

(* The feed changes by one slot taking bytes that were sent to it. *)
LEMMA FeedStep ==
  ASSUME IInv, [Next]_vars, feed' # feed
  PROVE  disk' = disk /\ \E w \in sent : feed' = [feed EXCEPT ![w[1]] = w[2]]
<1> USE DEF swarm
<1>1. CASE Start \/ Crash \/ Drain \/ Stop \/ Exit
  BY <1>1 DEF Start, Crash, Drain, Stop, Exit, PowerOff
<1>2. CASE \E m \in Message : Offer(m)
  BY <1>2 DEF Offer
<1>3. CASE Resume
  BY <1>3 DEF Resume, ResumeFromCheckpoint, ResumeBlocks, ResumeFromFeed, ResumeFails, ResumeRetry, EnterReady, Block
<1>4. CASE Loop
  BY <1>4 DEF Loop, LoopResumes, LoopReturns, Stage, Pause, PersistRetry
<1>5. CASE HistorySaved \/ HistoryNotSaved
  BY <1>5 DEF HistorySaved, HistoryNotSaved
<1>6. CASE Checkpointing
  BY <1>6 DEF Checkpointing, BeginCheckpointWrite, PersistWritten, PersistFails, ConfirmationRecorded,
              ResumeRecorded, HistoryRecorded
<1>7. CASE \E s \in Slot : Deliver(s)
  <2>1. PICK s \in Slot : WriteLands(s)
    BY <1>7 DEF Deliver, ReadOwn, ReadEmpty, ReadForeign, ReadFails, ReadTooLate, WriteFails, Retry, Block
  <2>2. Loaded /\ feed' = [feed EXCEPT ![s] = entry[s]] /\ disk' = disk
    BY <2>1, DeliveryIsLoaded DEF WriteLands, Lands
  <2>3. <<s, entry[s]>> \in sent
    BY <2>1, <2>2 DEF WriteLands, Loaded, Delivered
  <2> QED
    BY <2>2, <2>3
<1>8. CASE Arrive
  BY <1>8 DEF Arrive, record
<1>9. CASE UNCHANGED vars
  BY <1>9 DEF vars
<1> QED
  BY <1>1, <1>2, <1>3, <1>4, <1>5, <1>6, <1>7, <1>8, <1>9 DEF Next

(* A slot that takes bytes holds them already, or was empty. *)
LEMMA FeedWritesOnce ==
  ASSUME IInv, NEW w \in sent, feed' = [feed EXCEPT ![w[1]] = w[2]], feed' # feed
  PROVE  w[1] \in Slot /\ w[2] \in Bytes /\ feed[w[1]] = NoEntry
<1>1. w[1] \in Slot /\ w[2] \in Bytes /\ feed \in [Slot -> Bytes \cup {NoEntry}]
  BY DEF IInv, TypeOK
<1>2. feed[w[1]] # w[2]
  BY <1>1
<1>3. feed[w[1]] # NoEntry => <<w[1], feed[w[1]]>> \in sent
  BY <1>1 DEF IInv, Durable
<1>4. feed[w[1]] # NoEntry => feed[w[1]] = w[2]
  BY <1>3 DEF IInv, Durable, WriteAhead
<1> QED
  BY <1>1, <1>2, <1>4

(* The tip a restart would continue from moves over slots that all hold their entries. *)
LEMMA TipStep ==
  ASSUME IInv, [Next]_vars, RecordedTip' # RecordedTip
  PROVE  Log!Confirm(RecordedTip')
<1>1. disk' # disk
  BY DEF RecordedTip, HasCheckpoint
<1>2. (HasCheckpoint => HasCheckpoint' /\ disk'.index >= disk.index) /\ feed' = feed
  BY <1>1, DiskMoves
<1>3. IInv'
  BY NextInv
<1>4. HasCheckpoint'
  BY <1>2 DEF RecordedTip
<1>5. disk' \in Checkpoint
  BY <1>3, <1>4 DEF IInv, TypeOK, HasCheckpoint
<1>6. \A s \in 0 .. disk'.index : feed[s] # NoEntry
  BY <1>2, <1>3, <1>4 DEF IInv, Durable, Held, PendingRunsOn
<1>7. HasCheckpoint => disk \in Checkpoint
  BY DEF IInv, TypeOK, HasCheckpoint
<1> DEFINE n == RecordedTip'
<1>8. n = disk'.index /\ n \in -1 .. MaxSlots - 1
  BY <1>4, <1>5 DEF RecordedTip, Checkpoint
<1>9. n > RecordedTip
  <2>1. n \in Int /\ RecordedTip \in Int /\ n >= RecordedTip
    BY <1>2, <1>7, <1>8, ConstantsAssumption DEF RecordedTip, Checkpoint
  <2> QED
    BY <2>1
<1>10. \A s \in Slot : s <= n => feed[s] # NoEntry
  BY <1>6, <1>8, ConstantsAssumption DEF Slot
<1> QED
  BY <1>2, <1>9, <1>10 DEF Log!Confirm

(* The publisher implements FeedLog: over every crash, retry, late write and restart, a slot of the feed is written
   once, and the checkpoint's confirmed slot only moves forward over slots without a gap. *)
THEOREM Implementation == Spec => ImplementsLog
<1>1. Init => Log!Init
  BY DEF Init, Log!Init, RecordedTip, HasCheckpoint, NoSlots
<1>2. ASSUME IInv, [Next]_vars
      PROVE  [Log!Next]_<<feed, RecordedTip>>
  <2>1. CASE feed' # feed
    <3>1. PICK w \in sent : disk' = disk /\ feed' = [feed EXCEPT ![w[1]] = w[2]]
      BY <1>2, <2>1, FeedStep
    <3>2. w[1] \in Slot /\ w[2] \in Bytes /\ feed[w[1]] = NoEntry
      BY <1>2, <2>1, <3>1, FeedWritesOnce
    <3>3. RecordedTip' = RecordedTip
      BY <3>1 DEF RecordedTip, HasCheckpoint
    <3>4. Log!Write(w[1], w[2])
      BY <3>1, <3>2, <3>3 DEF Log!Write
    <3> QED
      BY <3>2, <3>4 DEF Log!Next
  <2>2. CASE RecordedTip' # RecordedTip
    <3>1. Log!Confirm(RecordedTip')
      BY <1>2, <2>2, TipStep
    <3>2. RecordedTip' \in Slot
      <4>1. IInv'
        BY <1>2, NextInv
      <4>2. HasCheckpoint' => disk' \in Checkpoint
        BY <4>1 DEF IInv, TypeOK, HasCheckpoint
      <4>3. HasCheckpoint => disk \in Checkpoint
        BY <1>2 DEF IInv, TypeOK, HasCheckpoint
      <4> DEFINE n == RecordedTip'
      <4>4. n \in -1 .. MaxSlots - 1 /\ RecordedTip \in -1 .. MaxSlots - 1
        BY <4>2, <4>3, ConstantsAssumption DEF RecordedTip, Checkpoint
      <4>5. n > RecordedTip
        BY <3>1 DEF Log!Confirm
      <4> QED
        BY <4>4, <4>5, ConstantsAssumption DEF Slot
    <3> QED
      BY <3>1, <3>2 DEF Log!Next
  <2> QED
    BY <2>1, <2>2
<1> QED
  BY <1>1, <1>2, Invariance, PTL DEF Spec, ImplementsLog, Log!Spec

-----------------------------------------------------------------------------
(* The publish loop at rest: where it returns, and where it pauses. *)

\* A loop that returned by itself had been told to drain, so nothing was taken after it.
ReturnedEmpty ==
  loop = "returned" /\ state = "ready" /\ ~stopped => draining /\ queue = <<>> /\ pending = {}

LoopAtRest == ReturnedEmpty /\ NoLostWakeUp

\* A loop that goes on is not at rest.
LEMMA NotAtRest ==
  ASSUME loop' \notin {"returned", "paused"}
  PROVE  LoopAtRest'
BY DEF LoopAtRest, ReturnedEmpty, NoLostWakeUp

\* wake() ends every pause, and leaves a loop that returned.
LEMMA Waking ==
  ASSUME loop' = Woken
  PROVE  loop' # "paused" /\ (loop' = "returned" => loop = "returned")
BY DEF Woken

\* Nothing the loop looked at changes.
LEMMA RestStays ==
  ASSUME LoopAtRest, UNCHANGED <<loop, state, stopped, draining, queue, pending, nextIndex>>,
         \A s \in Slot : task[s] = "recording" => task'[s] = "recording"
  PROVE  LoopAtRest'
BY DEF LoopAtRest, ReturnedEmpty, NoLostWakeUp, HasRoomFor

\* The first look, pause() and what the loop does after a wake.
LEMMA LoopRests == ASSUME LoopAtRest, Loop PROVE LoopAtRest'
<1>1. CASE LoopResumes \/ Stage \/ PersistRetry
  <2>1. loop' \notin {"returned", "paused"}
    BY <1>1 DEF LoopResumes, Stage, PersistRetry
  <2> QED
    BY <2>1, NotAtRest
<1>2. CASE LoopReturns
  <2>1. loop' = "returned" /\ state' = state /\ stopped' = stopped /\ (stopped \/ state # "ready")
    BY <1>2 DEF LoopReturns, life
  <2> QED
    BY <2>1 DEF LoopAtRest, ReturnedEmpty, NoLostWakeUp
<1>3. CASE Pause
  <2>1. /\ loop' = IF draining /\ pending = {} /\ queue' = <<>> THEN "returned" ELSE "paused"
        /\ UNCHANGED <<pending, nextIndex, draining>>
    BY <1>3 DEF Pause, life, slots
  <2>2. ReturnedEmpty'
    BY <2>1 DEF ReturnedEmpty
  <2>3. queue' = <<>> \/ ~HasRoomFor(1)'
    <3>1. PICK n \in 0 .. Len(queue) : Takes(n, <<>>)
      BY <1>3 DEF Pause
    <3>2. queue' = SubSeq(queue, n + 1, Len(queue)) /\ (n = Len(queue) \/ ~HasRoomFor(Len(<<>>) + 1))
      BY <3>1 DEF Takes
    <3>3. CASE n = Len(queue)
      <4>1. queue' = SubSeq(queue, Len(queue) + 1, Len(queue))
        BY <3>2, <3>3
      <4> QED
        BY <4>1
    <3>4. CASE ~HasRoomFor(Len(<<>>) + 1)
      BY <2>1, <3>4 DEF HasRoomFor
    <3> QED
      BY <3>2, <3>3, <3>4
  <2> QED
    BY <2>2, <2>3 DEF LoopAtRest, NoLostWakeUp
<1> QED
  BY <1>1, <1>2, <1>3 DEF Loop

\* A confirmation frees places of the window and wakes the loop only once it is recorded; until then it is "recording".
LEMMA DeliveryRests == ASSUME IInv, LoopAtRest, NEW s \in Slot, Deliver(s) PROVE LoopAtRest'
<1>1. TypeOK /\ task \in [Slot -> TaskState]
  BY DEF IInv, TypeOK
<1>2. ASSUME NEW where, Goes(s, where), task[s] # "recording"
      PROVE  \A t \in Slot : task[t] = "recording" => task'[t] = "recording"
  BY <1>1, <1>2 DEF Goes
<1>3. CASE ReadEmpty(s) \/ ReadFails(s) \/ ReadTooLate(s) \/ WriteFails(s) \/ Retry(s)
  <2>1. UNCHANGED <<loop, state, stopped, draining, queue, pending, nextIndex>> /\ task[s] # "recording"
        /\ \E where \in TaskState : Goes(s, where)
    BY <1>3 DEF ReadEmpty, ReadFails, ReadTooLate, WriteFails, Retry, life, intake, slots, TaskState
  <2> QED
    BY <1>2, <2>1, RestStays
<1>4. CASE ReadForeign(s)
  <2>1. queue' = <<>> /\ state' = "blocked"
    BY <1>4 DEF ReadForeign, Block
  <2> QED
    BY <2>1 DEF LoopAtRest, ReturnedEmpty, NoLostWakeUp
<1>5. CASE ReadOwn(s) \/ WriteLands(s)
  <2>1. Lands(s) /\ task[s] # "recording"
    BY <1>5 DEF ReadOwn, WriteLands
  <2>2. PICK c \in confirmed .. MaxSlots - 1 :
          /\ pending' = pending \ ((confirmed + 1) .. c)
          /\ IF c = confirmed THEN Goes(s, "none") ELSE Goes(s, "recording")
          /\ UNCHANGED <<loop, state, stopped, draining, queue, nextIndex>>
    BY <2>1 DEF Lands, life
  <2>3. CASE c = confirmed
    <3>1. pending' = pending
      <4>1. confirmed \in Int
        BY <1>1, ConstantsAssumption DEF TypeOK
      <4>2. (confirmed + 1) .. c = {}
        BY <2>3, <4>1
      <4> QED
        BY <2>2, <4>2
    <3> QED
      BY <1>2, <2>1, <2>2, <2>3, <3>1, RestStays
  <2>4. CASE c # confirmed
    <3>1. task'[s] = "recording"
      BY <1>1, <2>2, <2>4 DEF Goes
    <3>2. pending = {} => pending' = {}
      BY <2>2
    <3> QED
      BY <2>2, <3>1, <3>2 DEF LoopAtRest, ReturnedEmpty, NoLostWakeUp
  <2> QED
    BY <2>3, <2>4
<1> QED
  BY <1>3, <1>4, <1>5 DEF Deliver

\* Whoever waited for a checkpoint write goes on, and a recorded confirmation wakes the loop.
LEMMA CheckpointingRests == ASSUME LoopAtRest, Checkpointing PROVE LoopAtRest'
<1>1. CASE BeginCheckpointWrite \/ HistoryRecorded
  <2>1. UNCHANGED <<loop, state, stopped, draining, queue, pending, nextIndex, task>>
    BY <1>1 DEF BeginCheckpointWrite, HistoryRecorded, life, intake, slots
  <2> QED
    BY <2>1, RestStays
<1>2. CASE PersistWritten \/ PersistFails \/ ResumeRecorded
  <2>1. loop' \notin {"returned", "paused"}
    BY <1>2 DEF PersistWritten, PersistFails, ResumeRecorded
  <2> QED
    BY <2>1, NotAtRest
<1>3. ASSUME NEW s \in Slot, ConfirmationRecorded(s)
      PROVE  LoopAtRest'
  <2>1. loop' = Woken /\ UNCHANGED <<state, stopped, draining, queue, pending>>
    BY <1>3 DEF ConfirmationRecorded, life, intake, slots
  <2> QED
    BY <2>1, Waking DEF LoopAtRest, ReturnedEmpty, NoLostWakeUp
<1> QED
  BY <1>1, <1>2, <1>3 DEF Checkpointing

LEMMA RestsOn == IInv /\ LoopAtRest /\ [Next]_vars => LoopAtRest'
<1> SUFFICES ASSUME IInv, LoopAtRest, [Next]_vars PROVE LoopAtRest'
  OBVIOUS
<1>1. CASE Start \/ Resume
  <2>1. loop' \notin {"returned", "paused"}
    BY <1>1 DEF Start, Resume, ResumeFromCheckpoint, ResumeBlocks, ResumeFromFeed, ResumeFails, ResumeRetry
  <2> QED
    BY <2>1, NotAtRest
<1>2. CASE Crash \/ Exit
  <2>1. loop' = "returned" /\ state' = "down"
    BY <1>2 DEF Crash, Exit, PowerOff
  <2> QED
    BY <2>1 DEF LoopAtRest, ReturnedEmpty, NoLostWakeUp
<1>3. CASE Drain
  <2>1. loop' = Woken /\ draining' = TRUE /\ UNCHANGED <<state, stopped, queue, pending>>
    BY <1>3 DEF Drain, intake, slots
  <2> QED
    BY <2>1, Waking DEF LoopAtRest, ReturnedEmpty, NoLostWakeUp
<1>4. CASE Stop
  <2>1. loop' = Woken /\ stopped' = TRUE
    BY <1>4 DEF Stop
  <2> QED
    BY <2>1, Waking DEF LoopAtRest, ReturnedEmpty, NoLostWakeUp
<1>5. CASE \E m \in Message : Offer(m)
  <2>1. loop' = Woken /\ ~draining /\ UNCHANGED <<state, stopped>>
    BY <1>5 DEF Offer, Accepting, life
  <2> QED
    BY <2>1, Waking DEF LoopAtRest, ReturnedEmpty, NoLostWakeUp
<1>6. CASE Loop
  BY <1>6, LoopRests
<1>7. CASE Checkpointing
  BY <1>7, CheckpointingRests
<1>8. CASE HistorySaved \/ HistoryNotSaved \/ Arrive \/ UNCHANGED vars
  <2>1. UNCHANGED <<loop, state, stopped, draining, queue, pending, nextIndex, task>>
    BY <1>8 DEF HistorySaved, HistoryNotSaved, Arrive, vars, life, intake, slots
  <2> QED
    BY <2>1, RestStays
<1>9. CASE \E s \in Slot : Deliver(s)
  BY <1>9, DeliveryRests
<1> QED
  BY <1>1, <1>2, <1>3, <1>4, <1>5, <1>6, <1>7, <1>8, <1>9 DEF Next

LEMMA AlwaysAtRest == Spec => []LoopAtRest
<1>1. Init => LoopAtRest
  BY DEF Init, LoopAtRest, ReturnedEmpty, NoLostWakeUp
<1> QED
  BY <1>1, RestsOn, Invariance, PTL DEF Spec

(* A publish loop that returned without a stop has published all it took: run() only returns on an empty queue with
   nothing in flight, and drain() had ended the taking of messages before. *)
THEOREM DrainLosesNothing == Spec => []DrainedIsEmpty
<1>1. LoopAtRest => DrainedIsEmpty
  BY DEF LoopAtRest, ReturnedEmpty, DrainedIsEmpty
<1> QED
  BY <1>1, AlwaysAtRest, PTL

(* The loop of run() never sleeps on messages it could publish: every offer, drain, stop and recorded confirmation
   wakes it, and between a confirmation and its record there is a delivery that will. *)
THEOREM NoWakeUpIsLost == Spec => []NoLostWakeUp
<1>1. LoopAtRest => NoLostWakeUp
  BY DEF LoopAtRest
<1> QED
  BY <1>1, AlwaysAtRest, PTL

-----------------------------------------------------------------------------
(* OtherWriter: another writer of the feed, and an operator who loses or damages the checkpoint. *)

\* What waking the loop does.
LEMMA WokenIs == Woken = loop \/ (loop \in {"paused", "retry"} /\ Woken = "turn")
BY DEF Woken

\* The types of what follows from them.
Kinds ==
  /\ boot \in 0 .. MaxBoots /\ nextIndex \in Nat /\ confirmed \in -1 .. MaxSlots - 1
  /\ staged \subseteq Slot /\ pending \subseteq Slot
  /\ entry \in [Slot -> Bytes \cup {NoEntry}] /\ task \in [Slot -> TaskState]
  /\ snapshot \in Checkpoint \cup {NoCheckpoint} /\ disk \in Checkpoint \cup {NoCheckpoint, Damaged}
  /\ feed \in [Slot -> Bytes \cup {NoEntry}] /\ sent \subseteq Slot \X (Bytes \cup {NoEntry})

\* A process that has not resumed, or never will.
Unresumed ==
  /\ state # "ready" /\ loop \in {"resuming", "retry", "turn", "returned"}
  /\ chain = <<>> /\ snapshot = NoCheckpoint
  /\ pending = {} /\ staged = {} /\ \A s \in Slot : task[s] = "none"

Resumes == state \in {"down", "resuming"} \/ loop \in {"resuming", "retry"}

Beginning ==
  /\ state = "down" => loop = "returned" /\ ~draining /\ ~saving
  /\ state # "down" => boot >= 1
  /\ Resumes => Unresumed /\ nextIndex = 0 /\ ~tipConfirmed

DamagedIsUnresumed == disk = Damaged => Unresumed

Harmless == Kinds /\ Beginning /\ DamagedIsUnresumed

\* Steps that leave what was sent and what it is sent from.
Calm ==
  /\ UNCHANGED <<boot, nextIndex, confirmed, entry, swarm>>
  /\ staged' \subseteq staged /\ (staged' # {} => readFirst' = readFirst) /\ pending' \subseteq pending
  /\ task' \in [Slot -> TaskState] /\ \A s \in Slot : task'[s] = "writing" => task[s] = "writing"
  /\ snapshot' \in {snapshot, NoCheckpoint} /\ disk' \in {disk} \cup ({snapshot} \ {NoCheckpoint})
  /\ tipConfirmed' => tipConfirmed
  /\ state # "down" /\ state' # "down"
  /\ loop' \in {"resuming", "retry"} => Resumes
  /\ state' = state \/ state' \in {"blocked", "stopped"}

Settles == Calm /\ (Unresumed => Unresumed')

\* Intake, a stop and history saves touch none of it.
LEMMA IntakeSettles ==
  ASSUME Harmless, Drain \/ Stop \/ (\E m \in Message : Offer(m)) \/ HistorySaved \/ HistoryNotSaved
  PROVE  Settles
<1> USE DEF Settles, Harmless, Kinds, Beginning, Calm, Unresumed, Resumes
<1>1. CASE Drain
  BY <1>1, WokenIs DEF Drain, batch, slots, record, swarm, Running
<1>2. CASE Stop
  <2>1. /\ state # "down" /\ state' \in {"blocked", "stopped"} /\ pending' \subseteq pending
        /\ pending = {} => pending' = {}
        /\ loop' = loop \/ (loop \in {"paused", "retry"} /\ loop' = "turn")
        /\ UNCHANGED <<boot, nextIndex, confirmed, entry, swarm, staged, readFirst, task, chain, snapshot, disk,
                       tipConfirmed>>
    BY <1>2, WokenIs DEF Stop, batch, record
  <2>2. Calm
    BY <2>1 DEF swarm
  <2>3. Unresumed => Unresumed'
    BY <2>1
  <2> QED
    BY <2>2, <2>3
<1>3. CASE \E m \in Message : Offer(m)
  BY <1>3, WokenIs DEF Offer, life, batch, slots, record, swarm
<1>4. CASE HistorySaved
  BY <1>4 DEF HistorySaved, life, batch, slots, swarm
<1>5. CASE HistoryNotSaved
  BY <1>5 DEF HistoryNotSaved, life, batch, slots, record, swarm
<1> QED
  BY <1>1, <1>2, <1>3, <1>4, <1>5

\* Nor does a loop that blocks, waits, pauses or gives up.
LEMMA ResumeSettles ==
  ASSUME Harmless, ResumeBlocks \/ ResumeFails \/ ResumeRetry \/ LoopResumes \/ LoopReturns \/ Pause \/ PersistRetry
  PROVE  Settles
<1> USE DEF Settles, Harmless, Kinds, Beginning, Calm, Unresumed, Resumes
<1>1. CASE ResumeBlocks
  BY <1>1 DEF ResumeBlocks, Block, batch, record, swarm, Resumes
<1>2. CASE ResumeFails \/ ResumeRetry
  BY <1>2 DEF ResumeFails, ResumeRetry, life, batch, slots, record, swarm
<1>3. CASE LoopResumes \/ LoopReturns
  BY <1>3 DEF LoopResumes, LoopReturns, life, batch, slots, record, swarm, Resumes
<1>4. CASE Pause
  BY <1>4 DEF Pause, life, batch, slots, record, swarm
<1>5. CASE PersistRetry
  BY <1>5 DEF PersistRetry, life, batch, slots, record, swarm, Resumes
<1> QED
  BY <1>1, <1>2, <1>3, <1>4, <1>5

\* A checkpoint write that ends without a batch to launch only replaces the file by what it was writing.
LEMMA WriteSettles ==
  ASSUME Harmless, PersistFails \/ (\E s \in Slot : ConfirmationRecorded(s)) \/ ResumeRecorded \/ HistoryRecorded
  PROVE  Settles
<1> USE DEF Settles, Harmless, Kinds, Beginning, Calm, Unresumed, Resumes
<1>1. CASE PersistFails
  BY <1>1 DEF PersistFails, CheckpointWriteEnds, life, batch, slots, swarm
<1>2. CASE \E s \in Slot : ConfirmationRecorded(s)
  BY <1>2, WokenIs DEF ConfirmationRecorded, CheckpointWriteEnds, life, batch, slots, swarm, TaskState
<1>3. CASE ResumeRecorded \/ HistoryRecorded
  BY <1>3 DEF ResumeRecorded, HistoryRecorded, CheckpointWriteEnds, life, batch, slots, swarm
<1> QED
  BY <1>1, <1>2, <1>3

\* A read or a write that ends without an entry sent or found sends nothing.
LEMMA DeliverySettles ==
  ASSUME Harmless, NEW s \in Slot, ReadForeign(s) \/ ReadFails(s) \/ ReadTooLate(s) \/ WriteFails(s) \/ Retry(s)
  PROVE  Settles
<1> USE DEF Settles, Harmless, Kinds, Beginning, Calm, Unresumed, Resumes
<1>1. CASE ReadForeign(s)
  BY <1>1 DEF ReadForeign, Block, Goes, batch, record, swarm, TaskState
<1>2. CASE ReadFails(s) \/ ReadTooLate(s) \/ WriteFails(s) \/ Retry(s)
  BY <1>2 DEF ReadFails, ReadTooLate, WriteFails, Retry, Goes, life, batch, slots, record, swarm, TaskState
<1> QED
  BY <1>1, <1>2

\* Such a step keeps the invariant, and a damaged file as it is.
LEMMA CalmKeeps ==
  ASSUME Harmless, Settles
  PROVE  Harmless' /\ (disk = Damaged => disk' = Damaged)
<1>1. Kinds'
  BY DEF Settles, Calm, Harmless, Kinds, swarm
<1>2. Resumes' => Resumes
  BY DEF Settles, Calm, Resumes
<1>3. Beginning'
  BY <1>2 DEF Settles, Calm, Harmless, Beginning
<1>4. disk' = Damaged <=> disk = Damaged
  BY SentinelAssumption DEF Settles, Calm, Harmless, Kinds, DamagedIsUnresumed, Unresumed
<1> QED
  BY <1>1, <1>3, <1>4 DEF Harmless, DamagedIsUnresumed, Settles

\* A process that ends leaves the file the running write leaves.
LEMMA StopsHarmless ==
  ASSUME Harmless, Crash \/ Exit
  PROVE  /\ Harmless' /\ disk' \in {disk} \cup ({snapshot} \ {NoCheckpoint}) /\ state' = "down" /\ Unresumed'
         /\ nextIndex' = 0 /\ ~tipConfirmed' /\ UNCHANGED <<boot, swarm>>
<1>1. /\ disk' \in {disk} \cup ({snapshot} \ {NoCheckpoint}) /\ PowerOff
  BY DEF Crash, Exit
<1>2. Kinds'
  BY <1>1, ConstantsAssumption DEF PowerOff, Harmless, Kinds, swarm, NoSlots, NoTasks, TaskState
<1>3. /\ Unresumed' /\ Beginning' /\ state' = "down" /\ nextIndex' = 0 /\ ~tipConfirmed' /\ UNCHANGED <<boot, swarm>>
  BY <1>1 DEF PowerOff, Unresumed, Beginning, NoTasks
<1> QED
  BY <1>1, <1>2, <1>3 DEF Harmless, DamagedIsUnresumed

\* A new process has read nothing.
LEMMA StartHarmless ==
  ASSUME Harmless, Start
  PROVE  Harmless' /\ disk' = disk
<1>1. Kinds'
  BY ConstantsAssumption DEF Start, Harmless, Kinds, batch, slots, record, swarm
<1>2. Unresumed' /\ nextIndex' = 0 /\ ~tipConfirmed'
  BY DEF Start, Harmless, Beginning, Resumes, Unresumed, batch, slots, record
<1>3. boot' >= 1
  BY ConstantsAssumption DEF Start, Harmless, Kinds
<1>4. Beginning'
  BY <1>2, <1>3 DEF Start, Beginning
<1> QED
  BY <1>1, <1>2, <1>4 DEF Start, Harmless, DamagedIsUnresumed, record

\* Only a checkpoint that can be read, or none at all, is resumed from.
LEMMA ResumedHarmless ==
  ASSUME Harmless, ResumeFromCheckpoint \/ ResumeFromFeed
  PROVE  Harmless' /\ disk' = disk /\ disk # Damaged
<1>1. PICK c \in -1 .. MaxSlots - 1, entries \in [Slot -> Bytes \cup {NoEntry}], inFlight \in SUBSET Slot :
        EnterReady(c, entries, inFlight) /\ NextAfter(c, inFlight) \in Nat
  <2>1. CASE ResumeFromCheckpoint
    <3>1. disk \in Checkpoint /\ PendingRunsOn(disk)
      BY <2>1 DEF ResumeFromCheckpoint, RunsOn, HasCheckpoint, Harmless, Kinds
    <3>2. NextAfter(disk.index, InFlight(disk)) \in Nat
      BY <3>1, InFlightIsInterval, ConstantsAssumption
    <3> QED
      BY <2>1, <3>1, <3>2 DEF ResumeFromCheckpoint, Checkpoint, InFlight
  <2>2. CASE ResumeFromFeed
    <3>1. PICK head \in -1 .. MaxSlots - 1 :
            EnterReady(head, [s \in Slot |-> IF s <= head THEN feed[s] ELSE NoEntry], {})
      BY <2>2 DEF ResumeFromFeed
    <3>2. [s \in Slot |-> IF s <= head THEN feed[s] ELSE NoEntry] \in [Slot -> Bytes \cup {NoEntry}]
      BY DEF Harmless, Kinds
    <3>3. NextAfter(head, {}) \in Nat
      BY FS_EmptySet, ConstantsAssumption DEF NextAfter
    <3> QED
      BY <3>1, <3>2, <3>3
  <2> QED
    BY <2>1, <2>2
<1>2. /\ disk' = disk /\ snapshot' = snapshot /\ loop' \in {"turn", "recording"} /\ state # "down" /\ staged' = staged
      /\ UNCHANGED <<boot, swarm>> /\ disk # Damaged
  BY <1>1, SentinelAssumption
     DEF ResumeFromCheckpoint, ResumeFromFeed, record, Harmless, Beginning, EnterReady, HasCheckpoint, batch
<1>3. Kinds'
  <2>1. /\ confirmed' = c /\ nextIndex' = NextAfter(c, inFlight) /\ pending' = inFlight /\ entry' = entries
        /\ task' = [s \in Slot |-> IF s \in inFlight /\ ~stopped THEN "reading" ELSE "none"]
    BY <1>1 DEF EnterReady
  <2> QED
    BY <1>1, <1>2, <2>1 DEF Harmless, Kinds, swarm, TaskState
<1>4. Beginning'
  BY <1>1, <1>2 DEF Beginning, Harmless, EnterReady, Resumes
<1> QED
  BY <1>2, <1>3, <1>4 DEF Harmless, DamagedIsUnresumed

\* A batch takes new slots, and is written unread only after a confirmation.
LEMMA StageHarmless ==
  ASSUME Harmless, Stage
  PROVE  /\ Harmless' /\ state = "ready" /\ state' = "ready" /\ nextIndex' \in Nat /\ nextIndex < nextIndex'
         /\ (\A s \in staged' : s \in Slot /\ s >= nextIndex /\ s < nextIndex') /\ pending' = pending \cup staged'
         /\ \A s \in staged' : entry'[s] \in Bytes /\ entry'[s].boot = boot
         /\ \A s \in Slot : s < nextIndex => entry'[s] = entry[s]
         /\ (~readFirst' => tipConfirmed) /\ UNCHANGED <<boot, tipConfirmed, task, snapshot, disk, swarm>>
<1>0. PICK n \in 1 .. Len(queue), k \in 1 .. MaxSlots : \E picked \in [1 .. k -> Message] :
        /\ Takes(n, picked)
        /\ staged' = nextIndex .. (nextIndex + k - 1)
        /\ nextIndex' = nextIndex + k
        /\ pending' = pending \cup staged'
        /\ entry' = [s \in Slot |-> IF s \in staged' THEN [msg |-> picked[s - nextIndex + 1], boot |-> boot]
                                    ELSE entry[s]]
  BY DEF Stage
<1>1. PICK picked \in [1 .. k -> Message] :
        /\ Takes(n, picked)
        /\ staged' = nextIndex .. (nextIndex + k - 1)
        /\ nextIndex' = nextIndex + k
        /\ pending' = pending \cup staged'
        /\ entry' = [s \in Slot |-> IF s \in staged' THEN [msg |-> picked[s - nextIndex + 1], boot |-> boot]
                                    ELSE entry[s]]
  BY <1>0
<1>2. /\ loop = "turn" /\ ~stopped /\ state = "ready" /\ state' = "ready" /\ loop' = "persisting"
      /\ (~readFirst' => tipConfirmed) /\ UNCHANGED <<boot, confirmed, tipConfirmed, task, snapshot, disk, swarm>>
  BY DEF Stage, life, ReadsFirst
<1>3. MaxSlots \in Nat /\ nextIndex \in Nat /\ k \in Nat \ {0} /\ boot \in 0 .. MaxBoots /\ boot >= 1
  BY <1>2, ConstantsAssumption DEF Harmless, Kinds, Beginning
<1>4. nextIndex + k <= MaxSlots
  <2>1. picked \in Seq(Message)
    BY <1>1, SeqDef
  <2>2. 1 .. k = 1 .. Len(picked) /\ Len(picked) \in Nat
    BY <1>1, <2>1, LenProperties
  <2>3. Len(picked) = k
    BY <2>2
  <2> QED
    BY <1>1, <1>3, <2>3 DEF Takes, HasRoomFor
<1>5. \A s \in staged' : s \in Slot /\ s >= nextIndex /\ s - nextIndex + 1 \in 1 .. k
  BY <1>1, <1>3, <1>4 DEF Slot
<1>6. \A s \in staged' : entry'[s] \in Bytes /\ entry'[s].boot = boot
  <2> SUFFICES ASSUME NEW s \in staged' PROVE entry'[s] \in Bytes /\ entry'[s].boot = boot
    OBVIOUS
  <2>1. picked[s - nextIndex + 1] \in Message
    BY <1>1, <1>5
  <2>2. entry'[s] = [msg |-> picked[s - nextIndex + 1], boot |-> boot]
    BY <1>1, <1>5
  <2> QED
    BY <1>3, <2>1, <2>2 DEF Bytes
<1>7. \A s \in Slot : s \notin staged' => entry'[s] = entry[s]
  BY <1>1
<1>8. entry' \in [Slot -> Bytes \cup {NoEntry}]
  BY <1>1, <1>6, <1>7 DEF Harmless, Kinds
<1>9. nextIndex' \in Nat /\ nextIndex < nextIndex'
  BY <1>1, <1>3
<1>10. Kinds'
  BY <1>1, <1>2, <1>5, <1>8, <1>9 DEF Harmless, Kinds, swarm
<1>11. Beginning' /\ DamagedIsUnresumed'
  BY <1>2, <1>3 DEF Harmless, Beginning, Resumes, DamagedIsUnresumed, Unresumed
<1>12. \A s \in Slot : s < nextIndex => s \notin staged'
  BY <1>3, <1>5 DEF Slot
<1>13. \A s \in staged' : s \in Slot /\ s >= nextIndex /\ s < nextIndex'
  <2>1. staged' = nextIndex .. (nextIndex + k - 1) /\ nextIndex' = nextIndex + k
    BY <1>1
  <2>2. \A s \in nextIndex .. (nextIndex + k - 1) : s >= nextIndex /\ s < nextIndex + k
    BY <1>3
  <2> QED
    BY <1>5, <2>1, <2>2
<1>14. \A s \in Slot : s < nextIndex => entry'[s] = entry[s]
  BY <1>7, <1>12
<1>15. pending' = pending \cup staged'
  BY <1>1
<1>16. Harmless'
  BY <1>10, <1>11 DEF Harmless
<1> QED
  BY <1>2, <1>6, <1>9, <1>13, <1>14, <1>15, <1>16

\* A checkpoint write holds what is current.
LEMMA BeginHarmless ==
  ASSUME Harmless, BeginCheckpointWrite
  PROVE  /\ Harmless' /\ \E g \in BOOLEAN : snapshot' = Current(g)
         /\ UNCHANGED <<boot, state, nextIndex, staged, readFirst, pending, entry, tipConfirmed, task, disk, swarm>>
<1>0. PICK g \in BOOLEAN : snapshot' = Current(g)
  BY DEF BeginCheckpointWrite, MayLackRows
<1>1. /\ chain # <<>> /\ snapshot' = Current(g)
      /\ UNCHANGED <<life, loop, batch, slots, task, chain, disk, swarm>>
  BY <1>0 DEF BeginCheckpointWrite
<1>2. Current(g) \in Checkpoint
  BY DEF Current, Records, Checkpoint, Harmless, Kinds
<1>3. Kinds'
  BY <1>1, <1>2 DEF Harmless, Kinds, life, batch, slots, swarm
<1>4. ~Unresumed
  BY <1>1 DEF Unresumed
<1>5. Beginning' /\ DamagedIsUnresumed'
  BY <1>1, <1>4 DEF Harmless, Beginning, Resumes, DamagedIsUnresumed, life
<1> QED
  BY <1>1, <1>2, <1>3, <1>5 DEF Harmless, life, batch, slots

\* What is sent once a batch is recorded is the entries of its slots that are still in flight.
LEMMA PersistedHarmless ==
  ASSUME Harmless, PersistWritten
  PROVE  /\ Harmless' /\ ~Unresumed /\ staged' = {}
         /\ disk' = snapshot /\ snapshot # NoCheckpoint /\ snapshot' = NoCheckpoint
         /\ state # "down" /\ state' = state
         /\ \A s \in Slot : task'[s] = "writing" => task[s] = "writing" \/ <<s, entry[s]>> \in sent'
         /\ sent \subseteq sent'
         /\ \A w \in sent' \ sent : ~readFirst /\ w[1] \in staged /\ w[1] \in pending /\ w[2] = entry[w[1]]
         /\ \A s \in Slot : task'[s] = "writing" /\ task[s] # "writing" => ~readFirst /\ s \in staged /\ s \in pending
         /\ UNCHANGED <<boot, nextIndex, pending, entry, tipConfirmed, feed>>
<1>1. /\ chain # <<>> /\ snapshot # NoCheckpoint /\ disk' = snapshot /\ snapshot' = NoCheckpoint
      /\ staged' = {} /\ loop' = "turn" /\ UNCHANGED <<life, slots, feed>>
  BY DEF PersistWritten, CheckpointWriteEnds
<1> DEFINE live == {s \in staged : StillDelivering(s)}
<1>2. /\ task' = [s \in Slot |-> IF s \notin live THEN task[s] ELSE IF readFirst THEN "reading" ELSE "writing"]
      /\ sent' = IF readFirst THEN sent ELSE sent \cup {<<s, entry[s]>> : s \in live}
  BY DEF PersistWritten
<1>3. \A s \in live : s \in Slot /\ s \in staged /\ s \in pending
  BY DEF StillDelivering, Harmless, Kinds
<1>4. ~Unresumed
  BY <1>1 DEF Unresumed
<1>5. ~Resumes
  BY <1>4 DEF Harmless, Beginning
<1>6. /\ \A s \in Slot : task'[s] = "writing" => task[s] = "writing" \/ <<s, entry[s]>> \in sent'
      /\ sent \subseteq sent'
      /\ \A w \in sent' \ sent : ~readFirst /\ w[1] \in staged /\ w[1] \in pending /\ w[2] = entry[w[1]]
      /\ \A s \in Slot : task'[s] = "writing" /\ task[s] # "writing" => ~readFirst /\ s \in staged /\ s \in pending
  <2> HIDE DEF live
  <2> QED
    BY <1>2, <1>3
<1>7. task' \in [Slot -> TaskState]
  BY <1>2 DEF Harmless, Kinds, TaskState
<1>8. sent' \subseteq Slot \X (Bytes \cup {NoEntry})
  <2> HIDE DEF live
  <2>1. \A s \in live : <<s, entry[s]>> \in Slot \X (Bytes \cup {NoEntry})
    BY <1>3 DEF Harmless, Kinds
  <2> QED
    BY <1>2, <2>1 DEF Harmless, Kinds
<1>9. Kinds'
  BY <1>1, <1>7, <1>8 DEF Harmless, Kinds, life, slots
<1>10. Beginning' /\ DamagedIsUnresumed'
  BY <1>1, <1>5, SentinelAssumption DEF Harmless, Kinds, Beginning, Resumes, DamagedIsUnresumed, life
<1> QED
  BY <1>1, <1>4, <1>5, <1>6, <1>9, <1>10 DEF Harmless, Resumes, life, slots

\* What landed() leaves of the slots.
LEMMA LandsHarmless ==
  ASSUME Harmless, NEW s \in Slot, Lands(s), task[s] # "none", feed' \in [Slot -> Bytes \cup {NoEntry}], UNCHANGED sent
  PROVE  /\ Harmless' /\ ~Unresumed /\ pending' \subseteq pending
         /\ \A t \in Slot : task'[t] = "writing" => task[t] = "writing"
         /\ UNCHANGED <<boot, state, nextIndex, entry, staged, readFirst, snapshot, disk>>
<1>1. PICK c \in confirmed .. MaxSlots - 1 :
        /\ confirmed' = c /\ pending' = pending \ ((confirmed + 1) .. c)
        /\ (chain' = chain /\ Goes(s, "none")) \/ (chain' = Append(chain, s) /\ Goes(s, "recording"))
  BY DEF Lands
<1>2. UNCHANGED <<life, loop, batch, nextIndex, entry, snapshot, disk>>
  BY DEF Lands
<1>3. task' \in [Slot -> TaskState] /\ \A t \in Slot : task'[t] = "writing" => task[t] = "writing"
  BY <1>1 DEF Goes, Harmless, Kinds, TaskState
<1>4. ~Unresumed
  BY DEF Unresumed
<1>5. confirmed' \in -1 .. MaxSlots - 1
  BY <1>1, ConstantsAssumption DEF Harmless, Kinds
<1>6. Kinds'
  BY <1>1, <1>2, <1>3, <1>5 DEF Harmless, Kinds, life, batch
<1>7. Beginning' /\ DamagedIsUnresumed'
  BY <1>2, <1>4 DEF Harmless, Beginning, Resumes, DamagedIsUnresumed, life
<1> QED
  BY <1>1, <1>2, <1>3, <1>4, <1>6, <1>7 DEF Harmless, life, batch

\* An entry sent after a read is sent by a publisher that resumed.
LEMMA ReadEmptyHarmless ==
  ASSUME Harmless, NEW s \in Slot, ReadEmpty(s)
  PROVE  Harmless' /\ ~Unresumed /\ state # "down"
<1>1. /\ task[s] = "reading" /\ task' = [task EXCEPT ![s] = "writing"] /\ sent' = sent \cup {<<s, entry[s]>>}
      /\ UNCHANGED <<life, loop, batch, slots, record, feed>>
  BY DEF ReadEmpty, Goes
<1>2. ~Unresumed
  BY <1>1 DEF Unresumed
<1>3. Kinds'
  BY <1>1 DEF Harmless, Kinds, life, batch, slots, record, TaskState
<1>4. Beginning' /\ DamagedIsUnresumed'
  BY <1>1, <1>2 DEF Harmless, Beginning, Resumes, DamagedIsUnresumed, life, record
<1> QED
  BY <1>2, <1>3, <1>4 DEF Harmless, Beginning, Resumes

\* What reaches the feed by itself leaves the server as it is.
LEMMA SwarmHarmless ==
  ASSUME Harmless, Arrive \/ OtherWrites
  PROVE  Harmless' /\ UNCHANGED <<life, loop, batch, slots, task, record, sent>>
<1>1. UNCHANGED <<life, saving, loop, batch, slots, task, record, sent>>
  BY DEF Arrive, OtherWrites
<1>2. feed' \in [Slot -> Bytes \cup {NoEntry}]
  <2>1. Foreign \subseteq Bytes
    BY ConstantsAssumption DEF Foreign, Bytes
  <2>2. CASE Arrive
    BY <2>2 DEF Arrive, Harmless, Kinds
  <2>3. CASE OtherWrites
    BY <2>1, <2>3 DEF OtherWrites, Harmless, Kinds
  <2> QED
    BY <2>2, <2>3
<1>3. Kinds'
  BY <1>1, <1>2 DEF Harmless, Kinds, life, batch, slots, record
<1>4. Beginning' /\ DamagedIsUnresumed'
  BY <1>1 DEF Harmless, Beginning, Resumes, Unresumed, DamagedIsUnresumed, life, batch, slots, record
<1> QED
  BY <1>1, <1>3, <1>4 DEF Harmless

\* The operator harms a checkpoint only while no process runs.
LEMMA HarmHarmless ==
  ASSUME Harmless, CheckpointHarmed
  PROVE  /\ Harmless' /\ HasCheckpoint /\ ~HasCheckpoint'
         /\ UNCHANGED <<life, loop, batch, slots, task, chain, snapshot, swarm>>
<1>1. /\ state = "down" /\ disk' \in {NoCheckpoint, Damaged} /\ HasCheckpoint
      /\ UNCHANGED <<life, saving, loop, batch, slots, task, chain, snapshot, swarm>>
  BY DEF CheckpointHarmed, Meddles
<1>2. Kinds'
  BY <1>1 DEF Harmless, Kinds, life, batch, slots, swarm
<1>3. Beginning' /\ Unresumed'
  BY <1>1 DEF Harmless, Beginning, Resumes, Unresumed, life, batch, slots
<1> QED
  BY <1>1, <1>2, <1>3 DEF Harmless, DamagedIsUnresumed, HasCheckpoint

\* It holds at first.
LEMMA HarmlessInit == Init => Harmless
<1> SUFFICES ASSUME Init PROVE Harmless
  OBVIOUS
<1>1. Kinds
  BY ConstantsAssumption DEF Init, Kinds, NoSlots, NoTasks, TaskState
<1>2. Beginning /\ Unresumed
  BY DEF Init, Beginning, Unresumed, NoTasks
<1> QED
  BY <1>1, <1>2 DEF Harmless, DamagedIsUnresumed

\* Nothing is sent, and the file stays as it is, while there is nothing to send.
LEMMA HarmlessStep ==
  ASSUME Harmless, [OtherNext]_vars
  PROVE  Harmless' /\ (disk = Damaged => sent' = sent /\ disk' = Damaged)
<1>1. CASE \/ Drain \/ Stop \/ (\E m \in Message : Offer(m)) \/ HistorySaved \/ HistoryNotSaved
           \/ ResumeBlocks \/ ResumeFails \/ ResumeRetry \/ LoopResumes \/ LoopReturns \/ Pause \/ PersistRetry
           \/ PersistFails \/ (\E s \in Slot : ConfirmationRecorded(s)) \/ ResumeRecorded \/ HistoryRecorded
           \/ \E s \in Slot : ReadForeign(s) \/ ReadFails(s) \/ ReadTooLate(s) \/ WriteFails(s) \/ Retry(s)
  <2>1. Settles
    BY <1>1, IntakeSettles, ResumeSettles, WriteSettles, DeliverySettles
  <2> QED
    BY <2>1, CalmKeeps DEF Settles, Calm, swarm
<1>2. CASE Start \/ Crash \/ Exit
  <2>1. disk = Damaged => snapshot = NoCheckpoint
    BY DEF Harmless, DamagedIsUnresumed, Unresumed
  <2> QED
    BY <1>2, <2>1, StartHarmless, StopsHarmless DEF Start, swarm
<1>3. CASE ResumeFromCheckpoint \/ ResumeFromFeed
  BY <1>3, ResumedHarmless
<1>4. CASE Stage
  BY <1>4, StageHarmless DEF swarm
<1>5. CASE BeginCheckpointWrite
  BY <1>5, BeginHarmless DEF swarm
<1>6. CASE PersistWritten
  BY <1>6, PersistedHarmless DEF Harmless, DamagedIsUnresumed
<1>7. CASE \E s \in Slot : ReadOwn(s) \/ WriteLands(s)
  <2>1. PICK s \in Slot : ReadOwn(s) \/ WriteLands(s)
    BY <1>7
  <2>2. Lands(s) /\ task[s] # "none" /\ feed' \in [Slot -> Bytes \cup {NoEntry}] /\ UNCHANGED sent
    BY <2>1 DEF ReadOwn, WriteLands, Harmless, Kinds, swarm
  <2> QED
    BY <2>2, LandsHarmless
<1>8. CASE \E s \in Slot : ReadEmpty(s)
  BY <1>8, ReadEmptyHarmless DEF Harmless, DamagedIsUnresumed
<1>9. CASE Arrive \/ OtherWrites
  BY <1>9, SwarmHarmless DEF record
<1>10. CASE CheckpointHarmed
  BY <1>10, HarmHarmless DEF swarm, HasCheckpoint
<1>11. CASE UNCHANGED vars
  <2>1. UNCHANGED <<life, saving, loop, batch, slots, task, record, swarm>>
    BY <1>11 DEF vars
  <2>2. Kinds' /\ Beginning' /\ DamagedIsUnresumed'
    BY <2>1 DEF Harmless, Kinds, Beginning, Resumes, Unresumed, DamagedIsUnresumed, life, batch, slots, record, swarm
  <2> QED
    BY <2>1, <2>2 DEF Harmless, record, swarm
<1> QED
  BY <1>1, <1>2, <1>3, <1>4, <1>5, <1>6, <1>7, <1>8, <1>9, <1>10, <1>11
     DEF OtherNext, Next, Resume, Loop, Checkpointing, Deliver

\* It always holds.
LEMMA HarmlessHolds == OtherSpec => []Harmless
BY HarmlessInit, HarmlessStep, PTL DEF OtherSpec

(* A damaged checkpoint ends all sending, in this boot and later ones, whatever the other writer does. *)
THEOREM DamagedChatIsSilent == OtherSpec => DamagedStaysSilent
<1>1. Harmless /\ [OtherNext]_vars => [disk = Damaged => sent' = sent /\ disk' = Damaged]_vars
  BY HarmlessStep
<1> QED
  BY <1>1, HarmlessHolds, PTL DEF OtherSpec, DamagedStaysSilent

\* A blocked chat has nothing in flight, and no resume under way that would make it ready again.
BlockedIsEmpty == state = "blocked" => pending = {} /\ loop \notin {"resuming", "retry"}

\* A chat blocks where a resume or a read finds what is not its own.
LEMMA WhoBlocks ==
  ASSUME [OtherNext]_vars, state' = "blocked", state # "blocked"
  PROVE  ResumeBlocks \/ \E s \in Slot : ReadForeign(s)
<1> USE DEF life
<1>1. CASE Start \/ Crash \/ Drain \/ Stop \/ Exit
  BY <1>1 DEF Start, Crash, Drain, Stop, Exit, PowerOff
<1>2. CASE \E m \in Message : Offer(m)
  BY <1>2 DEF Offer
<1>3. CASE Resume
  BY <1>3 DEF Resume, ResumeFromCheckpoint, ResumeFromFeed, ResumeFails, ResumeRetry, EnterReady
<1>4. CASE Loop
  BY <1>4 DEF Loop, LoopResumes, LoopReturns, Stage, Pause, PersistRetry
<1>5. CASE HistorySaved \/ HistoryNotSaved
  BY <1>5 DEF HistorySaved, HistoryNotSaved
<1>6. CASE Checkpointing
  BY <1>6 DEF Checkpointing, BeginCheckpointWrite, PersistWritten, PersistFails, ConfirmationRecorded,
              ResumeRecorded, HistoryRecorded
<1>7. CASE \E s \in Slot : Deliver(s)
  BY <1>7 DEF Deliver, ReadOwn, ReadEmpty, Lands, ReadFails, ReadTooLate, WriteLands, WriteFails, Retry
<1>8. CASE Arrive \/ OtherWrites \/ CheckpointHarmed
  BY <1>8 DEF Arrive, OtherWrites, CheckpointHarmed
<1>9. CASE UNCHANGED vars
  BY <1>9 DEF vars
<1> QED
  BY <1>1, <1>2, <1>3, <1>4, <1>5, <1>6, <1>7, <1>8, <1>9 DEF OtherNext, Next

\* The block empties it.
LEMMA BlockEmpties ==
  ASSUME Harmless, ResumeBlocks \/ \E s \in Slot : ReadForeign(s)
  PROVE  pending' = {} /\ loop' \notin {"resuming", "retry"}
<1>1. CASE ResumeBlocks
  BY <1>1 DEF ResumeBlocks, Block
<1>2. CASE \E s \in Slot : ReadForeign(s)
  <2>1. ~Unresumed
    BY <1>2 DEF ReadForeign, Unresumed
  <2> QED
    BY <1>2, <2>1 DEF ReadForeign, Block, Harmless, Beginning, Resumes
<1> QED
  BY <1>1, <1>2

\* Nothing but the end of its process changes a blocked chat.
LEMMA StaysEmpty ==
  ASSUME Harmless, BlockedIsEmpty, [OtherNext]_vars, state = "blocked"
  PROVE  BlockedIsEmpty'
<1>0. pending = {} /\ loop \notin {"resuming", "retry"} /\ ~Resumes
  BY DEF BlockedIsEmpty, Resumes
<1>1. CASE \/ Drain \/ Stop \/ (\E m \in Message : Offer(m)) \/ HistorySaved \/ HistoryNotSaved
           \/ ResumeBlocks \/ ResumeFails \/ ResumeRetry \/ LoopResumes \/ LoopReturns \/ Pause \/ PersistRetry
           \/ PersistFails \/ (\E s \in Slot : ConfirmationRecorded(s)) \/ ResumeRecorded \/ HistoryRecorded
           \/ \E s \in Slot : ReadForeign(s) \/ ReadFails(s) \/ ReadTooLate(s) \/ WriteFails(s) \/ Retry(s)
  <2>1. Settles
    BY <1>1, IntakeSettles, ResumeSettles, WriteSettles, DeliverySettles
  <2> QED
    BY <1>0, <2>1 DEF Settles, Calm, BlockedIsEmpty
<1>2. CASE Start \/ Crash \/ Exit
  BY <1>2 DEF Start, Crash, Exit, PowerOff, BlockedIsEmpty
<1>3. CASE ResumeFromCheckpoint \/ ResumeFromFeed \/ Stage
  BY <1>0, <1>3 DEF ResumeFromCheckpoint, ResumeFromFeed, Stage
<1>4. CASE BeginCheckpointWrite \/ PersistWritten
  BY <1>0, <1>4 DEF BeginCheckpointWrite, PersistWritten, slots, BlockedIsEmpty
<1>5. CASE \E s \in Slot : ReadOwn(s) \/ WriteLands(s)
  BY <1>0, <1>5 DEF ReadOwn, WriteLands, Lands, BlockedIsEmpty
<1>6. CASE \E s \in Slot : ReadEmpty(s)
  BY <1>0, <1>6 DEF ReadEmpty, StillDelivering
<1>7. CASE Arrive \/ OtherWrites \/ CheckpointHarmed
  BY <1>0, <1>7 DEF Arrive, OtherWrites, CheckpointHarmed, slots, BlockedIsEmpty
<1>8. CASE UNCHANGED vars
  BY <1>0, <1>8 DEF vars, slots, BlockedIsEmpty
<1> QED
  BY <1>1, <1>2, <1>3, <1>4, <1>5, <1>6, <1>7, <1>8 DEF OtherNext, Next, Resume, Loop, Checkpointing, Deliver

\* Every step keeps it, and what is stopped, blocked or down sends nothing.
LEMMA SilentStep ==
  ASSUME Harmless, BlockedIsEmpty, [OtherNext]_vars
  PROVE  BlockedIsEmpty' /\ (stopped \/ state \in {"blocked", "down"} => sent' = sent)
<1>1. BlockedIsEmpty'
  BY StaysEmpty, WhoBlocks, BlockEmpties DEF BlockedIsEmpty
<1>2. ASSUME stopped \/ state \in {"blocked", "down"} PROVE sent' = sent
  <2>1. \A s \in Slot : ~StillDelivering(s)
    BY <1>2 DEF StillDelivering, BlockedIsEmpty, Harmless, Beginning, Resumes, Unresumed
  <2>2. CASE PersistWritten
    <3>1. {s \in staged : StillDelivering(s)} = {}
      BY <2>1 DEF Harmless, Kinds
    <3> QED
      BY <2>2, <3>1 DEF PersistWritten
  <2>3. CASE \E s \in Slot : ReadEmpty(s)
    BY <2>1, <2>3 DEF ReadEmpty
  <2>4. CASE OtherWrites \/ CheckpointHarmed
    BY <2>4 DEF OtherWrites, CheckpointHarmed, swarm
  <2> QED
    BY <2>2, <2>3, <2>4, WhoSends DEF OtherNext
<1> QED
  BY <1>1, <1>2

(* StoppedIsSilent speaks of a chat that never blocks. With another writer, or a checkpoint lost or damaged at any
   time, chats do block, and what was staged, recorded or being read when one did is not sent any more. *)
THEOREM BlockedIsSilent == OtherSpec => SilentOnceStopped
<1>1. Harmless /\ BlockedIsEmpty /\ [OtherNext]_vars => BlockedIsEmpty'
  BY SilentStep
<1>2. Harmless /\ BlockedIsEmpty /\ [OtherNext]_vars => [stopped \/ state \in {"blocked", "down"} => sent' = sent]_vars
  BY SilentStep
<1>3. Init => BlockedIsEmpty
  BY DEF Init, BlockedIsEmpty
<1>4. OtherSpec => []BlockedIsEmpty
  BY <1>1, <1>3, HarmlessHolds, PTL DEF OtherSpec
<1> QED
  BY <1>2, <1>4, HarmlessHolds, PTL DEF OtherSpec, SilentOnceStopped

-----------------------------------------------------------------------------
(* Where the other writer's entries are *)

\* The other writer has the slot, and none after it.
Taken(s) == feed[s] \in Foreign
Above(s) == \A t \in Slot : t > s => ~Taken(t)

\* It fills the first slot it finds empty, so no empty one is below its own.
TakenInOrder == \A t \in Slot : Taken(t) => \A s \in Slot : s < t => feed[s] # NoEntry

FeedIsSent == \A s \in Slot : feed[s] # NoEntry => Taken(s) \/ <<s, feed[s]>> \in sent

\* An entry of this server, which only goes where the other writer has nothing later.
Mine(s, e) == e \in Bytes /\ e \notin Foreign /\ e.boot <= boot /\ (<<s, e>> \in sent => Above(s))

SentIsMine ==
  \A w \in sent :
    /\ w[2] \in Bytes /\ w[2] \notin Foreign /\ w[2].boot <= boot
    /\ w[2].boot = boot /\ state # "down" => w[1] < nextIndex

PendingIsMine == \A s \in pending : s < nextIndex /\ Mine(s, entry[s])

WritingIsSent == \A s \in Slot : task[s] = "writing" => s < nextIndex /\ <<s, entry[s]>> \in sent /\ Above(s)

RecordsMine(c) == \A s \in InFlight(c) : Mine(s, c.entries[s])

RecordedIsMine == (HasCheckpoint => RecordsMine(disk)) /\ (snapshot # NoCheckpoint => RecordsMine(snapshot))

\* Once a slot is confirmed, what comes is not read before it is written.
TipIsClear == tipConfirmed => \A t \in Slot : t >= nextIndex => ~Taken(t)

BatchIsClear == staged # {} /\ ~readFirst => \A s \in staged : ~Taken(s) /\ Above(s)

Clear ==
  /\ TakenInOrder /\ FeedIsSent /\ SentIsMine /\ PendingIsMine /\ WritingIsSent
  /\ RecordedIsMine /\ TipIsClear /\ BatchIsClear

\* What a step that writes nothing of the other's may do to the feed.
Grows ==
  /\ boot' = boot /\ sent \subseteq sent' /\ \A w \in sent' \ sent : w[1] \in Slot /\ Above(w[1])
  /\ \A s \in Slot : (Taken(s)' => Taken(s)) /\ (feed[s] # NoEntry => feed'[s] # NoEntry)

\* It takes no slot, so what was below the other writer's entries stays so.
LEMMA GrowsKeeps ==
  ASSUME Grows
  PROVE  /\ \A s \in Slot : Above(s) => Above(s)'
         /\ \A s \in Slot : \A e : Mine(s, e) => Mine(s, e)'
         /\ TakenInOrder => TakenInOrder'
<1>1. \A s \in Slot : Above(s) => Above(s)'
  BY DEF Grows, Above
<1>2. ASSUME NEW s \in Slot, NEW e, Mine(s, e) PROVE Mine(s, e)'
  <2>1. <<s, e>> \in sent' => Above(s)
    BY <1>2 DEF Grows, Mine
  <2> QED
    BY <1>1, <1>2, <2>1 DEF Grows, Mine
<1>3. TakenInOrder => TakenInOrder'
  BY DEF Grows, TakenInOrder
<1> QED
  BY <1>1, <1>2, <1>3

\* A recorded entry stays one this server may send.
LEMMA RecordsKeep ==
  ASSUME Grows, NEW c, RecordsMine(c)
  PROVE  RecordsMine(c)'
<1>1. \A s \in InFlight(c) : s \in Slot
  BY DEF InFlight
<1> QED
  BY <1>1, GrowsKeeps DEF RecordsMine, InFlight

\* So do those of the file, whatever a write or a crash makes of it.
LEMMA RecordedKeeps ==
  ASSUME Grows, RecordedIsMine,
         disk' \in {disk} \cup ({snapshot} \ {NoCheckpoint}), snapshot' \in {snapshot, NoCheckpoint}
  PROVE  RecordedIsMine'
<1>1. CASE disk' = disk
  BY <1>1, RecordsKeep DEF RecordedIsMine, HasCheckpoint
<1>2. CASE disk' = snapshot /\ snapshot # NoCheckpoint
  BY <1>2, RecordsKeep DEF RecordedIsMine, HasCheckpoint
<1> QED
  BY <1>1, <1>2

\* A calm step changes neither the feed nor what may be sent.
LEMMA CalmIsClear ==
  ASSUME Harmless, Clear, Calm
  PROVE  Clear'
<1>1. UNCHANGED <<boot, nextIndex, entry, feed, sent>>
  BY DEF Calm, swarm
<1>2. Grows /\ \A s \in Slot : Above(s)' = Above(s) /\ Taken(s)' = Taken(s)
  BY <1>1 DEF Grows, Taken, Above
<1>3. RecordedIsMine'
  BY <1>2, RecordedKeeps DEF Calm, Clear
<1>4. TakenInOrder' /\ FeedIsSent'
  BY <1>1, <1>2, GrowsKeeps DEF Clear, FeedIsSent
<1>5. SentIsMine'
  BY <1>1 DEF Calm, Clear, SentIsMine
<1>6. PendingIsMine'
  BY <1>1, <1>2, GrowsKeeps DEF Calm, Clear, PendingIsMine, Harmless, Kinds
<1>7. WritingIsSent'
  BY <1>1, <1>2 DEF Calm, Clear, WritingIsSent
<1>8. TipIsClear' /\ BatchIsClear'
  BY <1>1, <1>2 DEF Calm, Clear, TipIsClear, BatchIsClear, Harmless, Kinds
<1> QED
  BY <1>3, <1>4, <1>5, <1>6, <1>7, <1>8 DEF Clear

\* A process that has not resumed has sent nothing itself.
LEMMA SentBefore ==
  ASSUME Harmless, Clear, Resumes, state # "down"
  PROVE  \A w \in sent : w[2].boot <= boot /\ w[2].boot # boot
<1>1. nextIndex = 0 /\ \A w \in sent : w[1] \in Slot
  BY DEF Harmless, Kinds, Beginning
<1>2. \A s \in Slot : ~(s < 0)
  BY ConstantsAssumption DEF Slot
<1> QED
  BY <1>1, <1>2 DEF Clear, SentIsMine

\* A process that ends keeps only what is recorded.
LEMMA StopsClear ==
  ASSUME Harmless, Clear, Crash \/ Exit
  PROVE  Clear'
<1>1. /\ disk' \in {disk} \cup ({snapshot} \ {NoCheckpoint}) /\ state' = "down" /\ Unresumed' /\ ~tipConfirmed'
      /\ UNCHANGED <<boot, feed, sent>>
  BY StopsHarmless DEF swarm
<1>2. Grows
  BY <1>1 DEF Grows, Taken
<1>3. RecordedIsMine'
  BY <1>1, <1>2, RecordedKeeps DEF Clear, Unresumed
<1>4. TakenInOrder' /\ FeedIsSent' /\ SentIsMine'
  BY <1>1, <1>2, GrowsKeeps DEF Clear, FeedIsSent, Taken, SentIsMine
<1>5. PendingIsMine' /\ WritingIsSent' /\ TipIsClear' /\ BatchIsClear'
  BY <1>1 DEF PendingIsMine, WritingIsSent, TipIsClear, BatchIsClear, Unresumed
<1> QED
  BY <1>3, <1>4, <1>5 DEF Clear

\* A new boot stages entries none of which was ever sent.
LEMMA StartClear ==
  ASSUME Harmless, Clear, Start
  PROVE  Clear'
<1>1. /\ state = "down" /\ boot \in Int /\ boot' = boot + 1
      /\ UNCHANGED <<batch, slots, task, record, swarm>>
  BY ConstantsAssumption DEF Start, Harmless, Kinds
<1>2. Unresumed /\ ~tipConfirmed
  BY <1>1 DEF Harmless, Beginning, Resumes
<1>3. \A b \in 0 .. MaxBoots : b <= boot => b <= boot' /\ b # boot'
  BY <1>1, ConstantsAssumption
<1>4. \A s \in Slot : Taken(s)' = Taken(s) /\ Above(s)' = Above(s)
  BY <1>1 DEF Taken, Above, swarm
<1>5. \A e \in Bytes : e.boot \in 0 .. MaxBoots
  BY DEF Bytes
<1>6. SentIsMine'
  BY <1>1, <1>3, <1>5 DEF Clear, SentIsMine, swarm
<1>7. \A s \in Slot : \A e : Mine(s, e) => Mine(s, e)'
  BY <1>1, <1>3, <1>4, <1>5 DEF Mine, swarm
<1>8. RecordedIsMine'
  <2>1. \A c : InFlight(c) \subseteq Slot
    BY DEF InFlight
  <2>2. UNCHANGED <<disk, snapshot>>
    BY <1>1 DEF record
  <2>3. \A c : RecordsMine(c) => RecordsMine(c)'
    BY <1>7, <2>1 DEF RecordsMine, InFlight
  <2> QED
    BY <2>2, <2>3 DEF Clear, RecordedIsMine, HasCheckpoint
<1>9. TakenInOrder' /\ FeedIsSent'
  BY <1>1, <1>4 DEF Clear, TakenInOrder, FeedIsSent, swarm
<1>10. PendingIsMine' /\ WritingIsSent' /\ TipIsClear' /\ BatchIsClear'
  BY <1>1, <1>2 DEF PendingIsMine, WritingIsSent, TipIsClear, BatchIsClear, Unresumed, slots, batch
<1> QED
  BY <1>6, <1>8, <1>9, <1>10 DEF Clear

\* What a resume takes in flight is what the checkpoint records.
LEMMA ResumedClear ==
  ASSUME Harmless, Clear, ResumeFromCheckpoint \/ ResumeFromFeed
  PROVE  Clear'
<1>1. /\ loop = "resuming" /\ state # "down" /\ state' # "down" /\ Unresumed /\ Resumes
      /\ UNCHANGED <<boot, feed, sent, disk, snapshot, staged, readFirst>> /\ ~tipConfirmed'
      /\ \A s \in Slot : task'[s] # "writing"
  BY DEF ResumeFromCheckpoint, ResumeFromFeed, EnterReady, record, swarm, batch, Harmless, Beginning, Resumes
<1>2. Grows
  BY <1>1 DEF Grows, Taken
<1>3. RecordedIsMine'
  BY <1>1, <1>2, RecordedKeeps DEF Clear
<1>4. TakenInOrder' /\ FeedIsSent'
  BY <1>1, <1>2, GrowsKeeps DEF Clear, FeedIsSent, Taken
<1>5. SentIsMine'
  BY <1>1, SentBefore DEF Clear, SentIsMine
<1>6. PendingIsMine'
  <2>1. CASE ResumeFromCheckpoint
    <3>1. /\ disk \in Checkpoint /\ PendingRunsOn(disk) /\ HasCheckpoint
          /\ pending' = InFlight(disk) /\ entry' = disk.entries /\ nextIndex' = NextAfter(disk.index, InFlight(disk))
      BY <2>1 DEF ResumeFromCheckpoint, RunsOn, EnterReady, HasCheckpoint, Harmless, Kinds
    <3>2. \A s \in pending' : s < nextIndex'
      <4> DEFINE n == Cardinality(InFlight(disk))
      <4>1. n \in Nat /\ InFlight(disk) = (disk.index + 1) .. (disk.index + n) /\ disk.index \in Int
        BY <3>1, InFlightIsInterval, ConstantsAssumption DEF Checkpoint
      <4>2. nextIndex' = disk.index + 1 + n
        BY <3>1 DEF NextAfter
      <4> HIDE DEF n
      <4> QED
        BY <3>1, <4>1, <4>2
    <3>3. \A s \in pending' : s \in Slot /\ Mine(s, disk.entries[s])
      BY <3>1 DEF Clear, RecordedIsMine, RecordsMine, InFlight
    <3>4. \A s \in pending' : Mine(s, entry[s])'
      BY <1>1, <3>1, <3>3 DEF Mine, Above, Taken
    <3> QED
      BY <3>2, <3>4 DEF PendingIsMine
  <2>2. CASE ResumeFromFeed
    BY <2>2 DEF ResumeFromFeed, EnterReady, PendingIsMine
  <2> QED
    BY <2>1, <2>2
<1>7. WritingIsSent' /\ TipIsClear' /\ BatchIsClear'
  BY <1>1 DEF WritingIsSent, TipIsClear, BatchIsClear, Unresumed
<1> QED
  BY <1>3, <1>4, <1>5, <1>6, <1>7 DEF Clear

\* A batch has entries never sent before, and goes unread only where the other writer has nothing.
LEMMA StageClear ==
  ASSUME Harmless, Clear, Stage
  PROVE  Clear'
<1>1. /\ state = "ready" /\ state' = "ready" /\ nextIndex \in Nat /\ nextIndex' \in Nat /\ nextIndex < nextIndex'
      /\ (\A s \in staged' : s \in Slot /\ s >= nextIndex /\ s < nextIndex') /\ pending' = pending \cup staged'
      /\ \A s \in staged' : entry'[s] \in Bytes /\ entry'[s].boot = boot
      /\ \A s \in Slot : s < nextIndex => entry'[s] = entry[s]
      /\ (~readFirst' => tipConfirmed) /\ UNCHANGED <<boot, tipConfirmed, task, snapshot, disk, feed, sent>>
  BY StageHarmless DEF swarm, Harmless, Kinds
<1>2. Grows /\ \A s \in Slot : Above(s)' = Above(s) /\ Taken(s)' = Taken(s)
  BY <1>1 DEF Grows, Taken, Above
<1>3. RecordedIsMine'
  BY <1>1, <1>2, RecordedKeeps DEF Clear
<1>4. TakenInOrder' /\ FeedIsSent'
  BY <1>1, <1>2, GrowsKeeps DEF Clear, FeedIsSent
<1>5. \A s \in Slot : s \in Int
  BY ConstantsAssumption DEF Slot
<1>6. SentIsMine'
  <2>1. \A w \in sent : w[1] \in Slot
    BY DEF Harmless, Kinds
  <2>2. \A s \in Slot : s < nextIndex => s < nextIndex'
    BY <1>1, <1>5
  <2> QED
    BY <1>1, <2>1, <2>2 DEF Clear, SentIsMine
<1>7. PendingIsMine'
  <2>1. ASSUME NEW s \in pending PROVE s < nextIndex' /\ Mine(s, entry[s])'
    <3>1. s \in Slot /\ s < nextIndex /\ Mine(s, entry[s])
      BY <2>1 DEF Clear, PendingIsMine, Harmless, Kinds
    <3>2. entry'[s] = entry[s] /\ s < nextIndex'
      BY <1>1, <1>5, <3>1
    <3> QED
      BY <1>2, <3>1, <3>2, GrowsKeeps DEF Mine
  <2>2. ASSUME NEW s \in staged' PROVE s < nextIndex' /\ Mine(s, entry[s])'
    <3>1. /\ s \in Slot /\ s >= nextIndex /\ s < nextIndex'
          /\ entry'[s] \in Bytes /\ entry'[s].boot = boot /\ boot \in Int
      BY <1>1, ConstantsAssumption DEF Harmless, Kinds
    <3>2. boot >= 1
      BY <1>1 DEF Harmless, Beginning
    <3>3. entry'[s] \notin Foreign
      BY <3>1, <3>2 DEF Foreign
    <3>4. <<s, entry'[s]>> \notin sent
      BY <1>1, <1>5, <3>1 DEF Clear, SentIsMine
    <3> QED
      BY <1>1, <3>1, <3>3, <3>4 DEF Mine
  <2> QED
    BY <1>1, <2>1, <2>2 DEF PendingIsMine
<1>8. WritingIsSent'
  <2> SUFFICES ASSUME NEW s \in Slot, task'[s] = "writing"
               PROVE  s < nextIndex' /\ <<s, entry'[s]>> \in sent' /\ Above(s)'
    BY DEF WritingIsSent
  <2>1. s < nextIndex /\ <<s, entry[s]>> \in sent /\ Above(s)
    BY <1>1 DEF Clear, WritingIsSent
  <2> QED
    BY <1>1, <1>2, <1>5, <2>1
<1>9. TipIsClear'
  BY <1>1, <1>2, <1>5 DEF Clear, TipIsClear
<1>10. BatchIsClear'
  <2> SUFFICES ASSUME ~readFirst', NEW s \in staged' PROVE ~Taken(s)' /\ Above(s)'
    BY DEF BatchIsClear
  <2>1. \A t \in Slot : t >= nextIndex => ~Taken(t)
    BY <1>1 DEF Clear, TipIsClear
  <2> QED
    BY <1>1, <1>2, <1>5, <2>1 DEF Above
<1> QED
  BY <1>3, <1>4, <1>6, <1>7, <1>8, <1>9, <1>10 DEF Clear

\* A checkpoint write records what is pending.
LEMMA BeginClear ==
  ASSUME Harmless, Clear, BeginCheckpointWrite
  PROVE  Clear'
<1>0. PICK g \in BOOLEAN : snapshot' = Current(g)
  BY BeginHarmless
<1>1. /\ snapshot' = Current(g)
      /\ UNCHANGED <<boot, state, nextIndex, staged, readFirst, pending, entry, tipConfirmed, task, disk, feed, sent>>
  BY <1>0, BeginHarmless DEF swarm
<1>2. Grows /\ \A s \in Slot : Above(s)' = Above(s) /\ Taken(s)' = Taken(s)
  BY <1>1 DEF Grows, Taken, Above
<1>3. RecordsMine(Current(g))
  <2>1. \A s \in InFlight(Current(g)) : s \in pending /\ Current(g).entries[s] = entry[s]
    <3>1. /\ Current(g).index = confirmed
          /\ \A s \in Slot : Current(g).entries[s] = IF s <= confirmed \/ s \in pending THEN entry[s] ELSE NoEntry
      BY DEF Current, Records
    <3>2. \A s \in Slot : s > confirmed => ~(s <= confirmed)
      BY ConstantsAssumption DEF Slot, Harmless, Kinds
    <3> QED
      BY <3>1, <3>2 DEF InFlight
  <2> QED
    BY <2>1 DEF Clear, PendingIsMine, RecordsMine
<1>4. RecordedIsMine'
  <2>1. \A c : RecordsMine(c) => RecordsMine(c)'
    BY <1>2, RecordsKeep
  <2> PICK c : c = Current(g)
    OBVIOUS
  <2>2. RecordsMine(c)'
    BY <1>3, <2>1
  <2>3. HasCheckpoint' => RecordsMine(disk)'
    BY <1>1, <2>1 DEF Clear, RecordedIsMine, HasCheckpoint
  <2> QED
    BY <1>1, <2>2, <2>3 DEF RecordedIsMine
<1>5. TakenInOrder' /\ FeedIsSent' /\ SentIsMine'
  BY <1>1, <1>2, GrowsKeeps DEF Clear, FeedIsSent, SentIsMine
<1>6. PendingIsMine'
  BY <1>1, <1>2, GrowsKeeps DEF Clear, PendingIsMine, Harmless, Kinds
<1>7. WritingIsSent' /\ TipIsClear' /\ BatchIsClear'
  BY <1>1, <1>2 DEF Clear, WritingIsSent, TipIsClear, BatchIsClear, Harmless, Kinds
<1> QED
  BY <1>4, <1>5, <1>6, <1>7 DEF Clear

\* A batch written unread goes to slots that are clear.
LEMMA PersistedClear ==
  ASSUME Harmless, Clear, PersistWritten
  PROVE  /\ Clear'
         /\ \A w \in sent' \ sent : ~Taken(w[1])
<1>1. /\ staged' = {} /\ disk' = snapshot /\ snapshot # NoCheckpoint /\ snapshot' = NoCheckpoint
      /\ state # "down" /\ state' = state
      /\ \A s \in Slot : task'[s] = "writing" => task[s] = "writing" \/ <<s, entry[s]>> \in sent'
      /\ sent \subseteq sent'
      /\ \A w \in sent' \ sent : ~readFirst /\ w[1] \in staged /\ w[1] \in pending /\ w[2] = entry[w[1]]
      /\ \A s \in Slot : task'[s] = "writing" /\ task[s] # "writing" => ~readFirst /\ s \in staged /\ s \in pending
      /\ UNCHANGED <<boot, nextIndex, pending, entry, tipConfirmed, feed>>
  BY PersistedHarmless
<1>2. staged \subseteq Slot /\ pending \subseteq Slot
  BY DEF Harmless, Kinds
<1>3. ~readFirst => \A s \in staged : ~Taken(s) /\ Above(s)
  BY DEF Clear, BatchIsClear
<1>4. Grows /\ (\A s \in Slot : Taken(s)' = Taken(s) /\ Above(s)' = Above(s)) /\ \A w \in sent' \ sent : ~Taken(w[1])
  BY <1>1, <1>2, <1>3 DEF Grows, Taken, Above
<1>5. RecordedIsMine'
  BY <1>1, <1>4, RecordedKeeps DEF Clear
<1>6. TakenInOrder' /\ FeedIsSent'
  BY <1>1, <1>4, GrowsKeeps DEF Clear, FeedIsSent
<1>7. SentIsMine'
  <2>1. ASSUME NEW w \in sent' \ sent
        PROVE  w[1] < nextIndex /\ w[2] \in Bytes /\ w[2] \notin Foreign /\ w[2].boot <= boot
    BY <1>1 DEF Clear, PendingIsMine, Mine
  <2> QED
    BY <1>1, <2>1 DEF Clear, SentIsMine
<1>8. PendingIsMine'
  BY <1>1, <1>2, <1>4, GrowsKeeps DEF Clear, PendingIsMine
<1>9. WritingIsSent'
  <2> SUFFICES ASSUME NEW s \in Slot, task'[s] = "writing"
               PROVE  s < nextIndex /\ <<s, entry[s]>> \in sent' /\ Above(s)
    BY <1>1, <1>4 DEF WritingIsSent
  <2>1. CASE task[s] = "writing"
    BY <1>1, <2>1 DEF Clear, WritingIsSent
  <2>2. CASE task[s] # "writing"
    BY <1>1, <1>3, <2>2 DEF Clear, PendingIsMine
  <2> QED
    BY <2>1, <2>2
<1>10. TipIsClear' /\ BatchIsClear'
  BY <1>1, <1>4 DEF Clear, TipIsClear, BatchIsClear
<1> QED
  BY <1>4, <1>5, <1>6, <1>7, <1>8, <1>9, <1>10 DEF Clear

\* A slot read and found empty is clear, and so are all after it.
LEMMA ReadEmptyClear ==
  ASSUME Harmless, Clear, ~Misses, NEW s \in Slot, ReadEmpty(s)
  PROVE  /\ Clear'
         /\ \A w \in sent' \ sent : ~Taken(w[1])
<1>1. /\ feed[s] = NoEntry /\ s \in pending
      /\ task' = [task EXCEPT ![s] = "writing"] /\ sent' = sent \cup {<<s, entry[s]>>}
      /\ UNCHANGED <<boot, state, nextIndex, pending, entry, tipConfirmed, staged, readFirst, snapshot, disk, feed>>
  BY DEF ReadEmpty, Goes, StillDelivering, life, slots, batch, record
<1>2. s < nextIndex /\ entry[s] \in Bytes /\ entry[s] \notin Foreign /\ entry[s].boot <= boot
  BY <1>1 DEF Clear, PendingIsMine, Mine
<1>3. Above(s) /\ ~Taken(s)
  <2>1. NoEntry \notin Foreign
    BY SentinelAssumption, ConstantsAssumption DEF Foreign, Bytes
  <2>2. ASSUME NEW t \in Slot, t > s, Taken(t) PROVE FALSE
    <3>1. s < t
      BY <2>2, ConstantsAssumption DEF Slot
    <3> QED
      BY <1>1, <2>2, <3>1 DEF Clear, TakenInOrder
  <2> QED
    BY <1>1, <2>1, <2>2 DEF Above, Taken
<1>4. Grows /\ (\A t \in Slot : Taken(t)' = Taken(t) /\ Above(t)' = Above(t)) /\ \A w \in sent' \ sent : ~Taken(w[1])
  <2>1. \A w \in sent' \ sent : w[1] = s
    BY <1>1
  <2> QED
    BY <1>1, <1>3, <2>1 DEF Grows, Taken, Above
<1>5. RecordedIsMine'
  BY <1>1, <1>4, RecordedKeeps DEF Clear
<1>6. TakenInOrder' /\ FeedIsSent'
  BY <1>1, <1>4, GrowsKeeps DEF Clear, FeedIsSent
<1>7. SentIsMine'
  BY <1>1, <1>2 DEF Clear, SentIsMine
<1>8. PendingIsMine'
  BY <1>1, <1>4, GrowsKeeps DEF Clear, PendingIsMine, Harmless, Kinds
<1>9. WritingIsSent'
  BY <1>1, <1>2, <1>3, <1>4 DEF Clear, WritingIsSent, Harmless, Kinds
<1>10. TipIsClear' /\ BatchIsClear'
  BY <1>1, <1>4 DEF Clear, TipIsClear, BatchIsClear, Harmless, Kinds
<1> QED
  BY <1>4, <1>5, <1>6, <1>7, <1>8, <1>9, <1>10 DEF Clear

\* An entry of this server that was sent reaches its slot.
Reaches(s, e) ==
  /\ e \in Bytes /\ e \notin Foreign /\ <<s, e>> \in sent
  /\ feed' = [feed EXCEPT ![s] = e] /\ UNCHANGED <<boot, sent>>

\* The slot was this server's then, or becomes so.
LEMMA ReachesKeeps ==
  ASSUME Harmless, Clear, NEW s \in Slot, NEW e, Reaches(s, e)
  PROVE  Grows /\ TakenInOrder' /\ FeedIsSent' /\ \A t \in Slot : Taken(t)' => Taken(t)
<1>1. feed \in [Slot -> Bytes \cup {NoEntry}] /\ feed' = [feed EXCEPT ![s] = e] /\ e # NoEntry
  BY SentinelAssumption DEF Harmless, Kinds, Reaches
<1>2. feed'[s] = e /\ \A t \in Slot : t # s => feed'[t] = feed[t]
  BY <1>1
<1>3. \A t \in Slot : (Taken(t)' => Taken(t)) /\ (feed[t] # NoEntry => feed'[t] # NoEntry)
  BY <1>1, <1>2 DEF Taken, Reaches
<1>4. Grows
  BY <1>3 DEF Grows, Reaches
<1>5. FeedIsSent'
  <2> SUFFICES ASSUME NEW t \in Slot, feed'[t] # NoEntry, ~Taken(t)' PROVE <<t, feed'[t]>> \in sent'
    BY DEF FeedIsSent
  <2>1. CASE t = s
    BY <1>2, <2>1 DEF Reaches
  <2>2. CASE t # s
    BY <1>2, <2>2 DEF Clear, FeedIsSent, Taken, Reaches
  <2> QED
    BY <2>1, <2>2
<1> QED
  BY <1>3, <1>4, <1>5, GrowsKeeps DEF Clear

\* A slot that confirms has nothing of the other writer's after it.
LEMMA LandsClear ==
  ASSUME Harmless, Clear, NEW s \in Slot, ReadOwn(s) \/ WriteLands(s)
  PROVE  Clear' /\ sent' = sent
<1>1. /\ Lands(s) /\ task[s] # "none"
      /\ feed' \in [Slot -> Bytes \cup {NoEntry}] /\ feed' = [feed EXCEPT ![s] = entry[s]]
      /\ sent' = sent /\ ((feed[s] = entry[s] /\ s \in pending) \/ task[s] = "writing")
  BY DEF ReadOwn, WriteLands, StillDelivering, Harmless, Kinds, swarm
<1>2. /\ pending' \subseteq pending /\ \A t \in Slot : task'[t] = "writing" => task[t] = "writing"
      /\ UNCHANGED <<boot, state, nextIndex, entry, staged, readFirst, snapshot, disk>>
  BY <1>1, LandsHarmless
<1>3. s < nextIndex /\ Above(s) /\ Reaches(s, entry[s])
  <2>1. CASE task[s] = "writing"
    <3>1. s < nextIndex /\ <<s, entry[s]>> \in sent /\ Above(s)
      BY <2>1 DEF Clear, WritingIsSent
    <3>2. entry[s] \in Bytes /\ entry[s] \notin Foreign
      BY <3>1 DEF Clear, SentIsMine
    <3> QED
      BY <1>1, <1>2, <3>1, <3>2 DEF Reaches
  <2>2. CASE feed[s] = entry[s] /\ s \in pending
    <3>1. s < nextIndex /\ entry[s] \in Bytes /\ entry[s] \notin Foreign /\ (<<s, entry[s]>> \in sent => Above(s))
      BY <2>2 DEF Clear, PendingIsMine, Mine
    <3>2. <<s, entry[s]>> \in sent
      BY <2>2, <3>1, SentinelAssumption DEF Clear, FeedIsSent, Taken
    <3> QED
      BY <1>1, <1>2, <3>1, <3>2 DEF Reaches
  <2> QED
    BY <1>1, <2>1, <2>2
<1>4. Grows /\ TakenInOrder' /\ FeedIsSent' /\ \A t \in Slot : Taken(t)' => Taken(t)
  BY <1>3, ReachesKeeps
<1>5. RecordedIsMine'
  BY <1>2, <1>4, RecordedKeeps DEF Clear
<1>6. SentIsMine'
  BY <1>1, <1>2 DEF Clear, SentIsMine
<1>7. PendingIsMine'
  BY <1>2, <1>4, GrowsKeeps DEF Clear, PendingIsMine, Harmless, Kinds
<1>8. WritingIsSent'
  BY <1>1, <1>2, <1>4, GrowsKeeps DEF Clear, WritingIsSent
<1>9. TipIsClear'
  <2>1. \A t \in Slot : t >= nextIndex => t > s
    BY <1>3, ConstantsAssumption DEF Slot, Harmless, Kinds
  <2> QED
    BY <1>2, <1>3, <1>4, <2>1 DEF TipIsClear, Above
<1>10. BatchIsClear'
  BY <1>2, <1>4, GrowsKeeps DEF Clear, BatchIsClear, Harmless, Kinds
<1> QED
  BY <1>1, <1>4, <1>5, <1>6, <1>7, <1>8, <1>9, <1>10 DEF Clear

\* Nor does a late arrival put anything of the other writer's anywhere.
LEMMA ArriveClear ==
  ASSUME Harmless, Clear, Arrive
  PROVE  Clear' /\ sent' = sent
<1>1. PICK w \in sent : feed' = [feed EXCEPT ![w[1]] = w[2]]
  BY DEF Arrive
<1>2. w[1] \in Slot /\ Reaches(w[1], w[2])
  <2>1. w \in Slot \X (Bytes \cup {NoEntry}) /\ w = <<w[1], w[2]>>
    BY DEF Harmless, Kinds
  <2>2. w[2] \in Bytes /\ w[2] \notin Foreign
    BY DEF Clear, SentIsMine
  <2> QED
    BY <1>1, <2>1, <2>2 DEF Arrive, life, Reaches
<1>3. Grows /\ TakenInOrder' /\ FeedIsSent' /\ \A t \in Slot : Taken(t)' => Taken(t)
  BY <1>2, ReachesKeeps
<1>4. UNCHANGED <<boot, state, nextIndex, pending, entry, tipConfirmed, staged, readFirst, task, snapshot, disk, sent>>
  BY DEF Arrive, life, slots, batch, record
<1>5. RecordedIsMine'
  BY <1>3, <1>4, RecordedKeeps DEF Clear
<1>6. PendingIsMine'
  BY <1>3, <1>4, GrowsKeeps DEF Clear, PendingIsMine, Harmless, Kinds
<1>7. WritingIsSent' /\ SentIsMine'
  BY <1>3, <1>4, GrowsKeeps DEF Clear, WritingIsSent, SentIsMine
<1>8. TipIsClear' /\ BatchIsClear'
  BY <1>3, <1>4, GrowsKeeps DEF Clear, TipIsClear, BatchIsClear, Harmless, Kinds
<1> QED
  BY <1>3, <1>4, <1>5, <1>6, <1>7, <1>8 DEF Clear

\* The other writer takes a slot while nothing recorded waits to be sent.
LEMMA OtherWritesClear ==
  ASSUME Harmless, Clear, AtRestOnly, OtherWrites
  PROVE  Clear' /\ sent' = sent
<1>1. PICK s \in Slot, e \in Foreign :
        feed[s] = NoEntry /\ (\A t \in 0 .. s - 1 : feed[t] # NoEntry) /\ feed' = [feed EXCEPT ![s] = e]
  BY DEF OtherWrites
<1>2. /\ state = "down" /\ (HasCheckpoint => InFlight(disk) = {})
      /\ UNCHANGED <<boot, state, nextIndex, pending, entry, tipConfirmed, staged, readFirst, task,
                     snapshot, disk, sent>>
  BY DEF OtherWrites, Meddles, AtRest, life, slots, batch, record
<1>3. Unresumed /\ ~tipConfirmed
  BY <1>2 DEF Harmless, Beginning, Resumes
<1>4. e # NoEntry /\ feed'[s] = e /\ \A t \in Slot : t # s => feed'[t] = feed[t]
  BY <1>1, SentinelAssumption, ConstantsAssumption DEF Foreign, Bytes, Harmless, Kinds
<1>5. TakenInOrder'
  <2> SUFFICES ASSUME NEW t \in Slot, Taken(t)', NEW r \in Slot, r < t PROVE feed'[r] # NoEntry
    BY DEF TakenInOrder
  <2>1. CASE t = s
    <3>1. r \in 0 .. s - 1
      BY <2>1, ConstantsAssumption DEF Slot
    <3>2. r # s
      BY <2>1, ConstantsAssumption DEF Slot
    <3> QED
      BY <1>1, <1>4, <3>1, <3>2
  <2>2. CASE t # s
    BY <1>4, <2>2 DEF Clear, TakenInOrder, Taken
  <2> QED
    BY <2>1, <2>2
<1>6. FeedIsSent'
  <2> SUFFICES ASSUME NEW t \in Slot, feed'[t] # NoEntry, ~Taken(t)' PROVE <<t, feed'[t]>> \in sent'
    BY DEF FeedIsSent
  <2>1. t # s
    BY <1>4 DEF Taken
  <2> QED
    BY <1>2, <1>4, <2>1 DEF Clear, FeedIsSent, Taken
<1>7. SentIsMine'
  BY <1>2 DEF Clear, SentIsMine
<1>8. RecordedIsMine'
  BY <1>2, <1>3 DEF RecordedIsMine, RecordsMine, HasCheckpoint, InFlight, Unresumed
<1>9. PendingIsMine' /\ WritingIsSent' /\ TipIsClear' /\ BatchIsClear'
  BY <1>2, <1>3 DEF PendingIsMine, WritingIsSent, TipIsClear, BatchIsClear, Unresumed
<1> QED
  BY <1>2, <1>5, <1>6, <1>7, <1>8, <1>9 DEF Clear

\* A checkpoint lost or damaged records nothing.
LEMMA HarmClear ==
  ASSUME Harmless, Clear, CheckpointHarmed
  PROVE  Clear' /\ sent' = sent
<1>1. ~HasCheckpoint' /\ UNCHANGED <<life, loop, batch, slots, task, chain, snapshot, swarm>>
  BY HarmHarmless
<1>2. Grows /\ \A s \in Slot : Above(s)' = Above(s) /\ Taken(s)' = Taken(s)
  BY <1>1 DEF Grows, Taken, Above, life, swarm
<1>3. RecordedIsMine'
  BY <1>1, <1>2, RecordsKeep DEF Clear, RecordedIsMine
<1>4. TakenInOrder' /\ FeedIsSent' /\ SentIsMine'
  BY <1>1, <1>2, GrowsKeeps DEF Clear, FeedIsSent, SentIsMine, life, slots, swarm
<1>5. PendingIsMine'
  BY <1>1, <1>2, GrowsKeeps DEF Clear, PendingIsMine, Harmless, Kinds, slots
<1>6. WritingIsSent' /\ TipIsClear' /\ BatchIsClear'
  BY <1>1, <1>2 DEF Clear, WritingIsSent, TipIsClear, BatchIsClear, Harmless, Kinds, slots, batch, swarm
<1> QED
  BY <1>1, <1>3, <1>4, <1>5, <1>6 DEF Clear, swarm

\* It holds at first.
LEMMA ClearInit == Init => Clear
<1> SUFFICES ASSUME Init PROVE Clear
  OBVIOUS
<1>1. \A s \in Slot : feed[s] = NoEntry /\ task[s] = "none" /\ ~Taken(s)
  BY SentinelAssumption, ConstantsAssumption DEF Init, NoSlots, NoTasks, Taken, Foreign, Bytes
<1> QED
  BY <1>1 DEF Init, Clear, TakenInOrder, FeedIsSent, SentIsMine, PendingIsMine, WritingIsSent, RecordedIsMine,
              TipIsClear, BatchIsClear, HasCheckpoint

\* Every step keeps it, and sends nothing to a slot of the other writer.
LEMMA ClearStep ==
  ASSUME AtRestOnly, ~Misses, Harmless, Clear, [OtherNext]_vars
  PROVE  Clear' /\ \A w \in sent' \ sent : feed[w[1]] \notin Foreign
<1>1. CASE \/ Drain \/ Stop \/ (\E m \in Message : Offer(m)) \/ HistorySaved \/ HistoryNotSaved
           \/ ResumeBlocks \/ ResumeFails \/ ResumeRetry \/ LoopResumes \/ LoopReturns \/ Pause \/ PersistRetry
           \/ PersistFails \/ (\E s \in Slot : ConfirmationRecorded(s)) \/ ResumeRecorded \/ HistoryRecorded
           \/ \E s \in Slot : ReadForeign(s) \/ ReadFails(s) \/ ReadTooLate(s) \/ WriteFails(s) \/ Retry(s)
  <2>1. Settles
    BY <1>1, IntakeSettles, ResumeSettles, WriteSettles, DeliverySettles
  <2> QED
    BY <2>1, CalmIsClear DEF Settles, Calm, swarm
<1>2. CASE Start
  BY <1>2, StartClear DEF Start, swarm
<1>3. CASE Crash \/ Exit
  BY <1>3, StopsClear, StopsHarmless DEF swarm
<1>4. CASE ResumeFromCheckpoint \/ ResumeFromFeed
  BY <1>4, ResumedClear DEF ResumeFromCheckpoint, ResumeFromFeed, EnterReady, swarm
<1>5. CASE Stage
  BY <1>5, StageClear, StageHarmless DEF swarm
<1>6. CASE BeginCheckpointWrite
  BY <1>6, BeginClear, BeginHarmless DEF swarm
<1>7. CASE PersistWritten
  BY <1>7, PersistedClear DEF Taken
<1>8. CASE \E s \in Slot : ReadOwn(s) \/ WriteLands(s)
  BY <1>8, LandsClear
<1>9. CASE \E s \in Slot : ReadEmpty(s)
  BY <1>9, ReadEmptyClear DEF Taken
<1>10. CASE Arrive
  BY <1>10, ArriveClear
<1>11. CASE OtherWrites
  BY <1>11, OtherWritesClear
<1>12. CASE CheckpointHarmed
  BY <1>12, HarmClear
<1>13. CASE UNCHANGED vars
  <2>1. UNCHANGED <<life, saving, loop, batch, intake, slots, task, record, swarm>>
    BY <1>13 DEF vars
  <2>2. \A s \in Slot : Taken(s)' = Taken(s) /\ Above(s)' = Above(s)
    BY <2>1 DEF Taken, Above, swarm
  <2>3. Grows
    BY <2>1, <2>2 DEF Grows, life, swarm
  <2>4. RecordedIsMine'
    BY <2>1, <2>3, RecordedKeeps DEF Clear, record
  <2>5. TakenInOrder' /\ FeedIsSent' /\ SentIsMine'
    BY <2>1, <2>2, <2>3, GrowsKeeps DEF Clear, FeedIsSent, SentIsMine, life, slots, swarm
  <2>6. PendingIsMine'
    BY <2>1, <2>3, GrowsKeeps DEF Clear, PendingIsMine, Harmless, Kinds, slots
  <2>7. WritingIsSent' /\ TipIsClear' /\ BatchIsClear'
    BY <2>1, <2>2 DEF Clear, WritingIsSent, TipIsClear, BatchIsClear, Harmless, Kinds, slots, batch, swarm
  <2> QED
    BY <2>1, <2>4, <2>5, <2>6, <2>7 DEF Clear, swarm
<1> QED
  BY <1>1, <1>2, <1>3, <1>4, <1>5, <1>6, <1>7, <1>8, <1>9, <1>10, <1>11, <1>12, <1>13
     DEF OtherNext, Next, Resume, Loop, Checkpointing, Deliver

(* The server stops rather than overwrite: while every read finds what is there, and the other writer and the operator
   come only while the checkpoint has nothing in flight, nothing is sent to a slot the other writer filled. *)
THEOREM NothingSentOver ==
  ASSUME AtRestOnly, ~Misses
  PROVE  OtherSpec => NeverSendsOver
<1>1. Harmless /\ Clear /\ [OtherNext]_vars => Clear'
  BY ClearStep
<1>2. Harmless /\ Clear /\ [OtherNext]_vars => [\A w \in sent' \ sent : feed[w[1]] \notin Foreign]_vars
  BY ClearStep
<1>3. OtherSpec => []Clear
  BY <1>1, ClearInit, HarmlessHolds, PTL DEF OtherSpec
<1> QED
  BY <1>2, <1>3, HarmlessHolds, PTL DEF OtherSpec, NeverSendsOver

-----------------------------------------------------------------------------
(* Who waits for a checkpoint write, whatever blocks, stops or harms the chat meanwhile *)

\* Those a chain of writes will answer, and that it answers each of them once.
Asking(c) == {c[i] : i \in 1 .. Len(c)}
Once(c) == \A i, j \in 1 .. Len(c) : c[i] = c[j] => i = j

\* Who awaits a write: all but recordHistory(), which the saver does not wait for.
Waits(r) ==
  \/ r = Persist /\ loop = "persisting"
  \/ r = Record /\ loop = "recording"
  \/ r \in Slot /\ task[r] = "recording"

Waiter == Requester \ {History}

EachHasItsWrite ==
  /\ chain \in Seq(Requester) /\ Once(chain)
  /\ \A r \in Waiter : Waits(r) <=> r \in Asking(chain)
  /\ snapshot # NoCheckpoint => chain # <<>>

\* A batch is of slots that were given out and that nothing is done with yet.
BatchIsFresh ==
  /\ \A s \in staged : s < nextIndex
  /\ \A s \in Slot : task[s] # "none" => s < nextIndex /\ s \notin staged

Answered == EachHasItsWrite /\ BatchIsFresh

\* One more who asks.
LEMMA OnceMore ==
  ASSUME NEW c \in Seq(Requester), Once(c), NEW r \in Requester, r \notin Asking(c)
  PROVE  /\ Append(c, r) \in Seq(Requester) /\ Append(c, r) # <<>> /\ Once(Append(c, r))
         /\ Asking(Append(c, r)) = Asking(c) \cup {r}
<1> PICK d : d = Append(c, r)
  OBVIOUS
<1>1. /\ d \in Seq(Requester) /\ d # <<>> /\ Len(c) \in Nat /\ Len(d) = Len(c) + 1 /\ d[Len(c) + 1] = r
      /\ \A i \in 1 .. Len(c) : d[i] = c[i]
  BY AppendProperties, LenProperties
<1>2. \A i \in 1 .. Len(d) : i \in 1 .. Len(c) \/ i = Len(c) + 1
  BY <1>1
<1>3. \A i \in 1 .. Len(c) : i \in 1 .. Len(d) /\ c[i] # r
  BY <1>1 DEF Asking
<1>4. Len(c) + 1 \in 1 .. Len(d)
  BY <1>1
<1>5. Once(d)
  BY <1>1, <1>2, <1>3 DEF Once
<1>6. Asking(d) = Asking(c) \cup {r}
  BY <1>1, <1>2, <1>3, <1>4 DEF Asking
<1> QED
  BY <1>1, <1>5, <1>6

\* The first is answered.
LEMMA OnceLess ==
  ASSUME NEW c \in Seq(Requester), Once(c), c # <<>>
  PROVE  /\ Tail(c) \in Seq(Requester) /\ Once(Tail(c)) /\ Head(c) \in Asking(c)
         /\ Asking(Tail(c)) = Asking(c) \ {Head(c)}
<1> PICK d : d = Tail(c)
  OBVIOUS
<1>1. /\ d \in Seq(Requester) /\ Len(c) \in Nat \ {0} /\ Len(d) = Len(c) - 1 /\ Head(c) = c[1]
      /\ \A i \in 1 .. Len(d) : d[i] = c[i + 1]
  BY HeadTailProperties, EmptySeq
<1>2. \A i \in 1 .. Len(d) : i + 1 \in 1 .. Len(c) /\ i + 1 # 1 /\ d[i] = c[i + 1]
  BY <1>1
<1>3. \A i \in 1 .. Len(c) : i = 1 \/ (i - 1 \in 1 .. Len(d) /\ (i - 1) + 1 = i)
  BY <1>1
<1>4. 1 \in 1 .. Len(c)
  BY <1>1
<1>5. Once(d)
  <2> SUFFICES ASSUME NEW i \in 1 .. Len(d), NEW j \in 1 .. Len(d), d[i] = d[j] PROVE i = j
    BY DEF Once
  <2>1. i + 1 = j + 1
    BY <1>2 DEF Once
  <2> QED
    BY <2>1
<1>6. Asking(d) = Asking(c) \ {Head(c)}
  <2>1. \A i \in 1 .. Len(d) : d[i] \in Asking(c) /\ d[i] # c[1]
    BY <1>2, <1>4 DEF Once, Asking
  <2>2. \A i \in 1 .. Len(c) : c[i] # c[1] => c[i] \in Asking(d)
    <3> SUFFICES ASSUME NEW i \in 1 .. Len(c), c[i] # c[1] PROVE c[i] \in Asking(d)
      OBVIOUS
    <3>1. PICK k \in 1 .. Len(d) : k + 1 = i
      BY <1>3
    <3>2. d[k] = c[i]
      BY <1>2, <3>1
    <3> QED
      BY <3>2 DEF Asking
  <2>3. Head(c) = c[1]
    BY <1>1
  <2>4. \A x \in Asking(c) : \E i \in 1 .. Len(c) : x = c[i]
    BY DEF Asking
  <2>5. \A x \in Asking(d) : \E i \in 1 .. Len(d) : x = d[i]
    BY DEF Asking
  <2> QED
    BY <2>1, <2>2, <2>3, <2>4, <2>5
<1>7. Head(c) \in Asking(c)
  BY <1>1, <1>4 DEF Asking
<1> QED
  BY <1>1, <1>5, <1>6, <1>7

\* A step that asks for nothing and answers nothing.
LEMMA NoneAsks ==
  ASSUME EachHasItsWrite, chain' = chain, snapshot' = snapshot \/ chain # <<>>,
         \A r \in Waiter : Waits(r)' <=> Waits(r)
  PROVE  EachHasItsWrite'
BY DEF EachHasItsWrite

\* A step that asks for a write.
LEMMA OneAsks ==
  ASSUME EachHasItsWrite, NEW r \in Requester, r \notin Asking(chain), chain' = Append(chain, r), snapshot' = snapshot,
         \A q \in Waiter : Waits(q)' <=> Waits(q) \/ q = r
  PROVE  EachHasItsWrite'
<1>1. /\ chain' \in Seq(Requester) /\ chain' # <<>> /\ Once(chain') /\ Asking(chain') = Asking(chain) \cup {r}
  BY OnceMore DEF EachHasItsWrite
<1> PICK d : d = chain'
  OBVIOUS
<1>2. \A q \in Waiter : Waits(q)' <=> q \in Asking(d)
  BY <1>1 DEF EachHasItsWrite
<1> QED
  BY <1>1, <1>2 DEF EachHasItsWrite

\* A step that answers the first.
LEMMA OneIsAnswered ==
  ASSUME EachHasItsWrite, chain # <<>>, chain' = Tail(chain), snapshot' = NoCheckpoint,
         \A q \in Waiter : Waits(q)' <=> Waits(q) /\ q # Head(chain)
  PROVE  EachHasItsWrite'
<1>1. /\ chain' \in Seq(Requester) /\ Once(chain') /\ Asking(chain') = Asking(chain) \ {Head(chain)}
  BY OnceLess DEF EachHasItsWrite
<1> PICK d : d = chain'
  OBVIOUS
<1>2. \A q \in Waiter : Waits(q)' <=> q \in Asking(d)
  BY <1>1 DEF EachHasItsWrite
<1> QED
  BY <1>1, <1>2 DEF EachHasItsWrite

\* The numbers of the requesters are their own.
LEMMA WaitersAreDistinct ==
  /\ Persist \in Waiter /\ Record \in Waiter /\ Slot \subseteq Waiter
  /\ Persist \in Requester /\ Record \in Requester /\ History \in Requester /\ Slot \subseteq Requester
  /\ Persist \notin Slot /\ Record \notin Slot /\ History \notin Slot
  /\ Persist # Record /\ Persist # History /\ Record # History
  /\ \A r \in Waiter : r = Persist \/ r = Record \/ r \in Slot
BY ConstantsAssumption DEF Persist, Record, History, Slot, Requester, Waiter

\* Steps that make nobody wait and touch no slot not touched before.
Quiet ==
  /\ chain' = chain /\ (snapshot' = snapshot \/ chain # <<>>)
  /\ loop' = "persisting" <=> loop = "persisting"
  /\ loop' = "recording" <=> loop = "recording"
  /\ \A s \in Slot : /\ task'[s] = "recording" <=> task[s] = "recording"
                     /\ task'[s] # "none" => task[s] # "none"
  /\ staged' \subseteq staged /\ nextIndex' = nextIndex

\* Such a step keeps the invariant.
LEMMA QuietKeeps == ASSUME Harmless, Answered, Quiet PROVE Answered'
<1>1. \A r \in Waiter : Waits(r)' <=> Waits(r)
  BY DEF Quiet, Waits
<1>2. EachHasItsWrite'
  BY <1>1, NoneAsks DEF Answered, Quiet
<1>3. BatchIsFresh'
  BY DEF Answered, BatchIsFresh, Quiet
<1> QED
  BY <1>2, <1>3 DEF Answered

\* Intake and a stop wake only a loop that is paused.
LEMMA IntakeIsQuiet ==
  ASSUME Drain \/ Stop \/ (\E m \in Message : Offer(m)) \/ HistoryNotSaved
  PROVE  Quiet
BY WokenIs DEF Drain, Stop, Offer, HistoryNotSaved, Quiet, batch, slots, record

\* Starting, blocking and looking for work ask for no write.
LEMMA LoopIsQuiet ==
  ASSUME Harmless, \/ Start \/ ResumeBlocks \/ ResumeFails \/ ResumeRetry
                   \/ LoopResumes \/ LoopReturns \/ Pause \/ BeginCheckpointWrite
  PROVE  Quiet
<1>1. CASE Start
  BY <1>1 DEF Start, Harmless, Beginning, Quiet, batch, slots, record
<1>2. CASE ResumeBlocks \/ ResumeFails \/ ResumeRetry
  BY <1>2 DEF ResumeBlocks, Block, ResumeFails, ResumeRetry, Quiet, batch, slots, record
<1>3. CASE LoopResumes \/ LoopReturns \/ Pause
  BY <1>3 DEF LoopResumes, LoopReturns, Pause, Quiet, batch, slots, record
<1>4. CASE BeginCheckpointWrite
  BY <1>4 DEF BeginCheckpointWrite, Quiet, batch, slots
<1> QED
  BY <1>1, <1>2, <1>3, <1>4

\* Nor does a read or a write that confirms nothing.
LEMMA DeliveryIsQuiet ==
  ASSUME Harmless, NEW s \in Slot,
         ReadEmpty(s) \/ ReadForeign(s) \/ ReadFails(s) \/ ReadTooLate(s) \/ WriteFails(s) \/ Retry(s)
  PROVE  Quiet
<1>1. /\ task[s] \in {"reading", "writing", "backoff"} /\ chain' = chain /\ snapshot' = snapshot /\ loop' = loop
      /\ UNCHANGED <<staged, nextIndex>>
  BY DEF ReadEmpty, ReadForeign, Block, ReadFails, ReadTooLate, WriteFails, Retry, batch, slots, record
<1>2. \E where \in {"none", "reading", "writing", "backoff"} : task' = [task EXCEPT ![s] = where]
  BY DEF ReadEmpty, ReadForeign, ReadFails, ReadTooLate, WriteFails, Retry, Goes
<1> QED
  BY <1>1, <1>2 DEF Quiet, Harmless, Kinds

\* Nor does what happens outside the process.
LEMMA SwarmIsQuiet ==
  ASSUME Arrive \/ OtherWrites \/ CheckpointHarmed \/ UNCHANGED vars
  PROVE  Quiet
BY DEF Arrive, OtherWrites, CheckpointHarmed, vars, Quiet, batch, slots, record

\* A process that ends leaves nobody waiting.
LEMMA StopsAnswered == ASSUME Harmless, Crash \/ Exit PROVE Answered'
<1>1. /\ chain' = <<>> /\ snapshot' = NoCheckpoint /\ loop' = "returned" /\ staged' = {}
      /\ \A s \in Slot : task'[s] = "none"
  BY DEF Crash, Exit, PowerOff, NoTasks
<1>2. Len(<<>>) = 0 /\ <<>> \in Seq(Requester) /\ 1 .. 0 = {}
  BY EmptySeq
<1>3. Asking(<<>>) = {} /\ Once(<<>>)
  BY <1>2 DEF Asking, Once
<1>4. \A r \in Waiter : ~Waits(r)'
  BY <1>1 DEF Waits
<1>5. EachHasItsWrite'
  BY <1>1, <1>2, <1>3, <1>4 DEF EachHasItsWrite
<1> QED
  BY <1>1, <1>5 DEF Answered, BatchIsFresh

\* What resumes had nobody waiting before.
LEMMA ResumedAnswered == ASSUME Harmless, Answered, ResumeFromCheckpoint \/ ResumeFromFeed PROVE Answered'
<1>1. /\ loop = "resuming" /\ staged' = {} /\ snapshot' = snapshot
      /\ \A s \in Slot : task[s] = "none" /\ task'[s] # "recording"
  BY DEF ResumeFromCheckpoint, ResumeFromFeed, EnterReady, record, batch, Harmless, Beginning, Resumes, Unresumed
<1>2. \A s \in Slot : task'[s] # "none" => s < nextIndex'
  <2>1. CASE ResumeFromCheckpoint
    <3>1. disk \in Checkpoint /\ PendingRunsOn(disk)
      BY <2>1 DEF ResumeFromCheckpoint, RunsOn, HasCheckpoint, Harmless, Kinds
    <3> DEFINE n == Cardinality(InFlight(disk))
    <3>2. n \in Nat /\ InFlight(disk) = (disk.index + 1) .. (disk.index + n) /\ disk.index \in Int
      BY <3>1, InFlightIsInterval, ConstantsAssumption DEF Checkpoint
    <3>3. nextIndex' = disk.index + 1 + n /\ \A s \in Slot : task'[s] # "none" => s \in InFlight(disk)
      BY <2>1 DEF ResumeFromCheckpoint, EnterReady, NextAfter
    <3> HIDE DEF n
    <3> QED
      BY <3>2, <3>3
  <2>2. CASE ResumeFromFeed
    BY <2>2 DEF ResumeFromFeed, EnterReady
  <2> QED
    BY <2>1, <2>2
<1>3. BatchIsFresh'
  BY <1>1, <1>2 DEF BatchIsFresh
<1>4. CASE ResumeFromCheckpoint
  <2>1. chain' = chain /\ loop' = "turn"
    BY <1>4 DEF ResumeFromCheckpoint, record
  <2>2. \A r \in Waiter : Waits(r)' <=> Waits(r)
    BY <1>1, <2>1 DEF Waits
  <2> QED
    BY <1>1, <1>3, <2>1, <2>2, NoneAsks DEF Answered
<1>5. CASE ResumeFromFeed
  <2>1. chain' = Append(chain, Record) /\ loop' = "recording"
    BY <1>5 DEF ResumeFromFeed
  <2>2. \A r \in Waiter : ~Waits(r) /\ (Waits(r)' <=> r = Record)
    BY <1>1, <2>1, WaitersAreDistinct DEF Waits
  <2>3. Record \notin Asking(chain)
    BY <2>2, WaitersAreDistinct DEF Answered, EachHasItsWrite
  <2> QED
    BY <1>1, <1>3, <2>1, <2>2, <2>3, WaitersAreDistinct, OneAsks DEF Answered
<1> QED
  BY <1>4, <1>5

\* persist() asks for the write of its batch, and for one more when that failed.
LEMMA PersistAnswered == ASSUME Harmless, Answered, Stage \/ PersistRetry PROVE Answered'
<1>1. /\ loop \in {"turn", "persistBackoff"} /\ loop' \in {"turn", "persisting"} /\ snapshot' = snapshot /\ task' = task
      /\ chain' = IF loop' = "persisting" THEN Append(chain, Persist) ELSE chain
  BY DEF Stage, PersistRetry
<1>2. BatchIsFresh'
  <2>1. CASE Stage
    <3>1. /\ nextIndex \in Nat /\ nextIndex' \in Nat /\ nextIndex < nextIndex'
          /\ \A s \in staged' : s \in Slot /\ s >= nextIndex /\ s < nextIndex'
      BY <2>1, StageHarmless DEF Harmless, Kinds
    <3>2. \A s \in Slot : s < nextIndex => s < nextIndex' /\ s \notin staged'
      BY <3>1, ConstantsAssumption DEF Slot
    <3> QED
      BY <1>1, <3>1, <3>2 DEF Answered, BatchIsFresh
  <2>2. CASE PersistRetry
    BY <1>1, <2>2 DEF PersistRetry, slots, Answered, BatchIsFresh
  <2> QED
    BY <2>1, <2>2
<1>3. ~Waits(Persist) /\ Persist \notin Asking(chain)
  BY <1>1, WaitersAreDistinct DEF Waits, Answered, EachHasItsWrite
<1>4. CASE loop' = "persisting"
  <2>1. \A q \in Waiter : Waits(q)' <=> Waits(q) \/ q = Persist
    BY <1>1, <1>4 DEF Waits
  <2> QED
    BY <1>1, <1>2, <1>3, <1>4, <2>1, WaitersAreDistinct, OneAsks DEF Answered
<1>5. CASE loop' = "turn"
  <2>1. \A q \in Waiter : Waits(q)' <=> Waits(q)
    BY <1>1, <1>5 DEF Waits
  <2> QED
    BY <1>1, <1>2, <1>5, <2>1, NoneAsks DEF Answered
<1> QED
  BY <1>1, <1>4, <1>5

\* A history file saved asks once at a time.
LEMMA SavedAnswered == ASSUME Harmless, Answered, HistorySaved PROVE Answered'
<1>1. /\ chain' \in {chain, Append(chain, History)} /\ History \notin Asking(chain)
      /\ UNCHANGED <<loop, task, snapshot, staged, nextIndex>>
  BY DEF HistorySaved, Asking, batch, slots
<1>2. \A r \in Waiter : (Waits(r)' <=> Waits(r)) /\ r # History
  BY <1>1 DEF Waits, Waiter
<1>3. BatchIsFresh'
  BY <1>1 DEF Answered, BatchIsFresh
<1>4. CASE chain' = chain
  BY <1>1, <1>2, <1>3, <1>4, NoneAsks DEF Answered
<1>5. CASE chain' = Append(chain, History)
  BY <1>1, <1>2, <1>3, <1>5, WaitersAreDistinct, OneAsks DEF Answered
<1> QED
  BY <1>1, <1>4, <1>5

\* A delivery that confirms asks once, when its read or write is over.
LEMMA LandsAnswered ==
  ASSUME Harmless, Answered, NEW s \in Slot, ReadOwn(s) \/ WriteLands(s)
  PROVE  Answered'
<1>1. /\ task[s] \in {"reading", "writing"} /\ task \in [Slot -> TaskState]
      /\ UNCHANGED <<loop, snapshot, staged, nextIndex>>
  BY DEF ReadOwn, WriteLands, Lands, batch, Harmless, Kinds
<1>2. \/ chain' = chain /\ task' = [task EXCEPT ![s] = "none"]
      \/ chain' = Append(chain, s) /\ task' = [task EXCEPT ![s] = "recording"]
  BY DEF ReadOwn, WriteLands, Lands, Goes
<1>3. BatchIsFresh'
  BY <1>1, <1>2 DEF Answered, BatchIsFresh
<1>4. CASE chain' = chain /\ task' = [task EXCEPT ![s] = "none"]
  <2>1. \A r \in Waiter : Waits(r)' <=> Waits(r)
    BY <1>1, <1>4 DEF Waits
  <2> QED
    BY <1>1, <1>3, <1>4, <2>1, NoneAsks DEF Answered
<1>5. CASE chain' = Append(chain, s) /\ task' = [task EXCEPT ![s] = "recording"]
  <2>1. \A r \in Waiter : Waits(r)' <=> Waits(r) \/ r = s
    BY <1>1, <1>5 DEF Waits
  <2>2. ~Waits(s)
    BY <1>1, WaitersAreDistinct DEF Waits
  <2>3. s \notin Asking(chain)
    BY <2>2, WaitersAreDistinct DEF Answered, EachHasItsWrite
  <2> QED
    BY <1>1, <1>3, <1>5, <2>1, <2>3, WaitersAreDistinct, OneAsks DEF Answered
<1> QED
  BY <1>2, <1>4, <1>5

\* A write that ends answers the one who asked for it, who is still waiting, and nobody else.
LEMMA EndsAnswered ==
  ASSUME Harmless, Answered, Checkpointing, ~BeginCheckpointWrite
  PROVE  Answered'
<1> DEFINE h == Head(chain)
<1>1. chain # <<>> /\ chain' = Tail(chain) /\ snapshot' = NoCheckpoint /\ nextIndex' = nextIndex
  BY DEF Checkpointing, PersistWritten, PersistFails, ConfirmationRecorded, ResumeRecorded, HistoryRecorded,
         CheckpointWriteEnds, slots
<1>2. (h \in Waiter => Waits(h)) /\ task \in [Slot -> TaskState]
  BY <1>1, OnceLess DEF Answered, EachHasItsWrite, Harmless, Kinds
<1> HIDE DEF h
<1>3. (\A q \in Waiter : Waits(q)' <=> Waits(q) /\ q # h) /\ BatchIsFresh'
  <2>1. CASE PersistWritten
    <3>1. /\ h = Persist /\ loop' = "turn" /\ staged' = {}
          /\ \E live \in SUBSET staged :
               task' = [s \in Slot |-> IF s \notin live THEN task[s] ELSE IF readFirst THEN "reading" ELSE "writing"]
      BY <2>1 DEF PersistWritten, h
    <3>2. loop = "persisting"
      BY <1>2, <3>1, WaitersAreDistinct DEF Waits
    <3>3. staged \subseteq Slot /\ \A s \in staged : task[s] = "none" /\ s < nextIndex
      BY DEF Answered, BatchIsFresh, Harmless, Kinds
    <3>4. \A s \in Slot : /\ task'[s] = "recording" <=> task[s] = "recording"
                          /\ task'[s] # "none" => task[s] # "none" \/ s \in staged
      BY <3>1, <3>3
    <3>5. \A q \in Waiter : Waits(q)' <=> Waits(q) /\ q # h
      BY <3>1, <3>2, <3>4, WaitersAreDistinct DEF Waits
    <3>6. BatchIsFresh'
      BY <1>1, <3>1, <3>3, <3>4 DEF Answered, BatchIsFresh
    <3> QED
      BY <3>5, <3>6
  <2>2. CASE PersistFails
    <3>1. h = Persist /\ loop' = "persistBackoff" /\ UNCHANGED <<task, staged>>
      BY <2>2 DEF PersistFails, h, batch
    <3>2. loop = "persisting"
      BY <1>2, <3>1, WaitersAreDistinct DEF Waits
    <3> QED
      BY <1>1, <3>1, <3>2, WaitersAreDistinct DEF Waits, Answered, BatchIsFresh
  <2>3. CASE \E s \in Slot : ConfirmationRecorded(s)
    <3>1. PICK s \in Slot : h = s /\ task' = [task EXCEPT ![s] = "none"] /\ loop' = Woken /\ staged' = staged
      BY <2>3 DEF ConfirmationRecorded, h, batch
    <3>2. /\ loop' = "persisting" <=> loop = "persisting"
          /\ loop' = "recording" <=> loop = "recording"
      BY <3>1, WokenIs
    <3> QED
      BY <1>1, <1>2, <3>1, <3>2, WaitersAreDistinct DEF Waits, Answered, BatchIsFresh
  <2>4. CASE ResumeRecorded
    <3>1. h = Record /\ loop' = "turn" /\ UNCHANGED <<task, staged>>
      BY <2>4 DEF ResumeRecorded, h, batch
    <3>2. loop = "recording"
      BY <1>2, <3>1, WaitersAreDistinct DEF Waits
    <3> QED
      BY <1>1, <3>1, <3>2, WaitersAreDistinct DEF Waits, Answered, BatchIsFresh
  <2>5. CASE HistoryRecorded
    <3>1. h = History /\ UNCHANGED <<loop, task, staged>>
      BY <2>5 DEF HistoryRecorded, h, batch
    <3> QED
      BY <1>1, <3>1, WaitersAreDistinct DEF Waits, Answered, BatchIsFresh
  <2> QED
    BY <2>1, <2>2, <2>3, <2>4, <2>5 DEF Checkpointing
<1> QED
  BY <1>1, <1>3, OneIsAnswered DEF Answered, h

\* Nobody waits at first.
LEMMA AnsweredInit == Init => Answered
<1> SUFFICES ASSUME Init PROVE Answered
  OBVIOUS
<1>1. chain = <<>> /\ snapshot = NoCheckpoint /\ loop = "returned" /\ staged = {} /\ \A s \in Slot : task[s] = "none"
  BY DEF Init, NoTasks
<1>2. Len(<<>>) = 0 /\ <<>> \in Seq(Requester) /\ 1 .. 0 = {}
  BY EmptySeq
<1>3. Asking(<<>>) = {} /\ Once(<<>>)
  BY <1>2 DEF Asking, Once
<1> QED
  BY <1>1, <1>2, <1>3 DEF Answered, EachHasItsWrite, BatchIsFresh, Waits

\* Every step keeps it.
LEMMA AnsweredStep == ASSUME Harmless, Answered, [OtherNext]_vars PROVE Answered'
<1>1. CASE \/ Drain \/ Stop \/ (\E m \in Message : Offer(m)) \/ HistoryNotSaved
           \/ Start \/ ResumeBlocks \/ ResumeFails \/ ResumeRetry
           \/ LoopResumes \/ LoopReturns \/ Pause \/ BeginCheckpointWrite
           \/ \E s \in Slot : \/ ReadEmpty(s) \/ ReadForeign(s) \/ ReadFails(s)
                               \/ ReadTooLate(s) \/ WriteFails(s) \/ Retry(s)
           \/ Arrive \/ OtherWrites \/ CheckpointHarmed \/ UNCHANGED vars
  BY <1>1, QuietKeeps, IntakeIsQuiet, LoopIsQuiet, DeliveryIsQuiet, SwarmIsQuiet
<1>2. CASE Crash \/ Exit
  BY <1>2, StopsAnswered
<1>3. CASE ResumeFromCheckpoint \/ ResumeFromFeed
  BY <1>3, ResumedAnswered
<1>4. CASE Stage \/ PersistRetry
  BY <1>4, PersistAnswered
<1>5. CASE HistorySaved
  BY <1>5, SavedAnswered
<1>6. CASE \E s \in Slot : ReadOwn(s) \/ WriteLands(s)
  BY <1>6, LandsAnswered
<1>7. CASE Checkpointing /\ ~BeginCheckpointWrite
  BY <1>7, EndsAnswered
<1> QED
  BY <1>1, <1>2, <1>3, <1>4, <1>5, <1>6, <1>7 DEF OtherNext, Next, Resume, Loop, Deliver

(* The publish loop, the deliveries and the checkpoint writes never wait on each other (README "Shutdown", the waits of
   drain()): whoever awaits a checkpoint write is in the chain of writes, once, and the one whose write ends is still
   waiting for it, whatever was blocked, stopped, harmed or written by another writer meanwhile. *)
THEOREM EveryWaitIsAnswered == OtherSpec => []EachHasItsWrite
<1>1. Harmless /\ Answered /\ [OtherNext]_vars => Answered'
  BY AnsweredStep
<1>2. Answered => EachHasItsWrite
  BY DEF Answered
<1> QED
  BY <1>1, <1>2, AnsweredInit, HarmlessHolds, PTL DEF OtherSpec
=============================================================================
