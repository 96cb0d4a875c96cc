---------------------------- MODULE ServerProofs ----------------------------
(***************************************************************************)
(* The safety of Server for every number of publishers, messages,          *)
(* evictions, kills and starts: the lock covers what is recorded, nobody   *)
(* is ahead of the feed, and, unless two publishers recorded at a time, a  *)
(* chat continues where it stood, every message is accounted for and the   *)
(* checkpoint is whole.                                                    *)
(***************************************************************************)
EXTENDS Server, FiniteSetTheorems, SequenceTheorems, TLAPS

-----------------------------------------------------------------------------
(* The inductive invariant: types and what each publisher is like *)

Stage == {"none", "staged", "recorded", "sent"}

\* As in TypeOK, without the bound of the slots, which NumbersOK gives.
Text == [index : Nat \cup {-1}, entry : Message \cup {NoEntry}] \cup {Absent, Half}

Record ==
  [state : {"resuming", "ready", "blocked", "stopped"}, loop : {"reads", "resumes", "done"}, read : Text,
   stopped : BOOLEAN, evicted : BOOLEAN, drained : BOOLEAN, late : BOOLEAN, refused : BOOLEAN,
   queue : Seq(Message), index : Nat \cup {-1}, entry : Message \cup {NoEntry}, stage : Stage, tip : BOOLEAN,
   chain : Seq(Reason), io : {"none", "opened", "written"}, file : {"none", "temp", "path", "gone"},
   text : Text, saving : BOOLEAN, quiet : 0 .. IdleEvict]

WorldOK ==
  /\ server \in {"down", "up", "draining", "released"}
  /\ current \in Publisher \cup {None}
  /\ others \subseteq Other
  /\ path \in Text /\ temp \in Text /\ feed \in [Slot -> SUBSET Message]
  /\ accepted \in 0 .. MaxMessages /\ dropped \subseteq Message /\ doubt \subseteq dropped /\ overlap \in BOOLEAN
  /\ evictions \in 0 .. MaxEvictions /\ boots \in 0 .. MaxBoots /\ crashes \in 0 .. MaxCrashes

TypesOK == WorldOK /\ pub \in [Publisher -> Record]

Snapshot(r) == [index |-> r.index, entry |-> r.entry]

\* One that was evicted holds no message any more, and what runs of it only ends.
EvictedOK(r) ==
  r.evicted => r.stopped /\ r.loop = "done" /\ r.stage = "none" /\ r.state \in {"stopped", "blocked"}

\* Until it has resumed it holds nothing but its queue.
ResumingOK(r) ==
  /\ r.loop # "done" => /\ r.chain = <<>> /\ ~r.saving /\ r.stage = "none" /\ r.index = -1
                        /\ r.state \in {"resuming", "stopped"}
  /\ r.loop # "resumes" => r.read = Absent
  /\ r.state = "resuming" => r.loop # "done" /\ ~r.stopped

\* stop() drops what is not recorded, and nothing is recorded after it but by one that becomes ready late.
StoppedOK(r) ==
  /\ r.stopped => r.queue = <<>> /\ r.stage # "staged" /\ (r.state \in {"stopped", "blocked"} \/ r.late)
  /\ r.drained => r.stopped /\ r.loop = "done" /\ r.stage # "sent" /\ (r.chain = <<>> \/ r.late)
  /\ r.state = "blocked" => r.queue = <<>> /\ r.stage = "none"

\* The entry in flight is in every write that began after it was staged.
WriteOK(r) ==
  /\ r.stage = "none" <=> r.entry = NoEntry
  /\ r.chain = <<>> => r.io = "none"
  /\ r.io = "none" => r.text = Absent /\ r.file = "none"
  /\ \A i \in 1 .. Len(r.chain) : r.chain[i] = "record" => r.stage = "staged" \/ r.stopped \/ r.state = "blocked"
  /\ \A i, j \in 1 .. Len(r.chain) :
       r.chain[i] = "record" /\ r.chain[j] = "record" => i = j \/ r.stopped \/ r.state = "blocked"
  /\ r.io # "none" /\ Head(r.chain) = "record" /\ r.stage = "staged" => r.text = Snapshot(r)
  /\ r.io # "none" /\ r.stage \in {"recorded", "sent"} => r.text = Snapshot(r)

HoldingOK(r) == EvictedOK(r) /\ ResumingOK(r) /\ StoppedOK(r) /\ WriteOK(r)

\* Only the chat's current publisher is not evicted, and it is drained before the lock is released.
OwnersOK ==
  /\ \A p \in Publisher : p # current => pub[p].evicted
  /\ current # None =>
       /\ ~pub[current].evicted
       /\ server = "up" => ~pub[current].stopped
       /\ server = "released" => pub[current].drained
  /\ server = "down" => current = None

\* While no process runs there is no publisher.
DownOK == server = "down" => \A p \in Publisher : pub[p] = Blank

ShapeOK == TypesOK /\ (\A p \in Publisher : HoldingOK(pub[p])) /\ OwnersOK

-----------------------------------------------------------------------------
(* Slots: none is used that no accepted message was for *)

\* The slots that a checkpoint, or a publisher, counts as used.
Used(c) == c.index + 1 + (IF c.entry = NoEntry THEN 0 ELSE 1)

\* And those that a publisher has for its queue once it has resumed.
Taken(r) == Used(r) + (IF r.loop = "done" THEN Len(r.queue) ELSE 0)

\* Messages that wait for their publisher to resume have no slots yet.
Unplaced == IF current # None /\ pub[current].loop # "done" THEN Len(pub[current].queue) ELSE 0

Placed == accepted - Unplaced

NumbersOK ==
  /\ 0 <= Placed /\ Used(path) <= Placed /\ Used(temp) <= Placed
  /\ \A p \in Publisher :
       /\ Used(pub[p].read) <= Placed /\ Used(pub[p].text) <= Placed
       /\ Taken(pub[p]) <= Placed
  /\ \A s \in Slot : feed[s] # {} => s < Placed

-----------------------------------------------------------------------------
(* Messages: where one that was accepted may be *)

Fed     == UNION {feed[s] : s \in Slot}
Copied  == {path.entry, temp.entry} \cup {pub[p].text.entry : p \in Publisher} \cup {pub[p].read.entry : p \in Publisher}
Entered == {pub[p].entry : p \in Publisher}
Present == Fed \cup Copied \cup Entered

KnownOK ==
  /\ \A m \in Present \cup dropped : m <= accepted
  /\ \A p \in Publisher : \A i \in 1 .. Len(pub[p].queue) : pub[p].queue[i] <= accepted

\* A queued message is there once and nowhere else.
QueuedOK ==
  \A p \in Publisher : \A i \in 1 .. Len(pub[p].queue) :
    /\ pub[p].queue[i] \notin Present \cup dropped
    /\ \A j \in 1 .. Len(pub[p].queue) : pub[p].queue[i] = pub[p].queue[j] => i = j

\* A staged one is nowhere but in what its own publisher wrote.
StagedOK ==
  \A p \in Publisher : pub[p].stage = "staged" =>
    /\ pub[p].entry \notin Fed \cup dropped
    /\ \A q \in Publisher \ {p} : pub[q].entry # pub[p].entry /\ pub[q].text.entry # pub[p].entry

\* What is in the temporary file is what a write under way put there.
TemporaryOK ==
  temp.entry # NoEntry => \E q \in Publisher : pub[q].io = "written" /\ pub[q].text.entry = temp.entry

DroppedOK == \A m \in dropped \ doubt : m \notin Present

MessagesOK == KnownOK /\ QueuedOK /\ StagedOK /\ TemporaryOK /\ DroppedOK

-----------------------------------------------------------------------------
(* One publisher at a time: what its checkpoint says is so *)

\* Slots up to an index hold entries, and the one after it nothing but one entry.
Standing(index, entry) ==
  \A s \in Slot :
    /\ s <= index => feed[s] # {}
    /\ s > index => feed[s] \subseteq (IF s = index + 1 THEN {entry} ELSE {})

Stands(c) == IF c = Absent THEN Standing(-1, NoEntry) ELSE Standing(c.index, c.entry)

\* The only block of a publisher that is alone: the rows in its checkpoint, before it has written anything.
Excused(r) == r.state = "blocked" => r.refused /\ r.chain = <<>>

\* One that was evicted and records nothing any more.
Asleep(r) == r.evicted /\ r.chain = <<>> /\ Excused(r)

\* A publisher that goes by what it resumed from, or still writes it.
Engaged(r) == r.loop = "done" /\ (r.state = "ready" \/ r.chain # <<>> \/ r.stage # "none")

\* Its handle leads to the temporary file, where its own text is.
OwnFile(r) ==
  /\ r.io # "none" => r.file = "temp" /\ r.text # Half
  /\ r.io = "written" => temp = r.text

NothingBroken(r) ==
  /\ path # Half /\ r.read # Half /\ Excused(r)
  /\ r.loop = "resumes" => r.read = path

\* It stands where the feed does, and so does whoever goes by the checkpoint or by what is being written.
StandsWhereItSays(r) ==
  /\ Stands(path)
  /\ r.io # "none" => Stands(r.text)
  /\ Engaged(r) =>
       /\ Standing(r.index, IF r.stage = "staged" THEN NoEntry ELSE r.entry)
       /\ r.stage = "sent" => r.entry \in feed[r.index + 1]
       /\ r.stage \in {"recorded", "sent"} => path = Snapshot(r)

\* What a checkpoint says is in flight is so, or was published or dropped.
Settles(entry, r) == entry \in {NoEntry, r.entry} \cup Fed \cup dropped

Superseded(r) ==
  Engaged(r) => Settles(path.entry, r) /\ (r.io # "none" => Settles(r.text.entry, r))

Sound(r) == OwnFile(r) /\ NothingBroken(r) /\ StandsWhereItSays(r) /\ Superseded(r)

Alone(p) == Sound(pub[p]) /\ \A q \in Publisher \ {p} : Asleep(pub[q])

AloneOK == ~overlap => \E p \in Publisher : Alone(p)

\* No slot up to an index is empty.
Written(index) == \A s \in Slot : s <= index => feed[s] # {}

Unwritten == \A s \in Slot : feed[s] = {}

(* What holds of the slots also when publishers overlap: nobody, and no text anywhere, is ahead of the feed. Without a
   checkpoint nothing was ever sent, since an entry is sent after some write was renamed, and no rename undoes that. *)
WrittenOK ==
  /\ Written(path.index) /\ Written(temp.index)
  /\ path = Absent => Unwritten
  /\ \A p \in Publisher :
       /\ Written(pub[p].index) /\ Written(pub[p].text.index) /\ Written(pub[p].read.index)
       /\ pub[p].stage = "sent" => feed[pub[p].index + 1] # {}
       /\ pub[p].stage \in {"recorded", "sent"} \/ pub[p].read # Absent => path # Absent
       /\ pub[p].loop = "resumes" /\ pub[p].read = Absent => Unwritten
       /\ pub[p].io # "none" => pub[p].text # Absent

Accounted == crashes = 0 /\ ~overlap => \A m \in 1 .. accepted : m \in dropped \/ Lives(m)

IInv == ShapeOK /\ DownOK /\ NumbersOK /\ MessagesOK /\ AloneOK /\ WrittenOK /\ Accounted

-----------------------------------------------------------------------------
(* What becomes of a publisher's record *)

\* Texts and messages tell each other apart.
LEMMA TextIs ==
  /\ Absent \in Text /\ Half \in Text
  /\ \A c \in Text : c.index \in Int /\ c.entry \in Message \cup {NoEntry}
  /\ \A r \in Record : Snapshot(r) \in Text
  /\ NoEntry \notin Message
BY DEF Text, Absent, Half, NoEntry, Message, Snapshot, Record

\* A place without a publisher, and one just opened, are records like any.
LEMMA BlankIs ==
  /\ Opened \in Record /\ Blank \in Record
  /\ HoldingOK(Opened) /\ HoldingOK(Blank)
<1>1. Opened \in Record
  BY TextIs, ConstantsAssumption DEF Opened, Record, Stage
<1>2. Blank \in Record
  BY <1>1 DEF Blank, Record
<1>3. HoldingOK(Opened)
  BY DEF Opened, HoldingOK, EvictedOK, ResumingOK, StoppedOK, WriteOK
<1>4. HoldingOK(Blank)
  BY DEF Blank, Opened, HoldingOK, EvictedOK, ResumingOK, StoppedOK, WriteOK
<1> QED
  BY <1>1, <1>2, <1>3, <1>4

\* The part of a record that a publisher which was evicted and is done shares with none.
Same(r, k) ==
  /\ k.stopped = r.stopped /\ k.evicted = r.evicted
  /\ k.loop = r.loop /\ k.read = r.read /\ k.queue = r.queue /\ k.entry = r.entry /\ k.stage = r.stage
  /\ k.chain = r.chain /\ k.io = r.io /\ k.file = r.file /\ k.text = r.text

\* A publisher that was evicted and does nothing any more is forgotten, and nobody notices.
LEMMA KeptIs ==
  ASSUME NEW r \in Record, HoldingOK(r)
  PROVE  /\ Kept(r) \in Record /\ HoldingOK(Kept(r))
         /\ Same(r, Kept(r))
         /\ Kept(r) = r \/ (Kept(r) = Blank /\ r.evicted)
<1>1. CASE r.evicted /\ ~Runs(r)
  <2>1. Kept(r) = Blank
    BY <1>1 DEF Kept
  <2>2. Same(r, Blank)
    BY <1>1 DEF Runs, HoldingOK, EvictedOK, ResumingOK, StoppedOK, WriteOK, Same, Blank, Opened, Record
  <2> QED
    BY <1>1, <2>1, <2>2, BlankIs
<1>2. CASE ~(r.evicted /\ ~Runs(r))
  BY <1>2 DEF Kept, Same
<1> QED
  BY <1>1, <1>2

\* stop() leaves a publisher as HoldingOK says, also one that an eviction chose.
LEMMA StoppedIs ==
  ASSUME NEW r \in Record, HoldingOK(r), r.loop = "done" \/ ~r.stopped
  PROVE  /\ Stopped(r) \in Record /\ HoldingOK(Stopped(r))
         /\ [Stopped(r) EXCEPT !.evicted = TRUE] \in Record
         /\ r.loop = "done" /\ Idle(r) => HoldingOK([Stopped(r) EXCEPT !.evicted = TRUE])
<1> DEFINE k == Stopped(r)
<1>1. k \in Record
  <2> DEFINE state == IF r.state = "blocked" THEN r.state ELSE "stopped"
             entry == IF r.stage = "staged" THEN NoEntry ELSE r.entry
             stage == IF r.stage = "staged" THEN "none" ELSE r.stage
  <2>1. /\ state \in {"resuming", "ready", "blocked", "stopped"} /\ entry \in Message \cup {NoEntry}
        /\ stage \in Stage /\ <<>> \in Seq(Message)
    BY DEF Record, Stage
  <2>2. k = [r EXCEPT !.stopped = TRUE, !.state = state, !.queue = <<>>, !.entry = entry, !.stage = stage]
    BY DEF Stopped
  <2> HIDE DEF state, entry, stage, k
  <2> QED
    BY <2>1, <2>2, ZenonT(60) DEF Record
<1>2. [k EXCEPT !.evicted = TRUE] \in Record
  BY <1>1 DEF Record
<1>3. HoldingOK(k)
  <2>1. EvictedOK(k) /\ ResumingOK(k)
    BY DEF Stopped, Record, Stage, HoldingOK, EvictedOK, ResumingOK, StoppedOK, WriteOK
  <2>2. StoppedOK(k)
    BY DEF Stopped, Record, Stage, HoldingOK, EvictedOK, ResumingOK, StoppedOK, WriteOK
  <2>3. WriteOK(k)
    BY DEF Stopped, Record, Stage, HoldingOK, EvictedOK, ResumingOK, StoppedOK, WriteOK, Snapshot
  <2> QED
    BY <2>1, <2>2, <2>3 DEF HoldingOK
<1>4. ASSUME r.loop = "done", Idle(r) PROVE HoldingOK([k EXCEPT !.evicted = TRUE])
  <2>1. HoldingOK(k) /\ k.stopped /\ k.loop = "done" /\ k.stage = "none" /\ k.state \in {"stopped", "blocked"}
    BY <1>3, <1>4 DEF Stopped, Record, Stage, HoldingOK, WriteOK, Idle
  <2> HIDE DEF k
  <2> QED
    BY <1>1, <2>1 DEF Record, HoldingOK, EvictedOK, ResumingOK, StoppedOK, WriteOK, Snapshot
<1> QED
  BY <1>1, <1>2, <1>3, <1>4

\* A step of one publisher.
LEMMA BecomesIs ==
  ASSUME ShapeOK, NEW p \in Publisher, NEW r \in Record, HoldingOK(r), Becomes(p, r)
  PROVE  /\ pub' \in [Publisher -> Record] /\ \A q \in Publisher : HoldingOK(pub'[q])
         /\ \A q \in Publisher \ {p} : pub'[q] = pub[q]
         /\ Same(r, pub'[p])
         /\ pub'[p] = r \/ (pub'[p] = Blank /\ r.evicted)
<1>1. pub \in [Publisher -> Record] /\ \A q \in Publisher : HoldingOK(pub[q])
  BY DEF ShapeOK, TypesOK
<1>2. pub' = [pub EXCEPT ![p] = Kept(r)]
  BY DEF Becomes
<1>3. pub'[p] = Kept(r) /\ \A q \in Publisher \ {p} : pub'[q] = pub[q]
  BY <1>1, <1>2
<1>4. Kept(r) \in Record /\ HoldingOK(Kept(r)) /\ Same(r, Kept(r)) /\ (Kept(r) = r \/ (Kept(r) = Blank /\ r.evicted))
  BY KeptIs
<1>5. pub' \in [Publisher -> Record]
  BY <1>1, <1>2, <1>4
<1> QED
  BY <1>1, <1>3, <1>4, <1>5

\* Such a step neither changes who is in chats nor stops anyone or forgets that it did.
LEMMA StepShape ==
  ASSUME ShapeOK, NEW p \in Publisher, NEW r \in Record, HoldingOK(r), Becomes(p, r), WorldOK',
         UNCHANGED <<server, current>>,
         r.evicted = pub[p].evicted, r.stopped = pub[p].stopped, pub[p].drained => r.drained
  PROVE  ShapeOK'
<1>1. /\ pub' \in [Publisher -> Record] /\ \A q \in Publisher : HoldingOK(pub'[q])
      /\ \A q \in Publisher \ {p} : pub'[q] = pub[q]
      /\ pub'[p].evicted = r.evicted /\ pub'[p].stopped = r.stopped
      /\ ~r.evicted => pub'[p] = r
  BY BecomesIs DEF Same
<1>2. OwnersOK'
  BY <1>1 DEF ShapeOK, TypesOK, WorldOK, OwnersOK
<1> QED
  BY <1>1, <1>2 DEF ShapeOK, TypesOK

\* What a step of one publisher leaves of it.
SameHeld(r, k) ==
  /\ k.stopped = r.stopped /\ k.evicted = r.evicted /\ k.queue = r.queue /\ k.entry = r.entry /\ k.stage = r.stage
  /\ k.index = r.index /\ k.state = r.state /\ k.refused = r.refused

SameWrite(r, k) == k.chain = r.chain /\ k.io = r.io /\ k.file = r.file /\ k.text = r.text

SameLoop(r, k) == k.loop = r.loop /\ k.read = r.read

\* Only the current publisher is not evicted.
LEMMA NotEvicted ==
  ASSUME ShapeOK, NEW p \in Publisher
  PROVE  /\ pub[p] \in Record /\ HoldingOK(pub[p])
         /\ ~pub[p].stopped \/ pub[p].loop # "done" \/ pub[p].stage # "none" \/ pub[p].state \in {"ready", "resuming"} =>
              ~pub[p].evicted /\ p = current
BY DEF ShapeOK, TypesOK, OwnersOK, HoldingOK, EvictedOK

(* One lemma for each step says what it changes. *)
LEMMA ReadsIs ==
  ASSUME ShapeOK, NEW p \in Publisher, Reads(p)
  PROVE  /\ ShapeOK' /\ \A q \in Publisher \ {p} : pub'[q] = pub[q]
         /\ UNCHANGED <<server_vars, file_vars, log_vars>>
         /\ p = current /\ SameHeld(pub[p], pub'[p]) /\ SameWrite(pub[p], pub'[p])
         /\ pub[p].loop = "reads" /\ pub'[p].loop = "resumes" /\ pub'[p].read = path
<1> DEFINE r == pub[p]
           k == [r EXCEPT !.loop = "resumes", !.read = path]
<1>1. /\ r \in Record /\ HoldingOK(r) /\ path \in Text /\ Absent \in Text
      /\ r.loop = "reads"
  BY NotEvicted, TextIs DEF Reads, ShapeOK, TypesOK, WorldOK
<1>2. k \in Record
  BY <1>1 DEF Record
<1>3. HoldingOK(k)
  BY <1>1, <1>2 DEF Record, HoldingOK, EvictedOK, ResumingOK, StoppedOK, WriteOK, Snapshot
<1>4. Becomes(p, k) /\ UNCHANGED <<server_vars, file_vars, log_vars>>
  BY DEF Reads
<1>5. WorldOK' /\ UNCHANGED <<server, current>>
  BY <1>4 DEF ShapeOK, TypesOK, WorldOK, server_vars, file_vars, log_vars
<1>6. k.evicted = r.evicted /\ k.stopped = r.stopped /\ k.drained = r.drained /\ SameHeld(r, k) /\ SameWrite(r, k)
  BY <1>1 DEF Record, SameHeld, SameWrite
<1> HIDE DEF k
<1>7. ShapeOK'
  BY <1>1, <1>2, <1>3, <1>4, <1>5, <1>6, StepShape
<1>8. pub'[p] = k /\ \A q \in Publisher \ {p} : pub'[q] = pub[q]
  BY <1>1, <1>2, <1>3, <1>4, <1>6, BecomesIs, NotEvicted
<1> QED
  BY <1>1, <1>4, <1>6, <1>7, <1>8, NotEvicted DEF k, Record

\* A resume that fails starts over.
LEMMA ResumeFailsIs ==
  ASSUME ShapeOK, NEW p \in Publisher, ResumeFails(p)
  PROVE  /\ ShapeOK' /\ \A q \in Publisher \ {p} : pub'[q] = pub[q]
         /\ UNCHANGED <<server_vars, file_vars, log_vars>>
         /\ p = current /\ SameHeld(pub[p], pub'[p]) /\ SameWrite(pub[p], pub'[p])
         /\ pub[p].loop = "resumes" /\ pub'[p].loop = "reads" /\ pub'[p].read = Absent
<1> DEFINE r == pub[p]
           k == [r EXCEPT !.loop = "reads", !.read = Absent]
<1>1. /\ r \in Record /\ HoldingOK(r) /\ path \in Text /\ Absent \in Text
      /\ r.loop = "resumes"
  BY NotEvicted, TextIs DEF ResumeFails, ShapeOK, TypesOK, WorldOK
<1>2. k \in Record
  BY <1>1 DEF Record
<1>3. HoldingOK(k)
  BY <1>1, <1>2 DEF Record, HoldingOK, EvictedOK, ResumingOK, StoppedOK, WriteOK, Snapshot
<1>4. Becomes(p, k) /\ UNCHANGED <<server_vars, file_vars, log_vars>>
  BY DEF ResumeFails
<1>5. WorldOK' /\ UNCHANGED <<server, current>>
  BY <1>4 DEF ShapeOK, TypesOK, WorldOK, server_vars, file_vars, log_vars
<1>6. k.evicted = r.evicted /\ k.stopped = r.stopped /\ k.drained = r.drained /\ SameHeld(r, k) /\ SameWrite(r, k)
  BY <1>1 DEF Record, SameHeld, SameWrite
<1> HIDE DEF k
<1>7. ShapeOK'
  BY <1>1, <1>2, <1>3, <1>4, <1>5, <1>6, StepShape
<1>8. pub'[p] = k /\ \A q \in Publisher \ {p} : pub'[q] = pub[q]
  BY <1>1, <1>2, <1>3, <1>4, <1>6, BecomesIs, NotEvicted
<1> QED
  BY <1>1, <1>4, <1>6, <1>7, <1>8, NotEvicted DEF k, Record

\* A loop that finds its publisher stopped returns.
LEMMA GivesUpIs ==
  ASSUME ShapeOK, NEW p \in Publisher, GivesUp(p)
  PROVE  /\ ShapeOK' /\ \A q \in Publisher \ {p} : pub'[q] = pub[q]
         /\ UNCHANGED <<server_vars, file_vars, log_vars>>
         /\ p = current /\ SameHeld(pub[p], pub'[p]) /\ SameWrite(pub[p], pub'[p])
         /\ pub[p].loop = "reads" /\ pub[p].stopped /\ pub'[p].loop = "done" /\ pub'[p].read = pub[p].read
<1> DEFINE r == pub[p]
           k == [r EXCEPT !.loop = "done"]
<1>1. /\ r \in Record /\ HoldingOK(r) /\ path \in Text /\ Absent \in Text
      /\ r.loop = "reads" /\ r.stopped
  BY NotEvicted, TextIs DEF GivesUp, ShapeOK, TypesOK, WorldOK
<1>2. k \in Record
  BY <1>1 DEF Record
<1>3. HoldingOK(k)
  BY <1>1, <1>2 DEF Record, HoldingOK, EvictedOK, ResumingOK, StoppedOK, WriteOK, Snapshot
<1>4. Becomes(p, k) /\ UNCHANGED <<server_vars, file_vars, log_vars>>
  BY DEF GivesUp
<1>5. WorldOK' /\ UNCHANGED <<server, current>>
  BY <1>4 DEF ShapeOK, TypesOK, WorldOK, server_vars, file_vars, log_vars
<1>6. k.evicted = r.evicted /\ k.stopped = r.stopped /\ k.drained = r.drained /\ SameHeld(r, k) /\ SameWrite(r, k)
  BY <1>1 DEF Record, SameHeld, SameWrite
<1> HIDE DEF k
<1>7. ShapeOK'
  BY <1>1, <1>2, <1>3, <1>4, <1>5, <1>6, StepShape
<1>8. pub'[p] = k /\ \A q \in Publisher \ {p} : pub'[q] = pub[q]
  BY <1>1, <1>2, <1>3, <1>4, <1>6, BecomesIs, NotEvicted
<1> QED
  BY <1>1, <1>4, <1>6, <1>7, <1>8, NotEvicted DEF k, Record

\* What appending a request to the chain of writes does.
LEMMA AppendIs ==
  ASSUME NEW c \in Seq(Reason), NEW who \in Reason
  PROVE  /\ Append(c, who) \in Seq(Reason) /\ Append(c, who) # <<>>
         /\ c # <<>> => Head(Append(c, who)) = Head(c)
         /\ \A i \in 1 .. Len(c) : Append(c, who)[i] = c[i]
         /\ who # "record" =>
              \A i \in 1 .. Len(Append(c, who)) : Append(c, who)[i] = "record" => i \in 1 .. Len(c)
BY AppendProperties

\* The next message leaves the queue for the slot in flight.
LEMMA StagesIs ==
  ASSUME ShapeOK, NEW p \in Publisher, Stages(p)
  PROVE  /\ ShapeOK' /\ \A q \in Publisher \ {p} : pub'[q] = pub[q]
         /\ UNCHANGED <<server_vars, file_vars, log_vars>>
         /\ p = current /\ SameLoop(pub[p], pub'[p])
         /\ pub[p].state = "ready" /\ pub[p].loop = "done" /\ ~pub[p].stopped /\ pub[p].stage = "none"
         /\ pub[p].entry = NoEntry /\ pub[p].queue # <<>>
         /\ pub'[p].state = "ready" /\ ~pub'[p].stopped /\ pub'[p].index = pub[p].index
         /\ pub'[p].queue = Tail(pub[p].queue) /\ pub'[p].entry = Head(pub[p].queue) /\ pub'[p].stage = "staged"
         /\ pub'[p].chain = Append(pub[p].chain, "record")
         /\ pub'[p].io = pub[p].io /\ pub'[p].file = pub[p].file /\ pub'[p].text = pub[p].text
<1> DEFINE r == pub[p]
           k == [r EXCEPT !.queue = Tail(@), !.entry = Head(r.queue), !.stage = "staged", !.chain = Append(@, "record")]
<1>1. /\ r \in Record /\ HoldingOK(r)
      /\ r.state = "ready" /\ r.loop = "done" /\ ~r.stopped /\ r.entry = NoEntry /\ r.queue # <<>>
  BY NotEvicted DEF Stages
<1>2. k = Awaits([r EXCEPT !.queue = Tail(@), !.entry = Head(r.queue), !.stage = "staged"], "record")
  BY <1>1 DEF Awaits, Record
<1>3. Becomes(p, k) /\ UNCHANGED <<server_vars, file_vars, log_vars>>
  BY <1>2 DEF Stages
<1>4. /\ Tail(r.queue) \in Seq(Message) /\ Head(r.queue) \in Message /\ Append(r.chain, "record") \in Seq(Reason)
      /\ "staged" \in Stage /\ r.chain \in Seq(Reason) /\ NoEntry \notin Message
  BY <1>1, TextIs DEF Record, Stage, Reason
<1>5. k \in Record
  BY <1>1, <1>4 DEF Record
<1>6. HoldingOK(k)
  <2>1. EvictedOK(k) /\ ResumingOK(k) /\ StoppedOK(k)
    BY <1>1 DEF Record, HoldingOK, EvictedOK, ResumingOK, StoppedOK, WriteOK
  <2>2. WriteOK(k)
    <3>1. ~r.stopped /\ r.state # "blocked" /\ r.stage = "none" /\ WriteOK(r)
      BY <1>1 DEF HoldingOK, WriteOK
    <3>2. \A i \in 1 .. Len(r.chain) : r.chain[i] # "record"
      BY <3>1 DEF WriteOK
    <3>3. r.io # "none" => Head(Append(r.chain, "record")) # "record"
      BY <1>4, <3>1, <3>2 DEF WriteOK
    <3>4. Append(r.chain, "record") # <<>>
      BY <1>4
    <3>5. /\ k.chain = Append(r.chain, "record") /\ k.io = r.io /\ k.text = r.text /\ k.file = r.file
          /\ k.stage = "staged" /\ k.entry \in Message
      BY <1>1, <1>4 DEF Record
    <3> HIDE DEF k
    <3> QED
      BY <1>4, <3>1, <3>3, <3>4, <3>5, SMTT(60) DEF WriteOK
  <2> QED
    BY <2>1, <2>2 DEF HoldingOK
<1>7. WorldOK' /\ UNCHANGED <<server, current>>
  BY <1>3 DEF ShapeOK, TypesOK, WorldOK, server_vars, file_vars, log_vars
<1>8. k.evicted = r.evicted /\ k.stopped = r.stopped /\ k.drained = r.drained
  BY <1>1 DEF Record
<1>9. r.stage = "none"
  BY <1>1 DEF HoldingOK, WriteOK
<1> HIDE DEF k
<1>10. ShapeOK'
  BY <1>1, <1>3, <1>5, <1>6, <1>7, <1>8, StepShape
<1>11. p = current /\ pub'[p] = k /\ \A q \in Publisher \ {p} : pub'[q] = pub[q]
  BY <1>1, <1>3, <1>5, <1>6, <1>8, BecomesIs, NotEvicted
<1> QED
  BY <1>1, <1>3, <1>9, <1>10, <1>11 DEF k, Record, SameLoop

\* Every recorded entry may be sent.
LEMMA SendingIs ==
  ASSUME ShapeOK, NEW p \in Publisher, pub[p].stage = "recorded", Becomes(p, [pub[p] EXCEPT !.stage = "sent"]),
         WorldOK', UNCHANGED <<server, current>>, ~pub[p].stopped
  PROVE  /\ ShapeOK' /\ \A q \in Publisher \ {p} : pub'[q] = pub[q]
         /\ p = current /\ SameLoop(pub[p], pub'[p]) /\ SameWrite(pub[p], pub'[p])
         /\ pub'[p].stopped = pub[p].stopped /\ pub'[p].state = pub[p].state /\ pub'[p].index = pub[p].index
         /\ pub'[p].queue = pub[p].queue /\ pub'[p].entry = pub[p].entry /\ pub'[p].stage = "sent"
<1> DEFINE r == pub[p]
           k == [r EXCEPT !.stage = "sent"]
<1>1. r \in Record /\ HoldingOK(r) /\ r.stage = "recorded" /\ ~r.stopped
  BY NotEvicted
<1>2. k \in Record
  BY <1>1 DEF Record, Stage
<1>3. HoldingOK(k)
  BY <1>1, <1>2 DEF Record, HoldingOK, EvictedOK, ResumingOK, StoppedOK, WriteOK, Snapshot
<1>4. k.evicted = r.evicted /\ k.stopped = r.stopped /\ k.drained = r.drained
  BY <1>1 DEF Record
<1> HIDE DEF k
<1>5. ShapeOK'
  BY <1>1, <1>2, <1>3, <1>4, StepShape DEF k
<1>6. p = current /\ pub'[p] = k /\ \A q \in Publisher \ {p} : pub'[q] = pub[q]
  BY <1>1, <1>2, <1>3, <1>4, BecomesIs, NotEvicted, ZenonT(60) DEF k
<1> QED
  BY <1>1, <1>5, <1>6 DEF k, Record, SameLoop, SameWrite

\* A landing moves the index by one and asks for a write.
LEMMA LandingIs ==
  ASSUME ShapeOK, NEW p \in Publisher, pub[p].stage = "sent" \/ (pub[p].stage = "recorded" /\ ~pub[p].stopped),
         Becomes(p, Lands(pub[p])), WorldOK', UNCHANGED <<server, current>>
  PROVE  /\ ShapeOK' /\ \A q \in Publisher \ {p} : pub'[q] = pub[q]
         /\ p = current /\ SameLoop(pub[p], pub'[p]) /\ pub[p].loop = "done" /\ pub[p].entry \in Message
         /\ pub'[p].stopped = pub[p].stopped /\ pub'[p].state = pub[p].state /\ pub'[p].index = pub[p].index + 1
         /\ pub'[p].queue = pub[p].queue /\ pub'[p].entry = NoEntry /\ pub'[p].stage = "none"
         /\ pub'[p].chain = Append(pub[p].chain, "confirm")
         /\ pub'[p].io = pub[p].io /\ pub'[p].file = pub[p].file /\ pub'[p].text = pub[p].text
<1> DEFINE r == pub[p]
           k == [r EXCEPT !.index = @ + 1, !.entry = NoEntry, !.stage = "none", !.tip = TRUE, !.quiet = 0,
                          !.chain = Append(@, "confirm")]
<1>1. r \in Record /\ HoldingOK(r) /\ (r.stage = "sent" \/ (r.stage = "recorded" /\ ~r.stopped))
  BY NotEvicted
<1>2. k = Lands(r)
  BY <1>1 DEF Awaits, Record, Lands
<1>3. Becomes(p, k)
  BY <1>2
<1>4. /\ Append(r.chain, "confirm") \in Seq(Reason) /\ "none" \in Stage /\ r.chain \in Seq(Reason)
      /\ r.index + 1 \in Nat \cup {-1} /\ 0 \in 0 .. IdleEvict
      /\ Append(r.chain, "confirm") # <<>>
      /\ \A i \in 1 .. Len(Append(r.chain, "confirm")) : Append(r.chain, "confirm")[i] = "record" => i \in 1 .. Len(r.chain)
      /\ \A i \in 1 .. Len(r.chain) : Append(r.chain, "confirm")[i] = r.chain[i]
  <2>1. r.chain \in Seq(Reason) /\ "confirm" \in Reason
    BY <1>1 DEF Record, Reason
  <2>2. "none" \in Stage /\ r.index + 1 \in Nat \cup {-1} /\ 0 \in 0 .. IdleEvict
    BY <1>1, ConstantsAssumption DEF Record, Stage
  <2> QED
    BY <2>1, <2>2, AppendIs
<1>5. k \in Record
  BY <1>1, <1>4, ZenonT(60) DEF Record
<1>6. HoldingOK(k)
  <2>1. EvictedOK(k) /\ ResumingOK(k)
    BY <1>1 DEF Record, HoldingOK, EvictedOK, ResumingOK, StoppedOK, WriteOK
  <2>2. WriteOK(k) /\ StoppedOK(k)
    <3>1. /\ k.chain = Append(r.chain, "confirm") /\ k.io = r.io /\ k.text = r.text /\ k.file = r.file
          /\ k.stage = "none" /\ k.entry = NoEntry /\ k.stopped = r.stopped /\ k.state = r.state
          /\ k.queue = r.queue /\ k.drained = r.drained /\ k.late = r.late /\ k.loop = r.loop
      BY <1>1, <1>4 DEF Record
    <3> HIDE DEF k
    <3>2. StoppedOK(k)
      BY <1>1, <1>4, <3>1 DEF WriteOK, HoldingOK, StoppedOK
    <3>3. WriteOK(r) /\ (r.state # "blocked" => \A i, j \in 1 .. Len(r.chain) :
            r.chain[i] = "record" /\ r.chain[j] = "record" => i = j \/ r.stopped)
      BY <1>1 DEF WriteOK, HoldingOK
    <3>4. \A i, j \in 1 .. Len(k.chain) :
            k.chain[i] = "record" /\ k.chain[j] = "record" => i = j \/ k.stopped \/ k.state = "blocked"
      BY <1>4, <3>1, <3>3
    <3>5. \A i \in 1 .. Len(k.chain) : k.chain[i] = "record" => k.stopped \/ k.state = "blocked"
      BY <1>1, <1>4, <3>1, <3>3 DEF WriteOK
    <3>6. WriteOK(k)
      BY <1>4, <3>1, <3>3, <3>4, <3>5 DEF WriteOK
    <3> QED
      BY <3>2, <3>6
  <2> QED
    BY <2>1, <2>2 DEF HoldingOK
<1>7. k.evicted = r.evicted /\ k.stopped = r.stopped /\ k.drained = r.drained
  BY <1>1 DEF Record
<1> HIDE DEF k
<1>8. ShapeOK'
  BY <1>1, <1>3, <1>5, <1>6, <1>7, StepShape
<1>9. p = current /\ pub'[p] = k /\ \A q \in Publisher \ {p} : pub'[q] = pub[q]
  BY <1>1, <1>3, <1>5, <1>6, <1>7, BecomesIs, NotEvicted
<1>10. r.loop = "done" /\ r.entry \in Message
  BY <1>1, TextIs DEF HoldingOK, ResumingOK, WriteOK, Record
<1> QED
  BY <1>1, <1>4, <1>8, <1>9, <1>10 DEF k, Record, SameLoop

\* A history save that ended asks for a checkpoint write, unless its publisher has stopped.
LEMMA SaveEndsIs ==
  ASSUME ShapeOK, NEW p \in Publisher, SaveEnds(p)
  PROVE  /\ ShapeOK' /\ \A q \in Publisher \ {p} : pub'[q] = pub[q]
         /\ UNCHANGED <<server_vars, file_vars, log_vars>>
         /\ SameLoop(pub[p], pub'[p]) /\ pub[p].loop = "done"
         /\ pub'[p].io = pub[p].io /\ pub'[p].file = pub[p].file /\ pub'[p].text = pub[p].text
         /\ \/ SameHeld(pub[p], pub'[p]) /\ pub'[p].chain = pub[p].chain
            \/ /\ SameHeld(pub[p], pub'[p]) /\ pub[p].state = "ready" /\ p = current
               /\ pub'[p].chain = Append(pub[p].chain, "history")
            \/ pub'[p] = Blank /\ pub[p].evicted
         /\ Same(pub[p], pub'[p]) \/ pub[p].state = "ready"
<1> DEFINE r == pub[p]
           quiet == [r EXCEPT !.saving = FALSE]
           k == [r EXCEPT !.saving = FALSE, !.chain = Append(@, "history")]
<1>1. r \in Record /\ HoldingOK(r) /\ r.saving /\ r.loop = "done"
  BY NotEvicted DEF SaveEnds, HoldingOK, ResumingOK
<1>2. UNCHANGED <<server_vars, file_vars, log_vars>> /\ WorldOK' /\ UNCHANGED <<server, current>>
  BY DEF SaveEnds, ShapeOK, TypesOK, WorldOK, server_vars, file_vars, log_vars
<1>3. CASE Becomes(p, quiet)
  <2>1. quiet \in Record
    BY <1>1 DEF Record
  <2>2. HoldingOK(quiet)
    BY <1>1 DEF Record, HoldingOK, EvictedOK, ResumingOK, StoppedOK, WriteOK, Snapshot
  <2>3. /\ quiet.evicted = r.evicted /\ quiet.stopped = r.stopped /\ quiet.drained = r.drained
        /\ SameHeld(r, quiet) /\ SameWrite(r, quiet) /\ SameLoop(r, quiet)
    BY <1>1 DEF Record, SameHeld, SameWrite, SameLoop
  <2> HIDE DEF quiet
  <2>4. ShapeOK'
    BY <1>1, <1>2, <1>3, <2>1, <2>2, <2>3, StepShape
  <2>5. /\ \A q \in Publisher \ {p} : pub'[q] = pub[q]
        /\ Same(quiet, pub'[p])
        /\ pub'[p] = quiet \/ (pub'[p] = Blank /\ quiet.evicted)
    BY <1>3, <2>1, <2>2, BecomesIs
  <2>6. Same(r, pub'[p])
    BY <2>3, <2>5 DEF Same, SameHeld, SameWrite, SameLoop
  <2> QED
    BY <1>1, <1>2, <2>3, <2>4, <2>5, <2>6 DEF Same, SameHeld, SameWrite, SameLoop
<1>4. CASE r.state = "ready" /\ Becomes(p, Awaits(quiet, "history"))
  <2>1. k = Awaits(quiet, "history")
    BY <1>1 DEF Awaits, Record
  <2>2. r.chain \in Seq(Reason) /\ "history" \in Reason
    BY <1>1 DEF Record, Reason
  <2>3. k \in Record
    BY <1>1, <2>2, AppendIs DEF Record
  <2>4. /\ k.evicted = r.evicted /\ k.stopped = r.stopped /\ k.drained = r.drained /\ k.late = r.late
        /\ SameHeld(r, k) /\ SameLoop(r, k)
        /\ k.chain = Append(r.chain, "history") /\ k.io = r.io /\ k.text = r.text /\ k.file = r.file
    BY <1>1 DEF Record, SameHeld, SameLoop
  <2>5. HoldingOK(k)
    <3> HIDE DEF k
    <3>1. EvictedOK(k) /\ ResumingOK(k) /\ StoppedOK(k)
      BY <1>1, <1>4, <2>4 DEF HoldingOK, EvictedOK, ResumingOK, StoppedOK, SameHeld, SameLoop
    <3>2. WriteOK(r) /\ r.state = "ready" /\ k.state = r.state /\ k.stopped = r.stopped /\ k.stage = r.stage
          /\ Snapshot(k) = Snapshot(r)
      BY <1>1, <1>4, <2>4 DEF HoldingOK, SameHeld, Snapshot
    <3>3. /\ k.chain # <<>> /\ (r.chain # <<>> => Head(k.chain) = Head(r.chain))
          /\ \A i \in 1 .. Len(k.chain) : k.chain[i] = "record" => i \in 1 .. Len(r.chain) /\ r.chain[i] = "record"
      BY <2>2, <2>4, AppendIs
    <3>4. WriteOK(k)
      BY <2>4, <3>2, <3>3 DEF WriteOK, SameHeld
    <3> QED
      BY <3>1, <3>4 DEF HoldingOK
  <2> HIDE DEF k
  <2>6. ~r.evicted /\ p = current
    BY <1>4, NotEvicted
  <2>7. ShapeOK'
    BY <1>1, <1>2, <1>4, <2>1, <2>3, <2>4, <2>5, StepShape
  <2>8. pub'[p] = k /\ \A q \in Publisher \ {p} : pub'[q] = pub[q]
    BY <1>4, <2>1, <2>3, <2>4, <2>5, <2>6, BecomesIs
  <2> QED
    BY <1>1, <1>2, <1>4, <2>4, <2>6, <2>7, <2>8
<1> QED
  BY <1>3, <1>4 DEF SaveEnds

\* The return of drain() changes nothing of what its publisher holds or writes.
LEMMA DrainedIs ==
  ASSUME ShapeOK, Drained
  PROVE  /\ ShapeOK' /\ current \in Publisher /\ \A q \in Publisher \ {current} : pub'[q] = pub[q]
         /\ UNCHANGED <<server_vars, file_vars, log_vars>>
         /\ SameHeld(pub[current], pub'[current]) /\ SameWrite(pub[current], pub'[current])
         /\ SameLoop(pub[current], pub'[current])
<1> DEFINE p == current
           r == pub[p]
           k == [r EXCEPT !.drained = TRUE]
<1>1. p \in Publisher /\ r \in Record /\ HoldingOK(r) /\ Settled(r) /\ ~r.evicted
  BY DEF Drained, ShapeOK, TypesOK, WorldOK, OwnersOK
<1>2. Becomes(p, k) /\ UNCHANGED <<server_vars, file_vars, log_vars>>
  BY DEF Drained
<1>3. k \in Record
  BY <1>1 DEF Record
<1>4. HoldingOK(k)
  BY <1>1 DEF Record, HoldingOK, EvictedOK, ResumingOK, StoppedOK, WriteOK, Snapshot, Settled
<1>5. WorldOK' /\ UNCHANGED <<server, current>>
  BY <1>2 DEF ShapeOK, TypesOK, WorldOK, server_vars, file_vars, log_vars
<1>6. /\ k.evicted = r.evicted /\ k.stopped = r.stopped /\ k.drained
      /\ SameHeld(r, k) /\ SameWrite(r, k) /\ SameLoop(r, k)
  BY <1>1 DEF Record, SameHeld, SameWrite, SameLoop
<1> HIDE DEF k
<1>7. ShapeOK'
  BY <1>1, <1>2, <1>3, <1>4, <1>5, <1>6, StepShape
<1>8. pub'[p] = k /\ \A q \in Publisher \ {p} : pub'[q] = pub[q]
  BY <1>1, <1>2, <1>3, <1>4, <1>6, BecomesIs
<1> QED
  BY <1>1, <1>2, <1>6, <1>7, <1>8

\* Time only passes for who is quiet.
LEMMA QuietIs ==
  ASSUME ShapeOK, NEW quiet \in [Publisher -> 0 .. IdleEvict], WorldOK',
         current' = current, server' \in {server, "draining"} /\ server # "down",
         pub' = [p \in Publisher |-> [pub[p] EXCEPT !.quiet = quiet[p]]]
  PROVE  /\ ShapeOK'
         /\ \A p \in Publisher : SameHeld(pub[p], pub'[p]) /\ SameWrite(pub[p], pub'[p]) /\ SameLoop(pub[p], pub'[p])
<1>1. ASSUME NEW p \in Publisher
      PROVE  /\ pub'[p] \in Record /\ HoldingOK(pub'[p])
             /\ SameHeld(pub[p], pub'[p]) /\ SameWrite(pub[p], pub'[p]) /\ SameLoop(pub[p], pub'[p])
             /\ pub'[p].drained = pub[p].drained
  <2> DEFINE r == pub[p]
             k == [r EXCEPT !.quiet = quiet[p]]
  <2>1. r \in Record /\ HoldingOK(r) /\ pub'[p] = k
    BY NotEvicted
  <2>2. k \in Record
    BY <2>1 DEF Record
  <2>3. HoldingOK(k)
    BY <2>1 DEF Record, HoldingOK, EvictedOK, ResumingOK, StoppedOK, WriteOK, Snapshot
  <2>4. SameHeld(r, k) /\ SameWrite(r, k) /\ SameLoop(r, k) /\ k.drained = r.drained
    BY <2>1 DEF Record, SameHeld, SameWrite, SameLoop
  <2> QED
    BY <2>1, <2>2, <2>3, <2>4
<1>2. pub' \in [Publisher -> Record]
  BY <1>1
<1>3. \A p \in Publisher :
        pub'[p].evicted = pub[p].evicted /\ pub'[p].stopped = pub[p].stopped /\ pub'[p].drained = pub[p].drained
  BY <1>1 DEF SameHeld
<1>4. OwnersOK /\ current \in Publisher \cup {None} /\ None \notin Publisher
  BY ConstantsAssumption DEF ShapeOK, TypesOK, WorldOK
<1>5. OwnersOK'
  BY <1>3, <1>4 DEF OwnersOK
<1> QED
  BY <1>1, <1>2, <1>5 DEF ShapeOK, TypesOK

\* Time only passes for who is quiet.
LEMMA TickIs ==
  ASSUME ShapeOK, Tick
  PROVE  /\ ShapeOK' /\ UNCHANGED <<server_vars, file_vars, log_vars>>
         /\ \A p \in Publisher : SameHeld(pub[p], pub'[p]) /\ SameWrite(pub[p], pub'[p]) /\ SameLoop(pub[p], pub'[p])
<1> DEFINE quiet == [p \in Publisher |-> IF p = current THEN pub[p].quiet + 1 ELSE pub[p].quiet]
<1>1. /\ current \in Publisher /\ server = "up" /\ pub[current].quiet < IdleEvict
      /\ pub' = [pub EXCEPT ![current] = [pub[current] EXCEPT !.quiet = @ + 1]]
      /\ UNCHANGED <<server_vars, file_vars, log_vars>>
  BY DEF Tick, ShapeOK, TypesOK, WorldOK
<1>2. \A p \in Publisher : pub[p] \in Record /\ pub[p].quiet \in 0 .. IdleEvict
  BY DEF ShapeOK, TypesOK, Record
<1>3. quiet \in [Publisher -> 0 .. IdleEvict]
  BY <1>1, <1>2, ConstantsAssumption
<1>4. pub' = [p \in Publisher |-> [pub[p] EXCEPT !.quiet = quiet[p]]]
  <2>1. \A p \in Publisher : pub[p] = [pub[p] EXCEPT !.quiet = pub[p].quiet]
    BY <1>2 DEF Record
  <2>2. pub \in [Publisher -> Record]
    BY DEF ShapeOK, TypesOK
  <2>3. ASSUME NEW p \in Publisher PROVE pub'[p] = [pub[p] EXCEPT !.quiet = quiet[p]]
    BY <1>1, <1>2, <2>1, <2>2
  <2> HIDE DEF quiet
  <2> QED
    BY <1>1, <2>2, <2>3
<1>5. WorldOK' /\ UNCHANGED <<server, current>>
  BY <1>1 DEF ShapeOK, TypesOK, WorldOK, server_vars, file_vars, log_vars
<1> HIDE DEF quiet
<1> QED
  BY <1>1, <1>3, <1>4, <1>5, QuietIs

\* Shutdown begins, nothing else changes.
LEMMA StopIs ==
  ASSUME ShapeOK, Stop
  PROVE  /\ ShapeOK' /\ UNCHANGED <<current, evictions, boots, crashes, file_vars, log_vars>>
         /\ \A p \in Publisher : SameHeld(pub[p], pub'[p]) /\ SameWrite(pub[p], pub'[p]) /\ SameLoop(pub[p], pub'[p])
<1> DEFINE quiet == [p \in Publisher |-> 0]
<1>1. /\ server = "up" /\ server' = "draining"
      /\ pub' = [p \in Publisher |-> [pub[p] EXCEPT !.quiet = 0]]
      /\ UNCHANGED <<current, evictions, boots, crashes, file_vars, log_vars>>
  BY DEF Stop
<1>2. quiet \in [Publisher -> 0 .. IdleEvict]
  BY ConstantsAssumption
<1>3. pub' = [p \in Publisher |-> [pub[p] EXCEPT !.quiet = quiet[p]]]
  BY <1>1
<1>4. WorldOK'
  BY DEF Stop, ShapeOK, TypesOK, WorldOK, file_vars, log_vars
<1> HIDE DEF quiet
<1> QED
  BY <1>1, <1>2, <1>3, <1>4, QuietIs

\* The lock is released, nothing else changes.
LEMMA ReleasesLockIs ==
  ASSUME ShapeOK, ReleasesLock
  PROVE  /\ ShapeOK' /\ UNCHANGED <<current, others, evictions, boots, crashes, pub, file_vars, log_vars>>
<1>1. UNCHANGED <<current, others, evictions, boots, crashes, pub, file_vars, log_vars>> /\ server' = "released"
  BY DEF ReleasesLock
<1>2. WorldOK' /\ OwnersOK'
  BY <1>1 DEF ReleasesLock, ShapeOK, TypesOK, WorldOK, OwnersOK, file_vars, log_vars
<1> QED
  BY <1>1, <1>2 DEF ShapeOK, TypesOK

\* The end of a process, by exit or kill, leaves the files and the feed.
LEMMA ProcessEndsIs ==
  ASSUME ShapeOK, ProcessEnds, crashes' \in 0 .. MaxCrashes
  PROVE  /\ ShapeOK' /\ current' = None /\ temp' = Absent /\ UNCHANGED <<path, log_vars>>
         /\ \A p \in Publisher : pub'[p] = Blank
<1>1. /\ server' = "down" /\ current' = None /\ pub' = [p \in Publisher |-> Blank] /\ temp' = Absent
      /\ UNCHANGED <<path, log_vars>>
  BY DEF ProcessEnds
<1>2. WorldOK'
  BY <1>1, TextIs DEF ProcessEnds, ShapeOK, TypesOK, WorldOK, log_vars
<1>3. OwnersOK'
  BY <1>1 DEF OwnersOK, Blank, Opened
<1> QED
  BY <1>1, <1>2, <1>3, BlankIs DEF ShapeOK, TypesOK

\* A start changes no file, and opens the chat if it is listed.
LEMMA StartIs ==
  ASSUME ShapeOK, Start
  PROVE  /\ ShapeOK' /\ UNCHANGED <<evictions, crashes, file_vars, log_vars>> /\ current = None
         /\ \/ UNCHANGED <<current, pub>>
            \/ \E p \in Publisher : current' = p /\ pub'[p] = Opened /\ \A q \in Publisher \ {p} : pub'[q] = pub[q]
<1>1. /\ server = "down" /\ server' = "up" /\ boots' = boots + 1 /\ boots < MaxBoots
      /\ others' = Other \cap Listed /\ UNCHANGED <<evictions, crashes, file_vars, log_vars>>
      /\ current = None
  BY DEF Start, ShapeOK, OwnersOK
<1>2. CASE UNCHANGED <<current, pub>>
  <2>1. WorldOK' /\ OwnersOK'
    BY <1>1, <1>2, ConstantsAssumption DEF ShapeOK, TypesOK, WorldOK, OwnersOK, file_vars, log_vars
  <2> QED
    BY <1>1, <1>2, <2>1 DEF ShapeOK, TypesOK
<1>3. ASSUME NEW p \in Publisher, current' = p, pub' = [pub EXCEPT ![p] = Opened]
      PROVE  ShapeOK' /\ pub'[p] = Opened /\ \A q \in Publisher \ {p} : pub'[q] = pub[q]
  <2>1. pub \in [Publisher -> Record] /\ \A q \in Publisher : HoldingOK(pub[q])
    BY DEF ShapeOK, TypesOK
  <2>2. pub'[p] = Opened /\ \A q \in Publisher \ {p} : pub'[q] = pub[q]
    BY <1>3, <2>1
  <2>3. pub' \in [Publisher -> Record] /\ \A q \in Publisher : HoldingOK(pub'[q])
    BY <1>3, <2>1, <2>2, BlankIs
  <2>4. WorldOK'
    BY <1>1, <1>3, ConstantsAssumption DEF ShapeOK, TypesOK, WorldOK, file_vars, log_vars
  <2>5. ~Opened.evicted /\ ~Opened.stopped
    BY DEF Opened
  <2>6. OwnersOK'
    <3>1. \A q \in Publisher : pub[q].evicted
      BY <1>1, ConstantsAssumption DEF ShapeOK, OwnersOK
    <3>2. p # None /\ current' = p /\ server' = "up"
      BY <1>1, <1>3, ConstantsAssumption
    <3> QED
      BY <2>2, <2>5, <3>1, <3>2 DEF OwnersOK
  <2> QED
    BY <2>2, <2>3, <2>4, <2>6 DEF ShapeOK, TypesOK
<1> QED
  BY <1>1, <1>2, <1>3 DEF Start

BlockedBe(r, x) ==
  [r EXCEPT !.read = Absent, !.refused = x, !.state = "blocked", !.loop = "done", !.queue = <<>>, !.entry = NoEntry,
            !.stage = "none"]

\* A blocked publisher's record is one.
LEMMA BlockedRecord ==
  ASSUME NEW r \in Record, NEW x \in BOOLEAN
  PROVE  BlockedBe(r, x) \in Record
<1>1. Absent \in Text /\ "none" \in Stage /\ <<>> \in Seq(Message) /\ NoEntry \in Message \cup {NoEntry}
  BY TextIs DEF Stage
<1> QED
  BY <1>1, ZenonT(60) DEF Record, BlockedBe

\* A block, of a chat whose rows are to blame or not.
Blocks(p, x) == Block(p, [pub[p] EXCEPT !.read = Absent, !.refused = x])

\* A chat is blocked by a checkpoint that is not whole or lacks rows, or by a slot that holds another entry.
LEMMA BlockIs ==
  ASSUME ShapeOK, NEW p \in Publisher, NEW x \in BOOLEAN, Blocks(p, x),
         pub[p].loop = "resumes" \/ (pub[p].stage = "recorded" /\ ~pub[p].stopped),
         WorldOK', UNCHANGED <<server, current>>
  PROVE  /\ ShapeOK' /\ \A q \in Publisher \ {p} : pub'[q] = pub[q]
         /\ p = current /\ SameWrite(pub[p], pub'[p])
         /\ pub'[p].stopped = pub[p].stopped /\ pub'[p].state = "blocked" /\ pub'[p].loop = "done"
         /\ pub'[p].read = Absent /\ pub'[p].index = pub[p].index /\ pub'[p].refused = x
         /\ pub'[p].queue = <<>> /\ pub'[p].entry = NoEntry /\ pub'[p].stage = "none"
         /\ dropped' = dropped \cup {pub[p].queue[i] : i \in DOMAIN pub[p].queue} \cup ({pub[p].entry} \ {NoEntry})
         /\ doubt' = doubt \cup ({pub[p].entry} \ {NoEntry})
<1> DEFINE o == pub[p]
           r == [o EXCEPT !.read = Absent, !.refused = x]
           k == [o EXCEPT !.read = Absent, !.refused = x, !.state = "blocked", !.loop = "done", !.queue = <<>>,
                          !.entry = NoEntry, !.stage = "none"]
<1>1. o \in Record /\ HoldingOK(o) /\ ~o.evicted /\ p = current
  BY NotEvicted DEF HoldingOK, EvictedOK
<1>2. k = [r EXCEPT !.state = "blocked", !.loop = "done", !.queue = <<>>, !.entry = NoEntry, !.stage = "none"]
  BY <1>1 DEF Record
<1>3. Becomes(p, k)
  BY <1>2 DEF Blocks, Block
<1>4. k \in Record
  <2>1. k = BlockedBe(o, x)
    BY DEF BlockedBe
  <2> HIDE DEF k, o
  <2> QED
    BY <1>1, <2>1, BlockedRecord
<1>5. HoldingOK(k)
  <2>1. /\ k.state = "blocked" /\ k.loop = "done" /\ k.read = Absent /\ k.stopped = o.stopped /\ k.evicted = o.evicted
        /\ k.drained = o.drained /\ k.late = o.late /\ k.queue = <<>> /\ k.io = o.io /\ k.file = o.file
        /\ k.text = o.text /\ k.stage = "none" /\ k.entry = NoEntry /\ k.chain = o.chain
    BY <1>1 DEF Record
  <2> HIDE DEF k
  <2>2. EvictedOK(k) /\ ResumingOK(k) /\ StoppedOK(k)
    BY <1>1, <2>1 DEF HoldingOK, EvictedOK, ResumingOK, StoppedOK
  <2>3. WriteOK(k)
    BY <1>1, <2>1 DEF HoldingOK, WriteOK
  <2> QED
    BY <2>2, <2>3 DEF HoldingOK
<1>6. k.evicted = o.evicted /\ k.stopped = o.stopped /\ k.drained = o.drained
  BY <1>1 DEF Record
<1>7. /\ dropped' = dropped \cup {o.queue[i] : i \in DOMAIN o.queue} \cup ({o.entry} \ {NoEntry})
      /\ doubt' = doubt \cup ({o.entry} \ {NoEntry})
  BY <1>1 DEF Blocks, Block, Record
<1> HIDE DEF k
<1>8. ShapeOK'
  BY <1>1, <1>3, <1>4, <1>5, <1>6, StepShape
<1>9. pub'[p] = k /\ \A q \in Publisher \ {p} : pub'[q] = pub[q]
  BY <1>1, <1>3, <1>4, <1>5, <1>6, BecomesIs
<1> QED
  BY <1>1, <1>7, <1>8, <1>9 DEF k, Record, SameWrite

\* The last slot that holds something.
LEMMA LastWrittenIs == LastWritten \in Nat \cup {-1}
<1>1. IsFiniteSet(Slot)
  BY FS_Interval, ConstantsAssumption DEF Slot
<1>2. IsFiniteSet({s \in Slot : feed[s] # {}})
  BY <1>1, FS_Subset
<1>3. Cardinality({s \in Slot : feed[s] # {}}) \in Nat
  BY <1>2, FS_CardinalityType
<1> QED
  BY <1>3 DEF LastWritten

\* What a publisher that resumed goes by.
ReadyAs(r, k) ==
  /\ k.state = "ready" /\ k.loop = "done" /\ k.read = Absent /\ k.queue = r.queue /\ k.stopped = r.stopped
  /\ k.io = r.io /\ k.file = r.file /\ k.text = r.text /\ r.io = "none" /\ r.chain = <<>>
  /\ k.entry = r.read.entry /\ k.stage = (IF r.read.entry = NoEntry THEN "none" ELSE "recorded")
  /\ k.index = (IF r.read = Absent THEN LastWritten ELSE r.read.index)
  /\ k.chain = (IF r.read = Absent THEN <<"first">> ELSE <<>>)

ReadyBe(r, index, entry, stage, chain, saving) ==
  [r EXCEPT !.state = "ready", !.loop = "done", !.read = Absent, !.tip = FALSE, !.late = r.stopped,
            !.index = index, !.entry = entry, !.stage = stage, !.chain = chain, !.saving = saving]

\* The record of a publisher that became ready, field by field.
LEMMA ReadyRecord ==
  ASSUME NEW r \in Record, NEW index \in Nat \cup {-1}, NEW entry \in Message \cup {NoEntry}, NEW stage \in Stage,
         NEW chain \in Seq(Reason), NEW saving \in BOOLEAN, NEW k, k = ReadyBe(r, index, entry, stage, chain, saving)
  PROVE  /\ k \in Record
         /\ k.state = "ready" /\ k.loop = "done" /\ k.read = Absent /\ k.stopped = r.stopped /\ k.evicted = r.evicted
         /\ k.drained = r.drained /\ k.late = r.stopped /\ k.queue = r.queue /\ k.io = r.io /\ k.file = r.file
         /\ k.text = r.text /\ k.stage = stage /\ k.entry = entry /\ k.chain = chain /\ k.index = index
<1>1. Absent \in Text /\ r.stopped \in BOOLEAN
  BY TextIs DEF Record
<1>2. k \in Record
  BY <1>1, ZenonT(60) DEF Record, ReadyBe
<1>3. /\ k.state = "ready" /\ k.loop = "done" /\ k.read = Absent /\ k.stopped = r.stopped /\ k.evicted = r.evicted
      /\ k.drained = r.drained /\ k.late = r.stopped /\ k.queue = r.queue /\ k.io = r.io /\ k.file = r.file
  BY <1>1 DEF Record, ReadyBe
<1>4. k.text = r.text /\ k.stage = stage /\ k.entry = entry /\ k.chain = chain /\ k.index = index
  BY <1>1 DEF Record, ReadyBe
<1> QED
  BY <1>2, <1>3, <1>4

\* enterReady() goes by what was read, and keeps the promises of HoldingOK.
LEMMA ReadyIs ==
  ASSUME ShapeOK, NEW p \in Publisher, pub[p].loop = "resumes", pub[p].read # Half,
         NEW saving \in BOOLEAN, Becomes(p, Ready(pub[p], saving)), WorldOK', UNCHANGED <<server, current>>
  PROVE  /\ ShapeOK' /\ \A q \in Publisher \ {p} : pub'[q] = pub[q]
         /\ p = current /\ ReadyAs(pub[p], pub'[p])
<1> DEFINE r == pub[p]
           new == r.read = Absent
           index == IF new THEN LastWritten ELSE r.read.index
           stage == IF r.read.entry = NoEntry THEN "none" ELSE "recorded"
           chain == IF new THEN <<"first">> ELSE <<>>
           held == IF new THEN FALSE ELSE saving
           k == ReadyBe(r, index, r.read.entry, stage, chain, held)
<1>1. /\ r \in Record /\ HoldingOK(r) /\ ~r.evicted /\ p = current /\ r.loop = "resumes" /\ r.read \in Text
      /\ r.chain = <<>> /\ r.io = "none" /\ ~r.saving /\ ~r.drained
  BY NotEvicted DEF HoldingOK, EvictedOK, ResumingOK, StoppedOK, WriteOK, Record
<1>2. Ready(r, saving) = k
  <2> DEFINE at(i, s) == [r EXCEPT !.state = "ready", !.loop = "done", !.read = Absent, !.tip = FALSE, !.late = r.stopped,
                                   !.index = i, !.entry = r.read.entry, !.stage = s]
  <2>0. r \in Record /\ r.saving = FALSE /\ r.chain = <<>>
    BY <1>1 DEF Record
  <2>1. ASSUME NEW i, NEW s, NEW c
        PROVE  [at(i, s) EXCEPT !.chain = c] = ReadyBe(r, i, r.read.entry, s, c, FALSE)
    BY <2>0, ZenonT(60) DEF ReadyBe, Record
  <2>2. ASSUME NEW i, NEW s
        PROVE  /\ [at(i, s) EXCEPT !.saving = saving] = ReadyBe(r, i, r.read.entry, s, <<>>, saving)
               /\ at(i, s).chain = <<>>
    BY <2>0, ZenonT(60) DEF ReadyBe, Record
  <2>3. CASE new
    <3>1. Ready(r, saving) = [at(LastWritten, stage) EXCEPT !.chain = Append(@, "first")]
      BY <2>3 DEF Ready, Awaits
    <3>2. Append(at(LastWritten, stage).chain, "first") = <<"first">>
      <4>1. Append(<<>>, "first") = <<"first">>
        OBVIOUS
      <4> HIDE DEF at
      <4> QED
        BY <2>2, <4>1
    <3>3. k = ReadyBe(r, LastWritten, r.read.entry, stage, <<"first">>, FALSE)
      BY <2>3
    <3>4. Ready(r, saving) = [at(LastWritten, stage) EXCEPT !.chain = <<"first">>]
      BY <3>1, <3>2
    <3> HIDE DEF at, k, stage
    <3> QED
      BY <2>1, <3>3, <3>4
  <2>4. CASE ~new
    <3>1. Ready(r, saving) = [at(r.read.index, stage) EXCEPT !.saving = saving]
      BY <2>4 DEF Ready
    <3>2. k = ReadyBe(r, r.read.index, r.read.entry, stage, <<>>, saving)
      BY <2>4
    <3> HIDE DEF at, k, stage
    <3> QED
      BY <2>2, <3>1, <3>2
  <2> QED
    BY <2>3, <2>4
<1>3. index \in Nat \cup {-1}
  <2>1. ~new => r.read \in [index : Nat \cup {-1}, entry : Message \cup {NoEntry}]
    BY <1>1 DEF Text
  <2>2. ~new => r.read.index \in Nat \cup {-1}
    BY <2>1
  <2> QED
    BY <2>2, LastWrittenIs
<1>4. /\ r.read.entry \in Message \cup {NoEntry} /\ Absent \in Text
      /\ stage \in {"none", "recorded"} /\ stage \in Stage
      /\ stage = "none" <=> r.read.entry = NoEntry
  <2>1. r.read.entry \in Message \cup {NoEntry} /\ Absent \in Text
    BY <1>1, TextIs
  <2>2. stage = "none" <=> r.read.entry = NoEntry
    OBVIOUS
  <2>3. stage \in {"none", "recorded"} /\ stage \in Stage
    BY DEF Stage
  <2> QED
    BY <2>1, <2>2, <2>3
<1>5. held \in BOOLEAN
  OBVIOUS
<1>6. /\ chain \in Seq(Reason)
      /\ \A i \in 1 .. Len(chain) : chain[i] # "record"
  <2>1. CASE new
    <3>1. chain = <<"first">> /\ "first" \in Reason
      BY <2>1 DEF Reason
    <3> HIDE DEF chain
    <3> QED
      BY <3>1
  <2>2. CASE ~new
    <3>1. chain = <<>>
      BY <2>2
    <3> HIDE DEF chain
    <3> QED
      BY <3>1
  <2> QED
    BY <2>1, <2>2
<1> HIDE DEF index, stage, chain, held, k
<1>7. /\ k \in Record
      /\ k.state = "ready" /\ k.loop = "done" /\ k.read = Absent /\ k.stopped = r.stopped /\ k.evicted = r.evicted
      /\ k.drained = r.drained /\ k.late = r.stopped /\ k.queue = r.queue /\ k.io = r.io /\ k.file = r.file
      /\ k.text = r.text /\ k.stage = stage /\ k.entry = r.read.entry /\ k.chain = chain /\ k.index = index
  <2>1. k = ReadyBe(r, index, r.read.entry, stage, chain, held)
    BY DEF k
  <2>2. r \in Record /\ r.read.entry \in Message \cup {NoEntry} /\ stage \in Stage /\ chain \in Seq(Reason)
    BY <1>1, <1>4, <1>6
  <2> HIDE DEF r
  <2> QED
    BY <1>3, <1>5, <2>1, <2>2, ReadyRecord
<1>8. Becomes(p, k)
  BY <1>2
<1>9. HoldingOK(k)
  <2>1. EvictedOK(k) /\ ResumingOK(k)
    BY <1>1, <1>7 DEF EvictedOK, ResumingOK
  <2>2. StoppedOK(k)
    BY <1>1, <1>4, <1>7 DEF HoldingOK, StoppedOK
  <2>3. WriteOK(k)
    BY <1>1, <1>4, <1>6, <1>7 DEF HoldingOK, WriteOK
  <2> QED
    BY <2>1, <2>2, <2>3 DEF HoldingOK
<1>10. ShapeOK'
  BY <1>1, <1>7, <1>8, <1>9, StepShape
<1>11. pub'[p] = k /\ \A q \in Publisher \ {p} : pub'[q] = pub[q]
  BY <1>1, <1>7, <1>8, <1>9, BecomesIs
<1> QED
  BY <1>1, <1>7, <1>10, <1>11 DEF ReadyAs, index, stage, chain

\* stop() of a publisher, by drain() or by an eviction, drops what is not recorded.
StoppedAs(r, k) ==
  /\ k.stopped /\ k.loop = r.loop /\ k.read = r.read /\ SameWrite(r, k) /\ k.queue = <<>>
  /\ k.entry = (IF r.stage = "staged" THEN NoEntry ELSE r.entry)
  /\ k.stage = (IF r.stage = "staged" THEN "none" ELSE r.stage)
  /\ k.state = "blocked" => k.refused = r.refused

\* What Stopped() changes in a record, and what it does not.
LEMMA StoppedAsIs ==
  ASSUME NEW r \in Record
  PROVE  /\ StoppedAs(r, Stopped(r)) /\ StoppedAs(r, [Stopped(r) EXCEPT !.evicted = TRUE])
         /\ Stopped(r).index = r.index /\ Stopped(r).drained = r.drained /\ Stopped(r).evicted = r.evicted
         /\ [Stopped(r) EXCEPT !.evicted = TRUE].index = r.index
         /\ Stopped(r).state = (IF r.state = "blocked" THEN "blocked" ELSE "stopped")
         /\ [Stopped(r) EXCEPT !.evicted = TRUE].state = (IF r.state = "blocked" THEN "blocked" ELSE "stopped")
         /\ [Stopped(r) EXCEPT !.evicted = TRUE].evicted
BY DEF Record, Stopped, StoppedAs, SameWrite

\* At the deadline every publisher in chats is stopped.
LEMMA DrainStopsIs ==
  ASSUME ShapeOK, DrainStops
  PROVE  /\ ShapeOK' /\ current \in Publisher /\ \A q \in Publisher \ {current} : pub'[q] = pub[q]
         /\ StoppedAs(pub[current], pub'[current]) /\ pub'[current].index = pub[current].index
         /\ pub'[current].state = (IF pub[current].state = "blocked" THEN "blocked" ELSE "stopped")
         /\ dropped' = dropped \cup Drops(pub[current]) /\ doubt' = doubt \cup InDoubt(pub[current])
         /\ UNCHANGED <<server_vars, file_vars, feed, accepted, overlap>> /\ ~pub[current].stopped
<1> DEFINE p == current
           r == pub[p]
           k == Stopped(r)
<1>1. /\ p \in Publisher /\ r \in Record /\ HoldingOK(r) /\ ~r.evicted /\ ~r.stopped /\ server = "draining"
  BY DEF DrainStops, ShapeOK, TypesOK, WorldOK, OwnersOK
<1>2. /\ Becomes(p, k) /\ UNCHANGED <<server_vars, file_vars, feed, accepted, overlap>>
      /\ dropped' = dropped \cup Drops(r) /\ doubt' = doubt \cup InDoubt(r)
  BY DEF DrainStops
<1>3. k \in Record /\ HoldingOK(k)
  BY <1>1, StoppedIs
<1>4. StoppedAs(r, k) /\ k.index = r.index /\ k.state = (IF r.state = "blocked" THEN "blocked" ELSE "stopped")
      /\ k.evicted = r.evicted /\ k.drained = r.drained
  BY <1>1, StoppedAsIs
<1>5. WorldOK'
  <2>1. Drops(r) \subseteq Message /\ InDoubt(r) \subseteq Drops(r)
    BY <1>1 DEF Drops, InDoubt, Record, HoldingOK, WriteOK
  <2> QED
    BY <1>2, <2>1 DEF ShapeOK, TypesOK, WorldOK, server_vars, file_vars
<1> HIDE DEF k
<1>6. pub'[p] = k /\ \A q \in Publisher \ {p} : pub'[q] = pub[q]
  BY <1>1, <1>2, <1>3, <1>4, BecomesIs
<1>7. pub' \in [Publisher -> Record] /\ \A q \in Publisher : HoldingOK(pub'[q])
  BY <1>1, <1>2, <1>3, BecomesIs
<1>8. OwnersOK'
  <2>1. current' = current /\ server' = "draining" /\ current # None /\ OwnersOK
    BY <1>1, <1>2, ConstantsAssumption DEF server_vars, ShapeOK
  <2> QED
    BY <1>1, <1>4, <1>6, <2>1 DEF OwnersOK
<1> QED
  BY <1>1, <1>2, <1>4, <1>5, <1>6, <1>7, <1>8 DEF ShapeOK, TypesOK

\* An eviction drops nothing: only a publisher that holds no message is chosen.
LEMMA OtherOpensIs ==
  ASSUME ShapeOK, NEW t \in Other, OtherOpens(t)
  PROVE  /\ ShapeOK' /\ UNCHANGED <<server, boots, crashes, file_vars, log_vars>>
         /\ \/ UNCHANGED <<pub, current>>
            \/ /\ current \in Publisher /\ current' = None /\ \A q \in Publisher \ {current} : pub'[q] = pub[q]
               /\ pub[current].queue = <<>> /\ pub[current].entry = NoEntry /\ pub[current].stage = "none"
               /\ pub[current].loop = "done"
               /\ StoppedAs(pub[current], pub'[current])
               /\ pub'[current].evicted /\ pub'[current].state \in {"stopped", "blocked"}
               /\ pub'[current].state = "blocked" => pub[current].state = "blocked"
               /\ pub'[current].chain # <<>> => pub'[current].index = pub[current].index
               /\ pub'[current].index \in {pub[current].index, -1}
<1>1. PICK gone \in Room(t) :
        /\ others' = (others \ gone) \cup {t}
        /\ IF Chat \in gone
             THEN /\ evictions < MaxEvictions /\ evictions' = evictions + 1
                  /\ current' = None
                  /\ dropped' = dropped \cup Drops(pub[current]) /\ doubt' = doubt \cup InDoubt(pub[current])
                  /\ Becomes(current, [Stopped(pub[current]) EXCEPT !.evicted = TRUE])
             ELSE UNCHANGED <<current, evictions, pub, dropped, doubt>>
  BY DEF OtherOpens
<1>2. UNCHANGED <<server, boots, crashes, file_vars, feed, accepted, overlap>> /\ server = "up"
  BY DEF OtherOpens
<1>3. CASE Chat \notin gone
  <2>1. UNCHANGED <<current, evictions, pub, dropped, doubt>>
    BY <1>1, <1>3
  <2>2. WorldOK' /\ OwnersOK'
    BY <1>1, <1>2, <2>1 DEF ShapeOK, TypesOK, WorldOK, OwnersOK, file_vars
  <2> QED
    BY <1>2, <2>1, <2>2 DEF ShapeOK, TypesOK, log_vars
<1>4. CASE Chat \in gone
  <2> DEFINE p == current
             r == pub[p]
             k == [Stopped(r) EXCEPT !.evicted = TRUE]
  <2>1. current # None /\ Idle(r)
    <3>1. PICK u \in Pattern : Quiet(u) /\ gone = {u}
      BY <1>4 DEF Room
    <3>2. u = Chat
      BY <1>4, <3>1
    <3> QED
      BY <3>1, <3>2, ConstantsAssumption DEF Pattern, Quiet, ShapeOK, TypesOK, WorldOK
  <2>2. /\ p \in Publisher /\ r \in Record /\ HoldingOK(r) /\ r.loop = "done" /\ r.queue = <<>> /\ r.entry = NoEntry
        /\ r.stage = "none"
    BY <2>1 DEF Idle, ShapeOK, TypesOK, WorldOK, HoldingOK, ResumingOK, WriteOK
  <2>3. /\ evictions < MaxEvictions /\ evictions' = evictions + 1 /\ current' = None
        /\ dropped' = dropped \cup Drops(r) /\ doubt' = doubt \cup InDoubt(r) /\ Becomes(p, k)
        /\ others' = (others \ gone) \cup {t}
    BY <1>1, <1>4
  <2>4. Drops(r) = {} /\ InDoubt(r) = {}
    BY <2>2 DEF Drops, InDoubt
  <2>5. dropped' = dropped /\ doubt' = doubt
    BY <2>3, <2>4
  <2>6. k \in Record /\ HoldingOK(k)
    BY <2>1, <2>2, StoppedIs
  <2>7. /\ StoppedAs(r, k) /\ k.index = r.index /\ k.state = (IF r.state = "blocked" THEN "blocked" ELSE "stopped")
        /\ k.evicted
    BY <2>2, StoppedAsIs
  <2> HIDE DEF k
  <2>8. /\ pub' \in [Publisher -> Record] /\ \A q \in Publisher : HoldingOK(pub'[q])
        /\ \A q \in Publisher \ {p} : pub'[q] = pub[q]
        /\ Same(k, pub'[p])
        /\ pub'[p] = k \/ pub'[p] = Blank
    BY <2>2, <2>3, <2>6, BecomesIs
  <2>9. StoppedAs(r, pub'[p]) /\ pub'[p].evicted
    <3>1. Blank.state = "stopped"
      BY DEF Blank, Opened
    <3>2. pub'[p].state = "blocked" => pub'[p].refused = r.refused
      BY <2>7, <2>8, <3>1 DEF StoppedAs
    <3> QED
      BY <2>7, <2>8, <3>2 DEF StoppedAs, Same, SameWrite
  <2>10. /\ pub'[p].state \in {"stopped", "blocked"} /\ (pub'[p].state = "blocked" => r.state = "blocked")
         /\ pub'[p].chain # <<>> => pub'[p].index = r.index
         /\ pub'[p].index \in {r.index, -1}
    <3>1. Blank.state = "stopped" /\ Blank.chain = <<>> /\ Blank.index = -1
      BY DEF Blank, Opened
    <3>2. CASE pub'[p] = k
      BY <2>7, <3>2
    <3>3. CASE pub'[p] = Blank
      BY <3>1, <3>3
    <3> QED
      BY <2>8, <3>2, <3>3
  <2>11. WorldOK'
    BY <1>2, <2>3, <2>5, ConstantsAssumption DEF ShapeOK, TypesOK, WorldOK, file_vars
  <2>12. OwnersOK'
    BY <1>2, <2>3, <2>8, <2>9 DEF OwnersOK, ShapeOK
  <2> QED
    BY <1>2, <2>2, <2>3, <2>5, <2>8, <2>9, <2>10, <2>11, <2>12 DEF ShapeOK, TypesOK, log_vars
<1> QED
  BY <1>3, <1>4

\* A publisher that is opened takes a free place.
LEMMA OpensIs ==
  ASSUME ShapeOK, NEW r \in Record, HoldingOK(r), ~r.evicted, ~r.stopped, server = "up", server' = "up", current = None,
         Opens(r), UNCHANGED <<evictions, boots, crashes, file_vars, feed, dropped, doubt>>,
         accepted' \in 0 .. MaxMessages
  PROVE  /\ ShapeOK' /\ current' \in Publisher /\ pub[current'] = Blank /\ pub'[current'] = r
         /\ \A q \in Publisher \ {current'} : pub'[q] = pub[q]
         /\ overlap' = (overlap \/ \E p \in Publisher : pub[p].chain # <<>>)
<1> DEFINE new == CHOOSE p \in Publisher : pub[p] = Blank
<1>1. /\ \E p \in Publisher : pub[p] = Blank
      /\ current' = new /\ pub' = [pub EXCEPT ![new] = r]
      /\ overlap' = (overlap \/ \E p \in Publisher : pub[p].chain # <<>>)
      /\ \E gone \in Room(Chat) : others' = others \ gone
  BY DEF Opens
<1>2. new \in Publisher /\ pub[new] = Blank
  BY <1>1
<1>3. pub \in [Publisher -> Record] /\ \A q \in Publisher : HoldingOK(pub[q])
  BY DEF ShapeOK, TypesOK
<1> HIDE DEF new
<1>4. pub'[new] = r /\ \A q \in Publisher \ {new} : pub'[q] = pub[q]
  BY <1>1, <1>2, <1>3
<1>5. pub' \in [Publisher -> Record] /\ \A q \in Publisher : HoldingOK(pub'[q])
  BY <1>1, <1>2, <1>3, <1>4
<1>6. WorldOK'
  <2>1. others' \subseteq Other
    BY <1>1 DEF ShapeOK, TypesOK, WorldOK
  <2>2. overlap' \in BOOLEAN
    BY <1>1 DEF ShapeOK, TypesOK, WorldOK
  <2> QED
    BY <1>1, <1>2, <2>1, <2>2 DEF ShapeOK, TypesOK, WorldOK, file_vars
<1>7. OwnersOK'
  <2>1. new # None /\ \A q \in Publisher : pub[q].evicted
    BY <1>2, ConstantsAssumption DEF ShapeOK, OwnersOK
  <2> QED
    BY <1>1, <1>4, <2>1 DEF OwnersOK
<1> QED
  BY <1>1, <1>2, <1>4, <1>5, <1>6, <1>7 DEF ShapeOK, TypesOK

\* offer() appends to the queue.
LEMMA OfferedIs ==
  ASSUME NEW r \in Record, HoldingOK(r), r.state \in {"resuming", "ready"}, ~r.stopped, NEW m \in Message
  PROVE  /\ Offered(r, m) \in Record /\ HoldingOK(Offered(r, m))
         /\ SameWrite(r, Offered(r, m)) /\ SameLoop(r, Offered(r, m))
         /\ Offered(r, m).queue = Append(r.queue, m) /\ Offered(r, m).entry = r.entry /\ Offered(r, m).stage = r.stage
         /\ Offered(r, m).index = r.index /\ Offered(r, m).state = r.state /\ Offered(r, m).stopped = r.stopped
         /\ Offered(r, m).evicted = r.evicted /\ Offered(r, m).drained = r.drained
<1> DEFINE k == [r EXCEPT !.queue = Append(@, m), !.quiet = 0]
<1>1. Append(r.queue, m) \in Seq(Message) /\ 0 \in 0 .. IdleEvict
  BY ConstantsAssumption DEF Record
<1>2. k \in Record
  BY <1>1 DEF Record
<1>3. /\ k.state = r.state /\ k.loop = r.loop /\ k.read = r.read /\ k.stopped = r.stopped /\ k.evicted = r.evicted
      /\ k.drained = r.drained /\ k.late = r.late /\ k.saving = r.saving /\ k.io = r.io /\ k.file = r.file
      /\ k.text = r.text /\ k.stage = r.stage /\ k.entry = r.entry /\ k.chain = r.chain /\ k.index = r.index
      /\ k.queue = Append(r.queue, m)
  BY DEF Record
<1>4. k = Offered(r, m)
  BY DEF Offered
<1> HIDE DEF k
<1>5. HoldingOK(k)
  <2>1. EvictedOK(k) /\ ResumingOK(k) /\ StoppedOK(k)
    BY <1>3 DEF HoldingOK, EvictedOK, ResumingOK, StoppedOK
  <2>2. WriteOK(k)
    BY <1>3 DEF HoldingOK, WriteOK, Snapshot
  <2> QED
    BY <2>1, <2>2 DEF HoldingOK
<1> QED
  BY <1>2, <1>3, <1>4, <1>5 DEF SameWrite, SameLoop

\* A message that is refused is only looked up.
LEMMA RefusesIs ==
  ASSUME ShapeOK, Refuses
  PROVE  /\ ShapeOK' /\ UNCHANGED <<server, evictions, boots, crashes, file_vars, feed, accepted, dropped, doubt>>
         /\ current = None /\ current' \in Publisher /\ pub[current'] = Blank /\ pub'[current'] = Opened
         /\ \A q \in Publisher \ {current'} : pub'[q] = pub[q]
         /\ overlap' = (overlap \/ \E p \in Publisher : pub[p].chain # <<>>)
<1>1. /\ server = "up" /\ server' = "up" /\ current = None /\ Opens(Opened)
      /\ UNCHANGED <<server, evictions, boots, crashes, file_vars, feed, accepted, dropped, doubt>>
  BY DEF Refuses
<1>2. accepted' \in 0 .. MaxMessages
  BY <1>1 DEF ShapeOK, TypesOK, WorldOK
<1>3. ~Opened.evicted /\ ~Opened.stopped
  BY DEF Opened
<1>4. Opened \in Record /\ HoldingOK(Opened)
  BY BlankIs
<1> QED
  BY <1>1, <1>2, <1>3, <1>4, OpensIs

\* The next message joins the queue of the chat's publisher, which may be opened for it.
LEMMA TakesIs ==
  ASSUME ShapeOK, Takes
  PROVE  /\ ShapeOK' /\ UNCHANGED <<server, evictions, boots, crashes, file_vars, feed, dropped, doubt>>
         /\ accepted' = accepted + 1 /\ accepted' \in Message
         /\ current' \in Publisher /\ \A q \in Publisher \ {current'} : pub'[q] = pub[q]
         /\ \/ /\ current = None /\ pub[current'] = Blank /\ pub'[current'] = Offered(Opened, accepted')
               /\ overlap' = (overlap \/ \E p \in Publisher : pub[p].chain # <<>>) /\ pub'[current'].loop = "reads"
            \/ /\ current' = current /\ pub[current].state \in {"resuming", "ready"}
               /\ pub'[current] = Offered(pub[current], accepted') /\ overlap' = overlap
               /\ pub'[current].loop = pub[current].loop
         /\ SameWrite(pub[current'], pub'[current'])
         /\ pub'[current'].queue = Append(pub[current'].queue, accepted') /\ pub'[current'].entry = pub[current'].entry
         /\ pub'[current'].stage = pub[current'].stage /\ pub'[current'].index = pub[current'].index
         /\ ~pub'[current'].stopped /\ pub'[current'].state \in {"resuming", "ready"}
         /\ pub'[current'].read = pub[current'].read
<1>1. /\ server = "up" /\ server' = "up" /\ accepted' = accepted + 1 /\ accepted' \in Message
      /\ UNCHANGED <<server, evictions, boots, crashes, file_vars, feed, dropped, doubt>>
      /\ accepted' \in 0 .. MaxMessages
  BY ConstantsAssumption DEF Takes, ShapeOK, TypesOK, WorldOK, Message
<1>2. CASE current = None /\ Opens(Offered(Opened, accepted'))
  <2>1. /\ Opened \in Record /\ HoldingOK(Opened) /\ Opened.state = "resuming" /\ ~Opened.stopped /\ ~Opened.evicted
        /\ Opened.read = Absent /\ Opened.loop = "reads"
    BY BlankIs DEF Opened
  <2>2. /\ Offered(Opened, accepted') \in Record /\ HoldingOK(Offered(Opened, accepted'))
        /\ ~Offered(Opened, accepted').evicted /\ ~Offered(Opened, accepted').stopped
    BY <1>1, <2>1, OfferedIs
  <2>3. /\ SameWrite(Opened, Offered(Opened, accepted')) /\ SameLoop(Opened, Offered(Opened, accepted'))
        /\ Offered(Opened, accepted').queue = Append(Opened.queue, accepted')
        /\ Offered(Opened, accepted').entry = Opened.entry /\ Offered(Opened, accepted').stage = Opened.stage
        /\ Offered(Opened, accepted').index = Opened.index /\ Offered(Opened, accepted').state = Opened.state
    BY <1>1, <2>1, OfferedIs
  <2>4. /\ ShapeOK' /\ current' \in Publisher /\ pub[current'] = Blank /\ pub'[current'] = Offered(Opened, accepted')
        /\ \A q \in Publisher \ {current'} : pub'[q] = pub[q]
        /\ overlap' = (overlap \/ \E p \in Publisher : pub[p].chain # <<>>)
    BY <1>1, <1>2, <2>2, OpensIs
  <2>5. /\ SameWrite(Blank, Opened) /\ Blank.queue = Opened.queue /\ Blank.entry = Opened.entry
        /\ Blank.stage = Opened.stage /\ Blank.index = Opened.index /\ Blank.read = Absent
    BY DEF Blank, Opened, SameWrite
  <2> QED
    BY <1>1, <1>2, <2>1, <2>2, <2>3, <2>4, <2>5 DEF SameWrite, SameLoop
<1>3. CASE /\ current # None /\ pub[current].state \in {"resuming", "ready"}
           /\ Becomes(current, Offered(pub[current], accepted')) /\ UNCHANGED <<current, others, overlap>>
  <2> DEFINE p == current
             r == pub[p]
             k == Offered(r, accepted')
  <2>1. p \in Publisher /\ r \in Record /\ HoldingOK(r) /\ ~r.stopped /\ ~r.evicted
    BY <1>1, <1>3 DEF ShapeOK, TypesOK, WorldOK, OwnersOK
  <2>2. /\ k \in Record /\ HoldingOK(k) /\ k.evicted = r.evicted /\ k.stopped = r.stopped /\ k.drained = r.drained
        /\ SameWrite(r, k) /\ SameLoop(r, k) /\ k.queue = Append(r.queue, accepted') /\ k.entry = r.entry
        /\ k.stage = r.stage /\ k.index = r.index /\ k.state = r.state
    BY <1>1, <1>3, <2>1, OfferedIs
  <2>3. WorldOK' /\ UNCHANGED <<server, current>>
    BY <1>1, <1>3 DEF ShapeOK, TypesOK, WorldOK, file_vars
  <2>4. Becomes(p, k)
    BY <1>3
  <2> HIDE DEF k
  <2>5. ShapeOK'
    BY <2>1, <2>2, <2>3, <2>4, StepShape
  <2>6. pub'[p] = k /\ \A q \in Publisher \ {p} : pub'[q] = pub[q]
    BY <2>1, <2>2, <2>4, BecomesIs
  <2> QED
    BY <1>1, <1>3, <2>1, <2>2, <2>3, <2>5, <2>6 DEF k, SameLoop
<1> QED
  BY <1>1, <1>2, <1>3 DEF Takes

\* A write opens the temporary file, which empties it.
LEMMA OpensTemporaryIs ==
  ASSUME ShapeOK, NEW p \in Publisher, OpensTemporary(p)
  PROVE  /\ ShapeOK' /\ \A q \in Publisher \ {p} : pub'[q] = pub[q]
         /\ UNCHANGED <<server_vars, path, log_vars>> /\ temp' = Half
         /\ pub[p].chain # <<>> /\ pub[p].io = "none" /\ pub[p].loop = "done"
         /\ SameHeld(pub[p], pub'[p]) /\ SameLoop(pub[p], pub'[p]) /\ pub'[p].chain = pub[p].chain
         /\ pub'[p].io = "opened" /\ pub'[p].file = "temp" /\ pub'[p].text = Snapshot(pub[p])
<1> DEFINE r == pub[p]
           k == [r EXCEPT !.io = "opened", !.file = "temp", !.text = Snapshot(r)]
<1>1. /\ r \in Record /\ HoldingOK(r) /\ r.chain # <<>> /\ r.io = "none" /\ r.loop = "done"
      /\ Snapshot(r) \in Text
  BY NotEvicted, TextIs DEF OpensTemporary, HoldingOK, ResumingOK
<1>2. Becomes(p, k) /\ UNCHANGED <<server_vars, path, log_vars>> /\ temp' = Half
  BY DEF OpensTemporary, Snapshot
<1>3. k \in Record
  BY <1>1 DEF Record
<1>4. /\ k.evicted = r.evicted /\ k.stopped = r.stopped /\ k.drained = r.drained /\ k.late = r.late
      /\ SameHeld(r, k) /\ SameLoop(r, k) /\ k.chain = r.chain /\ k.saving = r.saving
      /\ k.io = "opened" /\ k.file = "temp" /\ k.text = Snapshot(r)
  BY <1>1 DEF Record, SameHeld, SameLoop
<1> HIDE DEF k
<1>5. HoldingOK(k)
  <2>1. EvictedOK(k) /\ ResumingOK(k) /\ StoppedOK(k)
    BY <1>1, <1>4 DEF HoldingOK, EvictedOK, ResumingOK, StoppedOK, SameHeld, SameLoop
  <2>2. Snapshot(k) = Snapshot(r)
    BY <1>4 DEF SameHeld, Snapshot
  <2>3. WriteOK(k)
    BY <1>1, <1>4, <2>2 DEF HoldingOK, WriteOK, SameHeld
  <2> QED
    BY <2>1, <2>3 DEF HoldingOK
<1>6. WorldOK' /\ UNCHANGED <<server, current>>
  BY <1>2, TextIs DEF ShapeOK, TypesOK, WorldOK, server_vars, log_vars
<1>7. ShapeOK'
  BY <1>1, <1>2, <1>3, <1>4, <1>5, <1>6, StepShape
<1>8. pub'[p] = k /\ \A q \in Publisher \ {p} : pub'[q] = pub[q]
  <2>1. /\ \A q \in Publisher \ {p} : pub'[q] = pub[q]
        /\ Same(k, pub'[p]) /\ (pub'[p] = k \/ pub'[p] = Blank)
    BY <1>2, <1>3, <1>5, BecomesIs
  <2>2. Blank.chain = <<>>
    BY DEF Blank, Opened
  <2> QED
    BY <1>1, <1>4, <2>1, <2>2 DEF Same
<1> QED
  BY <1>1, <1>2, <1>4, <1>7, <1>8

\* It writes its text where its handle leads by now.
LEMMA WritesFileIs ==
  ASSUME ShapeOK, NEW p \in Publisher, WritesFile(p)
  PROVE  /\ ShapeOK' /\ \A q \in Publisher \ {p} : pub'[q] = pub[q]
         /\ UNCHANGED <<server_vars, log_vars>>
         /\ pub[p].io = "opened" /\ pub[p].loop = "done"
         /\ SameHeld(pub[p], pub'[p]) /\ SameLoop(pub[p], pub'[p]) /\ pub'[p].chain = pub[p].chain
         /\ pub'[p].io = "written" /\ pub'[p].file = pub[p].file /\ pub'[p].text = pub[p].text
         /\ \E text \in Texts(p) :
              /\ path' = IF pub[p].file = "path" THEN text ELSE path
              /\ temp' = IF pub[p].file = "temp" THEN text ELSE temp
<1> DEFINE r == pub[p]
           k == [r EXCEPT !.io = "written"]
<1>1. /\ r \in Record /\ HoldingOK(r) /\ r.io = "opened" /\ r.chain # <<>> /\ r.loop = "done"
  BY NotEvicted DEF WritesFile, HoldingOK, ResumingOK, WriteOK
<1>2. Becomes(p, k) /\ UNCHANGED <<server_vars, log_vars>>
  BY DEF WritesFile
<1>3. PICK text \in Texts(p) :
        /\ path' = IF r.file = "path" THEN text ELSE path
        /\ temp' = IF r.file = "temp" THEN text ELSE temp
  BY DEF WritesFile
<1>4. k \in Record
  BY <1>1 DEF Record
<1>5. /\ k.evicted = r.evicted /\ k.stopped = r.stopped /\ k.drained = r.drained /\ k.late = r.late
      /\ SameHeld(r, k) /\ SameLoop(r, k) /\ k.chain = r.chain /\ k.saving = r.saving
      /\ k.io = "written" /\ k.file = r.file /\ k.text = r.text
  BY <1>1 DEF Record, SameHeld, SameLoop
<1> HIDE DEF k
<1>6. HoldingOK(k)
  <2>1. EvictedOK(k) /\ ResumingOK(k) /\ StoppedOK(k)
    BY <1>1, <1>5 DEF HoldingOK, EvictedOK, ResumingOK, StoppedOK, SameHeld, SameLoop
  <2>2. Snapshot(k) = Snapshot(r)
    BY <1>5 DEF SameHeld, Snapshot
  <2>3. WriteOK(k)
    BY <1>1, <1>5, <2>2 DEF HoldingOK, WriteOK, SameHeld
  <2> QED
    BY <2>1, <2>3 DEF HoldingOK
<1>7. WorldOK' /\ UNCHANGED <<server, current>>
  <2>1. text \in Text
    BY <1>1, TextIs DEF Texts, Record
  <2> QED
    BY <1>2, <1>3, <2>1 DEF ShapeOK, TypesOK, WorldOK, server_vars, log_vars
<1>8. ShapeOK'
  BY <1>1, <1>2, <1>4, <1>5, <1>6, <1>7, StepShape
<1>9. pub'[p] = k /\ \A q \in Publisher \ {p} : pub'[q] = pub[q]
  <2>1. /\ \A q \in Publisher \ {p} : pub'[q] = pub[q]
        /\ Same(k, pub'[p]) /\ (pub'[p] = k \/ pub'[p] = Blank)
    BY <1>2, <1>4, <1>6, BecomesIs
  <2>2. Blank.chain = <<>>
    BY DEF Blank, Opened
  <2> QED
    BY <1>1, <1>5, <2>1, <2>2 DEF Same
<1> QED
  BY <1>1, <1>2, <1>3, <1>5, <1>8, <1>9

\* What is left of the chain when its first write ended.
LEMMA TailIs ==
  ASSUME NEW c \in Seq(Reason), c # <<>>
  PROVE  /\ Tail(c) \in Seq(Reason) /\ Head(c) \in Reason /\ Len(c) \in Nat /\ Len(c) >= 1 /\ Head(c) = c[1]
         /\ Len(Tail(c)) = Len(c) - 1
         /\ \A i \in 1 .. Len(Tail(c)) : i + 1 \in 1 .. Len(c) /\ i + 1 # 1 /\ Tail(c)[i] = c[i + 1]
OBVIOUS

\* What becomes of a write that ended: it leaves the chain, and the entry it recorded goes on.
EndedAs(r, k) ==
  /\ k.stopped = r.stopped /\ k.evicted = r.evicted /\ k.drained = r.drained /\ k.late = r.late
  /\ SameLoop(r, k) /\ k.queue = r.queue /\ k.entry = r.entry /\ k.index = r.index /\ k.state = r.state
  /\ k.refused = r.refused /\ k.io = "none" /\ k.file = "none" /\ k.text = Absent

\* The first write leaves the chain.
LEMMA EndedIs ==
  ASSUME NEW r \in Record, HoldingOK(r), r.io # "none", NEW ok \in BOOLEAN
  PROVE  /\ Ended(r, ok) \in Record /\ HoldingOK(Ended(r, ok)) /\ EndedAs(r, Ended(r, ok))
         /\ \/ Ended(r, ok).stage = r.stage
            \/ r.stage = "staged" /\ Head(r.chain) = "record" /\ ok /\ Ended(r, ok).stage = "recorded"
         /\ r.stage = "staged" /\ Head(r.chain) = "record" /\ ok => Ended(r, ok).stage = "recorded"
<1> DEFINE staged == Head(r.chain) = "record" /\ r.stage = "staged"
           saves == Head(r.chain) = "confirm" \/ (Head(r.chain) = "first" /\ r.index >= 0)
           next == [r EXCEPT !.chain = Tail(@), !.io = "none", !.file = "none", !.text = Absent]
           done == [next EXCEPT !.stage = "recorded"]
           again == [next EXCEPT !.chain = Append(@, "record")]
           saved == [next EXCEPT !.saving = TRUE]
<1>1. /\ r.chain \in Seq(Reason) /\ r.chain # <<>> /\ r.loop = "done" /\ Absent \in Text /\ "record" \in Reason
      /\ "recorded" \in Stage
  BY TextIs DEF HoldingOK, WriteOK, ResumingOK, Record, Reason, Stage
<1>2. Tail(r.chain) \in Seq(Reason) /\ Append(Tail(r.chain), "record") \in Seq(Reason)
  BY <1>1
<1>3. next \in Record /\ next.chain = Tail(r.chain)
  BY <1>1, <1>2 DEF Record
<1>4. EndedAs(r, next) /\ next.stage = r.stage
  BY DEF Record, EndedAs, SameLoop
<1>5. /\ EvictedOK(r) /\ ResumingOK(r) /\ StoppedOK(r) /\ WriteOK(r)
  BY DEF HoldingOK
<1> HIDE DEF next
<1>6. \A i \in 1 .. Len(Tail(r.chain)) : Tail(r.chain)[i] = "record" =>
        (r.stage = "staged" /\ Head(r.chain) # "record") \/ r.stopped \/ r.state = "blocked"
  BY <1>1, <1>5, TailIs DEF WriteOK
<1>7. \A i, j \in 1 .. Len(Tail(r.chain)) :
        Tail(r.chain)[i] = "record" /\ Tail(r.chain)[j] = "record" => i = j \/ r.stopped \/ r.state = "blocked"
  <2> SUFFICES ASSUME NEW i \in 1 .. Len(Tail(r.chain)), NEW j \in 1 .. Len(Tail(r.chain)),
                      Tail(r.chain)[i] = "record", Tail(r.chain)[j] = "record", ~r.stopped, r.state # "blocked"
               PROVE  i = j
    OBVIOUS
  <2>1. /\ i + 1 \in 1 .. Len(r.chain) /\ r.chain[i + 1] = "record"
        /\ j + 1 \in 1 .. Len(r.chain) /\ r.chain[j + 1] = "record"
    BY <1>1, TailIs
  <2>2. i + 1 = j + 1
    BY <1>5, <2>1 DEF WriteOK
  <2> QED
    BY <2>2
<1>8. CASE staged /\ ok
  <2>1. Ended(r, ok) = done
    BY <1>8 DEF Ended, next
  <2>2. done \in Record /\ done.stage = "recorded" /\ done.chain = Tail(r.chain) /\ EndedAs(r, done)
        /\ done.saving = next.saving
    BY <1>1, <1>3, <1>4 DEF Record, EndedAs, SameLoop
  <2> HIDE DEF done
  <2>3. EvictedOK(done) /\ ResumingOK(done) /\ StoppedOK(done)
    BY <1>1, <1>5, <1>8, <2>2 DEF EvictedOK, ResumingOK, StoppedOK, EndedAs, SameLoop
  <2>4. WriteOK(done)
    BY <1>5, <1>6, <1>7, <1>8, <2>2 DEF WriteOK, EndedAs
  <2> QED
    BY <1>8, <2>1, <2>2, <2>3, <2>4 DEF HoldingOK
<1>9. CASE staged /\ ~ok
  <2>1. Ended(r, ok) = again
    BY <1>9 DEF Ended, Awaits, next
  <2>2. again \in Record /\ again.stage = r.stage /\ again.chain = Append(Tail(r.chain), "record") /\ EndedAs(r, again)
    BY <1>1, <1>2, <1>3, <1>4 DEF Record, EndedAs, SameLoop
  <2> HIDE DEF again
  <2>3. ~r.stopped /\ r.state # "blocked"
    BY <1>5, <1>9 DEF StoppedOK
  <2>4. EvictedOK(again) /\ ResumingOK(again) /\ StoppedOK(again)
    BY <1>1, <1>5, <1>9, <2>2, <2>3 DEF EvictedOK, ResumingOK, StoppedOK, EndedAs, SameLoop
  <2>5. \A i \in 1 .. Len(Tail(r.chain)) : Tail(r.chain)[i] # "record"
    BY <1>6, <1>9, <2>3
  <2>6. \A i, j \in 1 .. Len(again.chain) : again.chain[i] = "record" /\ again.chain[j] = "record" => i = j
    BY <1>2, <2>2, <2>5
  <2>7. WriteOK(again)
    BY <1>5, <1>9, <2>2, <2>3, <2>6 DEF WriteOK, EndedAs
  <2> QED
    BY <1>9, <2>1, <2>2, <2>4, <2>7 DEF HoldingOK
<1>10. CASE ~staged
  <2>1. Ended(r, ok) \in {next, saved}
    BY <1>10 DEF Ended, next
  <2>2. /\ saved \in Record /\ saved.stage = r.stage /\ saved.chain = Tail(r.chain) /\ EndedAs(r, saved)
    BY <1>3, <1>4 DEF Record, EndedAs, SameLoop
  <2> HIDE DEF saved
  <2>3. ASSUME NEW k \in {next, saved} PROVE HoldingOK(k)
    <3>1. k.chain = Tail(r.chain) /\ EndedAs(r, k) /\ k.stage = r.stage
      BY <1>3, <1>4, <2>2
    <3>2. EvictedOK(k) /\ ResumingOK(k) /\ StoppedOK(k)
      BY <1>1, <1>5, <3>1 DEF EvictedOK, ResumingOK, StoppedOK, EndedAs, SameLoop
    <3>3. WriteOK(k)
      BY <1>5, <1>6, <1>7, <3>1 DEF WriteOK, EndedAs
    <3> QED
      BY <3>2, <3>3 DEF HoldingOK
  <2> QED
    BY <1>3, <1>4, <1>10, <2>1, <2>2, <2>3
<1> QED
  BY <1>8, <1>9, <1>10

\* The same for a publisher that was evicted, which its last write may end.
WroteAs(r, k) ==
  /\ k.stopped = r.stopped /\ k.evicted = r.evicted /\ SameLoop(r, k) /\ k.queue = r.queue /\ k.entry = r.entry
  /\ k.io = "none" /\ k.file = "none" /\ k.text = Absent
  /\ (k.index = r.index /\ k.state = r.state /\ k.refused = r.refused) \/ (k = Blank /\ r.evicted)

\* An entry whose write ended is recorded.
LEMMA WroteIs ==
  ASSUME NEW r \in Record, HoldingOK(r), r.io # "none", NEW ok \in BOOLEAN
  PROVE  LET k == Kept(Ended(r, ok)) IN
         /\ k \in Record /\ HoldingOK(k) /\ WroteAs(r, k) /\ (r.drained => k.drained \/ r.evicted)
         /\ \/ k.stage = r.stage
            \/ r.stage = "staged" /\ Head(r.chain) = "record" /\ ok /\ k.stage = "recorded"
         /\ r.stage = "staged" /\ Head(r.chain) = "record" /\ ok => k.stage = "recorded"
<1> DEFINE e == Ended(r, ok)
           k == Kept(e)
<1>1. /\ e \in Record /\ HoldingOK(e) /\ EndedAs(r, e)
      /\ \/ e.stage = r.stage
         \/ r.stage = "staged" /\ Head(r.chain) = "record" /\ ok /\ e.stage = "recorded"
      /\ r.stage = "staged" /\ Head(r.chain) = "record" /\ ok => e.stage = "recorded"
  BY EndedIs
<1> HIDE DEF e
<1>2. k \in Record /\ HoldingOK(k) /\ Same(e, k) /\ (k = e \/ (k = Blank /\ e.evicted))
  BY <1>1, KeptIs
<1> HIDE DEF k
<1>3. WroteAs(r, k) /\ (r.drained => k.drained \/ r.evicted) /\ k.stage = e.stage
  BY <1>1, <1>2 DEF WroteAs, EndedAs, Same, SameLoop
<1> QED
  BY <1>1, <1>2, <1>3 DEF k, e

\* A write that fails leaves the files, and the stage of the entry.
LEMMA WriteFailsIs ==
  ASSUME ShapeOK, NEW p \in Publisher, WriteFails(p)
  PROVE  /\ ShapeOK' /\ \A q \in Publisher \ {p} : pub'[q] = pub[q]
         /\ UNCHANGED <<server_vars, file_vars, log_vars>>
         /\ pub[p].io # "none" /\ (pub[p].io = "written" => temp = Absent) /\ pub[p].chain # <<>> /\ pub[p].loop = "done"
         /\ WroteAs(pub[p], pub'[p]) /\ pub'[p].stage = pub[p].stage
<1> DEFINE r == pub[p]
           k == Kept(Ended(r, FALSE))
<1>1. /\ r \in Record /\ HoldingOK(r) /\ r.io # "none" /\ (r.io = "written" => temp = Absent)
      /\ r.chain # <<>> /\ r.loop = "done"
  BY NotEvicted DEF WriteFails, HoldingOK, WriteOK, ResumingOK
<1>2. pub' = [pub EXCEPT ![p] = k] /\ UNCHANGED <<server_vars, file_vars, log_vars>>
  BY DEF WriteFails, Becomes
<1>3. /\ k \in Record /\ HoldingOK(k) /\ WroteAs(r, k) /\ (r.drained => k.drained \/ r.evicted) /\ k.stage = r.stage
  BY <1>1, WroteIs
<1> HIDE DEF k
<1>4. pub \in [Publisher -> Record] /\ \A q \in Publisher : HoldingOK(pub[q])
  BY DEF ShapeOK, TypesOK
<1>5. pub'[p] = k /\ \A q \in Publisher \ {p} : pub'[q] = pub[q]
  BY <1>2, <1>4
<1>6. pub' \in [Publisher -> Record] /\ \A q \in Publisher : HoldingOK(pub'[q])
  BY <1>2, <1>3, <1>4, <1>5
<1>7. WorldOK' /\ UNCHANGED <<server, current>>
  BY <1>2 DEF ShapeOK, TypesOK, WorldOK, server_vars, file_vars, log_vars
<1>8. OwnersOK'
  <2>1. \A q \in Publisher : /\ pub'[q].evicted = pub[q].evicted /\ pub'[q].stopped = pub[q].stopped
                             /\ pub[q].drained => pub'[q].drained \/ pub[q].evicted
    BY <1>3, <1>5 DEF WroteAs
  <2>2. OwnersOK /\ current \in Publisher \cup {None}
    BY DEF ShapeOK, TypesOK, WorldOK
  <2> QED
    BY <1>7, <2>1, <2>2 DEF OwnersOK
<1> QED
  BY <1>1, <1>2, <1>3, <1>5, <1>6, <1>7, <1>8 DEF ShapeOK, TypesOK

\* The file another handle leads to may have been renamed or replaced.
MovedAs(r, k) ==
  /\ SameHeld(r, k) /\ SameLoop(r, k) /\ k.chain = r.chain /\ k.io = r.io /\ k.text = r.text

\* Where a handle leads after a rename.
LEMMA MovedIs ==
  ASSUME NEW r \in Record, HoldingOK(r)
  PROVE  /\ Moved(r) \in Record /\ HoldingOK(Moved(r)) /\ MovedAs(r, Moved(r)) /\ Moved(r).drained = r.drained
         /\ r.file = "none" => Moved(r).file = "none"
<1> DEFINE file == CASE r.file = "temp" -> "path" [] r.file = "path" -> "gone" [] OTHER -> r.file
           k == [r EXCEPT !.file = file]
<1>1. k = Moved(r)
  BY DEF Moved
<1>2. file \in {"none", "temp", "path", "gone"} /\ (r.file = "none" => file = "none")
  BY DEF Record
<1> HIDE DEF file
<1>3. k \in Record
  BY <1>2, SMTT(60) DEF Record
<1>4. /\ MovedAs(r, k) /\ k.drained = r.drained /\ k.late = r.late /\ k.saving = r.saving /\ k.file = file
      /\ Snapshot(k) = Snapshot(r)
  BY DEF Record, MovedAs, SameHeld, SameLoop, Snapshot
<1> HIDE DEF k
<1>5. EvictedOK(k) /\ ResumingOK(k) /\ StoppedOK(k)
  BY <1>4 DEF HoldingOK, EvictedOK, ResumingOK, StoppedOK, MovedAs, SameHeld, SameLoop
<1>6. WriteOK(k)
  BY <1>2, <1>4 DEF HoldingOK, WriteOK, MovedAs, SameHeld
<1> QED
  BY <1>1, <1>2, <1>3, <1>4, <1>5, <1>6 DEF HoldingOK

\* A rename puts the temporary file at the path, for everybody's handle.
LEMMA RenamesIs ==
  ASSUME ShapeOK, NEW p \in Publisher, Renames(p)
  PROVE  /\ ShapeOK' /\ UNCHANGED <<server_vars, log_vars>> /\ path' = temp /\ temp' = Absent
         /\ pub[p].io = "written" /\ temp # Absent /\ pub[p].chain # <<>> /\ pub[p].loop = "done"
         /\ \A q \in Publisher \ {p} :
              MovedAs(pub[q], pub'[q]) /\ (pub[q].file = "none" => pub'[q].file = "none")
         /\ WroteAs(pub[p], pub'[p])
         /\ \/ pub'[p].stage = pub[p].stage
            \/ pub[p].stage = "staged" /\ Head(pub[p].chain) = "record" /\ pub'[p].stage = "recorded"
<1> DEFINE r == pub[p]
<1>1. /\ r \in Record /\ HoldingOK(r) /\ r.io = "written" /\ r.chain # <<>> /\ r.loop = "done" /\ temp # Absent
      /\ path' = temp /\ temp' = Absent /\ UNCHANGED <<server_vars, log_vars>>
  BY NotEvicted DEF Renames, HoldingOK, WriteOK, ResumingOK
<1>2. PICK ok \in BOOLEAN : pub' = [q \in Publisher |-> IF q = p THEN Kept(Ended(pub[p], ok)) ELSE Moved(pub[q])]
  BY DEF Renames
<1> DEFINE k == Kept(Ended(r, ok))
<1>3. /\ k \in Record /\ HoldingOK(k) /\ WroteAs(r, k) /\ (r.drained => k.drained \/ r.evicted)
      /\ \/ k.stage = r.stage
         \/ r.stage = "staged" /\ Head(r.chain) = "record" /\ k.stage = "recorded"
  BY <1>1, WroteIs
<1> HIDE DEF k
<1>4. pub \in [Publisher -> Record] /\ \A q \in Publisher : HoldingOK(pub[q])
  BY DEF ShapeOK, TypesOK
<1>5. pub'[p] = k /\ \A q \in Publisher \ {p} : pub'[q] = Moved(pub[q])
  BY <1>2 DEF k
<1>6. \A q \in Publisher : /\ Moved(pub[q]) \in Record /\ HoldingOK(Moved(pub[q])) /\ MovedAs(pub[q], Moved(pub[q]))
                           /\ Moved(pub[q]).drained = pub[q].drained
                           /\ pub[q].file = "none" => Moved(pub[q]).file = "none"
  BY <1>4, MovedIs
<1>7. \A q \in Publisher : pub'[q] \in Record /\ HoldingOK(pub'[q])
  BY <1>3, <1>5, <1>6
<1>8. pub' \in [Publisher -> Record]
  BY <1>2, <1>7
<1>9. WorldOK' /\ UNCHANGED <<server, current>>
  BY <1>1, TextIs DEF ShapeOK, TypesOK, WorldOK, server_vars, log_vars
<1>10. \A q \in Publisher : /\ pub'[q].evicted = pub[q].evicted /\ pub'[q].stopped = pub[q].stopped
                            /\ pub[q].drained => pub'[q].drained \/ pub[q].evicted
  BY <1>3, <1>5, <1>6 DEF WroteAs, MovedAs, SameHeld
<1>11. OwnersOK'
  <2>1. OwnersOK /\ current \in Publisher \cup {None}
    BY DEF ShapeOK, TypesOK, WorldOK
  <2> QED
    BY <1>9, <1>10, <2>1 DEF OwnersOK
<1> QED
  BY <1>1, <1>3, <1>5, <1>6, <1>7, <1>8, <1>9, <1>11 DEF ShapeOK, TypesOK

\* A resume ends ready or blocked.
LEMMA ResumesIs ==
  ASSUME ShapeOK, NEW p \in Publisher, Resumes(p)
  PROVE  /\ ShapeOK' /\ \A q \in Publisher \ {p} : pub'[q] = pub[q]
         /\ UNCHANGED <<server_vars, file_vars, feed, accepted, overlap>>
         /\ p = current /\ pub[p].loop = "resumes"
         /\ \/ /\ pub[p].read = Half \/ MayLackRows(pub[p].read)
               /\ \E x \in BOOLEAN : Blocks(p, x) /\ pub'[p].refused = x /\ (x <=> pub[p].read # Half)
            \/ /\ pub[p].read # Half /\ ReadyAs(pub[p], pub'[p]) /\ UNCHANGED <<dropped, doubt>>
<1>1. pub[p].loop = "resumes" /\ UNCHANGED <<server_vars, file_vars, feed, accepted, overlap>>
      /\ UNCHANGED <<server, current>> /\ pub[p] \in Record
  BY NotEvicted DEF Resumes, server_vars
<1>2. CASE /\ pub[p].read = Half \/ MayLackRows(pub[p].read)
           /\ Block(p, [pub[p] EXCEPT !.read = Absent, !.refused = (pub[p].read # Half)])
  <2>1. PICK x \in BOOLEAN : Blocks(p, x) /\ (x <=> pub[p].read # Half)
    BY <1>2, Zenon DEF Blocks
  <2>2. WorldOK'
    <3>1. {pub[p].queue[i] : i \in DOMAIN pub[p].queue} \subseteq Message /\ {pub[p].entry} \ {NoEntry} \subseteq Message
      BY <1>1 DEF Record
    <3>2. /\ dropped' = dropped \cup {pub[p].queue[i] : i \in DOMAIN pub[p].queue} \cup ({pub[p].entry} \ {NoEntry})
          /\ doubt' = doubt \cup ({pub[p].entry} \ {NoEntry})
      BY <1>1, <2>1 DEF Blocks, Block, Record
    <3> QED
      BY <1>1, <3>1, <3>2 DEF ShapeOK, TypesOK, WorldOK, server_vars, file_vars
  <2>3. ShapeOK' /\ p = current /\ pub'[p].refused = x /\ \A q \in Publisher \ {p} : pub'[q] = pub[q]
    BY <1>1, <2>1, <2>2, BlockIs
  <2> QED
    BY <1>1, <1>2, <2>1, <2>3
<1>3. CASE /\ pub[p].read # Half
           /\ \E saving \in BOOLEAN : Becomes(p, Ready(pub[p], saving))
           /\ UNCHANGED <<dropped, doubt>>
  <2>1. PICK saving \in BOOLEAN : Becomes(p, Ready(pub[p], saving))
    BY <1>3
  <2>2. WorldOK'
    BY <1>1, <1>3 DEF ShapeOK, TypesOK, WorldOK, server_vars, file_vars
  <2>3. ShapeOK' /\ p = current /\ ReadyAs(pub[p], pub'[p]) /\ \A q \in Publisher \ {p} : pub'[q] = pub[q]
    BY <1>1, <1>3, <2>1, <2>2, ReadyIs
  <2> QED
    BY <1>1, <1>3, <2>3
<1> QED
  BY <1>2, <1>3 DEF Resumes

\* A slot that is written holds its entry, or the chat is blocked.
LEMMA SendsIs ==
  ASSUME ShapeOK, NEW p \in Publisher, Sends(p)
  PROVE  /\ ShapeOK' /\ \A q \in Publisher \ {p} : pub'[q] = pub[q]
         /\ UNCHANGED <<server_vars, file_vars, accepted, overlap>>
         /\ p = current /\ pub[p].stage = "recorded" /\ pub[p].state = "ready" /\ ~pub[p].stopped
         /\ pub[p].loop = "done" /\ pub[p].entry \in Message /\ pub[p].read = Absent
         /\ \/ /\ feed' = [feed EXCEPT ![pub[p].index + 1] = @ \cup {pub[p].entry}] /\ UNCHANGED <<dropped, doubt>>
               /\ SameLoop(pub[p], pub'[p]) /\ SameWrite(pub[p], pub'[p])
               /\ pub'[p].stopped = pub[p].stopped /\ pub'[p].state = pub[p].state /\ pub'[p].index = pub[p].index
               /\ pub'[p].queue = pub[p].queue /\ pub'[p].entry = pub[p].entry /\ pub'[p].stage = "sent"
            \/ /\ pub[p].entry \in feed[pub[p].index + 1] /\ Becomes(p, Lands(pub[p]))
               /\ UNCHANGED <<feed, dropped, doubt>>
            \/ /\ feed[pub[p].index + 1] \ {pub[p].entry} # {} /\ feed' = feed
               /\ \E x \in BOOLEAN : Blocks(p, x)
<1> DEFINE r == pub[p]
           s == r.index + 1
<1>1. /\ r \in Record /\ HoldingOK(r) /\ r.stage = "recorded" /\ r.state = "ready" /\ ~r.stopped /\ r.loop = "done"
      /\ r.entry \in Message /\ r.read = Absent
      /\ UNCHANGED <<server_vars, file_vars, accepted, overlap>> /\ UNCHANGED <<server, current>> /\ p = current
  BY NotEvicted DEF Sends, server_vars, HoldingOK, WriteOK, ResumingOK, Record
<1>2. CASE feed' = [feed EXCEPT ![s] = @ \cup {r.entry}] /\ Becomes(p, [r EXCEPT !.stage = "sent"])
           /\ UNCHANGED <<dropped, doubt>>
  <2>1. feed' \in [Slot -> SUBSET Message]
    BY <1>1, <1>2 DEF ShapeOK, TypesOK, WorldOK
  <2>2. WorldOK'
    BY <1>1, <1>2, <2>1 DEF ShapeOK, TypesOK, WorldOK, server_vars, file_vars
  <2> QED
    BY <1>1, <1>2, <2>2, SendingIs
<1>3. CASE r.entry \in feed[s] /\ Becomes(p, Lands(r)) /\ UNCHANGED <<feed, dropped, doubt>>
  <2>1. WorldOK'
    BY <1>1, <1>3 DEF ShapeOK, TypesOK, WorldOK, server_vars, file_vars
  <2> QED
    BY <1>1, <1>3, <2>1, LandingIs
<1>4. CASE feed[s] \ {r.entry} # {} /\ Block(p, r) /\ UNCHANGED feed
  <2>1. r.refused \in BOOLEAN /\ Blocks(p, r.refused)
    <3>1. r = [r EXCEPT !.read = Absent, !.refused = r.refused] /\ r.refused \in BOOLEAN
      BY <1>1 DEF Record
    <3> QED
      BY <1>4, <3>1 DEF Blocks
  <2>2. {r.queue[i] : i \in DOMAIN r.queue} \subseteq Message /\ {r.entry} \ {NoEntry} \subseteq Message
    BY <1>1 DEF Record
  <2>3. WorldOK'
    BY <1>1, <1>4, <2>2 DEF Block, ShapeOK, TypesOK, WorldOK, server_vars, file_vars
  <2>4. PICK x \in BOOLEAN : Blocks(p, x)
    BY <2>1
  <2> HIDE DEF r
  <2>5. pub[p].stage = "recorded" /\ ~pub[p].stopped
    BY <1>1 DEF r
  <2>6. ShapeOK' /\ \A q \in Publisher \ {p} : pub'[q] = pub[q]
    BY <1>1, <2>3, <2>4, <2>5, BlockIs
  <2> QED
    BY <1>1, <1>4, <2>4, <2>6 DEF r
<1> QED
  BY <1>2, <1>3, <1>4 DEF Sends

\* The answer to a write lands the entry and changes neither file nor feed.
LEMMA AnsweredIs ==
  ASSUME ShapeOK, NEW p \in Publisher, Answered(p)
  PROVE  /\ ShapeOK' /\ \A q \in Publisher \ {p} : pub'[q] = pub[q]
         /\ UNCHANGED <<server_vars, file_vars, log_vars>>
         /\ pub[p].stage = "sent" /\ Becomes(p, Lands(pub[p])) /\ UNCHANGED <<server, current>> /\ WorldOK'
<1>1. /\ pub[p].stage = "sent" /\ Becomes(p, Lands(pub[p])) /\ UNCHANGED <<server_vars, file_vars, log_vars>>
      /\ UNCHANGED <<server, current>>
  BY DEF Answered, server_vars
<1>2. WorldOK'
  BY <1>1 DEF ShapeOK, TypesOK, WorldOK, server_vars, file_vars, log_vars
<1> QED
  BY <1>1, <1>2, LandingIs

\* What the two ways to end a process have in common.
LEMMA EndsIs ==
  ASSUME ShapeOK, Exit \/ Crash
  PROVE  ProcessEnds /\ crashes' \in 0 .. MaxCrashes /\ (crashes' = 0 => crashes = 0)
<1>1. crashes \in 0 .. MaxCrashes /\ MaxCrashes \in Nat
  BY ConstantsAssumption DEF ShapeOK, TypesOK, WorldOK
<1>2. ProcessEnds
  BY DEF Exit, Crash
<1>3. crashes' = crashes \/ (crashes < MaxCrashes /\ crashes' = crashes + 1)
  BY DEF Exit, Crash
<1> QED
  BY <1>1, <1>2, <1>3

-----------------------------------------------------------------------------
(* Types, and who runs *)

\* The shape holds at first,
LEMMA ShapeInit == Init => ShapeOK
<1> SUFFICES ASSUME Init PROVE ShapeOK
  OBVIOUS
<1>1. pub \in [Publisher -> Record] /\ \A p \in Publisher : HoldingOK(pub[p])
  BY BlankIs DEF Init
<1>2. WorldOK
  <2>1. feed \in [Slot -> SUBSET Message] /\ path \in Text /\ temp \in Text
    BY TextIs DEF Init
  <2>2. /\ accepted \in 0 .. MaxMessages /\ evictions \in 0 .. MaxEvictions /\ boots \in 0 .. MaxBoots
        /\ crashes \in 0 .. MaxCrashes
    BY ConstantsAssumption DEF Init
  <2> QED
    BY <2>1, <2>2 DEF Init, WorldOK
<1>3. OwnersOK
  BY DEF Init, OwnersOK, Blank, Opened
<1> QED
  BY <1>1, <1>2, <1>3 DEF ShapeOK, TypesOK

\* and after every step.
LEMMA ShapeStep ==
  ASSUME ShapeOK, [Next]_vars
  PROVE  ShapeOK'
<1>1. CASE Start \/ Stop \/ DrainStops \/ Drained \/ ReleasesLock \/ Tick
  BY <1>1, StartIs, StopIs, DrainStopsIs, DrainedIs, ReleasesLockIs, TickIs
<1>2. CASE Exit \/ Crash
  BY <1>2, EndsIs, ProcessEndsIs
<1>3. CASE Takes \/ Refuses
  BY <1>3, TakesIs, RefusesIs
<1>4. ASSUME NEW t \in Other, OtherOpens(t) PROVE ShapeOK'
  BY <1>4, OtherOpensIs
<1>5. ASSUME NEW p \in Publisher, Reads(p) \/ GivesUp(p) \/ ResumeFails(p) \/ Resumes(p) PROVE ShapeOK'
  BY <1>5, ReadsIs, GivesUpIs, ResumeFailsIs, ResumesIs
<1>6. ASSUME NEW p \in Publisher, Stages(p) \/ Sends(p) \/ Answered(p) \/ SaveEnds(p) PROVE ShapeOK'
  BY <1>6, StagesIs, SendsIs, AnsweredIs, SaveEndsIs
<1>7. ASSUME NEW p \in Publisher, OpensTemporary(p) \/ WritesFile(p) \/ WriteFails(p) \/ Renames(p) PROVE ShapeOK'
  BY <1>7, OpensTemporaryIs, WritesFileIs, WriteFailsIs, RenamesIs
<1>8. CASE UNCHANGED vars
  BY <1>8 DEF vars, server_vars, file_vars, log_vars, ShapeOK, TypesOK, WorldOK, OwnersOK
<1> QED
  BY <1>1, <1>2, <1>3, <1>4, <1>5, <1>6, <1>7, <1>8 DEF Next

\* Once the lock is released, only a publisher that was evicted, or that resumed after its stop, still records.
THEOREM LockCovers == Spec => []LockCoversRecords
<1>1. ShapeOK => LockCoversRecords
  BY ConstantsAssumption DEF ShapeOK, OwnersOK, HoldingOK, StoppedOK, LockCoversRecords
<1> QED
  BY <1>1, ShapeInit, ShapeStep, PTL DEF Spec

-----------------------------------------------------------------------------
(* Slots *)

\* What Used and Taken count.
LEMMA UsedIs ==
  /\ \A c \in Text : Used(c) \in Int
  /\ Used(Absent) = -1 /\ Used(Half) = -2
  /\ \A r \in Record : /\ r.index \in Int /\ r.index >= -1 /\ Len(r.queue) \in Nat
                       /\ Used(r) \in Int /\ Used(r) >= 0 /\ Used(Snapshot(r)) = Used(r)
                       /\ Taken(r) \in Int /\ Taken(r) >= Used(r)
<1>1. \A c \in Text : Used(c) \in Int
  BY TextIs DEF Used
<1>2. Used(Absent) = -1 /\ Used(Half) = -2
  BY DEF Used, Absent, Half
<1>3. ASSUME NEW r \in Record
      PROVE  /\ r.index \in Int /\ r.index >= -1 /\ Len(r.queue) \in Nat
             /\ Used(r) \in Int /\ Used(r) >= 0 /\ Used(Snapshot(r)) = Used(r)
             /\ Taken(r) \in Int /\ Taken(r) >= Used(r)
  <2>1. r.index \in Int /\ r.index >= -1 /\ Len(r.queue) \in Nat
    BY DEF Record
  <2>2. Used(r) \in Int /\ Used(r) >= 0 /\ Used(Snapshot(r)) = Used(r)
    BY <2>1 DEF Used, Snapshot
  <2> HIDE DEF Used
  <2> QED
    BY <2>1, <2>2 DEF Taken
<1> QED
  BY <1>1, <1>2, <1>3

PlacedOK == Unplaced \in Nat /\ accepted \in Nat /\ accepted <= MaxMessages /\ Placed \in Int /\ Placed <= accepted

\* No more slots are placed than the bound allows.
LEMMA PlacedIs == ShapeOK => PlacedOK
<1> SUFFICES ASSUME ShapeOK PROVE PlacedOK
  OBVIOUS
<1>1. Unplaced \in Nat
  BY NotEvicted, UsedIs DEF Unplaced, ShapeOK, TypesOK, WorldOK
<1>2. accepted \in Nat /\ accepted <= MaxMessages
  BY ConstantsAssumption DEF ShapeOK, TypesOK, WorldOK
<1> QED
  BY <1>1, <1>2 DEF Placed, PlacedOK

\* The same after a step.
LEMMA PlacedNext == ShapeOK' => PlacedOK'
BY PlacedIs, PTL

\* A step that copies checkpoints, and takes no slot that was not there for it.
LEMMA NumbersMove ==
  ASSUME ShapeOK, ShapeOK', NumbersOK, Placed <= Placed',
         path' \in {path, temp, Half, Absent} \cup {pub[q].text : q \in Publisher},
         temp' \in {path, temp, Half, Absent} \cup {pub[q].text : q \in Publisher},
         \A p \in Publisher : pub'[p].read \in {pub[p].read, path, Absent}
                              /\ pub'[p].text \in {pub[p].text, Absent, Snapshot(pub[p])},
         \A p \in Publisher : Taken(pub'[p]) <= Placed',
         \A s \in Slot : feed'[s] # {} => s < Placed'
  PROVE  NumbersOK'
<1>1. Placed \in Int /\ Placed' \in Int /\ 0 <= Placed /\ Placed <= Placed'
  BY PlacedIs, PlacedNext DEF NumbersOK, PlacedOK
<1>2. \A c \in Text : Used(c) \in Int
  BY UsedIs
<1>3. \A p \in Publisher : /\ pub[p] \in Record /\ pub[p].text \in Text /\ pub[p].read \in Text
                           /\ pub'[p] \in Record /\ pub'[p].text \in Text /\ pub'[p].read \in Text
  BY DEF ShapeOK, TypesOK, Record
<1>4. path \in Text /\ temp \in Text /\ path' \in Text /\ temp' \in Text /\ Absent \in Text /\ Half \in Text
  BY TextIs DEF ShapeOK, TypesOK, WorldOK
<1>5. /\ Used(path) <= Placed' /\ Used(temp) <= Placed' /\ Used(Half) <= Placed' /\ Used(Absent) <= Placed'
      /\ \A q \in Publisher : /\ Used(pub[q].text) <= Placed' /\ Used(pub[q].read) <= Placed'
                              /\ Used(Snapshot(pub[q])) <= Placed'
  <2>1. Used(path) <= Placed' /\ Used(temp) <= Placed'
    BY <1>1, <1>2, <1>4 DEF NumbersOK
  <2>2. Used(Half) <= Placed' /\ Used(Absent) <= Placed'
    BY <1>1, UsedIs
  <2>3. ASSUME NEW q \in Publisher
        PROVE  Used(pub[q].text) <= Placed' /\ Used(pub[q].read) <= Placed' /\ Used(Snapshot(pub[q])) <= Placed'
    <3>1. /\ Used(pub[q].text) <= Placed /\ Used(pub[q].read) <= Placed /\ Taken(pub[q]) <= Placed
          /\ Used(pub[q].text) \in Int /\ Used(pub[q].read) \in Int
      BY <1>2, <1>3 DEF NumbersOK
    <3>2. Used(Snapshot(pub[q])) = Used(pub[q]) /\ Used(pub[q]) \in Int /\ Taken(pub[q]) \in Int
          /\ Taken(pub[q]) >= Used(pub[q])
      BY <1>3, UsedIs
    <3> QED
      BY <1>1, <3>1, <3>2
  <2> QED
    BY <2>1, <2>2, <2>3
<1>6. Used(path') <= Placed' /\ Used(temp') <= Placed'
  BY <1>5
<1>7. \A p \in Publisher : Used(pub'[p].read) <= Placed' /\ Used(pub'[p].text) <= Placed'
  BY <1>5
<1>8. /\ Used(path)' = Used(path') /\ Used(temp)' = Used(temp')
  BY DEF Used
<1>9. 0 <= Placed'
  BY <1>1
<1> QED
  BY <1>6, <1>7, <1>8, <1>9 DEF NumbersOK, Used, Taken

\* One that changes nothing of a publisher but how far its resume or its write is, or ends it.
LEMMA NumbersCalm ==
  ASSUME ShapeOK, ShapeOK', NumbersOK, UNCHANGED <<current, accepted, feed>>,
         path' \in {path, temp, Half, Absent} \cup {pub[q].text : q \in Publisher},
         temp' \in {path, temp, Half, Absent} \cup {pub[q].text : q \in Publisher},
         \A p \in Publisher : pub'[p].read \in {pub[p].read, path, Absent}
                              /\ pub'[p].text \in {pub[p].text, Absent, Snapshot(pub[p])},
         \A p \in Publisher : /\ pub'[p].queue = pub[p].queue /\ pub'[p].entry = pub[p].entry
                              /\ pub'[p].index \in {pub[p].index, -1}
                              /\ pub'[p].loop = "done" <=> pub[p].loop = "done"
  PROVE  NumbersOK'
<1>1. Placed' = Placed
  <2>1. current \in Publisher \cup {None}
    BY DEF ShapeOK, TypesOK, WorldOK
  <2> QED
    BY <2>1 DEF Placed, Unplaced
<1>2. Placed \in Int
  BY PlacedIs DEF PlacedOK
<1>3. ASSUME NEW p \in Publisher PROVE Taken(pub'[p]) <= Placed'
  <2>1. pub[p] \in Record /\ pub'[p] \in Record /\ Taken(pub[p]) <= Placed
    BY DEF ShapeOK, TypesOK, NumbersOK
  <2>2. /\ pub[p].index \in Int /\ pub[p].index >= -1 /\ pub'[p].index \in Int /\ Len(pub[p].queue) \in Nat
        /\ Taken(pub[p]) \in Int
    BY <2>1, UsedIs
  <2>3. /\ pub'[p].queue = pub[p].queue /\ pub'[p].entry = pub[p].entry
        /\ pub'[p].index <= pub[p].index
        /\ pub'[p].loop = "done" <=> pub[p].loop = "done"
    BY <2>2
  <2>4. /\ Used(pub'[p]) <= Used(pub[p]) /\ Used(pub'[p]) \in Int /\ Used(pub[p]) \in Int
    <3>1. Used(pub'[p]) \in Int /\ Used(pub[p]) \in Int
      BY <2>1, UsedIs
    <3>2. Used(pub'[p]) <= Used(pub[p])
      BY <2>2, <2>3 DEF Used
    <3> QED
      BY <3>1, <3>2
  <2>5. Taken(pub'[p]) <= Taken(pub[p]) /\ Taken(pub'[p]) \in Int
    <3> HIDE DEF Used
    <3> QED
      BY <2>2, <2>3, <2>4 DEF Taken
  <2> QED
    BY <1>1, <1>2, <2>1, <2>2, <2>5
<1>4. \A s \in Slot : feed'[s] # {} => s < Placed'
  BY <1>1 DEF NumbersOK
<1> QED
  BY <1>1, <1>2, <1>3, <1>4, NumbersMove

\* Steps that move no message and no slot.
LEMMA NumbersCalmSteps ==
  ASSUME ShapeOK, ShapeOK', NumbersOK,
         \/ Stop \/ Drained \/ ReleasesLock \/ Tick
         \/ \E p \in Publisher : \/ Reads(p) \/ ResumeFails(p) \/ SaveEnds(p)
                                 \/ OpensTemporary(p) \/ WritesFile(p) \/ WriteFails(p) \/ Renames(p)
         \/ UNCHANGED vars
  PROVE  NumbersOK'
<1>1. CASE Stop \/ Tick
  <2>1. /\ UNCHANGED <<current, accepted, feed, path, temp>>
        /\ \A p \in Publisher : SameHeld(pub[p], pub'[p]) /\ SameWrite(pub[p], pub'[p]) /\ SameLoop(pub[p], pub'[p])
    BY <1>1, StopIs, TickIs DEF server_vars, file_vars, log_vars
  <2> QED
    BY <2>1, NumbersCalm DEF SameHeld, SameWrite, SameLoop
<1>2. CASE Drained
  <2>1. /\ UNCHANGED <<current, accepted, feed, path, temp>>
        /\ \A p \in Publisher : pub'[p] = pub[p] \/ (SameHeld(pub[p], pub'[p]) /\ SameWrite(pub[p], pub'[p])
                                                     /\ SameLoop(pub[p], pub'[p]))
    BY <1>2, DrainedIs DEF server_vars, file_vars, log_vars
  <2> QED
    BY <2>1, NumbersCalm DEF SameHeld, SameWrite, SameLoop
<1>3. CASE ReleasesLock \/ UNCHANGED vars
  <2>1. UNCHANGED <<current, accepted, feed, path, temp, pub>>
    BY <1>3, ReleasesLockIs DEF vars, server_vars, file_vars, log_vars
  <2> QED
    BY <2>1, NumbersCalm
<1>4. ASSUME NEW p \in Publisher, Reads(p) \/ ResumeFails(p) PROVE NumbersOK'
  <2>1. /\ UNCHANGED <<current, accepted, feed, path, temp>>
        /\ \A q \in Publisher \ {p} : pub'[q] = pub[q]
        /\ SameHeld(pub[p], pub'[p]) /\ SameWrite(pub[p], pub'[p])
        /\ pub[p].loop # "done" /\ pub'[p].loop # "done" /\ pub'[p].read \in {path, Absent}
    BY <1>4, ReadsIs, ResumeFailsIs DEF server_vars, file_vars, log_vars
  <2> QED
    BY <2>1, NumbersCalm DEF SameHeld, SameWrite
<1>5. ASSUME NEW p \in Publisher, SaveEnds(p) PROVE NumbersOK'
  <2>1. /\ UNCHANGED <<current, accepted, feed, path, temp>>
        /\ \A q \in Publisher \ {p} : pub'[q] = pub[q]
        /\ SameLoop(pub[p], pub'[p]) /\ pub'[p].text = pub[p].text
        /\ SameHeld(pub[p], pub'[p]) \/ (pub'[p] = Blank /\ Same(pub[p], pub'[p]))
    <3>1. Same(pub[p], pub'[p]) \/ SameHeld(pub[p], pub'[p])
      BY <1>5, SaveEndsIs, NotEvicted
    <3>2. SameHeld(pub[p], pub'[p]) \/ pub'[p] = Blank
      BY <1>5, SaveEndsIs
    <3> QED
      BY <1>5, <3>1, <3>2, SaveEndsIs DEF server_vars, file_vars, log_vars
  <2>2. Blank.index = -1
    BY DEF Blank, Opened
  <2> QED
    BY <2>1, <2>2, NumbersCalm DEF SameHeld, SameLoop, Same
<1>6. ASSUME NEW p \in Publisher, OpensTemporary(p) PROVE NumbersOK'
  <2>1. /\ UNCHANGED <<current, accepted, feed, path>> /\ temp' = Half
        /\ \A q \in Publisher \ {p} : pub'[q] = pub[q]
        /\ SameHeld(pub[p], pub'[p]) /\ SameLoop(pub[p], pub'[p]) /\ pub'[p].text = Snapshot(pub[p])
    BY <1>6, OpensTemporaryIs DEF server_vars, log_vars
  <2> QED
    BY <2>1, NumbersCalm DEF SameHeld, SameLoop
<1>7. ASSUME NEW p \in Publisher, WritesFile(p) PROVE NumbersOK'
  <2>1. /\ UNCHANGED <<current, accepted, feed>> /\ path' \in {path} \cup Texts(p) /\ temp' \in {temp} \cup Texts(p)
        /\ \A q \in Publisher \ {p} : pub'[q] = pub[q]
        /\ SameHeld(pub[p], pub'[p]) /\ SameLoop(pub[p], pub'[p]) /\ pub'[p].text = pub[p].text
    BY <1>7, WritesFileIs DEF server_vars, log_vars
  <2>2. Texts(p) \subseteq {Half} \cup {pub[q].text : q \in Publisher}
    BY DEF Texts
  <2> QED
    BY <2>1, <2>2, NumbersCalm DEF SameHeld, SameLoop
<1>8. ASSUME NEW p \in Publisher, WriteFails(p) PROVE NumbersOK'
  <2>1. /\ UNCHANGED <<current, accepted, feed, path, temp>>
        /\ \A q \in Publisher \ {p} : pub'[q] = pub[q]
        /\ WroteAs(pub[p], pub'[p])
    BY <1>8, WriteFailsIs DEF server_vars, file_vars, log_vars
  <2>2. Blank.index = -1
    BY DEF Blank, Opened
  <2> QED
    BY <2>1, <2>2, NumbersCalm DEF WroteAs, SameLoop
<1>9. ASSUME NEW p \in Publisher, Renames(p) PROVE NumbersOK'
  <2>1. /\ UNCHANGED <<current, accepted, feed>> /\ path' = temp /\ temp' = Absent
        /\ \A q \in Publisher \ {p} : MovedAs(pub[q], pub'[q])
        /\ WroteAs(pub[p], pub'[p])
    BY <1>9, RenamesIs DEF server_vars, log_vars
  <2>2. Blank.index = -1
    BY DEF Blank, Opened
  <2> QED
    BY <2>1, <2>2, NumbersCalm DEF WroteAs, SameLoop, MovedAs, SameHeld
<1> QED
  BY <1>1, <1>2, <1>3, <1>4, <1>5, <1>6, <1>7, <1>8, <1>9

\* Starts and ends of a process, and refusals.
LEMMA NumbersStarts ==
  ASSUME ShapeOK, ShapeOK', NumbersOK, Start \/ Exit \/ Crash \/ Refuses
  PROVE  NumbersOK'
<1>1. /\ UNCHANGED <<accepted, feed, path>> /\ temp' \in {temp, Absent}
      /\ \A p \in Publisher : pub'[p] \in {pub[p], Blank, Opened}
      /\ current' \in Publisher /\ current' # current => pub'[current'] = Opened
      /\ Unplaced' = 0 \/ UNCHANGED <<current, pub>>
  <2>1. Len(Opened.queue) = 0
    BY DEF Opened
  <2>2. CASE Start
    BY <2>1, <2>2, StartIs, ConstantsAssumption DEF file_vars, log_vars, Unplaced
  <2>3. CASE Exit \/ Crash
    BY <2>3, EndsIs, ProcessEndsIs, ConstantsAssumption DEF file_vars, log_vars, Unplaced
  <2>4. CASE Refuses
    BY <2>1, <2>4, RefusesIs, ConstantsAssumption DEF file_vars, Unplaced
  <2> QED
    BY <2>2, <2>3, <2>4
<1>2. Placed <= Placed' /\ Placed \in Int /\ Placed' \in Int /\ 0 <= Placed
  <2>1. CASE Unplaced' = 0
    BY <1>1, <2>1, PlacedIs, PlacedNext DEF Placed, PlacedOK, NumbersOK
  <2>2. CASE UNCHANGED <<current, pub>>
    BY <1>1, <2>2, PlacedIs DEF Placed, Unplaced, PlacedOK, NumbersOK
  <2> QED
    BY <1>1, <2>1, <2>2
<1>3. ASSUME NEW p \in Publisher
      PROVE  /\ Taken(pub'[p]) <= Placed'
             /\ pub'[p].read \in {pub[p].read, Absent} /\ pub'[p].text \in {pub[p].text, Absent}
  <2>1. Taken(Blank) = 0 /\ Taken(Opened) = 0
    BY DEF Taken, Used, Blank, Opened
  <2>2. pub[p] \in Record /\ Taken(pub[p]) <= Placed /\ Taken(pub[p]) \in Int
    BY UsedIs DEF ShapeOK, TypesOK, NumbersOK
  <2>3. Blank.read = Absent /\ Blank.text = Absent /\ Opened.read = Absent /\ Opened.text = Absent
    BY DEF Blank, Opened
  <2> QED
    BY <1>1, <1>2, <2>1, <2>2, <2>3
<1>4. \A s \in Slot : feed'[s] # {} => s < Placed'
  BY <1>1, <1>2 DEF NumbersOK, Slot
<1> QED
  BY <1>1, <1>2, <1>3, <1>4, NumbersMove

\* A step of the current publisher, or one that makes it so.
LEMMA NumbersOne ==
  ASSUME ShapeOK, ShapeOK', NumbersOK, NEW p \in Publisher,
         UNCHANGED file_vars,
         \A q \in Publisher \ {p} : pub'[q] = pub[q],
         Placed <= Placed',
         pub'[p].read \in {pub[p].read, Absent} /\ pub'[p].text = pub[p].text,
         Taken(pub'[p]) <= Placed',
         \A s \in Slot : feed'[s] # {} => s < Placed'
  PROVE  NumbersOK'
<1>1. Placed \in Int /\ Placed' \in Int
  BY PlacedIs, PlacedNext DEF PlacedOK
<1>2. ASSUME NEW q \in Publisher PROVE Taken(pub'[q]) <= Placed'
  <2>1. pub[q] \in Record /\ Taken(pub[q]) <= Placed /\ Taken(pub[q]) \in Int
    BY UsedIs DEF ShapeOK, TypesOK, NumbersOK
  <2> QED
    BY <1>1, <2>1
<1> QED
  BY <1>2, NumbersMove DEF file_vars

\* One that leaves it without a queue.
LEMMA NumbersEmpties ==
  ASSUME ShapeOK, ShapeOK', NumbersOK, NEW p \in Publisher, p = current,
         UNCHANGED <<file_vars, feed, accepted>>, current' \in {current, None},
         \A q \in Publisher \ {p} : pub'[q] = pub[q],
         pub'[p].queue = <<>>, pub'[p].index \in {pub[p].index, -1}, pub'[p].entry \in {pub[p].entry, NoEntry},
         pub'[p].read \in {pub[p].read, Absent}, pub'[p].text = pub[p].text
  PROVE  NumbersOK'
<1>1. Unplaced' = 0
  BY DEF Unplaced
<1>2. Placed <= Placed' /\ Placed \in Int /\ Placed' \in Int
  BY <1>1, PlacedIs, PlacedNext DEF Placed, PlacedOK
<1>3. Taken(pub'[p]) <= Placed'
  <2>1. pub[p] \in Record /\ pub'[p] \in Record /\ Taken(pub[p]) <= Placed
    BY DEF ShapeOK, TypesOK, NumbersOK
  <2>2. /\ pub[p].index \in Int /\ pub[p].index >= -1 /\ Used(pub'[p]) \in Int
        /\ Taken(pub[p]) \in Int /\ Used(pub[p]) \in Int /\ Used(pub[p]) <= Taken(pub[p])
    BY <2>1, UsedIs
  <2>3. Used(pub'[p]) <= Used(pub[p])
    BY <2>2 DEF Used
  <2>4. Taken(pub'[p]) = Used(pub'[p])
    <3>1. Len(pub'[p].queue) = 0
      OBVIOUS
    <3> HIDE DEF Used
    <3> QED
      BY <2>2, <3>1 DEF Taken
  <2> QED
    BY <1>2, <2>1, <2>2, <2>3, <2>4
<1>4. \A s \in Slot : feed'[s] # {} => s < Placed'
  BY <1>2 DEF NumbersOK, Slot
<1> QED
  BY <1>2, <1>3, <1>4, NumbersOne

\* Steps that only empty queues.
LEMMA NumbersDrops ==
  ASSUME ShapeOK, ShapeOK', NumbersOK,
         DrainStops \/ (\E t \in Other : OtherOpens(t)) \/ (\E p \in Publisher : GivesUp(p))
  PROVE  NumbersOK'
<1>1. CASE DrainStops
  BY <1>1, DrainStopsIs, NumbersEmpties DEF server_vars, StoppedAs, SameWrite
<1>2. ASSUME NEW t \in Other, OtherOpens(t) PROVE NumbersOK'
  <2>1. CASE UNCHANGED <<pub, current>>
    <3>1. UNCHANGED <<file_vars, feed, accepted, pub, current>>
      BY <1>2, <2>1, OtherOpensIs DEF log_vars
    <3> QED
      BY <3>1, NumbersCalm DEF file_vars
  <2>2. CASE ~UNCHANGED <<pub, current>>
    BY <1>2, <2>2, OtherOpensIs, NumbersEmpties DEF log_vars, StoppedAs, SameWrite
  <2> QED
    BY <2>1, <2>2
<1>3. ASSUME NEW p \in Publisher, GivesUp(p) PROVE NumbersOK'
  <2>1. pub[p].queue = <<>>
    BY <1>3, GivesUpIs, NotEvicted DEF HoldingOK, StoppedOK
  <2> QED
    BY <1>3, <2>1, GivesUpIs, NumbersEmpties DEF server_vars, log_vars, SameHeld, SameWrite
<1> QED
  BY <1>1, <1>2, <1>3

\* A new message brings its own slot.
LEMMA NumbersTakes ==
  ASSUME ShapeOK, ShapeOK', NumbersOK, Takes
  PROVE  NumbersOK'
<1> DEFINE p == current'
<1>1. /\ p \in Publisher /\ p # None /\ accepted' = accepted + 1 /\ accepted \in Nat /\ UNCHANGED <<file_vars, feed>>
      /\ \A q \in Publisher \ {p} : pub'[q] = pub[q]
      /\ pub'[p].read = pub[p].read /\ pub'[p].text = pub[p].text /\ pub'[p].entry = pub[p].entry
      /\ pub'[p].index = pub[p].index /\ pub'[p].queue = Append(pub[p].queue, accepted')
      /\ pub[p] \in Record /\ pub'[p] \in Record
  BY TakesIs, PlacedIs, ConstantsAssumption DEF SameWrite, PlacedOK, ShapeOK, TypesOK
<1>2. /\ Len(pub[p].queue) \in Nat /\ Len(pub'[p].queue) = Len(pub[p].queue) + 1
      /\ Used(pub'[p]) = Used(pub[p]) /\ Used(pub[p]) \in Int /\ Used(pub[p]) <= Taken(pub[p]) /\ Taken(pub[p]) \in Int
      /\ Taken(pub[p]) <= Placed /\ Placed \in Int /\ 0 <= Placed
  <2>1. Used(pub'[p]) = Used(pub[p])
    BY <1>1 DEF Used
  <2>2. Len(Append(pub[p].queue, accepted')) = Len(pub[p].queue) + 1
    BY <1>1 DEF Record
  <2> QED
    BY <1>1, <2>1, <2>2, UsedIs, PlacedIs DEF PlacedOK, NumbersOK
<1>3. \/ Placed' = Placed /\ Taken(pub'[p]) <= Placed
      \/ Placed' = Placed + 1 /\ Taken(pub'[p]) = Taken(pub[p]) + 1
  <2>1. CASE current = None
    <3>1. pub[p] = Blank /\ pub'[p].loop = "reads"
      BY <1>1, <2>1, TakesIs, ConstantsAssumption
    <3>2. Len(pub[p].queue) = 0
      BY <3>1 DEF Blank, Opened
    <3>3. Unplaced = 0 /\ Unplaced' = 1
      BY <1>1, <1>2, <2>1, <3>1, <3>2 DEF Unplaced
    <3>4. Placed' = Placed
      BY <1>1, <3>3 DEF Placed
    <3>5. Taken(pub'[p]) = Used(pub'[p])
      BY <1>2, <3>1 DEF Taken
    <3> QED
      BY <1>2, <3>4, <3>5
  <2>2. CASE current # None /\ pub[p].loop # "done"
    <3>1. current = p /\ pub'[p].loop = pub[p].loop
      BY <2>2, TakesIs
    <3>2. Unplaced' = Unplaced + 1 /\ Unplaced \in Nat
      BY <1>1, <1>2, <2>2, <3>1 DEF Unplaced
    <3>3. Placed' = Placed
      BY <1>1, <3>2 DEF Placed
    <3>4. Taken(pub'[p]) = Used(pub'[p])
      BY <1>2, <2>2, <3>1 DEF Taken
    <3> QED
      BY <1>2, <3>3, <3>4
  <2>3. CASE current # None /\ pub[p].loop = "done"
    <3>1. current = p /\ pub'[p].loop = pub[p].loop
      BY <2>3, TakesIs
    <3>2. Unplaced' = 0 /\ Unplaced = 0
      BY <1>1, <2>3, <3>1 DEF Unplaced
    <3>3. Placed' = Placed + 1
      BY <1>1, <3>2 DEF Placed
    <3>4. Taken(pub'[p]) = Taken(pub[p]) + 1
      BY <1>2, <2>3, <3>1 DEF Taken
    <3> QED
      BY <3>3, <3>4
  <2> QED
    BY <2>1, <2>2, <2>3
<1>4. Placed <= Placed' /\ Taken(pub'[p]) <= Placed' /\ Placed' \in Int
  BY <1>2, <1>3
<1>5. \A s \in Slot : feed'[s] # {} => s < Placed'
  BY <1>1, <1>2, <1>4 DEF NumbersOK, Slot
<1> QED
  BY <1>1, <1>4, <1>5, NumbersOne

\* A staged message has the slot it had in the queue.
LEMMA NumbersStages ==
  ASSUME ShapeOK, ShapeOK', NumbersOK, NEW p \in Publisher, Stages(p)
  PROVE  NumbersOK'
<1>0. pub[p] \in Record /\ pub'[p] \in Record
  BY DEF ShapeOK, TypesOK
<1>1. /\ pub[p] \in Record /\ pub'[p] \in Record /\ UNCHANGED <<current, file_vars, feed, accepted>>
      /\ \A q \in Publisher \ {p} : pub'[q] = pub[q]
      /\ p = current /\ SameLoop(pub[p], pub'[p]) /\ pub[p].loop = "done" /\ pub[p].entry = NoEntry
      /\ pub[p].queue # <<>> /\ pub'[p].queue = Tail(pub[p].queue) /\ pub'[p].entry \in Message
      /\ pub'[p].index = pub[p].index /\ pub'[p].text = pub[p].text
  <2>1. pub[p].queue \in Seq(Message)
    BY <1>0 DEF Record
  <2>2. pub[p].queue # <<>> => Head(pub[p].queue) \in Message
    BY <2>1
  <2> QED
    BY <1>0, <2>2, StagesIs DEF server_vars, log_vars
<1>2. Placed' = Placed
  BY <1>1, ConstantsAssumption DEF Placed, Unplaced, SameLoop
<1>3. Taken(pub'[p]) = Taken(pub[p])
  <2>1. pub[p].queue \in Seq(Message) /\ pub[p].queue # <<>> /\ pub[p].index \in Int
    BY <1>1, UsedIs DEF Record
  <2>2. Len(Tail(pub[p].queue)) = Len(pub[p].queue) - 1 /\ Len(pub[p].queue) \in Nat
    BY <2>1
  <2>3. Used(pub'[p]) = Used(pub[p]) + 1 /\ Used(pub[p]) \in Int
    BY <1>1, <2>1, TextIs DEF Used
  <2> HIDE DEF Used
  <2> QED
    BY <1>1, <2>2, <2>3, SMTT(60) DEF Taken, SameLoop
<1>4. Taken(pub[p]) <= Placed /\ Placed \in Int /\ \A s \in Slot : feed[s] # {} => s < Placed
  BY PlacedIs DEF NumbersOK, PlacedOK
<1> QED
  BY <1>1, <1>2, <1>3, <1>4, NumbersOne DEF SameLoop

\* An entry that lands has its slot already.
LEMMA NumbersLands ==
  ASSUME ShapeOK, ShapeOK', NumbersOK, NEW p \in Publisher,
         pub[p].stage = "sent" \/ (pub[p].stage = "recorded" /\ ~pub[p].stopped), Becomes(p, Lands(pub[p])),
         UNCHANGED <<server, current, file_vars, feed, accepted>>, WorldOK'
  PROVE  NumbersOK'
<1>1. /\ pub[p] \in Record /\ pub'[p] \in Record
      /\ \A q \in Publisher \ {p} : pub'[q] = pub[q]
      /\ p = current /\ SameLoop(pub[p], pub'[p]) /\ pub[p].loop = "done" /\ pub[p].entry \in Message
      /\ pub'[p].queue = pub[p].queue /\ pub'[p].entry = NoEntry /\ pub'[p].index = pub[p].index + 1
      /\ pub'[p].text = pub[p].text
  BY LandingIs, NotEvicted DEF ShapeOK, TypesOK
<1>2. Placed' = Placed
  BY <1>1, ConstantsAssumption DEF Placed, Unplaced, SameLoop
<1>3. Taken(pub'[p]) = Taken(pub[p])
  <2>1. Used(pub'[p]) = Used(pub[p])
    BY <1>1, TextIs, UsedIs DEF Used
  <2> HIDE DEF Used
  <2> QED
    BY <1>1, <2>1 DEF Taken, SameLoop
<1>4. Taken(pub[p]) <= Placed /\ Placed \in Int /\ \A s \in Slot : feed[s] # {} => s < Placed
  BY PlacedIs DEF NumbersOK, PlacedOK
<1> QED
  BY <1>1, <1>2, <1>3, <1>4, NumbersOne DEF SameLoop

\* The slots that hold an entry are among those that were placed, so that no more are counted.
LEMMA LastWrittenPlaced ==
  ASSUME ShapeOK, NumbersOK
  PROVE  LastWritten + 1 <= Placed
<1> DEFINE filled == {s \in Slot : feed[s] # {}}
<1>1. Placed \in Int /\ 0 <= Placed
  BY PlacedIs DEF PlacedOK, NumbersOK
<1>2. filled \subseteq 0 .. (Placed - 1)
  BY <1>1, ConstantsAssumption DEF NumbersOK, Slot
<1>3. IsFiniteSet(0 .. (Placed - 1)) /\ Cardinality(0 .. (Placed - 1)) = Placed
  BY <1>1, FS_Interval
<1> HIDE DEF filled
<1>4. Cardinality(filled) <= Placed
  BY <1>2, <1>3, FS_Subset, ZenonT(60)
<1>5. Cardinality(filled) \in Nat
  BY <1>2, <1>3, FS_Subset, FS_CardinalityType
<1> QED
  BY <1>1, <1>4, <1>5 DEF LastWritten, filled

\* A resume goes on from the checkpoint or from the feed's end, and gives slots to its queue.
LEMMA NumbersResumes ==
  ASSUME ShapeOK, ShapeOK', NumbersOK, NEW p \in Publisher, Resumes(p)
  PROVE  NumbersOK'
<1>1. /\ UNCHANGED <<current, server, file_vars, feed, accepted>> /\ p = current /\ pub[p].loop = "resumes"
      /\ pub[p] \in Record /\ pub'[p] \in Record
      /\ \A q \in Publisher \ {p} : pub'[q] = pub[q]
  BY ResumesIs DEF server_vars, ShapeOK, TypesOK
<1>2. ASSUME NEW x \in BOOLEAN, Blocks(p, x) PROVE NumbersOK'
  <2>1. WorldOK'
    BY DEF ShapeOK, TypesOK
  <2>2. /\ SameWrite(pub[p], pub'[p]) /\ pub'[p].read = Absent /\ pub'[p].index = pub[p].index
        /\ pub'[p].queue = <<>> /\ pub'[p].entry = NoEntry
    BY <1>1, <1>2, <2>1, BlockIs
  <2> QED
    BY <1>1, <2>2, NumbersEmpties DEF SameWrite
<1>3. CASE pub[p].read # Half /\ ReadyAs(pub[p], pub'[p])
  <2>1. Unplaced' = 0 /\ Unplaced = Len(pub[p].queue) /\ Len(pub[p].queue) \in Nat
    BY <1>1, <1>3, UsedIs, ConstantsAssumption DEF Unplaced, ReadyAs
  <2>2. Placed' = Placed + Len(pub[p].queue) /\ Placed \in Int
    BY <1>1, <2>1, PlacedIs DEF Placed, PlacedOK
  <2>3. Used(pub'[p]) <= Placed /\ Used(pub'[p]) \in Int
    <3>1. Used(pub[p].read) <= Placed /\ Used(pub'[p]) \in Int
      BY <1>1, UsedIs DEF NumbersOK
    <3>2. CASE pub[p].read = Absent
      <4>1. pub'[p].index = LastWritten /\ pub'[p].entry = NoEntry
        BY <1>3, <3>2 DEF ReadyAs, Absent
      <4> QED
        BY <3>1, <4>1, LastWrittenPlaced, LastWrittenIs DEF Used
    <3>3. CASE pub[p].read # Absent
      BY <1>3, <3>1, <3>3 DEF ReadyAs, Used
    <3> QED
      BY <3>2, <3>3
  <2>4. Taken(pub'[p]) <= Placed'
    <3>1. pub'[p].queue = pub[p].queue /\ pub'[p].loop = "done" /\ pub'[p].read = Absent /\ pub'[p].text = pub[p].text
      BY <1>3 DEF ReadyAs
    <3> QED
      BY <2>1, <2>2, <2>3, <3>1 DEF Taken
  <2>5. Placed <= Placed' /\ Placed' \in Int
    BY <2>1, <2>2
  <2>6. \A s \in Slot : feed'[s] # {} => s < Placed'
    BY <1>1, <2>2, <2>5 DEF NumbersOK, Slot
  <2> QED
    BY <1>1, <1>3, <2>4, <2>5, <2>6, NumbersOne DEF ReadyAs
<1> QED
  BY <1>2, <1>3, ResumesIs

\* A slot is written for an entry that has it.
LEMMA NumbersSends ==
  ASSUME ShapeOK, ShapeOK', NumbersOK, NEW p \in Publisher, Sends(p)
  PROVE  NumbersOK'
<1> DEFINE s == pub[p].index + 1
<1>1. /\ UNCHANGED <<current, server, file_vars, accepted>> /\ p = current /\ pub[p].loop = "done"
      /\ pub[p].stage = "recorded" /\ ~pub[p].stopped /\ pub[p].entry \in Message /\ pub[p].read = Absent
      /\ pub[p] \in Record /\ pub'[p] \in Record /\ WorldOK'
      /\ \A q \in Publisher \ {p} : pub'[q] = pub[q]
  BY SendsIs DEF server_vars, ShapeOK, TypesOK
<1>2. /\ pub[p].index \in Int /\ Taken(pub[p]) <= Placed /\ Used(pub[p]) <= Placed /\ Placed \in Int
      /\ \A i \in Slot : feed[i] # {} => i < Placed
  <2>1. pub[p] \in Record
    BY DEF ShapeOK, TypesOK
  <2> QED
    BY <2>1, UsedIs, PlacedIs DEF PlacedOK, NumbersOK
<1>3. CASE /\ feed' = [feed EXCEPT ![s] = @ \cup {pub[p].entry}] /\ SameLoop(pub[p], pub'[p]) /\ SameWrite(pub[p], pub'[p])
           /\ pub'[p].index = pub[p].index /\ pub'[p].queue = pub[p].queue /\ pub'[p].entry = pub[p].entry
  <2>1. Placed' = Placed
    BY <1>1, <1>3, ConstantsAssumption DEF Placed, Unplaced, SameLoop
  <2>2. Taken(pub'[p]) = Taken(pub[p])
    BY <1>3 DEF Taken, Used, SameLoop
  <2>3. s < Placed
    BY <1>1, <1>2, TextIs DEF Used
  <2>4. \A i \in Slot : feed'[i] # {} => i < Placed'
    BY <1>2, <1>3, <2>1, <2>3 DEF ShapeOK, TypesOK, WorldOK
  <2> QED
    BY <1>1, <1>2, <1>3, <2>1, <2>2, <2>4, NumbersOne DEF SameLoop, SameWrite
<1>4. CASE Becomes(p, Lands(pub[p])) /\ feed' = feed
  BY <1>1, <1>4, NumbersLands
<1>5. ASSUME NEW x \in BOOLEAN, Blocks(p, x), feed' = feed PROVE NumbersOK'
  <2>2. /\ SameWrite(pub[p], pub'[p]) /\ pub'[p].read = Absent /\ pub'[p].index = pub[p].index
        /\ pub'[p].queue = <<>> /\ pub'[p].entry = NoEntry
    BY <1>1, <1>5, BlockIs
  <2> QED
    BY <1>1, <1>5, <2>2, NumbersEmpties DEF SameWrite
<1> QED
  BY <1>3, <1>4, <1>5, SendsIs

\* No slot is used at first,
LEMMA NumbersInit == Init => NumbersOK
<1> SUFFICES ASSUME Init PROVE NumbersOK
  OBVIOUS
<1>1. Unplaced = 0 /\ Placed = 0
  BY DEF Init, Unplaced, Placed
<1>2. Used(Absent) = -1 /\ Used(Blank) = 0 /\ Taken(Blank) = 0 /\ Blank.read = Absent /\ Blank.text = Absent
  BY DEF Used, Taken, Absent, Blank, Opened, NoEntry
<1>3. ASSUME NEW p \in Publisher PROVE pub[p] = Blank
  BY DEF Init
<1>4. path = Absent /\ temp = Absent /\ \A s \in Slot : feed[s] = {}
  BY DEF Init
<1> QED
  BY <1>1, <1>2, <1>3, <1>4 DEF NumbersOK

\* and none more than was accepted after any step.
LEMMA NumbersStep ==
  ASSUME ShapeOK, ShapeOK', NumbersOK, [Next]_vars
  PROVE  NumbersOK'
<1>1. CASE Start \/ Exit \/ Crash \/ Refuses
  BY <1>1, NumbersStarts
<1>2. CASE Stop \/ Drained \/ ReleasesLock \/ Tick \/ UNCHANGED vars
  BY <1>2, NumbersCalmSteps
<1>3. CASE DrainStops \/ (\E t \in Other : OtherOpens(t)) \/ (\E p \in Publisher : GivesUp(p))
  BY <1>3, NumbersDrops
<1>4. CASE Takes
  BY <1>4, NumbersTakes
<1>5. ASSUME NEW p \in Publisher, \/ Reads(p) \/ ResumeFails(p) \/ SaveEnds(p)
                                  \/ OpensTemporary(p) \/ WritesFile(p) \/ WriteFails(p) \/ Renames(p)
      PROVE  NumbersOK'
  BY <1>5, NumbersCalmSteps
<1>6. ASSUME NEW p \in Publisher, Resumes(p) \/ Stages(p) \/ Sends(p) PROVE NumbersOK'
  BY <1>6, NumbersResumes, NumbersStages, NumbersSends
<1>7. ASSUME NEW p \in Publisher, Answered(p) PROVE NumbersOK'
  <2>1. UNCHANGED <<server, current, file_vars, feed, accepted>>
    BY <1>7, AnsweredIs DEF log_vars
  <2> QED
    BY <1>7, <2>1, AnsweredIs, NumbersLands
<1> QED
  BY <1>1, <1>2, <1>3, <1>4, <1>5, <1>6, <1>7 DEF Next

\* With the numbers the shape is the type invariant.
LEMMA TypesBounded == ShapeOK /\ NumbersOK => TypeOK
<1> SUFFICES ASSUME ShapeOK, NumbersOK PROVE TypeOK
  OBVIOUS
<1>1. Placed \in Int /\ Placed <= MaxMessages /\ MaxMessages \in Nat
  BY PlacedIs, ConstantsAssumption DEF PlacedOK
<1>2. ASSUME NEW c \in Text, Used(c) <= Placed PROVE c \in Content
  <2>1. CASE c \in {Absent, Half}
    BY <2>1 DEF Content
  <2>2. CASE c \in [index : Nat \cup {-1}, entry : Message \cup {NoEntry}]
    <3>1. c.index + 1 <= Placed
      BY <1>1, <1>2, <2>2 DEF Used
    <3>2. c.index \in -1 .. MaxMessages - 1
      BY <1>1, <2>2, <3>1
    <3> QED
      BY <2>2, <3>2 DEF Content, Checkpoint
  <2> QED
    BY <2>1, <2>2 DEF Text
<1>3. path \in Content /\ temp \in Content
  BY <1>2 DEF ShapeOK, TypesOK, WorldOK, NumbersOK
<1>4. ASSUME NEW p \in Publisher PROVE pub[p] \in Holding
  <2> DEFINE r == pub[p]
  <2>1. r \in Record /\ Used(r.read) <= Placed /\ Used(r.text) <= Placed /\ Taken(r) <= Placed
    BY DEF ShapeOK, TypesOK, NumbersOK
  <2>2. r.read \in Content /\ r.text \in Content
    BY <1>2, <2>1 DEF Record
  <2>3. r.index \in -1 .. MaxMessages - 1
    <3>1. Used(r) <= Placed /\ Used(r) \in Int
      BY <1>1, <2>1, UsedIs
    <3>2. r.index \in Int /\ r.index >= -1
      BY <2>1, UsedIs
    <3>3. r.index + 1 <= Placed
      BY <1>1, <3>1, <3>2 DEF Used
    <3> QED
      BY <1>1, <3>2, <3>3
  <2> QED
    BY <2>1, <2>2, <2>3 DEF Record, Holding, Stage
<1>5. pub \in [Publisher -> Holding]
  BY <1>4 DEF ShapeOK, TypesOK
<1> QED
  BY <1>3, <1>5 DEF TypeOK, ShapeOK, TypesOK, WorldOK

\* Shape and numbers hold together.
LEMMA NumbersHold == Spec => [](ShapeOK /\ NumbersOK)
BY ShapeInit, ShapeStep, NumbersInit, NumbersStep, PTL DEF Spec

\* No chat ever holds or records more slots than there were messages for.
THEOREM TypesHold == Spec => []TypeOK
BY NumbersHold, TypesBounded, PTL

\* No process runs at first,
LEMMA DownInit == Init => DownOK
BY DEF Init, DownOK

\* and none leaves a publisher behind.
LEMMA DownStep ==
  ASSUME ShapeOK, DownOK, [Next]_vars
  PROVE  DownOK'
<1>1. CASE server = "down" /\ server' = "down"
  <2>1. /\ Blank.loop = "done" /\ Blank.chain = <<>> /\ Blank.state = "stopped" /\ Blank.stage = "none"
        /\ Blank.saving = FALSE /\ Blank.io = "none"
    BY DEF Blank, Opened
  <2>2. \A p \in Publisher : pub[p] = Blank
    BY <1>1 DEF DownOK
  <2>3. ASSUME NEW p \in Publisher
        PROVE  /\ ~Reads(p) /\ ~GivesUp(p) /\ ~ResumeFails(p) /\ ~Resumes(p)
               /\ ~Stages(p) /\ ~Sends(p) /\ ~Answered(p) /\ ~SaveEnds(p)
               /\ ~OpensTemporary(p) /\ ~WritesFile(p) /\ ~WriteFails(p) /\ ~Renames(p)
    BY <2>1, <2>2 DEF Reads, GivesUp, ResumeFails, Resumes, Stages, Sends, Answered, SaveEnds,
                      OpensTemporary, WritesFile, WriteFails, Renames
  <2>4. /\ ~Start /\ ~Stop /\ ~DrainStops /\ ~Drained /\ ~ReleasesLock /\ ~Exit /\ ~Crash /\ ~Tick /\ ~Takes /\ ~Refuses
        /\ \A t \in Other : ~OtherOpens(t)
    BY <1>1 DEF Start, Stop, DrainStops, Drained, ReleasesLock, Exit, Crash, Tick, Takes, Refuses, OtherOpens
  <2>5. UNCHANGED vars
    BY <2>3, <2>4 DEF Next
  <2> QED
    BY <2>2, <2>5 DEF DownOK, vars
<1>2. CASE server # "down" /\ server' = "down"
  <2>1. ASSUME NEW p \in Publisher
        PROVE  /\ ~Reads(p) /\ ~GivesUp(p) /\ ~ResumeFails(p) /\ ~Resumes(p)
               /\ ~Stages(p) /\ ~Sends(p) /\ ~Answered(p) /\ ~SaveEnds(p)
               /\ ~OpensTemporary(p) /\ ~WritesFile(p) /\ ~WriteFails(p) /\ ~Renames(p)
    BY <1>2 DEF Reads, GivesUp, ResumeFails, Resumes, Stages, Sends, Answered, SaveEnds,
                OpensTemporary, WritesFile, WriteFails, Renames, server_vars
  <2>2. /\ ~Start /\ ~Stop /\ ~DrainStops /\ ~Drained /\ ~ReleasesLock /\ ~Tick /\ ~Takes /\ ~Refuses
        /\ \A t \in Other : ~OtherOpens(t)
    BY <1>2 DEF Start, Stop, DrainStops, Drained, ReleasesLock, Tick, Takes, Refuses, OtherOpens, server_vars
  <2>3. ~UNCHANGED vars
    BY <1>2 DEF vars, server_vars
  <2>4. Exit \/ Crash
    BY <2>1, <2>2, <2>3 DEF Next
  <2> QED
    BY <2>4, EndsIs, ProcessEndsIs DEF DownOK
<1>3. CASE server' # "down"
  BY <1>3 DEF DownOK
<1> QED
  BY <1>1, <1>2, <1>3

-----------------------------------------------------------------------------
(* Messages *)

\* What a step may do to a publisher's messages that brings none in and drops none.
Follows(p) ==
  /\ pub'[p].queue \in {pub[p].queue, <<>>}
  /\ pub'[p].text.entry \in {pub[p].text.entry, NoEntry, pub[p].entry}
  /\ pub'[p].read.entry \in {pub[p].read.entry, path.entry, NoEntry}
  /\ \/ pub'[p].entry \in {pub[p].entry, NoEntry}
     \/ pub'[p].entry = pub[p].read.entry /\ p = current /\ pub'[p].stage # "staged"
  /\ pub'[p].stage = "staged" => pub[p].stage = "staged" /\ pub'[p].entry = pub[p].entry

\* And to the files.
Copies ==
  /\ path'.entry \in {path.entry, temp.entry, NoEntry} \cup {pub[q].text.entry : q \in Publisher}
  /\ temp'.entry \in {path.entry, temp.entry, NoEntry} \cup {pub[q].text.entry : q \in Publisher}

\* If every publisher's messages follow from its own, nothing new appears.
LEMMA PresentMoves ==
  ASSUME \A p \in Publisher : Follows(p), Copies,
         Fed' \subseteq Fed \cup {pub[q].entry : q \in {o \in Publisher : pub[o].stage = "recorded"}}
  PROVE  Present' \subseteq Present \cup {NoEntry}
<1>1. Fed' \subseteq Present
  BY DEF Present, Entered
<1>2. Entered' \subseteq Present \cup {NoEntry}
  <2>1. ASSUME NEW p \in Publisher PROVE pub'[p].entry \in Present \cup {NoEntry}
    BY DEF Follows, Present, Entered, Copied
  <2> QED
    BY <2>1 DEF Entered
<1>3. Copied' \subseteq Present \cup {NoEntry}
  <2>1. ASSUME NEW p \in Publisher
        PROVE  pub'[p].text.entry \in Present \cup {NoEntry} /\ pub'[p].read.entry \in Present \cup {NoEntry}
    BY DEF Follows, Present, Entered, Copied
  <2>2. path'.entry \in Present \cup {NoEntry} /\ temp'.entry \in Present \cup {NoEntry}
    BY DEF Copies, Present, Copied
  <2> QED
    BY <2>1, <2>2 DEF Copied
<1> QED
  BY <1>1, <1>2, <1>3 DEF Present

\* Only the current publisher holds messages that are not recorded.
LEMMA OnlyCurrent ==
  ASSUME ShapeOK, NEW p \in Publisher
  PROVE  /\ pub[p] \in Record /\ pub[p].queue \in Seq(Message)
         /\ p # current => pub[p].queue = <<>> /\ pub[p].stage = "none" /\ pub[p].entry = NoEntry
                           /\ pub[p].read = Absent
         /\ pub[p].stage = "staged" => p = current /\ pub[p].entry \in Message /\ pub[p].read = Absent
<1>1. pub[p] \in Record /\ HoldingOK(pub[p]) /\ (p # current => pub[p].evicted)
  BY DEF ShapeOK, TypesOK, OwnersOK
<1> QED
  BY <1>1, TextIs DEF Record, HoldingOK, EvictedOK, ResumingOK, StoppedOK, WriteOK

\* And nothing appears twice.
LEMMA MessagesMove ==
  ASSUME ShapeOK, ShapeOK', MessagesOK, TemporaryOK', UNCHANGED <<accepted, dropped, doubt>>,
         \A p \in Publisher : Follows(p), Copies,
         Fed' \subseteq Fed \cup {pub[q].entry : q \in {o \in Publisher : pub[o].stage = "recorded"}}
  PROVE  MessagesOK'
<1>1. Present' \subseteq Present \cup {NoEntry}
  BY PresentMoves
<1>2. NoEntry \notin Message /\ dropped \subseteq Message /\ accepted \in Nat /\ NoEntry <= accepted
  BY TextIs, PlacedIs DEF PlacedOK, ShapeOK, TypesOK, WorldOK, NoEntry
<1>3. \A p \in Publisher : pub[p].queue \in Seq(Message) /\ pub'[p].queue \in {pub[p].queue, <<>>}
  BY OnlyCurrent DEF Follows
<1>4. KnownOK'
  <2>1. \A m \in Present' \cup dropped' : m <= accepted'
    BY <1>1, <1>2 DEF MessagesOK, KnownOK
  <2>2. \A p \in Publisher : \A i \in 1 .. Len(pub'[p].queue) : pub'[p].queue[i] <= accepted'
    BY <1>3 DEF MessagesOK, KnownOK
  <2> QED
    BY <2>1, <2>2 DEF KnownOK
<1>5. QueuedOK'
  <2> SUFFICES ASSUME NEW p \in Publisher, NEW i \in 1 .. Len(pub'[p].queue)
               PROVE  /\ pub'[p].queue[i] \notin Present' \cup dropped'
                      /\ \A j \in 1 .. Len(pub'[p].queue) : pub'[p].queue[i] = pub'[p].queue[j] => i = j
    BY DEF QueuedOK
  <2>1. pub'[p].queue = pub[p].queue
    BY <1>3
  <2>2. pub[p].queue[i] \in Message
    BY <1>3, <2>1
  <2> QED
    BY <1>1, <1>2, <2>1, <2>2 DEF MessagesOK, QueuedOK
<1>6. StagedOK'
  <2> SUFFICES ASSUME NEW p \in Publisher, pub'[p].stage = "staged"
               PROVE  /\ pub'[p].entry \notin Fed' \cup dropped'
                      /\ \A q \in Publisher \ {p} : pub'[q].entry # pub'[p].entry /\ pub'[q].text.entry # pub'[p].entry
    BY DEF StagedOK
  <2>1. pub[p].stage = "staged" /\ pub'[p].entry = pub[p].entry
    BY DEF Follows
  <2>2. p = current /\ pub[p].entry \in Message
    BY <2>1, OnlyCurrent
  <2>3. /\ pub[p].entry \notin Fed \cup dropped
        /\ \A q \in Publisher \ {p} : pub[q].entry # pub[p].entry /\ pub[q].text.entry # pub[p].entry
    BY <2>1 DEF MessagesOK, StagedOK
  <2>4. pub[p].entry \notin Fed'
    BY <2>1, <2>3
  <2>5. ASSUME NEW q \in Publisher \ {p}
        PROVE  pub'[q].entry # pub[p].entry /\ pub'[q].text.entry # pub[p].entry
    BY <1>2, <2>2, <2>3 DEF Follows
  <2> QED
    BY <2>1, <2>3, <2>4, <2>5
<1>7. DroppedOK'
  <2>1. \A m \in dropped' \ doubt' : m \notin Present'
    BY <1>1, <1>2 DEF MessagesOK, DroppedOK
  <2> QED
    BY <2>1 DEF DroppedOK
<1> QED
  BY <1>4, <1>5, <1>6, <1>7 DEF MessagesOK

\* A publisher whose messages did not change,
LEMMA FollowsSame ==
  ASSUME NEW p \in Publisher,
         \/ pub'[p] = pub[p]
         \/ /\ pub'[p].queue = pub[p].queue /\ pub'[p].entry = pub[p].entry /\ pub'[p].stage = pub[p].stage
            /\ pub'[p].text = pub[p].text /\ pub'[p].read = pub[p].read
  PROVE  Follows(p)
BY DEF Follows

\* or which lost them all.
LEMMA FollowsBlank ==
  ASSUME NEW p \in Publisher, pub'[p] = Blank \/ pub'[p] = Opened
  PROVE  Follows(p)
<1>1. Absent.entry = NoEntry
  BY DEF Absent
<1>2. /\ Opened.queue = <<>> /\ Opened.entry = NoEntry /\ Opened.stage = "none"
      /\ Opened.text = Absent /\ Opened.read = Absent
  BY DEF Opened
<1>3. /\ Blank.queue = <<>> /\ Blank.entry = NoEntry /\ Blank.stage = "none"
      /\ Blank.text = Absent /\ Blank.read = Absent
  BY DEF Opened, Blank
<1> QED
  BY <1>1, <1>2, <1>3 DEF Follows

\* Steps that move no message.
LEMMA MessagesCalmSteps ==
  ASSUME ShapeOK, ShapeOK', MessagesOK,
         \/ Stop \/ Drained \/ ReleasesLock \/ Tick
         \/ \E p \in Publisher : \/ Reads(p) \/ GivesUp(p) \/ ResumeFails(p) \/ SaveEnds(p) \/ Answered(p)
         \/ UNCHANGED vars
  PROVE  MessagesOK'
<1> SUFFICES /\ UNCHANGED <<accepted, dropped, doubt, feed, path, temp>>
             /\ \A p \in Publisher : Follows(p)
             /\ \A p \in Publisher : pub'[p].io = pub[p].io /\ pub'[p].text = pub[p].text
  <2>1. Fed' = Fed
    BY DEF Fed
  <2>2. Copies
    BY DEF Copies
  <2>3. TemporaryOK'
    BY DEF TemporaryOK, MessagesOK
  <2> QED
    BY <2>1, <2>2, <2>3, MessagesMove
<1>1. CASE Stop \/ Tick
  <2>1. /\ UNCHANGED <<accepted, dropped, doubt, feed, path, temp>>
        /\ \A p \in Publisher : SameHeld(pub[p], pub'[p]) /\ SameWrite(pub[p], pub'[p]) /\ SameLoop(pub[p], pub'[p])
    BY <1>1, StopIs, TickIs DEF file_vars, log_vars
  <2> QED
    BY <2>1, FollowsSame DEF SameHeld, SameWrite, SameLoop
<1>2. CASE Drained
  <2>1. /\ UNCHANGED <<accepted, dropped, doubt, feed, path, temp>>
        /\ \A p \in Publisher : pub'[p] = pub[p] \/ (SameHeld(pub[p], pub'[p]) /\ SameWrite(pub[p], pub'[p])
                                                     /\ SameLoop(pub[p], pub'[p]))
    BY <1>2, DrainedIs DEF file_vars, log_vars
  <2> QED
    BY <2>1, FollowsSame DEF SameHeld, SameWrite, SameLoop
<1>3. CASE ReleasesLock \/ UNCHANGED vars
  <2>1. UNCHANGED <<accepted, dropped, doubt, feed, path, temp, pub>>
    BY <1>3, ReleasesLockIs DEF vars, file_vars, log_vars
  <2> QED
    BY <2>1, FollowsSame
<1>4. ASSUME NEW p \in Publisher, Reads(p) \/ ResumeFails(p) \/ GivesUp(p)
      PROVE  /\ UNCHANGED <<accepted, dropped, doubt, feed, path, temp>>
             /\ \A q \in Publisher : Follows(q)
             /\ \A q \in Publisher : pub'[q].io = pub[q].io /\ pub'[q].text = pub[q].text
  <2>1. /\ UNCHANGED <<accepted, dropped, doubt, feed, path, temp>>
        /\ \A q \in Publisher \ {p} : pub'[q] = pub[q]
        /\ SameHeld(pub[p], pub'[p]) /\ SameWrite(pub[p], pub'[p])
        /\ pub'[p].read \in {path, Absent, pub[p].read}
    BY <1>4, ReadsIs, ResumeFailsIs, GivesUpIs DEF file_vars, log_vars
  <2>2. Follows(p)
    BY <2>1 DEF Follows, SameHeld, SameWrite, Absent
  <2> QED
    BY <2>1, <2>2, FollowsSame DEF SameWrite
<1>5. ASSUME NEW p \in Publisher, SaveEnds(p)
      PROVE  /\ UNCHANGED <<accepted, dropped, doubt, feed, path, temp>>
             /\ \A q \in Publisher : Follows(q)
             /\ \A q \in Publisher : pub'[q].io = pub[q].io /\ pub'[q].text = pub[q].text
  <2>1. /\ UNCHANGED <<accepted, dropped, doubt, feed, path, temp>>
        /\ \A q \in Publisher \ {p} : pub'[q] = pub[q]
        /\ pub'[p].io = pub[p].io /\ pub'[p].text = pub[p].text
        /\ SameLoop(pub[p], pub'[p])
        /\ SameHeld(pub[p], pub'[p]) \/ pub'[p] = Blank
    BY <1>5, SaveEndsIs DEF file_vars, log_vars
  <2>2. Follows(p)
    BY <2>1, FollowsSame, FollowsBlank DEF SameHeld, SameLoop
  <2> QED
    BY <2>1, <2>2, FollowsSame
<1>6. ASSUME NEW p \in Publisher, Answered(p)
      PROVE  /\ UNCHANGED <<accepted, dropped, doubt, feed, path, temp>>
             /\ \A q \in Publisher : Follows(q)
             /\ \A q \in Publisher : pub'[q].io = pub[q].io /\ pub'[q].text = pub[q].text
  <2>1. /\ UNCHANGED <<accepted, dropped, doubt, feed, path, temp>>
        /\ \A q \in Publisher \ {p} : pub'[q] = pub[q]
    BY <1>6, AnsweredIs DEF file_vars, log_vars
  <2>2. /\ pub'[p].io = pub[p].io /\ pub'[p].text = pub[p].text /\ SameLoop(pub[p], pub'[p])
        /\ pub'[p].queue = pub[p].queue /\ pub'[p].entry = NoEntry /\ pub'[p].stage = "none"
    BY <1>6, AnsweredIs, LandingIs
  <2>3. Follows(p)
    BY <2>2 DEF Follows, SameLoop
  <2> QED
    BY <2>1, <2>2, <2>3, FollowsSame
<1> QED
  BY <1>1, <1>2, <1>3, <1>4, <1>5, <1>6

\* Starts and ends of a process.
LEMMA MessagesStarts ==
  ASSUME ShapeOK, ShapeOK', DownOK, MessagesOK, Start \/ Exit \/ Crash \/ Refuses
  PROVE  MessagesOK'
<1>1. /\ UNCHANGED <<accepted, dropped, doubt, feed, path>> /\ temp' \in {temp, Absent}
      /\ \A p \in Publisher : pub'[p] \in {pub[p], Blank, Opened}
      /\ temp' = Absent \/ \A p \in Publisher : pub'[p] = pub[p] \/ pub[p] = Blank
  <2>2. CASE Start
    <3>1. \A p \in Publisher : pub[p] = Blank
      BY <2>2 DEF Start, DownOK
    <3> QED
      BY <2>2, <3>1, StartIs DEF file_vars, log_vars
  <2>3. CASE Exit \/ Crash
    BY <2>3, EndsIs, ProcessEndsIs DEF log_vars
  <2>4. CASE Refuses
    BY <2>4, RefusesIs DEF file_vars
  <2> QED
    BY <2>2, <2>3, <2>4
<1>2. \A p \in Publisher : Follows(p)
  BY <1>1, FollowsSame, FollowsBlank
<1>3. Copies /\ Fed' = Fed
  BY <1>1 DEF Copies, Fed, Absent
<1>4. TemporaryOK'
  <2>1. CASE temp' = Absent
    BY <2>1 DEF TemporaryOK, Absent
  <2>2. CASE temp' = temp /\ \A p \in Publisher : pub'[p] = pub[p] \/ pub[p] = Blank
    <3>1. Blank.io = "none"
      BY DEF Blank, Opened
    <3> QED
      BY <2>2, <3>1 DEF TemporaryOK, MessagesOK
  <2> QED
    BY <1>1, <2>1, <2>2
<1> QED
  BY <1>1, <1>2, <1>3, <1>4, MessagesMove

\* Steps of a checkpoint write copy what its publisher holds.
LEMMA MessagesWrites ==
  ASSUME ShapeOK, ShapeOK', MessagesOK, NEW p \in Publisher,
         OpensTemporary(p) \/ WritesFile(p) \/ WriteFails(p) \/ Renames(p)
  PROVE  MessagesOK'
<1> SUFFICES /\ UNCHANGED <<accepted, dropped, doubt, feed>> /\ Copies /\ TemporaryOK'
             /\ \A q \in Publisher : Follows(q)
  BY MessagesMove DEF Fed
<1>0. \A q \in Publisher : pub[q] \in Record
  BY DEF ShapeOK, TypesOK
<1>1. CASE OpensTemporary(p)
  <2>1. /\ UNCHANGED <<accepted, dropped, doubt, feed, path>> /\ temp' = Half
        /\ \A q \in Publisher \ {p} : pub'[q] = pub[q]
        /\ SameHeld(pub[p], pub'[p]) /\ SameLoop(pub[p], pub'[p]) /\ pub'[p].text = Snapshot(pub[p])
    BY <1>1, OpensTemporaryIs DEF log_vars
  <2>2. temp'.entry = NoEntry
    BY <2>1 DEF Half
  <2>3. Follows(p)
    BY <2>1 DEF Follows, SameHeld, SameLoop, Snapshot
  <2> QED
    BY <2>1, <2>2, <2>3, FollowsSame DEF Copies, TemporaryOK
<1>2. CASE WritesFile(p)
  <2>1. /\ UNCHANGED <<accepted, dropped, doubt, feed>>
        /\ \A q \in Publisher \ {p} : pub'[q] = pub[q]
        /\ SameHeld(pub[p], pub'[p]) /\ SameLoop(pub[p], pub'[p]) /\ pub'[p].text = pub[p].text
        /\ pub[p].io = "opened" /\ pub'[p].io = "written"
    BY <1>2, WritesFileIs DEF log_vars
  <2>2. PICK text \in Texts(p) : /\ path' = IF pub[p].file = "path" THEN text ELSE path
                                 /\ temp' = IF pub[p].file = "temp" THEN text ELSE temp
    BY <1>2, WritesFileIs
  <2>3. text = pub[p].text \/ text.entry = NoEntry
    BY DEF Texts, Half
  <2>4. Copies
    BY <2>2, <2>3 DEF Copies
  <2>5. TemporaryOK'
    <3>1. CASE temp' = text
      BY <2>1, <2>3, <3>1 DEF TemporaryOK
    <3>2. CASE temp' = temp
      <4>1. SUFFICES ASSUME temp.entry # NoEntry
                     PROVE  \E q \in Publisher : pub'[q].io = "written" /\ pub'[q].text.entry = temp.entry
        BY <3>2 DEF TemporaryOK
      <4>2. PICK q \in Publisher : pub[q].io = "written" /\ pub[q].text.entry = temp.entry
        BY <4>1 DEF MessagesOK, TemporaryOK
      <4> QED
        BY <2>1, <4>2
    <3> QED
      BY <2>2, <3>1, <3>2
  <2>6. Follows(p)
    BY <2>1, FollowsSame DEF SameHeld, SameLoop
  <2> QED
    BY <2>1, <2>4, <2>5, <2>6, FollowsSame
<1>3. CASE WriteFails(p)
  <2>1. /\ UNCHANGED <<accepted, dropped, doubt, feed, path, temp>>
        /\ \A q \in Publisher \ {p} : pub'[q] = pub[q]
        /\ pub[p].io = "written" => temp = Absent
        /\ WroteAs(pub[p], pub'[p]) /\ pub'[p].stage = pub[p].stage
    BY <1>3, WriteFailsIs DEF file_vars, log_vars
  <2>2. Follows(p)
    BY <2>1 DEF Follows, WroteAs, SameLoop, Absent
  <2>3. TemporaryOK'
    <3>1. Absent.entry = NoEntry
      BY DEF Absent
    <3> QED
      BY <2>1, <3>1 DEF TemporaryOK, MessagesOK
  <2> QED
    BY <2>1, <2>2, <2>3, FollowsSame DEF Copies
<1>4. CASE Renames(p)
  <2>1. /\ UNCHANGED <<accepted, dropped, doubt, feed>> /\ path' = temp /\ temp' = Absent
        /\ \A q \in Publisher \ {p} : MovedAs(pub[q], pub'[q])
        /\ WroteAs(pub[p], pub'[p])
        /\ pub'[p].stage \in {pub[p].stage, "recorded"}
    BY <1>4, RenamesIs DEF log_vars
  <2>2. Follows(p)
    BY <2>1 DEF Follows, WroteAs, SameLoop, Absent
  <2>3. \A q \in Publisher \ {p} : Follows(q)
    BY <2>1, FollowsSame DEF MovedAs, SameHeld, SameLoop
  <2> QED
    BY <2>1, <2>2, <2>3 DEF Copies, TemporaryOK, Absent
<1> QED
  BY <1>1, <1>2, <1>3, <1>4

\* A new message is nowhere yet.
LEMMA MessagesTakes ==
  ASSUME ShapeOK, ShapeOK', MessagesOK, Takes
  PROVE  MessagesOK'
<1> DEFINE p == current'
           new == accepted'
<1>1. /\ p \in Publisher /\ new = accepted + 1 /\ accepted \in Nat
      /\ UNCHANGED <<path, temp, feed, dropped, doubt>>
      /\ \A q \in Publisher \ {p} : pub'[q] = pub[q]
      /\ pub'[p].read = pub[p].read /\ pub'[p].text = pub[p].text /\ pub'[p].entry = pub[p].entry
      /\ pub'[p].stage = pub[p].stage /\ pub'[p].io = pub[p].io /\ pub'[p].queue = Append(pub[p].queue, new)
      /\ pub[p].queue \in Seq(Message) /\ new \in Message
  BY TakesIs, PlacedIs, OnlyCurrent DEF SameWrite, PlacedOK, file_vars
<1>2. \A q \in Publisher : /\ pub'[q].read = pub[q].read /\ pub'[q].text = pub[q].text /\ pub'[q].entry = pub[q].entry
                           /\ pub'[q].stage = pub[q].stage /\ pub'[q].io = pub[q].io
  BY <1>1
<1>3. Present' = Present
  <2>1. Fed' = Fed
    BY <1>1 DEF Fed
  <2>2. Entered' = Entered /\ Copied' = Copied
    BY <1>1, <1>2 DEF Entered, Copied
  <2> QED
    BY <2>1, <2>2 DEF Present
<1>4. /\ \A m \in Present \cup dropped : m <= accepted /\ m \in Int
      /\ \A q \in Publisher : \A i \in 1 .. Len(pub[q].queue) : pub[q].queue[i] <= accepted
  <2>1. Present \subseteq Int
    <3>1. Fed \subseteq Message
      BY DEF Fed, ShapeOK, TypesOK, WorldOK
    <3>2. Entered \subseteq Message \cup {NoEntry}
      BY OnlyCurrent DEF Entered, Record
    <3>3. Copied \subseteq Message \cup {NoEntry}
      BY OnlyCurrent, TextIs, SMTT(60) DEF Copied, Record, ShapeOK, TypesOK, WorldOK
    <3> QED
      BY <3>1, <3>2, <3>3 DEF Present, Message, NoEntry
  <2>2. dropped \subseteq Int
    BY DEF ShapeOK, TypesOK, WorldOK, Message
  <2> QED
    BY <2>1, <2>2 DEF MessagesOK, KnownOK
<1>5. /\ Len(pub'[p].queue) = Len(pub[p].queue) + 1 /\ pub'[p].queue[Len(pub[p].queue) + 1] = new
      /\ \A i \in 1 .. Len(pub[p].queue) : pub'[p].queue[i] = pub[p].queue[i] /\ pub[p].queue[i] \in Message
      /\ Len(pub[p].queue) \in Nat
  BY <1>1
<1> DEFINE last == Len(pub[p].queue) + 1
<1>51. ASSUME NEW i \in 1 .. Len(pub'[p].queue)
       PROVE  \/ i \in 1 .. Len(pub[p].queue) /\ pub'[p].queue[i] = pub[p].queue[i]
              \/ i = last /\ pub'[p].queue[i] = new
  BY <1>5
<1>6. KnownOK'
  <2>1. \A m \in Present' \cup dropped' : m <= new
    BY <1>1, <1>3, <1>4
  <2>2. ASSUME NEW q \in Publisher, NEW i \in 1 .. Len(pub'[q].queue) PROVE pub'[q].queue[i] <= new
    <3>1. CASE q = p
      <4>1. pub'[p].queue[i] = new \/ (pub'[p].queue[i] <= accepted /\ pub'[p].queue[i] \in Message)
        BY <1>4, <1>5, <1>51, <3>1
      <4>2. new = accepted + 1 /\ accepted \in Nat
        BY <1>1
      <4>3. Message \subseteq Int
        BY ConstantsAssumption DEF Message
      <4> HIDE DEF p, new
      <4>4. \A m \in Message : m <= accepted => m <= new
        BY <4>2, <4>3
      <4>5. new <= new
        BY <4>2
      <4> QED
        BY <3>1, <4>1, <4>4, <4>5
    <3>2. CASE q # p
      <4>1. pub'[q].queue = pub[q].queue /\ pub[q].queue \in Seq(Message)
        BY <1>1, <3>2, OnlyCurrent
      <4>2. pub[q].queue[i] \in Message /\ pub[q].queue[i] <= accepted
        BY <1>4, <2>2, <4>1
      <4> QED
        BY <1>1, <4>1, <4>2 DEF Message
    <3> QED
      BY <3>1, <3>2
  <2> QED
    BY <2>1, <2>2 DEF KnownOK
<1>7. QueuedOK'
  <2> SUFFICES ASSUME NEW q \in Publisher, NEW i \in 1 .. Len(pub'[q].queue)
               PROVE  /\ pub'[q].queue[i] \notin Present' \cup dropped'
                      /\ \A j \in 1 .. Len(pub'[q].queue) : pub'[q].queue[i] = pub'[q].queue[j] => i = j
    BY DEF QueuedOK
  <2>1. CASE q # p
    BY <1>1, <1>3, <2>1 DEF MessagesOK, QueuedOK
  <2>2. CASE q = p
    <3>1. new \notin Present \cup dropped
      BY <1>1, <1>4
    <3>2. ASSUME NEW k \in 1 .. Len(pub[p].queue)
          PROVE  pub[p].queue[k] # new /\ pub[p].queue[k] \notin Present \cup dropped
                 /\ \A j \in 1 .. Len(pub[p].queue) : pub[p].queue[k] = pub[p].queue[j] => k = j
      <4>1. pub[p].queue[k] <= accepted /\ pub[p].queue[k] \in Message
        BY <1>1, <1>4, <1>5
      <4> QED
        BY <1>1, <4>1 DEF MessagesOK, QueuedOK, Message
    <3>3. UNCHANGED dropped
      BY <1>1
    <3>4. i \in 1 .. Len(pub'[p].queue)
      BY <2>2
    <3> HIDE DEF p, new, last
    <3>5. pub'[p].queue[i] \notin Present' \cup dropped'
      BY <1>3, <1>51, <3>1, <3>2, <3>3, <3>4
    <3>6. ASSUME NEW j \in 1 .. Len(pub'[p].queue), pub'[p].queue[i] = pub'[p].queue[j] PROVE i = j
      BY <1>51, <3>2, <3>4, <3>6
    <3> QED
      BY <2>2, <3>5, <3>6
  <2> QED
    BY <2>1, <2>2
<1>8. StagedOK' /\ TemporaryOK' /\ DroppedOK'
  <2>1. Fed' = Fed
    BY <1>1 DEF Fed
  <2>2. StagedOK'
    BY <1>1, <1>2, <2>1 DEF MessagesOK, StagedOK
  <2>3. TemporaryOK'
    BY <1>1, <1>2 DEF MessagesOK, TemporaryOK
  <2>4. DroppedOK'
    BY <1>1, <1>3 DEF MessagesOK, DroppedOK
  <2> QED
    BY <2>2, <2>3, <2>4
<1> QED
  BY <1>6, <1>7, <1>8 DEF MessagesOK

\* One that is staged leaves the queue.
LEMMA MessagesStages ==
  ASSUME ShapeOK, ShapeOK', MessagesOK, NEW p \in Publisher, Stages(p)
  PROVE  MessagesOK'
<1> DEFINE m == Head(pub[p].queue)
<1>1. /\ UNCHANGED <<accepted, dropped, doubt, feed, path, temp>>
      /\ \A q \in Publisher \ {p} : pub'[q] = pub[q]
      /\ p = current /\ pub[p].queue # <<>> /\ pub'[p].queue = Tail(pub[p].queue) /\ pub'[p].entry = m
      /\ pub'[p].stage = "staged" /\ pub'[p].text = pub[p].text /\ pub'[p].io = pub[p].io
      /\ pub'[p].read = pub[p].read /\ pub[p].queue \in Seq(Message)
  BY StagesIs, OnlyCurrent DEF server_vars, file_vars, log_vars, SameLoop
<1>2. /\ Len(pub[p].queue) \in Nat /\ 1 \in 1 .. Len(pub[p].queue) /\ m = pub[p].queue[1] /\ m \in Message
      /\ Len(pub'[p].queue) = Len(pub[p].queue) - 1
      /\ \A i \in 1 .. Len(pub'[p].queue) :
           i + 1 \in 1 .. Len(pub[p].queue) /\ i + 1 # 1 /\ pub'[p].queue[i] = pub[p].queue[i + 1]
  BY <1>1
<1>3. m \notin Present \cup dropped /\ m <= accepted /\ m # NoEntry
      /\ \A i \in 1 .. Len(pub'[p].queue) : pub'[p].queue[i] # m
  BY <1>2, TextIs DEF MessagesOK, QueuedOK, KnownOK
<1>4. Fed' = Fed /\ Present' \subseteq Present \cup {m} /\ Fed \subseteq Present
      /\ \A q \in Publisher : pub[q].entry \in Present /\ pub[q].text.entry \in Present
  <2>1. Fed' = Fed
    BY <1>1 DEF Fed
  <2>2. \A q \in Publisher : pub'[q].read = pub[q].read /\ pub'[q].text = pub[q].text
    BY <1>1
  <2>3. Copied' = Copied
    BY <1>1, <2>2 DEF Copied
  <2>4. Entered' \subseteq Entered \cup {m}
    BY <1>1 DEF Entered
  <2> QED
    BY <2>1, <2>3, <2>4 DEF Present, Entered, Copied
<1>41. /\ \A i \in 1 .. Len(pub[p].queue) : pub[p].queue[i] <= accepted
       /\ \A i, j \in 1 .. Len(pub[p].queue) : pub[p].queue[i] = pub[p].queue[j] => i = j
  BY DEF MessagesOK, KnownOK, QueuedOK
<1> HIDE DEF m
<1>5. KnownOK'
  <2>1. \A x \in Present' \cup dropped' : x <= accepted'
    BY <1>1, <1>3, <1>4 DEF MessagesOK, KnownOK
  <2>2. ASSUME NEW q \in Publisher, NEW i \in 1 .. Len(pub'[q].queue) PROVE pub'[q].queue[i] <= accepted'
    <3>1. CASE q = p
      BY <1>1, <1>2, <1>41, <2>2, <3>1
    <3>2. CASE q # p
      BY <1>1, <2>2, <3>2 DEF MessagesOK, KnownOK
    <3> QED
      BY <3>1, <3>2
  <2> QED
    BY <2>1, <2>2 DEF KnownOK
<1>6. QueuedOK'
  <2> SUFFICES ASSUME NEW q \in Publisher, NEW i \in 1 .. Len(pub'[q].queue)
               PROVE  /\ pub'[q].queue[i] \notin Present' \cup dropped'
                      /\ \A j \in 1 .. Len(pub'[q].queue) : pub'[q].queue[i] = pub'[q].queue[j] => i = j
    BY DEF QueuedOK
  <2>1. CASE q # p
    <3>1. pub[q].queue = <<>> /\ pub'[q].queue = <<>>
      BY <1>1, <2>1, OnlyCurrent
    <3> QED
      BY <3>1
  <2>2. CASE q = p
    <3>1. pub'[p].queue[i] \notin Present \cup dropped /\ pub'[p].queue[i] # m
      BY <1>2, <1>3, <2>2 DEF MessagesOK, QueuedOK
    <3>2. ASSUME NEW j \in 1 .. Len(pub'[p].queue), pub'[p].queue[i] = pub'[p].queue[j] PROVE i = j
      <4>1. i + 1 = j + 1
        BY <1>2, <1>41, <2>2, <3>2, ZenonT(60)
      <4> QED
        BY <1>2, <2>2, <4>1
    <3> QED
      BY <1>1, <1>4, <2>2, <3>1, <3>2
  <2> QED
    BY <2>1, <2>2
<1>7. StagedOK'
  <2> SUFFICES ASSUME NEW q \in Publisher, pub'[q].stage = "staged"
               PROVE  /\ pub'[q].entry \notin Fed' \cup dropped'
                      /\ \A o \in Publisher \ {q} : pub'[o].entry # pub'[q].entry /\ pub'[o].text.entry # pub'[q].entry
    BY DEF StagedOK
  <2>1. q = p
    BY <1>1, OnlyCurrent
  <2>2. \A o \in Publisher \ {p} : pub'[o].entry \in Present /\ pub'[o].text.entry \in Present
    BY <1>1, <1>4
  <2> QED
    BY <1>1, <1>3, <1>4, <2>1, <2>2
<1>8. TemporaryOK'
  <2>1. \A q \in Publisher : pub'[q].io = pub[q].io /\ pub'[q].text = pub[q].text
    BY <1>1
  <2> QED
    BY <1>1, <2>1 DEF MessagesOK, TemporaryOK
<1>9. DroppedOK'
  BY <1>1, <1>3, <1>4 DEF MessagesOK, DroppedOK
<1> QED
  BY <1>5, <1>6, <1>7, <1>8, <1>9 DEF MessagesOK

\* A stop, or a chat that is blocked, drops the queue, and the entry in flight unless a checkpoint may hold it.
LEMMA MessagesDrop ==
  ASSUME ShapeOK, ShapeOK', MessagesOK, NEW p \in Publisher, p = current, NEW lost,
         lost \subseteq {pub[p].entry} \ {NoEntry},
         UNCHANGED <<accepted, feed, path, temp>>,
         \A q \in Publisher \ {p} : pub'[q] = pub[q],
         pub'[p].queue = <<>>, pub'[p].entry \in {pub[p].entry, NoEntry}, pub'[p].stage # "staged",
         pub'[p].io = pub[p].io, pub'[p].text = pub[p].text, pub'[p].read \in {pub[p].read, Absent},
         dropped' = dropped \cup {pub[p].queue[i] : i \in DOMAIN pub[p].queue} \cup lost,
         doubt \subseteq doubt', lost \cap Present' \subseteq doubt'
  PROVE  MessagesOK'
<1>1. \A q \in Publisher : Follows(q)
  <2>1. Follows(p)
    BY DEF Follows, Absent
  <2> QED
    BY <2>1, FollowsSame
<1>2. Present' \subseteq Present \cup {NoEntry}
  <2>1. Copies
    BY DEF Copies
  <2>2. Fed' = Fed
    BY DEF Fed
  <2> QED
    BY <1>1, <2>1, <2>2, PresentMoves
<1>3. /\ pub[p].queue \in Seq(Message) /\ pub[p].entry \in Present /\ NoEntry \notin Message
      /\ dropped \subseteq Message /\ accepted \in Nat /\ NoEntry <= accepted
  BY OnlyCurrent, TextIs, PlacedIs DEF PlacedOK, ShapeOK, TypesOK, WorldOK, NoEntry, Present, Entered
<1>4. ASSUME NEW m \in {pub[p].queue[i] : i \in DOMAIN pub[p].queue}
      PROVE  m \notin Present /\ m <= accepted /\ m # NoEntry
  BY <1>3 DEF MessagesOK, QueuedOK, KnownOK
<1>5. \A q \in Publisher : pub'[q].queue = <<>> /\ pub'[q].stage # "staged"
  BY OnlyCurrent
<1>6. KnownOK'
  <2>1. \A m \in Present \cup dropped : m <= accepted
    BY DEF MessagesOK, KnownOK
  <2>2. ASSUME NEW m \in Present' \cup dropped' PROVE m <= accepted'
    BY <1>2, <1>3, <1>4, <2>1
  <2>3. \A q \in Publisher : \A i \in 1 .. Len(pub'[q].queue) : pub'[q].queue[i] <= accepted'
    BY <1>5
  <2> QED
    BY <2>2, <2>3 DEF KnownOK
<1>7. QueuedOK' /\ StagedOK'
  BY <1>5 DEF QueuedOK, StagedOK
<1>8. TemporaryOK'
  <2>1. \A q \in Publisher : pub'[q].io = pub[q].io /\ pub'[q].text = pub[q].text
    OBVIOUS
  <2> QED
    BY <2>1 DEF MessagesOK, TemporaryOK
<1>9. DroppedOK'
  <2>1. ASSUME NEW m \in dropped' \ doubt' PROVE m \notin Present'
    <3>1. CASE m \in dropped
      BY <1>2, <1>3, <2>1, <3>1 DEF MessagesOK, DroppedOK
    <3>2. CASE m \in lost
      BY <2>1, <3>2
    <3>3. CASE m \in {pub[p].queue[i] : i \in DOMAIN pub[p].queue}
      BY <1>2, <1>4, <3>3
    <3> QED
      BY <2>1, <3>1, <3>2, <3>3
  <2> QED
    BY <2>1 DEF DroppedOK
<1> QED
  BY <1>6, <1>7, <1>8, <1>9 DEF MessagesOK

\* A stop drops what it reports.
LEMMA MessagesStops ==
  ASSUME ShapeOK, ShapeOK', MessagesOK, DrainStops
  PROVE  MessagesOK'
<1> DEFINE p == current
           lost == IF pub[p].stage = "staged" THEN {pub[p].entry} ELSE {}
<1>1. /\ p \in Publisher /\ UNCHANGED <<accepted, feed, path, temp>>
      /\ \A q \in Publisher \ {p} : pub'[q] = pub[q]
      /\ StoppedAs(pub[p], pub'[p])
      /\ dropped' = dropped \cup Drops(pub[p]) /\ doubt' = doubt \cup InDoubt(pub[p])
  BY DrainStopsIs DEF server_vars, file_vars
<1>2. lost \subseteq {pub[p].entry} \ {NoEntry}
  BY <1>1, OnlyCurrent, TextIs
<1>3. /\ pub'[p].queue = <<>> /\ pub'[p].entry \in {pub[p].entry, NoEntry} /\ pub'[p].stage # "staged"
      /\ pub'[p].io = pub[p].io /\ pub'[p].text = pub[p].text /\ pub'[p].read = pub[p].read
  BY <1>1 DEF StoppedAs, SameWrite
<1>4. dropped' = dropped \cup {pub[p].queue[i] : i \in DOMAIN pub[p].queue} \cup lost
  BY <1>1 DEF Drops
<1>5. lost \cap Present' \subseteq doubt'
  <2> SUFFICES ASSUME pub[p].stage = "staged", pub[p].entry \in Present', pub[p].entry \notin doubt'
               PROVE  FALSE
    OBVIOUS
  <2> DEFINE e == pub[p].entry
  <2>1. e # NoEntry /\ e # pub[p].text.entry /\ e # path.entry /\ pub'[p].entry = NoEntry
    BY <1>1, OnlyCurrent, TextIs DEF InDoubt, StoppedAs
  <2>2. /\ e \notin Fed
        /\ \A q \in Publisher \ {p} : pub[q].entry # e /\ pub[q].text.entry # e
    BY <1>1 DEF MessagesOK, StagedOK
  <2>3. \A q \in Publisher : pub'[q].read = Absent
    BY <1>1, <1>3, OnlyCurrent
  <2>4. temp.entry # e
    BY <2>1, <2>2 DEF MessagesOK, TemporaryOK
  <2>5. e \notin Fed' /\ e \notin Entered'
    BY <1>1, <2>1, <2>2 DEF Fed, Entered
  <2>6. e \notin Copied'
    <3>1. Absent.entry = NoEntry
      BY DEF Absent
    <3>2. \A q \in Publisher : pub'[q].text.entry # e /\ pub'[q].read.entry # e
      BY <1>1, <1>3, <2>1, <2>2, <2>3, <3>1
    <3> QED
      BY <1>1, <2>1, <2>4, <3>2 DEF Copied
  <2> QED
    BY <2>5, <2>6 DEF Present
<1> HIDE DEF lost
<1> QED
  BY <1>1, <1>2, <1>3, <1>4, <1>5, MessagesDrop

\* So does a block.
LEMMA MessagesBlocks ==
  ASSUME ShapeOK, ShapeOK', MessagesOK, NEW p \in Publisher, NEW x \in BOOLEAN, Blocks(p, x),
         pub[p].loop = "resumes" \/ (pub[p].stage = "recorded" /\ ~pub[p].stopped),
         UNCHANGED <<server, current, accepted, feed, path, temp>>
  PROVE  MessagesOK'
<1> DEFINE lost == {pub[p].entry} \ {NoEntry}
<1>1. WorldOK'
  BY DEF ShapeOK, TypesOK
<1>2. /\ p = current /\ \A q \in Publisher \ {p} : pub'[q] = pub[q]
  BY <1>1, BlockIs
<1>3. /\ SameWrite(pub[p], pub'[p]) /\ pub'[p].read = Absent
      /\ pub'[p].queue = <<>> /\ pub'[p].entry = NoEntry /\ pub'[p].stage = "none"
      /\ dropped' = dropped \cup {pub[p].queue[i] : i \in DOMAIN pub[p].queue} \cup lost
      /\ doubt' = doubt \cup lost
  BY <1>1, BlockIs
<1> HIDE DEF lost
<1>4. lost \subseteq {pub[p].entry} \ {NoEntry} /\ doubt \subseteq doubt' /\ lost \cap Present' \subseteq doubt'
  BY <1>3 DEF lost
<1>5. pub'[p].io = pub[p].io /\ pub'[p].text = pub[p].text
  BY <1>3 DEF SameWrite
<1> QED
  BY <1>2, <1>3, <1>4, <1>5, MessagesDrop

\* An eviction moves no message.
LEMMA MessagesOthers ==
  ASSUME ShapeOK, ShapeOK', MessagesOK, NEW t \in Other, OtherOpens(t)
  PROVE  MessagesOK'
<1>1. UNCHANGED <<accepted, dropped, doubt, feed, path, temp>>
  BY OtherOpensIs DEF file_vars, log_vars
<1>2. CASE UNCHANGED pub
  <2>1. \A q \in Publisher : Follows(q)
    BY <1>2, FollowsSame
  <2>2. Fed' = Fed /\ Copies /\ TemporaryOK'
    BY <1>1, <1>2 DEF Fed, Copies, MessagesOK, TemporaryOK
  <2> QED
    BY <1>1, <2>1, <2>2, MessagesMove
<1>3. CASE ~UNCHANGED pub
  <2>1. /\ current \in Publisher /\ \A q \in Publisher \ {current} : pub'[q] = pub[q]
        /\ pub[current].queue = <<>> /\ pub[current].entry = NoEntry /\ pub[current].stage = "none"
        /\ StoppedAs(pub[current], pub'[current])
    BY <1>3, OtherOpensIs
  <2>2. \A q \in Publisher : /\ pub'[q].queue = pub[q].queue /\ pub'[q].entry = pub[q].entry
                             /\ pub'[q].stage = pub[q].stage /\ pub'[q].text = pub[q].text
                             /\ pub'[q].read = pub[q].read /\ pub'[q].io = pub[q].io
    BY <2>1 DEF StoppedAs, SameWrite
  <2>3. \A q \in Publisher : Follows(q)
    BY <2>2, FollowsSame
  <2>4. Fed' = Fed /\ Copies /\ TemporaryOK'
    BY <1>1, <2>2 DEF Fed, Copies, MessagesOK, TemporaryOK
  <2> QED
    BY <1>1, <2>3, <2>4, MessagesMove
<1> QED
  BY <1>2, <1>3

\* A resume brings back the entry in flight of the checkpoint.
LEMMA MessagesResumes ==
  ASSUME ShapeOK, ShapeOK', MessagesOK, NEW p \in Publisher, Resumes(p)
  PROVE  MessagesOK'
<1>1. /\ UNCHANGED <<server, current, accepted, feed, path, temp>> /\ p = current /\ pub[p].loop = "resumes"
      /\ \A q \in Publisher \ {p} : pub'[q] = pub[q]
  BY ResumesIs DEF server_vars, file_vars
<1>2. ASSUME NEW x \in BOOLEAN, Blocks(p, x) PROVE MessagesOK'
  BY <1>1, <1>2, MessagesBlocks
<1>3. CASE ReadyAs(pub[p], pub'[p]) /\ UNCHANGED <<dropped, doubt>>
  <2>1. /\ pub'[p].queue = pub[p].queue /\ pub'[p].text = pub[p].text /\ pub'[p].read.entry = NoEntry
        /\ pub'[p].entry = pub[p].read.entry /\ pub'[p].stage # "staged" /\ pub'[p].io = pub[p].io
    BY <1>3 DEF ReadyAs, Absent
  <2>2. \A q \in Publisher : Follows(q)
    <3>1. Follows(p)
      BY <1>1, <2>1 DEF Follows
    <3> QED
      BY <1>1, <3>1, FollowsSame
  <2>3. Fed' = Fed /\ Copies
    BY <1>1 DEF Fed, Copies
  <2>4. TemporaryOK'
    <3>1. \A q \in Publisher : pub'[q].text = pub[q].text /\ pub'[q].io = pub[q].io
      BY <1>1, <2>1
    <3> QED
      BY <1>1, <3>1 DEF MessagesOK, TemporaryOK
  <2> QED
    BY <1>1, <1>3, <2>2, <2>3, <2>4, MessagesMove
<1> QED
  BY <1>2, <1>3, ResumesIs

\* A slot takes an entry that is in flight.
LEMMA MessagesSends ==
  ASSUME ShapeOK, ShapeOK', MessagesOK, NEW p \in Publisher, Sends(p)
  PROVE  MessagesOK'
<1> DEFINE s == pub[p].index + 1
<1>1. /\ UNCHANGED <<server, current, path, temp, accepted>> /\ p = current /\ pub[p].stage = "recorded"
      /\ ~pub[p].stopped /\ pub[p].read = Absent /\ WorldOK'
      /\ \A q \in Publisher \ {p} : pub'[q] = pub[q]
  BY SendsIs DEF server_vars, file_vars, ShapeOK, TypesOK
<1>2. SUFFICES ASSUME /\ UNCHANGED <<dropped, doubt>> /\ Follows(p)
                      /\ pub'[p].text = pub[p].text /\ pub'[p].io = pub[p].io
                      /\ Fed' \subseteq Fed \cup {pub[p].entry}
               PROVE  MessagesOK'
  <2>1. CASE /\ feed' = [feed EXCEPT ![s] = @ \cup {pub[p].entry}] /\ UNCHANGED <<dropped, doubt>>
             /\ SameLoop(pub[p], pub'[p]) /\ SameWrite(pub[p], pub'[p])
             /\ pub'[p].queue = pub[p].queue /\ pub'[p].entry = pub[p].entry /\ pub'[p].stage = "sent"
    <3>1. Follows(p) /\ pub'[p].text = pub[p].text /\ pub'[p].io = pub[p].io
      BY <2>1 DEF Follows, SameLoop, SameWrite
    <3>2. \A i \in Slot : feed'[i] \subseteq feed[i] \cup {pub[p].entry}
      BY <2>1 DEF ShapeOK, TypesOK, WorldOK
    <3>3. Fed' \subseteq Fed \cup {pub[p].entry}
      BY <3>2 DEF Fed
    <3> QED
      BY <1>2, <2>1, <3>1, <3>3
  <2>2. CASE Becomes(p, Lands(pub[p])) /\ UNCHANGED <<feed, dropped, doubt>>
    <3>1. /\ pub'[p].io = pub[p].io /\ pub'[p].text = pub[p].text /\ SameLoop(pub[p], pub'[p])
          /\ pub'[p].queue = pub[p].queue /\ pub'[p].entry = NoEntry /\ pub'[p].stage = "none"
      BY <1>1, <2>2, LandingIs
    <3>2. Follows(p) /\ Fed' \subseteq Fed \cup {pub[p].entry}
      BY <2>2, <3>1 DEF Follows, SameLoop, Fed
    <3> QED
      BY <1>2, <2>2, <3>1, <3>2
  <2>3. ASSUME NEW x \in BOOLEAN, Blocks(p, x), feed' = feed PROVE MessagesOK'
    BY <1>1, <2>3, MessagesBlocks
  <2> QED
    BY <2>1, <2>2, <2>3, SendsIs
<1>3. \A q \in Publisher : Follows(q)
  BY <1>1, <1>2, FollowsSame
<1>4. TemporaryOK'
  <2>1. \A q \in Publisher : pub'[q].text = pub[q].text /\ pub'[q].io = pub[q].io
    BY <1>1, <1>2
  <2> QED
    BY <1>1, <2>1 DEF MessagesOK, TemporaryOK
<1>5. Copies
  BY <1>1 DEF Copies
<1>6. Fed' \subseteq Fed \cup {pub[q].entry : q \in {o \in Publisher : pub[o].stage = "recorded"}}
  BY <1>1, <1>2
<1> QED
  BY <1>1, <1>2, <1>3, <1>4, <1>5, <1>6, MessagesMove

\* There are no messages at first,
LEMMA MessagesInit == Init => MessagesOK
<1> SUFFICES ASSUME Init PROVE MessagesOK
  OBVIOUS
<1>1. \A p \in Publisher : /\ pub[p].queue = <<>> /\ pub[p].entry = NoEntry /\ pub[p].stage = "none"
                           /\ pub[p].text = Absent /\ pub[p].read = Absent
  BY DEF Init, Blank, Opened
<1>2. /\ path = Absent /\ temp = Absent /\ Absent.entry = NoEntry /\ dropped = {} /\ accepted = 0 /\ NoEntry = 0
      /\ \A s \in Slot : feed[s] = {}
  BY DEF Init, Absent, NoEntry
<1>3. Present \subseteq {NoEntry}
  BY <1>1, <1>2 DEF Present, Fed, Copied, Entered
<1>4. KnownOK
  <2>1. \A m \in Present \cup dropped : m = 0
    BY <1>2, <1>3
  <2>2. \A p \in Publisher : 1 .. Len(pub[p].queue) = {}
    BY <1>1
  <2> QED
    BY <1>2, <2>1, <2>2 DEF KnownOK
<1>5. QueuedOK
  BY <1>1 DEF QueuedOK
<1>6. StagedOK /\ TemporaryOK /\ DroppedOK
  BY <1>1, <1>2 DEF StagedOK, TemporaryOK, DroppedOK
<1> QED
  BY <1>4, <1>5, <1>6 DEF MessagesOK

\* and each is where it may be after every step.
LEMMA MessagesStep ==
  ASSUME ShapeOK, ShapeOK', DownOK, MessagesOK, [Next]_vars
  PROVE  MessagesOK'
<1>1. CASE Start \/ Exit \/ Crash \/ Refuses
  BY <1>1, MessagesStarts
<1>2. CASE Stop \/ Drained \/ ReleasesLock \/ Tick \/ UNCHANGED vars
  BY <1>2, MessagesCalmSteps
<1>3. CASE DrainStops \/ Takes \/ (\E t \in Other : OtherOpens(t))
  BY <1>3, MessagesStops, MessagesTakes, MessagesOthers
<1>4. ASSUME NEW p \in Publisher, Reads(p) \/ GivesUp(p) \/ ResumeFails(p) \/ SaveEnds(p) \/ Answered(p)
      PROVE  MessagesOK'
  BY <1>4, MessagesCalmSteps
<1>5. ASSUME NEW p \in Publisher, Resumes(p) \/ Stages(p) \/ Sends(p) PROVE MessagesOK'
  BY <1>5, MessagesResumes, MessagesStages, MessagesSends
<1>6. ASSUME NEW p \in Publisher, OpensTemporary(p) \/ WritesFile(p) \/ WriteFails(p) \/ Renames(p) PROVE MessagesOK'
  BY <1>6, MessagesWrites
<1> QED
  BY <1>1, <1>2, <1>3, <1>4, <1>5, <1>6 DEF Next

\* Shape, numbers and messages hold together.
LEMMA MessagesHold == Spec => [](ShapeOK /\ DownOK /\ NumbersOK /\ MessagesOK)
BY ShapeInit, ShapeStep, DownInit, DownStep, NumbersInit, NumbersStep, MessagesInit, MessagesStep, PTL DEF Spec

-----------------------------------------------------------------------------
(* One publisher at a time *)

\* What a publisher that is asleep, and one that is the only one awake, is like.
LEMMA AsleepIs ==
  ASSUME ShapeOK, NEW p \in Publisher, Asleep(pub[p])
  PROVE  /\ p # current /\ pub[p].stopped /\ pub[p].loop = "done" /\ pub[p].stage = "none" /\ pub[p].io = "none"
         /\ pub[p].entry = NoEntry /\ pub[p].queue = <<>> /\ ~Engaged(pub[p])
BY ConstantsAssumption DEF ShapeOK, OwnersOK, HoldingOK, EvictedOK, ResumingOK, StoppedOK, WriteOK, Asleep, Engaged

\* Whoever does something is the one that is awake.
LEMMA AwakeIs ==
  ASSUME ShapeOK, NEW p \in Publisher, Alone(p), NEW q \in Publisher,
         q = current \/ pub[q].chain # <<>> \/ Engaged(pub[q]) \/ ~pub[q].stopped \/ pub[q].loop # "done" \/ pub[q].stage # "none"
  PROVE  q = p
BY AsleepIs DEF Alone, Asleep

\* Engaged is what writes, and what has an entry in flight.
LEMMA EngagedIs ==
  ASSUME ShapeOK, NEW p \in Publisher
  PROVE  /\ pub[p].chain # <<>> \/ pub[p].io # "none" \/ pub[p].stage # "none" => Engaged(pub[p])
         /\ pub[p].io # "none" => pub[p].chain # <<>>
         /\ Engaged(pub[p]) => pub[p].loop = "done" /\ pub[p].read = Absent
         /\ pub[p].entry = NoEntry <=> pub[p].stage = "none"
         /\ pub[p].index \in Nat \cup {-1} /\ pub[p].entry \in Message \cup {NoEntry} /\ NoEntry \notin Message
         /\ Snapshot(pub[p]) \notin {Absent, Half}
<1>1. pub[p] \in Record /\ HoldingOK(pub[p])
  BY DEF ShapeOK, TypesOK
<1>2. pub[p].index \in Nat \cup {-1} /\ pub[p].entry \in Message \cup {NoEntry} /\ NoEntry \notin Message
  BY <1>1, TextIs DEF Record
<1>3. Snapshot(pub[p]).index = pub[p].index /\ Absent.index = -2 /\ Half.index = -3
  BY DEF Snapshot, Absent, Half
<1>4. Snapshot(pub[p]) \notin {Absent, Half}
  BY <1>2, <1>3
<1> QED
  BY <1>1, <1>2, <1>4 DEF HoldingOK, ResumingOK, StoppedOK, WriteOK, Engaged, Record, Stage

\* No entry is in a slot as one that is none, so whatever may be staged next stands there too.
LEMMA StandingIs ==
  ASSUME WorldOK, NEW index \in Nat \cup {-1}, NEW entry \in Message \cup {NoEntry}, Standing(index, NoEntry)
  PROVE  Standing(index, entry) /\ \A s \in Slot : s > index => feed[s] = {}
BY TextIs DEF WorldOK, Standing

\* A step that moves neither the files nor the feed.
LEMMA SoundMoves ==
  ASSUME ShapeOK, ShapeOK', NEW p \in Publisher, Sound(pub[p]),
         UNCHANGED <<path, temp, feed>>, dropped \subseteq dropped', SameLoop(pub[p], pub'[p]),
         pub'[p].io = pub[p].io, pub'[p].file = pub[p].file, pub'[p].text = pub[p].text, Excused(pub'[p]),
         Engaged(pub'[p]) =>
           /\ Engaged(pub[p]) /\ pub'[p].index = pub[p].index
           /\ \/ pub'[p].entry = pub[p].entry /\ pub'[p].stage = pub[p].stage
              \/ pub'[p].stage = "none" /\ pub'[p].entry = NoEntry /\ pub[p].stage = "staged" /\ pub[p].entry \in dropped'
              \/ pub[p].stage = "none" /\ pub'[p].stage = "staged"
  PROVE  Sound(pub[p])'
<1>1. OwnFile(pub[p])'
  BY DEF Sound, OwnFile
<1>2. NothingBroken(pub[p])'
  BY DEF Sound, NothingBroken, SameLoop
<1>3. StandsWhereItSays(pub[p])'
  <2>1. Stands(path)' /\ (pub'[p].io # "none" => Stands(pub[p].text)')
    BY DEF Sound, StandsWhereItSays, Stands, Standing
  <2>2. ASSUME Engaged(pub'[p])
        PROVE  /\ Standing(pub[p].index, IF pub[p].stage = "staged" THEN NoEntry ELSE pub[p].entry)'
               /\ pub'[p].stage = "sent" => pub'[p].entry \in feed'[pub'[p].index + 1]
               /\ pub'[p].stage \in {"recorded", "sent"} => path' = Snapshot(pub'[p])
    <3>1. (IF pub'[p].stage = "staged" THEN NoEntry ELSE pub'[p].entry)
            = (IF pub[p].stage = "staged" THEN NoEntry ELSE pub[p].entry)
      BY <2>2, EngagedIs
    <3>2. Standing(pub[p].index, IF pub[p].stage = "staged" THEN NoEntry ELSE pub[p].entry)
      BY <2>2 DEF Sound, StandsWhereItSays
    <3>3. Standing(pub[p].index, IF pub[p].stage = "staged" THEN NoEntry ELSE pub[p].entry)'
      BY <2>2, <3>1, <3>2 DEF Standing
    <3> QED
      BY <2>2, <3>3 DEF Sound, StandsWhereItSays, Snapshot
  <2> QED
    BY <2>1, <2>2 DEF StandsWhereItSays
<1>4. Superseded(pub[p])'
  <2>1. Fed' = Fed
    BY DEF Fed
  <2>2. pub'[p].io # "none" => pub[p].io # "none"
    OBVIOUS
  <2> QED
    BY <2>1, <2>2, EngagedIs DEF Sound, Superseded, Settles
<1> QED
  BY <1>1, <1>2, <1>3, <1>4 DEF Sound

\* It is the same one that is awake.
LEMMA AloneMoves ==
  ASSUME ShapeOK, ShapeOK', NEW p \in Publisher, Alone(p), Sound(pub[p])',
         \A q \in Publisher \ {p} : \/ pub'[q] = pub[q] \/ pub'[q] = Blank
                                    \/ SameHeld(pub[q], pub'[q]) /\ pub'[q].chain = pub[q].chain
  PROVE  Alone(p)'
<1>1. Asleep(Blank)
  BY DEF Asleep, Excused, Blank, Opened
<1>2. ASSUME NEW q \in Publisher \ {p} PROVE Asleep(pub'[q])
  BY <1>1 DEF Alone, Asleep, Excused, SameHeld
<1> QED
  BY <1>2 DEF Alone

\* Steps that leave every publisher's messages, writes and loop as they were.
LEMMA AloneCalm ==
  ASSUME ShapeOK, ShapeOK', NEW p \in Publisher, Alone(p), UNCHANGED <<path, temp, feed>>, dropped \subseteq dropped',
         \A q \in Publisher : SameHeld(pub[q], pub'[q]) /\ SameWrite(pub[q], pub'[q]) /\ SameLoop(pub[q], pub'[q])
  PROVE  Alone(p)'
<1>1. Engaged(pub'[p]) = Engaged(pub[p]) /\ Excused(pub'[p])
  BY DEF Engaged, Excused, SameHeld, SameWrite, SameLoop, Alone, Sound, NothingBroken
<1>2. Sound(pub[p])'
  BY <1>1, SoundMoves DEF SameHeld, SameWrite, Alone
<1> QED
  BY <1>2, AloneMoves DEF SameWrite

\* When nothing writes and no publisher is in chats they are all asleep, and one that is opened is awake alone.
LEMMA AloneOpens ==
  ASSUME ShapeOK, ShapeOK', NEW p \in Publisher, Alone(p), current = None, \A q \in Publisher : pub[q].chain = <<>>,
         NEW o \in Publisher, UNCHANGED <<path, temp, feed>>, dropped \subseteq dropped',
         \A q \in Publisher \ {o} : pub'[q] = pub[q],
         pub'[o].loop = "reads", pub'[o].io = "none", pub'[o].read = Absent, pub'[o].state # "blocked"
  PROVE  Alone(o)'
<1>1. \A q \in Publisher : Asleep(pub[q])
  <2>1. ASSUME NEW q \in Publisher PROVE Asleep(pub[q])
    <3>1. pub[q].evicted
      BY ConstantsAssumption DEF ShapeOK, OwnersOK
    <3>2. Excused(pub[p])
      BY DEF Alone, Sound, NothingBroken
    <3> QED
      BY <3>1, <3>2 DEF Alone, Asleep
  <2> QED
    BY <2>1
<1>2. Absent # Half
  BY DEF Absent, Half
<1>3. Stands(path)' /\ path' # Half
  BY DEF Alone, Sound, StandsWhereItSays, NothingBroken, Stands, Standing
<1>4. ~Engaged(pub'[o])
  BY DEF Engaged
<1>5. Sound(pub[o])'
  BY <1>2, <1>3, <1>4 DEF Sound, OwnFile, NothingBroken, Excused, StandsWhereItSays, Superseded
<1> QED
  BY <1>1, <1>5 DEF Alone

\* Steps of resume() before it ends.
LEMMA AloneReads ==
  ASSUME ShapeOK, ShapeOK', NEW p \in Publisher, Alone(p), NEW q \in Publisher,
         Reads(q) \/ ResumeFails(q) \/ GivesUp(q)
  PROVE  Alone(p)'
<1>1. /\ UNCHANGED <<path, temp, feed, dropped>> /\ q = p /\ \A o \in Publisher \ {q} : pub'[o] = pub[o]
      /\ SameHeld(pub[p], pub'[p]) /\ SameWrite(pub[p], pub'[p]) /\ pub[p].loop # "done"
      /\ pub'[p].read \in {path, Absent, pub[p].read} /\ (pub'[p].loop = "resumes" => pub'[p].read = path)
  BY ReadsIs, ResumeFailsIs, GivesUpIs, AwakeIs DEF file_vars, log_vars
<1>2. /\ pub[p].chain = <<>> /\ pub[p].io = "none" /\ pub[p].stage = "none"
      /\ pub[p].state \in {"ready", "blocked"} => pub[p].loop = "done"
  BY <1>1 DEF ShapeOK, HoldingOK, ResumingOK, WriteOK
<1>3. ~Engaged(pub'[p])
  BY <1>1, <1>2 DEF Engaged, SameHeld, SameWrite
<1>4. Stands(path)' /\ path' # Half /\ Absent # Half /\ pub[p].read # Half
  BY <1>1 DEF Alone, Sound, StandsWhereItSays, NothingBroken, Stands, Standing, Absent, Half
<1>5. Sound(pub[p])'
  BY <1>1, <1>2, <1>3, <1>4 DEF Sound, OwnFile, NothingBroken, Excused, StandsWhereItSays, Superseded, SameHeld, SameWrite
<1> QED
  BY <1>1, <1>5, AloneMoves

\* resume() goes by what it read, and nobody wrote since.
LEMMA ResumesAlone ==
  ASSUME ShapeOK, NEW p \in Publisher, Alone(p), NEW q \in Publisher, Resumes(q)
  PROVE  /\ UNCHANGED <<path, temp, feed>> /\ q = p /\ \A o \in Publisher \ {p} : pub'[o] = pub[o]
         /\ pub[p].loop = "resumes" /\ pub[p].read = path /\ path # Half /\ Absent # Half
<1>1. /\ UNCHANGED <<path, temp, feed>> /\ q = p /\ \A o \in Publisher \ {p} : pub'[o] = pub[o]
      /\ pub[p].loop = "resumes" /\ pub[p].read = path /\ path # Half /\ Absent # Half
  <2>1. UNCHANGED <<path, temp, feed>> /\ \A o \in Publisher \ {q} : pub'[o] = pub[o]
    BY ResumesIs DEF file_vars
  <2>2. q = current /\ pub[q].loop = "resumes"
    BY ResumesIs
  <2>3. q = p
    BY <2>2, AwakeIs
  <2>4. Absent # Half
    BY DEF Absent, Half
  <2>5. pub[p].read = path /\ path # Half
    BY <2>2, <2>3 DEF Alone, Sound, NothingBroken
  <2> QED
    BY <2>1, <2>2, <2>3, <2>4, <2>5
<1> QED
  BY <1>1

\* Whoever becomes ready stands where the checkpoint does.
LEMMA AloneReady ==
  ASSUME ShapeOK, ShapeOK', NEW p \in Publisher, Alone(p), Resumes(p), ReadyAs(pub[p], pub'[p]), UNCHANGED dropped
  PROVE  Alone(p)'
<1>1. /\ UNCHANGED <<path, temp, feed>> /\ \A o \in Publisher \ {p} : pub'[o] = pub[o]
      /\ pub[p].loop = "resumes" /\ pub[p].read = path /\ path # Half /\ Absent # Half
  BY ResumesAlone
<1>2. ReadyAs(pub[p], pub'[p])
  OBVIOUS
<1>3. pub'[p].state = "ready" /\ pub'[p].loop = "done" /\ pub'[p].io = "none" /\ pub'[p].read = Absent
  BY <1>2 DEF ReadyAs
<1>4. OwnFile(pub[p])' /\ NothingBroken(pub[p])' /\ Stands(path)'
  BY <1>1, <1>3 DEF OwnFile, NothingBroken, Excused, Alone, Sound, StandsWhereItSays, Stands, Standing
<1>5. path'.entry = pub'[p].entry /\ pub'[p].stage # "sent" /\ pub'[p].stage # "staged"
  BY <1>1, <1>2 DEF ReadyAs
<1>6. CASE path = Absent
  <2>1. Standing(-1, NoEntry)
    BY <1>6 DEF Alone, Sound, StandsWhereItSays, Stands
  <2>2. \A s \in Slot : feed[s] = {}
    BY <2>1, TextIs, SMTT(60) DEF Standing, ShapeOK, TypesOK, WorldOK, Slot
  <2>3. {s \in Slot : feed[s] # {}} = {}
    BY <2>2
  <2>4. LastWritten = -1
    BY <2>3, FS_EmptySet DEF LastWritten
  <2>5. pub'[p].index = -1 /\ pub'[p].entry = NoEntry /\ pub'[p].stage = "none"
    BY <1>1, <1>2, <1>6, <2>4 DEF ReadyAs, Absent
  <2>6. Standing(-1, NoEntry)'
    BY <1>1, <2>1 DEF Standing
  <2>7. StandsWhereItSays(pub[p])'
    BY <1>3, <1>4, <2>5, <2>6 DEF StandsWhereItSays
  <2>8. Superseded(pub[p])'
    BY <1>3, <1>5 DEF Superseded, Settles
  <2> QED
    BY <1>1, <1>4, <2>7, <2>8, AloneMoves DEF Sound
<1>7. CASE path # Absent
  <2>1. pub'[p].index = path.index /\ pub'[p].entry = path.entry
    BY <1>1, <1>2, <1>7 DEF ReadyAs
  <2>2. path = Snapshot(pub'[p])
    <3>1. path \in [index : Nat \cup {-1}, entry : Message \cup {NoEntry}]
      BY <1>1, <1>7 DEF ShapeOK, TypesOK, WorldOK, Text
    <3> QED
      BY <2>1, <3>1 DEF Snapshot
  <2>3. Standing(path.index, path.entry)
    BY <1>7 DEF Alone, Sound, StandsWhereItSays, Stands
  <2>4. Standing(pub[p].index, pub[p].entry)'
    BY <1>1, <2>1, <2>3 DEF Standing
  <2>5. StandsWhereItSays(pub[p])'
    BY <1>1, <1>3, <1>4, <1>5, <2>2, <2>4 DEF StandsWhereItSays
  <2>6. Superseded(pub[p])'
    BY <1>3, <1>5 DEF Superseded, Settles
  <2> QED
    BY <1>1, <1>4, <2>5, <2>6, AloneMoves DEF Sound
<1> QED
  BY <1>6, <1>7

\* One whose rows are refused has written nothing, and writes nothing.
LEMMA AloneRefused ==
  ASSUME ShapeOK, ShapeOK', NEW p \in Publisher, Alone(p), Resumes(p), NEW x \in BOOLEAN, Blocks(p, x),
         pub'[p].refused = x, x <=> pub[p].read # Half
  PROVE  Alone(p)'
<1>1. /\ UNCHANGED <<path, temp, feed>> /\ \A o \in Publisher \ {p} : pub'[o] = pub[o]
      /\ pub[p].loop = "resumes" /\ pub[p].read = path /\ path # Half /\ Absent # Half
  BY ResumesAlone
<1>2. /\ SameWrite(pub[p], pub'[p]) /\ pub'[p].state = "blocked" /\ pub'[p].loop = "done" /\ pub'[p].read = Absent
      /\ pub'[p].stage = "none"
  BY <1>1, ResumesIs, BlockIs DEF ShapeOK, TypesOK, server_vars
<1>3. pub[p].chain = <<>> /\ pub[p].io = "none"
  BY <1>1 DEF ShapeOK, HoldingOK, ResumingOK, WriteOK
<1>4. ~Engaged(pub'[p]) /\ Excused(pub'[p]) /\ pub'[p].io = "none"
  BY <1>1, <1>2, <1>3 DEF Engaged, Excused, SameWrite
<1>5. Stands(path)' /\ path' # Half
  BY <1>1 DEF Alone, Sound, StandsWhereItSays, Stands, Standing
<1>6. Sound(pub[p])'
  BY <1>1, <1>2, <1>4, <1>5 DEF Sound, OwnFile, NothingBroken, StandsWhereItSays, Superseded
<1> QED
  BY <1>1, <1>6, AloneMoves

\* resume() goes by the checkpoint as it is, or refuses the rows in it.
LEMMA AloneResumes ==
  ASSUME ShapeOK, ShapeOK', NEW p \in Publisher, Alone(p), NEW q \in Publisher, Resumes(q)
  PROVE  Alone(p)'
BY ResumesAlone, ResumesIs, AloneReady, AloneRefused

\* The next message goes to the slot after the last one.
LEMMA AloneStages ==
  ASSUME ShapeOK, ShapeOK', NEW p \in Publisher, Alone(p), NEW q \in Publisher, Stages(q) \/ SaveEnds(q)
  PROVE  Alone(p)'
<1>1. CASE Stages(q)
  <2>1. /\ UNCHANGED <<path, temp, feed, dropped>> /\ q = p /\ \A o \in Publisher \ {p} : pub'[o] = pub[o]
    BY <1>1, StagesIs, AwakeIs DEF file_vars, log_vars
  <2>2. /\ Engaged(pub[p]) /\ pub[p].stage = "none" /\ pub'[p].stage = "staged" /\ pub'[p].state = "ready"
        /\ Excused(pub'[p])
    BY <1>1, <2>1, StagesIs DEF Engaged, Excused
  <2>3. Sound(pub[p])'
    BY <1>1, <2>1, <2>2, StagesIs, SoundMoves DEF Alone
  <2> QED
    BY <2>1, <2>3, AloneMoves
<1>2. CASE SaveEnds(q)
  <2>1. UNCHANGED <<path, temp, feed, dropped>> /\ \A o \in Publisher \ {q} : pub'[o] = pub[o]
    BY <1>2, SaveEndsIs DEF file_vars, log_vars
  <2>2. CASE pub'[q] = Blank /\ pub[q].evicted
    <3>1. SameLoop(pub[q], pub'[q]) /\ pub'[q].io = pub[q].io /\ pub'[q].file = pub[q].file /\ pub'[q].text = pub[q].text
      BY <1>2, SaveEndsIs
    <3>2. ~Engaged(Blank) /\ Excused(Blank)
      BY DEF Engaged, Excused, Blank, Opened
    <3>3. Sound(pub[p])'
      <4>1. CASE q = p
        BY <2>1, <2>2, <3>1, <3>2, <4>1, SoundMoves DEF Alone
      <4>2. CASE q # p
        <5>1. pub'[p] = pub[p]
          BY <2>1, <4>2
        <5> QED
          BY <2>1, <5>1, SoundMoves DEF Alone, SameLoop, Sound, NothingBroken
      <4> QED
        BY <4>1, <4>2
    <3> QED
      BY <2>1, <2>2, <3>3, AloneMoves
  <2>3. CASE SameHeld(pub[q], pub'[q]) /\ pub'[q].chain = pub[q].chain
    <3>1. SameWrite(pub[q], pub'[q]) /\ SameLoop(pub[q], pub'[q])
      BY <1>2, <2>3, SaveEndsIs DEF SameWrite
    <3>2. \A o \in Publisher : SameHeld(pub[o], pub'[o]) /\ SameWrite(pub[o], pub'[o]) /\ SameLoop(pub[o], pub'[o])
      BY <2>1, <2>3, <3>1 DEF SameHeld, SameWrite, SameLoop
    <3> QED
      BY <2>1, <3>2, AloneCalm
  <2>4. CASE SameHeld(pub[q], pub'[q]) /\ pub[q].state = "ready" /\ q = current
    <3>1. q = p /\ pub[p].loop = "done" /\ Engaged(pub[p]) /\ Excused(pub'[p])
      BY <1>2, <2>4, AwakeIs, SaveEndsIs DEF Engaged, Excused, SameHeld
    <3>2. Sound(pub[p])'
      BY <1>2, <2>1, <2>4, <3>1, SaveEndsIs, SoundMoves DEF SameHeld, Alone
    <3> QED
      BY <2>1, <3>1, <3>2, AloneMoves
  <2> QED
    BY <1>2, <2>2, <2>3, <2>4, SaveEndsIs
<1> QED
  BY <1>1, <1>2

\* The entry in flight is for the slot after the last one, which there is.
LEMMA NextSlot ==
  ASSUME ShapeOK, NumbersOK, NEW p \in Publisher, pub[p].entry # NoEntry
  PROVE  pub[p].index + 1 \in Slot
<1>1. pub[p].index \in Nat \cup {-1} /\ Len(pub[p].queue) \in Nat
  <2>1. pub[p] \in Record
    BY DEF ShapeOK, TypesOK
  <2> QED
    BY <2>1, UsedIs, EngagedIs
<1>2. Taken(pub[p]) <= Placed /\ Placed \in Int /\ Placed <= accepted /\ accepted \in Nat /\ accepted <= MaxMessages
  BY PlacedIs DEF PlacedOK, NumbersOK
<1>3. Used(pub[p]) = pub[p].index + 2
  BY <1>1 DEF Used
<1>4. Taken(pub[p]) \in Int /\ Used(pub[p]) <= Taken(pub[p])
  <2>1. Used(pub[p]) \in Int
    BY <1>1, <1>3
  <2>2. CASE pub[p].loop = "done"
    BY <1>1, <2>1, <2>2 DEF Taken
  <2>3. CASE pub[p].loop # "done"
    BY <1>1, <2>1, <2>3 DEF Taken
  <2> QED
    BY <2>2, <2>3
<1>5. pub[p].index + 2 <= MaxMessages
  BY <1>1, <1>2, <1>3, <1>4, ConstantsAssumption
<1> QED
  BY <1>1, <1>5, ConstantsAssumption DEF Slot

\* An entry that is in its slot lands.
LEMMA SoundLands ==
  ASSUME ShapeOK, ShapeOK', NumbersOK, NEW p \in Publisher, Alone(p),
         pub[p].stage = "sent" \/ (pub[p].stage = "recorded" /\ ~pub[p].stopped),
         pub[p].entry \in feed[pub[p].index + 1], Becomes(p, Lands(pub[p])),
         UNCHANGED <<server, current, path, temp, feed, dropped>>
  PROVE  Alone(p)'
<1>1. /\ \A q \in Publisher \ {p} : pub'[q] = pub[q]
      /\ SameLoop(pub[p], pub'[p]) /\ pub[p].loop = "done" /\ pub[p].entry \in Message
      /\ pub'[p].state = pub[p].state /\ pub'[p].index = pub[p].index + 1
      /\ pub'[p].entry = NoEntry /\ pub'[p].stage = "none"
      /\ pub'[p].io = pub[p].io /\ pub'[p].file = pub[p].file /\ pub'[p].text = pub[p].text
  <2>1. WorldOK'
    BY DEF ShapeOK, TypesOK
  <2> QED
    BY <2>1, LandingIs
<1>2. Engaged(pub[p]) /\ pub[p].entry # NoEntry /\ pub[p].index \in Nat \cup {-1}
  BY <1>1, EngagedIs
<1>3. pub[p].index + 1 \in Slot
  BY <1>2, NextSlot
<1>4. Standing(pub[p].index, pub[p].entry) /\ path = Snapshot(pub[p])
  BY <1>2 DEF Alone, Sound, StandsWhereItSays
<1>5. pub[p].entry \in Fed
  BY <1>3 DEF Fed
<1>6. OwnFile(pub[p])' /\ NothingBroken(pub[p])'
  <2>1. pub'[p].state # "blocked"
    BY <1>1 DEF ShapeOK, HoldingOK, StoppedOK
  <2> QED
    BY <1>1, <2>1 DEF Alone, Sound, OwnFile, NothingBroken, Excused, SameLoop
<1>7. Stands(path)' /\ (pub'[p].io # "none" => Stands(pub[p].text)')
  BY <1>1 DEF Alone, Sound, StandsWhereItSays, Stands, Standing
<1>8. Standing(pub[p].index, NoEntry)'
  <2> SUFFICES ASSUME NEW s \in Slot
               PROVE  /\ s <= pub'[p].index => feed[s] # {}
                      /\ s > pub'[p].index => feed[s] \subseteq {}
    BY DEF Standing
  <2>1. s \in Int
    BY DEF Slot
  <2>2. CASE s = pub[p].index + 1
    <3>1. feed[s] # {} /\ s = pub'[p].index /\ ~(s > pub'[p].index)
      BY <1>1, <1>2, <2>1, <2>2
    <3> QED
      BY <3>1
  <2>3. CASE s # pub[p].index + 1
    <3>1. (s <= pub'[p].index => s <= pub[p].index) /\ (s > pub'[p].index => s > pub[p].index)
      BY <1>1, <1>2, <2>1, <2>3
    <3> QED
      BY <1>4, <2>3, <3>1 DEF Standing
  <2> QED
    BY <2>2, <2>3
<1>9. StandsWhereItSays(pub[p])'
  BY <1>1, <1>7, <1>8 DEF StandsWhereItSays
<1>10. Superseded(pub[p])'
  <2>1. Fed' = Fed
    BY DEF Fed
  <2>2. path.entry = pub[p].entry
    BY <1>4 DEF Snapshot
  <2>3. pub[p].io # "none" => pub[p].text.entry = pub[p].entry
    <3>1. pub[p].io # "none" => pub[p].text = Snapshot(pub[p])
      BY DEF ShapeOK, HoldingOK, WriteOK
    <3> QED
      BY <3>1 DEF Snapshot
  <2> QED
    BY <1>1, <1>5, <2>1, <2>2, <2>3 DEF Superseded, Settles
<1> QED
  BY <1>1, <1>6, <1>9, <1>10, AloneMoves DEF Sound

\* An entry is sent to that slot and no other,
LEMMA AloneSends ==
  ASSUME ShapeOK, ShapeOK', NumbersOK, NEW p \in Publisher, Alone(p), NEW q \in Publisher, Sends(q)
  PROVE  Alone(p)'
<1> DEFINE s == pub[p].index + 1
<1>1. /\ UNCHANGED <<server, current, path, temp>> /\ \A o \in Publisher \ {q} : pub'[o] = pub[o]
      /\ q = p /\ pub[p].stage = "recorded" /\ ~pub[p].stopped /\ pub[p].entry \in Message /\ pub[p].loop = "done"
  BY SendsIs, AwakeIs DEF server_vars, file_vars
<1>2. Engaged(pub[p]) /\ pub[p].entry # NoEntry /\ pub[p].index \in Nat \cup {-1} /\ Snapshot(pub[p]) # Absent
  BY <1>1, EngagedIs
<1>3. s \in Slot
  BY <1>2, NextSlot
<1>4. Standing(pub[p].index, pub[p].entry) /\ path = Snapshot(pub[p])
  BY <1>1, <1>2 DEF Alone, Sound, StandsWhereItSays
<1>5. CASE pub[p].entry \in feed[s] /\ Becomes(p, Lands(pub[p])) /\ UNCHANGED <<feed, dropped, doubt>>
  BY <1>1, <1>5, SoundLands
<1>6. CASE feed[s] \ {pub[p].entry} # {}
  <2>1. s > pub[p].index
    BY <1>2
  <2> QED
    BY <1>3, <1>4, <1>6, <2>1 DEF Standing
<1>7. CASE /\ feed' = [feed EXCEPT ![s] = @ \cup {pub[p].entry}] /\ UNCHANGED <<dropped, doubt>>
           /\ SameLoop(pub[p], pub'[p]) /\ SameWrite(pub[p], pub'[p])
           /\ pub'[p].state = pub[p].state /\ pub'[p].index = pub[p].index
           /\ pub'[p].entry = pub[p].entry /\ pub'[p].stage = "sent"
  <2>1. feed'[s] = feed[s] \cup {pub[p].entry} /\ \A t \in Slot \ {s} : feed'[t] = feed[t]
    BY <1>3, <1>7 DEF ShapeOK, TypesOK, WorldOK
  <2>2. OwnFile(pub[p])' /\ NothingBroken(pub[p])'
    <3>1. pub'[p].state # "blocked"
      BY <1>1, <1>7, SendsIs
    <3> QED
      BY <1>1, <1>7, <3>1 DEF Alone, Sound, OwnFile, NothingBroken, Excused, SameLoop, SameWrite
  <2>3. Standing(pub[p].index, pub[p].entry)'
    <3> SUFFICES ASSUME NEW t \in Slot
                 PROVE  /\ t <= pub[p].index => feed'[t] # {}
                        /\ t > pub[p].index => feed'[t] \subseteq (IF t = s THEN {pub[p].entry} ELSE {})
      BY <1>7 DEF Standing
    <3>1. CASE t = s
      <4>1. feed[s] \subseteq {pub[p].entry} /\ ~(s <= pub[p].index)
        BY <1>2, <1>3, <1>4 DEF Standing
      <4> QED
        BY <2>1, <3>1, <4>1
    <3>2. CASE t # s
      BY <1>4, <2>1, <3>2 DEF Standing
    <3> QED
      BY <3>1, <3>2
  <2>4. Snapshot(pub[p]).index = pub[p].index /\ Snapshot(pub[p]).entry = pub[p].entry
    BY DEF Snapshot
  <2>5. pub[p].io # "none" => pub[p].text = Snapshot(pub[p])
    BY <1>1 DEF ShapeOK, HoldingOK, WriteOK
  <2>6. Stands(Snapshot(pub[p]))' /\ Snapshot(pub'[p]) = Snapshot(pub[p])
    BY <1>2, <1>7, <2>3, <2>4 DEF Stands, Snapshot
  <2>7. StandsWhereItSays(pub[p])'
    <3>1. Stands(path)' /\ (pub'[p].io # "none" => Stands(pub[p].text)')
      BY <1>1, <1>4, <1>7, <2>5, <2>6 DEF SameWrite
    <3> QED
      BY <1>1, <1>4, <1>7, <2>1, <2>3, <2>6, <3>1 DEF StandsWhereItSays
  <2>8. Superseded(pub[p])'
    BY <1>1, <1>4, <1>7, <2>4, <2>5 DEF Superseded, Settles, SameWrite
  <2> QED
    BY <1>1, <2>2, <2>7, <2>8, AloneMoves DEF Sound
<1> QED
  BY <1>1, <1>5, <1>6, <1>7, SendsIs

\* also one that was given up before.
LEMMA AloneAnswered ==
  ASSUME ShapeOK, ShapeOK', NumbersOK, NEW p \in Publisher, Alone(p), NEW q \in Publisher, Answered(q)
  PROVE  Alone(p)'
<1>1. /\ UNCHANGED <<server, current, path, temp, feed, dropped>>
      /\ pub[q].stage = "sent" /\ Becomes(q, Lands(pub[q]))
  BY AnsweredIs DEF server_vars, file_vars, log_vars
<1>2. q = p /\ Engaged(pub[p])
  BY <1>1, AwakeIs, EngagedIs
<1>3. pub[p].entry \in feed[pub[p].index + 1]
  BY <1>1, <1>2 DEF Alone, Sound, StandsWhereItSays
<1> QED
  BY <1>1, <1>2, <1>3, SoundLands

\* A write under way records what its publisher stands for.
LEMMA AloneWrites ==
  ASSUME ShapeOK, ShapeOK', NEW p \in Publisher, Alone(p), NEW q \in Publisher, OpensTemporary(q) \/ WritesFile(q)
  PROVE  Alone(p)'
<1>1. /\ UNCHANGED <<path, feed, dropped>> /\ \A o \in Publisher \ {q} : pub'[o] = pub[o]
      /\ SameHeld(pub[q], pub'[q]) /\ SameLoop(pub[q], pub'[q]) /\ pub'[q].chain = pub[q].chain
      /\ pub[q].loop = "done"
  <2>1. CASE OpensTemporary(q)
    BY <2>1, OpensTemporaryIs DEF log_vars
  <2>2. CASE WritesFile(q)
    <3>1. /\ \A o \in Publisher \ {q} : pub'[o] = pub[o]
          /\ SameHeld(pub[q], pub'[q]) /\ SameLoop(pub[q], pub'[q]) /\ pub'[q].chain = pub[q].chain
          /\ pub[q].loop = "done" /\ pub[q].io = "opened" /\ UNCHANGED log_vars
          /\ \E text \in Texts(q) : path' = IF pub[q].file = "path" THEN text ELSE path
      BY <2>2, WritesFileIs
    <3>2. q = p
      BY <3>1, AwakeIs, EngagedIs
    <3>3. pub[q].file = "temp"
      BY <3>1, <3>2 DEF Alone, Sound, OwnFile
    <3> QED
      BY <3>1, <3>3 DEF log_vars
  <2> QED
    BY <2>1, <2>2
<1>2. /\ q = p /\ pub'[p].file = "temp" /\ pub'[p].text # Half /\ pub[p].chain # <<>>
      /\ Engaged(pub[p]) /\ Engaged(pub'[p])
      /\ pub'[p].io = "written" => temp' = pub'[p].text
      /\ pub'[p].text = Snapshot(pub[p]) \/ (pub[p].io # "none" /\ pub'[p].text = pub[p].text)
  <2>1. CASE OpensTemporary(q)
    <3>1. /\ pub[q].chain # <<>> /\ pub[q].io = "none"
          /\ pub'[q].io = "opened" /\ pub'[q].file = "temp" /\ pub'[q].text = Snapshot(pub[q])
      BY <2>1, OpensTemporaryIs
    <3> QED
      BY <1>1, <3>1, AwakeIs, EngagedIs DEF Engaged, SameLoop, SameHeld
  <2>2. CASE WritesFile(q)
    <3>1. /\ pub[q].io = "opened" /\ pub'[q].file = pub[q].file /\ pub'[q].text = pub[q].text
          /\ \E text \in Texts(q) : temp' = IF pub[q].file = "temp" THEN text ELSE temp
      BY <2>2, WritesFileIs
    <3>2. pub[q].chain # <<>> /\ Engaged(pub[q]) /\ Engaged(pub'[q])
      BY <1>1, <3>1, EngagedIs DEF Engaged, SameLoop, SameHeld
    <3>3. q = p
      BY <3>2, AwakeIs
    <3>4. \A o \in Publisher \ {p} : pub[o].io = "none"
      BY AsleepIs DEF Alone
    <3>5. Texts(p) = {pub[p].text}
      BY <3>4 DEF Texts
    <3>6. pub[p].file = "temp" /\ pub[p].text # Half
      BY <3>1, <3>3 DEF Alone, Sound, OwnFile
    <3> QED
      BY <3>1, <3>2, <3>3, <3>5, <3>6
  <2> QED
    BY <2>1, <2>2
<1>3. OwnFile(pub[p])' /\ NothingBroken(pub[p])' /\ Stands(path)'
  BY <1>1, <1>2 DEF OwnFile, NothingBroken, Excused, Alone, Sound, SameHeld, SameLoop, StandsWhereItSays, Stands, Standing
<1>4. pub[p].index \in Nat \cup {-1} /\ pub[p].entry \in Message \cup {NoEntry} /\ Snapshot(pub[p]) # Absent
  BY EngagedIs
<1>5. Standing(pub[p].index, IF pub[p].stage = "staged" THEN NoEntry ELSE pub[p].entry)
  BY <1>2 DEF Alone, Sound, StandsWhereItSays
<1>6. Standing(pub[p].index, pub[p].entry)
  BY <1>4, <1>5, StandingIs DEF ShapeOK, TypesOK
<1>7. Stands(pub'[p].text)
  <2>1. Stands(Snapshot(pub[p]))
    BY <1>4, <1>6 DEF Stands, Snapshot
  <2> QED
    BY <1>2, <2>1 DEF Alone, Sound, StandsWhereItSays
<1>8. Stands(pub[p].text)'
  BY <1>1, <1>7 DEF Stands, Standing
<1>9. StandsWhereItSays(pub[p])'
  <2>1. Standing(pub[p].index, IF pub[p].stage = "staged" THEN NoEntry ELSE pub[p].entry)'
    BY <1>1, <1>2, <1>5 DEF Standing, SameHeld
  <2>2. /\ pub'[p].stage = "sent" => pub'[p].entry \in feed'[pub'[p].index + 1]
        /\ pub'[p].stage \in {"recorded", "sent"} => path' = Snapshot(pub'[p])
    BY <1>1, <1>2 DEF Alone, Sound, StandsWhereItSays, SameHeld, Snapshot
  <2> QED
    BY <1>3, <1>8, <2>1, <2>2 DEF StandsWhereItSays
<1>10. Superseded(pub[p])'
  <2>1. Fed' = Fed
    BY <1>1 DEF Fed
  <2>2. Settles(path.entry, pub[p]) /\ Settles(pub'[p].text.entry, pub[p])
    BY <1>2 DEF Alone, Sound, Superseded, Settles, Snapshot
  <2> QED
    BY <1>1, <1>2, <2>1, <2>2 DEF Superseded, Settles, SameHeld
<1> QED
  BY <1>1, <1>2, <1>3, <1>9, <1>10, AloneMoves DEF Sound

\* What a write leaves of the publisher, whose handle is closed.
LEMMA SoundWrote ==
  ASSUME ShapeOK, ShapeOK', NEW p \in Publisher, Alone(p), pub[p].io # "none", WroteAs(pub[p], pub'[p]),
         UNCHANGED <<feed, dropped>>, path' # Half, Stands(path)', Settles(path'.entry, pub[p]),
         pub'[p].stage = pub[p].stage \/ (pub[p].stage = "staged" /\ pub'[p].stage = "recorded"),
         pub'[p].stage \in {"recorded", "sent"} => path' = Snapshot(pub[p])
  PROVE  Sound(pub[p])'
<1>1. OwnFile(pub[p])' /\ Stands(path)'
  BY DEF OwnFile, WroteAs, Stands, Standing
<1>2. Engaged(pub[p]) /\ pub[p].loop = "done" /\ Blank.state # "blocked" /\ ~Engaged(Blank) /\ Absent # Half
      /\ pub[p].chain # <<>>
  BY EngagedIs DEF Engaged, Blank, Opened, Absent, Half
<1>3. NothingBroken(pub[p])'
  BY <1>2 DEF NothingBroken, Excused, WroteAs, SameLoop, Alone, Sound
<1>4. CASE ~Engaged(pub'[p])
  BY <1>1, <1>3, <1>4 DEF Sound, StandsWhereItSays, Superseded, WroteAs
<1>5. CASE Engaged(pub'[p])
  <2>1. pub'[p].index = pub[p].index /\ pub'[p].entry = pub[p].entry
    BY <1>2, <1>5 DEF WroteAs
  <2>2. pub[p].index \in Nat \cup {-1} /\ pub[p].entry \in Message \cup {NoEntry} /\ WorldOK
    BY EngagedIs DEF ShapeOK, TypesOK
  <2>3. Standing(pub[p].index, IF pub[p].stage = "staged" THEN NoEntry ELSE pub[p].entry)
    BY <1>2 DEF Alone, Sound, StandsWhereItSays
  <2>4. Standing(pub[p].index, pub[p].entry)
    BY <2>2, <2>3, StandingIs
  <2>5. Standing(pub[p].index, IF pub'[p].stage = "staged" THEN NoEntry ELSE pub[p].entry)
    BY <2>3, <2>4
  <2>6. Standing(pub[p].index, IF pub[p].stage = "staged" THEN NoEntry ELSE pub[p].entry)'
    BY <2>1, <2>5 DEF Standing
  <2>7. pub'[p].stage = "sent" => pub'[p].entry \in feed'[pub'[p].index + 1]
    BY <1>2, <2>1 DEF Alone, Sound, StandsWhereItSays
  <2>8. Snapshot(pub'[p]) = Snapshot(pub[p])
    BY <2>1 DEF Snapshot
  <2>9. StandsWhereItSays(pub[p])'
    BY <1>1, <2>6, <2>7, <2>8 DEF StandsWhereItSays, WroteAs
  <2>10. Superseded(pub[p])'
    <3>1. Fed' = Fed
      BY DEF Fed
    <3> QED
      BY <2>1, <3>1 DEF Superseded, Settles, WroteAs
  <2> QED
    BY <1>1, <1>3, <2>9, <2>10 DEF Sound
<1> QED
  BY <1>4, <1>5

\* What a write that ends leaves of the one that is awake.
LEMMA AloneEnds ==
  ASSUME ShapeOK, ShapeOK', NEW p \in Publisher, Alone(p), NEW q \in Publisher, WriteFails(q) \/ Renames(q)
  PROVE  Alone(p)'
<1>1. /\ pub[q].io # "none" /\ pub[q].chain # <<>> /\ WroteAs(pub[q], pub'[q]) /\ UNCHANGED <<feed, dropped>>
      /\ \A o \in Publisher \ {q} : SameHeld(pub[o], pub'[o]) /\ pub'[o].chain = pub[o].chain
  BY WriteFailsIs, RenamesIs DEF log_vars, MovedAs, SameHeld
<1>2. q = p /\ Engaged(pub[p])
  BY <1>1, AwakeIs, EngagedIs
<1>3. SUFFICES ASSUME pub[p].io # "none", WroteAs(pub[p], pub'[p]), UNCHANGED <<feed, dropped>>
               PROVE  Sound(pub[p])'
  BY <1>1, <1>2, AloneMoves
<1>4. CASE WriteFails(q)
  <2>1. UNCHANGED path /\ pub'[p].stage = pub[p].stage
    BY <1>2, <1>4, WriteFailsIs DEF file_vars
  <2>2. Stands(path) /\ path # Half /\ Settles(path.entry, pub[p])
    BY <1>2 DEF Alone, Sound, StandsWhereItSays, NothingBroken, Superseded
  <2>3. pub[p].stage \in {"recorded", "sent"} => path = Snapshot(pub[p])
    BY <1>2 DEF Alone, Sound, StandsWhereItSays
  <2>4. Stands(path)' /\ path' # Half /\ Settles(path'.entry, pub[p])
    BY <1>3, <2>1, <2>2 DEF Stands, Standing
  <2>5. pub'[p].stage \in {"recorded", "sent"} => path' = Snapshot(pub[p])
    BY <2>1, <2>3
  <2> QED
    BY <1>3, <2>1, <2>2, <2>4, <2>5, SoundWrote
<1>5. CASE Renames(q)
  <2>1. path' = temp /\ pub[p].io = "written"
    BY <1>2, <1>5, RenamesIs
  <2>2. path' = pub[p].text /\ path' # Half
    BY <2>1 DEF Alone, Sound, OwnFile
  <2>3. Stands(path') /\ Settles(path'.entry, pub[p])
    BY <1>1, <1>2, <2>2 DEF Alone, Sound, StandsWhereItSays, Superseded
  <2>4. \/ pub'[p].stage = pub[p].stage
        \/ pub[p].stage = "staged" /\ Head(pub[p].chain) = "record" /\ pub'[p].stage = "recorded"
    BY <1>2, <1>5, RenamesIs
  <2>5. HoldingOK(pub[p])
    BY DEF ShapeOK
  <2>6. pub'[p].stage \in {"recorded", "sent"} => path' = Snapshot(pub[p])
    BY <1>1, <1>2, <2>2, <2>4, <2>5 DEF HoldingOK, WriteOK
  <2>7. Stands(path)'
    BY <1>3, <2>3 DEF Stands, Standing
  <2> QED
    BY <1>3, <2>2, <2>3, <2>4, <2>6, <2>7, SoundWrote
<1> QED
  BY <1>4, <1>5

\* One that is stopped or evicted stands where it did.
LEMMA AloneStops ==
  ASSUME ShapeOK, ShapeOK', NEW p \in Publisher, Alone(p), DrainStops \/ \E t \in Other : OtherOpens(t)
  PROVE  Alone(p)'
<1>1. CASE UNCHANGED <<pub, current, path, temp, feed, dropped>>
  <2>1. \A o \in Publisher : SameHeld(pub[o], pub'[o]) /\ SameWrite(pub[o], pub'[o]) /\ SameLoop(pub[o], pub'[o])
    BY <1>1 DEF SameHeld, SameWrite, SameLoop
  <2> QED
    BY <1>1, <2>1, AloneCalm
<1>2. ASSUME /\ current \in Publisher /\ \A q \in Publisher \ {current} : pub'[q] = pub[q]
             /\ StoppedAs(pub[current], pub'[current]) /\ UNCHANGED <<path, temp, feed>> /\ dropped \subseteq dropped'
             /\ pub'[current].chain # <<>> \/ pub'[current].stage # "none" => pub'[current].index = pub[current].index
             /\ pub'[current].state \in {"stopped", "blocked"}
             /\ pub'[current].state = "blocked" => pub[current].state = "blocked"
             /\ pub[current].stage = "staged" => pub[current].entry \in dropped'
      PROVE  Alone(p)'
  <2>1. current = p
    BY <1>2, AwakeIs
  <2>2. Excused(pub'[p]) /\ pub'[p].state # "ready"
    BY <1>2, <2>1 DEF Alone, Sound, NothingBroken, Excused, StoppedAs, SameWrite
  <2>3. Engaged(pub'[p]) => Engaged(pub[p]) /\ pub'[p].index = pub[p].index
    BY <1>2, <2>1, <2>2 DEF Engaged, StoppedAs, SameWrite
  <2>4. Sound(pub[p])'
    BY <1>2, <2>1, <2>2, <2>3, SoundMoves DEF StoppedAs, SameWrite, SameLoop, Alone
  <2> QED
    BY <1>2, <2>1, <2>4, AloneMoves
<1>3. CASE DrainStops
  <2>1. pub[current].stage = "staged" => pub[current].entry \in dropped'
    BY <1>3, DrainStopsIs DEF Drops
  <2> QED
    BY <1>2, <1>3, <2>1, DrainStopsIs DEF file_vars
<1>4. ASSUME NEW t \in Other, OtherOpens(t) PROVE Alone(p)'
  <2>1. CASE UNCHANGED <<pub, current>>
    BY <1>1, <1>4, <2>1, OtherOpensIs DEF file_vars, log_vars
  <2>2. CASE ~UNCHANGED <<pub, current>>
    BY <1>2, <1>4, <2>2, OtherOpensIs DEF file_vars, log_vars, StoppedAs, SameWrite
  <2> QED
    BY <2>1, <2>2
<1> QED
  BY <1>3, <1>4

\* A message is taken by the one that is awake, or by one that is opened.
LEMMA AloneTakes ==
  ASSUME ShapeOK, ShapeOK', NEW p \in Publisher, Alone(p), ~overlap', Takes \/ Refuses
  PROVE  \E o \in Publisher : Alone(o)'
<1>1. /\ current' \in Publisher /\ UNCHANGED <<path, temp, feed, dropped>>
      /\ \A q \in Publisher \ {current'} : pub'[q] = pub[q]
  BY TakesIs, RefusesIs DEF file_vars
<1>2. PICK o \in Publisher : o = current'
  BY <1>1
<1>3. CASE current = None
  <2>1. \A q \in Publisher : pub[q].chain = <<>>
    BY <1>3, TakesIs, RefusesIs, ConstantsAssumption
  <2>2. pub[o] = Blank
    BY <1>2, <1>3, TakesIs, RefusesIs, ConstantsAssumption
  <2>3. pub'[o].loop = "reads" /\ pub'[o].io = "none" /\ pub'[o].read = Absent /\ pub'[o].state # "blocked"
    <3>1. pub'[o] = Opened \/ pub'[o] = Offered(Opened, accepted')
      BY <1>2, <1>3, TakesIs, RefusesIs, ConstantsAssumption
    <3>2. /\ Opened.loop = "reads" /\ Opened.io = "none" /\ Opened.read = Absent /\ Opened.state = "resuming"
          /\ Offered(Opened, accepted').loop = "reads" /\ Offered(Opened, accepted').io = "none"
          /\ Offered(Opened, accepted').read = Absent /\ Offered(Opened, accepted').state = "resuming"
      BY DEF Offered, Opened
    <3> QED
      BY <3>1, <3>2
  <2> QED
    BY <1>1, <1>2, <1>3, <2>1, <2>3, AloneOpens
<1>4. CASE current # None
  <2>1. /\ Takes /\ current' = current /\ pub[current].state \in {"resuming", "ready"}
        /\ pub'[current].loop = pub[current].loop
    BY <1>4, TakesIs, RefusesIs
  <2>2. o = p
    BY <1>2, <2>1, AwakeIs
  <2>3. /\ SameWrite(pub[p], pub'[p]) /\ SameLoop(pub[p], pub'[p]) /\ pub'[p].entry = pub[p].entry
        /\ pub'[p].stage = pub[p].stage /\ pub'[p].index = pub[p].index /\ pub'[p].state \in {"resuming", "ready"}
    BY <1>2, <2>1, <2>2, TakesIs DEF SameLoop
  <2>4. pub'[p].state = pub[p].state
    <3>1. pub'[p] = Offered(pub[p], accepted') /\ pub[p] \in Record
      BY <1>2, <1>4, <2>1, <2>2, TakesIs DEF ShapeOK, TypesOK
    <3>2. Offered(pub[p], accepted').state = pub[p].state
      BY <3>1 DEF Offered, Record
    <3> QED
      BY <3>1, <3>2
  <2>5. Sound(pub[p])'
    BY <1>1, <2>3, <2>4, SoundMoves DEF SameWrite, SameLoop, Engaged, Excused, Alone
  <2> QED
    BY <1>1, <1>2, <2>2, <2>5, AloneMoves
<1> QED
  BY <1>3, <1>4

\* A start opens one when all are asleep, and with the process they all are.
LEMMA AloneStarts ==
  ASSUME ShapeOK, ShapeOK', DownOK, NEW p \in Publisher, Alone(p), Start \/ Exit \/ Crash
  PROVE  \E o \in Publisher : Alone(o)'
<1>1. /\ Blank.loop = "done" /\ Blank.read = Absent /\ Blank.chain = <<>> /\ Blank.io = "none" /\ ~Engaged(Blank)
      /\ Blank.state = "stopped" /\ Absent # Half /\ Asleep(Blank)
  BY DEF Blank, Opened, Engaged, Absent, Half, Asleep, Excused
<1>2. CASE Start
  <2>1. UNCHANGED <<path, temp, feed, dropped>> /\ current = None /\ \A q \in Publisher : pub[q] = Blank
    BY <1>2, StartIs DEF Start, DownOK, file_vars, log_vars
  <2>2. CASE UNCHANGED <<current, pub>>
    <3>1. \A o \in Publisher : SameHeld(pub[o], pub'[o]) /\ SameWrite(pub[o], pub'[o]) /\ SameLoop(pub[o], pub'[o])
      BY <2>2 DEF SameHeld, SameWrite, SameLoop
    <3> QED
      BY <2>1, <3>1, AloneCalm
  <2>3. ASSUME NEW o \in Publisher, pub'[o] = Opened, \A q \in Publisher \ {o} : pub'[q] = pub[q]
        PROVE  Alone(o)'
    <3>1. pub'[o].loop = "reads" /\ pub'[o].io = "none" /\ pub'[o].read = Absent /\ pub'[o].state # "blocked"
      BY <2>3 DEF Opened
    <3> QED
      BY <1>1, <2>1, <2>3, <3>1, AloneOpens
  <2> QED
    BY <1>2, <2>2, <2>3, StartIs
<1>3. CASE Exit \/ Crash
  <2>1. UNCHANGED <<path, feed, dropped>> /\ \A q \in Publisher : pub'[q] = Blank
    BY <1>3, EndsIs, ProcessEndsIs DEF log_vars
  <2>2. Stands(path)' /\ path' # Half
    BY <2>1 DEF Alone, Sound, StandsWhereItSays, NothingBroken, Stands, Standing
  <2>3. Sound(pub[p])'
    BY <1>1, <2>1, <2>2 DEF Sound, OwnFile, NothingBroken, Excused, StandsWhereItSays, Superseded
  <2> QED
    BY <1>1, <2>1, <2>3 DEF Alone
<1> QED
  BY <1>2, <1>3

\* Nobody is awake at first,
LEMMA AloneInit == Init => AloneOK
<1> SUFFICES ASSUME Init PROVE \E p \in Publisher : Alone(p)
  BY DEF AloneOK
<1>1. PICK p \in Publisher : TRUE
  BY ConstantsAssumption
<1>2. /\ Blank.loop = "done" /\ Blank.read = Absent /\ Blank.io = "none" /\ ~Engaged(Blank)
      /\ Blank.state = "stopped" /\ Absent # Half /\ Asleep(Blank)
  BY DEF Blank, Opened, Engaged, Absent, Half, Asleep, Excused
<1>3. path = Absent /\ (\A s \in Slot : feed[s] = {}) /\ \A q \in Publisher : pub[q] = Blank
  BY DEF Init
<1>4. Stands(path)
  BY <1>3 DEF Stands, Standing, Slot
<1>5. Sound(pub[p])
  BY <1>2, <1>3, <1>4 DEF Sound, OwnFile, NothingBroken, Excused, StandsWhereItSays, Superseded
<1> QED
  BY <1>2, <1>3, <1>5 DEF Alone

\* A chat that two publishers recorded at a time is not followed any further.
LEMMA OverlapStays ==
  ASSUME ShapeOK, [Next]_vars, overlap
  PROVE  overlap'
<1>1. overlap' = overlap \/ overlap' = (overlap \/ \E p \in Publisher : pub[p].chain # <<>>)
  <2>1. CASE Takes \/ Refuses
    BY <2>1, TakesIs, RefusesIs
  <2>2. CASE Start \/ Stop \/ DrainStops \/ Drained \/ ReleasesLock \/ Exit \/ Crash \/ Tick \/ UNCHANGED vars
    BY <2>2 DEF Start, Stop, DrainStops, Drained, ReleasesLock, Exit, Crash, ProcessEnds, Tick, vars, log_vars
  <2>3. ASSUME NEW t \in Other, OtherOpens(t) PROVE overlap' = overlap
    BY <2>3 DEF OtherOpens
  <2>4. ASSUME NEW p \in Publisher, Reads(p) \/ GivesUp(p) \/ ResumeFails(p) \/ Resumes(p) PROVE overlap' = overlap
    BY <2>4 DEF Reads, GivesUp, ResumeFails, Resumes, log_vars
  <2>5. ASSUME NEW p \in Publisher, Stages(p) \/ Sends(p) \/ Answered(p) \/ SaveEnds(p) PROVE overlap' = overlap
    BY <2>5 DEF Stages, Sends, Answered, SaveEnds, log_vars
  <2>6. ASSUME NEW p \in Publisher, OpensTemporary(p) \/ WritesFile(p) \/ WriteFails(p) \/ Renames(p)
        PROVE  overlap' = overlap
    BY <2>6 DEF OpensTemporary, WritesFile, WriteFails, Renames, log_vars
  <2> QED
    BY <2>1, <2>2, <2>3, <2>4, <2>5, <2>6 DEF Next
<1> QED
  BY <1>1, Zenon

\* and no second one after any step, unless it says so.
LEMMA AloneStep ==
  ASSUME ShapeOK, ShapeOK', DownOK, NumbersOK, AloneOK, [Next]_vars
  PROVE  AloneOK'
<1> SUFFICES ASSUME ~overlap' PROVE \E o \in Publisher : Alone(o)'
  BY DEF AloneOK
<1>1. ~overlap
  BY OverlapStays
<1>2. PICK p \in Publisher : Alone(p)
  BY <1>1 DEF AloneOK
<1>3. CASE Takes \/ Refuses
  BY <1>2, <1>3, AloneTakes
<1>4. CASE Start \/ Exit \/ Crash
  BY <1>2, <1>4, AloneStarts
<1>5. CASE DrainStops \/ \E t \in Other : OtherOpens(t)
  BY <1>2, <1>5, AloneStops
<1>6. CASE Stop \/ Drained \/ ReleasesLock \/ Tick \/ UNCHANGED vars
  <2>1. UNCHANGED <<path, temp, feed, dropped>>
    BY <1>6, StopIs, DrainedIs, ReleasesLockIs, TickIs DEF vars, file_vars, log_vars
  <2>2. ASSUME NEW q \in Publisher
        PROVE  SameHeld(pub[q], pub'[q]) /\ SameWrite(pub[q], pub'[q]) /\ SameLoop(pub[q], pub'[q])
    <3>1. CASE pub'[q] = pub[q]
      BY <3>1 DEF SameHeld, SameWrite, SameLoop
    <3>2. CASE pub'[q] # pub[q]
      BY <1>6, <3>2, StopIs, DrainedIs, ReleasesLockIs, TickIs DEF vars
    <3> QED
      BY <3>1, <3>2
  <2> QED
    BY <1>2, <2>1, <2>2, AloneCalm
<1>7. ASSUME NEW q \in Publisher, Reads(q) \/ GivesUp(q) \/ ResumeFails(q) \/ Resumes(q) PROVE Alone(p)'
  BY <1>2, <1>7, AloneReads, AloneResumes
<1>8. ASSUME NEW q \in Publisher, Stages(q) \/ Sends(q) \/ Answered(q) \/ SaveEnds(q) PROVE Alone(p)'
  BY <1>2, <1>8, AloneStages, AloneSends, AloneAnswered
<1>9. ASSUME NEW q \in Publisher, OpensTemporary(q) \/ WritesFile(q) \/ WriteFails(q) \/ Renames(q) PROVE Alone(p)'
  BY <1>2, <1>9, AloneWrites, AloneEnds
<1> QED
  BY <1>3, <1>4, <1>5, <1>6, <1>7, <1>8, <1>9 DEF Next

\* All of this holds together.
LEMMA AloneHolds == Spec => [](ShapeOK /\ DownOK /\ NumbersOK /\ MessagesOK /\ AloneOK)
BY ShapeInit, ShapeStep, DownInit, DownStep, NumbersInit, NumbersStep, MessagesInit, MessagesStep,
   AloneInit, AloneStep, PTL DEF Spec

-----------------------------------------------------------------------------
(* Nobody is ahead of the feed, overlapped or not *)

\* How a publisher may move while no slot is sent anything.
Advances(p) ==
  /\ pub'[p].index \in {pub[p].index, -1} \/ Written(pub'[p].index)
  /\ pub'[p].text \in {pub[p].text, Absent, Snapshot(pub[p])}
  /\ pub'[p].read \in {pub[p].read, path, Absent}
  /\ pub'[p].loop = "resumes" => pub'[p].read = path \/ (pub[p].loop = "resumes" /\ pub'[p].read = pub[p].read)
  /\ pub'[p].stage \in {"recorded", "sent"} => pub[p].stage \in {"recorded", "sent"} \/ path' # Absent
  /\ pub'[p].stage = "sent" => pub[p].stage = "sent" /\ pub'[p].index = pub[p].index
  /\ pub'[p].io # "none" => pub'[p].text # Absent

\* One that was left alone, or only lost what it waited for, or its place, does.
LEMMA AdvancesIs ==
  ASSUME ShapeOK, WrittenOK, NEW p \in Publisher,
         \/ pub'[p] = pub[p] \/ pub'[p] = Blank \/ pub'[p] = Opened
         \/ /\ pub'[p].index = pub[p].index /\ pub'[p].stage = pub[p].stage /\ SameLoop(pub[p], pub'[p])
            /\ pub'[p].io = pub[p].io /\ pub'[p].text = pub[p].text
  PROVE  Advances(p)
<1>1. /\ Opened.index = -1 /\ Opened.text = Absent /\ Opened.read = Absent /\ Opened.loop = "reads"
      /\ Opened.stage = "none" /\ Opened.io = "none"
  BY DEF Opened
<1>2. /\ Blank.index = -1 /\ Blank.text = Absent /\ Blank.read = Absent /\ Blank.loop = "done"
      /\ Blank.stage = "none" /\ Blank.io = "none"
  BY DEF Opened, Blank
<1> QED
  BY <1>1, <1>2 DEF Advances, WrittenOK, SameLoop

\* Steps that send nothing.
LEMMA WrittenMoves ==
  ASSUME ShapeOK, WrittenOK, UNCHANGED feed, \A p \in Publisher : Advances(p),
         path' \in {path, temp, Half} \cup {pub[p].text : p \in Publisher}, path' = Absent => path = Absent,
         temp' \in {temp, Absent, Half} \cup {pub[p].text : p \in Publisher}
  PROVE  WrittenOK'
<1>1. /\ Absent.index = -2 /\ Half.index = -3 /\ \A i \in Int : Written(i)' <=> Written(i)
      /\ Unwritten' <=> Unwritten
  BY DEF Absent, Half, Written, Unwritten
<1>2. Written(-1) /\ Written(-2) /\ Written(-3)
  BY ConstantsAssumption DEF Written, Slot
<1>3. \A c \in {path, temp, Half, Absent} \cup {pub[p].text : p \in Publisher} : c.index \in Int /\ Written(c.index)
  BY <1>1, <1>2, TextIs DEF WrittenOK, ShapeOK, TypesOK, WorldOK, Record
<1>4. Written(path.index)' /\ Written(temp.index)'
  BY <1>1, <1>3
<1>5. path' = Absent => Unwritten'
  BY <1>1 DEF WrittenOK
<1>6. ASSUME NEW p \in Publisher
      PROVE  /\ Written(pub[p].index)' /\ Written(pub[p].text.index)' /\ Written(pub[p].read.index)'
             /\ pub'[p].stage = "sent" => feed'[pub'[p].index + 1] # {}
             /\ pub'[p].stage \in {"recorded", "sent"} \/ pub'[p].read # Absent => path' # Absent
             /\ pub'[p].loop = "resumes" /\ pub'[p].read = Absent => Unwritten'
             /\ pub'[p].io # "none" => pub'[p].text # Absent
  <2>1. Advances(p)
    OBVIOUS
  <2>2. Written(pub[p].index)'
    <3>1. Written(pub'[p].index)
      BY <1>2, <2>1 DEF Advances, WrittenOK
    <3> QED
      BY <3>1 DEF Written
  <2>3. Written(pub[p].text.index)'
    <3>1. Written(pub'[p].text.index)
      BY <1>1, <1>2, <2>1 DEF Advances, WrittenOK, Snapshot
    <3> QED
      BY <3>1 DEF Written
  <2>4. Written(pub[p].read.index)'
    <3>1. Written(pub'[p].read.index)
      BY <1>1, <1>2, <2>1 DEF Advances, WrittenOK
    <3> QED
      BY <3>1 DEF Written
  <2>5. pub'[p].stage = "sent" => feed'[pub'[p].index + 1] # {}
    BY <2>1 DEF Advances, WrittenOK
  <2>6. pub'[p].stage \in {"recorded", "sent"} \/ pub'[p].read # Absent => path' # Absent
    BY <2>1 DEF Advances, WrittenOK
  <2>7. pub'[p].loop = "resumes" /\ pub'[p].read = Absent => Unwritten'
    BY <1>1, <2>1 DEF Advances, WrittenOK
  <2>8. pub'[p].io # "none" => pub'[p].text # Absent
    BY <2>1 DEF Advances
  <2> QED
    BY <2>2, <2>3, <2>4, <2>5, <2>6, <2>7, <2>8
<1> QED
  BY <1>4, <1>5, <1>6 DEF WrittenOK

\* Nothing is sent at first,
LEMMA WrittenInit == Init => WrittenOK
<1> SUFFICES ASSUME Init PROVE WrittenOK
  OBVIOUS
<1>1. /\ Blank.index = -1 /\ Blank.text = Absent /\ Blank.read = Absent /\ Blank.loop = "done"
      /\ Blank.stage = "none" /\ Blank.io = "none"
  BY DEF Opened, Blank
<1>2. Absent.index = -2 /\ path = Absent /\ temp = Absent /\ \A p \in Publisher : pub[p] = Blank
  BY DEF Init, Absent
<1>3. Written(-1) /\ Written(-2)
  BY ConstantsAssumption DEF Written, Slot
<1>4. Unwritten
  BY DEF Init, Unwritten
<1> QED
  BY <1>1, <1>2, <1>3, <1>4 DEF WrittenOK

\* Steps that neither send nor write.
LEMMA WrittenCalm ==
  ASSUME ShapeOK, WrittenOK,
         \/ Start \/ Stop \/ DrainStops \/ Drained \/ ReleasesLock \/ Exit \/ Crash \/ Tick \/ Takes \/ Refuses
         \/ \E t \in Other : OtherOpens(t)
         \/ UNCHANGED vars
  PROVE  WrittenOK'
<1>1. SUFFICES ASSUME UNCHANGED <<path, feed>>, temp' \in {temp, Absent}, \A p \in Publisher : Advances(p)
               PROVE  WrittenOK'
  <2>1. CASE Stop \/ Tick
    <3>1. /\ UNCHANGED <<path, temp, feed>>
          /\ \A p \in Publisher : SameHeld(pub[p], pub'[p]) /\ SameWrite(pub[p], pub'[p]) /\ SameLoop(pub[p], pub'[p])
      BY <2>1, StopIs, TickIs DEF file_vars, log_vars
    <3>2. \A p \in Publisher : Advances(p)
      BY <3>1, AdvancesIs DEF SameHeld, SameWrite
    <3> QED
      BY <1>1, <3>1, <3>2
  <2>2. CASE Drained
    <3>1. /\ UNCHANGED <<path, temp, feed>> /\ current \in Publisher
          /\ \A p \in Publisher \ {current} : pub'[p] = pub[p]
          /\ SameHeld(pub[current], pub'[current]) /\ SameWrite(pub[current], pub'[current])
          /\ SameLoop(pub[current], pub'[current])
      BY <2>2, DrainedIs DEF file_vars, log_vars
    <3>2. \A p \in Publisher : Advances(p)
      BY <3>1, AdvancesIs DEF SameHeld, SameWrite
    <3> QED
      BY <1>1, <3>1, <3>2
  <2>3. CASE ReleasesLock \/ UNCHANGED vars
    <3>1. UNCHANGED <<path, temp, feed, pub>>
      BY <2>3, ReleasesLockIs DEF vars, file_vars, log_vars
    <3>2. \A p \in Publisher : Advances(p)
      BY <3>1, AdvancesIs
    <3> QED
      BY <1>1, <3>1, <3>2
  <2>4. CASE Start
    <3>1. /\ UNCHANGED <<path, temp, feed>>
          /\ \A p \in Publisher : pub'[p] = pub[p] \/ pub'[p] = Opened
      BY <2>4, StartIs DEF file_vars, log_vars
    <3>2. \A p \in Publisher : Advances(p)
      BY <3>1, AdvancesIs
    <3> QED
      BY <1>1, <3>1, <3>2
  <2>5. CASE Exit \/ Crash
    <3>1. UNCHANGED <<path, feed>> /\ temp' = Absent /\ \A p \in Publisher : pub'[p] = Blank
      BY <2>5, EndsIs, ProcessEndsIs DEF log_vars
    <3>2. \A p \in Publisher : Advances(p)
      BY <3>1, AdvancesIs
    <3> QED
      BY <1>1, <3>1, <3>2
  <2>6. CASE Refuses
    <3>1. UNCHANGED <<path, temp, feed>> /\ \A p \in Publisher : pub'[p] = pub[p] \/ pub'[p] = Opened
      BY <2>6, RefusesIs DEF file_vars
    <3>2. \A p \in Publisher : Advances(p)
      BY <3>1, AdvancesIs
    <3> QED
      BY <1>1, <3>1, <3>2
  <2>7. CASE Takes
    <3>1. PICK o \in Publisher : o = current'
      BY <2>7, TakesIs
    <3>2. /\ UNCHANGED <<path, temp, feed>> /\ \A p \in Publisher \ {o} : pub'[p] = pub[p]
          /\ SameWrite(pub[o], pub'[o]) /\ pub'[o].stage = pub[o].stage /\ pub'[o].index = pub[o].index
          /\ pub'[o].read = pub[o].read /\ (pub'[o].loop = "reads" \/ pub'[o].loop = pub[o].loop)
      BY <2>7, <3>1, TakesIs DEF file_vars
    <3>3. Advances(o)
      BY <3>2 DEF Advances, SameWrite, WrittenOK
    <3>4. \A p \in Publisher : Advances(p)
      BY <3>2, <3>3, AdvancesIs
    <3> QED
      BY <1>1, <3>2, <3>4
  <2>8. ASSUME NEW o \in Publisher, StoppedAs(pub[o], pub'[o]), UNCHANGED <<path, temp, feed>>,
               \A p \in Publisher \ {o} : pub'[p] = pub[p], pub'[o].index \in {pub[o].index, -1},
               pub[o].stage = "sent" => pub'[o].index = pub[o].index
        PROVE  WrittenOK'
    <3>1. Advances(o)
      BY <2>8 DEF Advances, StoppedAs, SameWrite, WrittenOK
    <3>2. \A p \in Publisher : Advances(p)
      BY <2>8, <3>1, AdvancesIs
    <3> QED
      BY <1>1, <2>8, <3>2
  <2>9. CASE DrainStops
    BY <2>8, <2>9, DrainStopsIs DEF file_vars
  <2>10. ASSUME NEW t \in Other, OtherOpens(t) PROVE WrittenOK'
    <3>1. UNCHANGED <<path, temp, feed>>
      BY <2>10, OtherOpensIs DEF file_vars, log_vars
    <3>2. CASE UNCHANGED pub
      <4>1. \A p \in Publisher : Advances(p)
        BY <3>2, AdvancesIs
      <4> QED
        BY <1>1, <3>1, <4>1
    <3>3. CASE ~UNCHANGED pub
      <4>1. /\ current \in Publisher /\ \A q \in Publisher \ {current} : pub'[q] = pub[q]
            /\ pub[current].stage = "none" /\ StoppedAs(pub[current], pub'[current])
            /\ pub'[current].index \in {pub[current].index, -1}
        BY <2>10, <3>3, OtherOpensIs
      <4> QED
        BY <2>8, <3>1, <4>1
    <3> QED
      BY <3>2, <3>3
  <2> QED
    BY <2>1, <2>2, <2>3, <2>4, <2>5, <2>6, <2>7, <2>9, <2>10
<1> QED
  BY <1>1, WrittenMoves

\* Reading the checkpoint, and going by what was read.
LEMMA WrittenReads ==
  ASSUME ShapeOK, WrittenOK, NEW p \in Publisher, Reads(p) \/ GivesUp(p) \/ ResumeFails(p) \/ Resumes(p)
  PROVE  WrittenOK'
<1>1. UNCHANGED <<path, temp, feed>> /\ \A q \in Publisher \ {p} : pub'[q] = pub[q]
  BY ReadsIs, GivesUpIs, ResumeFailsIs, ResumesIs DEF file_vars, log_vars
<1>2. Advances(p)
  <2>1. CASE Reads(p) \/ GivesUp(p) \/ ResumeFails(p)
    <3>1. /\ SameHeld(pub[p], pub'[p]) /\ SameWrite(pub[p], pub'[p]) /\ pub'[p].read \in {path, Absent, pub[p].read}
          /\ pub'[p].loop = "resumes" => pub'[p].read = path
      BY <2>1, ReadsIs, GivesUpIs, ResumeFailsIs
    <3> QED
      BY <3>1 DEF Advances, SameHeld, SameWrite, WrittenOK
  <2>2. ASSUME Resumes(p), NEW x \in BOOLEAN, Blocks(p, x) PROVE Advances(p)
    <3>1. /\ pub[p].loop = "resumes" /\ WorldOK' /\ UNCHANGED <<server, current>>
      BY <2>2, ResumesIs DEF ShapeOK, TypesOK, server_vars
    <3>2. /\ SameWrite(pub[p], pub'[p]) /\ pub'[p].index = pub[p].index /\ pub'[p].stage = "none"
          /\ pub'[p].loop = "done" /\ pub'[p].read = Absent
      BY <2>2, <3>1, BlockIs
    <3> QED
      BY <3>2 DEF Advances, SameWrite, WrittenOK
  <2>3. ASSUME Resumes(p), ReadyAs(pub[p], pub'[p]) PROVE Advances(p)
    <3>1. /\ pub[p].loop = "resumes" /\ pub'[p].read = Absent /\ pub'[p].loop = "done" /\ pub'[p].text = pub[p].text
          /\ pub'[p].io = "none" /\ pub'[p].stage # "sent"
          /\ pub'[p].stage = "recorded" => pub[p].read # Absent
      BY <2>3, ResumesIs DEF ReadyAs, Absent
    <3>2. pub'[p].index = -1 \/ Written(pub'[p].index)
      <4>1. CASE pub[p].read = Absent
        <5>1. {s \in Slot : feed[s] # {}} = {}
          BY <3>1, <4>1 DEF WrittenOK, Unwritten
        <5>2. LastWritten = -1
          BY <5>1, FS_EmptySet DEF LastWritten
        <5> QED
          BY <2>3, <4>1, <5>2 DEF ReadyAs
      <4>2. CASE pub[p].read # Absent
        BY <2>3, <4>2 DEF ReadyAs, WrittenOK
      <4> QED
        BY <4>1, <4>2
    <3>3. pub'[p].stage \in {"recorded", "sent"} => path' # Absent
      BY <1>1, <3>1 DEF WrittenOK
    <3> QED
      BY <3>1, <3>2, <3>3 DEF Advances
  <2> QED
    BY <2>1, <2>2, <2>3, ResumesIs
<1>3. \A q \in Publisher : Advances(q)
  BY <1>1, <1>2, AdvancesIs
<1> QED
  BY <1>1, <1>3, WrittenMoves

\* An entry is staged, sent and lands.
LEMMA WrittenPublishes ==
  ASSUME ShapeOK, ShapeOK', NumbersOK, WrittenOK, NEW p \in Publisher,
         Stages(p) \/ Sends(p) \/ Answered(p) \/ SaveEnds(p)
  PROVE  WrittenOK'
<1>1. UNCHANGED <<server, current, path, temp>> /\ WorldOK' /\ \A q \in Publisher \ {p} : pub'[q] = pub[q]
  BY StagesIs, SendsIs, AnsweredIs, SaveEndsIs DEF server_vars, file_vars, ShapeOK, TypesOK
<1>2. ASSUME UNCHANGED feed, Advances(p) PROVE WrittenOK'
  <2>1. \A q \in Publisher : Advances(q)
    BY <1>1, <1>2, AdvancesIs
  <2> QED
    BY <1>1, <1>2, <2>1, WrittenMoves
<1>3. ASSUME UNCHANGED feed, Becomes(p, Lands(pub[p])), feed[pub[p].index + 1] # {},
             pub[p].stage = "sent" \/ (pub[p].stage = "recorded" /\ ~pub[p].stopped)
      PROVE  WrittenOK'
  <2>1. /\ SameLoop(pub[p], pub'[p]) /\ pub'[p].index = pub[p].index + 1 /\ pub'[p].stage = "none"
        /\ pub'[p].io = pub[p].io /\ pub'[p].text = pub[p].text
    BY <1>1, <1>3, LandingIs
  <2>2. pub[p].index \in Nat \cup {-1}
    BY EngagedIs
  <2>3. Written(pub'[p].index)
    BY <1>3, <2>1, <2>2 DEF WrittenOK, Written, Slot
  <2>4. Advances(p)
    BY <2>1, <2>3 DEF Advances, SameLoop, WrittenOK
  <2> QED
    BY <1>2, <1>3, <2>4
<1>4. CASE Stages(p)
  <2>1. /\ UNCHANGED feed /\ SameLoop(pub[p], pub'[p]) /\ pub'[p].index = pub[p].index /\ pub'[p].stage = "staged"
        /\ pub'[p].io = pub[p].io /\ pub'[p].text = pub[p].text
    BY <1>4, StagesIs DEF log_vars
  <2>2. Advances(p)
    BY <2>1 DEF Advances, SameLoop, WrittenOK
  <2> QED
    BY <1>2, <2>1, <2>2
<1>5. CASE SaveEnds(p)
  <2>1. /\ UNCHANGED feed /\ SameLoop(pub[p], pub'[p]) /\ pub'[p].io = pub[p].io /\ pub'[p].text = pub[p].text
        /\ SameHeld(pub[p], pub'[p]) \/ pub'[p] = Blank
    BY <1>5, SaveEndsIs DEF log_vars
  <2>2. Advances(p)
    BY <2>1, AdvancesIs DEF SameHeld
  <2> QED
    BY <1>2, <2>1, <2>2
<1>6. CASE Answered(p)
  <2>1. UNCHANGED feed /\ pub[p].stage = "sent" /\ Becomes(p, Lands(pub[p]))
    BY <1>6, AnsweredIs DEF log_vars
  <2> QED
    BY <1>3, <2>1 DEF WrittenOK
<1>7. CASE Sends(p)
  <2>1. /\ pub[p].stage = "recorded" /\ ~pub[p].stopped /\ pub[p].loop = "done" /\ pub[p].entry \in Message
        /\ p = current /\ pub[p].read = Absent
    BY <1>7, SendsIs
  <2>2. CASE pub[p].entry \in feed[pub[p].index + 1] /\ Becomes(p, Lands(pub[p])) /\ UNCHANGED <<feed, dropped, doubt>>
    BY <1>3, <2>1, <2>2
  <2>3. ASSUME NEW x \in BOOLEAN, Blocks(p, x), feed' = feed PROVE WrittenOK'
    <3>1. /\ SameWrite(pub[p], pub'[p]) /\ pub'[p].index = pub[p].index /\ pub'[p].stage = "none"
          /\ pub'[p].loop = "done" /\ pub'[p].read = Absent
      BY <1>1, <2>1, <2>3, BlockIs
    <3>2. Advances(p)
      BY <3>1 DEF Advances, SameWrite, WrittenOK
    <3> QED
      BY <1>2, <2>3, <3>2
  <2>4. CASE /\ feed' = [feed EXCEPT ![pub[p].index + 1] = @ \cup {pub[p].entry}]
             /\ SameLoop(pub[p], pub'[p]) /\ SameWrite(pub[p], pub'[p])
             /\ pub'[p].index = pub[p].index /\ pub'[p].stage = "sent"
    <3>1. pub[p].index + 1 \in Slot
      BY <2>1, NextSlot, TextIs
    <3>2. (\A s \in Slot : feed[s] # {} => feed'[s] # {}) /\ feed'[pub[p].index + 1] # {}
      BY <2>4, <3>1 DEF ShapeOK, TypesOK, WorldOK
    <3>3. path # Absent /\ path' = path /\ temp' = temp
      BY <1>1, <2>1 DEF WrittenOK
    <3>4. ASSUME NEW q \in Publisher \ {p} PROVE pub[q].loop # "resumes"
      BY <2>1, NotEvicted DEF ShapeOK, OwnersOK, HoldingOK, EvictedOK
    <3>5. Written(path.index)' /\ Written(temp.index)'
      BY <3>2, <3>3 DEF WrittenOK, Written
    <3>6. ASSUME NEW q \in Publisher
          PROVE  /\ Written(pub[q].index)' /\ Written(pub[q].text.index)' /\ Written(pub[q].read.index)'
                 /\ pub'[q].stage = "sent" => feed'[pub'[q].index + 1] # {}
                 /\ pub'[q].loop # "resumes"
                 /\ pub'[q].io # "none" => pub'[q].text # Absent
      <4>1. CASE q = p
        BY <2>1, <2>4, <3>2, <4>1 DEF WrittenOK, Written, SameLoop, SameWrite
      <4>2. CASE q # p
        <5>1. pub'[q] = pub[q]
          BY <1>1, <4>2
        <5>2. pub[q].stage # "sent"
          BY <2>1, <4>2, NotEvicted
        <5> QED
          BY <3>2, <3>4, <4>2, <5>1, <5>2 DEF WrittenOK, Written
      <4> QED
        BY <4>1, <4>2
    <3> QED
      BY <3>3, <3>5, <3>6 DEF WrittenOK
  <2> QED
    BY <1>7, <2>2, <2>3, <2>4, SendsIs
<1> QED
  BY <1>4, <1>5, <1>6, <1>7

\* No write, of whom and when ever, puts a text at the path that is ahead of the feed.
LEMMA WrittenWrites ==
  ASSUME ShapeOK, WrittenOK, NEW p \in Publisher, OpensTemporary(p) \/ WritesFile(p) \/ WriteFails(p) \/ Renames(p)
  PROVE  WrittenOK'
<1>1. UNCHANGED feed
  BY OpensTemporaryIs, WritesFileIs, WriteFailsIs, RenamesIs DEF log_vars
<1>2. CASE OpensTemporary(p)
  <2>1. /\ UNCHANGED path /\ temp' = Half /\ \A q \in Publisher \ {p} : pub'[q] = pub[q]
        /\ SameHeld(pub[p], pub'[p]) /\ SameLoop(pub[p], pub'[p]) /\ pub'[p].text = Snapshot(pub[p])
    BY <1>2, OpensTemporaryIs
  <2>2. Advances(p)
    BY <2>1, EngagedIs DEF Advances, SameHeld, SameLoop
  <2>3. \A q \in Publisher : Advances(q)
    BY <2>1, <2>2, AdvancesIs
  <2> QED
    BY <1>1, <2>1, <2>3, WrittenMoves
<1>3. CASE WritesFile(p)
  <2>1. /\ \A q \in Publisher \ {p} : pub'[q] = pub[q]
        /\ SameHeld(pub[p], pub'[p]) /\ SameLoop(pub[p], pub'[p]) /\ pub[p].io = "opened"
        /\ pub'[p].text = pub[p].text
    BY <1>3, WritesFileIs
  <2>2. Advances(p)
    BY <2>1 DEF Advances, SameHeld, SameLoop, WrittenOK
  <2>3. \A q \in Publisher : Advances(q)
    BY <2>1, <2>2, AdvancesIs
  <2>4. Half # Absent /\ pub[p].text # Absent
    BY <2>1 DEF Half, Absent, WrittenOK
  <2>5. PICK text \in Texts(p) : /\ path' = IF pub[p].file = "path" THEN text ELSE path
                                 /\ temp' = IF pub[p].file = "temp" THEN text ELSE temp
    BY <1>3, WritesFileIs
  <2>6. text \in {Half, pub[p].text}
    BY DEF Texts
  <2> QED
    BY <1>1, <2>3, <2>4, <2>5, <2>6, WrittenMoves
<1>4. ASSUME WroteAs(pub[p], pub'[p]),
             \/ pub'[p].stage = pub[p].stage
             \/ pub[p].stage = "staged" /\ pub'[p].stage = "recorded" /\ path' # Absent
      PROVE  Advances(p)
  <2>1. CASE pub'[p] = Blank
    BY <2>1, AdvancesIs
  <2>2. CASE pub'[p].index = pub[p].index
    BY <1>4, <2>2 DEF Advances, WroteAs, SameLoop
  <2> QED
    BY <1>4, <2>1, <2>2 DEF WroteAs
<1>5. CASE WriteFails(p)
  <2>1. /\ UNCHANGED <<path, temp>> /\ \A q \in Publisher \ {p} : pub'[q] = pub[q]
        /\ WroteAs(pub[p], pub'[p]) /\ pub'[p].stage = pub[p].stage
    BY <1>5, WriteFailsIs DEF file_vars
  <2>2. \A q \in Publisher : Advances(q)
    BY <1>4, <2>1, AdvancesIs
  <2> QED
    BY <1>1, <2>1, <2>2, WrittenMoves
<1>6. CASE Renames(p)
  <2>1. /\ path' = temp /\ temp' = Absent /\ temp # Absent /\ \A q \in Publisher \ {p} : MovedAs(pub[q], pub'[q])
        /\ WroteAs(pub[p], pub'[p])
        /\ pub'[p].stage = pub[p].stage \/ (pub[p].stage = "staged" /\ pub'[p].stage = "recorded")
    BY <1>6, RenamesIs
  <2>2. Advances(p)
    BY <1>4, <2>1
  <2>3. \A q \in Publisher \ {p} : Advances(q)
    BY <2>1, AdvancesIs DEF MovedAs, SameHeld
  <2> QED
    BY <1>1, <2>1, <2>2, <2>3, WrittenMoves
<1> QED
  BY <1>2, <1>3, <1>5, <1>6

\* and after no step anybody is ahead of what was.
LEMMA WrittenStep ==
  ASSUME ShapeOK, ShapeOK', NumbersOK, WrittenOK, [Next]_vars
  PROVE  WrittenOK'
<1>1. CASE \/ Start \/ Stop \/ DrainStops \/ Drained \/ ReleasesLock \/ Exit \/ Crash \/ Tick \/ Takes \/ Refuses
           \/ \E t \in Other : OtherOpens(t)
           \/ UNCHANGED vars
  BY <1>1, WrittenCalm
<1>2. ASSUME NEW p \in Publisher, Reads(p) \/ GivesUp(p) \/ ResumeFails(p) \/ Resumes(p) PROVE WrittenOK'
  BY <1>2, WrittenReads
<1>3. ASSUME NEW p \in Publisher, Stages(p) \/ Sends(p) \/ Answered(p) \/ SaveEnds(p) PROVE WrittenOK'
  BY <1>3, WrittenPublishes
<1>4. ASSUME NEW p \in Publisher, OpensTemporary(p) \/ WritesFile(p) \/ WriteFails(p) \/ Renames(p) PROVE WrittenOK'
  BY <1>4, WrittenWrites
<1> QED
  BY <1>1, <1>2, <1>3, <1>4 DEF Next

\* This holds together too.
LEMMA WrittenHolds == Spec => [](ShapeOK /\ NumbersOK /\ WrittenOK)
BY ShapeInit, ShapeStep, NumbersInit, NumbersStep, WrittenInit, WrittenStep, PTL DEF Spec

(* A publisher that is ready takes no slot for published that is empty, overlapped or not. Unless two overlapped, no slot
   after those was sent anything but its entry. *)
THEOREM ContinuesThere == Spec => []ContinuesWhereItStood
<1>1. ASSUME ShapeOK, AloneOK, WrittenOK PROVE ContinuesWhereItStood
  <2>1. ASSUME NEW p \in Publisher, pub[p].state = "ready", ~pub[p].stopped, ~overlap
        PROVE  Standing(pub[p].index, pub[p].entry)
    <3>1. Alone(p)
      BY <1>1, <2>1, AwakeIs DEF AloneOK
    <3>2. Engaged(pub[p])
      BY <1>1, <2>1 DEF ShapeOK, HoldingOK, ResumingOK, Engaged
    <3>3. Standing(pub[p].index, IF pub[p].stage = "staged" THEN NoEntry ELSE pub[p].entry)
      BY <3>1, <3>2 DEF Alone, Sound, StandsWhereItSays
    <3>4. pub[p].index \in Nat \cup {-1} /\ pub[p].entry \in Message \cup {NoEntry} /\ WorldOK
      BY <1>1, EngagedIs DEF ShapeOK, TypesOK
    <3> QED
      BY <3>3, <3>4, StandingIs
  <2>2. \A p \in Publisher : Written(pub[p].index)
    BY <1>1 DEF WrittenOK
  <2> QED
    BY <2>1, <2>2 DEF ContinuesWhereItStood, Standing, Written
<1> QED
  BY <1>1, AloneHolds, WrittenHolds, PTL

\* The checkpoint is whole and, the rows in it aside, blocks nobody, unless a publisher was opened while an evicted one
\* still recorded.
THEOREM WholeAlone == Spec => []WholeUnlessOverlapped
<1>1. ASSUME ShapeOK, AloneOK, TypeOK PROVE WholeUnlessOverlapped
  <2>1. ASSUME NEW p \in Publisher, pub[p].state = "blocked", ~overlap PROVE pub[p].refused
    BY <1>1, <2>1 DEF AloneOK, Alone, Sound, NothingBroken, Asleep, Excused
  <2>2. ASSUME path = Half, ~overlap PROVE FALSE
    BY <1>1, <2>2 DEF AloneOK, Alone, Sound, NothingBroken
  <2> QED
    BY <1>1, <2>1, <2>2 DEF WholeUnlessOverlapped, TypeOK
<1> QED
  BY <1>1, AloneHolds, TypesHold, PTL

-----------------------------------------------------------------------------
(* Every message is accounted for *)

\* A publisher that is not stopped holds a message.
Holds(r, m) == ~r.stopped /\ (m = r.entry \/ \E i \in DOMAIN r.queue : m = r.queue[i])

\* What a step loses it drops.
Keeps == \A m \in Message : Lives(m) => m \in dropped' \/ Lives(m)'

SameKept(r, k) == k.stopped = r.stopped /\ k.entry = r.entry /\ k.queue = r.queue

\* A step that loses nothing it does not drop accounts for every message.
LEMMA AccountedMoves ==
  ASSUME ShapeOK, ShapeOK', [Next]_vars, Accounted, accepted' = accepted, dropped \subseteq dropped',
         crashes' = 0 /\ ~overlap /\ ~overlap' => crashes = 0 /\ Keeps
  PROVE  Accounted'
<1> SUFFICES ASSUME crashes' = 0, ~overlap', NEW m \in 1 .. accepted PROVE m \in dropped' \/ Lives(m)'
  BY DEF Accounted
<1>1. ~overlap
  BY OverlapStays
<1>2. m \in Message
  BY PlacedIs, ConstantsAssumption DEF PlacedOK, Message
<1>3. m \in dropped \/ Lives(m)
  BY <1>1 DEF Accounted
<1> QED
  BY <1>1, <1>2, <1>3 DEF Keeps

\* It is enough to follow what the checkpoint records and what each publisher holds.
LEMMA KeepsIs ==
  ASSUME \A s \in Slot : feed[s] \subseteq feed'[s],
         \A m \in Message : m = path.entry => m \in dropped' \/ Lives(m)',
         \A q \in Publisher : \A m \in Message : Holds(pub[q], m) => m \in dropped' \/ Lives(m)'
  PROVE  Keeps
<1> SUFFICES ASSUME NEW m \in Message, Lives(m) PROVE m \in dropped' \/ Lives(m)'
  BY DEF Keeps
<1>1. CASE m = path.entry
  BY <1>1
<1>2. CASE \E s \in Slot : m \in feed[s]
  BY <1>2 DEF Lives
<1>3. CASE \E q \in Publisher : Holds(pub[q], m)
  BY <1>3
<1> QED
  BY <1>1, <1>2, <1>3 DEF Lives, Holds

\* What a publisher holds lives,
LEMMA HeldLives ==
  ASSUME NEW q \in Publisher, NEW m \in Message, Holds(pub'[q], m)
  PROVE  Lives(m)'
BY DEF Lives, Holds

\* and lives on while it holds it.
LEMMA KeptHeld ==
  ASSUME NEW q \in Publisher, pub[q].stopped \/ SameKept(pub[q], pub'[q])
  PROVE  \A m \in Message : Holds(pub[q], m) => Lives(m)'
<1> SUFFICES ASSUME NEW m \in Message, Holds(pub[q], m) PROVE Lives(m)'
  OBVIOUS
<1>1. Holds(pub'[q], m)
  BY DEF Holds, SameKept
<1> QED
  BY <1>1, HeldLives

\* Steps after which file, feed and publishers hold what they held,
LEMMA KeepsSame ==
  ASSUME path'.entry = path.entry, UNCHANGED feed, \A q \in Publisher : pub[q].stopped \/ SameKept(pub[q], pub'[q])
  PROVE  Keeps
<1>1. \A m \in Message : m = path.entry => Lives(m)'
  BY DEF Lives
<1>2. \A q \in Publisher : \A m \in Message : Holds(pub[q], m) => Lives(m)'
  BY KeptHeld
<1> QED
  BY <1>1, <1>2, KeepsIs

\* which are these.
LEMMA KeepsCalm ==
  ASSUME ShapeOK,
         \/ Stop \/ Drained \/ ReleasesLock \/ Tick \/ UNCHANGED vars
         \/ \E p \in Publisher : Reads(p) \/ GivesUp(p) \/ ResumeFails(p) \/ SaveEnds(p) \/ OpensTemporary(p) \/ WriteFails(p)
  PROVE  Keeps /\ UNCHANGED <<accepted, dropped, crashes>>
<1>1. /\ UNCHANGED <<accepted, dropped, crashes, path, feed>>
      /\ \A q \in Publisher : pub[q].stopped \/ SameKept(pub[q], pub'[q])
  <2>1. CASE Stop \/ Drained \/ ReleasesLock \/ Tick \/ UNCHANGED vars
    <3>1. UNCHANGED <<accepted, dropped, crashes, path, feed>>
      BY <2>1, StopIs, DrainedIs, ReleasesLockIs, TickIs DEF vars, server_vars, file_vars, log_vars
    <3>2. ASSUME NEW q \in Publisher PROVE SameKept(pub[q], pub'[q])
      <4>1. CASE pub'[q] = pub[q]
        BY <4>1 DEF SameKept
      <4>2. CASE pub'[q] # pub[q]
        BY <2>1, <4>2, StopIs, DrainedIs, ReleasesLockIs, TickIs DEF vars, SameHeld, SameKept
      <4> QED
        BY <4>1, <4>2
    <3> QED
      BY <3>1, <3>2
  <2>2. ASSUME NEW p \in Publisher,
               Reads(p) \/ GivesUp(p) \/ ResumeFails(p) \/ SaveEnds(p) \/ OpensTemporary(p) \/ WriteFails(p)
        PROVE  /\ UNCHANGED <<accepted, dropped, crashes, path, feed>>
               /\ \A q \in Publisher : pub[q].stopped \/ SameKept(pub[q], pub'[q])
    <3>1. UNCHANGED <<accepted, dropped, crashes, path, feed>> /\ \A q \in Publisher \ {p} : pub'[q] = pub[q]
      BY <2>2, ReadsIs, GivesUpIs, ResumeFailsIs, SaveEndsIs, OpensTemporaryIs, WriteFailsIs
         DEF server_vars, file_vars, log_vars
    <3>2. pub[p].evicted => pub[p].stopped
      BY DEF ShapeOK, HoldingOK, EvictedOK
    <3>3. pub[p].stopped \/ SameKept(pub[p], pub'[p])
      <4>1. CASE SaveEnds(p)
        BY <3>2, <4>1, SaveEndsIs DEF SameHeld, SameKept
      <4>2. CASE WriteFails(p)
        BY <4>2, WriteFailsIs DEF WroteAs, SameKept
      <4>3. CASE Reads(p) \/ GivesUp(p) \/ ResumeFails(p) \/ OpensTemporary(p)
        BY <4>3, ReadsIs, GivesUpIs, ResumeFailsIs, OpensTemporaryIs DEF SameHeld, SameKept
      <4> QED
        BY <2>2, <4>1, <4>2, <4>3
    <3> QED
      BY <3>1, <3>3 DEF SameKept
  <2> QED
    BY <2>1, <2>2
<1> QED
  BY <1>1, KeepsSame

\* What a write puts in the place of the file holds the same entry, or the old one lives elsewhere.
LEMMA KeepsWrites ==
  ASSUME ShapeOK, ShapeOK', NEW o \in Publisher, Alone(o), NEW p \in Publisher, WritesFile(p) \/ Renames(p)
  PROVE  Keeps /\ UNCHANGED <<accepted, dropped, crashes>>
<1>1. /\ UNCHANGED <<accepted, dropped, crashes, feed>> /\ pub[p].io # "none"
      /\ \A q \in Publisher : SameKept(pub[q], pub'[q])
  <2>1. CASE WritesFile(p)
    <3>1. /\ UNCHANGED <<server_vars, log_vars>> /\ pub[p].io = "opened" /\ SameHeld(pub[p], pub'[p])
          /\ \A q \in Publisher \ {p} : pub'[q] = pub[q]
      BY <2>1, WritesFileIs
    <3> QED
      BY <3>1 DEF server_vars, log_vars, SameHeld, SameKept
  <2>2. CASE Renames(p)
    <3>1. /\ UNCHANGED <<server_vars, log_vars>> /\ pub[p].io = "written" /\ WroteAs(pub[p], pub'[p])
          /\ \A q \in Publisher \ {p} : MovedAs(pub[q], pub'[q])
      BY <2>2, RenamesIs
    <3> QED
      BY <3>1 DEF server_vars, log_vars, SameHeld, SameKept, MovedAs, WroteAs
  <2> QED
    BY <2>1, <2>2
<1>2. p = o /\ Engaged(pub[p]) /\ HoldingOK(pub[p]) /\ NoEntry \notin Message
  BY <1>1, AwakeIs, EngagedIs DEF ShapeOK
<1>3. \A q \in Publisher : \A m \in Message : Holds(pub[q], m) => Lives(m)'
  BY <1>1, KeptHeld
<1>4. CASE WritesFile(p)
  <2>1. pub[p].file = "temp"
    BY <1>1, <1>2 DEF Alone, Sound, OwnFile
  <2>2. path' = path
    BY <1>4, <2>1, WritesFileIs
  <2> QED
    BY <1>1, <2>2, KeepsSame
<1>5. CASE Renames(p)
  <2>1. path' = pub[p].text
    BY <1>2, <1>5, RenamesIs DEF Alone, Sound, OwnFile
  <2> SUFFICES ASSUME NEW m \in Message, m = path.entry PROVE m \in dropped' \/ Lives(m)'
    BY <1>1, <1>3, KeepsIs
  <2>2. m = pub[p].entry \/ m \in Fed \/ m \in dropped
    BY <1>2 DEF Alone, Sound, Superseded, Settles
  <2>3. CASE m \in Fed \/ m \in dropped
    BY <1>1, <2>3 DEF Fed, Lives
  <2>4. CASE m = pub[p].entry /\ ~pub[p].stopped
    BY <1>3, <2>4 DEF Holds
  <2>5. CASE m = pub[p].entry /\ pub[p].stopped
    <3>1. pub[p].stage \in {"recorded", "sent"}
      BY <1>2, <2>5 DEF HoldingOK, WriteOK, StoppedOK, ShapeOK, TypesOK, Record, Stage
    <3>2. pub[p].text = Snapshot(pub[p])
      BY <1>1, <1>2, <3>1 DEF HoldingOK, WriteOK
    <3>3. path'.entry = m
      BY <2>1, <2>5, <3>2 DEF Snapshot
    <3> QED
      BY <3>3 DEF Lives
  <2> QED
    BY <2>2, <2>3, <2>4, <2>5
<1> QED
  BY <1>1, <1>4, <1>5

\* A message that is staged is still held.
LEMMA KeepsStages ==
  ASSUME ShapeOK, ShapeOK', NEW p \in Publisher, Stages(p)
  PROVE  Keeps /\ UNCHANGED <<accepted, dropped, crashes>>
<1>1. /\ UNCHANGED <<accepted, dropped, crashes, path, feed>> /\ \A q \in Publisher \ {p} : pub'[q] = pub[q]
      /\ ~pub'[p].stopped /\ pub[p].entry = NoEntry /\ pub[p].queue # <<>>
      /\ pub'[p].queue = Tail(pub[p].queue) /\ pub'[p].entry = Head(pub[p].queue)
  BY StagesIs DEF server_vars, file_vars, log_vars
<1>2. pub[p].queue \in Seq(Message) /\ NoEntry \notin Message
  BY OnlyCurrent, TextIs
<1>3. \A m \in Message : Holds(pub[p], m) => Lives(m)'
  <2> SUFFICES ASSUME NEW m \in Message, Holds(pub[p], m) PROVE Holds(pub'[p], m)
    BY HeldLives
  <2>1. PICK i \in 1 .. Len(pub[p].queue) : m = pub[p].queue[i]
    BY <1>1, <1>2 DEF Holds
  <2>2. CASE i = 1
    BY <1>1, <1>2, <2>1, <2>2 DEF Holds
  <2>3. CASE i # 1
    <3>1. i - 1 \in DOMAIN Tail(pub[p].queue) /\ Tail(pub[p].queue)[i - 1] = m
      BY <1>1, <1>2, <2>1, <2>3
    <3> QED
      BY <1>1, <3>1 DEF Holds
  <2> QED
    BY <2>2, <2>3
<1>4. \A q \in Publisher \ {p} : \A m \in Message : Holds(pub[q], m) => Lives(m)'
  BY <1>1, HeldLives
<1>5. \A m \in Message : m = path.entry => Lives(m)'
  BY <1>1 DEF Lives
<1> QED
  BY <1>1, <1>3, <1>4, <1>5, KeepsIs

\* A resume holds what the file does, and one that refuses it drops its queue.
LEMMA KeepsResumes ==
  ASSUME ShapeOK, ShapeOK', NEW p \in Publisher, Resumes(p)
  PROVE  Keeps /\ dropped \subseteq dropped' /\ UNCHANGED <<accepted, crashes>>
<1>1. /\ UNCHANGED <<accepted, crashes, path, feed, server, current>> /\ \A q \in Publisher \ {p} : pub'[q] = pub[q]
      /\ p = current /\ pub[p].loop = "resumes" /\ WorldOK'
  BY ResumesIs DEF server_vars, file_vars, ShapeOK, TypesOK
<1>2. pub[p].entry = NoEntry /\ NoEntry \notin Message
  BY <1>1, EngagedIs DEF ShapeOK, HoldingOK, ResumingOK
<1>3. \A m \in Message : m = path.entry => Lives(m)'
  BY <1>1 DEF Lives
<1>4. ASSUME ReadyAs(pub[p], pub'[p]), UNCHANGED dropped PROVE Keeps /\ dropped \subseteq dropped'
  <2>1. \A m \in Message : Holds(pub[p], m) => Holds(pub'[p], m)
    BY <1>2, <1>4 DEF Holds, ReadyAs
  <2>2. \A q \in Publisher : \A m \in Message : Holds(pub[q], m) => Lives(m)'
    BY <1>1, <2>1, HeldLives
  <2> QED
    BY <1>1, <1>3, <1>4, <2>2, KeepsIs
<1>5. ASSUME NEW x \in BOOLEAN, Blocks(p, x) PROVE Keeps /\ dropped \subseteq dropped'
  <2>1. dropped' = dropped \cup {pub[p].queue[i] : i \in DOMAIN pub[p].queue} \cup ({pub[p].entry} \ {NoEntry})
    BY <1>1, <1>5, BlockIs
  <2>2. \A m \in Message : Holds(pub[p], m) => m \in dropped'
    BY <1>2, <2>1 DEF Holds
  <2>3. \A q \in Publisher \ {p} : \A m \in Message : Holds(pub[q], m) => Lives(m)'
    BY <1>1, HeldLives
  <2> QED
    BY <1>1, <1>3, <2>1, <2>2, <2>3, KeepsIs
<1> QED
  BY <1>1, <1>4, <1>5, ResumesIs

\* An entry that lands is in its slot.
LEMMA KeepsLands ==
  ASSUME ShapeOK, ShapeOK', NumbersOK, NEW p \in Publisher,
         pub[p].stage = "sent" \/ (pub[p].stage = "recorded" /\ ~pub[p].stopped),
         pub[p].entry \in feed[pub[p].index + 1], Becomes(p, Lands(pub[p])),
         UNCHANGED <<server, current, path, feed, dropped>>
  PROVE  Keeps
<1>1. /\ \A q \in Publisher \ {p} : pub'[q] = pub[q]
      /\ pub[p].entry \in Message /\ pub'[p].stopped = pub[p].stopped /\ pub'[p].queue = pub[p].queue
  <2>1. WorldOK'
    BY DEF ShapeOK, TypesOK
  <2> QED
    BY <2>1, LandingIs
<1>2. pub[p].index + 1 \in Slot
  BY <1>1, NextSlot, TextIs
<1>3. ASSUME NEW m \in Message, Holds(pub[p], m) PROVE Lives(m)'
  <2>1. CASE m = pub[p].entry
    BY <1>2, <2>1 DEF Lives
  <2>2. CASE m # pub[p].entry
    <3>1. Holds(pub'[p], m)
      BY <1>1, <1>3, <2>2 DEF Holds
    <3> QED
      BY <3>1, HeldLives
  <2> QED
    BY <2>1, <2>2
<1>4. \A q \in Publisher \ {p} : \A m \in Message : Holds(pub[q], m) => Lives(m)'
  BY <1>1, HeldLives
<1>5. \A m \in Message : m = path.entry => Lives(m)'
  BY DEF Lives
<1> QED
  BY <1>3, <1>4, <1>5, KeepsIs

\* A slot keeps what was in flight.
LEMMA KeepsSends ==
  ASSUME ShapeOK, ShapeOK', NumbersOK, NEW o \in Publisher, Alone(o), NEW p \in Publisher, Sends(p) \/ Answered(p)
  PROVE  Keeps /\ dropped \subseteq dropped' /\ UNCHANGED <<accepted, crashes>>
<1>1. CASE Answered(p)
  <2>1. /\ UNCHANGED <<server, current, path, feed, dropped, accepted, crashes>>
        /\ pub[p].stage = "sent" /\ Becomes(p, Lands(pub[p]))
    BY <1>1, AnsweredIs DEF server_vars, file_vars, log_vars
  <2>2. p = o /\ Engaged(pub[p])
    BY <2>1, AwakeIs, EngagedIs
  <2>3. pub[p].entry \in feed[pub[p].index + 1]
    BY <2>1, <2>2 DEF Alone, Sound, StandsWhereItSays
  <2> QED
    BY <2>1, <2>3, KeepsLands
<1>2. CASE Sends(p)
  <2>1. /\ UNCHANGED <<server, current, path, accepted, crashes>> /\ \A q \in Publisher \ {p} : pub'[q] = pub[q]
        /\ pub[p].stage = "recorded" /\ ~pub[p].stopped /\ pub[p].entry \in Message
    BY <1>2, SendsIs DEF server_vars, file_vars
  <2>2. CASE pub[p].entry \in feed[pub[p].index + 1] /\ Becomes(p, Lands(pub[p])) /\ UNCHANGED <<feed, dropped, doubt>>
    BY <2>1, <2>2, KeepsLands
  <2>3. CASE feed[pub[p].index + 1] \ {pub[p].entry} # {}
    <3>1. p = o /\ Engaged(pub[p]) /\ pub[p].index \in Nat \cup {-1} /\ pub[p].index + 1 \in Slot
      BY <2>1, AwakeIs, EngagedIs, NextSlot, TextIs
    <3>2. Standing(pub[p].index, pub[p].entry)
      BY <2>1, <3>1 DEF Alone, Sound, StandsWhereItSays
    <3>3. pub[p].index + 1 > pub[p].index
      BY <3>1
    <3> QED
      BY <2>3, <3>1, <3>2, <3>3 DEF Standing
  <2>4. CASE /\ feed' = [feed EXCEPT ![pub[p].index + 1] = @ \cup {pub[p].entry}] /\ UNCHANGED <<dropped, doubt>>
             /\ pub'[p].stopped = pub[p].stopped /\ pub'[p].queue = pub[p].queue /\ pub'[p].entry = pub[p].entry
    <3>1. \A s \in Slot : feed[s] \subseteq feed'[s]
      BY <2>4 DEF ShapeOK, TypesOK, WorldOK
    <3>2. \A q \in Publisher : SameKept(pub[q], pub'[q])
      BY <2>1, <2>4 DEF SameKept
    <3>3. \A q \in Publisher : \A m \in Message : Holds(pub[q], m) => Lives(m)'
      BY <3>2, KeptHeld
    <3>4. \A m \in Message : m = path.entry => Lives(m)'
      BY <2>1 DEF Lives
    <3> QED
      BY <2>1, <2>4, <3>1, <3>3, <3>4, KeepsIs
  <2> QED
    BY <1>2, <2>1, <2>2, <2>3, <2>4, SendsIs
<1> QED
  BY <1>1, <1>2

\* stop() drops what it does not leave to the checkpoint.
LEMMA KeepsStops ==
  ASSUME ShapeOK, ShapeOK', NEW o \in Publisher, Alone(o), DrainStops \/ \E t \in Other : OtherOpens(t)
  PROVE  Keeps /\ dropped \subseteq dropped' /\ UNCHANGED <<accepted, crashes>>
<1>1. CASE DrainStops
  <2> DEFINE p == current
  <2>1. /\ p \in Publisher /\ UNCHANGED <<accepted, crashes, path, feed>> /\ \A q \in Publisher \ {p} : pub'[q] = pub[q]
        /\ dropped' = dropped \cup Drops(pub[p])
    BY <1>1, DrainStopsIs DEF server_vars, file_vars
  <2>2. p = o /\ NoEntry \notin Message /\ HoldingOK(pub[p]) /\ pub[p] \in Record
    BY <2>1, AwakeIs, TextIs DEF ShapeOK, TypesOK
  <2>3. ASSUME NEW m \in Message, Holds(pub[p], m) PROVE m \in dropped' \/ Lives(m)'
    <3>1. CASE m \in Drops(pub[p])
      BY <2>1, <3>1
    <3>2. CASE m \notin Drops(pub[p])
      <4>1. m = pub[p].entry /\ pub[p].stage # "staged"
        BY <2>3, <3>2 DEF Holds, Drops
      <4>2. pub[p].stage \in {"recorded", "sent"}
        BY <2>2, <4>1 DEF HoldingOK, WriteOK, Record, Stage
      <4>3. Engaged(pub[o])
        BY <2>2, <4>2, EngagedIs
      <4>4. path = Snapshot(pub[p])
        BY <2>2, <4>2, <4>3 DEF Alone, Sound, StandsWhereItSays
      <4>5. path'.entry = m
        BY <2>1, <4>1, <4>4 DEF Snapshot
      <4> QED
        BY <4>5 DEF Lives
    <3> QED
      BY <3>1, <3>2
  <2>4. ASSUME NEW q \in Publisher \ {p}, NEW m \in Message, Holds(pub[q], m) PROVE Lives(m)'
    BY <2>1, <2>4, HeldLives
  <2>5. \A m \in Message : m = path.entry => Lives(m)'
    BY <2>1 DEF Lives
  <2> HIDE DEF p
  <2> QED
    BY <2>1, <2>3, <2>4, <2>5, KeepsIs
<1>2. ASSUME NEW t \in Other, OtherOpens(t)
      PROVE  Keeps /\ dropped \subseteq dropped' /\ UNCHANGED <<accepted, crashes>>
  <2>1. UNCHANGED <<accepted, crashes, dropped, path, feed>>
    BY <1>2, OtherOpensIs DEF file_vars, log_vars
  <2>2. \A m \in Message : m = path.entry => Lives(m)'
    BY <2>1 DEF Lives
  <2>3. ASSUME NEW q \in Publisher PROVE \A m \in Message : Holds(pub[q], m) => Lives(m)'
    <3>1. CASE pub'[q] = pub[q]
      BY <3>1, HeldLives
    <3>2. CASE pub'[q] # pub[q]
      <4>1. pub[q].queue = <<>> /\ pub[q].entry = NoEntry
        BY <1>2, <3>2, OtherOpensIs
      <4> QED
        BY <4>1, TextIs DEF Holds
    <3> QED
      BY <3>1, <3>2
  <2> QED
    BY <2>1, <2>2, <2>3, KeepsIs
<1> QED
  BY <1>1, <1>2

\* A start changes no file, and an end that is no kill only forgets what is stopped.
LEMMA KeepsStarts ==
  ASSUME ShapeOK, ShapeOK', DownOK, Start \/ Exit \/ Refuses
  PROVE  Keeps /\ UNCHANGED <<accepted, dropped, crashes>>
<1>1. /\ UNCHANGED <<accepted, dropped, crashes, path, feed>>
      /\ \A q \in Publisher : pub[q].stopped \/ pub'[q] = pub[q]
  <2>1. Blank.stopped
    BY DEF Blank
  <2>2. CASE Start
    <3>1. \A q \in Publisher : pub[q] = Blank
      BY <2>2 DEF Start, DownOK
    <3> QED
      BY <2>1, <2>2, <3>1 DEF Start, file_vars, log_vars
  <2>3. CASE Exit
    <3>1. ASSUME NEW q \in Publisher PROVE pub[q].stopped
      <4>1. HoldingOK(pub[q]) /\ (pub[q].evicted \/ (q = current /\ pub[q].drained))
        BY <2>3, ConstantsAssumption DEF Exit, ShapeOK, OwnersOK
      <4> QED
        BY <4>1 DEF HoldingOK, EvictedOK, StoppedOK
    <3> QED
      BY <2>3, <3>1 DEF Exit, ProcessEnds, log_vars
  <2>4. CASE Refuses
    <3>1. /\ UNCHANGED <<accepted, dropped, crashes, path, feed>> /\ pub[current'] = Blank
          /\ \A q \in Publisher \ {current'} : pub'[q] = pub[q]
      BY <2>4, RefusesIs DEF file_vars
    <3> QED
      BY <2>1, <3>1
  <2> QED
    BY <2>2, <2>3, <2>4
<1>2. \A q \in Publisher : pub[q].stopped \/ SameKept(pub[q], pub'[q])
  BY <1>1 DEF SameKept
<1> QED
  BY <1>1, <1>2, KeepsSame

\* A message taken is held, or dropped at once.
LEMMA AccountedTakes ==
  ASSUME ShapeOK, ShapeOK', Accounted, Takes
  PROVE  Accounted'
<1>1. /\ UNCHANGED <<crashes, path, feed, dropped>> /\ accepted' = accepted + 1 /\ accepted' \in Message
      /\ current' \in Publisher /\ \A q \in Publisher \ {current'} : pub'[q] = pub[q]
      /\ pub'[current'].queue = Append(pub[current'].queue, accepted')
      /\ pub'[current'].entry = pub[current'].entry /\ ~pub'[current'].stopped
  BY TakesIs DEF file_vars
<1>2. PICK p \in Publisher : p = current'
  BY <1>1
<1> PICK new \in Message : new = accepted'
  BY <1>1
<1>3. pub[p].queue \in Seq(Message)
  BY OnlyCurrent
<1>4. ASSUME NEW m \in Message, Holds(pub[p], m) PROVE Holds(pub'[p], m)
  <2>1. CASE m = pub[p].entry
    BY <1>1, <1>2, <2>1 DEF Holds
  <2>2. CASE \E i \in DOMAIN pub[p].queue : m = pub[p].queue[i]
    <3>1. PICK i \in DOMAIN pub[p].queue : m = pub[p].queue[i]
      BY <2>2
    <3>2. i \in DOMAIN Append(pub[p].queue, new) /\ Append(pub[p].queue, new)[i] = m
      BY <1>3, <3>1
    <3> QED
      BY <1>1, <1>2, <3>2 DEF Holds
  <2> QED
    BY <1>4, <2>1, <2>2 DEF Holds
<1>5. Keeps
  <2>1. \A q \in Publisher : \A m \in Message : Holds(pub[q], m) => Lives(m)'
    BY <1>1, <1>2, <1>4, HeldLives
  <2>2. \A m \in Message : m = path.entry => Lives(m)'
    BY <1>1 DEF Lives
  <2> QED
    BY <1>1, <2>1, <2>2, KeepsIs
<1>6. Lives(new)'
  <2>1. /\ Len(pub[p].queue) + 1 \in DOMAIN Append(pub[p].queue, new)
        /\ Append(pub[p].queue, new)[Len(pub[p].queue) + 1] = new
    BY <1>3
  <2>2. Holds(pub'[p], new)
    BY <1>1, <1>2, <2>1 DEF Holds
  <2> QED
    BY <1>2, <2>2 DEF Lives, Holds
<1>7. ~overlap' => ~overlap
  <2>1. [Next]_vars
    BY DEF Next
  <2> QED
    BY <2>1, OverlapStays
<1> SUFFICES ASSUME crashes' = 0, ~overlap', NEW m \in 1 .. accepted' PROVE m \in dropped' \/ Lives(m)'
  BY DEF Accounted
<1>8. CASE m = new
  BY <1>6, <1>8
<1>9. CASE m # new
  <2>1. m \in 1 .. accepted /\ m \in Message
    BY <1>1, <1>9, PlacedIs, ConstantsAssumption DEF PlacedOK, Message
  <2>2. m \in dropped \/ Lives(m)
    BY <1>1, <1>7, <2>1 DEF Accounted
  <2> QED
    BY <1>1, <1>5, <2>1, <2>2 DEF Keeps
<1> QED
  BY <1>8, <1>9

\* There is nothing to account for at first,
LEMMA AccountedInit == Init => Accounted
BY DEF Init, Accounted

\* and every step accounts for what it touches.
LEMMA AccountedStep ==
  ASSUME ShapeOK, ShapeOK', DownOK, NumbersOK, AloneOK, Accounted, [Next]_vars
  PROVE  Accounted'
<1>1. CASE Takes
  BY <1>1, AccountedTakes
<1>2. SUFFICES ASSUME ~Takes, ~Crash, ~overlap
               PROVE  Keeps /\ dropped \subseteq dropped' /\ UNCHANGED <<accepted, crashes>>
  <2>1. CASE Crash
    <3>1. UNCHANGED <<accepted, dropped>> /\ crashes' # 0
      BY <2>1 DEF Crash, ProcessEnds, log_vars, ShapeOK, TypesOK, WorldOK
    <3> QED
      BY <3>1, AccountedMoves
  <2>2. CASE overlap
    <3>1. overlap'
      BY <2>2, OverlapStays
    <3> QED
      BY <3>1 DEF Accounted
  <2> QED
    BY <1>1, <1>2, <2>1, <2>2, AccountedMoves
<1>3. PICK o \in Publisher : Alone(o)
  BY <1>2 DEF AloneOK
<1>4. CASE Start \/ Exit \/ Refuses
  BY <1>4, KeepsStarts
<1>5. CASE DrainStops \/ \E t \in Other : OtherOpens(t)
  BY <1>3, <1>5, KeepsStops
<1>6. CASE Stop \/ Drained \/ ReleasesLock \/ Tick \/ UNCHANGED vars
  BY <1>6, KeepsCalm
<1>7. ASSUME NEW p \in Publisher,
             Reads(p) \/ GivesUp(p) \/ ResumeFails(p) \/ SaveEnds(p) \/ OpensTemporary(p) \/ WriteFails(p)
      PROVE  Keeps /\ dropped \subseteq dropped' /\ UNCHANGED <<accepted, crashes>>
  BY <1>7, KeepsCalm
<1>8. ASSUME NEW p \in Publisher, Resumes(p) \/ Stages(p) \/ Sends(p) \/ Answered(p) \/ WritesFile(p) \/ Renames(p)
      PROVE  Keeps /\ dropped \subseteq dropped' /\ UNCHANGED <<accepted, crashes>>
  BY <1>3, <1>8, KeepsResumes, KeepsStages, KeepsSends, KeepsWrites
<1> QED
  BY <1>2, <1>4, <1>5, <1>6, <1>7, <1>8 DEF Next

\* The inductive invariant holds at first,
LEMMA InductiveInit == Init => IInv
BY ShapeInit, DownInit, NumbersInit, MessagesInit, AloneInit, WrittenInit, AccountedInit DEF IInv

\* and every step keeps it.
LEMMA InductiveStep ==
  ASSUME IInv, [Next]_vars
  PROVE  IInv'
<1>1. ShapeOK' /\ DownOK'
  BY ShapeStep, DownStep DEF IInv
<1> QED
  BY <1>1, NumbersStep, MessagesStep, AloneStep, WrittenStep, AccountedStep DEF IInv

(* Until the process is killed every accepted message is published, recorded, held or was reported as dropped, and one
   reported as dropped is never published unless a checkpoint write had it or was about to. *)
THEOREM NothingIsLost == Spec => []AccountedFor
<1>1. IInv => AccountedFor
  <2>1. ASSUME MessagesOK, NEW m \in dropped \ doubt, NEW s \in Slot PROVE m \notin feed[s]
    BY <2>1 DEF MessagesOK, DroppedOK, Present, Fed
  <2> QED
    BY <2>1 DEF IInv, Accounted, AccountedFor
<1> QED
  BY <1>1, InductiveInit, InductiveStep, PTL DEF Spec

=============================================================================
