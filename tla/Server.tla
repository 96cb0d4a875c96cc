-------------------------------- MODULE Server --------------------------------
(***************************************************************************)
(* The server's chats (src/server.ts): publishers opened on a chat's first *)
(* message, evicted when quiet to stay within the cap and drained at a     *)
(* shutdown, and the checkpoint file (src/checkpoint.ts) they leave to the *)
(* next publisher of the same chat.                                        *)
(*                                                                         *)
(* One chat is modelled in detail, with every publisher it had that still  *)
(* does something. A publisher is what ChatPublisher describes, with one   *)
(* slot in flight. Of the other chats it is told whether they are open.    *)
(***************************************************************************)
EXTENDS Integers, FiniteSets, Sequences

CONSTANTS
  Chat,        \* the chat modelled in detail
  Other,       \* the other topics
  Listed,      \* allowedChats.topics, the rest match the pattern
  MaxActive,   \* allowedChats.maxActive
  IdleEvict,   \* chatIdleEvictMs, in ticks
  Publisher,   \* bound: the chat's publishers that may be alive at a time
  None,
  MaxMessages, \* bound: the messages accepted in the chat
  MaxEvictions,\* bound: how often it is evicted
  MaxCrashes,  \* bound: how often the process is killed
  MaxBoots     \* bound: how often it is started

Topic == {Chat} \cup Other

ASSUME ConstantsAssumption ==
  /\ IsFiniteSet(Other) /\ Chat \notin Other /\ Listed \subseteq Topic
  /\ IsFiniteSet(Publisher) /\ Publisher # {} /\ None \notin Publisher
  /\ MaxActive \in Nat \ {0} /\ IdleEvict \in Nat \ {0}
  /\ MaxMessages \in Nat \ {0} /\ MaxEvictions \in Nat /\ MaxCrashes \in Nat /\ MaxBoots \in Nat \ {0}

VARIABLES
  server,    \* "down", "up", "draining" once stop() is called, "released" once the lock is
  current,   \* the chat's publisher in chats, or None
  pub,       \* what each publisher of the chat holds
  others,    \* the other chats that are open
  path,      \* the content of the chat's checkpoint file
  temp,      \* and of its temporary file
  feed,      \* the messages ever sent to each slot
  accepted,  \* how many messages were accepted, which are numbered
  dropped,   \* those that were reported as dropped
  doubt,     \* those of them that a checkpoint write recorded or was recording
  overlap,   \* a publisher was opened while an evicted one still recorded
  evictions, \* how often the chat was evicted
  boots, crashes

server_vars == <<server, current, others, evictions, boots, crashes>>
file_vars   == <<path, temp>>
log_vars    == <<feed, accepted, dropped, doubt, overlap>>
vars == <<server_vars, pub, file_vars, log_vars>>

Message    == 1 .. MaxMessages
Slot       == 0 .. MaxMessages - 1
NoEntry    == 0
Checkpoint == [index : -1 .. MaxMessages - 1, entry : Message \cup {NoEntry}]
Absent     == [index |-> -2, entry |-> NoEntry]
Half       == [index |-> -3, entry |-> NoEntry]
Content    == Checkpoint \cup {Absent, Half}

(* state    stateValue
   loop     whether run() is to read the checkpoint, resumes from what it read, or is past that
   read     the checkpoint it read
   stopped  stop() was called, evicted by makeRoomForPatternChat(), drained that drain() returned
   refused  its checkpoint was whole, but resume() refused the rows in it
   late     it became ready after it was stopped
   queue, index, entry: the queue, confirmedIndex and the entry in flight
   stage    how far that entry is: staged, recorded in the checkpoint, or sent
   tip      tipConfirmed
   chain    who waits for a checkpoint write, the running one first
   io       what that write did last, file what its handle leads to by now and text what it writes
   saving   a history save runs
   quiet    the ticks since lastActivityAt, up to IdleEvict *)
Opened ==
  [state |-> "resuming", loop |-> "reads", read |-> Absent,
   stopped |-> FALSE, evicted |-> FALSE, drained |-> FALSE, late |-> FALSE,
   refused |-> FALSE, queue |-> <<>>, index |-> -1, entry |-> NoEntry, stage |-> "none", tip |-> FALSE,
   chain |-> <<>>, io |-> "none", file |-> "none", text |-> Absent, saving |-> FALSE, quiet |-> 0]

\* No publisher: never opened, or evicted and done.
Blank == [Opened EXCEPT !.loop = "done", !.state = "stopped", !.stopped = TRUE, !.evicted = TRUE]

Init ==
  /\ server = "down" /\ current = None /\ pub = [p \in Publisher |-> Blank]
  /\ others = {}
  /\ path = Absent /\ temp = Absent /\ feed = [s \in Slot |-> {}]
  /\ accepted = 0 /\ dropped = {} /\ doubt = {} /\ overlap = FALSE /\ evictions = 0 /\ boots = 0 /\ crashes = 0

\* Whether something of a publisher still runs. Nothing else keeps one that was evicted.
Runs(r) == r.chain # <<>> \/ r.saving \/ r.stage = "sent"

Kept(r) == IF r.evicted /\ ~Runs(r) THEN Blank ELSE r

Becomes(p, r) == pub' = [pub EXCEPT ![p] = Kept(r)]

Awaits(r, who) == [r EXCEPT !.chain = Append(@, who)]

-----------------------------------------------------------------------------
(* chatFor() and makeRoomForPatternChat() *)

Idle_WithoutPending(r) == r.state \in {"ready", "blocked"} /\ r.queue = <<>> /\ ~r.saving

\* idleSince(): whether the publisher holds no work.
Idle(r) == r.state \in {"ready", "blocked"} /\ r.queue = <<>> /\ r.entry = NoEntry /\ ~r.saving

\* The open chats that the cap counts.
Pattern == (others \cup {t \in {Chat} : current # None}) \ Listed

\* Another chat is taken for quiet whenever one is looked for.
Quiet(t) == t = Chat => Idle(pub[current]) /\ pub[current].quiet = IdleEvict

\* Whom opening a chat may evict: nobody, or a quiet one. With no set to choose from the chat is refused.
Room(t) ==
  IF t \in Listed \/ Cardinality(Pattern) < MaxActive THEN {{}} ELSE {{u} : u \in {v \in Pattern : Quiet(v)}}

Drops_QueueOnly(r) == {r.queue[i] : i \in DOMAIN r.queue}

\* stop(): what is not recorded is dropped.
Drops(r) == {r.queue[i] : i \in DOMAIN r.queue} \cup (IF r.stage = "staged" THEN {r.entry} ELSE {})

\* A write that ran before its own turn may have recorded it, or is about to.
InDoubt(r) == IF r.stage = "staged" THEN {r.entry} \cap {r.text.entry, path.entry} ELSE {}

Stopped(r) ==
  LET unrecorded == r.stage = "staged" IN
  [r EXCEPT !.stopped = TRUE, !.state = IF @ = "blocked" THEN @ ELSE "stopped", !.queue = <<>>,
            !.entry = IF unrecorded THEN NoEntry ELSE @, !.stage = IF unrecorded THEN "none" ELSE @]

Offered(r, m) == [r EXCEPT !.queue = Append(@, m), !.quiet = 0]

Opens(r) ==
  /\ \E p \in Publisher : pub[p] = Blank
  /\ LET new == CHOOSE p \in Publisher : pub[p] = Blank IN current' = new /\ pub' = [pub EXCEPT ![new] = r]
  /\ overlap' = (overlap \/ \E p \in Publisher : pub[p].chain # <<>>)
  /\ \E gone \in Room(Chat) : others' = others \ gone

\* A frame whose message is taken, opening the chat if need be.
Takes ==
  /\ server = "up" /\ accepted < MaxMessages
  /\ accepted' = accepted + 1
  /\ \/ current = None /\ Opens(Offered(Opened, accepted + 1))
     \/ /\ current # None /\ pub[current].state \in {"resuming", "ready"}
        /\ Becomes(current, Offered(pub[current], accepted + 1))
        /\ UNCHANGED <<current, others, overlap>>
  /\ UNCHANGED <<server, evictions, boots, crashes, file_vars, feed, dropped, doubt>>

\* A frame that opens the chat, and is then refused by its rates.
Refuses ==
  /\ server = "up" /\ current = None /\ Opens(Opened)
  /\ UNCHANGED <<server, evictions, boots, crashes, file_vars, feed, accepted, dropped, doubt>>

\* A frame that opens another chat.
OtherOpens(t) ==
  /\ server = "up" /\ t \notin others
  /\ \E gone \in Room(t) :
       /\ others' = (others \ gone) \cup {t}
       /\ IF Chat \in gone
            THEN /\ evictions < MaxEvictions /\ evictions' = evictions + 1
                 /\ current' = None
                 /\ dropped' = dropped \cup Drops(pub[current]) /\ doubt' = doubt \cup InDoubt(pub[current])
                 /\ Becomes(current, [Stopped(pub[current]) EXCEPT !.evicted = TRUE])
            ELSE UNCHANGED <<current, evictions, pub, dropped, doubt>>
  /\ UNCHANGED <<server, boots, crashes, file_vars, feed, accepted, overlap>>

-----------------------------------------------------------------------------
(* resume() *)

Block(p, r) ==
  /\ dropped' = dropped \cup {r.queue[i] : i \in DOMAIN r.queue} \cup ({r.entry} \ {NoEntry})
  /\ doubt' = doubt \cup ({r.entry} \ {NoEntry})
  /\ Becomes(p, [r EXCEPT !.state = "blocked", !.loop = "done", !.queue = <<>>, !.entry = NoEntry, !.stage = "none"])

\* checkpoints.read(), at some moment between the other publisher's steps. A stop does not end one that was begun.
Reads(p) ==
  /\ pub[p].loop = "reads"
  /\ Becomes(p, [pub[p] EXCEPT !.loop = "resumes", !.read = path])
  /\ UNCHANGED <<server_vars, file_vars, log_vars>>

\* A history file or the feed could not be read. The next attempt reads the checkpoint again.
ResumeFails(p) ==
  /\ pub[p].loop = "resumes" /\ pub[p].read # Half
  /\ Becomes(p, [pub[p] EXCEPT !.loop = "reads", !.read = Absent])
  /\ UNCHANGED <<server_vars, file_vars, log_vars>>

\* The loop ends after the attempt that failed before the stop.
GivesUp(p) ==
  /\ pub[p].loop = "reads" /\ pub[p].stopped
  /\ Becomes(p, [pub[p] EXCEPT !.loop = "done"])
  /\ UNCHANGED <<server_vars, file_vars, log_vars>>

LastWritten == Cardinality({s \in Slot : feed[s] # {}}) - 1

Ready_WithoutPending(r, saving) ==
  LET new == r.read = Absent
      at  == [r EXCEPT !.state = "ready", !.loop = "done", !.read = Absent, !.tip = FALSE, !.late = r.stopped,
                       !.index = IF new THEN LastWritten ELSE r.read.index]
  IN IF new THEN Awaits(at, "first") ELSE [at EXCEPT !.saving = saving]

\* enterReady(), which does not look at stopped. Rows no history file holds yet ask for a save.
Ready(r, saving) ==
  LET new == r.read = Absent
      at  == [r EXCEPT !.state = "ready", !.loop = "done", !.read = Absent, !.tip = FALSE, !.late = r.stopped,
                       !.index = IF new THEN LastWritten ELSE r.read.index,
                       !.entry = r.read.entry, !.stage = IF r.read.entry = NoEntry THEN "none" ELSE "recorded"]
  IN IF new THEN Awaits(at, "first") ELSE [at EXCEPT !.saving = saving]

\* resumeFromCheckpoint() asks whether the rows in a checkpoint run on from its history file to its index. The rows are
\* not modelled here: any checkpoint of two slots or more may turn out to have a gap, which is more than HistoryBook finds.
MayLackRows(checkpoint) == checkpoint.index >= 1

Resumes(p) ==
  /\ pub[p].loop = "resumes"
  /\ \/ /\ pub[p].read = Half \/ MayLackRows(pub[p].read)
        /\ Block(p, [pub[p] EXCEPT !.read = Absent, !.refused = (pub[p].read # Half)])
     \/ /\ pub[p].read # Half
        /\ \E saving \in BOOLEAN : Becomes(p, Ready(pub[p], saving))
        /\ UNCHANGED <<dropped, doubt>>
  /\ UNCHANGED <<server_vars, file_vars, feed, accepted, overlap>>

-----------------------------------------------------------------------------
(* Publishing, as ChatPublisher has it in detail *)

Stages(p) ==
  LET r == pub[p] IN
  /\ r.state = "ready" /\ r.loop = "done" /\ ~r.stopped
  /\ r.entry = NoEntry /\ r.queue # <<>>
  /\ Becomes(p, Awaits([r EXCEPT !.queue = Tail(@), !.entry = Head(r.queue), !.stage = "staged"], "record"))
  /\ UNCHANGED <<server_vars, file_vars, log_vars>>

\* landed() up to its checkpoint write.
Lands(r) ==
  Awaits([r EXCEPT !.index = @ + 1, !.entry = NoEntry, !.stage = "none", !.tip = TRUE, !.quiet = 0], "confirm")

\* deliver(): the slot is read unless tipConfirmed, and written if it is empty.
Sends(p) ==
  LET r == pub[p]
      s == r.index + 1
      held == feed[s]
  IN
  /\ r.stage = "recorded" /\ r.state = "ready" /\ ~r.stopped
  /\ \/ /\ r.tip \/ held = {}
        /\ feed' = [feed EXCEPT ![s] = @ \cup {r.entry}]
        /\ Becomes(p, [r EXCEPT !.stage = "sent"])
        /\ UNCHANGED <<dropped, doubt>>
     \/ ~r.tip /\ r.entry \in held /\ Becomes(p, Lands(r)) /\ UNCHANGED <<feed, dropped, doubt>>
     \/ ~r.tip /\ held \ {r.entry} # {} /\ Block(p, r) /\ UNCHANGED feed
  /\ UNCHANGED <<server_vars, file_vars, accepted, overlap>>

\* The answer to a write, which a stop does not keep from landing.
Answered(p) ==
  /\ pub[p].stage = "sent"
  /\ Becomes(p, Lands(pub[p]))
  /\ UNCHANGED <<server_vars, file_vars, log_vars>>

\* A history save ends, and is recorded unless it failed. One that follows it is part of it here.
SaveEnds(p) ==
  LET r == pub[p]
      ended == [r EXCEPT !.saving = FALSE]
  IN
  /\ r.saving
  /\ Becomes(p, ended) \/ (r.state = "ready" /\ Becomes(p, Awaits(ended, "history")))
  /\ UNCHANGED <<server_vars, file_vars, log_vars>>

-----------------------------------------------------------------------------
(* CheckpointStore.write() *)

\* The publisher goes on after a checkpoint write.
Ended(r, ok) ==
  LET next == [r EXCEPT !.chain = Tail(@), !.io = "none", !.file = "none", !.text = Absent] IN
  CASE Head(r.chain) = "record" /\ r.stage = "staged" ->
         IF ok THEN [next EXCEPT !.stage = "recorded"] ELSE Awaits(next, "record")
    [] Head(r.chain) = "confirm" \/ (Head(r.chain) = "first" /\ r.index >= 0) -> [next EXCEPT !.saving = TRUE]
    [] OTHER -> next

\* open(temporary, 'w') empties the file that is there, another write's as well.
OpensTemporary(p) ==
  LET r == pub[p] IN
  /\ r.chain # <<>> /\ r.io = "none"
  /\ temp' = Half
  /\ Becomes(p, [r EXCEPT !.io = "opened", !.file = "temp", !.text = [index |-> r.index, entry |-> r.entry]])
  /\ UNCHANGED <<server_vars, path, log_vars>>

\* What two writes to one file leave may also be a text followed by the rest of a longer one.
Texts(p) ==
  {pub[p].text} \cup
  {c \in {Half} : \E q \in Publisher \ {p} : pub[q].io = "written" /\ pub[q].file = pub[p].file}

\* writeFile() and sync(), to wherever the file opened is by now.
WritesFile(p) ==
  LET r == pub[p] IN
  /\ r.io = "opened"
  /\ \E text \in Texts(p) :
       /\ path' = IF r.file = "path" THEN text ELSE path
       /\ temp' = IF r.file = "temp" THEN text ELSE temp
  /\ Becomes(p, [r EXCEPT !.io = "written"])
  /\ UNCHANGED <<server_vars, log_vars>>

\* The disk is full, or another write renamed the temporary file.
WriteFails(p) ==
  /\ pub[p].io = "opened" \/ (pub[p].io = "written" /\ temp = Absent)
  /\ Becomes(p, Ended(pub[p], FALSE))
  /\ UNCHANGED <<server_vars, file_vars, log_vars>>

\* Where the file that a handle leads to is, after the temporary file was renamed over the checkpoint.
Moved(r) == [r EXCEPT !.file = CASE @ = "temp" -> "path" [] @ = "path" -> "gone" [] OTHER -> @]

\* rename(), of whatever is the temporary file by now. The folder's sync that follows may still fail.
Renames(p) ==
  /\ pub[p].io = "written" /\ temp # Absent
  /\ path' = temp /\ temp' = Absent
  /\ \E ok \in BOOLEAN : pub' = [q \in Publisher |-> IF q = p THEN Kept(Ended(pub[p], ok)) ELSE Moved(pub[q])]
  /\ UNCHANGED <<server_vars, log_vars>>

-----------------------------------------------------------------------------
(* start(), stop() and the process *)

Start ==
  /\ server = "down" /\ boots < MaxBoots
  /\ server' = "up" /\ boots' = boots + 1
  /\ others' = Other \cap Listed
  /\ IF Chat \in Listed
       THEN \E p \in Publisher : current' = p /\ pub' = [pub EXCEPT ![p] = Opened]
       ELSE UNCHANGED <<current, pub>>
  /\ UNCHANGED <<evictions, crashes, file_vars, log_vars>>

\* stop() of the server, on a signal. From here no frame is received and nothing is evicted, so nobody asks for quiet chats.
Stop ==
  /\ server = "up"
  /\ server' = "draining"
  /\ others' = {}
  /\ pub' = [p \in Publisher |-> [pub[p] EXCEPT !.quiet = 0]]
  /\ UNCHANGED <<current, evictions, boots, crashes, file_vars, log_vars>>

\* drain() of the chat has nothing left to publish or is at its deadline.
DrainStops ==
  /\ server = "draining" /\ current # None /\ ~pub[current].stopped
  /\ dropped' = dropped \cup Drops(pub[current]) /\ doubt' = doubt \cup InDoubt(pub[current])
  /\ Becomes(current, Stopped(pub[current]))
  /\ UNCHANGED <<server_vars, file_vars, feed, accepted, overlap>>

Settled_WithoutWrites(r) == r.stopped /\ r.loop = "done" /\ r.stage # "sent"

\* What drain() awaits before it returns: the loop, the deliveries and the checkpoint writes.
Settled(r) == r.stopped /\ r.loop = "done" /\ r.stage # "sent" /\ r.chain = <<>>

Drained ==
  /\ server = "draining" /\ current # None /\ ~pub[current].drained /\ Settled(pub[current])
  /\ Becomes(current, [pub[current] EXCEPT !.drained = TRUE])
  /\ UNCHANGED <<server_vars, file_vars, log_vars>>

\* The drains have returned. Evicted publishers are not in chats any more.
ReleasesLock ==
  /\ server = "draining" /\ (current # None => pub[current].drained)
  /\ server' = "released"
  /\ UNCHANGED <<current, others, evictions, boots, crashes, pub, file_vars, log_vars>>

\* A temporary file that is left is emptied by the next write, as if it were absent.
ProcessEnds ==
  /\ server' = "down" /\ current' = None /\ pub' = [p \in Publisher |-> Blank]
  /\ others' = {}
  /\ temp' = Absent
  /\ UNCHANGED <<evictions, boots, path, log_vars>>

Exit == server = "released" /\ ProcessEnds /\ UNCHANGED crashes

\* A kill, or fail() when the lock is lost: onFatal exits at once.
Crash == server # "down" /\ crashes < MaxCrashes /\ ProcessEnds /\ crashes' = crashes + 1

Tick ==
  /\ server = "up" /\ current # None /\ pub[current].quiet < IdleEvict
  /\ pub' = [pub EXCEPT ![current].quiet = @ + 1]
  /\ UNCHANGED <<server_vars, file_vars, log_vars>>

Next ==
  \/ Start \/ Stop \/ DrainStops \/ Drained \/ ReleasesLock \/ Exit \/ Crash \/ Tick
  \/ Takes \/ Refuses
  \/ \E t \in Other : OtherOpens(t)
  \/ \E p \in Publisher :
       \/ Reads(p) \/ GivesUp(p) \/ ResumeFails(p) \/ Resumes(p)
       \/ Stages(p) \/ Sends(p) \/ Answered(p) \/ SaveEnds(p)
       \/ OpensTemporary(p) \/ WritesFile(p) \/ WriteFails(p) \/ Renames(p)

Spec == Init /\ [][Next]_vars

-----------------------------------------------------------------------------
(* Properties *)

Reason == {"first", "record", "confirm", "history"}

Holding ==
  [state : {"resuming", "ready", "blocked", "stopped"}, loop : {"reads", "resumes", "done"}, read : Content,
   stopped : BOOLEAN, evicted : BOOLEAN, drained : BOOLEAN, late : BOOLEAN,
   refused : BOOLEAN, queue : Seq(Message), index : -1 .. MaxMessages - 1, entry : Message \cup {NoEntry},
   stage : {"none", "staged", "recorded", "sent"}, tip : BOOLEAN,
   chain : Seq(Reason), io : {"none", "opened", "written"}, file : {"none", "temp", "path", "gone"},
   text : Content, saving : BOOLEAN, quiet : 0 .. IdleEvict]

\* Every variable holds a value of its type.
TypeOK ==
  /\ server \in {"down", "up", "draining", "released"}
  /\ current \in Publisher \cup {None} /\ pub \in [Publisher -> Holding]
  /\ others \subseteq Other
  /\ path \in Content /\ temp \in Content /\ feed \in [Slot -> SUBSET Message]
  /\ accepted \in 0 .. MaxMessages /\ dropped \subseteq Message /\ doubt \subseteq dropped /\ overlap \in BOOLEAN
  /\ evictions \in 0 .. MaxEvictions /\ boots \in 0 .. MaxBoots /\ crashes \in 0 .. MaxCrashes

(* server.ts: "An evicted chat resumes from its checkpoint on its next message." Whoever publishes the chat takes no slot
   for published that holds nothing, whatever of its predecessors was killed, evicted or could not be recorded, and also
   when one of them still recorded as it was opened: a late write may put the checkpoint back, never ahead of the feed.
   Unless two publishers of the chat overlapped like that, it stands exactly where the feed does: no slot after the ones
   it takes for published was ever sent an entry, except its own entry's. After an overlap it may stand behind it. *)
ContinuesWhereItStood ==
  \A p \in Publisher : pub[p].state = "ready" /\ ~pub[p].stopped =>
    \A s \in Slot :
      /\ s <= pub[p].index => feed[s] # {}
      /\ s > pub[p].index /\ ~overlap => feed[s] \subseteq (IF s = pub[p].index + 1 THEN {pub[p].entry} ELSE {})

\* A message is published, recorded, or held by the publisher that is not stopped.
Lives(m) ==
  \/ m = path.entry \/ \E s \in Slot : m \in feed[s]
  \/ \E p \in Publisher : ~pub[p].stopped /\ (m = pub[p].entry \/ \E i \in DOMAIN pub[p].queue : m = pub[p].queue[i])

(* "Only a chat with nothing to lose may be evicted" (chat.ts), and the dead letters of a stop are complete and true.
   Until the process is killed, every message accepted lives or was reported as dropped. The exception is a chat whose
   publisher was opened while an evicted one still recorded: the late write replaces the checkpoint that held the entry
   in flight, and a stop that leaves it to the checkpoint loses it unreported. With an overlap or not, a message
   reported as dropped is published by no later publisher, unless a checkpoint write had recorded it already, or was
   about to: stop() asks only whether its own record is done. *)
AccountedFor ==
  /\ crashes = 0 /\ ~overlap => \A m \in 1 .. accepted : m \in dropped \/ Lives(m)
  /\ \A m \in dropped \ doubt : \A s \in Slot : m \notin feed[s]

(* The lock covers the checkpoint: once it is released nothing is being recorded, except by a publisher that was evicted,
   which stop() does not know any more, or one that resumed after its own stop. *)
LockCoversRecords ==
  server = "released" => \A p \in Publisher : pub[p].chain # <<>> => pub[p].evicted \/ pub[p].late

(* The checkpoint file is whole, and what the chat's own publishers left never blocks it by a file half written or a slot
   that holds another entry, unless one of them was opened while the last write of an evicted one still ran. Whole as it
   is, the file may lack rows, and then resume() refuses it and blocks the chat, overlapped or not. *)
WholeUnlessOverlapped ==
  /\ TypeOK
  /\ path = Half => overlap
  /\ \A p \in Publisher : pub[p].state = "blocked" => overlap \/ pub[p].refused
=============================================================================
