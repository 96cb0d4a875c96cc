-------------------------------- MODULE Intake --------------------------------
(***************************************************************************)
(* What a chat takes (src/intake.ts): the duplicate check against what the *)
(* chat's publisher knows (isDuplicate() of src/chat.ts, over              *)
(* src/utils/recentIds.ts) and the rates (src/rate.ts). The publisher      *)
(* comes and goes, with its ids. The rates stay until the process ends.    *)
(*                                                                         *)
(* One chat is modelled: no rate is shared by two. Frames that fail the    *)
(* checks before the chat is looked up change nothing, and are left out.   *)
(* Confirming and recording are single steps here, which ChatPublisher and *)
(* Server take apart.                                                      *)
(***************************************************************************)
EXTENDS Integers, FiniteSets, SequencesExt

CONSTANTS
  Sender,       \* addr
  Id,           \* the ids a sender uses
  TheChat,      \* the key of the chat's own rate
  PerSender,    \* rates.perSender
  PerChat,      \* rates.perChat
  Window,       \* rates.windowMs, in ticks
  QueueLimit,   \* queueLimit
  InFlight,     \* publishWindow
  RecentLimit,  \* RECENT_ID_LIMIT
  FileLimit,    \* maxMessages of a history file
  MaxTaken,     \* bound: the messages taken between two starts of the process
  MaxSlots,     \* bound: the messages queued and published
  MaxTime,      \* bound: the ticks between two starts
  MaxOpenings   \* bound: how often the chat is opened

Message == Sender \X Id
Key     == Sender \cup {TheChat}
Limit   == [k \in Key |-> IF k = TheChat THEN PerChat ELSE PerSender]

ASSUME ConstantsAssumption ==
  /\ TheChat \notin Sender
  /\ {PerSender, PerChat, Window, QueueLimit, InFlight, RecentLimit, FileLimit} \subseteq Nat \ {0}
  /\ {MaxTaken, MaxSlots, MaxTime, MaxOpenings} \subseteq Nat

VARIABLES
  now,       \* the time
  taken,     \* the messages taken since the process started, each with its time
  events,    \* for each rate, those of them it remembers
  state,     \* "closed" without a publisher, "resuming", "ready" or "blocked"
  queue,     \* the publisher's queue
  queued,    \* queuedIds
  recent,    \* publishedIds, each id as the newest slot it was given
  log,       \* what was given each slot, from 1 on
  confirmed, \* the slots published, the later ones are pending
  saved,     \* the slots published according to the checkpoint
  recorded,  \* those and the pending ones in it
  openings   \* what each publisher of the chat came to know of the log when it resumed

rate_vars == <<now, taken, events>>
disk_vars == <<saved, recorded>>
vars == <<rate_vars, state, queue, queued, recent, log, confirmed, disk_vars, openings>>

Init ==
  /\ now = 0 /\ taken = <<>> /\ events = [k \in Key |-> {}]
  /\ state = "closed" /\ queue = <<>> /\ queued = {} /\ recent = {}
  /\ log = <<>> /\ confirmed = 0 /\ saved = 0 /\ recorded = 0
  /\ openings = {}

-----------------------------------------------------------------------------
(* receive() *)

\* The events of a rate that are in the window.
Counts(k) == {i \in events[k] : taken[i].at > now - Window}

Fits(k) == Cardinality(Counts(k)) < Limit[k]

\* RecentIds.has(), of publishedIds.
Published(m) == \E s \in recent : log[s] = m

Duplicate(m) == m \in queued \/ Published(m)

\* offer()
Offered(m) == state # "blocked" /\ Len(queue) < QueueLimit

Admits(m) == ~Duplicate(m) /\ Fits(m[1]) /\ Fits(TheChat) /\ Offered(m)

\* chatFor(): the frame opens the chat, whatever comes of it.
Opened == state' = IF state = "closed" THEN "resuming" ELSE state

Takes(m) ==
  /\ Admits(m)
  /\ Len(taken) < MaxTaken /\ Len(log) + Len(queue) < MaxSlots
  /\ Opened
  /\ queue' = Append(queue, m) /\ queued' = queued \cup {m}
  /\ taken' = Append(taken, [key |-> m[1], at |-> now])
  /\ events' = [k \in Key |-> IF k \in {m[1], TheChat} THEN Counts(k) \cup {Len(taken) + 1} ELSE events[k]]
  /\ UNCHANGED <<now, recent, log, confirmed, disk_vars, openings>>

\* The rates it is held against forget what left the window.
Refuses(m) ==
  /\ ~Admits(m)
  /\ Opened
  /\ LET asked == (IF Duplicate(m) THEN {} ELSE {m[1]})
                    \cup (IF ~Duplicate(m) /\ Fits(m[1]) THEN {TheChat} ELSE {})
     IN events' = [k \in Key |-> IF k \in asked THEN Counts(k) ELSE events[k]]
  /\ UNCHANGED <<now, taken, queue, queued, recent, log, confirmed, disk_vars, openings>>

\* prune(): keys whose events have all left the window.
Prune ==
  /\ events' = [k \in Key |-> IF \A i \in events[k] : taken[i].at <= now - Window THEN {} ELSE events[k]]
  /\ UNCHANGED <<now, taken, state, queue, queued, recent, log, confirmed, disk_vars, openings>>

-----------------------------------------------------------------------------
(* The publisher, as far as it decides what a duplicate is *)

Oldest(slots) == CHOOSE s \in slots : \A t \in slots : s <= t

\* RecentIds.add(), of what a slot was given: the newest of them comes last, and the oldest is forgotten past the limit.
Remembers(rows, slots, s) ==
  LET with == {t \in slots : rows[t] # rows[s]} \cup {s}
  IN IF Cardinality(with) > RecentLimit THEN with \ {Oldest(with)} ELSE with

\* What is remembered of rows that are added one by one: of each the newest, and the newest of those.
Remembered(rows, first, last) ==
  {s \in first .. last : /\ \A t \in s + 1 .. last : rows[t] # rows[s]
                         /\ Cardinality({rows[t] : t \in s + 1 .. last}) < RecentLimit}

Pending == {log[s] : s \in saved + 1 .. recorded}

\* What it comes to know: the rows from one on, and which of the pending messages was taken again meanwhile.
Learns(first) == openings' = openings \cup {[from |-> first, until |-> recorded, again |-> ToSet(queue) \cap Pending]}

Resumes_WithoutPending ==
  /\ state = "resuming"
  /\ \E first \in 1 .. saved + 1 :
       /\ saved - first < FileLimit
       /\ recent' = Remembered(log, first, saved)
       /\ Learns(first)
  /\ state' = "ready"
  /\ UNCHANGED <<rate_vars, queue, queued, log, confirmed, disk_vars>>

\* enterReady(): the rows of the current history file, which may be any number of the last ones, are remembered and the
\* recorded entries are pending again. Without that file the rows after it are what is left.
Resumes ==
  /\ state = "resuming"
  /\ \E first \in 1 .. saved + 1 :
       /\ saved - first < FileLimit
       /\ recent' = Remembered(log, first, saved)
       /\ Learns(first)
  /\ queued' = queued \cup Pending
  /\ state' = "ready"
  /\ UNCHANGED <<rate_vars, queue, log, confirmed, disk_vars>>

\* stageFromQueue(), of one message.
Stages ==
  /\ state = "ready" /\ queue # <<>> /\ Len(log) - confirmed < InFlight
  /\ queue' = Tail(queue)
  /\ IF Published(Head(queue))
       THEN queued' = queued \ {Head(queue)} /\ UNCHANGED log
       ELSE log' = Append(log, Head(queue)) /\ UNCHANGED queued
  /\ UNCHANGED <<rate_vars, state, recent, confirmed, disk_vars, openings>>

\* landed(), of the next slot.
Confirms ==
  /\ state = "ready" /\ confirmed < recorded
  /\ confirmed' = confirmed + 1
  /\ recent' = Remembers(log, recent, confirmed + 1)
  /\ queued' = queued \ {log[confirmed + 1]}
  /\ UNCHANGED <<rate_vars, state, queue, log, disk_vars, openings>>

\* writeCheckpoint()
Records ==
  /\ state = "ready" /\ <<saved, recorded>> # <<confirmed, Len(log)>>
  /\ saved' = confirmed /\ recorded' = Len(log)
  /\ UNCHANGED <<rate_vars, state, queue, queued, recent, log, confirmed, openings>>

Blocks_KeepingIds ==
  /\ state = "ready" /\ confirmed < recorded
  /\ state' = "blocked"
  /\ queue' = <<>> /\ log' = SubSeq(log, 1, recorded)
  /\ UNCHANGED <<rate_vars, queued, recent, confirmed, disk_vars, openings>>

\* block(), when the slot of a pending entry holds another. What is recorded is tried again by the next publisher.
Blocks ==
  /\ state = "ready" /\ confirmed < recorded
  /\ state' = "blocked"
  /\ queue' = <<>> /\ queued' = {} /\ log' = SubSeq(log, 1, recorded)
  /\ UNCHANGED <<rate_vars, recent, confirmed, disk_vars, openings>>

\* The publisher and its ids are gone. Its successor goes by the checkpoint.
Gone ==
  /\ Cardinality(openings) < MaxOpenings
  /\ state' = "closed" /\ queue' = <<>> /\ queued' = {} /\ recent' = {}
  /\ log' = SubSeq(log, 1, recorded) /\ confirmed' = saved
  /\ UNCHANGED <<disk_vars, openings>>

Evicts_WithItsRates ==
  /\ state \in {"ready", "blocked"} /\ queue = <<>>
  /\ state = "ready" => confirmed = Len(log)
  /\ Gone
  /\ events' = [k \in Key |-> {}] /\ UNCHANGED <<now, taken>>

\* makeRoomForPatternChat(), of a chat that holds no work.
Evicts ==
  /\ state \in {"ready", "blocked"} /\ queue = <<>>
  /\ state = "ready" => confirmed = Len(log)
  /\ Gone /\ UNCHANGED rate_vars

\* The process ends, by a stop or a kill, and starts again.
Restarts ==
  /\ Gone
  /\ now' = 0 /\ taken' = <<>> /\ events' = [k \in Key |-> {}]

Tick == now < MaxTime /\ now' = now + 1 /\ UNCHANGED <<taken, events, state, queue, queued, recent, log, confirmed, disk_vars, openings>>

Next ==
  \/ \E m \in Message : Takes(m) \/ Refuses(m)
  \/ Prune \/ Tick
  \/ Resumes \/ Stages \/ Confirms \/ Records \/ Blocks \/ Evicts \/ Restarts

Spec == Init /\ [][Next]_vars

-----------------------------------------------------------------------------
(* Properties *)

\* Every variable holds a value of its type.
TypeOK ==
  /\ now \in 0 .. MaxTime
  /\ taken \in Seq([key : Sender, at : 0 .. MaxTime])
  /\ events \in [Key -> SUBSET DOMAIN taken]
  /\ state \in {"closed", "resuming", "ready", "blocked"}
  /\ queue \in Seq(Message) /\ queued \subseteq Message /\ log \in Seq(Message) /\ recent \subseteq 1 .. confirmed
  /\ 0 <= saved /\ saved <= confirmed /\ confirmed <= recorded /\ recorded <= Len(log)
  /\ openings \subseteq [from : Nat, until : Nat, again : SUBSET Message]

\* The messages that count against a rate in the window that ends at a time.
Within(k, end) ==
  {i \in DOMAIN taken : k \in {taken[i].key, TheChat} /\ end - Window < taken[i].at /\ taken[i].at <= end}

(* rate.ts: "At most `limit` events per key in any window", whatever is forgotten meanwhile, and whether the chat's
   publisher was evicted in between or not. And a sender or a chat that is held back really is at its limit: only
   messages that were taken count, and no longer than the window. *)
RatesAreExact ==
  \A k \in Key :
    /\ \A end \in 0 .. now : Cardinality(Within(k, end)) <= Limit[k]
    /\ ~Fits(k) => Cardinality(Within(k, now)) = Limit[k]

(* What is refused as a duplicate was taken, and is published or still held: a message that was dropped since may be
   sent again. Slots are recorded before they are published, and published before a checkpoint says so, as TypeOK has it. *)
DuplicatesWereTaken == TypeOK /\ \A m \in Message : Duplicate(m) => m \in ToSet(log) \cup ToSet(queue)

(* README: a message "is not a duplicate of one it already took". One message has two slots only if so many others were
   published after the first that it was forgotten, if a publisher resumed since whose history file did not reach back
   to it, or if one did that had it recorded, and it was taken again before that was known. *)
TakenOnce ==
  \A i, j \in DOMAIN log : i < j /\ log[i] = log[j] =>
    \/ Cardinality(ToSet(SubSeq(log, i + 1, j - 1))) >= RecentLimit
    \/ \E o \in openings : o.until < j /\ (i < o.from \/ log[i] \in o.again)
=============================================================================
