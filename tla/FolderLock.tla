----------------------------- MODULE FolderLock -----------------------------
(***************************************************************************)
(* The lock of the checkpoint folder (src/lock.ts): instances of the       *)
(* server that start, wait, take over a stale lock file, refresh it, lose  *)
(* it, release it and die, over one file.                                  *)
(*                                                                         *)
(* Time is counted in ticks, and only as ages and remaining delays. File   *)
(* operations take no tick, except those of an instance that is suspended  *)
(* or has a slow disk (Slow): its operations and timers may take any time. *)
(* An instance is one process: a restart is another instance.              *)
(***************************************************************************)
EXTENDS Integers, FiniteSets

CONSTANTS
  Instance,   \* the ids of the processes that may start
  Slow,       \* those whose operations and timers may be late
  Stale,      \* timings.staleMs
  Refresh,    \* timings.refreshMs
  Settle,     \* the sleep before a takeover is checked: the refresh time, or a second if that is less
  Nobody      \* the content of a file just made, and any id from before

ASSUME ConstantsAssumption ==
  /\ Slow \subseteq Instance
  /\ Stale \in Nat /\ Refresh \in Nat /\ Settle \in Nat \ {0}
  /\ Settle <= Refresh /\ 2 * Refresh < Stale
  /\ Nobody \notin Instance

VARIABLES
  file,   \* the lock file, or the empty set: its content, who made it, and how long ago it was touched
  proc,   \* each instance: where acquire() or release() awaits, whether held is set, where refresh() awaits, the ticks
          \* until its sleep or next refresh ends, and the ticks until acquire() gives up, -1 from then on
  prompt  \* nothing was late so far, and no lock was released: only starts, refreshes and kills

vars == <<file, proc, prompt>>

GiveUpAfter == Stale + 2 * Refresh

FileOf(content, maker, age) == {[holder |-> content, maker |-> maker, age |-> age]}

\* holder(): the file's content, or nothing without a file.
Holder == {f.holder : f \in file}

Held == {i \in Instance : proc[i].held}
Over == {"refused", "lost", "ended"}

At(i, place) == proc[i].at = place
Goes(i, place) == proc' = [proc EXCEPT ![i].at = place]

\* An earlier holder that was killed may have left its file.
Init ==
  /\ file \in {{}, FileOf(Nobody, Nobody, 0)}
  /\ prompt = TRUE
  /\ proc = [i \in Instance |-> [at |-> "off", held |-> FALSE, refresh |-> "idle", timer |-> 0, patience |-> -1]]

-----------------------------------------------------------------------------
(* acquire() *)

Begin_WithShortPatience(i) ==
  /\ At(i, "off")
  /\ proc' = [proc EXCEPT ![i].at = "open", ![i].patience = 2 * Refresh]
  /\ UNCHANGED <<file, prompt>>

Begin(i) ==
  /\ At(i, "off")
  /\ proc' = [proc EXCEPT ![i].at = "open", ![i].patience = GiveUpAfter]
  /\ UNCHANGED <<file, prompt>>

\* tryAcquire() answered yes: the lock is held, and refreshed from now on.
Acquired(i) == proc' = [proc EXCEPT ![i].at = "held", ![i].held = TRUE, ![i].timer = Refresh]

\* tryAcquire() answered no.
TurnedAway(i) ==
  IF proc[i].patience < 0 THEN Goes(i, "refused")
  ELSE proc' = [proc EXCEPT ![i].at = "waiting", ![i].timer = Refresh]

\* open(path, 'wx') makes the file, empty.
MakesFile(i) == At(i, "open") /\ file = {} /\ file' = FileOf(Nobody, i, 0) /\ Goes(i, "write") /\ UNCHANGED prompt

\* The id goes to the file that was made, which may not be the one at the path any more.
WritesId(i) ==
  /\ At(i, "write")
  /\ file' = IF \E f \in file : f.maker = i /\ f.holder = Nobody THEN FileOf(i, i, 0) ELSE file
  /\ Acquired(i)
  /\ UNCHANGED prompt

FindsFile(i) == At(i, "open") /\ file # {} /\ Goes(i, "stat") /\ UNCHANGED <<file, prompt>>

\* A file touched less than staleMs ago. One that is gone by now counts as stale.
IsFresh == \E f \in file : f.age < Stale

FindsFresh(i) == At(i, "stat") /\ IsFresh /\ TurnedAway(i) /\ UNCHANGED <<file, prompt>>

\* The id is written to a temporary file, whose age runs from here: the timer counts it up.
FindsStale(i) ==
  /\ At(i, "stat") /\ ~IsFresh
  /\ proc' = [proc EXCEPT ![i].at = "rename", ![i].timer = 0]
  /\ UNCHANGED <<file, prompt>>

Renames(i) ==
  /\ At(i, "rename")
  /\ file' = FileOf(i, i, proc[i].timer)
  /\ proc' = [proc EXCEPT ![i].at = "settle", ![i].timer = Settle]
  /\ UNCHANGED prompt

Rechecks_WithoutRead(i) == At(i, "settle") /\ proc[i].timer = 0 /\ Acquired(i) /\ UNCHANGED <<file, prompt>>

\* The rename that landed last wins.
Rechecks(i) ==
  /\ At(i, "settle") /\ proc[i].timer = 0
  /\ IF Holder = {i} THEN Acquired(i) ELSE TurnedAway(i)
  /\ UNCHANGED <<file, prompt>>

TriesAgain(i) == At(i, "waiting") /\ proc[i].timer = 0 /\ Goes(i, "open") /\ UNCHANGED <<file, prompt>>

-----------------------------------------------------------------------------
(* refresh(), beside acquire() and release(). Bound: it ends before it is due again. *)

RefreshBegins(i) ==
  /\ At(i, "held") /\ proc[i].timer = 0 /\ proc[i].refresh = "idle"
  /\ proc' = [proc EXCEPT ![i].refresh = "reading", ![i].timer = Refresh]
  /\ UNCHANGED <<file, prompt>>

RefreshReads_WithoutCompare(i) ==
  /\ proc[i].refresh = "reading"
  /\ proc' = [proc EXCEPT ![i].refresh = "touching"]
  /\ UNCHANGED <<file, prompt>>

\* Another content, or none, means the lock is lost: fail() stops the chats and the process exits.
RefreshReads(i) ==
  /\ proc[i].refresh = "reading"
  /\ proc' = IF Holder = {i} THEN [proc EXCEPT ![i].refresh = "touching"]
              ELSE [proc EXCEPT ![i].refresh = "idle", ![i].at = "lost", ![i].held = FALSE]
  /\ UNCHANGED <<file, prompt>>

\* Touches the file at the path, whoever's it is by now.
Touches(i) ==
  /\ proc[i].refresh = "touching"
  /\ file' = {[f EXCEPT !.age = 0] : f \in file}
  /\ proc' = [proc EXCEPT ![i].refresh = "idle"]
  /\ UNCHANGED prompt

-----------------------------------------------------------------------------
(* release(), and dying *)

Ends(i) == proc' = [proc EXCEPT ![i].at = "ended", ![i].held = FALSE, ![i].refresh = "idle"]

Releasing(i) == At(i, "held") /\ Goes(i, "release") /\ UNCHANGED <<file, prompt>>

\* The content is read, and the file at the path unlinked in a step of its own.
ReleaseReads(i) ==
  /\ At(i, "release")
  /\ IF Holder = {i} THEN Goes(i, "unlink") ELSE Ends(i)
  /\ UNCHANGED <<file, prompt>>

Unlinks(i) == At(i, "unlink") /\ file' = {} /\ Ends(i) /\ prompt' = FALSE

Dies(i) == proc[i].at \notin Over \cup {"off"} /\ Ends(i) /\ UNCHANGED <<file, prompt>>

-----------------------------------------------------------------------------
(* Time *)

\* What an instance does next without waiting for a timer.
Busy(i) ==
  \/ proc[i].at \in {"open", "write", "stat", "rename", "release", "unlink"}
  \/ proc[i].at \in {"settle", "waiting", "held"} /\ proc[i].timer = 0
  \/ proc[i].refresh # "idle"

Older(age) == IF age < Stale THEN age + 1 ELSE Stale
Less(ticks, least) == IF ticks > least THEN ticks - 1 ELSE least

Tick ==
  /\ \A i \in Instance \ Slow : ~Busy(i)
  /\ file' = {[f EXCEPT !.age = Older(@)] : f \in file}
  /\ proc' = [i \in Instance |-> [proc[i] EXCEPT
       !.timer = IF At(i, "rename") THEN Older(@) ELSE Less(@, 0),
       !.patience = IF proc[i].at \in Over \cup {"off", "held"} THEN -1 ELSE Less(@, -1)]]
  /\ prompt' = (prompt /\ \A i \in Slow : ~Busy(i))

Acquire(i) ==
  \/ MakesFile(i) \/ WritesId(i) \/ FindsFile(i) \/ FindsFresh(i) \/ FindsStale(i)
  \/ Renames(i) \/ Rechecks(i) \/ TriesAgain(i)

Refreshing(i) == RefreshBegins(i) \/ RefreshReads(i) \/ Touches(i)

Release(i) == ReleaseReads(i) \/ Unlinks(i)

Next ==
  \/ \E i \in Instance :
       Begin(i) \/ Acquire(i) \/ Refreshing(i) \/ Releasing(i) \/ Release(i) \/ Dies(i)
  \/ Tick

Spec == Init /\ [][Next]_vars

\* Time passes, file operations end and timers fire, also those of an instance that is slow.
FairSpec ==
  /\ Spec /\ WF_vars(Tick)
  /\ \A i \in Instance : WF_vars(Acquire(i)) /\ WF_vars(Refreshing(i)) /\ WF_vars(Release(i))

-----------------------------------------------------------------------------
(* Properties *)

Place == {"off", "open", "write", "stat", "rename", "settle", "waiting", "held", "release", "unlink"} \cup Over

\* Every variable holds a value of its type, and there is at most one file.
TypeOK ==
  /\ prompt \in BOOLEAN
  /\ Cardinality(file) <= 1
  /\ file \subseteq [holder : Instance \cup {Nobody}, maker : Instance \cup {Nobody}, age : 0 .. Stale]
  /\ proc \in [Instance -> [at : Place, held : BOOLEAN, refresh : {"idle", "reading", "touching"},
                            timer : 0 .. Stale, patience : -1 .. GiveUpAfter]]

(* lock.ts: "One writer per checkpoint folder." No two instances hold the lock at once. *)
OneHolder == Cardinality(Held) <= 1

(* A holder that keeps its lock fresh never loses it to another start (lock.ts: a new start "refuses to start while a
   live holder keeps it fresh"), whoever races for it and is killed at any step: while nothing was late and no lock was
   released, what a holder finds in the file is its own id, so there is one holder. In any case a start stays within its
   patience and timers and ages within their limits, as TypeOK has them. *)
HolderKeepsIt == TypeOK /\ (prompt => \A i \in Held : Holder = {i})

(* "The holder touches it every refreshMs" and a start takes it over "once it is staleMs old": two holders, as a late
   wake-up or a slow rename may leave behind, do not stay two. One of them reads the other's id and stops. *)
TwoHoldersEnd == \A i, j \in Instance : i # j => []({i, j} \subseteq Held => <>~({i, j} \subseteq Held))

OthersOver(i) == \A j \in Instance \ {i} : proc[j].at \in Over

(* A killed holder's lock stops blocking: a start that no other instance is there to contest gets the lock in the end,
   whatever file the others left behind, and is not refused before that file is stale. *)
AloneAcquires ==
  \A i \in Instance : [](At(i, "off") /\ OthersOver(i) =>
                           [](At(i, "open") => <>(i \in Held \/ At(i, "ended"))))
=============================================================================
