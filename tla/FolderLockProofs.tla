---------------------------- MODULE FolderLockProofs ----------------------------
(***************************************************************************)
(* The safety of FolderLock for every number of instances, slow ones       *)
(* included, and for all its times: a holder that is never late keeps its  *)
(* lock, whoever races for it.                                             *)
(***************************************************************************)
EXTENDS FolderLock, FiniteSetTheorems, TLAPS

-----------------------------------------------------------------------------
(* The inductive invariant *)

File == [holder : Instance \cup {Nobody}, maker : Instance \cup {Nobody}, age : 0 .. Stale]

Process == [at : Place, held : BOOLEAN, refresh : {"idle", "reading", "touching"},
            timer : 0 .. Stale, patience : -1 .. GiveUpAfter]

\* Types, with at most one file.
Typed ==
  /\ prompt \in BOOLEAN
  /\ file = {} \/ \E f \in File : file = {f}
  /\ proc \in [Instance -> Process]

\* held is set from acquire() to release() or a loss, and only a holder refreshes.
HeldOK ==
  \A i \in Instance :
    /\ proc[i].held <=> proc[i].at \in {"held", "release", "unlink"}
    /\ proc[i].refresh # "idle" => proc[i].held

\* Where there is no file, nobody has found or made one.
AbsentOK == file = {} => \A i \in Instance : proc[i].at \in {"off", "open"} \cup Over

\* One that just made the file is alone with it.
WritingOK ==
  \A i \in Instance : At(i, "write") =>
    /\ file = FileOf(Nobody, i, 0)
    /\ \A j \in Instance : ~proc[j].held /\ proc[j].at \notin {"rename", "settle"} /\ (At(j, "write") => j = i)

\* One that renamed its file waits until all others that found the same stale file have renamed theirs.
SettlingOK ==
  \A i \in Instance :
    /\ At(i, "settle") => proc[i].timer <= Settle /\ \A f \in file : f.age <= Settle - proc[i].timer
    /\ At(i, "rename") =>
         /\ proc[i].timer = 0
         /\ \A j \in Instance : ~proc[j].held /\ (At(j, "settle") => proc[j].timer = Settle)

\* A holder's file is its own, and is touched long before it is stale.
HoldingOK ==
  \A i \in Held :
    /\ Holder = {i}
    /\ proc[i].timer <= Refresh
    /\ \A f \in file : f.age <= IF proc[i].refresh = "idle" THEN Settle + Refresh - proc[i].timer ELSE Settle + Refresh

PromptOK == AbsentOK /\ WritingOK /\ SettlingOK /\ HoldingOK

IInv == Typed /\ HeldOK /\ (prompt => PromptOK)

-----------------------------------------------------------------------------
(* Lemmas *)

(* The times of a lock: it is refreshed twice before it is stale. *)
LEMMA TimesAre ==
  /\ Stale \in Nat /\ Refresh \in Nat /\ Settle \in Nat /\ Settle >= 1
  /\ Settle <= Refresh /\ Settle + Refresh < Stale /\ GiveUpAfter \in Nat
  /\ Refresh \in 0 .. Stale /\ Settle \in 0 .. Stale /\ 0 \in 0 .. Stale
  /\ Nobody \notin Instance
BY ConstantsAssumption DEF GiveUpAfter

(* A file that was just made or renamed is the one at the path. *)
LEMMA FileOfIs ==
  ASSUME NEW STATE content, content \in Instance \cup {Nobody},
         NEW STATE maker, maker \in Instance \cup {Nobody}, NEW STATE age, age \in 0 .. Stale
  PROVE  /\ FileOf(content, maker, age) # {}
         /\ \E f \in File : FileOf(content, maker, age) = {f}
         /\ {f.holder : f \in FileOf(content, maker, age)} = {content}
         /\ \A f \in FileOf(content, maker, age) : f.age = age
BY DEF FileOf, File

\* A step of one instance leaves the others where they are.
Others(i) == proc' \in [Instance -> Process] /\ \A j \in Instance : j # i => proc'[j] = proc[j]

(* Where one instance goes without touching the file, what the others rely on is kept if it neither holds nor writes. *)
LEMMA Bystands ==
  ASSUME Typed, HeldOK, PromptOK, NEW i \in Instance, Others(i), file' = file, file # {} \/ proc'[i].at \in {"off", "open"} \cup Over,
         ~proc'[i].held, proc'[i].at \notin {"write", "settle", "rename"}
  PROVE  PromptOK'
<1>1. AbsentOK'
  BY DEF PromptOK, AbsentOK, Others
<1>2. WritingOK'
  BY DEF PromptOK, WritingOK, Others, At
<1>3. SettlingOK'
  BY DEF PromptOK, SettlingOK, Others, At
<1>4. HoldingOK'
  BY DEF PromptOK, HoldingOK, Others, Held, Holder
<1> QED
  BY <1>1, <1>2, <1>3, <1>4 DEF PromptOK

-----------------------------------------------------------------------------
(* Every step of an instance keeps the inductive invariant *)

LEMMA BystanderStep ==
  ASSUME IInv, NEW i \in Instance, Begin(i) \/ FindsFile(i) \/ FindsFresh(i) \/ TriesAgain(i) \/ Dies(i)
  PROVE  IInv'
<1>0. Typed /\ HeldOK /\ proc[i] \in Process
  BY DEF IInv, Typed
<1>1. /\ Others(i) /\ UNCHANGED <<file, prompt>>
      /\ ~proc'[i].held /\ proc'[i].refresh = "idle"
      /\ \/ proc'[i].at \in {"open", "ended"}
         \/ proc'[i].at \in {"stat", "waiting", "refused"} /\ file # {}
  <2> USE TimesAre
  <2>1. CASE Begin(i)
    <3>1. proc' = [proc EXCEPT ![i].at = "open", ![i].patience = GiveUpAfter] /\ UNCHANGED <<file, prompt>>
      BY <2>1 DEF Begin
    <3>2. ~proc[i].held /\ proc[i].refresh = "idle" /\ GiveUpAfter \in -1 .. GiveUpAfter
      BY <1>0, <2>1 DEF Begin, HeldOK, At, Process
    <3> QED
      BY <1>0, <3>1, <3>2 DEF Others, Typed, Process, Place
  <2>2. CASE FindsFile(i)
    BY <1>0, <2>2 DEF FindsFile, At, Goes, Others, HeldOK, Typed, Process, Place
  <2>3. CASE FindsFresh(i)
    <3>1. file # {} /\ At(i, "stat") /\ TurnedAway(i) /\ UNCHANGED <<file, prompt>>
      BY <2>3 DEF FindsFresh, IsFresh
    <3>2. ~proc[i].held /\ proc[i].refresh = "idle"
      BY <1>0, <3>1 DEF HeldOK, At, Process
    <3>3. CASE proc[i].patience < 0
      BY <1>0, <3>1, <3>2, <3>3 DEF TurnedAway, Goes, Others, Typed, Process, Place, Over
    <3>4. CASE ~(proc[i].patience < 0)
      BY <1>0, <3>1, <3>2, <3>4 DEF TurnedAway, Others, Typed, Process, Place, Over
    <3> QED
      BY <3>1, <3>3, <3>4
  <2>4. CASE TriesAgain(i)
    BY <1>0, <2>4 DEF TriesAgain, At, Goes, Others, HeldOK, Typed, Process, Place
  <2>5. CASE Dies(i)
    BY <1>0, <2>5 DEF Dies, Ends, At, Others, HeldOK, Typed, Process, Place, Over
  <2> QED
    BY <2>1, <2>2, <2>3, <2>4, <2>5
<1>2. Typed'
  BY <1>0, <1>1 DEF Typed, Others
<1>3. HeldOK'
  BY <1>0, <1>1 DEF HeldOK, Others
<1>4. prompt => PromptOK'
  BY <1>0, <1>1, Bystands DEF IInv, Over
<1> QED
  BY <1>1, <1>2, <1>3, <1>4 DEF IInv

(* open(path, 'wx') succeeds only while nobody has a file. *)
LEMMA MakesFileStep ==
  ASSUME IInv, NEW i \in Instance, MakesFile(i)
  PROVE  IInv'
<1>0. Typed /\ HeldOK /\ proc[i] \in Process
  BY DEF IInv, Typed
<1>1. /\ Others(i) /\ file = {} /\ file' = FileOf(Nobody, i, 0) /\ prompt' = prompt
      /\ proc'[i].at = "write" /\ ~proc'[i].held /\ proc'[i].refresh = "idle"
  BY <1>0 DEF MakesFile, Goes, At, Others, HeldOK, Typed, Process, Place
<1>2. file' # {} /\ \E f \in File : file' = {f}
  BY <1>1, FileOfIs, TimesAre
<1>3. Typed'
  BY <1>0, <1>1, <1>2 DEF Typed, Others
<1>4. HeldOK'
  BY <1>0, <1>1 DEF HeldOK, Others
<1>5. ASSUME prompt PROVE PromptOK'
  <2>1. \A j \in Instance : j # i => proc'[j].at \in {"off", "open"} \cup Over
    BY <1>1, <1>5 DEF IInv, PromptOK, AbsentOK, Others
  <2>2. \A j \in Instance : ~proc'[j].held
    BY <1>1, <1>4, <2>1 DEF HeldOK, Over
  <2>3. AbsentOK' /\ SettlingOK'
    BY <1>1, <1>2, <2>1 DEF AbsentOK, SettlingOK, At, Over
  <2>4. WritingOK'
    BY <1>1, <2>1, <2>2 DEF WritingOK, At, Over
  <2>5. HoldingOK'
    BY <2>2 DEF HoldingOK, Held
  <2> QED
    BY <2>3, <2>4, <2>5 DEF PromptOK
<1> QED
  BY <1>1, <1>3, <1>4, <1>5 DEF IInv

(* One that holds the file at the path, as nobody else does, may become its holder. *)
LEMMA HolderStep ==
  ASSUME Typed, HeldOK, PromptOK, Typed', HeldOK', NEW i \in Instance, Others(i),
         proc'[i].held, Holder' = {i}, proc'[i].timer = Refresh, proc'[i].refresh = "idle",
         \A f \in file' : f.age <= Settle,
         \A f \in file : \A g \in file' : f.age >= g.age,
         \A j \in Instance : j # i => ~proc[j].held /\ proc[j].at \notin {"write", "rename"}
  PROVE  PromptOK'
<1>1. file' # {}
  BY DEF Holder
<1>2. proc'[i].at \in {"held", "release", "unlink"}
  BY DEF HeldOK
<1>3. AbsentOK' /\ WritingOK'
  BY <1>1, <1>2 DEF AbsentOK, WritingOK, At, Others
<1>4. SettlingOK'
  <2>1. ASSUME NEW j \in Instance, At(j, "settle")'
        PROVE  proc'[j].timer <= Settle /\ \A f \in file' : f.age <= Settle - proc'[j].timer
    <3>1. j # i /\ At(j, "settle") /\ proc'[j] = proc[j]
      BY <1>2, <2>1 DEF At, Others
    <3>2. proc[j].timer <= Settle /\ \A f \in file : f.age <= Settle - proc[j].timer
      BY <3>1 DEF PromptOK, SettlingOK
    <3>3. file # {}
      BY <3>1 DEF PromptOK, AbsentOK, At, Over
    <3>4. PICK f \in File : file = {f}
      BY <3>3 DEF Typed
    <3>5. \A g \in file' : g.age \in Nat
      BY DEF Typed, File
    <3>6. f.age \in Nat /\ proc[j].timer \in Nat
      BY <3>4, TimesAre DEF File, Typed, Process
    <3> QED
      BY <3>1, <3>2, <3>4, <3>5, <3>6, TimesAre
  <2>2. \A j \in Instance : ~At(j, "rename")'
    BY <1>2 DEF At, Others
  <2> QED
    BY <2>1, <2>2 DEF SettlingOK, At
<1>5. HoldingOK'
  <2>1. Held' = {i}
    BY DEF Held, Others
  <2>2. \A f \in file' : f.age <= Settle + Refresh - Refresh
    BY TimesAre DEF Typed, File
  <2> QED
    BY <2>1, <2>2, TimesAre DEF HoldingOK
<1> QED
  BY <1>3, <1>4, <1>5 DEF PromptOK

(* The id goes into the file that was made. *)
LEMMA WritesIdStep ==
  ASSUME IInv, NEW i \in Instance, WritesId(i)
  PROVE  IInv'
<1>0. Typed /\ HeldOK /\ proc[i] \in Process
  BY DEF IInv, Typed
<1>1. /\ Others(i) /\ prompt' = prompt
      /\ file' = IF \E f \in file : f.maker = i /\ f.holder = Nobody THEN FileOf(i, i, 0) ELSE file
      /\ At(i, "write") /\ proc'[i].at = "held" /\ proc'[i].held /\ proc'[i].timer = Refresh
      /\ proc'[i].refresh = "idle"
  BY <1>0, TimesAre DEF WritesId, Acquired, At, Others, HeldOK, Typed, Process, Place
<1>2. /\ FileOf(i, i, 0) # {} /\ (\E f \in File : FileOf(i, i, 0) = {f})
      /\ {f.holder : f \in FileOf(i, i, 0)} = {i} /\ \A f \in FileOf(i, i, 0) : f.age = 0
  BY FileOfIs, TimesAre
<1>3. Typed'
  BY <1>0, <1>1, <1>2 DEF Typed, Others
<1>4. HeldOK'
  BY <1>0, <1>1 DEF HeldOK, Others
<1>5. ASSUME prompt PROVE PromptOK'
  <2>1. /\ file = FileOf(Nobody, i, 0) /\ PromptOK
        /\ \A j \in Instance : j # i => ~proc[j].held /\ proc[j].at \notin {"write", "rename"}
    BY <1>1, <1>5 DEF IInv, PromptOK, WritingOK, At
  <2>2. file' = FileOf(i, i, 0)
    BY <1>1, <2>1 DEF FileOf
  <2>3. Holder' = {i}
    BY <1>2, <2>2 DEF Holder
  <2>4. (\A f \in file' : f.age <= Settle) /\ \A f \in file : \A g \in file' : f.age >= g.age
    BY <2>1, <2>2, TimesAre DEF FileOf
  <2> QED
    BY <1>0, <1>1, <1>3, <1>4, <2>1, <2>3, <2>4, HolderStep
<1> QED
  BY <1>1, <1>3, <1>4, <1>5 DEF IInv

(* After the sleep the rename that landed last wins. *)
LEMMA RechecksStep ==
  ASSUME IInv, NEW i \in Instance, Rechecks(i)
  PROVE  IInv'
<1>0. Typed /\ HeldOK /\ proc[i] \in Process
  BY DEF IInv, Typed
<1>1. UNCHANGED <<file, prompt>> /\ At(i, "settle") /\ proc[i].timer = 0 /\ ~proc[i].held /\ proc[i].refresh = "idle"
  BY <1>0 DEF Rechecks, At, HeldOK, Process
<1>2. CASE Holder = {i}
  <2>1. /\ Others(i) /\ proc'[i].at = "held" /\ proc'[i].held /\ proc'[i].timer = Refresh /\ proc'[i].refresh = "idle"
    BY <1>0, <1>1, <1>2, TimesAre DEF Rechecks, Acquired, At, Others, Typed, Process, Place
  <2>2. Typed' /\ HeldOK'
    BY <1>0, <1>1, <2>1 DEF Typed, HeldOK, Others
  <2>3. ASSUME prompt PROVE PromptOK'
    <3>1. PromptOK
      BY <2>3 DEF IInv
    <3>2. \A j \in Instance : j # i => proc[j].at # "write" /\ proc[j].at # "rename"
      BY <1>1, <3>1, TimesAre DEF PromptOK, WritingOK, SettlingOK, At
    <3>3. \A j \in Instance : ~proc[j].held
      BY <1>1, <1>2, <3>1 DEF PromptOK, HoldingOK, Held
    <3>4. Holder' = {i} /\ \A f \in file' : f.age <= Settle
      <4>1. \A f \in file : f.age <= Settle - 0
        BY <1>1, <3>1 DEF PromptOK, SettlingOK
      <4> QED
        BY <1>1, <1>2, <4>1, TimesAre DEF Holder
    <3>5. \A f \in file : \A g \in file' : f.age >= g.age
      BY <1>0, <1>1 DEF Typed, File
    <3> QED
      BY <1>0, <2>1, <2>2, <3>1, <3>2, <3>3, <3>4, <3>5, HolderStep
  <2> QED
    BY <1>1, <2>2, <2>3 DEF IInv
<1>3. CASE Holder # {i}
  <2>1. /\ Others(i) /\ ~proc'[i].held /\ proc'[i].refresh = "idle" /\ proc'[i].at \in {"waiting", "refused"}
    BY <1>0, <1>1, <1>3, TimesAre DEF Rechecks, TurnedAway, Goes, At, Others, Typed, Process, Place, Over
  <2>2. Typed' /\ HeldOK'
    BY <1>0, <1>1, <2>1 DEF Typed, HeldOK, Others
  <2>3. ASSUME prompt PROVE PromptOK'
    <3>1. PromptOK /\ file # {}
      BY <1>1, <2>3 DEF IInv, PromptOK, AbsentOK, At, Over
    <3> QED
      BY <1>0, <1>1, <2>1, <3>1, Bystands
  <2> QED
    BY <1>1, <2>2, <2>3 DEF IInv
<1> QED
  BY <1>2, <1>3

(* A stale file at the path means that nobody holds the lock or is about to. *)
LEMMA FindsStaleStep ==
  ASSUME IInv, NEW i \in Instance, FindsStale(i)
  PROVE  IInv'
<1>0. Typed /\ HeldOK /\ proc[i] \in Process
  BY DEF IInv, Typed
<1>1. /\ Others(i) /\ UNCHANGED <<file, prompt>> /\ At(i, "stat") /\ ~IsFresh
      /\ proc'[i].at = "rename" /\ ~proc'[i].held /\ proc'[i].refresh = "idle" /\ proc'[i].timer = 0
  BY <1>0, TimesAre DEF FindsStale, At, Others, HeldOK, Typed, Process, Place
<1>2. Typed' /\ HeldOK'
  BY <1>0, <1>1 DEF Typed, HeldOK, Others
<1>3. ASSUME prompt PROVE PromptOK'
  <2>1. PromptOK /\ file # {}
    BY <1>1, <1>3 DEF IInv, PromptOK, AbsentOK, At, Over
  <2>2. PICK f \in File : file = {f}
    BY <1>0, <2>1 DEF Typed
  <2>3. f.age \in 0 .. Stale /\ ~(f.age < Stale)
    BY <1>1, <2>2 DEF File, IsFresh
  <2>4. ASSUME NEW j \in Instance PROVE ~proc[j].held
    <3> SUFFICES ASSUME proc[j].held PROVE FALSE
      OBVIOUS
    <3>1. proc[j].timer \in Nat
      BY TimesAre, <1>0 DEF Typed, Process
    <3>2. f.age <= Settle + Refresh
      BY <2>1, <2>2, <2>3, <3>1, TimesAre DEF PromptOK, HoldingOK, Held
    <3> QED
      BY <2>3, <3>2, TimesAre
  <2>5. ASSUME NEW j \in Instance PROVE ~At(j, "settle")
    <3> SUFFICES ASSUME At(j, "settle") PROVE FALSE
      OBVIOUS
    <3>1. proc[j].timer \in Nat
      BY TimesAre, <1>0 DEF Typed, Process
    <3>2. f.age <= Settle - proc[j].timer
      BY <2>1, <2>2 DEF PromptOK, SettlingOK, At
    <3> QED
      BY <2>3, <3>1, <3>2, TimesAre
  <2>6. ASSUME NEW j \in Instance PROVE ~At(j, "write")
    <3> SUFFICES ASSUME At(j, "write") PROVE FALSE
      OBVIOUS
    <3>1. file = FileOf(Nobody, j, 0)
      BY <2>1 DEF PromptOK, WritingOK
    <3>2. f.age = 0
      BY <2>2, <3>1 DEF FileOf
    <3> QED
      BY <2>3, <3>2, TimesAre
  <2>7. AbsentOK' /\ HoldingOK'
    BY <1>1, <2>1, <2>4 DEF AbsentOK, HoldingOK, Held, Others
  <2>8. WritingOK'
    BY <1>1, <2>6 DEF WritingOK, At, Others
  <2>9. SettlingOK'
    BY <1>1, <2>1, <2>4, <2>5 DEF PromptOK, SettlingOK, At, Others
  <2> QED
    BY <2>7, <2>8, <2>9 DEF PromptOK
<1> QED
  BY <1>1, <1>2, <1>3 DEF IInv

(* The rename replaces the file of those who renamed before, at the same time. *)
LEMMA RenamesStep ==
  ASSUME IInv, NEW i \in Instance, Renames(i)
  PROVE  IInv'
<1>0. Typed /\ HeldOK /\ proc[i] \in Process
  BY DEF IInv, Typed
<1>1. /\ Others(i) /\ prompt' = prompt /\ At(i, "rename") /\ file' = FileOf(i, i, proc[i].timer)
      /\ proc'[i].at = "settle" /\ ~proc'[i].held /\ proc'[i].refresh = "idle" /\ proc'[i].timer = Settle
      /\ proc[i].timer \in 0 .. Stale
  BY <1>0, TimesAre DEF Renames, At, Others, HeldOK, Typed, Process, Place
<1>2. /\ file' # {} /\ (\E f \in File : file' = {f})
      /\ \A f \in file' : f.age = proc[i].timer
  BY <1>1, FileOfIs
<1>3. Typed' /\ HeldOK'
  BY <1>0, <1>1, <1>2 DEF Typed, HeldOK, Others
<1>4. ASSUME prompt PROVE PromptOK'
  <2>1. PromptOK /\ proc[i].timer = 0 /\ \A j \in Instance : ~proc[j].held /\ (At(j, "settle") => proc[j].timer = Settle)
    BY <1>1, <1>4 DEF IInv, PromptOK, SettlingOK
  <2>2. \A j \in Instance : ~At(j, "write")
    BY <1>1, <2>1 DEF PromptOK, WritingOK, At
  <2>3. AbsentOK' /\ HoldingOK'
    BY <1>1, <1>2, <2>1 DEF AbsentOK, HoldingOK, Held, Others
  <2>4. WritingOK'
    BY <1>1, <2>2 DEF WritingOK, At, Others
  <2>5. SettlingOK'
    <3>1. \A j \in Instance : At(j, "settle")' => proc'[j].timer = Settle
      BY <1>1, <2>1 DEF At, Others
    <3>2. \A j \in Instance : ~proc'[j].held
      BY <1>1, <2>1 DEF Others
    <3>3. \A j \in Instance : At(j, "rename")' => proc'[j].timer = 0
      BY <1>1, <2>1 DEF PromptOK, SettlingOK, At, Others
    <3> QED
      BY <1>2, <2>1, <3>1, <3>2, <3>3, TimesAre DEF SettlingOK, At
  <2> QED
    BY <2>3, <2>4, <2>5 DEF PromptOK
<1> QED
  BY <1>1, <1>3, <1>4 DEF IInv

(* Refreshing keeps the file young: what a holder reads is its own id. *)
LEMMA RefreshStep ==
  ASSUME IInv, NEW i \in Instance, RefreshBegins(i) \/ RefreshReads(i)
  PROVE  IInv'
<1>0. Typed /\ HeldOK /\ proc[i] \in Process
  BY DEF IInv, Typed
<1>1. proc[i].held /\ UNCHANGED <<file, prompt>>
  BY <1>0 DEF RefreshBegins, RefreshReads, HeldOK, At
<1>2. CASE RefreshReads(i) /\ Holder # {i}
  <2>1. Others(i) /\ ~proc'[i].held /\ proc'[i].refresh = "idle" /\ proc'[i].at = "lost"
    BY <1>0, <1>2 DEF RefreshReads, Others, Typed, Process, Place, Over
  <2>2. Typed' /\ HeldOK'
    BY <1>0, <1>1, <2>1 DEF Typed, HeldOK, Others
  <2>3. ~prompt
    BY <1>1, <1>2 DEF IInv, PromptOK, HoldingOK, Held
  <2> QED
    BY <1>1, <2>2, <2>3 DEF IInv
<1>3. CASE RefreshBegins(i) \/ (RefreshReads(i) /\ Holder = {i})
  <2>1. /\ Others(i) /\ proc'[i].at = proc[i].at /\ proc'[i].held /\ proc'[i].refresh \in {"reading", "touching"}
        /\ RefreshBegins(i) => proc'[i].timer = Refresh
        /\ RefreshReads(i) => proc'[i].timer = proc[i].timer
    <3>1. CASE RefreshBegins(i)
      BY <1>0, <1>1, <3>1, TimesAre DEF RefreshBegins, RefreshReads, Others, Typed, Process
    <3>2. CASE RefreshReads(i) /\ Holder = {i}
      BY <1>0, <1>1, <3>2 DEF RefreshBegins, RefreshReads, Others, Typed, Process
    <3> QED
      BY <1>3, <3>1, <3>2
  <2>2. Typed' /\ HeldOK'
    BY <1>0, <1>1, <2>1 DEF Typed, HeldOK, Others
  <2>3. ASSUME prompt PROVE PromptOK'
    <3>1. PromptOK
      BY <2>3 DEF IInv
    <3>2. AbsentOK'
      BY <1>1, <2>1, <3>1 DEF PromptOK, AbsentOK, Others
    <3>3. proc[i].at \in {"held", "release", "unlink"}
      BY <1>0, <1>1 DEF HeldOK
    <3>4. WritingOK' /\ SettlingOK'
      BY <1>1, <2>1, <3>1, <3>3 DEF PromptOK, WritingOK, SettlingOK, At, Others
    <3>5. Held' = Held /\ Holder' = Holder
      BY <1>1, <2>1 DEF Held, Holder, Others
    <3>6. proc'[i].timer <= Refresh
      BY <1>1, <1>3, <2>1, <3>1, TimesAre DEF PromptOK, HoldingOK, Held
    <3>7. ASSUME NEW f \in file PROVE f.age <= Settle + Refresh
      <4>1. f.age \in Nat /\ proc[i].timer \in Nat
        BY <1>0, TimesAre DEF Typed, File, Process
      <4> QED
        BY <1>1, <3>1, <4>1, TimesAre DEF PromptOK, HoldingOK, Held
    <3>8. HoldingOK'
      BY <1>1, <2>1, <3>1, <3>5, <3>6, <3>7 DEF PromptOK, HoldingOK, Held, Others
    <3> QED
      BY <3>2, <3>4, <3>8 DEF PromptOK
  <2> QED
    BY <1>1, <2>2, <2>3 DEF IInv
<1> QED
  BY <1>2, <1>3 DEF RefreshReads

LEMMA TouchesStep ==
  ASSUME IInv, NEW i \in Instance, Touches(i)
  PROVE  IInv'
<1>0. Typed /\ HeldOK /\ proc[i] \in Process
  BY DEF IInv, Typed
<1>1. /\ Others(i) /\ prompt' = prompt /\ proc[i].held /\ file' = {[f EXCEPT !.age = 0] : f \in file}
      /\ proc'[i].at = proc[i].at /\ proc'[i].held /\ proc'[i].refresh = "idle" /\ proc'[i].timer = proc[i].timer
  BY <1>0 DEF Touches, HeldOK, Others, Typed, Process
<1>2. /\ (file = {} <=> file' = {}) /\ (file' = {} \/ \E f \in File : file' = {f})
      /\ \A f \in file' : f.age = 0
  <2>1. CASE file = {}
    BY <1>1, <2>1
  <2>2. CASE file # {}
    <3> PICK f \in File : file = {f}
      BY <1>0, <2>2 DEF Typed
    <3>1. file' = {[f EXCEPT !.age = 0]}
      BY <1>1
    <3>2. [f EXCEPT !.age = 0] \in File /\ [f EXCEPT !.age = 0].age = 0
      BY TimesAre DEF File
    <3> QED
      BY <2>2, <3>1, <3>2
  <2> QED
    BY <2>1, <2>2
<1>3. Typed' /\ HeldOK'
  BY <1>0, <1>1, <1>2 DEF Typed, HeldOK, Others
<1>4. ASSUME prompt PROVE PromptOK'
  <2>1. PromptOK /\ proc[i].at \in {"held", "release", "unlink"}
    BY <1>0, <1>1, <1>4 DEF IInv, HeldOK
  <2>2. AbsentOK'
    BY <1>1, <1>2, <2>1 DEF PromptOK, AbsentOK, Others
  <2>3. WritingOK'
    BY <1>1, <2>1 DEF PromptOK, WritingOK, At, Others
  <2>4. SettlingOK'
    <3>1. ASSUME NEW j \in Instance, At(j, "settle")'
          PROVE  proc'[j].timer <= Settle /\ \A f \in file' : f.age <= Settle - proc'[j].timer
      <4>1. At(j, "settle") /\ proc'[j] = proc[j] /\ proc[j].timer \in Nat
        BY <1>0, <1>1, <2>1, <3>1, TimesAre DEF At, Others, Typed, Process
      <4>2. proc[j].timer <= Settle
        BY <2>1, <4>1 DEF PromptOK, SettlingOK
      <4> QED
        BY <1>2, <4>1, <4>2, TimesAre
    <3>2. ASSUME NEW j \in Instance PROVE ~At(j, "rename")'
      BY <1>1, <2>1 DEF PromptOK, SettlingOK, At, Others
    <3> QED
      BY <3>1, <3>2 DEF SettlingOK, At
  <2>5. HoldingOK'
    <3>1. Held' = Held
      BY <1>1 DEF Held, Others
    <3>2. Holder' = Holder
      <4>1. CASE file = {}
        BY <1>1, <4>1 DEF Holder
      <4>2. CASE file # {}
        <5> PICK f \in File : file = {f}
          BY <1>0, <4>2 DEF Typed
        <5>1. file' = {[f EXCEPT !.age = 0]} /\ [f EXCEPT !.age = 0].holder = f.holder
          BY <1>1 DEF File
        <5> QED
          BY <5>1 DEF Holder
      <4> QED
        BY <4>1, <4>2
    <3>3. \A j \in Held : proc'[j].timer = proc[j].timer /\ proc[j].timer <= Refresh /\ proc[j].timer \in Nat
      BY <1>0, <1>1, <2>1, TimesAre DEF PromptOK, HoldingOK, Held, Others, Typed, Process
    <3> QED
      BY <1>2, <2>1, <3>1, <3>2, <3>3, TimesAre DEF PromptOK, HoldingOK
  <2> QED
    BY <2>2, <2>3, <2>4, <2>5 DEF PromptOK
<1> QED
  BY <1>1, <1>3, <1>4 DEF IInv

(* release() gives the lock up after its last look at the file. *)
LEMMA ReleaseStep ==
  ASSUME IInv, NEW i \in Instance, Releasing(i) \/ ReleaseReads(i) \/ Unlinks(i)
  PROVE  IInv'
<1>0. Typed /\ HeldOK /\ proc[i] \in Process
  BY DEF IInv, Typed
<1>1. proc[i].held
  BY <1>0 DEF Releasing, ReleaseReads, Unlinks, HeldOK, At
<1>2. CASE Unlinks(i)
  <2>1. Others(i) /\ ~proc'[i].held /\ proc'[i].refresh = "idle" /\ proc'[i].at = "ended" /\ file' = {} /\ prompt' = FALSE
    BY <1>0, <1>2 DEF Unlinks, Ends, Others, Typed, Process, Place, Over
  <2>2. Typed'
    BY <2>1 DEF Typed, Others
  <2>3. HeldOK'
    BY <1>0, <2>1 DEF HeldOK, Others
  <2> QED
    BY <2>1, <2>2, <2>3 DEF IInv
<1>3. CASE ReleaseReads(i) /\ Holder # {i}
  <2>1. Others(i) /\ ~proc'[i].held /\ proc'[i].refresh = "idle" /\ proc'[i].at = "ended" /\ UNCHANGED <<file, prompt>>
    BY <1>0, <1>3 DEF ReleaseReads, Ends, Others, Typed, Process, Place, Over
  <2>2. Typed' /\ HeldOK'
    BY <1>0, <2>1 DEF Typed, HeldOK, Others
  <2>3. ~prompt
    BY <1>1, <1>3 DEF IInv, PromptOK, HoldingOK, Held
  <2> QED
    BY <2>1, <2>2, <2>3 DEF IInv
<1>4. CASE Releasing(i) \/ (ReleaseReads(i) /\ Holder = {i})
  <2>1. /\ Others(i) /\ proc'[i].held /\ proc'[i].refresh = proc[i].refresh /\ proc'[i].at \in {"release", "unlink"}
        /\ proc'[i].timer = proc[i].timer /\ UNCHANGED <<file, prompt>>
    BY <1>0, <1>1, <1>4 DEF Releasing, ReleaseReads, Goes, Others, Typed, Process, Place
  <2>2. Typed' /\ HeldOK'
    BY <1>0, <2>1 DEF Typed, HeldOK, Others
  <2>3. ASSUME prompt PROVE PromptOK'
    <3>1. PromptOK /\ proc[i].at \in {"held", "release", "unlink"}
      BY <1>0, <1>1, <2>3 DEF IInv, HeldOK
    <3>2. AbsentOK' /\ WritingOK' /\ SettlingOK'
      BY <1>1, <2>1, <3>1 DEF PromptOK, AbsentOK, WritingOK, SettlingOK, At, Others, Over
    <3>3. Held' = Held /\ Holder' = Holder
      BY <1>1, <2>1 DEF Held, Holder, Others
    <3>4. HoldingOK'
      BY <2>1, <3>1, <3>3 DEF PromptOK, HoldingOK, Held, Others
    <3> QED
      BY <3>2, <3>4 DEF PromptOK
  <2> QED
    BY <2>1, <2>2, <2>3 DEF IInv
<1> QED
  BY <1>2, <1>3, <1>4 DEF ReleaseReads

(* A tick passes for all: nobody whose turn it is lets one pass, unless something is late. *)
LEMMA TickStep ==
  ASSUME IInv, Tick
  PROVE  IInv'
<1>0. Typed /\ HeldOK
  BY SMTT(60) DEF IInv
<1>1. /\ file' = {[f EXCEPT !.age = Older(@)] : f \in file}
      /\ prompt' = (prompt /\ \A i \in Slow : ~Busy(i)) /\ \A i \in Instance \ Slow : ~Busy(i)
      /\ proc' \in [Instance -> Process]
      /\ \A i \in Instance :
           /\ proc'[i].at = proc[i].at /\ proc'[i].held = proc[i].held /\ proc'[i].refresh = proc[i].refresh
           /\ proc[i].at # "rename" => proc'[i].timer = IF proc[i].timer > 0 THEN proc[i].timer - 1 ELSE 0
           /\ proc[i].timer \in 0 .. Stale
  <2>1. \A t \in 0 .. Stale : Older(t) \in 0 .. Stale /\ Less(t, 0) = (IF t > 0 THEN t - 1 ELSE 0) /\ Less(t, 0) \in 0 .. Stale
    BY TimesAre DEF Older, Less
  <2>2. \A t \in -1 .. GiveUpAfter : Less(t, -1) \in -1 .. GiveUpAfter /\ -1 \in -1 .. GiveUpAfter
    BY TimesAre DEF Less
  <2>3. proc' = [i \in Instance |-> [proc[i] EXCEPT
           !.timer = IF At(i, "rename") THEN Older(@) ELSE Less(@, 0),
           !.patience = IF proc[i].at \in Over \cup {"off", "held"} THEN -1 ELSE Less(@, -1)]]
    BY DEF Tick
  <2>4. \A i \in Instance : proc[i] \in Process /\ proc[i].timer \in 0 .. Stale /\ proc[i].patience \in -1 .. GiveUpAfter
    BY <1>0 DEF Typed, Process
  <2>5. \A i \in Instance : proc'[i] = [proc[i] EXCEPT
           !.timer = IF At(i, "rename") THEN Older(@) ELSE Less(@, 0),
           !.patience = IF proc[i].at \in Over \cup {"off", "held"} THEN -1 ELSE Less(@, -1)]
    BY <2>3
  <2>6. ASSUME NEW i \in Instance
        PROVE  /\ proc'[i] \in Process
               /\ proc'[i].at = proc[i].at /\ proc'[i].held = proc[i].held /\ proc'[i].refresh = proc[i].refresh
               /\ proc[i].at # "rename" => proc'[i].timer = IF proc[i].timer > 0 THEN proc[i].timer - 1 ELSE 0
    <3> DEFINE timer == IF At(i, "rename") THEN Older(proc[i].timer) ELSE Less(proc[i].timer, 0)
               patience == IF proc[i].at \in Over \cup {"off", "held"} THEN -1 ELSE Less(proc[i].patience, -1)
    <3>1. timer \in 0 .. Stale /\ patience \in -1 .. GiveUpAfter
      BY <2>1, <2>2, <2>4
    <3>2. proc[i].at # "rename" => timer = IF proc[i].timer > 0 THEN proc[i].timer - 1 ELSE 0
      BY <2>1, <2>4 DEF At
    <3>3. proc'[i] = [proc[i] EXCEPT !.timer = timer, !.patience = patience]
      BY <2>5
    <3> HIDE DEF timer, patience
    <3> QED
      BY <2>4, <3>1, <3>2, <3>3 DEF Process
  <2> QED
    BY <2>3, <2>4, <2>6 DEF Tick
<1>2. /\ (file = {} <=> file' = {}) /\ (file' = {} \/ \E f \in File : file' = {f}) /\ Holder' = Holder
      /\ \A g \in file' : \E f \in file : f.age \in Nat /\ g.age \in Nat /\ g.age <= f.age + 1
  <2>1. CASE file = {}
    BY <1>1, <2>1 DEF Holder
  <2>2. CASE file # {}
    <3> PICK f \in File : file = {f}
      BY <1>0, <2>2 DEF Typed
    <3> DEFINE g == [f EXCEPT !.age = Older(f.age)]
    <3>1. file' = {g}
      BY <1>1
    <3>2. f.age \in 0 .. Stale /\ Older(f.age) \in 0 .. Stale /\ Older(f.age) <= f.age + 1
      BY TimesAre DEF File, Older
    <3>3. g \in File /\ g.age = Older(f.age) /\ g.holder = f.holder
      BY <3>2 DEF File
    <3> HIDE DEF g
    <3>4. Holder' = {g.holder} /\ Holder = {f.holder}
      BY <3>1 DEF Holder
    <3> QED
      BY <2>2, <3>1, <3>2, <3>3, <3>4, TimesAre
  <2> QED
    BY <2>1, <2>2
<1>3. Typed'
  BY <1>0, <1>1, <1>2 DEF Typed
<1>4. HeldOK'
  BY <1>0, <1>1 DEF HeldOK
<1>5. ASSUME prompt' PROVE PromptOK'
  <2>1. PromptOK /\ \A i \in Instance : ~Busy(i)
    BY <1>1, <1>5 DEF IInv
  <2>2. \A i \in Instance : proc'[i].at \notin {"write", "rename"}
    BY <1>1, <2>1 DEF Busy
  <2>3. AbsentOK' /\ WritingOK'
    BY <1>1, <1>2, <2>1, <2>2 DEF PromptOK, AbsentOK, WritingOK, At
  <2>4. SettlingOK'
    <3>1. ASSUME NEW i \in Instance, At(i, "settle")'
          PROVE  proc'[i].timer <= Settle /\ \A f \in file' : f.age <= Settle - proc'[i].timer
      <4>1. At(i, "settle") /\ proc[i].timer # 0 /\ proc[i].timer \in Nat /\ proc'[i].timer = proc[i].timer - 1
        BY <1>1, <2>1, <3>1, TimesAre DEF Busy, At
      <4>2. proc[i].timer <= Settle /\ \A f \in file : f.age <= Settle - proc[i].timer
        BY <2>1, <4>1 DEF PromptOK, SettlingOK
      <4> QED
        BY <1>2, <4>1, <4>2, TimesAre
    <3> QED
      BY <2>2, <3>1 DEF SettlingOK, At
  <2>5. HoldingOK'
    <3>1. ASSUME NEW i \in Held'
          PROVE  /\ Holder' = {i} /\ proc'[i].timer <= Refresh /\ proc'[i].refresh = "idle"
                 /\ \A f \in file' : f.age <= Settle + Refresh - proc'[i].timer
      <4>1. i \in Held
        BY <1>1 DEF Held
      <4>2. /\ proc[i].refresh = "idle" /\ proc[i].timer # 0 /\ proc[i].timer \in Nat
            /\ proc'[i].refresh = "idle" /\ proc'[i].timer = proc[i].timer - 1
        BY <1>0, <1>1, <2>1, <4>1, TimesAre DEF Busy, Held, HeldOK
      <4>3. /\ Holder = {i} /\ proc[i].timer <= Refresh
            /\ \A f \in file : f.age <= Settle + Refresh - proc[i].timer
        BY <2>1, <4>1, <4>2 DEF PromptOK, HoldingOK
      <4> QED
        BY <1>2, <4>2, <4>3, TimesAre
    <3> QED
      BY <3>1 DEF HoldingOK
  <2> QED
    BY <2>3, <2>4, <2>5 DEF PromptOK
<1> QED
  BY <1>3, <1>4, <1>5 DEF IInv

-----------------------------------------------------------------------------
(* Theorems *)

(* Init satisfies the inductive invariant and every step keeps it. *)
THEOREM Invariance == Spec => []IInv
<1>1. Init => IInv
  <2> SUFFICES ASSUME Init PROVE IInv
    OBVIOUS
  <2>1. file = {} \/ \E f \in File : file = {f}
    BY FileOfIs, TimesAre DEF Init
  <2>2. proc \in [Instance -> Process] /\ \A i \in Instance : proc[i].at = "off" /\ ~proc[i].held /\ proc[i].refresh = "idle"
    BY TimesAre DEF Init, Process, Place
  <2>3. Typed /\ HeldOK
    BY <2>1, <2>2 DEF Init, Typed, HeldOK
  <2>4. PromptOK
    BY <2>2 DEF PromptOK, AbsentOK, WritingOK, SettlingOK, HoldingOK, At, Held
  <2> QED
    BY <2>3, <2>4 DEF IInv
<1>2. IInv /\ [Next]_vars => IInv'
  <2> SUFFICES ASSUME IInv, [Next]_vars PROVE IInv'
    OBVIOUS
  <2>1. CASE UNCHANGED vars
    BY <2>1 DEF vars, IInv, Typed, HeldOK, PromptOK, AbsentOK, WritingOK, SettlingOK, HoldingOK, At, Held, Holder
  <2>2. CASE Tick
    BY <2>2, TickStep
  <2>3. ASSUME NEW i \in Instance,
               Begin(i) \/ Acquire(i) \/ Refreshing(i) \/ Releasing(i) \/ Release(i) \/ Dies(i)
        PROVE  IInv'
    BY <2>3, BystanderStep, MakesFileStep, WritesIdStep, FindsStaleStep, RenamesStep, RechecksStep, RefreshStep,
       TouchesStep, ReleaseStep
    DEF Acquire, Refreshing, Release
  <2> QED
    BY <2>1, <2>2, <2>3 DEF Next
<1> QED
  BY <1>1, <1>2, PTL DEF Spec

(* lock.ts: a holder that keeps its lock fresh is the one the file names, through every race of starts and kills. *)
THEOREM LiveHolderKeepsIt == Spec => []HolderKeepsIt
<1>1. ASSUME IInv PROVE TypeOK
  <2>1. Cardinality(file) <= 1 /\ file \subseteq File
    <3>1. CASE file = {}
      BY <3>1, FS_EmptySet
    <3>2. CASE \E f \in File : file = {f}
      <4> PICK f \in File : file = {f}
        BY <3>2
      <4>1. Cardinality({f}) = 1
        BY FS_Singleton
      <4> QED
        BY <4>1
    <3> QED
      BY <1>1, <3>1, <3>2 DEF IInv, Typed
  <2> QED
    BY <1>1, <2>1 DEF IInv, Typed, TypeOK, File, Process
<1>2. IInv => HolderKeepsIt
  BY <1>1 DEF IInv, PromptOK, HoldingOK, HolderKeepsIt
<1> QED
  BY <1>2, Invariance, PTL

(* lock.ts: "One writer per checkpoint folder": while nothing was late and no lock was released, there is one holder. *)
THEOREM OneHolderWhilePrompt == Spec => [](prompt => \A i, j \in Held : i = j)
<1>1. IInv => (prompt => \A i, j \in Held : i = j)
  BY DEF IInv, PromptOK, HoldingOK
<1> QED
  BY <1>1, Invariance, PTL

=============================================================================
