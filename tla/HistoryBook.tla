----------------------------- MODULE HistoryBook -----------------------------
(***************************************************************************)
(* A chat's history files (src/history.ts): the current file in memory,    *)
(* uploaded again after publishes, closed at its limits and linked to by   *)
(* the file after it, together with the part of the checkpoint that keeps  *)
(* the rows no uploaded file holds yet.                                    *)
(*                                                                         *)
(* The rows of a file are the messages of consecutive slots, so a file is  *)
(* its first and last row. A link is the number of an upload, 0 for null.  *)
(***************************************************************************)
EXTENDS Integers, FiniteSets, Sequences

CONSTANTS
  MaxRows,      \* bound: the slots a behaviour may confirm
  MaxMessages,  \* limits.maxMessages
  MaxBoots      \* bound: how often the process is started

ASSUME ConstantsAssumption ==
  /\ MaxRows \in Nat \ {0} /\ MaxMessages \in Nat \ {0} /\ MaxBoots \in Nat \ {0}

Null  == 0
Unset == -1   \* prev while the file before is not saved in its final form

VARIABLES
  boot,       \* how often the process was started
  chat,       \* "up", "down", or "blocked" by a checkpoint it refused
  tip,        \* the last slot confirmed, whose row was appended
  due,        \* how many confirmations are yet to request their save
  files,      \* closed and then current
  newest,     \* the newest saved file's link
  dirty,
  saver,      \* where saveUntilClean() awaits
  snapshot,   \* the file being uploaded
  uploads,    \* every file uploaded, the i-th reached by link i
  checkpoint, \* the checkpoint's index, history link and rows
  failing,    \* lastSaveErrorValue is set
  raced       \* whether a file was closed while it was being uploaded

vars == <<boot, chat, tip, due, files, newest, dirty, saver, snapshot, uploads, checkpoint, raced, failing>>

File == [from : 0 .. MaxRows, to : -1 .. MaxRows - 1, prev : Int, savedAs : Nat]

RowsOf(f) == f.from .. f.to
LastRow(link) == IF link = Null THEN -1 ELSE uploads[link].to

EmptyFile(from, prev) == [from |-> from, to |-> from - 1, prev |-> prev, savedAs |-> Null]

FirstCheckpoint == [index |-> -1, history |-> Null, rows |-> {}]
NoUpload == EmptyFile(0, Null)

Init ==
  /\ boot = 1 /\ chat = "up" /\ tip = -1 /\ due = 0
  /\ files = <<EmptyFile(0, Null)>>
  /\ newest = Null /\ dirty = FALSE /\ saver = "idle"
  /\ snapshot = NoUpload /\ uploads = <<>>
  /\ checkpoint = FirstCheckpoint
  /\ raced = FALSE /\ failing = FALSE

-----------------------------------------------------------------------------
(* What the publisher calls *)

\* Whether a file takes no further row: by its number of rows, or at any point by their bytes.
Full(f) == IF Cardinality(RowsOf(f)) >= MaxMessages THEN {TRUE} ELSE {FALSE, TRUE}

\* append(), for the row of the slot just confirmed.
Append1(fs, row) ==
  LET last == fs[Len(fs)] IN
  {IF full /\ RowsOf(last) # {}
     THEN Append(fs, [EmptyFile(row, Unset) EXCEPT !.to = row])
     ELSE [fs EXCEPT ![Len(fs)].to = row] : full \in Full(last)}

Confirm ==
  /\ chat = "up" /\ tip < MaxRows - 1
  /\ tip' = tip + 1 /\ due' = due + 1
  /\ files' \in Append1(files, tip + 1)
  /\ raced' = (raced \/ (saver = "uploading" /\ Len(files) = 1 /\ Len(files') = 2))
  /\ UNCHANGED <<boot, chat, newest, dirty, saver, snapshot, uploads, checkpoint, failing>>

Marks_WithoutFollowUp == dirty' = (dirty \/ saver = "idle")

\* A save follows the one that is running, if one is.
Marks == dirty' = TRUE

\* requestSave(), after a confirmation was recorded.
RequestSave ==
  /\ chat = "up" /\ due > 0
  /\ due' = due - 1
  /\ Marks
  /\ saver' = IF saver = "idle" THEN "turn" ELSE saver
  /\ UNCHANGED <<boot, chat, tip, files, newest, snapshot, uploads, checkpoint, raced, failing>>

RowsAfter_WithoutClosed(seq) == {r \in RowsOf(files[Len(files)]) : r > seq}

\* rowsAfter(), across the files not yet saved in their final form.
RowsAfter(seq) == UNION {{r \in RowsOf(files[i]) : r > seq} : i \in 1 .. Len(files)}

\* writeCheckpoint(), after a confirmation or a save.
WriteCheckpoint ==
  /\ chat = "up"
  /\ checkpoint' = [index |-> tip, history |-> newest, rows |-> RowsAfter(LastRow(newest))]
  /\ UNCHANGED <<boot, chat, tip, due, files, newest, dirty, saver, snapshot, uploads, raced, failing>>

-----------------------------------------------------------------------------
(* saveUntilClean() *)

\* The file before the next one is saved, so it is dropped and the next one links to it.
Rolls(fs, marked) ==
  IF Len(fs) > 1
    THEN files' = [Tail(fs) EXCEPT ![1].prev = fs[1].savedAs] /\ dirty' = TRUE
    ELSE files' = fs /\ dirty' = marked

SaverReturns ==
  /\ saver = "turn" /\ ~dirty
  /\ saver' = "idle"
  /\ UNCHANGED <<boot, chat, tip, due, files, newest, dirty, snapshot, uploads, checkpoint, raced, failing>>

\* saveIntervalMs since the last upload began may not have passed. The clock is not modelled.
SaverWaits ==
  /\ saver = "turn" /\ dirty
  /\ saver' = "waiting"
  /\ UNCHANGED <<boot, chat, tip, due, files, newest, dirty, snapshot, uploads, checkpoint, raced, failing>>

\* Takes up the oldest file that is not saved in its final form.
SaverGoesOn ==
  /\ (saver = "turn" /\ dirty) \/ saver = "waiting"
  /\ LET first == files[1] IN
     IF first.prev = Unset \/ RowsOf(first) = {}
       THEN saver' = "idle" /\ dirty' = FALSE /\ UNCHANGED <<files, snapshot>>
     ELSE IF first.savedAs # Null /\ LastRow(first.savedAs) = first.to
       THEN saver' = "turn" /\ Rolls(files, FALSE) /\ UNCHANGED snapshot
     ELSE saver' = "uploading" /\ snapshot' = first /\ dirty' = FALSE /\ UNCHANGED files
  /\ UNCHANGED <<boot, chat, tip, due, newest, uploads, checkpoint, raced, failing>>

UploadEnds == saver = "uploading" /\ snapshot' = NoUpload

\* The file before the current one is dropped if there is a current one now, whatever there was when the upload began.
UploadSucceeds ==
  /\ UploadEnds
  /\ uploads' = Append(uploads, snapshot)
  /\ LET ref == Len(uploads) + 1 IN
     /\ newest' = IF newest = Null \/ snapshot.to >= LastRow(newest) THEN ref ELSE newest
     /\ Rolls([files EXCEPT ![1].savedAs = ref], dirty)
  /\ saver' = "turn" /\ failing' = FALSE
  /\ UNCHANGED <<boot, chat, tip, due, checkpoint, raced>>

UploadFails_WithRoll ==
  /\ UploadEnds
  /\ Rolls(files, TRUE)
  /\ saver' = "idle" /\ failing' = TRUE
  /\ UNCHANGED <<boot, chat, tip, due, newest, uploads, checkpoint, raced>>

\* saveWithRetries() gave up. The next request tries again.
UploadFails ==
  /\ UploadEnds
  /\ dirty' = TRUE /\ saver' = "idle" /\ failing' = TRUE
  /\ UNCHANGED <<boot, chat, tip, due, files, newest, uploads, checkpoint, raced>>

-----------------------------------------------------------------------------
(* Crashing and restarting *)

Crash ==
  /\ chat = "up" /\ boot < MaxBoots
  /\ chat' = "down"
  /\ tip' = -1 /\ due' = 0
  /\ files' = <<EmptyFile(0, Null)>> /\ newest' = Null
  /\ dirty' = FALSE /\ saver' = "idle" /\ snapshot' = NoUpload /\ failing' = FALSE
  /\ UNCHANGED <<boot, uploads, checkpoint, raced>>

\* The check resumeFromCheckpoint() makes of the rows.
RowsRunOn(c) == c.rows = (LastRow(c.history) + 1) .. c.index

StartFiles_WithOverlap(link) ==
  IF link = Null THEN {EmptyFile(0, Null)}
  ELSE {[from |-> uploads[link].from, to |-> uploads[link].to, prev |-> uploads[link].prev, savedAs |-> link],
        EmptyFile(uploads[link].to, link)}

\* historyStart(): no file yet, the one last saved, or one that could not be downloaded.
StartFiles(link) ==
  IF link = Null THEN {EmptyFile(0, Null)}
  ELSE {[from |-> uploads[link].from, to |-> uploads[link].to, prev |-> uploads[link].prev, savedAs |-> link],
        EmptyFile(uploads[link].to + 1, link)}

\* The files that may come of a first one when the rows after it are added up to a last one, as append() does one by
\* one: each file but the first begins where one took no further row.
Restored(start, last) ==
  {fs \in UNION {{[i \in 1 .. n + 1 |-> [from    |-> IF i = 1 THEN start.from ELSE begins[i - 1],
                                        to      |-> IF i = n + 1 THEN last ELSE begins[i] - 1,
                                        prev    |-> IF i = 1 THEN start.prev ELSE Unset,
                                        savedAs |-> IF i = 1 THEN start.savedAs ELSE Null]] :
                   begins \in [1 .. n -> start.to + 1 .. last]} : n \in 0 .. last - start.to} :
     /\ \A i \in 1 .. Len(fs) : Cardinality(RowsOf(fs[i])) <= MaxMessages
     /\ Len(fs) > 1 => \A i \in 1 .. Len(fs) : RowsOf(fs[i]) # {}}

\* restore(), and the save resumeFromCheckpoint() asks for when there are rows to save.
Restart ==
  /\ chat = "down" /\ RowsRunOn(checkpoint)
  /\ boot' = boot + 1 /\ chat' = "up"
  /\ tip' = checkpoint.index
  /\ newest' = checkpoint.history
  /\ \E start \in StartFiles(checkpoint.history) : files' \in Restored(start, checkpoint.index)
  /\ dirty' = (checkpoint.rows # {})
  /\ saver' = IF checkpoint.rows # {} THEN "turn" ELSE "idle"
  /\ UNCHANGED <<due, snapshot, uploads, checkpoint, raced, failing>>

\* A checkpoint whose rows do not run on blocks the chat.
RestartBlocks ==
  /\ chat = "down" /\ ~RowsRunOn(checkpoint)
  /\ chat' = "blocked"
  /\ UNCHANGED <<boot, tip, due, files, newest, dirty, saver, snapshot, uploads, checkpoint, raced, failing>>

Saver == SaverReturns \/ SaverWaits \/ SaverGoesOn \/ UploadSucceeds \/ UploadFails

Next ==
  \/ Confirm \/ RequestSave \/ WriteCheckpoint
  \/ Saver
  \/ Crash \/ Restart \/ RestartBlocks

Spec == Init /\ [][Next]_vars

\* Uploads answer or time out, timers fire, and a confirmation goes on to request its save.
FairSpec == Spec /\ WF_vars(Saver) /\ WF_vars(RequestSave)

-----------------------------------------------------------------------------
(* Properties *)

\* Every variable holds a value of its type, and no file outgrows its limit.
TypeOK ==
  /\ boot \in 1 .. MaxBoots /\ chat \in {"up", "down", "blocked"}
  /\ tip \in -1 .. MaxRows - 1 /\ due \in 0 .. MaxRows
  /\ \A i \in 1 .. Len(files) : files[i] \in File /\ Cardinality(RowsOf(files[i])) <= MaxMessages
  /\ newest \in 0 .. Len(uploads)
  /\ dirty \in BOOLEAN /\ raced \in BOOLEAN /\ failing \in BOOLEAN
  /\ saver \in {"idle", "turn", "waiting", "uploading"}
  /\ snapshot \in File
  /\ \A i \in 1 .. Len(uploads) : uploads[i] \in File /\ uploads[i].prev \in 0 .. i - 1
  /\ checkpoint.index \in -1 .. MaxRows - 1 /\ checkpoint.history \in 0 .. Len(uploads)

\* The rows a reader finds who starts from a link and follows prev.
Reachable[link \in 0 .. Len(uploads)] ==
  IF link = Null THEN {} ELSE RowsOf(uploads[link]) \cup Reachable[uploads[link].prev]

(* No published row is lost from the history (README "The history file"): every row confirmed is in a file reachable
   from the newest link, or still in memory to be saved, as long as no file was closed during its own upload. *)
RowsKept == ~raced => \A r \in 0 .. tip : r \in Reachable[newest] \cup RowsAfter(-1)

(* Nothing is lost by a crash either: the rows of the checkpoint run on from the file it links to, so that together
   they hold every row up to its index and the chat resumes, again unless a file was closed during its own upload. *)
CheckpointCompletes ==
  ~raced => RowsRunOn(checkpoint) /\ 0 .. checkpoint.index \subseteq Reachable[checkpoint.history] \cup checkpoint.rows

(* Following prev from any file leads strictly back, so a reader sees no row twice and no cycle, even after lost
   files, restarts from an older checkpoint and files closed during their upload. Every file that is linked to exists,
   and none outgrows its limit. *)
LinksLeadBack ==
  /\ TypeOK
  /\ \A i \in 1 .. Len(uploads) : uploads[i].prev # Null => uploads[uploads[i].prev].to < uploads[i].from

(* A burst ends saved (README, "Messages published during a save go into the next save"): while the chat stays up and
   its last upload did not fail for good, the newest file comes to hold every confirmed row. *)
SavedInTheEnd == []<>(LastRow(newest) >= tip \/ failing \/ chat # "up")

(* README: "A restart continues exactly where the checkpoint says". Refuted: a file
   closed while its upload runs is dropped although only its first rows were uploaded. The rows dropped leave a gap
   after the file the checkpoint links to, which the next start refuses as damaged. *)
NeverBlocked == chat # "blocked"
=============================================================================
