--------------------------- MODULE HistoryBookProofs ---------------------------
(***************************************************************************)
(* The safety of HistoryBook for every number of rows, every limit and     *)
(* every number of restarts: links lead strictly back, and as long as no   *)
(* file was closed during its own upload every published row is in a file  *)
(* that the newest link leads to or still kept, in memory and for the next *)
(* start.                                                                  *)
(***************************************************************************)
EXTENDS HistoryBook, FiniteSetTheorems, SequenceTheorems, TLAPS

-----------------------------------------------------------------------------
(* The inductive invariant *)

Links == 0 .. Len(uploads)

\* A file leads back: to no file, or to one whose rows end before its own, and without a race just before.
LeadsBack(from, prev) ==
  /\ prev \in Links
  /\ LastRow(prev) < from
  /\ ~raced => from = LastRow(prev) + 1

Fits(f) == Cardinality(RowsOf(f)) <= MaxMessages

UploadsOK ==
  /\ uploads \in Seq(File)
  /\ \A i \in 1 .. Len(uploads) :
       /\ uploads[i].from <= uploads[i].to /\ Fits(uploads[i])
       /\ uploads[i].prev < i /\ LeadsBack(uploads[i].from, uploads[i].prev)

\* The files in memory follow each other up to the last row confirmed. Only the first may have been uploaded.
FollowUpTo(fs, last) ==
  /\ fs \in Seq(File) /\ Len(fs) >= 1
  /\ \A i \in 1 .. Len(fs) : Fits(fs[i]) /\ fs[i].from <= fs[i].to + 1
  /\ Len(fs) > 1 => \A i \in 1 .. Len(fs) : fs[i].from <= fs[i].to
  /\ \A i \in 1 .. Len(fs) - 1 : fs[i + 1].from = fs[i].to + 1
  /\ \A i \in 2 .. Len(fs) : fs[i].prev = Unset /\ fs[i].savedAs = Null
  /\ fs[Len(fs)].to = last

FilesOK == FollowUpTo(files, tip)

\* An upload of a file, which holds its first rows.
UploadOf(f, first) == f.from = first.from /\ f.prev = first.prev /\ f.to <= first.to

FirstOK ==
  /\ LeadsBack(files[1].from, files[1].prev)
  /\ files[1].savedAs \in Links
  /\ files[1].savedAs # Null => UploadOf(uploads[files[1].savedAs], files[1])

SnapshotOK ==
  /\ snapshot \in File
  /\ saver = "uploading" =>
       /\ UploadOf(snapshot, files[1]) /\ snapshot.from <= snapshot.to /\ Fits(snapshot)
       /\ ~raced /\ Len(files) > 1 => snapshot.to = files[1].to

\* The newest link leads to what the files in memory follow.
NewestOK ==
  /\ newest \in Links
  /\ LastRow(newest) <= tip
  /\ LastRow(newest) >= LastRow(files[1].prev) /\ LastRow(newest) >= LastRow(files[1].savedAs)

CheckpointOK ==
  /\ checkpoint.index \in -1 .. MaxRows - 1 /\ checkpoint.history \in Links
  /\ LastRow(checkpoint.history) <= checkpoint.index
  /\ ~raced => RowsRunOn(checkpoint)

ScalarsOK ==
  /\ boot \in 1 .. MaxBoots /\ chat \in {"up", "down", "blocked"}
  /\ tip \in -1 .. MaxRows - 1 /\ due \in 0 .. tip + 1
  /\ dirty \in BOOLEAN /\ raced \in BOOLEAN /\ failing \in BOOLEAN
  /\ saver \in {"idle", "turn", "waiting", "uploading"}

\* Without a process nothing is kept in memory.
DownOK == chat # "up" => saver = "idle" /\ tip = -1 /\ due = 0 /\ boot \in 1 .. MaxBoots /\ (chat = "down" => boot < MaxBoots)

IInv == ScalarsOK /\ UploadsOK /\ FilesOK /\ FirstOK /\ SnapshotOK /\ NewestOK /\ CheckpointOK /\ DownOK

-----------------------------------------------------------------------------
(* Lemmas about files *)

LEMMA FileType ==
  ASSUME NEW f \in File
  PROVE  /\ f.from \in 0 .. MaxRows /\ f.to \in -1 .. MaxRows - 1 /\ f.prev \in Int /\ f.savedAs \in Nat
         /\ f.from \in Int /\ f.to \in Int /\ f.to >= -1
BY ConstantsAssumption DEF File

LEMMA IsFile ==
  ASSUME NEW a \in 0 .. MaxRows, NEW b \in -1 .. MaxRows - 1, NEW p \in Int, NEW s \in Nat
  PROVE  [from |-> a, to |-> b, prev |-> p, savedAs |-> s] \in File
BY DEF File

LEMMA SizeIs ==
  ASSUME NEW a \in Int, NEW b \in Int
  PROVE  Cardinality(a .. b) = IF a > b THEN 0 ELSE b - a + 1
BY FS_Interval

\* A file by its first and last row fits if there are no more than MaxMessages of them.
LEMMA FitsIs ==
  ASSUME NEW f, f.from \in Int, f.to \in Int
  PROVE  /\ Fits(f) <=> f.to - f.from < MaxMessages
         /\ (Cardinality(RowsOf(f)) >= MaxMessages) <=> f.to - f.from + 1 >= MaxMessages
         /\ RowsOf(f) # {} <=> f.from <= f.to
<1>1. Cardinality(RowsOf(f)) = IF f.from > f.to THEN 0 ELSE f.to - f.from + 1
  BY SizeIs DEF RowsOf
<1>2. RowsOf(f) # {} <=> f.from <= f.to
  BY DEF RowsOf
<1>3. MaxMessages \in Nat /\ MaxMessages >= 1
  BY ConstantsAssumption
<1>4. CASE f.from > f.to
  <2>1. f.to - f.from < 0
    BY <1>4
  <2> QED
    BY <1>1, <1>2, <1>3, <1>4, <2>1 DEF Fits
<1>5. CASE f.from <= f.to
  BY <1>1, <1>2, <1>3, <1>5 DEF Fits
<1> QED
  BY <1>4, <1>5

LEMMA FilesAre ==
  ASSUME NEW fs \in Seq(File)
  PROVE  /\ Len(fs) \in Nat /\ DOMAIN fs = 1 .. Len(fs) /\ fs \in [1 .. Len(fs) -> File]
         /\ \A i \in 1 .. Len(fs) : fs[i] \in File /\ fs[i].from \in Int /\ fs[i].to \in Int
BY LenProperties, ElementOfSeq, FileType

\* The first of several files is dropped, and the next one links back.
LEMMA DroppingFirst ==
  ASSUME NEW fs, NEW last, FollowUpTo(fs, last), Len(fs) > 1, NEW link \in Int
  PROVE  /\ FollowUpTo([Tail(fs) EXCEPT ![1].prev = link], last)
         /\ [Tail(fs) EXCEPT ![1].prev = link][1] = [fs[2] EXCEPT !.prev = link]
<1> DEFINE rest == Tail(fs)
           gs == [rest EXCEPT ![1].prev = link]
<1>1. fs \in Seq(File) /\ Len(fs) \in Nat /\ fs # <<>>
  BY FilesAre DEF FollowUpTo
<1>2. rest \in Seq(File) /\ Len(rest) = Len(fs) - 1 /\ \A i \in 1 .. Len(fs) - 1 : rest[i] = fs[i + 1]
  BY <1>1, HeadTailProperties
<1> HIDE DEF rest
<1>3. rest \in [1 .. Len(fs) - 1 -> File] /\ 1 \in 1 .. Len(fs) - 1 /\ DOMAIN rest = 1 .. Len(fs) - 1
  BY <1>1, <1>2, FilesAre
<1>4. [rest[1] EXCEPT !.prev = link] \in File
  <2>1. rest[1] \in File
    BY <1>3
  <2> QED
    BY <2>1 DEF File
<1>5. gs = [rest EXCEPT ![1] = [rest[1] EXCEPT !.prev = link]]
  BY <1>3
<1>6. gs \in Seq(File) /\ Len(gs) = Len(rest)
      /\ \A i \in 1 .. Len(rest) : gs[i] = IF i = 1 THEN [rest[1] EXCEPT !.prev = link] ELSE rest[i]
  BY <1>2, <1>3, <1>4, <1>5, ExceptSeq
<1> HIDE DEF gs
<1>7. /\ gs[1] = [fs[2] EXCEPT !.prev = link]
      /\ \A i \in 2 .. Len(fs) - 1 : gs[i] = fs[i + 1]
  BY <1>1, <1>2, <1>6, SMTT(60)
<1>8. \A i \in 1 .. Len(fs) - 1 : gs[i].from = fs[i + 1].from /\ gs[i].to = fs[i + 1].to
  <2>1. fs[2] \in File
    BY <1>1, FilesAre
  <2>2. gs[1].from = fs[2].from /\ gs[1].to = fs[2].to
    BY <1>7, <2>1 DEF File
  <2>3. \A i \in 2 .. Len(fs) - 1 : gs[i].from = fs[i + 1].from /\ gs[i].to = fs[i + 1].to
    BY <1>7
  <2>4. \A i \in 1 .. Len(fs) - 1 : i = 1 \/ i \in 2 .. Len(fs) - 1
    BY <1>1
  <2> QED
    BY <2>2, <2>3, <2>4
<1>9. \A i \in 1 .. Len(fs) - 1 : Fits(gs[i])
  BY <1>1, <1>8 DEF FollowUpTo, Fits, RowsOf
<1>10. /\ \A i \in 1 .. Len(fs) - 1 : gs[i].from <= gs[i].to + 1 /\ gs[i].from <= gs[i].to
       /\ \A i \in 1 .. Len(fs) - 2 : gs[i + 1].from = gs[i].to + 1
       /\ gs[Len(fs) - 1].to = last
  BY <1>1, <1>8 DEF FollowUpTo
<1>11. \A i \in 2 .. Len(fs) - 1 : gs[i].prev = Unset /\ gs[i].savedAs = Null
  BY <1>1, <1>7, SMTT(60) DEF FollowUpTo
<1> QED
  BY <1>1, <1>2, <1>6, <1>7, <1>9, <1>10, <1>11 DEF FollowUpTo, gs, rest

\* The first file was uploaded.
LEMMA SavingFirst ==
  ASSUME NEW fs, NEW last, FollowUpTo(fs, last), NEW link \in Nat
  PROVE  /\ FollowUpTo([fs EXCEPT ![1].savedAs = link], last)
         /\ Len([fs EXCEPT ![1].savedAs = link]) = Len(fs)
         /\ [fs EXCEPT ![1].savedAs = link][1] = [fs[1] EXCEPT !.savedAs = link]
         /\ \A i \in 2 .. Len(fs) : [fs EXCEPT ![1].savedAs = link][i] = fs[i]
<1> DEFINE gs == [fs EXCEPT ![1].savedAs = link]
<1>1. fs \in Seq(File) /\ Len(fs) \in Nat /\ 1 \in 1 .. Len(fs) /\ fs \in [1 .. Len(fs) -> File]
  BY FilesAre DEF FollowUpTo
<1>2. fs[1] \in File /\ [fs[1] EXCEPT !.savedAs = link] \in File
  <2>1. fs[1] \in File
    BY <1>1
  <2> QED
    BY <2>1 DEF File
<1>3. gs = [fs EXCEPT ![1] = [fs[1] EXCEPT !.savedAs = link]]
  BY <1>1
<1>4. gs \in Seq(File) /\ Len(gs) = Len(fs)
      /\ \A i \in 1 .. Len(fs) : gs[i] = IF i = 1 THEN [fs[1] EXCEPT !.savedAs = link] ELSE fs[i]
  BY <1>1, <1>2, <1>3, ExceptSeq
<1> HIDE DEF gs
<1>5. gs[1] = [fs[1] EXCEPT !.savedAs = link] /\ \A i \in 2 .. Len(fs) : gs[i] = fs[i]
  BY <1>1, <1>4
<1>6. \A i \in 1 .. Len(fs) : gs[i].from = fs[i].from /\ gs[i].to = fs[i].to
  <2>1. gs[1].from = fs[1].from /\ gs[1].to = fs[1].to
    BY <1>2, <1>5 DEF File
  <2>2. \A i \in 2 .. Len(fs) : gs[i].from = fs[i].from /\ gs[i].to = fs[i].to
    BY <1>5
  <2>3. \A i \in 1 .. Len(fs) : i = 1 \/ i \in 2 .. Len(fs)
    BY <1>1
  <2> QED
    BY <2>1, <2>2, <2>3
<1>7. \A i \in 1 .. Len(fs) : Fits(gs[i])
  BY <1>6 DEF FollowUpTo, Fits, RowsOf
<1> QED
  BY <1>1, <1>4, <1>5, <1>6, <1>7 DEF FollowUpTo, gs

\* A set of numbers that is not empty has a smallest one, and if it is bounded a largest one.
LEMMA SmallestExists ==
  ASSUME NEW n \in Nat, NEW T \in SUBSET (0 .. n), T # {}
  PROVE  \E x \in T : \A y \in T : x <= y
<1> DEFINE C(t) == 0 .. t
           F == {C(t) : t \in T}
           R == StrictSubsetOrdering(0 .. n)
           S == FiniteSubsetsOf(0 .. n)
<1>1. IsWellFoundedOn(R, S)
  BY FS_StrictSubsetOrderingWellFounded
<1>2. \A t \in T : C(t) \in S
  BY FS_Interval, FS_FiniteSubsetsOfFinite
<1>3. \A x, y \in T : x < y => <<C(x), C(y)>> \in R
  BY DEF StrictSubsetOrdering
<1>4. F \subseteq S
  BY <1>2
<1>5. F # {}
  OBVIOUS
<1>6. \E x \in F : \A y \in F : <<y, x>> \notin R
  <2> HIDE DEF R, S, F
  <2> QED
    BY <1>1, <1>4, <1>5, WFMin
<1>7. PICK t \in T : \A u \in T : <<C(u), C(t)>> \notin R
  BY <1>6
<1>8. \A u \in T : ~(u < t)
  BY <1>3, <1>7
<1> QED
  BY <1>8

LEMMA LargestExists ==
  ASSUME NEW n \in Nat, NEW T \in SUBSET (0 .. n), T # {}
  PROVE  \E x \in T : \A y \in T : y <= x
<1> DEFINE M == {n - t : t \in T}
<1>1. M \in SUBSET (0 .. n) /\ M # {}
  <2>1. \A t \in T : n - t \in 0 .. n /\ n - t \in M
    OBVIOUS
  <2> QED
    BY <2>1
<1>2. PICK x \in M : \A y \in M : x <= y
  <2> HIDE DEF M
  <2> QED
    BY <1>1, SmallestExists
<1>3. PICK t \in T : x = n - t
  BY <1>2
<1>4. \A u \in T : n - t <= n - u
  BY <1>2, <1>3
<1> QED
  BY <1>4

\* append(): a row goes to the current file, or to one after it.
LEMMA Appending ==
  ASSUME NEW fs, NEW last \in Int, FollowUpTo(fs, last), last >= -1, last + 1 <= MaxRows - 1, NEW gs \in Append1(fs, last + 1)
  PROVE  /\ FollowUpTo(gs, last + 1)
         /\ gs[1].from = fs[1].from /\ gs[1].prev = fs[1].prev /\ gs[1].savedAs = fs[1].savedAs
         /\ fs[1].to <= gs[1].to
         /\ Len(fs) > 1 => gs[1].to = fs[1].to
         /\ Len(gs) \in {Len(fs), Len(fs) + 1}
<1> DEFINE n == Len(fs)
           f == fs[n]
           new == [EmptyFile(last + 1, Unset) EXCEPT !.to = last + 1]
           longer == [f EXCEPT !.to = last + 1]
<1>1. fs \in Seq(File) /\ n \in Nat /\ n >= 1 /\ fs \in [1 .. n -> File] /\ DOMAIN fs = 1 .. n /\ n = Len(fs)
  BY FilesAre DEF FollowUpTo
<1>0. /\ n > 1 => \A i \in 1 .. n : fs[i].from <= fs[i].to
      /\ \A i \in 1 .. n - 1 : fs[i + 1].from = fs[i].to + 1
      /\ \A i \in 2 .. n : fs[i].prev = Unset /\ fs[i].savedAs = Null
  BY DEF FollowUpTo
<1>2. f \in File /\ f.to = last /\ f.from <= last + 1 /\ f.from \in Int /\ Fits(f)
  BY <1>1, FileType DEF FollowUpTo
<1>3. MaxRows \in Nat /\ MaxMessages \in Nat \ {0}
  BY ConstantsAssumption
<1>4. new = [from |-> last + 1, to |-> last + 1, prev |-> Unset, savedAs |-> Null]
  BY DEF EmptyFile
<1>5. new \in File /\ Fits(new)
  <2>1. new.from = last + 1 /\ new.to = last + 1 /\ new.prev = Unset /\ new.savedAs = Null
    BY <1>4
  <2>2. Fits(new)
    <3>1. new.from \in Int /\ new.to \in Int /\ new.to - new.from = 0
      BY <2>1
    <3> HIDE DEF new
    <3> QED
      BY <1>3, <3>1, FitsIs
  <2> QED
    BY <1>3, <1>4, <2>2 DEF File, Unset, Null
<1>6. longer \in File /\ longer.from = f.from /\ longer.to = last + 1 /\ longer.prev = f.prev /\ longer.savedAs = f.savedAs
  BY <1>2, <1>3, SMTT(60) DEF File
<1>7. \A i \in 1 .. n : fs[i] \in File /\ Fits(fs[i]) /\ fs[i].from \in Int /\ fs[i].to \in Int /\ fs[i].from <= fs[i].to + 1
  BY <1>1, FilesAre DEF FollowUpTo
<1>8. PICK full \in Full(f) : gs = IF full /\ RowsOf(f) # {} THEN Append(fs, new) ELSE [fs EXCEPT ![n].to = last + 1]
  BY DEF Append1
<1>11. f = fs[n]
  OBVIOUS
<1>12. n \in Nat /\ n >= 1 /\ 1 \in 1 .. n /\ n \in 1 .. n
  BY <1>1
<1> HIDE DEF new, longer, n, f
<1>9. CASE full /\ RowsOf(f) # {}
  <2>1. /\ gs \in Seq(File) /\ Len(gs) = n + 1
        /\ \A i \in 1 .. n : gs[i] = fs[i]
        /\ gs[n + 1] = new
    BY <1>1, <1>5, <1>8, <1>9, AppendProperties
  <2>2. new.from = last + 1 /\ new.to = last + 1 /\ new.prev = Unset /\ new.savedAs = Null
    BY <1>4
  <2>3. f.from <= f.to
    BY <1>2, <1>9, FitsIs
  <2>4. \A i \in 1 .. n + 1 : i \in 1 .. n \/ i = n + 1
    BY <1>1
  <2>5. \A i \in 1 .. n : fs[i].from <= fs[i].to
    <3>1. CASE n = 1
      BY <1>11, <2>3, <3>1
    <3>2. CASE n > 1
      BY <1>0, <3>2
    <3> QED
      BY <1>1, <3>1, <3>2
  <2>6. \A i \in 1 .. n + 1 : Fits(gs[i]) /\ gs[i].from <= gs[i].to + 1 /\ gs[i].from <= gs[i].to
    BY <1>5, <1>7, <2>1, <2>2, <2>4, <2>5
  <2>7. \A i \in 1 .. n : gs[i + 1].from = gs[i].to + 1
    <3>1. \A i \in 1 .. n - 1 : fs[i + 1].from = fs[i].to + 1
      BY <1>0
    <3>2. \A i \in 1 .. n : i = n \/ (i \in 1 .. n - 1 /\ i + 1 \in 1 .. n)
      BY <1>12
    <3>3. n \in 1 .. n
      BY <1>1
    <3> QED
      BY <1>2, <1>11, <2>1, <2>2, <3>1, <3>2, <3>3
  <2>8. \A i \in 2 .. n + 1 : gs[i].prev = Unset /\ gs[i].savedAs = Null
    <3>1. \A i \in 2 .. n + 1 : i = n + 1 \/ (i \in 2 .. n /\ i \in 1 .. n)
      BY <1>1
    <3>2. \A i \in 2 .. n : fs[i].prev = Unset /\ fs[i].savedAs = Null
      BY <1>0
    <3> QED
      BY <2>1, <2>2, <3>1, <3>2
  <2>9. FollowUpTo(gs, last + 1)
    <3>1. Len(gs) - 1 = n /\ Len(gs) >= 1
      BY <1>1, <2>1
    <3> QED
      BY <2>1, <2>2, <2>6, <2>7, <2>8, <3>1 DEF FollowUpTo
  <2>10. gs[1] = fs[1] /\ fs[1].to \in Int
    BY <1>1, <1>7, <2>1, SMTT(60)
  <2> QED
    BY <1>1, <2>1, <2>9, <2>10
<1>10. CASE ~(full /\ RowsOf(f) # {})
  <2>1. gs = [fs EXCEPT ![n] = longer]
    BY <1>1, <1>8, <1>10, <1>11 DEF longer
  <2>2. /\ gs \in Seq(File) /\ Len(gs) = n
        /\ \A i \in 1 .. n : gs[i] = IF i = n THEN longer ELSE fs[i]
    BY <1>1, <1>6, <2>1, ExceptSeq
  <2>3. Fits(longer)
    <3>1. CASE RowsOf(f) # {}
      <4>1. ~(Cardinality(RowsOf(f)) >= MaxMessages)
        BY <1>8, <1>10, <3>1 DEF Full
      <4>2. ~(f.to - f.from + 1 >= MaxMessages)
        BY <1>2, <4>1, FitsIs
      <4> QED
        BY <1>2, <1>3, <1>6, <4>2, FitsIs
    <3>2. CASE RowsOf(f) = {}
      <4>1. ~(f.from <= f.to)
        BY <1>2, <3>2, FitsIs
      <4>2. longer.to - longer.from < MaxMessages /\ longer.from \in Int /\ longer.to \in Int
        BY <1>2, <1>3, <1>6, <4>1
      <4> QED
        BY <4>2, FitsIs
    <3> QED
      BY <3>1, <3>2
  <2>4. \A i \in 1 .. n : /\ gs[i].from = fs[i].from /\ gs[i].prev = fs[i].prev /\ gs[i].savedAs = fs[i].savedAs
                          /\ gs[i].to = IF i = n THEN last + 1 ELSE fs[i].to
    BY <1>6, <1>11, <2>2
  <2>5. \A i \in 1 .. n : Fits(gs[i])
    BY <1>7, <2>2, <2>3
  <2>6. \A i \in 1 .. n : gs[i].from <= gs[i].to + 1 /\ (n > 1 => gs[i].from <= gs[i].to)
    BY <1>0, <1>2, <1>7, <1>11, <2>4
  <2>7. \A i \in 1 .. n - 1 : gs[i + 1].from = gs[i].to + 1
    <3>1. \A i \in 1 .. n - 1 : i \in 1 .. n /\ i + 1 \in 1 .. n /\ i # n
      BY <1>12
    <3> SUFFICES ASSUME NEW i \in 1 .. n - 1 PROVE gs[i + 1].from = gs[i].to + 1
      OBVIOUS
    <3>2. fs[i + 1].from = fs[i].to + 1
      BY <1>0
    <3> QED
      BY <2>4, <3>1, <3>2
  <2>8. \A i \in 2 .. n : gs[i].prev = Unset /\ gs[i].savedAs = Null
    BY <1>0, <1>1, <2>4, SMTT(60)
  <2>9. FollowUpTo(gs, last + 1)
    <3>1. gs[n].to = last + 1
      BY <1>1, <2>4
    <3> QED
      BY <1>1, <2>2, <2>5, <2>6, <2>7, <2>8, <3>1 DEF FollowUpTo
  <2>10. fs[1].to \in Int /\ (n = 1 => fs[1].to = last)
    BY <1>2, <1>7, <1>11, <1>12
  <2>11. /\ gs[1].from = fs[1].from /\ gs[1].prev = fs[1].prev /\ gs[1].savedAs = fs[1].savedAs
         /\ gs[1].to = IF 1 = n THEN last + 1 ELSE fs[1].to
    BY <1>12, <2>4
  <2>12. fs[1].to <= gs[1].to
    BY <2>10, <2>11
  <2>13. Len(fs) > 1 => gs[1].to = fs[1].to
    BY <1>1, <2>11
  <2> QED
    BY <1>1, <2>2, <2>9, <2>11, <2>12, <2>13, ZenonT(60)
<1> QED
  BY <1>9, <1>10

\* The rows in memory are those from the first file's on.
LEMMA RowsInFiles ==
  ASSUME NEW fs, NEW last \in Int, FollowUpTo(fs, last)
  PROVE  /\ \A i \in 1 .. Len(fs) : RowsOf(fs[i]) \subseteq fs[1].from .. last
         /\ \A r \in fs[1].from .. last : \E i \in 1 .. Len(fs) : r \in RowsOf(fs[i])
         /\ fs[1].from \in Int /\ fs[1].from <= last + 1
<1> DEFINE n == Len(fs)
<1>1. fs \in Seq(File) /\ n \in Nat /\ n >= 1 /\ 1 \in 1 .. n /\ n \in 1 .. n /\ fs[n].to = last
  BY FilesAre DEF FollowUpTo
<1>2. \A i \in 1 .. n : fs[i].from \in Int /\ fs[i].to \in Int /\ fs[i].from <= fs[i].to + 1
  BY <1>1, FilesAre DEF FollowUpTo
<1>3. \A i \in 1 .. n - 1 : i \in 1 .. n /\ i + 1 \in 1 .. n /\ fs[i + 1].from = fs[i].to + 1
  BY <1>1 DEF FollowUpTo
<1> HIDE DEF n
<1>4. \A i \in 1 .. n : fs[1].from <= fs[i].from
  <2> DEFINE T == {i \in 1 .. n : fs[i].from < fs[1].from}
  <2> SUFFICES ASSUME T # {} PROVE FALSE
    BY <1>1, <1>2, SMTT(60)
  <2>1. T \in SUBSET (0 .. n)
    BY <1>1
  <2>2. PICK i \in T : \A j \in T : i <= j
    <3> HIDE DEF T
    <3> QED
      BY <1>1, <2>1, SmallestExists
  <2>3. i \in 1 .. n /\ i # 1 /\ fs[i].from < fs[1].from
    BY <1>1, <1>2
  <2>4. i - 1 \in 1 .. n - 1 /\ (i - 1) + 1 = i /\ i - 1 \notin T
    BY <1>1, <2>2, <2>3
  <2>5. i - 1 \in 1 .. n /\ ~(fs[i - 1].from < fs[1].from) /\ fs[i].from = fs[i - 1].to + 1
    BY <1>3, <2>4
  <2>6. fs[i - 1].from \in Int /\ fs[i - 1].to \in Int /\ fs[i - 1].from <= fs[i - 1].to + 1 /\ fs[i].from \in Int
    BY <1>2, <2>3, <2>5
  <2>7. fs[1].from \in Int
    BY <1>1, <1>2
  <2> QED
    BY <2>3, <2>5, <2>6, <2>7
<1>5. \A i \in 1 .. n : fs[i].to <= last
  <2> DEFINE T == {i \in 1 .. n : fs[i].to > last}
  <2> SUFFICES ASSUME T # {} PROVE FALSE
    BY <1>1, <1>2, SMTT(60)
  <2>1. T \in SUBSET (0 .. n)
    BY <1>1
  <2>2. PICK i \in T : \A j \in T : j <= i
    <3> HIDE DEF T
    <3> QED
      BY <1>1, <2>1, LargestExists
  <2>3. i \in 1 .. n /\ i # n /\ fs[i].to > last
    BY <1>1, <1>2
  <2>4. i \in 1 .. n - 1 /\ i + 1 \notin T
    BY <1>1, <2>2, <2>3
  <2>5. i + 1 \in 1 .. n /\ ~(fs[i + 1].to > last) /\ fs[i + 1].from = fs[i].to + 1
    BY <1>3, <2>4
  <2> QED
    BY <1>1, <1>2, <2>3, <2>5, SMTT(60)
<1>6. ASSUME NEW r \in fs[1].from .. last PROVE \E i \in 1 .. n : r \in RowsOf(fs[i])
  <2> DEFINE T == {i \in 1 .. n : fs[i].to >= r}
  <2>0. r \in Int /\ r <= last /\ r >= fs[1].from
    BY <1>1, <1>2
  <2>1. T \in SUBSET (0 .. n) /\ T # {}
    <3>1. n \in T
      BY <1>1, <2>0
    <3> QED
      BY <1>1, <3>1
  <2>2. PICK i \in T : \A j \in T : i <= j
    <3> HIDE DEF T
    <3> QED
      BY <1>1, <2>1, SmallestExists
  <2>3. i \in 1 .. n /\ fs[i].to >= r
    OBVIOUS
  <2>4. fs[i].from <= r
    <3>1. CASE i = 1
      BY <2>0, <3>1
    <3>2. CASE i # 1
      <4>1. i - 1 \in 1 .. n - 1 /\ (i - 1) + 1 = i /\ i - 1 \notin T
        BY <1>1, <2>2, <2>3, <3>2
      <4>2. i - 1 \in 1 .. n /\ ~(fs[i - 1].to >= r) /\ fs[i].from = fs[i - 1].to + 1
        BY <1>3, <4>1
      <4> QED
        BY <1>2, <2>0, <4>2
    <3> QED
      BY <3>1, <3>2
  <2> QED
    BY <1>2, <2>0, <2>3, <2>4 DEF RowsOf
<1>7. fs[1].from <= last + 1
  BY <1>1, <1>2, <1>5
<1> QED
  BY <1>1, <1>2, <1>4, <1>5, <1>6, <1>7 DEF RowsOf, n

\* restore(): the rows of the checkpoint follow the file it starts from.
LEMMA Restoring ==
  ASSUME NEW start \in File, Fits(start), start.from <= start.to + 1,
         NEW last \in Int, start.to <= last, last <= MaxRows - 1, NEW fs \in Restored(start, last)
  PROVE  /\ FollowUpTo(fs, last)
         /\ fs[1].from = start.from /\ fs[1].prev = start.prev /\ fs[1].savedAs = start.savedAs
         /\ start.to <= fs[1].to
<1> DEFINE FileAt(m, b, i) == [from    |-> IF i = 1 THEN start.from ELSE b[i - 1],
                               to      |-> IF i = m + 1 THEN last ELSE b[i] - 1,
                               prev    |-> IF i = 1 THEN start.prev ELSE Unset,
                               savedAs |-> IF i = 1 THEN start.savedAs ELSE Null]
<1> DEFINE Begun(m, b) == [i \in 1 .. m + 1 |-> FileAt(m, b, i)]
           Choices(m) == [1 .. m -> start.to + 1 .. last]
<1>0. fs \in UNION {{Begun(n, begins) : begins \in Choices(n)} : n \in 0 .. last - start.to}
  BY DEF Restored
<1> HIDE DEF Begun, Choices, FileAt
<1>17. PICK n \in 0 .. last - start.to : \E begins \in Choices(n) : fs = Begun(n, begins)
  BY <1>0
<1>18. PICK begins \in Choices(n) : fs = Begun(n, begins)
  BY <1>17
<1>1. fs = [i \in 1 .. n + 1 |-> FileAt(n, begins, i)]
  BY <1>18 DEF Begun
<1>2. /\ \A i \in 1 .. Len(fs) : Cardinality(RowsOf(fs[i])) <= MaxMessages
      /\ Len(fs) > 1 => \A i \in 1 .. Len(fs) : RowsOf(fs[i]) # {}
  BY DEF Restored
<1>3. /\ start.from \in 0 .. MaxRows /\ start.to \in -1 .. MaxRows - 1 /\ start.prev \in Int /\ start.savedAs \in Nat
      /\ start.to \in Int /\ start.from \in Int
  BY FileType
<1>4. n \in Nat /\ MaxRows \in Nat
  BY <1>3, ConstantsAssumption
<1>5. \A i \in 1 .. n : begins[i] \in Int /\ start.to + 1 <= begins[i] /\ begins[i] <= last
  BY <1>3 DEF Choices
<1>6. \A i \in 1 .. n + 1 : /\ fs[i].from = IF i = 1 THEN start.from ELSE begins[i - 1]
                            /\ fs[i].to = IF i = n + 1 THEN last ELSE begins[i] - 1
                            /\ fs[i].prev = IF i = 1 THEN start.prev ELSE Unset
                            /\ fs[i].savedAs = IF i = 1 THEN start.savedAs ELSE Null
                            /\ fs[i] = FileAt(n, begins, i)
  BY <1>1 DEF FileAt
<1>7. ASSUME NEW i \in 1 .. n + 1
      PROVE  fs[i] \in File /\ fs[i].from \in Int /\ fs[i].to \in Int
  <2>1. fs[i].from \in 0 .. MaxRows
    <3>1. CASE i = 1
      BY <1>3, <1>6, <3>1
    <3>2. CASE i # 1
      <4>1. i - 1 \in 1 .. n /\ fs[i].from = begins[i - 1]
        BY <1>4, <1>6, <3>2
      <4>2. begins[i - 1] \in Int /\ start.to + 1 <= begins[i - 1] /\ begins[i - 1] <= last
        BY <1>5, <4>1
      <4> QED
        BY <1>3, <1>4, <4>1, <4>2
    <3> QED
      BY <3>1, <3>2
  <2>2. fs[i].to \in -1 .. MaxRows - 1
    <3>1. CASE i = n + 1
      BY <1>3, <1>4, <1>6, <3>1
    <3>2. CASE i # n + 1
      <4>1. i \in 1 .. n /\ fs[i].to = begins[i] - 1
        BY <1>4, <1>6, <3>2
      <4>2. begins[i] \in Int /\ start.to + 1 <= begins[i] /\ begins[i] <= last
        BY <1>5, <4>1
      <4> QED
        BY <1>3, <1>4, <4>1, <4>2
    <3> QED
      BY <3>1, <3>2
  <2>3. fs[i].prev \in Int /\ fs[i].savedAs \in Nat
    BY <1>3, <1>6 DEF Unset, Null
  <2>7. /\ fs[i].from = IF i = 1 THEN start.from ELSE begins[i - 1]
        /\ fs[i].to = IF i = n + 1 THEN last ELSE begins[i] - 1
        /\ fs[i].prev = IF i = 1 THEN start.prev ELSE Unset
        /\ fs[i].savedAs = IF i = 1 THEN start.savedAs ELSE Null
        /\ fs[i] = FileAt(n, begins, i)
    BY <1>6
  <2>4. fs[i] = [from |-> fs[i].from, to |-> fs[i].to, prev |-> fs[i].prev, savedAs |-> fs[i].savedAs]
    BY <2>7, Zenon DEF FileAt
  <2>6. [from |-> fs[i].from, to |-> fs[i].to, prev |-> fs[i].prev, savedAs |-> fs[i].savedAs] \in File
    BY <2>1, <2>2, <2>3, IsFile
  <2>5. fs[i] \in File
    BY <2>4, <2>6, Zenon
  <2> QED
    BY <2>5, FileType
<1>8. fs \in Seq(File) /\ Len(fs) = n + 1 /\ n + 1 \in Nat
  <2>1. fs \in [1 .. n + 1 -> File] /\ n + 1 \in Nat
    BY <1>1, <1>4, <1>7
  <2>2. fs \in Seq(File)
    BY <2>1, SeqDef
  <2>3. DOMAIN fs = 1 .. n + 1 /\ DOMAIN fs = 1 .. Len(fs) /\ Len(fs) \in Nat
    BY <2>1, <2>2, LenProperties
  <2> QED
    BY <2>1, <2>2, <2>3
<1> HIDE DEF FileAt
<1>9. n > 0 => \A i \in 1 .. n + 1 : fs[i].from <= fs[i].to
  BY <1>2, <1>4, <1>7, <1>8, FitsIs
<1>10. \A i \in 1 .. n + 1 : fs[i].from <= fs[i].to + 1
  <2>1. CASE n > 0
    BY <1>7, <1>9, <2>1
  <2>2. CASE n = 0
    BY <1>3, <1>6, <2>2
  <2> QED
    BY <1>4, <2>1, <2>2
<1>11. ASSUME NEW i \in 1 .. n PROVE fs[i + 1].from = fs[i].to + 1
  <2>1. i \in 1 .. n + 1 /\ i + 1 \in 1 .. n + 1 /\ i # n + 1 /\ i + 1 # 1 /\ (i + 1) - 1 = i
    BY <1>4
  <2>2. fs[i + 1].from = begins[i] /\ fs[i].to = begins[i] - 1
    BY <1>6, <2>1
  <2> QED
    BY <1>5, <2>2
<1>12. \A i \in 2 .. n + 1 : fs[i].prev = Unset /\ fs[i].savedAs = Null
  BY <1>4, <1>6
<1>13. fs[n + 1].to = last
  BY <1>4, <1>6
<1>14. FollowUpTo(fs, last)
  <2>1. Len(fs) - 1 = n /\ Len(fs) >= 1 /\ (Len(fs) > 1 => n > 0)
    BY <1>4, <1>8
  <2> QED
    BY <1>2, <1>8, <1>9, <1>10, <1>11, <1>12, <1>13, <2>1 DEF FollowUpTo, Fits
<1>15. 1 \in 1 .. n + 1 /\ (1 # n + 1 => 1 \in 1 .. n)
  BY <1>4
<1>16. start.to <= fs[1].to
  <2>1. CASE n = 0
    BY <1>6, <1>15, <2>1
  <2>2. CASE n # 0
    <3>1. 1 \in 1 .. n /\ fs[1].to = begins[1] - 1
      BY <1>4, <1>6, <2>2
    <3> QED
      BY <1>3, <1>5, <3>1
  <2> QED
    BY <2>1, <2>2
<1> QED
  BY <1>6, <1>14, <1>15, <1>16

-----------------------------------------------------------------------------
(* Lemmas about links *)

LEMMA LinkType ==
  ASSUME UploadsOK
  PROVE  /\ Len(uploads) \in Nat
         /\ \A i \in 1 .. Len(uploads) : uploads[i] \in File /\ uploads[i].from \in Int /\ uploads[i].to \in Int
         /\ \A link \in Links : LastRow(link) \in Int /\ LastRow(link) >= -1 /\ LastRow(link) <= MaxRows - 1
         /\ \A link \in Links : link = Null \/ link \in 1 .. Len(uploads)
         /\ Null \in Links /\ LastRow(Null) = -1
<1>1. /\ Len(uploads) \in Nat
      /\ \A i \in 1 .. Len(uploads) : uploads[i] \in File /\ uploads[i].from \in Int /\ uploads[i].to \in Int
  BY FilesAre DEF UploadsOK
<1>2. \A i \in 1 .. Len(uploads) : uploads[i].to >= -1 /\ uploads[i].to <= MaxRows - 1
  <2>1. MaxRows \in Nat
    BY ConstantsAssumption
  <2>2. \A i \in 1 .. Len(uploads) : uploads[i].to \in -1 .. MaxRows - 1
    BY <1>1, FileType
  <2> QED
    BY <2>1, <2>2
<1>3. MaxRows \in Nat /\ MaxRows >= 1
  BY ConstantsAssumption
<1> QED
  BY <1>1, <1>2, <1>3 DEF LastRow, Links, Null

\* Links that were there lead to what they led to.
LEMMA LinksStay ==
  ASSUME UploadsOK, NEW f \in File, uploads' = Append(uploads, f)
  PROVE  /\ uploads' \in Seq(File) /\ Len(uploads') = Len(uploads) + 1
         /\ \A i \in 1 .. Len(uploads) : uploads'[i] = uploads[i]
         /\ uploads'[Len(uploads) + 1] = f
         /\ \A link \in Links : link \in Links' /\ LastRow(link)' = LastRow(link)
         /\ \A ref : ref = Len(uploads) + 1 => ref \in Links' /\ ref # Null /\ LastRow(ref)' = f.to
<1>1. /\ uploads' \in Seq(File) /\ Len(uploads') = Len(uploads) + 1 /\ Len(uploads) \in Nat
      /\ \A i \in 1 .. Len(uploads) : uploads'[i] = uploads[i]
      /\ uploads'[Len(uploads) + 1] = f
  BY AppendProperties, LinkType DEF UploadsOK
<1>2. ASSUME NEW link \in Links PROVE link \in Links' /\ LastRow(link)' = LastRow(link)
  <2>1. link = Null \/ link \in 1 .. Len(uploads)
    BY LinkType
  <2> QED
    BY <1>1, <2>1 DEF LastRow, Links, Null
<1>3. ASSUME NEW ref, ref = Len(uploads) + 1 PROVE ref \in Links' /\ ref # Null /\ LastRow(ref)' = f.to
  <2>1. ref \in Links' /\ ref # Null
    BY <1>1, <1>3 DEF Links, Null
  <2> QED
    BY <1>1, <1>3, <2>1 DEF LastRow
<1> QED
  BY <1>1, <1>2, <1>3

LEMMA InMemory ==
  ASSUME IInv
  PROVE  /\ files \in Seq(File) /\ Len(files) \in Nat /\ Len(files) >= 1 /\ 1 \in 1 .. Len(files)
         /\ files[1] \in File /\ files[1].from \in Int /\ files[1].to \in Int
         /\ tip \in Int /\ -1 <= tip /\ tip <= MaxRows - 1 /\ due \in Int /\ 0 <= due /\ due <= tip + 1
         /\ files[1].prev \in Links /\ files[1].savedAs \in Links /\ newest \in Links
         /\ files[1].to <= tip
         /\ MaxRows \in Nat
<1>1. files \in Seq(File) /\ Len(files) \in Nat /\ Len(files) >= 1
  BY FilesAre DEF IInv, FilesOK, FollowUpTo
<1>2. 1 \in 1 .. Len(files)
  BY <1>1
<1>3. files[1] \in File /\ files[1].from \in Int /\ files[1].to \in Int
  BY <1>1, <1>2, FilesAre
<1>4. MaxRows \in Nat
  BY ConstantsAssumption
<1>5. tip \in Int /\ -1 <= tip /\ tip <= MaxRows - 1 /\ due \in Int /\ 0 <= due /\ due <= tip + 1
  BY <1>4 DEF IInv, ScalarsOK
<1>6. files[1].prev \in Links /\ files[1].savedAs \in Links /\ newest \in Links
  BY DEF IInv, FirstOK, LeadsBack, NewestOK
<1>7. files[1].to <= tip
  <2>1. FollowUpTo(files, tip)
    BY DEF IInv, FilesOK
  <2>2. CASE Len(files) = 1
    BY <1>5, <2>1, <2>2 DEF FollowUpTo
  <2>3. CASE Len(files) > 1
    <3>1. files[1].from <= files[1].to
      BY <1>2, <2>1, <2>3 DEF FollowUpTo
    <3>2. files[1].to \in RowsOf(files[1])
      BY <1>3, <3>1 DEF RowsOf
    <3>3. RowsOf(files[1]) \subseteq files[1].from .. tip
      BY <1>2, <1>5, <2>1, RowsInFiles
    <3> QED
      BY <1>3, <1>5, <3>2, <3>3
  <2>4. Len(files) = 1 \/ Len(files) > 1
    BY <1>1
  <2> QED
    BY <2>2, <2>3, <2>4
<1> QED
  BY <1>1, <1>2, <1>3, <1>4, <1>5, <1>6, <1>7

\* A file that leads back goes on to when a race happens, and when more files are uploaded.
LEMMA LeadingStays ==
  ASSUME UploadsOK, raced => raced', NEW from, NEW prev, LeadsBack(from, prev),
         uploads' = uploads \/ (\E f \in File : uploads' = Append(uploads, f))
  PROVE  LeadsBack(from, prev)'
<1>1. prev \in Links' /\ LastRow(prev)' = LastRow(prev)
  <2>1. prev \in Links
    BY DEF LeadsBack
  <2>2. CASE uploads' = uploads
    BY <2>1, <2>2 DEF Links, LastRow
  <2>3. CASE \E f \in File : uploads' = Append(uploads, f)
    BY <2>1, <2>3, LinksStay
  <2> QED
    BY <2>2, <2>3
<1> QED
  BY <1>1 DEF LeadsBack

LEMMA UploadsStay ==
  ASSUME UploadsOK, raced => raced', uploads' = uploads
  PROVE  UploadsOK' /\ Links' = Links /\ \A link : LastRow(link)' = LastRow(link)
<1>1. \A i \in 1 .. Len(uploads) : LeadsBack(uploads[i].from, uploads[i].prev)'
  BY LeadingStays DEF UploadsOK
<1> QED
  BY <1>1 DEF UploadsOK, Links, LastRow

-----------------------------------------------------------------------------
(* The steps *)

LEMMA Confirming == ASSUME IInv, Confirm PROVE IInv'
<1> USE DEF Confirm
<1>1. /\ files \in Seq(File) /\ Len(files) \in Nat /\ Len(files) >= 1
      /\ files[1] \in File /\ files[1].from \in Int /\ files[1].to \in Int
      /\ tip \in Int /\ -1 <= tip /\ tip <= MaxRows - 1 /\ due \in Int /\ 0 <= due /\ due <= tip + 1
      /\ files[1].prev \in Links /\ files[1].savedAs \in Links /\ newest \in Links
      /\ MaxRows \in Nat
  BY InMemory
<1>2. tip + 1 <= MaxRows - 1
  BY <1>1
<1>3. FollowUpTo(files, tip) /\ files' \in Append1(files, tip + 1)
  BY DEF IInv, FilesOK
<1>4. /\ FollowUpTo(files', tip + 1)
      /\ files'[1].from = files[1].from /\ files'[1].prev = files[1].prev /\ files'[1].savedAs = files[1].savedAs
      /\ files[1].to <= files'[1].to
      /\ Len(files) > 1 => files'[1].to = files[1].to
      /\ Len(files') \in {Len(files), Len(files) + 1}
  BY <1>1, <1>2, <1>3, Appending
<1>5. UploadsOK /\ uploads' = uploads /\ (raced => raced')
  BY DEF IInv
<1>6. UploadsOK' /\ Links' = Links /\ \A link : LastRow(link)' = LastRow(link)
  BY <1>5, UploadsStay
<1>7. ScalarsOK'
  <2>1. tip + 1 \in -1 .. MaxRows - 1 /\ due + 1 \in 0 .. tip + 1 + 1
    BY <1>1, <1>2
  <2>2. raced' \in BOOLEAN
    OBVIOUS
  <2> QED
    BY <2>1, <2>2 DEF IInv, ScalarsOK
<1>8. FilesOK'
  BY <1>4 DEF FilesOK
<1>9. files'[1].to \in Int
  <2>1. files' \in Seq(File) /\ Len(files') >= 1
    BY <1>4 DEF FollowUpTo
  <2>2. Len(files') \in Nat
    BY <2>1, FilesAre
  <2>3. 1 \in 1 .. Len(files')
    BY <2>1, <2>2
  <2> QED
    BY <2>1, <2>3, FilesAre
<1>10. FirstOK'
  <2>1. LeadsBack(files[1].from, files[1].prev)
    BY DEF IInv, FirstOK
  <2>2. LeadsBack(files[1].from, files[1].prev)'
    BY <1>4, <1>5, <1>6, <2>1 DEF LeadsBack
  <2>3. files[1].savedAs # Null => UploadOf(uploads[files[1].savedAs], files'[1])
    <3>1. SUFFICES ASSUME files[1].savedAs # Null PROVE UploadOf(uploads[files[1].savedAs], files'[1])
      OBVIOUS
    <3>2. UploadOf(uploads[files[1].savedAs], files[1])
      BY <3>1 DEF IInv, FirstOK
    <3>3. uploads[files[1].savedAs].to \in Int
      BY <1>1, <1>5, <3>1, LinkType
    <3> QED
      BY <1>1, <1>4, <1>9, <3>2, <3>3 DEF UploadOf
  <2> QED
    BY <1>1, <1>4, <1>5, <1>6, <2>2, <2>3 DEF FirstOK
<1>11. SnapshotOK'
  <2>1. snapshot \in File /\ snapshot.to \in Int
    BY FileType DEF IInv, SnapshotOK
  <2>2. ASSUME saver = "uploading"
        PROVE  /\ UploadOf(snapshot, files'[1]) /\ snapshot.from <= snapshot.to /\ Fits(snapshot)
               /\ ~raced' /\ Len(files') > 1 => snapshot.to = files'[1].to
    <3>1. /\ UploadOf(snapshot, files[1]) /\ snapshot.from <= snapshot.to /\ Fits(snapshot)
          /\ ~raced /\ Len(files) > 1 => snapshot.to = files[1].to
      BY <2>2 DEF IInv, SnapshotOK
    <3>2. UploadOf(snapshot, files'[1])
      BY <1>1, <1>4, <1>9, <2>1, <3>1 DEF UploadOf
    <3>3. ASSUME ~raced', Len(files') > 1 PROVE snapshot.to = files'[1].to
      <4>1. ~raced /\ ~(Len(files) = 1 /\ Len(files') = 2)
        BY <2>2, <3>3, Zenon
      <4>2. Len(files) > 1
        <5>1. ASSUME NEW m \in Nat, m >= 1, NEW n \in {m, m + 1}, n > 1, ~(m = 1 /\ n = 2) PROVE m > 1
          BY <5>1
        <5> QED
          BY <1>1, <1>4, <3>3, <4>1, <5>1, Zenon
      <4> QED
        BY <1>4, <3>1, <4>1, <4>2
    <3> QED
      BY <3>1, <3>2, <3>3
  <2> QED
    BY <2>1, <2>2 DEF SnapshotOK, Fits, RowsOf, UploadOf
<1>12. NewestOK'
  <2>1. LastRow(newest) \in Int /\ LastRow(newest) <= tip
    BY <1>1, <1>5, LinkType DEF IInv, NewestOK
  <2>2. LastRow(newest) <= tip + 1
    BY <1>1, <2>1
  <2>3. LastRow(newest) >= LastRow(files[1].prev) /\ LastRow(newest) >= LastRow(files[1].savedAs)
    BY DEF IInv, NewestOK
  <2> QED
    BY <1>1, <1>4, <1>6, <2>2, <2>3 DEF NewestOK
<1>13. CheckpointOK'
  BY <1>5, <1>6 DEF IInv, CheckpointOK, RowsRunOn
<1>14. DownOK'
  BY DEF DownOK
<1> QED
  BY <1>6, <1>7, <1>8, <1>10, <1>11, <1>12, <1>13, <1>14 DEF IInv

LEMMA Requesting == ASSUME IInv, RequestSave PROVE IInv'
<1> USE DEF RequestSave
<1>1. UploadsOK' /\ Links' = Links /\ \A link : LastRow(link)' = LastRow(link)
  BY UploadsStay DEF IInv
<1>2. ScalarsOK'
  <2>1. due - 1 \in 0 .. tip + 1
    BY InMemory, SMTT(60)
  <2> QED
    BY <2>1 DEF IInv, ScalarsOK, Marks
<1>3. FilesOK' /\ FirstOK' /\ NewestOK' /\ CheckpointOK'
  BY <1>1 DEF IInv, FilesOK, FirstOK, LeadsBack, NewestOK, CheckpointOK, RowsRunOn
<1>4. SnapshotOK'
  BY DEF IInv, SnapshotOK, UploadOf, Fits, RowsOf
<1>5. DownOK'
  BY DEF DownOK
<1> QED
  BY <1>1, <1>2, <1>3, <1>4, <1>5 DEF IInv

\* The rows after the newest saved file run up to the last one, whatever file they are in.
LEMMA RowsAfterNewest ==
  ASSUME IInv, ~raced
  PROVE  RowsAfter(LastRow(newest)) = (LastRow(newest) + 1) .. tip
<1>1. FollowUpTo(files, tip) /\ tip \in Int
  BY InMemory DEF IInv, FilesOK
<1>2. /\ \A i \in 1 .. Len(files) : RowsOf(files[i]) \subseteq files[1].from .. tip
      /\ \A r \in files[1].from .. tip : \E i \in 1 .. Len(files) : r \in RowsOf(files[i])
      /\ files[1].from \in Int
  BY <1>1, RowsInFiles
<1>3. files[1].prev \in Links /\ newest \in Links /\ UploadsOK
  BY InMemory DEF IInv
<1>4. LastRow(files[1].prev) \in Int /\ LastRow(newest) \in Int
  BY <1>3, LinkType
<1>5. files[1].from = LastRow(files[1].prev) + 1 /\ LastRow(newest) >= LastRow(files[1].prev)
  BY DEF IInv, FirstOK, LeadsBack, NewestOK
<1>6. \A r : r \in (LastRow(newest) + 1) .. tip <=> r \in files[1].from .. tip /\ r > LastRow(newest)
  BY <1>1, <1>2, <1>4, <1>5
<1>7. \A r : r \in RowsAfter(LastRow(newest)) <=> r \in files[1].from .. tip /\ r > LastRow(newest)
  <2> HIDE DEF RowsOf
  <2> QED
    BY <1>2 DEF RowsAfter
<1> QED
  BY <1>6, <1>7

LEMMA Writing == ASSUME IInv, WriteCheckpoint PROVE IInv'
<1> USE DEF WriteCheckpoint
<1>1. UploadsOK' /\ Links' = Links /\ \A link : LastRow(link)' = LastRow(link)
  BY UploadsStay DEF IInv
<1>2. ScalarsOK' /\ FilesOK' /\ FirstOK' /\ NewestOK' /\ DownOK'
  BY <1>1 DEF IInv, ScalarsOK, FilesOK, FirstOK, LeadsBack, NewestOK, DownOK
<1>3. SnapshotOK'
  BY DEF IInv, SnapshotOK, UploadOf, Fits, RowsOf
<1>4. CheckpointOK'
  <2>1. checkpoint'.index = tip /\ checkpoint'.history = newest /\ checkpoint'.rows = RowsAfter(LastRow(newest))
    OBVIOUS
  <2>2. tip \in -1 .. MaxRows - 1 /\ newest \in Links /\ LastRow(newest) <= tip
    BY DEF IInv, ScalarsOK, NewestOK
  <2>3. ~raced => RowsAfter(LastRow(newest)) = (LastRow(newest) + 1) .. tip
    BY RowsAfterNewest
  <2> QED
    BY <1>1, <2>1, <2>2, <2>3 DEF CheckpointOK, RowsRunOn
<1> QED
  BY <1>1, <1>2, <1>3, <1>4 DEF IInv

\* While the saver is at work the chat is up.
LEMMA SaverIsUp ==
  ASSUME IInv, saver # "idle"
  PROVE  chat = "up"
BY DEF IInv, DownOK

LEMMA SaverPausing == ASSUME IInv, SaverReturns \/ SaverWaits PROVE IInv'
<1> USE DEF SaverReturns, SaverWaits
<1>1. UploadsOK' /\ Links' = Links /\ \A link : LastRow(link)' = LastRow(link)
  BY UploadsStay DEF IInv
<1>2. ScalarsOK'
  BY DEF IInv, ScalarsOK
<1>3. FilesOK' /\ FirstOK' /\ NewestOK' /\ CheckpointOK'
  BY <1>1 DEF IInv, FilesOK, FirstOK, LeadsBack, NewestOK, CheckpointOK, RowsRunOn
<1>4. SnapshotOK'
  BY DEF IInv, SnapshotOK
<1>5. DownOK'
  BY SaverIsUp DEF DownOK
<1> QED
  BY <1>1, <1>2, <1>3, <1>4, <1>5 DEF IInv

\* Dropping the first file when its upload holds all of it, or as much as was there when a race began.
LEMMA Rolling ==
  ASSUME NEW fs, NEW marked \in BOOLEAN, FollowUpTo(fs, tip), tip \in Int,
         LeadsBack(fs[1].from, fs[1].prev)', fs[1].savedAs \in Links', fs[1].savedAs # Null,
         uploads'[fs[1].savedAs].to \in Int,
         UploadOf(uploads'[fs[1].savedAs], fs[1]), raced' \in BOOLEAN,
         ~raced' /\ Len(fs) > 1 => uploads'[fs[1].savedAs].to = fs[1].to,
         Rolls(fs, marked)
  PROVE  /\ FollowUpTo(files', tip) /\ dirty' \in BOOLEAN /\ FirstOK'
         /\ files'[1].prev \in {fs[1].prev, fs[1].savedAs}
         /\ files'[1].savedAs \in {Null, fs[1].savedAs}
<1>1. CASE ~(Len(fs) > 1)
  <2>1. files' = fs /\ dirty' = marked
    BY <1>1 DEF Rolls
  <2> QED
    BY <2>1 DEF FirstOK
<1>2. CASE Len(fs) > 1
  <2> DEFINE ref == fs[1].savedAs
  <2>1. files' = [Tail(fs) EXCEPT ![1].prev = ref] /\ dirty' = TRUE
    BY <1>2 DEF Rolls
  <2>2. fs \in Seq(File) /\ Len(fs) \in Nat
    BY FilesAre DEF FollowUpTo
  <2>3. 1 \in 1 .. Len(fs) /\ 2 \in 1 .. Len(fs) /\ 2 \in 2 .. Len(fs) /\ 1 \in 1 .. Len(fs) - 1
    BY <1>2, <2>2
  <2>4. fs[1] \in File /\ fs[2] \in File /\ fs[1].to \in Int /\ ref \in Int
    BY <2>2, <2>3, FilesAre, FileType
  <2>5. FollowUpTo(files', tip) /\ files'[1] = [fs[2] EXCEPT !.prev = ref]
    BY <1>2, <2>1, <2>4, DroppingFirst
  <2>6. fs[2].from = fs[1].to + 1 /\ fs[2].savedAs = Null
    <3>1. \A j \in 1 .. Len(fs) - 1 : fs[j + 1].from = fs[j].to + 1
      BY DEF FollowUpTo
    <3>2. fs[1 + 1].from = fs[1].to + 1
      BY <2>3, <3>1
    <3>3. \A j \in 2 .. Len(fs) : fs[j].savedAs = Null
      BY DEF FollowUpTo
    <3> QED
      BY <2>3, <3>2, <3>3
  <2>7. files'[1].from = fs[2].from /\ files'[1].savedAs = Null /\ files'[1].prev = ref
    BY <2>4, <2>5, <2>6 DEF File
  <2>8. LastRow(ref)' = uploads'[ref].to /\ uploads'[ref].to \in Int
    BY DEF LastRow
  <2>9. uploads'[ref].to <= fs[1].to /\ (~raced' => uploads'[ref].to = fs[1].to)
    BY <1>2 DEF UploadOf
  <2>10. LeadsBack(fs[2].from, ref)'
    BY <2>4, <2>6, <2>8, <2>9 DEF LeadsBack
  <2>11. FirstOK'
    BY <2>7, <2>10 DEF FirstOK, Links, Null
  <2> QED
    BY <2>1, <2>5, <2>7, <2>11
<1> QED
  BY <1>1, <1>2

LEMMA SaverGoingOn == ASSUME IInv, SaverGoesOn PROVE IInv'
<1> DEFINE first == files[1]
<1>1. /\ files \in Seq(File) /\ first \in File /\ first.from \in Int /\ first.to \in Int
      /\ tip \in Int /\ first.prev \in Links /\ first.savedAs \in Links /\ newest \in Links /\ first.to <= tip
  BY InMemory
<1>2. UploadsOK /\ FollowUpTo(files, tip) /\ raced \in BOOLEAN
  BY DEF IInv, FilesOK, ScalarsOK
<1>3. /\ first.prev # Unset
      /\ \A link \in Links : link # Null => link \in 1 .. Len(uploads) /\ uploads[link].to \in Int
  BY <1>1, <1>2, LinkType, SMTT(60) DEF Links, Unset
<1>4. chat = "up"
  BY SaverIsUp DEF SaverGoesOn
<1>5. UNCHANGED <<boot, chat, tip, due, newest, uploads, checkpoint, raced, failing>>
  BY DEF SaverGoesOn
<1>6. UploadsOK' /\ Links' = Links /\ \A link : LastRow(link)' = LastRow(link)
  BY <1>2, <1>5, UploadsStay
<1>7. CheckpointOK' /\ DownOK'
  BY <1>4, <1>5, <1>6 DEF IInv, CheckpointOK, RowsRunOn, DownOK
<1>8. CASE RowsOf(first) = {}
  <2>1. saver' = "idle" /\ dirty' = FALSE /\ UNCHANGED <<files, snapshot>>
    BY <1>8 DEF SaverGoesOn
  <2>2. ScalarsOK' /\ FilesOK' /\ FirstOK' /\ NewestOK' /\ SnapshotOK'
    BY <1>5, <1>6, <2>1 DEF IInv, ScalarsOK, FilesOK, FirstOK, LeadsBack, NewestOK, SnapshotOK
  <2> QED
    BY <1>6, <1>7, <2>2 DEF IInv
<1>9. CASE RowsOf(first) # {} /\ first.savedAs # Null /\ LastRow(first.savedAs) = first.to
  <2>1. saver' = "turn" /\ Rolls(files, FALSE) /\ snapshot' = snapshot
    BY <1>3, <1>9 DEF SaverGoesOn
  <2>2. /\ LeadsBack(first.from, first.prev)
        /\ UploadOf(uploads[first.savedAs], first)
    BY <1>9 DEF IInv, FirstOK
  <2>3. uploads[first.savedAs].to \in Int /\ uploads[first.savedAs].to = first.to
    BY <1>1, <1>3, <1>9 DEF LastRow
  <2>4. /\ FollowUpTo(files', tip) /\ dirty' \in BOOLEAN /\ FirstOK'
        /\ files'[1].prev \in {first.prev, first.savedAs}
        /\ files'[1].savedAs \in {Null, first.savedAs}
    <3>1. PICK fs : fs = files
      OBVIOUS
    <3>2. /\ FollowUpTo(fs, tip) /\ tip \in Int /\ fs[1].savedAs \in Links' /\ fs[1].savedAs # Null
          /\ uploads'[fs[1].savedAs].to \in Int /\ UploadOf(uploads'[fs[1].savedAs], fs[1]) /\ raced' \in BOOLEAN
          /\ uploads'[fs[1].savedAs].to = fs[1].to /\ Rolls(fs, FALSE)
      BY <1>1, <1>2, <1>5, <1>6, <1>9, <2>1, <2>2, <2>3, <3>1
    <3>3. LeadsBack(fs[1].from, fs[1].prev)'
      BY <1>5, <1>6, <2>2, <3>1 DEF LeadsBack
    <3>4. /\ FollowUpTo(files', tip) /\ dirty' \in BOOLEAN /\ FirstOK'
          /\ files'[1].prev \in {fs[1].prev, fs[1].savedAs}
          /\ files'[1].savedAs \in {Null, fs[1].savedAs}
      BY <3>2, <3>3, Rolling
    <3> QED
      BY <3>1, <3>4
  <2>5. ScalarsOK' /\ FilesOK' /\ SnapshotOK'
    BY <1>5, <2>1, <2>4 DEF IInv, ScalarsOK, FilesOK, SnapshotOK
  <2>6. NewestOK'
    <3>1. LastRow(newest) >= LastRow(first.prev) /\ LastRow(newest) >= LastRow(first.savedAs) /\ LastRow(newest) <= tip
      BY DEF IInv, NewestOK
    <3>2. LastRow(newest) >= LastRow(Null)
      BY <1>1, <1>2, LinkType
    <3> QED
      BY <1>1, <1>5, <1>6, <2>4, <3>1, <3>2 DEF NewestOK
  <2> QED
    BY <1>6, <1>7, <2>4, <2>5, <2>6 DEF IInv
<1>10. CASE RowsOf(first) # {} /\ ~(first.savedAs # Null /\ LastRow(first.savedAs) = first.to)
  <2>1. saver' = "uploading" /\ snapshot' = first /\ dirty' = FALSE /\ UNCHANGED files
    BY <1>3, <1>10 DEF SaverGoesOn
  <2>2. ScalarsOK' /\ FilesOK' /\ FirstOK' /\ NewestOK'
    BY <1>5, <1>6, <2>1 DEF IInv, ScalarsOK, FilesOK, FirstOK, LeadsBack, NewestOK
  <2>3. first.from <= first.to /\ Fits(first)
    <3>1. Fits(first)
      BY InMemory, <1>2 DEF FollowUpTo
    <3> QED
      BY <1>1, <1>10, <3>1, FitsIs
  <2>4. SnapshotOK'
    BY <1>1, <2>1, <2>3 DEF SnapshotOK, UploadOf, Fits, RowsOf
  <2> QED
    BY <1>6, <1>7, <2>2, <2>4 DEF IInv
<1> QED
  BY <1>8, <1>9, <1>10

LEMMA Failing == ASSUME IInv, UploadFails PROVE IInv'
<1> USE DEF UploadFails, UploadEnds
<1>1. UploadsOK' /\ Links' = Links /\ \A link : LastRow(link)' = LastRow(link)
  BY UploadsStay DEF IInv
<1>2. ScalarsOK' /\ FilesOK' /\ FirstOK' /\ NewestOK' /\ CheckpointOK'
  BY <1>1 DEF IInv, ScalarsOK, FilesOK, FirstOK, LeadsBack, NewestOK, CheckpointOK, RowsRunOn
<1>3. NoUpload \in File
  BY ConstantsAssumption DEF NoUpload, EmptyFile, File, Null
<1>4. SnapshotOK'
  BY <1>3 DEF SnapshotOK
<1>5. DownOK'
  BY SaverIsUp DEF DownOK
<1> QED
  BY <1>1, <1>2, <1>4, <1>5 DEF IInv

LEMMA Succeeding == ASSUME IInv, UploadSucceeds PROVE IInv'
<1> DEFINE first == files[1]
<1>1. /\ files \in Seq(File) /\ first \in File /\ first.from \in Int /\ first.to \in Int /\ Len(files) \in Nat
      /\ 1 \in 1 .. Len(files)
      /\ tip \in Int /\ first.prev \in Links /\ first.savedAs \in Links /\ newest \in Links /\ first.to <= tip
  BY InMemory
<1>2. UploadsOK /\ FollowUpTo(files, tip) /\ raced \in BOOLEAN /\ dirty \in BOOLEAN /\ Len(uploads) \in Nat
  BY LinkType DEF IInv, FilesOK, ScalarsOK
<1>3. /\ saver = "uploading" /\ snapshot' = NoUpload /\ saver' = "turn" /\ failing' = FALSE
      /\ uploads' = Append(uploads, snapshot)
      /\ UNCHANGED <<boot, chat, tip, due, checkpoint, raced>>
  BY DEF UploadSucceeds, UploadEnds
<1>4. chat = "up"
  BY <1>3, SaverIsUp
<1>5. /\ snapshot \in File /\ snapshot.from \in Int /\ snapshot.to \in Int
      /\ UploadOf(snapshot, first) /\ snapshot.from <= snapshot.to /\ Fits(snapshot)
      /\ ~raced /\ Len(files) > 1 => snapshot.to = first.to
  BY <1>3, FileType DEF IInv, SnapshotOK
<1>6. PICK ref : ref = Len(uploads) + 1
  OBVIOUS
<1>7. /\ uploads' \in Seq(File) /\ Len(uploads') = Len(uploads) + 1
      /\ \A i \in 1 .. Len(uploads) : uploads'[i] = uploads[i]
      /\ uploads'[ref] = snapshot
      /\ \A link \in Links : link \in Links' /\ LastRow(link)' = LastRow(link)
      /\ ref \in Links' /\ ref # Null /\ LastRow(ref)' = snapshot.to /\ ref \in Nat
  BY <1>2, <1>3, <1>5, <1>6, LinksStay
<1>8. \A from, prev : LeadsBack(from, prev) => LeadsBack(from, prev)'
  BY <1>2, <1>3, <1>7 DEF LeadsBack
<1>9. LeadsBack(first.from, first.prev)
  BY DEF IInv, FirstOK
<1>10. UploadsOK'
  <2>1. ASSUME NEW i \in 1 .. Len(uploads)
        PROVE  /\ uploads[i].from <= uploads[i].to /\ Fits(uploads[i])
               /\ uploads[i].prev < i /\ LeadsBack(uploads[i].from, uploads[i].prev)
    BY <1>2 DEF UploadsOK
  <2>2. ASSUME NEW i \in 1 .. Len(uploads')
        PROVE  /\ uploads'[i].from <= uploads'[i].to /\ Fits(uploads'[i])
               /\ uploads'[i].prev < i /\ LeadsBack(uploads[i].from, uploads[i].prev)'
    <3>1. CASE i \in 1 .. Len(uploads)
      <4>1. /\ uploads'[i] = uploads[i]
            /\ uploads[i].from <= uploads[i].to /\ Fits(uploads[i])
            /\ uploads[i].prev < i
        BY <1>7, <2>1, <3>1
      <4>2. PICK from, prev : from = uploads[i].from /\ prev = uploads[i].prev
        OBVIOUS
      <4>3. LeadsBack(from, prev)
        BY <2>1, <3>1, <4>2
      <4>4. LeadsBack(from, prev)'
        BY <1>8, <4>3
      <4>5. from = uploads'[i].from /\ prev = uploads'[i].prev
        BY <4>1, <4>2
      <4> QED
        BY <4>1, <4>4, <4>5 DEF LeadsBack
    <3>2. CASE i = ref
      <4>1. uploads'[i] = snapshot /\ snapshot.from = first.from /\ snapshot.prev = first.prev
        BY <1>5, <1>7, <3>2 DEF UploadOf
      <4>2. PICK from, prev : from = first.from /\ prev = first.prev
        OBVIOUS
      <4>3. LeadsBack(from, prev)'
        BY <1>8, <1>9, <4>2
      <4>4. LeadsBack(uploads[i].from, uploads[i].prev)'
        BY <4>1, <4>2, <4>3 DEF LeadsBack
      <4>5. first.prev < ref
        BY <1>1, <1>2, <1>6 DEF Links
      <4> QED
        BY <1>5, <3>2, <4>1, <4>4, <4>5
    <3>3. i \in 1 .. Len(uploads) \/ i = ref
      BY <1>2, <1>6, <1>7
    <3> QED
      BY <3>1, <3>2, <3>3
  <2> QED
    BY <1>7, <2>2 DEF UploadsOK, Fits, RowsOf
<1>11. PICK fs : fs = [files EXCEPT ![1].savedAs = ref]
  OBVIOUS
<1>12. Rolls(fs, dirty) /\ newest' = IF newest = Null \/ snapshot.to >= LastRow(newest) THEN ref ELSE newest
  BY <1>6, <1>11 DEF UploadSucceeds
<1>13. FollowUpTo(fs, tip) /\ Len(fs) = Len(files) /\ fs[1] = [first EXCEPT !.savedAs = ref]
  BY <1>2, <1>7, <1>11, SavingFirst, ZenonT(60)
<1>14. fs[1].from = first.from /\ fs[1].to = first.to /\ fs[1].prev = first.prev /\ fs[1].savedAs = ref
  BY <1>1, <1>13 DEF File
<1>15. /\ FollowUpTo(files', tip) /\ dirty' \in BOOLEAN /\ FirstOK'
       /\ files'[1].prev \in {first.prev, ref}
       /\ files'[1].savedAs \in {Null, ref}
  <2>1. PICK from, prev : from = first.from /\ prev = first.prev
    OBVIOUS
  <2>2. LeadsBack(from, prev)'
    BY <1>8, <1>9, <2>1
  <2>3. LeadsBack(fs[1].from, fs[1].prev)'
    BY <1>14, <2>1, <2>2 DEF LeadsBack
  <2>4. UploadOf(uploads'[fs[1].savedAs], fs[1]) /\ uploads'[fs[1].savedAs].to \in Int
    BY <1>5, <1>7, <1>14 DEF UploadOf
  <2>5. ~raced' /\ Len(fs) > 1 => uploads'[fs[1].savedAs].to = fs[1].to
    BY <1>3, <1>5, <1>7, <1>13, <1>14
  <2>6. fs[1].savedAs \in Links' /\ fs[1].savedAs # Null /\ raced' \in BOOLEAN
    BY <1>2, <1>3, <1>7, <1>14
  <2>7. /\ FollowUpTo(files', tip) /\ dirty' \in BOOLEAN /\ FirstOK'
        /\ files'[1].prev \in {fs[1].prev, fs[1].savedAs}
        /\ files'[1].savedAs \in {Null, fs[1].savedAs}
    BY <1>1, <1>2, <1>12, <1>13, <2>3, <2>4, <2>5, <2>6, Rolling
  <2> QED
    BY <1>14, <2>7
<1>16. ScalarsOK' /\ FilesOK'
  BY <1>3, <1>15 DEF IInv, ScalarsOK, FilesOK
<1>17. SnapshotOK'
  <2>1. NoUpload \in File
    BY ConstantsAssumption DEF NoUpload, EmptyFile, File, Null
  <2> QED
    BY <1>3, <2>1 DEF SnapshotOK
<1>18. NewestOK'
  <2>1. /\ LastRow(newest) \in Int /\ LastRow(newest) <= tip /\ LastRow(newest) >= -1
        /\ LastRow(first.prev) \in Int /\ LastRow(newest) >= LastRow(first.prev)
        /\ newest # Null => newest \in 1 .. Len(uploads)
    BY <1>1, <1>2, LinkType DEF IInv, NewestOK
  <2>2. snapshot.to <= tip /\ snapshot.to >= -1
    <3>1. snapshot.to <= first.to
      BY <1>5 DEF UploadOf
    <3>2. snapshot.to >= -1
      BY <1>5, FileType
    <3> QED
      BY <1>1, <1>5, <3>1, <3>2
  <2>3. PICK new, last : new = newest' /\ last = LastRow(newest)
    OBVIOUS
  <2>4. new \in Links' /\ LastRow(new)' \in Int /\ LastRow(new)' <= tip /\ LastRow(new)' >= last /\ LastRow(new)' >= snapshot.to
    <3>1. CASE newest = Null \/ snapshot.to >= LastRow(newest)
      <4>1. new = ref
        BY <1>12, <2>3, <3>1
      <4>2. last <= snapshot.to
        BY <2>1, <2>2, <2>3, <3>1 DEF LastRow
      <4> QED
        BY <1>5, <1>7, <2>2, <4>1, <4>2
    <3>2. CASE ~(newest = Null \/ snapshot.to >= LastRow(newest))
      <4>1. new = newest
        BY <1>12, <2>3, <3>2
      <4>2. new \in Links' /\ LastRow(new)' = last
        BY <1>1, <1>7, <2>3, <4>1
      <4> QED
        BY <1>5, <2>1, <2>3, <3>2, <4>2
    <3> QED
      BY <3>1, <3>2
  <2>5. PICK prev, saved : prev = files'[1].prev /\ saved = files'[1].savedAs
    OBVIOUS
  <2>6. LastRow(prev)' <= LastRow(new)'
    <3>1. CASE prev = first.prev
      <4>1. LastRow(prev)' = LastRow(first.prev)
        BY <1>1, <1>7, <3>1
      <4> QED
        BY <2>1, <2>3, <2>4, <4>1
    <3>2. CASE prev = ref
      BY <1>5, <1>7, <2>4, <3>2
    <3> QED
      BY <1>15, <2>5, <3>1, <3>2
  <2>7. LastRow(saved)' <= LastRow(new)'
    <3>1. CASE saved = Null
      <4>1. LastRow(saved)' = -1
        BY <3>1 DEF LastRow
      <4> QED
        BY <2>1, <2>3, <2>4, <4>1
    <3>2. CASE saved = ref
      BY <1>5, <1>7, <2>4, <3>2
    <3> QED
      BY <1>15, <2>5, <3>1, <3>2
  <2> QED
    BY <1>3, <2>3, <2>4, <2>5, <2>6, <2>7 DEF NewestOK
<1>19. CheckpointOK'
  <2>1. PICK link : link = checkpoint.history
    OBVIOUS
  <2>2. /\ link \in Links /\ LastRow(link) <= checkpoint.index /\ checkpoint.index \in -1 .. MaxRows - 1
        /\ ~raced => checkpoint.rows = (LastRow(link) + 1) .. checkpoint.index
    BY <2>1 DEF IInv, CheckpointOK, RowsRunOn
  <2>3. link \in Links' /\ LastRow(link)' = LastRow(link) /\ link = checkpoint'.history /\ checkpoint' = checkpoint
    BY <1>3, <1>7, <2>1, <2>2
  <2> QED
    BY <1>3, <2>2, <2>3 DEF CheckpointOK, RowsRunOn
<1>20. DownOK'
  BY <1>3, <1>4 DEF DownOK
<1> QED
  BY <1>10, <1>15, <1>16, <1>17, <1>18, <1>19, <1>20 DEF IInv

LEMMA EmptyStart ==
  /\ FollowUpTo(<<EmptyFile(0, Null)>>, -1) /\ EmptyFile(0, Null) \in File
  /\ UploadsOK => LeadsBack(0, Null)
<1>1. EmptyFile(0, Null) = [from |-> 0, to |-> -1, prev |-> 0, savedAs |-> 0]
  BY DEF EmptyFile, Null
<1>2. 0 \in 0 .. MaxRows /\ -1 \in -1 .. MaxRows - 1 /\ MaxMessages \in Nat \ {0}
  BY ConstantsAssumption
<1>3. EmptyFile(0, Null) \in File
  BY <1>1, <1>2, IsFile
<1>4. Fits(EmptyFile(0, Null)) /\ EmptyFile(0, Null).from = 0 /\ EmptyFile(0, Null).to = -1
  <2>1. EmptyFile(0, Null).from = 0 /\ EmptyFile(0, Null).to = -1
    BY <1>1
  <2>2. Fits(EmptyFile(0, Null)) <=> EmptyFile(0, Null).to - EmptyFile(0, Null).from < MaxMessages
    BY <2>1, FitsIs
  <2> QED
    BY <1>2, <2>1, <2>2
<1>5. FollowUpTo(<<EmptyFile(0, Null)>>, -1)
  <2> DEFINE f == EmptyFile(0, Null)
  <2>1. f \in File /\ Fits(f) /\ f.from = 0 /\ f.to = -1
    BY <1>3, <1>4
  <2> HIDE DEF f
  <2>2. FollowUpTo(<<f>>, -1)
    BY <2>1 DEF FollowUpTo
  <2> QED
    BY <2>2 DEF f
<1>6. UploadsOK => LeadsBack(0, Null)
  <2>1. UploadsOK => Null \in Links /\ LastRow(Null) = -1
    BY LinkType
  <2> QED
    BY <2>1 DEF LeadsBack
<1> QED
  BY <1>3, <1>5, <1>6

LEMMA Crashing == ASSUME IInv, Crash PROVE IInv'
<1> USE DEF Crash
<1>1. UploadsOK' /\ Links' = Links /\ \A link : LastRow(link)' = LastRow(link)
  BY UploadsStay DEF IInv
<1>2. UploadsOK /\ LeadsBack(0, Null)
  BY EmptyStart DEF IInv
<1>3. files'[1] = EmptyFile(0, Null) /\ files'[1].from = 0 /\ files'[1].prev = Null /\ files'[1].savedAs = Null
  BY DEF EmptyFile
<1>4. ScalarsOK'
  <2>1. -1 \in -1 .. MaxRows - 1 /\ 0 \in 0 .. -1 + 1
    BY ConstantsAssumption
  <2>2. /\ chat' = "down" /\ saver' = "idle" /\ tip' = -1 /\ due' = 0 /\ boot' = boot
        /\ dirty' = FALSE /\ raced' = raced /\ failing' = FALSE
    OBVIOUS
  <2> HIDE DEF Crash
  <2> QED
    BY <2>1, <2>2 DEF IInv, ScalarsOK
<1>5. FilesOK' /\ SnapshotOK'
  BY EmptyStart DEF FilesOK, SnapshotOK, NoUpload
<1>6. FirstOK'
  BY <1>1, <1>2, <1>3 DEF FirstOK, LeadsBack
<1>7. NewestOK'
  <2>1. Null \in Links /\ LastRow(Null) = -1
    BY <1>2, LinkType
  <2> QED
    BY <1>1, <1>3, <2>1 DEF NewestOK
<1>8. CheckpointOK'
  BY <1>1 DEF IInv, CheckpointOK, RowsRunOn
<1>9. DownOK'
  <2>1. boot \in 1 .. MaxBoots
    BY DEF IInv, ScalarsOK
  <2>2. chat' = "down" /\ saver' = "idle" /\ tip' = -1 /\ due' = 0 /\ boot' = boot /\ boot < MaxBoots
    OBVIOUS
  <2> HIDE DEF Crash
  <2> QED
    BY <2>1, <2>2 DEF DownOK
<1> QED
  BY <1>1, <1>4, <1>5, <1>6, <1>7, <1>8, <1>9 DEF IInv

\* What restore() starts from leads back like the files before it.
LEMMA Starting ==
  ASSUME IInv, NEW start \in StartFiles(checkpoint.history)
  PROVE  /\ start \in File /\ Fits(start) /\ start.from <= start.to + 1 /\ start.to = LastRow(checkpoint.history)
         /\ LeadsBack(start.from, start.prev) /\ LastRow(start.prev) <= LastRow(checkpoint.history)
         /\ start.savedAs \in {Null, checkpoint.history}
         /\ start.savedAs # Null => UploadOf(uploads[start.savedAs], start)
<1> DEFINE link == checkpoint.history
           row  == LastRow(link)
<1>1. /\ UploadsOK /\ link \in Links /\ row \in Int /\ row >= -1 /\ row <= MaxRows - 1
      /\ link # Null => link \in 1 .. Len(uploads) /\ row = uploads[link].to
  BY LinkType DEF IInv, CheckpointOK, LastRow
<1>2. MaxRows \in Nat /\ MaxMessages \in Nat \ {0}
  BY ConstantsAssumption
<1>3. CASE start = EmptyFile(row + 1, link)
  <2>1. start = [from |-> row + 1, to |-> row, prev |-> link, savedAs |-> Null]
    BY <1>1, <1>3 DEF EmptyFile
  <2>2. row + 1 \in 0 .. MaxRows /\ row \in -1 .. MaxRows - 1 /\ link \in Int /\ Null \in Nat
    BY <1>1, <1>2 DEF Links, Null
  <2>3. start \in File
    BY <2>1, <2>2, IsFile
  <2>4. start.from = row + 1 /\ start.to = row /\ start.prev = link /\ start.savedAs = Null
    BY <2>1
  <2>5. Fits(start)
    BY <1>1, <1>2, <2>4, FitsIs
  <2>6. LeadsBack(start.from, start.prev)
    BY <1>1, <2>4 DEF LeadsBack
  <2> QED
    BY <1>1, <2>3, <2>4, <2>5, <2>6
<1>4. CASE link # Null /\ start = [from |-> uploads[link].from, to |-> uploads[link].to, prev |-> uploads[link].prev,
                                   savedAs |-> link]
  <2>1. link \in 1 .. Len(uploads) /\ row = uploads[link].to /\ uploads[link] \in File
    BY <1>1, <1>4, LinkType
  <2>2. /\ uploads[link].from <= uploads[link].to /\ Fits(uploads[link])
        /\ LeadsBack(uploads[link].from, uploads[link].prev)
    BY <1>1, <2>1 DEF UploadsOK
  <2>3. start.from = uploads[link].from /\ start.to = row /\ start.prev = uploads[link].prev /\ start.savedAs = link
    BY <1>4, <2>1
  <2>4. start \in File
    <3>1. /\ uploads[link].from \in 0 .. MaxRows /\ uploads[link].to \in -1 .. MaxRows - 1 /\ uploads[link].prev \in Int
          /\ link \in Nat
      BY <1>1, <2>1, FileType DEF Links
    <3> QED
      BY <1>4, <3>1, IsFile
  <2>5. Fits(start)
    BY <2>1, <2>2, <2>3 DEF Fits, RowsOf
  <2>6. LastRow(start.prev) <= row /\ start.from <= start.to + 1
    <3>1. /\ LastRow(uploads[link].prev) < uploads[link].from /\ uploads[link].from <= row
          /\ uploads[link].prev \in Links
      BY <2>1, <2>2 DEF LeadsBack
    <3>2. LastRow(uploads[link].prev) \in Int /\ uploads[link].from \in Int
      BY <1>1, <2>1, <3>1, LinkType
    <3> QED
      BY <1>1, <2>3, <3>1, <3>2
  <2>7. UploadOf(uploads[start.savedAs], start)
    BY <1>1, <2>1, <2>3 DEF UploadOf
  <2> QED
    BY <2>2, <2>3, <2>4, <2>5, <2>6, <2>7
<1> QED
  <2>1. CASE link = Null
    <3>1. start = EmptyFile(0, Null) /\ row = -1
      BY <2>1 DEF StartFiles, LastRow
    <3>2. start = EmptyFile(row + 1, link)
      BY <2>1, <3>1
    <3> QED
      BY <1>3, <3>2
  <2>2. CASE link # Null
    BY <1>1, <1>3, <1>4, <2>2 DEF StartFiles
  <2> QED
    BY <2>1, <2>2

LEMMA Restarting == ASSUME IInv, Restart PROVE IInv'
<1>1. /\ chat = "down" /\ boot' = boot + 1 /\ chat' = "up" /\ tip' = checkpoint.index /\ newest' = checkpoint.history
      /\ dirty' = (checkpoint.rows # {}) /\ saver' = IF checkpoint.rows # {} THEN "turn" ELSE "idle"
      /\ UNCHANGED <<due, snapshot, uploads, checkpoint, raced, failing>>
  BY DEF Restart
<1>2. PICK start \in StartFiles(checkpoint.history) : files' \in Restored(start, checkpoint.index)
  BY DEF Restart
<1>3. /\ start \in File /\ Fits(start) /\ start.from <= start.to + 1 /\ start.to = LastRow(checkpoint.history)
      /\ LeadsBack(start.from, start.prev) /\ LastRow(start.prev) <= LastRow(checkpoint.history)
      /\ start.savedAs \in {Null, checkpoint.history}
      /\ start.savedAs # Null => UploadOf(uploads[start.savedAs], start)
  BY Starting
<1>4. /\ checkpoint.index \in -1 .. MaxRows - 1 /\ checkpoint.history \in Links
      /\ LastRow(checkpoint.history) <= checkpoint.index
  BY DEF IInv, CheckpointOK
<1>5. checkpoint.index \in Int /\ checkpoint.index <= MaxRows - 1 /\ -1 <= checkpoint.index
  BY <1>4, ConstantsAssumption
<1>6. /\ FollowUpTo(files', checkpoint.index)
      /\ files'[1].from = start.from /\ files'[1].prev = start.prev /\ files'[1].savedAs = start.savedAs
      /\ start.to <= files'[1].to
  <2>1. start.to <= checkpoint.index
    BY <1>3, <1>4
  <2> QED
    BY <1>2, <1>3, <1>5, <2>1, Restoring
<1>7. UploadsOK' /\ Links' = Links /\ \A link : LastRow(link)' = LastRow(link)
  BY <1>1, UploadsStay DEF IInv
<1>8. ScalarsOK'
  <2>1. boot \in 1 .. MaxBoots /\ boot < MaxBoots /\ due = 0 /\ failing \in BOOLEAN /\ raced \in BOOLEAN
    BY <1>1 DEF IInv, ScalarsOK, DownOK
  <2>2. boot + 1 \in 1 .. MaxBoots
    BY <2>1, ConstantsAssumption
  <2>3. due \in 0 .. checkpoint.index + 1
    BY <1>5, <2>1
  <2>4. dirty' \in BOOLEAN /\ saver' \in {"idle", "turn", "waiting", "uploading"}
    BY <1>1
  <2> QED
    BY <1>1, <1>4, <2>1, <2>2, <2>3, <2>4 DEF ScalarsOK
<1>9. FilesOK'
  BY <1>1, <1>6 DEF FilesOK
<1>10. FirstOK'
  <2>1. LeadsBack(files[1].from, files[1].prev)'
    BY <1>1, <1>3, <1>6, <1>7 DEF LeadsBack
  <2>2. files'[1].savedAs \in Links'
    <3>1. Null \in Links
      BY LinkType DEF IInv
    <3> QED
      BY <1>3, <1>4, <1>6, <1>7, <3>1
  <2>3. files'[1].savedAs # Null => UploadOf(uploads'[files'[1].savedAs], files'[1])
    <3> SUFFICES ASSUME start.savedAs # Null PROVE UploadOf(uploads[start.savedAs], files'[1])
      BY <1>1, <1>6
    <3>1. UploadOf(uploads[start.savedAs], start)
      BY <1>3
    <3>2. start.savedAs \in 1 .. Len(uploads) /\ uploads[start.savedAs].to \in Int
      BY <1>3, <1>4, LinkType DEF IInv
    <3>3. start.to \in Int /\ files'[1].to \in Int
      <4>1. files' \in Seq(File) /\ Len(files') >= 1
        BY <1>6 DEF FollowUpTo
      <4>2. Len(files') \in Nat
        BY <4>1, FilesAre
      <4>3. 1 \in 1 .. Len(files')
        BY <4>1, <4>2
      <4> QED
        BY <1>3, <4>1, <4>3, FilesAre, FileType
    <3> QED
      BY <1>6, <3>1, <3>2, <3>3 DEF UploadOf
  <2> QED
    BY <2>1, <2>2, <2>3 DEF FirstOK
<1>11. SnapshotOK'
  BY <1>1 DEF IInv, SnapshotOK
<1>12. NewestOK'
  <2>1. /\ LastRow(start.prev) <= LastRow(checkpoint.history) /\ LastRow(checkpoint.history) \in Int
        /\ LastRow(Null) = -1 /\ LastRow(checkpoint.history) >= -1
    BY <1>3, <1>4, LinkType DEF IInv
  <2>2. LastRow(start.prev) \in Int
    BY <1>3, LinkType DEF IInv, LeadsBack
  <2>3. LastRow(start.savedAs) <= LastRow(checkpoint.history) /\ LastRow(start.savedAs) \in Int
    BY <1>3, <2>1
  <2> QED
    BY <1>1, <1>4, <1>6, <1>7, <2>1, <2>2, <2>3 DEF NewestOK
<1>13. CheckpointOK'
  BY <1>1, <1>7 DEF IInv, CheckpointOK, RowsRunOn
<1>14. DownOK'
  BY <1>1 DEF DownOK
<1> QED
  BY <1>7, <1>8, <1>9, <1>10, <1>11, <1>12, <1>13, <1>14 DEF IInv

LEMMA Blocking == ASSUME IInv, RestartBlocks PROVE IInv'
<1> USE DEF RestartBlocks
<1>1. UploadsOK' /\ Links' = Links /\ \A link : LastRow(link)' = LastRow(link)
  BY UploadsStay DEF IInv
<1>2. ScalarsOK' /\ FilesOK' /\ FirstOK' /\ NewestOK' /\ CheckpointOK' /\ DownOK'
  BY <1>1 DEF IInv, ScalarsOK, FilesOK, FirstOK, LeadsBack, NewestOK, CheckpointOK, RowsRunOn, DownOK
<1>3. SnapshotOK'
  BY DEF IInv, SnapshotOK, UploadOf, Fits, RowsOf
<1> QED
  BY <1>1, <1>2, <1>3 DEF IInv

LEMMA Stuttering == ASSUME IInv, UNCHANGED vars PROVE IInv'
<1> USE DEF vars
<1>1. UploadsOK' /\ Links' = Links /\ \A link : LastRow(link)' = LastRow(link)
  BY UploadsStay DEF IInv
<1>2. ScalarsOK' /\ FilesOK' /\ FirstOK' /\ NewestOK' /\ CheckpointOK' /\ DownOK'
  BY <1>1 DEF IInv, ScalarsOK, FilesOK, FirstOK, LeadsBack, NewestOK, CheckpointOK, RowsRunOn, DownOK
<1>3. SnapshotOK'
  BY DEF IInv, SnapshotOK, UploadOf, Fits, RowsOf
<1> QED
  BY <1>1, <1>2, <1>3 DEF IInv

LEMMA Starts == Init => IInv
<1> SUFFICES ASSUME Init PROVE IInv
  OBVIOUS
<1> USE DEF Init
<1>1. UploadsOK
  BY DEF UploadsOK
<1>2. ScalarsOK /\ DownOK
  <2>1. -1 \in -1 .. MaxRows - 1 /\ 0 \in 0 .. -1 + 1 /\ 1 \in 1 .. MaxBoots
    BY ConstantsAssumption
  <2> QED
    BY <2>1 DEF ScalarsOK, DownOK
<1>3. FilesOK /\ SnapshotOK
  BY EmptyStart DEF FilesOK, SnapshotOK, NoUpload
<1>4. files[1] = EmptyFile(0, Null) /\ files[1].from = 0 /\ files[1].prev = Null /\ files[1].savedAs = Null
  BY DEF EmptyFile
<1>5. Null \in Links /\ LastRow(Null) = -1
  BY <1>1, LinkType
<1>6. FirstOK /\ NewestOK
  BY <1>1, <1>4, <1>5, EmptyStart DEF FirstOK, NewestOK
<1>7. CheckpointOK
  <2>1. checkpoint.index = -1 /\ checkpoint.history = Null /\ checkpoint.rows = {}
    BY DEF FirstCheckpoint
  <2> QED
    BY <1>5, <2>1, ConstantsAssumption DEF CheckpointOK, RowsRunOn
<1> QED
  BY <1>1, <1>2, <1>3, <1>6, <1>7 DEF IInv

(* The inductive invariant: what is uploaded leads strictly back, the files in memory follow each other up to the last
   row, and newest, checkpoint and the upload under way fit them. *)
THEOREM Invariance == Spec => []IInv
<1>1. IInv /\ [Next]_vars => IInv'
  BY Confirming, Requesting, Writing, SaverPausing, SaverGoingOn, Succeeding, Failing, Crashing, Restarting, Blocking,
     Stuttering DEF Next, Saver
<1> QED
  BY <1>1, Starts, PTL DEF Spec

-----------------------------------------------------------------------------
(* What follows from it *)

(* Following prev from any file leads strictly back, every file that is linked to exists and none outgrows its limit. *)
THEOREM LinksLead == Spec => []LinksLeadBack
<1>1. IInv => LinksLeadBack
  <2> SUFFICES ASSUME IInv PROVE LinksLeadBack
    OBVIOUS
  <2>1. UploadsOK /\ Len(uploads) \in Nat
    BY LinkType DEF IInv
  <2>2. ASSUME NEW i \in 1 .. Len(uploads)
        PROVE  /\ uploads[i] \in File /\ uploads[i].prev \in 0 .. i - 1
               /\ uploads[i].prev # Null => uploads[uploads[i].prev].to < uploads[i].from
    <3>1. uploads[i].prev < i /\ LeadsBack(uploads[i].from, uploads[i].prev)
      BY <2>1 DEF UploadsOK
    <3>2. uploads[i].prev \in 0 .. Len(uploads) /\ LastRow(uploads[i].prev) < uploads[i].from
      BY <3>1 DEF LeadsBack, Links
    <3>3. uploads[i].prev \in 0 .. i - 1
      BY <2>1, <3>1, <3>2
    <3> QED
      BY <2>1, <3>2, <3>3, LinkType DEF LastRow
  <2>3. \A i \in 1 .. Len(files) : files[i] \in File /\ Cardinality(RowsOf(files[i])) <= MaxMessages
    <3>1. FollowUpTo(files, tip)
      BY DEF IInv, FilesOK
    <3> QED
      BY <3>1, FilesAre DEF FollowUpTo, Fits
  <2>4. due \in 0 .. MaxRows
    BY InMemory
  <2>5. TypeOK
    BY <2>2, <2>3, <2>4 DEF IInv, TypeOK, ScalarsOK, NewestOK, SnapshotOK, CheckpointOK, Links
  <2> QED
    BY <2>2, <2>5 DEF LinksLeadBack
<1> QED
  BY <1>1, Invariance, PTL

\* Without a race, following prev from a link finds every row up to the link's last one, so none is missing between.
LEMMA ReachableIs ==
  ASSUME UploadsOK, ~raced
  PROVE  \A link \in Links : Reachable[link] = 0 .. LastRow(link)
<1> DEFINE Follows(f) == [link \in 0 .. Len(uploads) |->
                            IF link = Null THEN {} ELSE RowsOf(uploads[link]) \cup f[uploads[link].prev]]
           found == [link \in Links |-> 0 .. LastRow(link)]
<1>1. ASSUME NEW link \in Links, link # Null
      PROVE  /\ uploads[link].prev \in Links /\ uploads[link].prev < link
             /\ RowsOf(uploads[link]) \cup 0 .. LastRow(uploads[link].prev) = 0 .. LastRow(link)
  <2>1. link \in 1 .. Len(uploads)
    BY <1>1, LinkType
  <2>2. /\ uploads[link].from <= uploads[link].to /\ uploads[link].prev < link
        /\ LeadsBack(uploads[link].from, uploads[link].prev)
    BY <2>1 DEF UploadsOK
  <2>3. uploads[link].prev \in Links /\ uploads[link].from = LastRow(uploads[link].prev) + 1
    BY <2>2 DEF LeadsBack
  <2>4. /\ LastRow(uploads[link].prev) \in Int /\ LastRow(uploads[link].prev) >= -1
        /\ uploads[link].from \in Int /\ uploads[link].to \in Int
    BY <2>1, <2>3, LinkType
  <2>5. LastRow(link) = uploads[link].to
    BY <1>1 DEF LastRow
  <2> QED
    BY <2>2, <2>3, <2>4, <2>5 DEF RowsOf
<1>2. found = Follows(found)
  <2>1. \A link \in Links : found[link] = IF link = Null THEN {} ELSE RowsOf(uploads[link]) \cup found[uploads[link].prev]
    <3> SUFFICES ASSUME NEW link \in Links
                 PROVE  found[link] = IF link = Null THEN {} ELSE RowsOf(uploads[link]) \cup found[uploads[link].prev]
      OBVIOUS
    <3>1. CASE link = Null
      <4>1. LastRow(link) = -1
        BY <3>1 DEF LastRow
      <4> QED
        BY <3>1, <4>1
    <3>2. CASE link # Null
      <4>1. /\ uploads[link].prev \in Links
            /\ RowsOf(uploads[link]) \cup 0 .. LastRow(uploads[link].prev) = 0 .. LastRow(link)
        BY <1>1, <3>2
      <4> HIDE DEF RowsOf, LastRow
      <4> QED
        BY <3>2, <4>1
    <3> QED
      BY <3>1, <3>2
  <2> QED
    BY <2>1 DEF Links
<1>3. Reachable = CHOOSE f : f = Follows(f)
  BY DEF Reachable
<1> HIDE DEF Follows, found
<1>4. Reachable = Follows(Reachable)
  BY <1>2, <1>3
<1>5. ASSUME NEW link \in Links
      PROVE  Reachable[link] = IF link = Null THEN {} ELSE RowsOf(uploads[link]) \cup Reachable[uploads[link].prev]
  BY <1>4 DEF Follows, Links
<1> DEFINE Wrong == {link \in Links : Reachable[link] # 0 .. LastRow(link)}
<1>6. SUFFICES ASSUME Wrong # {} PROVE FALSE
  OBVIOUS
<1>7. PICK link \in Wrong : \A other \in Wrong : link <= other
  <2>1. Wrong \in SUBSET (0 .. Len(uploads)) /\ Len(uploads) \in Nat
    BY LinkType DEF Links
  <2> HIDE DEF Wrong
  <2> QED
    BY <1>6, <2>1, SmallestExists
<1>8. link \in Links /\ Reachable[link] # 0 .. LastRow(link)
  OBVIOUS
<1>9. CASE link = Null
  <2>1. Reachable[link] = {} /\ LastRow(link) = -1
    BY <1>5, <1>8, <1>9 DEF LastRow
  <2> QED
    BY <1>8, <2>1
<1>10. CASE link # Null
  <2>1. /\ uploads[link].prev \in Links /\ uploads[link].prev < link
        /\ RowsOf(uploads[link]) \cup 0 .. LastRow(uploads[link].prev) = 0 .. LastRow(link)
    BY <1>1, <1>8, <1>10
  <2>2. uploads[link].prev \notin Wrong
    BY <1>7, <1>8, <2>1 DEF Links
  <2>3. Reachable[uploads[link].prev] = 0 .. LastRow(uploads[link].prev)
    BY <2>1, <2>2
  <2>4. Reachable[link] = RowsOf(uploads[link]) \cup Reachable[uploads[link].prev]
    BY <1>5, <1>8, <1>10
  <2> QED
    BY <1>8, <2>1, <2>3, <2>4
<1> QED
  BY <1>9, <1>10

(* Every published row can be reached from the newest link or is still in memory to be saved. *)
THEOREM NoRowIsLost == Spec => []RowsKept
<1>1. IInv => RowsKept
  <2> SUFFICES ASSUME IInv, ~raced, NEW r \in 0 .. tip PROVE r \in Reachable[newest] \cup RowsAfter(-1)
    BY DEF RowsKept
  <2>1. /\ UploadsOK /\ newest \in Links /\ LastRow(newest) \in Int /\ tip \in Int /\ files[1].prev \in Links
        /\ LastRow(files[1].prev) \in Int /\ FollowUpTo(files, tip)
    BY InMemory, LinkType DEF IInv, FilesOK
  <2>2. CASE r <= LastRow(newest)
    <3>1. r \in 0 .. LastRow(newest)
      BY <2>1, <2>2
    <3> QED
      BY <2>1, <3>1, ReachableIs
  <2>3. CASE r > LastRow(newest)
    <3>1. files[1].from = LastRow(files[1].prev) + 1 /\ LastRow(newest) >= LastRow(files[1].prev)
      BY DEF IInv, FirstOK, LeadsBack, NewestOK
    <3>2. r \in files[1].from .. tip /\ r > -1
      BY <2>1, <2>3, <3>1
    <3>3. PICK i \in 1 .. Len(files) : r \in RowsOf(files[i])
      BY <2>1, <3>2, RowsInFiles
    <3> HIDE DEF RowsOf
    <3> QED
      BY <3>2, <3>3 DEF RowsAfter
  <2> QED
    BY <2>1, <2>2, <2>3
<1> QED
  BY <1>1, Invariance, PTL

(* The checkpoint's rows run on from the file it links to, and the two hold every row up to its index. *)
THEOREM NothingIsLostByACrash == Spec => []CheckpointCompletes
<1>1. IInv => CheckpointCompletes
  <2> SUFFICES ASSUME IInv, ~raced
               PROVE  RowsRunOn(checkpoint) /\ 0 .. checkpoint.index \subseteq Reachable[checkpoint.history] \cup checkpoint.rows
    BY DEF CheckpointCompletes
  <2>1. /\ UploadsOK /\ checkpoint.history \in Links /\ checkpoint.index \in Int
        /\ LastRow(checkpoint.history) \in Int /\ RowsRunOn(checkpoint)
    BY LinkType, ConstantsAssumption DEF IInv, CheckpointOK
  <2>2. Reachable[checkpoint.history] = 0 .. LastRow(checkpoint.history)
    BY <2>1, ReachableIs
  <2>3. checkpoint.rows = (LastRow(checkpoint.history) + 1) .. checkpoint.index
    BY <2>1 DEF RowsRunOn
  <2>4. \A r \in 0 .. checkpoint.index : r \in 0 .. LastRow(checkpoint.history) \/ r \in (LastRow(checkpoint.history) + 1) .. checkpoint.index
    BY <2>1
  <2> QED
    BY <2>1, <2>2, <2>3, <2>4
<1> QED
  BY <1>1, Invariance, PTL

(* A file closed during its own upload is the only way a checkpoint comes to be refused: what the run refutes for every
   behaviour holds of those without that race. *)
THEOREM OnlyARaceBlocks == Spec => [](chat = "blocked" => raced)
<1> DEFINE Kept == chat = "blocked" => raced
<1>1. Init => Kept
  BY DEF Init
<1>2. IInv /\ Kept /\ [Next]_vars => Kept'
  <2> SUFFICES ASSUME IInv, Kept, [Next]_vars PROVE Kept'
    OBVIOUS
  <2>1. CASE Confirm
    BY <2>1 DEF Confirm
  <2>2. CASE Crash \/ Restart
    BY <2>2 DEF Crash, Restart
  <2>3. CASE RestartBlocks
    <3>1. ~RowsRunOn(checkpoint) /\ raced' = raced
      BY <2>3 DEF RestartBlocks
    <3> QED
      BY <3>1 DEF IInv, CheckpointOK
  <2>4. CASE RequestSave \/ WriteCheckpoint \/ Saver \/ UNCHANGED vars
    <3>1. chat' = chat /\ raced' = raced
      BY <2>4 DEF RequestSave, WriteCheckpoint, Saver, SaverReturns, SaverWaits, SaverGoesOn, UploadSucceeds, UploadFails, vars
    <3> QED
      BY <3>1
  <2> QED
    BY <2>1, <2>2, <2>3, <2>4 DEF Next
<1> QED
  BY <1>1, <1>2, Invariance, PTL DEF Spec

=============================================================================
