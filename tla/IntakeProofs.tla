----------------------------- MODULE IntakeProofs -----------------------------
(***************************************************************************)
(* The safety of Intake for every number of senders, ids and messages and  *)
(* for every limit and window: the rates hold in any window and count only *)
(* what was taken, what is refused as a duplicate was taken, and a message *)
(* is taken twice only in the three cases that TakenOnce lists.            *)
(***************************************************************************)
EXTENDS Intake, FiniteSetTheorems, SequenceTheorems, TLAPS

-----------------------------------------------------------------------------
(* The inductive invariants *)

RatesTypeOK ==
  /\ now \in 0 .. MaxTime
  /\ taken \in Seq([key : Sender, at : 0 .. MaxTime])
  /\ events \in [Key -> SUBSET DOMAIN taken]

\* A rate remembers messages that it is about, and each of those in the window.
EventsOK ==
  /\ \A i \in DOMAIN taken : taken[i].at <= now
  /\ \A k \in Key : \A i \in events[k] : k \in {taken[i].key, TheChat}
  /\ \A k \in Key : \A i \in DOMAIN taken :
       k \in {taken[i].key, TheChat} /\ taken[i].at > now - Window => i \in events[k]

\* No window that ended so far holds more than the limit.
LimitsHold == \A k \in Key : \A end \in 0 .. now : Cardinality(Within(k, end)) <= Limit[k]

RatesOK == RatesTypeOK /\ EventsOK /\ LimitsHold

IdsTypeOK ==
  /\ state \in {"closed", "resuming", "ready", "blocked"}
  /\ queue \in Seq(Message) /\ queued \subseteq Message /\ log \in Seq(Message) /\ recent \subseteq 1 .. confirmed
  /\ saved \in Nat /\ confirmed \in Nat /\ recorded \in Nat
  /\ saved <= confirmed /\ confirmed <= recorded /\ recorded <= Len(log)
  /\ openings \subseteq [from : Nat, until : Nat, again : SUBSET Message]
  /\ \A o \in openings : o.until <= recorded

\* Without a publisher that is ready the chat is what its checkpoint says.
RestsOnCheckpoint ==
  /\ state \in {"closed", "resuming"} => Len(log) = recorded /\ confirmed = saved
  /\ state = "closed" => queue = <<>>

\* The ids of a range of slots.
Ids(rows, a, b) == {rows[t] : t \in a .. b}

\* Some publisher learned of the message only after it was taken again.
TakenAgain(m) == \E o \in openings : m \in o.again

\* A message that is queued or pending is known, and there once, unless it was taken again before that was known.
HeldOnce ==
  /\ \A p \in 1 .. Len(queue) : queue[p] \in queued \/ TakenAgain(queue[p])
  /\ \A p, q \in 1 .. Len(queue) : p < q /\ queue[p] = queue[q] => TakenAgain(queue[p])
  /\ \A i, j \in saved + 1 .. recorded : i < j /\ log[i] = log[j] => TakenAgain(log[i])
  /\ state = "ready" =>
       /\ \A i \in confirmed + 1 .. Len(log) : log[i] \in queued \/ TakenAgain(log[i])
       /\ \A i \in confirmed + 1 .. Len(log), p \in 1 .. Len(queue) : log[i] = queue[p] => TakenAgain(log[i])
       /\ \A i, j \in confirmed + 1 .. Len(log) : i < j /\ log[i] = log[j] => TakenAgain(log[i])

\* What is queued by its id was taken, and is still held or has a slot.
QueuedAreHeld ==
  \A m \in queued : (\E i \in 1 .. Len(log) : log[i] = m) \/ (\E p \in 1 .. Len(queue) : queue[p] = m)

\* Of each id the newest slot is remembered.
NewestAreRecent == \A s \in recent : \A t \in s + 1 .. confirmed : log[t] # log[s]

\* A message that was published is remembered, unless enough others were published since or a publisher resumed with a
\* history file that begins after it.
Known(i) ==
  \/ Published(log[i])
  \/ Cardinality(Ids(log, i + 1, confirmed)) >= RecentLimit
  \/ \E o \in openings : i < o.from

PublishedAreKnown == state = "ready" => \A i \in 1 .. confirmed : Known(i)

\* TakenOnce, by ranges of slots.
Excused(i, j) ==
  \/ Cardinality(Ids(log, i + 1, j - 1)) >= RecentLimit
  \/ \E o \in openings : o.until < j /\ (i < o.from \/ log[i] \in o.again)

SlotsOnce == \A i, j \in 1 .. Len(log) : i < j /\ log[i] = log[j] => Excused(i, j)

IdsOK ==
  IdsTypeOK /\ RestsOnCheckpoint /\ HeldOnce /\ QueuedAreHeld /\ NewestAreRecent /\ PublishedAreKnown /\ SlotsOnce

\* The rates and the ids do not depend on each other.
IInv == RatesOK /\ IdsOK

-----------------------------------------------------------------------------
(* Rates *)

LEMMA LimitType == Limit \in [Key -> Nat] /\ TheChat \in Key
BY ConstantsAssumption DEF Limit, Key

\* Every message taken has a sender and a time.
LEMMA TakenType ==
  ASSUME RatesTypeOK
  PROVE  /\ Len(taken) \in Nat /\ DOMAIN taken = 1 .. Len(taken)
         /\ \A i \in DOMAIN taken : taken[i].key \in Sender /\ taken[i].at \in Nat
<1>1. Len(taken) \in Nat /\ DOMAIN taken = 1 .. Len(taken) /\ taken \in [1 .. Len(taken) -> [key : Sender, at : 0 .. MaxTime]]
  BY LenProperties DEF RatesTypeOK
<1> QED
  BY <1>1, ConstantsAssumption

\* What is in a window is finite.
LEMMA WithinIsFinite ==
  ASSUME RatesTypeOK, NEW k \in Key, NEW end \in Int
  PROVE  IsFiniteSet(Within(k, end)) /\ Cardinality(Within(k, end)) \in Nat
<1>1. IsFiniteSet(1 .. Len(taken)) /\ DOMAIN taken = 1 .. Len(taken)
  BY FS_Interval, LenProperties DEF RatesTypeOK
<1>2. Within(k, end) \in SUBSET (1 .. Len(taken))
  BY <1>1 DEF Within
<1> QED
  BY <1>1, <1>2, FS_Subset, FS_CardinalityType

(* RateLimiter.fits(): what a rate counts is what was taken in the window that ends now. *)
LEMMA CountsAreWithin ==
  ASSUME RatesOK, NEW k \in Key
  PROVE  Counts(k) = Within(k, now)
<1>1. now \in Nat /\ Window \in Nat /\ \A i \in DOMAIN taken : taken[i].at \in Nat
  BY TakenType, ConstantsAssumption, SMTT(60) DEF RatesOK, RatesTypeOK
<1>2. events[k] \subseteq DOMAIN taken
  BY DEF RatesOK, RatesTypeOK
<1> QED
  BY <1>1, <1>2 DEF Counts, Within, RatesOK, EventsOK

\* A message is taken: only the windows that end now, of its sender and of the chat, hold one more.
LEMMA TakesKeepsRates ==
  ASSUME RatesOK, NEW m \in Message, Takes(m)
  PROVE  RatesOK'
<1> DEFINE new == [key |-> m[1], at |-> now]
           n == Len(taken) + 1
<1>1. m[1] \in Sender /\ m[1] \in Key /\ TheChat \in Key
  BY DEF Message, Key
<1>2. now \in 0 .. MaxTime /\ now \in Nat /\ Window \in Nat \ {0} /\ now' = now
  BY ConstantsAssumption DEF Takes, RatesOK, RatesTypeOK
<1>3. new \in [key : Sender, at : 0 .. MaxTime] /\ new.key = m[1] /\ new.at = now
  BY <1>1, <1>2
<1>4. /\ taken' = Append(taken, new)
      /\ events' = [k \in Key |-> IF k \in {m[1], TheChat} THEN Counts(k) \cup {n} ELSE events[k]]
  BY DEF Takes
<1>5. /\ Len(taken) \in Nat /\ DOMAIN taken = 1 .. Len(taken)
      /\ taken' \in Seq([key : Sender, at : 0 .. MaxTime])
      /\ DOMAIN taken' = 1 .. n
      /\ \A i \in 1 .. Len(taken) : taken'[i] = taken[i]
      /\ taken'[n] = new
  <2> HIDE DEF new
  <2> QED
    BY <1>3, <1>4, AppendProperties, LenProperties DEF RatesOK, RatesTypeOK
<1>6. \A i \in DOMAIN taken : taken[i].at \in Nat /\ taken[i].at <= now
  BY TakenType DEF RatesOK, EventsOK
<1> HIDE DEF new
<1>7. RatesTypeOK'
  <2>1. \A k \in Key : Counts(k) \subseteq DOMAIN taken /\ events[k] \subseteq DOMAIN taken
    BY DEF Counts, RatesOK, RatesTypeOK
  <2>2. events' \in [Key -> SUBSET DOMAIN taken']
    BY <1>4, <1>5, <2>1
  <2> QED
    BY <1>2, <1>5, <2>2 DEF RatesTypeOK
<1>8. EventsOK'
  <2>1. \A i \in DOMAIN taken' : taken'[i].at <= now'
    BY <1>2, <1>3, <1>5, <1>6
  <2>2. ASSUME NEW k \in Key, NEW i \in events'[k] PROVE k \in {taken'[i].key, TheChat}
    <3>1. (i = n /\ k \in {m[1], TheChat}) \/ i \in events[k]
      BY <1>4, <2>2 DEF Counts
    <3>2. events[k] \subseteq 1 .. Len(taken)
      BY <1>5 DEF RatesOK, RatesTypeOK
    <3> QED
      BY <1>3, <1>5, <3>1, <3>2 DEF RatesOK, EventsOK
  <2>3. ASSUME NEW k \in Key, NEW i \in DOMAIN taken', k \in {taken'[i].key, TheChat}, taken'[i].at > now' - Window
        PROVE  i \in events'[k]
    <3>1. CASE i = n
      BY <1>3, <1>4, <1>5, <2>3, <3>1
    <3>2. CASE i \in 1 .. Len(taken)
      <4>1. i \in events[k] /\ taken[i].at > now - Window
        BY <1>2, <1>5, <2>3, <3>2 DEF RatesOK, EventsOK
      <4> QED
        BY <1>4, <4>1 DEF Counts
    <3> QED
      BY <1>5, <3>1, <3>2
  <2> QED
    BY <2>1, <2>2, <2>3 DEF EventsOK
<1>9. LimitsHold'
  <2> SUFFICES ASSUME NEW k \in Key, NEW end \in 0 .. now PROVE Cardinality(Within(k, end)') <= Limit[k]
    BY <1>2 DEF LimitsHold
  <2>1. IsFiniteSet(Within(k, end)) /\ Cardinality(Within(k, end)) \in Nat /\ Limit[k] \in Nat
    BY WithinIsFinite, LimitType DEF RatesOK
  <2>2. Cardinality(Within(k, end)) <= Limit[k]
    BY DEF RatesOK, LimitsHold
  <2>3. CASE end = now /\ k \in {m[1], TheChat}
    <3>1. Cardinality(Within(k, now)) < Limit[k]
      BY <2>3, CountsAreWithin DEF Takes, Admits, Fits
    <3>2. Within(k, end)' = Within(k, end) \cup {n}
      BY <1>2, <1>3, <1>5, <1>6, <2>3, SMTT(60) DEF Within
    <3>3. n \notin Within(k, end)
      BY <1>5 DEF Within
    <3>4. Cardinality(Within(k, end) \cup {n}) = Cardinality(Within(k, end)) + 1
      BY <2>1, <3>3, FS_AddElement, Zenon
    <3>5. Cardinality(Within(k, end)') = Cardinality(Within(k, end)) + 1
      BY <3>2, <3>4, Zenon
    <3> QED
      BY <2>1, <2>3, <3>1, <3>5
  <2>4. CASE ~(end = now /\ k \in {m[1], TheChat})
    <3>1. Within(k, end)' = Within(k, end)
      BY <1>2, <1>3, <1>5, <1>6, <2>4 DEF Within
    <3> QED
      BY <2>2, <3>1
  <2> QED
    BY <2>3, <2>4
<1> QED
  BY <1>7, <1>8, <1>9 DEF RatesOK

\* Rates forget what left the window, and nothing else.
LEMMA ForgettingKeepsRates ==
  ASSUME RatesOK, UNCHANGED <<now, taken>>, events' \in [Key -> SUBSET DOMAIN taken],
         \A k \in Key : events'[k] \subseteq events[k] /\ Counts(k) \subseteq events'[k]
  PROVE  RatesOK'
<1>1. RatesTypeOK'
  BY DEF RatesOK, RatesTypeOK
<1>2. EventsOK'
  BY DEF RatesOK, EventsOK, Counts
<1>3. LimitsHold'
  BY DEF RatesOK, LimitsHold, Within
<1> QED
  BY <1>1, <1>2, <1>3 DEF RatesOK

\* Time passes: the window that ends next holds nothing that the last one did not hold.
LEMMA TickKeepsRates ==
  ASSUME RatesOK, Tick
  PROVE  RatesOK'
<1>1. now \in 0 .. MaxTime /\ now \in Nat /\ MaxTime \in Nat /\ Window \in Nat /\ now' = now + 1 /\ now < MaxTime
  BY ConstantsAssumption DEF Tick, RatesOK, RatesTypeOK
<1>2. UNCHANGED <<taken, events>>
  BY DEF Tick
<1>3. \A i \in DOMAIN taken : taken[i].at \in Nat /\ taken[i].at <= now
  BY TakenType DEF RatesOK, EventsOK
<1>4. RatesTypeOK'
  BY <1>1, <1>2 DEF RatesOK, RatesTypeOK
<1>5. EventsOK'
  BY <1>1, <1>2, <1>3 DEF RatesOK, EventsOK
<1>6. LimitsHold'
  <2> SUFFICES ASSUME NEW k \in Key, NEW end \in 0 .. now + 1 PROVE Cardinality(Within(k, end)') <= Limit[k]
    BY <1>1 DEF LimitsHold
  <2>1. Within(k, end)' = Within(k, end)
    BY <1>2 DEF Within
  <2>2. CASE end \in 0 .. now
    BY <2>1, <2>2 DEF RatesOK, LimitsHold
  <2>3. CASE end = now + 1
    <3>1. Within(k, end) \in SUBSET Within(k, now)
      BY <1>1, <1>3, <2>3 DEF Within
    <3>2. IsFiniteSet(Within(k, now)) /\ Cardinality(Within(k, now)) \in Nat /\ Cardinality(Within(k, end)) \in Nat
      BY <1>1, WithinIsFinite DEF RatesOK
    <3>3. Cardinality(Within(k, end)) <= Cardinality(Within(k, now))
      BY <3>1, <3>2, FS_Subset
    <3>4. Cardinality(Within(k, now)) <= Limit[k] /\ Limit[k] \in Nat
      BY <1>1, LimitType DEF RatesOK, LimitsHold
    <3> QED
      BY <2>1, <3>2, <3>3, <3>4
  <2> QED
    BY <1>1, <2>2, <2>3
<1> QED
  BY <1>4, <1>5, <1>6 DEF RatesOK

\* With no message taken every rate holds.
LEMMA InitKeepsRates == Init => RatesOK
<1> SUFFICES ASSUME Init PROVE RatesOK
  OBVIOUS
<1>1. now = 0 /\ taken = <<>> /\ events = [k \in Key |-> {}]
  BY DEF Init
<1>2. RatesTypeOK /\ DOMAIN taken = {}
  BY <1>1, ConstantsAssumption, EmptySeq DEF RatesTypeOK
<1>3. EventsOK
  BY <1>1, <1>2 DEF EventsOK
<1>4. LimitsHold
  BY <1>2, FS_EmptySet, LimitType DEF LimitsHold, Within
<1> QED
  BY <1>2, <1>3, <1>4 DEF RatesOK

LEMMA RestartsKeepsRates ==
  ASSUME Restarts
  PROVE  RatesOK'
<1>1. now' = 0 /\ taken' = <<>> /\ events' = [k \in Key |-> {}]
  BY DEF Restarts
<1>2. RatesTypeOK' /\ DOMAIN taken' = {}
  BY <1>1, ConstantsAssumption, EmptySeq DEF RatesTypeOK
<1>3. EventsOK'
  BY <1>1, <1>2 DEF EventsOK
<1>4. LimitsHold'
  BY <1>2, FS_EmptySet, LimitType DEF LimitsHold, Within
<1> QED
  BY <1>2, <1>3, <1>4 DEF RatesOK

LEMMA NextKeepsRates == RatesOK /\ [Next]_vars => RatesOK'
<1> SUFFICES ASSUME RatesOK, [Next]_vars PROVE RatesOK'
  OBVIOUS
<1>1. \A k \in Key : Counts(k) \subseteq events[k] /\ events[k] \subseteq DOMAIN taken
  BY DEF Counts, RatesOK, RatesTypeOK
<1>2. ASSUME NEW m \in Message, Takes(m) PROVE RatesOK'
  BY <1>2, TakesKeepsRates
<1>3. ASSUME NEW m \in Message, Refuses(m) PROVE RatesOK'
  <2>1. PICK asked : events' = [k \in Key |-> IF k \in asked THEN Counts(k) ELSE events[k]]
    BY <1>3 DEF Refuses
  <2>2. events' \in [Key -> SUBSET DOMAIN taken] /\ \A k \in Key : events'[k] \subseteq events[k] /\ Counts(k) \subseteq events'[k]
    BY <1>1, <2>1
  <2> QED
    BY <1>3, <2>2, ForgettingKeepsRates DEF Refuses
<1>4. CASE Prune
  <2>1. \A k \in Key : \A i \in DOMAIN taken : taken[i].at \in Nat
    BY TakenType DEF RatesOK
  <2>2. now \in Nat /\ Window \in Nat
    BY ConstantsAssumption DEF RatesOK, RatesTypeOK
  <2>3. \A k \in Key : (\A i \in events[k] : taken[i].at <= now - Window) => Counts(k) = {}
    BY <1>1, <2>1, <2>2 DEF Counts
  <2>4. events' = [k \in Key |-> IF \A i \in events[k] : taken[i].at <= now - Window THEN {} ELSE events[k]]
    BY <1>4 DEF Prune
  <2>5. \A k \in Key : events'[k] \in {{}, events[k]} /\ Counts(k) \subseteq events'[k]
    BY <1>1, <2>3, <2>4
  <2>6. events' \in [Key -> SUBSET DOMAIN taken] /\ \A k \in Key : events'[k] \subseteq events[k] /\ Counts(k) \subseteq events'[k]
    BY <1>1, <2>4, <2>5
  <2> QED
    BY <1>4, <2>6, ForgettingKeepsRates DEF Prune
<1>5. CASE Tick
  BY <1>5, TickKeepsRates
<1>6. CASE Restarts
  BY <1>6, RestartsKeepsRates
<1>7. ASSUME UNCHANGED rate_vars PROVE RatesOK'
  BY <1>7 DEF rate_vars, RatesOK, RatesTypeOK, EventsOK, LimitsHold, Within
<1>8. CASE Resumes \/ Stages \/ Confirms \/ Records \/ Blocks \/ Evicts \/ UNCHANGED vars
  BY <1>7, <1>8 DEF Resumes, Stages, Confirms, Records, Blocks, Evicts, vars
<1> QED
  BY <1>2, <1>3, <1>4, <1>5, <1>6, <1>8 DEF Next

-----------------------------------------------------------------------------
(* Lemmas about slots and ids *)

\* A set of slots that is not empty has an oldest one, and a newest one.
LEMMA OldestExists ==
  ASSUME NEW n \in Nat, NEW T \in SUBSET (0 .. n), T # {}
  PROVE  \E x \in T : \A y \in T : x <= y
<1> DEFINE C(t) == 0 .. t
           F == {C(t) : t \in T}
           R == StrictSubsetOrdering(0 .. n)
           S == FiniteSubsetsOf(0 .. n)
<1>1. IsWellFoundedOn(R, S)
  BY FS_StrictSubsetOrderingWellFounded
<1>2. \A t \in T : C(t) \in S
  BY FS_Interval, FS_FiniteSubsetsOfFinite
<1>3. \A x, y \in T : x < y => <<C(x), C(y)>> \in R
  BY DEF StrictSubsetOrdering
<1>4. F \subseteq S
  BY <1>2
<1>5. F # {}
  OBVIOUS
<1>6. \E x \in F : \A y \in F : <<y, x>> \notin R
  <2> HIDE DEF R, S, F
  <2> QED
    BY <1>1, <1>4, <1>5, WFMin
<1>7. PICK t \in T : \A u \in T : <<C(u), C(t)>> \notin R
  BY <1>6
<1>8. \A u \in T : ~(u < t)
  BY <1>3, <1>7
<1> QED
  BY <1>8

LEMMA NewestExists ==
  ASSUME NEW n \in Nat, NEW T \in SUBSET (0 .. n), T # {}
  PROVE  \E x \in T : \A y \in T : y <= x
<1> DEFINE M == {n - t : t \in T}
<1>1. M \in SUBSET (0 .. n) /\ M # {}
  <2>1. \A t \in T : n - t \in 0 .. n /\ n - t \in M
    OBVIOUS
  <2> QED
    BY <2>1
<1>2. PICK x \in M : \A y \in M : x <= y
  <2> HIDE DEF M
  <2> QED
    BY <1>1, OldestExists
<1>3. PICK t \in T : x = n - t
  BY <1>2
<1>4. \A u \in T : n - t <= n - u
  BY <1>2, <1>3
<1> QED
  BY <1>4

\* A range of slots has finitely many ids.
LEMMA IdsAreFinite ==
  ASSUME NEW STATE rows, NEW STATE a, a \in Int, NEW STATE b, b \in Int
  PROVE  IsFiniteSet(Ids(rows, a, b)) /\ Cardinality(Ids(rows, a, b)) \in Nat
<1> DEFINE f == [t \in a .. b |-> rows[t]]
<1>1. f \in Surjection(a .. b, Ids(rows, a, b))
  BY DEF Surjection, Ids
<1>2. IsFiniteSet(a .. b)
  BY FS_Interval
<1>3. IsFiniteSet(Ids(rows, a, b))
  <2> HIDE DEF f
  <2> QED
    BY <1>1, <1>2, FS_Surjection
<1> QED
  BY <1>3, FS_CardinalityType

\* A larger range has no fewer ids.
LEMMA MoreIds ==
  ASSUME NEW STATE rows, NEW STATE a, a \in Int, NEW STATE b, b \in Int, NEW STATE S,
         S \subseteq Ids(rows, a, b)
  PROVE  IsFiniteSet(S) /\ Cardinality(S) \in Nat /\ Cardinality(S) <= Cardinality(Ids(rows, a, b))
<1>1. S \in SUBSET Ids(rows, a, b) /\ IsFiniteSet(Ids(rows, a, b))
  BY IdsAreFinite
<1> QED
  BY <1>1, FS_Subset, FS_CardinalityType

\* Slots of which each has an id of its own have as many ids.
LEMMA IdsOfDistinct ==
  ASSUME NEW STATE rows, NEW STATE a, a \in Int, NEW STATE b, b \in Int, NEW STATE S,
         S \subseteq a .. b, \A s, t \in S : rows[s] = rows[t] => s = t
  PROVE  Cardinality(S) <= Cardinality(Ids(rows, a, b))
<1> DEFINE f == [s \in S |-> rows[s]]
<1>1. f \in Injection(S, Ids(rows, a, b))
  BY DEF Injection, IsInjective, Ids
<1>2. IsFiniteSet(Ids(rows, a, b))
  BY IdsAreFinite
<1> HIDE DEF f
<1> QED
  BY <1>1, <1>2, FS_Injection

\* The ids of a part of a sequence.
LEMMA IdsOfPart ==
  ASSUME NEW STATE sequence, sequence \in Seq(Message), NEW a \in 1 .. Len(sequence), NEW b \in 0 .. Len(sequence)
  PROVE  ToSet(SubSeq(sequence, a, b)) = Ids(sequence, a, b)
<1>1. Len(sequence) \in Nat /\ a \in Int /\ b \in Int /\ \A i \in a .. b : sequence[i] \in Message
  <2>1. Len(sequence) \in Nat /\ sequence \in [1 .. Len(sequence) -> Message]
    BY LenProperties
  <2> QED
    BY <2>1
<1> DEFINE part == SubSeq(sequence, a, b)
<1>2. /\ part \in Seq(Message)
      /\ Len(part) = IF a <= b THEN b - a + 1 ELSE 0
      /\ \A i \in 1 .. b - a + 1 : part[i] = sequence[a + i - 1]
  BY <1>1, SubSeqProperties
<1>3. DOMAIN part = 1 .. Len(part)
  <2> HIDE DEF part
  <2> QED
    BY <1>2, LenProperties
<1> HIDE DEF part
<1>4. DOMAIN part = 1 .. b - a + 1
  BY <1>1, <1>2, <1>3
<1>5. ToSet(part) = {part[i] : i \in 1 .. b - a + 1}
  BY <1>4 DEF ToSet
<1>6. ToSet(part) \subseteq Ids(sequence, a, b)
  <2>1. \A i \in 1 .. b - a + 1 : a + i - 1 \in a .. b
    BY <1>1
  <2>2. \A i \in 1 .. b - a + 1 : part[i] = sequence[a + i - 1]
    BY <1>2
  <2> QED
    BY <1>5, <2>1, <2>2 DEF Ids
<1>7. ASSUME NEW t \in a .. b PROVE sequence[t] \in ToSet(part)
  <2>1. t - a + 1 \in 1 .. b - a + 1 /\ a + (t - a + 1) - 1 = t
    BY <1>1
  <2>2. part[t - a + 1] = sequence[t]
    BY <1>2, <2>1
  <2> QED
    BY <1>5, <2>1, <2>2
<1> QED
  BY <1>6, <1>7 DEF part, Ids

\* What a sequence holds.
LEMMA HeldIn ==
  ASSUME NEW STATE sequence, sequence \in Seq(Message)
  PROVE  /\ Len(sequence) \in Nat /\ DOMAIN sequence = 1 .. Len(sequence)
         /\ \A i \in 1 .. Len(sequence) : sequence[i] \in Message
         /\ ToSet(sequence) = {sequence[i] : i \in 1 .. Len(sequence)}
BY LenProperties, ElementOfSeq DEF ToSet

LEMMA AppendIs ==
  ASSUME NEW STATE sequence, sequence \in Seq(Message), NEW STATE m, m \in Message
  PROVE  /\ Append(sequence, m) \in Seq(Message) /\ Len(Append(sequence, m)) = Len(sequence) + 1
         /\ \A i \in 1 .. Len(sequence) : Append(sequence, m)[i] = sequence[i]
         /\ Append(sequence, m)[Len(sequence) + 1] = m
BY AppendProperties

LEMMA TailIs ==
  ASSUME NEW STATE sequence, sequence \in Seq(Message), sequence # <<>>
  PROVE  /\ Head(sequence) = sequence[1] /\ Len(sequence) >= 1
         /\ Tail(sequence) \in Seq(Message) /\ Len(Tail(sequence)) = Len(sequence) - 1
         /\ \A i \in 1 .. Len(sequence) - 1 : Tail(sequence)[i] = sequence[i + 1]
<1>1. Len(sequence) \in Nat \ {0}
  BY EmptySeq
<1>2. /\ Tail(sequence) \in Seq(Message) /\ Len(Tail(sequence)) = Len(sequence) - 1
      /\ \A i \in 1 .. Len(Tail(sequence)) : Tail(sequence)[i] = sequence[i + 1]
  BY HeadTailProperties
<1> QED
  BY <1>1, <1>2

LEMMA PrefixIs ==
  ASSUME NEW STATE sequence, sequence \in Seq(Message), NEW STATE n, n \in 0 .. Len(sequence)
  PROVE  /\ SubSeq(sequence, 1, n) \in Seq(Message) /\ Len(SubSeq(sequence, 1, n)) = n
         /\ \A i \in 1 .. n : SubSeq(sequence, 1, n)[i] = sequence[i]
<1>1. Len(sequence) \in Nat /\ n \in Int /\ n >= 0 /\ \A i \in 1 .. n : sequence[i] \in Message
  BY HeldIn
<1>2. /\ SubSeq(sequence, 1, n) \in Seq(Message)
      /\ Len(SubSeq(sequence, 1, n)) = IF 1 <= n THEN n - 1 + 1 ELSE 0
      /\ \A i \in 1 .. n - 1 + 1 : SubSeq(sequence, 1, n)[i] = sequence[1 + i - 1]
  BY <1>1, SubSeqProperties
<1> QED
  BY <1>1, <1>2

-----------------------------------------------------------------------------
(* Ids *)

ids_vars == <<queue, queued, recent, log, confirmed, saved, recorded, openings>>

LEMMA InitKeepsIds == Init => IdsOK
<1> SUFFICES ASSUME Init PROVE IdsOK
  OBVIOUS
<1>1. /\ state = "closed" /\ queue = <<>> /\ queued = {} /\ recent = {}
      /\ log = <<>> /\ confirmed = 0 /\ saved = 0 /\ recorded = 0 /\ openings = {}
      /\ Len(log) = 0 /\ Len(queue) = 0
  BY DEF Init
<1>2. IdsTypeOK
  BY <1>1 DEF IdsTypeOK
<1> QED
  BY <1>1, <1>2
  DEF IdsOK, RestsOnCheckpoint, HeldOnce, QueuedAreHeld, NewestAreRecent, PublishedAreKnown, SlotsOnce

\* A chat that is opened keeps what is known of it.
LEMMA OpenedKeepsIds ==
  ASSUME IdsOK, Opened, UNCHANGED ids_vars
  PROVE  IdsOK'
<1>1. /\ queue' = queue /\ queued' = queued /\ recent' = recent /\ log' = log /\ confirmed' = confirmed
      /\ saved' = saved /\ recorded' = recorded /\ openings' = openings
  BY DEF ids_vars
<1>2. /\ state' \in {"closed", "resuming", "ready", "blocked"}
      /\ state' = "ready" <=> state = "ready"
      /\ state' # "closed"
      /\ state' = "resuming" => state \in {"closed", "resuming"}
  BY DEF Opened, IdsOK, IdsTypeOK
<1>3. IdsTypeOK'
  BY <1>1, <1>2 DEF IdsOK, IdsTypeOK
<1>4. RestsOnCheckpoint'
  BY <1>1, <1>2 DEF IdsOK, RestsOnCheckpoint
<1>5. HeldOnce'
  BY <1>1, <1>2 DEF IdsOK, HeldOnce, TakenAgain
<1>6. PublishedAreKnown'
  BY <1>1, <1>2 DEF IdsOK, PublishedAreKnown, Known, Published
<1>7. QueuedAreHeld' /\ NewestAreRecent' /\ SlotsOnce'
  BY <1>1 DEF IdsOK, QueuedAreHeld, NewestAreRecent, SlotsOnce, Excused
<1> QED
  BY <1>3, <1>4, <1>5, <1>6, <1>7 DEF IdsOK

\* receive() queues a message: if it was queued or pending, its id was not known.
LEMMA TakesKeepsIds ==
  ASSUME IdsOK, NEW m \in Message, Takes(m)
  PROVE  IdsOK'
<1>1. /\ recent' = recent /\ log' = log /\ confirmed' = confirmed
      /\ saved' = saved /\ recorded' = recorded /\ openings' = openings
      /\ queue' = Append(queue, m) /\ queued' = queued \cup {m}
      /\ m \notin queued /\ Opened
  BY DEF Takes, Admits, Duplicate, disk_vars
<1>2. /\ state' \in {"closed", "resuming", "ready", "blocked"}
      /\ state' = "ready" <=> state = "ready"
      /\ state' # "closed"
      /\ state' = "resuming" => state \in {"closed", "resuming"}
  BY <1>1 DEF Opened, IdsOK, IdsTypeOK
<1>3. /\ queue \in Seq(Message) /\ Len(queue) \in Nat
      /\ queue' \in Seq(Message) /\ Len(queue') = Len(queue) + 1
      /\ \A p \in 1 .. Len(queue) : queue'[p] = queue[p]
      /\ queue'[Len(queue) + 1] = m
  BY <1>1, AppendIs, HeldIn DEF IdsOK, IdsTypeOK
<1>4. \A x : TakenAgain(x)' <=> TakenAgain(x)
  BY <1>1 DEF TakenAgain
<1>5. IdsTypeOK'
  BY <1>1, <1>2, <1>3 DEF IdsOK, IdsTypeOK
<1>6. RestsOnCheckpoint'
  BY <1>1, <1>2 DEF IdsOK, RestsOnCheckpoint
<1>7. HeldOnce'
  <2>1. \A p \in 1 .. Len(queue') : queue'[p] \in queued' \/ TakenAgain(queue'[p])
    BY <1>1, <1>3 DEF IdsOK, HeldOnce
  <2>2. ASSUME NEW p \in 1 .. Len(queue'), NEW q \in 1 .. Len(queue'), p < q, queue'[p] = queue'[q]
        PROVE  TakenAgain(queue'[p])
    <3>1. CASE q = Len(queue) + 1
      BY <1>1, <1>3, <2>2, <3>1 DEF IdsOK, HeldOnce
    <3>2. CASE q \in 1 .. Len(queue)
      BY <1>3, <2>2, <3>2 DEF IdsOK, HeldOnce
    <3> QED
      BY <1>3, <3>1, <3>2
  <2>3. ASSUME state' = "ready", NEW i \in confirmed + 1 .. Len(log), NEW p \in 1 .. Len(queue'), log[i] = queue'[p]
        PROVE  TakenAgain(log[i])
    <3>1. CASE p = Len(queue) + 1
      BY <1>1, <1>2, <1>3, <2>3, <3>1 DEF IdsOK, HeldOnce
    <3>2. CASE p \in 1 .. Len(queue)
      BY <1>2, <1>3, <2>3, <3>2 DEF IdsOK, HeldOnce
    <3> QED
      BY <1>3, <3>1, <3>2
  <2>4. /\ \A i, j \in saved + 1 .. recorded : i < j /\ log[i] = log[j] => TakenAgain(log[i])
        /\ state' = "ready" =>
             /\ \A i \in confirmed + 1 .. Len(log) : log[i] \in queued' \/ TakenAgain(log[i])
             /\ \A i, j \in confirmed + 1 .. Len(log) : i < j /\ log[i] = log[j] => TakenAgain(log[i])
    BY <1>1, <1>2 DEF IdsOK, HeldOnce
  <2> HIDE DEF TakenAgain
  <2> QED
    BY <1>1, <1>4, <2>1, <2>2, <2>3, <2>4 DEF HeldOnce
<1>8. QueuedAreHeld'
  <2> SUFFICES ASSUME NEW x \in queued'
               PROVE  (\E i \in 1 .. Len(log) : log[i] = x) \/ (\E p \in 1 .. Len(queue') : queue'[p] = x)
    BY <1>1 DEF QueuedAreHeld
  <2>1. CASE x = m
    BY <1>3, <2>1
  <2>2. CASE x \in queued
    BY <1>3, <2>2 DEF IdsOK, QueuedAreHeld
  <2> QED
    BY <1>1, <2>1, <2>2
<1>9. PublishedAreKnown' /\ NewestAreRecent' /\ SlotsOnce'
  BY <1>1, <1>2 DEF IdsOK, PublishedAreKnown, Known, Published, NewestAreRecent, SlotsOnce, Excused
<1> QED
  BY <1>5, <1>6, <1>7, <1>8, <1>9 DEF IdsOK

\* enterReady(): what is recorded is pending, and of the rows that are read the newest are remembered.
LEMMA ResumesKeepsIds ==
  ASSUME IdsOK, Resumes
  PROVE  IdsOK'
<1>1. /\ state = "resuming" /\ state' = "ready"
      /\ queue' = queue /\ log' = log /\ confirmed' = confirmed /\ saved' = saved /\ recorded' = recorded
      /\ queued' = queued \cup Pending
  BY DEF Resumes, disk_vars
<1>2. PICK first \in 1 .. saved + 1 :
        /\ recent' = Remembered(log, first, saved)
        /\ openings' = openings \cup {[from |-> first, until |-> recorded, again |-> ToSet(queue) \cap Pending]}
  BY DEF Resumes, Learns
<1>3. /\ confirmed = saved /\ Len(log) = recorded
      /\ saved \in Nat /\ recorded \in Nat /\ saved <= recorded
  BY <1>1 DEF IdsOK, IdsTypeOK, RestsOnCheckpoint
<1>4. /\ \A p \in 1 .. Len(queue) : queue[p] \in Message
      /\ \A i \in 1 .. Len(log) : log[i] \in Message
      /\ ToSet(queue) = {queue[p] : p \in 1 .. Len(queue)}
  BY HeldIn DEF IdsOK, IdsTypeOK
<1>5. Pending \subseteq Message /\ \A i \in saved + 1 .. recorded : log[i] \in Pending
  BY <1>3, <1>4 DEF Pending
<1> DEFINE opening == [from |-> first, until |-> recorded, again |-> ToSet(queue) \cap Pending]
<1>6. /\ opening \in [from : Nat, until : Nat, again : SUBSET Message]
      /\ opening.from = first /\ opening.until = recorded /\ opening.again = ToSet(queue) \cap Pending
  BY <1>2, <1>3, <1>5
<1>7. openings' = openings \cup {opening}
  BY <1>2
<1> HIDE DEF opening
<1>8. \A x : TakenAgain(x) \/ x \in ToSet(queue) \cap Pending => TakenAgain(x)'
  BY <1>6, <1>7 DEF TakenAgain
<1>9. IdsTypeOK'
  <2>1. recent' \subseteq 1 .. saved
    BY <1>2, <1>3 DEF Remembered
  <2> QED
    BY <1>1, <1>3, <1>5, <1>6, <1>7, <2>1 DEF IdsOK, IdsTypeOK
<1>10. RestsOnCheckpoint'
  BY <1>1 DEF RestsOnCheckpoint
<1>11. HeldOnce'
  <2>1. /\ \A p \in 1 .. Len(queue) : queue[p] \in queued' \/ TakenAgain(queue[p])'
        /\ \A p, q \in 1 .. Len(queue) : p < q /\ queue[p] = queue[q] => TakenAgain(queue[p])'
        /\ \A i, j \in saved + 1 .. recorded : i < j /\ log[i] = log[j] => TakenAgain(log[i])'
    BY <1>1, <1>8 DEF IdsOK, HeldOnce
  <2>2. \A i \in saved + 1 .. recorded : log[i] \in queued'
    BY <1>1, <1>5
  <2>3. ASSUME NEW i \in saved + 1 .. recorded, NEW p \in 1 .. Len(queue), log[i] = queue[p]
        PROVE  TakenAgain(log[i])'
    <3>1. log[i] \in ToSet(queue) \cap Pending
      BY <1>4, <1>5, <2>3
    <3>2. opening.again = ToSet(queue) \cap Pending /\ opening \in openings'
      BY <1>6, <1>7
    <3> QED
      BY <1>1, <3>1, <3>2 DEF TakenAgain
  <2> QED
    BY <1>1, <1>3, <2>1, <2>2, <2>3 DEF HeldOnce, TakenAgain
<1>12. QueuedAreHeld'
  BY <1>1, <1>3 DEF IdsOK, QueuedAreHeld, Pending
<1>13. NewestAreRecent'
  BY <1>1, <1>2, <1>3 DEF NewestAreRecent, Remembered
<1>14. PublishedAreKnown'
  <2> SUFFICES ASSUME NEW i \in 1 .. saved PROVE Known(i)'
    BY <1>1, <1>3 DEF PublishedAreKnown
  <2>1. CASE i < first
    BY <1>6, <1>7, <2>1 DEF Known
  <2>2. CASE i >= first
    <3> DEFINE same == {t \in i .. saved : log[t] = log[i]}
    <3>1. same \in SUBSET (0 .. saved) /\ same # {}
      <4>1. i \in same /\ \A t \in same : t \in 0 .. saved
        BY <1>3
      <4> QED
        BY <4>1
    <3>2. PICK t \in same : \A u \in same : u <= t
      BY <1>3, <3>1, NewestExists
    <3>3. t \in i .. saved /\ log[t] = log[i] /\ \A u \in t + 1 .. saved : log[u] # log[t]
      BY <1>3, <3>2
    <3>4. CASE Cardinality({log[u] : u \in t + 1 .. saved}) < RecentLimit
      <4>1. t \in recent'
        BY <1>2, <1>3, <2>2, <3>3, <3>4 DEF Remembered
      <4> QED
        BY <1>1, <3>3, <4>1 DEF Known, Published
    <3>5. CASE ~(Cardinality({log[u] : u \in t + 1 .. saved}) < RecentLimit)
      <4>1. {log[u] : u \in t + 1 .. saved} \subseteq Ids(log, i + 1, saved)
        BY <1>3, <3>3 DEF Ids
      <4>2. /\ Cardinality({log[u] : u \in t + 1 .. saved}) \in Nat
            /\ Cardinality({log[u] : u \in t + 1 .. saved}) <= Cardinality(Ids(log, i + 1, saved))
            /\ Cardinality(Ids(log, i + 1, saved)) \in Nat
        BY <1>3, <4>1, MoreIds, IdsAreFinite
      <4>3. Cardinality(Ids(log, i + 1, saved)) >= RecentLimit
        BY <3>5, <4>2, ConstantsAssumption
      <4> QED
        BY <1>1, <1>3, <4>3 DEF Known
    <3> QED
      BY <3>4, <3>5
  <2> QED
    BY <1>3, <2>1, <2>2
<1>15. SlotsOnce'
  BY <1>1, <1>7 DEF IdsOK, SlotsOnce, Excused
<1> QED
  BY <1>9, <1>10, <1>11, <1>12, <1>13, <1>14, <1>15 DEF IdsOK

\* stageFromQueue() gives a slot: if the message has one, it was forgotten, not read, or recorded when it was taken again.
LEMMA GivesSlotKeepsIds ==
  ASSUME IdsOK, Stages, ~Published(Head(queue))
  PROVE  IdsOK'
<1> DEFINE m == Head(queue)
<1>1. /\ state = "ready" /\ queue # <<>> /\ queue' = Tail(queue)
      /\ log' = Append(log, m) /\ queued' = queued
      /\ state' = state /\ recent' = recent /\ confirmed' = confirmed
      /\ saved' = saved /\ recorded' = recorded /\ openings' = openings
  BY DEF Stages, disk_vars
<1>2. /\ queue \in Seq(Message) /\ Len(queue) \in Nat /\ Len(queue) >= 1 /\ m = queue[1] /\ m \in Message
      /\ queue' \in Seq(Message) /\ Len(queue') = Len(queue) - 1
      /\ \A p \in 1 .. Len(queue') : queue'[p] = queue[p + 1]
  BY <1>1, TailIs, HeldIn DEF IdsOK, IdsTypeOK
<1> HIDE DEF m
<1>3. /\ log \in Seq(Message) /\ Len(log) \in Nat
      /\ log' \in Seq(Message) /\ Len(log') = Len(log) + 1
      /\ \A i \in 1 .. Len(log) : log'[i] = log[i]
      /\ log'[Len(log) + 1] = m
  BY <1>1, <1>2, AppendIs, HeldIn DEF IdsOK, IdsTypeOK
<1>4. /\ saved \in Nat /\ confirmed \in Nat /\ recorded \in Nat
      /\ saved <= confirmed /\ confirmed <= recorded /\ recorded <= Len(log)
      /\ recent \subseteq 1 .. confirmed
      /\ \A o \in openings : o.until \in Nat /\ o.until <= recorded /\ o.from \in Nat
  BY DEF IdsOK, IdsTypeOK
<1>5. \A x : TakenAgain(x)' <=> TakenAgain(x)
  BY <1>1 DEF TakenAgain
<1>6. IdsTypeOK'
  BY <1>1, <1>2, <1>3, <1>4 DEF IdsOK, IdsTypeOK
<1>7. RestsOnCheckpoint'
  BY <1>1 DEF RestsOnCheckpoint
<1>8. /\ \A p \in 1 .. Len(queue) : queue[p] \in queued \/ TakenAgain(queue[p])
      /\ \A p, q \in 1 .. Len(queue) : p < q /\ queue[p] = queue[q] => TakenAgain(queue[p])
      /\ \A i, j \in saved + 1 .. recorded : i < j /\ log[i] = log[j] => TakenAgain(log[i])
      /\ \A i \in confirmed + 1 .. Len(log) : log[i] \in queued \/ TakenAgain(log[i])
      /\ \A i \in confirmed + 1 .. Len(log), p \in 1 .. Len(queue) : log[i] = queue[p] => TakenAgain(log[i])
      /\ \A i, j \in confirmed + 1 .. Len(log) : i < j /\ log[i] = log[j] => TakenAgain(log[i])
  BY <1>1 DEF IdsOK, HeldOnce
<1>9. HeldOnce'
  <2>1. ASSUME NEW p \in 1 .. Len(queue')
        PROVE  queue'[p] = queue[p + 1] /\ p + 1 \in 1 .. Len(queue) /\ 1 \in 1 .. Len(queue) /\ 1 < p + 1
    BY <1>2, <2>1
  <2>2. ASSUME NEW i \in confirmed + 1 .. Len(log')
        PROVE  (i = Len(log) + 1 /\ log'[i] = queue[1]) \/ (i \in confirmed + 1 .. Len(log) /\ log'[i] = log[i])
    <3>1. CASE i = Len(log) + 1
      BY <1>2, <1>3, <3>1
    <3>2. CASE i # Len(log) + 1
      BY <1>3, <1>4, <2>2, <3>2
    <3> QED
      BY <3>1, <3>2
  <2>3. \A p \in 1 .. Len(queue') : queue'[p] \in queued \/ TakenAgain(queue'[p])
    BY <1>8, <2>1
  <2>4. ASSUME NEW p \in 1 .. Len(queue'), NEW q \in 1 .. Len(queue'), p < q, queue'[p] = queue'[q]
        PROVE  TakenAgain(queue'[p])
    BY <1>8, <2>1, <2>4, SMTT(60)
  <2>5. \A i, j \in saved + 1 .. recorded : i < j /\ log'[i] = log'[j] => TakenAgain(log'[i])
    BY <1>3, <1>4, <1>8
  <2>6. ASSUME NEW i \in confirmed + 1 .. Len(log') PROVE log'[i] \in queued \/ TakenAgain(log'[i])
    BY <1>2, <1>8, <2>2
  <2>7. ASSUME NEW i \in confirmed + 1 .. Len(log'), NEW p \in 1 .. Len(queue'), log'[i] = queue'[p]
        PROVE  TakenAgain(log'[i])
    BY <1>8, <2>1, <2>2, <2>7
  <2>8. ASSUME NEW i \in confirmed + 1 .. Len(log'), NEW j \in confirmed + 1 .. Len(log'), i < j, log'[i] = log'[j]
        PROVE  TakenAgain(log'[i])
    <3>1. i \in confirmed + 1 .. Len(log) /\ log'[i] = log[i] /\ 1 \in 1 .. Len(queue)
      BY <1>2, <1>3, <1>4, <2>8
    <3> QED
      BY <1>8, <2>2, <2>8, <3>1
  <2> QED
    BY <1>1, <1>5, <2>3, <2>4, <2>5, <2>6, <2>7, <2>8 DEF HeldOnce
<1>10. QueuedAreHeld'
  <2> SUFFICES ASSUME NEW x \in queued
               PROVE  (\E i \in 1 .. Len(log') : log'[i] = x) \/ (\E p \in 1 .. Len(queue') : queue'[p] = x)
    BY <1>1 DEF QueuedAreHeld
  <2>1. CASE \E i \in 1 .. Len(log) : log[i] = x
    BY <1>3, <2>1
  <2>2. CASE x = m
    BY <1>3, <2>2
  <2>3. ASSUME NEW p \in 1 .. Len(queue), queue[p] = x, p # 1
        PROVE  \E q \in 1 .. Len(queue') : queue'[q] = x
    <3>1. p - 1 \in 1 .. Len(queue') /\ (p - 1) + 1 = p
      BY <1>2, <2>3
    <3> QED
      BY <1>2, <2>3, <3>1
  <2> QED
    BY <1>2, <2>1, <2>2, <2>3 DEF IdsOK, QueuedAreHeld
<1>11. \A s \in recent : s \in 1 .. Len(log) /\ log'[s] = log[s]
  BY <1>3, <1>4
<1>12. NewestAreRecent'
  <2>1. \A s \in recent : \A t \in s + 1 .. confirmed : t \in 1 .. Len(log) /\ log'[t] = log[t]
    BY <1>3, <1>4, <1>11
  <2> QED
    BY <1>1, <1>11, <2>1 DEF IdsOK, NewestAreRecent
<1>13. \A i \in Nat, j \in 0 .. Len(log) : Ids(log', i + 1, j) = Ids(log, i + 1, j)
  BY <1>3 DEF Ids
<1>14. PublishedAreKnown'
  <2> SUFFICES ASSUME NEW i \in 1 .. confirmed PROVE Known(i)'
    BY <1>1 DEF PublishedAreKnown
  <2>1. Known(i) /\ i \in 1 .. Len(log) /\ i \in Nat /\ confirmed \in 0 .. Len(log)
    BY <1>1, <1>3, <1>4 DEF IdsOK, PublishedAreKnown
  <2>2. Ids(log', i + 1, confirmed) = Ids(log, i + 1, confirmed) /\ log'[i] = log[i]
    BY <1>3, <1>13, <2>1
  <2> QED
    BY <1>1, <1>11, <2>1, <2>2 DEF Known, Published
<1>15. SlotsOnce'
  <2> SUFFICES ASSUME NEW i \in 1 .. Len(log'), NEW j \in 1 .. Len(log'), i < j, log'[i] = log'[j]
               PROVE  Excused(i, j)'
    BY DEF SlotsOnce
  <2>1. i \in 1 .. Len(log) /\ i \in Nat /\ j - 1 \in 0 .. Len(log) /\ log'[i] = log[i]
    BY <1>3
  <2>2. Ids(log', i + 1, j - 1) = Ids(log, i + 1, j - 1)
    BY <1>13, <2>1
  <2>3. CASE j \in 1 .. Len(log)
    <3>1. Excused(i, j)
      BY <1>3, <2>1, <2>3 DEF IdsOK, SlotsOnce
    <3> QED
      BY <1>1, <2>1, <2>2, <3>1 DEF Excused
  <2>4. CASE j = Len(log) + 1
    <3>1. log[i] = queue[1] /\ 1 \in 1 .. Len(queue) /\ j - 1 = Len(log)
      <4>1. log'[j] = m
        BY <1>3, <2>4
      <4>2. log[i] = log'[j]
        BY <2>1
      <4>3. j - 1 = Len(log)
        BY <1>3, <2>4
      <4> QED
        BY <1>2, <4>1, <4>2, <4>3
    <3>2. \A o \in openings : o.until < j
      BY <1>3, <1>4, <2>4
    <3>3. CASE i > confirmed
      <4>1. TakenAgain(log[i])
        BY <1>4, <1>8, <2>1, <3>1, <3>3
      <4> QED
        BY <1>1, <2>1, <3>2, <4>1 DEF Excused, TakenAgain
    <3>4. CASE i <= confirmed
      <4>1. Known(i) /\ ~Published(log[i])
        BY <1>1, <1>2, <1>4, <2>1, <3>1, <3>4 DEF IdsOK, PublishedAreKnown, m
      <4>2. CASE Cardinality(Ids(log, i + 1, confirmed)) >= RecentLimit
        <5>1. Ids(log, i + 1, confirmed) \subseteq Ids(log, i + 1, Len(log))
          BY <1>3, <1>4, <2>1 DEF Ids
        <5>2. /\ Cardinality(Ids(log, i + 1, confirmed)) \in Nat
              /\ Cardinality(Ids(log, i + 1, Len(log))) \in Nat
              /\ Cardinality(Ids(log, i + 1, confirmed)) <= Cardinality(Ids(log, i + 1, Len(log)))
          BY <1>3, <2>1, <5>1, MoreIds, IdsAreFinite
        <5>3. Cardinality(Ids(log, i + 1, Len(log))) >= RecentLimit
          BY <4>2, <5>2, ConstantsAssumption, SMTT(60)
        <5>4. Ids(log', i + 1, j - 1) = Ids(log, i + 1, Len(log))
          BY <2>2, <3>1
        <5> QED
          BY <5>3, <5>4 DEF Excused
      <4>3. CASE \E o \in openings : i < o.from
        BY <1>1, <3>2, <4>3 DEF Excused
      <4> QED
        BY <4>1, <4>2, <4>3 DEF Known
    <3> QED
      BY <1>4, <2>1, <3>3, <3>4
  <2> QED
    BY <1>3, <2>3, <2>4
<1> QED
  BY <1>6, <1>7, <1>9, <1>10, <1>12, <1>14, <1>15 DEF IdsOK

\* stageFromQueue() drops what was published meanwhile.
LEMMA DropsKeepsIds ==
  ASSUME IdsOK, Stages, Published(Head(queue))
  PROVE  IdsOK'
<1> DEFINE m == Head(queue)
<1>1. /\ state = "ready" /\ queue # <<>> /\ queue' = Tail(queue)
      /\ log' = log /\ queued' = queued \ {m}
      /\ state' = state /\ recent' = recent /\ confirmed' = confirmed
      /\ saved' = saved /\ recorded' = recorded /\ openings' = openings
  BY DEF Stages, disk_vars
<1>2. /\ queue \in Seq(Message) /\ Len(queue) \in Nat /\ Len(queue) >= 1 /\ m = queue[1] /\ m \in Message
      /\ queue' \in Seq(Message) /\ Len(queue') = Len(queue) - 1
      /\ \A p \in 1 .. Len(queue') : queue'[p] = queue[p + 1]
  BY <1>1, TailIs, HeldIn DEF IdsOK, IdsTypeOK
<1> HIDE DEF m
<1>3. \A x : TakenAgain(x)' <=> TakenAgain(x)
  BY <1>1 DEF TakenAgain
<1>4. IdsTypeOK'
  BY <1>1, <1>2 DEF IdsOK, IdsTypeOK
<1>5. /\ \A p \in 1 .. Len(queue) : queue[p] \in queued \/ TakenAgain(queue[p])
      /\ \A p, q \in 1 .. Len(queue) : p < q /\ queue[p] = queue[q] => TakenAgain(queue[p])
      /\ \A i, j \in saved + 1 .. recorded : i < j /\ log[i] = log[j] => TakenAgain(log[i])
      /\ \A i \in confirmed + 1 .. Len(log) : log[i] \in queued \/ TakenAgain(log[i])
      /\ \A i \in confirmed + 1 .. Len(log), p \in 1 .. Len(queue) : log[i] = queue[p] => TakenAgain(log[i])
      /\ \A i, j \in confirmed + 1 .. Len(log) : i < j /\ log[i] = log[j] => TakenAgain(log[i])
  BY <1>1 DEF IdsOK, HeldOnce
<1>6. HeldOnce'
  <2>1. ASSUME NEW p \in 1 .. Len(queue')
        PROVE  queue'[p] = queue[p + 1] /\ p + 1 \in 1 .. Len(queue) /\ 1 \in 1 .. Len(queue) /\ 1 < p + 1
    BY <1>2, <2>1
  <2>2. ASSUME NEW p \in 1 .. Len(queue') PROVE queue'[p] \in queued \ {m} \/ TakenAgain(queue'[p])
    BY <1>2, <1>5, <2>1
  <2>3. ASSUME NEW p \in 1 .. Len(queue'), NEW q \in 1 .. Len(queue'), p < q, queue'[p] = queue'[q]
        PROVE  TakenAgain(queue'[p])
    BY <1>5, <2>1, <2>3
  <2>4. ASSUME NEW i \in confirmed + 1 .. Len(log) PROVE log[i] \in queued \ {m} \/ TakenAgain(log[i])
    <3>1. 1 \in 1 .. Len(queue)
      BY <1>2
    <3> QED
      BY <1>2, <1>5, <3>1
  <2>5. ASSUME NEW i \in confirmed + 1 .. Len(log), NEW p \in 1 .. Len(queue'), log[i] = queue'[p]
        PROVE  TakenAgain(log[i])
    BY <1>5, <2>1, <2>5
  <2> QED
    BY <1>1, <1>3, <1>5, <2>2, <2>3, <2>4, <2>5 DEF HeldOnce
<1>7. QueuedAreHeld'
  <2> SUFFICES ASSUME NEW x \in queued, x # m, NEW p \in 1 .. Len(queue), queue[p] = x
               PROVE  \E q \in 1 .. Len(queue') : queue'[q] = x
    BY <1>1 DEF IdsOK, QueuedAreHeld
  <2>1. p - 1 \in 1 .. Len(queue') /\ (p - 1) + 1 = p
    BY <1>2
  <2> QED
    BY <1>2, <2>1
<1>8. RestsOnCheckpoint' /\ NewestAreRecent' /\ PublishedAreKnown' /\ SlotsOnce'
  BY <1>1 DEF IdsOK, RestsOnCheckpoint, NewestAreRecent, PublishedAreKnown, Known, Published, SlotsOnce, Excused
<1> QED
  BY <1>4, <1>6, <1>7, <1>8 DEF IdsOK

\* RecentIds.add(): who is forgotten for a new slot was followed by as many other ids as are remembered.
LEMMA RemembersIs ==
  ASSUME NEW rows, NEW c \in Nat, NEW slots \in SUBSET (1 .. c),
         \A s \in slots : \A t \in s + 1 .. c : rows[t] # rows[s]
  PROVE  /\ Remembers(rows, slots, c + 1) \subseteq 1 .. c + 1
         /\ c + 1 \in Remembers(rows, slots, c + 1)
         /\ \A s \in Remembers(rows, slots, c + 1) : \A t \in s + 1 .. c + 1 : rows[t] # rows[s]
         /\ \A s \in slots : \/ s \in Remembers(rows, slots, c + 1)
                             \/ rows[s] = rows[c + 1]
                             \/ Cardinality(Ids(rows, s + 1, c + 1)) >= RecentLimit
<1> DEFINE with == {t \in slots : rows[t] # rows[c + 1]} \cup {c + 1}
           kept == Remembers(rows, slots, c + 1)
<1>1. kept = IF Cardinality(with) > RecentLimit THEN with \ {Oldest(with)} ELSE with
  BY DEF Remembers
<1>2. with \in SUBSET (0 .. c + 1) /\ with \subseteq 1 .. c + 1 /\ c + 1 \in with /\ with # {} /\ c + 1 \in Nat
  <2>1. c + 1 \in with /\ c + 1 \in Nat
    OBVIOUS
  <2>2. \A t \in with : t \in 0 .. c + 1 /\ t \in 1 .. c + 1
    OBVIOUS
  <2> QED
    BY <2>1, <2>2
<1>3. \A s \in with : \A t \in s + 1 .. c + 1 : rows[t] # rows[s]
  <2> SUFFICES ASSUME NEW s \in slots, rows[s] # rows[c + 1], NEW t \in s + 1 .. c + 1 PROVE rows[t] # rows[s]
    OBVIOUS
  <2>1. t = c + 1 \/ t \in s + 1 .. c
    OBVIOUS
  <2> QED
    BY <2>1
<1>4. \A s, t \in with : rows[s] = rows[t] => s = t
  <2> SUFFICES ASSUME NEW s \in with, NEW t \in with, s # t PROVE rows[s] # rows[t]
    OBVIOUS
  <2>1. t \in s + 1 .. c + 1 \/ s \in t + 1 .. c + 1
    BY <1>2
  <2> QED
    BY <1>3, <2>1
<1>5. \A s \in slots : s \in with \/ rows[s] = rows[c + 1]
  OBVIOUS
<1> HIDE DEF with, kept
<1>6. IsFiniteSet(with) /\ Cardinality(with) \in Nat /\ RecentLimit \in Nat /\ RecentLimit >= 1
  <2>1. IsFiniteSet(0 .. c + 1)
    BY FS_Interval
  <2>2. IsFiniteSet(with)
    BY <1>2, <2>1, FS_Subset
  <2> QED
    BY <2>2, FS_CardinalityType, ConstantsAssumption
<1>7. Oldest(with) \in with /\ \A s \in with : Oldest(with) <= s
  BY <1>2, OldestExists DEF Oldest
<1>8. CASE ~(Cardinality(with) > RecentLimit)
  BY <1>1, <1>2, <1>3, <1>5, <1>8 DEF kept
<1>9. CASE Cardinality(with) > RecentLimit
  <2> DEFINE old == Oldest(with)
  <2>1. kept = with \ {old} /\ old \in with /\ \A s \in with : old <= s
    BY <1>1, <1>7, <1>9
  <2> HIDE DEF old
  <2>2. Cardinality(kept) = Cardinality(with) - 1
    BY <1>6, <2>1, FS_RemoveElement
  <2>3. old # c + 1
    <3> SUFFICES ASSUME old = c + 1 PROVE FALSE
      OBVIOUS
    <3>1. with = {c + 1}
      <4>1. \A s \in with : s \in 1 .. c + 1 /\ c + 1 <= s
        BY <1>2, <2>1
      <4>2. \A s \in with : s = c + 1
        BY <4>1
      <4> QED
        BY <1>2, <4>2
    <3>2. Cardinality(with) = 1
      BY <3>1, FS_Singleton
    <3> QED
      BY <1>6, <1>9, <3>2
  <2>4. kept \subseteq old + 1 .. c + 1
    BY <1>2, <2>1
  <2>5. \A s, t \in kept : rows[s] = rows[t] => s = t
    BY <1>4, <2>1
  <2>6. Cardinality(kept) <= Cardinality(Ids(rows, old + 1, c + 1))
    <3>1. old + 1 \in Int /\ c + 1 \in Int
      BY <1>2, <2>1
    <3> QED
      BY <2>4, <2>5, <3>1, IdsOfDistinct, Zenon
  <2>7. Cardinality(Ids(rows, old + 1, c + 1)) \in Nat
    BY <1>2, <2>1, IdsAreFinite
  <2>8. Cardinality(Ids(rows, old + 1, c + 1)) >= RecentLimit
    BY <1>6, <1>9, <2>2, <2>6, <2>7
  <2> QED
    BY <1>2, <1>3, <1>5, <2>1, <2>3, <2>8 DEF kept
<1> QED
  BY <1>8, <1>9

\* landed(): the message of the next slot is remembered from here on, and no longer pending.
LEMMA ConfirmsKeepsIds ==
  ASSUME IdsOK, Confirms
  PROVE  IdsOK'
<1> DEFINE c == confirmed
<1>1. /\ state = "ready" /\ confirmed < recorded /\ confirmed' = c + 1
      /\ recent' = Remembers(log, recent, c + 1) /\ queued' = queued \ {log[c + 1]}
      /\ state' = state /\ queue' = queue /\ log' = log
      /\ saved' = saved /\ recorded' = recorded /\ openings' = openings
  BY DEF Confirms, disk_vars
<1>2. /\ saved \in Nat /\ c \in Nat /\ recorded \in Nat /\ Len(log) \in Nat
      /\ saved <= c /\ c < recorded /\ recorded <= Len(log)
      /\ recent \in SUBSET (1 .. c)
  BY <1>1, HeldIn DEF IdsOK, IdsTypeOK
<1>3. /\ recent' \subseteq 1 .. c + 1 /\ c + 1 \in recent'
      /\ \A s \in recent' : \A t \in s + 1 .. c + 1 : log[t] # log[s]
      /\ \A s \in recent : \/ s \in recent'
                           \/ log[s] = log[c + 1]
                           \/ Cardinality(Ids(log, s + 1, c + 1)) >= RecentLimit
  <2>1. \A s \in recent : \A t \in s + 1 .. c : log[t] # log[s]
    BY DEF IdsOK, NewestAreRecent
  <2> HIDE DEF c
  <2> QED
    BY <1>1, <1>2, <2>1, RemembersIs
<1>4. \A x : TakenAgain(x)' <=> TakenAgain(x)
  BY <1>1 DEF TakenAgain
<1>5. IdsTypeOK'
  BY <1>1, <1>2, <1>3 DEF IdsOK, IdsTypeOK
<1>6. /\ \A p \in 1 .. Len(queue) : queue[p] \in queued \/ TakenAgain(queue[p])
      /\ \A p, q \in 1 .. Len(queue) : p < q /\ queue[p] = queue[q] => TakenAgain(queue[p])
      /\ \A i, j \in saved + 1 .. recorded : i < j /\ log[i] = log[j] => TakenAgain(log[i])
      /\ \A i \in c + 1 .. Len(log) : log[i] \in queued \/ TakenAgain(log[i])
      /\ \A i \in c + 1 .. Len(log), p \in 1 .. Len(queue) : log[i] = queue[p] => TakenAgain(log[i])
      /\ \A i, j \in c + 1 .. Len(log) : i < j /\ log[i] = log[j] => TakenAgain(log[i])
  BY <1>1 DEF IdsOK, HeldOnce
<1>7. HeldOnce'
  <2>1. c + 1 \in c + 1 .. Len(log) /\ \A i \in c + 1 + 1 .. Len(log) : i \in c + 1 .. Len(log) /\ c + 1 < i
    BY <1>2
  <2> HIDE DEF c
  <2>2. ASSUME NEW p \in 1 .. Len(queue) PROVE queue[p] \in queued' \/ TakenAgain(queue[p])
    BY <1>1, <1>6, <2>1
  <2>3. ASSUME NEW i \in c + 1 + 1 .. Len(log) PROVE log[i] \in queued' \/ TakenAgain(log[i])
    BY <1>1, <1>6, <2>1
  <2>4. /\ \A i \in c + 1 + 1 .. Len(log), p \in 1 .. Len(queue) : log[i] = queue[p] => TakenAgain(log[i])
        /\ \A i, j \in c + 1 + 1 .. Len(log) : i < j /\ log[i] = log[j] => TakenAgain(log[i])
    BY <1>6, <2>1
  <2> QED
    BY <1>1, <1>4, <1>6, <2>2, <2>3, <2>4 DEF HeldOnce
<1>8. QueuedAreHeld' /\ RestsOnCheckpoint' /\ SlotsOnce'
  BY <1>1 DEF IdsOK, QueuedAreHeld, RestsOnCheckpoint, SlotsOnce, Excused
<1>9. NewestAreRecent'
  BY <1>1, <1>3 DEF NewestAreRecent
<1>10. PublishedAreKnown'
  <2> SUFFICES ASSUME NEW i \in 1 .. c + 1 PROVE Known(i)'
    BY <1>1 DEF PublishedAreKnown
  <2>1. CASE i = c + 1
    BY <1>1, <1>3, <2>1 DEF Known, Published
  <2>2. CASE i \in 1 .. c
    <3>1. Known(i)
      BY <1>1, <2>2 DEF IdsOK, PublishedAreKnown
    <3>2. \A k \in i .. c : /\ Cardinality(Ids(log, k + 1, c + 1)) \in Nat
                            /\ Cardinality(Ids(log, i + 1, c + 1)) \in Nat
                            /\ Cardinality(Ids(log, k + 1, c + 1)) <= Cardinality(Ids(log, i + 1, c + 1))
      <4> SUFFICES ASSUME NEW k \in i .. c
                   PROVE /\ Cardinality(Ids(log, k + 1, c + 1)) \in Nat
                         /\ Cardinality(Ids(log, i + 1, c + 1)) \in Nat
                         /\ Cardinality(Ids(log, k + 1, c + 1)) <= Cardinality(Ids(log, i + 1, c + 1))
        OBVIOUS
      <4>1. Ids(log, k + 1, c + 1) \subseteq Ids(log, i + 1, c + 1) /\ i + 1 \in Int /\ c + 1 \in Int
        BY <1>2, <2>2 DEF Ids
      <4> QED
        BY <4>1, MoreIds, IdsAreFinite
    <3>3. CASE Published(log[i])
      <4>1. PICK s \in recent : log[s] = log[i]
        BY <3>3 DEF Published
      <4>2. s \in i .. c
        <5>1. ~(i \in s + 1 .. c)
          BY <4>1 DEF IdsOK, NewestAreRecent
        <5> QED
          BY <1>2, <2>2, <5>1
      <4>3. CASE s \in recent'
        BY <1>1, <4>1, <4>3 DEF Known, Published
      <4>4. CASE log[s] = log[c + 1]
        BY <1>1, <1>3, <4>1, <4>4 DEF Known, Published
      <4>5. CASE Cardinality(Ids(log, s + 1, c + 1)) >= RecentLimit
        <5>1. Cardinality(Ids(log, i + 1, c + 1)) >= RecentLimit
          BY <3>2, <4>2, <4>5, ConstantsAssumption
        <5> QED
          BY <1>1, <5>1 DEF Known
      <4> QED
        BY <1>3, <4>3, <4>4, <4>5
    <3>4. CASE Cardinality(Ids(log, i + 1, c)) >= RecentLimit
      <4>1. Ids(log, i + 1, c) \subseteq Ids(log, i + 1, c + 1) /\ i + 1 \in Int /\ c + 1 \in Int
        BY <1>2, <2>2 DEF Ids
      <4>2. /\ Cardinality(Ids(log, i + 1, c)) \in Nat
            /\ Cardinality(Ids(log, i + 1, c + 1)) \in Nat
            /\ Cardinality(Ids(log, i + 1, c)) <= Cardinality(Ids(log, i + 1, c + 1))
        BY <4>1, MoreIds, IdsAreFinite
      <4>3. Cardinality(Ids(log, i + 1, c + 1)) >= RecentLimit
        BY <3>4, <4>2, ConstantsAssumption
      <4> QED
        BY <1>1, <4>3 DEF Known
    <3>5. CASE \E o \in openings : i < o.from
      BY <1>1, <3>5 DEF Known
    <3> QED
      BY <3>1, <3>3, <3>4, <3>5 DEF Known
  <2> QED
    BY <1>2, <2>1, <2>2
<1> QED
  BY <1>5, <1>7, <1>8, <1>9, <1>10 DEF IdsOK

\* writeCheckpoint(): what is pending is what is recorded.
LEMMA RecordsKeepsIds ==
  ASSUME IdsOK, Records
  PROVE  IdsOK'
<1>1. /\ state = "ready" /\ saved' = confirmed /\ recorded' = Len(log)
      /\ state' = state /\ queue' = queue /\ queued' = queued /\ recent' = recent /\ log' = log
      /\ confirmed' = confirmed /\ openings' = openings
  BY DEF Records
<1>2. IdsTypeOK'
  <2>1. Len(log) \in Nat
    BY HeldIn DEF IdsOK, IdsTypeOK
  <2>2. \A o \in openings : o.until \in Nat
    BY DEF IdsOK, IdsTypeOK
  <2> QED
    BY <1>1, <2>1, <2>2 DEF IdsOK, IdsTypeOK
<1>3. HeldOnce'
  BY <1>1 DEF IdsOK, HeldOnce, TakenAgain
<1>4. RestsOnCheckpoint' /\ QueuedAreHeld' /\ NewestAreRecent' /\ PublishedAreKnown' /\ SlotsOnce'
  BY <1>1
  DEF IdsOK, RestsOnCheckpoint, QueuedAreHeld, NewestAreRecent, PublishedAreKnown, Known, Published, SlotsOnce, Excused
<1> QED
  BY <1>2, <1>3, <1>4 DEF IdsOK

\* block(), an eviction and a restart: the queue and its ids go, the recorded slots stay.
LEMMA CutKeepsIds ==
  ASSUME IdsOK, queue' = <<>>, queued' = {}, log' = SubSeq(log, 1, recorded), UNCHANGED <<saved, recorded, openings>>,
         \/ state' = "blocked" /\ confirmed' = confirmed /\ recent' = recent
         \/ state' = "closed" /\ confirmed' = saved /\ recent' = {}
  PROVE  IdsOK'
<1> DEFINE stays == state' = "blocked" /\ confirmed' = confirmed /\ recent' = recent
           goes  == state' = "closed" /\ confirmed' = saved /\ recent' = {}
<1>0. /\ state' \in {"blocked", "closed"} /\ (state' = "closed" => confirmed' = saved)
      /\ confirmed' \in {confirmed, saved}
      /\ recent' \subseteq recent /\ (recent' # {} => confirmed' = confirmed)
      /\ saved' = saved /\ recorded' = recorded /\ openings' = openings
  <2>1. CASE stays
    BY <2>1
  <2>2. CASE goes
    BY <2>2
  <2> QED
    BY <2>1, <2>2
<1>1. /\ log \in Seq(Message) /\ Len(log) \in Nat
      /\ saved \in Nat /\ confirmed \in Nat /\ recorded \in Nat
      /\ saved <= confirmed /\ confirmed <= recorded /\ recorded <= Len(log) /\ recorded \in 0 .. Len(log)
      /\ recent \subseteq 1 .. confirmed
  BY HeldIn DEF IdsOK, IdsTypeOK
<1>2. /\ log' \in Seq(Message) /\ Len(log') = recorded
      /\ \A i \in 1 .. recorded : log'[i] = log[i]
  BY <1>1, PrefixIs
<1>3. queue' \in Seq(Message) /\ Len(queue') = 0
  OBVIOUS
<1>4. IdsTypeOK'
  <2>1. recent' \subseteq 1 .. confirmed'
    BY <1>0, <1>1
  <2>2. \A o \in openings' : o.until <= recorded'
    BY <1>0 DEF IdsOK, IdsTypeOK
  <2>3. /\ saved' \in Nat /\ confirmed' \in Nat /\ recorded' \in Nat
        /\ saved' <= confirmed' /\ confirmed' <= recorded' /\ recorded' <= Len(log')
    BY <1>0, <1>1, <1>2
  <2>4. openings' \subseteq [from : Nat, until : Nat, again : SUBSET Message]
    BY <1>0 DEF IdsOK, IdsTypeOK
  <2> QED
    BY <1>0, <1>2, <1>3, <2>1, <2>2, <2>3, <2>4 DEF IdsTypeOK
<1>5. HeldOnce'
  <2>1. \A i \in saved + 1 .. recorded : log'[i] = log[i]
    BY <1>1, <1>2
  <2>2. \A i, j \in saved + 1 .. recorded : i < j /\ log'[i] = log'[j] => TakenAgain(log'[i])
    BY <2>1 DEF IdsOK, HeldOnce
  <2>3. \A x : TakenAgain(x)' <=> TakenAgain(x)
    BY <1>0 DEF TakenAgain
  <2>4. 1 .. Len(queue') = {} /\ state' # "ready"
    BY <1>0, <1>3
  <2> QED
    BY <1>0, <2>2, <2>3, <2>4 DEF HeldOnce
<1>6. NewestAreRecent'
  <2> SUFFICES ASSUME NEW s \in recent', NEW t \in s + 1 .. confirmed' PROVE log'[t] # log'[s]
    BY DEF NewestAreRecent
  <2>1. s \in recent /\ confirmed' = confirmed
    BY <1>0
  <2>2. s \in 1 .. recorded /\ t \in 1 .. recorded
    BY <1>1, <2>1
  <2> QED
    BY <1>2, <2>1, <2>2 DEF IdsOK, NewestAreRecent
<1>7. SlotsOnce'
  <2> SUFFICES ASSUME NEW i \in 1 .. recorded, NEW j \in 1 .. recorded, i < j, log'[i] = log'[j] PROVE Excused(i, j)'
    BY <1>2 DEF SlotsOnce
  <2>1. Excused(i, j)
    <3>1. i \in 1 .. Len(log) /\ j \in 1 .. Len(log) /\ log[i] = log[j]
      BY <1>1, <1>2
    <3> QED
      BY <3>1 DEF IdsOK, SlotsOnce
  <2>2. Ids(log', i + 1, j - 1) = Ids(log, i + 1, j - 1) /\ log'[i] = log[i]
    BY <1>1, <1>2 DEF Ids
  <2> QED
    BY <1>0, <2>1, <2>2 DEF Excused
<1>8. RestsOnCheckpoint' /\ QueuedAreHeld' /\ PublishedAreKnown'
  BY <1>0, <1>2 DEF RestsOnCheckpoint, QueuedAreHeld, PublishedAreKnown
<1> QED
  BY <1>4, <1>5, <1>6, <1>7, <1>8 DEF IdsOK

LEMMA NextKeepsIds == IdsOK /\ [Next]_vars => IdsOK'
<1> SUFFICES ASSUME IdsOK, [Next]_vars PROVE IdsOK'
  OBVIOUS
<1>1. ASSUME NEW m \in Message, Takes(m) PROVE IdsOK'
  BY <1>1, TakesKeepsIds
<1>2. ASSUME NEW m \in Message, Refuses(m) PROVE IdsOK'
  BY <1>2, OpenedKeepsIds DEF Refuses, ids_vars, disk_vars
<1>3. ASSUME UNCHANGED <<state, ids_vars>> PROVE IdsOK'
  BY <1>3
  DEF ids_vars, IdsOK, IdsTypeOK, RestsOnCheckpoint, HeldOnce, TakenAgain, QueuedAreHeld, NewestAreRecent,
      PublishedAreKnown, Known, Published, SlotsOnce, Excused
<1>4. CASE Prune \/ Tick \/ UNCHANGED vars
  BY <1>3, <1>4 DEF Prune, Tick, vars, ids_vars, disk_vars
<1>5. CASE Resumes
  BY <1>5, ResumesKeepsIds
<1>6. CASE Stages
  BY <1>6, GivesSlotKeepsIds, DropsKeepsIds
<1>7. CASE Confirms
  BY <1>7, ConfirmsKeepsIds
<1>8. CASE Records
  BY <1>8, RecordsKeepsIds
<1>9. CASE Blocks
  BY <1>9, CutKeepsIds DEF Blocks, disk_vars
<1>10. CASE Evicts \/ Restarts
  BY <1>10, CutKeepsIds DEF Evicts, Restarts, Gone, disk_vars
<1> QED
  BY <1>1, <1>2, <1>4, <1>5, <1>6, <1>7, <1>8, <1>9, <1>10 DEF Next

-----------------------------------------------------------------------------
(* Theorems *)

(* Every reachable state satisfies the inductive invariant. *)
THEOREM Invariance == Spec => []IInv
<1>1. Init => IInv
  BY InitKeepsRates, InitKeepsIds DEF IInv
<1>2. IInv /\ [Next]_vars => IInv'
  BY NextKeepsRates, NextKeepsIds DEF IInv
<1> QED
  BY <1>1, <1>2, PTL DEF Spec

(* rate.ts: in every window of every key at most its limit of messages was taken, through evictions of the chat's publisher
   and whatever is pruned, and who is held back is at that limit. *)
THEOREM RatesHold == Spec => []RatesAreExact
<1>1. ASSUME RatesOK PROVE RatesAreExact
  <2> SUFFICES ASSUME NEW k \in Key, ~Fits(k) PROVE Cardinality(Within(k, now)) = Limit[k]
    BY <1>1 DEF RatesAreExact, RatesOK, LimitsHold
  <2>1. now \in Nat /\ Limit[k] \in Nat
    BY <1>1, LimitType, ConstantsAssumption DEF RatesOK, RatesTypeOK
  <2>2. Counts(k) = Within(k, now) /\ Cardinality(Within(k, now)) \in Nat
    BY <1>1, <2>1, CountsAreWithin, WithinIsFinite DEF RatesOK
  <2>3. Cardinality(Within(k, now)) <= Limit[k]
    BY <1>1, <2>1 DEF RatesOK, LimitsHold
  <2> QED
    BY <2>1, <2>2, <2>3 DEF Fits
<1>2. IInv => RatesAreExact
  BY <1>1 DEF IInv
<1> QED
  BY <1>2, Invariance, PTL

(* isDuplicate(): no message is refused as a duplicate that was never taken, or that was dropped since. *)
THEOREM OnlyTheTakenAreDuplicates == Spec => []DuplicatesWereTaken
<1>1. ASSUME RatesOK, IdsOK PROVE DuplicatesWereTaken
  <2>1. TypeOK
    BY <1>1 DEF RatesOK, RatesTypeOK, IdsOK, IdsTypeOK, TypeOK
  <2>2. /\ ToSet(log) = {log[i] : i \in 1 .. Len(log)} /\ ToSet(queue) = {queue[p] : p \in 1 .. Len(queue)}
        /\ Len(log) \in Nat
    BY <1>1, HeldIn DEF IdsOK, IdsTypeOK
  <2>3. \A s \in recent : s \in 1 .. Len(log)
    BY <1>1, <2>2 DEF IdsOK, IdsTypeOK
  <2> QED
    BY <1>1, <2>1, <2>2, <2>3 DEF DuplicatesWereTaken, Duplicate, Published, IdsOK, QueuedAreHeld
<1>2. IInv => DuplicatesWereTaken
  BY <1>1 DEF IInv
<1> QED
  BY <1>2, Invariance, PTL

(* README: a message is not taken twice, but in the three cases that TakenOnce names. *)
THEOREM NoneIsTakenTwice == Spec => []TakenOnce
<1>1. ASSUME IdsOK PROVE TakenOnce
  <2>1. log \in Seq(Message) /\ Len(log) \in Nat /\ DOMAIN log = 1 .. Len(log)
    BY <1>1, HeldIn DEF IdsOK, IdsTypeOK
  <2> SUFFICES ASSUME NEW i \in 1 .. Len(log), NEW j \in 1 .. Len(log), i < j, log[i] = log[j]
               PROVE  \/ Cardinality(ToSet(SubSeq(log, i + 1, j - 1))) >= RecentLimit
                      \/ \E o \in openings : o.until < j /\ (i < o.from \/ log[i] \in o.again)
    BY <2>1 DEF TakenOnce
  <2>2. i + 1 \in 1 .. Len(log) /\ j - 1 \in 0 .. Len(log)
    BY <2>1
  <2>3. ToSet(SubSeq(log, i + 1, j - 1)) = Ids(log, i + 1, j - 1)
    BY <2>1, <2>2, IdsOfPart
  <2> QED
    BY <1>1, <2>3 DEF IdsOK, SlotsOnce, Excused
<1>2. IInv => TakenOnce
  BY <1>1 DEF IInv
<1> QED
  BY <1>2, Invariance, PTL

=============================================================================
