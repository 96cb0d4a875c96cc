---------------------------- MODULE ListenerProofs ----------------------------
(***************************************************************************)
(* The safety of Listener for every number of subscriptions, faults and    *)
(* heartbeats and for all its times: no subscription leaks, none is        *)
(* missing without a reconnect timer, replacing one makes the listener     *)
(* deaf only when a newer one connects too slowly, and heartbeats that     *)
(* come late or twice are told apart.                                      *)
(***************************************************************************)
EXTENDS Listener, SequenceTheorems, TLAPS

-----------------------------------------------------------------------------
(* The inductive invariants *)

\* The sequence of nonces that were sent and not heard yet keeps the order of sending.
SentInOrder == \A i, j \in 1 .. Len(sent) : i <= j => sent[j] - sent[i] >= j - i

\* Of what was counted the last ones are kept as matched.
MatchedIsRecent ==
  /\ Len(matched) <= NonceLimit
  /\ Len(matched) = NonceLimit \/ Len(matched) = Len(counted)
  /\ Len(matched) <= Len(counted)
  /\ \A i \in 1 .. Len(matched) : matched[i] = counted[Len(counted) - Len(matched) + i]

\* A heartbeat is known as sent, or was counted once, or was followed by too many others.
EachHasItsPlace ==
  /\ Len(sent) <= NonceLimit
  /\ \A i, j \in 1 .. Len(counted) : counted[i] = counted[j] => i = j
  /\ \A i \in 1 .. Len(sent) : \A j \in 1 .. Len(counted) : sent[i] # counted[j]
  /\ \A n \in 1 .. beats :
       \/ \E i \in 1 .. Len(sent) : sent[i] = n
       \/ \E i \in 1 .. Len(counted) : counted[i] = n
       \/ beats - n >= NonceLimit

\* The heartbeats there are.
Nonces == 1 .. beats

NoncesOK ==
  /\ beats \in Nat
  /\ sent \in Seq(Nonces) /\ matched \in Seq(Nonces) /\ counted \in Seq(Nonces)
  /\ SentInOrder /\ MatchedIsRecent /\ EachHasItsPlace

\* y is connected, or will not be when the time for which r is kept is over.
ConnectedOrLate(r, y) ==
  socket[y] = "open" \/ (socket[y] = "connecting" /\ connecting[y] + graceLeft[r] >= Grace)

\* While the network does not fail: of any replaced subscriptions the newest was replaced by one that is none of them,
\* which is connected or will be late. It is stated for sets of them because a successor may be cancelled itself.
EachHasASuccessor ==
  /\ current \notin retiring
  /\ \A s \in Subscription : s \in retiring \/ s = current => socket[s] # "unused"
  /\ \A R \in SUBSET retiring : R # {} =>
       \E r \in R : \E y \in Subscription : y \notin R /\ (y \in retiring \/ y = current) /\ ConnectedOrLate(r, y)

ListeningTypeOK ==
  /\ life \in {"new", "up", "stopped"} /\ reconnect \in BOOLEAN /\ subscribed \in BOOLEAN
  /\ current \in Subscription \cup {None} /\ retiring \subseteq Subscription
  /\ graceLeft \in [Subscription -> 0 .. Grace] /\ connecting \in [Subscription -> 0 .. Connect]
  /\ heardAgo \in 0 .. Idle /\ faults \in 0 .. MaxFaults
  /\ socket \in [Subscription -> Open \cup {"unused", "closed"}]

\* Each open subscription is listened to.
OpenIsKnown == \A s \in Subscription : socket[s] \in Open => s \in retiring \/ s = current

ListeningOK == ListeningTypeOK /\ OpenIsKnown /\ ReconnectsWhenClosed /\ (faults = 0 => EachHasASuccessor)

BeatsOK == beats \in 0 .. MaxHeartbeats /\ NoncesOK

\* What is heard and what is listened to do not depend on each other.
IInv == ListeningOK /\ BeatsOK

-----------------------------------------------------------------------------
(* Lemmas about the operators of the model *)

(* A replaced subscription is kept for a number of ticks, the cap or less. *)
LEMMA GraceType == Grace \in Nat /\ Grace <= GraceCap
BY ConstantsAssumption DEF Grace

(* remember(): a nonce is added at the end, and one is forgotten at the front once there are too many. *)
LEMMA RememberIs ==
  ASSUME NEW S, NEW nonces \in Seq(S), NEW n \in S
  PROVE  /\ Remember(nonces, n) \in Seq(S)
         /\ Len(nonces) < NonceLimit =>
              /\ Len(Remember(nonces, n)) = Len(nonces) + 1
              /\ \A i \in 1 .. Len(nonces) : Remember(nonces, n)[i] = nonces[i]
              /\ Remember(nonces, n)[Len(nonces) + 1] = n
         /\ Len(nonces) >= NonceLimit =>
              /\ Len(Remember(nonces, n)) = Len(nonces)
              /\ \A i \in 1 .. Len(nonces) - 1 : Remember(nonces, n)[i] = nonces[i + 1]
              /\ Remember(nonces, n)[Len(nonces)] = n
<1> DEFINE with == Append(nonces, n)
<1>1. /\ with \in Seq(S) /\ Len(with) = Len(nonces) + 1
      /\ \A i \in 1 .. Len(nonces) : with[i] = nonces[i]
      /\ with[Len(nonces) + 1] = n
      /\ Len(nonces) \in Nat
  BY AppendProperties, LenProperties
<1>2. Remember(nonces, n) = IF Len(with) > NonceLimit THEN Tail(with) ELSE with
  BY DEF Remember
<1>3. /\ Tail(with) \in Seq(S) /\ Len(Tail(with)) = Len(nonces)
      /\ \A i \in 1 .. Len(nonces) : Tail(with)[i] = with[i + 1]
  <2>1. with # <<>>
    BY AppendProperties
  <2> QED
    BY <1>1, <2>1, HeadTailProperties
<1>4. CASE Len(nonces) < NonceLimit
  BY <1>1, <1>2, <1>4, ConstantsAssumption
<1>5. CASE Len(nonces) >= NonceLimit
  <2> HIDE DEF with
  <2>1. Remember(nonces, n) = Tail(with)
    BY <1>1, <1>2, <1>5, ConstantsAssumption
  <2>2. Len(nonces) >= 1
    BY <1>5, ConstantsAssumption
  <2> QED
    BY <1>1, <1>3, <1>5, <2>1, <2>2, ConstantsAssumption
<1> QED
  BY <1>1, <1>4, <1>5, ConstantsAssumption

(* Set.delete(): one nonce goes, the others move up. *)
LEMMA WithoutIs ==
  ASSUME NEW S, NEW nonces \in Seq(S), NEW n, Holds(nonces, n)
  PROVE  /\ Without(nonces, n) \in Seq(S)
         /\ Len(Without(nonces, n)) = Len(nonces) - 1
         /\ \E at \in 1 .. Len(nonces) :
              /\ nonces[at] = n
              /\ \A i \in 1 .. Len(nonces) - 1 :
                   Without(nonces, n)[i] = IF i < at THEN nonces[i] ELSE nonces[i + 1]
<1> DEFINE at == CHOOSE i \in DOMAIN nonces : nonces[i] = n
<1>1. DOMAIN nonces = 1 .. Len(nonces) /\ Len(nonces) \in Nat /\ nonces \in [1 .. Len(nonces) -> S]
  BY LenProperties
<1>2. at \in 1 .. Len(nonces) /\ nonces[at] = n
  BY <1>1 DEF Holds
<1>3. Without(nonces, n) = [i \in 1 .. Len(nonces) - 1 |-> IF i < at THEN nonces[i] ELSE nonces[i + 1]]
  BY DEF Without
<1> HIDE DEF at
<1>4. Len(nonces) - 1 \in Nat
  BY <1>1, <1>2
<1>5. \A i \in 1 .. Len(nonces) - 1 : (IF i < at THEN nonces[i] ELSE nonces[i + 1]) \in S
  BY <1>1, <1>2
<1>6. Without(nonces, n) \in Seq(S) /\ Len(Without(nonces, n)) = Len(nonces) - 1
  BY <1>3, <1>4, <1>5
<1> QED
  BY <1>1, <1>2, <1>3, <1>6

-----------------------------------------------------------------------------
(* Heartbeats *)

(* sendHeartbeat() keeps the books: the nonce that is forgotten at the limit was followed by enough others. *)
LEMMA SendsNonces ==
  ASSUME NoncesOK, Sends
  PROVE  NoncesOK'
<1>1. /\ beats \in Nat /\ beats' = beats + 1 /\ beats + 1 \in Nonces'
      /\ Nonces \subseteq Nonces'
      /\ sent' = Remember(sent, beats + 1) /\ matched' = matched /\ counted' = counted
  BY DEF NoncesOK, Sends, Nonces
<1>2. sent \in Seq(Nonces') /\ matched \in Seq(Nonces') /\ counted \in Seq(Nonces')
  BY <1>1, SeqMonotonic DEF NoncesOK
<1>3. /\ sent' \in Seq(Nonces')
      /\ Len(sent) < NonceLimit =>
              /\ Len(sent') = Len(sent) + 1
              /\ \A i \in 1 .. Len(sent) : sent'[i] = sent[i]
              /\ sent'[Len(sent) + 1] = beats + 1
      /\ Len(sent) >= NonceLimit =>
              /\ Len(sent') = Len(sent)
              /\ \A i \in 1 .. Len(sent) - 1 : sent'[i] = sent[i + 1]
              /\ sent'[Len(sent)] = beats + 1
  <2> DEFINE kept == Remember(sent, beats + 1)
  <2>1. /\ kept \in Seq(Nonces')
        /\ Len(sent) < NonceLimit =>
              /\ Len(kept) = Len(sent) + 1
              /\ \A i \in 1 .. Len(sent) : kept[i] = sent[i]
              /\ kept[Len(sent) + 1] = beats + 1
        /\ Len(sent) >= NonceLimit =>
              /\ Len(kept) = Len(sent)
              /\ \A i \in 1 .. Len(sent) - 1 : kept[i] = sent[i + 1]
              /\ kept[Len(sent)] = beats + 1
    BY <1>1, <1>2, RememberIs, ZenonT(60)
  <2> QED
    BY <1>1, <2>1
<1>4. /\ Len(sent) \in 0 .. NonceLimit
      /\ \A i \in 1 .. Len(sent) : sent[i] \in 1 .. beats
      /\ \A i \in 1 .. Len(counted) : counted[i] \in 1 .. beats
      /\ \A i \in 1 .. Len(matched) : matched[i] \in 1 .. beats
      /\ NonceLimit \in Nat \ {0}
  <2>1. /\ Len(sent) \in Nat /\ \A i \in 1 .. Len(sent) : sent[i] \in Nonces
        /\ \A i \in 1 .. Len(counted) : counted[i] \in Nonces
        /\ \A i \in 1 .. Len(matched) : matched[i] \in Nonces
    BY LenProperties, ElementOfSeq DEF NoncesOK
  <2> QED
    BY <2>1, ConstantsAssumption DEF Nonces, NoncesOK, EachHasItsPlace
<1>5. SentInOrder'
  <2>1. \A i \in 1 .. Len(sent) : beats + 1 - sent[i] >= Len(sent) + 1 - i
    <3> SUFFICES ASSUME NEW i \in 1 .. Len(sent) PROVE beats + 1 - sent[i] >= Len(sent) + 1 - i
      OBVIOUS
    <3>1. Len(sent) \in 1 .. Len(sent) /\ i <= Len(sent)
      BY <1>4
    <3>2. sent[Len(sent)] - sent[i] >= Len(sent) - i
      BY <3>1 DEF NoncesOK, SentInOrder
    <3>3. sent[Len(sent)] \in 1 .. beats /\ sent[i] \in 1 .. beats
      BY <1>4, <3>1
    <3> QED
      BY <1>1, <1>4, <3>2, <3>3
  <2>2. CASE Len(sent) < NonceLimit
    <3> SUFFICES ASSUME NEW i \in 1 .. Len(sent'), NEW j \in 1 .. Len(sent'), i <= j
                 PROVE  sent'[j] - sent'[i] >= j - i
      BY DEF SentInOrder
    <3>1. CASE j <= Len(sent)
      <4>1. i \in 1 .. Len(sent) /\ j \in 1 .. Len(sent)
        BY <1>4, <3>1
      <4> QED
        BY <1>3, <2>2, <4>1 DEF NoncesOK, SentInOrder
    <3>2. CASE j > Len(sent) /\ i <= Len(sent)
      <4>1. i \in 1 .. Len(sent) /\ j = Len(sent) + 1
        BY <1>3, <1>4, <2>2, <3>2
      <4> QED
        BY <1>1, <1>3, <1>4, <2>1, <2>2, <4>1
    <3>3. CASE i > Len(sent)
      <4>1. i = Len(sent) + 1 /\ j = Len(sent) + 1
        BY <1>3, <1>4, <2>2, <3>3
      <4> QED
        BY <1>1, <1>3, <2>2, <4>1
    <3> QED
      BY <1>4, <3>1, <3>2, <3>3
  <2>3. CASE Len(sent) >= NonceLimit
    <3> SUFFICES ASSUME NEW i \in 1 .. Len(sent), NEW j \in 1 .. Len(sent), i <= j
                 PROVE  sent'[j] - sent'[i] >= j - i
      BY <1>3, <2>3 DEF SentInOrder
    <3>1. CASE j < Len(sent)
      <4>1. i \in 1 .. Len(sent) - 1 /\ j \in 1 .. Len(sent) - 1
        BY <1>4, <3>1
      <4>2. i + 1 \in 1 .. Len(sent) /\ j + 1 \in 1 .. Len(sent) /\ i + 1 <= j + 1
        BY <1>4, <4>1
      <4>3. sent[j + 1] - sent[i + 1] >= (j + 1) - (i + 1)
        BY <4>2 DEF NoncesOK, SentInOrder
      <4>4. sent'[j] = sent[j + 1] /\ sent'[i] = sent[i + 1]
        BY <1>3, <2>3, <4>1
      <4> QED
        BY <4>3, <4>4
    <3>2. CASE j = Len(sent) /\ i < Len(sent)
      <4>1. i \in 1 .. Len(sent) - 1 /\ i + 1 \in 1 .. Len(sent)
        BY <1>4, <3>2
      <4>2. sent'[i] = sent[i + 1] /\ sent'[j] = beats + 1
        BY <1>3, <2>3, <3>2, <4>1
      <4>3. beats + 1 - sent[i + 1] >= Len(sent) + 1 - (i + 1)
        BY <2>1, <4>1
      <4> QED
        BY <1>1, <1>4, <3>2, <4>1, <4>2, <4>3
    <3>3. CASE i = Len(sent)
      BY <1>1, <1>3, <1>4, <2>3, <3>3
    <3> QED
      BY <1>4, <3>1, <3>2, <3>3
  <2> QED
    BY <1>4, <2>2, <2>3
<1>6. MatchedIsRecent'
  BY <1>1 DEF NoncesOK, MatchedIsRecent
<1>7. EachHasItsPlace'
  <2>1. Len(sent') <= NonceLimit
    BY <1>3, <1>4
  <2>2. \A i \in 1 .. Len(sent') : sent'[i] = beats + 1 \/ \E k \in 1 .. Len(sent) : sent'[i] = sent[k]
    <3>1. CASE Len(sent) < NonceLimit
      BY <1>3, <1>4, <3>1
    <3>2. CASE Len(sent) >= NonceLimit
      <4> SUFFICES ASSUME NEW i \in 1 .. Len(sent)
                   PROVE sent'[i] = beats + 1 \/ \E k \in 1 .. Len(sent) : sent'[i] = sent[k]
        BY <1>3, <3>2
      <4>1. i = Len(sent) \/ (i \in 1 .. Len(sent) - 1 /\ i + 1 \in 1 .. Len(sent))
        BY <1>4
      <4> QED
        BY <1>3, <3>2, <4>1
    <3> QED
      BY <1>4, <3>1, <3>2
  <2>3. \A i \in 1 .. Len(sent') : \A j \in 1 .. Len(counted) : sent'[i] # counted[j]
    <3>1. \A i \in 1 .. Len(sent) : \A j \in 1 .. Len(counted) : sent[i] # counted[j]
      BY DEF NoncesOK, EachHasItsPlace
    <3>2. \A j \in 1 .. Len(counted) : counted[j] # beats + 1
      BY <1>1, <1>4
    <3> QED
      BY <2>2, <3>1, <3>2
  <2>4. ASSUME NEW n \in 1 .. beats'
        PROVE  \/ \E i \in 1 .. Len(sent') : sent'[i] = n
               \/ \E i \in 1 .. Len(counted) : counted[i] = n
               \/ beats' - n >= NonceLimit
    <3>1. CASE n = beats + 1
      <4>1. \E i \in 1 .. Len(sent') : sent'[i] = beats + 1
        BY <1>3, <1>4
      <4> QED
        BY <3>1, <4>1
    <3>2. CASE n \in 1 .. beats /\ \E i \in 1 .. Len(sent) : sent[i] = n
      <4> PICK i \in 1 .. Len(sent) : sent[i] = n
        BY <3>2
      <4>1. CASE Len(sent) < NonceLimit
        BY <1>3, <1>4, <4>1
      <4>2. CASE Len(sent) >= NonceLimit /\ i = 1
        <5>1. Len(sent) = NonceLimit /\ Len(sent) \in 1 .. Len(sent) /\ 1 <= Len(sent)
          BY <1>4, <4>2
        <5>2. sent[Len(sent)] - sent[1] >= Len(sent) - 1
          BY <5>1, <4>2 DEF NoncesOK, SentInOrder
        <5>3. sent[Len(sent)] \in 1 .. beats
          BY <1>4, <5>1
        <5> QED
          BY <1>1, <1>4, <3>2, <4>2, <5>1, <5>2, <5>3
      <4>3. CASE Len(sent) >= NonceLimit /\ i # 1
        <5>1. i - 1 \in 1 .. Len(sent) - 1 /\ i - 1 \in 1 .. Len(sent') /\ (i - 1) + 1 = i
          BY <1>3, <1>4, <4>3
        <5> QED
          BY <1>3, <4>3, <5>1
      <4> QED
        BY <1>4, <4>1, <4>2, <4>3
    <3>3. CASE n \in 1 .. beats /\ ~\E i \in 1 .. Len(sent) : sent[i] = n
      <4>1. (\E i \in 1 .. Len(counted) : counted[i] = n) \/ beats - n >= NonceLimit
        BY <3>3 DEF NoncesOK, EachHasItsPlace
      <4> QED
        BY <1>1, <1>4, <3>3, <4>1
    <3> QED
      BY <1>1, <3>1, <3>2, <3>3
  <2>5. \A i, j \in 1 .. Len(counted) : counted[i] = counted[j] => i = j
    BY DEF NoncesOK, EachHasItsPlace
  <2> QED
    BY <1>1, <2>1, <2>3, <2>4, <2>5 DEF EachHasItsPlace
<1> QED
  BY <1>1, <1>2, <1>3, <1>5, <1>6, <1>7 DEF NoncesOK

(* receiveHeartbeat() keeps the books: one of ours goes from the sent to the matched, anything else changes nothing. *)
LEMMA ReceivesNonces ==
  ASSUME NoncesOK, NEW n \in 1 .. beats, Receives(n)
  PROVE  NoncesOK'
<1>1. CASE ~Holds(sent, n)
  BY <1>1 DEF Receives, beat_vars, NoncesOK, Nonces, SentInOrder, MatchedIsRecent, EachHasItsPlace
<1>2. CASE Holds(sent, n)
  <2>1. /\ beats' = beats /\ counted' = Append(counted, n)
        /\ sent' = Without(sent, n) /\ matched' = Remember(matched, n)
    BY <1>2 DEF Receives
  <2>2. /\ sent \in Seq(Nonces) /\ matched \in Seq(Nonces) /\ counted \in Seq(Nonces) /\ n \in Nonces
        /\ Len(sent) \in Nat /\ Len(matched) \in Nat /\ Len(counted) \in Nat
        /\ NonceLimit \in Nat \ {0}
    BY LenProperties, ConstantsAssumption DEF NoncesOK, Nonces
  <2>3. /\ sent' \in Seq(Nonces)
        /\ Len(sent') = Len(sent) - 1
        /\ \E at \in 1 .. Len(sent) :
             /\ sent[at] = n
             /\ \A i \in 1 .. Len(sent) - 1 : sent'[i] = IF i < at THEN sent[i] ELSE sent[i + 1]
    BY <1>2, <2>1, <2>2, WithoutIs, SMTT(60)
  <2>4. PICK at \in 1 .. Len(sent) :
             /\ sent[at] = n
             /\ \A i \in 1 .. Len(sent) - 1 : sent'[i] = IF i < at THEN sent[i] ELSE sent[i + 1]
    BY <2>3
  <2>5. /\ counted' \in Seq(Nonces) /\ Len(counted') = Len(counted) + 1
        /\ \A i \in 1 .. Len(counted) : counted'[i] = counted[i]
        /\ counted'[Len(counted) + 1] = n
    BY <2>1, <2>2, AppendProperties
  <2>6. /\ matched' \in Seq(Nonces)
        /\ Len(matched) < NonceLimit =>
              /\ Len(matched') = Len(matched) + 1
              /\ \A i \in 1 .. Len(matched) : matched'[i] = matched[i]
              /\ matched'[Len(matched) + 1] = n
        /\ Len(matched) >= NonceLimit =>
              /\ Len(matched') = Len(matched)
              /\ \A i \in 1 .. Len(matched) - 1 : matched'[i] = matched[i + 1]
              /\ matched'[Len(matched)] = n
    <3> DEFINE kept == Remember(matched, n)
    <3>1. /\ kept \in Seq(Nonces)
          /\ Len(matched) < NonceLimit =>
                /\ Len(kept) = Len(matched) + 1
                /\ \A i \in 1 .. Len(matched) : kept[i] = matched[i]
                /\ kept[Len(matched) + 1] = n
          /\ Len(matched) >= NonceLimit =>
                /\ Len(kept) = Len(matched)
                /\ \A i \in 1 .. Len(matched) - 1 : kept[i] = matched[i + 1]
                /\ kept[Len(matched)] = n
      BY <2>2, RememberIs, ZenonT(60)
    <3> QED
      BY <2>1, <3>1
  <2>7. SentInOrder'
    <3> SUFFICES ASSUME NEW i \in 1 .. Len(sent) - 1, NEW j \in 1 .. Len(sent) - 1, i <= j
                 PROVE  sent'[j] - sent'[i] >= j - i
      BY <2>3 DEF SentInOrder
    <3>1. \A k, l \in 1 .. Len(sent) : k <= l => sent[l] - sent[k] >= l - k
      BY DEF NoncesOK, SentInOrder
    <3>2. \A k \in 1 .. Len(sent) : sent[k] \in 1 .. beats
      BY <2>2, ElementOfSeq DEF Nonces
    <3>3. i \in 1 .. Len(sent) /\ j \in 1 .. Len(sent) /\ i + 1 \in 1 .. Len(sent) /\ j + 1 \in 1 .. Len(sent)
      BY <2>2
    <3>4. sent'[i] = (IF i < at THEN sent[i] ELSE sent[i + 1]) /\ sent'[j] = (IF j < at THEN sent[j] ELSE sent[j + 1])
      BY <2>4
    <3>5. CASE j < at
      BY <3>1, <3>3, <3>4, <3>5
    <3>6. CASE i < at /\ j >= at
      <4>1. sent[j + 1] - sent[i] >= (j + 1) - i
        BY <3>1, <3>3
      <4>2. sent[j + 1] \in Int /\ sent[i] \in Int
        BY <3>2, <3>3
      <4>3. sent'[i] = sent[i] /\ sent'[j] = sent[j + 1]
        BY <3>4, <3>6
      <4> QED
        BY <4>1, <4>2, <4>3
    <3>7. CASE i >= at
      <4>1. sent[j + 1] - sent[i + 1] >= (j + 1) - (i + 1)
        BY <3>1, <3>3
      <4>2. sent'[i] = sent[i + 1] /\ sent'[j] = sent[j + 1]
        BY <3>4, <3>7
      <4> QED
        BY <4>1, <4>2
    <3> QED
      BY <3>5, <3>6, <3>7
  <2>8. MatchedIsRecent'
    <3>1. /\ Len(matched) <= NonceLimit
          /\ Len(matched) = NonceLimit \/ Len(matched) = Len(counted)
          /\ Len(matched) <= Len(counted)
      BY DEF NoncesOK, MatchedIsRecent
    <3>2. \A i \in 1 .. Len(matched) : matched[i] = counted[Len(counted) - Len(matched) + i]
      BY DEF NoncesOK, MatchedIsRecent
    <3>3. /\ Len(matched') <= NonceLimit
          /\ Len(matched') = NonceLimit \/ Len(matched') = Len(counted')
          /\ Len(matched') <= Len(counted')
      BY <2>2, <2>5, <2>6, <3>1
    <3>4. ASSUME NEW i \in 1 .. Len(matched')
          PROVE  matched'[i] = counted'[Len(counted') - Len(matched') + i]
      <4>1. CASE Len(matched) < NonceLimit
        <5>1. Len(matched) = Len(counted) /\ Len(matched') = Len(counted')
          BY <2>2, <2>5, <2>6, <3>1, <4>1
        <5> QED
          BY <2>2, <2>5, <2>6, <3>2, <4>1, <5>1, SMTT(60)
      <4>2. CASE Len(matched) >= NonceLimit /\ i = Len(matched)
        BY <2>2, <2>5, <2>6, <4>2
      <4>3. CASE Len(matched) >= NonceLimit /\ i < Len(matched)
        <5>1. i \in 1 .. Len(matched) - 1 /\ i + 1 \in 1 .. Len(matched)
          BY <2>2, <2>6, <4>3
        <5>2. matched'[i] = matched[i + 1]
          BY <2>6, <4>3, <5>1
        <5>3. matched[i + 1] = counted[Len(counted) - Len(matched) + (i + 1)]
          BY <3>2, <5>1
        <5>4. Len(counted) - Len(matched) + (i + 1) \in 1 .. Len(counted)
          BY <2>2, <3>1, <5>1
        <5>5. Len(counted') = Len(counted) + 1 /\ Len(matched') = Len(matched)
          BY <2>5, <2>6, <4>3
        <5>6. Len(counted') - Len(matched') + i = Len(counted) - Len(matched) + (i + 1)
          BY <2>2, <5>1, <5>5
        <5> QED
          BY <2>5, <5>2, <5>3, <5>4, <5>6
      <4> QED
        BY <2>2, <2>6, <4>1, <4>2, <4>3
    <3> QED
      BY <3>3, <3>4 DEF MatchedIsRecent
  <2>9. EachHasItsPlace'
    <3>1. Len(sent') <= NonceLimit
      BY <2>2, <2>3 DEF NoncesOK, EachHasItsPlace
    <3>2. \A i, j \in 1 .. Len(sent) : sent[i] = sent[j] => i = j
      <4> SUFFICES ASSUME NEW i \in 1 .. Len(sent), NEW j \in 1 .. Len(sent), sent[i] = sent[j] PROVE i = j
        OBVIOUS
      <4>1. (i <= j => sent[j] - sent[i] >= j - i) /\ (j <= i => sent[i] - sent[j] >= i - j)
        BY DEF NoncesOK, SentInOrder
      <4>2. sent[i] \in 1 .. beats
        BY <2>2, ElementOfSeq DEF Nonces
      <4> QED
        BY <4>1, <4>2
    <3>3. \A i \in 1 .. Len(sent') : \E k \in 1 .. Len(sent) : k # at /\ sent'[i] = sent[k]
      <4> SUFFICES ASSUME NEW i \in 1 .. Len(sent) - 1 PROVE \E k \in 1 .. Len(sent) : k # at /\ sent'[i] = sent[k]
        BY <2>3
      <4>1. i \in 1 .. Len(sent) /\ i + 1 \in 1 .. Len(sent)
        BY <2>2
      <4>2. sent'[i] = IF i < at THEN sent[i] ELSE sent[i + 1]
        BY <2>4
      <4> QED
        BY <4>1, <4>2
    <3>4. \A k \in 1 .. Len(sent) : k # at => \E i \in 1 .. Len(sent') : sent'[i] = sent[k]
      <4> SUFFICES ASSUME NEW k \in 1 .. Len(sent), k # at PROVE \E i \in 1 .. Len(sent') : sent'[i] = sent[k]
        OBVIOUS
      <4>1. CASE k < at
        <5>1. k \in 1 .. Len(sent) - 1
          BY <2>2, <4>1
        <5>2. sent'[k] = sent[k]
          BY <2>4, <4>1, <5>1
        <5> QED
          BY <2>3, <5>1, <5>2
      <4>2. CASE k > at
        <5>1. k - 1 \in 1 .. Len(sent) - 1 /\ (k - 1) + 1 = k /\ ~(k - 1 < at)
          BY <2>2, <4>2
        <5>2. sent'[k - 1] = sent[k]
          BY <2>4, <5>1
        <5> QED
          BY <2>3, <5>1, <5>2
      <4> QED
        BY <4>1, <4>2
    <3>5. \A i \in 1 .. Len(sent) : \A j \in 1 .. Len(counted) : sent[i] # counted[j]
      BY DEF NoncesOK, EachHasItsPlace
    <3>6. \A i, j \in 1 .. Len(counted') : counted'[i] = counted'[j] => i = j
      <4>1. \A j \in 1 .. Len(counted) : n # counted[j]
        BY <2>4, <3>5
      <4>2. \A i, j \in 1 .. Len(counted) : counted[i] = counted[j] => i = j
        BY DEF NoncesOK, EachHasItsPlace
      <4> QED
        BY <2>2, <2>5, <4>1, <4>2
    <3>7. \A i \in 1 .. Len(sent') : \A j \in 1 .. Len(counted') : sent'[i] # counted'[j]
      <4> SUFFICES ASSUME NEW i \in 1 .. Len(sent'), NEW j \in 1 .. Len(counted') PROVE sent'[i] # counted'[j]
        OBVIOUS
      <4>1. PICK k \in 1 .. Len(sent) : k # at /\ sent'[i] = sent[k]
        BY <3>3
      <4>2. sent[k] # n
        BY <2>4, <3>2, <4>1
      <4>3. j \in 1 .. Len(counted) \/ j = Len(counted) + 1
        BY <2>2, <2>5
      <4> QED
        BY <2>5, <3>5, <4>1, <4>2, <4>3
    <3>8. ASSUME NEW k \in 1 .. beats
          PROVE  \/ \E i \in 1 .. Len(sent') : sent'[i] = k
                 \/ \E i \in 1 .. Len(counted') : counted'[i] = k
                 \/ beats - k >= NonceLimit
      <4>1. CASE k = n
        BY <2>2, <2>5, <4>1
      <4>2. CASE k # n /\ \E i \in 1 .. Len(sent) : sent[i] = k
        BY <2>4, <3>4, <4>2
      <4>3. CASE \E i \in 1 .. Len(counted) : counted[i] = k
        BY <2>2, <2>5, <4>3
      <4> QED
        BY <4>1, <4>2, <4>3 DEF NoncesOK, EachHasItsPlace
    <3> QED
      BY <2>1, <3>1, <3>6, <3>7, <3>8 DEF EachHasItsPlace
  <2> QED
    BY <2>1, <2>3, <2>5, <2>6, <2>7, <2>8, <2>9 DEF NoncesOK, Nonces
<1> QED
  BY <1>1, <1>2

-----------------------------------------------------------------------------
(* Subscriptions *)

(* subscribe() replaces a subscription in any state, or none. *)
LEMMA SubscribesListening ==
  ASSUME ListeningOK, life' = "up", NEW STATE timer, timer \in BOOLEAN, Subscribes(timer)
  PROVE  ListeningOK'
<1> PICK s \in Subscription :
      /\ socket[s] = "unused" /\ current' = s /\ Retires(current, s)
      /\ connecting' = [connecting EXCEPT ![s] = 0]
  BY DEF Subscribes
<1>1. /\ subscribed' = TRUE /\ heardAgo' = 0 /\ reconnect' = timer /\ faults' = faults
      /\ retiring' = retiring \cup ({current} \ {None})
      /\ socket' = [socket EXCEPT ![s] = "connecting"]
      /\ graceLeft' = [x \in Subscription |-> IF x = current THEN Grace ELSE graceLeft[x]]
  BY DEF Subscribes, Retires
<1>2. Grace \in Nat /\ Connect \in Nat /\ Idle \in Nat /\ None \notin Subscription
  BY GraceType, ConstantsAssumption
<1>3. ListeningTypeOK'
  BY <1>1, <1>2 DEF ListeningOK, ListeningTypeOK, Open
<1>4. OpenIsKnown'
  BY <1>1, <1>2 DEF ListeningOK, ListeningTypeOK, OpenIsKnown, Open
<1>5. ReconnectsWhenClosed'
  BY <1>1, <1>2 DEF ListeningOK, ListeningTypeOK, ReconnectsWhenClosed
<1>6. ASSUME faults' = 0 PROVE EachHasASuccessor'
  <2>1. EachHasASuccessor
    BY <1>1, <1>6 DEF ListeningOK
  <2>2. s \notin retiring /\ s # current /\ socket'[s] = "connecting" /\ connecting'[s] = 0
    BY <1>1, <1>2, <2>1 DEF EachHasASuccessor, ListeningOK, ListeningTypeOK
  <2>3. \A x \in Subscription : x # s => socket'[x] = socket[x] /\ connecting'[x] = connecting[x]
    BY <1>1 DEF ListeningOK, ListeningTypeOK
  <2>4. s \notin retiring'
    BY <1>1, <2>2
  <2>5. \A x \in Subscription : x \in retiring' \/ x = s => socket'[x] # "unused"
    BY <1>1, <2>1, <2>2, <2>3 DEF EachHasASuccessor
  <2>6. ASSUME NEW R \in SUBSET retiring', R # {}
        PROVE  \E r \in R : \E y \in Subscription :
                 y \notin R /\ (y \in retiring' \/ y = s) /\ ConnectedOrLate(r, y)'
    <3>1. CASE current \in R
      <4>1. PICK c \in R : c = current
        BY <3>1
      <4>2. c \in Subscription /\ graceLeft'[c] = Grace
        BY <1>1, <1>2, <2>6, <4>1 DEF ListeningOK, ListeningTypeOK
      <4>3. ConnectedOrLate(c, s)'
        BY <1>2, <2>2, <4>2 DEF ConnectedOrLate
      <4> QED
        BY <2>4, <2>6, <4>1, <4>3
    <3>2. CASE current \notin R
      <4>1. R \in SUBSET retiring
        BY <1>1, <2>6, <3>2
      <4>2. PICK r \in R : \E y \in Subscription :
              y \notin R /\ (y \in retiring \/ y = current) /\ ConnectedOrLate(r, y)
        BY <2>1, <2>6, <4>1 DEF EachHasASuccessor
      <4>3. PICK y \in Subscription : y \notin R /\ (y \in retiring \/ y = current) /\ ConnectedOrLate(r, y)
        BY <4>2
      <4>4. y # s /\ y \in retiring' /\ r # current /\ graceLeft'[r] = graceLeft[r]
        BY <1>1, <1>2, <2>2, <3>2, <4>1, <4>3 DEF ListeningOK, ListeningTypeOK
      <4>5. ConnectedOrLate(r, y)'
        BY <2>3, <4>3, <4>4 DEF ConnectedOrLate
      <4> QED
        BY <4>3, <4>4, <4>5
    <3> QED
      BY <3>1, <3>2
  <2> QED
    BY <2>4, <2>5, <2>6 DEF EachHasASuccessor
<1> QED
  BY <1>3, <1>4, <1>5, <1>6 DEF ListeningOK

(* A failed subscribe() keeps the current subscription and sets the timer. *)
LEMMA SubscribeFailsListening ==
  ASSUME ListeningOK, life' = "up", SubscribeFails
  PROVE  ListeningOK'
BY ConstantsAssumption
DEF ListeningOK, ListeningTypeOK, OpenIsKnown, ReconnectsWhenClosed, SubscribeFails, SchedulesReconnect

(* A step that changes no connection for the worse and cancels nothing keeps the successors. *)
LEMMA SuccessorsStay ==
  ASSUME EachHasASuccessor, ListeningTypeOK, current' = current, retiring' = retiring,
         \A s \in Subscription : socket'[s] = "unused" => socket[s] = "unused",
         \A r \in retiring : \A y \in Subscription : ConnectedOrLate(r, y) => ConnectedOrLate(r, y)'
  PROVE  EachHasASuccessor'
<1>1. ASSUME NEW R \in SUBSET retiring, R # {}
      PROVE  \E r \in R : \E y \in Subscription :
               y \notin R /\ (y \in retiring \/ y = current) /\ ConnectedOrLate(r, y)'
  <2>1. PICK r \in R : \E y \in Subscription :
          y \notin R /\ (y \in retiring \/ y = current) /\ ConnectedOrLate(r, y)
    BY <1>1 DEF EachHasASuccessor
  <2>2. PICK y \in Subscription : y \notin R /\ (y \in retiring \/ y = current) /\ ConnectedOrLate(r, y)
    BY <2>1
  <2> QED
    BY <2>2
<1> QED
  BY <1>1 DEF EachHasASuccessor

(* A cancelled subscription whose time was over leaves its successor to those that counted on it. *)
LEMMA SuccessorInherited ==
  ASSUME EachHasASuccessor, ListeningTypeOK, NEW s \in Subscription, GraceEnds(s)
  PROVE  EachHasASuccessor'
<1>1. /\ s \in retiring /\ graceLeft[s] = 0 /\ retiring' = retiring \ {s} /\ current' = current /\ s # current
      /\ socket' = [socket EXCEPT ![s] = "unused"] /\ graceLeft' = graceLeft /\ connecting' = connecting
  BY DEF GraceEnds, EachHasASuccessor
<1>2. \A x \in Subscription : x # s => socket'[x] = socket[x]
  BY <1>1 DEF ListeningTypeOK
<1>3. ASSUME NEW R \in SUBSET retiring', R # {}
      PROVE  \E r \in R : \E y \in Subscription :
               y \notin R /\ (y \in retiring' \/ y = current) /\ ConnectedOrLate(r, y)'
  <2>1. R \cup {s} \in SUBSET retiring /\ s \notin R /\ R \cup {s} # {}
    BY <1>1, <1>3
  <2>2. PICK r \in R \cup {s} : \E y \in Subscription :
          y \notin R \cup {s} /\ (y \in retiring \/ y = current) /\ ConnectedOrLate(r, y)
    BY <2>1 DEF EachHasASuccessor
  <2>3. PICK y \in Subscription :
          y \notin R \cup {s} /\ (y \in retiring \/ y = current) /\ ConnectedOrLate(r, y)
    BY <2>2
  <2>4. y # s /\ y \notin R /\ (y \in retiring' \/ y = current)
    BY <1>1, <2>3
  <2>5. CASE r \in R
    <3>1. ConnectedOrLate(r, y)'
      BY <1>1, <1>2, <2>3, <2>4 DEF ConnectedOrLate
    <3> QED
      BY <2>4, <2>5, <3>1
  <2>6. CASE r = s
    <3>1. PICK q : q \in R
      BY <1>3
    <3>2. q \in Subscription /\ graceLeft[q] \in 0 .. Grace /\ connecting[y] \in 0 .. Connect
      BY <1>1, <1>3, <3>1 DEF ListeningTypeOK
    <3>3. socket[y] = "open" \/ (socket[y] = "connecting" /\ connecting[y] >= Grace)
      BY <1>1, <2>3, <2>6, <3>2, ConstantsAssumption DEF ConnectedOrLate
    <3>4. ConnectedOrLate(q, y)'
      BY <1>1, <1>2, <2>4, <3>2, <3>3, GraceType, ConstantsAssumption DEF ConnectedOrLate
    <3> QED
      BY <2>4, <3>1, <3>4
  <2> QED
    BY <2>5, <2>6
<1>4. \A x \in Subscription : x \in retiring' \/ x = current => socket'[x] # "unused"
  BY <1>1, <1>2 DEF EachHasASuccessor
<1> QED
  BY <1>1, <1>3, <1>4 DEF EachHasASuccessor

(* Every step that has to do with subscriptions keeps the order among them. *)
LEMMA ListeningStep ==
  ASSUME ListeningOK, [Next]_vars
  PROVE  ListeningOK'
<1> USE DEF ListeningOK
<1>1. CASE Start
  <2>1. life' = "up" /\ (Subscribes(reconnect) \/ SubscribeFails)
    BY <1>1 DEF Start
  <2>2. reconnect \in BOOLEAN
    BY DEF ListeningTypeOK
  <2> QED
    BY <1>1, <2>1, <2>2, SubscribesListening, SubscribeFailsListening
<1>2. CASE HeartbeatDue
  BY <1>2
  DEF HeartbeatDue, ListeningTypeOK, OpenIsKnown, ReconnectsWhenClosed, EachHasASuccessor, ConnectedOrLate
<1>3. CASE Reconnects
  <2>1. life' = "up" /\ (Subscribes(FALSE) \/ SubscribeFails)
    BY <1>3 DEF Reconnects
  <2> QED
    BY <1>3, <2>1, SubscribesListening, SubscribeFailsListening
<1>4. CASE WatchdogFires
  <2>1. life' = "up" /\ (Subscribes(reconnect) \/ SubscribeFails)
    BY <1>4 DEF WatchdogFires
  <2>2. reconnect \in BOOLEAN
    BY DEF ListeningTypeOK
  <2> QED
    BY <1>4, <2>1, <2>2, SubscribesListening, SubscribeFailsListening
<1>5. CASE Stop
  <2>1. ListeningTypeOK' /\ OpenIsKnown' /\ ReconnectsWhenClosed'
    BY <1>5 DEF Stop, Cancelled, ListeningTypeOK, OpenIsKnown, ReconnectsWhenClosed, Open
  <2>2. EachHasASuccessor'
    BY <1>5, ConstantsAssumption DEF Stop, EachHasASuccessor
  <2> QED
    BY <2>1, <2>2
<1>6. ASSUME NEW s \in Subscription, Connected(s) PROVE ListeningOK'
  <2>1. ListeningTypeOK' /\ OpenIsKnown' /\ ReconnectsWhenClosed'
    BY <1>6 DEF Connected, ListeningTypeOK, OpenIsKnown, ReconnectsWhenClosed, Open
  <2>2. ASSUME faults' = 0 PROVE EachHasASuccessor'
    <3>1. EachHasASuccessor
      BY <1>6, <2>2 DEF Connected
    <3>2. /\ \A x \in Subscription : socket'[x] = IF x = s THEN "open" ELSE socket[x]
          /\ UNCHANGED <<current, retiring, graceLeft, connecting>>
      BY <1>6 DEF Connected, ListeningTypeOK
    <3>3. \A r \in retiring : \A y \in Subscription : ConnectedOrLate(r, y) => ConnectedOrLate(r, y)'
      BY <3>2 DEF ConnectedOrLate
    <3>4. \A x \in Subscription : socket'[x] = "unused" => socket[x] = "unused"
      BY <3>2
    <3> QED
      BY <3>1, <3>2, <3>3, <3>4, SuccessorsStay
  <2> QED
    BY <2>1, <2>2
<1>7. ASSUME NEW s \in Subscription, Hears(s) PROVE ListeningOK'
  <2>1. ListeningTypeOK' /\ OpenIsKnown' /\ ReconnectsWhenClosed'
    BY <1>7, ConstantsAssumption DEF Hears, ListeningTypeOK, OpenIsKnown, ReconnectsWhenClosed
  <2>2. ASSUME faults' = 0 PROVE EachHasASuccessor'
    BY <1>7, <2>2 DEF Hears, EachHasASuccessor, ConnectedOrLate
  <2> QED
    BY <2>1, <2>2
<1>8. ASSUME NEW s \in Subscription, Dies(s) PROVE ListeningOK'
  BY <1>8, ConstantsAssumption
  DEF Dies, ListeningTypeOK, OpenIsKnown, ReconnectsWhenClosed, Open
<1>9. ASSUME NEW s \in Subscription, Closes(s) PROVE ListeningOK'
  <2>1. ListeningTypeOK' /\ faults' # 0
    <3>1. reconnect' \in BOOLEAN /\ subscribed' \in BOOLEAN
      BY <1>9 DEF Closes, SchedulesReconnect, ListeningTypeOK
    <3>2. socket' \in [Subscription -> Open \cup {"unused", "closed"}]
      BY <1>9 DEF Closes, ListeningTypeOK
    <3>3. faults \in 0 .. MaxFaults /\ faults < MaxFaults /\ faults' = faults + 1
      BY <1>9 DEF Closes, ListeningTypeOK
    <3>4. UNCHANGED <<life, current, retiring, graceLeft, heardAgo, connecting>>
      BY <1>9 DEF Closes
    <3> QED
      BY <3>1, <3>2, <3>3, <3>4, ConstantsAssumption DEF ListeningTypeOK
  <2>2. OpenIsKnown' /\ ReconnectsWhenClosed'
    BY <1>9, ConstantsAssumption
    DEF Closes, SchedulesReconnect, ListeningTypeOK, OpenIsKnown, ReconnectsWhenClosed, Open
  <2> QED
    BY <2>1, <2>2
<1>10. ASSUME NEW s \in Subscription, GraceEnds(s) PROVE ListeningOK'
  <2>1. ListeningTypeOK' /\ OpenIsKnown' /\ ReconnectsWhenClosed'
    BY <1>10, ConstantsAssumption DEF GraceEnds, ListeningTypeOK, OpenIsKnown, ReconnectsWhenClosed, Open
  <2>2. ASSUME faults' = 0 PROVE EachHasASuccessor'
    BY <1>10, <2>2, SuccessorInherited DEF GraceEnds
  <2> QED
    BY <2>1, <2>2
<1>11. CASE Tick
  <2>1. ListeningTypeOK' /\ OpenIsKnown' /\ ReconnectsWhenClosed'
    BY <1>11, GraceType, ConstantsAssumption DEF Tick, ListeningTypeOK, OpenIsKnown, ReconnectsWhenClosed
  <2>2. ASSUME faults' = 0 PROVE EachHasASuccessor'
    <3>1. EachHasASuccessor /\ UNCHANGED <<current, retiring, socket>>
      BY <1>11, <2>2 DEF Tick
    <3>2. ASSUME NEW r \in retiring, NEW y \in Subscription, ConnectedOrLate(r, y)
          PROVE  ConnectedOrLate(r, y)'
      <4>1. /\ r \in Subscription /\ graceLeft[r] \in 0 .. Grace /\ connecting[y] \in 0 .. Connect
            /\ graceLeft'[r] = IF graceLeft[r] > 0 THEN graceLeft[r] - 1 ELSE 0
        BY <1>11 DEF Tick, ListeningTypeOK
      <4>2. CASE socket[y] = "open"
        BY <3>1, <4>2 DEF ConnectedOrLate
      <4>3. CASE socket[y] = "connecting" /\ connecting[y] + graceLeft[r] >= Grace
        <5>1. connecting'[y] = connecting[y] + 1
          BY <1>11, <4>3 DEF Tick
        <5>2. connecting'[y] + graceLeft'[r] >= Grace
          BY <4>1, <4>3, <5>1, GraceType, ConstantsAssumption
        <5> QED
          BY <3>1, <4>3, <5>2 DEF ConnectedOrLate
      <4> QED
        BY <3>2, <4>2, <4>3 DEF ConnectedOrLate
    <3> QED
      BY <3>1, <3>2, SuccessorsStay
  <2> QED
    BY <2>1, <2>2
<1>12. CASE UNCHANGED vars
  BY <1>12
  DEF vars, ListeningTypeOK, OpenIsKnown, ReconnectsWhenClosed, EachHasASuccessor, ConnectedOrLate
<1> QED
  BY <1>1, <1>2, <1>3, <1>4, <1>5, <1>6, <1>7, <1>8, <1>9, <1>10, <1>11, <1>12 DEF Next

(* Every step sends a heartbeat, hears one, or leaves them alone. *)
LEMMA BeatsStep ==
  ASSUME BeatsOK, [Next]_vars
  PROVE  BeatsOK'
<1>1. Sends \/ (\E n \in 1 .. beats : Receives(n)) \/ UNCHANGED beat_vars
  BY DEF Next, vars, Start, HeartbeatDue, Reconnects, WatchdogFires, Stop, Connected, Hears, Dies, Closes, GraceEnds, Tick
<1>2. CASE Sends
  BY <1>2, SendsNonces, ConstantsAssumption DEF BeatsOK, Sends
<1>3. CASE \E n \in 1 .. beats : Receives(n)
  <2>1. NoncesOK'
    BY <1>3, ReceivesNonces DEF BeatsOK
  <2>2. beats' = beats
    BY <1>3 DEF Receives, beat_vars
  <2> QED
    BY <2>1, <2>2 DEF BeatsOK
<1>4. CASE UNCHANGED beat_vars
  BY <1>4 DEF BeatsOK, beat_vars, NoncesOK, Nonces, SentInOrder, MatchedIsRecent, EachHasItsPlace
<1> QED
  BY <1>1, <1>2, <1>3, <1>4

-----------------------------------------------------------------------------
(* Theorems *)

(* Init satisfies the inductive invariant and every step keeps it. *)
THEOREM Invariance == Spec => []IInv
<1>1. Init => IInv
  <2> SUFFICES ASSUME Init PROVE IInv
    OBVIOUS
  <2>1. ListeningOK
    <3>1. ListeningTypeOK
      <4>1. 0 \in 0 .. Grace /\ 0 \in 0 .. Connect /\ Idle \in 0 .. Idle /\ 0 \in 0 .. MaxFaults
        BY GraceType, ConstantsAssumption
      <4>2. reconnect \in BOOLEAN /\ subscribed \in BOOLEAN
        BY DEF Init
      <4>3. /\ graceLeft \in [Subscription -> 0 .. Grace] /\ connecting \in [Subscription -> 0 .. Connect]
            /\ socket \in [Subscription -> Open \cup {"unused", "closed"}]
        BY <4>1 DEF Init
      <4> QED
        BY <4>1, <4>2, <4>3 DEF Init, ListeningTypeOK
    <3>2. OpenIsKnown /\ ReconnectsWhenClosed /\ EachHasASuccessor
      BY ConstantsAssumption DEF Init, OpenIsKnown, ReconnectsWhenClosed, EachHasASuccessor, Open
    <3> QED
      BY <3>1, <3>2 DEF ListeningOK
  <2>2. NoncesOK
    BY EmptySeq, ConstantsAssumption
    DEF Init, NoncesOK, Nonces, SentInOrder, MatchedIsRecent, EachHasItsPlace
  <2> QED
    BY <2>1, <2>2, ConstantsAssumption DEF Init, IInv, BeatsOK
<1>2. IInv /\ [Next]_vars => IInv'
  BY ListeningStep, BeatsStep DEF IInv
<1> QED
  BY <1>1, <1>2, PTL DEF Spec

(* stop() and every replacement, close and failure leave no subscription behind that nobody listens to (listener.ts). *)
THEOREM NoSubscriptionLeaks == Spec => []NoneLeaks
<1>1. IInv => NoneLeaks
  BY DEF IInv, ListeningOK, ListeningTypeOK, OpenIsKnown, BeatsOK, NoncesOK, Nonces, NoneLeaks, TypeOK
<1> QED
  BY <1>1, Invariance, PTL

(* A listener without a subscription has set the reconnect timer, whatever overlapped. *)
THEOREM ReconnectIsScheduled == Spec => []ReconnectsWhenClosed
<1>1. IInv => ReconnectsWhenClosed
  BY DEF IInv, ListeningOK
<1> QED
  BY <1>1, Invariance, PTL

(* While the network does not fail, replacing a subscription makes the listener deaf only if a newer one takes longer to
   connect than the grace time of retire(): for all times, however slow the connections and however many overlap. *)
THEOREM NeverDeaf == Spec => NeverDeafByItself
<1>1. ASSUME IInv, Next, faults' = 0, life' = "up", Hearing, ~Hearing'
      PROVE  Overdue
  <2>1. ListeningTypeOK
    BY <1>1 DEF IInv, ListeningOK
  <2>2. faults = 0
    BY <1>1, <2>1
    DEF ListeningTypeOK, Next, Start, HeartbeatDue, Reconnects, WatchdogFires, Stop, Connected, Hears, Dies, Closes,
        GraceEnds, Tick, Subscribes, SubscribeFails
  <2>3. EachHasASuccessor
    BY <1>1, <2>2 DEF IInv, ListeningOK
  <2>4. PICK x \in Subscription : (x \in retiring \/ x = current) /\ socket[x] = "open"
    BY <1>1, <2>1 DEF Hearing, ListeningTypeOK
  <2>5. \A y \in Subscription : ~((y \in retiring' \/ y = current') /\ socket'[y] = "open")
    BY <1>1, ConstantsAssumption DEF Hearing
  <2>6. ASSUME NEW timer, Subscribes(timer) PROVE FALSE
    <3>1. x \in retiring' /\ socket'[x] = "open"
      BY <2>1, <2>4, <2>6, ConstantsAssumption DEF Subscribes, Retires, ListeningTypeOK
    <3> QED
      BY <2>5, <3>1
  <2>7. ~SubscribeFails
    BY <1>1, <2>1, <2>2 DEF SubscribeFails, ListeningTypeOK
  <2>8. PICK s \in Subscription : GraceEnds(s)
    <3>1. ~Start /\ ~Reconnects /\ ~WatchdogFires
      BY <2>6, <2>7 DEF Start, Reconnects, WatchdogFires
    <3>2. ~HeartbeatDue /\ ~Tick /\ ~Stop
      BY <1>1, <2>4, <2>5 DEF HeartbeatDue, Tick, Stop
    <3>3. ASSUME NEW s \in Subscription PROVE ~Connected(s) /\ ~Hears(s) /\ ~Dies(s) /\ ~Closes(s)
      BY <1>1, <2>1, <2>2, <2>4, <2>5 DEF Connected, Hears, Dies, Closes, ListeningTypeOK
    <3> QED
      BY <1>1, <3>1, <3>2, <3>3 DEF Next
  <2>9. s \in retiring /\ graceLeft[s] = 0
    BY <2>8 DEF GraceEnds
  <2>10. PICK y \in Subscription : y # s /\ (y \in retiring \/ y = current) /\ ConnectedOrLate(s, y)
    <3>1. {s} \in SUBSET retiring /\ {s} # {}
      BY <2>9
    <3> QED
      BY <2>3, <3>1 DEF EachHasASuccessor
  <2>11. socket[y] # "open"
    BY <2>1, <2>5, <2>8, <2>10 DEF GraceEnds, ListeningTypeOK
  <2>12. socket[y] = "connecting" /\ connecting[y] >= Grace
    <3>1. connecting[y] \in 0 .. Connect
      BY <2>1 DEF ListeningTypeOK
    <3> QED
      BY <2>9, <2>10, <2>11, <3>1, ConstantsAssumption DEF ConnectedOrLate
  <2> QED
    BY <2>10, <2>12, ConstantsAssumption DEF Overdue
<1>2. IInv /\ [Next]_vars => [faults' = 0 /\ life' = "up" /\ Hearing /\ ~Hearing' => Overdue]_vars
  BY <1>1
<1> QED
  BY <1>2, Invariance, PTL DEF Spec, NeverDeafByItself

(* heartbeat.ts: no heartbeat is counted twice, and none is reported as unknown before the limit of SentNonces. *)
THEOREM BeatsAreToldApart == Spec => []HeartbeatsAreToldApart
<1>1. ASSUME NoncesOK PROVE HeartbeatsAreToldApart
  <2>1. /\ DOMAIN sent = 1 .. Len(sent) /\ DOMAIN matched = 1 .. Len(matched) /\ DOMAIN counted = 1 .. Len(counted)
        /\ Len(sent) \in Nat /\ Len(matched) \in Nat /\ Len(counted) \in Nat
    BY <1>1, LenProperties DEF NoncesOK
  <2>2. Len(counted) \in Nat /\ Len(matched) \in Nat
    BY <2>1
  <2>3. \A i, j \in DOMAIN counted : counted[i] = counted[j] => i = j
    BY <1>1, <2>1 DEF NoncesOK, EachHasItsPlace
  <2>4. ASSUME NEW n \in 1 .. beats, Unknown(n), NEW i \in 1 .. Len(counted), counted[i] = n
        PROVE  Len(counted) - i >= NonceLimit
    <3>1. /\ Len(matched) = NonceLimit \/ Len(matched) = Len(counted)
          /\ Len(matched) <= Len(counted)
          /\ \A k \in 1 .. Len(matched) : matched[k] = counted[Len(counted) - Len(matched) + k]
      BY <1>1 DEF NoncesOK, MatchedIsRecent
    <3>2. \A k \in 1 .. Len(matched) : matched[k] # n
      BY <2>1, <2>4 DEF Unknown, Holds
    <3>3. ~(i > Len(counted) - Len(matched))
      <4> SUFFICES ASSUME i > Len(counted) - Len(matched) PROVE FALSE
        OBVIOUS
      <4>1. i - (Len(counted) - Len(matched)) \in 1 .. Len(matched)
        BY <2>2
      <4>2. Len(counted) - Len(matched) + (i - (Len(counted) - Len(matched))) = i
        BY <2>2
      <4> QED
        BY <2>4, <3>1, <3>2, <4>1, <4>2
    <3> QED
      BY <2>2, <3>1, <3>3, ConstantsAssumption
  <2>5. ASSUME NEW n \in 1 .. beats, Unknown(n), ~Holds(counted, n)
        PROVE  beats - n >= NonceLimit
    BY <1>1, <2>1, <2>5 DEF NoncesOK, EachHasItsPlace, Unknown, Holds
  <2> QED
    BY <2>1, <2>3, <2>4, <2>5 DEF HeartbeatsAreToldApart, Holds
<1>2. IInv => HeartbeatsAreToldApart
  BY <1>1 DEF IInv, BeatsOK
<1> QED
  BY <1>2, Invariance, PTL

=============================================================================
