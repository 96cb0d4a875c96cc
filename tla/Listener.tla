------------------------------ MODULE Listener ------------------------------
(***************************************************************************)
(* The inbox listener (src/listener.ts): subscriptions that drop silently, *)
(* close or fail to open, a watchdog for silence, a reconnect timer, and   *)
(* replaced subscriptions that are kept open for a while. And the          *)
(* heartbeats it sends itself (src/heartbeat.ts), as the intake matches    *)
(* them: numbered here, and like any frame heard late, repeatedly, by two  *)
(* subscriptions at once, or never.                                        *)
(*                                                                         *)
(* A subscription takes time to connect and may die without a word. Time   *)
(* is counted in ticks, as the time since something was heard and as what  *)
(* is left of the time a replaced subscription is kept.                    *)
(***************************************************************************)
EXTENDS Integers, FiniteSets, Sequences

CONSTANTS
  Subscription,  \* bound: the subscriptions that may be open at a time
  None,
  Idle,          \* timings.resubscribeIdleMs
  GraceCap,      \* the longest a replaced subscription is kept (10 s)
  Connect,       \* bound: how long a subscription takes to connect
  NonceLimit,    \* limit of SentNonces
  MaxFaults,     \* bound: how often the network fails, in any of its ways
  MaxHeartbeats  \* bound: the heartbeats sent

ASSUME ConstantsAssumption ==
  /\ IsFiniteSet(Subscription) /\ None \notin Subscription
  /\ Idle \in Nat \ {0} /\ GraceCap \in Nat \ {0} /\ Connect \in Nat \ {0}
  /\ NonceLimit \in Nat \ {0} /\ MaxFaults \in Nat /\ MaxHeartbeats \in Nat

VARIABLES
  life,        \* before start(), running, or stopped
  current,     \* the current subscription or None
  retiring,    \* those replaced by a newer one that are not cancelled yet
  graceLeft,   \* the ticks each of them is kept
  reconnect,   \* reconnectTimer is set
  subscribed,  \* state.subscribed
  heardAgo,    \* the ticks since the last frame or subscription, up to Idle
  socket,      \* the state of each subscription's connection
  connecting,  \* the ticks since a connecting one was made
  faults,      \* how often the network failed
  beats,       \* how many heartbeats were sent
  sent,        \* SentNonces.sent and matched, the oldest first
  matched,
  counted      \* the heartbeats counted as received, in that order

beat_vars == <<beats, sent, matched, counted>>
vars == <<life, current, retiring, graceLeft, reconnect, subscribed, heardAgo, socket, connecting, faults, beat_vars>>

\* graceMs of retire(): half the idle time, and no more than the cap. A connection may well take longer.
Grace == IF Idle \div 2 <= GraceCap THEN Idle \div 2 ELSE GraceCap

Open == {"connecting", "open", "dead"}

Init ==
  /\ life = "new" /\ current = None /\ retiring = {} /\ reconnect = FALSE /\ subscribed = FALSE
  /\ graceLeft = [s \in Subscription |-> 0] /\ connecting = [s \in Subscription |-> 0]
  /\ socket = [s \in Subscription |-> "unused"]
  /\ heardAgo = Idle /\ faults = 0
  /\ beats = 0 /\ sent = <<>> /\ matched = <<>> /\ counted = <<>>

-----------------------------------------------------------------------------
(* SentNonces *)

\* remember(): the oldest are forgotten past the limit.
Remember(nonces, n) ==
  LET with == Append(nonces, n) IN IF Len(with) > NonceLimit THEN Tail(with) ELSE with

Holds(nonces, n) == \E i \in DOMAIN nonces : nonces[i] = n

\* Set.delete(): the later ones keep their order.
Without(nonces, n) ==
  LET at == CHOOSE i \in DOMAIN nonces : nonces[i] = n
  IN  [i \in 1 .. Len(nonces) - 1 |-> IF i < at THEN nonces[i] ELSE nonces[i + 1]]

Receives_WithoutDelete(n) ==
  IF Holds(sent, n)
    THEN counted' = Append(counted, n) /\ matched' = Remember(matched, n) /\ UNCHANGED <<beats, sent>>
    ELSE UNCHANGED beat_vars

\* receiveHeartbeat(): one of ours is counted, a repeat or an unknown one is dropped.
Receives(n) ==
  IF Holds(sent, n)
    THEN /\ counted' = Append(counted, n)
         /\ sent' = Without(sent, n) /\ matched' = Remember(matched, n)
         /\ UNCHANGED beats
    ELSE UNCHANGED beat_vars

\* sendHeartbeat(): the nonce is kept before the send, which may fail.
Sends ==
  /\ beats < MaxHeartbeats
  /\ beats' = beats + 1 /\ sent' = Remember(sent, beats + 1)
  /\ UNCHANGED <<matched, counted>>

-----------------------------------------------------------------------------
(* subscribe() *)

\* scheduleReconnect(), while not stopped. A timer that is set stays.
SchedulesReconnect == reconnect' = TRUE

Retires_AtOnce(previous, s) ==
  /\ retiring' = retiring
  /\ socket' = [x \in Subscription |-> IF x = s THEN "connecting" ELSE IF x = previous THEN "unused" ELSE socket[x]]
  /\ graceLeft' = graceLeft

\* retire(): the replaced subscription stays open for the grace time.
Retires(previous, s) ==
  /\ retiring' = retiring \cup ({previous} \ {None})
  /\ socket' = [socket EXCEPT ![s] = "connecting"]
  /\ graceLeft' = [x \in Subscription |-> IF x = previous THEN Grace ELSE graceLeft[x]]

\* A new subscription replaces the current one. timer is what becomes of the reconnect timer.
Subscribes(timer) ==
  /\ \E s \in Subscription :
       /\ socket[s] = "unused"
       /\ current' = s
       /\ Retires(current, s)
       /\ connecting' = [connecting EXCEPT ![s] = 0]
  /\ subscribed' = TRUE /\ heardAgo' = 0
  /\ reconnect' = timer
  /\ UNCHANGED faults

\* The subscription could not be made. The current one, if any, stays.
SubscribeFails ==
  /\ faults < MaxFaults /\ faults' = faults + 1
  /\ SchedulesReconnect
  /\ UNCHANGED <<current, retiring, graceLeft, subscribed, heardAgo, socket, connecting>>

Start ==
  /\ life = "new"
  /\ life' = "up"
  /\ Subscribes(reconnect) \/ SubscribeFails
  /\ Sends

HeartbeatDue ==
  /\ life = "up" /\ Sends
  /\ UNCHANGED <<life, current, retiring, graceLeft, reconnect, subscribed, heardAgo, socket, connecting, faults>>

\* The reconnect timer fires: it is cleared, and subscribe() may set it again.
Reconnects ==
  /\ life = "up" /\ reconnect
  /\ Subscribes(FALSE) \/ SubscribeFails
  /\ UNCHANGED <<life, beat_vars>>

WatchdogFires_WhenClosed ==
  /\ life = "up" /\ current # None /\ ~subscribed
  /\ Subscribes(reconnect) \/ SubscribeFails
  /\ UNCHANGED <<life, beat_vars>>

\* checkIdle() has heard nothing for resubscribeIdleMs.
WatchdogFires ==
  /\ life = "up" /\ current # None /\ heardAgo >= Idle
  /\ Subscribes(reconnect) \/ SubscribeFails
  /\ UNCHANGED <<life, beat_vars>>

-----------------------------------------------------------------------------
(* What a subscription reports *)

Connected(s) ==
  /\ socket[s] = "connecting"
  /\ socket' = [socket EXCEPT ![s] = "open"]
  /\ UNCHANGED <<life, current, retiring, graceLeft, reconnect, subscribed, heardAgo, connecting, faults, beat_vars>>

\* A frame, from the current subscription or one that is being replaced: a chat's, or a heartbeat.
Hears(s) ==
  /\ socket[s] = "open" /\ s \in retiring \cup {current}
  /\ heardAgo' = 0
  /\ UNCHANGED beat_vars \/ \E n \in 1 .. beats : Receives(n)
  /\ UNCHANGED <<life, current, retiring, graceLeft, reconnect, subscribed, socket, connecting, faults>>

\* The connection is dropped without a close.
Dies(s) ==
  /\ socket[s] \in {"connecting", "open"}
  /\ faults < MaxFaults /\ faults' = faults + 1
  /\ socket' = [socket EXCEPT ![s] = "dead"]
  /\ UNCHANGED <<life, current, retiring, graceLeft, reconnect, subscribed, heardAgo, connecting, beat_vars>>

Closes_WithoutReconnect(s) ==
  /\ socket[s] \in Open
  /\ faults < MaxFaults /\ faults' = faults + 1
  /\ socket' = [socket EXCEPT ![s] = "closed"]
  /\ subscribed' = (subscribed /\ s # current)
  /\ UNCHANGED <<life, current, retiring, graceLeft, reconnect, heardAgo, connecting, beat_vars>>

\* onClose(). A subscription that is no longer current closes without consequence.
Closes(s) ==
  /\ socket[s] \in Open
  /\ faults < MaxFaults /\ faults' = faults + 1
  /\ socket' = [socket EXCEPT ![s] = "closed"]
  /\ IF s = current THEN subscribed' = FALSE /\ SchedulesReconnect ELSE UNCHANGED <<subscribed, reconnect>>
  /\ UNCHANGED <<life, current, retiring, graceLeft, heardAgo, connecting, beat_vars>>

-----------------------------------------------------------------------------
\* A replaced subscription is cancelled.
GraceEnds(s) ==
  /\ s \in retiring /\ graceLeft[s] = 0
  /\ retiring' = retiring \ {s}
  /\ socket' = [socket EXCEPT ![s] = "unused"]
  /\ UNCHANGED <<life, current, graceLeft, reconnect, subscribed, heardAgo, connecting, faults, beat_vars>>

Cancelled_WithoutRetiring == {current}

\* stop() cancels the current subscription and those being replaced.
Cancelled == retiring \cup {current}

Stop ==
  /\ life = "up"
  /\ life' = "stopped"
  /\ current' = None /\ retiring' = {} /\ reconnect' = FALSE /\ subscribed' = FALSE
  /\ socket' = [s \in Subscription |-> IF s \in Cancelled THEN "unused" ELSE socket[s]]
  /\ UNCHANGED <<graceLeft, heardAgo, connecting, faults, beat_vars>>

Tick ==
  /\ \A s \in Subscription : socket[s] = "connecting" => connecting[s] < Connect
  /\ connecting' = [s \in Subscription |-> IF socket[s] = "connecting" THEN connecting[s] + 1 ELSE 0]
  /\ graceLeft' = [s \in Subscription |-> IF graceLeft[s] > 0 THEN graceLeft[s] - 1 ELSE 0]
  /\ heardAgo' = IF heardAgo < Idle THEN heardAgo + 1 ELSE Idle
  /\ UNCHANGED <<life, current, retiring, reconnect, subscribed, socket, faults, beat_vars>>

Next ==
  \/ Start \/ HeartbeatDue \/ Reconnects \/ WatchdogFires \/ Stop
  \/ \E s \in Subscription : Connected(s) \/ Hears(s) \/ Dies(s) \/ Closes(s) \/ GraceEnds(s)
  \/ Tick

Spec == Init /\ [][Next]_vars

\* Time passes, timers fire and connections are made. The network fails no more than MaxFaults times.
FairSpec ==
  /\ Spec
  /\ WF_vars(Tick) /\ WF_vars(Reconnects) /\ WF_vars(WatchdogFires)
  /\ \A s \in Subscription : WF_vars(Connected(s)) /\ WF_vars(GraceEnds(s))

-----------------------------------------------------------------------------
(* Properties *)

\* Every variable holds a value of its type.
TypeOK ==
  /\ life \in {"new", "up", "stopped"} /\ reconnect \in BOOLEAN /\ subscribed \in BOOLEAN
  /\ current \in Subscription \cup {None} /\ retiring \subseteq Subscription
  /\ graceLeft \in [Subscription -> 0 .. Grace] /\ connecting \in [Subscription -> 0 .. Connect]
  /\ heardAgo \in 0 .. Idle /\ faults \in 0 .. MaxFaults
  /\ socket \in [Subscription -> Open \cup {"unused", "closed"}]
  /\ beats \in 0 .. MaxHeartbeats /\ {sent, matched, counted} \subseteq Seq(1 .. beats)

(* No subscription leaks: whatever closes, timeouts and failures cross, each open one is the current one or waits to
   be cancelled, so none is left once the listener is stopped. *)
NoneLeaks == TypeOK /\ {s \in Subscription : socket[s] \in Open} \subseteq retiring \cup {current}

(* The listener never rests without a subscription: when its current one has closed or could not be made, the
   reconnect timer is set, however watchdog and timer overlapped before. *)
ReconnectsWhenClosed ==
  life = "up" /\ (current = None \/ socket[current] = "closed") => reconnect

Hearing == \E s \in (retiring \cup {current}) \ {None} : socket[s] = "open"

\* A subscription is still not connected when the grace time since it was made is over.
Overdue ==
  \E s \in (retiring \cup {current}) \ {None} : socket[s] = "connecting" /\ connecting[s] >= Grace

(* listener.ts: "opening the new subscription before closing the old one", which is closed "once the new one has had time
   to connect". While the network does not fail, replacing a subscription makes the listener deaf in one case only: a
   newer one took longer to connect than retire() waits. However watchdog, timers and slow connections overlap, and
   however often a subscription is replaced before it is connected, one of those listened to is connected otherwise. *)
NeverDeafByItself ==
  [][faults' = 0 /\ life' = "up" /\ Hearing /\ ~Hearing' => Overdue]_vars

(* A dropped connection "never closes on its own", but the listener finds out: once the network is through failing, the
   current subscription is connected again and again. *)
HearsAgain == []<>(life # "up" \/ (current # None /\ socket[current] = "open"))

\* Neither known as sent nor as matched: it would be reported as unknown.
Unknown(n) == ~Holds(sent, n) /\ ~Holds(matched, n)

(* heartbeat.ts: a heartbeat "that came back before, as two overlapping subscriptions both deliver it", is a repeat: none
   is counted twice as received. And one is taken for someone else's only past the limit: if it is unknown, NonceLimit
   others were counted after it, or sent after it if it never was. *)
HeartbeatsAreToldApart ==
  /\ \A i, j \in DOMAIN counted : counted[i] = counted[j] => i = j
  /\ \A n \in 1 .. beats : Unknown(n) =>
       IF Holds(counted, n) THEN \E i \in DOMAIN counted : counted[i] = n /\ Len(counted) - i >= NonceLimit
       ELSE beats - n >= NonceLimit
=============================================================================
