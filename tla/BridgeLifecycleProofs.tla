------------------------ MODULE BridgeLifecycleProofs ------------------------
(***************************************************************************)
(* The bridge for any capacities, delays and numbers of retries and        *)
(* failures.  First the event loop alone (EventLoopSpec): its types, its   *)
(* statistics, the order of publication, and that it implements            *)
(* EventDelivery.  Then the lifecycle around it (Spec), which keeps the    *)
(* loop's invariant by the same lemmas: its types, the backoff's bound     *)
(* among them, what the flush of a shutdown covers, that the backoff only  *)
(* grows while nothing connects, and the order of the events of all        *)
(* connections together.                                                   *)
(***************************************************************************)
EXTENDS BridgeLifecycle, FiniteSetTheorems, TLAPS

-----------------------------------------------------------------------------
(* The event loop. *)

InHand == IF current = 0 THEN 0 ELSE 1

(* Each event is in one place at most: what is resolved, in hand and in the channel together *)
(* is no more than what arrived.  It bounds the statistics, which are not bounded by a guard. *)
Conserved == forwarded + failed + Len(channel) + InHand <= arrived

RetryLeft == loop = "backoff" => attempt < Retries
StoppedEmpty == loop = "stopped" => channel = <<>>

TypeInv ==
    /\ EventLoopTypeOK
    /\ Conserved
    /\ RetryLeft
    /\ StoppedEmpty

(* The channel and the client's log under their operations. *)
LEMMA ChannelAppend ==
    ASSUME NEW q \in Seq(Events), NEW e \in Events
    PROVE  /\ Append(q, e) \in Seq(Events)
           /\ Len(Append(q, e)) = Len(q) + 1
           /\ \A k \in 1 .. Len(q) : Append(q, e)[k] = q[k]
           /\ Append(q, e)[Len(q) + 1] = e
PROOF BY SMT

(* A channel that is not empty, when its first event is received. *)
LEMMA ChannelTail ==
    ASSUME NEW q \in Seq(Events), q # <<>>
    PROVE  /\ Tail(q) \in Seq(Events)
           /\ Len(Tail(q)) = Len(q) - 1
           /\ Len(q) \in Nat \ {0}
           /\ \A k \in 1 .. Len(Tail(q)) : Tail(q)[k] = q[k + 1]
           /\ Head(q) = q[1]
           /\ Head(q) \in Events
PROOF BY SMT

(* An empty channel holds nothing. *)
LEMMA ChannelEmpty ==
    /\ <<>> \in Seq(Events)
    /\ Len(<<>>) = 0
    /\ Elements(<<>>) = {}
PROOF BY SMT DEF Elements

(* What is in a channel are events. *)
LEMMA ElementsAre ==
    ASSUME NEW q \in Seq(Events)
    PROVE  /\ Elements(q) \subseteq Events
           /\ Elements(q) = {q[k] : k \in 1 .. Len(q)}
PROOF BY SMT DEF Elements

(* A new loop with nothing in its channel and nothing counted. *)
LEMMA TypeInit == EventLoopInit => TypeInv
PROOF
  <1> SUFFICES ASSUME EventLoopInit PROVE TypeInv
    OBVIOUS
  <1>1. EventLoopTypeOK
    <2>1. channel = <<>> /\ accepted = <<>>
      BY DEF EventLoopInit, NothingYet
    <2>2. current = 0 /\ loop = "select"
      BY DEF EventLoopInit, NothingYet
    <2>3. arrived = 0 /\ attempt = 0 /\ forwarded = 0 /\ failed = 0 /\ buffered = 0
      BY DEF EventLoopInit, NothingYet
    <2>4. /\ {senderGone, cancelled, natsUp} \subseteq BOOLEAN
          /\ overflow = {} /\ gaveUp = {} /\ discarded = {}
      BY DEF EventLoopInit, NothingYet
    <2> QED BY <2>1, <2>2, <2>3, <2>4, ChannelEmpty, EventLoopAssumption DEF EventLoopTypeOK
  <1>2. Conserved /\ RetryLeft /\ StoppedEmpty
    BY ChannelEmpty DEF EventLoopInit, NothingYet, Conserved, InHand, RetryLeft, StoppedEmpty
  <1> QED BY <1>1, <1>2 DEF TypeInv

(* Every step of the loop, of the reader and of the NATS client keeps types and bounds. *)
LEMMA TypeStep == TypeInv /\ [EventLoopNext]_eventLoopVars => TypeInv'
PROOF
  <1> SUFFICES ASSUME TypeInv, [EventLoopNext]_eventLoopVars PROVE TypeInv'
    OBVIOUS
  <1> USE EventLoopAssumption
      DEF TypeInv, EventLoopTypeOK, Conserved, InHand, RetryLeft, StoppedEmpty, sourceVars,
          loopVars, natsVars
  <1>1. CASE Arrive
    <2>1. arrived + 1 \in Events
      BY <1>1 DEF Arrive, Events
    <2>2. CASE loop # "stopped" /\ Len(channel) < ChanCap
      <3>1. channel' \in Seq(Events) /\ Len(channel') = Len(channel) + 1
        BY <1>1, <2>1, <2>2, ChannelAppend DEF Arrive
      <3>2. /\ arrived' = arrived + 1
            /\ UNCHANGED <<senderGone, overflow, loopVars, cancelled, natsVars>>
        BY <1>1, <2>2 DEF Arrive
      <3>3. arrived + 1 \in 0 .. MaxEvents
        BY <1>1 DEF Arrive
      <3> QED BY <2>2, <3>1, <3>2, <3>3
    <2>3. CASE ~(loop # "stopped" /\ Len(channel) < ChanCap)
      <3>1. overflow \cup {arrived + 1} \subseteq Events
        BY <2>1
      <3>2. /\ arrived' = arrived + 1
            /\ overflow' = overflow \cup {arrived + 1}
            /\ UNCHANGED <<channel, senderGone, loopVars, cancelled, natsVars>>
        BY <1>1, <2>3 DEF Arrive
      <3>3. arrived + 1 \in 0 .. MaxEvents
        BY <1>1 DEF Arrive
      <3> QED BY <3>1, <3>2, <3>3
    <2> QED BY <2>2, <2>3
  <1>2. CASE SenderGone \/ Cancel \/ NatsDown \/ NatsReconnect
    BY <1>2 DEF SenderGone, Cancel, NatsDown, NatsReconnect
  <1>3. CASE Receive
    <2>1. Head(channel) # 0
      BY <1>3, ChannelTail DEF Receive, Events
    <2> QED BY <1>3, <2>1, ChannelTail DEF Receive
  <1>4. CASE Stop
    BY <1>4, ChannelEmpty, ElementsAre DEF Stop
  <1>5. ASSUME NEW transient \in BOOLEAN, PublishError(transient) PROVE TypeInv'
    <2>1. CASE attempt < Retries /\ (attempt > 0 \/ transient)
      BY <1>5, <2>1 DEF PublishError
    <2>2. CASE ~(attempt < Retries /\ (attempt > 0 \/ transient))
      <3>1. current \in Events /\ gaveUp \cup {current} \subseteq Events
        BY <1>5 DEF PublishError
      <3>2. failed + 1 \in 0 .. MaxEvents
        BY <1>5, <3>1 DEF PublishError, Events
      <3> QED BY <1>5, <2>2, <3>1, <3>2 DEF PublishError
    <2> QED BY <2>1, <2>2
  <1>6. CASE PublishOk
    BY <1>6, ChannelAppend DEF PublishOk, Events
  <1>7. CASE BackoffElapsed
    BY <1>7 DEF BackoffElapsed
  <1>8. CASE Drain
    BY <1>8 DEF Drain
  <1>9. CASE UNCHANGED eventLoopVars
    BY <1>9 DEF eventLoopVars
  <1> QED
    BY <1>1, <1>2, <1>3, <1>4, <1>5, <1>6, <1>7, <1>8, <1>9 DEF EventLoopNext, LoopStep, NatsStep

(* Every variable keeps its type; the channel, the client's buffer and the retries keep their *)
(* bounds.                                                                                    *)
THEOREM EventLoopTypeCorrect == EventLoopSpec => []EventLoopTypeOK
PROOF
  <1>1. TypeInv => EventLoopTypeOK
    BY DEF TypeInv
  <1> QED BY <1>1, TypeInit, TypeStep, PTL DEF EventLoopSpec

-----------------------------------------------------------------------------
(* The refinement of EventDelivery. *)

Pending == IF current = 0 THEN channel ELSE <<current>> \o channel
Gone == overflow \cup gaveUp \cup discarded

(* Appending to the channel is appending behind the event in hand. *)
LEMMA AppendBehind ==
    ASSUME NEW c \in Events, NEW q \in Seq(Events), NEW e \in Events
    PROVE  Append(<<c>> \o q, e) = <<c>> \o Append(q, e)
PROOF BY SMT

(* Receiving an event only moves the head of the queue into the hand. *)
LEMMA ReceiveIsStutter ==
    ASSUME NEW q \in Seq(Events), q # <<>>
    PROVE  <<Head(q)>> \o Tail(q) = q
PROOF BY SMT

(* The event in hand is the head of the queue. *)
LEMMA HandIsHead ==
    ASSUME NEW c \in Events, NEW q \in Seq(Events)
    PROVE  /\ Head(<<c>> \o q) = c
           /\ Tail(<<c>> \o q) = q
           /\ <<c>> \o q # <<>>
PROOF BY SMT

(* Nothing has arrived at first, in either specification. *)
LEMMA RefinementInit == EventLoopInit => Delivery!Init
PROOF BY DEF EventLoopInit, NothingYet, Delivery!Init

(* Every step of the event loop is a step of EventDelivery or changes nothing it sees. *)
LEMMA RefinementStep ==
    TypeInv /\ [EventLoopNext]_eventLoopVars => [Delivery!Next]_Delivery!vars
PROOF
  <1> SUFFICES ASSUME TypeInv, [EventLoopNext]_eventLoopVars
               PROVE  [Delivery!Next]_Delivery!vars
    OBVIOUS
  <1> USE DEF TypeInv, EventLoopTypeOK, sourceVars, loopVars, natsVars
  <1>1. CASE Arrive
    <2>1. arrived + 1 \in Events
      BY <1>1, EventLoopAssumption DEF Arrive, Events
    <2>2. CASE loop # "stopped" /\ Len(channel) < ChanCap
      <3>1. /\ arrived' = arrived + 1
            /\ channel' = Append(channel, arrived + 1)
            /\ UNCHANGED <<current, accepted, Gone>>
        BY <1>1, <2>2 DEF Arrive, Gone
      <3>2. Pending' = Append(Pending, arrived + 1)
        BY <2>1, <3>1, AppendBehind DEF Pending
      <3> QED BY <3>1, <3>2 DEF Delivery!Next, Delivery!Arrive, Pending, Gone
    <2>3. CASE ~(loop # "stopped" /\ Len(channel) < ChanCap)
      <3>1. /\ arrived' = arrived + 1
            /\ Gone' = Gone \cup {arrived + 1}
            /\ UNCHANGED <<channel, current, accepted>>
        BY <1>1, <2>3 DEF Arrive, Gone
      <3> QED BY <3>1 DEF Delivery!Next, Delivery!Arrive, Gone
    <2> QED BY <2>2, <2>3
  <1>2. CASE Receive
    <2>1. current = 0 /\ Head(channel) # 0 /\ Pending' = channel
      BY <1>2, ChannelTail, ReceiveIsStutter DEF Receive, Events, Pending
    <2>2. UNCHANGED <<arrived, accepted, Gone>>
      BY <1>2 DEF Receive, Gone
    <2> QED BY <2>1, <2>2 DEF Delivery!vars, Pending, Gone
  <1>3. CASE Stop
    <2>1. /\ current = 0 /\ current' = 0
          /\ channel' = <<>>
          /\ UNCHANGED <<arrived, accepted>>
          /\ Gone' = Gone \cup Elements(channel)
      BY <1>3 DEF Stop, Gone
    <2> QED BY <2>1 DEF Delivery!Next, Delivery!Discard, Gone, Elements
  <1>4. ASSUME NEW transient \in BOOLEAN, PublishError(transient)
        PROVE  [Delivery!Next]_Delivery!vars
    <2>1. CASE attempt < Retries /\ (attempt > 0 \/ transient)
      BY <1>4, <2>1 DEF PublishError, Delivery!vars
    <2>2. CASE ~(attempt < Retries /\ (attempt > 0 \/ transient))
      <3>1. /\ current \in Events /\ current # 0 /\ current' = 0
            /\ UNCHANGED <<arrived, channel, accepted>>
            /\ Gone' = Gone \cup {current}
        BY <1>4, <2>2 DEF PublishError, Events, Gone
      <3>2. Pending # <<>> /\ Head(Pending) = current /\ Pending' = Tail(Pending)
        BY <3>1, HandIsHead DEF Pending
      <3> QED BY <3>1, <3>2 DEF Delivery!Next, Delivery!GiveUp, Pending, Gone
    <2> QED BY <2>1, <2>2
  <1>5. CASE PublishOk
    <2>1. /\ current \in Events /\ current # 0 /\ current' = 0
          /\ UNCHANGED <<arrived, channel, Gone>>
          /\ accepted' = Append(accepted, current)
      BY <1>5 DEF PublishOk, Events, Gone
    <2>2. Pending # <<>> /\ Head(Pending) = current /\ Pending' = Tail(Pending)
      BY <2>1, HandIsHead DEF Pending
    <2> QED BY <2>1, <2>2 DEF Delivery!Next, Delivery!Publish, Pending, Gone
  <1>6. CASE SenderGone \/ Cancel \/ BackoffElapsed \/ NatsStep
    BY <1>6 DEF SenderGone, Cancel, BackoffElapsed, NatsStep, Drain, NatsDown, NatsReconnect,
                Delivery!vars
  <1>7. CASE UNCHANGED eventLoopVars
    BY <1>7 DEF eventLoopVars, Delivery!vars
  <1> QED
    BY <1>1, <1>2, <1>3, <1>4, <1>5, <1>6, <1>7 DEF EventLoopNext, LoopStep

(* The event loop implements EventDelivery: events leave in order and once, whatever the      *)
(* retries, and what was given up or cut off never shows up later.                            *)
THEOREM ImplementsDeliveryCorrect == EventLoopSpec => ImplementsDelivery
PROOF
  <1> QED
    BY RefinementInit, RefinementStep, TypeInit, TypeStep, PTL
       DEF EventLoopSpec, ImplementsDelivery, Delivery!Spec

-----------------------------------------------------------------------------
(* Nothing is thrown away while the token is not cancelled. *)

(* Without a cancellation nothing that entered the channel is thrown away: the loop resolves  *)
(* what it had queued before it stops.                                                        *)
THEOREM NoDiscardCorrect == EventLoopSpec => []NoDiscardWithoutCancel
PROOF
  <1>1. EventLoopInit => NoDiscardWithoutCancel
    BY DEF EventLoopInit, NothingYet, NoDiscardWithoutCancel
  <1>2. NoDiscardWithoutCancel /\ [EventLoopNext]_eventLoopVars => NoDiscardWithoutCancel'
    <2> SUFFICES ASSUME NoDiscardWithoutCancel, [EventLoopNext]_eventLoopVars
                 PROVE  NoDiscardWithoutCancel'
      OBVIOUS
    <2> USE DEF NoDiscardWithoutCancel, sourceVars, loopVars, natsVars
    <2>1. CASE Stop
      BY <2>1, ChannelEmpty DEF Stop
    <2>2. CASE Arrive \/ SenderGone \/ Cancel \/ NatsStep
      BY <2>2 DEF Arrive, SenderGone, Cancel, NatsStep, Drain, NatsDown, NatsReconnect
    <2>3. CASE Receive \/ PublishOk \/ BackoffElapsed
      BY <2>3 DEF Receive, PublishOk, BackoffElapsed
    <2>4. ASSUME NEW transient \in BOOLEAN, PublishError(transient)
          PROVE  NoDiscardWithoutCancel'
      BY <2>4 DEF PublishError
    <2>5. CASE UNCHANGED eventLoopVars
      BY <2>5 DEF eventLoopVars
    <2> QED BY <2>1, <2>2, <2>3, <2>4, <2>5 DEF EventLoopNext, LoopStep
  <1> QED BY <1>1, <1>2, PTL DEF EventLoopSpec

-----------------------------------------------------------------------------
(* The statistics and the fates of the events.  That no event is resolved twice rests on the  *)
(* order of arrival: a resolved event is older than the one in hand and all in the channel.   *)

QueuedInOrder ==
    /\ \A j, k \in 1 .. Len(channel) : j < k => channel[j] < channel[k]
    /\ \A k \in 1 .. Len(channel) : channel[k] <= arrived

HandFirst ==
    current # 0 =>
        /\ current <= arrived
        /\ \A k \in 1 .. Len(channel) : current < channel[k]

OlderThanPending(e) ==
    /\ e <= arrived
    /\ current # 0 => e < current
    /\ \A k \in 1 .. Len(channel) : e < channel[k]

OrderInv ==
    /\ QueuedInOrder
    /\ HandFirst
    /\ \A n \in 1 .. Len(accepted) : OlderThanPending(accepted[n])
    /\ \A e \in gaveUp : OlderThanPending(e)

CountInv ==
    /\ forwarded = Len(accepted)
    /\ IsFiniteSet(gaveUp)
    /\ failed = Cardinality(gaveUp)
    /\ \A n \in 1 .. Len(accepted) : accepted[n] \notin gaveUp

(* The order holds of a new loop. *)
LEMMA FatesInit == EventLoopInit => OrderInv /\ CountInv
PROOF
  <1> SUFFICES ASSUME EventLoopInit PROVE OrderInv /\ CountInv
    OBVIOUS
  <1>1. /\ channel = <<>> /\ Len(channel) = 0 /\ accepted = <<>> /\ Len(accepted) = 0
        /\ current = 0 /\ gaveUp = {} /\ forwarded = 0 /\ failed = 0
    BY ChannelEmpty DEF EventLoopInit, NothingYet
  <1>2. IsFiniteSet(gaveUp) /\ Cardinality(gaveUp) = 0
    BY <1>1, FS_EmptySet
  <1>3. OrderInv
    BY <1>1 DEF OrderInv, QueuedInOrder, HandFirst
  <1> QED BY <1>1, <1>2, <1>3 DEF CountInv

(* A later event comes behind every pending one; a received event is older than what remains; *)
(* a resolved one is older than what is pending.                                              *)
LEMMA OrderStep == TypeInv /\ OrderInv /\ [EventLoopNext]_eventLoopVars => OrderInv'
PROOF
  <1> SUFFICES ASSUME TypeInv, OrderInv, [EventLoopNext]_eventLoopVars PROVE OrderInv'
    OBVIOUS
  <1>t. /\ arrived \in Nat /\ channel \in Seq(Events) /\ Len(channel) \in Nat
        /\ accepted \in Seq(Events) /\ Len(accepted) \in Nat
        /\ gaveUp \subseteq Nat /\ current \in Nat
        /\ \A k \in 1 .. Len(channel) : channel[k] \in Nat
        /\ \A n \in 1 .. Len(accepted) : accepted[n] \in Nat
    BY EventLoopAssumption DEF TypeInv, EventLoopTypeOK, Events
  <1> USE DEF OrderInv, QueuedInOrder, HandFirst, OlderThanPending, sourceVars, loopVars, natsVars
  <1>1. CASE Arrive
    <2>1. arrived' = arrived + 1 /\ UNCHANGED <<current, accepted, gaveUp>>
      BY <1>1 DEF Arrive
    <2>2. CASE loop # "stopped" /\ Len(channel) < ChanCap
      <3>1. arrived + 1 \in Events
        BY <1>1, <1>t, EventLoopAssumption DEF Arrive, Events
      <3>2. channel' = Append(channel, arrived + 1)
        BY <1>1, <2>2 DEF Arrive
      <3>3. /\ Len(channel') = Len(channel) + 1
            /\ \A k \in 1 .. Len(channel) : channel'[k] = channel[k]
            /\ channel'[Len(channel) + 1] = arrived + 1
        BY <1>t, <3>1, <3>2, ChannelAppend
      <3>4. \A k \in 1 .. Len(channel') : k \in 1 .. Len(channel) \/ k = Len(channel) + 1
        BY <1>t, <3>3
      <3>5. QueuedInOrder'
        <4>1. ASSUME NEW j \in 1 .. Len(channel'), NEW k \in 1 .. Len(channel'), j < k
              PROVE  channel'[j] < channel'[k]
          <5>1. j \in 1 .. Len(channel) /\ channel'[j] = channel[j]
            BY <1>t, <3>3, <4>1
          <5>2. CASE k \in 1 .. Len(channel)
            BY <1>t, <3>3, <4>1, <5>1, <5>2
          <5>3. CASE k = Len(channel) + 1
            BY <1>t, <3>3, <5>1, <5>3
          <5> QED BY <3>4, <5>2, <5>3
        <4>2. \A k \in 1 .. Len(channel') : channel'[k] <= arrived'
          BY <1>t, <2>1, <3>3, <3>4
        <4> QED BY <4>1, <4>2
      <3>6. HandFirst'
        BY <1>t, <2>1, <3>3, <3>4
      <3>7. \A e \in Nat : OlderThanPending(e) => OlderThanPending(e)'
        BY <1>t, <2>1, <3>3, <3>4
      <3> QED BY <1>t, <2>1, <3>5, <3>6, <3>7
    <2>3. CASE ~(loop # "stopped" /\ Len(channel) < ChanCap)
      <3>1. channel' = channel
        BY <1>1, <2>3 DEF Arrive
      <3> QED BY <1>t, <2>1, <3>1
    <2> QED BY <2>2, <2>3
  <1>2. CASE Receive
    <2>1. /\ channel # <<>> /\ current' = Head(channel) /\ channel' = Tail(channel)
          /\ UNCHANGED <<arrived, accepted, gaveUp>>
      BY <1>2 DEF Receive
    <2>2. /\ Len(channel') = Len(channel) - 1 /\ Len(channel) \in Nat \ {0}
          /\ \A k \in 1 .. Len(channel') : channel'[k] = channel[k + 1]
          /\ current' = channel[1]
      BY <1>t, <2>1, ChannelTail
    <2>3. \A k \in 1 .. Len(channel') : k + 1 \in 1 .. Len(channel)
      BY <2>2
    <2>4. 1 \in 1 .. Len(channel)
      BY <2>2
    <2>5. QueuedInOrder'
      BY <1>t, <2>1, <2>2, <2>3
    <2>6. HandFirst'
      BY <1>t, <2>1, <2>2, <2>3, <2>4
    <2>7. \A e \in Nat : OlderThanPending(e) => OlderThanPending(e)'
      BY <1>t, <2>1, <2>2, <2>3, <2>4
    <2> QED BY <1>t, <2>1, <2>5, <2>6, <2>7
  <1>3. CASE Stop
    <2>1. channel' = <<>> /\ Len(channel') = 0 /\ UNCHANGED <<arrived, current, accepted, gaveUp>>
      BY <1>3, ChannelEmpty DEF Stop
    <2> QED BY <1>t, <2>1
  <1>4. ASSUME NEW transient \in BOOLEAN, PublishError(transient) PROVE OrderInv'
    <2>1. CASE attempt < Retries /\ (attempt > 0 \/ transient)
      <3>1. UNCHANGED <<arrived, channel, current, accepted, gaveUp>>
        BY <1>4, <2>1 DEF PublishError
      <3> QED BY <3>1
    <2>2. CASE ~(attempt < Retries /\ (attempt > 0 \/ transient))
      <3>1. /\ current # 0
            /\ current' = 0
            /\ gaveUp' = gaveUp \cup {current}
            /\ UNCHANGED <<arrived, channel, accepted>>
        BY <1>4, <2>2 DEF PublishError, TypeInv, EventLoopTypeOK
      <3>2. \A e \in gaveUp : e \in Nat /\ OlderThanPending(e)'
        BY <1>t, <3>1
      <3>3. QueuedInOrder' /\ HandFirst'
        BY <3>1
      <3> QED BY <1>t, <3>1, <3>2, <3>3
    <2> QED BY <2>1, <2>2
  <1>5. CASE PublishOk
    <2>1. /\ current \in Events /\ current # 0
          /\ current' = 0
          /\ accepted' = Append(accepted, current)
          /\ UNCHANGED <<arrived, channel, gaveUp>>
      BY <1>5 DEF PublishOk, TypeInv, EventLoopTypeOK
    <2>2. /\ Len(accepted') = Len(accepted) + 1
          /\ \A n \in 1 .. Len(accepted) : accepted'[n] = accepted[n]
          /\ accepted'[Len(accepted) + 1] = current
      BY <1>t, <2>1, ChannelAppend
    <2>3. \A e \in Nat : OlderThanPending(e) => OlderThanPending(e)'
      BY <1>t, <2>1
    <2>4. ASSUME NEW n \in 1 .. Len(accepted') PROVE OlderThanPending(accepted[n])'
      <3>1. CASE n \in 1 .. Len(accepted)
        <4>1. accepted'[n] = accepted[n] /\ accepted[n] \in Nat /\ OlderThanPending(accepted[n])
          BY <1>t, <2>2, <3>1
        <4> QED BY <2>1, <4>1
      <3>2. CASE n = Len(accepted) + 1
        <4>1. accepted'[n] = current
          BY <2>2, <3>2
        <4>2. accepted[n]' = current
          BY <4>1
        <4>3. /\ current <= arrived'
              /\ current' = 0
              /\ \A k \in 1 .. Len(channel') : current < channel'[k]
          BY <1>t, <2>1
        <4> QED BY <4>2, <4>3
      <3> QED BY <1>t, <2>2, <3>1, <3>2
    <2>5. QueuedInOrder' /\ HandFirst'
      BY <2>1
    <2>6. ASSUME NEW e \in gaveUp' PROVE OlderThanPending(e)'
      BY <1>t, <2>1, <2>3
    <2> QED BY <2>4, <2>5, <2>6
  <1>6. CASE SenderGone \/ Cancel \/ BackoffElapsed \/ NatsStep
    <2>1. UNCHANGED <<arrived, channel, current, accepted, gaveUp>>
      BY <1>6 DEF SenderGone, Cancel, BackoffElapsed, NatsStep, Drain, NatsDown, NatsReconnect
    <2> QED BY <2>1
  <1>7. CASE UNCHANGED eventLoopVars
    BY <1>7 DEF eventLoopVars
  <1> QED BY <1>1, <1>2, <1>3, <1>4, <1>5, <1>6, <1>7 DEF EventLoopNext, LoopStep

(* The event in hand has not been resolved before, so resolving it counts a new one. *)
LEMMA CountStep ==
    TypeInv /\ OrderInv /\ CountInv /\ [EventLoopNext]_eventLoopVars => CountInv'
PROOF
  <1> SUFFICES ASSUME TypeInv, OrderInv, CountInv, [EventLoopNext]_eventLoopVars
               PROVE  CountInv'
    OBVIOUS
  <1> USE DEF CountInv, sourceVars, loopVars, natsVars
  <1>t. accepted \in Seq(Events) /\ Len(accepted) \in Nat
    BY DEF TypeInv, EventLoopTypeOK
  <1>h. ASSUME current # 0
        PROVE  /\ current \notin gaveUp
               /\ \A n \in 1 .. Len(accepted) : accepted[n] # current
    <2>1. current \in Nat
      BY EventLoopAssumption DEF TypeInv, EventLoopTypeOK, Events
    <2>2. ~(current < current)
      BY <2>1
    <2> QED BY <1>h, <2>2 DEF OrderInv, OlderThanPending
  <1>1. ASSUME NEW transient \in BOOLEAN, PublishError(transient) PROVE CountInv'
    <2>1. CASE attempt < Retries /\ (attempt > 0 \/ transient)
      BY <1>1, <2>1 DEF PublishError
    <2>2. CASE ~(attempt < Retries /\ (attempt > 0 \/ transient))
      <3>1. /\ current # 0
            /\ gaveUp' = gaveUp \cup {current}
            /\ failed' = failed + 1
            /\ UNCHANGED <<forwarded, accepted>>
        BY <1>1, <2>2 DEF PublishError, TypeInv, EventLoopTypeOK
      <3>2. IsFiniteSet(gaveUp') /\ Cardinality(gaveUp') = Cardinality(gaveUp) + 1
        BY <3>1, <1>h, FS_AddElement
      <3> QED BY <3>1, <3>2, <1>h
    <2> QED BY <2>1, <2>2
  <1>2. CASE PublishOk
    <2>1. /\ current \in Events /\ current # 0
          /\ accepted' = Append(accepted, current)
          /\ forwarded' = forwarded + 1
          /\ UNCHANGED <<failed, gaveUp>>
      BY <1>2 DEF PublishOk, TypeInv, EventLoopTypeOK
    <2>2. /\ Len(accepted') = Len(accepted) + 1
          /\ \A n \in 1 .. Len(accepted) : accepted'[n] = accepted[n]
          /\ accepted'[Len(accepted) + 1] = current
      BY <1>t, <2>1, ChannelAppend
    <2>3. \A n \in 1 .. Len(accepted') : n \in 1 .. Len(accepted) \/ n = Len(accepted) + 1
      BY <1>t, <2>2
    <2>4. \A n \in 1 .. Len(accepted') : accepted'[n] \notin gaveUp'
      BY <2>1, <2>2, <2>3, <1>h
    <2> QED BY <2>1, <2>2, <2>4
  <1>3. CASE Arrive \/ SenderGone \/ Cancel \/ NatsStep
    BY <1>3 DEF Arrive, SenderGone, Cancel, NatsStep, Drain, NatsDown, NatsReconnect
  <1>4. CASE Receive \/ Stop \/ BackoffElapsed
    BY <1>4 DEF Receive, Stop, BackoffElapsed
  <1>5. CASE UNCHANGED eventLoopVars
    BY <1>5 DEF eventLoopVars
  <1> QED BY <1>1, <1>2, <1>3, <1>4, <1>5 DEF EventLoopNext, LoopStep

(* The logged statistics are the fates of the events: what NATS took counts as forwarded,     *)
(* what was given up as failed, and no event as both.                                         *)
THEOREM StatsMatchFatesCorrect == EventLoopSpec => []StatsMatchFates
PROOF
  <1>1. TypeInv /\ CountInv => StatsMatchFates
    <2> SUFFICES ASSUME TypeInv, CountInv PROVE StatsMatchFates
      OBVIOUS
    <2>1. Elements(accepted) = {accepted[n] : n \in 1 .. Len(accepted)}
      BY ElementsAre DEF TypeInv, EventLoopTypeOK
    <2> QED BY <2>1 DEF CountInv, StatsMatchFates
  <1> QED BY <1>1, TypeInit, TypeStep, FatesInit, OrderStep, CountStep, PTL DEF EventLoopSpec

(* What is published next is younger than everything published before. *)
LEMMA PublishedStep ==
    TypeInv /\ OrderInv /\ Delivery!InOrderOnce /\ [EventLoopNext]_eventLoopVars
        => Delivery!InOrderOnce'
PROOF
  <1> SUFFICES ASSUME TypeInv, OrderInv, Delivery!InOrderOnce, [EventLoopNext]_eventLoopVars
               PROVE  Delivery!InOrderOnce'
    OBVIOUS
  <1> USE DEF Delivery!InOrderOnce, sourceVars, loopVars, natsVars
  <1>t. /\ accepted \in Seq(Events) /\ Len(accepted) \in Nat
        /\ DOMAIN accepted = 1 .. Len(accepted)
    BY DEF TypeInv, EventLoopTypeOK
  <1>1. CASE PublishOk
    <2>1. current \in Events /\ current # 0 /\ accepted' = Append(accepted, current)
      BY <1>1 DEF PublishOk, TypeInv, EventLoopTypeOK
    <2>2. /\ accepted' \in Seq(Events)
          /\ Len(accepted') = Len(accepted) + 1
          /\ \A n \in 1 .. Len(accepted) : accepted'[n] = accepted[n]
          /\ accepted'[Len(accepted) + 1] = current
      BY <1>t, <2>1, ChannelAppend
    <2>3. DOMAIN accepted' = 1 .. Len(accepted) + 1
      BY <1>t, <2>2
    <2>4. \A n \in 1 .. Len(accepted) : accepted[n] < current
      BY <2>1 DEF OrderInv, OlderThanPending
    <2>5. ASSUME NEW j \in 1 .. Len(accepted) + 1, NEW k \in 1 .. Len(accepted) + 1, j < k
          PROVE  accepted'[j] < accepted'[k]
      <3>1. j \in 1 .. Len(accepted) /\ accepted'[j] = accepted[j]
        BY <1>t, <2>2, <2>5
      <3>2. CASE k \in 1 .. Len(accepted)
        BY <1>t, <2>2, <2>5, <3>1, <3>2
      <3>3. CASE k = Len(accepted) + 1
        BY <2>2, <2>4, <3>1, <3>3
      <3> QED BY <1>t, <3>2, <3>3
    <2> QED BY <2>3, <2>5
  <1>2. CASE Arrive \/ SenderGone \/ Cancel \/ NatsStep
    BY <1>2 DEF Arrive, SenderGone, Cancel, NatsStep, Drain, NatsDown, NatsReconnect
  <1>3. CASE Receive \/ Stop \/ BackoffElapsed
    BY <1>3 DEF Receive, Stop, BackoffElapsed
  <1>4. ASSUME NEW transient \in BOOLEAN, PublishError(transient)
        PROVE  Delivery!InOrderOnce'
    BY <1>4 DEF PublishError
  <1>5. CASE UNCHANGED eventLoopVars
    BY <1>5 DEF eventLoopVars
  <1> QED BY <1>1, <1>2, <1>3, <1>4, <1>5 DEF EventLoopNext, LoopStep

(* Events reach NATS in the order in which they arrived, none twice, whatever the retries. *)
THEOREM PublishedInOrderCorrect == EventLoopSpec => []Delivery!InOrderOnce
PROOF
  <1>1. EventLoopInit => Delivery!InOrderOnce
    BY DEF EventLoopInit, NothingYet, Delivery!InOrderOnce
  <1> QED BY <1>1, TypeInit, TypeStep, FatesInit, OrderStep, PublishedStep, PTL DEF EventLoopSpec

-----------------------------------------------------------------------------
(* The lifecycle. *)

(* Across connections the counters are reset but the log of the NATS client is not, so its *)
(* length needs a bound of its own.                                                         *)
LogBound == Len(accepted) + Len(channel) + InHand <= arrived

(* Between connections no loop runs, so a new one starts with nothing in its hand. *)
Unconnected ==
    stage \in {"auth", "nats", "backoff", "resolving", "connecting"} => loop = "stopped"

(* From the flush to the end nothing but sending happens to what NATS had taken. *)
FlushHolds ==
    flushed => /\ stage \in {"joinWatchdog", "joinMint", "exited"}
               /\ Len(accepted) - buffered >= takenAtStop

LifecycleInv ==
    /\ TypeOK
    /\ TypeInv
    /\ LogBound
    /\ Unconnected
    /\ FlushHolds

(* The backoff is a delay of at most MAX_BACKOFF_MS after any number of failures. *)
LEMMA BackoffBounded ==
    ASSUME NEW n \in 0 .. U32Max
    PROVE  CalculateBackoff(n) \in 0 .. MaxBackoff
PROOF
  <1>1. {MaxBackoff, BaseDelay, U64Max} \subseteq Nat
    BY LifecycleAssumption
  <1>2. 2 ^ n \in Nat
    BY PowerAssumption
  <1>3. Saturated(2 ^ n) \in Nat
    BY <1>1, <1>2 DEF Saturated
  <1>4. BaseDelay * Saturated(2 ^ n) \in Nat
    BY <1>1, <1>3
  <1>5. Saturated(BaseDelay * Saturated(2 ^ n)) \in Nat
    BY <1>1, <1>4 DEF Saturated
  <1> QED BY <1>1, <1>5 DEF CalculateBackoff

(* The failure counter saturates. *)
LEMMA FailureCounted ==
    ASSUME failures \in 0 .. U32Max
    PROVE  /\ OneMoreFailure \in 0 .. U32Max
           /\ CalculateBackoff(OneMoreFailure) \in 0 .. MaxBackoff
           /\ CalculateBackoff(failures) \in 0 .. MaxBackoff
PROOF
  <1>1. U32Max \in Nat
    BY LifecycleAssumption
  <1>2. OneMoreFailure \in 0 .. U32Max
    BY <1>1 DEF OneMoreFailure
  <1> QED BY <1>2, BackoffBounded

(* Nothing has happened before authentication. *)
LEMMA LifecycleInit == Init => LifecycleInv
PROOF
  <1> SUFFICES ASSUME Init PROVE LifecycleInv
    OBVIOUS
  <1>1. EventLoopTypeOK
    <2>1. channel = <<>> /\ accepted = <<>>
      BY DEF Init, NothingYet
    <2>2. current = 0 /\ loop = "stopped"
      BY DEF Init, NothingYet
    <2>3. arrived = 0 /\ attempt = 0 /\ forwarded = 0 /\ failed = 0 /\ buffered = 0
      BY DEF Init, NothingYet
    <2>4. /\ {senderGone, cancelled, natsUp} \subseteq BOOLEAN
          /\ overflow = {} /\ gaveUp = {} /\ discarded = {}
      BY DEF Init, NothingYet
    <2> QED BY <2>1, <2>2, <2>3, <2>4, ChannelEmpty, EventLoopAssumption DEF EventLoopTypeOK
  <1>2. TypeOK
    <2>1. /\ failures = 0 /\ delay = 0 /\ pings = 0 /\ takenAtStop = 0
          /\ {handlers, signalled, heard, flushed} \subseteq BOOLEAN
          /\ stage = "auth" /\ exit = "none" /\ watchdog = "off" /\ mint = "off"
      BY DEF Init
    <2>2. 0 \in 0 .. U32Max /\ 0 \in 0 .. MaxBackoff /\ 0 \in 0 .. MaxPings /\ 0 \in 0 .. MaxEvents
      BY LifecycleAssumption, EventLoopAssumption
    <2> QED BY <1>1, <2>1, <2>2 DEF TypeOK, Stages
  <1>3. TypeInv /\ LogBound
    BY <1>1, ChannelEmpty
    DEF Init, NothingYet, TypeInv, Conserved, InHand, RetryLeft, StoppedEmpty, LogBound
  <1>4. Unconnected /\ FlushHolds
    BY DEF Init, Unconnected, FlushHolds
  <1> QED BY <1>2, <1>3, <1>4 DEF LifecycleInv

(* What the event loop, its reader and the NATS client do while the process lives. *)
LEMMA EventStepKeeps ==
    ASSUME LifecycleInv, stage # "exited", EventStep
    PROVE  LifecycleInv'
PROOF
  <1> USE DEF LifecycleInv
  <1>1. TypeInv'
    BY TypeStep DEF EventStep, EventLoopNext
  <1>2. TypeOK'
    BY <1>1 DEF TypeInv, TypeOK, EventStep, runVars, backoffVars, signalVars, taskVars, stopVars
  <1>3. /\ LogBound'
        /\ \/ accepted' = accepted /\ buffered' \in {buffered, buffered - 1}
           \/ Len(accepted') = Len(accepted) + 1 /\ buffered' = buffered + 1
    <2>0. {arrived, Len(channel), Len(accepted)} \subseteq Nat
      BY EventLoopAssumption DEF TypeInv, EventLoopTypeOK
    <2>1. CASE Arrive
      <3>1. arrived + 1 \in Events
        BY <2>1, EventLoopAssumption DEF Arrive, Events, TypeInv, EventLoopTypeOK
      <3>2. Len(channel') <= Len(channel) + 1 /\ Len(channel') \in Nat
        BY <2>1, <3>1, ChannelAppend DEF Arrive, TypeInv, EventLoopTypeOK
      <3>3. arrived' = arrived + 1 /\ UNCHANGED <<current, accepted, buffered>>
        BY <2>1 DEF Arrive, loopVars, natsVars
      <3> QED BY <2>0, <3>2, <3>3 DEF LogBound, InHand
    <2>2. CASE SenderGone \/ BackoffElapsed \/ NatsDown \/ NatsReconnect \/ Drain
      <3>1. UNCHANGED <<arrived, channel, current, accepted>>
        BY <2>2
        DEF SenderGone, BackoffElapsed, NatsDown, NatsReconnect, Drain, sourceVars, loopVars,
            natsVars
      <3>2. buffered' = buffered \/ buffered' = buffered - 1
        BY <2>2 DEF SenderGone, BackoffElapsed, NatsDown, NatsReconnect, Drain, natsVars
      <3> QED BY <3>1, <3>2 DEF LogBound, InHand
    <2>3. CASE Receive
      <3>1. Head(channel) # 0 /\ current = 0 /\ Len(channel') = Len(channel) - 1
        BY <2>3, ChannelTail DEF Receive, Events, TypeInv, EventLoopTypeOK
      <3>2. current' = Head(channel) /\ UNCHANGED <<arrived, accepted, buffered>>
        BY <2>3 DEF Receive, sourceVars, natsVars
      <3> QED BY <2>0, <3>1, <3>2 DEF LogBound, InHand
    <2>4. CASE Stop
      <3>1. channel' = <<>> /\ UNCHANGED <<arrived, current, accepted, buffered>>
        BY <2>4 DEF Stop, sourceVars, natsVars
      <3> QED BY <2>0, <3>1, ChannelEmpty DEF LogBound, InHand
    <2>5. ASSUME NEW transient \in BOOLEAN, PublishError(transient)
          PROVE  LogBound' /\ accepted' = accepted /\ buffered' = buffered
      <3>1. UNCHANGED <<arrived, channel, accepted, buffered>> /\ (current' = current \/ current' = 0)
        BY <2>5 DEF PublishError, sourceVars, natsVars
      <3> QED BY <2>0, <3>1 DEF LogBound, InHand
    <2>6. CASE PublishOk
      <3>1. /\ current \in Events /\ current # 0 /\ current' = 0
            /\ accepted' = Append(accepted, current) /\ buffered' = buffered + 1
            /\ UNCHANGED <<arrived, channel>>
        BY <2>6 DEF PublishOk, Events, TypeInv, EventLoopTypeOK, sourceVars
      <3>2. Len(accepted') = Len(accepted) + 1
        BY <3>1, ChannelAppend DEF TypeInv, EventLoopTypeOK
      <3> QED BY <2>0, <3>1, <3>2 DEF LogBound, InHand
    <2> QED BY <2>1, <2>2, <2>3, <2>4, <2>5, <2>6 DEF EventStep, LoopStep, NatsStep
  <1>4. Unconnected'
    BY
    DEF Unconnected, EventStep, Arrive, SenderGone, LoopStep, Receive, Stop, PublishError,
        PublishOk,
           BackoffElapsed, NatsStep, Drain, NatsDown, NatsReconnect, sourceVars, loopVars, natsVars, runVars
  <1>5. FlushHolds'
    <2>1. UNCHANGED <<stage, flushed, takenAtStop>>
      BY DEF EventStep, runVars, stopVars
    <2>2. Len(accepted) \in Nat /\ buffered \in Nat
      BY EventLoopAssumption DEF TypeInv, EventLoopTypeOK
    <2>3. takenAtStop \in Nat
      BY EventLoopAssumption DEF TypeOK
    <2> QED BY <1>3, <2>1, <2>2, <2>3 DEF FlushHolds
  <1> QED BY <1>1, <1>2, <1>3, <1>4, <1>5

(* LifecycleInv is inductive. *)
LEMMA LifecycleStep == LifecycleInv /\ [Next]_vars => LifecycleInv'
PROOF
  <1> SUFFICES ASSUME LifecycleInv, [Next]_vars PROVE LifecycleInv'
    OBVIOUS
  <1> USE DEF LifecycleInv
  <1> DEFINE Rest == LogBound' /\ TypeInv'
  <1>0. UNCHANGED eventLoopVars => Rest /\ EventLoopTypeOK'
    BY DEF eventLoopVars, sourceVars, loopVars, natsVars, LogBound, TypeInv, EventLoopTypeOK,
           Conserved, InHand, RetryLeft, StoppedEmpty
  <1> USE DEF TypeOK, Stages, Unconnected, FlushHolds, backoffVars, signalVars, taskVars, stopVars, Exit
  <1> HIDE DEF Rest
  <1>1. CASE Authenticate
    <2>1. Rest /\ EventLoopTypeOK' /\ UNCHANGED <<loop, senderGone, accepted, buffered>>
      BY <1>0, <1>1 DEF Authenticate, eventLoopVars, sourceVars, loopVars, natsVars
    <2> QED BY <1>1, <2>1 DEF Authenticate, Rest
  <1>2. CASE ConnectNats
    <2>1. Rest /\ EventLoopTypeOK' /\ UNCHANGED <<loop, senderGone, accepted, buffered>>
      BY <1>0, <1>2 DEF ConnectNats, eventLoopVars, sourceVars, loopVars, natsVars
    <2> QED BY <1>2, <2>1 DEF ConnectNats, Rest
  <1>3. CASE SleepElapsed
    <2>1. Rest /\ EventLoopTypeOK' /\ UNCHANGED <<loop, senderGone, accepted, buffered>>
      BY <1>0, <1>3 DEF SleepElapsed, eventLoopVars, sourceVars, loopVars, natsVars
    <2> QED BY <1>3, <2>1 DEF SleepElapsed, Rest
  <1>4. CASE ResolveWorkspace
    <2>1. Rest /\ EventLoopTypeOK' /\ UNCHANGED <<loop, senderGone, accepted, buffered>>
      BY <1>0, <1>4 DEF ResolveWorkspace, eventLoopVars, sourceVars, loopVars, natsVars
    <2> QED BY <1>4, <2>1, FailureCounted DEF ResolveWorkspace, Rest, BackOff
  <1>5. CASE ConnectFailed
    <2>1. Rest /\ EventLoopTypeOK' /\ UNCHANGED <<loop, senderGone, accepted, buffered>>
      BY <1>0, <1>5 DEF ConnectFailed, eventLoopVars, sourceVars, loopVars, natsVars
    <2> QED BY <1>5, <2>1, FailureCounted DEF ConnectFailed, Rest, BackOff
  <1>6. CASE EventLoopFinished
    <2>1. Rest /\ EventLoopTypeOK' /\ UNCHANGED <<loop, senderGone, accepted, buffered>>
      BY <1>0, <1>6 DEF EventLoopFinished, eventLoopVars, sourceVars, loopVars, natsVars
    <2> QED BY <1>6, <2>1, FailureCounted DEF EventLoopFinished, Rest, BackOff
  <1>7. CASE Flush
    <2>1. Rest /\ EventLoopTypeOK' /\ UNCHANGED <<loop, senderGone, accepted, buffered>>
      BY <1>0, <1>7 DEF Flush, eventLoopVars, sourceVars, loopVars, natsVars
    <2> QED BY <1>7, <2>1 DEF Flush, Rest
  <1>8. CASE FlushFailed
    <2>1. Rest /\ EventLoopTypeOK' /\ UNCHANGED <<loop, senderGone, accepted, buffered>>
      BY <1>0, <1>8 DEF FlushFailed, eventLoopVars, sourceVars, loopVars, natsVars
    <2> QED BY <1>8, <2>1 DEF FlushFailed, Rest
  <1>9. CASE JoinWatchdog
    <2>1. Rest /\ EventLoopTypeOK' /\ UNCHANGED <<loop, senderGone, accepted, buffered>>
      BY <1>0, <1>9 DEF JoinWatchdog, eventLoopVars, sourceVars, loopVars, natsVars
    <2> QED BY <1>9, <2>1 DEF JoinWatchdog, Rest
  <1>10. CASE JoinMint
    <2>1. Rest /\ EventLoopTypeOK' /\ UNCHANGED <<loop, senderGone, accepted, buffered>>
      BY <1>0, <1>10 DEF JoinMint, eventLoopVars, sourceVars, loopVars, natsVars
    <2> QED BY <1>10, <2>1 DEF JoinMint, Rest
  <1>11. CASE Signal
    <2>1. Rest /\ EventLoopTypeOK' /\ UNCHANGED <<loop, senderGone, accepted, buffered>>
      BY <1>0, <1>11 DEF Signal, eventLoopVars, sourceVars, loopVars, natsVars
    <2> QED BY <1>11, <2>1 DEF Signal, Rest
  <1>12. CASE stage # "exited" /\ WatchdogTick
    <2>1. Rest /\ EventLoopTypeOK' /\ UNCHANGED <<loop, senderGone, accepted, buffered>>
      BY <1>0, <1>12 DEF WatchdogTick, eventLoopVars, sourceVars, loopVars, natsVars
    <2> QED BY <1>12, <2>1, LifecycleAssumption DEF WatchdogTick, Rest
  <1>13. CASE stage # "exited" /\ MintStep
    <2>1. Rest /\ EventLoopTypeOK' /\ UNCHANGED <<loop, senderGone, accepted, buffered>>
      BY <1>0, <1>13 DEF MintStep, eventLoopVars, sourceVars, loopVars, natsVars
    <2> QED BY <1>13, <2>1 DEF MintStep, Rest
  <1>14. CASE Connected
    <2>1. loop = "stopped" /\ channel = <<>> /\ current = 0
      BY <1>14 DEF Connected, TypeInv, EventLoopTypeOK, StoppedEmpty
    <2>2. /\ senderGone' = FALSE /\ channel' = <<>> /\ loop' = "select" /\ forwarded' = 0 /\ failed' = 0
          /\ UNCHANGED <<arrived, overflow, current, attempt, gaveUp, discarded, cancelled, accepted, buffered, natsUp>>
      BY <1>14 DEF Connected, natsVars
    <2>3. EventLoopTypeOK'
      <3>1. /\ channel' \in Seq(Events) /\ Len(channel') <= ChanCap /\ accepted' \in Seq(Events)
            /\ forwarded' \in 0 .. MaxEvents /\ failed' \in 0 .. MaxEvents
        BY <2>2, ChannelEmpty, EventLoopAssumption DEF TypeInv, EventLoopTypeOK
      <3>2. current' = 0 /\ loop' = "select"
        BY <2>1, <2>2
      <3> QED BY <2>2, <3>1, <3>2 DEF TypeInv, EventLoopTypeOK
    <2>4. TypeInv'
      BY <2>1, <2>2, <2>3, ChannelEmpty, EventLoopAssumption
      DEF TypeInv, EventLoopTypeOK, Conserved, InHand, RetryLeft, StoppedEmpty
    <2>5. LogBound'
      BY <2>1, <2>2 DEF LogBound, InHand
    <2>6. failures' \in 0 .. U32Max /\ UNCHANGED <<delay, exit, signalled, pings, watchdog, mint, takenAtStop, flushed>>
      BY <1>14, LifecycleAssumption DEF Connected
    <2>7. stage' = "connected" /\ stage = "connecting" /\ {handlers', heard'} \subseteq BOOLEAN
      BY <1>14 DEF Connected
    <2> QED BY <2>3, <2>4, <2>5, <2>6, <2>7
  <1>15. CASE BeginShutdown
    <2>1. /\ senderGone' = TRUE /\ cancelled' = TRUE /\ takenAtStop' = Len(accepted)
          /\ UNCHANGED <<arrived, overflow, channel, loop, current, attempt, forwarded, failed, gaveUp,
                         discarded, accepted, buffered, natsUp>>
      BY <1>15 DEF BeginShutdown, loopVars, natsVars
    <2>2. TypeInv'
      BY <2>1 DEF TypeInv, EventLoopTypeOK, Conserved, InHand, RetryLeft, StoppedEmpty
    <2>3. LogBound'
      BY <2>1 DEF LogBound, InHand
    <2>4. Len(accepted) \in 0 .. MaxEvents
      BY EventLoopAssumption DEF TypeInv, EventLoopTypeOK, LogBound, InHand
    <2>5. EventLoopTypeOK'
      BY <2>2 DEF TypeInv
    <2> QED BY <1>15, <2>1, <2>2, <2>3, <2>4, <2>5 DEF BeginShutdown
  <1>16. CASE stage # "exited" /\ EventStep
    BY <1>16, EventStepKeeps
  <1>17. CASE UNCHANGED vars
    <2>1. Rest /\ EventLoopTypeOK' /\ UNCHANGED <<loop, senderGone, accepted, buffered>>
      BY <1>0, <1>17 DEF vars, eventLoopVars, sourceVars, loopVars, natsVars
    <2> QED BY <1>17, <2>1 DEF vars, runVars, Rest
  <1> QED
    BY <1>1, <1>2, <1>3, <1>4, <1>5, <1>6, <1>7, <1>8, <1>9, <1>10, <1>11, <1>12, <1>13, <1>14,
       <1>15, <1>16, <1>17
    DEF Next, RunStep

(* Type correctness of the whole bridge: every backoff is at most MAX_BACKOFF_MS however many *)
(* failures came in a row, and the failure counter saturates.                                 *)
THEOREM TypeCorrect == Spec => []TypeOK
PROOF
  <1>1. LifecycleInv => TypeOK
    BY DEF LifecycleInv
  <1> QED BY <1>1, LifecycleInit, LifecycleStep, PTL DEF Spec

(* When run() ends after a successful flush, everything NATS had taken when the shutdown *)
(* began has been sent.                                                                  *)
THEOREM FlushCorrect == Spec => []FlushCoversForwarded
PROOF
  <1>1. LifecycleInv => FlushCoversForwarded
    BY DEF LifecycleInv, FlushHolds, FlushCoversForwarded
  <1> QED BY <1>1, LifecycleInit, LifecycleStep, PTL DEF Spec

-----------------------------------------------------------------------------
(* The backoff. *)

(* One more failure never makes the backoff shorter: neither saturation nor the cap does. *)
LEMMA BackoffGrows ==
    ASSUME NEW n \in 0 .. U32Max, n + 1 \in 0 .. U32Max
    PROVE  CalculateBackoff(n) <= CalculateBackoff(n + 1)
PROOF
  <1>1. {MaxBackoff, BaseDelay, U64Max} \subseteq Nat
    BY LifecycleAssumption
  <1>2. /\ 2 ^ n \in Nat /\ 2 ^ (n + 1) \in Nat /\ 2 ^ n <= 2 ^ (n + 1)
    BY PowerAssumption
  <1>3. PICK s \in Nat, t \in Nat : s = Saturated(2 ^ n) /\ t = Saturated(2 ^ (n + 1))
    BY <1>1, <1>2 DEF Saturated
  <1>4. s <= t
    BY <1>1, <1>2, <1>3 DEF Saturated
  <1>5. PICK d \in Nat : t = s + d
    <2>1. t - s \in Nat /\ t = s + (t - s)
      BY <1>4
    <2> QED BY <2>1
  <1>6. BaseDelay * s \in Nat /\ BaseDelay * d \in Nat
    BY <1>1
  <1>7. BaseDelay * t = BaseDelay * s + BaseDelay * d
    BY <1>1, <1>5
  <1>8. PICK a \in Nat, b \in Nat : a = BaseDelay * s /\ b = BaseDelay * t /\ a <= b
    BY <1>6, <1>7
  <1>9. Saturated(a) \in Nat /\ Saturated(b) \in Nat /\ Saturated(a) <= Saturated(b)
    BY <1>1, <1>8 DEF Saturated
  <1>10. /\ CalculateBackoff(n) = IF Saturated(a) > MaxBackoff THEN MaxBackoff ELSE Saturated(a)
         /\ CalculateBackoff(n + 1) = IF Saturated(b) > MaxBackoff THEN MaxBackoff ELSE Saturated(b)
    BY <1>3, <1>8 DEF CalculateBackoff
  <1> QED BY <1>1, <1>9, <1>10

(* While no connection is up, the last backoff is at most that of the failures so far. *)
DelayBelow ==
    stage \in {"auth", "nats", "backoff", "resolving", "connecting"} =>
        delay <= CalculateBackoff(failures)

(* The backoff that a failure leads to is at least the last one. *)
LEMMA NextBackoff ==
    ASSUME TypeOK, delay <= CalculateBackoff(failures)
    PROVE  delay <= CalculateBackoff(OneMoreFailure)
PROOF
  <1>1. /\ failures \in 0 .. U32Max /\ U32Max \in Nat /\ MaxBackoff \in Nat
        /\ delay \in 0 .. MaxBackoff
    BY LifecycleAssumption DEF TypeOK
  <1>2. CASE failures < U32Max
    <2>1. failures + 1 \in 0 .. U32Max /\ OneMoreFailure = failures + 1
      BY <1>1, <1>2 DEF OneMoreFailure
    <2>2. CalculateBackoff(failures) <= CalculateBackoff(failures + 1)
      BY <1>1, <2>1, BackoffGrows
    <2>3. CalculateBackoff(failures) \in 0 .. MaxBackoff /\ CalculateBackoff(failures + 1) \in 0 .. MaxBackoff
      BY <1>1, <2>1, BackoffBounded
    <2> QED BY <1>1, <2>1, <2>2, <2>3
  <1>3. CASE ~(failures < U32Max)
    BY <1>1, <1>3 DEF OneMoreFailure
  <1> QED BY <1>2, <1>3

(* A step either leaves the backoff alone, or makes it longer, or starts afresh after a connection. *)
LEMMA BackoffStep ==
    LifecycleInv /\ DelayBelow /\ [Next]_vars =>
        DelayBelow' /\ [delay' < delay => stage = "connected"]_vars
PROOF
  <1> SUFFICES ASSUME LifecycleInv, DelayBelow, [Next]_vars
               PROVE  DelayBelow' /\ (delay' < delay => stage = "connected")
    OBVIOUS
  <1>1. /\ delay \in Nat /\ failures \in 0 .. U32Max /\ MaxBackoff \in Nat
        /\ CalculateBackoff(failures) \in 0 .. MaxBackoff
        /\ CalculateBackoff(OneMoreFailure) \in 0 .. MaxBackoff
    BY LifecycleAssumption, FailureCounted DEF LifecycleInv, TypeOK
  <1>2. ASSUME stage \in {"resolving", "connecting"}, BackOff(OneMoreFailure)
        PROVE  DelayBelow' /\ ~(delay' < delay)
    <2>1. delay <= CalculateBackoff(OneMoreFailure)
      BY <1>2, NextBackoff DEF DelayBelow, LifecycleInv
    <2>2. delay' = CalculateBackoff(OneMoreFailure) /\ failures' = OneMoreFailure
      BY <1>2 DEF BackOff
    <2>3. CalculateBackoff(failures)' = CalculateBackoff(OneMoreFailure)
      BY <2>2 DEF CalculateBackoff
    <2>4. (delay <= CalculateBackoff(failures))'
      BY <1>1, <2>2, <2>3
    <2> QED BY <1>1, <2>1, <2>2, <2>4 DEF DelayBelow
  <1>3. CASE EventLoopFinished
    <2>1. stage = "connected" /\ delay' = CalculateBackoff(failures) /\ failures' = failures
      BY <1>3 DEF EventLoopFinished, BackOff
    <2>2. CalculateBackoff(failures)' = CalculateBackoff(failures)
      BY <2>1 DEF CalculateBackoff
    <2>3. (delay <= CalculateBackoff(failures))'
      BY <1>1, <2>1, <2>2
    <2> QED BY <2>1, <2>3 DEF DelayBelow
  <1>4. ASSUME UNCHANGED <<failures, delay>>,
               stage' \in {"auth", "nats", "backoff", "resolving", "connecting"} =>
                   stage \in {"auth", "nats", "backoff", "resolving", "connecting"}
        PROVE  DelayBelow' /\ ~(delay' < delay)
    <2>1. CalculateBackoff(failures)' = CalculateBackoff(failures)
      BY <1>4 DEF CalculateBackoff
    <2> QED BY <1>1, <1>4, <2>1 DEF DelayBelow
  <1>5. CASE ResolveWorkspace
    <2>1. CASE BackOff(OneMoreFailure)
      BY <1>2, <1>5, <2>1 DEF ResolveWorkspace
    <2>2. CASE stage' = "connecting" /\ UNCHANGED backoffVars
      BY <1>4, <1>5, <2>2 DEF ResolveWorkspace, backoffVars
    <2> QED BY <1>5, <2>1, <2>2 DEF ResolveWorkspace
  <1>6. CASE ConnectFailed
    BY <1>2, <1>6 DEF ConnectFailed
  <1>7. CASE Connected
    <2>1. stage' = "connected" /\ delay' = delay
      BY <1>7 DEF Connected
    <2> QED BY <1>1, <2>1 DEF DelayBelow
  <1>8. CASE Authenticate \/ ConnectNats \/ SleepElapsed
    BY <1>4, <1>8 DEF Authenticate, ConnectNats, SleepElapsed, backoffVars
  <1>9. CASE BeginShutdown \/ Flush \/ FlushFailed \/ JoinWatchdog \/ JoinMint \/ Signal
    BY <1>4, <1>9 DEF BeginShutdown, Flush, FlushFailed, JoinWatchdog, JoinMint, Signal, Exit, backoffVars
  <1>10. CASE WatchdogTick \/ MintStep \/ EventStep
    BY <1>4, <1>10 DEF WatchdogTick, MintStep, EventStep, runVars, backoffVars
  <1>11. CASE UNCHANGED vars
    BY <1>4, <1>11 DEF vars, runVars, backoffVars
  <1> QED BY <1>3, <1>5, <1>6, <1>7, <1>8, <1>9, <1>10, <1>11 DEF Next, RunStep

(* calculate_backoff, for any delays and any width of its integers: a series of failures never *)
(* retries faster than a shorter one.                                                          *)
THEOREM BackoffNeverShrinksCorrect == Spec => BackoffNeverShrinks
PROOF
  <1>1. Init => DelayBelow
    <2>1. ASSUME Init PROVE DelayBelow
      <3>1. delay = 0 /\ failures = 0 /\ 0 \in 0 .. U32Max /\ MaxBackoff \in Nat
        BY <2>1, LifecycleAssumption DEF Init
      <3>2. CalculateBackoff(0) \in 0 .. MaxBackoff
        BY <3>1, BackoffBounded
      <3>3. CalculateBackoff(failures) = CalculateBackoff(0)
        BY <3>1
      <3> QED BY <3>1, <3>2, <3>3 DEF DelayBelow
    <2> QED BY <2>1
  <1> QED BY <1>1, BackoffStep, LifecycleInit, LifecycleStep, PTL DEF Spec, BackoffNeverShrinks

-----------------------------------------------------------------------------
(* The events of all connections together. *)

(* A step of the lifecycle other than the loop's takes no event and loses none: a new connection *)
(* starts with an empty channel, as the loop of the last one has ended.                          *)
LEMMA LifecycleLeavesEvents ==
    ASSUME LifecycleInv, [Next]_vars, ~(stage # "exited" /\ EventStep)
    PROVE  UNCHANGED <<arrived, overflow, channel, current, gaveUp, discarded, accepted>>
PROOF
  <1>1. CASE Connected
    <2>1. channel = <<>>
      BY <1>1 DEF Connected, LifecycleInv, Unconnected, TypeInv, StoppedEmpty
    <2> QED BY <1>1, <2>1 DEF Connected, natsVars
  <1>2. CASE BeginShutdown
    BY <1>2 DEF BeginShutdown, loopVars, natsVars
  <1>3. CASE UNCHANGED eventLoopVars
    BY <1>3 DEF eventLoopVars, sourceVars, loopVars, natsVars
  <1>4. \/ Connected \/ BeginShutdown \/ UNCHANGED eventLoopVars
    BY DEF Next, RunStep, Authenticate, ConnectNats, SleepElapsed, ResolveWorkspace, ConnectFailed,
           EventLoopFinished, Flush, FlushFailed, JoinWatchdog, JoinMint, Signal, WatchdogTick,
           MintStep, vars
  <1> QED BY <1>1, <1>2, <1>3, <1>4

(* Every step of the bridge is a step of EventDelivery or changes nothing it sees. *)
LEMMA LifecycleDelivers ==
    LifecycleInv /\ [Next]_vars => [Delivery!Next]_Delivery!vars
PROOF
  <1> SUFFICES ASSUME LifecycleInv, [Next]_vars PROVE [Delivery!Next]_Delivery!vars
    OBVIOUS
  <1>1. CASE stage # "exited" /\ EventStep
    <2>1. TypeInv /\ EventLoopNext
      BY <1>1 DEF LifecycleInv, EventStep, EventLoopNext
    <2> QED BY <2>1, RefinementStep
  <1>2. CASE ~(stage # "exited" /\ EventStep)
    BY <1>2, LifecycleLeavesEvents DEF Delivery!vars
  <1> QED BY <1>1, <1>2

(* The bridge as a whole implements EventDelivery: across reconnects, signals and shutdown,   *)
(* events leave in the order of their arrival, each once, and one that was given up or thrown *)
(* away with its connection never shows up later.                                             *)
THEOREM LifecycleImplementsDelivery == Spec => ImplementsDelivery
PROOF
  <1>1. Init => Delivery!Init
    BY DEF Init, NothingYet, Delivery!Init
  <1> QED
    BY <1>1, LifecycleDelivers, LifecycleInit, LifecycleStep, PTL
       DEF Spec, ImplementsDelivery, Delivery!Spec

(* What every step keeps of the order of events, across connections. *)
LEMMA LifecycleOrderStep ==
    LifecycleInv /\ OrderInv /\ Delivery!InOrderOnce /\ [Next]_vars
        => OrderInv' /\ Delivery!InOrderOnce'
PROOF
  <1> SUFFICES ASSUME LifecycleInv, OrderInv, Delivery!InOrderOnce, [Next]_vars
               PROVE  OrderInv' /\ Delivery!InOrderOnce'
    OBVIOUS
  <1>1. CASE stage # "exited" /\ EventStep
    <2>1. TypeInv /\ EventLoopNext
      BY <1>1 DEF LifecycleInv, EventStep, EventLoopNext
    <2> QED BY <2>1, OrderStep, PublishedStep
  <1>2. CASE ~(stage # "exited" /\ EventStep)
    <2>1. UNCHANGED <<arrived, channel, current, gaveUp, accepted>>
      BY <1>2, LifecycleLeavesEvents
    <2> QED
      BY <2>1 DEF OrderInv, QueuedInOrder, HandFirst, OlderThanPending, Delivery!InOrderOnce
  <1> QED BY <1>1, <1>2

(* NATS is given the events of all connections of a bridge in the order in which they arrived, *)
(* none twice: what a lost connection left behind is never published after a later event.      *)
THEOREM LifecyclePublishedInOrder == Spec => []Delivery!InOrderOnce
PROOF
  <1>1. Init => OrderInv /\ Delivery!InOrderOnce
    <2>1. ASSUME Init PROVE OrderInv /\ Delivery!InOrderOnce
      <3>1. /\ channel = <<>> /\ Len(channel) = 0 /\ accepted = <<>> /\ Len(accepted) = 0
            /\ current = 0 /\ gaveUp = {}
        BY <2>1, ChannelEmpty DEF Init, NothingYet
      <3> QED
        BY <3>1 DEF OrderInv, QueuedInOrder, HandFirst, Delivery!InOrderOnce
    <2> QED BY <2>1
  <1> QED BY <1>1, LifecycleOrderStep, LifecycleInit, LifecycleStep, PTL DEF Spec

-----------------------------------------------------------------------------
(* What a shutdown cuts off. *)

(* The token is cancelled by a shutdown only, and no connection follows one. *)
ShutdownIsFinal ==
    cancelled => stage \in {"flushing", "joinWatchdog", "joinMint", "exited"}

(* Only a loop that has stopped for good throws events away. *)
CutByStop ==
    discarded # {} => cancelled /\ loop = "stopped"

CutInv == ShutdownIsFinal /\ CutByStop /\ CutOffIsLast

(* A loop that stops throws its channel away, and all in it is younger than what was published. *)
LEMMA StopCutsTail ==
    ASSUME TypeInv, OrderInv, CutByStop, Stop
    PROVE  CutByStop' /\ CutOffIsLast'
PROOF
  <1>1. /\ loop = "select" /\ loop' = "stopped"
        /\ (senderGone /\ channel = <<>>) \/ cancelled
        /\ discarded' = discarded \cup Elements(channel)
        /\ UNCHANGED <<accepted, cancelled>>
    BY DEF Stop, natsVars
  <1>2. discarded' = Elements(channel)
    BY <1>1 DEF CutByStop
  <1>3. CutByStop'
    BY <1>1, <1>2, ChannelEmpty DEF CutByStop
  <1>4. /\ channel \in Seq(Events) /\ accepted \in Seq(Events)
        /\ DOMAIN accepted = 1 .. Len(accepted)
    BY DEF TypeInv, EventLoopTypeOK
  <1>5. Elements(channel) = {channel[k] : k \in 1 .. Len(channel)}
    BY <1>4, ElementsAre
  <1>6. ASSUME NEW i \in discarded', NEW n \in DOMAIN accepted' PROVE accepted'[n] < i
    <2>1. PICK k \in 1 .. Len(channel) : i = channel[k]
      BY <1>2, <1>5, <1>6
    <2>2. n \in 1 .. Len(accepted) /\ accepted'[n] = accepted[n]
      BY <1>1, <1>4, <1>6
    <2> QED BY <2>1, <2>2 DEF OrderInv, OlderThanPending
  <1> QED BY <1>3, <1>6 DEF CutOffIsLast

(* Every step of the bridge keeps it. *)
LEMMA CutStep ==
    LifecycleInv /\ OrderInv /\ CutInv /\ [Next]_vars => CutInv'
PROOF
  <1> SUFFICES ASSUME LifecycleInv, OrderInv, CutInv, [Next]_vars PROVE CutInv'
    OBVIOUS
  <1> USE DEF CutInv
  <1>1. CASE stage # "exited" /\ EventStep
    <2>1. UNCHANGED <<stage, cancelled>>
      BY <1>1
      DEF EventStep, runVars, Arrive, SenderGone, LoopStep, Receive, Stop, PublishError, PublishOk,
          BackoffElapsed, NatsStep, Drain, NatsDown, NatsReconnect
    <2>2. ShutdownIsFinal'
      BY <2>1 DEF ShutdownIsFinal
    <2>3. CASE Stop
      BY <2>2, <2>3, StopCutsTail DEF LifecycleInv
    <2>4. CASE Arrive \/ SenderGone \/ NatsStep
      <3>1. UNCHANGED <<loop, discarded, accepted, cancelled>>
        BY <2>4
        DEF Arrive, SenderGone, NatsStep, Drain, NatsDown, NatsReconnect, loopVars, natsVars
      <3> QED BY <2>2, <3>1 DEF CutByStop, CutOffIsLast
    <2>5. CASE Receive \/ PublishOk \/ BackoffElapsed \/ \E transient \in BOOLEAN : PublishError(transient)
      <3>1. loop # "stopped" /\ discarded' = discarded
        BY <2>5 DEF Receive, PublishOk, BackoffElapsed, PublishError
      <3>2. discarded' = {}
        BY <3>1 DEF CutByStop
      <3> QED BY <2>2, <3>2 DEF CutByStop, CutOffIsLast
    <2> QED BY <1>1, <2>3, <2>4, <2>5 DEF EventStep, LoopStep
  <1>2. CASE Connected
    <2>1. ~cancelled /\ cancelled' = cancelled /\ discarded' = discarded
      BY <1>2 DEF Connected, ShutdownIsFinal
    <2>2. discarded' = {}
      BY <2>1 DEF CutByStop
    <2> QED BY <2>1, <2>2 DEF ShutdownIsFinal, CutByStop, CutOffIsLast
  <1>3. CASE BeginShutdown
    <2>1. stage' = "flushing" /\ cancelled' /\ UNCHANGED <<loop, discarded, accepted>>
      BY <1>3 DEF BeginShutdown, loopVars, natsVars
    <2> QED BY <2>1 DEF ShutdownIsFinal, CutByStop, CutOffIsLast
  <1>4. ASSUME UNCHANGED eventLoopVars,
               stage \in {"flushing", "joinWatchdog", "joinMint", "exited"} =>
                   stage' \in {"flushing", "joinWatchdog", "joinMint", "exited"}
        PROVE  CutInv'
    <2>1. UNCHANGED <<loop, discarded, accepted, cancelled>>
      BY <1>4 DEF eventLoopVars, loopVars, natsVars
    <2> QED BY <1>4, <2>1 DEF ShutdownIsFinal, CutByStop, CutOffIsLast
  <1>5. CASE Authenticate \/ ConnectNats \/ SleepElapsed \/ ResolveWorkspace \/ ConnectFailed
    BY <1>4, <1>5 DEF Authenticate, ConnectNats, SleepElapsed, ResolveWorkspace, ConnectFailed
  <1>6. CASE EventLoopFinished \/ Flush \/ FlushFailed \/ JoinWatchdog \/ JoinMint \/ Signal
    BY <1>4, <1>6 DEF EventLoopFinished, Flush, FlushFailed, JoinWatchdog, JoinMint, Signal, Exit
  <1>7. CASE WatchdogTick \/ MintStep \/ UNCHANGED vars
    BY <1>4, <1>7 DEF WatchdogTick, MintStep, vars, runVars
  <1> QED BY <1>1, <1>2, <1>3, <1>5, <1>6, <1>7 DEF Next, RunStep

(* Whatever a shutdown throws away is later than everything published over all connections:   *)
(* the stream that NATS was given has no hole that a cancellation made.                       *)
THEOREM CutOffIsLastCorrect == Spec => []CutOffIsLast
PROOF
  <1>1. Init => OrderInv /\ CutInv /\ Delivery!InOrderOnce
    <2>1. ASSUME Init PROVE OrderInv /\ CutInv /\ Delivery!InOrderOnce
      <3>1. /\ channel = <<>> /\ Len(channel) = 0 /\ accepted = <<>> /\ Len(accepted) = 0
            /\ current = 0 /\ gaveUp = {} /\ discarded = {} /\ cancelled = FALSE
        BY <2>1, ChannelEmpty DEF Init, NothingYet
      <3>2. OrderInv /\ Delivery!InOrderOnce
        BY <3>1 DEF OrderInv, QueuedInOrder, HandFirst, Delivery!InOrderOnce
      <3>3. CutInv
        BY <3>1 DEF CutInv, ShutdownIsFinal, CutByStop, CutOffIsLast
      <3> QED BY <3>2, <3>3
    <2> QED BY <2>1
  <1>2. CutInv => CutOffIsLast
    BY DEF CutInv
  <1> QED
    BY <1>1, <1>2, CutStep, LifecycleOrderStep, LifecycleInit, LifecycleStep, PTL DEF Spec
=============================================================================
