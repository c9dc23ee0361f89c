------------------------------ MODULE EventLoop ------------------------------
(***************************************************************************)
(* The event loop of huly-bridge: it takes the events of one connection    *)
(* from a bounded channel and publishes them to NATS one at a time, with   *)
(* retries, until the connection's sender goes or it is cancelled.         *)
(*                                                                         *)
(* External: the server pushes and the NATS client.  publish() hands the   *)
(* event to the client's bounded buffer and waits while that is full; an   *)
(* error means that the event was not taken.  The client sends its buffer  *)
(* in order while it is connected and reconnects by itself.                *)
(***************************************************************************)
EXTENDS Naturals, Sequences, FiniteSets

CONSTANTS
    ChanCap,    \* capacity of the event channel (1024 in the code)
    Retries,    \* Len(RETRY_DELAYS), 3 in the code
    BufferCap,  \* capacity of the NATS client's buffer
    MaxEvents   \* bound: events the server pushes

ASSUME EventLoopAssumption ==
    /\ ChanCap \in Nat \ {0}
    /\ Retries \in Nat
    /\ BufferCap \in Nat \ {0}
    /\ MaxEvents \in Nat

VARIABLES
    arrived,    \* events the reader has routed, numbered 1 .. arrived
    channel,    \* the event channel
    senderGone, \* the read task has ended
    overflow,   \* events the full or closed channel refused
    loop,       \* "select", "publishing", "backoff" or "stopped"
    current,    \* the event in hand, 0 for none
    attempt,    \* retries made for it
    cancelled,  \* the CancellationToken
    forwarded,  \* stats.events_forwarded
    failed,     \* stats.events_failed
    gaveUp,     \* history: events the loop failed to forward
    discarded,  \* history: events that were in the channel when a loop stopped
    accepted,   \* events the NATS client took, in order
    buffered,   \* how many of them it has not sent yet
    natsUp

sourceVars == <<arrived, senderGone, overflow>>
loopVars == <<loop, current, attempt, forwarded, failed, gaveUp, discarded>>
natsVars == <<accepted, buffered, natsUp>>
eventLoopVars == <<sourceVars, channel, loopVars, cancelled, natsVars>>

Events == 1 .. MaxEvents
Elements(s) == {s[k] : k \in DOMAIN s}

EventLoopTypeOK ==
    /\ arrived \in 0 .. MaxEvents
    /\ channel \in Seq(Events)
    /\ Len(channel) <= ChanCap
    /\ senderGone \in BOOLEAN
    /\ overflow \subseteq Events
    /\ loop \in {"select", "publishing", "backoff", "stopped"}
    /\ current \in Events \cup {0}
    /\ current # 0 <=> loop \in {"publishing", "backoff"}
    /\ attempt \in 0 .. Retries
    /\ cancelled \in BOOLEAN
    /\ forwarded \in 0 .. MaxEvents
    /\ failed \in 0 .. MaxEvents
    /\ gaveUp \subseteq Events
    /\ discarded \subseteq Events
    /\ accepted \in Seq(Events)
    /\ buffered \in 0 .. BufferCap
    /\ natsUp \in BOOLEAN

NothingYet ==
    /\ arrived = 0
    /\ channel = <<>>
    /\ overflow = {}
    /\ current = 0
    /\ attempt = 0
    /\ cancelled = FALSE
    /\ forwarded = 0
    /\ failed = 0
    /\ gaveUp = {}
    /\ discarded = {}
    /\ accepted = <<>>
    /\ buffered = 0
    /\ natsUp = TRUE

EventLoopInit ==
    /\ NothingYet
    /\ loop = "select"
    /\ senderGone = FALSE

-----------------------------------------------------------------------------
(* The connection's reader. *)

(* Mutant: an unbounded event channel. *)
ArriveUnbounded ==
    /\ ~senderGone
    /\ arrived < MaxEvents
    /\ arrived' = arrived + 1
    /\ channel' = Append(channel, arrived')
    /\ UNCHANGED <<senderGone, overflow, loopVars, cancelled, natsVars>>

(* forward_event_or_drop on the sender's side of the channel. *)
Arrive ==
    /\ ~senderGone
    /\ arrived < MaxEvents
    /\ arrived' = arrived + 1
    /\ IF loop # "stopped" /\ Len(channel) < ChanCap
       THEN /\ channel' = Append(channel, arrived')
            /\ UNCHANGED overflow
       ELSE /\ overflow' = overflow \cup {arrived'}
            /\ UNCHANGED channel
    /\ UNCHANGED <<senderGone, loopVars, cancelled, natsVars>>

SenderGone ==
    /\ ~senderGone
    /\ senderGone' = TRUE
    /\ UNCHANGED <<arrived, overflow, channel, loopVars, cancelled, natsVars>>

Cancel ==
    /\ ~cancelled
    /\ cancelled' = TRUE
    /\ UNCHANGED <<sourceVars, channel, loopVars, natsVars>>

-----------------------------------------------------------------------------
(* run_event_loop. *)

Receive ==
    /\ loop = "select"
    /\ channel # <<>>
    /\ current' = Head(channel)
    /\ channel' = Tail(channel)
    /\ attempt' = 0
    /\ loop' = "publishing"
    /\ UNCHANGED <<sourceVars, forwarded, failed, gaveUp, discarded, cancelled, natsVars>>

(* Mutant: the loop ends with the connection, whatever the channel still holds. *)
StopAtDisconnect ==
    /\ loop = "select"
    /\ senderGone \/ cancelled
    /\ loop' = "stopped"
    /\ discarded' = discarded \cup Elements(channel)
    /\ channel' = <<>>
    /\ UNCHANGED <<sourceVars, current, attempt, forwarded, failed, gaveUp, cancelled, natsVars>>

(* The channel is closed and empty, or the token was cancelled: select! takes any ready branch, *)
(* so a cancelled loop may still receive first.  The receiver goes with what it holds.          *)
Stop ==
    /\ loop = "select"
    /\ (senderGone /\ channel = <<>>) \/ cancelled
    /\ loop' = "stopped"
    /\ discarded' = discarded \cup Elements(channel)
    /\ channel' = <<>>
    /\ UNCHANGED <<sourceVars, current, attempt, forwarded, failed, gaveUp, cancelled, natsVars>>

(* Mutant: the event is put back at the end of the channel for its retry. *)
PublishErrorRequeue(transient) ==
    /\ loop = "publishing"
    /\ Len(channel) < ChanCap
    /\ loop' = "select"
    /\ channel' = Append(channel, current)
    /\ current' = 0
    /\ UNCHANGED <<sourceVars, attempt, forwarded, failed, gaveUp, discarded, cancelled, natsVars>>

(* Mutant: an exhausted event is dropped without being counted as failed. *)
PublishErrorUncounted(transient) ==
    /\ loop = "publishing"
    /\ IF attempt < Retries /\ (attempt > 0 \/ transient)
       THEN /\ loop' = "backoff"
            /\ UNCHANGED <<current, failed, gaveUp>>
       ELSE /\ loop' = "select"
            /\ current' = 0
            /\ gaveUp' = gaveUp \cup {current}
            /\ failed' = failed + (IF transient THEN 0 ELSE 1)
    /\ UNCHANGED <<sourceVars, channel, attempt, forwarded, discarded, cancelled, natsVars>>

(* Only a transient first error starts the retries; from then on any error is retried. *)
PublishError(transient) ==
    /\ loop = "publishing"
    /\ IF attempt < Retries /\ (attempt > 0 \/ transient)
       THEN /\ loop' = "backoff"
            /\ UNCHANGED <<current, failed, gaveUp>>
       ELSE /\ loop' = "select"
            /\ current' = 0
            /\ gaveUp' = gaveUp \cup {current}
            /\ failed' = failed + 1
    /\ UNCHANGED <<sourceVars, channel, attempt, forwarded, discarded, cancelled, natsVars>>

PublishOk ==
    /\ loop = "publishing"
    /\ buffered < BufferCap
    /\ accepted' = Append(accepted, current)
    /\ buffered' = buffered + 1
    /\ loop' = "select"
    /\ current' = 0
    /\ forwarded' = forwarded + 1
    /\ UNCHANGED <<sourceVars, channel, attempt, failed, gaveUp, discarded, cancelled, natsUp>>

(* Mutant: the attempts are not counted, so the retries have no end. *)
BackoffUncounted ==
    /\ loop = "backoff"
    /\ loop' = "publishing"
    /\ UNCHANGED <<sourceVars, channel, current, attempt, forwarded, failed, gaveUp, discarded,
                   cancelled, natsVars>>

(* One delay of RETRY_DELAYS. *)
BackoffElapsed ==
    /\ loop = "backoff"
    /\ attempt' = attempt + 1
    /\ loop' = "publishing"
    /\ UNCHANGED <<sourceVars, channel, current, forwarded, failed, gaveUp, discarded, cancelled,
                   natsVars>>

-----------------------------------------------------------------------------
(* The NATS client. *)

Drain ==
    /\ natsUp
    /\ buffered > 0
    /\ buffered' = buffered - 1
    /\ UNCHANGED <<sourceVars, channel, loopVars, cancelled, accepted, natsUp>>

NatsDown ==
    /\ natsUp
    /\ natsUp' = FALSE
    /\ UNCHANGED <<sourceVars, channel, loopVars, cancelled, accepted, buffered>>

NatsReconnect ==
    /\ ~natsUp
    /\ natsUp' = TRUE
    /\ UNCHANGED <<sourceVars, channel, loopVars, cancelled, accepted, buffered>>

NatsStep == Drain \/ NatsDown \/ NatsReconnect

LoopStep ==
    \/ Receive
    \/ Stop
    \/ \E transient \in BOOLEAN : PublishError(transient)
    \/ PublishOk
    \/ BackoffElapsed

EventLoopNext == Arrive \/ SenderGone \/ Cancel \/ LoopStep \/ NatsStep

(***************************************************************************)
(* The task is polled whenever it can move and a backoff sleep ends.  The  *)
(* NATS client reconnects without limit and, once connected long enough,   *)
(* sends: strong fairness, since the connection may come and go.           *)
(***************************************************************************)
EventLoopFairness ==
    /\ WF_eventLoopVars(Receive) /\ WF_eventLoopVars(Stop)
    /\ WF_eventLoopVars(PublishOk) /\ WF_eventLoopVars(BackoffElapsed)
    /\ WF_eventLoopVars(NatsReconnect) /\ SF_eventLoopVars(Drain)

EventLoopSpec == EventLoopInit /\ [][EventLoopNext]_eventLoopVars /\ EventLoopFairness

-----------------------------------------------------------------------------
(* The loop implements EventDelivery: the event in hand is still the head of the queue, so a  *)
(* retry neither reorders nor duplicates events, and an event that is given up or cut off     *)
(* never shows up later.                                                                      *)
Delivery ==
    INSTANCE EventDelivery WITH
        queue <- IF current = 0 THEN channel ELSE <<current>> \o channel,
        published <- accepted,
        lost <- overflow \cup gaveUp \cup discarded

ImplementsDelivery == Delivery!Spec

(* The statistics the bridge logs are the fates of the events: what NATS took is counted as   *)
(* forwarded, what was given up as failed, and nothing is counted twice.                      *)
StatsMatchFates ==
    /\ forwarded = Len(accepted)
    /\ failed = Cardinality(gaveUp)
    /\ Elements(accepted) \cap gaveUp = {}

(* Without a cancellation nothing that entered the channel is thrown away: when a connection  *)
(* drops, the loop still resolves the events it had queued before it stops.                   *)
NoDiscardWithoutCancel ==
    discarded # {} => cancelled

(* Every queued event is published, given up or thrown away, however often NATS goes away.    *)
EventsResolved ==
    \A i \in Events :
        (i \in Elements(channel) \/ current = i) ~> (i \notin Elements(channel) /\ current # i)

(* What a cancellation throws away is later than all that was published: whoever reads the   *)
(* events misses the end of the stream and no hole in it, over all the connections of a run.  *)
CutOffIsLast ==
    \A i \in discarded : \A k \in DOMAIN accepted : accepted[k] < i
=============================================================================
