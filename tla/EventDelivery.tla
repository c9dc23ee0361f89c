---------------------------- MODULE EventDelivery ----------------------------
(***************************************************************************)
(* What the bridge promises of the events of one connection: an event is   *)
(* queued or lost on arrival; queued events leave in order, each published *)
(* once or given up; nothing leaves after the queue was thrown away.       *)
(* Events are numbered by arrival.                                         *)
(***************************************************************************)
EXTENDS Naturals, Sequences

VARIABLES
    arrived,    \* events pushed by the server so far
    queue,      \* events accepted and not yet resolved, oldest first
    published,  \* events published, in publication order
    lost        \* events dropped, given up or thrown away

vars == <<arrived, queue, published, lost>>

Init ==
    /\ arrived = 0
    /\ queue = <<>>
    /\ published = <<>>
    /\ lost = {}

Arrive ==
    /\ arrived' = arrived + 1
    /\ \/ queue' = Append(queue, arrived') /\ UNCHANGED lost
       \/ lost' = lost \cup {arrived'} /\ UNCHANGED queue
    /\ UNCHANGED published

Publish ==
    /\ queue # <<>>
    /\ published' = Append(published, Head(queue))
    /\ queue' = Tail(queue)
    /\ UNCHANGED <<arrived, lost>>

GiveUp ==
    /\ queue # <<>>
    /\ lost' = lost \cup {Head(queue)}
    /\ queue' = Tail(queue)
    /\ UNCHANGED <<arrived, published>>

Discard ==
    /\ lost' = lost \cup {queue[k] : k \in DOMAIN queue}
    /\ queue' = <<>>
    /\ UNCHANGED <<arrived, published>>

Next == Arrive \/ Publish \/ GiveUp \/ Discard

Spec == Init /\ [][Next]_vars

(* Publication order is arrival order and no event is published twice. *)
InOrderOnce ==
    \A j, k \in DOMAIN published : j < k => published[j] < published[k]
=============================================================================
