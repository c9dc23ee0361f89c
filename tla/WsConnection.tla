---------------------------- MODULE WsConnection ----------------------------
(***************************************************************************)
(* One Huly WebSocket connection: WsConnection of huly-client.             *)
(*                                                                         *)
(* Concurrent callers of send_request share one socket through a map of    *)
(* pending requests, a bounded write channel and three spawned tasks: the  *)
(* writer, the reader and the keepalive pinger.  The reader also answers   *)
(* the hello handshake and feeds server pushes into a bounded event        *)
(* channel.  An action is what the code does between two await points.     *)
(*                                                                         *)
(* The transactor and the network are the environment: responses arrive    *)
(* in any order, late, twice (the code does not reassemble chunks) or      *)
(* never; a push may arrive at any time; reading or writing may fail at    *)
(* any time.  Time is abstracted: a timeout may fire whenever the future   *)
(* it guards is not ready.                                                 *)
(***************************************************************************)
EXTENDS Naturals, Sequences, FiniteSets

CONSTANTS
    Callers,      \* tasks that share the connection
    NoCaller,     \* marks an id with no entry in the pending map
    MaxPending,   \* max_pending, the cap on the pending map
    WriteCap,     \* capacity of the write channel (256 in the code)
    EventCap,     \* capacity of the event channel (1024 in the code)
    MaxId,        \* bound: ids handed out by the request counter
    MaxPushes     \* bound: id = -1 frames read

ASSUME ConstantsAssumption ==
    /\ IsFiniteSet(Callers)
    /\ NoCaller \notin Callers
    /\ MaxPending \in Nat
    /\ WriteCap \in Nat \ {0}
    /\ EventCap \in Nat \ {0}
    /\ MaxId \in Nat
    /\ MaxPushes \in Nat

VARIABLES
    phase,          \* connect(): "hello" until the handshake ends, then "open" or "failed"
    handshakeTx,    \* TRUE while the reader still holds the handshake sender
    hello,          \* the handshake oneshot: "none", "ok" or "error"
    helloSeen,      \* the server has received the hello frame
    helloAnswered,  \* the server has answered it
    connected,      \* the AtomicBool behind is_connected()
    reader, writer, \* the read and write tasks: "running" or "ended"
    pinger,         \* the keepalive task: "running", "sending" a ping, or "ended"
    writeQueue,     \* the write channel: request ids, Hello and Ping frames
    served,         \* ids the server has received
    nextId,         \* REQUEST_ID_COUNTER
    pending,        \* the pending map: id -> the caller that holds the receiver
    pc,             \* where each caller is in send_request
    req,            \* the id of each caller's current or last request, 0 before
    inbox,          \* TRUE when the caller's oneshot holds a response
    result,         \* what the caller's last call returned
    race,           \* history: most callers ever between cap check and insert
    events,         \* the event channel: how many pushes it holds
    receiver,       \* the event receiver: "open" or "dropped"
    pushes,         \* id = -1 frames routed so far
    taken,          \* events the consumer took
    dropped         \* huly_bridge_events_dropped_total

handshakeVars == <<phase, handshakeTx, hello, helloSeen, helloAnswered>>
taskVars == <<connected, reader, writer, pinger>>
wireVars == <<writeQueue, served>>
callVars == <<nextId, pc, req, inbox, result, race>>
eventVars == <<events, receiver, pushes, taken, dropped>>
vars == <<handshakeVars, taskVars, wireVars, callVars, pending, eventVars>>

Ids == 1 .. MaxId
Hello == MaxId + 1      \* the hello frame in the write channel
Ping == MaxId + 2       \* the bare "ping" keepalive frame
Frames == Ids \cup {Hello, Ping}

Results == {"none", "ok", "not_connected", "exceeded", "send_failed", "timeout"}

PendingIds == {i \in Ids : pending[i] # NoCaller}
Admitted == {c \in Callers : pc[c] = "admitted"}

HandshakeTypeOK ==
    /\ phase \in {"hello", "open", "failed"}
    /\ hello \in {"none", "ok", "error"}
    /\ {handshakeTx, helloSeen, helloAnswered} \subseteq BOOLEAN

TaskTypeOK ==
    /\ connected \in BOOLEAN
    /\ {reader, writer} \subseteq {"running", "ended"}
    /\ pinger \in {"running", "sending", "ended"}

WireTypeOK ==
    /\ writeQueue \in Seq(Frames)
    /\ Len(writeQueue) <= WriteCap
    /\ served \subseteq Ids

CallTypeOK ==
    /\ nextId \in 1 .. MaxId + 1
    /\ pending \in [Ids -> Callers \cup {NoCaller}]
    /\ pc \in [Callers -> {"idle", "checked", "admitted", "enqueueing", "waiting",
                           "unsent", "expired"}]
    /\ req \in [Callers -> Ids \cup {0}]
    /\ inbox \in [Callers -> BOOLEAN]
    /\ result \in [Callers -> Results]
    /\ race \in Nat

EventTypeOK ==
    /\ events \in 0 .. EventCap
    /\ receiver \in {"open", "dropped"}
    /\ pushes \in 0 .. MaxPushes
    /\ taken \in Nat
    /\ dropped \in Nat

(* Types, with the capacities of the write channel and of the event channel. *)
TypeOK == HandshakeTypeOK /\ TaskTypeOK /\ WireTypeOK /\ CallTypeOK /\ EventTypeOK

(***************************************************************************)
(* connect_with_tls has spawned the tasks and handshake() has queued the   *)
(* hello frame; the channel is empty then, so that send never waits.       *)
(***************************************************************************)
Init ==
    /\ phase = "hello"
    /\ handshakeTx = TRUE
    /\ hello = "none"
    /\ helloSeen = FALSE
    /\ helloAnswered = FALSE
    /\ connected = TRUE
    /\ reader = "running"
    /\ writer = "running"
    /\ pinger = "running"
    /\ writeQueue = <<Hello>>
    /\ served = {}
    /\ nextId = 1
    /\ pending = [i \in Ids |-> NoCaller]
    /\ pc = [c \in Callers |-> "idle"]
    /\ req = [c \in Callers |-> 0]
    /\ inbox = [c \in Callers |-> FALSE]
    /\ result = [c \in Callers |-> "none"]
    /\ race = 0
    /\ events = 0
    /\ receiver = "open"
    /\ pushes = 0
    /\ taken = 0
    /\ dropped = 0

-----------------------------------------------------------------------------
(* send_request and send_raw, one action per step between await points.    *)

Returns(c, outcome) ==
    /\ pc' = [pc EXCEPT ![c] = "idle"]
    /\ result' = [result EXCEPT ![c] = outcome]

(* The is_connected() test at the head of send_request.  Every call started has an id left. *)
StartCall(c) ==
    /\ phase = "open"
    /\ pc[c] = "idle"
    /\ nextId + Cardinality({d \in Callers : pc[d] \in {"checked", "admitted"}}) <= MaxId
    /\ IF connected
       THEN /\ pc' = [pc EXCEPT ![c] = "checked"]
            /\ result' = [result EXCEPT ![c] = "none"]
       ELSE Returns(c, "not_connected")
    /\ UNCHANGED <<handshakeVars, taskVars, wireVars, nextId, req, inbox, race, pending, eventVars>>

(* Mutant: the cap is never looked at. *)
CheckCapSkipped(c) ==
    /\ pc[c] = "checked"
    /\ pc' = [pc EXCEPT ![c] = "admitted"]
    /\ race' = IF Cardinality(Admitted) + 1 > race
               THEN Cardinality(Admitted) + 1 ELSE race
    /\ UNCHANGED <<handshakeVars, taskVars, wireVars, nextId, req, inbox, result, pending, eventVars>>

(* The cap check under the map's lock, which is released before the insert. *)
CheckCap(c) ==
    /\ pc[c] = "checked"
    /\ IF Cardinality(PendingIds) >= MaxPending
       THEN /\ Returns(c, "exceeded")
            /\ race' = race
       ELSE /\ pc' = [pc EXCEPT ![c] = "admitted"]
            /\ race' = IF Cardinality(Admitted) + 1 > race
                       THEN Cardinality(Admitted) + 1 ELSE race
            /\ UNCHANGED result
    /\ UNCHANGED <<handshakeVars, taskVars, wireVars, nextId, req, inbox, pending, eventVars>>

(* Mutant: the counter does not advance, so two requests share an id. *)
InsertPendingSameId(c) ==
    /\ pc[c] = "admitted"
    /\ nextId <= MaxId
    /\ pending' = [pending EXCEPT ![nextId] = c]
    /\ req' = [req EXCEPT ![c] = nextId]
    /\ inbox' = [inbox EXCEPT ![c] = FALSE]
    /\ pc' = [pc EXCEPT ![c] = "enqueueing"]
    /\ UNCHANGED <<handshakeVars, taskVars, wireVars, nextId, result, race, eventVars>>

(* RpcRequest::new takes the next id; the oneshot's sender enters the map. *)
InsertPending(c) ==
    /\ pc[c] = "admitted"
    /\ nextId <= MaxId
    /\ pending' = [pending EXCEPT ![nextId] = c]
    /\ req' = [req EXCEPT ![c] = nextId]
    /\ inbox' = [inbox EXCEPT ![c] = FALSE]
    /\ nextId' = nextId + 1
    /\ pc' = [pc EXCEPT ![c] = "enqueueing"]
    /\ UNCHANGED <<handshakeVars, taskVars, wireVars, result, race, eventVars>>

(* write_tx.send(): waits while the channel is full, fails once the writer is gone. *)
Enqueue(c) ==
    /\ pc[c] = "enqueueing"
    /\ \/ /\ writer = "running"
          /\ Len(writeQueue) < WriteCap
          /\ writeQueue' = Append(writeQueue, req[c])
          /\ pc' = [pc EXCEPT ![c] = "waiting"]
       \/ /\ writer = "ended"
          /\ pc' = [pc EXCEPT ![c] = "unsent"]
          /\ UNCHANGED writeQueue
    /\ UNCHANGED <<handshakeVars, taskVars, served, nextId, req, inbox, result, race, pending, eventVars>>

(* The orphaned entry is removed under the lock, then SendFailed is returned. *)
CleanUpUnsent(c) ==
    /\ pc[c] = "unsent"
    /\ pending' = [pending EXCEPT ![req[c]] = NoCaller]
    /\ Returns(c, "send_failed")
    /\ UNCHANGED <<handshakeVars, taskVars, wireVars, nextId, req, inbox, race, eventVars>>

(* The receiver yields the response before the 30 s timeout. *)
ReceiveResponse(c) ==
    /\ pc[c] = "waiting"
    /\ inbox[c]
    /\ Returns(c, "ok")
    /\ UNCHANGED <<handshakeVars, taskVars, wireVars, nextId, req, inbox, race, pending, eventVars>>

(* Mutant: no timeout around the receiver. *)
ExpireNever(c) ==
    /\ FALSE
    /\ UNCHANGED vars

(* The timeout fires and the receiver is dropped; tokio polls the receiver first. *)
ExpireRequest(c) ==
    /\ pc[c] = "waiting"
    /\ ~inbox[c]
    /\ pc' = [pc EXCEPT ![c] = "expired"]
    /\ UNCHANGED <<handshakeVars, taskVars, wireVars, nextId, req, inbox, result, race, pending, eventVars>>

(* Mutant: the timed-out entry stays in the map. *)
CleanUpForgotten(c) ==
    /\ pc[c] = "expired"
    /\ Returns(c, "timeout")
    /\ UNCHANGED <<handshakeVars, taskVars, wireVars, nextId, req, inbox, race, pending, eventVars>>

CleanUpExpired(c) ==
    /\ pc[c] = "expired"
    /\ pending' = [pending EXCEPT ![req[c]] = NoCaller]
    /\ Returns(c, "timeout")
    /\ UNCHANGED <<handshakeVars, taskVars, wireVars, nextId, req, inbox, race, eventVars>>

-----------------------------------------------------------------------------
(* The write task. *)

WriteFrame ==
    /\ writer = "running"
    /\ writeQueue # <<>>
    /\ writeQueue' = Tail(writeQueue)
    /\ helloSeen' = (helloSeen \/ Head(writeQueue) = Hello)
    /\ served' = served \cup ({Head(writeQueue)} \cap Ids)
    /\ UNCHANGED <<phase, handshakeTx, hello, helloAnswered, taskVars, callVars, pending, eventVars>>

(* A failed socket write ends the task; its receiver goes, with all that is queued. *)
WriteError ==
    /\ writer = "running"
    /\ writeQueue # <<>>
    /\ writer' = "ended"
    /\ connected' = FALSE
    /\ writeQueue' = <<>>
    /\ UNCHANGED <<handshakeVars, reader, pinger, served, callVars, pending, eventVars>>

(* A tick of the keepalive task: it looks at the flag, then waits for room to send. *)
PingTick ==
    /\ pinger = "running"
    /\ pinger' = IF connected THEN "sending" ELSE "ended"
    /\ UNCHANGED <<handshakeVars, connected, reader, writer, wireVars, callVars, pending, eventVars>>

(* Mutant: an unbounded write channel. *)
PingSendUnbounded ==
    /\ pinger = "sending"
    /\ \/ /\ writer = "running"
          /\ writeQueue' = Append(writeQueue, Ping)
          /\ pinger' = "running"
       \/ /\ writer = "ended"
          /\ pinger' = "ended"
          /\ UNCHANGED writeQueue
    /\ UNCHANGED <<handshakeVars, connected, reader, writer, served, callVars, pending, eventVars>>

PingSend ==
    /\ pinger = "sending"
    /\ \/ /\ writer = "running"
          /\ Len(writeQueue) < WriteCap
          /\ writeQueue' = Append(writeQueue, Ping)
          /\ pinger' = "running"
       \/ /\ writer = "ended"
          /\ pinger' = "ended"
          /\ UNCHANGED writeQueue
    /\ UNCHANGED <<handshakeVars, connected, reader, writer, served, callVars, pending, eventVars>>

-----------------------------------------------------------------------------
(* The read task. *)

(* Mutant: the answers are taken to come in the order of the requests. *)
ReadResponseInOrder(i) ==
    /\ reader = "running"
    /\ i \in served
    /\ \E k \in PendingIds :
          /\ \A j \in PendingIds : k <= j
          /\ pending' = [pending EXCEPT ![k] = NoCaller]
          /\ inbox' = [inbox EXCEPT ![pending[k]] = TRUE]
    /\ UNCHANGED <<handshakeVars, taskVars, wireVars, nextId, pc, req, result, race, eventVars>>

(* A response: its sender leaves the map and fires, unless the id is unknown. *)
ReadResponse(i) ==
    /\ reader = "running"
    /\ i \in served
    /\ pending' = [pending EXCEPT ![i] = NoCaller]
    /\ inbox' = [c \in Callers |->
                    \/ inbox[c]
                    \/ c = pending[i] /\ req[c] = i /\ pc[c] \in {"enqueueing", "waiting"}]
    /\ UNCHANGED <<handshakeVars, taskVars, wireVars, nextId, pc, req, result, race, eventVars>>

(* Mutant: an event that does not fit is dropped without being counted. *)
ForwardUncounted ==
    /\ events' = IF receiver = "open" /\ events < EventCap THEN events + 1 ELSE events
    /\ UNCHANGED dropped

(* forward_event_or_drop: try_send, dropping the event when full or closed. *)
ForwardEventOrDrop ==
    IF receiver = "open" /\ events < EventCap
    THEN /\ events' = events + 1
         /\ UNCHANGED dropped
    ELSE /\ dropped' = dropped + 1
         /\ UNCHANGED events

(* A frame with id = -1.  The first one is taken for the hello reply, whatever it is. *)
ReadUnsolicited(isHelloReply, isError) ==
    /\ reader = "running"
    /\ pushes < MaxPushes
    /\ isHelloReply => helloSeen /\ ~helloAnswered
    /\ helloAnswered' = (helloAnswered \/ isHelloReply)
    /\ pushes' = pushes + 1
    /\ IF handshakeTx
       THEN /\ handshakeTx' = FALSE
            /\ hello' = IF isError THEN "error" ELSE "ok"
            /\ UNCHANGED <<events, dropped>>
       ELSE /\ ForwardEventOrDrop
            /\ UNCHANGED <<handshakeTx, hello>>
    /\ UNCHANGED <<phase, helloSeen, taskVars, wireVars, callVars, pending, receiver, taken>>

(* A read error or a Close frame.  Nothing wakes the callers in the pending map. *)
ReadEnd ==
    /\ reader = "running"
    /\ reader' = "ended"
    /\ connected' = FALSE
    /\ UNCHANGED <<handshakeVars, writer, pinger, wireVars, callVars, pending, eventVars>>

-----------------------------------------------------------------------------
(* connect(), the consumer of the events, shutdown. *)

AbortTasks ==
    /\ reader' = "ended"
    /\ writer' = "ended"
    /\ pinger' = "ended"
    /\ writeQueue' = <<>>

HandshakeDone ==
    /\ phase = "hello"
    /\ hello = "ok"
    /\ phase' = "open"
    /\ UNCHANGED <<handshakeTx, hello, helloSeen, helloAnswered, taskVars, wireVars, callVars,
                   pending, eventVars>>

(* Mutant: no timeout around the handshake. *)
HandshakeNoTimeout ==
    /\ phase = "hello"
    /\ hello = "error"
    /\ phase' = "failed"
    /\ AbortTasks
    /\ receiver' = "dropped"
    /\ events' = 0
    /\ UNCHANGED <<handshakeTx, hello, helloSeen, helloAnswered, connected, served, callVars,
                   pending, pushes, taken, dropped>>

(* An error reply, or 10 s without one: connect() fails and drops the connection.  A reader  *)
(* that ended early changes nothing here, since connect() itself keeps the handshake sender. *)
HandshakeFailed ==
    /\ phase = "hello"
    /\ hello # "ok"
    /\ phase' = "failed"
    /\ AbortTasks
    /\ receiver' = "dropped"
    /\ events' = 0
    /\ UNCHANGED <<handshakeTx, hello, helloSeen, helloAnswered, connected, served, callVars,
                   pending, pushes, taken, dropped>>

TakeEvent ==
    /\ phase = "open"
    /\ receiver = "open"
    /\ events > 0
    /\ events' = events - 1
    /\ taken' = taken + 1
    /\ UNCHANGED <<handshakeVars, taskVars, wireVars, callVars, pending, receiver, pushes, dropped>>

(* The event loop was cancelled: its receiver goes with whatever is still queued. *)
DropReceiver ==
    /\ phase = "open"
    /\ receiver = "open"
    /\ receiver' = "dropped"
    /\ events' = 0
    /\ UNCHANGED <<handshakeVars, taskVars, wireVars, callVars, pending, pushes, taken, dropped>>

Shutdown ==
    /\ phase = "open"
    /\ connected' = FALSE
    /\ AbortTasks
    /\ UNCHANGED <<handshakeVars, served, callVars, pending, eventVars>>

-----------------------------------------------------------------------------
CallerStep(c) ==
    \/ CheckCap(c)
    \/ InsertPending(c)
    \/ Enqueue(c)
    \/ CleanUpUnsent(c)
    \/ ReceiveResponse(c)
    \/ ExpireRequest(c)
    \/ CleanUpExpired(c)

Next ==
    \/ \E c \in Callers : StartCall(c) \/ CallerStep(c)
    \/ WriteFrame \/ WriteError \/ PingTick \/ PingSend
    \/ \E i \in Ids : ReadResponse(i)
    \/ \E h, e \in BOOLEAN : ReadUnsolicited(h, e)
    \/ ReadEnd
    \/ HandshakeDone \/ HandshakeFailed
    \/ TakeEvent \/ DropReceiver \/ Shutdown

(***************************************************************************)
(* The runtime polls every task that can move, and timers fire.  A sender  *)
(* that waits for room in the write channel is served in turn (tokio's     *)
(* semaphore is first come, first served), so the keepalive cannot starve  *)
(* it: strong fairness.  Nothing is assumed of the server or of the        *)
(* reader, which may stay silent, nor of a socket write on a live          *)
(* connection, which no timeout ends (connection.rs 241): only one whose   *)
(* connection is down ends, well or badly.                                 *)
(***************************************************************************)
WriteAfterDrop == ~connected /\ (WriteFrame \/ WriteError)

Fairness ==
    /\ \A c \in Callers : WF_vars(CallerStep(c)) /\ SF_vars(Enqueue(c))
    /\ WF_vars(WriteAfterDrop)
    /\ WF_vars(HandshakeDone \/ HandshakeFailed)

Spec == Init /\ [][Next]_vars
FairSpec == Spec /\ Fairness

-----------------------------------------------------------------------------
(* Safety. *)

(* The cap of send_request (connection.rs 541-555) is checked and released before the insert. *)
(* The map still never holds more than the cap plus the callers that raced: with at most      *)
(* `race` callers at once between check and insert, the overshoot is at most race - 1.        *)
CapOvershootBounded ==
    PendingIds # {} => Cardinality(PendingIds) + 1 <= MaxPending + race

(* No entry outlives its call: whoever is in the map is a caller still inside the send_raw    *)
(* that inserted it.  A response, a send failure and a timeout each remove it, in any race.   *)
PendingIsInFlight ==
    \A i \in PendingIds :
        /\ req[pending[i]] = i
        /\ pc[pending[i]] \in {"enqueueing", "waiting", "unsent", "expired"}

(* A caller that waits without an answer still has its sender in the map, so a response can   *)
(* reach it and the "sender dropped" branch of send_raw, ConnectionError::Closed, is dead.    *)
WaiterHasSender ==
    \A c \in Callers :
        pc[c] \in {"enqueueing", "waiting"} /\ ~inbox[c] => pending[req[c]] = c

(* SendFailed means the request never reached the server, so a caller may send it again;      *)
(* only a Timeout leaves that open.                                                           *)
FailedSendNeverServed ==
    \A c \in Callers :
        result[c] = "send_failed" => req[c] \notin served

(* Every id = -1 frame is taken for the hello reply, delivered, queued or counted as dropped, *)
(* as long as there is a consumer: the dropped counter misses none.                           *)
PushesAccountedFor ==
    receiver = "open" =>
        pushes = (IF handshakeTx THEN 0 ELSE 1) + taken + events + dropped

(* What a caller sees of the connection: a request is on its way while its caller sends it    *)
(* and while it is in the write channel.                                                      *)
BusyCallers == {c \in Callers : pc[c] # "idle"}

CurrentRequest ==
    [c \in Callers |->
        IF pc[c] \in {"enqueueing", "waiting", "unsent", "expired"} THEN req[c] ELSE 0]

IssuedIds == {i \in Ids : i < nextId}

OpenIds ==
    {i \in Ids : \/ \E k \in 1 .. Len(writeQueue) : writeQueue[k] = i
                 \/ \E c \in Callers : pc[c] = "enqueueing" /\ req[c] = i}

Rpc ==
    INSTANCE RequestReply WITH
        NoRequest <- 0,
        busy <- BusyCallers,
        current <- CurrentRequest,
        outcome <- result,
        issued <- IssuedIds,
        open <- OpenIds

(* The connection implements RequestReply: a call returns the answer to its own request,      *)
(* however the answers of concurrent calls, late ones and repeated ones come in; the server   *)
(* is handed a request once, and never one that could not be sent or that was in the channel  *)
(* when it was thrown away; of SendFailed and Timeout only the second leaves that open.       *)
ImplementsRequestReply == Rpc!Spec

-----------------------------------------------------------------------------
(* Liveness, under FairSpec. *)

(* A caller waits for room in a full channel whose writer is still inside a socket write.     *)
StuckAtSend(c) ==
    /\ pc[c] = "enqueueing"
    /\ connected
    /\ writer = "running"
    /\ Len(writeQueue) = WriteCap

(* Only one thing keeps a send_request from returning for ever: write_tx.send() stands before *)
(* send_raw's timeout (connection.rs 483-489) and the write task has none (241), so a caller  *)
(* waits as long as the channel stays full behind one socket write that does not end.  The    *)
(* silence of the server, a failed write, the end of the reader or a race of answer, timeout  *)
(* and shutdown never does.                                                                   *)
CallsReturn ==
    \A c \in Callers :
        <>[](pc[c] # "idle") => <>[]StuckAtSend(c)

(* Once the connection is marked as down its pending map drains for good, though nothing      *)
(* wakes the calls in flight: every entry goes with the timeout or the failed send of its call. *)
DisconnectDrainsPending ==
    (phase = "open" /\ ~connected) ~> [](PendingIds = {})

(* connect() ends, with a connection or an error, even when the server never answers hello.   *)
HandshakeEnds ==
    phase = "hello" ~> phase # "hello"
=============================================================================
