------------------------- MODULE WsConnectionProofs -------------------------
(***************************************************************************)
(* The safety invariants of WsConnection, for any number of callers, any   *)
(* cap and any channel capacities.                                         *)
(***************************************************************************)
EXTENDS WsConnection, FiniteSetTheorems, TLAPS

(* The write channel under its three operations. *)
LEMMA QueueAppend ==
    ASSUME NEW q \in Seq(Frames), NEW f \in Frames
    PROVE  /\ Append(q, f) \in Seq(Frames)
           /\ Len(Append(q, f)) = Len(q) + 1
           /\ \A k \in 1 .. Len(q) : Append(q, f)[k] = q[k]
           /\ Append(q, f)[Len(q) + 1] = f
PROOF BY SMT

(* A channel that is not empty, when its first frame is taken. *)
LEMMA QueueTail ==
    ASSUME NEW q \in Seq(Frames), q # <<>>
    PROVE  /\ Tail(q) \in Seq(Frames)
           /\ Len(Tail(q)) = Len(q) - 1
           /\ Len(q) \in Nat \ {0}
           /\ \A k \in 1 .. Len(Tail(q)) : Tail(q)[k] = q[k + 1]
           /\ Head(q) = q[1]
PROOF BY SMT

(* The write channel once its receiver is gone. *)
LEMMA QueueEmpty == <<>> \in Seq(Frames) /\ Len(<<>>) = 0
PROOF BY SMT

(* What a call does to the functions over callers and over ids. *)
LEMMA UpdateTypes ==
    ASSUME NEW S, NEW T, NEW f \in [S -> T], NEW x \in S, NEW v \in T
    PROVE  [f EXCEPT ![x] = v] \in [S -> T]
PROOF OBVIOUS

(* The callers between the cap check and the insert can be counted. *)
LEMMA AdmittedFinite ==
    ASSUME TypeOK
    PROVE  /\ IsFiniteSet(Admitted)
           /\ Cardinality(Admitted) \in Nat
PROOF
  <1>1. IsFiniteSet(Callers) /\ Admitted \subseteq Callers
    BY ConstantsAssumption DEF Admitted
  <1> QED BY <1>1, FS_Subset, FS_CardinalityType

(* The pending map is finite: ids come from a bounded counter. *)
LEMMA PendingFinite ==
    ASSUME TypeOK
    PROVE  /\ IsFiniteSet(PendingIds)
           /\ Cardinality(PendingIds) \in Nat
PROOF
  <1>1. IsFiniteSet(Ids)
    BY ConstantsAssumption, FS_Interval DEF Ids
  <1>2. PendingIds \subseteq Ids
    BY DEF PendingIds
  <1> QED BY <1>1, <1>2, FS_Subset, FS_CardinalityType

(* A frame is a request, the hello or a ping; 0 marks a caller without a request. *)
LEMMA FramesAre ==
    /\ Ids \subseteq Frames
    /\ Hello \in Frames
    /\ Ping \in Frames
    /\ 0 \notin Ids
PROOF BY ConstantsAssumption DEF Ids, Hello, Ping, Frames

(* Requests that are in flight have an id of their own. *)
InFlight == {"enqueueing", "waiting", "unsent", "expired"}
InFlightHasId == \A c \in Callers : pc[c] \in InFlight => req[c] \in Ids

TypeInv == TypeOK /\ InFlightHasId

(* The types hold when the tasks have been spawned. *)
LEMMA TypeInit == Init => TypeInv
PROOF
  <1> SUFFICES ASSUME Init PROVE TypeInv
    OBVIOUS
  <1>1. HandshakeTypeOK /\ TaskTypeOK
    BY DEF Init, HandshakeTypeOK, TaskTypeOK
  <1>2. WireTypeOK
    <2>1. <<Hello>> \in Seq(Frames) /\ Len(<<Hello>>) = 1
      BY FramesAre
    <2>2. WriteCap >= 1
      BY ConstantsAssumption
    <2> QED BY <2>1, <2>2 DEF Init, WireTypeOK
  <1>3. CallTypeOK /\ EventTypeOK
    BY ConstantsAssumption DEF Init, CallTypeOK, EventTypeOK, Results
  <1>4. InFlightHasId
    BY DEF Init, InFlightHasId, InFlight
  <1> QED BY <1>1, <1>2, <1>3, <1>4 DEF TypeInv, TypeOK

(* A group of variables that a step leaves alone keeps its type. *)
LEMMA SameTypes ==
    /\ HandshakeTypeOK /\ UNCHANGED handshakeVars => HandshakeTypeOK'
    /\ TaskTypeOK /\ UNCHANGED taskVars => TaskTypeOK'
    /\ WireTypeOK /\ UNCHANGED wireVars => WireTypeOK'
    /\ CallTypeOK /\ UNCHANGED <<callVars, pending>> => CallTypeOK'
    /\ InFlightHasId /\ UNCHANGED callVars => InFlightHasId'
    /\ EventTypeOK /\ UNCHANGED eventVars => EventTypeOK'
PROOF
  BY DEF HandshakeTypeOK, handshakeVars, TaskTypeOK, taskVars, WireTypeOK, wireVars,
         CallTypeOK, callVars, InFlightHasId, EventTypeOK, eventVars

(* Every step keeps the types, one case per action. *)
LEMMA TypeStep == TypeInv /\ [Next]_vars => TypeInv'
PROOF
  <1> SUFFICES ASSUME TypeInv, [Next]_vars PROVE TypeInv'
    OBVIOUS
  <1> USE DEF TypeInv, TypeOK
  <1>1. ASSUME NEW c \in Callers, StartCall(c) PROVE TypeInv'
    <2>1. CallTypeOK' /\ InFlightHasId'
      BY <1>1, ConstantsAssumption
      DEF StartCall, Returns, CallTypeOK, InFlightHasId, InFlight, Results
    <2> QED BY <1>1, <2>1, SameTypes DEF StartCall
  <1>2. ASSUME NEW c \in Callers, CheckCap(c) PROVE TypeInv'
    <2>1. CallTypeOK' /\ InFlightHasId'
      BY <1>2, AdmittedFinite DEF CheckCap, Returns, CallTypeOK, InFlightHasId, InFlight, Results
    <2> QED BY <1>2, <2>1, SameTypes DEF CheckCap
  <1>3. ASSUME NEW c \in Callers, InsertPending(c) PROVE TypeInv'
    <2>1. nextId \in Ids /\ nextId + 1 \in 1 .. MaxId + 1
      BY <1>3, ConstantsAssumption DEF InsertPending, CallTypeOK, Ids
    <2>2. CallTypeOK' /\ InFlightHasId'
      BY <1>3, <2>1 DEF InsertPending, CallTypeOK, InFlightHasId, InFlight, Results
    <2> QED BY <1>3, <2>1, <2>2, SameTypes DEF InsertPending
  <1>4. ASSUME NEW c \in Callers, Enqueue(c) PROVE TypeInv'
    <2>1. req[c] \in Frames
      BY <1>4, FramesAre DEF Enqueue, InFlightHasId, InFlight
    <2>2. WireTypeOK'
      BY <1>4, <2>1, QueueAppend, ConstantsAssumption DEF Enqueue, WireTypeOK
    <2>3. CallTypeOK' /\ InFlightHasId'
      BY <1>4 DEF Enqueue, CallTypeOK, InFlightHasId, InFlight, Results
    <2> QED BY <1>4, <2>1, <2>2, <2>3, SameTypes DEF Enqueue
  <1>5. ASSUME NEW c \in Callers, CleanUpUnsent(c) PROVE TypeInv'
    <2>1. CallTypeOK' /\ InFlightHasId'
      BY <1>5 DEF CleanUpUnsent, Returns, CallTypeOK, InFlightHasId, InFlight, Results
    <2> QED BY <1>5, <2>1, SameTypes DEF CleanUpUnsent
  <1>6. ASSUME NEW c \in Callers, ReceiveResponse(c) PROVE TypeInv'
    <2>1. CallTypeOK' /\ InFlightHasId'
      BY <1>6 DEF ReceiveResponse, Returns, CallTypeOK, InFlightHasId, InFlight, Results
    <2> QED BY <1>6, <2>1, SameTypes DEF ReceiveResponse
  <1>7. ASSUME NEW c \in Callers, ExpireRequest(c) PROVE TypeInv'
    <2>1. CallTypeOK' /\ InFlightHasId'
      BY <1>7 DEF ExpireRequest, CallTypeOK, InFlightHasId, InFlight, Results
    <2> QED BY <1>7, <2>1, SameTypes DEF ExpireRequest
  <1>8. ASSUME NEW c \in Callers, CleanUpExpired(c) PROVE TypeInv'
    <2>1. CallTypeOK' /\ InFlightHasId'
      BY <1>8 DEF CleanUpExpired, Returns, CallTypeOK, InFlightHasId, InFlight, Results
    <2> QED BY <1>8, <2>1, SameTypes DEF CleanUpExpired
  <1>9. CASE WriteFrame
    <2>1. HandshakeTypeOK'
      BY <1>9 DEF WriteFrame, HandshakeTypeOK
    <2>2. WireTypeOK'
      BY <1>9, QueueTail, ConstantsAssumption DEF WriteFrame, WireTypeOK
    <2> QED BY <1>9, <2>1, <2>2, SameTypes DEF WriteFrame
  <1>10. CASE WriteError
    <2>1. WireTypeOK'
      BY <1>10, QueueEmpty, ConstantsAssumption DEF WriteError, WireTypeOK
    <2>2. TaskTypeOK'
      BY <1>10 DEF WriteError, TaskTypeOK
    <2> QED BY <1>10, <2>1, <2>2, SameTypes DEF WriteError
  <1>11. CASE PingTick
    <2>1. TaskTypeOK'
      BY <1>11 DEF PingTick, TaskTypeOK
    <2> QED BY <1>11, <2>1, SameTypes DEF PingTick
  <1>12. CASE PingSend
    <2>1. WireTypeOK'
      BY <1>12, FramesAre, QueueAppend, ConstantsAssumption DEF PingSend, WireTypeOK
    <2>2. TaskTypeOK'
      BY <1>12 DEF PingSend, TaskTypeOK
    <2> QED BY <1>12, <2>1, <2>2, SameTypes DEF PingSend
  <1>13. ASSUME NEW i \in Ids, ReadResponse(i) PROVE TypeInv'
    <2>1. CallTypeOK' /\ InFlightHasId'
      BY <1>13 DEF ReadResponse, CallTypeOK, InFlightHasId, InFlight, Results
    <2> QED BY <1>13, <2>1, SameTypes DEF ReadResponse
  <1>14. ASSUME NEW h \in BOOLEAN, NEW e \in BOOLEAN, ReadUnsolicited(h, e) PROVE TypeInv'
    <2>1. HandshakeTypeOK'
      BY <1>14 DEF ReadUnsolicited, HandshakeTypeOK
    <2>2. EventTypeOK'
      BY <1>14, ConstantsAssumption DEF ReadUnsolicited, ForwardEventOrDrop, EventTypeOK
    <2> QED BY <1>14, <2>1, <2>2, SameTypes DEF ReadUnsolicited
  <1>15. CASE ReadEnd
    <2>1. TaskTypeOK'
      BY <1>15 DEF ReadEnd, TaskTypeOK
    <2> QED BY <1>15, <2>1, SameTypes DEF ReadEnd
  <1>16. CASE HandshakeDone
    <2>1. HandshakeTypeOK'
      BY <1>16 DEF HandshakeDone, HandshakeTypeOK
    <2> QED BY <1>16, <2>1, SameTypes DEF HandshakeDone
  <1>17. CASE HandshakeFailed
    <2>1. HandshakeTypeOK'
      BY <1>17 DEF HandshakeFailed, HandshakeTypeOK
    <2>2. TaskTypeOK' /\ WireTypeOK'
      BY <1>17, QueueEmpty, ConstantsAssumption
      DEF HandshakeFailed, AbortTasks, TaskTypeOK, WireTypeOK
    <2>3. EventTypeOK'
      BY <1>17, ConstantsAssumption DEF HandshakeFailed, EventTypeOK
    <2> QED BY <1>17, <2>1, <2>2, <2>3, SameTypes DEF HandshakeFailed
  <1>18. CASE TakeEvent
    <2>1. EventTypeOK'
      BY <1>18, ConstantsAssumption DEF TakeEvent, EventTypeOK
    <2> QED BY <1>18, <2>1, SameTypes DEF TakeEvent
  <1>19. CASE DropReceiver
    <2>1. EventTypeOK'
      BY <1>19, ConstantsAssumption DEF DropReceiver, EventTypeOK
    <2> QED BY <1>19, <2>1, SameTypes DEF DropReceiver
  <1>20. CASE Shutdown
    <2>1. TaskTypeOK'
      BY <1>20 DEF Shutdown, AbortTasks, TaskTypeOK
    <2>2. WireTypeOK'
      BY <1>20, QueueEmpty, ConstantsAssumption DEF Shutdown, AbortTasks, WireTypeOK
    <2> QED BY <1>20, <2>1, <2>2, SameTypes DEF Shutdown
  <1>21. CASE UNCHANGED vars
    BY <1>21, SameTypes DEF vars
  <1> QED
    BY <1>1, <1>2, <1>3, <1>4, <1>5, <1>6, <1>7, <1>8, <1>9, <1>10, <1>11, <1>12, <1>13, <1>14,
       <1>15, <1>16, <1>17, <1>18, <1>19, <1>20, <1>21
       DEF Next, CallerStep

(* Every variable keeps its type; the write channel and the event channel keep their bounds. *)
THEOREM TypeCorrect == Spec => []TypeOK
PROOF
  <1>1. TypeInv => TypeOK
    BY DEF TypeInv
  <1> QED BY <1>1, TypeInit, TypeStep, PTL DEF Spec

(* The steps by what they touch: the calls, the map, the frames on their way to the server. *)
LEMMA StepKinds ==
    ASSUME [Next]_vars
    PROVE  \/ \E c \in Callers : StartCall(c) \/ CallerStep(c)
           \/ \E i \in Ids : ReadResponse(i)
           \/ WriteFrame
           \/ PingSend
           \/ /\ UNCHANGED <<callVars, pending>>
              /\ UNCHANGED wireVars \/ (writeQueue' = <<>> /\ served' = served)
PROOF
  <1> USE DEF wireVars, callVars
  <1>1. CASE WriteError \/ HandshakeFailed \/ Shutdown
    BY <1>1 DEF WriteError, HandshakeFailed, Shutdown, AbortTasks
  <1>2. CASE PingTick \/ ReadEnd \/ HandshakeDone \/ TakeEvent \/ DropReceiver
    BY <1>2 DEF PingTick, ReadEnd, HandshakeDone, TakeEvent, DropReceiver
  <1>3. ASSUME NEW h \in BOOLEAN, NEW e \in BOOLEAN, ReadUnsolicited(h, e)
        PROVE  UNCHANGED <<callVars, pending, wireVars>>
    BY <1>3 DEF ReadUnsolicited
  <1>4. CASE UNCHANGED vars
    BY <1>4 DEF vars
  <1> QED BY <1>1, <1>2, <1>3, <1>4 DEF Next

-----------------------------------------------------------------------------
(* The cap.  Between check and insert a caller counts as much as an entry, so the sum of both *)
(* is bounded where the entries alone are not inductive.                                      *)
CapInv ==
    PendingIds \cup Admitted # {} =>
        Cardinality(PendingIds) + Cardinality(Admitted) + 1 <= MaxPending + race

(* Entries and admitted callers that only become fewer keep the bound. *)
LEMMA CapMonotone ==
    ASSUME TypeOK, TypeOK', CapInv, PendingIds' \subseteq PendingIds, Admitted' \subseteq Admitted,
           race' = race
    PROVE  CapInv'
PROOF
  <1>1. Cardinality(PendingIds') <= Cardinality(PendingIds)
    BY PendingFinite, FS_Subset
  <1>2. Cardinality(Admitted') <= Cardinality(Admitted)
    BY AdmittedFinite, FS_Subset
  <1>3. Cardinality(PendingIds') \in Nat /\ Cardinality(Admitted') \in Nat
    BY PendingFinite, AdmittedFinite, FS_Subset, FS_CardinalityType
  <1>4. race \in Nat /\ MaxPending \in Nat
    BY ConstantsAssumption DEF TypeOK, CallTypeOK
  <1> QED BY <1>1, <1>2, <1>3, <1>4, PendingFinite, AdmittedFinite DEF CapInv

(* An admitted caller raises `race` or finds room: the check saw fewer entries than the cap. *)
LEMMA CapAdmit ==
    ASSUME TypeOK, TypeOK', CapInv, NEW c \in Callers, CheckCap(c)
    PROVE  CapInv'
PROOF
  <1>1. PendingIds' = PendingIds
    BY DEF CheckCap, PendingIds
  <1>2. CASE Cardinality(PendingIds) >= MaxPending
    <2>1. Admitted' \subseteq Admitted
      BY <1>2 DEF CheckCap, Returns, Admitted, TypeOK, CallTypeOK
    <2> QED BY <1>1, <1>2, <2>1, CapMonotone DEF CheckCap
  <1>3. CASE ~(Cardinality(PendingIds) >= MaxPending)
    <2>1. Admitted' = Admitted \cup {c} /\ c \notin Admitted
      BY <1>3 DEF CheckCap, Admitted, TypeOK, CallTypeOK
    <2>2. Cardinality(Admitted') = Cardinality(Admitted) + 1
      BY <2>1, AdmittedFinite, FS_AddElement
    <2>3. race' >= Cardinality(Admitted) + 1
      BY <1>3, AdmittedFinite DEF CheckCap, TypeOK, CallTypeOK
    <2>4. race' \in Nat /\ MaxPending \in Nat
      BY ConstantsAssumption DEF TypeOK, CallTypeOK
    <2> QED BY <1>1, <1>3, <2>2, <2>3, <2>4, PendingFinite, AdmittedFinite DEF CapInv
  <1> QED BY <1>2, <1>3

(* An insert turns an admitted caller into an entry: their sum stays. *)
LEMMA CapInsert ==
    ASSUME TypeOK, TypeOK', CapInv, NEW c \in Callers, InsertPending(c)
    PROVE  CapInv'
PROOF
  <1>1. Admitted' = Admitted \ {c} /\ c \in Admitted
    BY DEF InsertPending, Admitted, TypeOK, CallTypeOK
  <1>2. Cardinality(Admitted') = Cardinality(Admitted) - 1
    BY <1>1, AdmittedFinite, FS_RemoveElement
  <1>3. PendingIds' \subseteq PendingIds \cup {nextId}
    BY DEF InsertPending, PendingIds, TypeOK, CallTypeOK
  <1>4. /\ IsFiniteSet(PendingIds \cup {nextId})
        /\ \/ Cardinality(PendingIds \cup {nextId}) = Cardinality(PendingIds)
           \/ Cardinality(PendingIds \cup {nextId}) = Cardinality(PendingIds) + 1
    <2>1. IsFiniteSet(PendingIds)
      BY PendingFinite
    <2> QED BY <2>1, FS_AddElement
  <1>5. Cardinality(PendingIds \cup {nextId}) \in Nat /\ Cardinality(PendingIds') \in Nat
    BY <1>3, <1>4, FS_Subset, FS_CardinalityType
  <1>6. Cardinality(PendingIds') <= Cardinality(PendingIds) + 1
    BY <1>3, <1>4, <1>5, PendingFinite, FS_Subset
  <1>7. race' = race /\ race \in Nat /\ MaxPending \in Nat
    BY ConstantsAssumption DEF InsertPending, TypeOK, CallTypeOK
  <1> QED BY <1>1, <1>2, <1>5, <1>6, <1>7, PendingFinite, AdmittedFinite DEF CapInv

(* Every step keeps the bound: only CheckCap and InsertPending can raise a count. *)
LEMMA CapStep == TypeOK /\ TypeOK' /\ CapInv /\ [Next]_vars => CapInv'
PROOF
  <1> SUFFICES ASSUME TypeOK, TypeOK', CapInv, [Next]_vars PROVE CapInv'
    OBVIOUS
  <1> USE DEF PendingIds, Admitted, TypeOK, CallTypeOK, callVars
  <1> DEFINE Shrinks == /\ PendingIds' \subseteq PendingIds
                        /\ Admitted' \subseteq Admitted
                        /\ race' = race
  <1>1. ASSUME NEW c \in Callers, StartCall(c) PROVE Shrinks
    BY <1>1 DEF StartCall, Returns
  <1>2. ASSUME NEW c \in Callers, CheckCap(c) PROVE CapInv'
    BY <1>2, CapAdmit
  <1>3. ASSUME NEW c \in Callers, InsertPending(c) PROVE CapInv'
    BY <1>3, CapInsert
  <1>4. ASSUME NEW c \in Callers, Enqueue(c) PROVE Shrinks
    BY <1>4 DEF Enqueue
  <1>5. ASSUME NEW c \in Callers, CleanUpUnsent(c) \/ CleanUpExpired(c) PROVE Shrinks
    BY <1>5 DEF CleanUpUnsent, CleanUpExpired, Returns
  <1>6. ASSUME NEW c \in Callers, ReceiveResponse(c) \/ ExpireRequest(c) PROVE Shrinks
    BY <1>6 DEF ReceiveResponse, ExpireRequest, Returns
  <1>7. ASSUME NEW i \in Ids, ReadResponse(i) PROVE Shrinks
    BY <1>7 DEF ReadResponse
  <1>8. CASE UNCHANGED <<callVars, pending>>
    <2>1. Shrinks
      BY <1>8
    <2> QED BY <2>1, CapMonotone
  <1>9. Shrinks => CapInv'
    BY CapMonotone
  <1>10. WriteFrame \/ PingSend => UNCHANGED <<callVars, pending>>
    BY DEF WriteFrame, PingSend
  <1> QED
    BY <1>1, <1>2, <1>3, <1>4, <1>5, <1>6, <1>7, <1>8, <1>9, <1>10,
       StepKinds DEF CallerStep

(* The pending map never exceeds the cap by as much as the number of callers that raced       *)
(* between the cap check and the insert.                                                      *)
THEOREM CapOvershootBoundedCorrect == Spec => []CapOvershootBounded
PROOF
  <1>1. Init => CapInv
    BY DEF Init, CapInv, PendingIds, Admitted
  <1>2. TypeOK /\ CapInv => CapOvershootBounded
    <2> SUFFICES ASSUME TypeOK, CapInv, PendingIds # {}
                 PROVE  Cardinality(PendingIds) + 1 <= MaxPending + race
      BY DEF CapOvershootBounded
    <2>1. race \in Nat /\ MaxPending \in Nat
      BY ConstantsAssumption DEF TypeOK, CallTypeOK
    <2> QED BY <2>1, PendingFinite, AdmittedFinite DEF CapInv
  <1> QED BY <1>1, <1>2, CapStep, TypeCorrect, PTL DEF Spec

-----------------------------------------------------------------------------
(* The life of a request id.  Ids are handed out once, so that two calls in flight never      *)
(* share one; an entry belongs to a call without an answer; a request that failed to be sent  *)
(* is neither in the channel nor at the server.                                               *)

IdsFresh ==
    /\ \A c \in Callers : req[c] < nextId
    /\ \A i \in PendingIds : i < nextId
    /\ \A i \in served : i < nextId
    /\ \A k \in 1 .. Len(writeQueue) : writeQueue[k] \in Ids => writeQueue[k] < nextId

IdsDistinct ==
    \A c, d \in Callers : c # d /\ req[c] = req[d] => req[c] = 0

EntryUnanswered ==
    \A i \in PendingIds : ~inbox[pending[i]]

NotSent(i) ==
    /\ i \notin served
    /\ \A k \in 1 .. Len(writeQueue) : writeQueue[k] # i

UnsentNotSent ==
    \A c \in Callers :
        pc[c] \in {"enqueueing", "unsent"} \/ result[c] = "send_failed" => NotSent(req[c])

ResultWhenIdle ==
    \A c \in Callers : pc[c] # "idle" => result[c] = "none"

EntryInv == PendingIsInFlight /\ EntryUnanswered /\ WaiterHasSender /\ IdsDistinct
SendInv == UnsentNotSent /\ ResultWhenIdle
CallInv == TypeInv /\ IdsFresh /\ EntryInv /\ SendInv

CallFacts == CallTypeOK /\ WireTypeOK /\ InFlightHasId

(* No call, no entry and no request on the wire at the start. *)
LEMMA CallInit == Init => CallInv
PROOF
  <1> SUFFICES ASSUME Init PROVE CallInv
    OBVIOUS
  <1>1. /\ <<Hello>>[1] \notin Ids
        /\ Len(<<Hello>>) = 1
        /\ 0 \notin Ids
    BY ConstantsAssumption DEF Ids, Hello
  <1>2. IdsFresh
    BY <1>1 DEF Init, IdsFresh, PendingIds
  <1>3. EntryInv
    BY DEF Init, EntryInv, PendingIsInFlight, EntryUnanswered, WaiterHasSender, IdsDistinct,
           PendingIds
  <1>4. SendInv
    BY DEF Init, SendInv, UnsentNotSent, ResultWhenIdle
  <1> QED BY <1>2, <1>3, <1>4, TypeInit DEF CallInv

(* A call that ends with its entry removed, the clean-up after a failed send or a timeout. *)
LEMMA EntryRemoved ==
    ASSUME CallFacts, EntryInv, NEW c \in Callers, pc[c] \in InFlight,
           pending' = [pending EXCEPT ![req[c]] = NoCaller],
           pc' = [pc EXCEPT ![c] = "idle"],
           UNCHANGED <<req, inbox>>
    PROVE  EntryInv'
PROOF
  <1> USE DEF EntryInv, PendingIsInFlight, EntryUnanswered, WaiterHasSender, IdsDistinct,
              PendingIds, CallFacts, CallTypeOK, InFlightHasId, InFlight
  <1>1. req[c] \in Ids
    OBVIOUS
  <1>2. PendingIsInFlight' /\ EntryUnanswered'
    <2> SUFFICES ASSUME NEW i \in Ids, pending'[i] # NoCaller
                 PROVE  /\ req'[pending'[i]] = i
                        /\ pc'[pending'[i]] \in InFlight
                        /\ ~inbox'[pending'[i]]
      OBVIOUS
    <2>1. i # req[c] /\ pending'[i] = pending[i]
      BY <1>1
    <2>2. /\ pending[i] \in Callers /\ req[pending[i]] = i
          /\ pc[pending[i]] \in InFlight /\ ~inbox[pending[i]]
      BY <2>1
    <2>3. pending[i] # c /\ pc'[pending[i]] = pc[pending[i]]
      BY <2>1, <2>2
    <2> QED BY <2>1, <2>2, <2>3
  <1>3. WaiterHasSender'
    <2> SUFFICES ASSUME NEW d \in Callers, pc'[d] \in {"enqueueing", "waiting"}, ~inbox'[d]
                 PROVE  pending'[req'[d]] = d
      OBVIOUS
    <2>1. d # c /\ pc[d] = pc'[d] /\ req[d] \in Ids
      OBVIOUS
    <2>2. req[d] # req[c]
      BY <1>1, <2>1, FramesAre
    <2> QED BY <1>1, <2>1, <2>2
  <1>4. IdsDistinct'
    OBVIOUS
  <1> QED BY <1>2, <1>3, <1>4

(* The entries of the map, step by step. *)
LEMMA EntryStep ==
    ASSUME CallFacts, CallFacts', IdsFresh, EntryInv, [Next]_vars
    PROVE  EntryInv'
PROOF
  <1> USE DEF EntryInv, PendingIsInFlight, EntryUnanswered, WaiterHasSender, IdsDistinct,
              PendingIds, CallFacts, CallTypeOK, InFlightHasId, InFlight, callVars
  <1>1. ASSUME NEW c \in Callers, StartCall(c) PROVE EntryInv'
    BY <1>1 DEF StartCall, Returns
  <1>2. ASSUME NEW c \in Callers, CheckCap(c) PROVE EntryInv'
    BY <1>2 DEF CheckCap, Returns
  <1>3. ASSUME NEW c \in Callers, InsertPending(c) PROVE EntryInv'
    BY <1>3 DEF InsertPending, IdsFresh
  <1>4. ASSUME NEW c \in Callers, Enqueue(c) PROVE EntryInv'
    BY <1>4 DEF Enqueue
  <1>5. ASSUME NEW c \in Callers, CleanUpUnsent(c) PROVE EntryInv'
    BY <1>5, EntryRemoved DEF CleanUpUnsent, Returns
  <1>6. ASSUME NEW c \in Callers, ReceiveResponse(c) PROVE EntryInv'
    BY <1>6 DEF ReceiveResponse, Returns
  <1>7. ASSUME NEW c \in Callers, ExpireRequest(c) PROVE EntryInv'
    BY <1>7 DEF ExpireRequest
  <1>8. ASSUME NEW c \in Callers, CleanUpExpired(c) PROVE EntryInv'
    BY <1>8, EntryRemoved DEF CleanUpExpired, Returns
  <1>9. ASSUME NEW i \in Ids, ReadResponse(i) PROVE EntryInv'
    BY <1>9 DEF ReadResponse
  <1>10. CASE UNCHANGED <<callVars, pending>>
    BY <1>10
  <1>11. WriteFrame \/ PingSend => UNCHANGED <<callVars, pending>>
    BY DEF WriteFrame, PingSend
  <1> QED
    BY <1>1, <1>2, <1>3, <1>4, <1>5, <1>6, <1>7, <1>8, <1>9, <1>10, <1>11,
       StepKinds DEF CallerStep

(* What a step does to the frames on their way to the server: at most one frame is added, and *)
(* an added frame is the id of the caller that leaves "enqueueing", or a ping.                *)
LEMMA SentStep ==
    ASSUME CallFacts, CallFacts', [Next]_vars, NEW i \in Ids, NotSent(i)
    PROVE  \/ NotSent(i)'
           \/ \E c \in Callers : Enqueue(c) /\ req[c] = i /\ writer = "running"
PROOF
  <1> USE DEF CallFacts, WireTypeOK, NotSent, wireVars
  <1>1. ASSUME NEW c \in Callers, Enqueue(c), req[c] # i \/ writer # "running"
        PROVE  NotSent(i)'
    <2>1. CASE writeQueue' = writeQueue
      BY <1>1, <2>1 DEF Enqueue
    <2>2. CASE writeQueue' = Append(writeQueue, req[c]) /\ req[c] # i
      <3>1. req[c] \in Frames
        BY <1>1, FramesAre DEF Enqueue, InFlightHasId, InFlight
      <3> QED BY <1>1, <2>2, <3>1, QueueAppend DEF Enqueue
    <2> QED BY <1>1, <2>1, <2>2 DEF Enqueue
  <1>2. CASE WriteFrame
    <2>1. writeQueue # <<>> /\ Head(writeQueue) # i /\ writeQueue' = Tail(writeQueue)
      BY <1>2, QueueTail DEF WriteFrame
    <2>2. \A k \in 1 .. Len(writeQueue') : writeQueue'[k] # i
      BY <2>1, QueueTail
    <2>3. i \notin served'
      BY <1>2, <2>1 DEF WriteFrame
    <2> QED BY <2>2, <2>3
  <1>3. CASE PingSend
    <2>1. CASE writeQueue' = writeQueue
      BY <1>3, <2>1 DEF PingSend
    <2>2. CASE writeQueue' = Append(writeQueue, Ping)
      <3>1. Ping # i
        BY ConstantsAssumption DEF Ids, Ping
      <3> QED BY <1>3, <2>2, <3>1, FramesAre, QueueAppend DEF PingSend
    <2> QED BY <1>3, <2>1, <2>2 DEF PingSend
  <1>4. CASE writeQueue' = <<>> /\ served' = served
    BY <1>4
  <1>5. CASE UNCHANGED wireVars
    BY <1>5
  <1>6. ASSUME NEW c \in Callers, StartCall(c) \/ CallerStep(c)
        PROVE  Enqueue(c) \/ UNCHANGED wireVars
    BY <1>6 DEF CallerStep, StartCall, CheckCap, InsertPending, CleanUpUnsent, ReceiveResponse,
       ExpireRequest, CleanUpExpired
  <1>7. ASSUME NEW k \in Ids, ReadResponse(k) PROVE UNCHANGED wireVars
    BY <1>7 DEF ReadResponse
  <1> QED BY <1>1, <1>2, <1>3, <1>4, <1>5, <1>6, <1>7, StepKinds

(* Ids from the counter on have not been used, in the map, by a caller or on the wire. *)
LEMMA FreshStep ==
    ASSUME CallFacts, CallFacts', IdsFresh, [Next]_vars
    PROVE  IdsFresh'
PROOF
  <1> USE DEF CallFacts, CallTypeOK, PendingIds
  <1>0. \/ UNCHANGED <<nextId, req>> /\ \A i \in Ids : pending'[i] \in {pending[i], NoCaller}
        \/ \E c \in Callers : InsertPending(c)
    <2>1. ASSUME NEW c \in Callers, StartCall(c) \/ CallerStep(c), ~InsertPending(c)
          PROVE  UNCHANGED <<nextId, req>> /\ \A i \in Ids : pending'[i] \in {pending[i], NoCaller}
      BY <2>1 DEF CallerStep, StartCall, CheckCap, Enqueue, CleanUpUnsent, ReceiveResponse,
         ExpireRequest, CleanUpExpired
    <2> QED BY <2>1, StepKinds DEF WriteFrame, PingSend, ReadResponse, callVars
  <1>1. nextId \in Nat /\ nextId' \in Nat /\ nextId <= nextId'
    BY <1>0, ConstantsAssumption DEF InsertPending
  <1>2. Ids \subseteq Nat
    BY ConstantsAssumption DEF Ids
  <1>3. \A c \in Callers : req'[c] < nextId'
    <2> SUFFICES ASSUME NEW c \in Callers PROVE req'[c] < nextId'
      OBVIOUS
    <2>1. req'[c] = req[c] \/ (req'[c] = nextId /\ nextId' = nextId + 1)
      BY <1>0 DEF InsertPending
    <2>2. req[c] \in Nat
      <3>1. req[c] \in Ids \/ req[c] = 0
        OBVIOUS
      <3> QED BY <3>1, ConstantsAssumption DEF Ids
    <2>3. req[c] < nextId
      BY DEF IdsFresh
    <2> HIDE DEF CallFacts, CallTypeOK
    <2> QED BY <1>1, <2>1, <2>2, <2>3
  <1>4. \A i \in PendingIds' : i < nextId'
    <2> SUFFICES ASSUME NEW i \in Ids, pending'[i] # NoCaller PROVE i < nextId'
      OBVIOUS
    <2>1. pending[i] # NoCaller \/ (i = nextId /\ nextId' = nextId + 1)
      BY <1>0 DEF InsertPending
    <2> QED BY <1>1, <1>2, <2>1 DEF IdsFresh
  <1>5. \A i \in Ids : ~NotSent(i)' => i < nextId'
    <2> SUFFICES ASSUME NEW i \in Ids, ~NotSent(i)' PROVE i < nextId'
      OBVIOUS
    <2>1. CASE ~NotSent(i)
      <3>1. i < nextId
        <4>1. CASE i \in served
          BY <4>1 DEF IdsFresh
        <4>2. CASE \E k \in 1 .. Len(writeQueue) : writeQueue[k] = i
          BY <4>2 DEF IdsFresh
        <4> QED BY <2>1, <4>1, <4>2 DEF NotSent
      <3> QED BY <1>1, <1>2, <3>1
    <2>2. CASE NotSent(i)
      <3>1. PICK c \in Callers : req[c] = i
        BY <2>2, SentStep
      <3> QED BY <1>1, <1>2, <3>1 DEF IdsFresh
    <2> QED BY <2>1, <2>2
  <1>6. /\ \A i \in served' : i < nextId'
        /\ \A k \in 1 .. Len(writeQueue') : writeQueue'[k] \in Ids => writeQueue'[k] < nextId'
    <2>1. served' \subseteq Ids
      BY DEF WireTypeOK
    <2> QED BY <1>5, <2>1 DEF NotSent
  <1> QED BY <1>3, <1>4, <1>6 DEF IdsFresh

(* A request that has not been sent stays so until its caller enqueues it. *)
LEMMA SendStep ==
    ASSUME CallFacts, CallFacts', IdsFresh, EntryInv, SendInv, [Next]_vars
    PROVE  SendInv'
PROOF
  <1> USE DEF SendInv, CallFacts, CallTypeOK
  <1>1. ResultWhenIdle'
    <2>1. ASSUME NEW c \in Callers, StartCall(c) \/ CallerStep(c) PROVE ResultWhenIdle'
      BY <2>1 DEF CallerStep, StartCall, CheckCap, InsertPending, Enqueue, CleanUpUnsent,
         ReceiveResponse, ExpireRequest, CleanUpExpired, Returns, ResultWhenIdle
    <2> QED BY <2>1, StepKinds DEF WriteFrame, PingSend, ReadResponse, callVars, ResultWhenIdle
  <1>2. UnsentNotSent'
    <2> DEFINE Unsent(c) == pc[c] \in {"enqueueing", "unsent"} \/ result[c] = "send_failed"
    <2> SUFFICES ASSUME NEW c \in Callers, Unsent(c)' PROVE NotSent(req[c])'
      BY DEF UnsentNotSent
    <2>1. CASE \E d \in Callers : InsertPending(d) /\ d = c
      <3>1. req'[c] = nextId /\ UNCHANGED wireVars
        BY <2>1 DEF InsertPending
      <3>2. NotSent(nextId)
        <4>1. nextId \in Nat /\ nextId \in Ids
          BY <2>1, ConstantsAssumption DEF InsertPending, Ids
        <4> QED BY <4>1 DEF NotSent, IdsFresh, WireTypeOK
      <3> QED BY <3>1, <3>2 DEF NotSent, wireVars
    <2>2. CASE \A d \in Callers : InsertPending(d) => d # c
      <3>1. Unsent(c) /\ req'[c] = req[c]
        <4>1. ASSUME NEW d \in Callers, StartCall(d) \/ CallerStep(d)
              PROVE  Unsent(c) /\ req'[c] = req[c]
          BY <2>2, <4>1 DEF CallerStep, StartCall, CheckCap, InsertPending, Enqueue,
             CleanUpUnsent, ReceiveResponse, ExpireRequest, CleanUpExpired, Returns
        <4> QED BY <4>1, StepKinds DEF WriteFrame, PingSend, ReadResponse, callVars
      <3>2. NotSent(req[c])
        BY <3>1 DEF UnsentNotSent
      <3>3. CASE req[c] \notin Ids
        <4>1. req[c] = 0
          BY <3>3
        <4>2. 0 \notin Frames
          BY ConstantsAssumption DEF Frames, Hello, Ping, Ids
        <4> QED BY <3>1, <4>1, <4>2, FramesAre DEF NotSent, WireTypeOK
      <3>4. CASE req[c] \in Ids
        <4>1. ASSUME NEW d \in Callers, Enqueue(d), req[d] = req[c], writer = "running"
              PROVE  FALSE
          <5>1. d # c
            BY <3>1, <4>1 DEF Enqueue, SendInv, ResultWhenIdle
          <5> QED BY <3>4, <4>1, <5>1, FramesAre DEF EntryInv, IdsDistinct
        <4>2. NotSent(req[c])'
          BY <3>1, <3>2, <3>4, <4>1, SentStep
        <4> QED BY <3>1, <4>2
      <3> QED BY <3>3, <3>4
    <2> QED BY <2>1, <2>2
  <1> QED BY <1>1, <1>2

(* Every step keeps the invariant of the calls. *)
LEMMA CallStep == CallInv /\ [Next]_vars => CallInv'
PROOF
  <1> SUFFICES ASSUME CallInv, [Next]_vars PROVE CallInv'
    OBVIOUS
  <1>1. TypeInv'
    BY TypeStep DEF CallInv
  <1>2. CallFacts /\ CallFacts'
    BY <1>1 DEF CallInv, CallFacts, TypeInv, TypeOK
  <1> QED BY <1>1, <1>2, FreshStep, EntryStep, SendStep DEF CallInv

(* No entry of the pending map outlives the call that inserted it. *)
THEOREM PendingIsInFlightCorrect == Spec => []PendingIsInFlight
PROOF
  <1>1. CallInv => PendingIsInFlight
    BY DEF CallInv, EntryInv
  <1> QED BY <1>1, CallInit, CallStep, PTL DEF Spec

(* A caller that waits has its sender in the map, so send_raw never returns Closed. *)
THEOREM WaiterHasSenderCorrect == Spec => []WaiterHasSender
PROOF
  <1>1. CallInv => WaiterHasSender
    BY DEF CallInv, EntryInv
  <1> QED BY <1>1, CallInit, CallStep, PTL DEF Spec

(* A request reported as SendFailed never reached the server and never will. *)
THEOREM FailedSendNeverServedCorrect == Spec => []FailedSendNeverServed
PROOF
  <1>1. CallInv => FailedSendNeverServed
    BY DEF CallInv, SendInv, UnsentNotSent, NotSent, FailedSendNeverServed
  <1> QED BY <1>1, CallInit, CallStep, PTL DEF Spec

-----------------------------------------------------------------------------
(* The refinement of RequestReply.  A request is in the write channel once at most and not    *)
(* again after the server has it; a caller's oneshot holds an answer to its own request.      *)

SentOnce ==
    /\ \A j, k \in 1 .. Len(writeQueue) :
          writeQueue[j] \in Ids /\ writeQueue[j] = writeQueue[k] => j = k
    /\ \A k \in 1 .. Len(writeQueue) : writeQueue[k] \notin served

OwnAnswer ==
    \A c \in Callers : pc[c] \in {"enqueueing", "waiting"} /\ inbox[c] => req[c] \in served

ReplyInv == CallInv /\ SentOnce /\ OwnAnswer

(* A frame appended to the channel is a ping or a request that has not been sent. *)
LEMMA SentOnceAppend ==
    ASSUME CallFacts, SentOnce, NEW f \in Frames, f \in Ids => NotSent(f),
           writeQueue' = Append(writeQueue, f), served' = served
    PROVE  SentOnce'
PROOF
  <1> USE DEF CallFacts, WireTypeOK
  <1> DEFINE n == Len(writeQueue)
  <1>1. /\ n \in Nat
        /\ Len(writeQueue') = n + 1
        /\ \A k \in 1 .. n : writeQueue'[k] = writeQueue[k]
        /\ writeQueue'[n + 1] = f
    BY QueueAppend
  <1>2. \A k \in 1 .. n + 1 : k \in 1 .. n \/ k = n + 1
    BY <1>1
  <1>3. f \in Ids => \A k \in 1 .. n : writeQueue[k] # f
    BY DEF NotSent
  <1>4. f \notin served
    BY DEF NotSent
  <1> HIDE DEF n
  <1>5. ASSUME NEW j \in 1 .. n + 1, NEW k \in 1 .. n + 1,
               writeQueue'[j] \in Ids, writeQueue'[j] = writeQueue'[k]
        PROVE  j = k
    <2>1. CASE j \in 1 .. n /\ k \in 1 .. n
      BY <1>1, <1>5, <2>1 DEF SentOnce, n
    <2>2. CASE j \in 1 .. n /\ k = n + 1
      BY <1>1, <1>3, <1>5, <2>2
    <2>3. CASE j = n + 1 /\ k \in 1 .. n
      BY <1>1, <1>3, <1>5, <2>3
    <2> QED BY <1>2, <2>1, <2>2, <2>3
  <1>6. \A k \in 1 .. n + 1 : writeQueue'[k] \notin served'
    BY <1>1, <1>2, <1>4 DEF SentOnce, n
  <1> QED BY <1>1, <1>5, <1>6 DEF SentOnce

(* The frame the writer takes is not in the channel a second time. *)
LEMMA SentOnceTake ==
    ASSUME CallFacts, SentOnce, WriteFrame
    PROVE  SentOnce'
PROOF
  <1> USE DEF CallFacts, WireTypeOK
  <1>1. /\ writeQueue' = Tail(writeQueue)
        /\ Len(writeQueue') = Len(writeQueue) - 1
        /\ Len(writeQueue) \in Nat \ {0}
        /\ \A k \in 1 .. Len(writeQueue') : writeQueue'[k] = writeQueue[k + 1]
        /\ Head(writeQueue) = writeQueue[1]
    BY QueueTail DEF WriteFrame
  <1>2. \A k \in 1 .. Len(writeQueue') : k + 1 \in 1 .. Len(writeQueue) /\ k + 1 # 1
    BY <1>1
  <1>3. ASSUME NEW j \in 1 .. Len(writeQueue'), NEW k \in 1 .. Len(writeQueue'),
               writeQueue'[j] \in Ids, writeQueue'[j] = writeQueue'[k]
        PROVE  j = k
    <2>1. j + 1 = k + 1
      BY <1>1, <1>2, <1>3 DEF SentOnce
    <2> QED BY <1>1, <2>1
  <1>4. ASSUME NEW k \in 1 .. Len(writeQueue') PROVE writeQueue'[k] \notin served'
    <2>1. served' = served \cup ({writeQueue[1]} \cap Ids)
      BY <1>1 DEF WriteFrame
    <2>2. writeQueue[k + 1] \notin served
      BY <1>2 DEF SentOnce
    <2>3. writeQueue[1] \in Ids => writeQueue[k + 1] # writeQueue[1]
      BY <1>1, <1>2 DEF SentOnce
    <2> QED BY <1>1, <2>1, <2>2, <2>3
  <1> QED BY <1>3, <1>4 DEF SentOnce

(* What a call, a response and the other steps do to the frames on their way. *)
LEMMA WireSteps ==
    ASSUME [Next]_vars
    PROVE  \/ UNCHANGED wireVars
           \/ \E c \in Callers : /\ Enqueue(c)
                                 /\ writeQueue' = Append(writeQueue, req[c])
                                 /\ served' = served
           \/ WriteFrame
           \/ writeQueue' = Append(writeQueue, Ping) /\ served' = served
           \/ writeQueue' = <<>> /\ served' = served
PROOF
  <1> USE DEF wireVars
  <1>1. ASSUME NEW c \in Callers, Enqueue(c)
        PROVE  UNCHANGED wireVars \/ (writeQueue' = Append(writeQueue, req[c]) /\ served' = served)
    BY <1>1 DEF Enqueue
  <1>2. ASSUME NEW c \in Callers, StartCall(c) \/ CallerStep(c)
        PROVE  Enqueue(c) \/ UNCHANGED wireVars
    BY <1>2 DEF CallerStep, StartCall, CheckCap, InsertPending, CleanUpUnsent, ReceiveResponse,
       ExpireRequest, CleanUpExpired
  <1>3. PingSend => UNCHANGED wireVars \/ (writeQueue' = Append(writeQueue, Ping) /\ served' = served)
    BY DEF PingSend
  <1>4. ASSUME NEW k \in Ids, ReadResponse(k) PROVE UNCHANGED wireVars
    BY <1>4 DEF ReadResponse
  <1> QED BY <1>1, <1>2, <1>3, <1>4, StepKinds

(* No request enters the channel twice. *)
LEMMA SentOnceStep ==
    ASSUME CallFacts, SentOnce, SendInv, [Next]_vars
    PROVE  SentOnce'
PROOF
  <1>1. ASSUME NEW c \in Callers, Enqueue(c), writeQueue' = Append(writeQueue, req[c]),
               served' = served
        PROVE  SentOnce'
    <2>1. req[c] \in Frames /\ NotSent(req[c])
      BY <1>1, FramesAre DEF Enqueue, CallFacts, InFlightHasId, InFlight, SendInv, UnsentNotSent
    <2> QED BY <1>1, <2>1, SentOnceAppend
  <1>2. CASE writeQueue' = Append(writeQueue, Ping) /\ served' = served
    <2>1. Ping \in Frames /\ Ping \notin Ids
      BY FramesAre, ConstantsAssumption DEF Ids, Ping
    <2> QED BY <1>2, <2>1, SentOnceAppend
  <1>3. CASE writeQueue' = <<>> /\ served' = served
    BY <1>3, QueueEmpty DEF SentOnce
  <1>4. CASE UNCHANGED wireVars
    BY <1>4 DEF wireVars, SentOnce
  <1> QED BY <1>1, <1>2, <1>3, <1>4, SentOnceTake, WireSteps

(* What the server has stays there. *)
LEMMA ServedGrows ==
    ASSUME [Next]_vars
    PROVE  served \subseteq served'
PROOF BY WireSteps DEF wireVars, WriteFrame

(* An answer only reaches the caller whose request it answers. *)
LEMMA OwnAnswerStep ==
    ASSUME CallFacts, OwnAnswer, [Next]_vars
    PROVE  OwnAnswer'
PROOF
  <1> USE DEF CallFacts, CallTypeOK, OwnAnswer
  <1>0. served \subseteq served'
    BY ServedGrows
  <1>1. ASSUME NEW c \in Callers, StartCall(c) \/ CallerStep(c) PROVE OwnAnswer'
    BY <1>0, <1>1 DEF CallerStep, StartCall, CheckCap, InsertPending, Enqueue, CleanUpUnsent,
       ReceiveResponse, ExpireRequest, CleanUpExpired, Returns
  <1>2. ASSUME NEW i \in Ids, ReadResponse(i) PROVE OwnAnswer'
    BY <1>0, <1>2 DEF ReadResponse
  <1>3. CASE UNCHANGED <<callVars, pending>>
    BY <1>0, <1>3 DEF callVars
  <1>4. WriteFrame \/ PingSend => UNCHANGED <<callVars, pending>>
    BY DEF WriteFrame, PingSend
  <1> QED BY <1>1, <1>2, <1>3, <1>4, StepKinds

(* The channel holds the hello frame and nobody has an answer at the start. *)
LEMMA ReplyInit == Init => ReplyInv
PROOF
  <1> SUFFICES ASSUME Init PROVE ReplyInv
    OBVIOUS
  <1>1. <<Hello>>[1] \notin Ids /\ Len(<<Hello>>) = 1
    BY ConstantsAssumption DEF Ids, Hello
  <1>2. SentOnce
    BY <1>1 DEF Init, SentOnce
  <1>3. OwnAnswer
    BY DEF Init, OwnAnswer
  <1> QED BY <1>2, <1>3, CallInit DEF ReplyInv

(* Every step keeps it. *)
LEMMA ReplyStep == ReplyInv /\ [Next]_vars => ReplyInv'
PROOF
  <1> SUFFICES ASSUME ReplyInv, [Next]_vars PROVE ReplyInv'
    OBVIOUS
  <1>1. CallFacts
    BY DEF ReplyInv, CallInv, CallFacts, TypeInv, TypeOK
  <1> QED BY <1>1, CallStep, SentOnceStep, OwnAnswerStep DEF ReplyInv, CallInv

(* The connection starts as RequestReply does. *)
LEMMA RpcInit == Init => Rpc!Init
PROOF
  <1> SUFFICES ASSUME Init PROVE Rpc!Init
    OBVIOUS
  <1>1. BusyCallers = {} /\ CurrentRequest = [c \in Callers |-> 0]
    BY DEF Init, BusyCallers, CurrentRequest
  <1>2. IssuedIds = {}
    BY ConstantsAssumption DEF Init, IssuedIds, Ids
  <1>3. OpenIds = {}
    <2>1. <<Hello>>[1] \notin Ids /\ Len(<<Hello>>) = 1
      BY ConstantsAssumption DEF Ids, Hello
    <2> QED BY <2>1 DEF Init, OpenIds
  <1> QED BY <1>1, <1>2, <1>3 DEF Init, Rpc!Init

(* A call that ends, as RequestReply sees it: its caller is out, its request no longer current. *)
LEMMA ReturnMaps ==
    ASSUME CallFacts, NEW c \in Callers, NEW o, Returns(c, o), pc[c] # "enqueueing",
           UNCHANGED <<wireVars, nextId, req>>
    PROVE  Rpc!Return(c, o)
PROOF
  <1> USE DEF CallFacts, CallTypeOK, Returns, wireVars
  <1>1. BusyCallers' = BusyCallers \ {c}
    BY DEF BusyCallers
  <1>2. CurrentRequest' = [CurrentRequest EXCEPT ![c] = 0]
    BY DEF CurrentRequest
  <1>3. IssuedIds' = IssuedIds /\ OpenIds' = OpenIds
    BY DEF IssuedIds, OpenIds
  <1> QED BY <1>1, <1>2, <1>3 DEF Rpc!Return

(* The steps of a call, each with the step of RequestReply it is. *)
LEMMA CallRefines ==
    ASSUME ReplyInv, NEW c \in Callers, StartCall(c) \/ CallerStep(c)
    PROVE  Rpc!Next \/ UNCHANGED Rpc!vars
PROOF
  <1> USE DEF CallTypeOK, wireVars
  <1>0. CallFacts
    BY DEF ReplyInv, CallInv, CallFacts, TypeInv, TypeOK
  <1> USE <1>0 DEF CallFacts
  <1>1. CASE StartCall(c)
    <2>1. CASE connected
      <3>1. BusyCallers' = BusyCallers \cup {c} /\ c \notin BusyCallers
        BY <1>1, <2>1 DEF StartCall, BusyCallers
      <3>2. CurrentRequest' = CurrentRequest
        BY <1>1, <2>1 DEF StartCall, CurrentRequest
      <3>3. IssuedIds' = IssuedIds /\ OpenIds' = OpenIds
        BY <1>1, <2>1 DEF StartCall, IssuedIds, OpenIds
      <3>4. Rpc!Call(c)
        BY <1>1, <2>1, <3>1, <3>2, <3>3 DEF StartCall, Rpc!Call
      <3> QED BY <3>4 DEF Rpc!Next
    <2>2. CASE ~connected
      <3>1. CurrentRequest[c] = 0
        BY <1>1 DEF StartCall, CurrentRequest
      <3>2. Rpc!Return(c, "not_connected")
        BY <1>1, <2>2, ReturnMaps DEF StartCall
      <3> QED BY <3>1, <3>2 DEF Rpc!Next, Rpc!Refuse
    <2> QED BY <2>1, <2>2
  <1>2. CASE CheckCap(c)
    <2>1. CASE Cardinality(PendingIds) >= MaxPending
      <3>1. CurrentRequest[c] = 0
        BY <1>2 DEF CheckCap, CurrentRequest
      <3>2. Rpc!Return(c, "exceeded")
        BY <1>2, <2>1, ReturnMaps DEF CheckCap
      <3> QED BY <3>1, <3>2 DEF Rpc!Next, Rpc!Refuse
    <2>2. CASE ~(Cardinality(PendingIds) >= MaxPending)
      <3>1. BusyCallers' = BusyCallers /\ CurrentRequest' = CurrentRequest
        BY <1>2, <2>2 DEF CheckCap, BusyCallers, CurrentRequest
      <3>2. IssuedIds' = IssuedIds /\ OpenIds' = OpenIds
        BY <1>2, <2>2 DEF CheckCap, IssuedIds, OpenIds
      <3> QED BY <1>2, <2>2, <3>1, <3>2 DEF CheckCap, Rpc!vars
    <2> QED BY <2>1, <2>2
  <1>3. CASE InsertPending(c)
    <2>1. nextId \in Ids /\ nextId \notin IssuedIds
      BY <1>3, ConstantsAssumption DEF InsertPending, Ids, IssuedIds
    <2>2. BusyCallers' = BusyCallers /\ c \in BusyCallers
      BY <1>3 DEF InsertPending, BusyCallers
    <2>3. CurrentRequest[c] = 0 /\ CurrentRequest' = [CurrentRequest EXCEPT ![c] = nextId]
      BY <1>3 DEF InsertPending, CurrentRequest
    <2>4. IssuedIds' = IssuedIds \cup {nextId}
      BY <1>3, <2>1, ConstantsAssumption DEF InsertPending, IssuedIds, Ids
    <2>5. OpenIds' = OpenIds \cup {nextId}
      BY <1>3, <2>1 DEF InsertPending, OpenIds
    <2>6. Rpc!Issue(c, nextId)
      BY <1>3, <2>1, <2>2, <2>3, <2>4, <2>5 DEF InsertPending, Rpc!Issue
    <2> QED BY <2>1, <2>6 DEF Rpc!Next
  <1>4. CASE Enqueue(c)
    <2>1. BusyCallers' = BusyCallers /\ CurrentRequest' = CurrentRequest
      BY <1>4 DEF Enqueue, BusyCallers, CurrentRequest
    <2>2. IssuedIds' = IssuedIds /\ UNCHANGED <<result, served>>
      BY <1>4 DEF Enqueue, IssuedIds
    <2>3. CASE writeQueue' = Append(writeQueue, req[c])
      <3>1. req[c] \in Frames
        BY <1>4, FramesAre DEF Enqueue, InFlightHasId, InFlight
      <3>2. \A i : (\E k \in 1 .. Len(writeQueue') : writeQueue'[k] = i)
                     <=> (\E k \in 1 .. Len(writeQueue) : writeQueue[k] = i) \/ i = req[c]
        BY <2>3, <3>1, QueueAppend DEF WireTypeOK
      <3>3. \A i \in Ids : (\E d \in Callers : pc'[d] = "enqueueing" /\ req'[d] = i) \/ i = req[c]
                             <=> (\E d \in Callers : pc[d] = "enqueueing" /\ req[d] = i)
        BY <1>4, <2>3 DEF Enqueue
      <3>4. OpenIds' = OpenIds
        BY <3>2, <3>3 DEF OpenIds
      <3> QED BY <2>1, <2>2, <3>4 DEF Rpc!vars
    <2>4. CASE writeQueue' = writeQueue
      <3>1. OpenIds' \subseteq OpenIds
        BY <1>4, <2>4 DEF Enqueue, OpenIds
      <3>2. Rpc!Lose(OpenIds \ OpenIds')
        BY <2>1, <2>2, <3>1 DEF Rpc!Lose
      <3> QED BY <3>2 DEF Rpc!Next
    <2> QED BY <1>4, <2>3, <2>4 DEF Enqueue
  <1>5. CASE CleanUpUnsent(c)
    <2>1. CurrentRequest[c] = req[c] /\ req[c] \in Ids
      BY <1>5 DEF CleanUpUnsent, CurrentRequest, InFlightHasId, InFlight
    <2>2. req[c] \notin served /\ \A k \in 1 .. Len(writeQueue) : writeQueue[k] # req[c]
      BY <1>5 DEF CleanUpUnsent, ReplyInv, CallInv, SendInv, UnsentNotSent, NotSent
    <2>3. \A d \in Callers : pc[d] = "enqueueing" => req[d] # req[c]
      BY <1>5, <2>1, FramesAre DEF CleanUpUnsent, ReplyInv, CallInv, EntryInv, IdsDistinct
    <2>4. req[c] \notin OpenIds
      BY <2>2, <2>3 DEF OpenIds
    <2>5. Rpc!Return(c, "send_failed")
      BY <1>5, ReturnMaps DEF CleanUpUnsent
    <2> QED BY <2>1, <2>2, <2>4, <2>5, FramesAre DEF Rpc!Next, Rpc!FailToSend
  <1>6. CASE ReceiveResponse(c)
    <2>1. CurrentRequest[c] = req[c] /\ req[c] \in served
      BY <1>6 DEF ReceiveResponse, CurrentRequest, ReplyInv, OwnAnswer
    <2>2. Rpc!Return(c, "ok")
      BY <1>6, ReturnMaps DEF ReceiveResponse
    <2> QED BY <2>1, <2>2 DEF Rpc!Next, Rpc!Answer
  <1>7. CASE ExpireRequest(c)
    <2>1. BusyCallers' = BusyCallers /\ CurrentRequest' = CurrentRequest
      BY <1>7 DEF ExpireRequest, BusyCallers, CurrentRequest
    <2>2. IssuedIds' = IssuedIds /\ OpenIds' = OpenIds
      BY <1>7 DEF ExpireRequest, IssuedIds, OpenIds
    <2> QED BY <1>7, <2>1, <2>2 DEF ExpireRequest, Rpc!vars
  <1>8. CASE CleanUpExpired(c)
    <2>1. CurrentRequest[c] # 0
      BY <1>8, FramesAre DEF CleanUpExpired, CurrentRequest, InFlightHasId, InFlight
    <2>2. Rpc!Return(c, "timeout")
      BY <1>8, ReturnMaps DEF CleanUpExpired
    <2> QED BY <2>1, <2>2 DEF Rpc!Next, Rpc!GiveUp
  <1> QED
    BY <1>1, <1>2, <1>3, <1>4, <1>5, <1>6, <1>7, <1>8 DEF CallerStep

(* The writer hands the server a request that was on its way, for the only time. *)
LEMMA WriteRefines ==
    ASSUME ReplyInv, WriteFrame
    PROVE  Rpc!Next \/ UNCHANGED Rpc!vars
PROOF
  <1>0. CallFacts
    BY DEF ReplyInv, CallInv, CallFacts, TypeInv, TypeOK
  <1> DEFINE head == Head(writeQueue)
  <1>1. /\ Len(writeQueue) \in Nat \ {0}
        /\ Len(writeQueue') = Len(writeQueue) - 1
        /\ \A k \in 1 .. Len(writeQueue') : writeQueue'[k] = writeQueue[k + 1]
        /\ head = writeQueue[1]
        /\ served' = served \cup ({head} \cap Ids)
    BY <1>0, QueueTail DEF WriteFrame, CallFacts, WireTypeOK
  <1>2. UNCHANGED callVars
    BY DEF WriteFrame
  <1>3. BusyCallers' = BusyCallers /\ CurrentRequest' = CurrentRequest /\ IssuedIds' = IssuedIds
    BY <1>2 DEF callVars, BusyCallers, CurrentRequest, IssuedIds
  <1>4. ASSUME NEW i \in Ids
        PROVE  (\E k \in 1 .. Len(writeQueue') : writeQueue'[k] = i)
                 <=> i # head /\ \E k \in 1 .. Len(writeQueue) : writeQueue[k] = i
    <2>1. ASSUME NEW k \in 1 .. Len(writeQueue'), writeQueue'[k] = i
          PROVE  i # head /\ \E j \in 1 .. Len(writeQueue) : writeQueue[j] = i
      <3>1. k + 1 \in 1 .. Len(writeQueue) /\ 1 \in 1 .. Len(writeQueue) /\ k + 1 # 1
        BY <1>1
      <3>2. writeQueue[k + 1] = i
        BY <1>1, <2>1
      <3> QED BY <1>1, <3>1, <3>2 DEF ReplyInv, SentOnce
    <2>2. ASSUME NEW k \in 1 .. Len(writeQueue), writeQueue[k] = i, i # head
          PROVE  \E j \in 1 .. Len(writeQueue') : writeQueue'[j] = i
      <3>1. k - 1 \in 1 .. Len(writeQueue') /\ (k - 1) + 1 = k
        BY <1>1, <2>2
      <3>2. writeQueue'[k - 1] = i
        BY <1>1, <2>2, <3>1
      <3> QED BY <3>1, <3>2
    <2> QED BY <2>1, <2>2
  <1>5. ASSUME NEW c \in Callers, pc[c] = "enqueueing" PROVE req[c] # head
    <2>1. \A k \in 1 .. Len(writeQueue) : writeQueue[k] # req[c]
      BY <1>5 DEF ReplyInv, CallInv, SendInv, UnsentNotSent, NotSent
    <2>2. 1 \in 1 .. Len(writeQueue)
      BY <1>1
    <2> QED BY <1>1, <2>1, <2>2
  <1>6. OpenIds' = OpenIds \ {head}
    BY <1>2, <1>4, <1>5 DEF OpenIds, callVars
  <1>7. CASE head \in Ids
    <2>1. head \in OpenIds
      <3>1. 1 \in 1 .. Len(writeQueue)
        BY <1>1
      <3> QED BY <1>1, <1>7, <3>1 DEF OpenIds
    <2>2. Rpc!Serve(head)
      BY <1>1, <1>2, <1>3, <1>6, <1>7, <2>1 DEF Rpc!Serve, callVars
    <2> QED BY <1>7, <2>2 DEF Rpc!Next
  <1>8. CASE head \notin Ids
    <2>1. OpenIds' = OpenIds
      BY <1>6, <1>8 DEF OpenIds
    <2>2. served' = served
      BY <1>1, <1>8
    <2> QED BY <1>2, <1>3, <2>1, <2>2 DEF Rpc!vars, callVars
  <1> QED BY <1>7, <1>8

(* Every step of the connection is a step of RequestReply or changes nothing it sees. *)
LEMMA RpcStep == ReplyInv /\ [Next]_vars => [Rpc!Next]_(Rpc!vars)
PROOF
  <1> SUFFICES ASSUME ReplyInv, [Next]_vars PROVE Rpc!Next \/ UNCHANGED Rpc!vars
    OBVIOUS
  <1>0. CallFacts
    BY DEF ReplyInv, CallInv, CallFacts, TypeInv, TypeOK
  <1>1. ASSUME NEW i \in Ids, ReadResponse(i) PROVE UNCHANGED <<wireVars, nextId, pc, req, result>>
    BY <1>1 DEF ReadResponse
  <1>2. CASE UNCHANGED <<wireVars, nextId, pc, req, result>>
    <2>1. BusyCallers' = BusyCallers /\ CurrentRequest' = CurrentRequest
      BY <1>2 DEF BusyCallers, CurrentRequest
    <2>2. IssuedIds' = IssuedIds /\ OpenIds' = OpenIds
      BY <1>2 DEF IssuedIds, OpenIds, wireVars
    <2> QED BY <1>2, <2>1, <2>2 DEF Rpc!vars, wireVars
  <1>3. CASE UNCHANGED callVars /\ served' = served /\ writeQueue' \in {<<>>, Append(writeQueue, Ping)}
    <2>1. BusyCallers' = BusyCallers /\ CurrentRequest' = CurrentRequest /\ IssuedIds' = IssuedIds
      BY <1>3 DEF callVars, BusyCallers, CurrentRequest, IssuedIds
    <2>2. \A i \in Ids, k \in 1 .. Len(writeQueue') :
             writeQueue'[k] = i => \E j \in 1 .. Len(writeQueue) : writeQueue[j] = i
      <3>1. CASE writeQueue' = <<>>
        BY <3>1, QueueEmpty
      <3>2. CASE writeQueue' = Append(writeQueue, Ping)
        <4>1. Ping \in Frames /\ Ping \notin Ids
          BY FramesAre, ConstantsAssumption DEF Ids, Ping
        <4> QED BY <1>0, <3>2, <4>1, QueueAppend DEF CallFacts, WireTypeOK
      <3> QED BY <1>3, <3>1, <3>2
    <2>3. OpenIds' \subseteq OpenIds
      BY <1>3, <2>2 DEF OpenIds, callVars
    <2>4. Rpc!Lose(OpenIds \ OpenIds')
      BY <1>3, <2>1, <2>3 DEF Rpc!Lose, callVars
    <2> QED BY <2>4 DEF Rpc!Next
  <1>4. CASE PingSend
    BY <1>2, <1>3, <1>4 DEF PingSend, callVars, wireVars
  <1> QED BY <1>1, <1>2, <1>3, <1>4, CallRefines, WriteRefines, StepKinds DEF callVars

(* The connection implements RequestReply for any number of callers, any cap and any channel  *)
(* capacity: a call gets the answer to its own request, the server each request once.         *)
THEOREM ImplementsRequestReplyCorrect == Spec => ImplementsRequestReply
PROOF
  <1> QED BY RpcInit, RpcStep, ReplyInit, ReplyStep, PTL DEF Spec, ImplementsRequestReply, Rpc!Spec

(* Calls in flight never share a request, and a request that the server has is never on its   *)
(* way to it again: what a retry after SendFailed relies on.                                  *)
THEOREM ExclusiveCorrect == Spec => []Rpc!Exclusive
PROOF
  <1>1. ReplyInv => Rpc!Exclusive
    <2> SUFFICES ASSUME ReplyInv PROVE Rpc!Exclusive
      OBVIOUS
    <2> USE DEF ReplyInv, CallInv
    <2>1. ASSUME NEW c \in Callers, NEW d \in Callers, c # d,
                 CurrentRequest[c] = CurrentRequest[d]
          PROVE  CurrentRequest[c] = 0
      BY <2>1 DEF CurrentRequest, EntryInv, IdsDistinct
    <2>2. OpenIds \cap served = {}
      BY DEF OpenIds, SentOnce, SendInv, UnsentNotSent, NotSent
    <2> QED BY <2>1, <2>2 DEF Rpc!Exclusive
  <1> QED BY <1>1, ReplyInit, ReplyStep, PTL DEF Spec

-----------------------------------------------------------------------------
(* A server push that is read stays accounted for, whatever the consumer and the other tasks do. *)
LEMMA PushesStep == TypeOK /\ PushesAccountedFor /\ [Next]_vars => PushesAccountedFor'
PROOF
  <1> SUFFICES ASSUME TypeOK, PushesAccountedFor, [Next]_vars PROVE PushesAccountedFor'
    OBVIOUS
  <1> USE DEF TypeOK, HandshakeTypeOK, EventTypeOK, PushesAccountedFor
  <1>1. CASE UNCHANGED <<eventVars, handshakeTx>>
    BY <1>1 DEF eventVars
  <1>2. ASSUME NEW h \in BOOLEAN, NEW e \in BOOLEAN, ReadUnsolicited(h, e)
        PROVE  PushesAccountedFor'
    <2>1. CASE handshakeTx
      BY <1>2, <2>1 DEF ReadUnsolicited
    <2>2. CASE ~handshakeTx
      BY <1>2, <2>2, ConstantsAssumption DEF ReadUnsolicited, ForwardEventOrDrop
    <2> QED BY <2>1, <2>2
  <1>3. CASE TakeEvent
    BY <1>3 DEF TakeEvent, handshakeVars
  <1>4. CASE HandshakeFailed \/ DropReceiver
    BY <1>4 DEF HandshakeFailed, DropReceiver
  <1>5. ASSUME NEW c \in Callers, StartCall(c) \/ CallerStep(c)
        PROVE  UNCHANGED <<eventVars, handshakeTx>>
    BY <1>5 DEF CallerStep, handshakeVars, StartCall, CheckCap, InsertPending, Enqueue,
                CleanUpUnsent, ReceiveResponse, ExpireRequest, CleanUpExpired
  <1>6. ASSUME NEW i \in Ids, ReadResponse(i)
        PROVE  UNCHANGED <<eventVars, handshakeTx>>
    BY <1>6 DEF ReadResponse, handshakeVars
  <1>7. ASSUME \/ WriteFrame \/ WriteError \/ PingTick \/ PingSend
               \/ ReadEnd \/ HandshakeDone \/ Shutdown
        PROVE  UNCHANGED <<eventVars, handshakeTx>>
    BY <1>7 DEF WriteFrame, WriteError, PingTick, PingSend, ReadEnd, HandshakeDone, Shutdown,
                handshakeVars
  <1>8. UNCHANGED vars => UNCHANGED <<eventVars, handshakeTx>>
    BY DEF vars, handshakeVars
  <1> QED BY <1>1, <1>2, <1>3, <1>4, <1>5, <1>6, <1>7, <1>8 DEF Next

(* Every push read while there is a consumer is delivered, queued or counted as dropped. *)
THEOREM PushesAccountedForCorrect == Spec => []PushesAccountedFor
PROOF
  <1>1. Init => PushesAccountedFor
    BY DEF Init, PushesAccountedFor
  <1> QED BY <1>1, PushesStep, TypeCorrect, PTL DEF Spec
=============================================================================
