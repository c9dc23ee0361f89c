----------------------------- MODULE PlatformRest -----------------------------
(***************************************************************************)
(* RestHulyClient: the requests of a tool call to the transactor, with the *)
(* retries after a 429, and CollaboratorClient, whose retries are others.  *)
(*                                                                         *)
(* A request is one step: it takes effect at one moment and its caller     *)
(* does nothing until the answer.  An answer that gets lost after the      *)
(* transaction was applied is a fault of its own.  A sleep is no step.     *)
(***************************************************************************)
EXTENDS McpCall

CONSTANTS
    Max429,        \* RestHulyConfig.max_429_retries: 3 in the code
    CollabAttempts \* MAX_RETRIES of collaborator.rs: 3 in the code

ASSUME RestAssumption ==
    /\ Max429 \in Nat
    /\ CollabAttempts \in Nat \ {0}

VARIABLES
    docs,  \* external: the documents of the workspace
    blobs  \* external: the markup contents stored by the collaborator service

world == <<docs, blobs, trail>>

(***************************************************************************)
(* send_with_retry, when it fails: another try after a 429, or the end.    *)
(* `r` tells the requests of a step apart where it makes several at once.  *)
(* Errors of the steps in Direct reach the error record with their code,   *)
(* those that pass through tools.rs have become text.                      *)
(***************************************************************************)
Direct == {"find_all", "find_one", "create_doc", "update_doc", "remove_doc"}

Rpc(c, code) == FailWith(c, code, IF Head(todo[c]) \in Direct THEN code ELSE Plain, None)

Tries(c, r) == IF r \in DOMAIN loc[c].tries THEN loc[c].tries[r] ELSE 0

Throttled(c, r) ==
    /\ Fault
    /\ IF Tries(c, r) < Max429
       THEN /\ loc' = [loc EXCEPT ![c].tries = Extended([x \in {r} |-> Tries(c, r) + 1], @)]
            /\ UNCHANGED <<todo, outcome>>
       ELSE Rpc(c, "rate_limited")

(* A status other than 2xx and 429, or an `error` in the body; no connection, no body. *)
Refused(c) ==
    /\ Fault
    /\ Rpc(c, "http_500") \/ Fail(c, "network")

SendWithRetry(c, r, Success) ==
    \/ (Throttled(c, r) \/ Refused(c)) /\ UNCHANGED world
    \/ Success /\ UNCHANGED faults

-----------------------------------------------------------------------------
(* Queries.  K says what the caller does with the result. *)

FindAllDocs(c, r, class, query, K(_)) ==
    SendWithRetry(c, r, K(FindAll(docs, class, query)) /\ UNCHANGED world)

(* limit = 1: any one of the documents. *)
FindOne(c, class, query, K(_)) ==
    LET First(found) == IF found = {} THEN K(None) ELSE \E d \in found : K(d)
    IN FindAllDocs(c, "first", class, query, First)

-----------------------------------------------------------------------------
(* Transactions.  The history notes what was applied; the id of the call is its request_id, *)
(* which raw_tx stamps on the envelope.                                                     *)

FieldsOf(tx) ==
    CASE tx.op = "update" -> DOMAIN tx.set \cup tx.inc
      [] OTHER -> {}

TxEntry(tx) == [rec |-> "tx", op |-> tx.op, fields |-> FieldsOf(tx)]

Applied(c, tx) ==
    /\ docs' = Apply(docs, tx)
    /\ IF Accepts(docs, tx) THEN Record(c, TxEntry(tx)) ELSE UNCHANGED trail
    /\ UNCHANGED blobs

(* Mutant: a lost answer is retried like a 429. *)
AnswerLostRetried(c, tx) ==
    /\ Fault
    /\ Applied(c, tx)
    /\ UNCHANGED callVars

(* The answer is lost: for the caller a failure like any other, and never retried. *)
AnswerLost(c, tx) ==
    /\ Fault
    /\ Applied(c, tx)
    /\ Fail(c, "network")

RawTx(c, tx, K(_)) ==
    \/ SendWithRetry(c, "tx", Applied(c, tx) /\ K(Accepts(docs, tx)))
    \/ AnswerLost(c, tx)

(* gen_tx_id: unique, so the call's n-th id. *)
GenTxId(c, n) == ToString(<<c, n>>)

(* The answer is not looked at: the new id is returned. *)
CreateDoc(c, class, space, attrs) ==
    LET id == GenTxId(c, 1)
        Created(success) == Return(c, [id |-> id])
    IN RawTx(c, TxCreateDoc(id, class, space, attrs), Created)

UpdateDoc(c, id, ops) ==
    LET Result(success) == Return(c, [success |-> success, id |-> id])
    IN RawTx(c, TxUpdateDoc(id, ops.set, ops.inc), Result)

RemoveDoc(c, id) ==
    LET Result(success) == Return(c, [success |-> success, id |-> id])
    IN RawTx(c, TxRemoveDoc(id), Result)

UpdateCollection(c, id, set, value) ==
    LET Result(success) == Return(c, value)
    IN RawTx(c, TxUpdateDoc(id, set, {}), Result)

ApplyIfTx(c, match, notMatch, txes, K(_)) ==
    RawTx(c, TxApplyIf(match, notMatch, txes), K)

-----------------------------------------------------------------------------
(* The collaborator service: rpc() retries a transport error, after which the content may be *)
(* stored or not; an answer with an error status ends the call.                               *)

(* Mutant: one attempt too many. *)
TransportErrorLate(c) ==
    IF loc[c].attempt < CollabAttempts
    THEN /\ loc' = [loc EXCEPT ![c].attempt = @ + 1]
         /\ UNCHANGED <<todo, outcome>>
    ELSE Fail(c, "collaborator")

TransportError(c) ==
    IF loc[c].attempt + 1 < CollabAttempts
    THEN /\ loc' = [loc EXCEPT ![c].attempt = @ + 1]
         /\ UNCHANGED <<todo, outcome>>
    ELSE Fail(c, "collaborator")

(* Mutant: the status of the answer is not looked at. *)
CollaboratorRpcTrusting(c, Effect, Success) ==
    \/ Fault /\ TransportError(c) /\ (Effect \/ UNCHANGED blobs)
    \/ Fault /\ Success /\ UNCHANGED blobs
    \/ Effect /\ Success /\ UNCHANGED faults

CollaboratorRpc(c, Effect, Success) ==
    \/ Fault /\ TransportError(c) /\ (Effect \/ UNCHANGED blobs)
    \/ Fault /\ Fail(c, "collaborator") /\ UNCHANGED blobs
    \/ Effect /\ Success /\ UNCHANGED faults

(* createContent stores a new blob every time. *)
CreateMarkup(c, content) ==
    LET ref == GenTxId(c, loc[c].attempt + 1)
    IN /\ CollaboratorRpc(c, blobs' = blobs \cup {[ref |-> ref, content |-> content]},
                          Return(c, [ref |-> ref]))
       /\ UNCHANGED <<docs, trail>>

(* getContent; without a source it is the latest content. *)
GetMarkup(c, source) ==
    LET stored == {x \in blobs : source = "" \/ x.ref = source}
    IN /\ \/ \E b \in stored : CollaboratorRpc(c, UNCHANGED blobs, Return(c, b))
          \/ stored = {} /\ Fail(c, "collaborator") /\ UNCHANGED <<blobs, faults>>
       /\ UNCHANGED <<docs, trail>>
=============================================================================
