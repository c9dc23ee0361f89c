-------------------------------- MODULE Wire --------------------------------
(***************************************************************************)
(* What a client makes of an answer.  The platform can be reached by two   *)
(* transports that implement one trait (PlatformClient): JSON-RPC over the *)
(* WebSocket (client.rs, rpc.rs) and REST (rest_huly_client.rs); the other *)
(* HTTP services by rest.rs, accounts.rs and proxy.rs.                     *)
(* One call of each is followed from the request it sends, through the     *)
(* answers and the retries, to the outcome its caller sees.                *)
(***************************************************************************)
EXTENDS Naturals, Sequences, Records, WireValues

CONSTANTS Max429Retries,  \* RestHulyConfig.max_429_retries
          DefaultRetry,   \* RestHulyConfig.default_retry_after, in ms
          MaxRetry,       \* RestHulyConfig.max_retry_after, in ms
          LastMillis,     \* u64::MAX, scaled to TLC's integers
          Payloads        \* what the service answers: [result |-> v] or [error |-> v]

ASSUME RetriesAssumption ==
    /\ Max429Retries \in Nat /\ DefaultRetry \in Nat
    /\ LastMillis \in Nat /\ MaxRetry \in 0 .. LastMillis

(* A result is no object with an error in it. *)
ASSUME PayloadsAssumption ==
    \A p \in Payloads :
        \/ DOMAIN p = {"result"} /\ ~Has(p.result, "error")
        \/ DOMAIN p = {"error"}

VARIABLES payload,        \* what the service answers in this behaviour
          exchange        \* per client: its call and how far it got

wireVars == <<payload, exchange>>

-----------------------------------------------------------------------------
\* The error object of a WebSocket frame.  `code` may be any value, `message`
\* has to be a string when present; otherwise the frame does not decode.
RpcErrorDecodes(e) ==
    Has(e, "code") /\ IsStr(Field(e, "message", Str("")))

ParamsMessage(e) == StrField(Field(e, "params", Null), "message", "")

RpcError(e) ==
    LET direct == StrField(e, "message", "")
    IN  Err("Rpc", Text(e.obj.code), IF direct # "" THEN direct ELSE ParamsMessage(e))

\* Mutant: a message under `params` is not looked at.
LiftStatusDirect(e) ==
    Err("Rpc", Text(Field(e, "code", Str("unknown"))), StrField(e, "message", ""))

\* The same object in an HTTP body.
LiftStatus(e) ==
    LET direct == StrField(e, "message", "")
    IN  Err("Rpc", IF Has(e, "code") THEN Text(e.obj.code) ELSE "unknown",
                   IF direct # "" THEN direct ELSE ParamsMessage(e))

\* The transactor rejects a bare string as predicate on `_id`.
NormalizeQuery(q) ==
    IF IsStr(Field(q, "id", Null))
    THEN Obj([q.obj EXCEPT !["id"] = Obj([in |-> Arr(<<q.obj.id>>)])])
    ELSE q

-----------------------------------------------------------------------------
\* A document needs its id and its class.
DecodesDocs(v) ==
    IsArr(v) /\ \A i \in DOMAIN v.arr :
                    IsStr(Field(v.arr[i], "id", Null)) /\ IsStr(Field(v.arr[i], "class", Null))

\* The three shapes of a findAll answer: an array, or an object with its
\* documents under `value` or `docs`.
FindResult(v) ==
    LET key  == IF Has(v, "value") THEN "value" ELSE "docs"
        docs == IF IsArr(v) THEN v ELSE Field(v, key, Null)
    IN  IF DecodesDocs(docs)
        THEN Ok([docs   |-> docs.arr,
                 total  |-> IF IsNum(Field(v, "total", Null)) THEN v.obj.total.num
                            ELSE Len(docs.arr),
                 lookup |-> Field(v, "lookupMap", Null)])
        ELSE Failure("Format")

FirstOf(found) ==
    IF IsOk(found) THEN Ok(IF found.ok.docs = <<>> THEN Null ELSE found.ok.docs[1]) ELSE found

TxResult(v) ==
    IF IsBool(Field(v, "success", Null)) THEN Ok([success |-> v.obj.success.bool])
    ELSE Failure("Format")

-----------------------------------------------------------------------------
(* A call over the WebSocket: method, positional parameters, reader.       *)
WsCallOf(method, params, read) == [method |-> method, params |-> params, read |-> read]

WsFindAll(a) == WsCallOf("findAll", <<a.class, NormalizeQuery(a.query), a.limit>>, "found")
WsFindOne(a) == WsCallOf("findAll", <<a.class, NormalizeQuery(a.query), Num(1)>>, "first")
WsCreateDoc(a) == WsCallOf("createDoc", <<a.class, a.space, a.data>>, "id")
WsUpdateDoc(a) == WsCallOf("updateDoc", <<a.class, a.space, a.id, a.data>>, "txResult")
WsRemoveDoc(a) == WsCallOf("removeDoc", <<a.class, a.space, a.id>>, "txResult")
WsAddCollection(a) ==
    WsCallOf("addCollection",
             <<a.class, a.space, a.attachedTo, a.attachedToClass, a.collection, a.data>>, "id")
WsUpdateCollection(a) ==
    WsCallOf("updateCollection",
             <<a.class, a.space, a.id, a.attachedTo, a.attachedToClass, a.collection, a.data>>,
             "txResult")
WsApplyIfTx(a) ==
    WsCallOf("tx", <<[class |-> "TxApplyIf", scope |-> a.scope, match |-> a.matches,
                      notMatch |-> a.notMatches, txes |-> a.data]>>, "txResult")

WsRead(read, v) ==
    CASE read = "found"    -> FindResult(v)
      [] read = "first"    -> FirstOf(FindResult(v))
      [] read = "id"       -> IF IsStr(v) THEN Ok(v.str) ELSE Failure("Format")
      [] read = "txResult" -> TxResult(v)

\* The frame that answers it.  `null` is an absent `error` or `result`; a
\* frame that does not decode is dropped, and the caller runs into its
\* timeout.
WsAnswer(call, frame) ==
    LET error  == Field(frame, "error", Null)
        result == Field(frame, "result", Null)
    IN  CASE error # Null /\ ~RpcErrorDecodes(error) -> Failure("Connection")
          [] error # Null /\ RpcErrorDecodes(error)  -> RpcError(error)
          [] error = Null /\ result = Null           -> Failure("Format")
          [] OTHER                                   -> WsRead(call.read, result)

-----------------------------------------------------------------------------
(* The same calls over REST: a query, or a transaction document.           *)
RestFindAll(a) == [query |-> <<a.class, NormalizeQuery(a.query), a.limit>>, read |-> "found"]
RestFindOne(a) == [query |-> <<a.class, NormalizeQuery(a.query), Num(1)>>, read |-> "first"]

TxOf(class, a, more) ==
    Extended([class |-> class, objectClass |-> a.class, objectSpace |-> a.space], more)

RestCreateDoc(a) ==
    [tx |-> TxOf("TxCreateDoc", a, [attributes |-> a.data]), read |-> "ownId"]
RestUpdateDoc(a) ==
    [tx |-> TxOf("TxUpdateDoc", a, [objectId |-> a.id, operations |-> a.data]), read |-> "done"]
RestRemoveDoc(a) == [tx |-> TxOf("TxRemoveDoc", a, [objectId |-> a.id]), read |-> "done"]
Attachment(a) ==
    [attachedTo |-> a.attachedTo, attachedToClass |-> a.attachedToClass,
     collection |-> a.collection]
RestAddCollection(a) ==
    [tx |-> TxOf("TxCreateDoc", a, Extended([attributes |-> a.data], Attachment(a))),
     read |-> "ownId"]
RestUpdateCollection(a) ==
    [tx |-> TxOf("TxUpdateDoc", a, Extended([objectId |-> a.id, operations |-> a.data], Attachment(a))),
     read |-> "done"]
RestApplyIfTx(a) ==
    [tx |-> [class |-> "TxApplyIf", scope |-> a.scope, match |-> a.matches,
             notMatch |-> a.notMatches, txes |-> a.data], read |-> "applied"]
RestLoadModel == [model |-> TRUE, read |-> "model"]

RestRead(read, v) ==
    CASE read = "found"   -> FindResult(v)
      [] read = "first"   -> FirstOf(FindResult(v))
      [] read = "ownId"   -> Ok("own id")
      [] read = "done"    -> Ok([success |-> BoolField(v, "success", TRUE)])
      [] read = "applied" -> Ok([success |-> BoolField(v, "success", FALSE)])
      [] read = "model"   -> IF IsArr(v) THEN Ok(v.arr)
                             ELSE IF IsArr(Field(v, "value", Null)) THEN Ok(v.obj.value.arr)
                             ELSE Failure("Format")

-----------------------------------------------------------------------------
(* HTTP.  An answer is Down, or a status with headers and a body; a header *)
(* is Null when absent and no number when it does not parse.               *)
Down == [down |-> TRUE]
Success(a) == a.status = 200

RetryAfterMs(a) ==
    CASE IsNum(a.ms)                   -> a.ms
      [] ~IsNum(a.ms) /\ IsNum(a.secs) ->
             Num(IF a.secs.num * 1000 > LastMillis THEN LastMillis ELSE a.secs.num * 1000)
      [] OTHER                         -> Null

\* Mutant: the seconds are multiplied without saturation.
RetryAfterWrapping(a) ==
    LET ms == IF IsNum(a.ms) THEN a.ms.num
              ELSE IF IsNum(a.secs) THEN (a.secs.num * 1000) % (LastMillis + 1) ELSE DefaultRetry
    IN  IF ms > MaxRetry THEN MaxRetry ELSE ms

RetryAfter(a) ==
    LET asked == RetryAfterMs(a)
        ms    == IF asked = Null THEN DefaultRetry ELSE asked.num
    IN  IF ms > MaxRetry THEN MaxRetry ELSE ms

RestAnswer(call, a) ==
    CASE Success(a) /\ a.body = Malformed        -> Failure("Format")
      [] Success(a) /\ Has(a.body, "error")      -> LiftStatus(a.body.obj.error)
      [] Success(a) /\ ~Has(a.body, "error") /\ a.body # Malformed
                                                 -> RestRead(call.read, a.body)
      [] ~Success(a) /\ Has(a.body, "error")     -> LiftStatus(a.body.obj.error)
      [] ~Success(a) /\ ~Has(a.body, "error")    -> Err("Rpc", <<"http", a.status>>, a.body)

\* An exchange: the call, the answers so far, the waits between them.
Start(call) == [call |-> call, pc |-> "sending", answers |-> <<>>, waits |-> <<>>]
Finish(x, a, outcome) ==
    [call |-> x.call, pc |-> "done", answers |-> Append(x.answers, a), waits |-> x.waits,
     outcome |-> outcome]

\* It is sent once more, after a wait.
Again(x, a) == [x EXCEPT !.answers = Append(@, a), !.waits = Append(@, RetryAfter(a))]

\* One turn of the loop of send_with_retry: only a 429 is sent again.
SendWithRetryTurn(x, a) ==
    CASE a = Down -> Finish(x, a, Failure("Format"))
      [] a # Down /\ a.status = 429 /\ Len(x.waits) >= Max429Retries ->
             Finish(x, a, Err("Rpc", "rate_limited", ""))
      [] a # Down /\ a.status = 429 /\ Len(x.waits) < Max429Retries -> Again(x, a)
      [] a # Down /\ a.status # 429 -> Finish(x, a, RestAnswer(x.call, a))

-----------------------------------------------------------------------------
(* rest.rs: typed endpoints, no retry, bodies possibly snappy-packed.      *)
TypedCall(auth, list, needs) == [auth |-> auth, list |-> list, needs |-> needs]

GetConfig      == TypedCall(FALSE, FALSE, {})
GetAccount     == TypedCall(TRUE, FALSE, {"uuid"})
GetModel       == TypedCall(TRUE, TRUE, {})
EnsurePerson   == TypedCall(TRUE, FALSE, {"uuid", "socialId", "localPerson"})
SearchFulltext == TypedCall(TRUE, FALSE, {})
DomainRequest  == TypedCall(TRUE, FALSE, {"domain"})

Decodes(call, v) ==
    LET complete(o) == IsObj(o) /\ \A f \in call.needs : IsStr(Field(o, f, Null))
    IN  IF call.list THEN IsArr(v) /\ (call.needs = {} \/ \A i \in DOMAIN v.arr : complete(v.arr[i]))
        ELSE complete(v)

\* The bytes are unpacked iff the header says they are packed.
DecodeBody(a) == IF a.snappy = a.packed THEN a.body ELSE Malformed

HttpOutcome(call, a) ==
    CASE a = Down                                      -> Failure("Network")
      [] a # Down /\ a.status = 429                    -> Err("RateLimited", RetryAfterMs(a), "")
      [] a # Down /\ a.status # 429 /\ ~Success(a)     -> Err("Upstream", a.status, a.body)
      [] a # Down /\ Success(a) /\ ~Decodes(call, DecodeBody(a)) -> Failure("Decode")
      [] a # Down /\ Success(a) /\ Decodes(call, DecodeBody(a))  -> Ok(a.body)

HttpSend(x, a) == Finish(x, a, HttpOutcome(x.call, a))

-----------------------------------------------------------------------------
(* accounts.rs: JSON-RPC over HTTP, with or without a bearer token.        *)
LoginPassword       == TypedCall(FALSE, FALSE, {"token"})
LoginOtp            == TypedCall(FALSE, FALSE, {"sent", "retryOn"})
ValidateOtp         == TypedCall(FALSE, FALSE, {"account"})
SelectWorkspaceCall == TypedCall(TRUE, FALSE, {"endpoint", "token"})
GetLoginInfoByToken == TypedCall(TRUE, FALSE, {"endpoint", "token"})
GetLoginInfo        == TypedCall(TRUE, FALSE, {"account"})
GetUserWorkspaces   == TypedCall(TRUE, TRUE, {})
GetSocialIds        == TypedCall(TRUE, TRUE, {"id", "type"})

AccountsOutcome(call, a) ==
    LET result == Field(a.body, "result", Null)
        taken  == Field(a.body, "error", Null) = Null /\ Decodes(call, result)
    IN  CASE a = Down                           -> Failure("Network")
          [] a # Down /\ ~Success(a)            -> Failure("Failed")
          [] a # Down /\ Success(a) /\ ~taken   -> Failure("Failed")
          [] a # Down /\ Success(a) /\ taken    -> Ok(result)

AccountsCall(x, a) == Finish(x, a, AccountsOutcome(x.call, a))

(* proxy.rs: a request passed on as it came.                               *)
ProxyOutcome(a) ==
    CASE a = Down                                         -> Failure("Network")
      [] a # Down /\ ~Success(a)                          -> Err("Upstream", a.status, a.body)
      [] a # Down /\ Success(a) /\ a.body = Malformed     -> Failure("Format")
      [] a # Down /\ Success(a) /\ a.body # Malformed     -> Ok(a.body)

ForwardWithMeta(x, a) == Finish(x, a, ProxyOutcome(a))

-----------------------------------------------------------------------------
(* The calls: one operation of the trait over both transports, or one call *)
(* of another service.                                                     *)
Arguments ==
    Extended([limit |-> Num(2), query |-> Obj([id |-> Str("id")])],
             [f \in {"class", "space", "id", "attachedTo", "attachedToClass", "collection", "data",
                     "scope", "matches", "notMatches"} |-> Str(f)])

PlatformCalls(a) ==
    {<<WsFindAll(a), RestFindAll(a)>>, <<WsFindOne(a), RestFindOne(a)>>,
     <<WsCreateDoc(a), RestCreateDoc(a)>>, <<WsUpdateDoc(a), RestUpdateDoc(a)>>,
     <<WsRemoveDoc(a), RestRemoveDoc(a)>>, <<WsAddCollection(a), RestAddCollection(a)>>,
     <<WsUpdateCollection(a), RestUpdateCollection(a)>>, <<WsApplyIfTx(a), RestApplyIfTx(a)>>}

HttpCalls == {GetConfig, GetAccount, GetModel, EnsurePerson, SearchFulltext, DomainRequest}
AccountsCalls == {LoginPassword, LoginOtp, ValidateOtp, SelectWorkspaceCall, GetLoginInfoByToken,
                  GetLoginInfo, GetUserWorkspaces, GetSocialIds}

WireInit ==
    /\ payload \in Payloads
    /\ \/ \E calls \in PlatformCalls(Arguments) :
             exchange = [ws |-> Start(calls[1]), rest |-> Start(calls[2])]
       \/ exchange = [rest |-> Start(RestLoadModel)]
       \/ \E call \in HttpCalls : exchange = [http |-> Start(call)]
       \/ \E call \in AccountsCalls : exchange = [accounts |-> Start(call)]
       \/ exchange = [proxy |-> Start("GET")]
       \* Any other method is refused before anything is sent.
       \/ exchange = [proxy |-> Finish(Start("TRACE"), Down, Failure("UnsupportedMethod"))]

WireIdle == payload = Null /\ exchange = <<>>

HttpBody == IF "result" \in DOMAIN payload THEN payload.result ELSE Obj(payload)
Headers == {[ms |-> Null, secs |-> Null], [ms |-> Num(MaxRetry + 1), secs |-> Num(1)],
            [ms |-> Str("soon"), secs |-> Num(1)], [ms |-> Null, secs |-> Num(LastMillis \div 1000 + 1)]}
HttpAnswer(status, header, body) ==
    [status |-> status, ms |-> header.ms, secs |-> header.secs, body |-> body,
     snappy |-> FALSE, packed |-> FALSE]

HttpAnswers(body) ==
    {Down} \cup {HttpAnswer(s, [ms |-> Null, secs |-> Null], b) : s \in {200, 500}, b \in {body, Malformed}}
           \cup {HttpAnswer(429, h, Malformed) : h \in Headers}

Pending(c) == c \in DOMAIN exchange /\ exchange[c].pc = "sending"

WsReceive ==
    /\ Pending("ws")
    /\ \/ exchange' = [exchange EXCEPT !.ws = Finish(@, Obj(payload), WsAnswer(@.call, Obj(payload)))]
       \/ exchange' = [exchange EXCEPT !.ws = Finish(@, Down, Failure("Connection"))]
    /\ UNCHANGED payload

\* The two transports are different processes; which is first is no matter.
RestReceive ==
    /\ Pending("rest") /\ ~Pending("ws")
    /\ \E a \in HttpAnswers(HttpBody) :
          exchange' = [exchange EXCEPT !.rest = SendWithRetryTurn(@, a)]
    /\ UNCHANGED payload

HttpReceive ==
    /\ Pending("http")
    /\ \E a \in HttpAnswers(HttpBody), s, p \in BOOLEAN :
          LET answer == IF a = Down THEN a ELSE [a EXCEPT !.snappy = s, !.packed = p]
          IN  exchange' = [exchange EXCEPT !.http = HttpSend(@, answer)]
    /\ UNCHANGED payload

AccountsReceive ==
    /\ Pending("accounts")
    /\ \E a \in HttpAnswers(Obj(payload)) :
          exchange' = [exchange EXCEPT !.accounts = AccountsCall(@, a)]
    /\ UNCHANGED payload

ProxyReceive ==
    /\ Pending("proxy")
    /\ \E a \in HttpAnswers(HttpBody) :
          exchange' = [exchange EXCEPT !.proxy = ForwardWithMeta(@, a)]
    /\ UNCHANGED payload

WireNext == WsReceive \/ RestReceive \/ HttpReceive \/ AccountsReceive \/ ProxyReceive

-----------------------------------------------------------------------------
(* What the transactor understands: the positional parameters of its       *)
(* JSON-RPC methods, the fields of its transaction documents.              *)
Change(op, class, space, id, data, attached) ==
    [op |-> op, class |-> class, space |-> space, id |-> id, data |-> data, attached |-> attached]

WsMeaning(call) ==
    LET p == call.params
        Doc(op, id, data, attached) == Change(op, p[1], p[2], id, data, attached)
    IN  CASE call.method = "findAll"    -> [op |-> "find", class |-> p[1], query |-> p[2], limit |-> p[3]]
          [] call.method = "createDoc"  -> Doc("TxCreateDoc", Null, p[3], Null)
          [] call.method = "updateDoc"  -> Doc("TxUpdateDoc", p[3], p[4], Null)
          [] call.method = "removeDoc"  -> Doc("TxRemoveDoc", p[3], Null, Null)
          [] call.method = "addCollection" -> Doc("TxCreateDoc", Null, p[6], <<p[3], p[4], p[5]>>)
          [] call.method = "updateCollection" -> Doc("TxUpdateDoc", p[3], p[7], <<p[4], p[5], p[6]>>)
          [] call.method = "tx"         -> p[1]

RestMeaning(call) ==
    LET t == call.tx
        Part(f) == IF f \in DOMAIN t THEN t[f] ELSE Null
    IN  CASE "query" \in DOMAIN call ->
                 [op |-> "find", class |-> call.query[1], query |-> call.query[2],
                  limit |-> call.query[3]]
          [] "tx" \in DOMAIN call /\ t.class = "TxApplyIf" -> t
          [] "tx" \in DOMAIN call /\ t.class # "TxApplyIf" ->
                 Change(t.class, t.objectClass, t.objectSpace, Part("objectId"),
                        Part(IF t.class = "TxCreateDoc" THEN "attributes" ELSE "operations"),
                        IF "attachedTo" \in DOMAIN t
                        THEN <<t.attachedTo, t.attachedToClass, t.collection>> ELSE Null)

-----------------------------------------------------------------------------
Answered(c) == c \in DOMAIN exchange /\ exchange[c].pc = "done"
Answer(c) == exchange[c].answers[Len(exchange[c].answers)]

WireSpec == WireInit /\ [][WireNext]_wireVars

\* The two transports are interchangeable (RestHulyClient took the place of
\* HulyClient behind one trait).  Whatever the operation, both ask the
\* transactor for the same thing, positional parameters against transaction
\* fields, and never with a bare `_id` predicate; when both are answered, a
\* platform error is reported with the same code and text, a query yields the
\* same documents, total and lookups, and a change the WebSocket client takes
\* for done or refused is taken so by the REST client.
TransportsAgree ==
    ({"ws", "rest"} \subseteq DOMAIN exchange) =>
        LET ws == exchange.ws
            rest == exchange.rest
        IN  /\ WsMeaning(ws.call) = RestMeaning(rest.call)
            /\ "query" \in DOMAIN rest.call => ~IsStr(Field(rest.call.query[2], "id", Null))
            /\ (/\ Answered("ws") /\ Answer("ws") # Down
                /\ Answered("rest") /\ Answer("rest") # Down
                /\ Answer("rest").status # 429 /\ Answer("rest").body = HttpBody) =>
                     /\ ("error" \in DOMAIN payload /\ RpcErrorDecodes(payload.error))
                           => ws.outcome = rest.outcome
                     /\ ("result" \in DOMAIN payload /\ Success(Answer("rest"))) =>
                           IF "query" \in DOMAIN rest.call THEN ws.outcome = rest.outcome
                           ELSE IsOk(ws.outcome) =>
                                  /\ IsOk(rest.outcome)
                                  /\ ws.call.read = "txResult" => ws.outcome.ok = rest.outcome.ok

\* What the caller asked to wait, had the machine unbounded integers.
Requested(a) == CASE IsNum(a.ms)                   -> a.ms.num
                  [] ~IsNum(a.ms) /\ IsNum(a.secs) -> 1000 * a.secs.num
                  [] OTHER                         -> DefaultRetry

\* No failure is taken for a result, and a retry is bounded.  A call whose last
\* answer never came, had a status other than 2xx or no decodable body ends in
\* an error with every client; so does an error reported inside a 2xx answer
\* to the platform and the accounts clients.  A request is sent again only
\* after a 429, at most max_429_retries times, and each time after the wait
\* the server asked for or the cap, whichever is less, also when the seconds it
\* names do not fit into 64 bits of milliseconds.
FailuresSurface ==
    \A c \in DOMAIN exchange :
        /\ Answered(c) =>
             /\ (Answer(c) = Down
                 \/ (c # "ws" /\ (~Success(Answer(c)) \/ Answer(c).body = Malformed)))
                    => ~IsOk(exchange[c].outcome)
             /\ (c \in {"ws", "rest", "accounts"} /\ "error" \in DOMAIN payload /\ payload.error # Null)
                    => ~IsOk(exchange[c].outcome)
        /\ Len(exchange[c].waits) <= Max429Retries
        /\ \A i \in DOMAIN exchange[c].waits :
             LET a == exchange[c].answers[i]
             IN  /\ a.status = 429
                 /\ exchange[c].waits[i] =
                      IF Requested(a) < MaxRetry THEN Requested(a) ELSE MaxRetry
=============================================================================
