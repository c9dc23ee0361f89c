------------------------------- MODULE WireProofs -------------------------------
(***************************************************************************)
(* What the clients make of an answer, for any answers of the service, any *)
(* number of retries and any caps: no failure is taken for a result, and   *)
(* the two transports of the platform agree.                               *)
(***************************************************************************)
EXTENDS Wire, TLAPS

Clients == {"ws", "rest", "http", "accounts", "proxy"}

-----------------------------------------------------------------------------
(* The waits. *)

Waited(a, ms) ==
    /\ a.status = 429
    /\ ms = IF Requested(a) < MaxRetry THEN Requested(a) ELSE MaxRetry

(* A header is absent, a number, or no number. *)
LEMMA HeaderValues ==
    ASSUME NEW h \in Headers
    PROVE  /\ IsNum(h.ms) => h.ms.num \in Nat
           /\ IsNum(h.secs) => h.secs.num \in Nat
PROOF
  <1>1. MaxRetry + 1 \in Nat /\ LastMillis \div 1000 + 1 \in Nat
    BY RetriesAssumption
  <1>2. \A s : ~IsNum(Str(s))
    BY DEF IsNum, Str
  <1>3. ~IsNum(Null) /\ \A n : Num(n).num = n
    BY DEF IsNum, Null, Num
  <1> QED BY <1>1, <1>2, <1>3 DEF Headers

(* The wait after a 429 is what the server asked for, or the cap: saturation does not show. *)
LEMMA RetryAfterAsked ==
    ASSUME NEW a, IsNum(a.ms) => a.ms.num \in Nat, IsNum(a.secs) => a.secs.num \in Nat
    PROVE  RetryAfter(a) = IF Requested(a) < MaxRetry THEN Requested(a) ELSE MaxRetry
PROOF
  <1>1. \A n : Num(n).num = n /\ Num(n) # Null
    BY DEF Num, Null
  <1>2. IsNum(a.ms) => a.ms # Null
    BY DEF IsNum, Null
  <1>3. CASE IsNum(a.ms)
    <2>1. RetryAfterMs(a) = a.ms /\ Requested(a) = a.ms.num
      BY <1>3 DEF RetryAfterMs, Requested
    <2> QED BY <1>2, <1>3, <2>1, RetriesAssumption DEF RetryAfter
  <1>4. CASE ~IsNum(a.ms) /\ IsNum(a.secs)
    <2>1. PICK n \in Nat : n = a.secs.num
      BY <1>4
    <2>2. /\ RetryAfterMs(a) = Num(IF n * 1000 > LastMillis THEN LastMillis ELSE n * 1000)
          /\ Requested(a) = 1000 * n
      BY <1>4, <2>1 DEF RetryAfterMs, Requested
    <2>3. RetryAfter(a) = LET ms == IF n * 1000 > LastMillis THEN LastMillis ELSE n * 1000
                          IN  IF ms > MaxRetry THEN MaxRetry ELSE ms
      BY <1>1, <2>2 DEF RetryAfter
    <2> QED BY <2>1, <2>2, <2>3, RetriesAssumption
  <1>5. CASE ~IsNum(a.ms) /\ ~IsNum(a.secs)
    <2>1. RetryAfterMs(a) = Null /\ Requested(a) = DefaultRetry
      BY <1>5 DEF RetryAfterMs, Requested
    <2> QED BY <2>1, RetriesAssumption DEF RetryAfter
  <1> QED BY <1>3, <1>4, <1>5

-----------------------------------------------------------------------------
(* The answers. *)

(* What may come for a call: nothing, or one of these. *)
LEMMA AnswerShapes ==
    ASSUME NEW body, NEW a \in HttpAnswers(body), a # Down
    PROVE  /\ a.status \in {200, 500, 429}
           /\ a.body \in {body, Malformed}
           /\ a.status = 429 => a.body = Malformed
           /\ IsNum(a.ms) => a.ms.num \in Nat
           /\ IsNum(a.secs) => a.secs.num \in Nat
           /\ DOMAIN a = {"status", "ms", "secs", "body", "snappy", "packed"}
PROOF
  <1>1. ~IsNum(Null)
    BY DEF IsNum, Null
  <1>2. CASE \E s \in {200, 500}, b \in {body, Malformed} :
                 a = HttpAnswer(s, [ms |-> Null, secs |-> Null], b)
    BY <1>1, <1>2 DEF HttpAnswer
  <1>3. CASE \E h \in Headers : a = HttpAnswer(429, h, Malformed)
    BY <1>3, HeaderValues DEF HttpAnswer
  <1> QED BY <1>2, <1>3 DEF HttpAnswers

(* Null and bytes that are no JSON have no fields, and are of no kind. *)
LEMMA NoFields ==
    /\ \A f, d : ~Has(Null, f) /\ Field(Null, f, d) = d
    /\ \A f, d : ~Has(Malformed, f) /\ Field(Malformed, f, d) = d
    /\ ~IsArr(Null) /\ ~IsObj(Null) /\ ~IsStr(Null) /\ ~IsBool(Null) /\ ~IsNum(Null)
    /\ ~IsArr(Malformed) /\ ~IsObj(Malformed) /\ ~IsStr(Malformed)
    /\ Malformed # Null
PROOF
  BY DEF Has, Field, Null, Malformed, IsArr, IsObj, IsStr, IsBool, IsNum

(* An error is no result. *)
LEMMA ErrorsAreNotOk ==
    /\ \A k, c, m : ~IsOk(Err(k, c, m))
    /\ \A k : ~IsOk(Failure(k))
    /\ \A e : ~IsOk(LiftStatus(e)) /\ ~IsOk(RpcError(e))
PROOF
  BY DEF IsOk, Err, Failure, LiftStatus, RpcError

(* The payload, as the body of a frame and of an HTTP answer. *)
LEMMA PayloadBody ==
    ASSUME payload \in Payloads
    PROVE  /\ \A f : Has(Obj(payload), f) <=> f \in DOMAIN payload
           /\ \A f : f \in DOMAIN payload => Field(Obj(payload), f, Null) = payload[f]
           /\ \A f : f \notin DOMAIN payload => Field(Obj(payload), f, Null) = Null
           /\ "error" \in DOMAIN payload => HttpBody = Obj(payload)
           /\ "result" \in DOMAIN payload => HttpBody = payload.result /\ ~Has(HttpBody, "error")
PROOF
  <1>1. IsObj(Obj(payload)) /\ Obj(payload).obj = payload
    BY DEF Obj, IsObj
  <1> QED BY <1>1, PayloadsAssumption DEF Has, Field, HttpBody

-----------------------------------------------------------------------------
(* An exchange. *)

(* No failure is taken for a result by client c, whose last answer was a. *)
Surfaces(c, a, outcome) ==
    /\ (a = Down \/ (c # "ws" /\ (~Success(a) \/ a.body = Malformed))) => ~IsOk(outcome)
    /\ (c \in {"ws", "rest", "accounts"} /\ "error" \in DOMAIN payload /\ payload.error # Null)
           => ~IsOk(outcome)

(* An outcome is what the client makes of its last answer. *)
MadeOf(c, call, a, outcome) ==
    /\ c = "ws" => a = Down \/ outcome = WsAnswer(call, Obj(payload))
    /\ c = "rest" /\ a # Down /\ a.status # 429 => outcome = RestAnswer(call, a)
    /\ c = "rest" => a \in HttpAnswers(HttpBody)

(* An exchange on its way has waited after each of its answers; one that is done has one more. *)
Exchanged(c, x) ==
    /\ {"call", "pc", "answers", "waits"} \subseteq DOMAIN x
    /\ x.pc \in {"sending", "done"}
    /\ \E S : x.answers \in Seq(S)
    /\ x.waits \in Seq(Nat)
    /\ Len(x.waits) <= Max429Retries
    /\ Len(x.answers) = IF x.pc = "sending" THEN Len(x.waits) ELSE Len(x.waits) + 1
    /\ \A i \in DOMAIN x.waits : Waited(x.answers[i], x.waits[i])
    /\ x.pc = "done" => /\ Surfaces(c, x.answers[Len(x.answers)], x.outcome)
                        /\ MadeOf(c, x.call, x.answers[Len(x.answers)], x.outcome)

Sending(c, x) == Exchanged(c, x) /\ x.pc = "sending"

(* The two transports are asked to do the same. *)
SameCalls ==
    {"ws", "rest"} \subseteq DOMAIN exchange =>
        \E calls \in PlatformCalls(Arguments) :
            exchange.ws.call = calls[1] /\ exchange.rest.call = calls[2]

WireInv ==
    /\ payload \in Payloads
    /\ DOMAIN exchange \subseteq Clients
    /\ \A c \in DOMAIN exchange : Exchanged(c, exchange[c])
    /\ SameCalls

(* A new exchange has nothing behind it. *)
LEMMA StartSends ==
    ASSUME NEW c, NEW call
    PROVE  Sending(c, Start(call)) /\ Start(call).call = call
PROOF
  <1>1. /\ DOMAIN Start(call) = {"call", "pc", "answers", "waits"}
        /\ Start(call).pc = "sending" /\ Start(call).answers = <<>> /\ Start(call).waits = <<>>
        /\ Start(call).call = call
    BY DEF Start
  <1>2. <<>> \in Seq({}) /\ <<>> \in Seq(Nat) /\ Len(<<>>) = 0 /\ DOMAIN <<>> = {}
    OBVIOUS
  <1> HIDE DEF Start
  <1> QED BY <1>1, <1>2, RetriesAssumption DEF Sending, Exchanged

(* A last answer ends it. *)
LEMMA FinishEnds ==
    ASSUME NEW c, NEW x, Sending(c, x), NEW a, NEW outcome, Surfaces(c, a, outcome),
           MadeOf(c, x.call, a, outcome)
    PROVE  Exchanged(c, Finish(x, a, outcome)) /\ Finish(x, a, outcome).call = x.call
PROOF
  <1>1. PICK S : x.answers \in Seq(S)
    BY DEF Sending, Exchanged
  <1>2. PICK y : y = Finish(x, a, outcome)
    OBVIOUS
  <1>3. /\ DOMAIN y = {"call", "pc", "answers", "waits", "outcome"}
        /\ y.pc = "done" /\ y.call = x.call /\ y.waits = x.waits /\ y.outcome = outcome
        /\ y.answers = Append(x.answers, a)
    BY <1>2 DEF Finish
  <1>4. /\ y.answers \in Seq(S \cup {a})
        /\ Len(y.answers) = Len(x.answers) + 1
        /\ y.answers[Len(y.answers)] = a
        /\ \A i \in 1 .. Len(x.answers) : y.answers[i] = x.answers[i]
    BY <1>1, <1>3
  <1>5. /\ x.waits \in Seq(Nat) /\ Len(x.waits) = Len(x.answers) /\ Len(x.waits) <= Max429Retries
        /\ \A i \in DOMAIN x.waits : Waited(x.answers[i], x.waits[i])
    BY DEF Sending, Exchanged
  <1>6. \A i \in DOMAIN y.waits : Waited(y.answers[i], y.waits[i])
    BY <1>3, <1>4, <1>5
  <1> QED BY <1>2, <1>3, <1>4, <1>5, <1>6 DEF Exchanged

(* A 429 that is waited for continues it. *)
LEMMA WaitSends ==
    ASSUME NEW c, NEW x, Sending(c, x), NEW a, NEW ms \in Nat, ms = RetryAfter(a), Waited(a, ms),
           Len(x.waits) < Max429Retries
    PROVE  Exchanged(c, Again(x, a)) /\ Again(x, a).call = x.call
PROOF
  <1>1. PICK S : x.answers \in Seq(S)
    BY DEF Sending, Exchanged
  <1>2. PICK y : y = Again(x, a)
    OBVIOUS
  <1>3. /\ DOMAIN y = DOMAIN x /\ y.pc = x.pc /\ y.call = x.call
        /\ y.answers = Append(x.answers, a) /\ y.waits = Append(x.waits, ms)
    BY <1>2 DEF Sending, Exchanged, Again
  <1>4. /\ y.answers \in Seq(S \cup {a})
        /\ Len(y.answers) = Len(x.answers) + 1
        /\ y.answers[Len(x.answers) + 1] = a
        /\ \A i \in 1 .. Len(x.answers) : y.answers[i] = x.answers[i]
    BY <1>1, <1>3
  <1>5. /\ x.waits \in Seq(Nat) /\ Len(x.waits) = Len(x.answers)
    BY DEF Sending, Exchanged
  <1>10. \A i \in DOMAIN x.waits : Waited(x.answers[i], x.waits[i])
    BY DEF Sending, Exchanged
  <1>6. /\ y.waits \in Seq(Nat)
        /\ Len(y.waits) = Len(x.waits) + 1
        /\ y.waits[Len(x.waits) + 1] = ms
        /\ \A i \in 1 .. Len(x.waits) : y.waits[i] = x.waits[i]
    BY <1>3, <1>5
  <1>11. /\ Len(x.waits) \in Nat
         /\ DOMAIN x.waits = 1 .. Len(x.waits)
         /\ DOMAIN y.waits = 1 .. Len(x.waits) + 1
    BY <1>5, <1>6
  <1>7. ASSUME NEW i \in DOMAIN y.waits PROVE Waited(y.answers[i], y.waits[i])
    <2>1. CASE i \in 1 .. Len(x.waits)
      <3>1. y.answers[i] = x.answers[i] /\ y.waits[i] = x.waits[i] /\ i \in DOMAIN x.waits
        BY <1>4, <1>5, <1>6, <1>11, <2>1
      <3> QED BY <1>10, <3>1
    <2>2. CASE i = Len(x.waits) + 1
      <3>1. y.answers[i] = a /\ y.waits[i] = ms
        BY <1>4, <1>5, <1>6, <2>2
      <3> QED BY <3>1
    <2>3. i \in 1 .. Len(x.waits) \/ i = Len(x.waits) + 1
      BY <1>11
    <2> QED BY <2>1, <2>2, <2>3
  <1>8. Len(y.waits) <= Max429Retries /\ Len(y.answers) = Len(y.waits)
    BY <1>4, <1>5, <1>6, RetriesAssumption
  <1>9. y.pc = "sending" /\ {"call", "pc", "answers", "waits"} \subseteq DOMAIN y
    BY <1>3 DEF Sending, Exchanged
  <1> QED BY <1>2, <1>3, <1>4, <1>6, <1>7, <1>8, <1>9 DEF Exchanged

-----------------------------------------------------------------------------
(* The clients. *)

(* The WebSocket client: a frame with an error never yields a result. *)
LEMMA WsSurfaces ==
    ASSUME payload \in Payloads, NEW call
    PROVE  Surfaces("ws", Obj(payload), WsAnswer(call, Obj(payload)))
PROOF
  <1>1. Obj(payload) # Down
    BY DEF Obj, Down
  <1>2. ASSUME "error" \in DOMAIN payload, payload.error # Null
        PROVE  ~IsOk(WsAnswer(call, Obj(payload)))
    <2>1. Field(Obj(payload), "error", Null) = payload.error
      BY <1>2, PayloadBody
    <2>2. CASE RpcErrorDecodes(payload.error)
      BY <1>2, <2>1, <2>2, ErrorsAreNotOk DEF WsAnswer
    <2>3. CASE ~RpcErrorDecodes(payload.error)
      BY <1>2, <2>1, <2>3, ErrorsAreNotOk DEF WsAnswer
    <2> QED BY <2>2, <2>3
  <1> QED BY <1>1, <1>2 DEF Surfaces

(* The REST client, once the answer is not a 429. *)
LEMMA RestSurfaces ==
    ASSUME payload \in Payloads, NEW call, NEW a \in HttpAnswers(HttpBody), a # Down
    PROVE  Surfaces("rest", a, RestAnswer(call, a))
PROOF
  <1>1. a.body \in {HttpBody, Malformed}
    BY AnswerShapes
  <1>2. ASSUME ~Success(a) \/ a.body = Malformed PROVE ~IsOk(RestAnswer(call, a))
    BY <1>2, ErrorsAreNotOk, NoFields DEF RestAnswer
  <1>3. ASSUME "error" \in DOMAIN payload, Success(a), a.body # Malformed
        PROVE  ~IsOk(RestAnswer(call, a))
    <2>1. Has(a.body, "error")
      BY <1>1, <1>3, PayloadBody
    <2> QED BY <1>3, <2>1, ErrorsAreNotOk DEF RestAnswer
  <1> QED BY <1>2, <1>3 DEF Surfaces

(* One turn of its loop ends the exchange or waits. *)
LEMMA TurnExchanges ==
    ASSUME payload \in Payloads, NEW x, Sending("rest", x), NEW a \in HttpAnswers(HttpBody)
    PROVE  /\ Exchanged("rest", SendWithRetryTurn(x, a))
           /\ SendWithRetryTurn(x, a).call = x.call
PROOF
  <1>5. Len(x.waits) \in Nat /\ Max429Retries \in Nat
    BY RetriesAssumption DEF Sending, Exchanged
  <1>1. CASE a = Down
    <2>1. SendWithRetryTurn(x, a) = Finish(x, a, Failure("Format"))
      BY <1>1 DEF SendWithRetryTurn
    <2>2. Surfaces("rest", a, Failure("Format")) /\ MadeOf("rest", x.call, a, Failure("Format"))
      BY <1>1, ErrorsAreNotOk DEF Surfaces, MadeOf
    <2> QED BY <2>1, <2>2, FinishEnds
  <1>2. CASE a # Down /\ a.status = 429 /\ Len(x.waits) >= Max429Retries
    <2>1. PICK limited : limited = Err("Rpc", "rate_limited", "")
      OBVIOUS
    <2>2. SendWithRetryTurn(x, a) = Finish(x, a, limited)
      <3>1. ~(Len(x.waits) < Max429Retries)
        BY <1>2, <1>5
      <3> QED BY <1>2, <2>1, <3>1 DEF SendWithRetryTurn
    <2>3. Surfaces("rest", a, limited) /\ MadeOf("rest", x.call, a, limited)
      BY <1>2, <2>1, ErrorsAreNotOk DEF Surfaces, MadeOf
    <2> QED BY <2>2, <2>3, FinishEnds
  <1>3. CASE a # Down /\ a.status = 429 /\ Len(x.waits) < Max429Retries
    <2>1. SendWithRetryTurn(x, a) = Again(x, a)
      <3>1. ~(Len(x.waits) >= Max429Retries)
        BY <1>3, <1>5
      <3> QED BY <1>3, <3>1 DEF SendWithRetryTurn
    <2>2. /\ IsNum(a.ms) => a.ms.num \in Nat
          /\ IsNum(a.secs) => a.secs.num \in Nat
      BY <1>3, AnswerShapes
    <2>3. Requested(a) \in Nat
      BY <2>2, RetriesAssumption DEF Requested
    <2>4. RetryAfter(a) \in Nat /\ Waited(a, RetryAfter(a))
      BY <1>3, <2>2, <2>3, RetryAfterAsked, RetriesAssumption DEF Waited
    <2> QED BY <1>3, <2>1, <2>4, WaitSends
  <1>4. CASE a # Down /\ a.status # 429
    <2>1. SendWithRetryTurn(x, a) = Finish(x, a, RestAnswer(x.call, a))
      BY <1>4 DEF SendWithRetryTurn
    <2>2. MadeOf("rest", x.call, a, RestAnswer(x.call, a))
      BY <1>4 DEF MadeOf
    <2> QED BY <1>4, <2>1, <2>2, RestSurfaces, FinishEnds
  <1> QED BY <1>1, <1>2, <1>3, <1>4, <1>5

(* The typed endpoints of rest.rs. *)
LEMMA HttpSurfaces ==
    ASSUME NEW x, Sending("http", x), NEW a, a # Down => a.status \in {200, 500, 429}
    PROVE  Exchanged("http", HttpSend(x, a)) /\ HttpSend(x, a).call = x.call
PROOF
  <1>1. ASSUME a = Down \/ ~Success(a) \/ a.body = Malformed
        PROVE  ~IsOk(HttpOutcome(x.call, a))
    <2>1. CASE a = Down
      BY <2>1, ErrorsAreNotOk DEF HttpOutcome
    <2>2. CASE a # Down /\ ~Success(a)
      <3>1. CASE a.status = 429
        BY <2>2, <3>1, ErrorsAreNotOk DEF HttpOutcome
      <3>2. CASE a.status # 429
        BY <2>2, <3>2, ErrorsAreNotOk DEF HttpOutcome
      <3> QED BY <3>1, <3>2
    <2>3. CASE a # Down /\ Success(a) /\ a.body = Malformed
      <3>1. a.status # 429
        BY <2>3 DEF Success
      <3>2. ~Decodes(x.call, DecodeBody(a))
        BY <2>3, NoFields DEF Decodes, DecodeBody
      <3> QED BY <2>3, <3>1, <3>2, ErrorsAreNotOk DEF HttpOutcome
    <2> QED BY <1>1, <2>1, <2>2, <2>3
  <1>2. Surfaces("http", a, HttpOutcome(x.call, a)) /\ MadeOf("http", x.call, a, HttpOutcome(x.call, a))
    BY <1>1 DEF Surfaces, MadeOf
  <1> QED BY <1>2, FinishEnds DEF HttpSend

(* The accounts client: an error inside a 2xx answer is one too. *)
LEMMA AccountsSurfaces ==
    ASSUME payload \in Payloads, NEW x, Sending("accounts", x), NEW a \in HttpAnswers(Obj(payload))
    PROVE  Exchanged("accounts", AccountsCall(x, a)) /\ AccountsCall(x, a).call = x.call
PROOF
  <1>1. ASSUME a = Down \/ ~Success(a) PROVE Surfaces("accounts", a, AccountsOutcome(x.call, a))
    <2>1. CASE a = Down
      BY <2>1, ErrorsAreNotOk DEF AccountsOutcome, Surfaces
    <2>2. CASE a # Down /\ ~Success(a)
      BY <2>2, ErrorsAreNotOk DEF AccountsOutcome, Surfaces
    <2> QED BY <1>1, <2>1, <2>2
  <1>2. ASSUME a # Down, Success(a) PROVE Surfaces("accounts", a, AccountsOutcome(x.call, a))
    <2> DEFINE taken == /\ Field(a.body, "error", Null) = Null
                        /\ Decodes(x.call, Field(a.body, "result", Null))
    <2>1. a.body \in {Obj(payload), Malformed}
      BY <1>2, AnswerShapes
    <2>2. ASSUME ~taken PROVE ~IsOk(AccountsOutcome(x.call, a))
      BY <1>2, <2>2, ErrorsAreNotOk DEF AccountsOutcome
    <2>3. ASSUME taken PROVE a.body # Malformed
      BY <2>3, NoFields DEF Decodes
    <2>4. ASSUME taken PROVE ~("error" \in DOMAIN payload /\ payload.error # Null)
      BY <2>1, <2>3, <2>4, PayloadBody
    <2> HIDE DEF taken
    <2> QED BY <1>2, <2>2, <2>3, <2>4 DEF Surfaces
  <1>3. Surfaces("accounts", a, AccountsOutcome(x.call, a))
    BY <1>1, <1>2
  <1>4. MadeOf("accounts", x.call, a, AccountsOutcome(x.call, a))
    BY DEF MadeOf
  <1> QED BY <1>3, <1>4, FinishEnds DEF AccountsCall

(* The proxy helper. *)
LEMMA ProxySurfaces ==
    ASSUME NEW x, Sending("proxy", x), NEW a
    PROVE  Exchanged("proxy", ForwardWithMeta(x, a)) /\ ForwardWithMeta(x, a).call = x.call
PROOF
  <1>1. ASSUME a = Down \/ ~Success(a) \/ a.body = Malformed PROVE ~IsOk(ProxyOutcome(a))
    <2>1. CASE a = Down
      BY <2>1, ErrorsAreNotOk DEF ProxyOutcome
    <2>2. CASE a # Down /\ ~Success(a)
      BY <2>2, ErrorsAreNotOk DEF ProxyOutcome
    <2>3. CASE a # Down /\ Success(a) /\ a.body = Malformed
      BY <2>3, ErrorsAreNotOk DEF ProxyOutcome
    <2> QED BY <1>1, <2>1, <2>2, <2>3
  <1>2. Surfaces("proxy", a, ProxyOutcome(a)) /\ MadeOf("proxy", x.call, a, ProxyOutcome(a))
    BY <1>1 DEF Surfaces, MadeOf
  <1> QED BY <1>2, FinishEnds DEF ForwardWithMeta

-----------------------------------------------------------------------------
(* The invariant. *)

(* What a step does to the exchange: one client's call, which stays the same, goes on. *)
LEMMA ExchangeGoesOn ==
    ASSUME WireInv, UNCHANGED payload, NEW c \in DOMAIN exchange, NEW y,
           exchange' = [exchange EXCEPT ![c] = y], Exchanged(c, y), y.call = exchange[c].call
    PROVE  WireInv'
PROOF
  <1>1. /\ DOMAIN exchange' = DOMAIN exchange
        /\ exchange'[c] = y
        /\ \A d \in DOMAIN exchange : d # c => exchange'[d] = exchange[d]
    OBVIOUS
  <1>2. \A d \in DOMAIN exchange' : exchange'[d].call = exchange[d].call
    BY <1>1
  <1>3. \A d, z : Exchanged(d, z) => Exchanged(d, z)'
    BY DEF Exchanged, Surfaces, MadeOf, WsAnswer, HttpBody
  <1>4. \A d \in DOMAIN exchange' : Exchanged(d, exchange[d])'
    BY <1>1, <1>3 DEF WireInv
  <1>5. SameCalls'
    BY <1>1, <1>2 DEF WireInv, SameCalls
  <1> QED BY <1>1, <1>4, <1>5 DEF WireInv

(* Before anything is sent. *)
LEMMA WireInitInv == WireInit => WireInv
PROOF
  <1> SUFFICES ASSUME WireInit PROVE WireInv
    OBVIOUS
  <1>0. payload \in Payloads
    BY DEF WireInit
  <1>1. \A c, call : Exchanged(c, Start(call)) /\ Start(call).call = call
    BY StartSends DEF Sending
  <1>2. CASE \E calls \in PlatformCalls(Arguments) :
                 exchange = [ws |-> Start(calls[1]), rest |-> Start(calls[2])]
    <2> HIDE DEF PlatformCalls, Arguments
    <2>1. PICK calls \in PlatformCalls(Arguments) :
                 exchange = [ws |-> Start(calls[1]), rest |-> Start(calls[2])]
      BY <1>2
    <2>2. /\ DOMAIN exchange = {"ws", "rest"}
          /\ exchange.ws = Start(calls[1]) /\ exchange.rest = Start(calls[2])
      BY <2>1
    <2>3. SameCalls
      BY <1>1, <2>2 DEF SameCalls
    <2> QED BY <1>0, <1>1, <2>2, <2>3 DEF WireInv, Clients
  <1>3. ASSUME NEW c \in Clients, NEW x, Exchanged(c, x),
               DOMAIN exchange = {c}, exchange[c] = x
        PROVE  WireInv
    BY <1>0, <1>3 DEF WireInv, SameCalls
  <1>4. CASE exchange = [rest |-> Start(RestLoadModel)]
    BY <1>1, <1>3, <1>4 DEF Clients
  <1>5. CASE \E call \in HttpCalls : exchange = [http |-> Start(call)]
    BY <1>1, <1>3, <1>5 DEF Clients
  <1>6. CASE \E call \in AccountsCalls : exchange = [accounts |-> Start(call)]
    BY <1>1, <1>3, <1>6 DEF Clients
  <1>7. CASE exchange = [proxy |-> Start("GET")]
    BY <1>1, <1>3, <1>7 DEF Clients
  <1>8. CASE exchange = [proxy |-> Finish(Start("TRACE"), Down, Failure("UnsupportedMethod"))]
    <2> DEFINE refused == Failure("UnsupportedMethod")
    <2>1. Surfaces("proxy", Down, refused) /\ MadeOf("proxy", Start("TRACE").call, Down, refused)
      BY ErrorsAreNotOk DEF Surfaces, MadeOf
    <2>2. Exchanged("proxy", Finish(Start("TRACE"), Down, refused))
      BY <2>1, StartSends, FinishEnds
    <2> QED BY <1>3, <1>8, <2>2 DEF Clients
  <1> QED BY <1>2, <1>4, <1>5, <1>6, <1>7, <1>8 DEF WireInit

(* Every step keeps it. *)
LEMMA WireStepInv == WireInv /\ [WireNext]_wireVars => WireInv'
PROOF
  <1> SUFFICES ASSUME WireInv, [WireNext]_wireVars PROVE WireInv'
    OBVIOUS
  <1>0. payload \in Payloads
    BY DEF WireInv
  <1>1. \A c : Pending(c) => c \in DOMAIN exchange /\ Sending(c, exchange[c])
    BY DEF WireInv, Pending, Sending
  <1>2. CASE WsReceive
    <2> DEFINE x == exchange.ws
    <2>1. Sending("ws", x) /\ "ws" \in DOMAIN exchange /\ UNCHANGED payload
      BY <1>1, <1>2 DEF WsReceive
    <2>2. CASE exchange' = [exchange EXCEPT !.ws = Finish(@, Obj(payload), WsAnswer(@.call, Obj(payload)))]
      <3> DEFINE y == Finish(x, Obj(payload), WsAnswer(x.call, Obj(payload)))
      <3>1. MadeOf("ws", x.call, Obj(payload), WsAnswer(x.call, Obj(payload)))
        BY DEF MadeOf
      <3>2. Exchanged("ws", y) /\ y.call = x.call
        BY <1>0, <2>1, <3>1, WsSurfaces, FinishEnds
      <3>3. exchange' = [exchange EXCEPT !["ws"] = y]
        BY <2>2
      <3> HIDE DEF y
      <3> QED BY <2>1, <3>2, <3>3, ExchangeGoesOn
    <2>3. CASE exchange' = [exchange EXCEPT !.ws = Finish(@, Down, Failure("Connection"))]
      <3> DEFINE y == Finish(x, Down, Failure("Connection"))
      <3>1. Surfaces("ws", Down, Failure("Connection")) /\ MadeOf("ws", x.call, Down, Failure("Connection"))
        BY ErrorsAreNotOk DEF Surfaces, MadeOf
      <3>2. Exchanged("ws", y) /\ y.call = x.call
        BY <2>1, <3>1, FinishEnds
      <3>3. exchange' = [exchange EXCEPT !["ws"] = y]
        BY <2>3
      <3> HIDE DEF y
      <3> QED BY <2>1, <3>2, <3>3, ExchangeGoesOn
    <2> QED BY <1>2, <2>2, <2>3 DEF WsReceive
  <1>3. CASE RestReceive
    <2>1. PICK a \in HttpAnswers(HttpBody) : exchange' = [exchange EXCEPT !.rest = SendWithRetryTurn(@, a)]
      BY <1>3 DEF RestReceive
    <2>2. Sending("rest", exchange.rest) /\ "rest" \in DOMAIN exchange /\ UNCHANGED payload
      BY <1>1, <1>3 DEF RestReceive
    <2> DEFINE y == SendWithRetryTurn(exchange.rest, a)
    <2>3. Exchanged("rest", y) /\ y.call = exchange.rest.call
      BY <1>0, <2>2, TurnExchanges
    <2>4. exchange' = [exchange EXCEPT !["rest"] = y]
      BY <2>1
    <2> HIDE DEF y
    <2> QED BY <2>2, <2>3, <2>4, ExchangeGoesOn
  <1>4. CASE HttpReceive
    <2>1. PICK a \in HttpAnswers(HttpBody), s, p \in BOOLEAN :
              exchange' = [exchange EXCEPT !.http =
                  HttpSend(@, IF a = Down THEN a ELSE [a EXCEPT !.snappy = s, !.packed = p])]
      BY <1>4, Zenon DEF HttpReceive
    <2>2. Sending("http", exchange.http) /\ "http" \in DOMAIN exchange /\ UNCHANGED payload
      BY <1>1, <1>4 DEF HttpReceive
    <2> DEFINE answer == IF a = Down THEN a ELSE [a EXCEPT !.snappy = s, !.packed = p]
               y == HttpSend(exchange.http, answer)
    <2>3. answer # Down => answer.status \in {200, 500, 429}
      <3>1. a # Down => /\ a.status \in {200, 500, 429}
                        /\ DOMAIN a = {"status", "ms", "secs", "body", "snappy", "packed"}
        BY AnswerShapes
      <3> QED BY <3>1
    <2>4. exchange' = [exchange EXCEPT !["http"] = y]
      BY <2>1, Zenon
    <2> HIDE DEF answer
    <2>5. Exchanged("http", y) /\ y.call = exchange.http.call
      BY <2>2, <2>3, HttpSurfaces
    <2> HIDE DEF y
    <2> QED BY <2>2, <2>4, <2>5, ExchangeGoesOn
  <1>5. CASE AccountsReceive
    <2>1. PICK a \in HttpAnswers(Obj(payload)) : exchange' = [exchange EXCEPT !.accounts = AccountsCall(@, a)]
      BY <1>5 DEF AccountsReceive
    <2>2. Sending("accounts", exchange.accounts) /\ "accounts" \in DOMAIN exchange /\ UNCHANGED payload
      BY <1>1, <1>5 DEF AccountsReceive
    <2> DEFINE y == AccountsCall(exchange.accounts, a)
    <2>3. Exchanged("accounts", y) /\ y.call = exchange.accounts.call
      BY <1>0, <2>2, AccountsSurfaces
    <2>4. exchange' = [exchange EXCEPT !["accounts"] = y]
      BY <2>1
    <2> HIDE DEF y
    <2> QED BY <2>2, <2>3, <2>4, ExchangeGoesOn
  <1>6. CASE ProxyReceive
    <2>1. PICK a \in HttpAnswers(HttpBody) : exchange' = [exchange EXCEPT !.proxy = ForwardWithMeta(@, a)]
      BY <1>6 DEF ProxyReceive
    <2>2. Sending("proxy", exchange.proxy) /\ "proxy" \in DOMAIN exchange /\ UNCHANGED payload
      BY <1>1, <1>6 DEF ProxyReceive
    <2> DEFINE y == ForwardWithMeta(exchange.proxy, a)
    <2>3. Exchanged("proxy", y) /\ y.call = exchange.proxy.call
      BY <2>2, ProxySurfaces
    <2>4. exchange' = [exchange EXCEPT !["proxy"] = y]
      BY <2>1
    <2> HIDE DEF y
    <2> QED BY <2>2, <2>3, <2>4, ExchangeGoesOn
  <1>7. CASE UNCHANGED wireVars
    <2>1. UNCHANGED <<payload, exchange>>
      BY <1>7 DEF wireVars
    <2> QED BY <2>1 DEF WireInv, SameCalls, Exchanged, Surfaces, MadeOf, WsAnswer, HttpBody
  <1> QED BY <1>2, <1>3, <1>4, <1>5, <1>6, <1>7 DEF WireNext

(* It holds in every state. *)
LEMMA WireInvariant == WireSpec => []WireInv
PROOF
  <1> QED BY WireInitInv, WireStepInv, PTL DEF WireSpec

(* In every state, no failure was taken for a result, and retries are       *)
(* bounded and wait as asked: send_with_retry of rest_huly_client.rs, the    *)
(* readers of rpc.rs and client.rs, rest.rs, accounts.rs and proxy.rs.       *)
THEOREM FailuresSurfaceCorrect == WireSpec => []FailuresSurface
PROOF
  <1>1. WireInv => FailuresSurface
    <2> SUFFICES ASSUME WireInv PROVE FailuresSurface
      OBVIOUS
    <2> DEFINE last(c) == exchange[c].answers[Len(exchange[c].answers)]
    <2>1. \A c \in DOMAIN exchange : Exchanged(c, exchange[c])
      BY DEF WireInv
    <2>2. \A c \in DOMAIN exchange : Answered(c) => Surfaces(c, Answer(c), exchange[c].outcome)
      BY <2>1 DEF Exchanged, Answered, Answer
    <2>3. \A c \in DOMAIN exchange : Len(exchange[c].waits) <= Max429Retries
      BY <2>1 DEF Exchanged
    <2>4. \A c \in DOMAIN exchange : \A i \in DOMAIN exchange[c].waits :
              Waited(exchange[c].answers[i], exchange[c].waits[i])
      BY <2>1 DEF Exchanged
    <2> QED BY <2>2, <2>3, <2>4 DEF FailuresSurface, Surfaces, Waited
  <1> QED BY <1>1, WireInvariant, PTL

-----------------------------------------------------------------------------
(* The two transports. *)

(* A bare `_id` is no predicate of a normalized query. *)
LEMMA NormalizedQuery ==
    ASSUME NEW q
    PROVE  ~IsStr(Field(NormalizeQuery(q), "id", Null))
PROOF
  <1>1. CASE IsStr(Field(q, "id", Null))
    <2> DEFINE one == Obj([in |-> Arr(<<q.obj.id>>)])
               r   == [q.obj EXCEPT !["id"] = one]
    <2>1. IsObj(q) /\ "id" \in DOMAIN q.obj
      BY <1>1, NoFields DEF Field, Has
    <2>2. NormalizeQuery(q) = Obj(r)
      BY <1>1 DEF NormalizeQuery
    <2>3. "id" \in DOMAIN r /\ r["id"] = one
      BY <2>1
    <2>4. IsObj(Obj(r)) /\ Obj(r).obj = r
      BY DEF Obj, IsObj
    <2>5. Field(Obj(r), "id", Null) = one
      BY <2>3, <2>4 DEF Field, Has
    <2>6. ~IsStr(one)
      BY DEF IsStr, Obj
    <2> QED BY <2>2, <2>5, <2>6
  <1>2. CASE ~IsStr(Field(q, "id", Null))
    BY <1>2 DEF NormalizeQuery
  <1> QED BY <1>1, <1>2

(* What the readers of the two sides make of one value. *)
ReadAlike(ws, rest) ==
    \/ "query" \in DOMAIN rest /\ ws.read = rest.read /\ rest.read \in {"found", "first"}
    \/ "query" \notin DOMAIN rest /\ ws.read = "id" /\ rest.read = "ownId"
    \/ "query" \notin DOMAIN rest /\ ws.read = "txResult" /\ rest.read \in {"done", "applied"}

(* A query over either transport. *)
LEMMA QueryMeaning ==
    ASSUME NEW class, NEW query, NEW limit, NEW read \in {"found", "first"},
           NEW ws, ws = WsCallOf("findAll", <<class, NormalizeQuery(query), limit>>, read),
           NEW rest, rest = [query |-> <<class, NormalizeQuery(query), limit>>, read |-> read]
    PROVE  /\ WsMeaning(ws) = RestMeaning(rest)
           /\ ~IsStr(Field(rest.query[2], "id", Null))
           /\ ReadAlike(ws, rest)
PROOF
  <1>1. /\ ws.method = "findAll" /\ ws.read = read /\ ws.params = rest.query
        /\ "query" \in DOMAIN rest /\ rest.read = read /\ rest.query[2] = NormalizeQuery(query)
    BY DEF WsCallOf
  <1>2. WsMeaning(ws) = [op |-> "find", class |-> ws.params[1], query |-> ws.params[2],
                         limit |-> ws.params[3]]
    BY <1>1, Zenon DEF WsMeaning
  <1>3. RestMeaning(rest) = [op |-> "find", class |-> rest.query[1], query |-> rest.query[2],
                             limit |-> rest.query[3]]
    BY <1>1, Zenon DEF RestMeaning
  <1> QED BY <1>1, <1>2, <1>3, NormalizedQuery DEF ReadAlike

(* A transaction document, and its reading. *)
LEMMA TxMeaning ==
    ASSUME NEW rest, DOMAIN rest = {"tx", "read"}, rest.tx.class # "TxApplyIf"
    PROVE  RestMeaning(rest) =
             Change(rest.tx.class, rest.tx.objectClass, rest.tx.objectSpace,
                    IF "objectId" \in DOMAIN rest.tx THEN rest.tx["objectId"] ELSE Null,
                    IF (IF rest.tx.class = "TxCreateDoc" THEN "attributes" ELSE "operations")
                           \in DOMAIN rest.tx
                    THEN rest.tx[IF rest.tx.class = "TxCreateDoc" THEN "attributes" ELSE "operations"]
                    ELSE Null,
                    IF "attachedTo" \in DOMAIN rest.tx
                    THEN <<rest.tx.attachedTo, rest.tx.attachedToClass, rest.tx.collection>>
                    ELSE Null)
PROOF
  <1>1. "query" \notin DOMAIN rest /\ "tx" \in DOMAIN rest
    OBVIOUS
  <1> QED BY <1>1, Zenon DEF RestMeaning

(* The transports ask for the same with createDoc. *)
LEMMA CreateDocMeaning ==
    ASSUME NEW a
    PROVE  WsMeaning(WsCreateDoc(a)) = RestMeaning(RestCreateDoc(a)) /\ ReadAlike(WsCreateDoc(a), RestCreateDoc(a))
PROOF
  <1> DEFINE ws == WsCreateDoc(a)
             rest == RestCreateDoc(a)
             t == rest.tx
             p == ws.params
  <1>1. ws.method = "createDoc" /\ ws.read = "id" /\ p = <<a.class, a.space, a.data>>
    BY DEF WsCreateDoc, WsCallOf
  <1>2. DOMAIN rest = {"tx", "read"} /\ rest.read = "ownId"
    BY DEF RestCreateDoc
  <1>3. /\ DOMAIN t = {"class", "objectClass", "objectSpace", "attributes"}
        /\ t.class = "TxCreateDoc" /\ t.objectClass = a.class /\ t.objectSpace = a.space
        /\ t.attributes = a.data
    BY DEF RestCreateDoc, TxOf, Extended
  <1> HIDE DEF ws, rest
  <1>4. WsMeaning(ws) = Change("TxCreateDoc", p[1], p[2], Null, p[3], Null)
    BY <1>1, Zenon DEF WsMeaning
  <1>5. RestMeaning(rest) = Change("TxCreateDoc", a.class, a.space, Null, a.data, Null)
    BY <1>2, <1>3, TxMeaning
  <1>6. WsMeaning(ws) = RestMeaning(rest)
    BY <1>1, <1>4, <1>5
  <1> QED BY <1>1, <1>2, <1>6 DEF ReadAlike, ws, rest

(* The transports ask for the same with updateDoc. *)
LEMMA UpdateDocMeaning ==
    ASSUME NEW a
    PROVE  WsMeaning(WsUpdateDoc(a)) = RestMeaning(RestUpdateDoc(a)) /\ ReadAlike(WsUpdateDoc(a), RestUpdateDoc(a))
PROOF
  <1> DEFINE ws == WsUpdateDoc(a)
             rest == RestUpdateDoc(a)
             t == rest.tx
             p == ws.params
  <1>1. ws.method = "updateDoc" /\ ws.read = "txResult" /\ p = <<a.class, a.space, a.id, a.data>>
    BY DEF WsUpdateDoc, WsCallOf
  <1>2. DOMAIN rest = {"tx", "read"} /\ rest.read = "done"
    BY DEF RestUpdateDoc
  <1>3. /\ DOMAIN t = {"class", "objectClass", "objectSpace", "objectId", "operations"}
        /\ t.class = "TxUpdateDoc" /\ t.objectClass = a.class /\ t.objectSpace = a.space
        /\ t.objectId = a.id /\ t.operations = a.data
    BY DEF RestUpdateDoc, TxOf, Extended
  <1> HIDE DEF ws, rest
  <1>4. WsMeaning(ws) = Change("TxUpdateDoc", p[1], p[2], p[3], p[4], Null)
    BY <1>1, Zenon DEF WsMeaning
  <1>5. RestMeaning(rest) = Change("TxUpdateDoc", a.class, a.space, a.id, a.data, Null)
    BY <1>2, <1>3, TxMeaning
  <1>6. WsMeaning(ws) = RestMeaning(rest)
    BY <1>1, <1>4, <1>5
  <1> QED BY <1>1, <1>2, <1>6 DEF ReadAlike, ws, rest

(* The transports ask for the same with removeDoc. *)
LEMMA RemoveDocMeaning ==
    ASSUME NEW a
    PROVE  WsMeaning(WsRemoveDoc(a)) = RestMeaning(RestRemoveDoc(a)) /\ ReadAlike(WsRemoveDoc(a), RestRemoveDoc(a))
PROOF
  <1> DEFINE ws == WsRemoveDoc(a)
             rest == RestRemoveDoc(a)
             t == rest.tx
             p == ws.params
  <1>1. ws.method = "removeDoc" /\ ws.read = "txResult" /\ p = <<a.class, a.space, a.id>>
    BY DEF WsRemoveDoc, WsCallOf
  <1>2. DOMAIN rest = {"tx", "read"} /\ rest.read = "done"
    BY DEF RestRemoveDoc
  <1>3. /\ DOMAIN t = {"class", "objectClass", "objectSpace", "objectId"}
        /\ t.class = "TxRemoveDoc" /\ t.objectClass = a.class /\ t.objectSpace = a.space
        /\ t.objectId = a.id
    BY DEF RestRemoveDoc, TxOf, Extended
  <1> HIDE DEF ws, rest
  <1>4. WsMeaning(ws) = Change("TxRemoveDoc", p[1], p[2], p[3], Null, Null)
    BY <1>1, Zenon DEF WsMeaning
  <1>5. RestMeaning(rest) = Change("TxRemoveDoc", a.class, a.space, a.id, Null, Null)
    BY <1>2, <1>3, TxMeaning
  <1>6. WsMeaning(ws) = RestMeaning(rest)
    BY <1>1, <1>4, <1>5
  <1> QED BY <1>1, <1>2, <1>6 DEF ReadAlike, ws, rest

(* The transports ask for the same with addCollection. *)
LEMMA AddCollectionMeaning ==
    ASSUME NEW a
    PROVE  WsMeaning(WsAddCollection(a)) = RestMeaning(RestAddCollection(a)) /\ ReadAlike(WsAddCollection(a), RestAddCollection(a))
PROOF
  <1> DEFINE ws == WsAddCollection(a)
             rest == RestAddCollection(a)
             t == rest.tx
             p == ws.params
  <1>1. ws.method = "addCollection" /\ ws.read = "id" /\ p = <<a.class, a.space, a.attachedTo, a.attachedToClass, a.collection, a.data>>
    BY DEF WsAddCollection, WsCallOf
  <1>2. DOMAIN rest = {"tx", "read"} /\ rest.read = "ownId"
    BY DEF RestAddCollection
  <1>3. /\ DOMAIN t = {"class", "objectClass", "objectSpace", "attributes", "attachedTo", "attachedToClass", "collection"}
        /\ t.class = "TxCreateDoc" /\ t.objectClass = a.class /\ t.objectSpace = a.space
        /\ t.attributes = a.data
        /\ t.attachedTo = a.attachedTo /\ t.attachedToClass = a.attachedToClass /\ t.collection = a.collection
    BY DEF RestAddCollection, TxOf, Extended, Attachment
  <1> HIDE DEF ws, rest
  <1>4. WsMeaning(ws) = Change("TxCreateDoc", p[1], p[2], Null, p[6], <<p[3], p[4], p[5]>>)
    BY <1>1, Zenon DEF WsMeaning
  <1>5. RestMeaning(rest) = Change("TxCreateDoc", a.class, a.space, Null, a.data, <<a.attachedTo, a.attachedToClass, a.collection>>)
    BY <1>2, <1>3, TxMeaning
  <1>6. WsMeaning(ws) = RestMeaning(rest)
    BY <1>1, <1>4, <1>5
  <1> QED BY <1>1, <1>2, <1>6 DEF ReadAlike, ws, rest

(* The transports ask for the same with updateCollection. *)
LEMMA UpdateCollectionMeaning ==
    ASSUME NEW a
    PROVE  WsMeaning(WsUpdateCollection(a)) = RestMeaning(RestUpdateCollection(a)) /\ ReadAlike(WsUpdateCollection(a), RestUpdateCollection(a))
PROOF
  <1> DEFINE ws == WsUpdateCollection(a)
             rest == RestUpdateCollection(a)
             t == rest.tx
             p == ws.params
  <1>1. ws.method = "updateCollection" /\ ws.read = "txResult" /\ p = <<a.class, a.space, a.id, a.attachedTo, a.attachedToClass, a.collection, a.data>>
    BY DEF WsUpdateCollection, WsCallOf
  <1>2. DOMAIN rest = {"tx", "read"} /\ rest.read = "done"
    BY DEF RestUpdateCollection
  <1>3. /\ DOMAIN t = {"class", "objectClass", "objectSpace", "objectId", "operations", "attachedTo", "attachedToClass", "collection"}
        /\ t.class = "TxUpdateDoc" /\ t.objectClass = a.class /\ t.objectSpace = a.space
        /\ t.objectId = a.id /\ t.operations = a.data
        /\ t.attachedTo = a.attachedTo /\ t.attachedToClass = a.attachedToClass /\ t.collection = a.collection
    BY DEF RestUpdateCollection, TxOf, Extended, Attachment
  <1> HIDE DEF ws, rest
  <1>4. WsMeaning(ws) = Change("TxUpdateDoc", p[1], p[2], p[3], p[7], <<p[4], p[5], p[6]>>)
    BY <1>1, Zenon DEF WsMeaning
  <1>5. RestMeaning(rest) = Change("TxUpdateDoc", a.class, a.space, a.id, a.data, <<a.attachedTo, a.attachedToClass, a.collection>>)
    BY <1>2, <1>3, TxMeaning
  <1>6. WsMeaning(ws) = RestMeaning(rest)
    BY <1>1, <1>4, <1>5
  <1> QED BY <1>1, <1>2, <1>6 DEF ReadAlike, ws, rest

(* The transports ask for the same with a conditional transaction. *)
LEMMA ApplyIfTxMeaning ==
    ASSUME NEW a
    PROVE  WsMeaning(WsApplyIfTx(a)) = RestMeaning(RestApplyIfTx(a))
           /\ ReadAlike(WsApplyIfTx(a), RestApplyIfTx(a))
PROOF
  <1> DEFINE ws == WsApplyIfTx(a)
             rest == RestApplyIfTx(a)
  <1>1. /\ ws.method = "tx" /\ ws.read = "txResult" /\ ws.params[1] = rest.tx
        /\ DOMAIN rest = {"tx", "read"} /\ rest.read = "applied" /\ rest.tx.class = "TxApplyIf"
    BY DEF WsApplyIfTx, RestApplyIfTx, WsCallOf
  <1> HIDE DEF ws, rest
  <1>2. WsMeaning(ws) = ws.params[1]
    BY <1>1, Zenon DEF WsMeaning
  <1>3. "query" \notin DOMAIN rest /\ "tx" \in DOMAIN rest
    BY <1>1
  <1>4. RestMeaning(rest) = rest.tx
    BY <1>1, <1>3, Zenon DEF RestMeaning
  <1> QED BY <1>1, <1>2, <1>3, <1>4 DEF ReadAlike, ws, rest

(* The transports ask for the same, whatever the operation and its arguments. *)
LEMMA SameMeaning ==
    ASSUME NEW a, NEW calls \in PlatformCalls(a)
    PROVE  /\ WsMeaning(calls[1]) = RestMeaning(calls[2])
           /\ "query" \in DOMAIN calls[2] => ~IsStr(Field(calls[2].query[2], "id", Null))
           /\ ReadAlike(calls[1], calls[2])
PROOF
  <1>1. CASE calls = <<WsFindAll(a), RestFindAll(a)>>
    BY <1>1, QueryMeaning DEF WsFindAll, RestFindAll
  <1>2. CASE calls = <<WsFindOne(a), RestFindOne(a)>>
    BY <1>2, QueryMeaning DEF WsFindOne, RestFindOne
  <1>3. CASE calls = <<WsCreateDoc(a), RestCreateDoc(a)>>
    BY <1>3, CreateDocMeaning DEF RestCreateDoc
  <1>4. CASE calls = <<WsUpdateDoc(a), RestUpdateDoc(a)>>
    BY <1>4, UpdateDocMeaning DEF RestUpdateDoc
  <1>5. CASE calls = <<WsRemoveDoc(a), RestRemoveDoc(a)>>
    BY <1>5, RemoveDocMeaning DEF RestRemoveDoc
  <1>6. CASE calls = <<WsAddCollection(a), RestAddCollection(a)>>
    BY <1>6, AddCollectionMeaning DEF RestAddCollection
  <1>7. CASE calls = <<WsUpdateCollection(a), RestUpdateCollection(a)>>
    BY <1>7, UpdateCollectionMeaning DEF RestUpdateCollection
  <1>8. CASE calls = <<WsApplyIfTx(a), RestApplyIfTx(a)>>
    BY <1>8, ApplyIfTxMeaning DEF RestApplyIfTx
  <1> QED BY <1>1, <1>2, <1>3, <1>4, <1>5, <1>6, <1>7, <1>8 DEF PlatformCalls

(* An error the frame decodes is the same from the body of an HTTP answer. *)
LEMMA SameError ==
    ASSUME payload \in Payloads, "error" \in DOMAIN payload, RpcErrorDecodes(payload.error),
           NEW ws, NEW rest, NEW a, a.body = HttpBody
    PROVE  WsAnswer(ws, Obj(payload)) = RestAnswer(rest, a)
PROOF
  <1> DEFINE e == payload.error
  <1>1. Has(e, "code") /\ e # Null
    BY NoFields DEF RpcErrorDecodes
  <1>2. Field(Obj(payload), "error", Null) = e
    BY PayloadBody
  <1>3. Has(a.body, "error") /\ a.body.obj.error = e /\ a.body # Malformed
    <2>1. a.body = Obj(payload)
      BY PayloadBody
    <2> QED BY <2>1, PayloadBody, NoFields DEF Obj
  <1>4. WsAnswer(ws, Obj(payload)) = RpcError(e)
    BY <1>1, <1>2, Zenon DEF WsAnswer
  <1>5. RestAnswer(rest, a) = LiftStatus(e)
    <2>1. CASE Success(a)
      BY <1>3, <2>1, Zenon DEF RestAnswer
    <2>2. CASE ~Success(a)
      BY <1>3, <2>2, Zenon DEF RestAnswer
    <2> QED BY <2>1, <2>2
  <1>6. LiftStatus(e) = RpcError(e)
    BY <1>1 DEF LiftStatus, RpcError
  <1> QED BY <1>4, <1>5, <1>6

(* A result is read alike. *)
LEMMA SameResult ==
    ASSUME payload \in Payloads, "result" \in DOMAIN payload,
           NEW ws, NEW rest, ReadAlike(ws, rest), NEW a, Success(a), a.body = HttpBody,
           NEW w, w = WsAnswer(ws, Obj(payload)), NEW r, r = RestAnswer(rest, a)
    PROVE  IF "query" \in DOMAIN rest THEN w = r
           ELSE IsOk(w) => IsOk(r) /\ (ws.read = "txResult" => w.ok = r.ok)
PROOF
  <1> DEFINE v == payload.result
  <1>1. /\ Field(Obj(payload), "error", Null) = Null /\ Field(Obj(payload), "result", Null) = v
        /\ a.body = v /\ ~Has(a.body, "error")
    BY PayloadBody, PayloadsAssumption
  <1>2. w = IF v = Null THEN Failure("Format") ELSE WsRead(ws.read, v)
    <2>1. CASE v = Null
      BY <1>1, <2>1, Zenon DEF WsAnswer
    <2>2. CASE v # Null
      BY <1>1, <2>2, Zenon DEF WsAnswer
    <2> QED BY <2>1, <2>2
  <1>3. r = IF v = Malformed THEN Failure("Format") ELSE RestRead(rest.read, v)
    <2>1. CASE v = Malformed
      BY <1>1, <2>1, Zenon DEF RestAnswer
    <2>2. CASE v # Malformed
      BY <1>1, <2>2, Zenon DEF RestAnswer
    <2> QED BY <2>1, <2>2
  <1>4. /\ FindResult(Null) = Failure("Format") /\ FindResult(Malformed) = Failure("Format")
        /\ FirstOf(Failure("Format")) = Failure("Format")
    BY NoFields, ErrorsAreNotOk DEF FindResult, DecodesDocs, FirstOf
  <1>5. /\ WsRead("found", v) = FindResult(v) /\ WsRead("first", v) = FirstOf(FindResult(v))
        /\ WsRead("id", v) = IF IsStr(v) THEN Ok(v.str) ELSE Failure("Format")
        /\ WsRead("txResult", v) = TxResult(v)
    BY Zenon DEF WsRead
  <1>6. /\ RestRead("found", v) = FindResult(v) /\ RestRead("first", v) = FirstOf(FindResult(v))
        /\ RestRead("ownId", v) = Ok("own id")
        /\ RestRead("done", v) = Ok([success |-> BoolField(v, "success", TRUE)])
        /\ RestRead("applied", v) = Ok([success |-> BoolField(v, "success", FALSE)])
    BY Zenon DEF RestRead
  <1> HIDE DEF v
  <1>7. CASE "query" \in DOMAIN rest
    <2>1. ws.read = rest.read /\ rest.read \in {"found", "first"}
      BY <1>7 DEF ReadAlike
    <2>2. w = r
      BY <1>2, <1>3, <1>4, <1>5, <1>6, <2>1
    <2> QED BY <1>7, <2>2
  <1>8. CASE "query" \notin DOMAIN rest
    <2> SUFFICES ASSUME IsOk(w) PROVE IsOk(r) /\ (ws.read = "txResult" => w.ok = r.ok)
      BY <1>8
    <2>1. \A x : IsOk(Ok(x)) /\ Ok(x).ok = x
      BY DEF IsOk, Ok
    <2>2. CASE ws.read = "id"
      <3>1. rest.read = "ownId"
        BY <1>8, <2>2 DEF ReadAlike
      <3>2. v # Malformed
        BY <1>2, <1>5, <2>2, NoFields, ErrorsAreNotOk
      <3> QED BY <1>3, <1>6, <2>1, <2>2, <3>1, <3>2
    <2>3. CASE ws.read = "txResult"
      <3>1. rest.read \in {"done", "applied"}
        BY <1>8, <2>3 DEF ReadAlike
      <3>2. IsBool(Field(v, "success", Null)) /\ w = Ok([success |-> v.obj.success.bool])
        BY <1>2, <1>5, <2>3, ErrorsAreNotOk DEF TxResult
      <3>3. v # Malformed
        BY <3>2, NoFields
      <3>4. \A d : BoolField(v, "success", d) = v.obj.success.bool
        BY <3>2 DEF BoolField
      <3>5. RestRead(rest.read, v) = Ok([success |-> v.obj.success.bool])
        BY <1>6, <3>1, <3>4
      <3>6. r = w
        BY <1>3, <3>2, <3>3, <3>5
      <3> QED BY <3>6
    <2> QED BY <1>8, <2>2, <2>3 DEF ReadAlike
  <1> QED BY <1>7, <1>8

(* The two transports are interchangeable in every state: client.rs over     *)
(* rpc.rs, and rest_huly_client.rs, behind one PlatformClient.               *)
THEOREM TransportsAgreeCorrect == WireSpec => []TransportsAgree
PROOF
  <1>1. WireInv => TransportsAgree
    <2> SUFFICES ASSUME WireInv, {"ws", "rest"} \subseteq DOMAIN exchange PROVE TransportsAgree
      BY DEF TransportsAgree
    <2> DEFINE ws == exchange.ws
               rest == exchange.rest
               answer == Answer("rest")
    <2>0. payload \in Payloads
      BY DEF WireInv
    <2>1. PICK calls \in PlatformCalls(Arguments) : ws.call = calls[1] /\ rest.call = calls[2]
      BY DEF WireInv, SameCalls
    <2>2. /\ WsMeaning(ws.call) = RestMeaning(rest.call)
          /\ "query" \in DOMAIN rest.call => ~IsStr(Field(rest.call.query[2], "id", Null))
          /\ ReadAlike(ws.call, rest.call)
      BY <2>1, SameMeaning
    <2>3. ASSUME Answered("ws"), Answer("ws") # Down, Answered("rest"), answer # Down, answer.status # 429
          PROVE  /\ ws.outcome = WsAnswer(ws.call, Obj(payload))
                 /\ rest.outcome = RestAnswer(rest.call, answer)
      <3>1. Exchanged("ws", ws) /\ Exchanged("rest", rest)
        BY DEF WireInv
      <3> QED BY <2>3, <3>1 DEF Exchanged, MadeOf, Answered, Answer
    <2>4. ASSUME Answered("ws"), Answer("ws") # Down, Answered("rest"), answer # Down,
                 answer.status # 429, answer.body = HttpBody,
                 "error" \in DOMAIN payload, RpcErrorDecodes(payload.error)
          PROVE  ws.outcome = rest.outcome
      BY <2>0, <2>3, <2>4, SameError
    <2>5. ASSUME Answered("ws"), Answer("ws") # Down, Answered("rest"), answer # Down,
                 answer.status # 429, answer.body = HttpBody,
                 "result" \in DOMAIN payload, Success(answer)
          PROVE  IF "query" \in DOMAIN rest.call THEN ws.outcome = rest.outcome
                 ELSE IsOk(ws.outcome) =>
                        /\ IsOk(rest.outcome)
                        /\ ws.call.read = "txResult" => ws.outcome.ok = rest.outcome.ok
      BY <2>0, <2>2, <2>3, <2>5, SameResult
    <2> QED BY <2>2, <2>4, <2>5 DEF TransportsAgree
  <1> QED BY <1>1, WireInvariant, PTL

=============================================================================
