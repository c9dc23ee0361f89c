------------------------------ MODULE JwtBroker ------------------------------
(***************************************************************************)
(* JWTs on demand: the factory's entry of the workspace, request_jwt on    *)
(* the shared subject huly.bridge.mint, and the mint responders of all     *)
(* bridges that listen to it, each with its credentials and one task per   *)
(* request.  The factory's caching is modelled in full by ClientFactory;   *)
(* here it decides when a call mints, and what the minting bridge told it. *)
(*                                                                         *)
(* External: NATS gives a request to every listening bridge and the first  *)
(* reply to the requester; the accounts service accepts or fails.          *)
(***************************************************************************)
EXTENDS PlatformRest

CONSTANT Bridges

VARIABLES
    entry,     \* the cached WorkspaceEntry: who minted it, its schema
    listening, \* the bridges whose run_mint_responder is subscribed
    task,      \* process_one for each call's request, on each bridge
    inbox      \* what each call has got for its request

brokerVars == <<entry, listening, task, inbox>>

NoEntry == [by |-> "", fresh |-> FALSE, names |-> {}]
NoTask == [b \in Bridges |-> "none"]

(* plan.bridge[b].auth is "none" when the bridge has no credentials for the workspace. *)
Credential(b) == plan.bridge[b].auth

Idle == [state |-> "idle", code |-> "", by |-> ""]
Waiting == [state |-> "waiting", code |-> "", by |-> ""]
MintError(code) == [state |-> "err", code |-> code, by |-> ""]
MintResponse(b) == [state |-> "ok", code |-> "", by |-> b]

BrokerInit(cached) ==
    /\ entry = cached
    /\ listening = Bridges
    /\ task = [c \in Calls |-> NoTask]
    /\ inbox = [c \in Calls |-> Idle]

-----------------------------------------------------------------------------
(* The bridge. *)

(* The first reply is taken, if the requester still waits. *)
SendReply(c, b, reply) ==
    /\ task' = [task EXCEPT ![c][b] = "none"]
    /\ inbox' = IF inbox[c] = Waiting THEN [inbox EXCEPT ![c] = reply] ELSE inbox
    /\ UNCHANGED <<entry, listening>>

(* Mutant: a bridge without credentials blames the accounts service. *)
DenyAsFailure(c, b) ==
    /\ task[c][b] = "asked"
    /\ Credential(b) = "none"
    /\ SendReply(c, b, MintError("accounts_failure"))
    /\ UNCHANGED faults

UnknownWorkspace(c, b) ==
    /\ task[c][b] = "asked"
    /\ Credential(b) = "none"
    /\ SendReply(c, b, MintError("unknown_workspace"))
    /\ UNCHANGED faults

(* A password logs in first; a token needs no login. *)
AccountToken(c, b) ==
    /\ task[c][b] = "asked"
    /\ Credential(b) # "none"
    /\ \/ /\ task' = [task EXCEPT ![c][b] = "select"]
          /\ UNCHANGED <<entry, listening, inbox, faults>>
       \/ /\ Credential(b) = "password"
          /\ Fault
          /\ SendReply(c, b, MintError("accounts_failure"))

SelectWorkspace(c, b) ==
    /\ task[c][b] = "select"
    /\ \/ SendReply(c, b, MintResponse(b)) /\ UNCHANGED faults
       \/ Fault /\ SendReply(c, b, MintError("accounts_failure"))

HandleMint(c, b) == UnknownWorkspace(c, b) \/ AccountToken(c, b) \/ SelectWorkspace(c, b)

(* The bridge shuts down or its subscription closes; spawned tasks go on. *)
ResponderStops(b) ==
    /\ b \in listening
    /\ Fault
    /\ listening' = listening \ {b}
    /\ UNCHANGED <<entry, task, inbox>>

-----------------------------------------------------------------------------
(* The factory.  These steps all begin with entry(): the cached entry or a minted one, which *)
(* Use then looks at for the purpose of the step.                                            *)

EntrySteps == {"client", "status", "account_jwt", "accounts_url", "collaborator_url",
               "collaborator_auth", "schema", "schema_entry"}

AtEntry(c) == todo[c] # << >> /\ Head(todo[c]) \in EntrySteps

(* schema(): a handle that is not fresh is refreshed, then the entry is read again. *)
Use(c, e) ==
    LET step == Head(todo[c])
        bridge == plan.bridge[e.by]
    IN CASE step = "status" -> Return(c, None)
         [] step = "accounts_url" /\ ~bridge.accounts -> Fail(c, "no_accounts_url")
         [] step = "collaborator_url" /\ ~bridge.collaborator -> Fail(c, "no_collaborator_url")
         [] step = "schema" ->
                Become(c, IF e.fresh THEN <<"schema_entry">>
                          ELSE <<"refresh_schema", "schema_entry">>, NoLocals)
         [] step = "schema_entry" -> Become(c, << >>, [NoLocals EXCEPT !.got = e.names])
         [] OTHER -> Proceed(c)

CachedEntry(c) ==
    /\ AtEntry(c)
    /\ inbox[c] = Idle
    /\ entry # NoEntry
    /\ Use(c, entry)
    /\ UNCHANGED <<brokerVars, world, faults>>

(* The error keeps the broker's code only where it stays a FactoryError. *)
MintFailed(c, why) ==
    /\ FailWith(c, why,
                IF Head(todo[c]) \in {"client", "collaborator_url"} \/ why \in {"timeout", "no_responders"} THEN Plain ELSE why,
                None)
    /\ inbox' = [inbox EXCEPT ![c] = Idle]
    /\ UNCHANGED <<entry, listening, task, world, faults>>

(* Nobody subscribed: NATS says so at once. *)
RequestJwt(c) ==
    /\ AtEntry(c)
    /\ inbox[c] = Idle
    /\ entry = NoEntry
    /\ IF listening = {}
       THEN MintFailed(c, "no_responders")
       ELSE /\ inbox' = [inbox EXCEPT ![c] = Waiting]
            /\ task' = [task EXCEPT ![c] = [b \in Bridges |-> IF b \in listening THEN "asked" ELSE "none"]]
            /\ UNCHANGED <<callVars, entry, listening, world, faults>>

(* Mutant: only a reply ends the wait. *)
MintTimeoutNever(c) == FALSE /\ MintFailed(c, "timeout")

(* MINT_TIMEOUT passes first. *)
MintTimeout(c) ==
    /\ inbox[c] = Waiting
    /\ MintFailed(c, "timeout")

(* The entry goes into the map, in place of what another call minted meanwhile, and is used *)
(* as it is.                                                                                 *)
MintReplied(c) ==
    /\ inbox[c].state \in {"ok", "err"}
    /\ IF inbox[c].state = "ok"
       THEN LET minted == [by |-> inbox[c].by, fresh |-> FALSE, names |-> {}]
            IN /\ entry' = minted
               /\ inbox' = [inbox EXCEPT ![c] = Idle]
               /\ Use(c, minted)
               /\ UNCHANGED <<listening, task, world, faults>>
       ELSE MintFailed(c, inbox[c].code)

Forget(c) ==
    /\ At(c, "forget")
    /\ entry' = NoEntry
    /\ Proceed(c)
    /\ UNCHANGED <<listening, task, inbox, world, faults>>

(* refresh_at_ms passes: the entry is no longer used. *)
JwtDue ==
    /\ entry # NoEntry
    /\ Fault
    /\ entry' = NoEntry
    /\ UNCHANGED <<callVars, listening, task, inbox, world>>

(* refresh_schema: both fetches and the installation in one step (ClientFactory has the races *)
(* between them); a failure keeps what the handle has.                                         *)
SchemaNames == {[kind |-> d.class, name |-> d.name, id |-> d.id] :
                d \in {x \in docs : x.class \in {"MasterTag", "Association"}}}

RefreshSchema(c) ==
    /\ At(c, "refresh_schema")
    /\ \/ /\ entry' = IF entry = NoEntry THEN NoEntry
                      ELSE [entry EXCEPT !.fresh = TRUE, !.names = SchemaNames]
          /\ UNCHANGED faults
       \/ Fault /\ UNCHANGED entry
    /\ Proceed(c)
    /\ UNCHANGED <<listening, task, inbox, world>>

FactoryStep(c) ==
    \/ CachedEntry(c) \/ RequestJwt(c) \/ MintTimeout(c) \/ MintReplied(c)
    \/ Forget(c) \/ RefreshSchema(c)
=============================================================================
