------------------------------- MODULE Startup ------------------------------
(***************************************************************************)
(* From a configuration file to a serving process: the bridge (config.rs,  *)
(* auth.rs, rest.rs, the head of service/lifecycle.rs, the broker of       *)
(* mint_responder.rs) and the MCP server (config.rs, main.rs).  What the   *)
(* operator wrote is validated, the account is authenticated, the server's *)
(* own configuration is fetched, the broker is provisioned, and workspaces *)
(* are minted for.  The connections follow (BridgeLifecycle).              *)
(* An optional value is a sequence of length 0 or 1; a URL is the sequence *)
(* of its parts.                                                           *)
(***************************************************************************)
EXTENDS Naturals, Sequences, FiniteSets, SequencesExt

CONSTANTS U64Max,         \* the largest u64, scaled to TLC's integers
          DefaultTtl,     \* mint_responder.rs DEFAULT_JWT_TTL_SECS
          Now,            \* the clock when a reply is built
          Workspaces,     \* slugs an operator or a caller may name
          Primary,        \* [huly] workspace
          Lifetimes,      \* jwt_ttl_secs an operator may write
          MaxListed       \* bound: the credentials in a list

ASSUME StartupAssumption ==
    /\ U64Max \in Nat /\ DefaultTtl \in Nat
    /\ Now \in 0 .. U64Max
    /\ Primary \in Workspaces
    /\ Lifetimes \subseteq 0 .. U64Max
    /\ MaxListed \in Nat

VARIABLES boot,           \* the bridge process
          reply,          \* the last reply of the broker
          mcp             \* the MCP process

startupVars == <<boot, reply, mcp>>

-----------------------------------------------------------------------------
(* What an operator can write.                                             *)
WorkspaceCredentials ==
    [workspace : Workspaces, password : {<<>>, <<"secret">>}, token : {<<>>, <<"token">>},
     ttl : {<<>>} \cup {<<t>> : t \in Lifetimes}]

HulyConfigs == [workspace : {Primary}, auth : {"token", "password"},
                accountsUrl : {<<>>, <<<<"accounts">>>>}]

BridgeConfigs ==
    [huly : HulyConfigs, credentials : BoundedSeq(WorkspaceCredentials, MaxListed), admin : {FALSE}]
    \cup [huly : HulyConfigs, credentials : {<<>>}, admin : {TRUE}]

McpConfigs == [catalog : BOOLEAN, agentId : {<<>>, <<"agent">>}]

HulyUrl == <<"huly">>
Or(option, default) == IF option = <<>> THEN default ELSE option[1]

-----------------------------------------------------------------------------
(* Loading.                                                                *)
ExactlyOne(c) == (c.password = <<>>) # (c.token = <<>>)

RejectLegacyAdmin(config) == config.admin

\* Mutant: a list without the bridge's own workspace passes.
ValidateWithoutPrimary(config) ==
    LET entries == config.credentials
    IN  /\ Cardinality({entries[i].workspace : i \in DOMAIN entries}) = Len(entries)
        /\ \A i \in DOMAIN entries : ExactlyOne(entries[i])

ValidateWorkspaceCredentials(config) ==
    LET entries == config.credentials
        slugs   == {entries[i].workspace : i \in DOMAIN entries}
    IN  /\ Cardinality(slugs) = Len(entries)
        /\ \A i \in DOMAIN entries : ExactlyOne(entries[i])
        /\ entries # <<>> => config.huly.workspace \in slugs

BridgeFromFile ==
    /\ boot.pc = "load"
    /\ boot' = [boot EXCEPT !.pc = IF /\ ~RejectLegacyAdmin(boot.config)
                                      /\ ValidateWorkspaceCredentials(boot.config)
                                   THEN "authenticate" ELSE "refused"]
    /\ UNCHANGED <<reply, mcp>>

-----------------------------------------------------------------------------
(* service::lifecycle::run, up to the connection loop.                     *)
Authenticate ==
    /\ boot.pc = "authenticate"
    /\ \/ /\ boot.config.huly.auth = "token"
          /\ boot' = [boot EXCEPT !.pc = "bootstrap", !.token = <<"given">>]
       \/ /\ boot.config.huly.auth = "password"
          /\ boot' = [boot EXCEPT !.pc = "bootstrap", !.token = <<"issued">>]
       \/ /\ boot.config.huly.auth = "password"   \* login failed
          /\ boot' = [boot EXCEPT !.pc = "failed"]
    /\ UNCHANGED <<reply, mcp>>

\* Best effort: a server without /config.json keeps nothing from starting.
BootstrapServerConfig ==
    /\ boot.pc = "bootstrap"
    /\ boot' = [boot EXCEPT !.pc = "nats"]
    /\ UNCHANGED <<reply, mcp>>

\* The listed credentials, or the bridge's own for its one workspace.
EffectiveWorkspaceCredentials(config) ==
    IF config.credentials # <<>> THEN config.credentials
    ELSE << [workspace |-> config.huly.workspace, ttl |-> <<>>,
             password |-> IF config.huly.auth = "password" THEN <<"own">> ELSE <<>>,
             token    |-> IF config.huly.auth = "token" THEN <<"own">> ELSE <<>>] >>

\* MintBrokerConfig::from_credentials: a map by slug, the last entry wins.
FromCredentials(config) ==
    LET creds == EffectiveWorkspaceCredentials(config)
        LastOf(w) == CHOOSE i \in DOMAIN creds :
                      /\ creds[i].workspace = w
                      /\ \A j \in DOMAIN creds : creds[j].workspace = w => j <= i
    IN  IF \A i \in DOMAIN creds : ExactlyOne(creds[i])
        THEN << [restBaseUrl |-> HulyUrl \o <<"api/v1">>,
                 accountsUrl |-> config.huly.accountsUrl,
                 credentials |->
                    [w \in {creds[i].workspace : i \in DOMAIN creds} |->
                        [auth |-> IF creds[LastOf(w)].password # <<>> THEN "password" ELSE "token",
                         ttl  |-> Or(creds[LastOf(w)].ttl, DefaultTtl)]]] >>
        ELSE <<>>

\* NATS, then the watchdog and the broker; both run before any connection.
ConnectAndServe ==
    /\ boot.pc = "nats"
    /\ \/ boot' = [boot EXCEPT !.pc = "failed"]   \* no NATS
       \/ LET broker == FromCredentials(boot.config)
          IN  boot' = [boot EXCEPT !.pc = IF broker = <<>> THEN "unserviceable" ELSE "serving",
                                   !.broker = broker]
    /\ UNCHANGED <<reply, mcp>>

-----------------------------------------------------------------------------
(* The broker's answer to one workspace, once the account is logged in and *)
(* the workspace selected.                                                 *)
Saturated(n) == IF n > U64Max THEN U64Max ELSE n

MintResponseFor(broker, w, now) ==
    LET expires == Saturated(now + Saturated(broker.credentials[w].ttl * 1000))
    IN  [workspace |-> w, expiresAt |-> expires, restBaseUrl |-> broker.restBaseUrl,
         accountsUrl |-> broker.accountsUrl, workspaceUuid |-> "uuid"]

AnswerMint ==
    /\ boot.pc = "serving" /\ reply = <<>>
    /\ \E w \in Workspaces :
          reply' = IF w \in DOMAIN boot.broker[1].credentials
                   THEN <<MintResponseFor(boot.broker[1], w, Now)>>
                   ELSE <<[workspace |-> w, error |-> "unknown_workspace"]>>
    /\ UNCHANGED <<boot, mcp>>

\* RestHulyClient::raw_tx on the client the factory builds from the reply.
TxUrl(r) == r.restBaseUrl \o <<"api/v1", "tx", r.workspaceUuid>>

-----------------------------------------------------------------------------
(* The MCP process: configuration, NATS, agent id, the invalidator beside  *)
(* the server, and their end.                                              *)
RejectLegacyCatalog(config) == config.catalog

McpFromFile ==
    /\ mcp.pc = "load"
    /\ mcp' = [mcp EXCEPT !.pc = IF RejectLegacyCatalog(mcp.config) THEN "refused" ELSE "nats"]
    /\ UNCHANGED <<boot, reply>>

McpStart ==
    /\ mcp.pc = "nats"
    /\ \/ mcp' = [mcp EXCEPT !.pc = "failed"]     \* no NATS, no credentials file
       \/ mcp' = [mcp EXCEPT !.pc = IF mcp.config.agentId = <<>> THEN "refused" ELSE "serving",
                             !.invalidator = IF mcp.config.agentId = <<>> THEN @ ELSE "starting"]
    /\ UNCHANGED <<boot, reply>>

InvalidatorSubscribes ==
    /\ mcp.invalidator = "starting"
    /\ \E s \in {"subscribed", "ended"} : mcp' = [mcp EXCEPT !.invalidator = s]
    /\ UNCHANGED <<boot, reply>>

\* The client hangs up, or the transport breaks: then no teardown.
McpServiceEnds ==
    /\ mcp.pc = "serving"
    /\ \E s \in {"teardown", "failed"} : mcp' = [mcp EXCEPT !.pc = s]
    /\ UNCHANGED <<boot, reply>>

InvalidatorCancelled ==
    /\ mcp.pc = "teardown" /\ mcp.invalidator = "subscribed"
    /\ mcp' = [mcp EXCEPT !.invalidator = "ended"]
    /\ UNCHANGED <<boot, reply>>

McpStops ==
    /\ mcp.pc = "teardown" /\ mcp.invalidator = "ended"
    /\ mcp' = [mcp EXCEPT !.pc = "stopped"]
    /\ UNCHANGED <<boot, reply>>

-----------------------------------------------------------------------------
NoBridge == [pc |-> "none", broker |-> <<>>]
NoMcp == [pc |-> "none", invalidator |-> "none"]

\* One of the two processes at a time: they share nothing while they start.
StartupInit ==
    /\ reply = <<>>
    /\ \/ /\ \E c \in BridgeConfigs :
                boot = [config |-> c, pc |-> "load", token |-> <<>>, broker |-> <<>>]
          /\ mcp = NoMcp
       \/ /\ boot = NoBridge
          /\ \E c \in McpConfigs : mcp = [config |-> c, pc |-> "load", invalidator |-> "none"]

StartupIdle ==
    /\ reply = <<>> /\ boot = NoBridge /\ mcp = NoMcp

StartupNext ==
    \/ BridgeFromFile \/ Authenticate \/ BootstrapServerConfig \/ ConnectAndServe
    \/ AnswerMint
    \/ McpFromFile \/ McpStart \/ InvalidatorSubscribes \/ McpServiceEnds
    \/ InvalidatorCancelled \/ McpStops

StartupSpec == StartupInit /\ [][StartupNext]_startupVars

-----------------------------------------------------------------------------
\* A configuration with a list of credentials that passes validation is one the
\* bridge can serve, and what the broker answers agrees with what the operator
\* wrote: the second validation in the broker never fails, the bridge's own
\* workspace can be minted for, a workspace is refused just when it is not
\* listed, and a lifetime is as configured and never lies in the past, however
\* large.  Nothing is said of an empty list: config.rs:10-18 has [huly] no
\* fallback for the broker and every workspace unknown to it, lifecycle.rs:274-289
\* has the broker mint for [huly]'s workspace.
AcceptedConfigServes ==
    /\ boot.pc # "unserviceable"
    /\ boot.broker # <<>> /\ boot.config.credentials # <<>> =>
         Primary \in DOMAIN boot.broker[1].credentials
    /\ reply # <<>> /\ boot.config.credentials # <<>> =>
         LET r       == reply[1]
             listed  == boot.config.credentials
             matches == {i \in DOMAIN listed : listed[i].workspace = r.workspace}
             ttl     == Or(listed[CHOOSE i \in matches : TRUE].ttl, DefaultTtl)
         IN  IF "error" \in DOMAIN r
             THEN matches = {}
             ELSE /\ matches # {}
                  /\ r.expiresAt >= Now
                  /\ r.expiresAt \in {Now + 1000 * ttl, U64Max}
                  /\ r.expiresAt - Now <= 1000 * ttl

\* The address a client sends its transactions to is the documented
\* {base}/api/v1/tx/{workspace_uuid}, the path below the platform's URL once.
RestAddressed ==
    (reply # <<>> /\ "restBaseUrl" \in DOMAIN reply[1]) =>
        TxUrl(reply[1]) = HulyUrl \o <<"api/v1", "tx", "uuid">>
=============================================================================
