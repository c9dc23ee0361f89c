------------------------------ MODULE StartupProofs -----------------------------
(***************************************************************************)
(* What a configuration that passes validation is worth: for lists of any  *)
(* length, any lifetimes and any width of the clock.                       *)
(***************************************************************************)
EXTENDS Startup, FiniteSetTheorems, TLAPS

Validated(config) == ~RejectLegacyAdmin(config) /\ ValidateWorkspaceCredentials(config)

Fields == {"config", "pc", "token", "broker"}

(* The bridge process: its configuration, once validated, stays so; its broker is made of it, and *)
(* what the broker replied is what it has to say of a workspace.                                 *)
Booting ==
    /\ DOMAIN boot = Fields
    /\ boot.config \in BridgeConfigs
    /\ boot.pc \in {"load", "refused", "authenticate", "bootstrap", "nats", "failed",
                    "serving"}
    /\ boot.pc \notin {"load", "refused"} => Validated(boot.config)
    /\ boot.pc = "serving" <=> boot.broker # <<>>
    /\ boot.broker # <<>> => boot.broker = FromCredentials(boot.config)
    /\ reply # <<>> =>
           /\ boot.broker # <<>>
           /\ \E w \in Workspaces :
                 reply = IF w \in DOMAIN boot.broker[1].credentials
                         THEN <<MintResponseFor(boot.broker[1], w, Now)>>
                         ELSE <<[workspace |-> w, error |-> "unknown_workspace"]>>

BootInv == (boot = NoBridge /\ reply = <<>>) \/ Booting

-----------------------------------------------------------------------------
(* The two validations. *)

(* A list of credentials is a sequence of them. *)
LEMMA ConfigCredentials ==
    ASSUME NEW config \in BridgeConfigs
    PROVE  /\ \E n \in Nat : config.credentials \in [1 .. n -> WorkspaceCredentials]
           /\ config.huly \in HulyConfigs
PROOF
  <1>1. CASE config \in [huly : HulyConfigs, credentials : BoundedSeq(WorkspaceCredentials, MaxListed),
                         admin : {FALSE}]
    BY <1>1, StartupAssumption DEF BoundedSeq, SeqOf
  <1>2. CASE config \in [huly : HulyConfigs, credentials : {<<>>}, admin : {TRUE}]
    <2>1. config.credentials = <<>> /\ config.huly \in HulyConfigs
      BY <1>2
    <2>2. config.credentials \in [1 .. 0 -> WorkspaceCredentials]
      BY <2>1
    <2> QED BY <2>1, <2>2
  <1> QED BY <1>1, <1>2 DEF BridgeConfigs

(* As many slugs as entries: no two entries are for the same workspace. *)
LEMMA SlugsDiffer ==
    ASSUME NEW config \in BridgeConfigs, Validated(config),
           NEW i \in DOMAIN config.credentials, NEW j \in DOMAIN config.credentials,
           config.credentials[i].workspace = config.credentials[j].workspace
    PROVE  i = j
PROOF
  <1> DEFINE E == config.credentials
             f == [k \in DOMAIN E |-> E[k].workspace]
             W == {E[k].workspace : k \in DOMAIN E}
  <1>1. PICK n \in Nat : E \in [1 .. n -> WorkspaceCredentials]
    BY ConfigCredentials
  <1>2. DOMAIN E = 1 .. n /\ Len(E) = n
    BY <1>1
  <1>3. IsFiniteSet(1 .. n) /\ Cardinality(1 .. n) = n
    BY <1>1, FS_Interval
  <1>4. f \in Surjection(1 .. n, W)
    BY <1>2 DEF Surjection
  <1>5. Cardinality(W) = n
    BY <1>2 DEF Validated, ValidateWorkspaceCredentials
  <1>6. f \in Injection(1 .. n, W)
    BY <1>3, <1>4, <1>5, FS_Surjection
  <1>7. f[i] = f[j]
    OBVIOUS
  <1> QED BY <1>2, <1>6, <1>7 DEF Injection, IsInjective

(* What the broker is given passes its own validation. *)
LEMMA EffectiveFit ==
    ASSUME NEW config \in BridgeConfigs, Validated(config)
    PROVE  LET creds == EffectiveWorkspaceCredentials(config) IN
           /\ \A i \in DOMAIN creds : ExactlyOne(creds[i])
           /\ \A i, j \in DOMAIN creds : creds[i].workspace = creds[j].workspace => i = j
           /\ \E i \in DOMAIN creds : creds[i].workspace = Primary
           /\ DOMAIN creds \subseteq Nat
           /\ \A i \in DOMAIN creds : Or(creds[i].ttl, DefaultTtl) \in Nat
PROOF
  <1> DEFINE creds == EffectiveWorkspaceCredentials(config)
  <1>1. config.huly.workspace = Primary /\ config.huly.auth \in {"token", "password"}
    BY ConfigCredentials DEF HulyConfigs
  <1>2. CASE config.credentials # <<>>
    <2>1. creds = config.credentials
      BY <1>2 DEF EffectiveWorkspaceCredentials
    <2>2. PICK n \in Nat : creds \in [1 .. n -> WorkspaceCredentials]
      BY <2>1, ConfigCredentials
    <2>3. \A i \in DOMAIN creds : ExactlyOne(creds[i])
      BY <2>1 DEF Validated, ValidateWorkspaceCredentials
    <2>4. \E i \in DOMAIN creds : creds[i].workspace = Primary
      BY <1>1, <1>2, <2>1 DEF Validated, ValidateWorkspaceCredentials
    <2>5. ASSUME NEW i \in DOMAIN creds PROVE Or(creds[i].ttl, DefaultTtl) \in Nat
      <3>1. creds[i].ttl = <<>> \/ \E t \in Lifetimes : creds[i].ttl = <<t>>
        BY <2>2 DEF WorkspaceCredentials
      <3> QED BY <3>1, StartupAssumption DEF Or
    <2> QED BY <2>1, <2>2, <2>3, <2>4, <2>5, SlugsDiffer
  <1>3. CASE config.credentials = <<>>
    <2>1. /\ DOMAIN creds = {1}
          /\ creds[1] = [workspace |-> config.huly.workspace, ttl |-> <<>>,
                         password |-> IF config.huly.auth = "password" THEN <<"own">> ELSE <<>>,
                         token    |-> IF config.huly.auth = "token" THEN <<"own">> ELSE <<>>]
      BY <1>3 DEF EffectiveWorkspaceCredentials
    <2>2. ExactlyOne(creds[1]) /\ creds[1].workspace = Primary /\ creds[1].ttl = <<>>
      BY <1>1, <2>1 DEF ExactlyOne
    <2> QED BY <2>1, <2>2, StartupAssumption DEF Or
  <1> QED BY <1>2, <1>3

(* The broker has the credentials that it was given, each for its workspace. *)
LEMMA BrokerOf ==
    ASSUME NEW config \in BridgeConfigs, Validated(config), NEW broker,
           broker = FromCredentials(config)
    PROVE  LET creds == EffectiveWorkspaceCredentials(config)
               known == broker[1].credentials IN
           /\ broker # <<>>
           /\ DOMAIN known = {creds[i].workspace : i \in DOMAIN creds}
           /\ \A i \in DOMAIN creds : known[creds[i].workspace].ttl = Or(creds[i].ttl, DefaultTtl)
PROOF
  <1> DEFINE creds == EffectiveWorkspaceCredentials(config)
             LastOf(w) == CHOOSE i \in DOMAIN creds :
                              /\ creds[i].workspace = w
                              /\ \A j \in DOMAIN creds : creds[j].workspace = w => j <= i
             map == [w \in {creds[i].workspace : i \in DOMAIN creds} |->
                        [auth |-> IF creds[LastOf(w)].password # <<>> THEN "password" ELSE "token",
                         ttl  |-> Or(creds[LastOf(w)].ttl, DefaultTtl)]]
  <1>1. PICK r : broker = <<r>> /\ r.credentials = map
    <2>1. broker = << [restBaseUrl |-> HulyUrl \o <<"api/v1">>,
                       accountsUrl |-> config.huly.accountsUrl,
                       credentials |-> map] >>
      BY EffectiveFit DEF FromCredentials
    <2> HIDE DEF map
    <2> QED BY <2>1
  <1>2. broker # <<>> /\ broker[1].credentials = map
    BY <1>1
  <1>3. ASSUME NEW i \in DOMAIN creds PROVE LastOf(creds[i].workspace) = i
    BY EffectiveFit
  <1>4. ASSUME NEW i \in DOMAIN creds
        PROVE  map[creds[i].workspace].ttl = Or(creds[i].ttl, DefaultTtl)
    BY <1>3
  <1> QED BY <1>2, <1>4

-----------------------------------------------------------------------------
(* The invariant. *)

(* The bridge starts with what an operator wrote, and without a broker. *)
LEMMA BootInit ==
    ASSUME StartupInit
    PROVE  BootInv
PROOF
  <1>1. ASSUME NEW c \in BridgeConfigs,
               boot = [config |-> c, pc |-> "load", token |-> <<>>, broker |-> <<>>]
        PROVE  Booting
    <2>1. DOMAIN boot = Fields /\ boot.config = c /\ boot.pc = "load" /\ boot.broker = <<>>
      BY <1>1 DEF Fields
    <2> QED BY <2>1 DEF Booting, StartupInit
  <1> QED BY <1>1 DEF StartupInit, BootInv

(* A step that only goes on leaves the configuration and the broker as they were. *)
LEMMA GoesOn ==
    ASSUME Booting, UNCHANGED reply,
           DOMAIN boot' = DOMAIN boot, boot'.config = boot.config, boot'.broker = boot.broker,
           boot'.pc \in {"authenticate", "bootstrap", "nats", "failed", "serving"},
           Validated(boot.config),
           boot'.pc = "serving" <=> boot.broker # <<>>
    PROVE  Booting'
PROOF BY DEF Booting

(* Every step keeps it: only ConnectAndServe makes a broker, only AnswerMint a reply. *)
LEMMA BootStep ==
    ASSUME BootInv, [StartupNext]_startupVars
    PROVE  BootInv'
PROOF
  <1>1. CASE UNCHANGED <<boot, reply>>
    BY <1>1 DEF BootInv, Booting
  <1>2. ASSUME boot = NoBridge PROVE UNCHANGED <<boot, reply>>
    <2>1. boot.pc = "none"
      BY <1>2 DEF NoBridge
    <2> QED BY <2>1 DEF StartupNext, startupVars, BridgeFromFile, Authenticate,
              BootstrapServerConfig, ConnectAndServe, AnswerMint, McpFromFile,
              McpStart, InvalidatorSubscribes, McpServiceEnds, InvalidatorCancelled, McpStops
  <1>3. ASSUME Booting, BridgeFromFile PROVE Booting'
    <2>1. CASE Validated(boot.config)
      BY <1>3, <2>1, GoesOn DEF Booting, BridgeFromFile, Validated, Fields
    <2>2. CASE ~Validated(boot.config)
      <3>1. /\ DOMAIN boot' = Fields /\ boot'.config = boot.config /\ boot'.broker = <<>>
            /\ boot'.pc = "refused" /\ reply' = <<>>
        BY <1>3, <2>2 DEF Booting, BridgeFromFile, Validated, Fields
      <3> QED BY <1>3, <3>1 DEF Booting
    <2> QED BY <2>1, <2>2
  <1>4. ASSUME Booting, Authenticate \/ BootstrapServerConfig PROVE Booting'
    <2>1. /\ DOMAIN boot' = DOMAIN boot /\ boot'.config = boot.config /\ boot'.broker = boot.broker
          /\ boot'.pc \in {"bootstrap", "failed", "nats"} /\ UNCHANGED reply
          /\ boot.pc \in {"authenticate", "bootstrap"}
      BY <1>4 DEF Booting, Authenticate, BootstrapServerConfig, Fields
    <2> QED BY <1>4, <2>1, GoesOn DEF Booting
  <1>5. ASSUME Booting, ConnectAndServe PROVE Booting'
    <2>1. Validated(boot.config) /\ boot.config \in BridgeConfigs /\ UNCHANGED reply
      BY <1>5 DEF Booting, ConnectAndServe
    <2>2. CASE boot' = [boot EXCEPT !.pc = "failed"]
      BY <1>5, <2>1, <2>2, GoesOn DEF Booting, ConnectAndServe, Fields
    <2>3. CASE boot' # [boot EXCEPT !.pc = "failed"]
      <3>1. PICK broker : broker = FromCredentials(boot.config)
        OBVIOUS
      <3>2. broker # <<>>
        BY <2>1, <3>1, BrokerOf
      <3>3. boot' = [boot EXCEPT !.pc = "serving", !.broker = broker]
        BY <1>5, <2>3, <3>1, <3>2 DEF ConnectAndServe
      <3>4. /\ DOMAIN boot' = Fields /\ boot'.config = boot.config /\ boot'.broker = broker
            /\ boot'.pc = "serving"
        BY <1>5, <3>3 DEF Booting, Fields
      <3>5. reply = <<>>
        \* No reply is there before the broker is.
        BY <1>5 DEF Booting, ConnectAndServe
      <3> QED BY <2>1, <3>1, <3>2, <3>4, <3>5 DEF Booting
    <2> QED BY <2>2, <2>3
  <1>7. ASSUME Booting, AnswerMint PROVE Booting'
    BY <1>7 DEF Booting, AnswerMint
  <1>8. CASE Booting /\ StartupNext /\ ~UNCHANGED <<boot, reply>>
    BY <1>3, <1>4, <1>5, <1>7, <1>8 DEF StartupNext, BootInv, McpFromFile, McpStart,
       InvalidatorSubscribes, McpServiceEnds, InvalidatorCancelled, McpStops
  <1> QED BY <1>1, <1>2, <1>8 DEF BootInv, startupVars

-----------------------------------------------------------------------------
(* What the broker replies. *)

(* The listed entries of a workspace, and the lifetime that they configure. *)
Listed(config, w) == {i \in DOMAIN config.credentials : config.credentials[i].workspace = w}

Lifetime(config, w) ==
    Or(config.credentials[CHOOSE i \in Listed(config, w) : TRUE].ttl, DefaultTtl)

(* If there is a list, the broker knows just the workspaces in it, with the lifetimes in it. *)
LEMMA ListedLifetime ==
    ASSUME NEW config \in BridgeConfigs, Validated(config), config.credentials # <<>>,
           NEW broker, NEW w, broker = FromCredentials(config)
    PROVE  LET known == broker[1].credentials IN
           /\ Primary \in DOMAIN known
           /\ w \in DOMAIN known <=> Listed(config, w) # {}
           /\ w \in DOMAIN known => known[w].ttl = Lifetime(config, w) /\ Lifetime(config, w) \in Nat
PROOF
  <1> DEFINE listed  == config.credentials
             matches == Listed(config, w)
             ttl     == Lifetime(config, w)
             known   == broker[1].credentials
             creds == EffectiveWorkspaceCredentials(config)
  <1>1. /\ DOMAIN known = {creds[i].workspace : i \in DOMAIN creds}
        /\ \A i \in DOMAIN creds : known[creds[i].workspace].ttl = Or(creds[i].ttl, DefaultTtl)
    BY BrokerOf
  <1>2. Primary \in DOMAIN known
    BY <1>1, EffectiveFit
  <1>3. creds = listed
    BY DEF EffectiveWorkspaceCredentials
  <1>4. w \in DOMAIN known <=> matches # {}
    BY <1>1, <1>3 DEF Listed
  <1>5. ASSUME w \in DOMAIN known PROVE known[w].ttl = ttl /\ ttl \in Nat
    <2>1. PICK i : i = CHOOSE j \in matches : TRUE
      OBVIOUS
    <2>2. i \in matches
      BY <1>4, <1>5, <2>1
    <2>3. ttl = Or(listed[i].ttl, DefaultTtl)
      BY <2>1 DEF Lifetime
    <2>4. i \in DOMAIN creds /\ creds[i].workspace = w
      BY <1>3, <2>2 DEF Listed
    <2> QED BY <1>1, <1>3, <2>3, <2>4, EffectiveFit
  <1> QED BY <1>2, <1>4, <1>5

(* The arithmetic of a reply: saturated, never in the past, never longer than configured. *)
LEMMA Expiry ==
    ASSUME NEW broker, NEW w, NEW ttl \in Nat, broker.credentials[w].ttl = ttl
    PROVE  LET r == MintResponseFor(broker, w, Now) IN
           /\ r.workspace = w
           /\ "error" \notin DOMAIN r
           /\ r.expiresAt >= Now
           /\ r.expiresAt \in {Now + 1000 * ttl, U64Max}
           /\ r.expiresAt - Now <= 1000 * ttl
PROOF
  <1>1. U64Max \in Nat /\ Now \in Nat /\ Now <= U64Max
    BY StartupAssumption
  <1>2. PICK expires : expires = Saturated(Now + Saturated(ttl * 1000))
    OBVIOUS
  <1>3. /\ expires \in Nat /\ expires >= Now
        /\ expires \in {Now + 1000 * ttl, U64Max}
        /\ expires - Now <= 1000 * ttl
    BY <1>1, <1>2 DEF Saturated
  <1>4. LET r == MintResponseFor(broker, w, Now) IN
        /\ r.workspace = w
        /\ "error" \notin DOMAIN r
        /\ r.expiresAt = expires
    BY <1>2 DEF MintResponseFor
  <1> QED BY <1>1, <1>3, <1>4

(* A configuration with a list of credentials that passes validation can be served, and what the *)
(* broker answers agrees with it: a workspace is refused just when it is not listed, a lifetime is *)
(* as configured, however large.  For any such list, any lifetimes, clock and width of integers.  *)
THEOREM AcceptedConfigServesCorrect == StartupSpec => []AcceptedConfigServes
PROOF
  <1>1. StartupInit => BootInv
    BY BootInit
  <1>2. BootInv /\ [StartupNext]_startupVars => BootInv'
    BY BootStep
  <1>3. BootInv => AcceptedConfigServes
    <2>1. CASE boot = NoBridge /\ reply = <<>>
      <3>1. boot.pc = "none" /\ boot.broker = <<>>
        BY <2>1 DEF NoBridge
      <3> QED BY <2>1, <3>1 DEF AcceptedConfigServes
    <2>2. CASE Booting /\ (boot.broker = <<>> \/ boot.config.credentials = <<>>)
      BY <2>2 DEF Booting, AcceptedConfigServes
    <2>3. CASE Booting /\ boot.broker # <<>> /\ boot.config.credentials # <<>>
      <3>1. boot.broker = FromCredentials(boot.config)
        BY <2>3 DEF Booting
      <3>2. boot.config \in BridgeConfigs /\ Validated(boot.config) /\ boot.pc # "unserviceable"
        BY <2>3 DEF Booting
      <3>3. Primary \in DOMAIN boot.broker[1].credentials
        BY <2>3, <3>1, <3>2, ListedLifetime
      <3>4. CASE reply = <<>>
        BY <3>2, <3>3, <3>4 DEF AcceptedConfigServes
      <3>5. CASE reply # <<>>
        <4> DEFINE r       == reply[1]
                   known   == boot.broker[1].credentials
                   listed  == boot.config.credentials
                   matches == {i \in DOMAIN listed : listed[i].workspace = r.workspace}
                   ttl     == Or(listed[CHOOSE i \in matches : TRUE].ttl, DefaultTtl)
        <4>1. PICK w \in Workspaces :
                  reply = IF w \in DOMAIN known
                          THEN <<MintResponseFor(boot.broker[1], w, Now)>>
                          ELSE <<[workspace |-> w, error |-> "unknown_workspace"]>>
          BY <2>3, <3>5 DEF Booting
        <4>2. CASE w \in DOMAIN known
          <5>1. r = MintResponseFor(boot.broker[1], w, Now)
            BY <4>1, <4>2
          <5>2. r.workspace = w
            <6> HIDE DEF r
            <6> QED BY <5>1 DEF MintResponseFor
          <5>3. PICK t : t = Lifetime(boot.config, r.workspace)
            OBVIOUS
          <5>4. t = ttl
            BY <5>3 DEF Lifetime, Listed
          <5>5. t \in Nat /\ known[w].ttl = t /\ Listed(boot.config, r.workspace) # {}
            BY <2>3, <3>1, <3>2, <4>2, <5>2, <5>3, ListedLifetime
          <5>6. matches # {}
            BY <5>5 DEF Listed
          <5>7. /\ "error" \notin DOMAIN r
                /\ r.expiresAt >= Now
                /\ r.expiresAt \in {Now + 1000 * t, U64Max}
                /\ r.expiresAt - Now <= 1000 * t
            BY <5>1, <5>5, Expiry
          <5>8. /\ "error" \notin DOMAIN r
                /\ r.expiresAt >= Now
                /\ r.expiresAt \in {Now + 1000 * ttl, U64Max}
                /\ r.expiresAt - Now <= 1000 * ttl
            <6> HIDE DEF ttl, r
            <6> QED BY <5>4, <5>7
          <5> QED BY <3>2, <3>3, <5>6, <5>8 DEF AcceptedConfigServes
        <4>3. CASE w \notin DOMAIN known
          <5>1. r = [workspace |-> w, error |-> "unknown_workspace"]
            BY <4>1, <4>3
          <5>2. "error" \in DOMAIN r /\ r.workspace = w
            BY <5>1
          <5>3. Listed(boot.config, r.workspace) = {}
            BY <2>3, <3>1, <3>2, <4>3, <5>2, ListedLifetime
          <5>4. matches = {}
            BY <5>3 DEF Listed
          <5> QED BY <3>2, <3>3, <5>2, <5>4 DEF AcceptedConfigServes
        <4> QED BY <4>2, <4>3
      <3> QED BY <3>4, <3>5
    <2> QED BY <2>1, <2>2, <2>3 DEF BootInv
  <1> QED BY <1>1, <1>2, <1>3, PTL DEF StartupSpec

=============================================================================
