------------------------------ MODULE McpServer ------------------------------
(***************************************************************************)
(* huly-mcp and what it works with: the handlers of server.rs (HulyMcp-    *)
(* Server), each a program of steps, run concurrently on the shared client *)
(* factory, the bridges' JWT broker, the transactor and the collaborator   *)
(* service; the plan says which calls are made.                            *)
(***************************************************************************)
EXTENDS McpTools

CONSTANT Plans  \* the situations to look at: [call, bridge, docs, entry, faults, sync]

ToolNames ==
    {"huly_list_workspaces", "huly_status", "huly_find", "huly_get", "huly_create", "huly_update",
     "huly_delete", "huly_find_issues", "huly_get_issue", "huly_update_issue", "huly_create_issue",
     "huly_create_component", "huly_create_project", "huly_find_cards", "huly_create_card",
     "huly_link_issue_to_card", "huly_discover", "huly_upload_markup", "huly_fetch_markup",
     "huly_sync_status", "huly_sync_cards"}

(* The classes that tools of their own write, and the fields that name their documents and tie *)
(* them together.                                                                               *)
Managed == {"Project", "Issue", "Component", "Relation"}

KeyFields == {"id", "class", "space", "identifier", "sequence", "number", "label",
              "docA", "docB", "association"}

ClassFields(class) ==
    CASE class = "Project" -> {"identifier"}
      [] class = "Issue" -> {"number"}
      [] class = "Component" -> {"label"}
      [] class = "Relation" -> {"docA", "docB", "association"}
      [] OTHER -> {}

(* A document has the fields of its class; a class is no document of the workspace. *)
Complete(d) ==
    /\ {"id", "class", "space"} \subseteq DOMAIN d
    /\ ClassFields(d.class) \subseteq DOMAIN d
    /\ d.class = "Project" /\ "sequence" \in DOMAIN d => d.sequence \in Nat
    /\ d.id \notin Managed

(* A new id is new: it is none of those that are there. *)
Fresh(known) == \A c \in Calls : TxIds(c) \cap known = {}

ASSUME PlansAssumption ==
    \A s \in Plans :
        /\ s.faults \in Nat
        /\ DOMAIN s.call \subseteq Calls
        /\ \A c \in DOMAIN s.call :
              /\ s.call[c].tool \in ToolNames
              /\ s.call[c].tool = "huly_update_issue" =>
                     DOMAIN s.call[c].set \subseteq
                         {"title", "description", "status", "priority", "component"}
        /\ s.entry.by \in Bridges \cup {""}
        /\ DOMAIN s.entry = DOMAIN NoEntry
        /\ \A n \in s.entry.names : n.id \notin Managed
        /\ \A d \in s.docs : Complete(d)
        /\ \A d, e \in s.docs : d.id = e.id => d = e
        /\ Fresh({d.id : d \in s.docs} \cup {d.space : d \in s.docs} \cup Managed)

(* The workspace is used as its schema says: the raw tools, which take any class, leave the     *)
(* documents of these classes to the tools that are for them, but for what does not name them.  *)
RawToolsElsewhere ==
    \A s \in Plans : \A c \in DOMAIN s.call :
        LET a == s.call[c] IN
        /\ a.tool = "huly_create" => a.class \notin Managed
        /\ a.tool = "huly_create_card" => ~IsPlatformId(a.kind)
        /\ a.tool = "huly_update" => (DOMAIN a.ops.set \cup a.ops.inc) \cap KeyFields = {}

vars == <<plan, todo, loc, outcome, trail, faults, docs, blobs, entry, listening, task, inbox>>

-----------------------------------------------------------------------------
(* Handlers: the action record a mutating tool publishes first, and its body. *)

Reads(body) == [action |-> None, body |-> body]

Mutates(class, op, fields, body) ==
    [action |-> ActionRecord(class, op, fields), body |-> <<"action">> \o body]

Schema == <<"schema">>

ListWorkspaces(a) ==
    Reads(IF a.workspace THEN <<"account_jwt", "accounts_url", "user_workspaces">>
          ELSE <<"no_workspace">>)

(* Forgets what is cached, so that the probe mints. *)
Status(a) == Reads(IF a.workspace THEN <<"forget", "status">> ELSE <<"no_workspace">>)

Find(a) == Reads(<<"client", "find_all">>)
Get(a) == Reads(<<"client", "find_one">>)
Create(a) == Mutates(AuditClass(a.class), "create", {}, <<"client", "create_doc">>)
Update(a) == Mutates(AuditClass(a.class), "update", ChangedFields(a.ops), <<"client", "update_doc">>)
Delete(a) == Mutates(AuditClass(a.class), "delete", {}, <<"client", "remove_doc">>)

FindIssuesTool(a) == Reads(<<"client", "find_issues">>)
GetIssueTool(a) == Reads(<<"client", "get_issue">>)
UpdateIssueTool(a) ==
    Mutates("tracker.issue", "update", DOMAIN a.set, <<"client", "update_issue">>)
CreateIssueTool(a) ==
    Mutates("tracker.issue", "create", {}, <<"client", "resolve_project", "read_sequence">>)
CreateComponentTool(a) ==
    Mutates("tracker.component", "create", {}, <<"client", "resolve_project", "create_component">>)
CreateProjectTool(a) == Mutates("tracker.project", "create", {}, <<"client", "create_project">>)

FindCardsTool(a) == Reads(<<"client", "schema", "find_cards">>)
CreateCardTool(a) == Mutates("card", "create", {}, <<"client", "schema", "create_card">>)
LinkIssueToCardTool(a) ==
    Mutates("tracker.issue", "link", {"relation"}, <<"client", "schema", "link_issue">>)

DiscoverTool(a) == Reads(<<"client", "discover">>)
UploadMarkupTool(a) == Reads(<<"collaborator_url", "collaborator_auth", "upload_markup">>)
FetchMarkupTool(a) == Reads(<<"collaborator_url", "collaborator_auth", "fetch_markup">>)

SyncStatusTool(a) == Reads(<<"sync_status">>)
SyncCardsTool(a) == Reads(<<"sync_cards">>)

Tool(a) ==
    CASE a.tool = "huly_list_workspaces" -> ListWorkspaces(a)
      [] a.tool = "huly_status" -> Status(a)
      [] a.tool = "huly_find" -> Find(a)
      [] a.tool = "huly_get" -> Get(a)
      [] a.tool = "huly_create" -> Create(a)
      [] a.tool = "huly_update" -> Update(a)
      [] a.tool = "huly_delete" -> Delete(a)
      [] a.tool = "huly_find_issues" -> FindIssuesTool(a)
      [] a.tool = "huly_get_issue" -> GetIssueTool(a)
      [] a.tool = "huly_update_issue" -> UpdateIssueTool(a)
      [] a.tool = "huly_create_issue" -> CreateIssueTool(a)
      [] a.tool = "huly_create_component" -> CreateComponentTool(a)
      [] a.tool = "huly_create_project" -> CreateProjectTool(a)
      [] a.tool = "huly_find_cards" -> FindCardsTool(a)
      [] a.tool = "huly_create_card" -> CreateCardTool(a)
      [] a.tool = "huly_link_issue_to_card" -> LinkIssueToCardTool(a)
      [] a.tool = "huly_discover" -> DiscoverTool(a)
      [] a.tool = "huly_upload_markup" -> UploadMarkupTool(a)
      [] a.tool = "huly_fetch_markup" -> FetchMarkupTool(a)
      [] a.tool = "huly_sync_status" -> SyncStatusTool(a)
      [] a.tool = "huly_sync_cards" -> SyncCardsTool(a)

Mutating(c) == Tool(Arg(c)).action # None

-----------------------------------------------------------------------------
(* The steps that are in server.rs itself. *)

Action(c) ==
    /\ At(c, "action")
    /\ Publish(c, Tool(Arg(c)).action)

NoWorkspace(c) ==
    /\ At(c, "no_workspace")
    /\ Fail(c, "no_workspace")

FindDocs(c) ==
    LET Page(found) == Return(c, [found |-> {d.id : d \in found}])
    IN /\ At(c, "find_all")
       /\ FindAllDocs(c, "all", Arg(c).class, Arg(c).query, Page)

GetDoc(c) ==
    LET Take(d) == Return(c, d)
    IN /\ At(c, "find_one")
       /\ FindOne(c, Arg(c).class, Arg(c).query, Take)

Store(c) ==
    \/ At(c, "create_doc") /\ CreateDoc(c, Arg(c).class, Arg(c).space, Arg(c).attributes)
    \/ At(c, "update_doc") /\ UpdateDoc(c, Arg(c).id, Arg(c).ops)
    \/ At(c, "remove_doc") /\ RemoveDoc(c, Arg(c).id)

(* The accounts service, with the account-service JWT. *)
UserWorkspaces(c) ==
    /\ At(c, "user_workspaces")
    /\ \/ Return(c, None) /\ UNCHANGED faults
       \/ Fault /\ Fail(c, "accounts")

(* The sync subprocess: not started, killed after the timeout, ended with an error. *)
SpawnCapture(c, Success) ==
    \/ Fault /\ \E why \in {"spawn", "timeout", "exit"} : Fail(c, why)
    \/ Success /\ UNCHANGED faults

SyncStatus(c) ==
    /\ At(c, "sync_status")
    /\ SpawnCapture(c, Return(c, None) \/ Fail(c, "parse"))

SyncCards(c) ==
    /\ At(c, "sync_cards")
    /\ SpawnCapture(c, Return(c, None))

SyncNotConfigured(c) ==
    /\ At(c, "sync_status") \/ At(c, "sync_cards")
    /\ ~plan.sync
    /\ Fail(c, "not_configured")

-----------------------------------------------------------------------------

Init ==
    /\ \E s \in Plans :
          /\ plan = [call |-> s.call, bridge |-> s.bridge, faults |-> s.faults, sync |-> s.sync]
          /\ docs = s.docs
          /\ BrokerInit(s.entry)
    /\ todo = [c \in Calls |-> IF c \in DOMAIN plan.call THEN RecordTool(Tool(plan.call[c]).body)
                               ELSE << >>]
    /\ loc = [c \in Calls |-> NoLocals]
    /\ outcome = [c \in Calls |-> Running]
    /\ trail = [c \in Calls |-> << >>]
    /\ faults = plan.faults
    /\ blobs = {}

(* Steps that leave the workspace and the factory alone, those that leave the factory alone, *)
(* and those of the factory.                                                                  *)
RecordStep(c) ==
    /\ ToolInvoked(c) \/ Action(c) \/ ToolCompleted(c) \/ ErrorRecord(c)
    /\ UNCHANGED <<plan, docs, blobs, brokerVars>>

LocalStep(c) ==
    /\ \/ NoWorkspace(c) /\ UNCHANGED faults
       \/ UserWorkspaces(c)
       \/ plan.sync /\ (SyncStatus(c) \/ SyncCards(c))
       \/ SyncNotConfigured(c) /\ UNCHANGED faults
    /\ UNCHANGED <<plan, world, brokerVars>>

RequestStep(c) ==
    /\ FindDocs(c) \/ GetDoc(c) \/ Store(c) \/ ToolStep(c)
    /\ UNCHANGED <<plan, brokerVars>>

CallStep(c) ==
    \/ RecordStep(c) \/ LocalStep(c) \/ RequestStep(c)
    \/ FactoryStep(c) /\ UNCHANGED plan

BridgeStep(c, b) == HandleMint(c, b) /\ UNCHANGED <<plan, callVars, world>>

Environment ==
    /\ JwtDue \/ \E b \in Bridges : ResponderStops(b) /\ UNCHANGED <<callVars, world>>
    /\ UNCHANGED plan

Done == \A c \in DOMAIN plan.call : todo[c] = << >>

Next ==
    \/ \E c \in Calls : CallStep(c) \/ \E b \in Bridges : BridgeStep(c, b)
    \/ Environment
    \/ Done /\ UNCHANGED vars

(* The runtime polls every task; the transactor and the accounts service answer; a mint that *)
(* is not answered times out.                                                                  *)
Spec == Init /\ [][Next]_vars /\ \A c \in Calls : WF_vars(CallStep(c))

-----------------------------------------------------------------------------
(* Properties. *)

Docs == {d \in docs : {"id", "class", "space"} \subseteq DOMAIN d}

(* Every call is where its program and its outcome say: it has an outcome when only the closing *)
(* records are left, and waits for a mint only at a step that uses the factory.                  *)
TypeOK ==
    /\ docs = Docs
    /\ entry.by \in Bridges \cup {""}
    /\ listening \subseteq Bridges
    /\ \A c \in Calls :
          /\ outcome[c].state \in {"running", "ok", "err"}
          /\ (outcome[c].state # "running") =>
                (todo[c] \in {<<"completed">>, <<"completed", "error">>, <<"error">>, << >>})
          /\ loc[c].attempt < IF MaxAttempts > CollabAttempts THEN MaxAttempts ELSE CollabAttempts
          /\ inbox[c] # Idle => AtEntry(c)

Txs(c) == {i \in DOMAIN trail[c] : trail[c][i].rec = "tx"}

NothingToDo(v) ==
    \/ "status" \in DOMAIN v /\ v.status = "existing"
    \/ "changed" \in DOMAIN v /\ v.changed = {}

(* What a call reports is what it did: a mutating call that succeeds has had exactly one        *)
(* transaction applied, none if it reports what was there already or no change; one that fails   *)
(* has had none, unless the answer was lost, and never two.                                      *)
AppliedAsReported ==
    \A c \in DOMAIN plan.call :
        LET n == Cardinality(Txs(c)) IN
        /\ n <= 1
        /\ outcome[c].state = "ok" =>
               n = IF Mutating(c) /\ ~NothingToDo(outcome[c].value) THEN 1 ELSE 0
        /\ outcome[c].state = "err" /\ outcome[c].why # "network" => n = 0

(* huly_create_issue gives up for contention only if other writers took at least as many numbers *)
(* as it made attempts.                                                                           *)
GiveUpOnlyUnderContention ==
    \A c \in Calls : outcome[c].why = "contention" =>
        \A d \in FindAll(docs, "Project", [id |-> outcome[c].value.project]) :
            d.sequence >= outcome[c].value.first + MaxAttempts

(* There is one component with a label in a project, and one relation between an issue and a      *)
(* card by an association, however many calls create it at once.                                  *)
NoDuplicates ==
    /\ \A d, e \in FindAll(docs, "Component", << >>) :
          d.space = e.space /\ d.label = e.label => d = e
    /\ \A d, e \in FindAll(docs, "Relation", << >>) :
          d.docA = e.docA /\ d.docB = e.docB /\ d.association = e.association => d = e

(* When nothing fails, every transaction follows the records of the call's start and of the       *)
(* action, which names the very fields that an update changes.                                    *)
AuditTrail ==
    faults = plan.faults =>
        \A c \in Calls : \A i \in DOMAIN trail[c] :
            trail[c][i].rec = "tx" =>
                /\ i = 3
                /\ trail[c][1].rec = "invoked"
                /\ trail[c][2].rec = "action"
                /\ trail[c][i].op = "update" => trail[c][i].fields = trail[c][2].fields

Deleted == {Arg(c).id : c \in {x \in DOMAIN plan.call : Arg(x).tool = "huly_delete"}}

Creating(c) == Mutating(c) /\ Tool(Arg(c)).action.op \in {"create", "link"}

(* The document whose id a creating call reports exists, with the identifier it reports, unless   *)
(* another call deletes it: also an existing one that lost-race creators report.                  *)
ReportedExist ==
    \A c \in DOMAIN plan.call :
        LET v == outcome[c].value IN
        Creating(c) /\ outcome[c].state = "ok" /\ v.id \notin Deleted =>
            \E d \in docs : d.id = v.id /\ ("identifier" \in DOMAIN v => d.identifier = v.identifier)

(* A refusal by the broker has its cause: an unknown workspace is one that a bridge has no         *)
(* credentials for, a failure of the accounts service happened.                                   *)
RefusalHasCause ==
    \A c \in Calls :
        /\ outcome[c].why = "unknown_workspace" => \E b \in Bridges : Credential(b) = "none"
        /\ outcome[c].why = "accounts_failure" => faults < plan.faults

Uploads == {c \in DOMAIN plan.call : Arg(c).tool = "huly_upload_markup"}

(* An uploaded markup is stored under the reference that is reported, and a call stores at most   *)
(* one copy per attempt.                                                                          *)
MarkupStored ==
    \A c \in Uploads :
        LET v == outcome[c].value
            same == {x \in Uploads : Arg(x).markdown = Arg(c).markdown}
        IN
        /\ outcome[c].state = "ok" => [ref |-> v.ref, content |-> Arg(c).markdown] \in blobs
        /\ Cardinality({b \in blobs : b.content = Arg(c).markdown})
             <= CollabAttempts * Cardinality(same)

(* The issues of a project are numbered by its sequence: no number is given twice or skipped.      *)
Projects == {d \in FindAll(docs, "Project", << >>) : "sequence" \in DOMAIN d}

ProjectOf(p) == CHOOSE d \in Projects : d.id = p

LastNumber == [p \in {d.id : d \in Projects} |-> ProjectOf(p).sequence]

IssueNumbers ==
    [p \in {d.id : d \in Projects} |-> {d.number : d \in FindAll(docs, "Issue", [space |-> p])}]

Counter == INSTANCE IssueCounter WITH sequence <- LastNumber, numbers <- IssueNumbers

ImplementsIssueCounter == Counter!Spec

(* Every call ends, if what it asks answers or times out: no call of the tools waits for another. *)
EveryCallEnds == \A c \in Calls : <>(todo[c] = << >>)
=============================================================================
