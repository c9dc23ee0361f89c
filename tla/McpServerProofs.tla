--------------------------- MODULE McpServerProofs ---------------------------
(***************************************************************************)
(* huly-mcp for any number of concurrent calls and bridges, any documents  *)
(* and any number of failures: what a call reports is what it did, and a   *)
(* refusal by the broker has its cause.                                    *)
(***************************************************************************)
EXTENDS McpServer, FiniteSetTheorems, SequenceTheorems, TLAPS

(* The steps of the tools that read and of those that change the workspace.  What both have *)
(* comes before the first request to the transactor.                                         *)
ReadSteps ==
    {"invoked", "client", "schema", "refresh_schema", "schema_entry", "no_workspace",
     "account_jwt", "accounts_url", "user_workspaces", "forget", "status", "find_all", "find_one",
     "find_issues", "get_issue", "find_relations", "find_cards", "list_cards", "discover",
     "collaborator_url", "collaborator_auth", "upload_markup", "fetch_markup",
     "sync_status", "sync_cards"}

WriteSteps ==
    {"invoked", "client", "schema", "refresh_schema", "schema_entry", "action",
     "create_doc", "update_doc", "remove_doc", "create_project", "resolve_project",
     "read_sequence", "commit_issue", "create_component", "existing_component", "update_issue",
     "create_card", "store_card", "link_issue", "issue_to_link", "create_relation",
     "existing_relation"}

(* The steps that only one tool has. *)
Owns(tool, step) ==
    /\ step = "create_doc" => tool = "huly_create"
    /\ step = "update_doc" => tool = "huly_update"
    /\ step = "remove_doc" => tool = "huly_delete"
    /\ step = "create_project" => tool = "huly_create_project"
    /\ step \in {"update_issue", "update_collection"} => tool = "huly_update_issue"
    /\ step \in {"read_sequence", "commit_issue"} => tool = "huly_create_issue"
    /\ step \in {"create_component", "existing_component"} => tool = "huly_create_component"
    /\ step \in {"create_card", "store_card"} => tool = "huly_create_card"
    /\ step \in {"link_issue", "issue_to_link", "create_relation", "existing_relation"} =>
           tool = "huly_link_issue_to_card"
    /\ step = "resolve_project" => tool \in {"huly_create_issue", "huly_create_component"}
    /\ step = "upload_markup" => tool = "huly_upload_markup"

StepsOf(a) ==
    {step \in IF Tool(a).action = None THEN ReadSteps ELSE WriteSteps \cup {"update_collection"} :
        /\ Owns(a.tool, step)
        /\ step = "update_collection" => DOMAIN a.set # {}}  \* something to change

Steps(c) == StepsOf(Arg(c))

(* Those that come after the records of the start. *)
Later(c) == Steps(c) \ {"invoked", "action"}

Closing == {<<"completed">>, <<"completed", "error">>, <<"error">>, << >>}

Reported(c) ==
    /\ \/ Txs(c) = {}
       \/ \E k : Txs(c) = {k} /\ Mutating(c)
    /\ outcome[c].state = "ok" =>
           (Txs(c) = {} <=> ~Mutating(c) \/ NothingToDo(outcome[c].value))
    /\ outcome[c].state = "err" /\ outcome[c].why # "network" => Txs(c) = {}

(* A running call has changed nothing and has only steps of its tool left; one that has ended *)
(* has only its closing records left.                                                          *)
CallInv(c) ==
    \/ /\ outcome[c].state = "running"
       /\ outcome[c].why = ""
       /\ Txs(c) = {}
       /\ todo[c] \in Seq(Steps(c))
    \/ /\ outcome[c].state \in {"ok", "err"}
       /\ todo[c] \in Closing
       /\ Reported(c)

FunctionsOfCalls ==
    /\ DOMAIN todo = Calls
    /\ DOMAIN outcome = Calls
    /\ DOMAIN trail = Calls
    /\ DOMAIN inbox = Calls
    /\ \A c \in Calls : \E S : trail[c] \in Seq(S)

AppliedInv ==
    /\ FunctionsOfCalls
    /\ faults \in Nat
    /\ DOMAIN plan.call \subseteq Calls
    /\ \A c \in DOMAIN plan.call : Arg(c).tool \in ToolNames
    /\ \A c \in Calls \ DOMAIN plan.call : todo[c] = << >>
    /\ \A c \in Calls : CallInv(c)
    /\ \A c \in Calls : inbox[c] # Idle => AtEntry(c)

-----------------------------------------------------------------------------
(* The programs of the tools. *)

(* Those that no program contains: a call comes to them by a step before. *)
HeadOnly == {"commit_issue", "store_card"}

(* Every tool is a program of steps of its kind; those with an action record change something *)
(* and publish it first.                                                                       *)
LEMMA ToolPrograms ==
    ASSUME NEW a, a.tool \in ToolNames
    PROVE  LET later == StepsOf(a) \ ({"invoked", "action"} \cup HeadOnly) IN
           IF Tool(a).action = None THEN Tool(a).body \in Seq(later)
           ELSE \E rest \in Seq(later) : Tool(a).body = <<"action">> \o rest
PROOF
  <1> DEFINE later == StepsOf(a) \ ({"invoked", "action"} \cup HeadOnly)
             Fits(body) == body \in Seq(later)
             Fine == IF Tool(a).action = None THEN Fits(Tool(a).body)
                     ELSE \E rest : Fits(rest) /\ Tool(a).body = <<"action">> \o rest
  <1>1. ASSUME NEW class, NEW op, NEW fields, NEW body, Tool(a) = Mutates(class, op, fields, body),
               Tool(a).action # None => Fits(body)
        PROVE  Fine
    <2>1. ActionRecord(class, op, fields) # None
      BY DEF ActionRecord, None
    <2>2. Tool(a).action # None /\ Tool(a).body = <<"action">> \o body
      BY <1>1, <2>1 DEF Mutates
    <2> HIDE DEF Fits
    <2> QED BY <1>1, <2>2
  <1>2. ASSUME NEW body, Tool(a) = Reads(body), Tool(a).action = None => Fits(body) PROVE Fine
    BY <1>2 DEF Reads
  <1>3. ASSUME Tool(a).action = None
        PROVE  /\ Fits(<<"account_jwt", "accounts_url", "user_workspaces">>)
               /\ Fits(<<"no_workspace">>)
               /\ Fits(<<"forget", "status">>)
               /\ Fits(<<"client", "find_all">>)
               /\ Fits(<<"client", "find_one">>)
               /\ Fits(<<"client", "find_issues">>)
               /\ Fits(<<"client", "get_issue">>)
               /\ Fits(<<"client", "schema", "find_cards">>)
               /\ Fits(<<"client", "discover">>)
               /\ a.tool = "huly_upload_markup" =>
                      Fits(<<"collaborator_url", "collaborator_auth", "upload_markup">>)
               /\ Fits(<<"collaborator_url", "collaborator_auth", "fetch_markup">>)
               /\ Fits(<<"sync_status">>)
               /\ Fits(<<"sync_cards">>)
    <2>1. later = {step \in ReadSteps \ {"invoked"} : Owns(a.tool, step)}
      BY <1>3 DEF StepsOf, ReadSteps, HeadOnly
    <2>2. /\ {"account_jwt", "accounts_url", "user_workspaces", "no_workspace", "forget", "status",
              "client", "find_all", "find_one", "find_issues", "get_issue", "schema", "find_cards",
              "discover", "collaborator_url", "collaborator_auth", "fetch_markup", "sync_status",
              "sync_cards"} \subseteq later
          /\ a.tool = "huly_upload_markup" => "upload_markup" \in later
      BY <2>1 DEF ReadSteps, Owns
    <2> HIDE DEF later
    <2> QED BY <2>2
  <1>4. ASSUME Tool(a).action # None
        PROVE  /\ a.tool = "huly_create" => Fits(<<"client", "create_doc">>)
               /\ a.tool = "huly_update" => Fits(<<"client", "update_doc">>)
               /\ a.tool = "huly_delete" => Fits(<<"client", "remove_doc">>)
               /\ a.tool = "huly_update_issue" => Fits(<<"client", "update_issue">>)
               /\ a.tool = "huly_create_issue" =>
                      Fits(<<"client", "resolve_project", "read_sequence">>)
               /\ a.tool = "huly_create_component" =>
                      Fits(<<"client", "resolve_project", "create_component">>)
               /\ a.tool = "huly_create_project" => Fits(<<"client", "create_project">>)
               /\ a.tool = "huly_create_card" => Fits(<<"client", "schema", "create_card">>)
               /\ a.tool = "huly_link_issue_to_card" => Fits(<<"client", "schema", "link_issue">>)
    <2>1. {step \in WriteSteps \ ({"invoked", "action"} \cup HeadOnly) : Owns(a.tool, step)}
              \subseteq later
      BY <1>4 DEF StepsOf, WriteSteps
    <2>2. /\ {"client", "schema"} \subseteq later
          /\ a.tool = "huly_create" => "create_doc" \in later
          /\ a.tool = "huly_update" => "update_doc" \in later
          /\ a.tool = "huly_delete" => "remove_doc" \in later
          /\ a.tool = "huly_update_issue" => "update_issue" \in later
          /\ a.tool = "huly_create_issue" => {"resolve_project", "read_sequence"} \subseteq later
          /\ a.tool = "huly_create_component" =>
                 {"resolve_project", "create_component"} \subseteq later
          /\ a.tool = "huly_create_project" => "create_project" \in later
          /\ a.tool = "huly_create_card" => "create_card" \in later
          /\ a.tool = "huly_link_issue_to_card" => "link_issue" \in later
      BY <2>1 DEF WriteSteps, Owns, HeadOnly
    <2> HIDE DEF later
    <2> QED BY <2>2
  <1> HIDE DEF Fits, Fine, later
  <1>5. ASSUME a.tool = "huly_create" PROVE Fine
    <2>1. Tool(a) = Mutates(AuditClass(a.class), "create", {}, <<"client", "create_doc">>)
      BY <1>5 DEF Tool, Create
    <2> QED BY <1>1, <1>4, <1>5, <2>1
  <1>6. ASSUME a.tool = "huly_update" PROVE Fine
    <2>1. Tool(a) = Mutates(AuditClass(a.class), "update", ChangedFields(a.ops), <<"client", "update_doc">>)
      BY <1>6 DEF Tool, Update
    <2> QED BY <1>1, <1>4, <1>6, <2>1
  <1>7. ASSUME a.tool = "huly_delete" PROVE Fine
    <2>1. Tool(a) = Mutates(AuditClass(a.class), "delete", {}, <<"client", "remove_doc">>)
      BY <1>7 DEF Tool, Delete
    <2> QED BY <1>1, <1>4, <1>7, <2>1
  <1>8. ASSUME a.tool = "huly_update_issue" PROVE Fine
    <2>1. Tool(a) = Mutates("tracker.issue", "update", DOMAIN a.set, <<"client", "update_issue">>)
      BY <1>8 DEF Tool, UpdateIssueTool
    <2> QED BY <1>1, <1>4, <1>8, <2>1
  <1>9. ASSUME a.tool = "huly_create_issue" PROVE Fine
    <2>1. Tool(a) = Mutates("tracker.issue", "create", {}, <<"client", "resolve_project", "read_sequence">>)
      BY <1>9 DEF Tool, CreateIssueTool
    <2> QED BY <1>1, <1>4, <1>9, <2>1
  <1>10. ASSUME a.tool = "huly_create_component" PROVE Fine
    <2>1. Tool(a) = Mutates("tracker.component", "create", {}, <<"client", "resolve_project", "create_component">>)
      BY <1>10 DEF Tool, CreateComponentTool
    <2> QED BY <1>1, <1>4, <1>10, <2>1
  <1>11. ASSUME a.tool = "huly_create_project" PROVE Fine
    <2>1. Tool(a) = Mutates("tracker.project", "create", {}, <<"client", "create_project">>)
      BY <1>11 DEF Tool, CreateProjectTool
    <2> QED BY <1>1, <1>4, <1>11, <2>1
  <1>12. ASSUME a.tool = "huly_create_card" PROVE Fine
    <2>1. Tool(a) = Mutates("card", "create", {}, <<"client", "schema", "create_card">>)
      BY <1>12 DEF Tool, CreateCardTool
    <2> QED BY <1>1, <1>4, <1>12, <2>1
  <1>13. ASSUME a.tool = "huly_link_issue_to_card" PROVE Fine
    <2>1. Tool(a) = Mutates("tracker.issue", "link", {"relation"}, <<"client", "schema", "link_issue">>)
      BY <1>13 DEF Tool, LinkIssueToCardTool
    <2> QED BY <1>1, <1>4, <1>13, <2>1
  <1>14. ASSUME a.tool = "huly_list_workspaces" PROVE Fine
    <2>1. \/ Tool(a) = Reads(<<"account_jwt", "accounts_url", "user_workspaces">>)
          \/ Tool(a) = Reads(<<"no_workspace">>)
      BY <1>14 DEF Tool, ListWorkspaces
    <2> QED BY <1>2, <1>3, <2>1
  <1>15. ASSUME a.tool = "huly_status" PROVE Fine
    <2>1. \/ Tool(a) = Reads(<<"forget", "status">>)
          \/ Tool(a) = Reads(<<"no_workspace">>)
      BY <1>15 DEF Tool, Status
    <2> QED BY <1>2, <1>3, <2>1
  <1>16. ASSUME a.tool = "huly_find" PROVE Fine
    <2>1. Tool(a) = Reads(<<"client", "find_all">>)
      BY <1>16 DEF Tool, Find
    <2> QED BY <1>2, <1>3, <1>16, <2>1
  <1>17. ASSUME a.tool = "huly_get" PROVE Fine
    <2>1. Tool(a) = Reads(<<"client", "find_one">>)
      BY <1>17 DEF Tool, Get
    <2> QED BY <1>2, <1>3, <1>17, <2>1
  <1>18. ASSUME a.tool = "huly_find_issues" PROVE Fine
    <2>1. Tool(a) = Reads(<<"client", "find_issues">>)
      BY <1>18 DEF Tool, FindIssuesTool
    <2> QED BY <1>2, <1>3, <1>18, <2>1
  <1>19. ASSUME a.tool = "huly_get_issue" PROVE Fine
    <2>1. Tool(a) = Reads(<<"client", "get_issue">>)
      BY <1>19 DEF Tool, GetIssueTool
    <2> QED BY <1>2, <1>3, <1>19, <2>1
  <1>20. ASSUME a.tool = "huly_find_cards" PROVE Fine
    <2>1. Tool(a) = Reads(<<"client", "schema", "find_cards">>)
      BY <1>20 DEF Tool, FindCardsTool
    <2> QED BY <1>2, <1>3, <1>20, <2>1
  <1>21. ASSUME a.tool = "huly_discover" PROVE Fine
    <2>1. Tool(a) = Reads(<<"client", "discover">>)
      BY <1>21 DEF Tool, DiscoverTool
    <2> QED BY <1>2, <1>3, <1>21, <2>1
  <1>22. ASSUME a.tool = "huly_upload_markup" PROVE Fine
    <2>1. Tool(a) = Reads(<<"collaborator_url", "collaborator_auth", "upload_markup">>)
      BY <1>22 DEF Tool, UploadMarkupTool
    <2> QED BY <1>2, <1>3, <1>22, <2>1
  <1>23. ASSUME a.tool = "huly_fetch_markup" PROVE Fine
    <2>1. Tool(a) = Reads(<<"collaborator_url", "collaborator_auth", "fetch_markup">>)
      BY <1>23 DEF Tool, FetchMarkupTool
    <2> QED BY <1>2, <1>3, <1>23, <2>1
  <1>24. ASSUME a.tool = "huly_sync_status" PROVE Fine
    <2>1. Tool(a) = Reads(<<"sync_status">>)
      BY <1>24 DEF Tool, SyncStatusTool
    <2> QED BY <1>2, <1>3, <1>24, <2>1
  <1>25. ASSUME a.tool = "huly_sync_cards" PROVE Fine
    <2>1. Tool(a) = Reads(<<"sync_cards">>)
      BY <1>25 DEF Tool, SyncCardsTool
    <2> QED BY <1>2, <1>3, <1>25, <2>1
  <1> QED
    BY <1>5, <1>6, <1>7, <1>8, <1>9, <1>10, <1>11, <1>12, <1>13, <1>14, <1>15, <1>16, <1>17,
       <1>18, <1>19, <1>20, <1>21, <1>22, <1>23, <1>24, <1>25 DEF ToolNames, Fine, Fits, later

(* So is it of the steps that its calls may go on to. *)
LEMMA ToolBodies ==
    ASSUME NEW a, a.tool \in ToolNames
    PROVE  LET later == StepsOf(a) \ {"invoked", "action"} IN
           IF Tool(a).action = None THEN Tool(a).body \in Seq(later)
           ELSE \E rest \in Seq(later) : Tool(a).body = <<"action">> \o rest
PROOF
  <1> DEFINE later == StepsOf(a) \ {"invoked", "action"}
             early == StepsOf(a) \ ({"invoked", "action"} \cup HeadOnly)
  <1>1. \A s \in Seq(early) : s \in Seq(later)
    OBVIOUS
  <1> QED BY <1>1, ToolPrograms

-----------------------------------------------------------------------------
(* What a step of a call may do to it: go on, answer without a transaction, fail without one, *)
(* or apply one and end.  Brokers' refusals are apart, in MintFailed.                          *)

Spends == faults' = faults \/ (faults > 0 /\ faults' = faults - 1)

GoesOn(c) ==
    /\ UNCHANGED trail
    /\ \/ UNCHANGED <<todo, outcome>>
       \/ \E steps \in Seq(Later(c)) : \E l : Become(c, steps, l)

Answers(c) ==
    /\ UNCHANGED trail
    /\ \E v : (~Mutating(c) \/ NothingToDo(v)) /\ Return(c, v)

Refusals == {"unknown_workspace", "accounts_failure"}

Fails(c) ==
    /\ UNCHANGED trail
    /\ \E why, code, v : why \notin Refusals /\ FailWith(c, why, code, v)

(* An update changes the very fields that the action record names. *)
Announced(c, e) == e.op = "update" => e.fields = Tool(Arg(c)).action.fields

Commits(c) ==
    /\ Mutating(c)
    /\ \E e : e.rec = "tx" /\ Announced(c, e) /\ Record(c, e)
    /\ \/ \E v : ~NothingToDo(v) /\ Return(c, v)
       \/ Fail(c, "network")

Way(c) == Spends /\ (GoesOn(c) \/ Answers(c) \/ Fails(c) \/ Commits(c))

(* The step a call is at belongs to its tool. *)
LEMMA HeadFits ==
    ASSUME NEW c, CallInv(c), todo[c] # << >>
    PROVE  \/ Head(todo[c]) \in {"completed", "error"}
           \/ /\ outcome[c].state = "running"
              /\ Head(todo[c]) \in Steps(c)
              /\ todo[c] \in Seq(Steps(c))
PROOF
  <1>1. ASSUME NEW S, todo[c] \in Seq(S) PROVE Head(todo[c]) \in S
    BY <1>1
  <1>2. CASE outcome[c].state = "running" /\ todo[c] \in Seq(Steps(c))
    BY <1>1, <1>2
  <1>3. CASE todo[c] \in Closing
    BY <1>3 DEF Closing
  <1> QED BY <1>2, <1>3 DEF CallInv

(* A step that only reading tools have, one that only the others have. *)
LEMMA AtReading ==
    ASSUME NEW c, CallInv(c), NEW step \in ReadSteps, step \notin WriteSteps, At(c, step)
    PROVE  ~Mutating(c) /\ Owns(Arg(c).tool, step)
PROOF
  <1>1. Head(todo[c]) \in Steps(c)
    BY HeadFits DEF At, ReadSteps
  <1> QED BY <1>1 DEF Steps, StepsOf, At, ReadSteps, Mutating

(* A call at a step that only the changing tools have changes something. *)
LEMMA AtWriting ==
    ASSUME NEW c, CallInv(c), NEW step, step \in WriteSteps \cup {"update_collection"},
           step \notin ReadSteps, At(c, step)
    PROVE  /\ Mutating(c)
           /\ Owns(Arg(c).tool, step)
           /\ step = "update_collection" => DOMAIN Arg(c).set # {}
PROOF
  <1>1. Head(todo[c]) \in Steps(c)
    BY HeadFits DEF At, WriteSteps
  <1> QED BY <1>1 DEF Steps, StepsOf, At, WriteSteps, Mutating

(* A step of its kind that is no other tool's is one of those a call may go on to. *)
LEMMA GoesOnTo ==
    ASSUME NEW c, NEW step, Owns(Arg(c).tool, step), step \notin {"invoked", "action"},
           step \in IF Mutating(c) THEN WriteSteps ELSE ReadSteps
    PROVE  step \in Later(c) /\ <<step>> \in Seq(Later(c))
PROOF
  <1>1. step \in Later(c)
    BY DEF Later, Steps, StepsOf, Mutating, WriteSteps, ReadSteps
  <1> QED BY <1>1

(* The ends of a step that are always open to it. *)
LEMMA Retries ==
    ASSUME NEW c, NEW r, Throttled(c, r) \/ Refused(c), UNCHANGED trail
    PROVE  Way(c)
PROOF
  <1>1. CASE Throttled(c, r)
    <2>1. CASE Tries(c, r) < Max429
      BY <1>1, <2>1 DEF Throttled, Fault, Way, Spends, GoesOn
    <2>2. CASE ~(Tries(c, r) < Max429)
      BY <1>1, <2>2 DEF Throttled, Fault, Rpc, Way, Spends, Fails, Refusals
    <2> QED BY <2>1, <2>2
  <1>2. CASE Refused(c)
    BY <1>2 DEF Refused, Fault, Rpc, Fail, Way, Spends, Fails, Refusals
  <1> QED BY <1>1, <1>2

(* A simple end of a step, however it came about. *)
LEMMA Ends ==
    ASSUME NEW c, UNCHANGED trail, Spends,
           \/ \E why : why \notin Refusals /\ Fail(c, why)
           \/ \E v : ~Mutating(c) /\ Return(c, v)
           \/ \E steps \in Seq(Later(c)) : \E l : Become(c, steps, l)
    PROVE  Way(c)
PROOF BY DEF Way, GoesOn, Answers, Fails, Fail

(* huly_find only reads: it answers, fails or tries again. *)
LEMMA FindDocsWay ==
    ASSUME NEW c, CallInv(c), FindDocs(c)
    PROVE  Way(c)
PROOF
  <1>1. ~Mutating(c)
    BY AtReading DEF FindDocs, ReadSteps, WriteSteps
  <1> QED BY <1>1, Retries, Ends DEF FindDocs, FindAllDocs, SendWithRetry, world, Spends

(* huly_get only reads: it answers, fails or tries again. *)
LEMMA GetDocWay ==
    ASSUME NEW c, CallInv(c), GetDoc(c)
    PROVE  Way(c)
PROOF
  <1>1. ~Mutating(c)
    BY AtReading DEF GetDoc, ReadSteps, WriteSteps
  <1> QED BY <1>1, Retries, Ends DEF GetDoc, FindOne, FindAllDocs, SendWithRetry, world, Spends

(* A transaction that was sent: applied and answered, or applied with its answer lost. *)
LEMMA TxEntries ==
    ASSUME NEW c, NEW tx, Applied(c, tx)
    PROVE  \/ Accepts(docs, tx) /\ TxEntry(tx).rec = "tx" /\ Record(c, TxEntry(tx))
           \/ ~Accepts(docs, tx) /\ UNCHANGED trail
PROOF BY DEF Applied, TxEntry

(* What an update announced is what its transaction changes; the others announce nothing. *)
Faithful(c, tx) == tx.op = "update" => FieldsOf(tx) = Tool(Arg(c)).action.fields

(* A transaction whose answer is lost ends the call, applied or not. *)
LEMMA AnswerLostWay ==
    ASSUME NEW c, Mutating(c), NEW tx, Faithful(c, tx), AnswerLost(c, tx)
    PROVE  Way(c)
PROOF
  <1>1. Spends /\ Applied(c, tx) /\ Fail(c, "network")
    BY DEF AnswerLost, Fault, Spends
  <1>2. Announced(c, TxEntry(tx))
    BY DEF Announced, Faithful, TxEntry
  <1> QED BY <1>1, <1>2, TxEntries DEF Way, Commits, Fails, Fail, Refusals

(* A transaction that is applied and answered ends the call with a result. *)
LEMMA CommittedWay ==
    ASSUME NEW c, Mutating(c), NEW tx, Faithful(c, tx), Applied(c, tx), UNCHANGED faults,
           Accepts(docs, tx), NEW v, ~NothingToDo(v), Return(c, v)
    PROVE  Way(c)
PROOF
  <1>1. Announced(c, TxEntry(tx))
    BY DEF Announced, Faithful, TxEntry
  <1> QED BY <1>1, TxEntries DEF Way, Commits, Spends

(* The two tools that update announce the fields of their arguments. *)
LEMMA UpdateFields ==
    ASSUME NEW a
    PROVE  /\ a.tool = "huly_update" => Tool(a).action.fields = ChangedFields(a.ops)
           /\ a.tool = "huly_update_issue" => Tool(a).action.fields = DOMAIN a.set
PROOF
  <1>1. a.tool = "huly_update" => Tool(a) = Update(a)
    BY DEF Tool
  <1>2. a.tool = "huly_update_issue" => Tool(a) = UpdateIssueTool(a)
    BY DEF Tool
  <1>3. Update(a).action.fields = ChangedFields(a.ops)
    BY DEF Update, Mutates, ActionRecord
  <1>4. UpdateIssueTool(a).action.fields = DOMAIN a.set
    BY DEF UpdateIssueTool, Mutates, ActionRecord
  <1> QED BY <1>1, <1>2, <1>3, <1>4

(* The raw tools send their one transaction and end, or fail without it. *)
LEMMA StoreWay ==
    ASSUME NEW c, CallInv(c), Store(c)
    PROVE  Way(c)
PROOF
  <1>1. Mutating(c)
    BY AtWriting DEF Store, ReadSteps, WriteSteps
  <1>2. CASE CreateDoc(c, Arg(c).class, Arg(c).space, Arg(c).attributes)
    BY <1>1, <1>2, Retries, AnswerLostWay, CommittedWay
    DEF CreateDoc, RawTx, SendWithRetry, world, TxCreateDoc, Accepts, NothingToDo, Faithful
  <1>3. CASE At(c, "update_doc") /\ UpdateDoc(c, Arg(c).id, Arg(c).ops)
    <2>1. Arg(c).tool = "huly_update"
      BY <1>3, AtWriting DEF ReadSteps, WriteSteps, Owns
    <2>2. Faithful(c, TxUpdateDoc(Arg(c).id, Arg(c).ops.set, Arg(c).ops.inc))
      BY <2>1, UpdateFields DEF Faithful, FieldsOf, TxUpdateDoc, ChangedFields
    <2>3. /\ TxUpdateDoc(Arg(c).id, Arg(c).ops.set, Arg(c).ops.inc).op = "update"
          /\ Accepts(docs, TxUpdateDoc(Arg(c).id, Arg(c).ops.set, Arg(c).ops.inc))
      BY DEF TxUpdateDoc, Accepts
    <2> QED
      BY <1>1, <1>3, <2>2, <2>3, Retries, AnswerLostWay, CommittedWay
      DEF UpdateDoc, RawTx, SendWithRetry, world, NothingToDo
  <1>4. CASE RemoveDoc(c, Arg(c).id)
    BY <1>1, <1>4, Retries, AnswerLostWay, CommittedWay
    DEF RemoveDoc, RawTx, SendWithRetry, world, TxRemoveDoc, Accepts, NothingToDo, Faithful
  <1> QED BY <1>2, <1>3, <1>4 DEF Store

(* huly_find_issues only reads. *)
LEMMA FindIssuesWay ==
    ASSUME NEW c, CallInv(c), FindIssues(c)
    PROVE  Way(c)
PROOF
  <1>1. ~Mutating(c)
    BY AtReading DEF FindIssues, ReadSteps, WriteSteps
  <1> QED
    BY <1>1, Retries, Ends
    DEF FindIssues, ResolveClass, Refusals, FindOne, FindAllDocs, SendWithRetry, world, Spends,
        Way, GoesOn

(* huly_get_issue goes on to the relations of the issue it finds. *)
LEMMA GetIssueWay ==
    ASSUME NEW c, CallInv(c), GetIssue(c)
    PROVE  Way(c)
PROOF
  <1>1. ~Mutating(c)
    BY AtReading DEF GetIssue, ReadSteps, WriteSteps
  <1>2. <<"find_relations">> \in Seq(Later(c))
    BY <1>1, GoesOnTo DEF Owns, ReadSteps
  <1> QED
    BY <1>1, <1>2, Retries, Ends
    DEF GetIssue, ResolveClass, Refusals, FindOne, FindAllDocs, SendWithRetry, world, Spends, Way,
        GoesOn

(* huly_get_issue ends with what relations it finds. *)
LEMMA FindRelationsWay ==
    ASSUME NEW c, CallInv(c), FindRelations(c)
    PROVE  Way(c)
PROOF
  <1>1. ~Mutating(c)
    BY AtReading DEF FindRelations, ReadSteps, WriteSteps
  <1> QED
    BY <1>1, Retries, Ends
    DEF FindRelations, ResolveClass, Refusals, FindOne, FindAllDocs, SendWithRetry, world, Spends,
        Way, GoesOn

(* huly_find_cards goes on to list the cards of the types it resolved. *)
LEMMA FindCardsWay ==
    ASSUME NEW c, CallInv(c), FindCards(c)
    PROVE  Way(c)
PROOF
  <1>1. ~Mutating(c)
    BY AtReading DEF FindCards, ReadSteps, WriteSteps
  <1>2. <<"list_cards">> \in Seq(Later(c))
    BY <1>1, GoesOnTo DEF Owns, ReadSteps
  <1> QED
    BY <1>1, <1>2, Retries, Ends
    DEF FindCards, ResolveClass, Refusals, FindOne, FindAllDocs, SendWithRetry, world, Spends, Way,
        GoesOn

(* huly_find_cards lists one type after the other. *)
LEMMA ListCardsWay ==
    ASSUME NEW c, CallInv(c), ListCards(c)
    PROVE  Way(c)
PROOF
  <1>1. ~Mutating(c)
    BY AtReading DEF ListCards, ReadSteps, WriteSteps
  <1>2. <<"list_cards">> \in Seq(Later(c))
    BY <1>1, GoesOnTo DEF Owns, ReadSteps
  <1> QED
    BY <1>1, <1>2, Retries, Ends
    DEF ListCards, ResolveClass, Refusals, FindOne, FindAllDocs, SendWithRetry, world, Spends, Way,
        GoesOn

(* huly_discover only reads. *)
LEMMA DiscoverWay ==
    ASSUME NEW c, CallInv(c), Discover(c)
    PROVE  Way(c)
PROOF
  <1>1. ~Mutating(c)
    BY AtReading DEF Discover, ReadSteps, WriteSteps
  <1> QED
    BY <1>1, Retries, Ends
    DEF Discover, ResolveClass, Refusals, FindOne, FindAllDocs, SendWithRetry, world, Spends, Way,
        GoesOn

(* A creating tool goes on once its project is found, or fails. *)
LEMMA ResolveProjectWay ==
    ASSUME NEW c, CallInv(c), ResolveProject(c)
    PROVE  Way(c)
PROOF
  <1>1. Mutating(c)
    BY AtWriting DEF ResolveProject, ReadSteps, WriteSteps
  <1>2. << >> \in Seq(Later(c))
    OBVIOUS
  <1> QED
    BY <1>1, <1>2, Retries, Ends
    DEF ResolveProject, Refusals, FindOne, FindAllDocs, SendWithRetry, world, Spends

(* huly_create_project sends its one transaction, as StoreWay. *)
LEMMA CreateProjectWay ==
    ASSUME NEW c, CallInv(c), CreateProject(c)
    PROVE  Way(c)
PROOF
  <1>1. Mutating(c)
    BY AtWriting DEF CreateProject, ReadSteps, WriteSteps
  <1> QED
    BY <1>1, Retries, AnswerLostWay, CommittedWay
    DEF CreateProject, CreateDoc, RawTx, SendWithRetry, world, TxCreateDoc, Accepts, NothingToDo,
        Faithful

(* huly_update_issue sends a transaction only if there is something to change. *)
LEMMA UpdateIssueWay ==
    ASSUME NEW c, CallInv(c), UpdateIssue(c)
    PROVE  Way(c)
PROOF
  <1>1. Mutating(c) /\ Arg(c).tool = "huly_update_issue"
    BY AtWriting DEF UpdateIssue, ReadSteps, WriteSteps, Owns
  <1>2. CASE At(c, "update_issue")
    <2>1. DOMAIN Arg(c).set # {} => <<"update_collection">> \in Seq(Later(c))
      <3>1. DOMAIN Arg(c).set # {} => "update_collection" \in Later(c)
        BY <1>1 DEF Later, Steps, StepsOf, Mutating, Owns
      <3> QED BY <3>1
    <2>2. NothingToDo([changed |-> {}])
      BY DEF NothingToDo
    <2>3. ASSUME UNCHANGED <<faults, trail>>, Return(c, [changed |-> {}]) PROVE Way(c)
      BY <2>2, <2>3 DEF Way, Answers, Spends
    <2> QED
      BY <1>1, <1>2, <2>1, <2>3, Retries, Ends
      DEF UpdateIssue, Refusals, At, FindOne, FindAllDocs, SendWithRetry, world, Spends
  <1>3. CASE At(c, "update_collection")
    <2>1. ~NothingToDo([changed |-> DOMAIN Arg(c).set])
      BY <1>3, AtWriting DEF NothingToDo, ReadSteps
    <2> DEFINE tx == TxUpdateDoc(loc[c].doc.id, Arg(c).set, {})
    <2>2. Faithful(c, tx)
      BY <1>1, UpdateFields DEF Faithful, FieldsOf, TxUpdateDoc
    <2>3. Accepts(docs, tx)
      BY DEF TxUpdateDoc, Accepts
    <2>4. RawTx(c, tx, LAMBDA success : Return(c, [changed |-> DOMAIN Arg(c).set]))
      BY <1>3 DEF UpdateIssue, UpdateCollection, At
    <2> HIDE DEF tx
    <2> QED
      BY <1>1, <2>1, <2>2, <2>3, <2>4, Retries, AnswerLostWay, CommittedWay
      DEF RawTx, SendWithRetry, world
  <1> QED BY <1>2, <1>3 DEF UpdateIssue

(* huly_create_issue goes on with the sequence it read. *)
LEMMA ReadSequenceWay ==
    ASSUME NEW c, CallInv(c), ReadSequence(c)
    PROVE  Way(c)
PROOF
  <1>1. Mutating(c) /\ Arg(c).tool = "huly_create_issue"
    BY AtWriting DEF ReadSequence, ReadSteps, WriteSteps, Owns
  <1>2. <<"commit_issue">> \in Seq(Later(c))
    BY <1>1, GoesOnTo DEF Owns, WriteSteps
  <1> QED
    BY <1>1, <1>2, Retries, Ends
    DEF ReadSequence, Refusals, FindOne, FindAllDocs, SendWithRetry, world, Spends

(* huly_create_issue applies its transaction and ends, or reads again having applied none. *)
LEMMA CommitIssueWay ==
    ASSUME NEW c, CallInv(c), CommitIssue(c)
    PROVE  Way(c)
PROOF
  <1>1. Mutating(c) /\ Arg(c).tool = "huly_create_issue"
    BY AtWriting DEF CommitIssue, ReadSteps, WriteSteps, Owns
  <1>2. <<"read_sequence">> \in Seq(Later(c))
    BY <1>1, GoesOnTo DEF Owns, WriteSteps
  <1>3. ASSUME NEW id, NEW identifier
        PROVE  ~NothingToDo([status |-> "created", id |-> id, identifier |-> identifier])
    BY DEF NothingToDo
  <1> QED
    BY <1>1, <1>2, <1>3, Retries, Ends, AnswerLostWay, CommittedWay, TxEntries
    DEF CommitIssue, NextAttempt, RawTx, Faithful, CommitTx, TxApplyIf, SendWithRetry, world, Spends, Refusals, Way, Fails

(* Creating unless there is one, and looking up what there is instead. *)
LEMMA CreateUnlessWay ==
    ASSUME NEW c, Mutating(c), NEW class, NEW space, NEW attrs, NEW unless, NEW lookup,
           <<lookup>> \in Seq(Later(c)),
           CreateUnless(c, class, space, attrs, unless, lookup)
    PROVE  Way(c)
PROOF
  <1>1. ASSUME NEW id PROVE ~NothingToDo([status |-> "created", id |-> id])
    BY DEF NothingToDo
  <1> QED
    BY <1>1, Retries, Ends, AnswerLostWay, CommittedWay, TxEntries
    DEF CreateUnless, ApplyIfTx, RawTx, Faithful, TxApplyIf, SendWithRetry, world, Spends

(* A lost race ends with the document that won it, having applied nothing. *)
LEMMA ExistingWay ==
    ASSUME NEW c, NEW class, NEW query, Existing(c, class, query)
    PROVE  Way(c)
PROOF
  <1>1. ASSUME NEW id PROVE NothingToDo([status |-> "existing", id |-> id])
    BY DEF NothingToDo
  <1>2. ASSUME NEW id, UNCHANGED <<faults, trail>>, Return(c, [status |-> "existing", id |-> id])
        PROVE  Way(c)
    BY <1>1, <1>2 DEF Way, Answers, Spends
  <1> QED
    BY <1>2, Retries, Ends
    DEF Existing, Refusals, FindOne, FindAllDocs, SendWithRetry, world, Spends

(* huly_create_component creates one component, reports the one there is, or fails. *)
LEMMA CreateComponentWay ==
    ASSUME NEW c, CallInv(c), CreateComponent(c)
    PROVE  Way(c)
PROOF
  <1>1. Mutating(c) /\ Arg(c).tool = "huly_create_component"
    BY AtWriting DEF CreateComponent, ReadSteps, WriteSteps, Owns
  <1>2. <<"existing_component">> \in Seq(Later(c))
    BY <1>1, GoesOnTo DEF Owns, WriteSteps
  <1> QED
    BY <1>1, <1>2, CreateUnlessWay, ExistingWay DEF CreateComponent

(* huly_link_issue_to_card creates one relation, reports the one there is, or fails. *)
LEMMA LinkIssueToCardWay ==
    ASSUME NEW c, CallInv(c), LinkIssueToCard(c)
    PROVE  Way(c)
PROOF
  <1>1. Mutating(c) /\ Arg(c).tool = "huly_link_issue_to_card"
    BY AtWriting DEF LinkIssueToCard, ReadSteps, WriteSteps, Owns
  <1>2. /\ <<"issue_to_link">> \in Seq(Later(c))
        /\ <<"create_relation">> \in Seq(Later(c))
        /\ <<"existing_relation">> \in Seq(Later(c))
    BY <1>1, GoesOnTo DEF Owns, WriteSteps
  <1>3. CASE At(c, "link_issue")
    BY <1>2, <1>3, Ends DEF LinkIssueToCard, ResolveClass, Refusals, world, Spends, At
  <1>4. CASE At(c, "issue_to_link")
    BY <1>2, <1>4, Retries, Ends
    DEF LinkIssueToCard, Refusals, At, FindOne, FindAllDocs, SendWithRetry, world, Spends
  <1>5. CASE At(c, "create_relation") \/ At(c, "existing_relation")
    BY <1>1, <1>2, <1>5, CreateUnlessWay, ExistingWay DEF LinkIssueToCard, At
  <1> QED BY <1>3, <1>4, <1>5 DEF LinkIssueToCard

(* huly_create_card resolves the type and sends its one transaction, or fails. *)
LEMMA CreateCardWay ==
    ASSUME NEW c, CallInv(c), CreateCard(c)
    PROVE  Way(c)
PROOF
  <1>1. Mutating(c) /\ Arg(c).tool = "huly_create_card"
    BY AtWriting DEF CreateCard, ReadSteps, WriteSteps, Owns
  <1>2. <<"store_card">> \in Seq(Later(c))
    BY <1>1, GoesOnTo DEF Owns, WriteSteps
  <1>3. CASE At(c, "create_card")
    BY <1>2, <1>3, Ends DEF CreateCard, ResolveClass, Refusals, world, Spends, At
  <1>4. CASE At(c, "store_card")
    BY <1>1, <1>4, Retries, AnswerLostWay, CommittedWay
    DEF CreateCard, CreateDoc, RawTx, SendWithRetry, world, TxCreateDoc, Accepts, NothingToDo, At,
        Faithful
  <1> QED BY <1>3, <1>4 DEF CreateCard

(* An upload changes nothing in the workspace's documents. *)
LEMMA UploadMarkupWay ==
    ASSUME NEW c, CallInv(c), UploadMarkup(c)
    PROVE  Way(c)
PROOF
  <1>1. ~Mutating(c)
    BY AtReading DEF UploadMarkup, ReadSteps, WriteSteps
  <1> QED
    BY <1>1, Ends
    DEF UploadMarkup, CreateMarkup, GetMarkup, CollaboratorRpc, TransportError, Fault, Refusals,
        Spends, Way, GoesOn

(* A fetch of markup only reads. *)
LEMMA FetchMarkupWay ==
    ASSUME NEW c, CallInv(c), FetchMarkup(c)
    PROVE  Way(c)
PROOF
  <1>1. ~Mutating(c)
    BY AtReading DEF FetchMarkup, ReadSteps, WriteSteps
  <1> QED
    BY <1>1, Ends
    DEF FetchMarkup, CreateMarkup, GetMarkup, CollaboratorRpc, TransportError, Fault, Refusals,
        Spends, Way, GoesOn

-----------------------------------------------------------------------------
(* The kinds of steps a call takes. *)

(* The steps of record_tool. *)
RecordSteps == {"invoked", "action", "completed", "error"}

(* At a step that is a request, or one of server.rs itself. *)
Working(c) == todo[c] # << >> /\ Head(todo[c]) \notin EntrySteps \cup RecordSteps

(* Every request to the transactor or the collaborator is one of these ways. *)
LEMMA RequestWay ==
    ASSUME NEW c, CallInv(c), RequestStep(c)
    PROVE  Way(c) /\ Working(c)
PROOF
  <1>1. FindDocs(c) => Way(c) /\ Working(c)
    BY FindDocsWay DEF FindDocs, At, Working, EntrySteps, RecordSteps
  <1>2. GetDoc(c) => Way(c) /\ Working(c)
    BY GetDocWay DEF GetDoc, At, Working, EntrySteps, RecordSteps
  <1>3. Store(c) => Way(c) /\ Working(c)
    BY StoreWay DEF Store, At, Working, EntrySteps, RecordSteps
  <1>4. ResolveProject(c) => Way(c) /\ Working(c)
    BY ResolveProjectWay DEF ResolveProject, At, Working, EntrySteps, RecordSteps
  <1>5. CreateProject(c) => Way(c) /\ Working(c)
    BY CreateProjectWay DEF CreateProject, At, Working, EntrySteps, RecordSteps
  <1>6. FindIssues(c) => Way(c) /\ Working(c)
    BY FindIssuesWay DEF FindIssues, At, Working, EntrySteps, RecordSteps
  <1>7. GetIssue(c) => Way(c) /\ Working(c)
    BY GetIssueWay DEF GetIssue, At, Working, EntrySteps, RecordSteps
  <1>8. FindRelations(c) => Way(c) /\ Working(c)
    BY FindRelationsWay DEF FindRelations, At, Working, EntrySteps, RecordSteps
  <1>9. UpdateIssue(c) => Way(c) /\ Working(c)
    BY UpdateIssueWay DEF UpdateIssue, At, Working, EntrySteps, RecordSteps
  <1>10. ReadSequence(c) => Way(c) /\ Working(c)
    BY ReadSequenceWay DEF ReadSequence, At, Working, EntrySteps, RecordSteps
  <1>11. CommitIssue(c) => Way(c) /\ Working(c)
    BY CommitIssueWay DEF CommitIssue, At, Working, EntrySteps, RecordSteps
  <1>12. CreateComponent(c) => Way(c) /\ Working(c)
    BY CreateComponentWay DEF CreateComponent, At, Working, EntrySteps, RecordSteps
  <1>13. LinkIssueToCard(c) => Way(c) /\ Working(c)
    BY LinkIssueToCardWay DEF LinkIssueToCard, At, Working, EntrySteps, RecordSteps
  <1>14. FindCards(c) => Way(c) /\ Working(c)
    BY FindCardsWay DEF FindCards, At, Working, EntrySteps, RecordSteps
  <1>15. ListCards(c) => Way(c) /\ Working(c)
    BY ListCardsWay DEF ListCards, At, Working, EntrySteps, RecordSteps
  <1>16. CreateCard(c) => Way(c) /\ Working(c)
    BY CreateCardWay DEF CreateCard, At, Working, EntrySteps, RecordSteps
  <1>17. Discover(c) => Way(c) /\ Working(c)
    BY DiscoverWay DEF Discover, At, Working, EntrySteps, RecordSteps
  <1>18. UploadMarkup(c) => Way(c) /\ Working(c)
    BY UploadMarkupWay DEF UploadMarkup, At, Working, EntrySteps, RecordSteps
  <1>19. FetchMarkup(c) => Way(c) /\ Working(c)
    BY FetchMarkupWay DEF FetchMarkup, At, Working, EntrySteps, RecordSteps
  <1> QED
    BY <1>1, <1>2, <1>3, <1>4, <1>5, <1>6, <1>7, <1>8, <1>9, <1>10, <1>11, <1>12, <1>13, <1>14,
       <1>15, <1>16, <1>17, <1>18, <1>19
    DEF RequestStep, ToolStep

(* So is every step of server.rs itself. *)
LEMMA LocalWay ==
    ASSUME NEW c, CallInv(c), LocalStep(c)
    PROVE  Way(c) /\ Working(c)
PROOF
  <1>1. ASSUME NoWorkspace(c), UNCHANGED <<faults, trail>> PROVE Way(c) /\ Working(c)
    BY <1>1, Ends DEF NoWorkspace, At, Working, EntrySteps, RecordSteps, Refusals, Spends
  <1>2. ASSUME UserWorkspaces(c), UNCHANGED trail PROVE Way(c) /\ Working(c)
    <2>1. ~Mutating(c)
      BY <1>2, AtReading DEF UserWorkspaces, ReadSteps, WriteSteps
    <2> QED BY <1>2, <2>1, Ends DEF UserWorkspaces, At, Working, EntrySteps, RecordSteps, Refusals, Spends, Fault
  <1>3. ASSUME SyncStatus(c), UNCHANGED trail PROVE Way(c) /\ Working(c)
    <2>1. ~Mutating(c)
      BY <1>3, AtReading DEF SyncStatus, ReadSteps, WriteSteps
    <2> QED
      BY <1>3, <2>1, Ends
      DEF SyncStatus, SpawnCapture, At, Working, EntrySteps, RecordSteps, Refusals, Spends, Fault
  <1>4. ASSUME SyncCards(c), UNCHANGED trail PROVE Way(c) /\ Working(c)
    <2>1. ~Mutating(c)
      BY <1>4, AtReading DEF SyncCards, ReadSteps, WriteSteps
    <2> QED
      BY <1>4, <2>1, Ends
      DEF SyncCards, SpawnCapture, At, Working, EntrySteps, RecordSteps, Refusals, Spends, Fault
  <1>5. ASSUME SyncNotConfigured(c), UNCHANGED <<faults, trail>> PROVE Way(c) /\ Working(c)
    BY <1>5, Ends DEF SyncNotConfigured, At, Working, EntrySteps, RecordSteps, Refusals, Spends
  <1> QED BY <1>1, <1>2, <1>3, <1>4, <1>5 DEF LocalStep, world

(* The broker's refusal is passed on. *)
Denied(c) ==
    /\ UNCHANGED <<trail, faults>>
    /\ \E code : FailWith(c, inbox[c].code, code, None)

(* What a step does with the entry it gets. *)
LEMMA UseWay ==
    ASSUME NEW c, CallInv(c), AtEntry(c), NEW e, Use(c, e), UNCHANGED <<trail, faults>>
    PROVE  Way(c)
PROOF
  <1>0. Spends
    BY DEF Spends
  <1>1. Head(todo[c]) \in Steps(c)
    BY HeadFits DEF AtEntry, EntrySteps
  <1>2. CASE Head(todo[c]) = "status"
    <2>1. ~Mutating(c)
      BY <1>1, <1>2 DEF Steps, StepsOf, WriteSteps, Mutating
    <2> QED BY <1>0, <1>2, <2>1, Ends DEF Use
  <1>3. CASE Head(todo[c]) = "schema"
    <2>1. {"schema_entry", "refresh_schema"} \subseteq Later(c)
      BY GoesOnTo DEF Owns, ReadSteps, WriteSteps
    <2>2. /\ <<"schema_entry">> \in Seq(Later(c))
          /\ <<"refresh_schema", "schema_entry">> \in Seq(Later(c))
      BY <2>1
    <2> QED BY <1>0, <1>3, <2>2, Ends DEF Use
  <1>4. CASE Head(todo[c]) \notin {"status", "schema"}
    <2>1. << >> \in Seq(Later(c))
      OBVIOUS
    <2> QED BY <1>0, <1>4, <2>1, Ends DEF Use, Proceed, Refusals
  <1> QED BY <1>2, <1>3, <1>4

(* A step of the factory: it goes on, ends, or passes a refusal on; the call waits for a mint *)
(* only where it is at the step that asked.                                                    *)
Held(c) ==
    \/ inbox'[c] = Idle
    \/ inbox'[c] = Waiting /\ AtEntry(c) /\ UNCHANGED <<todo, outcome, trail>>

(* So is every step of the factory, but for the refusals of brokers. *)
LEMMA FactoryWay ==
    ASSUME NEW c, c \in DOMAIN inbox, CallInv(c), inbox[c] # Idle => AtEntry(c), FactoryStep(c)
    PROVE  /\ Way(c) \/ Denied(c)
           /\ Held(c)
           /\ todo[c] # << >> /\ Head(todo[c]) \notin RecordSteps
           /\ UNCHANGED inbox \/ \E x : inbox' = [inbox EXCEPT ![c] = x]
PROOF
  <1> DEFINE Good == /\ Way(c) \/ Denied(c)
                     /\ Held(c)
                     /\ todo[c] # << >> /\ Head(todo[c]) \notin RecordSteps
                     /\ UNCHANGED inbox \/ \E x : inbox' = [inbox EXCEPT ![c] = x]
  <1>1. AtEntry(c) => todo[c] # << >> /\ Head(todo[c]) \notin RecordSteps
    BY DEF AtEntry, EntrySteps, RecordSteps
  <1>0. Waiting # Idle /\ Idle.state \notin {"ok", "err"}
    BY DEF Waiting, Idle
  <1>2. CASE CachedEntry(c)
    <2>1. Way(c)
      BY <1>2, UseWay DEF CachedEntry, world
    <2> QED BY <1>1, <1>2, <2>1 DEF CachedEntry, brokerVars, Held
  <1>3. ASSUME NEW why, why \notin Refusals, AtEntry(c), MintFailed(c, why) PROVE Good
    <2>1. Way(c)
      BY <1>3 DEF MintFailed, world, Way, Spends, Fails
    <2> QED BY <1>1, <1>3, <2>1 DEF MintFailed, Held
  <1>4. CASE RequestJwt(c)
    <2>1. CASE listening = {}
      BY <1>3, <1>4, <2>1 DEF RequestJwt, Refusals
    <2>2. CASE listening # {}
      <3>1. /\ UNCHANGED <<callVars, trail, faults>>
            /\ inbox' = [inbox EXCEPT ![c] = Waiting]
            /\ AtEntry(c)
        BY <1>4, <2>2 DEF RequestJwt, world
      <3>2. Way(c)
        BY <3>1 DEF Way, Spends, GoesOn, callVars
      <3> QED BY <1>1, <3>1, <3>2 DEF Held, callVars
    <2> QED BY <2>1, <2>2
  <1>5. CASE MintTimeout(c)
    BY <1>0, <1>3, <1>5 DEF MintTimeout, Refusals
  <1>6. CASE MintReplied(c)
    <2>1. AtEntry(c)
      BY <1>0, <1>6 DEF MintReplied
    <2>2. CASE inbox[c].state = "ok"
      <3>1. /\ \E e : Use(c, e)
            /\ UNCHANGED <<trail, faults>>
            /\ inbox' = [inbox EXCEPT ![c] = Idle]
        BY <1>6, <2>2 DEF MintReplied, world
      <3> QED BY <1>1, <2>1, <3>1, UseWay DEF Held
    <2>3. CASE inbox[c].state # "ok"
      <3>1. MintFailed(c, inbox[c].code)
        BY <1>6, <2>3 DEF MintReplied
      <3>2. Denied(c) /\ inbox' = [inbox EXCEPT ![c] = Idle]
        BY <3>1 DEF MintFailed, Denied, world
      <3> QED BY <1>1, <2>1, <3>2 DEF Held
    <2> QED BY <2>2, <2>3
  <1>7. CASE Forget(c) \/ RefreshSchema(c)
    <2>1. Spends /\ UNCHANGED <<trail, inbox>> /\ Proceed(c) /\ ~AtEntry(c)
      BY <1>7 DEF Forget, RefreshSchema, world, Fault, Spends, At, AtEntry, EntrySteps
    <2>2. << >> \in Seq(Later(c))
      OBVIOUS
    <2>3. Way(c)
      BY <2>1, <2>2, Ends DEF Proceed
    <2> QED BY <1>7, <2>1, <2>3 DEF Held, Forget, RefreshSchema, At, RecordSteps
  <1> QED BY <1>2, <1>4, <1>5, <1>6, <1>7 DEF FactoryStep

(* The records of the start are those of the call and of its tool. *)
Proper(c, e) ==
    /\ Head(todo[c]) = "invoked" => e = [rec |-> "invoked"]
    /\ Head(todo[c]) = "action" => e = Tool(Arg(c)).action

(* A step of record_tool: a record that is no transaction, or none, and on to the next step. *)
Notes(c) ==
    /\ \E e : Publish(c, e) /\ e.rec # "tx" /\ Proper(c, e)
    /\ todo[c] # << >>
    /\ Head(todo[c]) \in RecordSteps

(* The record that an action step publishes is no transaction. *)
LEMMA ActionRecords ==
    ASSUME NEW a, a.tool \in ToolNames, Tool(a).action # None
    PROVE  Tool(a).action.rec = "action"
PROOF
  <1> DEFINE Fine(t) == t.action # None => t.action.rec = "action"
  <1>1. ASSUME NEW class, NEW op, NEW fields, NEW body PROVE Fine(Mutates(class, op, fields, body))
    BY DEF Mutates, ActionRecord
  <1>2. ASSUME NEW body PROVE Fine(Reads(body))
    BY DEF Reads
  <1>3. Fine(Tool(a))
    BY <1>1, <1>2
    DEF Tool, ToolNames, ListWorkspaces, Status, Find, Get, Create, Update, Delete, FindIssuesTool,
        GetIssueTool, UpdateIssueTool, CreateIssueTool, CreateComponentTool, CreateProjectTool,
        FindCardsTool, CreateCardTool, LinkIssueToCardTool, DiscoverTool, UploadMarkupTool,
        FetchMarkupTool, SyncStatusTool, SyncCardsTool
  <1> QED BY <1>3

(* The steps of record_tool add no transaction to the trail. *)
LEMMA RecordWay ==
    ASSUME NEW c, CallInv(c), RecordStep(c), todo[c] # << >> => Arg(c).tool \in ToolNames
    PROVE  Notes(c) /\ ~AtEntry(c) /\ UNCHANGED inbox
PROOF
  <1>1. UNCHANGED inbox
    BY DEF RecordStep, brokerVars
  <1>2. CASE ToolInvoked(c)
    BY <1>1, <1>2 DEF ToolInvoked, At, AtEntry, EntrySteps, RecordSteps, Notes, Proper
  <1>3. CASE Action(c)
    <2>1. "action" \in Steps(c)
      BY <1>3, HeadFits DEF Action, At
    <2>2. Mutating(c)
      BY <2>1 DEF Steps, StepsOf, ReadSteps, Mutating
    <2>3. Tool(Arg(c)).action.rec # "tx"
      BY <1>3, <2>2, ActionRecords DEF Mutating, Action, At
    <2> QED BY <1>1, <1>3, <2>2, <2>3 DEF Action, At, AtEntry, EntrySteps, RecordSteps, Notes, Proper, Mutating
  <1>4. CASE ToolCompleted(c)
    <2>1. outcome[c].state # "tx"
      BY DEF CallInv
    <2> QED BY <1>1, <1>4, <2>1 DEF ToolCompleted, At, AtEntry, EntrySteps, RecordSteps, Notes, Proper
  <1>5. CASE ErrorRecord(c)
    BY <1>1, <1>5 DEF ErrorRecord, At, AtEntry, EntrySteps, RecordSteps, Notes, Proper
  <1> QED BY <1>2, <1>3, <1>4, <1>5 DEF RecordStep

-----------------------------------------------------------------------------
(* What a step leaves of a call. *)

(* What a call is stays the same. *)
LEMMA SameTool ==
    ASSUME NEW c, UNCHANGED plan
    PROVE  Arg(c)' = Arg(c) /\ Mutating(c)' = Mutating(c) /\ Steps(c)' = Steps(c)
PROOF
  <1>1. Arg(c)' = Arg(c)
    BY DEF Arg
  <1> QED BY <1>1 DEF Mutating, Steps

(* A record at the end of a trail adds its index to the transactions' if it is one. *)
LEMMA TxsRecorded ==
    ASSUME NEW c, c \in DOMAIN trail, NEW S, trail[c] \in Seq(S), NEW e, Record(c, e)
    PROVE  /\ e.rec # "tx" => Txs(c)' = Txs(c)
           /\ e.rec = "tx" => Txs(c)' = Txs(c) \cup {Len(trail[c]) + 1}
           /\ trail'[c] \in Seq(S \cup {e})
PROOF
  <1>1. trail'[c] = Append(trail[c], e)
    BY DEF Record
  <1> DEFINE T == S \cup {e}
             n == Len(trail[c]) + 1
  <1>2. trail[c] \in Seq(T)
    OBVIOUS
  <1>3. /\ Append(trail[c], e) \in Seq(T)
        /\ DOMAIN trail[c] = 1 .. Len(trail[c])
        /\ DOMAIN Append(trail[c], e) = DOMAIN trail[c] \cup {n}
        /\ n \notin DOMAIN trail[c]
        /\ Append(trail[c], e)[n] = e
        /\ \A i \in DOMAIN trail[c] : Append(trail[c], e)[i] = trail[c][i]
    BY <1>2
  <1> HIDE DEF n, T
  <1>4. Txs(c)' = {i \in DOMAIN trail'[c] : trail'[c][i].rec = "tx"}
    BY DEF Txs
  <1>5. Txs(c)' = {i \in DOMAIN trail[c] \cup {n} :
                     IF i = n THEN e.rec = "tx" ELSE trail[c][i].rec = "tx"}
    BY <1>1, <1>3, <1>4
  <1> QED BY <1>1, <1>3, <1>5 DEF Txs, n, T

(* The rest of a program is made of the same steps. *)
LEMMA TailFits ==
    ASSUME NEW R, NEW s \in Seq(R), s # << >>
    PROVE  Tail(s) \in Seq(R)
PROOF OBVIOUS

(* A call that is left alone keeps its invariant. *)
LEMMA CallKept ==
    ASSUME NEW c, CallInv(c), UNCHANGED plan,
           UNCHANGED <<todo[c], outcome[c], trail[c]>>
    PROVE  CallInv(c)'
PROOF BY SameTool DEF CallInv, Reported, Txs

(* While it runs, and when it ends. *)
LEMMA WayKeeps ==
    ASSUME NEW c, c \in DOMAIN todo, c \in DOMAIN outcome, c \in DOMAIN trail,
           NEW S, trail[c] \in Seq(S), UNCHANGED plan, CallInv(c),
           todo[c] # << >>, Head(todo[c]) \notin RecordSteps,
           Way(c) \/ Denied(c)
    PROVE  CallInv(c)' /\ \E T : trail'[c] \in Seq(T)
PROOF
  <1>1. /\ outcome[c].state = "running" /\ outcome[c].why = ""
        /\ Txs(c) = {}
        /\ todo[c] \in Seq(Steps(c))
    BY HeadFits DEF CallInv, RecordSteps
  <1>2. Mutating(c)' = Mutating(c) /\ Steps(c)' = Steps(c)
    BY SameTool
  <1>3. UNCHANGED trail => Txs(c)' = {} /\ \E T : trail'[c] \in Seq(T)
    BY <1>1 DEF Txs
  <1>4. CASE GoesOn(c)
    <2>1. ASSUME UNCHANGED <<todo, outcome>> PROVE CallInv(c)'
      BY <1>4, <2>1, CallKept DEF GoesOn
    <2>2. ASSUME NEW steps \in Seq(Later(c)), NEW l, Become(c, steps, l) PROVE CallInv(c)'
      <3>1. todo'[c] = steps \o Tail(todo[c]) /\ UNCHANGED outcome
        BY <2>2 DEF Become
      <3>2. Tail(todo[c]) \in Seq(Steps(c))
        BY <1>1, TailFits
      <3>3. steps \o Tail(todo[c]) \in Seq(Steps(c))
        <4>1. steps \in Seq(Steps(c))
          BY <2>2 DEF Later
        <4> QED BY <3>2, <4>1
      <3> QED BY <1>1, <1>2, <1>3, <1>4, <3>1, <3>3 DEF CallInv, GoesOn
    <2> QED BY <1>3, <1>4, <2>1, <2>2 DEF GoesOn
  <1>5. CASE Answers(c)
    <2>1. PICK v : (~Mutating(c) \/ NothingToDo(v)) /\ Return(c, v)
      BY <1>5 DEF Answers
    <2>2. todo'[c] = <<"completed">> /\ outcome'[c].state = "ok" /\ outcome'[c].value = v
      BY <2>1 DEF Return
    <2>3. Reported(c)'
      BY <1>2, <1>3, <1>5, <2>1, <2>2 DEF Reported, Answers, NothingToDo
    <2> QED BY <1>3, <1>5, <2>2, <2>3 DEF CallInv, Closing, Answers
  <1>6. CASE Fails(c) \/ Denied(c)
    <2>1. PICK why, code, v : FailWith(c, why, code, v)
      BY <1>6 DEF Fails, Denied
    <2>2. todo'[c] = <<"completed", "error">> /\ outcome'[c].state = "err"
      BY <2>1 DEF FailWith
    <2>3. UNCHANGED trail
      BY <1>6 DEF Fails, Denied
    <2> QED BY <1>3, <2>2, <2>3 DEF CallInv, Closing, Reported
  <1>7. CASE Commits(c)
    <2>1. PICK e : e.rec = "tx" /\ Record(c, e)
      BY <1>7 DEF Commits
    <2>2. /\ Txs(c)' = {Len(trail[c]) + 1}
          /\ \E T : trail'[c] \in Seq(T)
      BY <1>1, <2>1, TxsRecorded
    <2>3. CASE \E v : ~NothingToDo(v) /\ Return(c, v)
      <3>1. PICK v : ~NothingToDo(v) /\ Return(c, v)
        BY <2>3
      <3>2. todo'[c] = <<"completed">> /\ outcome'[c].state = "ok" /\ outcome'[c].value = v
        BY <3>1 DEF Return
      <3>3. Reported(c)'
        BY <1>2, <1>7, <2>2, <3>1, <3>2 DEF Reported, Commits, NothingToDo
      <3> QED BY <2>2, <3>2, <3>3 DEF CallInv, Closing
    <2>4. CASE Fail(c, "network")
      <3>1. /\ todo'[c] = <<"completed", "error">>
            /\ outcome'[c].state = "err"
            /\ outcome'[c].why = "network"
        BY <2>4 DEF Fail, FailWith
      <3> QED BY <1>2, <1>7, <2>2, <3>1 DEF CallInv, Closing, Reported, Commits
    <2> QED BY <1>7, <2>3, <2>4 DEF Commits
  <1> QED BY <1>4, <1>5, <1>6, <1>7 DEF Way

(* An audit record, written or lost, keeps the invariant of its call. *)
LEMMA NotesKeep ==
    ASSUME NEW c, c \in DOMAIN todo, c \in DOMAIN outcome, c \in DOMAIN trail,
           NEW S, trail[c] \in Seq(S), UNCHANGED plan, CallInv(c), Notes(c)
    PROVE  CallInv(c)' /\ \E T : trail'[c] \in Seq(T)
PROOF
  <1>1. PICK e : Publish(c, e) /\ e.rec # "tx"
    BY DEF Notes
  <1>2. todo'[c] = Tail(todo[c]) /\ UNCHANGED outcome /\ todo[c] # << >>
    BY <1>1 DEF Publish, Notes
  <1>3. Txs(c)' = Txs(c) /\ \E T : trail'[c] \in Seq(T)
    BY <1>1, TxsRecorded DEF Publish, Txs
  <1>4. Mutating(c)' = Mutating(c) /\ Steps(c)' = Steps(c)
    BY SameTool
  <1>5. todo[c] \in Seq(Steps(c)) => Tail(todo[c]) \in Seq(Steps(c))
    BY <1>2
  <1>6. todo[c] \in Closing => Tail(todo[c]) \in Closing
    <2>1. /\ Tail(<<"completed">>) = << >>
          /\ Tail(<<"error">>) = << >>
          /\ Tail(<<"completed", "error">>) = <<"error">>
      OBVIOUS
    <2> QED BY <1>2, <2>1 DEF Closing
  <1> QED BY <1>2, <1>3, <1>4, <1>5, <1>6 DEF CallInv, Reported

-----------------------------------------------------------------------------
(* A step of one call, and the others. *)

(* The step changes nothing of another call. *)
Only(c) ==
    /\ UNCHANGED todo \/ \E x : todo' = [todo EXCEPT ![c] = x]
    /\ UNCHANGED outcome \/ \E x : outcome' = [outcome EXCEPT ![c] = x]
    /\ UNCHANGED trail \/ \E x : trail' = [trail EXCEPT ![c] = x]
    /\ UNCHANGED inbox \/ \E x : inbox' = [inbox EXCEPT ![c] = x]

(* A step of one call leaves the others as they are. *)
LEMMA Others ==
    ASSUME FunctionsOfCalls, NEW c \in Calls, Only(c)
    PROVE  /\ DOMAIN todo' = Calls
           /\ DOMAIN outcome' = Calls
           /\ DOMAIN trail' = Calls
           /\ DOMAIN inbox' = Calls
           /\ \A d \in Calls \ {c} : UNCHANGED <<todo[d], outcome[d], trail[d], inbox[d]>>
PROOF BY DEF FunctionsOfCalls, Only

(* What every step of a call amounts to. *)
Moves(c) ==
    /\ todo[c] # << >>
    /\ \/ (Way(c) \/ Denied(c)) /\ Head(todo[c]) \notin RecordSteps
       \/ Notes(c)
    /\ Held(c)
    /\ Only(c)
    /\ UNCHANGED plan

(* Every step of a call is one of the moves above. *)
LEMMA CallMoves ==
    ASSUME AppliedInv, NEW c \in Calls, CallStep(c)
    PROVE  Moves(c)
PROOF
  <1>1. CallInv(c) /\ (inbox[c] # Idle => AtEntry(c)) /\ c \in DOMAIN inbox
    BY DEF AppliedInv, FunctionsOfCalls
  <1>2. todo[c] # << >> => Arg(c).tool \in ToolNames
    BY DEF AppliedInv
  <1> DEFINE Ended == /\ \E x : todo' = [todo EXCEPT ![c] = x]
                      /\ \E x : outcome' = [outcome EXCEPT ![c] = x]
  <1>3. /\ \A v : Return(c, v) => Ended
        /\ \A why, code, v : FailWith(c, why, code, v) => Ended
    BY DEF Return, FailWith
  <1>4. ASSUME NEW steps, NEW l, Become(c, steps, l)
        PROVE  (\E x : todo' = [todo EXCEPT ![c] = x]) /\ UNCHANGED outcome
    BY <1>4 DEF Become
  <1>5. \A e : Record(c, e) => \E x : trail' = [trail EXCEPT ![c] = x]
    BY DEF Record
  <1>6. ASSUME Way(c) \/ Denied(c), UNCHANGED inbox \/ \E x : inbox' = [inbox EXCEPT ![c] = x]
        PROVE  Only(c)
    <2>1. CASE GoesOn(c)
      BY <1>4, <1>6, <2>1 DEF GoesOn, Only
    <2>2. CASE Answers(c)
      BY <1>3, <1>6, <2>2 DEF Answers, Only
    <2>3. CASE Fails(c) \/ Denied(c)
      BY <1>3, <1>6, <2>3 DEF Fails, Denied, Only
    <2>4. CASE Commits(c)
      BY <1>3, <1>5, <1>6, <2>4 DEF Commits, Fail, Only
    <2> QED BY <1>6, <2>1, <2>2, <2>3, <2>4 DEF Way
  <1>7. CASE RecordStep(c)
    <2>1. Notes(c) /\ ~AtEntry(c) /\ UNCHANGED <<inbox, plan>>
      BY <1>1, <1>2, <1>7, RecordWay DEF RecordStep
    <2>2. Only(c)
      BY <1>5, <2>1 DEF Notes, Publish, Only
    <2> QED BY <1>1, <2>1, <2>2 DEF Moves, Notes, Held
  <1>8. CASE LocalStep(c) \/ RequestStep(c)
    <2>1. Way(c) /\ Working(c) /\ UNCHANGED <<inbox, plan>>
      BY <1>1, <1>8, LocalWay, RequestWay DEF LocalStep, RequestStep, brokerVars
    <2>2. ~AtEntry(c)
      BY <2>1 DEF Working, AtEntry
    <2> QED BY <1>1, <1>6, <2>1, <2>2 DEF Moves, Working, Held
  <1>9. CASE FactoryStep(c) /\ UNCHANGED plan
    BY <1>1, <1>6, <1>9, FactoryWay DEF Moves
  <1> QED BY <1>7, <1>8, <1>9 DEF CallStep

(* A step spends one failure at most. *)
LEMMA MovesSpend ==
    ASSUME NEW c, Moves(c)
    PROVE  Spends
PROOF BY DEF Moves, Way, Denied, Notes, Publish, Fault, Spends

(* The invariant survives a step of a call. *)
LEMMA CallPreserves ==
    ASSUME AppliedInv, NEW c \in Calls, CallStep(c)
    PROVE  AppliedInv'
PROOF
  <1>1. Moves(c)
    BY CallMoves
  <1>2. /\ DOMAIN todo' = Calls
        /\ DOMAIN outcome' = Calls
        /\ DOMAIN trail' = Calls
        /\ DOMAIN inbox' = Calls
        /\ \A d \in Calls \ {c} : UNCHANGED <<todo[d], outcome[d], trail[d], inbox[d]>>
    BY <1>1, Others DEF AppliedInv, Moves
  <1>3. CallInv(c)' /\ \E T : trail'[c] \in Seq(T)
    <2>1. CallInv(c) /\ \E S : trail[c] \in Seq(S)
      BY DEF AppliedInv, FunctionsOfCalls
    <2> QED BY <1>1, <2>1, WayKeeps, NotesKeep DEF AppliedInv, FunctionsOfCalls, Moves
  <1>4. ASSUME NEW d \in Calls \ {c} PROVE CallInv(d)' /\ \E T : trail'[d] \in Seq(T)
    <2>1. CallInv(d) /\ \E S : trail[d] \in Seq(S)
      BY DEF AppliedInv, FunctionsOfCalls
    <2> QED BY <1>1, <1>2, <2>1, CallKept DEF Moves
  <1>5. faults' \in Nat
    BY <1>1, MovesSpend DEF AppliedInv, Spends
  <1>6. \A d \in Calls : inbox'[d] # Idle => AtEntry(d)'
    BY <1>1, <1>2 DEF AppliedInv, Moves, Held, AtEntry
  <1>7. \A d \in Calls \ DOMAIN plan'.call : todo'[d] = << >>
    BY <1>1, <1>2 DEF AppliedInv, Moves
  <1>8. /\ DOMAIN plan'.call \subseteq Calls
        /\ \A d \in DOMAIN plan'.call : Arg(d)'.tool \in ToolNames
    BY <1>1 DEF AppliedInv, Moves, Arg
  <1> QED BY <1>2, <1>3, <1>4, <1>5, <1>6, <1>7, <1>8 DEF AppliedInv, FunctionsOfCalls

-----------------------------------------------------------------------------
(* The whole system. *)

(* It holds of the calls that have not started. *)
LEMMA AppliedInit ==
    ASSUME Init
    PROVE  AppliedInv
PROOF
  <1>1. PICK s \in Plans :
            /\ plan = [call |-> s.call, bridge |-> s.bridge, faults |-> s.faults, sync |-> s.sync]
            /\ docs = s.docs
            /\ BrokerInit(s.entry)
    BY DEF Init
  <1>2. /\ faults \in Nat
        /\ DOMAIN plan.call \subseteq Calls
        /\ \A c \in DOMAIN plan.call : plan.call[c].tool \in ToolNames
    BY <1>1, PlansAssumption DEF Init
  <1>3. ASSUME NEW c \in DOMAIN plan.call
        PROVE  RecordTool(Tool(plan.call[c]).body) \in Seq(Steps(c))
    <2>1. Arg(c).tool \in ToolNames /\ Later(c) = StepsOf(Arg(c)) \ {"invoked", "action"}
      BY <1>2, <1>3 DEF Arg, Later, Steps
    <2>2. Mutating(c) => "action" \in Steps(c)
      BY DEF Steps, StepsOf, WriteSteps, Owns, Mutating
    <2>3. Tool(Arg(c)).body \in Seq(Steps(c))
      <3>1. CASE Tool(Arg(c)).body \in Seq(Later(c))
        BY <3>1 DEF Later
      <3>2. ASSUME Mutating(c), NEW rest \in Seq(Later(c)), Tool(Arg(c)).body = <<"action">> \o rest
            PROVE  Tool(Arg(c)).body \in Seq(Steps(c))
        <4>1. rest \in Seq(Steps(c))
          BY <3>2 DEF Later
        <4> QED BY <2>2, <3>2, <4>1
      <3> QED BY <2>1, <3>1, <3>2, ToolBodies DEF Mutating
    <2>4. "invoked" \in Steps(c)
      BY DEF Steps, StepsOf, ReadSteps, WriteSteps, Owns
    <2> QED BY <2>3, <2>4 DEF RecordTool, Arg
  <1>4. \A c \in Calls : CallInv(c)
    <2> SUFFICES ASSUME NEW c \in Calls PROVE CallInv(c)
      OBVIOUS
    <2>1. outcome[c].state = "running" /\ outcome[c].why = ""
      BY DEF Init, Running
    <2>2. Txs(c) = {}
      BY DEF Init, Txs
    <2>3. todo[c] \in Seq(Steps(c))
      BY <1>3 DEF Init
    <2> QED BY <2>1, <2>2, <2>3 DEF CallInv
  <1>5. FunctionsOfCalls
    BY <1>1 DEF Init, BrokerInit, FunctionsOfCalls
  <1>6. \A c \in Calls : inbox[c] = Idle
    BY <1>1 DEF BrokerInit
  <1> QED BY <1>2, <1>4, <1>5, <1>6 DEF Init, AppliedInv, Arg

(* Bridges and clocks leave the calls alone, and spend one failure at most. *)
LEMMA EnvironmentQuiet ==
    ASSUME Environment \/ \E c \in Calls, b \in Bridges : BridgeStep(c, b)
    PROVE  UNCHANGED <<plan, todo, outcome, trail>> /\ Spends
PROOF
  <1>1. UNCHANGED <<plan, todo, outcome, trail>>
    BY DEF Environment, BridgeStep, JwtDue, callVars, world
  <1>2. Environment => Spends
    BY DEF Environment, JwtDue, ResponderStops, Fault, Spends
  <1>3. ASSUME NEW c \in Calls, NEW b \in Bridges, BridgeStep(c, b) PROVE Spends
    BY <1>3
    DEF BridgeStep, HandleMint, UnknownWorkspace, AccountToken, SelectWorkspace, Fault, Spends
  <1> QED BY <1>1, <1>2, <1>3

(* It survives the steps of bridges and clocks. *)
LEMMA EnvironmentPreserves ==
    ASSUME AppliedInv, Environment \/ \E c \in Calls, b \in Bridges : BridgeStep(c, b)
    PROVE  AppliedInv'
PROOF
  <1>1. UNCHANGED <<plan, todo, outcome, trail>> /\ Spends
    BY EnvironmentQuiet
  <1>3. /\ DOMAIN inbox' = DOMAIN inbox
        /\ \A d \in DOMAIN inbox : inbox[d] = Idle => inbox'[d] = Idle
    <2>1. Environment => UNCHANGED inbox
      BY DEF Environment, JwtDue, ResponderStops
    <2>2. ASSUME NEW c \in Calls, NEW b \in Bridges, NEW reply, SendReply(c, b, reply)
          PROVE  /\ DOMAIN inbox' = DOMAIN inbox
                 /\ \A d \in DOMAIN inbox : inbox[d] = Idle => inbox'[d] = Idle
      <3>1. Waiting # Idle
        BY DEF Waiting, Idle
      <3> QED BY <2>2, <3>1 DEF SendReply
    <2>3. ASSUME NEW c \in Calls, NEW b \in Bridges, BridgeStep(c, b)
          PROVE  UNCHANGED inbox \/ \E reply : SendReply(c, b, reply)
      BY <2>3 DEF BridgeStep, HandleMint, UnknownWorkspace, AccountToken, SelectWorkspace
    <2> QED BY <2>1, <2>2, <2>3
  <1>4. \A c \in Calls : CallInv(c)'
    BY <1>1, CallKept DEF AppliedInv
  <1>5. \A c : Arg(c)' = Arg(c) /\ AtEntry(c)' = AtEntry(c)
    BY <1>1 DEF Arg, AtEntry
  <1>6. FunctionsOfCalls' /\ faults' \in Nat
    BY <1>1, <1>3 DEF AppliedInv, FunctionsOfCalls, Spends
  <1>7. \A c \in Calls : inbox'[c] # Idle => AtEntry(c)'
    BY <1>3, <1>5 DEF AppliedInv, FunctionsOfCalls
  <1> QED BY <1>1, <1>4, <1>5, <1>6, <1>7 DEF AppliedInv

(* It survives every step. *)
LEMMA AppliedStep ==
    ASSUME AppliedInv, [Next]_vars
    PROVE  AppliedInv'
PROOF
  <1>1. ASSUME UNCHANGED vars PROVE AppliedInv'
    <2>1. \A c \in Calls : CallInv(c)'
      BY <1>1, CallKept DEF vars, AppliedInv
    <2> QED BY <1>1, <2>1 DEF vars, AppliedInv, FunctionsOfCalls, AtEntry, Arg
  <1> QED BY <1>1, CallPreserves, EnvironmentPreserves DEF Next

(* It says enough. *)
LEMMA AppliedHolds ==
    ASSUME AppliedInv
    PROVE  AppliedAsReported
PROOF
  <1> SUFFICES ASSUME NEW c \in DOMAIN plan.call
               PROVE  LET n == Cardinality(Txs(c)) IN
                      /\ n <= 1
                      /\ outcome[c].state = "ok" =>
                             n = IF Mutating(c) /\ ~NothingToDo(outcome[c].value) THEN 1 ELSE 0
                      /\ outcome[c].state = "err" /\ outcome[c].why # "network" => n = 0
    BY DEF AppliedAsReported
  <1>1. CallInv(c)
    BY DEF AppliedInv
  <1>2. Cardinality({}) = 0 /\ \A k : Cardinality({k}) = 1
    BY FS_EmptySet, FS_Singleton
  <1>3. CASE outcome[c].state = "running"
    <2>1. Txs(c) = {}
      BY <1>1, <1>3 DEF CallInv
    <2> QED BY <1>2, <1>3, <2>1
  <1>4. CASE outcome[c].state # "running"
    <2>1. Reported(c)
      BY <1>1, <1>4 DEF CallInv
    <2>2. CASE Txs(c) = {}
      BY <1>2, <2>1, <2>2 DEF Reported
    <2>3. CASE \E k : Txs(c) = {k}
      BY <1>2, <2>1, <2>3 DEF Reported
    <2> QED BY <2>1, <2>2, <2>3 DEF Reported
  <1> QED BY <1>3, <1>4

(* Whatever the calls, the documents and the failures, however the calls interleave: a call  *)
(* that reports success has applied the one transaction it reports, or none if it reports that *)
(* there was nothing to do; one that fails has applied none unless the answer was lost; none    *)
(* applies two.                                                                                   *)
THEOREM AppliedAsReportedCorrect == Spec => []AppliedAsReported
PROOF
  <1>1. Init => AppliedInv
    BY AppliedInit
  <1>2. AppliedInv /\ [Next]_vars => AppliedInv'
    BY AppliedStep
  <1>3. AppliedInv => AppliedAsReported
    BY AppliedHolds
  <1> QED BY <1>1, <1>2, <1>3, PTL DEF Spec

-----------------------------------------------------------------------------
(* Refusals. *)

HasCause(code) ==
    /\ code = "unknown_workspace" => \E b \in Bridges : Credential(b) = "none"
    /\ code = "accounts_failure" => faults < plan.faults

(* A refusal has its cause while it is on its way, too. *)
CauseInv ==
    /\ plan.faults \in Nat
    /\ faults <= plan.faults
    /\ \A c \in Calls : HasCause(outcome[c].why) /\ HasCause(inbox[c].code)

(* A cause is not taken back. *)
LEMMA CauseStays ==
    ASSUME faults \in Nat, plan.faults \in Nat, Spends, UNCHANGED plan, NEW code, HasCause(code)
    PROVE  HasCause(code)'
PROOF BY DEF HasCause, Spends, Credential

(* No call has been refused yet. *)
LEMMA CauseInit ==
    ASSUME Init
    PROVE  CauseInv
PROOF
  <1>1. PICK s \in Plans :
            /\ plan = [call |-> s.call, bridge |-> s.bridge, faults |-> s.faults, sync |-> s.sync]
            /\ BrokerInit(s.entry)
    BY DEF Init
  <1>2. plan.faults \in Nat /\ faults = plan.faults
    BY <1>1, PlansAssumption DEF Init
  <1>3. ASSUME NEW c \in Calls PROVE outcome[c].why = "" /\ inbox[c].code = ""
    BY <1>1, <1>3 DEF Init, Running, BrokerInit, Idle
  <1>4. HasCause("")
    BY DEF HasCause
  <1>5. faults <= plan.faults
    BY <1>2
  <1> QED BY <1>2, <1>3, <1>4, <1>5 DEF CauseInv

(* A call only passes on what it was told, or fails for another reason. *)
LEMMA CallKeepsCause ==
    ASSUME AppliedInv, CauseInv, NEW c \in Calls, CallStep(c)
    PROVE  CauseInv'
PROOF
  <1>1. Moves(c) /\ Spends
    BY CallMoves, MovesSpend
  <1>2. \A code : HasCause(code) => HasCause(code)'
    BY <1>1, CauseStays DEF AppliedInv, CauseInv, Moves
  <1>3. ASSUME NEW d \in Calls \ {c} PROVE UNCHANGED <<outcome[d], inbox[d]>>
    BY <1>1, <1>3, Others DEF AppliedInv, Moves
  <1>4. HasCause(inbox'[c].code)
    <2>1. inbox'[c].code = ""
      <3>1. inbox'[c] = Idle \/ inbox'[c] = Waiting
        BY <1>1 DEF Moves, Held
      <3>2. Idle.code = "" /\ Waiting.code = ""
        BY DEF Idle, Waiting
      <3> QED BY <3>1, <3>2
    <2> QED BY <2>1 DEF HasCause
  <1>5. HasCause(outcome'[c].why)
    <2>1. c \in DOMAIN outcome /\ HasCause(outcome[c].why) /\ HasCause(inbox[c].code)
      BY DEF AppliedInv, FunctionsOfCalls, CauseInv
    <2>2. CASE UNCHANGED outcome
      BY <2>1, <2>2
    <2>3. ASSUME NEW v, Return(c, v) PROVE HasCause(outcome'[c].why)
      BY <2>1, <2>3 DEF Return, HasCause
    <2>4. ASSUME NEW why, NEW code, NEW v, FailWith(c, why, code, v), HasCause(why)
          PROVE  HasCause(outcome'[c].why)
      BY <2>1, <2>4 DEF FailWith
    <2>5. \A why : why \notin Refusals => HasCause(why)
      BY DEF Refusals, HasCause
    <2>6. CASE GoesOn(c) \/ Notes(c)
      BY <2>2, <2>6 DEF GoesOn, Become, Notes, Publish
    <2>7. CASE Answers(c)
      BY <2>3, <2>7 DEF Answers
    <2>8. CASE Fails(c)
      BY <2>4, <2>5, <2>8 DEF Fails
    <2>9. CASE Denied(c)
      BY <2>1, <2>4, <2>9 DEF Denied
    <2>10. CASE Commits(c)
      BY <2>3, <2>4, <2>5, <2>10 DEF Commits, Fail, Refusals
    <2> QED BY <1>1, <2>6, <2>7, <2>8, <2>9, <2>10 DEF Moves, Way
  <1>6. plan'.faults \in Nat /\ faults' <= plan'.faults
    BY <1>1 DEF CauseInv, Moves, Spends, AppliedInv
  <1>7. ASSUME NEW d \in Calls PROVE HasCause(outcome[d].why)' /\ HasCause(inbox[d].code)'
    <2>1. CASE d = c
      <3>1. HasCause(outcome'[c].why) /\ HasCause(inbox'[c].code)
        BY <1>4, <1>5
      <3> QED BY <1>1, <2>1, <3>1 DEF HasCause, Spends, Moves, Credential, CauseInv, AppliedInv
    <2>2. CASE d # c
      <3>1. HasCause(outcome[d].why) /\ HasCause(inbox[d].code) /\ UNCHANGED <<outcome[d], inbox[d]>>
        BY <1>3, <2>2 DEF CauseInv
      <3> QED BY <1>1, <3>1 DEF HasCause, Spends, Moves, Credential, CauseInv, AppliedInv
    <2> QED BY <2>1, <2>2
  <1> QED BY <1>6, <1>7 DEF CauseInv

(* A bridge refuses for want of credentials, or after a failure. *)
LEMMA EnvironmentKeepsCause ==
    ASSUME AppliedInv, CauseInv,
           Environment \/ \E c \in Calls, b \in Bridges : BridgeStep(c, b)
    PROVE  CauseInv'
PROOF
  <1>1. UNCHANGED <<plan, outcome>>
    BY DEF Environment, BridgeStep, JwtDue, callVars
  <1>2. ASSUME Spends, UNCHANGED inbox PROVE CauseInv'
    BY <1>1, <1>2 DEF CauseInv, HasCause, Spends, Credential, AppliedInv
  <1>3. CASE Environment
    BY <1>2, <1>3 DEF Environment, JwtDue, ResponderStops, Fault, Spends
  <1>4. ASSUME NEW c \in Calls, NEW b \in Bridges, BridgeStep(c, b) PROVE CauseInv'
    <2>1. ASSUME Spends, NEW reply, SendReply(c, b, reply),
                 reply.code = "unknown_workspace" => Credential(b) = "none",
                 reply.code = "accounts_failure" => faults' < faults
          PROVE  CauseInv'
      <3>1. \A d \in Calls : inbox'[d] = inbox[d] \/ inbox'[d] = reply
        BY <2>1 DEF SendReply, AppliedInv, FunctionsOfCalls
      <3> QED BY <1>1, <2>1, <3>1 DEF CauseInv, HasCause, Spends, Credential, AppliedInv
    <2>2. CASE UnknownWorkspace(c, b)
      BY <2>1, <2>2 DEF UnknownWorkspace, MintError, Spends
    <2>3. ASSUME Fault, SendReply(c, b, MintError("accounts_failure")) PROVE CauseInv'
      <3>1. Spends /\ faults' < faults
        BY <2>3 DEF Fault, Spends, AppliedInv
      <3>2. MintError("accounts_failure").code = "accounts_failure"
        BY DEF MintError
      <3> QED BY <2>1, <2>3, <3>1, <3>2
    <2>4. CASE AccountToken(c, b)
      BY <1>2, <2>3, <2>4 DEF AccountToken, Spends
    <2>5. CASE SelectWorkspace(c, b)
      BY <2>1, <2>3, <2>5 DEF SelectWorkspace, MintResponse, Spends
    <2> QED BY <1>4, <2>2, <2>4, <2>5 DEF BridgeStep, HandleMint
  <1> QED BY <1>3, <1>4

(* Every step keeps the causes of the refusals. *)
LEMMA CauseStep ==
    ASSUME AppliedInv, CauseInv, [Next]_vars
    PROVE  CauseInv'
PROOF
  <1>1. ASSUME UNCHANGED vars PROVE CauseInv'
    BY <1>1 DEF vars, CauseInv, HasCause, Credential
  <1> QED BY <1>1, CallKeepsCause, EnvironmentKeepsCause DEF Next

(* However many bridges answer a mint request and in whatever order: a call that is told that   *)
(* the workspace is unknown was told so by a bridge without credentials for it, and one that is *)
(* told that the accounts service failed follows such a failure.                                 *)
THEOREM RefusalHasCauseCorrect == Spec => []RefusalHasCause
PROOF
  <1>1. Init => AppliedInv /\ CauseInv
    BY AppliedInit, CauseInit
  <1>2. (AppliedInv /\ CauseInv) /\ [Next]_vars => (AppliedInv /\ CauseInv)'
    BY AppliedStep, CauseStep
  <1>3. AppliedInv /\ CauseInv => RefusalHasCause
    BY DEF CauseInv, HasCause, RefusalHasCause
  <1> QED BY <1>1, <1>2, <1>3, PTL DEF Spec

-----------------------------------------------------------------------------
(* The audit trail. *)

(* What AuditTrail says of one call. *)
InOrder(c) ==
    \A i \in DOMAIN trail[c] :
        trail[c][i].rec = "tx" =>
            /\ i = 3
            /\ trail[c][1].rec = "invoked"
            /\ trail[c][2].rec = "action"
            /\ trail[c][i].op = "update" => trail[c][i].fields = trail[c][2].fields

(* How far a changing call has come: nothing published, its start, its start and its action. *)
Stage(c) ==
    \/ todo[c] = <<"invoked">> \o Tool(Arg(c)).body /\ trail[c] = << >>
    \/ todo[c] = Tool(Arg(c)).body /\ trail[c] = <<[rec |-> "invoked"]>>
    \/ todo[c] \in Seq(Later(c)) /\ trail[c] = <<[rec |-> "invoked"], Tool(Arg(c)).action>>

Audited(c) ==
    /\ InOrder(c)
    /\ c \in DOMAIN plan.call /\ Mutating(c) /\ outcome[c].state = "running" => Stage(c)

(* As long as nothing fails; then records may be missing. *)
AuditInv == faults = plan.faults => \A c \in Calls : Audited(c)

(* The steps of a call stay its steps. *)
LEMMA SameLater ==
    ASSUME NEW c, UNCHANGED plan
    PROVE  Later(c)' = Later(c) /\ Mutating(c)' = Mutating(c) /\ Arg(c)' = Arg(c)
PROOF BY SameTool DEF Later

(* A call that is left alone is audited as before. *)
LEMMA AuditKept ==
    ASSUME NEW c, Audited(c), UNCHANGED plan, UNCHANGED <<todo[c], outcome[c], trail[c]>>
    PROVE  Audited(c)'
PROOF BY SameLater DEF Audited, InOrder, Stage

(* What a record appended to a trail changes: its last element. *)
LEMMA Recorded ==
    ASSUME NEW c, c \in DOMAIN trail, NEW S, trail[c] \in Seq(S), NEW e, Record(c, e)
    PROVE  /\ trail'[c] = Append(trail[c], e)
           /\ DOMAIN trail'[c] = DOMAIN trail[c] \cup {Len(trail[c]) + 1}
           /\ \A i \in DOMAIN trail[c] :
                  trail'[c][i] = trail[c][i] /\ i # Len(trail[c]) + 1 /\ 1 \in DOMAIN trail[c]
                  /\ (i = 3 => 2 \in DOMAIN trail[c])
           /\ trail'[c][Len(trail[c]) + 1] = e
PROOF
  <1>1. trail'[c] = Append(trail[c], e)
    BY DEF Record
  <1> DEFINE s == trail[c]
             T == S \cup {e}
  <1>2. s \in Seq(T)
    OBVIOUS
  <1> HIDE DEF s, T
  <1>3. /\ DOMAIN Append(s, e) = DOMAIN s \cup {Len(s) + 1}
        /\ \A i \in DOMAIN s : Append(s, e)[i] = s[i] /\ i # Len(s) + 1 /\ 1 \in DOMAIN s
                               /\ (i = 3 => 2 \in DOMAIN s)
        /\ Append(s, e)[Len(s) + 1] = e
    BY <1>2
  <1> QED BY <1>1, <1>3 DEF s

(* The head of a program that is past the records of the start is none of record_tool's. *)
LEMMA LaterHead ==
    ASSUME NEW c, todo[c] \in Seq(Later(c)), todo[c] # << >>
    PROVE  Head(todo[c]) \notin RecordSteps
PROOF
  <1>1. Head(todo[c]) \in Later(c)
    OBVIOUS
  <1> QED BY <1>1 DEF Later, Steps, StepsOf, ReadSteps, WriteSteps, RecordSteps

(* The start of a program is a record. *)
LEMMA StageHead ==
    ASSUME NEW c, Arg(c).tool \in ToolNames, Mutating(c), Stage(c), todo[c] # << >>,
           Head(todo[c]) \notin RecordSteps
    PROVE  todo[c] \in Seq(Later(c)) /\ trail[c] = <<[rec |-> "invoked"], Tool(Arg(c)).action>>
PROOF
  <1>1. PICK rest \in Seq(Later(c)) : Tool(Arg(c)).body = <<"action">> \o rest
    BY ToolBodies DEF Mutating, Later, Steps
  <1>2. Head(<<"action">> \o rest) = "action"
    BY <1>1
  <1>3. Head(<<"invoked">> \o (<<"action">> \o rest)) = "invoked"
    BY <1>1
  <1> QED BY <1>1, <1>2, <1>3 DEF Stage, RecordSteps

(* A second record. *)
LEMMA AppendedToOne ==
    ASSUME NEW x, NEW y
    PROVE  Append(<<x>>, y) = <<x, y>>
PROOF
  <1> DEFINE S == {x, y}
  <1>1. <<x>> \in Seq(S) /\ Len(<<x>>) = 1
    OBVIOUS
  <1>2. <<x, y>> \in Seq(S) /\ Len(<<x, y>>) = 2
    OBVIOUS
  <1>3. Append(<<x>>, y) \in Seq(S) /\ Len(Append(<<x>>, y)) = 2
    BY <1>1
  <1>4. \A i \in 1 .. 2 : Append(<<x>>, y)[i] = <<x, y>>[i]
    BY <1>1
  <1> HIDE DEF S
  <1> QED BY <1>2, <1>3, <1>4, SeqEqual

(* An audit record in its place. *)
LEMMA NotesAudited ==
    ASSUME NEW c, c \in DOMAIN todo, c \in DOMAIN trail, NEW S, trail[c] \in Seq(S),
           UNCHANGED plan, faults \in Nat, UNCHANGED faults, Arg(c).tool \in ToolNames,
           Notes(c), Audited(c)
    PROVE  Audited(c)'
PROOF
  <1>1. PICK e : Publish(c, e) /\ e.rec # "tx" /\ Proper(c, e)
    BY DEF Notes
  <1>2. Record(c, e) /\ todo'[c] = Tail(todo[c]) /\ UNCHANGED outcome
    BY <1>1 DEF Publish, Fault
  <1>3. InOrder(c)'
    <2>1. InOrder(c)
      BY DEF Audited
    <2> QED BY <1>1, <1>2, <2>1, Recorded DEF InOrder
  <1>4. ASSUME c \in DOMAIN plan.call, Mutating(c), outcome[c].state = "running"
        PROVE  Stage(c)'
    <2>1. Stage(c) /\ Later(c)' = Later(c) /\ Arg(c)' = Arg(c)
      BY <1>4, SameLater DEF Audited
    <2>2. PICK rest \in Seq(Later(c)) : Tool(Arg(c)).body = <<"action">> \o rest
      BY <1>4, ToolBodies DEF Mutating, Later, Steps
    <2>3. trail'[c] = Append(trail[c], e)
      BY <1>2, Recorded
    <2>4. CASE todo[c] = <<"invoked">> \o Tool(Arg(c)).body /\ trail[c] = << >>
      <3> DEFINE body == <<"action">> \o rest
      <3>1. body \in Seq(Later(c) \cup {"action"})
        OBVIOUS
      <3> HIDE DEF body
      <3>2. Head(<<"invoked">> \o body) = "invoked" /\ Tail(<<"invoked">> \o body) = body
        BY <3>1
      <3>3. todo[c] = <<"invoked">> \o body
        BY <2>2, <2>4 DEF body
      <3>4. e = [rec |-> "invoked"] /\ todo'[c] = Tool(Arg(c)).body
        BY <1>1, <1>2, <2>2, <3>2, <3>3 DEF Proper, body
      <3>5. trail'[c] = <<[rec |-> "invoked"]>>
        BY <2>3, <2>4, <3>4
      <3> QED BY <2>1, <3>4, <3>5 DEF Stage
    <2>5. CASE todo[c] = Tool(Arg(c)).body /\ trail[c] = <<[rec |-> "invoked"]>>
      <3>1. Head(<<"action">> \o rest) = "action" /\ Tail(<<"action">> \o rest) = rest
        BY <2>2
      <3>2. e = Tool(Arg(c)).action /\ todo'[c] = rest
        BY <1>1, <1>2, <2>2, <2>5, <3>1 DEF Proper
      <3>4. trail'[c] = <<[rec |-> "invoked"], Tool(Arg(c)).action>>
        BY <2>3, <2>5, <3>2, AppendedToOne
      <3> QED BY <2>1, <2>2, <3>2, <3>4 DEF Stage
    <2>6. todo[c] \notin Seq(Later(c))
      BY LaterHead DEF Notes
    <2> QED BY <2>1, <2>4, <2>5, <2>6 DEF Stage
  <1>5. Mutating(c)' = Mutating(c) /\ plan' = plan
    BY SameLater
  <1> QED BY <1>2, <1>3, <1>4, <1>5 DEF Audited

(* A step of the body: a transaction comes third, after the action record of its tool. *)
LEMMA WayAudited ==
    ASSUME NEW c, c \in DOMAIN todo, c \in DOMAIN outcome, c \in DOMAIN trail, CallInv(c),
           NEW S, trail[c] \in Seq(S), UNCHANGED plan, c \in DOMAIN plan.call,
           Arg(c).tool \in ToolNames, todo[c] # << >>, Head(todo[c]) \notin RecordSteps,
           Way(c) \/ Denied(c), Audited(c)
    PROVE  Audited(c)'
PROOF
  <1>1. outcome[c].state = "running"
    BY HeadFits DEF RecordSteps
  <1>2. /\ Later(c)' = Later(c)
        /\ Mutating(c)' = Mutating(c)
        /\ Arg(c)' = Arg(c)
    BY SameLater
  <1>3. InOrder(c) /\ (Mutating(c) => Stage(c))
    BY <1>1 DEF Audited
  <1>4. UNCHANGED trail => InOrder(c)'
    BY <1>3 DEF InOrder
  <1>8. /\ \A v : Return(c, v) => outcome'[c].state # "running"
        /\ \A why, code, v : FailWith(c, why, code, v) => outcome'[c].state # "running"
    <2>1. ASSUME NEW v, Return(c, v) PROVE outcome'[c].state # "running"
      BY <2>1 DEF Return
    <2>2. ASSUME NEW why, NEW code, NEW v, FailWith(c, why, code, v)
          PROVE  outcome'[c].state # "running"
      BY <2>2 DEF FailWith
    <2> QED BY <2>1, <2>2
  <1>5. CASE GoesOn(c)
    <2>1. ASSUME UNCHANGED <<todo, outcome>> PROVE Audited(c)'
      BY <1>5, <2>1, AuditKept DEF GoesOn
    <2>2. ASSUME NEW steps \in Seq(Later(c)), NEW l, Become(c, steps, l) PROVE Audited(c)'
      <3>1. todo'[c] = steps \o Tail(todo[c]) /\ UNCHANGED outcome
        BY <2>2 DEF Become
      <3>2. ASSUME Mutating(c) PROVE Stage(c)'
        <4>1. todo[c] \in Seq(Later(c)) /\ trail[c] = <<[rec |-> "invoked"], Tool(Arg(c)).action>>
          BY <1>3, <3>2, StageHead
        <4>2. Tail(todo[c]) \in Seq(Later(c))
          BY <4>1, TailFits
        <4>3. steps \o Tail(todo[c]) \in Seq(Later(c))
          BY <4>2
        <4> QED BY <1>2, <1>5, <3>1, <4>1, <4>3 DEF Stage, GoesOn
      <3> QED BY <1>2, <1>4, <1>5, <3>2 DEF Audited, GoesOn
    <2> QED BY <1>5, <2>1, <2>2 DEF GoesOn
  <1>6. CASE Answers(c) \/ Fails(c) \/ Denied(c)
    <2>1. UNCHANGED trail
      BY <1>6 DEF Answers, Fails, Denied
    <2>2. outcome'[c].state # "running"
      BY <1>6, <1>8 DEF Answers, Fails, Denied
    <2> QED BY <1>4, <2>1, <2>2 DEF Audited
  <1>7. CASE Commits(c)
    <2>1. PICK e : e.rec = "tx" /\ Announced(c, e) /\ Record(c, e)
      BY <1>7 DEF Commits
    <2>2. Mutating(c) /\ outcome'[c].state # "running"
      BY <1>7, <1>8 DEF Commits, Fail
    <2>3. trail[c] = <<[rec |-> "invoked"], Tool(Arg(c)).action>>
      BY <1>3, <2>2, StageHead
    <2>4. /\ DOMAIN trail'[c] = 1 .. 3
          /\ trail'[c][1] = [rec |-> "invoked"]
          /\ trail'[c][2] = Tool(Arg(c)).action
          /\ trail'[c][3] = e
      <3>1. Len(trail[c]) = 2 /\ DOMAIN trail[c] = 1 .. 2
        BY <2>3
      <3>2. /\ DOMAIN trail'[c] = DOMAIN trail[c] \cup {Len(trail[c]) + 1}
            /\ \A i \in DOMAIN trail[c] : trail'[c][i] = trail[c][i]
            /\ trail'[c][Len(trail[c]) + 1] = e
        BY <2>1, Recorded
      <3>3. trail[c][1] = [rec |-> "invoked"] /\ trail[c][2] = Tool(Arg(c)).action
        BY <2>3
      <3> QED BY <3>1, <3>2, <3>3
    <2>5. Tool(Arg(c)).action.rec = "action"
      BY <2>2, ActionRecords DEF Mutating
    <2>6. InOrder(c)'
      BY <2>1, <2>4, <2>5 DEF InOrder, Announced
    <2> QED BY <2>2, <2>6 DEF Audited
  <1> QED BY <1>5, <1>6, <1>7 DEF Way

(* No call has published anything yet. *)
LEMMA AuditInit ==
    ASSUME Init
    PROVE  AuditInv
PROOF
  <1> SUFFICES ASSUME NEW c \in Calls PROVE Audited(c)
    BY DEF AuditInv
  <1>1. trail[c] = << >>
    BY DEF Init
  <1>2. InOrder(c)
    BY <1>1 DEF InOrder
  <1>3. c \in DOMAIN plan.call => todo[c] = <<"invoked">> \o Tool(Arg(c)).body
    BY DEF Init, RecordTool, Arg
  <1> QED BY <1>1, <1>2, <1>3 DEF Audited, Stage

(* Every step of a system in which nothing has failed keeps the records in order. *)
LEMMA AuditStep ==
    ASSUME AppliedInv, CauseInv, AuditInv, [Next]_vars
    PROVE  AuditInv'
PROOF
  <1>1. ASSUME UNCHANGED <<plan, todo, outcome, trail>>, Spends PROVE AuditInv'
    <2>1. faults' = plan'.faults => faults = plan.faults
      BY <1>1 DEF Spends, AppliedInv, CauseInv
    <2> QED BY <1>1, <2>1, AuditKept DEF AuditInv
  <1>2. ASSUME NEW c \in Calls, CallStep(c) PROVE AuditInv'
    <2>1. Moves(c) /\ Spends /\ UNCHANGED plan
      BY <1>2, CallMoves, MovesSpend DEF Moves
    <2> SUFFICES ASSUME UNCHANGED faults, NEW d \in Calls, Audited(c), Audited(d)
                 PROVE  Audited(d)'
      BY <2>1 DEF AuditInv, Spends, AppliedInv, CauseInv
    <2>2. CASE d # c
      <3>1. UNCHANGED <<todo[d], outcome[d], trail[d]>>
        BY <2>1, <2>2, Others DEF AppliedInv, Moves
      <3> QED BY <2>1, <3>1, AuditKept
    <2>3. CASE d = c
      <3>1. /\ c \in DOMAIN todo /\ c \in DOMAIN outcome /\ c \in DOMAIN trail
            /\ \E S : trail[c] \in Seq(S)
            /\ CallInv(c)
            /\ faults \in Nat
        BY DEF AppliedInv, FunctionsOfCalls
      <3>2. c \in DOMAIN plan.call /\ Arg(c).tool \in ToolNames
        BY <2>1 DEF AppliedInv, Moves
      <3> QED BY <2>1, <2>3, <3>1, <3>2, NotesAudited, WayAudited DEF Moves
    <2> QED BY <2>2, <2>3
  <1>3. ASSUME Environment \/ \E c \in Calls, b \in Bridges : BridgeStep(c, b)
        PROVE  UNCHANGED <<plan, todo, outcome, trail>> /\ Spends
    BY <1>3, EnvironmentQuiet
  <1>4. ASSUME UNCHANGED vars PROVE AuditInv'
    BY <1>1, <1>4 DEF vars, Spends
  <1> QED BY <1>1, <1>2, <1>3, <1>4 DEF Next

(* However the calls interleave: as long as nothing fails, each transaction of a call follows the *)
(* record of its start and the record of its action, which names the very fields that an update    *)
(* changes.                                                                                         *)
THEOREM AuditTrailCorrect == Spec => []AuditTrail
PROOF
  <1>1. Init => AppliedInv /\ CauseInv /\ AuditInv
    BY AppliedInit, CauseInit, AuditInit
  <1>2. (AppliedInv /\ CauseInv /\ AuditInv) /\ [Next]_vars => (AppliedInv /\ CauseInv /\ AuditInv)'
    BY AppliedStep, CauseStep, AuditStep
  <1>3. AppliedInv /\ CauseInv /\ AuditInv => AuditTrail
    BY DEF AuditInv, Audited, InOrder, AuditTrail
  <1> QED BY <1>1, <1>2, <1>3, PTL DEF Spec
=============================================================================
