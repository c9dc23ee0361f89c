------------------------------- MODULE McpTools -------------------------------
(***************************************************************************)
(* tools.rs: the bodies of the tools of huly-mcp, one action per request.  *)
(* Between two requests of a call, other calls and other writers of the    *)
(* workspace change it.                                                    *)
(*                                                                         *)
(* Identifiers of issues are <project identifier>-<number>, as in the      *)
(* code.  Only the attributes that a tool reads or a property is about are *)
(* kept; titles are matched exactly.                                       *)
(***************************************************************************)
EXTENDS JwtBroker

CONSTANT MaxAttempts  \* MAX_RETRIES of create_issue_in_project: 5 in the code

ASSUME ToolsAssumption == MaxAttempts \in Nat \ {0}

(* The ids that a call can make: one for each of its attempts.  No two ids are the same. *)
IdsPerCall == 1 .. MaxAttempts \cup 1 .. CollabAttempts

TxIds(c) == {GenTxId(c, n) : n \in IdsPerCall}

ASSUME GenTxIdAssumption ==
    \A c, d \in Calls : \A m, n \in IdsPerCall :
        GenTxId(c, m) = GenTxId(d, n) => c = d /\ m = n

Space == "core:space:Model"

-----------------------------------------------------------------------------
(* Projects. *)

(* The project is found by id or identifier; none requested: the only one there is. *)
ResolveProject(c) ==
    LET needle == Arg(c).project
        With(d) == Become(c, << >>, [NoLocals EXCEPT !.doc = d])
        Choose(found) ==
            LET named == {d \in found : needle \in {d.id, d.identifier}}
            IN IF needle # ""
               THEN IF named = {} THEN Fail(c, "project_not_found") ELSE \E d \in named : With(d)
               ELSE IF found = {} THEN Fail(c, "no_project")
               ELSE IF Cardinality(found) > 1 THEN Fail(c, "several_projects")
               ELSE \E d \in found : With(d)
    IN /\ At(c, "resolve_project")
       /\ FindAllDocs(c, "all", "Project", << >>, Choose)

CreateProject(c) ==
    /\ At(c, "create_project")
    /\ CreateDoc(c, "Project", Space, [identifier |-> Arg(c).identifier, sequence |-> 0])

-----------------------------------------------------------------------------
(* Issues. *)

(* The limit cuts what the server returns, before the title is looked at. *)
FindIssues(c) ==
    LET Listed(found) ==
            \E page \in kSubset(IF Cardinality(found) < Arg(c).limit THEN Cardinality(found)
                                ELSE Arg(c).limit, found) :
                LET issues == {d \in page : "number" \in DOMAIN d /\ Arg(c).title \in {"", d.title}}
                IN Return(c, [issues |-> {d.id : d \in issues}])
    IN /\ At(c, "find_issues")
       /\ FindAllDocs(c, "all", "Issue", Arg(c).filter, Listed)

GetIssue(c) ==
    LET Take(issue) ==
            IF issue = None THEN Return(c, None)
            ELSE Become(c, <<"find_relations">>,
                        [NoLocals EXCEPT !.doc = issue, !.left = {"docA", "docB"}])
    IN /\ At(c, "get_issue")
       /\ FindOne(c, "Issue", [identifier |-> Arg(c).identifier], Take)

(* Both directions are asked for at once and answered in either order. *)
FindRelations(c) ==
    /\ At(c, "find_relations")
    /\ \E field \in loc[c].left :
           LET Take(found) ==
                   LET got == loc[c].got \cup {[direction |-> field, association |-> d.association] :
                                               d \in found}
                   IN IF loc[c].left = {field}
                      THEN Return(c, [issue |-> loc[c].doc, relations |-> got])
                      ELSE /\ loc' = [loc EXCEPT ![c].left = @ \ {field}, ![c].got = got]
                           /\ UNCHANGED <<todo, outcome>>
           IN FindAllDocs(c, field, "Relation", [f \in {field} |-> loc[c].doc.id], Take)

(* An issue removed in between is updated in vain, and reported as changed. *)
UpdateIssue(c) ==
    LET set == Arg(c).set
        Take(issue) ==
            IF issue = None THEN Fail(c, "issue_not_found")
            ELSE IF DOMAIN set = {} THEN Return(c, [changed |-> {}])
            ELSE Become(c, <<"update_collection">>, [NoLocals EXCEPT !.doc = issue])
    IN \/ /\ At(c, "update_issue")
          /\ FindOne(c, "Issue", [identifier |-> Arg(c).identifier], Take)
       \/ /\ At(c, "update_collection")
          /\ UpdateCollection(c, loc[c].doc.id, set, [changed |-> DOMAIN set])

BuildIssueAttrs(c, seq, project) ==
    [number |-> seq, identifier |-> project.identifier \o "-" \o ToString(seq),
     title |-> Arg(c).title, component |-> Arg(c).component]

(* create_issue_in_project, an attempt: the project's sequence is read ... *)
ReadSequence(c) ==
    LET project == loc[c].doc
        Take(current) ==
            IF current = None THEN Fail(c, "project_gone")
            ELSE IF "sequence" \notin DOMAIN current THEN Fail(c, "no_sequence")
            ELSE Become(c, <<"commit_issue">>,
                        [loc[c] EXCEPT !.tries = << >>, !.sequence = current.sequence,
                                       !.first = IF loc[c].attempt = 0 THEN current.sequence ELSE @])
    IN /\ At(c, "read_sequence")
       /\ FindOne(c, "Project", [id |-> project.id], Take)

(* Mutant: a rejected attempt is repeated with the sequence read before. *)
NextAttemptStale(c) == Become(c, <<"commit_issue">>, [loc[c] EXCEPT !.tries = << >>, !.attempt = @ + 1])

NextAttempt(c) == Become(c, <<"read_sequence">>, [loc[c] EXCEPT !.tries = << >>, !.attempt = @ + 1])

(* Mutant: the sequence is not compared. *)
CommitTxUnguarded(c, id, attrs) ==
    LET project == loc[c].doc
    IN TxApplyIf({}, {},
                 <<TxUpdateDoc(project.id, << >>, {"sequence"}),
                   TxCollectionCreate(id, "Issue", project.id, "NoParent", attrs)>>)

(* ... then incremented together with the creation of the issue, if it is still the same; *)
(* otherwise the next attempt reads it again.                                              *)
CommitTx(c, id, attrs) ==
    LET project == loc[c].doc
    IN TxApplyIf({ApplyIfMatch("Project", [id |-> project.id, sequence |-> loc[c].sequence])}, {},
                 <<TxUpdateDoc(project.id, << >>, {"sequence"}),
                   TxCollectionCreate(id, "Issue", project.id, "NoParent", attrs)>>)

CommitIssue(c) ==
    LET l == loc[c]
        id == GenTxId(c, l.attempt + 1)
        attrs == BuildIssueAttrs(c, l.sequence + 1, l.doc)
        Result(success) ==
            IF success THEN Return(c, [status |-> "created", id |-> id, identifier |-> attrs.identifier])
            ELSE IF l.attempt + 1 < MaxAttempts
            THEN NextAttempt(c)
            ELSE FailWith(c, "contention", Plain, [project |-> l.doc.id, first |-> l.first])
    IN /\ At(c, "commit_issue")
       /\ RawTx(c, CommitTx(c, id, attrs), Result)

-----------------------------------------------------------------------------
(* Components and relations: created unless there is one; then the one there is is looked up. *)

(* Mutant: nothing guards the creation. *)
CreateUnlessUnguarded(c, class, space, attrs, unless, lookup) ==
    LET id == GenTxId(c, 1)
        Result(success) == Return(c, [status |-> "created", id |-> id])
    IN ApplyIfTx(c, {}, {}, <<TxCreateDoc(id, class, space, attrs)>>, Result)

CreateUnless(c, class, space, attrs, unless, lookup) ==
    LET id == GenTxId(c, 1)
        Result(success) ==
            IF success THEN Return(c, [status |-> "created", id |-> id])
            ELSE Become(c, <<lookup>>, loc[c])
    IN ApplyIfTx(c, {}, {ApplyIfMatch(class, unless)}, <<TxCreateDoc(id, class, space, attrs)>>, Result)

(* Mutant: the id that was not used is reported. *)
ExistingOwnId(c, class, query) ==
    LET Take(d) == IF d = None THEN Fail(c, "vanished")
                   ELSE Return(c, [status |-> "existing", id |-> GenTxId(c, 1)])
    IN FindOne(c, class, query, Take)

Existing(c, class, query) ==
    LET Take(d) == IF d = None THEN Fail(c, "vanished")
                   ELSE Return(c, [status |-> "existing", id |-> d.id])
    IN FindOne(c, class, query, Take)

ComponentKey(c) == [space |-> loc[c].doc.id, label |-> Arg(c).label]

CreateComponent(c) ==
    \/ /\ At(c, "create_component")
       /\ CreateUnless(c, "Component", loc[c].doc.id, [label |-> Arg(c).label],
                       ComponentKey(c), "existing_component")
    \/ /\ At(c, "existing_component")
       /\ Existing(c, "Component", ComponentKey(c))

(* resolve_class on what the schema handle holds: an id passes, card types come before *)
(* associations, a name that several documents of a kind carry is refused.              *)
IsPlatformId(class) == class \in {"Issue", "Project", "Component"}

ResolveClass(c, class, K(_)) ==
    LET Named(kind) == {n.id : n \in {x \in loc[c].got : x.kind = kind /\ x.name = class}}
        ids == IF Named("MasterTag") # {} THEN Named("MasterTag") ELSE Named("Association")
    IN IF IsPlatformId(class) THEN K(class)
       ELSE IF ids = {} THEN Fail(c, "unknown_class")
       ELSE IF Cardinality(ids) > 1 THEN Fail(c, "ambiguous_class")
       ELSE \E id \in ids : K(id)

RelationKey(c) ==
    [docA |-> loc[c].doc.id, docB |-> Arg(c).card, association |-> loc[c].doc.association]

LinkIssueToCard(c) ==
    LET Find(association) ==
            Become(c, <<"issue_to_link">>, [NoLocals EXCEPT !.doc = [association |-> association]])
        Take(issue) ==
            IF issue = None THEN Fail(c, "issue_not_found")
            ELSE Become(c, <<"create_relation">>,
                        [NoLocals EXCEPT !.doc = [id |-> issue.id,
                                                  association |-> loc[c].doc.association]])
    IN \/ /\ At(c, "link_issue")
          /\ ResolveClass(c, Arg(c).relation, Find)
          /\ UNCHANGED <<world, faults>>
       \/ /\ At(c, "issue_to_link")
          /\ FindOne(c, "Issue", [identifier |-> Arg(c).identifier], Take)
       \/ /\ At(c, "create_relation")
          /\ CreateUnless(c, "Relation", Space, RelationKey(c), RelationKey(c), "existing_relation")
       \/ /\ At(c, "existing_relation")
          /\ Existing(c, "Relation", RelationKey(c))

-----------------------------------------------------------------------------
(* Cards. *)

(* One kind, or all the schema knows: an ambiguous name is in no map. *)
FindCards(c) ==
    LET tags == {n \in loc[c].got : n.kind = "MasterTag"}
        known == {n \in tags : \A m \in tags : m.name = n.name => m = n}
        List(ids) == IF ids = {} THEN Return(c, [cards |-> {}])
                     ELSE Become(c, <<"list_cards">>, [NoLocals EXCEPT !.left = ids])
        One(id) == List({id})
    IN /\ At(c, "find_cards")
       /\ IF Arg(c).kind # "" THEN ResolveClass(c, Arg(c).kind, One)
          ELSE List({n.id : n \in known})
       /\ UNCHANGED <<world, faults>>

(* One kind after the other. *)
ListCards(c) ==
    /\ At(c, "list_cards")
    /\ \E class \in loc[c].left :
           LET Take(found) ==
                   LET cards == loc[c].got \cup {d.id : d \in {x \in found : Arg(c).title \in {"", x.title}}}
                   IN IF loc[c].left = {class} THEN Return(c, [cards |-> cards])
                      ELSE Become(c, <<"list_cards">>,
                                  [NoLocals EXCEPT !.left = loc[c].left \ {class}, !.got = cards])
           IN FindAllDocs(c, class, class, << >>, Take)

CreateCard(c) ==
    LET Create(class) ==
            Become(c, <<"store_card">>, [NoLocals EXCEPT !.doc = [class |-> class]])
    IN \/ /\ At(c, "create_card")
          /\ ResolveClass(c, Arg(c).kind, Create)
          /\ UNCHANGED <<world, faults>>
       \/ /\ At(c, "store_card")
          /\ CreateDoc(c, loc[c].doc.class, Arg(c).space, [title |-> Arg(c).title])

-----------------------------------------------------------------------------
(* discover: six queries at once; the first failure ends them all. *)

DiscoverClasses == {"Project", "Component", "IssueStatus", "MasterTag", "Association", "Issue"}

Discover(c) ==
    /\ At(c, "discover")
    /\ \E class \in DiscoverClasses \ loc[c].left :
           LET Take(found) ==
                   LET got == loc[c].got \cup {[class |-> class, ids |-> {d.id : d \in found}]}
                   IN IF loc[c].left \cup {class} = DiscoverClasses
                      THEN Return(c, [found |-> got])
                      ELSE /\ loc' = [loc EXCEPT ![c].left = @ \cup {class}, ![c].got = got]
                           /\ UNCHANGED <<todo, outcome>>
           IN FindAllDocs(c, class, class, << >>, Take)

-----------------------------------------------------------------------------
(* Markup goes to the collaborator service. *)

UploadMarkup(c) ==
    /\ At(c, "upload_markup")
    /\ CreateMarkup(c, Arg(c).markdown)

FetchMarkup(c) ==
    /\ At(c, "fetch_markup")
    /\ GetMarkup(c, Arg(c).source)

ToolStep(c) ==
    \/ ResolveProject(c) \/ CreateProject(c)
    \/ FindIssues(c) \/ GetIssue(c) \/ FindRelations(c) \/ UpdateIssue(c)
    \/ ReadSequence(c) \/ CommitIssue(c)
    \/ CreateComponent(c) \/ LinkIssueToCard(c)
    \/ FindCards(c) \/ ListCards(c) \/ CreateCard(c)
    \/ Discover(c) \/ UploadMarkup(c) \/ FetchMarkup(c)
=============================================================================
