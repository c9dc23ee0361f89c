----------------------------- MODULE MCMcpServer -----------------------------
(* The situations for TLC: every tool on its own, with up to two failures and nothing cached;  *)
(* then calls that race, on a cached entry.                                                      *)
EXTENDS McpServer

Doc(id, class, space, attrs) == [id |-> id, class |-> class, space |-> space] @@ attrs

Project(id, identifier, sequence) ==
    Doc(id, "Project", Space, [identifier |-> identifier, sequence |-> sequence])

Issue(id, n) ==
    Doc(id, "Issue", "p1", [attachedTo |-> "NoParent", identifier |-> "AB-" \o ToString(n),
                            number |-> n, title |-> "t", component |-> "", reports |-> 0])

Tag(id, name) == Doc(id, "MasterTag", Space, [name |-> name])
Association(id, name) == Doc(id, "Association", Space, [name |-> name])

Workspace ==
    {Project("p1", "AB", 2), Issue("i1", 1), Issue("i2", 2),
     Tag("tag1", "Person"), Tag("tag2", "Event"), Tag("tag3", "Event"),
     Association("as1", "about"), Association("as2", "Person"),
     Doc("card1", "tag1", "s", [title |-> "t"]),
     Doc("rel1", "Relation", Space, [docA |-> "i2", docB |-> "card1", association |-> "as1"])}

TwoProjects == Workspace \cup {Project("p2", "CD", 0)}

Bare == {Doc("p1", "Project", Space, [identifier |-> "AB"])}

Bridge(auth, complete) == [auth |-> auth, accounts |-> complete, collaborator |-> complete]

OneHolder == [b1 |-> Bridge("password", TRUE), b2 |-> Bridge("none", FALSE)]
TwoHolders == [b1 |-> Bridge("password", FALSE), b2 |-> Bridge("token", TRUE)]

Cached(all) ==
    [by |-> "b1", fresh |-> TRUE,
     names |-> {[kind |-> d.class, name |-> d.name, id |-> d.id] :
                d \in {x \in all : x.class \in {"MasterTag", "Association"}}}]

-----------------------------------------------------------------------------
(* Calls. *)

CreateIssueIn(project) ==
    [tool |-> "huly_create_issue", project |-> project, title |-> "t", component |-> ""]
CreateComponentIn(project, label) ==
    [tool |-> "huly_create_component", project |-> project, label |-> label]
UpdateIssueBy(identifier, set) ==
    [tool |-> "huly_update_issue", identifier |-> identifier, set |-> set]
FindCardsOf(kind, title) == [tool |-> "huly_find_cards", kind |-> kind, title |-> title]
CreateCardOf(kind) ==
    [tool |-> "huly_create_card", kind |-> kind, space |-> "s", title |-> "u"]
LinkTo(identifier, card, relation) ==
    [tool |-> "huly_link_issue_to_card", identifier |-> identifier, card |-> card,
     relation |-> relation]
DeleteDoc(class, id) == [tool |-> "huly_delete", class |-> class, id |-> id]
Fetch(source) == [tool |-> "huly_fetch_markup", source |-> source]
Upload == [tool |-> "huly_upload_markup", markdown |-> "m"]
OfWorkspace(tool, given) == [tool |-> tool, workspace |-> given]

Factory ==
    {OfWorkspace("huly_list_workspaces", TRUE), OfWorkspace("huly_list_workspaces", FALSE),
     OfWorkspace("huly_status", TRUE), OfWorkspace("huly_status", FALSE), Upload, Fetch("none")}

Single ==
    {[tool |-> "huly_find", class |-> "Issue", query |-> [number |-> 1]],
     [tool |-> "huly_get", class |-> "Issue", query |-> << >>],
     [tool |-> "huly_get", class |-> "Issue", query |-> [number |-> 9]],
     [tool |-> "huly_create", class |-> "Note", space |-> "s", attributes |-> [title |-> "n"]],
     [tool |-> "huly_update", class |-> "Issue", id |-> "i1",
      ops |-> [set |-> [title |-> "v"], inc |-> {"reports"}]],
     DeleteDoc("Issue", "i1"),
     [tool |-> "huly_find_issues", filter |-> << >>, title |-> "t", limit |-> 1],
     [tool |-> "huly_get_issue", identifier |-> "AB-2"],
     [tool |-> "huly_get_issue", identifier |-> "AB-9"],
     UpdateIssueBy("AB-1", [title |-> "v", component |-> "k"]),
     UpdateIssueBy("AB-1", << >>), UpdateIssueBy("AB-9", [title |-> "v"]),
     CreateIssueIn("AB"), CreateIssueIn("p1"), CreateIssueIn(""), CreateIssueIn("XY"),
     CreateComponentIn("AB", "k"),
     [tool |-> "huly_create_project", identifier |-> "AB"],
     FindCardsOf("", "t"), FindCardsOf("Person", ""), FindCardsOf("Event", ""),
     CreateCardOf("Person"), CreateCardOf("Unknown"),
     LinkTo("AB-1", "card1", "about"), LinkTo("AB-9", "card1", "about"),
     LinkTo("AB-2", "card1", "about"), LinkTo("AB-2", "card1", "Event"),
     [tool |-> "huly_discover"],
     [tool |-> "huly_sync_status"], [tool |-> "huly_sync_cards"]}

Plan(call, bridge, all, cached, n) ==
    [call |-> call, bridge |-> bridge, docs |-> all, faults |-> n, sync |-> cached,
     entry |-> IF cached THEN Cached(all) ELSE NoEntry]

One(a, bridge, all, cached, n) == Plan([c \in {"c1"} |-> a], bridge, all, cached, n)
Two(a, b, n) == Plan([c1 |-> a, c2 |-> b], OneHolder, Workspace, TRUE, n)
Three(a, b, d, n) == Plan([c1 |-> a, c2 |-> b, c3 |-> d], OneHolder, Workspace, TRUE, n)

SituationsOfOne ==
    {One(a, OneHolder, Workspace, TRUE, 2) : a \in Single}
    \cup {One(a, b, Workspace, FALSE, 1) : a \in Factory \cup {FindCardsOf("Person", "")},
                                           b \in {OneHolder, TwoHolders}}
    \cup {One(Upload, TwoHolders, Workspace, TRUE, 2), One(Fetch(""), OneHolder, Workspace, TRUE, 2),
          One(Upload, OneHolder, Workspace, TRUE, 2),
          One([tool |-> "huly_sync_cards"], OneHolder, Workspace, FALSE, 1),
          One(CreateIssueIn(""), OneHolder, TwoProjects, TRUE, 1),
          One(CreateIssueIn(""), OneHolder, {}, TRUE, 1),
          One(CreateIssueIn("AB"), OneHolder, Bare, TRUE, 1)}

SituationsOfSeveral ==
    {Three(CreateIssueIn("AB"), CreateIssueIn("p1"), d, 0) :
        d \in {CreateIssueIn("AB"), DeleteDoc("Issue", "i2"), DeleteDoc("Project", "p1"),
               UpdateIssueBy("AB-3", [title |-> "v"])}}
    \cup {Two(CreateIssueIn("AB"), CreateIssueIn("AB"), 1),
          Two(CreateComponentIn("AB", "k"), CreateComponentIn("p1", "k"), 1),
          Two(LinkTo("AB-1", "card1", "about"), LinkTo("AB-1", "card1", "about"), 1),
          Two(LinkTo("AB-2", "card1", "about"), DeleteDoc("Relation", "rel1"), 1),
          Two(UpdateIssueBy("AB-1", [title |-> "v"]), DeleteDoc("Issue", "i1"), 1),
          Two(Upload, Fetch(""), 2),
          Two(CreateCardOf("Person"), OfWorkspace("huly_status", TRUE), 1)}

Situations == SituationsOfOne \cup SituationsOfSeveral

MCCalls == {"c1", "c2", "c3"}
MCBridges == {"b1", "b2"}

(* What the theorems on documents ask of the calls. *)
ASSUME RawToolsElsewhere
=============================================================================
