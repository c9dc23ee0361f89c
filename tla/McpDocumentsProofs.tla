-------------------------- MODULE McpDocumentsProofs --------------------------
(***************************************************************************)
(* The documents of the workspace under any number of concurrent calls of  *)
(* huly-mcp: what the calls make of them, and what a call may rely on that *)
(* it read before.                                                         *)
(*                                                                         *)
(* WorkInv bounds what a call has in hand, and gives the type invariant.   *)
(* DataInv is about the documents and about what each call read of them:   *)
(* from it follow the three properties of the creating tools and that      *)
(* McpServer implements IssueCounter.  MarkupInv is about the uploads.     *)
(***************************************************************************)
EXTENDS McpServerProofs

(* The steps that count attempts. *)
Counting == {"read_sequence", "commit_issue", "upload_markup", "fetch_markup"}

(* Those that a call may have before it, behind the one it is at. *)
Inner == (ReadSteps \cup WriteSteps \cup {"update_collection", "completed", "error"}) \ HeadOnly

(* A call as its steps leave it. *)
Ready(c) ==
    /\ CallInv(c)
    /\ DOMAIN loc[c] = DOMAIN NoLocals
    /\ loc[c].attempt \in Nat
    /\ loc[c].attempt # 0 => todo[c] # << >> /\ Head(todo[c]) \in Counting

-----------------------------------------------------------------------------
(* What a step of a call does to the documents and to its local variables. *)

(* The transactions, each at its step. *)
Sends(c, tx) ==
    \/ At(c, "create_doc")
       /\ tx = TxCreateDoc(GenTxId(c, 1), Arg(c).class, Arg(c).space, Arg(c).attributes)
    \/ At(c, "update_doc") /\ tx = TxUpdateDoc(Arg(c).id, Arg(c).ops.set, Arg(c).ops.inc)
    \/ At(c, "remove_doc") /\ tx = TxRemoveDoc(Arg(c).id)
    \/ At(c, "create_project")
       /\ tx = TxCreateDoc(GenTxId(c, 1), "Project", Space,
                           [identifier |-> Arg(c).identifier, sequence |-> 0])
    \/ At(c, "update_collection") /\ tx = TxUpdateDoc(loc[c].doc.id, Arg(c).set, {})
    \/ At(c, "commit_issue")
       /\ tx = CommitTx(c, GenTxId(c, loc[c].attempt + 1),
                        BuildIssueAttrs(c, loc[c].sequence + 1, loc[c].doc))
    \/ At(c, "create_component")
       /\ tx = TxApplyIf({}, {ApplyIfMatch("Component", ComponentKey(c))},
                         <<TxCreateDoc(GenTxId(c, 1), "Component", loc[c].doc.id,
                                       [label |-> Arg(c).label])>>)
    \/ At(c, "create_relation")
       /\ tx = TxApplyIf({}, {ApplyIfMatch("Relation", RelationKey(c))},
                         <<TxCreateDoc(GenTxId(c, 1), "Relation", Space, RelationKey(c))>>)
    \/ At(c, "store_card")
       /\ tx = TxCreateDoc(GenTxId(c, 1), loc[c].doc.class, Arg(c).space, [title |-> Arg(c).title])

(* The id that a call reports is that of a document. *)
Exists(v) ==
    \E d \in docs :
        /\ d.id = v.id
        /\ "identifier" \in DOMAIN v => "identifier" \in DOMAIN d /\ d.identifier = v.identifier

Answered(c) == \E v : Return(c, v) /\ (Mutating(c) /\ Creating(c) => Exists(v)')

Failed(c) == \E why, code, v : why # "contention" /\ FailWith(c, why, code, v)

(* The call stays where it is. *)
Stays(c) ==
    /\ UNCHANGED <<todo, outcome>>
    /\ \/ UNCHANGED loc
       \/ \E l :
             /\ loc' = [loc EXCEPT ![c] = l]
             /\ DOMAIN l = DOMAIN NoLocals
             /\ l.doc = loc[c].doc /\ l.first = loc[c].first /\ l.sequence = loc[c].sequence
             /\ Mutating(c) => l.got = loc[c].got
             /\ \/ l.attempt = loc[c].attempt
                \/ /\ Head(todo[c]) \in {"upload_markup", "fetch_markup"}
                   /\ loc[c].attempt + 1 < CollabAttempts
                   /\ l.attempt = loc[c].attempt + 1

(* It goes on, having counted no attempt. *)
Passes(c) ==
    \E steps \in Seq(Inner) : \E l :
        /\ Become(c, steps, l)
        /\ DOMAIN l = DOMAIN NoLocals
        /\ l.attempt = 0
        /\ Mutating(c) => l.got \subseteq loc[c].got \cup entry.names

(* huly_create_issue, between its two requests. *)
ReadsSequence(c) ==
    /\ At(c, "read_sequence")
    /\ \E d \in FindAll(docs, "Project", [id |-> loc[c].doc.id]) :
           /\ "sequence" \in DOMAIN d
           /\ Become(c, <<"commit_issue">>,
                     [loc[c] EXCEPT !.tries = << >>, !.sequence = d.sequence,
                                    !.first = IF loc[c].attempt = 0 THEN d.sequence ELSE @])

Taken(c) ==
    FindAll(docs, "Project", [id |-> loc[c].doc.id, sequence |-> loc[c].sequence]) = {}

Contends(c) ==
    /\ At(c, "commit_issue")
    /\ Taken(c)
    /\ IF loc[c].attempt + 1 < MaxAttempts THEN NextAttempt(c)
       ELSE FailWith(c, "contention", Plain, [project |-> loc[c].doc.id, first |-> loc[c].first])

(* huly_create_card, once it knows the class. *)
KnowsClass(c) ==
    /\ At(c, "create_card")
    /\ \E class :
           /\ IsPlatformId(Arg(c).kind) \/ \E n \in loc[c].got : n.id = class
           /\ Become(c, <<"store_card">>, [NoLocals EXCEPT !.doc = [class |-> class]])

Idles(c) ==
    /\ UNCHANGED docs
    /\ \/ Stays(c) \/ Passes(c) \/ ReadsSequence(c) \/ Contends(c) \/ KnowsClass(c)
       \/ Failed(c) \/ Answered(c)

(* A transaction that is applied is noted, and the call ends. *)
Changes(c) ==
    /\ \E tx : Sends(c, tx) /\ Accepts(docs, tx) /\ docs' = Apply(docs, tx)
    /\ \E e : e.rec = "tx" /\ Record(c, e)
    /\ Failed(c) \/ Answered(c)

Does(c) == Idles(c) \/ Changes(c)

-----------------------------------------------------------------------------
(* The ends that the steps have in common. *)

(* A request that is throttled or refused is tried again as it was, or fails. *)
LEMMA RetriesDo ==
    ASSUME NEW c, Ready(c), NEW r, Throttled(c, r) \/ Refused(c), UNCHANGED docs
    PROVE  Does(c)
PROOF
  <1>1. CASE Throttled(c, r)
    <2>1. CASE Tries(c, r) < Max429
      <3> DEFINE l == [loc[c] EXCEPT !.tries = Extended([x \in {r} |-> Tries(c, r) + 1], @)]
      <3>1. loc' = [loc EXCEPT ![c] = l] /\ UNCHANGED <<todo, outcome>>
        BY <1>1, <2>1 DEF Throttled
      <3>2. /\ DOMAIN l = DOMAIN NoLocals
            /\ l.doc = loc[c].doc /\ l.first = loc[c].first /\ l.sequence = loc[c].sequence
            /\ l.got = loc[c].got /\ l.attempt = loc[c].attempt
        BY DEF Ready, NoLocals
      <3> HIDE DEF l
      <3> QED BY <3>1, <3>2 DEF Does, Idles, Stays
    <2>2. CASE ~(Tries(c, r) < Max429)
      BY <1>1, <2>2 DEF Throttled, Rpc, Does, Idles, Failed
    <2> QED BY <2>1, <2>2
  <1>2. CASE Refused(c)
    BY <1>2 DEF Refused, Rpc, Fail, Does, Idles, Failed
  <1> QED BY <1>1, <1>2

(* An answer, a failure or the next step, without a change of the documents. *)
LEMMA EndsDo ==
    ASSUME NEW c, UNCHANGED docs,
           \/ \E v : (Mutating(c) /\ Creating(c) => Exists(v)) /\ Return(c, v)
           \/ \E why : why # "contention" /\ Fail(c, why)
           \/ \E steps \in Seq(Inner) : \E l :
                 /\ DOMAIN l = DOMAIN NoLocals
                 /\ l.attempt = 0
                 /\ Mutating(c) => l.got \subseteq loc[c].got \cup entry.names
                 /\ Become(c, steps, l)
    PROVE  Does(c)
PROOF
  <1>1. \A v : Exists(v) => Exists(v)'
    BY DEF Exists
  <1>2. CASE \E v : (Mutating(c) /\ Creating(c) => Exists(v)) /\ Return(c, v)
    BY <1>1, <1>2 DEF Does, Idles, Answered
  <1>3. CASE \E why : why # "contention" /\ Fail(c, why)
    BY <1>3 DEF Does, Idles, Failed, Fail
  <1>4. CASE \E steps \in Seq(Inner) : \E l :
                 /\ DOMAIN l = DOMAIN NoLocals
                 /\ l.attempt = 0
                 /\ Mutating(c) => l.got \subseteq loc[c].got \cup entry.names
                 /\ Become(c, steps, l)
    BY <1>4 DEF Does, Idles, Passes
  <1> QED BY <1>2, <1>3, <1>4

(* A transaction that is applied, and its answer. *)
LEMMA SentDoes ==
    ASSUME NEW c, NEW tx, Sends(c, tx), Applied(c, tx), Accepts(docs, tx), Failed(c) \/ Answered(c)
    PROVE  Does(c)
PROOF
  <1>1. docs' = Apply(docs, tx) /\ \E e : e.rec = "tx" /\ Record(c, e)
    BY TxEntries DEF Applied
  <1> QED BY <1>1 DEF Does, Changes

(* A transaction that is not accepted changes nothing. *)
LEMMA Unaccepted ==
    ASSUME NEW c, NEW tx, Applied(c, tx), ~Accepts(docs, tx)
    PROVE  UNCHANGED docs
PROOF BY DEF Applied, Apply, Accepts

(* A lost answer: applied or not, the call fails. *)
LEMMA AnswerLostDoes ==
    ASSUME NEW c, NEW tx, Sends(c, tx), AnswerLost(c, tx)
    PROVE  Does(c)
PROOF
  <1>1. Failed(c) /\ Applied(c, tx)
    BY DEF AnswerLost, Fail, Failed
  <1>2. CASE Accepts(docs, tx)
    BY <1>1, <1>2, SentDoes
  <1>3. CASE ~Accepts(docs, tx)
    BY <1>1, <1>3, Unaccepted DEF Does, Idles
  <1> QED BY <1>2, <1>3

(* It may change its notes and ask again. *)
LEMMA StaysDo ==
    ASSUME NEW c, Ready(c), ~Mutating(c), UNCHANGED <<docs, todo, outcome>>, NEW left, NEW got,
           loc' = [loc EXCEPT ![c].left = left, ![c].got = got]
    PROVE  Does(c)
PROOF
  <1> DEFINE l == [loc[c] EXCEPT !.left = left, !.got = got]
  <1>1. loc' = [loc EXCEPT ![c] = l]
    OBVIOUS
  <1>2. /\ DOMAIN l = DOMAIN NoLocals
        /\ l.doc = loc[c].doc /\ l.first = loc[c].first /\ l.sequence = loc[c].sequence
        /\ l.attempt = loc[c].attempt
    BY DEF Ready, NoLocals
  <1> HIDE DEF l
  <1> QED BY <1>1, <1>2 DEF Does, Idles, Stays

(* The next step, with what it needs to know. *)
LEMMA BecomesDo ==
    ASSUME NEW c, UNCHANGED docs, NEW doc, NEW left, NEW steps \in Seq(Inner),
           \/ Become(c, steps, [NoLocals EXCEPT !.doc = doc, !.left = left])
           \/ Become(c, steps, [NoLocals EXCEPT !.doc = doc])
           \/ Become(c, steps, [NoLocals EXCEPT !.left = left])
           \/ Become(c, steps, NoLocals)
    PROVE  Does(c)
PROOF
  <1> DEFINE Blank(l) == DOMAIN l = DOMAIN NoLocals /\ l.attempt = 0 /\ l.got = {}
  <1>1. /\ Blank([NoLocals EXCEPT !.doc = doc, !.left = left])
        /\ Blank([NoLocals EXCEPT !.doc = doc])
        /\ Blank([NoLocals EXCEPT !.left = left])
        /\ Blank(NoLocals)
    BY DEF NoLocals
  <1>2. ASSUME NEW l, Blank(l), Become(c, steps, l) PROVE Does(c)
    BY <1>2, EndsDo
  <1> HIDE DEF Blank
  <1> QED BY <1>1, <1>2

-----------------------------------------------------------------------------
(* Every step of a call does one of these. *)

(* huly_find, huly_get and huly_find_issues only read. *)
LEMMA ReadsDo ==
    ASSUME NEW c, Ready(c), FindDocs(c) \/ GetDoc(c) \/ FindIssues(c)
    PROVE  Does(c)
PROOF
  <1>1. ~Mutating(c)
    BY AtReading DEF FindDocs, GetDoc, FindIssues, ReadSteps, WriteSteps, Ready
  <1> QED
    BY <1>1, RetriesDo, EndsDo
    DEF FindDocs, GetDoc, FindIssues, FindOne, FindAllDocs, SendWithRetry, world

(* huly_get_issue goes on to the relations of the issue. *)
LEMMA GetIssueDoes ==
    ASSUME NEW c, Ready(c), GetIssue(c)
    PROVE  Does(c)
PROOF
  <1>1. ~Mutating(c)
    BY AtReading DEF GetIssue, ReadSteps, WriteSteps, Ready
  <1>2. <<"find_relations">> \in Seq(Inner)
    BY DEF Inner, ReadSteps, HeadOnly
  <1>3. ASSUME UNCHANGED docs, NEW issue, NEW left,
               Become(c, <<"find_relations">>, [NoLocals EXCEPT !.doc = issue, !.left = left])
        PROVE  Does(c)
    BY <1>2, <1>3, BecomesDo
  <1> QED
    BY <1>1, <1>3, RetriesDo, EndsDo DEF GetIssue, FindOne, FindAllDocs, SendWithRetry, world

(* huly_get_issue gathers the relations of both directions. *)
LEMMA FindRelationsDoes ==
    ASSUME NEW c, Ready(c), FindRelations(c)
    PROVE  Does(c)
PROOF
  <1>1. ~Mutating(c)
    BY AtReading DEF FindRelations, ReadSteps, WriteSteps, Ready
  <1> QED
    BY <1>1, RetriesDo, EndsDo, StaysDo DEF FindRelations, FindAllDocs, SendWithRetry, world

(* huly_discover gathers its six answers. *)
LEMMA DiscoverDoes ==
    ASSUME NEW c, Ready(c), Discover(c)
    PROVE  Does(c)
PROOF
  <1>1. ~Mutating(c)
    BY AtReading DEF Discover, ReadSteps, WriteSteps, Ready
  <1> QED
    BY <1>1, RetriesDo, EndsDo, StaysDo DEF Discover, FindAllDocs, SendWithRetry, world

(* huly_find_cards goes on to the cards of the types. *)
LEMMA FindCardsDoes ==
    ASSUME NEW c, Ready(c), FindCards(c)
    PROVE  Does(c)
PROOF
  <1>1. ~Mutating(c)
    BY AtReading DEF FindCards, ReadSteps, WriteSteps, Ready
  <1>2. <<"list_cards">> \in Seq(Inner)
    BY DEF Inner, ReadSteps, HeadOnly
  <1> DEFINE List(ids) == IF ids = {} THEN Return(c, [cards |-> {}])
                          ELSE Become(c, <<"list_cards">>, [NoLocals EXCEPT !.left = ids])
  <1>3. UNCHANGED docs
    BY DEF FindCards, world
  <1>4. ASSUME NEW ids, List(ids) PROVE Does(c)
    BY <1>1, <1>2, <1>3, <1>4, EndsDo, BecomesDo
  <1> HIDE DEF List
  <1>5. (\E ids : List(ids)) \/ \E why \in {"unknown_class", "ambiguous_class"} : Fail(c, why)
    BY DEF FindCards, ResolveClass, List
  <1> QED BY <1>3, <1>4, <1>5, EndsDo

(* huly_find_cards lists the types one after the other. *)
LEMMA ListCardsDoes ==
    ASSUME NEW c, Ready(c), ListCards(c)
    PROVE  Does(c)
PROOF
  <1>1. ~Mutating(c)
    BY AtReading DEF ListCards, ReadSteps, WriteSteps, Ready
  <1>2. ASSUME NEW left, NEW got,
               Become(c, <<"list_cards">>, [NoLocals EXCEPT !.left = left, !.got = got]),
               UNCHANGED docs
        PROVE  Does(c)
    <2> DEFINE l == [NoLocals EXCEPT !.left = left, !.got = got]
    <2>1. DOMAIN l = DOMAIN NoLocals /\ l.attempt = 0
      BY DEF NoLocals
    <2>2. <<"list_cards">> \in Seq(Inner)
      BY DEF Inner, ReadSteps, HeadOnly
    <2> HIDE DEF l
    <2> QED BY <1>1, <1>2, <2>1, <2>2, EndsDo DEF l
  <1> QED
    BY <1>1, <1>2, RetriesDo, EndsDo DEF ListCards, FindAllDocs, SendWithRetry, world

(* The project that a creating tool is for. *)
LEMMA ResolveProjectDoes ==
    ASSUME NEW c, Ready(c), ResolveProject(c)
    PROVE  Does(c)
PROOF
  <1>1. ASSUME UNCHANGED docs, NEW d, Become(c, << >>, [NoLocals EXCEPT !.doc = d]) PROVE Does(c)
    <2>1. << >> \in Seq(Inner)
      OBVIOUS
    <2> QED BY <1>1, <2>1, BecomesDo
  <1> QED BY <1>1, RetriesDo, EndsDo DEF ResolveProject, FindAllDocs, SendWithRetry, world

(* The new document is there. *)
LEMMA CreatedExists ==
    ASSUME NEW c, NEW id, NEW class, NEW space, NEW attrs,
           docs' = Apply(docs, TxCreateDoc(id, class, space, attrs))
    PROVE  Exists([id |-> id])'
PROOF
  <1> DEFINE doc == Extended([id |-> id, class |-> class, space |-> space], attrs)
  <1>1. doc.id = id
    BY DEF Extended
  <1>2. docs' = docs \cup {doc}
    BY DEF Apply, ApplyCud, TxCreateDoc
  <1> QED BY <1>1, <1>2 DEF Exists

(* A transaction that asks nothing is applied whatever the documents are. *)
LEMMA PlainDoes ==
    ASSUME NEW c, Ready(c), NEW tx, tx.op # "apply_if", Sends(c, tx), NEW v,
           docs' = Apply(docs, tx) /\ Mutating(c) /\ Creating(c) => Exists(v)',
           \/ (Throttled(c, "tx") \/ Refused(c)) /\ UNCHANGED docs
           \/ Applied(c, tx) /\ Return(c, v)
           \/ AnswerLost(c, tx)
    PROVE  Does(c)
PROOF
  <1>1. Accepts(docs, tx)
    BY DEF Accepts
  <1>2. ASSUME Applied(c, tx), Return(c, v) PROVE Does(c)
    <2>1. Answered(c)
      BY <1>2 DEF Applied, Answered
    <2> QED BY <1>1, <1>2, <2>1, SentDoes
  <1> QED BY <1>2, RetriesDo, AnswerLostDoes

(* The raw tools send their one transaction.  huly_create reports the id of the new document. *)
LEMMA StoreDoes ==
    ASSUME NEW c, Ready(c), Store(c)
    PROVE  Does(c)
PROOF
  <1>1. CASE At(c, "create_doc") /\ CreateDoc(c, Arg(c).class, Arg(c).space, Arg(c).attributes)
    <2> DEFINE tx == TxCreateDoc(GenTxId(c, 1), Arg(c).class, Arg(c).space, Arg(c).attributes)
               v == [id |-> GenTxId(c, 1)]
    <2>1. tx.op # "apply_if" /\ Sends(c, tx)
      BY <1>1 DEF TxCreateDoc, Sends
    <2>2. docs' = Apply(docs, tx) => Exists(v)'
      BY <1>1, CreatedExists
    <2>3. \/ (Throttled(c, "tx") \/ Refused(c)) /\ UNCHANGED docs
          \/ Applied(c, tx) /\ Return(c, v)
          \/ AnswerLost(c, tx)
      BY <1>1 DEF CreateDoc, RawTx, SendWithRetry, world
    <2> HIDE DEF tx, v
    <2> QED BY <2>1, <2>2, <2>3, PlainDoes
  <1>2. CASE At(c, "update_doc") /\ UpdateDoc(c, Arg(c).id, Arg(c).ops)
    <2> DEFINE tx == TxUpdateDoc(Arg(c).id, Arg(c).ops.set, Arg(c).ops.inc)
               v == [success |-> TRUE, id |-> Arg(c).id]
    <2>1. tx.op # "apply_if" /\ Sends(c, tx) /\ Accepts(docs, tx)
      BY <1>2 DEF TxUpdateDoc, Sends, Accepts
    <2>2. ~Creating(c)
      <3>1. Arg(c).tool = "huly_update"
        BY <1>2, AtWriting DEF ReadSteps, WriteSteps, Owns, Ready
      <3>2. Tool(Arg(c)) = Update(Arg(c))
        BY <3>1 DEF Tool
      <3> QED BY <3>2 DEF Creating, Update, Mutates, ActionRecord
    <2>3. \/ (Throttled(c, "tx") \/ Refused(c)) /\ UNCHANGED docs
          \/ Applied(c, tx) /\ \E x : Return(c, x)
          \/ AnswerLost(c, tx)
      BY <1>2 DEF UpdateDoc, RawTx, SendWithRetry, world
    <2> HIDE DEF tx
    <2> QED BY <2>1, <2>2, <2>3, RetriesDo, SentDoes, AnswerLostDoes DEF Answered
  <1>3. CASE At(c, "remove_doc") /\ RemoveDoc(c, Arg(c).id)
    <2> DEFINE tx == TxRemoveDoc(Arg(c).id)
    <2>1. tx.op # "apply_if" /\ Sends(c, tx) /\ Accepts(docs, tx)
      BY <1>3 DEF TxRemoveDoc, Sends, Accepts
    <2>2. ~Creating(c)
      <3>1. Arg(c).tool = "huly_delete"
        BY <1>3, AtWriting DEF ReadSteps, WriteSteps, Owns, Ready
      <3>2. Tool(Arg(c)) = Delete(Arg(c))
        BY <3>1 DEF Tool
      <3> QED BY <3>2 DEF Creating, Delete, Mutates, ActionRecord
    <2>3. \/ (Throttled(c, "tx") \/ Refused(c)) /\ UNCHANGED docs
          \/ Applied(c, tx) /\ \E x : Return(c, x)
          \/ AnswerLost(c, tx)
      BY <1>3 DEF RemoveDoc, RawTx, SendWithRetry, world
    <2> HIDE DEF tx
    <2> QED BY <2>1, <2>2, <2>3, RetriesDo, SentDoes, AnswerLostDoes DEF Answered
  <1> QED BY <1>1, <1>2, <1>3 DEF Store

(* huly_create_project sends its one transaction. *)
LEMMA CreateProjectDoes ==
    ASSUME NEW c, Ready(c), CreateProject(c)
    PROVE  Does(c)
PROOF
  <1> DEFINE attrs == [identifier |-> Arg(c).identifier, sequence |-> 0]
             tx == TxCreateDoc(GenTxId(c, 1), "Project", Space, attrs)
             v == [id |-> GenTxId(c, 1)]
  <1>1. tx.op # "apply_if" /\ Sends(c, tx)
    BY DEF TxCreateDoc, Sends, CreateProject
  <1>2. docs' = Apply(docs, tx) => Exists(v)'
    BY CreatedExists
  <1>3. \/ (Throttled(c, "tx") \/ Refused(c)) /\ UNCHANGED docs
        \/ Applied(c, tx) /\ Return(c, v)
        \/ AnswerLost(c, tx)
    BY DEF CreateProject, CreateDoc, RawTx, SendWithRetry, world
  <1> HIDE DEF tx, v, attrs
  <1> QED BY <1>1, <1>2, <1>3, PlainDoes

(* huly_update_issue looks the issue up and changes it. *)
LEMMA UpdateIssueDoes ==
    ASSUME NEW c, Ready(c), UpdateIssue(c)
    PROVE  Does(c)
PROOF
  <1>1. ~Creating(c)
    <2>1. Arg(c).tool = "huly_update_issue"
      BY AtWriting DEF UpdateIssue, ReadSteps, WriteSteps, Owns, Ready
    <2>2. Tool(Arg(c)) = UpdateIssueTool(Arg(c))
      BY <2>1 DEF Tool
    <2> QED BY <2>2 DEF Creating, UpdateIssueTool, Mutates, ActionRecord
  <1>2. CASE At(c, "update_issue")
    <2>1. ASSUME UNCHANGED docs, NEW d,
                 Become(c, <<"update_collection">>, [NoLocals EXCEPT !.doc = d])
          PROVE  Does(c)
      <3>1. <<"update_collection">> \in Seq(Inner)
        BY DEF Inner, HeadOnly
      <3> QED BY <2>1, <3>1, BecomesDo
    <2> QED
      BY <1>1, <1>2, <2>1, RetriesDo, EndsDo
      DEF UpdateIssue, At, FindOne, FindAllDocs, SendWithRetry, world
  <1>3. CASE At(c, "update_collection")
    <2> DEFINE tx == TxUpdateDoc(loc[c].doc.id, Arg(c).set, {})
    <2>1. tx.op # "apply_if" /\ Sends(c, tx) /\ Accepts(docs, tx)
      BY <1>3 DEF TxUpdateDoc, Sends, Accepts
    <2>2. \/ (Throttled(c, "tx") \/ Refused(c)) /\ UNCHANGED docs
          \/ Applied(c, tx) /\ \E x : Return(c, x)
          \/ AnswerLost(c, tx)
      BY <1>3 DEF UpdateIssue, UpdateCollection, RawTx, SendWithRetry, world, At
    <2> HIDE DEF tx
    <2> QED BY <1>1, <2>1, <2>2, RetriesDo, SentDoes, AnswerLostDoes DEF Answered
  <1> QED BY <1>2, <1>3 DEF UpdateIssue

(* The maximum of the sets of indices that a fold over two elements looks at. *)
LEMMA MaxIndex == Max({1}) = 1 /\ Max({2}) = 2 /\ Max({1, 2}) = 2
PROOF BY DEF Max

(* A transaction of one part. *)
LEMMA FoldOne ==
    ASSUME NEW D, NEW x
    PROVE  FoldLeft(ApplyCud, D, <<x>>) = ApplyCud(D, x)
PROOF
  <1> DEFINE seq == <<x>>
             P(g) == g = [s \in SUBSET DOMAIN seq |->
                             IF s = {} THEN D ELSE ApplyCud(g[s \ {Max(s)}], seq[Max(s)])]
             V(s) == IF s = {} THEN D ELSE ApplyCud(D, x)
             W == [s \in SUBSET DOMAIN seq |-> V(s)]
  <1>1. DOMAIN seq = {1} /\ seq[1] = x
    OBVIOUS
  <1> HIDE DEF seq
  <1>2. \A s \in SUBSET DOMAIN seq : s \in {{}, {1}}
    BY <1>1
  <1>3. {1} \in SUBSET DOMAIN seq /\ {} \in SUBSET DOMAIN seq /\ {1} \ {1} = {} /\ {1} # {}
    BY <1>1
  <1>4. P(W)
    <2>1. ASSUME NEW s \in SUBSET DOMAIN seq
          PROVE  V(s) = IF s = {} THEN D ELSE ApplyCud(W[s \ {Max(s)}], seq[Max(s)])
      <3>1. CASE s = {1}
        BY <1>1, <1>3, <3>1, MaxIndex
      <3> QED BY <1>2, <3>1
    <2> HIDE DEF V
    <2> QED BY <2>1
  <1> DEFINE g == CHOOSE h : P(h)
  <1>5. P(g)
    <2> HIDE DEF P
    <2> QED BY <1>4
  <1>6. FoldLeft(ApplyCud, D, seq) = (CHOOSE h : P(h))[DOMAIN seq]
    BY DEF FoldLeft, MapThenFoldSet
  <1>7. g[{1}] = ApplyCud(g[{}], x) /\ g[{}] = D
    <2>1. ASSUME NEW h, P(h) PROVE h[{1}] = ApplyCud(h[{}], x) /\ h[{}] = D
      BY <1>1, <1>3, <2>1, MaxIndex
    <2> HIDE DEF P, g
    <2> QED BY <1>5, <2>1
  <1> HIDE DEF P, g
  <1>8. FoldLeft(ApplyCud, D, seq) = g[DOMAIN seq]
    BY <1>6 DEF g
  <1> QED BY <1>1, <1>7, <1>8 DEF seq

(* A transaction of two parts applies both. *)
LEMMA AppliedTwo ==
    ASSUME NEW D, NEW match, NEW x, NEW y, Accepts(D, TxApplyIf(match, {}, <<x, y>>))
    PROVE  Apply(D, TxApplyIf(match, {}, <<x, y>>)) = ApplyCud(ApplyCud(D, x), y)
PROOF
  <1> DEFINE seq == <<x, y>>
             P(g) == g = [s \in SUBSET DOMAIN seq |->
                             IF s = {} THEN D ELSE ApplyCud(g[s \ {Max(s)}], seq[Max(s)])]
             V(s) == IF s = {} THEN D
                     ELSE IF s = {1} THEN ApplyCud(D, x)
                     ELSE IF s = {2} THEN ApplyCud(D, y) ELSE ApplyCud(ApplyCud(D, x), y)
             W == [s \in SUBSET DOMAIN seq |-> V(s)]
  <1>1. DOMAIN seq = {1, 2} /\ seq[1] = x /\ seq[2] = y
    OBVIOUS
  <1> HIDE DEF seq
  <1>2. \A s \in SUBSET DOMAIN seq : s \in {{}, {1}, {2}, {1, 2}}
    BY <1>1
  <1>3. /\ {1} \in SUBSET DOMAIN seq /\ {} \in SUBSET DOMAIN seq /\ {1, 2} \in SUBSET DOMAIN seq
        /\ {1} \ {1} = {} /\ {2} \ {2} = {} /\ {1, 2} \ {2} = {1}
        /\ {1} # {} /\ {2} # {} /\ {1, 2} # {} /\ {1, 2} # {1} /\ {1, 2} # {2} /\ {1} # {2}
    BY <1>1
  <1>4. P(W)
    <2>1. ASSUME NEW s \in SUBSET DOMAIN seq
          PROVE  V(s) = IF s = {} THEN D ELSE ApplyCud(W[s \ {Max(s)}], seq[Max(s)])
      <3>1. CASE s = {1}
        BY <1>1, <1>3, <3>1, MaxIndex
      <3>2. CASE s = {2}
        BY <1>1, <1>3, <3>2, MaxIndex
      <3>3. CASE s = {1, 2}
        BY <1>1, <1>3, <3>3, MaxIndex
      <3> QED BY <1>2, <3>1, <3>2, <3>3
    <2> HIDE DEF V
    <2> QED BY <2>1
  <1> DEFINE g == CHOOSE h : P(h)
  <1>5. P(g)
    <2> HIDE DEF P
    <2> QED BY <1>4
  <1>6. FoldLeft(ApplyCud, D, seq) = (CHOOSE h : P(h))[DOMAIN seq]
    BY DEF FoldLeft, MapThenFoldSet
  <1>7. g[{1, 2}] = ApplyCud(g[{1}], y) /\ g[{1}] = ApplyCud(g[{}], x) /\ g[{}] = D
    <2>1. ASSUME NEW h, P(h)
          PROVE  h[{1, 2}] = ApplyCud(h[{1}], y) /\ h[{1}] = ApplyCud(h[{}], x) /\ h[{}] = D
      <3>1. ASSUME NEW s \in SUBSET DOMAIN seq
            PROVE  h[s] = IF s = {} THEN D ELSE ApplyCud(h[s \ {Max(s)}], seq[Max(s)])
        BY <2>1
      <3>2. h[{}] = D
        BY <1>3, <3>1
      <3>3. h[{1}] = ApplyCud(h[{}], x)
        BY <1>1, <1>3, <3>1, MaxIndex
      <3>4. h[{1, 2}] = ApplyCud(h[{1}], y)
        BY <1>1, <1>3, <3>1, MaxIndex
      <3> QED BY <3>2, <3>3, <3>4
    <2> HIDE DEF P, g
    <2> QED BY <1>5, <2>1
  <1> HIDE DEF P, g
  <1>8. FoldLeft(ApplyCud, D, seq) = g[DOMAIN seq]
    BY <1>6 DEF g
  <1>9. FoldLeft(ApplyCud, D, <<x, y>>) = ApplyCud(ApplyCud(D, x), y)
    BY <1>1, <1>7, <1>8 DEF seq
  <1> QED BY <1>9 DEF Apply, TxApplyIf

-----------------------------------------------------------------------------
(* What the transactions of several parts make of the documents. *)

(* The new document of a guarded creation. *)
LEMMA GuardedCreation ==
    ASSUME NEW D, NEW notMatch, NEW id, NEW class, NEW space, NEW attrs,
           Accepts(D, TxApplyIf({}, notMatch, <<TxCreateDoc(id, class, space, attrs)>>))
    PROVE  Apply(D, TxApplyIf({}, notMatch, <<TxCreateDoc(id, class, space, attrs)>>))
               = D \cup {TxCreateDoc(id, class, space, attrs).doc}
PROOF
  <1> DEFINE tx == TxCreateDoc(id, class, space, attrs)
  <1>1. Apply(D, TxApplyIf({}, notMatch, <<tx>>)) = FoldLeft(ApplyCud, D, <<tx>>)
    BY DEF Apply, TxApplyIf
  <1>2. ApplyCud(D, tx) = D \cup {tx.doc}
    BY DEF ApplyCud, TxCreateDoc
  <1> HIDE DEF tx
  <1> QED BY <1>1, <1>2, FoldOne DEF tx

(* The project that counts the new issue, and the issue. *)
NewIssue(c, id, attrs) ==
    TxCollectionCreate(id, "Issue", loc[c].doc.id, "NoParent", attrs).doc

(* An accepted commit counts the project's sequence up and adds the issue; its two parts are applied together. *)
LEMMA CommitApplied ==
    ASSUME NEW c, NEW id, NEW attrs, Accepts(docs, CommitTx(c, id, attrs))
    PROVE  Apply(docs, CommitTx(c, id, attrs)) =
               {IF d.id = loc[c].doc.id THEN Updated(d, TxUpdateDoc(loc[c].doc.id, << >>, {"sequence"}))
                ELSE d : d \in docs} \cup {NewIssue(c, id, attrs)}
PROOF
  <1> DEFINE x == TxUpdateDoc(loc[c].doc.id, << >>, {"sequence"})
             y == TxCollectionCreate(id, "Issue", loc[c].doc.id, "NoParent", attrs)
             match == {ApplyIfMatch("Project", [id |-> loc[c].doc.id, sequence |-> loc[c].sequence])}
             tx == CommitTx(c, id, attrs)
             D == {IF d.id = loc[c].doc.id THEN Updated(d, x) ELSE d : d \in docs}
  <1>1. tx = TxApplyIf(match, {}, <<x, y>>)
    BY DEF CommitTx
  <1>2. x.op = "update" /\ x.id = loc[c].doc.id /\ y.op = "create"
    BY DEF TxUpdateDoc, TxCollectionCreate
  <1> HIDE DEF x, y, tx, match
  <1>3. Apply(docs, tx) = ApplyCud(ApplyCud(docs, x), y)
    <2>1. Accepts(docs, TxApplyIf(match, {}, <<x, y>>))
      BY <1>1 DEF tx
    <2> QED BY <1>1, <2>1, AppliedTwo
  <1>4. ApplyCud(docs, x) = D
    BY <1>2 DEF ApplyCud
  <1> HIDE DEF D
  <1>5. ApplyCud(D, y) = D \cup {y.doc}
    BY <1>2 DEF ApplyCud
  <1>6. y.doc = NewIssue(c, id, attrs)
    BY DEF y, NewIssue
  <1>7. Apply(docs, tx) = D \cup {NewIssue(c, id, attrs)}
    BY <1>3, <1>4, <1>5, <1>6
  <1> QED BY <1>7 DEF tx, D, x

-----------------------------------------------------------------------------
(* The steps that these transactions are of, and the rest. *)

(* huly_create_issue reads the sequence of the project, if it is there and has one. *)
LEMMA ReadSequenceDoes ==
    ASSUME NEW c, Ready(c), ReadSequence(c)
    PROVE  Does(c)
PROOF
  <1>1. At(c, "read_sequence")
    BY DEF ReadSequence
  <1>2. ASSUME UNCHANGED docs, NEW d \in FindAll(docs, "Project", [id |-> loc[c].doc.id]),
               "sequence" \in DOMAIN d,
               Become(c, <<"commit_issue">>,
                      [loc[c] EXCEPT !.tries = << >>, !.sequence = d.sequence,
                                     !.first = IF loc[c].attempt = 0 THEN d.sequence ELSE @])
        PROVE  Does(c)
    BY <1>1, <1>2 DEF Does, Idles, ReadsSequence
  <1> QED BY <1>2, RetriesDo, EndsDo DEF ReadSequence, FindOne, FindAllDocs, SendWithRetry, world

(* huly_create_issue creates the issue that it reports, or finds its number taken. *)
LEMMA CommitIssueDoes ==
    ASSUME NEW c, Ready(c), CommitIssue(c)
    PROVE  Does(c)
PROOF
  <1> DEFINE l == loc[c]
             id == GenTxId(c, l.attempt + 1)
             attrs == BuildIssueAttrs(c, l.sequence + 1, l.doc)
             tx == CommitTx(c, id, attrs)
             v == [status |-> "created", id |-> id, identifier |-> attrs.identifier]
  <1>1. At(c, "commit_issue") /\ Sends(c, tx)
    BY DEF CommitIssue, Sends
  <1>2. \/ (Throttled(c, "tx") \/ Refused(c)) /\ UNCHANGED docs
        \/ /\ Applied(c, tx)
           /\ IF Accepts(docs, tx) THEN Return(c, v)
              ELSE IF l.attempt + 1 < MaxAttempts THEN NextAttempt(c)
              ELSE FailWith(c, "contention", Plain, [project |-> l.doc.id, first |-> l.first])
        \/ AnswerLost(c, tx)
    BY DEF CommitIssue, RawTx, SendWithRetry, world
  <1>3. CASE Applied(c, tx) /\ Accepts(docs, tx) /\ Return(c, v)
    <2>1. NewIssue(c, id, attrs) \in docs'
      BY <1>3, CommitApplied DEF Applied
    <2>2. NewIssue(c, id, attrs).id = v.id
      BY DEF NewIssue, TxCollectionCreate, Extended
    <2>3. /\ "identifier" \in DOMAIN NewIssue(c, id, attrs)
          /\ NewIssue(c, id, attrs).identifier = v.identifier
      BY DEF NewIssue, TxCollectionCreate, Extended, BuildIssueAttrs
    <2> HIDE DEF v, tx, attrs, id, l
    <2>4. ASSUME NEW w, w = v PROVE Exists(w)'
      <3>1. PICK d : d = NewIssue(c, id, attrs)
        OBVIOUS
      <3> QED BY <2>1, <2>2, <2>3, <2>4, <3>1 DEF Exists
    <2> QED BY <1>1, <1>3, <2>4, SentDoes DEF Answered
  <1>4. CASE Applied(c, tx) /\ ~Accepts(docs, tx)
    <2>1. UNCHANGED docs
      BY <1>4, Unaccepted
    <2>2. Taken(c)
      BY <1>4 DEF Accepts, CommitTx, TxApplyIf, ApplyIfMatch, Found, Taken
    <2>3. ~(Throttled(c, "tx") \/ Refused(c)) /\ ~AnswerLost(c, tx) => Contends(c)
      BY <1>1, <1>2, <1>4, <2>2 DEF Contends
    <2> QED BY <1>1, <2>1, <2>3, RetriesDo, AnswerLostDoes DEF Does, Idles
  <1> HIDE DEF v, tx
  <1> QED BY <1>1, <1>2, <1>3, <1>4, RetriesDo, AnswerLostDoes

(* A lost race is followed by a look at what won it. *)
LEMMA LostDoes ==
    ASSUME NEW c, Ready(c), Head(todo[c]) \notin Counting, UNCHANGED docs, NEW lookup \in Inner,
           Become(c, <<lookup>>, loc[c])
    PROVE  Does(c)
PROOF
  <1>1. DOMAIN loc[c] = DOMAIN NoLocals /\ loc[c].attempt = 0
    BY DEF Ready
  <1>2. <<lookup>> \in Seq(Inner)
    OBVIOUS
  <1>3. Mutating(c) => loc[c].got \subseteq loc[c].got \cup entry.names
    OBVIOUS
  <1> QED BY <1>1, <1>2, <1>3 DEF Does, Idles, Passes

(* The creating tools that look for an existing document first. *)
LEMMA CreateUnlessDoes ==
    ASSUME NEW c, Ready(c), Head(todo[c]) \notin Counting, NEW class, NEW space, NEW attrs,
           NEW unless, NEW lookup \in Inner,
           CreateUnless(c, class, space, attrs, unless, lookup),
           Sends(c, TxApplyIf({}, {ApplyIfMatch(class, unless)},
                              <<TxCreateDoc(GenTxId(c, 1), class, space, attrs)>>))
    PROVE  Does(c)
PROOF
  <1> DEFINE id == GenTxId(c, 1)
             tx == TxApplyIf({}, {ApplyIfMatch(class, unless)},
                             <<TxCreateDoc(id, class, space, attrs)>>)
             v == [status |-> "created", id |-> id]
  <1>1. Sends(c, tx)
    OBVIOUS
  <1>2. \/ (Throttled(c, "tx") \/ Refused(c)) /\ UNCHANGED docs
        \/ /\ Applied(c, tx)
           /\ IF Accepts(docs, tx) THEN Return(c, v) ELSE Become(c, <<lookup>>, loc[c])
        \/ AnswerLost(c, tx)
    BY DEF CreateUnless, ApplyIfTx, RawTx, SendWithRetry, world
  <1>3. CASE Applied(c, tx) /\ Accepts(docs, tx) /\ Return(c, v)
    <2>1. TxCreateDoc(id, class, space, attrs).doc \in docs'
      BY <1>3, GuardedCreation DEF Applied
    <2>2. TxCreateDoc(id, class, space, attrs).doc.id = v.id /\ "identifier" \notin DOMAIN v
      BY DEF TxCreateDoc, Extended
    <2> HIDE DEF v, tx, id
    <2>4. Exists(v)'
      BY <2>1, <2>2 DEF Exists
    <2> QED BY <1>1, <1>3, <2>4, SentDoes DEF Answered
  <1>4. CASE Applied(c, tx) /\ ~Accepts(docs, tx) /\ Become(c, <<lookup>>, loc[c])
    BY <1>4, Unaccepted, LostDoes
  <1> HIDE DEF v, tx
  <1> QED BY <1>1, <1>2, <1>3, <1>4, RetriesDo, AnswerLostDoes

(* The document that they found instead is there. *)
LEMMA ExistingDoes ==
    ASSUME NEW c, Ready(c), NEW class, NEW query, Existing(c, class, query)
    PROVE  Does(c)
PROOF
  <1>1. ASSUME UNCHANGED docs, NEW d \in docs, Return(c, [status |-> "existing", id |-> d.id])
        PROVE  Does(c)
    <2>1. Exists([status |-> "existing", id |-> d.id])
      BY <1>1 DEF Exists
    <2> QED BY <1>1, <2>1, EndsDo
  <1>2. FindAll(docs, class, query) \subseteq docs
    BY DEF FindAll
  <1> HIDE DEF FindAll
  <1> QED
    BY <1>1, <1>2, RetriesDo, EndsDo DEF Existing, FindOne, FindAllDocs, SendWithRetry, world

(* huly_create_component creates one, or reports the one there is. *)
LEMMA CreateComponentDoes ==
    ASSUME NEW c, Ready(c), CreateComponent(c)
    PROVE  Does(c)
PROOF
  <1>1. "existing_component" \in Inner
    BY DEF Inner, WriteSteps, HeadOnly
  <1>2. At(c, "create_component") => Head(todo[c]) \notin Counting
    BY DEF At, Counting
  <1> QED BY <1>1, <1>2, CreateUnlessDoes, ExistingDoes DEF CreateComponent, Sends

(* huly_link_issue_to_card resolves the association, finds the issue and links it. *)
LEMMA LinkIssueToCardDoes ==
    ASSUME NEW c, Ready(c), LinkIssueToCard(c)
    PROVE  Does(c)
PROOF
  <1>1. "existing_relation" \in Inner
    BY DEF Inner, WriteSteps, HeadOnly
  <1>2. At(c, "create_relation") => Head(todo[c]) \notin Counting
    BY DEF At, Counting
  <1>3. <<"issue_to_link">> \in Seq(Inner) /\ <<"create_relation">> \in Seq(Inner)
    BY DEF Inner, WriteSteps, HeadOnly
  <1>4. ASSUME UNCHANGED docs, NEW doc,
               \/ Become(c, <<"issue_to_link">>, [NoLocals EXCEPT !.doc = doc])
               \/ Become(c, <<"create_relation">>, [NoLocals EXCEPT !.doc = doc])
        PROVE  Does(c)
    BY <1>3, <1>4, BecomesDo
  <1>5. CASE At(c, "link_issue")
    BY <1>4, <1>5, EndsDo DEF LinkIssueToCard, ResolveClass, world, At
  <1>6. CASE At(c, "issue_to_link")
    BY <1>4, <1>6, RetriesDo, EndsDo
    DEF LinkIssueToCard, FindOne, FindAllDocs, SendWithRetry, world, At
  <1>7. CASE At(c, "create_relation") \/ At(c, "existing_relation")
    BY <1>1, <1>2, <1>7, CreateUnlessDoes, ExistingDoes DEF LinkIssueToCard, Sends, At
  <1> QED BY <1>5, <1>6, <1>7 DEF LinkIssueToCard

(* huly_create_card resolves the type and creates the card. *)
LEMMA CreateCardDoes ==
    ASSUME NEW c, Ready(c), CreateCard(c)
    PROVE  Does(c)
PROOF
  <1>1. CASE At(c, "create_card")
    <2>1. ASSUME UNCHANGED docs, NEW class, IsPlatformId(Arg(c).kind) \/ \E n \in loc[c].got : n.id = class,
                 Become(c, <<"store_card">>, [NoLocals EXCEPT !.doc = [class |-> class]])
          PROVE  Does(c)
      BY <1>1, <2>1 DEF Does, Idles, KnowsClass
    <2> QED BY <1>1, <2>1, EndsDo DEF CreateCard, ResolveClass, world, At
  <1>2. CASE At(c, "store_card")
    <2> DEFINE attrs == [title |-> Arg(c).title]
               tx == TxCreateDoc(GenTxId(c, 1), loc[c].doc.class, Arg(c).space, attrs)
               v == [id |-> GenTxId(c, 1)]
    <2>1. tx.op # "apply_if" /\ Sends(c, tx)
      BY <1>2 DEF TxCreateDoc, Sends
    <2>2. docs' = Apply(docs, tx) => Exists(v)'
      BY CreatedExists
    <2>3. \/ (Throttled(c, "tx") \/ Refused(c)) /\ UNCHANGED docs
          \/ Applied(c, tx) /\ Return(c, v)
          \/ AnswerLost(c, tx)
      BY <1>2 DEF CreateCard, CreateDoc, RawTx, SendWithRetry, world, At
    <2> HIDE DEF tx, v, attrs
    <2> QED BY <2>1, <2>2, <2>3, PlainDoes
  <1> QED BY <1>1, <1>2 DEF CreateCard

(* Uploads and fetches of markup count their attempts, and touch no document. *)
LEMMA MarkupDoes ==
    ASSUME NEW c, Ready(c), UploadMarkup(c) \/ FetchMarkup(c)
    PROVE  Does(c) /\ Idles(c)
PROOF
  <1>1. ~Mutating(c) /\ UNCHANGED docs /\ Head(todo[c]) \in {"upload_markup", "fetch_markup"}
    BY AtReading DEF UploadMarkup, FetchMarkup, CreateMarkup, GetMarkup, ReadSteps, WriteSteps, Ready, At
  <1>2. CASE TransportError(c)
    <2>1. CASE loc[c].attempt + 1 < CollabAttempts
      <3> DEFINE l == [loc[c] EXCEPT !.attempt = @ + 1]
      <3>1. loc' = [loc EXCEPT ![c] = l] /\ UNCHANGED <<todo, outcome>>
        BY <1>2, <2>1 DEF TransportError
      <3>2. /\ DOMAIN l = DOMAIN NoLocals
            /\ l.doc = loc[c].doc /\ l.first = loc[c].first /\ l.sequence = loc[c].sequence
            /\ l.attempt = loc[c].attempt + 1
        BY DEF Ready, NoLocals
      <3> HIDE DEF l
      <3> QED BY <1>1, <2>1, <3>1, <3>2 DEF Does, Idles, Stays
    <2>2. CASE ~(loc[c].attempt + 1 < CollabAttempts)
      BY <1>1, <1>2, <2>2 DEF TransportError, Fail, Failed, Does, Idles
    <2> QED BY <2>1, <2>2
  <1>3. CASE \E v : Return(c, v)
    BY <1>1, <1>3 DEF Answered, Does, Idles
  <1>4. CASE Fail(c, "collaborator")
    BY <1>1, <1>4 DEF Fail, Failed, Does, Idles
  <1> QED
    BY <1>2, <1>3, <1>4 DEF UploadMarkup, FetchMarkup, CreateMarkup, GetMarkup, CollaboratorRpc

(* The steps of server.rs itself touch no document. *)
LEMMA LocalDoes ==
    ASSUME NEW c, Ready(c), LocalStep(c)
    PROVE  Does(c) /\ Idles(c)
PROOF
  <1>1. UNCHANGED docs
    BY DEF LocalStep, world
  <1>2. ASSUME NEW why, why # "contention", Fail(c, why) PROVE Does(c) /\ Idles(c)
    BY <1>1, <1>2 DEF Fail, Failed, Does, Idles
  <1>3. ASSUME NEW v, ~Mutating(c), Return(c, v) PROVE Does(c) /\ Idles(c)
    BY <1>1, <1>3 DEF Answered, Does, Idles
  <1>4. UserWorkspaces(c) \/ SyncStatus(c) \/ SyncCards(c) => ~Mutating(c)
    BY AtReading DEF UserWorkspaces, SyncStatus, SyncCards, ReadSteps, WriteSteps, Ready
  <1> QED
    BY <1>2, <1>3, <1>4
    DEF LocalStep, NoWorkspace, UserWorkspaces, SyncStatus, SyncCards, SyncNotConfigured, SpawnCapture

(* What a call may be told for its mint request. *)
Told(c) ==
    inbox[c] \in {Idle, Waiting, MintError("unknown_workspace"), MintError("accounts_failure")}
                 \cup {MintResponse(b) : b \in Bridges}

(* The schema of the entry is what a call takes over from it. *)
LEMMA UseDoes ==
    ASSUME NEW c, CallInv(c), Ready(c), AtEntry(c), NEW e, Use(c, e), UNCHANGED docs,
           e.names \subseteq entry.names
    PROVE  Does(c) /\ Idles(c)
PROOF
  <1>0. Idles(c) => Does(c)
    BY DEF Does
  <1>1. Head(todo[c]) \in Steps(c)
    BY HeadFits DEF AtEntry, EntrySteps
  <1>2. ASSUME NEW steps \in Seq(Inner), Become(c, steps, NoLocals) PROVE Idles(c)
    <2>1. DOMAIN NoLocals = DOMAIN NoLocals /\ NoLocals.attempt = 0 /\ NoLocals.got = {}
      BY DEF NoLocals
    <2> QED BY <1>2, <2>1 DEF Idles, Passes
  <1>3. /\ <<"schema_entry">> \in Seq(Inner) /\ << >> \in Seq(Inner)
        /\ <<"refresh_schema", "schema_entry">> \in Seq(Inner)
    BY DEF Inner, ReadSteps, HeadOnly
  <1>4. ASSUME Become(c, << >>, [NoLocals EXCEPT !.got = e.names]) PROVE Idles(c)
    <2> DEFINE l == [NoLocals EXCEPT !.got = e.names]
    <2>1. DOMAIN l = DOMAIN NoLocals /\ l.attempt = 0 /\ l.got = e.names
      BY DEF NoLocals
    <2> HIDE DEF l
    <2> QED BY <1>3, <1>4, <2>1 DEF Idles, Passes, l
  <1>5. ASSUME NEW why, why # "contention", Fail(c, why) PROVE Idles(c)
    BY <1>5 DEF Idles, Fail, Failed
  <1>6. CASE Head(todo[c]) = "status"
    <2>1. ~Mutating(c)
      BY <1>1, <1>6 DEF Steps, StepsOf, WriteSteps, Mutating
    <2> QED BY <1>0, <1>6, <2>1 DEF Use, Idles, Answered
  <1>7. CASE Head(todo[c]) # "status"
    BY <1>0, <1>2, <1>3, <1>4, <1>5, <1>7 DEF Use, Proceed
  <1> QED BY <1>6, <1>7

(* The steps of the factory touch no document. *)
LEMMA FactoryDoes ==
    ASSUME NEW c, CallInv(c), Ready(c), Told(c), inbox[c] # Idle => AtEntry(c), FactoryStep(c)
    PROVE  Does(c) /\ Idles(c)
PROOF
  <1>1. UNCHANGED docs
    BY DEF FactoryStep, CachedEntry, RequestJwt, MintTimeout, MintReplied, MintFailed, Forget,
           RefreshSchema, world
  <1>2. ASSUME NEW why, why # "contention", MintFailed(c, why) PROVE Does(c) /\ Idles(c)
    BY <1>1, <1>2 DEF MintFailed, Failed, Does, Idles
  <1>3. CASE CachedEntry(c)
    BY <1>1, <1>3, UseDoes DEF CachedEntry
  <1>4. CASE RequestJwt(c)
    <2>1. CASE listening = {}
      BY <1>2, <1>4, <2>1 DEF RequestJwt
    <2>2. CASE listening # {}
      BY <1>1, <1>4, <2>2 DEF RequestJwt, callVars, Does, Idles, Stays
    <2> QED BY <2>1, <2>2
  <1>5. CASE MintTimeout(c)
    BY <1>2, <1>5 DEF MintTimeout
  <1>6. CASE MintReplied(c)
    <2>1. AtEntry(c)
      <3>1. Idle.state \notin {"ok", "err"}
        BY DEF Idle
      <3> QED BY <1>6, <3>1 DEF MintReplied
    <2>2. CASE inbox[c].state = "ok"
      <3> DEFINE minted == [by |-> inbox[c].by, fresh |-> FALSE, names |-> {}]
      <3>1. Use(c, minted) /\ minted.names \subseteq entry.names
        BY <1>6, <2>2 DEF MintReplied
      <3> QED BY <1>1, <2>1, <3>1, UseDoes
    <2>3. CASE inbox[c].state # "ok"
      <3>1. inbox[c].code # "contention"
        <4>1. /\ Idle.code # "contention" /\ Waiting.code # "contention"
              /\ MintError("unknown_workspace").code # "contention"
              /\ MintError("accounts_failure").code # "contention"
              /\ \A b : MintResponse(b).code # "contention"
          BY DEF Idle, Waiting, MintError, MintResponse
        <4> QED BY <4>1 DEF Told
      <3> QED BY <1>2, <1>6, <2>3, <3>1 DEF MintReplied
    <2> QED BY <2>2, <2>3
  <1>7. CASE Forget(c) \/ RefreshSchema(c)
    <2>1. Become(c, << >>, NoLocals)
      BY <1>7 DEF Forget, RefreshSchema, Proceed
    <2>2. << >> \in Seq(Inner) /\ NoLocals.attempt = 0 /\ NoLocals.got = {}
      BY DEF NoLocals
    <2>3. Idles(c)
      BY <1>1, <2>1, <2>2 DEF Idles, Passes
    <2> QED BY <2>3 DEF Does
  <1> QED BY <1>3, <1>4, <1>5, <1>6, <1>7 DEF FactoryStep

-----------------------------------------------------------------------------
(* What every step of a call does. *)

(* Every request does one of the above. *)
LEMMA RequestDoes ==
    ASSUME NEW c, Ready(c), RequestStep(c)
    PROVE  Does(c)
PROOF
  BY ReadsDo, StoreDoes, ResolveProjectDoes, CreateProjectDoes, GetIssueDoes, FindRelationsDoes,
     UpdateIssueDoes, ReadSequenceDoes, CommitIssueDoes, CreateComponentDoes, LinkIssueToCardDoes,
     FindCardsDoes, ListCardsDoes, CreateCardDoes, DiscoverDoes, MarkupDoes
  DEF RequestStep, ToolStep

(* The cached entry is dropped, minted by a bridge, or filled with the names of the schema. *)
EntryMoves ==
    \/ UNCHANGED entry
    \/ entry' = NoEntry
    \/ \E b \in Bridges : entry' = [by |-> b, fresh |-> FALSE, names |-> {}]
    \/ entry' = [entry EXCEPT !.fresh = TRUE, !.names = SchemaNames]

(* A step of a call: a record, which leaves everything else alone, or one of the above. *)
Acts(c) ==
    /\ UNCHANGED plan
    /\ \/ Notes(c) /\ UNCHANGED <<docs, loc, entry>>
       \/ Does(c) /\ todo[c] # << >> /\ Head(todo[c]) \notin RecordSteps
    /\ UNCHANGED docs \/ UNCHANGED entry
    /\ EntryMoves
    /\ UNCHANGED listening
    /\ inbox'[c] \in {Idle, Waiting} \/ UNCHANGED inbox

(* Every step of a call is a record or one of what the steps do, each of which is listed in Acts. *)
LEMMA CallActs ==
    ASSUME AppliedInv, NEW c \in Calls, Ready(c), Told(c), CallStep(c)
    PROVE  Acts(c)
PROOF
  <1>1. CallInv(c) /\ (inbox[c] # Idle => AtEntry(c)) /\ c \in DOMAIN inbox
    BY DEF AppliedInv, FunctionsOfCalls
  <1>2. todo[c] # << >> => Arg(c).tool \in ToolNames
    BY DEF AppliedInv
  <1>3. CASE RecordStep(c)
    <2>1. Notes(c)
      BY <1>1, <1>2, <1>3, RecordWay
    <2>2. UNCHANGED <<docs, entry, listening, inbox, plan>>
      BY <1>3 DEF RecordStep, brokerVars
    <2>3. UNCHANGED loc
      BY <2>1 DEF Notes, Publish
    <2> QED BY <2>1, <2>2, <2>3 DEF Acts, EntryMoves
  <1>4. CASE LocalStep(c) \/ RequestStep(c)
    <2>1. Does(c)
      BY <1>4, LocalDoes, RequestDoes
    <2>2. UNCHANGED <<plan, entry, listening, inbox>>
      BY <1>4 DEF LocalStep, RequestStep, brokerVars
    <2>3. todo[c] # << >> /\ Head(todo[c]) \notin RecordSteps
      BY <1>1, <1>4, LocalWay, RequestWay DEF Working
    <2> QED BY <2>1, <2>2, <2>3 DEF Acts, EntryMoves
  <1>5. CASE FactoryStep(c) /\ UNCHANGED plan
    <2>1. Does(c)
      BY <1>1, <1>5, FactoryDoes
    <2>2. todo[c] # << >> /\ Head(todo[c]) \notin RecordSteps
      BY <1>1, <1>5, FactoryWay
    <2>3. UNCHANGED docs
      BY <1>5 DEF FactoryStep, CachedEntry, RequestJwt, MintTimeout, MintReplied, MintFailed, Forget,
             RefreshSchema, world
    <2>4. UNCHANGED listening
      BY <1>5 DEF FactoryStep, CachedEntry, RequestJwt, MintTimeout, MintReplied, MintFailed, Forget,
             RefreshSchema, brokerVars
    <2>5. inbox'[c] \in {Idle, Waiting} \/ UNCHANGED inbox
      BY <1>1, <1>5 DEF FactoryStep, CachedEntry, RequestJwt, MintTimeout, MintReplied, MintFailed,
         Forget, RefreshSchema, brokerVars
    <2>6. EntryMoves
      <3>1. CASE MintReplied(c)
        <4>1. ASSUME inbox[c].state = "ok" PROVE inbox[c].by \in Bridges
          <5>1. /\ Idle.state # "ok" /\ Waiting.state # "ok"
                /\ \A code : MintError(code).state # "ok"
                /\ \A b : MintResponse(b).by = b
            BY DEF Idle, Waiting, MintError, MintResponse
          <5> QED BY <4>1, <5>1 DEF Told
        <4>2. CASE inbox[c].state = "ok"
          BY <3>1, <4>1, <4>2 DEF MintReplied, EntryMoves
        <4>3. CASE inbox[c].state # "ok"
          BY <3>1, <4>3 DEF MintReplied, MintFailed, EntryMoves
        <4> QED BY <4>2, <4>3
      <3>2. CASE RefreshSchema(c)
        BY <3>2 DEF RefreshSchema, EntryMoves
      <3>3. CASE CachedEntry(c) \/ RequestJwt(c) \/ MintTimeout(c) \/ Forget(c)
        BY <3>3 DEF CachedEntry, RequestJwt, MintTimeout, MintFailed, Forget, brokerVars, EntryMoves
      <3> QED BY <1>5, <3>1, <3>2, <3>3 DEF FactoryStep
    <2> QED BY <1>5, <2>1, <2>2, <2>3, <2>4, <2>5, <2>6 DEF Acts
  <1> QED BY <1>3, <1>4, <1>5 DEF CallStep

(* The local variables of the others stay. *)
LEMMA OthersLocals ==
    ASSUME NEW c, Acts(c)
    PROVE  DOMAIN loc' = DOMAIN loc /\ \A d \in DOMAIN loc \ {c} : loc'[d] = loc[d]
PROOF
  <1>1. Failed(c) \/ Answered(c) => \E l : loc' = [loc EXCEPT ![c] = l]
    BY DEF Failed, Answered, FailWith, Return
  <1>2. UNCHANGED loc \/ \E l : loc' = [loc EXCEPT ![c] = l]
    BY <1>1 DEF Acts, Does, Idles, Changes, Stays, Passes, ReadsSequence, Contends, KnowsClass,
       Become, NextAttempt, FailWith
  <1> QED BY <1>2

-----------------------------------------------------------------------------
(* How far a call is. *)

(* The steps behind the one a call is at are not those that only another leads to; the attempts   *)
(* stay below their bound.                                                                         *)
Work(c) ==
    /\ Ready(c)
    /\ Told(c)
    /\ todo[c] # << >> => Tail(todo[c]) \in Seq(Inner)
    /\ loc[c].attempt < IF At(c, "upload_markup") \/ At(c, "fetch_markup") THEN CollabAttempts
                        ELSE MaxAttempts

WorkInv ==
    /\ DOMAIN loc = Calls
    /\ \A c \in Calls : Work(c)
    /\ entry.by \in Bridges \cup {""}
    /\ DOMAIN entry = DOMAIN NoEntry
    /\ listening \subseteq Bridges
    /\ docs = Docs

(* Nothing is left of the local variables of a call that ends, or goes on without any. *)
LEMMA BlankWork ==
    ASSUME NEW c, loc'[c] = NoLocals, CallInv(c)', Told(c)',
           todo'[c] # << >> => Tail(todo'[c]) \in Seq(Inner)
    PROVE  Work(c)'
PROOF
  <1>1. NoLocals.attempt = 0
    BY DEF NoLocals
  <1> QED BY <1>1, ToolsAssumption, RestAssumption DEF Work, Ready

(* The steps before those behind. *)
LEMMA BehindTail ==
    ASSUME NEW rest \in Seq(Inner), NEW steps \in Seq(Inner)
    PROVE  /\ steps \o rest # << >> => /\ Head(steps \o rest) \in Inner
                                       /\ Tail(steps \o rest) \in Seq(Inner)
           /\ \A step : /\ <<step>> \o rest # << >>
                        /\ Head(<<step>> \o rest) = step
                        /\ Tail(<<step>> \o rest) = rest
PROOF
  <1>1. steps \o rest \in Seq(Inner)
    OBVIOUS
  <1>2. steps \o rest # << >> => /\ Head(steps \o rest) \in Inner
                                 /\ Tail(steps \o rest) \in Seq(Inner)
    BY <1>1
  <1>3. ASSUME NEW step
        PROVE  /\ <<step>> \o rest # << >>
               /\ Head(<<step>> \o rest) = step
               /\ Tail(<<step>> \o rest) = rest
    <2> DEFINE S == Inner \cup {step}
    <2>1. rest \in Seq(S) /\ <<step>> \in Seq(S)
      OBVIOUS
    <2> HIDE DEF S
    <2> QED BY <2>1
  <1> QED BY <1>2, <1>3

(* Whatever it does, a call stays within these. *)
LEMMA DoesWork ==
    ASSUME NEW c, c \in DOMAIN loc, c \in DOMAIN todo, todo[c] # << >>, Work(c), Does(c),
           CallInv(c)', Told(c)'
    PROVE  Work(c)'
PROOF
  <1>1. /\ Tail(todo[c]) \in Seq(Inner)
        /\ loc[c].attempt \in Nat
        /\ DOMAIN loc[c] = DOMAIN NoLocals
    BY DEF Work, Ready
  <1>2. ASSUME NEW steps, NEW l, Become(c, steps, l)
        PROVE  todo'[c] = steps \o Tail(todo[c]) /\ loc'[c] = l
    BY <1>2 DEF Become
  <1>3. CASE Failed(c) \/ Answered(c)
    <2>1. /\ loc'[c] = NoLocals
          /\ todo'[c] \in {<<"completed">>, <<"completed", "error">>}
      BY <1>3 DEF Failed, Answered, FailWith, Return
    <2>2. Tail(<<"completed">>) = << >> /\ Tail(<<"completed", "error">>) = <<"error">>
      OBVIOUS
    <2>3. << >> \in Seq(Inner) /\ <<"error">> \in Seq(Inner)
      BY DEF Inner, HeadOnly
    <2> QED BY <2>1, <2>2, <2>3, BlankWork
  <1>4. CASE Stays(c)
    <2>1. todo'[c] = todo[c]
      BY <1>4 DEF Stays
    <2>2. CASE UNCHANGED loc
      BY <2>1, <2>2 DEF Work, Ready, At
    <2>3. CASE ~UNCHANGED loc
      <3>1. PICK l : /\ loc' = [loc EXCEPT ![c] = l]
                     /\ DOMAIN l = DOMAIN NoLocals
                     /\ \/ l.attempt = loc[c].attempt
                        \/ /\ Head(todo[c]) \in {"upload_markup", "fetch_markup"}
                           /\ loc[c].attempt + 1 < CollabAttempts
                           /\ l.attempt = loc[c].attempt + 1
        BY <1>4, <2>3 DEF Stays
      <3>2. loc'[c] = l
        BY <3>1
      <3> QED BY <1>1, <2>1, <3>1, <3>2 DEF Work, Ready, At, Counting
    <2> QED BY <2>2, <2>3
  <1>5. CASE Passes(c)
    <2>0. PICK steps \in Seq(Inner) :
              \E l : Become(c, steps, l) /\ DOMAIN l = DOMAIN NoLocals /\ l.attempt = 0
      BY <1>5 DEF Passes
    <2>1. PICK l : Become(c, steps, l) /\ DOMAIN l = DOMAIN NoLocals /\ l.attempt = 0
      BY <2>0
    <2>2. todo'[c] = steps \o Tail(todo[c]) /\ loc'[c] = l
      BY <1>2, <2>1
    <2>3. todo'[c] # << >> => Tail(todo'[c]) \in Seq(Inner)
      BY <1>1, <2>2, BehindTail
    <2>4. 0 < MaxAttempts /\ 0 < CollabAttempts
      BY ToolsAssumption, RestAssumption
    <2> QED BY <2>1, <2>2, <2>3, <2>4 DEF Work, Ready
  <1>6. ASSUME NEW step \in {"commit_issue", "read_sequence", "store_card"}, NEW l,
               Become(c, <<step>>, l), DOMAIN l = DOMAIN NoLocals, l.attempt \in Nat,
               l.attempt < MaxAttempts, step = "store_card" => l.attempt = 0
        PROVE  Work(c)'
    <2>1. /\ todo'[c] # << >> /\ Head(todo'[c]) = step /\ Tail(todo'[c]) = Tail(todo[c])
          /\ loc'[c] = l
      BY <1>1, <1>2, <1>6, BehindTail
    <2> QED BY <1>1, <1>6, <2>1 DEF Work, Ready, At, Counting
  <1>7. CASE ReadsSequence(c)
    <2>1. PICK d : Become(c, <<"commit_issue">>,
                          [loc[c] EXCEPT !.tries = << >>, !.sequence = d.sequence,
                                         !.first = IF loc[c].attempt = 0 THEN d.sequence ELSE @])
      BY <1>7 DEF ReadsSequence
    <2> DEFINE l == [loc[c] EXCEPT !.tries = << >>, !.sequence = d.sequence,
                                   !.first = IF loc[c].attempt = 0 THEN d.sequence ELSE @]
    <2>2. DOMAIN l = DOMAIN NoLocals /\ l.attempt = loc[c].attempt
      BY <1>1 DEF NoLocals
    <2>3. loc[c].attempt < MaxAttempts
      BY <1>7 DEF ReadsSequence, Work, At
    <2> HIDE DEF l
    <2> QED BY <1>1, <1>6, <2>1, <2>2, <2>3 DEF l
  <1>8. CASE Contends(c) /\ NextAttempt(c) /\ loc[c].attempt + 1 < MaxAttempts
    <2> DEFINE l == [loc[c] EXCEPT !.tries = << >>, !.attempt = @ + 1]
    <2>1. Become(c, <<"read_sequence">>, l)
      BY <1>8 DEF NextAttempt
    <2>2. DOMAIN l = DOMAIN NoLocals /\ l.attempt = loc[c].attempt + 1
      BY <1>1 DEF NoLocals
    <2> HIDE DEF l
    <2> QED BY <1>1, <1>6, <1>8, <2>1, <2>2
  <1>9. CASE Contends(c) /\ ~(loc[c].attempt + 1 < MaxAttempts)
    <2>1. /\ loc'[c] = NoLocals
          /\ todo'[c] = <<"completed", "error">>
      BY <1>9 DEF Contends, FailWith
    <2>2. Tail(<<"completed", "error">>) = <<"error">> /\ <<"error">> \in Seq(Inner)
      BY DEF Inner, HeadOnly
    <2> QED BY <2>1, <2>2, BlankWork
  <1>10. CASE KnowsClass(c)
    <2>1. PICK class : Become(c, <<"store_card">>, [NoLocals EXCEPT !.doc = [class |-> class]])
      BY <1>10 DEF KnowsClass
    <2> DEFINE l == [NoLocals EXCEPT !.doc = [class |-> class]]
    <2>2. DOMAIN l = DOMAIN NoLocals /\ l.attempt = 0
      BY DEF NoLocals
    <2>3. Become(c, <<"store_card">>, l) /\ l.attempt \in Nat /\ l.attempt < MaxAttempts
      BY <2>1, <2>2, ToolsAssumption
    <2> HIDE DEF l
    <2> QED BY <1>6, <2>2, <2>3
  <1> QED
    BY <1>3, <1>4, <1>5, <1>7, <1>8, <1>9, <1>10 DEF Does, Idles, Changes, Contends

-----------------------------------------------------------------------------
(* What the transactions make of the documents. *)

(* The fields of every document. *)
Named(d) == {"id", "class", "space"} \subseteq DOMAIN d

(* A new document; one that must be the only one has none beside it. *)
Creates(c, d) ==
    /\ docs' = docs \cup {d}
    /\ Named(d)
    /\ d.id = GenTxId(c, 1)
    /\ \/ At(c, "create_doc") /\ d.class = Arg(c).class
       \/ At(c, "store_card") /\ d.class = loc[c].doc.class
       \/ /\ At(c, "create_project")
          /\ d.class = "Project"
          /\ {"identifier", "sequence"} \subseteq DOMAIN d
          /\ d.sequence = 0
       \/ /\ At(c, "create_component")
          /\ d.class = "Component"
          /\ "label" \in DOMAIN d
          /\ FindAll(docs, "Component", [space |-> d.space, label |-> d.label]) = {}
       \/ /\ At(c, "create_relation")
          /\ d.class = "Relation"
          /\ {"docA", "docB", "association"} \subseteq DOMAIN d
          /\ FindAll(docs, "Relation",
                     [docA |-> d.docA, docB |-> d.docB, association |-> d.association]) = {}

(* An update of the documents with an id. *)
Edited(tx) == {IF d.id = tx.id THEN Updated(d, tx) ELSE d : d \in docs}

Edits(c, tx) ==
    /\ docs' = Edited(tx)
    /\ \/ At(c, "update_doc") /\ tx = TxUpdateDoc(Arg(c).id, Arg(c).ops.set, Arg(c).ops.inc)
       \/ At(c, "update_collection") /\ tx = TxUpdateDoc(loc[c].doc.id, Arg(c).set, {})

Removes(c) ==
    /\ At(c, "remove_doc")
    /\ docs' = {d \in docs : d.id # Arg(c).id}

(* The next number of a project, and the issue that has it. *)
Issued(c) ==
    NewIssue(c, GenTxId(c, loc[c].attempt + 1), BuildIssueAttrs(c, loc[c].sequence + 1, loc[c].doc))

Counts(c) ==
    /\ At(c, "commit_issue")
    /\ ~Taken(c)
    /\ docs' = Edited(TxUpdateDoc(loc[c].doc.id, << >>, {"sequence"})) \cup {Issued(c)}

(* A transaction that is sent and accepted creates, edits, removes or counts, as its step has it. *)
LEMMA SentEffects ==
    ASSUME NEW c, NEW tx, Sends(c, tx), Accepts(docs, tx), docs' = Apply(docs, tx)
    PROVE  (\E d : Creates(c, d)) \/ (\E u : Edits(c, u)) \/ Removes(c) \/ Counts(c)
PROOF
  <1>1. ASSUME NEW id, NEW class, NEW space, NEW attrs, NEW d, d = TxCreateDoc(id, class, space, attrs).doc
        PROVE  /\ Named(d) /\ d.id = id /\ d.class = class /\ d.space = space
               /\ tx = TxCreateDoc(id, class, space, attrs) => docs' = docs \cup {d}
    <2>1. Named(d) /\ d.id = id /\ d.class = class /\ d.space = space
      BY <1>1 DEF TxCreateDoc, Extended, Named
    <2>2. Apply(docs, TxCreateDoc(id, class, space, attrs)) = docs \cup {d}
      BY <1>1 DEF TxCreateDoc, Apply, ApplyCud
    <2> QED BY <2>1, <2>2
  <1>3. ASSUME NEW id, NEW set, NEW inc
        PROVE  Apply(docs, TxUpdateDoc(id, set, inc)) = Edited(TxUpdateDoc(id, set, inc))
    BY DEF Apply, ApplyCud, TxUpdateDoc, Edited
  <1>4. CASE At(c, "create_doc") /\ tx = TxCreateDoc(GenTxId(c, 1), Arg(c).class, Arg(c).space, Arg(c).attributes)
    <2>1. PICK d : d = TxCreateDoc(GenTxId(c, 1), Arg(c).class, Arg(c).space, Arg(c).attributes).doc
      OBVIOUS
    <2>2. Named(d) /\ d.id = GenTxId(c, 1) /\ d.class = Arg(c).class /\ docs' = docs \cup {d}
      BY <1>1, <1>4, <2>1
    <2>3. Creates(c, d)
      BY <1>4, <2>2 DEF Creates
    <2> QED BY <2>3
  <1>5. CASE At(c, "update_doc") /\ tx = TxUpdateDoc(Arg(c).id, Arg(c).ops.set, Arg(c).ops.inc)
    BY <1>3, <1>5 DEF Edits
  <1>6. CASE At(c, "remove_doc") /\ tx = TxRemoveDoc(Arg(c).id)
    BY <1>6 DEF Apply, ApplyCud, TxRemoveDoc, Removes
  <1>7. CASE /\ At(c, "create_project")
             /\ tx = TxCreateDoc(GenTxId(c, 1), "Project", Space,
                                 [identifier |-> Arg(c).identifier, sequence |-> 0])
    <2> DEFINE attrs == [identifier |-> Arg(c).identifier, sequence |-> 0]
    <2>1. PICK d : d = TxCreateDoc(GenTxId(c, 1), "Project", Space, attrs).doc
      OBVIOUS
    <2>2. {"identifier", "sequence"} \subseteq DOMAIN d /\ d.sequence = 0
      BY <2>1 DEF TxCreateDoc, Extended
    <2>3. Named(d) /\ d.id = GenTxId(c, 1) /\ d.class = "Project" /\ docs' = docs \cup {d}
      BY <1>1, <1>7, <2>1
    <2>4. Creates(c, d)
      BY <1>7, <2>2, <2>3 DEF Creates
    <2> QED BY <2>4
  <1>8. CASE At(c, "update_collection") /\ tx = TxUpdateDoc(loc[c].doc.id, Arg(c).set, {})
    BY <1>3, <1>8 DEF Edits
  <1>9. CASE /\ At(c, "commit_issue")
             /\ tx = CommitTx(c, GenTxId(c, loc[c].attempt + 1),
                              BuildIssueAttrs(c, loc[c].sequence + 1, loc[c].doc))
    <2>1. ~Taken(c)
      BY <1>9 DEF Taken, Accepts, CommitTx, TxApplyIf, ApplyIfMatch, Found
    <2>2. TxUpdateDoc(loc[c].doc.id, << >>, {"sequence"}).id = loc[c].doc.id
      BY DEF TxUpdateDoc
    <2> QED BY <1>9, <2>1, <2>2, CommitApplied DEF Counts, Edited, Issued
  <1>10. CASE /\ At(c, "create_component")
              /\ tx = TxApplyIf({}, {ApplyIfMatch("Component", ComponentKey(c))},
                                <<TxCreateDoc(GenTxId(c, 1), "Component", loc[c].doc.id,
                                              [label |-> Arg(c).label])>>)
    <2>0. PICK d : d = TxCreateDoc(GenTxId(c, 1), "Component", loc[c].doc.id, [label |-> Arg(c).label]).doc
      OBVIOUS
    <2>1. docs' = docs \cup {d}
      BY <1>10, <2>0, GuardedCreation
    <2>2. FindAll(docs, "Component", ComponentKey(c)) = {}
      BY <1>10 DEF Accepts, TxApplyIf, ApplyIfMatch, Found
    <2>3. "label" \in DOMAIN d /\ d.label = Arg(c).label
      BY <2>0 DEF TxCreateDoc, Extended
    <2>4. Named(d) /\ d.id = GenTxId(c, 1) /\ d.class = "Component" /\ d.space = loc[c].doc.id
      BY <1>1, <2>0
    <2>5. FindAll(docs, "Component", [space |-> d.space, label |-> d.label]) = {}
      BY <2>2, <2>3, <2>4 DEF ComponentKey
    <2> QED BY <1>10, <2>1, <2>3, <2>4, <2>5 DEF Creates
  <1>11. CASE /\ At(c, "create_relation")
              /\ tx = TxApplyIf({}, {ApplyIfMatch("Relation", RelationKey(c))},
                                <<TxCreateDoc(GenTxId(c, 1), "Relation", Space, RelationKey(c))>>)
    <2>0. PICK d : d = TxCreateDoc(GenTxId(c, 1), "Relation", Space, RelationKey(c)).doc
      OBVIOUS
    <2>1. docs' = docs \cup {d}
      BY <1>11, <2>0, GuardedCreation
    <2>2. FindAll(docs, "Relation", RelationKey(c)) = {}
      BY <1>11 DEF Accepts, TxApplyIf, ApplyIfMatch, Found
    <2>3. /\ {"docA", "docB", "association"} \subseteq DOMAIN d
          /\ RelationKey(c) = [docA |-> d.docA, docB |-> d.docB, association |-> d.association]
      BY <2>0 DEF TxCreateDoc, Extended, RelationKey
    <2>4. Named(d) /\ d.id = GenTxId(c, 1) /\ d.class = "Relation"
      BY <1>1, <2>0
    <2>5. FindAll(docs, "Relation", [docA |-> d.docA, docB |-> d.docB, association |-> d.association]) = {}
      BY <2>2, <2>3
    <2> QED BY <1>11, <2>1, <2>3, <2>4, <2>5 DEF Creates
  <1>12. CASE /\ At(c, "store_card")
              /\ tx = TxCreateDoc(GenTxId(c, 1), loc[c].doc.class, Arg(c).space, [title |-> Arg(c).title])
    <2>1. PICK d : d = TxCreateDoc(GenTxId(c, 1), loc[c].doc.class, Arg(c).space, [title |-> Arg(c).title]).doc
      OBVIOUS
    <2>2. Named(d) /\ d.id = GenTxId(c, 1) /\ d.class = loc[c].doc.class /\ docs' = docs \cup {d}
      BY <1>1, <1>12, <2>1
    <2>3. Creates(c, d)
      BY <1>12, <2>2 DEF Creates
    <2> QED BY <2>3
  <1> QED
    BY <1>4, <1>5, <1>6, <1>7, <1>8, <1>9, <1>10, <1>11, <1>12 DEF Sends

(* A step of a call leaves the documents, or changes them in one of these ways. *)
LEMMA ActsEffects ==
    ASSUME NEW c, Acts(c)
    PROVE  \/ UNCHANGED docs
           \/ /\ Changes(c)
              /\ (\E d : Creates(c, d)) \/ (\E u : Edits(c, u)) \/ Removes(c) \/ Counts(c)
PROOF BY SentEffects DEF Acts, Does, Idles, Changes

(* The fields of a new issue. *)
LEMMA IssuedFields ==
    ASSUME NEW c, NEW i, i = Issued(c)
    PROVE  /\ Named(i)
           /\ i.id = GenTxId(c, loc[c].attempt + 1)
           /\ i.class = "Issue"
           /\ i.space = loc[c].doc.id
           /\ "number" \in DOMAIN i
           /\ i.number = loc[c].sequence + 1
PROOF
  BY DEF Issued, NewIssue, TxCollectionCreate, Extended, BuildIssueAttrs, Named

(* The documents keep the fields that all of them have. *)
LEMMA NamedStay ==
    ASSUME NEW c, Acts(c), \A d \in docs : Named(d)
    PROVE  (\A d \in docs : Named(d))'
PROOF
  <1>1. CASE \E d : Creates(c, d)
    BY <1>1 DEF Creates, Named
  <1>2. ASSUME NEW id, NEW set, NEW inc, NEW d \in Edited(TxUpdateDoc(id, set, inc)) PROVE Named(d)
    <2>1. PICK e \in docs : d = e \/ d = Updated(e, TxUpdateDoc(id, set, inc))
      BY DEF Edited
    <2>2. DOMAIN Updated(e, TxUpdateDoc(id, set, inc)) = DOMAIN e \cup DOMAIN set
      BY DEF Updated, TxUpdateDoc
    <2>3. DOMAIN e \subseteq DOMAIN d
      BY <2>1, <2>2
    <2> QED BY <2>3 DEF Named
  <1>3. CASE \E u : Edits(c, u)
    BY <1>2, <1>3 DEF Edits, Named
  <1>4. CASE Removes(c)
    BY <1>4 DEF Removes, Named
  <1>5. CASE Counts(c)
    <2>1. PICK i : i = Issued(c)
      OBVIOUS
    <2>2. docs' = Edited(TxUpdateDoc(loc[c].doc.id, << >>, {"sequence"})) \cup {i}
      BY <1>5, <2>1 DEF Counts
    <2> QED BY <1>2, <2>1, <2>2, IssuedFields DEF Named
  <1> QED BY <1>1, <1>3, <1>4, <1>5, ActsEffects DEF Named

-----------------------------------------------------------------------------
(* Every call stays within its bounds, and starts within them. *)
LEMMA WorkInit ==
    ASSUME Init
    PROVE  WorkInv
PROOF
  <1>1. PICK s \in Plans :
            /\ plan = [call |-> s.call, bridge |-> s.bridge, faults |-> s.faults, sync |-> s.sync]
            /\ docs = s.docs
            /\ BrokerInit(s.entry)
    BY DEF Init
  <1>2. AppliedInv
    BY AppliedInit
  <1>3. ASSUME NEW c \in Calls PROVE Work(c)
    <2>1. loc[c] = NoLocals /\ NoLocals.attempt = 0 /\ Told(c)
      BY <1>1 DEF Init, BrokerInit, Told, NoLocals
    <2>2. ASSUME NEW body \in Seq(Inner)
          PROVE  <<"invoked">> \o body # << >> /\ Tail(<<"invoked">> \o body) = body
      BY BehindTail DEF Inner
    <2>3. c \in DOMAIN plan.call => Tool(Arg(c)).body \in Seq(Inner)
      <3> SUFFICES ASSUME c \in DOMAIN plan.call PROVE Tool(Arg(c)).body \in Seq(Inner)
        OBVIOUS
      <3> DEFINE later == StepsOf(Arg(c)) \ ({"invoked", "action"} \cup HeadOnly)
      <3>1. later \subseteq Inner /\ "action" \in Inner
        BY DEF StepsOf, Inner, HeadOnly, WriteSteps
      <3>2. Arg(c).tool \in ToolNames
        BY <1>2 DEF AppliedInv
      <3>3. \A r \in Seq(later) : r \in Seq(Inner)
        BY <3>1
      <3> HIDE DEF later
      <3>4. ASSUME NEW r \in Seq(later) PROVE <<"action">> \o r \in Seq(Inner)
        BY <3>1, <3>3
      <3> QED BY <3>2, <3>3, <3>4, ToolPrograms DEF later
    <2>4. todo[c] # << >> => Tail(todo[c]) \in Seq(Inner)
      BY <2>2, <2>3 DEF Init, RecordTool, Arg
    <2> QED BY <1>2, <2>1, <2>4, ToolsAssumption, RestAssumption DEF Work, Ready, AppliedInv
  <1>4. /\ entry.by \in Bridges \cup {""}
        /\ DOMAIN entry = DOMAIN NoEntry
        /\ listening \subseteq Bridges
    BY <1>1, PlansAssumption DEF BrokerInit
  <1>5. docs = Docs
    BY <1>1, PlansAssumption DEF Docs, Complete
  <1> QED BY <1>3, <1>4, <1>5 DEF Init, WorkInv

(* The bounds of every call survive a step of one of them. *)
LEMMA CallKeepsWork ==
    ASSUME AppliedInv, AppliedInv', WorkInv, NEW c \in Calls, CallStep(c)
    PROVE  WorkInv'
PROOF
  <1>1. Acts(c) /\ Work(c) /\ Ready(c) /\ Told(c)
    BY CallActs DEF WorkInv, Work
  <1>2. Moves(c)
    BY CallMoves
  <1>3. /\ DOMAIN loc' = Calls
        /\ \A d \in Calls \ {c} : UNCHANGED <<todo[d], loc[d], inbox[d]>>
    BY <1>1, <1>2, OthersLocals, Others DEF WorkInv, AppliedInv, Moves
  <1>4. \A d \in Calls : CallInv(d)'
    BY DEF AppliedInv
  <1>5. Work(c)'
    <2>1. Told(c)'
      BY <1>1 DEF Acts, Told
    <2>2. CASE Notes(c) /\ UNCHANGED loc
      <3>1. todo'[c] = Tail(todo[c]) /\ todo[c] # << >> /\ Head(todo[c]) \in RecordSteps
        BY <2>2 DEF Notes, Publish, AppliedInv, FunctionsOfCalls
      <3>2. loc[c].attempt = 0
        BY <1>1, <3>1 DEF Ready, Counting, RecordSteps
      <3>3. Tail(todo[c]) \in Seq(Inner)
        BY <1>1, <3>1 DEF Work
      <3>4. Tail(todo[c]) # << >> => Tail(Tail(todo[c])) \in Seq(Inner)
        BY <3>3
      <3> QED
        BY <1>1, <1>4, <2>1, <2>2, <3>1, <3>2, <3>4, ToolsAssumption, RestAssumption DEF Work, Ready
    <2>3. CASE Does(c) /\ todo[c] # << >>
      BY <1>1, <1>4, <2>1, <2>3, DoesWork DEF WorkInv, AppliedInv, FunctionsOfCalls
    <2> QED BY <1>1, <2>2, <2>3 DEF Acts
  <1>6. ASSUME NEW d \in Calls \ {c} PROVE Work(d)'
    <2>1. Work(d)
      BY DEF WorkInv
    <2> QED BY <1>3, <1>4, <2>1 DEF Work, Ready, Told, At
  <1>7. DOMAIN entry' = DOMAIN NoEntry /\ entry'.by \in Bridges \cup {""}
    <2>1. DOMAIN [entry EXCEPT !.fresh = TRUE, !.names = SchemaNames] = DOMAIN entry
          /\ [entry EXCEPT !.fresh = TRUE, !.names = SchemaNames].by = entry.by
      BY DEF WorkInv, NoEntry
    <2>2. DOMAIN NoEntry = {"by", "fresh", "names"} /\ NoEntry.by = ""
      BY DEF NoEntry
    <2>3. \A b \in Bridges : LET e == [by |-> b, fresh |-> FALSE, names |-> {}] IN
                               DOMAIN e = DOMAIN NoEntry /\ e.by = b
      BY <2>2
    <2>4. DOMAIN entry = DOMAIN NoEntry /\ entry.by \in Bridges \cup {""}
      BY DEF WorkInv
    <2> QED BY <1>1, <2>1, <2>2, <2>3, <2>4 DEF Acts, EntryMoves
  <1>8. docs' = Docs'
    <2>1. \A d \in docs : Named(d)
      BY DEF WorkInv, Docs, Named
    <2>2. (\A d \in docs : Named(d))'
      BY <1>1, <2>1, NamedStay
    <2> QED BY <2>2 DEF Docs, Named
  <1>9. listening' \subseteq Bridges
    BY <1>1 DEF Acts, WorkInv
  <1> QED BY <1>3, <1>5, <1>6, <1>7, <1>8, <1>9 DEF WorkInv

(* Bridges and clocks leave the documents, and tell a call only what it may be told. *)
LEMMA EnvironmentQuieter ==
    ASSUME Environment \/ \E c \in Calls, b \in Bridges : BridgeStep(c, b)
    PROVE  /\ UNCHANGED <<plan, todo, loc, outcome, trail, docs, blobs>>
           /\ UNCHANGED entry \/ entry' = NoEntry
           /\ listening' \subseteq listening
           /\ \A c \in DOMAIN inbox : Told(c) => Told(c)'
PROOF
  <1>1. CASE Environment
    BY <1>1 DEF Environment, JwtDue, ResponderStops, callVars, world, Told
  <1>2. ASSUME NEW c \in Calls, NEW b \in Bridges, BridgeStep(c, b)
        PROVE  /\ UNCHANGED <<plan, todo, loc, outcome, trail, docs, blobs, entry, listening>>
               /\ \A d \in DOMAIN inbox : Told(d) => Told(d)'
    <2>1. UNCHANGED <<plan, todo, loc, outcome, trail, docs, blobs, entry, listening>>
      BY <1>2 DEF BridgeStep, HandleMint, UnknownWorkspace, AccountToken, SelectWorkspace, SendReply,
         callVars, world
    <2>2. \/ UNCHANGED inbox
          \/ \E reply \in {MintError("unknown_workspace"), MintError("accounts_failure"),
                           MintResponse(b)} : inbox' = [inbox EXCEPT ![c] = reply]
      BY <1>2 DEF BridgeStep, HandleMint, UnknownWorkspace, AccountToken, SelectWorkspace, SendReply
    <2> QED BY <2>1, <2>2 DEF Told
  <1> QED BY <1>1, <1>2

(* They survive every step: bridges and clocks tell a call only what it may be told. *)
LEMMA WorkStep ==
    ASSUME AppliedInv, WorkInv, [Next]_vars
    PROVE  WorkInv'
PROOF
  <1>1. AppliedInv'
    BY AppliedStep
  <1>2. ASSUME UNCHANGED <<plan, todo, loc, outcome, trail, docs>>,
               UNCHANGED entry \/ entry' = NoEntry, listening' \subseteq listening,
               \A c \in DOMAIN inbox : Told(c) => Told(c)'
        PROVE  WorkInv'
    <2>1. \A c \in Calls : Work(c)'
      BY <1>1, <1>2 DEF WorkInv, Work, Ready, At, AppliedInv, FunctionsOfCalls
    <2>2. NoEntry.by = ""
      BY DEF NoEntry
    <2>3. entry'.by \in Bridges \cup {""} /\ DOMAIN entry' = DOMAIN NoEntry
      BY <1>2, <2>2 DEF WorkInv
    <2>4. docs' = Docs' /\ DOMAIN loc' = Calls /\ listening' \subseteq Bridges
      BY <1>2 DEF WorkInv, Docs
    <2> QED BY <2>1, <2>3, <2>4 DEF WorkInv
  <1>3. ASSUME UNCHANGED vars PROVE WorkInv'
    BY <1>2, <1>3 DEF vars, Told
  <1>4. CASE Environment \/ \E c \in Calls, b \in Bridges : BridgeStep(c, b)
    BY <1>2, <1>4, EnvironmentQuieter
  <1> QED BY <1>1, <1>3, <1>4, CallKeepsWork DEF Next

(* Whatever the calls, bridges, documents and failures: each call is where its program and its    *)
(* outcome say; no loop of attempts runs past its bound; a call waits for a mint only where it     *)
(* uses the factory.                                                                               *)
THEOREM TypeCorrect == Spec => []TypeOK
PROOF
  <1>1. Init => AppliedInv /\ WorkInv
    BY AppliedInit, WorkInit
  <1>2. (AppliedInv /\ WorkInv) /\ [Next]_vars => (AppliedInv /\ WorkInv)'
    BY AppliedStep, WorkStep
  <1>3. AppliedInv /\ WorkInv => TypeOK
    <2> SUFFICES ASSUME AppliedInv, WorkInv, NEW c \in Calls
                 PROVE  /\ outcome[c].state \in {"running", "ok", "err"}
                        /\ (outcome[c].state # "running") =>
                              (todo[c] \in {<<"completed">>, <<"completed", "error">>, <<"error">>, << >>})
                        /\ loc[c].attempt < IF MaxAttempts > CollabAttempts THEN MaxAttempts ELSE CollabAttempts
                        /\ inbox[c] # Idle => AtEntry(c)
      BY DEF TypeOK, WorkInv
    <2>1. CallInv(c) /\ Work(c) /\ (inbox[c] # Idle => AtEntry(c))
      BY DEF AppliedInv, WorkInv
    <2>2. loc[c].attempt < IF MaxAttempts > CollabAttempts THEN MaxAttempts ELSE CollabAttempts
      BY <2>1, ToolsAssumption, RestAssumption DEF Work, Ready
    <2> QED BY <2>1, <2>2 DEF CallInv, Closing
  <1> QED BY <1>1, <1>2, <1>3, PTL DEF Spec

-----------------------------------------------------------------------------
(* What a call read earlier and still relies on: the documents only ever change in these ways. *)

(* Every project with this id has given at least so many numbers. *)
AtLeast(p, n) ==
    \A d \in docs : d.class = "Project" /\ d.id = p => "sequence" \in DOMAIN d /\ d.sequence >= n

(* The call relies on a sequence that it has read. *)
Holds(c) == At(c, "commit_issue") \/ (At(c, "read_sequence") /\ loc[c].attempt # 0)

GaveUp(c) == outcome[c].why = "contention"

(* The ids that are in use, or that a call has in hand. *)
Known ==
    {d.id : d \in docs}
    \cup {d.space : d \in {x \in docs : x.class = "Issue"}}
    \cup {loc[c].doc.id : c \in {x \in Calls : Holds(x)}}
    \cup {outcome[c].value.project : c \in {x \in Calls : GaveUp(x)}}
    \cup Managed

DocsInv ==
    /\ \A d \in docs : Complete(d)
    /\ \A d, e \in docs : d.id = e.id => d = e

(* The classes of cards are no managed ones. *)
ClassInv(c) ==
    /\ Mutating(c) => \A n \in loc[c].got : n.id \notin Managed
    /\ At(c, "store_card") => loc[c].doc.class \notin Managed

(* Every rejected attempt stands for a number that another writer took. *)
SequenceInv(c) ==
    LET l == loc[c] IN
    /\ Holds(c) => l.first \in Nat
    /\ At(c, "read_sequence") /\ l.attempt # 0 => AtLeast(l.doc.id, l.first + l.attempt)
    /\ At(c, "commit_issue") =>
           /\ l.sequence \in Nat
           /\ l.first + l.attempt <= l.sequence
           /\ AtLeast(l.doc.id, l.sequence)

(* A call that gave up has seen as many numbers taken as it made attempts. *)
ContentionInv(c) ==
    LET v == outcome[c].value IN
    GaveUp(c) => v.first \in Nat /\ AtLeast(v.project, v.first + MaxAttempts)

CreatedInv(c) ==
    Creating(c) /\ outcome[c].state = "ok" /\ outcome[c].value.id \notin Deleted =>
        Exists(outcome[c].value)

(* The ids that a call will still use are new. *)
FreshInv(c) == Txs(c) = {} => TxIds(c) \cap Known = {}

(* A call keeps to the schema of the workspace. *)
Keeps(c) ==
    LET a == Arg(c) IN
    /\ a.tool = "huly_create" => a.class \notin Managed
    /\ a.tool = "huly_create_card" => ~IsPlatformId(a.kind)
    /\ a.tool = "huly_update" => (DOMAIN a.ops.set \cup a.ops.inc) \cap KeyFields = {}
    /\ a.tool = "huly_update_issue" => DOMAIN a.set \cap KeyFields = {}

DataInv ==
    /\ DocsInv
    /\ \A c \in DOMAIN plan.call : Keeps(c) /\ ClassInv(c) /\ CreatedInv(c)
    /\ \A n \in entry.names : n.id \notin Managed
    /\ \A c \in Calls : SequenceInv(c) /\ ContentionInv(c) /\ FreshInv(c)

(* A document after an update that names none: its fields that name or tie are what they were, but *)
(* for the counter of a project.                                                                    *)
Follows(d, e) ==
    /\ DOMAIN e \cap KeyFields = DOMAIN d \cap KeyFields
    /\ \A f \in DOMAIN d \cap KeyFields :
          \/ e[f] = d[f]
          \/ f = "sequence" /\ d.class = "Project" /\ e[f] = d[f] + 1

(* An update that leaves the counters alone too. *)
Alike(d, e) ==
    /\ DOMAIN e \cap KeyFields = DOMAIN d \cap KeyFields
    /\ \A f \in DOMAIN d \cap KeyFields : e[f] = d[f]

(* A document that a call adds. *)
Added(c, d) ==
    /\ Complete(d)
    /\ d.id \in TxIds(c)
    /\ d.class = "Project" => "sequence" \in DOMAIN d /\ d.sequence = 0
    /\ d.class = "Component" =>
           FindAll(docs, "Component", [space |-> d.space, label |-> d.label]) = {}
    /\ d.class = "Relation" =>
           FindAll(docs, "Relation",
                   [docA |-> d.docA, docB |-> d.docB, association |-> d.association]) = {}
    /\ d.class = "Issue" => Holds(c) /\ d.space = loc[c].doc.id

(* What a step of a call may make of the documents: some are deleted, as a call asks for, the    *)
(* others follow, one is added.                                                                   *)
EvolvesTo(c, kept, u, new) ==
    /\ kept \subseteq docs
    /\ docs' = {u[d] : d \in kept} \cup new
    /\ \A d \in docs \ kept : d.id \in Deleted
    /\ \A d \in kept : Follows(d, u[d])
    /\ \A d, e \in new : d = e
    /\ new # {} => Txs(c) = {} /\ Txs(c)' # {}
    /\ \A d \in new : Added(c, d)

Evolves(c) == \E kept, u, new : EvolvesTo(c, kept, u, new)

(* An update of no key field. *)
LEMMA Revision ==
    ASSUME NEW id, NEW set, NEW inc, (DOMAIN set \cup inc) \cap KeyFields = {}, NEW d
    PROVE  Alike(d, Updated(d, TxUpdateDoc(id, set, inc)))
PROOF
  <1>1. PICK e : e = Updated(d, TxUpdateDoc(id, set, inc))
    OBVIOUS
  <1>2. /\ DOMAIN e = DOMAIN d \cup DOMAIN set
        /\ \A f \in DOMAIN d : f \notin DOMAIN set \cup inc => e[f] = d[f]
    BY <1>1 DEF Updated, TxUpdateDoc
  <1>4. Alike(d, e)
    BY <1>2 DEF Alike
  <1> QED BY <1>1, <1>4

(* The ids of a call that has not used them are new. *)
LEMMA NewId ==
    ASSUME DataInv, NEW c \in Calls, NEW n \in IdsPerCall, Txs(c) = {}
    PROVE  /\ GenTxId(c, n) \in TxIds(c)
           /\ GenTxId(c, n) \notin Known
PROOF BY DEF DataInv, FreshInv, TxIds

(* A transaction is the first of its call. *)
LEMMA FirstTx ==
    ASSUME AppliedInv, NEW c \in Calls, Changes(c)
    PROVE  Txs(c) = {} /\ Txs(c)' # {}
PROOF
  <1>1. PICK e : e.rec = "tx" /\ Record(c, e)
    BY DEF Changes
  <1>2. PICK S : trail[c] \in Seq(S)
    BY DEF AppliedInv, FunctionsOfCalls
  <1>3. Txs(c)' # {}
    BY <1>1, <1>2, TxsRecorded DEF AppliedInv, FunctionsOfCalls
  <1>4. todo[c] # << >> /\ Head(todo[c]) \notin {"completed", "error"}
    BY DEF Changes, Sends, At
  <1>5. CallInv(c)
    BY DEF AppliedInv
  <1>6. Txs(c) = {}
    <2>1. \A s \in Closing : s # << >> => Head(s) \in {"completed", "error"}
      BY DEF Closing
    <2> QED BY <1>4, <1>5, <2>1 DEF CallInv
  <1> QED BY <1>3, <1>6

(* The steps at which a call changes the documents are those of one tool each. *)
LEMMA SenderTool ==
    ASSUME AppliedInv, DataInv, NEW c \in Calls
    PROVE  LET a == Arg(c) IN
           /\ todo[c] # << >> => c \in DOMAIN plan.call /\ Keeps(c) /\ ClassInv(c) /\ CreatedInv(c)
           /\ At(c, "create_doc") => a.tool = "huly_create"
           /\ At(c, "update_doc") => a.tool = "huly_update"
           /\ At(c, "remove_doc") => a.tool = "huly_delete"
           /\ At(c, "update_collection") => a.tool = "huly_update_issue"
           /\ At(c, "create_card") => a.tool = "huly_create_card" /\ Mutating(c)
PROOF
  <1>1. CallInv(c)
    BY DEF AppliedInv
  <1>2. todo[c] # << >> => c \in DOMAIN plan.call /\ Keeps(c) /\ ClassInv(c) /\ CreatedInv(c)
    BY DEF AppliedInv, DataInv
  <1>3. /\ At(c, "create_doc") => Arg(c).tool = "huly_create"
        /\ At(c, "update_doc") => Arg(c).tool = "huly_update"
        /\ At(c, "remove_doc") => Arg(c).tool = "huly_delete"
        /\ At(c, "update_collection") => Arg(c).tool = "huly_update_issue"
        /\ At(c, "create_card") => Arg(c).tool = "huly_create_card" /\ Mutating(c)
    BY <1>1, AtWriting DEF WriteSteps, ReadSteps, Owns
  <1> QED BY <1>2, <1>3

(* A document that a call creates is added as the schema asks. *)
LEMMA Creation ==
    ASSUME AppliedInv, DataInv, NEW c \in Calls, NEW d, Creates(c, d), Txs(c) = {}
    PROVE  Added(c, d)
PROOF
  <1>1. 1 \in IdsPerCall
    BY ToolsAssumption DEF IdsPerCall
  <1>2. d.id \in TxIds(c) /\ d.id \notin Managed
    BY <1>1, NewId DEF Creates, Known
  <1>3. Named(d)
    BY DEF Creates
  <1>4. CASE d.class \notin Managed
    <2>1. ClassFields(d.class) = {}
      BY <1>4 DEF Managed, ClassFields
    <2> QED BY <1>2, <1>3, <1>4, <2>1 DEF Added, Complete, Named, Managed
  <1>5. CASE /\ d.class = "Project"
             /\ {"identifier", "sequence"} \subseteq DOMAIN d
             /\ d.sequence = 0
    <2>1. ClassFields(d.class) = {"identifier"}
      BY <1>5 DEF ClassFields
    <2> QED BY <1>2, <1>3, <1>5, <2>1 DEF Added, Complete, Named
  <1>6. CASE /\ d.class = "Component"
             /\ "label" \in DOMAIN d
             /\ FindAll(docs, "Component", [space |-> d.space, label |-> d.label]) = {}
    <2>1. ClassFields(d.class) = {"label"}
      BY <1>6 DEF ClassFields
    <2> QED BY <1>2, <1>3, <1>6, <2>1 DEF Added, Complete, Named
  <1>7. CASE /\ d.class = "Relation"
             /\ {"docA", "docB", "association"} \subseteq DOMAIN d
             /\ FindAll(docs, "Relation",
                        [docA |-> d.docA, docB |-> d.docB, association |-> d.association]) = {}
    <2>1. ClassFields(d.class) = {"docA", "docB", "association"}
      BY <1>7 DEF ClassFields
    <2> QED BY <1>2, <1>3, <1>7, <2>1 DEF Added, Complete, Named
  <1>8. CASE At(c, "create_doc") /\ d.class = Arg(c).class
    BY <1>4, <1>8, SenderTool DEF Keeps, At
  <1>9. CASE At(c, "store_card") /\ d.class = loc[c].doc.class
    BY <1>4, <1>9, SenderTool DEF ClassInv, At
  <1> QED BY <1>5, <1>6, <1>7, <1>8, <1>9 DEF Creates

(* An update by a tool names no key field. *)
LEMMA Edition ==
    ASSUME AppliedInv, DataInv, NEW c \in Calls, NEW tx, Edits(c, tx), NEW d
    PROVE  Alike(d, Updated(d, tx))
PROOF
  <1>1. CASE At(c, "update_doc") /\ tx = TxUpdateDoc(Arg(c).id, Arg(c).ops.set, Arg(c).ops.inc)
    <2>1. (DOMAIN Arg(c).ops.set \cup Arg(c).ops.inc) \cap KeyFields = {}
      BY <1>1, SenderTool DEF Keeps, At
    <2> QED BY <1>1, <2>1, Revision
  <1>2. CASE At(c, "update_collection") /\ tx = TxUpdateDoc(loc[c].doc.id, Arg(c).set, {})
    <2>1. (DOMAIN Arg(c).set \cup {}) \cap KeyFields = {}
      BY <1>2, SenderTool DEF Keeps, At
    <2> QED BY <1>2, <2>1, Revision
  <1> QED BY <1>1, <1>2 DEF Edits

(* Of the documents of an id, the counter is that of the one project there is. *)
LEMMA Counted ==
    ASSUME DataInv, NEW c \in Calls, Counts(c), NEW p, p = loc[c].doc.id, NEW d \in docs, d.id = p
    PROVE  /\ d.class = "Project"
           /\ "sequence" \in DOMAIN d
           /\ d.sequence = loc[c].sequence
           /\ d.sequence \in Nat
           /\ LET e == Updated(d, TxUpdateDoc(p, << >>, {"sequence"})) IN
              /\ DOMAIN e = DOMAIN d
              /\ e.sequence = d.sequence + 1
              /\ \A f \in DOMAIN d \ {"sequence"} : e[f] = d[f]
PROOF
  <1>1. PICK e \in docs :
            /\ e.class = "Project"
            /\ e.id = p
            /\ "sequence" \in DOMAIN e
            /\ e.sequence = loc[c].sequence
    BY DEF Counts, Taken, FindAll, Matches
  <1>2. d = e
    BY <1>1 DEF DataInv, DocsInv
  <1>3. d.sequence \in Nat
    BY <1>1, <1>2 DEF DataInv, DocsInv, Complete
  <1>4. LET u == Updated(d, TxUpdateDoc(p, << >>, {"sequence"})) IN
        /\ DOMAIN u = DOMAIN d
        /\ u.sequence = d.sequence + 1
        /\ \A f \in DOMAIN d \ {"sequence"} : u[f] = d[f]
    BY <1>1, <1>2 DEF Updated, TxUpdateDoc
  <1> QED BY <1>1, <1>2, <1>3, <1>4

(* A new issue is added as the schema asks: the call's attempt is below its bound, so its id is the call's own. *)
LEMMA IssueAdded ==
    ASSUME WorkInv, DataInv, NEW c \in Calls, Counts(c), Txs(c) = {}, NEW i, i = Issued(c)
    PROVE  Added(c, i)
PROOF
  <1>1. Work(c) /\ At(c, "commit_issue")
    BY DEF WorkInv, Counts
  <1>2. loc[c].attempt \in Nat /\ loc[c].attempt < MaxAttempts
    BY <1>1 DEF Work, Ready, At
  <1>3. loc[c].attempt + 1 \in IdsPerCall
    BY <1>2, ToolsAssumption DEF IdsPerCall
  <1>4. i.id \in TxIds(c) /\ i.id \notin Managed
    BY <1>3, NewId, IssuedFields DEF Known
  <1>5. /\ Named(i) /\ i.class = "Issue" /\ i.space = loc[c].doc.id /\ "number" \in DOMAIN i
    BY IssuedFields
  <1>6. ClassFields(i.class) = {"number"}
    BY <1>5 DEF ClassFields
  <1> QED BY <1>1, <1>4, <1>5, <1>6 DEF Added, Complete, Named, Holds

(* Every step of a call keeps, changes and adds documents in no other way. *)
LEMMA Evolution ==
    ASSUME AppliedInv, WorkInv, DataInv, NEW c \in Calls, Acts(c)
    PROVE  Evolves(c)
PROOF
  <1>1. ASSUME NEW d PROVE Follows(d, d)
    BY DEF Follows
  <1>2. CASE UNCHANGED docs
    <2> DEFINE u == [d \in docs |-> d]
    <2>1. EvolvesTo(c, docs, u, {})
      BY <1>1, <1>2 DEF EvolvesTo
    <2> QED BY <2>1 DEF Evolves
  <1>3. ASSUME Changes(c) PROVE Txs(c) = {} /\ Txs(c)' # {}
    BY <1>3, FirstTx
  <1>4. ASSUME Changes(c), NEW d, Creates(c, d) PROVE Evolves(c)
    <2> DEFINE u == [e \in docs |-> e]
    <2>1. docs' = {u[e] : e \in docs} \cup {d}
      BY <1>4 DEF Creates
    <2>2. Added(c, d)
      BY <1>3, <1>4, Creation
    <2>3. EvolvesTo(c, docs, u, {d})
      BY <1>1, <1>3, <1>4, <2>1, <2>2 DEF EvolvesTo
    <2> QED BY <2>3 DEF Evolves
  <1>5. ASSUME NEW tx, Edits(c, tx) PROVE Evolves(c)
    <2>0. ASSUME NEW d, NEW e, Alike(d, e) PROVE Follows(d, e)
      BY <2>0 DEF Alike, Follows
    <2> DEFINE u == [d \in docs |-> IF d.id = tx.id THEN Updated(d, tx) ELSE d]
    <2>1. docs' = {u[d] : d \in docs} \cup {}
      BY <1>5 DEF Edits, Edited
    <2>2. \A d \in docs : Follows(d, u[d])
      BY <1>1, <1>5, <2>0, Edition
    <2> HIDE DEF u
    <2>3. EvolvesTo(c, docs, u, {})
      BY <2>1, <2>2 DEF EvolvesTo
    <2> QED BY <2>3 DEF Evolves
  <1>6. CASE Removes(c)
    <2> DEFINE u == [d \in docs |-> d]
               kept == {d \in docs : d.id # Arg(c).id}
    <2>1. Arg(c).id \in Deleted
      BY <1>6, SenderTool DEF Removes, Deleted, At
    <2>2. docs' = {u[d] : d \in kept} \cup {}
      BY <1>6 DEF Removes
    <2>3. kept \in SUBSET docs /\ (\A d \in docs \ kept : d.id \in Deleted)
          /\ \A d \in kept : Follows(d, u[d])
      BY <1>1, <2>1
    <2> HIDE DEF u, kept
    <2>4. EvolvesTo(c, kept, u, {})
      BY <2>2, <2>3 DEF EvolvesTo
    <2> QED BY <2>4 DEF Evolves
  <1>7. ASSUME Changes(c), Counts(c) PROVE Evolves(c)
    <2>1. PICK p : p = loc[c].doc.id
      OBVIOUS
    <2>2. PICK tx : tx = TxUpdateDoc(p, << >>, {"sequence"})
      OBVIOUS
    <2> DEFINE u == [d \in docs |-> IF d.id = p THEN Updated(d, tx) ELSE d]
    <2>3. PICK i : i = Issued(c)
      OBVIOUS
    <2>4. docs' = {u[d] : d \in docs} \cup {i}
      <3>1. tx.id = p
        BY <2>2 DEF TxUpdateDoc
      <3> QED BY <1>7, <2>1, <2>2, <2>3, <3>1 DEF Counts, Edited
    <2>5. ASSUME NEW d \in docs, d.id = p PROVE Follows(d, Updated(d, tx))
      <3>1. PICK e : e = Updated(d, tx)
        OBVIOUS
      <3>2. /\ d.class = "Project" /\ "sequence" \in DOMAIN d
            /\ DOMAIN e = DOMAIN d
            /\ e.sequence = d.sequence + 1
            /\ \A f \in DOMAIN d \ {"sequence"} : e[f] = d[f]
        BY <1>7, <2>1, <2>2, <2>5, <3>1, Counted
      <3>3. Follows(d, e)
        BY <3>2 DEF Follows
      <3> QED BY <3>1, <3>3
    <2>6. \A d \in docs : Follows(d, u[d])
      BY <1>1, <2>5
    <2>7. Added(c, i)
      BY <1>3, <1>7, <2>3, IssueAdded
    <2> HIDE DEF u
    <2>8. EvolvesTo(c, docs, u, {i})
      BY <1>3, <1>7, <2>4, <2>6, <2>7 DEF EvolvesTo
    <2> QED BY <2>8 DEF Evolves
  <1> QED BY <1>2, <1>4, <1>5, <1>6, <1>7, ActsEffects

-----------------------------------------------------------------------------
(* What such a step keeps. *)

(* The fields that a document keeps. *)
LEMMA FollowsKeys ==
    ASSUME NEW d, NEW e, Complete(d), Follows(d, e)
    PROVE  /\ Complete(e)
           /\ e.id = d.id /\ e.class = d.class /\ e.space = d.space
           /\ \A f \in {"identifier", "number", "label", "docA", "docB", "association"} :
                 f \in DOMAIN d => f \in DOMAIN e /\ e[f] = d[f]
           /\ "sequence" \in DOMAIN d <=> "sequence" \in DOMAIN e
           /\ d.class = "Project" /\ "sequence" \in DOMAIN d => d.sequence \in Nat /\ e.sequence >= d.sequence
PROOF
  <1>1. \A f \in KeyFields : f \in DOMAIN d <=> f \in DOMAIN e
    BY DEF Follows
  <1>2. \A f \in KeyFields \ {"sequence"} : f \in DOMAIN d => e[f] = d[f]
    BY DEF Follows
  <1>3. {"id", "class", "space"} \subseteq DOMAIN d
    BY DEF Complete
  <1>4. {"id", "class", "space", "sequence", "identifier", "number", "label", "docA", "docB", "association"}
            \subseteq KeyFields
    BY DEF KeyFields
  <1>5. e.id = d.id /\ e.class = d.class /\ e.space = d.space
    BY <1>2, <1>3, <1>4
  <1>6. \A f \in {"identifier", "number", "label", "docA", "docB", "association"} :
           f \in DOMAIN d => f \in DOMAIN e /\ e[f] = d[f]
    BY <1>1, <1>2, <1>4
  <1>7. "sequence" \in DOMAIN d <=> "sequence" \in DOMAIN e
    BY <1>1, <1>4
  <1>8. d.class = "Project" /\ "sequence" \in DOMAIN d =>
            d.sequence \in Nat /\ (e.sequence = d.sequence \/ e.sequence = d.sequence + 1)
    BY <1>4 DEF Complete, Follows
  <1>9. ClassFields(d.class) \subseteq
            {"identifier", "number", "label", "docA", "docB", "association"}
    BY DEF ClassFields
  <1>10. Complete(e)
    BY <1>1, <1>3, <1>4, <1>5, <1>6, <1>7, <1>8, <1>9 DEF Complete
  <1> QED BY <1>5, <1>6, <1>7, <1>8, <1>10

(* The documents stay as the schema has them, each with an id of its own. *)
LEMMA DocsKept ==
    ASSUME DataInv, NEW c \in Calls, Evolves(c)
    PROVE  DocsInv'
PROOF
  <1>1. PICK kept, u, new : EvolvesTo(c, kept, u, new)
    BY DEF Evolves
  <1>2. /\ kept \subseteq docs
        /\ docs' = {u[d] : d \in kept} \cup new
        /\ \A d \in kept : Follows(d, u[d])
        /\ \A d, e \in new : d = e
        /\ new # {} => Txs(c) = {}
        /\ \A d \in new : Added(c, d)
    BY <1>1 DEF EvolvesTo
  <1>3. \A d \in kept : Complete(d) /\ Complete(u[d]) /\ u[d].id = d.id
    BY <1>2, FollowsKeys DEF DataInv, DocsInv
  <1>4. \A d \in new : Complete(d) /\ d.id \notin {e.id : e \in docs}
    BY <1>2 DEF Added, DataInv, FreshInv, Known
  <1>5. \A d \in docs' : Complete(d)
    BY <1>2, <1>3, <1>4
  <1>6. ASSUME NEW d \in docs', NEW e \in docs', d.id = e.id PROVE d = e
    <2>0. ASSUME NEW a \in kept, NEW x \in new PROVE u[a].id # x.id
      BY <1>2, <1>3, <1>4, <2>0
    <2>1. CASE d \in new \/ e \in new
      <3>1. (d \in new \/ \E a \in kept : d = u[a]) /\ (e \in new \/ \E a \in kept : e = u[a])
        BY <1>2
      <3> QED BY <1>2, <1>6, <2>0, <2>1, <3>1
    <2>2. ASSUME NEW a \in kept, NEW b \in kept, d = u[a], e = u[b] PROVE d = e
      <3>1. a.id = b.id
        BY <1>3, <1>6, <2>2
      <3>2. a = b
        BY <1>2, <3>1 DEF DataInv, DocsInv
      <3> QED BY <2>2, <3>2
    <2> QED BY <1>2, <2>1, <2>2
  <1> QED BY <1>5, <1>6 DEF DocsInv

(* No second component with a label in a project and no second relation comes about. *)
LEMMA UniqueKept ==
    ASSUME DataInv, NEW c \in Calls, Evolves(c), NoDuplicates
    PROVE  NoDuplicates'
PROOF
  <1>1. PICK kept, u, new : EvolvesTo(c, kept, u, new)
    BY DEF Evolves
  <1>2. /\ kept \subseteq docs
        /\ docs' = {u[d] : d \in kept} \cup new
        /\ \A d \in kept : Follows(d, u[d])
        /\ \A d, e \in new : d = e
        /\ \A d \in new : Added(c, d)
    BY <1>1 DEF EvolvesTo
  <1>3. \A d \in docs : Complete(d)
    BY DEF DataInv, DocsInv
  <1>4. /\ \A d \in docs : d.class = "Component" => "label" \in DOMAIN d /\ "space" \in DOMAIN d
        /\ \A d \in docs : d.class = "Relation" =>
              {"docA", "docB", "association"} \subseteq DOMAIN d
    BY <1>3 DEF Complete, ClassFields
  <1>5. \A d \in kept :
           LET e == u[d] IN
           /\ e.class = d.class /\ e.space = d.space
           /\ "label" \in DOMAIN d => e.label = d.label
           /\ {"docA", "docB", "association"} \subseteq DOMAIN d =>
                 e.docA = d.docA /\ e.docB = d.docB /\ e.association = d.association
    BY <1>2, <1>3, FollowsKeys
  <1>6. \A d \in new : \A e \in docs :
           /\ d.class = "Component" /\ e.class = "Component" => ~(e.space = d.space /\ e.label = d.label)
           /\ d.class = "Relation" /\ e.class = "Relation" =>
                 ~(e.docA = d.docA /\ e.docB = d.docB /\ e.association = d.association)
    <2> SUFFICES ASSUME NEW d \in new, NEW e \in docs
                 PROVE  /\ d.class = "Component" /\ e.class = "Component" =>
                              ~(e.space = d.space /\ e.label = d.label)
                        /\ d.class = "Relation" /\ e.class = "Relation" =>
                              ~(e.docA = d.docA /\ e.docB = d.docB /\ e.association = d.association)
      OBVIOUS
    <2>1. Added(c, d)
      BY <1>2
    <2>2. ASSUME d.class = "Component", e.class = "Component"
          PROVE  ~(e.space = d.space /\ e.label = d.label)
      <3>1. e \notin FindAll(docs, "Component", [space |-> d.space, label |-> d.label])
        BY <2>1, <2>2 DEF Added
      <3> QED BY <1>4, <2>2, <3>1 DEF FindAll, Matches
    <2>3. ASSUME d.class = "Relation", e.class = "Relation"
          PROVE  ~(e.docA = d.docA /\ e.docB = d.docB /\ e.association = d.association)
      <3>1. e \notin FindAll(docs, "Relation",
                            [docA |-> d.docA, docB |-> d.docB, association |-> d.association])
        BY <2>1, <2>3 DEF Added
      <3> QED BY <1>4, <2>3, <3>1 DEF FindAll, Matches
    <2> QED BY <2>2, <2>3
  <1>7. /\ \A d, e \in docs : d.class = "Component" /\ e.class = "Component" =>
              (d.space = e.space /\ d.label = e.label => d = e)
        /\ \A d, e \in docs : d.class = "Relation" /\ e.class = "Relation" =>
              (d.docA = e.docA /\ d.docB = e.docB /\ d.association = e.association => d = e)
    BY DEF NoDuplicates, FindAll, Matches
  <1>8. ASSUME NEW a \in docs', NEW b \in docs'
        PROVE  /\ a.class = "Component" /\ b.class = "Component" =>
                     (a.space = b.space /\ a.label = b.label => a = b)
               /\ a.class = "Relation" /\ b.class = "Relation" =>
                     (a.docA = b.docA /\ a.docB = b.docB /\ a.association = b.association => a = b)
    <2>1. (a \in new \/ \E d \in kept : a = u[d]) /\ (b \in new \/ \E d \in kept : b = u[d])
      BY <1>2
    <2>2. CASE a \in new /\ b \in new
      BY <1>2, <2>2
    <2>3. ASSUME NEW d \in kept, NEW e \in kept, a = u[d], b = u[e]
          PROVE  /\ a.class = "Component" /\ b.class = "Component" =>
                       (a.space = b.space /\ a.label = b.label => d = e)
                 /\ a.class = "Relation" /\ b.class = "Relation" =>
                       (a.docA = b.docA /\ a.docB = b.docB /\ a.association = b.association => d = e)
      BY <1>2, <1>4, <1>5, <1>7, <2>3
    <2>4. ASSUME NEW d \in kept, NEW e \in new, {a, b} = {u[d], e}
          PROVE  /\ a.class = "Component" /\ b.class = "Component" =>
                       ~(a.space = b.space /\ a.label = b.label)
                 /\ a.class = "Relation" /\ b.class = "Relation" =>
                       ~(a.docA = b.docA /\ a.docB = b.docB /\ a.association = b.association)
      BY <1>2, <1>4, <1>5, <1>6, <2>4
    <2> QED BY <2>1, <2>2, <2>3, <2>4
  <1> QED BY <1>8 DEF NoDuplicates, FindAll, Matches

(* The numbers that projects have given only grow. *)
LEMMA AtLeastKept ==
    ASSUME DataInv, NEW c \in Calls, Evolves(c), NEW p \in Known, NEW n \in Nat, AtLeast(p, n)
    PROVE  AtLeast(p, n)'
PROOF
  <1>1. PICK kept, u, new : EvolvesTo(c, kept, u, new)
    BY DEF Evolves
  <1>2. /\ kept \subseteq docs
        /\ docs' = {u[d] : d \in kept} \cup new
        /\ \A d \in kept : Follows(d, u[d])
        /\ new # {} => Txs(c) = {}
        /\ \A d \in new : Added(c, d)
    BY <1>1 DEF EvolvesTo
  <1>3. \A d \in new : d.id # p
    BY <1>2 DEF Added, DataInv, FreshInv
  <1>4. ASSUME NEW d \in kept, NEW e, e = u[d], e.class = "Project", e.id = p
        PROVE  "sequence" \in DOMAIN e /\ e.sequence >= n
    <2>1. Complete(d) /\ Follows(d, e)
      BY <1>2, <1>4 DEF DataInv, DocsInv
    <2>2. d.class = "Project" /\ d.id = p
      BY <1>4, <2>1, FollowsKeys
    <2>3. "sequence" \in DOMAIN d /\ d.sequence >= n
      BY <1>2, <2>2 DEF AtLeast
    <2>4. "sequence" \in DOMAIN e /\ e.sequence >= d.sequence /\ d.sequence \in Nat
      BY <2>1, <2>2, <2>3, FollowsKeys
    <2>5. e.sequence \in Nat
      BY <1>4, <2>1, <2>4, FollowsKeys DEF Complete
    <2> QED BY <2>3, <2>4, <2>5
  <1> QED BY <1>2, <1>3, <1>4 DEF AtLeast

(* A document stays unless it is deleted. *)
LEMMA ExistsKept ==
    ASSUME DataInv, NEW c \in Calls, Evolves(c), NEW v, Exists(v), v.id \notin Deleted
    PROVE  Exists(v)'
PROOF
  <1>1. PICK kept, u, new : EvolvesTo(c, kept, u, new)
    BY DEF Evolves
  <1>2. PICK d \in docs :
            /\ d.id = v.id
            /\ "identifier" \in DOMAIN v => "identifier" \in DOMAIN d /\ d.identifier = v.identifier
    BY DEF Exists
  <1>3. d \in kept /\ u[d] \in docs' /\ Follows(d, u[d]) /\ Complete(d)
    BY <1>1, <1>2 DEF EvolvesTo, DataInv, DocsInv
  <1>4. PICK e : e = u[d]
    OBVIOUS
  <1>5. /\ e.id = d.id
        /\ "identifier" \in DOMAIN d => "identifier" \in DOMAIN e /\ e.identifier = d.identifier
    BY <1>3, <1>4, FollowsKeys
  <1> QED BY <1>2, <1>3, <1>4, <1>5 DEF Exists

(* A new id is one of those of the call that makes the step. *)
LEMMA KnownKept ==
    ASSUME DataInv, NEW c \in Calls, Evolves(c)
    PROVE  LET ids == {d.id : d \in docs'} \cup {d.space : d \in {x \in docs' : x.class = "Issue"}} IN
           /\ ids \subseteq Known \cup TxIds(c)
           /\ Txs(c)' = {} => ids \subseteq Known
PROOF
  <1>1. PICK kept, u, new : EvolvesTo(c, kept, u, new)
    BY DEF Evolves
  <1>2. \A d \in kept : d \in docs /\ Complete(d) /\ Follows(d, u[d])
    BY <1>1 DEF EvolvesTo, DataInv, DocsInv
  <1>3. \A d \in kept : LET e == u[d] IN e.id = d.id /\ e.class = d.class /\ e.space = d.space
    BY <1>2, FollowsKeys
  <1>4. \A d \in kept : LET e == u[d] IN e.id \in Known /\ (e.class = "Issue" => e.space \in Known)
    BY <1>2, <1>3 DEF Known
  <1>5. /\ docs' = {u[d] : d \in kept} \cup new
        /\ new # {} => Txs(c)' # {}
        /\ \A d \in new : d.id \in TxIds(c) /\ (d.class = "Issue" => d.space \in Known)
    BY <1>1 DEF EvolvesTo, Added, Known
  <1> QED BY <1>4, <1>5

-----------------------------------------------------------------------------
(* What the call itself keeps. *)

Carries(c) ==
    /\ Holds(c)' => loc'[c].doc.id \in Known
    /\ GaveUp(c)' => outcome'[c].value.project \in Known
    /\ SequenceInv(c)'
    /\ ContentionInv(c)'
    /\ ClassInv(c)'
    /\ CreatedInv(c)'

(* The plan stays, and with it what is asked of a call. *)
LEMMA PlanStays ==
    ASSUME NEW c, UNCHANGED plan
    PROVE  /\ Arg(c)' = Arg(c) /\ Mutating(c)' = Mutating(c) /\ Creating(c)' = Creating(c)
           /\ Keeps(c)' = Keeps(c) /\ Deleted' = Deleted
PROOF
  <1>1. \A d : Arg(d)' = Arg(d)
    BY DEF Arg
  <1>2. Deleted' = Deleted
    BY <1>1 DEF Deleted
  <1> QED BY <1>1, <1>2 DEF Mutating, Creating, Keeps

(* A call that relies on nothing that it read carries on. *)
LEMMA CarriesNothing ==
    ASSUME NEW c, UNCHANGED plan,
           todo'[c] # << >> => Head(todo'[c]) \in Inner,
           loc'[c].attempt = 0,
           Mutating(c) => \A n \in loc'[c].got : n.id \notin Managed,
           GaveUp(c)' => outcome'[c].value.project \in Known,
           ContentionInv(c)',
           CreatedInv(c)'
    PROVE  Carries(c)
PROOF
  <1>1. ~Holds(c)' /\ ~At(c, "store_card")' /\ ~At(c, "commit_issue")'
    BY DEF Holds, At, Inner, HeadOnly
  <1>2. ~(At(c, "read_sequence") /\ loc[c].attempt # 0)'
    OBVIOUS
  <1>3. SequenceInv(c)'
    BY <1>1, <1>2 DEF SequenceInv
  <1>4. ClassInv(c)'
    BY <1>1, PlanStays DEF ClassInv
  <1> QED BY <1>1, <1>3, <1>4 DEF Carries

(* A call that ends has nothing left to rely on. *)
LEMMA EndCarries ==
    ASSUME NEW c, c \in DOMAIN todo, c \in DOMAIN loc, c \in DOMAIN outcome, UNCHANGED plan,
           Failed(c) \/ Answered(c)
    PROVE  Carries(c)
PROOF
  <1>1. /\ NoLocals.attempt = 0 /\ NoLocals.got = {}
        /\ "completed" \in Inner
    BY DEF NoLocals, Inner, HeadOnly
  <1>2. CASE Failed(c)
    <2>1. PICK why, code, v : why # "contention" /\ FailWith(c, why, code, v)
      BY <1>2 DEF Failed
    <2>2. /\ todo'[c] = <<"completed", "error">> /\ loc'[c] = NoLocals
          /\ outcome'[c].state = "err" /\ outcome'[c].why # "contention"
      BY <2>1 DEF FailWith
    <2>3. Head(todo'[c]) \in Inner /\ ~GaveUp(c)' /\ ContentionInv(c)' /\ CreatedInv(c)'
      BY <1>1, <2>2 DEF GaveUp, ContentionInv, CreatedInv
    <2> QED BY <1>1, <2>2, <2>3, CarriesNothing
  <1>3. CASE Answered(c)
    <2>1. PICK v : Return(c, v) /\ (Mutating(c) /\ Creating(c) => Exists(v)')
      BY <1>3 DEF Answered
    <2>2. /\ todo'[c] = <<"completed">> /\ loc'[c] = NoLocals
          /\ outcome'[c].why # "contention" /\ outcome'[c].value = v
      BY <2>1 DEF Return
    <2>3. CreatedInv(c)'
      <3>1. Creating(c) => Mutating(c)
        BY DEF Creating
      <3>2. Creating(c)' => Creating(c)
        BY PlanStays
      <3>3. Exists(v)' => Exists(outcome[c].value)'
        BY <2>2 DEF Exists
      <3> QED BY <2>1, <3>1, <3>2, <3>3 DEF CreatedInv
    <2>4. Head(todo'[c]) \in Inner /\ ~GaveUp(c)'
      BY <1>1, <2>2 DEF GaveUp
    <2>5. ContentionInv(c)'
      BY <2>4 DEF ContentionInv
    <2> QED BY <1>1, <2>2, <2>3, <2>4, <2>5, CarriesNothing
  <1> QED BY <1>2, <1>3

(* A project that has the sequence which was read is the only one of its id. *)
LEMMA SequenceRead ==
    ASSUME DataInv, NEW d \in docs, d.class = "Project", "sequence" \in DOMAIN d
    PROVE  d.id \in Known /\ d.sequence \in Nat /\ AtLeast(d.id, d.sequence)
PROOF
  <1>1. d.sequence \in Nat
    BY DEF DataInv, DocsInv, Complete
  <1>2. \A e \in docs : e.id = d.id => e = d
    BY DEF DataInv, DocsInv
  <1> QED BY <1>1, <1>2 DEF AtLeast, Known

(* A commit is rejected because other writers took more numbers. *)
LEMMA SequenceTaken ==
    ASSUME DataInv, NEW p, NEW n \in Nat, AtLeast(p, n),
           FindAll(docs, "Project", [id |-> p, sequence |-> n]) = {}
    PROVE  AtLeast(p, n + 1)
PROOF
  <1> SUFFICES ASSUME NEW d \in docs, d.class = "Project", d.id = p
               PROVE  "sequence" \in DOMAIN d /\ d.sequence >= n + 1
    BY DEF AtLeast
  <1>1. "sequence" \in DOMAIN d /\ d.sequence >= n /\ d.sequence \in Nat
    BY DEF AtLeast, DataInv, DocsInv, Complete
  <1>2. "id" \in DOMAIN d
    BY DEF DataInv, DocsInv, Complete
  <1>3. d.sequence # n
    BY <1>1, <1>2 DEF FindAll, Matches
  <1> QED BY <1>1, <1>3

(* Every step of a call leaves it with what it relies on. *)
LEMMA ActsCarry ==
    ASSUME AppliedInv, WorkInv, DataInv, NEW c \in Calls, Acts(c), todo[c] # << >>
    PROVE  Carries(c)
PROOF
  <1>1. /\ UNCHANGED plan
        /\ c \in DOMAIN todo /\ c \in DOMAIN loc /\ c \in DOMAIN outcome
        /\ CallInv(c) /\ Work(c) /\ Ready(c)
    BY DEF Acts, AppliedInv, FunctionsOfCalls, WorkInv, Work
  <1>2. /\ ClassInv(c) /\ CreatedInv(c) /\ SequenceInv(c) /\ ContentionInv(c)
        /\ GaveUp(c) => outcome[c].value.project \in Known
        /\ Holds(c) => loc[c].doc.id \in Known
    BY SenderTool DEF DataInv, Known
  <1>3. /\ Arg(c)' = Arg(c) /\ Mutating(c)' = Mutating(c)
        /\ Creating(c)' = Creating(c) /\ Deleted' = Deleted
    BY <1>1, PlanStays
  <1>4. ASSUME UNCHANGED <<docs, outcome[c]>>
        PROVE  /\ CreatedInv(c)' /\ ContentionInv(c)'
               /\ GaveUp(c)' => outcome'[c].value.project \in Known
    <2>1. CreatedInv(c)'
      BY <1>2, <1>3, <1>4 DEF CreatedInv, Exists
    <2>2. ContentionInv(c)' /\ (GaveUp(c)' => outcome'[c].value.project \in Known)
      BY <1>2, <1>4 DEF ContentionInv, GaveUp, AtLeast
    <2> QED BY <2>1, <2>2
  <1>5. ASSUME UNCHANGED docs, NEW steps, NEW l, Become(c, steps, l)
        PROVE  todo'[c] = steps \o Tail(todo[c]) /\ loc'[c] = l /\ UNCHANGED outcome[c]
    BY <1>1, <1>5 DEF Become
  <1>6. CASE Notes(c) /\ UNCHANGED <<docs, loc>>
    <2>1. todo'[c] = Tail(todo[c]) /\ Head(todo[c]) \in RecordSteps /\ UNCHANGED outcome
      BY <1>1, <1>6 DEF Notes, Publish
    <2>2. loc[c].attempt = 0
      BY <1>1, <2>1 DEF Ready, Counting, RecordSteps
    <2>3. todo'[c] # << >> => Head(todo'[c]) \in Inner
      BY <1>1, <2>1 DEF Work
    <2> QED BY <1>1, <1>2, <1>4, <1>6, <2>1, <2>2, <2>3, CarriesNothing DEF ClassInv
  <1>7. CASE Stays(c) /\ UNCHANGED docs
    <2>1. UNCHANGED <<todo, outcome>>
      BY <1>7 DEF Stays
    <2>2. /\ loc'[c].doc = loc[c].doc /\ loc'[c].first = loc[c].first
          /\ loc'[c].sequence = loc[c].sequence
          /\ Mutating(c) => loc'[c].got = loc[c].got
          /\ \/ loc'[c].attempt = loc[c].attempt
             \/ Head(todo[c]) \in {"upload_markup", "fetch_markup"}
      BY <1>1, <1>7 DEF Stays
    <2>3. /\ Holds(c)' <=> Holds(c)
          /\ At(c, "commit_issue")' <=> At(c, "commit_issue")
          /\ At(c, "store_card")' <=> At(c, "store_card")
          /\ At(c, "read_sequence")' <=> At(c, "read_sequence")
          /\ At(c, "read_sequence") \/ At(c, "commit_issue") => loc'[c].attempt = loc[c].attempt
      BY <2>1, <2>2 DEF Holds, At
    <2>4. ClassInv(c)'
      BY <1>2, <1>3, <2>2, <2>3 DEF ClassInv
    <2>5. SequenceInv(c)'
      BY <1>2, <1>7, <2>2, <2>3 DEF SequenceInv, AtLeast
    <2> QED BY <1>2, <1>4, <1>7, <2>1, <2>2, <2>3, <2>4, <2>5 DEF Carries
  <1>8. CASE Passes(c) /\ UNCHANGED docs
    <2>1. PICK steps \in Seq(Inner) : \E l :
              /\ Become(c, steps, l)
              /\ l.attempt = 0
              /\ Mutating(c) => l.got \subseteq loc[c].got \cup entry.names
      BY <1>8 DEF Passes
    <2>2. PICK l :
              /\ Become(c, steps, l)
              /\ l.attempt = 0
              /\ Mutating(c) => l.got \subseteq loc[c].got \cup entry.names
      BY <2>1
    <2>3. todo'[c] = steps \o Tail(todo[c]) /\ loc'[c] = l /\ UNCHANGED outcome[c]
      BY <1>5, <1>8, <2>2
    <2>4. todo'[c] # << >> => Head(todo'[c]) \in Inner
      BY <1>1, <2>3, BehindTail DEF Work
    <2>5. Mutating(c) => \A n \in l.got : n.id \notin Managed
      BY <1>2, <2>2 DEF ClassInv, DataInv
    <2> QED BY <1>1, <1>4, <1>8, <2>2, <2>3, <2>4, <2>5, CarriesNothing
  <1>9. CASE ReadsSequence(c) /\ UNCHANGED docs
    <2>1. PICK d \in FindAll(docs, "Project", [id |-> loc[c].doc.id]) :
              /\ "sequence" \in DOMAIN d
              /\ Become(c, <<"commit_issue">>,
                        [loc[c] EXCEPT !.tries = << >>, !.sequence = d.sequence,
                                       !.first = IF loc[c].attempt = 0 THEN d.sequence ELSE @])
      BY <1>9 DEF ReadsSequence
    <2>2. d \in docs /\ d.class = "Project" /\ d.id = loc[c].doc.id
      BY <2>1 DEF FindAll, Matches
    <2>3. d.id \in Known /\ d.sequence \in Nat /\ AtLeast(d.id, d.sequence)
      BY <2>1, <2>2, SequenceRead
    <2>4. PICK l : l = [loc[c] EXCEPT !.tries = << >>, !.sequence = d.sequence,
                                      !.first = IF loc[c].attempt = 0 THEN d.sequence ELSE @]
      OBVIOUS
    <2>5. /\ l.doc = loc[c].doc /\ l.attempt = loc[c].attempt /\ l.sequence = d.sequence
          /\ l.first = IF loc[c].attempt = 0 THEN d.sequence ELSE loc[c].first
          /\ l.got = loc[c].got
      BY <1>1, <2>4 DEF Ready, NoLocals
    <2>6. todo'[c] = <<"commit_issue">> \o Tail(todo[c]) /\ loc'[c] = l /\ UNCHANGED outcome[c]
      BY <1>5, <1>9, <2>1, <2>4
    <2>7. todo'[c] # << >> /\ Head(todo'[c]) = "commit_issue"
      BY <1>1, <2>6 DEF Work
    <2>8. l.first \in Nat /\ l.first + l.attempt <= l.sequence
      <3>1. loc[c].attempt \in Nat /\ At(c, "read_sequence")
        BY <1>1, <1>9 DEF Ready, ReadsSequence
      <3>2. CASE loc[c].attempt = 0
        BY <2>3, <2>5, <3>2
      <3>3. CASE loc[c].attempt # 0
        <4>1. loc[c].first \in Nat /\ AtLeast(loc[c].doc.id, loc[c].first + loc[c].attempt)
          BY <1>2, <3>1, <3>3 DEF SequenceInv, Holds
        <4>2. d.sequence >= loc[c].first + loc[c].attempt
          BY <2>2, <4>1 DEF AtLeast
        <4> QED BY <2>3, <2>5, <3>1, <3>3, <4>1, <4>2
      <3> QED BY <3>2, <3>3
    <2>9. At(c, "commit_issue")' /\ ~At(c, "read_sequence")' /\ ~At(c, "store_card")'
      BY <2>7 DEF At
    <2>10. AtLeast(l.doc.id, l.sequence)'
      BY <1>9, <2>2, <2>3, <2>5 DEF AtLeast
    <2>11. SequenceInv(c)'
      BY <2>3, <2>5, <2>6, <2>8, <2>9, <2>10 DEF SequenceInv, AtLeast
    <2>12. ClassInv(c)'
      BY <1>2, <1>3, <2>5, <2>6, <2>9 DEF ClassInv
    <2>13. loc'[c].doc.id \in Known
      BY <2>2, <2>3, <2>5, <2>6
    <2> QED BY <1>4, <1>9, <2>6, <2>11, <2>12, <2>13 DEF Carries
  <1>10. ASSUME Contends(c)
         PROVE  /\ loc[c].doc.id \in Known
                /\ loc[c].attempt \in Nat /\ loc[c].first \in Nat
                /\ AtLeast(loc[c].doc.id, loc[c].first + (loc[c].attempt + 1))
    <2>1. At(c, "commit_issue") /\ Taken(c)
      BY <1>10 DEF Contends
    <2>2. /\ loc[c].first \in Nat /\ loc[c].sequence \in Nat /\ loc[c].attempt \in Nat
          /\ loc[c].first + loc[c].attempt <= loc[c].sequence
          /\ AtLeast(loc[c].doc.id, loc[c].sequence)
          /\ loc[c].doc.id \in Known
      BY <1>1, <1>2, <2>1 DEF SequenceInv, Holds, Ready
    <2>3. AtLeast(loc[c].doc.id, loc[c].sequence + 1)
      BY <2>1, <2>2, SequenceTaken DEF Taken
    <2>4. ASSUME NEW d \in docs, "sequence" \in DOMAIN d, d.class = "Project"
          PROVE  d.sequence \in Nat
      BY <2>4 DEF DataInv, DocsInv, Complete
    <2> QED BY <2>2, <2>3, <2>4 DEF AtLeast
  <1>11. CASE Contends(c) /\ NextAttempt(c) /\ UNCHANGED docs
    <2>1. PICK l : l = [loc[c] EXCEPT !.tries = << >>, !.attempt = @ + 1]
      OBVIOUS
    <2>2. /\ l.doc = loc[c].doc /\ l.first = loc[c].first /\ l.got = loc[c].got
          /\ l.attempt = loc[c].attempt + 1
      BY <1>1, <2>1 DEF Ready, NoLocals
    <2>3. todo'[c] = <<"read_sequence">> \o Tail(todo[c]) /\ loc'[c] = l /\ UNCHANGED outcome[c]
      BY <1>5, <1>11, <2>1 DEF NextAttempt
    <2>4. todo'[c] # << >> /\ Head(todo'[c]) = "read_sequence"
      BY <1>1, <2>3 DEF Work
    <2>5. ~At(c, "commit_issue")' /\ ~At(c, "store_card")'
      BY <2>4 DEF At
    <2>6. AtLeast(l.doc.id, l.first + l.attempt)'
      BY <1>10, <1>11, <2>2 DEF AtLeast
    <2>7. SequenceInv(c)'
      BY <1>10, <1>11, <2>2, <2>3, <2>5, <2>6 DEF SequenceInv, AtLeast
    <2>8. ClassInv(c)'
      BY <1>2, <1>3, <2>2, <2>3, <2>5 DEF ClassInv
    <2>9. loc'[c].doc.id \in Known
      BY <1>10, <1>11, <2>2, <2>3
    <2> QED BY <1>4, <1>11, <2>3, <2>7, <2>8, <2>9 DEF Carries
  <1>12. CASE /\ Contends(c)
              /\ ~(loc[c].attempt + 1 < MaxAttempts)
              /\ UNCHANGED docs
    <2>1. PICK v : v = [project |-> loc[c].doc.id, first |-> loc[c].first]
      OBVIOUS
    <2>2. FailWith(c, "contention", Plain, v)
      BY <1>12, <2>1 DEF Contends
    <2>3. /\ todo'[c] = <<"completed", "error">> /\ loc'[c] = NoLocals
          /\ outcome'[c].value = v /\ outcome'[c].state = "err"
      BY <1>1, <2>2 DEF FailWith
    <2>4. loc[c].attempt + 1 = MaxAttempts
      <3>1. At(c, "commit_issue") /\ ~At(c, "upload_markup") /\ ~At(c, "fetch_markup")
        BY <1>12 DEF Contends, At
      <3>2. loc[c].attempt < MaxAttempts
        BY <1>1, <3>1 DEF Work
      <3> QED BY <1>10, <1>12, <3>2, ToolsAssumption
    <2>5. v.project \in Known /\ v.first \in Nat /\ AtLeast(v.project, v.first + MaxAttempts)'
      BY <1>10, <1>12, <2>1, <2>4 DEF AtLeast
    <2>6. ContentionInv(c)'
      BY <2>3, <2>5 DEF ContentionInv, AtLeast
    <2>7. CreatedInv(c)'
      BY <2>3 DEF CreatedInv
    <2>8. "completed" \in Inner /\ NoLocals.attempt = 0 /\ NoLocals.got = {}
      BY DEF Inner, HeadOnly, NoLocals
    <2> QED BY <1>1, <2>3, <2>5, <2>6, <2>7, <2>8, CarriesNothing
  <1>13. CASE KnowsClass(c) /\ UNCHANGED docs
    <2>1. PICK class :
              /\ At(c, "create_card")
              /\ IsPlatformId(Arg(c).kind) \/ \E n \in loc[c].got : n.id = class
              /\ Become(c, <<"store_card">>, [NoLocals EXCEPT !.doc = [class |-> class]])
      BY <1>13 DEF KnowsClass
    <2>2. PICK l : l = [NoLocals EXCEPT !.doc = [class |-> class]]
      OBVIOUS
    <2>3. l.attempt = 0 /\ l.got = {} /\ l.doc.class = class
      BY <2>2 DEF NoLocals
    <2>4. todo'[c] = <<"store_card">> \o Tail(todo[c]) /\ loc'[c] = l /\ UNCHANGED outcome[c]
      BY <1>5, <1>13, <2>1, <2>2
    <2>5. Head(todo'[c]) = "store_card"
      BY <1>1, <2>4 DEF Work
    <2>6. ~Holds(c)' /\ ~At(c, "commit_issue")' /\ ~At(c, "read_sequence")'
      BY <2>5 DEF Holds, At
    <2>7. class \notin Managed
      <3>1. Mutating(c) /\ Arg(c).tool = "huly_create_card" /\ Keeps(c)
        BY <2>1, SenderTool
      <3> QED BY <1>2, <2>1, <3>1 DEF ClassInv, Keeps
    <2>8. ClassInv(c)'
      BY <2>3, <2>4, <2>7 DEF ClassInv
    <2>9. SequenceInv(c)'
      BY <2>6 DEF SequenceInv
    <2> QED BY <1>4, <1>13, <2>4, <2>6, <2>8, <2>9 DEF Carries
  <1>14. CASE Failed(c) \/ Answered(c)
    BY <1>1, <1>14, EndCarries
  <1> QED
    BY <1>6, <1>7, <1>8, <1>9, <1>11, <1>12, <1>13, <1>14 DEF Acts, Does, Idles, Changes, Contends

-----------------------------------------------------------------------------
(* What a call relies on holds whatever the others do. *)

(* A transaction that was applied stays applied. *)
LEMMA TxsGrow ==
    ASSUME AppliedInv, NEW c \in Calls, Moves(c), Txs(c)' = {}
    PROVE  Txs(c) = {}
PROOF
  <1>1. PICK S : c \in DOMAIN trail /\ trail[c] \in Seq(S)
    BY DEF AppliedInv, FunctionsOfCalls
  <1>2. ASSUME NEW e, Record(c, e) PROVE Txs(c) = {}
    BY <1>1, <1>2, TxsRecorded
  <1>3. UNCHANGED trail => Txs(c) = {}
    BY DEF Txs
  <1>4. UNCHANGED trail \/ \E e : Record(c, e)
    BY DEF Moves, Notes, Publish, Way, GoesOn, Answers, Fails, Commits, Denied
  <1> QED BY <1>2, <1>3, <1>4

(* The names in the cached schema are those of documents. *)
LEMMA NamesKept ==
    ASSUME WorkInv, DataInv, EntryMoves
    PROVE  \A n \in entry'.names : n.id \notin Managed
PROOF
  <1>1. \A n \in entry.names : n.id \notin Managed
    BY DEF DataInv
  <1>2. \A n \in SchemaNames : n.id \notin Managed
    BY DEF SchemaNames, DataInv, DocsInv, Complete
  <1>3. NoEntry.names = {}
    BY DEF NoEntry
  <1>4. [entry EXCEPT !.fresh = TRUE, !.names = SchemaNames].names = SchemaNames
    BY DEF WorkInv, NoEntry
  <1>5. entry'.names \in {entry.names, {}, SchemaNames}
    <2>1. CASE \E b \in Bridges : entry' = [by |-> b, fresh |-> FALSE, names |-> {}]
      BY <2>1
    <2>2. CASE entry' = [entry EXCEPT !.fresh = TRUE, !.names = SchemaNames]
      BY <1>4, <2>2, Zenon
    <2> QED BY <1>3, <2>1, <2>2 DEF EntryMoves
  <1> QED BY <1>1, <1>2, <1>5

(* A call keeps what it relies on, whatever another one does to the documents. *)
LEMMA SequenceStays ==
    ASSUME WorkInv, DataInv, NEW c \in Calls, Evolves(c), NEW d \in Calls,
           UNCHANGED <<todo[d], loc[d], outcome[d]>>
    PROVE  SequenceInv(d)' /\ ContentionInv(d)'
PROOF
  <1>1. SequenceInv(d) /\ ContentionInv(d)
    BY DEF DataInv
  <1>2. /\ Holds(d) => loc[d].doc.id \in Known
        /\ GaveUp(d) => outcome[d].value.project \in Known
    BY DEF Known
  <1>3. /\ At(d, "read_sequence")' <=> At(d, "read_sequence")
        /\ At(d, "commit_issue")' <=> At(d, "commit_issue")
        /\ Holds(d)' <=> Holds(d)
    BY DEF At, Holds
  <1>4. loc[d].attempt \in Nat
    BY DEF WorkInv, Work, Ready
  <1>5. ASSUME At(d, "read_sequence"), loc[d].attempt # 0
        PROVE  AtLeast(loc[d].doc.id, loc[d].first + loc[d].attempt)'
    <2>1. /\ loc[d].doc.id \in Known
          /\ loc[d].first + loc[d].attempt \in Nat
          /\ AtLeast(loc[d].doc.id, loc[d].first + loc[d].attempt)
      BY <1>1, <1>2, <1>4, <1>5 DEF SequenceInv, Holds
    <2>2. PICK p, n : p = loc[d].doc.id /\ n = loc[d].first + loc[d].attempt
      OBVIOUS
    <2>3. AtLeast(p, n)'
      BY <2>1, <2>2, AtLeastKept
    <2> QED BY <2>2, <2>3 DEF AtLeast
  <1>6. ASSUME At(d, "commit_issue")
        PROVE  /\ loc[d].sequence \in Nat
               /\ loc[d].first + loc[d].attempt <= loc[d].sequence
               /\ AtLeast(loc[d].doc.id, loc[d].sequence)'
    <2>1. /\ loc[d].doc.id \in Known
          /\ loc[d].sequence \in Nat
          /\ loc[d].first + loc[d].attempt <= loc[d].sequence
          /\ AtLeast(loc[d].doc.id, loc[d].sequence)
      BY <1>1, <1>2, <1>6 DEF SequenceInv, Holds
    <2>2. PICK p, n : p = loc[d].doc.id /\ n = loc[d].sequence
      OBVIOUS
    <2>3. AtLeast(p, n)'
      BY <2>1, <2>2, AtLeastKept
    <2> QED BY <2>1, <2>2, <2>3 DEF AtLeast
  <1>7. ASSUME GaveUp(d)
        PROVE  /\ outcome[d].value.first \in Nat
               /\ AtLeast(outcome[d].value.project, outcome[d].value.first + MaxAttempts)'
    <2>1. /\ outcome[d].value.project \in Known
          /\ outcome[d].value.first \in Nat
          /\ outcome[d].value.first + MaxAttempts \in Nat
          /\ AtLeast(outcome[d].value.project, outcome[d].value.first + MaxAttempts)
      BY <1>1, <1>2, <1>7, ToolsAssumption DEF ContentionInv
    <2>2. PICK p, n : p = outcome[d].value.project /\ n = outcome[d].value.first + MaxAttempts
      OBVIOUS
    <2>3. AtLeast(p, n)'
      BY <2>1, <2>2, AtLeastKept
    <2> QED BY <2>1, <2>2, <2>3 DEF AtLeast
  <1>8. SequenceInv(d)'
    BY <1>1, <1>3, <1>5, <1>6 DEF SequenceInv, AtLeast
  <1>9. ContentionInv(d)'
    BY <1>7 DEF ContentionInv, GaveUp, AtLeast
  <1> QED BY <1>8, <1>9

(* The invariant of the documents survives a step of a call. *)
LEMMA CallKeepsData ==
    ASSUME AppliedInv, WorkInv, DataInv, NEW c \in Calls, CallStep(c)
    PROVE  DataInv'
PROOF
  <1>1. Ready(c) /\ Told(c)
    BY DEF WorkInv, Work
  <1>2. Acts(c) /\ Moves(c)
    BY <1>1, CallActs, CallMoves
  <1>3. todo[c] # << >> /\ UNCHANGED plan
    BY <1>2 DEF Moves
  <1>4. Evolves(c) /\ Carries(c)
    BY <1>2, <1>3, Evolution, ActsCarry
  <1>5. \A d \in Calls \ {c} : UNCHANGED <<todo[d], loc[d], outcome[d], trail[d]>>
    BY <1>2, OthersLocals, Others DEF WorkInv, AppliedInv, Moves
  <1>6. DocsInv'
    BY <1>4, DocsKept
  <1>7. \A n \in entry'.names : n.id \notin Managed
    BY <1>2, NamesKept DEF Acts
  <1>8. \A d \in Calls : SequenceInv(d)' /\ ContentionInv(d)'
    BY <1>4, <1>5, SequenceStays DEF Carries
  <1>9. ASSUME NEW d \in DOMAIN plan'.call PROVE Keeps(d)' /\ ClassInv(d)' /\ CreatedInv(d)'
    <2>1. d \in DOMAIN plan.call /\ d \in Calls
      BY <1>3, <1>9 DEF AppliedInv
    <2>2. Keeps(d)'
      BY <1>3, <2>1, PlanStays DEF DataInv
    <2>3. CASE d = c
      BY <1>4, <2>2, <2>3 DEF Carries
    <2>4. CASE d # c
      <3>1. ClassInv(d) /\ CreatedInv(d) /\ UNCHANGED <<todo[d], loc[d], outcome[d]>>
        BY <1>5, <2>1, <2>4 DEF DataInv
      <3>2. ClassInv(d)'
        BY <1>3, <3>1, PlanStays DEF ClassInv, At
      <3>3. CreatedInv(d)'
        <4> SUFFICES ASSUME Creating(d), outcome[d].state = "ok", outcome[d].value.id \notin Deleted
                     PROVE  Exists(outcome[d].value)'
          BY <1>3, <3>1, PlanStays DEF CreatedInv
        <4>1. PICK v : v = outcome[d].value
          OBVIOUS
        <4>2. Exists(v)'
          BY <1>4, <3>1, <4>1, ExistsKept DEF CreatedInv
        <4> QED BY <3>1, <4>1, <4>2 DEF Exists
      <3> QED BY <2>2, <3>2, <3>3
    <2> QED BY <2>3, <2>4
  <1>10. /\ Known' \subseteq Known \cup TxIds(c)
         /\ Txs(c)' = {} => Known' \subseteq Known
    <2> DEFINE ids == {d.id : d \in docs'} \cup {d.space : d \in {x \in docs' : x.class = "Issue"}}
               held == {loc'[x].doc.id : x \in {y \in Calls : Holds(y)'}}
               left == {outcome'[x].value.project : x \in {y \in Calls : GaveUp(y)'}}
    <2>1. Known' = ids \cup held \cup left \cup Managed
      BY DEF Known, Managed
    <2>2. ids \subseteq Known \cup TxIds(c) /\ (Txs(c)' = {} => ids \subseteq Known)
      BY <1>4, KnownKept
    <2>3. ASSUME NEW x \in Calls, Holds(x)' PROVE loc'[x].doc.id \in Known
      <3>1. CASE x = c
        BY <1>4, <2>3, <3>1 DEF Carries
      <3>2. CASE x # c
        <4>1. UNCHANGED <<todo[x], loc[x]>> /\ Holds(x)
          BY <1>5, <2>3, <3>2 DEF Holds, At
        <4> QED BY <4>1 DEF Known
      <3> QED BY <3>1, <3>2
    <2>4. ASSUME NEW x \in Calls, GaveUp(x)' PROVE outcome'[x].value.project \in Known
      <3>1. CASE x = c
        BY <1>4, <2>4, <3>1 DEF Carries
      <3>2. CASE x # c
        <4>1. UNCHANGED outcome[x] /\ GaveUp(x)
          BY <1>5, <2>4, <3>2 DEF GaveUp
        <4> QED BY <4>1 DEF Known
      <3> QED BY <3>1, <3>2
    <2>5. held \subseteq Known /\ left \subseteq Known /\ Managed \subseteq Known
      BY <2>3, <2>4 DEF Known
    <2> HIDE DEF ids, held, left
    <2> QED BY <2>1, <2>2, <2>5
  <1>11. ASSUME NEW d \in Calls PROVE FreshInv(d)'
    <2> SUFFICES ASSUME Txs(d)' = {} PROVE TxIds(d) \cap Known' = {}
      BY DEF FreshInv, TxIds, GenTxId
    <2>1. CASE d = c
      BY <1>2, <1>10, <2>1, TxsGrow DEF DataInv, FreshInv
    <2>2. CASE d # c
      <3>1. Txs(d) = {}
        BY <1>5, <2>2 DEF Txs
      <3>2. TxIds(d) \cap TxIds(c) = {}
        BY <2>2, GenTxIdAssumption DEF TxIds
      <3> QED BY <1>10, <3>1, <3>2 DEF DataInv, FreshInv
    <2> QED BY <2>1, <2>2
  <1> QED BY <1>6, <1>7, <1>8, <1>9, <1>11 DEF DataInv

(* Bridges and clocks leave the invariant of the documents alone. *)
LEMMA DataStays ==
    ASSUME DataInv, UNCHANGED <<plan, todo, loc, outcome, trail, docs>>,
           UNCHANGED entry \/ entry' = NoEntry
    PROVE  DataInv'
PROOF
  <1>1. \A n \in entry'.names : n.id \notin Managed
    <2>1. NoEntry.names = {}
      BY DEF NoEntry
    <2> QED BY <2>1 DEF DataInv
  <1>2. DocsInv'
    BY DEF DataInv, DocsInv
  <1>3. \A c \in DOMAIN plan'.call : Keeps(c)' /\ ClassInv(c)' /\ CreatedInv(c)'
    BY PlanStays DEF DataInv, ClassInv, CreatedInv, At, Exists
  <1>4. Known' = Known
    BY DEF Known, Holds, GaveUp, At, Managed
  <1>5. \A c \in Calls : SequenceInv(c)' /\ ContentionInv(c)' /\ FreshInv(c)'
    <2> TAKE c \in Calls
    <2>1. SequenceInv(c) /\ ContentionInv(c) /\ FreshInv(c)
      BY DEF DataInv
    <2>2. SequenceInv(c)'
      BY <2>1 DEF SequenceInv, Holds, At, AtLeast
    <2>3. ContentionInv(c)'
      BY <2>1 DEF ContentionInv, GaveUp, AtLeast
    <2>4. FreshInv(c)'
      BY <1>4, <2>1 DEF FreshInv, Txs, TxIds, GenTxId
    <2> QED BY <2>2, <2>3, <2>4
  <1> QED BY <1>1, <1>2, <1>3, <1>5 DEF DataInv

(* The invariant of the documents survives every step. *)
LEMMA DataStep ==
    ASSUME AppliedInv, WorkInv, DataInv, [Next]_vars
    PROVE  DataInv'
PROOF
  <1>1. UNCHANGED vars => DataInv'
    BY DataStays DEF vars
  <1>2. Environment \/ (\E c \in Calls, b \in Bridges : BridgeStep(c, b)) => DataInv'
    BY DataStays, EnvironmentQuieter
  <1> QED BY <1>1, <1>2, CallKeepsData DEF Next

(* The plan's documents meet it, and the calls start with nothing in hand. *)
LEMMA DataInit ==
    ASSUME Init, RawToolsElsewhere
    PROVE  DataInv
PROOF
  <1>1. PICK s \in Plans :
            /\ plan = [call |-> s.call, bridge |-> s.bridge, faults |-> s.faults, sync |-> s.sync]
            /\ docs = s.docs
            /\ BrokerInit(s.entry)
    BY DEF Init
  <1>2. plan.call = s.call /\ docs = s.docs /\ entry = s.entry
    BY <1>1 DEF BrokerInit
  <1>3. DocsInv /\ \A n \in entry.names : n.id \notin Managed
    BY <1>2, PlansAssumption DEF DocsInv
  <1>4. \A c \in Calls : /\ loc[c] = NoLocals
                         /\ outcome[c].state = "running" /\ outcome[c].why # "contention"
    BY DEF Init, Running
  <1>5. NoLocals.attempt = 0 /\ NoLocals.got = {}
    BY DEF NoLocals
  <1>6. \A c \in Calls : todo[c] # << >> => Head(todo[c]) = "invoked"
    <2> SUFFICES ASSUME NEW c \in Calls, todo[c] # << >> PROVE Head(todo[c]) = "invoked"
      OBVIOUS
    <2>1. AppliedInv
      BY AppliedInit
    <2>2. c \in DOMAIN plan.call /\ Arg(c).tool \in ToolNames
      BY <2>1 DEF AppliedInv
    <2>3. todo[c] = <<"invoked">> \o Tool(Arg(c)).body
      BY <2>2 DEF Init, RecordTool, Arg
    <2>4. \E S : Tool(Arg(c)).body \in Seq(S)
      <3>1. \A S : \A r \in Seq(S) : <<"action">> \o r \in Seq(S \cup {"action"})
        OBVIOUS
      <3>2. PICK later : later = StepsOf(Arg(c)) \ {"invoked", "action"}
        OBVIOUS
      <3>3. \/ Tool(Arg(c)).body \in Seq(later)
            \/ \E rest \in Seq(later) : Tool(Arg(c)).body = <<"action">> \o rest
        BY <2>2, <3>2, ToolBodies
      <3> QED BY <3>1, <3>3
    <2> QED BY <2>3, <2>4
  <1>7. \A c \in Calls : ~Holds(c) /\ ~GaveUp(c)
                         /\ ~At(c, "store_card") /\ ~At(c, "commit_issue") /\ ~At(c, "read_sequence")
    BY <1>4, <1>6 DEF Holds, GaveUp, At
  <1>8. ASSUME NEW c \in DOMAIN plan.call PROVE Keeps(c) /\ ClassInv(c) /\ CreatedInv(c)
    <2>1. c \in Calls
      BY <1>2, <1>8, PlansAssumption
    <2>2. Keeps(c)
      <3>1. plan.call[c].tool = "huly_update_issue" =>
                DOMAIN plan.call[c].set \subseteq
                    {"title", "description", "status", "priority", "component"}
        BY <1>2, <1>8, PlansAssumption
      <3>2. {"title", "description", "status", "priority", "component"} \cap KeyFields = {}
        BY DEF KeyFields
      <3> QED BY <1>2, <1>8, <3>1, <3>2 DEF RawToolsElsewhere, Keeps, Arg
    <2>3. ClassInv(c)
      BY <1>4, <1>5, <1>7, <2>1 DEF ClassInv
    <2>4. CreatedInv(c)
      BY <1>4, <2>1 DEF CreatedInv
    <2> QED BY <2>2, <2>3, <2>4
  <1>9. ASSUME NEW c \in Calls PROVE SequenceInv(c) /\ ContentionInv(c) /\ FreshInv(c)
    <2>1. Known \subseteq {d.id : d \in s.docs} \cup {d.space : d \in s.docs} \cup Managed
      BY <1>2, <1>7 DEF Known
    <2>2. FreshInv(c)
      BY <2>1, PlansAssumption DEF Fresh, FreshInv
    <2> QED BY <1>7, <2>2 DEF SequenceInv, ContentionInv
  <1> QED BY <1>3, <1>8, <1>9 DEF DataInv

(* The three invariants hold together, as every step of them needs the two before it. *)
LEMMA DataHolds ==
    ASSUME RawToolsElsewhere
    PROVE  Spec => [](AppliedInv /\ WorkInv /\ DataInv)
PROOF
  <1> DEFINE Inv == AppliedInv /\ WorkInv /\ DataInv
  <1>1. Init => Inv
    BY AppliedInit, WorkInit, DataInit
  <1>2. Inv /\ [Next]_vars => Inv'
    BY AppliedStep, WorkStep, DataStep
  <1> QED BY <1>1, <1>2, PTL DEF Spec

(* If the raw tools leave the managed classes alone: huly_create_issue gives up for contention    *)
(* only if other writers took at least as many numbers as it made attempts, whatever the number    *)
(* of calls and attempts.                                                                          *)
THEOREM GiveUpOnlyUnderContentionCorrect ==
    ASSUME RawToolsElsewhere
    PROVE  Spec => []GiveUpOnlyUnderContention
PROOF
  <1>1. DataInv => GiveUpOnlyUnderContention
    <2> SUFFICES ASSUME DataInv, NEW c \in Calls, outcome[c].why = "contention",
                        NEW d \in FindAll(docs, "Project", [id |-> outcome[c].value.project])
                 PROVE  d.sequence >= outcome[c].value.first + MaxAttempts
      BY DEF GiveUpOnlyUnderContention
    <2>1. d \in docs /\ d.class = "Project" /\ d.id = outcome[c].value.project
      BY DEF FindAll, Matches
    <2> QED BY <2>1 DEF DataInv, ContentionInv, GaveUp, AtLeast
  <1> QED BY <1>1, DataHolds, PTL

(* If the raw tools leave the managed classes alone: the document whose id a creating call         *)
(* reports exists, with the identifier it reports, unless a call deletes it, also the one that a    *)
(* call found after it had lost the race to create it.                                              *)
THEOREM ReportedExistCorrect ==
    ASSUME RawToolsElsewhere
    PROVE  Spec => []ReportedExist
PROOF
  <1>1. DataInv => ReportedExist
    BY DEF DataInv, CreatedInv, Exists, ReportedExist
  <1> QED BY <1>1, DataHolds, PTL

(* If the raw tools leave the managed classes alone, and there is no duplicate at the start: no    *)
(* second component with a label in a project, and no second relation between an issue and a card   *)
(* by an association, however many calls create it at once.                                         *)
THEOREM NoDuplicatesCorrect ==
    ASSUME RawToolsElsewhere
    PROVE  Spec /\ NoDuplicates => []NoDuplicates
PROOF
  <1>1. ASSUME AppliedInv, WorkInv, DataInv, NoDuplicates, [Next]_vars PROVE NoDuplicates'
    <2>1. ASSUME UNCHANGED docs PROVE NoDuplicates'
      BY <1>1, <2>1 DEF NoDuplicates
    <2>2. UNCHANGED vars => UNCHANGED docs
      BY DEF vars
    <2>3. ASSUME NEW c \in Calls, CallStep(c) PROVE NoDuplicates'
      <3>1. Ready(c) /\ Told(c)
        BY <1>1 DEF WorkInv, Work
      <3>2. Evolves(c)
        BY <1>1, <2>3, <3>1, CallActs, Evolution
      <3> QED BY <1>1, <3>2, UniqueKept
    <2> QED BY <1>1, <2>1, <2>2, <2>3, EnvironmentQuieter DEF Next
  <1>2. AppliedInv /\ WorkInv /\ DataInv /\ NoDuplicates /\ [Next]_vars => NoDuplicates'
    BY <1>1
  <1> QED BY <1>2, DataHolds, PTL DEF Spec

-----------------------------------------------------------------------------
(* The markup that is uploaded. *)

UploadSteps == {"invoked", "collaborator_url", "collaborator_auth", "upload_markup"}

(* The copy that an upload stores at its n-th attempt. *)
Copy(c, n) == [ref |-> GenTxId(c, n), content |-> Arg(c).markdown]

(* Every markup there is was stored by an attempt of an upload; an upload that succeeded has   *)
(* stored what it reports, and one that runs has only the steps of an upload left.              *)
MarkupInv ==
    /\ \A b \in blobs : \E c \in Uploads : \E n \in 1 .. CollabAttempts : b = Copy(c, n)
    /\ \A c \in Uploads :
          /\ outcome[c].state = "running" => todo[c] \in Seq(UploadSteps)
          /\ outcome[c].state = "ok" =>
                 [ref |-> outcome[c].value.ref, content |-> Arg(c).markdown] \in blobs

(* No other step of a call touches the collaborator's contents. *)
LEMMA BlobsStay ==
    ASSUME NEW c, CallStep(c)
    PROVE  UNCHANGED blobs \/ UploadMarkup(c)
PROOF
  <1>1. CASE RecordStep(c) \/ LocalStep(c)
    BY <1>1 DEF RecordStep, LocalStep, world
  <1>2. CASE FactoryStep(c)
    BY <1>2
    DEF FactoryStep, CachedEntry, RequestJwt, MintTimeout, MintReplied, MintFailed, Forget,
        RefreshSchema, world
  <1>3. CASE RequestStep(c)
    <2>1. CASE FindDocs(c) \/ GetDoc(c) \/ FindIssues(c) \/ GetIssue(c) \/ FindRelations(c)
      BY <2>1
      DEF FindDocs, GetDoc, FindIssues, GetIssue, FindRelations, FindOne, FindAllDocs,
          SendWithRetry, world
    <2>2. CASE ResolveProject(c) \/ ReadSequence(c) \/ FindCards(c) \/ ListCards(c) \/ Discover(c)
      BY <2>2
      DEF ResolveProject, ReadSequence, FindCards, ListCards, Discover, FindOne, FindAllDocs,
          SendWithRetry, world
    <2>3. CASE Store(c) \/ CreateProject(c) \/ CommitIssue(c)
      BY <2>3
      DEF Store, CreateProject, CommitIssue, CreateDoc, UpdateDoc, RemoveDoc, RawTx, SendWithRetry,
          AnswerLost, Applied, world
    <2>4. CASE UpdateIssue(c) \/ CreateCard(c)
      BY <2>4
      DEF UpdateIssue, UpdateCollection, CreateCard, CreateDoc, FindOne, FindAllDocs, RawTx,
          SendWithRetry, AnswerLost, Applied, world
    <2>5. ASSUME NEW class, NEW space, NEW attrs, NEW unless, NEW lookup,
                 CreateUnless(c, class, space, attrs, unless, lookup)
          PROVE  UNCHANGED blobs
      BY <2>5 DEF CreateUnless, ApplyIfTx, RawTx, SendWithRetry, AnswerLost, Applied, world
    <2>6. ASSUME NEW class, NEW query, Existing(c, class, query) PROVE UNCHANGED blobs
      BY <2>6 DEF Existing, FindOne, FindAllDocs, SendWithRetry, world
    <2>7. CASE CreateComponent(c)
      BY <2>5, <2>6, <2>7 DEF CreateComponent
    <2>8. CASE LinkIssueToCard(c)
      BY <2>5, <2>6, <2>8 DEF LinkIssueToCard, FindOne, FindAllDocs, SendWithRetry, world
    <2>9. CASE FetchMarkup(c)
      BY <2>9 DEF FetchMarkup, GetMarkup, CollaboratorRpc
    <2> QED
      BY <1>3, <2>1, <2>2, <2>3, <2>4, <2>7, <2>8, <2>9 DEF RequestStep, ToolStep
  <1> QED BY <1>1, <1>2, <1>3 DEF CallStep

(* What a step of an upload does: it goes on, fails, or makes its next attempt, which may store   *)
(* a copy and be answered or not.                                                                  *)
Attempts(c) ==
    \E n \in 1 .. CollabAttempts :
        /\ blobs' = blobs \/ blobs' = blobs \cup {Copy(c, n)}
        /\ \/ UNCHANGED <<todo, outcome>>
           \/ Failed(c)
           \/ /\ blobs' = blobs \cup {Copy(c, n)}
              /\ Return(c, [ref |-> GenTxId(c, n)])

UploadActs(c) ==
    \/ /\ UNCHANGED <<blobs, outcome>>
       /\ UNCHANGED todo \/ todo' = [todo EXCEPT ![c] = Tail(@)]
    \/ UNCHANGED blobs /\ \E why, code, v : FailWith(c, why, code, v)
    \/ Attempts(c)

(* The attempts of an upload are as many as its bound. *)
LEMMA UploadAttempts ==
    ASSUME WorkInv, NEW c \in Calls, UploadMarkup(c)
    PROVE  Attempts(c)
PROOF
  <1>1. At(c, "upload_markup") /\ CreateMarkup(c, Arg(c).markdown)
    BY DEF UploadMarkup
  <1>2. loc[c].attempt \in Nat /\ loc[c].attempt < CollabAttempts
    BY <1>1 DEF WorkInv, Work, Ready
  <1>3. PICK n : n = loc[c].attempt + 1
    OBVIOUS
  <1>4. n \in 1 .. CollabAttempts
    BY <1>2, <1>3, RestAssumption
  <1>5. Fail(c, "collaborator") => Failed(c)
    BY DEF Fail, Failed
  <1>6. TransportError(c) => UNCHANGED <<todo, outcome>> \/ Failed(c)
    BY <1>5 DEF TransportError
  <1>7. CollaboratorRpc(c, blobs' = blobs \cup {Copy(c, n)}, Return(c, [ref |-> GenTxId(c, n)]))
    BY <1>1, <1>3 DEF CreateMarkup, Copy
  <1> QED BY <1>4, <1>5, <1>6, <1>7 DEF CollaboratorRpc, Attempts

(* The steps of an upload are these, until it ends. *)
LEMMA UploadDoes ==
    ASSUME AppliedInv, WorkInv, MarkupInv, NEW c \in Uploads, c \in Calls, CallStep(c)
    PROVE  UploadActs(c)
PROOF
  <1>1. todo[c] # << >>
    BY CallMoves DEF Moves
  <1>2. Head(todo[c]) \in UploadSteps \cup {"completed", "error"}
    <2>1. CallInv(c)
      BY DEF AppliedInv
    <2>2. CASE outcome[c].state = "running"
      <3>1. todo[c] \in Seq(UploadSteps)
        BY <2>2 DEF MarkupInv
      <3> QED BY <1>1, <3>1
    <2>3. CASE outcome[c].state # "running"
      <3>1. todo[c] \in Closing
        BY <2>1, <2>3 DEF CallInv
      <3> QED BY <1>1, <3>1 DEF Closing
    <2> QED BY <2>2, <2>3
  <1>3. CASE RecordStep(c)
    BY <1>3 DEF RecordStep, ToolInvoked, Action, ToolCompleted, ErrorRecord, Publish, UploadActs
  <1>4. ~LocalStep(c)
    BY <1>2
    DEF LocalStep, NoWorkspace, UserWorkspaces, SyncStatus, SyncCards, SyncNotConfigured, At,
        UploadSteps
  <1>5. CASE UploadMarkup(c)
    BY <1>5, UploadAttempts DEF UploadActs
  <1>6. RequestStep(c) => UploadMarkup(c)
    <2>1. /\ ~FindDocs(c) /\ ~GetDoc(c) /\ ~Store(c) /\ ~ResolveProject(c) /\ ~CreateProject(c)
          /\ ~FindIssues(c) /\ ~GetIssue(c) /\ ~FindRelations(c)
      BY <1>2
      DEF FindDocs, GetDoc, Store, ResolveProject, CreateProject, FindIssues, GetIssue,
          FindRelations, At, UploadSteps
    <2>2. /\ ~UpdateIssue(c) /\ ~ReadSequence(c) /\ ~CommitIssue(c) /\ ~CreateComponent(c)
          /\ ~LinkIssueToCard(c)
      BY <1>2
      DEF UpdateIssue, ReadSequence, CommitIssue, CreateComponent, LinkIssueToCard, At, UploadSteps
    <2>3. ~FindCards(c) /\ ~ListCards(c) /\ ~CreateCard(c) /\ ~Discover(c) /\ ~FetchMarkup(c)
      BY <1>2 DEF FindCards, ListCards, CreateCard, Discover, FetchMarkup, At, UploadSteps
    <2> QED BY <2>1, <2>2, <2>3 DEF RequestStep, ToolStep
  <1>7. CASE FactoryStep(c)
    <2>1. UNCHANGED blobs
      BY <1>7
      DEF FactoryStep, CachedEntry, RequestJwt, MintTimeout, MintReplied, MintFailed, Forget,
          RefreshSchema, world
    <2>2. ASSUME NEW e, Use(c, e), AtEntry(c) PROVE UploadActs(c)
      <3>1. Head(todo[c]) \in {"collaborator_url", "collaborator_auth"}
        BY <1>2, <2>2 DEF AtEntry, EntrySteps, UploadSteps
      <3>2. Proceed(c) \/ Fail(c, "no_collaborator_url")
        BY <2>2, <3>1 DEF Use
      <3>3. Proceed(c) => UNCHANGED outcome /\ todo' = [todo EXCEPT ![c] = << >> \o Tail(@)]
        BY DEF Proceed, Become
      <3>4. << >> \o Tail(todo[c]) = Tail(todo[c])
        <4>1. \E S : Tail(todo[c]) \in Seq(S)
          <5>1. todo[c] \in Seq(UploadSteps) \/ todo[c] \in Closing
            BY DEF AppliedInv, CallInv, MarkupInv
          <5> DEFINE S == {"completed", "error"}
          <5>2. /\ <<"completed">> \in Seq(S) /\ <<"completed", "error">> \in Seq(S)
                /\ <<"error">> \in Seq(S) /\ << >> \in Seq(S)
            OBVIOUS
          <5> HIDE DEF S
          <5>3. \A s \in Closing : s \in Seq(S)
            BY <5>2 DEF Closing
          <5> QED BY <1>1, <5>1, <5>3
        <4> QED BY <4>1
      <3>5. Proceed(c) => UNCHANGED outcome /\ todo' = [todo EXCEPT ![c] = Tail(@)]
        BY <3>3, <3>4
      <3> QED BY <2>1, <3>2, <3>5 DEF UploadActs, Fail
    <2>3. (\E why : MintFailed(c, why)) => UploadActs(c)
      BY <2>1 DEF MintFailed, UploadActs
    <2>4. inbox[c] # Idle => AtEntry(c)
      BY DEF AppliedInv
    <2>5. CASE CachedEntry(c)
      BY <2>2, <2>5 DEF CachedEntry
    <2>6. CASE RequestJwt(c)
      BY <2>1, <2>3, <2>6 DEF RequestJwt, callVars, UploadActs
    <2>7. CASE MintTimeout(c)
      BY <2>3, <2>7 DEF MintTimeout
    <2>8. CASE MintReplied(c)
      <3>1. Idle.state = "idle"
        BY DEF Idle
      <3>2. AtEntry(c)
        BY <2>4, <2>8, <3>1 DEF MintReplied
      <3> QED BY <2>2, <2>3, <2>8, <3>2 DEF MintReplied
    <2>9. ~Forget(c) /\ ~RefreshSchema(c)
      BY <1>2 DEF Forget, RefreshSchema, At, UploadSteps
    <2> QED BY <1>7, <2>5, <2>6, <2>7, <2>8, <2>9 DEF FactoryStep
  <1> QED BY <1>3, <1>4, <1>5, <1>6, <1>7 DEF CallStep

(* Only an upload stores markup. *)
LEMMA OthersStore ==
    ASSUME AppliedInv, NEW c \in Calls, c \notin Uploads, CallStep(c)
    PROVE  UNCHANGED blobs
PROOF
  <1>1. SUFFICES ASSUME UploadMarkup(c) PROVE FALSE
    BY BlobsStay
  <1>2. At(c, "upload_markup") /\ CallInv(c)
    BY <1>1 DEF UploadMarkup, AppliedInv
  <1>3. Arg(c).tool = "huly_upload_markup"
    BY <1>2, AtReading DEF ReadSteps, WriteSteps, Owns
  <1> QED BY <1>2, <1>3 DEF AppliedInv, At, Uploads

(* The invariant of the uploads survives a step of a call. *)
LEMMA CallKeepsMarkup ==
    ASSUME AppliedInv, WorkInv, MarkupInv, NEW c \in Calls, CallStep(c)
    PROVE  MarkupInv'
PROOF
  <1>1. Moves(c)
    BY CallMoves
  <1>2. UNCHANGED plan /\ \A d \in Calls \ {c} : UNCHANGED <<todo[d], outcome[d]>>
    BY <1>1, Others DEF Moves, AppliedInv
  <1>3. Uploads' = Uploads /\ Uploads \subseteq Calls
    BY <1>2 DEF Uploads, Arg, AppliedInv
  <1>4. \A d : \A n : Copy(d, n)' = Copy(d, n)
    BY <1>2 DEF Copy, Arg, GenTxId
  <1>5. blobs \subseteq blobs' /\ \A b \in blobs' \ blobs : \E d \in Uploads : \E n \in 1 .. CollabAttempts : b = Copy(d, n)
    <2>1. CASE c \notin Uploads
      BY <2>1, OthersStore
    <2>2. CASE c \in Uploads
      BY <2>2, UploadDoes DEF UploadActs, Attempts
    <2> QED BY <2>1, <2>2
  <1>6. ASSUME NEW d \in Uploads
        PROVE  /\ outcome'[d].state = "running" => todo'[d] \in Seq(UploadSteps)
               /\ outcome'[d].state = "ok" =>
                      [ref |-> outcome'[d].value.ref, content |-> Arg(d).markdown] \in blobs'
    <2>1. /\ outcome[d].state = "running" => todo[d] \in Seq(UploadSteps)
          /\ outcome[d].state = "ok" =>
                 [ref |-> outcome[d].value.ref, content |-> Arg(d).markdown] \in blobs
      BY DEF MarkupInv
    <2>2. CASE d # c
      BY <1>2, <1>3, <1>5, <2>1, <2>2
    <2>3. CASE d = c
      <3>1. UploadActs(c)
        BY <2>3, UploadDoes
      <3>2. todo[c] # << >> /\ c \in DOMAIN todo /\ c \in DOMAIN outcome
        BY <1>1 DEF Moves, AppliedInv, FunctionsOfCalls
      <3>3. \A why, code, v : FailWith(c, why, code, v) => outcome'[c].state = "err"
        BY <3>2 DEF FailWith
      <3>4. ASSUME NEW v, Return(c, v) PROVE outcome'[c].state = "ok" /\ outcome'[c].value = v
        <4>1. \E why, code : outcome'[c] = [state |-> "ok", why |-> why, code |-> code, value |-> v]
          BY <3>2, <3>4 DEF Return
        <4> QED BY <4>1
      <3>5. CASE UNCHANGED outcome /\ (UNCHANGED todo \/ todo' = [todo EXCEPT ![c] = Tail(@)])
        <4>1. outcome[c].state = "running" => Tail(todo[c]) \in Seq(UploadSteps)
          BY <2>1, <2>3, <3>2
        <4> QED BY <1>5, <2>1, <2>3, <3>2, <3>5, <4>1
      <3>6. CASE \E why, code, v : FailWith(c, why, code, v)
        BY <2>3, <3>3, <3>6
      <3>7. ASSUME NEW n \in 1 .. CollabAttempts, blobs' = blobs \cup {Copy(c, n)},
                   Return(c, [ref |-> GenTxId(c, n)])
            PROVE  /\ outcome'[c].state = "ok"
                   /\ [ref |-> outcome'[c].value.ref, content |-> Arg(c).markdown] \in blobs'
        <4>1. outcome'[c].value.ref = GenTxId(c, n)
          BY <3>4, <3>7
        <4> QED BY <3>4, <3>7, <4>1 DEF Copy
      <3> QED BY <2>3, <3>1, <3>5, <3>6, <3>7 DEF UploadActs, Attempts, Failed
    <2> QED BY <2>2, <2>3
  <1>7. \A d \in Uploads : Arg(d)' = Arg(d)
    BY <1>2 DEF Arg
  <1> QED BY <1>3, <1>4, <1>5, <1>6, <1>7 DEF MarkupInv

(* An upload begins with the steps of its program. *)
LEMMA MarkupInit ==
    ASSUME Init
    PROVE  MarkupInv
PROOF
  <1>1. AppliedInv /\ blobs = {}
    BY AppliedInit DEF Init
  <1>2. ASSUME NEW c \in Uploads PROVE todo[c] \in Seq(UploadSteps) /\ outcome[c].state # "ok"
    <2>1. c \in DOMAIN plan.call /\ c \in Calls /\ Arg(c).tool = "huly_upload_markup"
      BY <1>1 DEF Uploads, AppliedInv
    <2>2. Tool(Arg(c)).body = <<"collaborator_url", "collaborator_auth", "upload_markup">>
      BY <2>1 DEF Tool, UploadMarkupTool, Reads
    <2>3. todo[c] = <<"invoked">> \o <<"collaborator_url", "collaborator_auth", "upload_markup">>
      BY <2>1, <2>2 DEF Init, RecordTool, Arg
    <2>4. /\ <<"invoked">> \in Seq(UploadSteps)
          /\ <<"collaborator_url", "collaborator_auth", "upload_markup">> \in Seq(UploadSteps)
      BY DEF UploadSteps
    <2>5. todo[c] \in Seq(UploadSteps)
      BY <2>3, <2>4
    <2> QED BY <2>1, <2>5 DEF Init, Running
  <1> QED BY <1>1, <1>2 DEF MarkupInv

(* Bridges and clocks leave the uploads alone, so that their invariant survives every step. *)
LEMMA MarkupStep ==
    ASSUME AppliedInv, WorkInv, MarkupInv, [Next]_vars
    PROVE  MarkupInv'
PROOF
  <1>1. ASSUME UNCHANGED <<plan, todo, outcome, blobs>> PROVE MarkupInv'
    <2>1. \A c : Arg(c)' = Arg(c) /\ \A n : Copy(c, n)' = Copy(c, n)
      BY <1>1 DEF Copy, Arg, GenTxId
    <2>2. Uploads' = Uploads
      BY <1>1 DEF Uploads, Arg
    <2> QED BY <1>1, <2>1, <2>2 DEF MarkupInv
  <1>2. Environment \/ (\E c \in Calls, b \in Bridges : BridgeStep(c, b)) =>
            UNCHANGED <<plan, todo, outcome, blobs>>
    BY EnvironmentQuieter
  <1> QED BY <1>1, <1>2, CallKeepsMarkup DEF Next, vars

(* Of one content there are as many copies as the uploads that store it make attempts. *)
LEMMA CopiesBounded ==
    ASSUME AppliedInv, MarkupInv, NEW m
    PROVE  Cardinality({b \in blobs : b.content = m})
               <= CollabAttempts * Cardinality({x \in Uploads : Arg(x).markdown = m})
PROOF
  <1> DEFINE same == {x \in Uploads : Arg(x).markdown = m}
             copies == {b \in blobs : b.content = m}
             tried == same \X (1 .. CollabAttempts)
             stored == {Copy(p[1], p[2]) : p \in tried}
             copy == [p \in tried |-> Copy(p[1], p[2])]
  <1>1. same \in SUBSET Calls
    BY DEF Uploads, AppliedInv
  <1>2. IsFiniteSet(same) /\ Cardinality(same) \in Nat
    BY <1>1, CallsAssumption, FS_Subset, FS_CardinalityType
  <1>3. IsFiniteSet(1 .. CollabAttempts) /\ Cardinality(1 .. CollabAttempts) = CollabAttempts
    BY RestAssumption, FS_Interval
  <1>4. IsFiniteSet(tried) /\ Cardinality(tried) = Cardinality(same) * CollabAttempts
    BY <1>2, <1>3, FS_Product
  <1>5. copy \in Surjection(tried, stored)
    BY DEF Surjection
  <1>6. IsFiniteSet(stored) /\ Cardinality(stored) <= Cardinality(tried)
    BY <1>4, <1>5, FS_Surjection
  <1>7. copies \in SUBSET stored
    <2> SUFFICES ASSUME NEW b \in blobs, b.content = m PROVE b \in stored
      OBVIOUS
    <2>1. PICK c \in Uploads, n \in 1 .. CollabAttempts : b = Copy(c, n)
      BY DEF MarkupInv
    <2>2. c \in same
      BY <2>1 DEF Copy
    <2>3. <<c, n>> \in tried
      BY <2>2
    <2> QED BY <2>1, <2>3
  <1>8. IsFiniteSet(copies) /\ Cardinality(copies) <= Cardinality(stored)
    BY <1>6, <1>7, FS_Subset
  <1>9. Cardinality(copies) \in Nat /\ Cardinality(stored) \in Nat
    BY <1>6, <1>8, FS_CardinalityType
  <1> HIDE DEF copies, stored, tried, same
  <1>10. Cardinality(copies) <= Cardinality(same) * CollabAttempts
    BY <1>4, <1>6, <1>8, <1>9, <1>2, RestAssumption
  <1>11. Cardinality(same) * CollabAttempts = CollabAttempts * Cardinality(same)
    BY <1>2, RestAssumption
  <1>12. Cardinality(copies) <= CollabAttempts * Cardinality(same)
    BY <1>10, <1>11
  <1> QED BY <1>12 DEF copies, same

(* Whatever the calls, their retries and the failures: an upload that succeeds has stored its     *)
(* markup under the reference that it reports, and a content is stored once per attempt at most,  *)
(* however often its answer is lost.                                                               *)
THEOREM MarkupStoredCorrect == Spec => []MarkupStored
PROOF
  <1> DEFINE Inv == AppliedInv /\ WorkInv /\ MarkupInv
  <1>1. Init => Inv
    BY AppliedInit, WorkInit, MarkupInit
  <1>2. Inv /\ [Next]_vars => Inv'
    BY AppliedStep, WorkStep, MarkupStep
  <1>3. Inv => MarkupStored
    BY CopiesBounded DEF MarkupStored, MarkupInv
  <1> QED BY <1>1, <1>2, <1>3, PTL DEF Spec

-----------------------------------------------------------------------------
(* The numbers of issues: the documents as IssueCounter sees them. *)

Sound(D) ==
    /\ \A d \in D : Complete(d)
    /\ \A d, e \in D : d.id = e.id => d = e

Counters(D) == {d \in FindAll(D, "Project", << >>) : "sequence" \in DOMAIN d}

CountedIn(D) == {d.id : d \in Counters(D)}

NumbersIn(D, p) == {d.number : d \in FindAll(D, "Issue", [space |-> p])}

LastIn(D) == [p \in CountedIn(D) |-> (CHOOSE d \in Counters(D) : d.id = p).sequence]

GivenIn(D) == [p \in CountedIn(D) |-> NumbersIn(D, p)]

(* What the two functions are of. *)
LEMMA CounterOf ==
    /\ LastNumber = LastIn(docs) /\ LastNumber' = LastIn(docs')
    /\ IssueNumbers = GivenIn(docs) /\ IssueNumbers' = GivenIn(docs')
PROOF
  <1>1. Projects = Counters(docs) /\ Projects' = Counters(docs')
    BY DEF Projects, Counters
  <1>2. LastNumber = LastIn(docs) /\ LastNumber' = LastIn(docs')
    BY <1>1 DEF LastNumber, LastIn, CountedIn, ProjectOf
  <1>3. IssueNumbers = GivenIn(docs) /\ IssueNumbers' = GivenIn(docs')
    BY <1>1 DEF IssueNumbers, GivenIn, NumbersIn, CountedIn
  <1> QED BY <1>2, <1>3

(* A project is its id's only one, and its issues are those in its space. *)
LEMMA CounterFields ==
    ASSUME NEW D, Sound(D)
    PROVE  /\ \A d : d \in Counters(D) <=> d \in D /\ d.class = "Project" /\ "sequence" \in DOMAIN d
           /\ \A d \in Counters(D) : d.id \in CountedIn(D) /\ LastIn(D)[d.id] = d.sequence
           /\ \A p \in CountedIn(D) : \E d \in Counters(D) : d.id = p
           /\ \A p, n : n \in NumbersIn(D, p)
                            <=> \E d \in D : d.class = "Issue" /\ d.space = p /\ d.number = n
PROOF
  <1>1. \A d : d \in Counters(D) <=> d \in D /\ d.class = "Project" /\ "sequence" \in DOMAIN d
    BY DEF Counters, FindAll, Matches
  <1>2. ASSUME NEW d \in Counters(D) PROVE d.id \in CountedIn(D) /\ LastIn(D)[d.id] = d.sequence
    <2>1. d.id \in CountedIn(D)
      BY DEF CountedIn
    <2>2. \A e \in Counters(D) : e.id = d.id => e = d
      BY <1>1 DEF Sound
    <2>3. (CHOOSE e \in Counters(D) : e.id = d.id) = d
      BY <2>2
    <2> QED BY <2>1, <2>3 DEF LastIn
  <1>3. \A p \in CountedIn(D) : \E d \in Counters(D) : d.id = p
    BY DEF CountedIn
  <1>4. ASSUME NEW p PROVE \A d \in D : Matches(d, [space |-> p]) <=> d.space = p
    BY DEF Matches, Sound, Complete
  <1>5. \A p, n : n \in NumbersIn(D, p)
                      <=> \E d \in D : d.class = "Issue" /\ d.space = p /\ d.number = n
    BY <1>4 DEF NumbersIn, FindAll
  <1> QED BY <1>1, <1>2, <1>3, <1>5

(* A function that tells of every project what LastIn does is LastIn. *)
LEMMA LastIs ==
    ASSUME NEW D, Sound(D), NEW last, last = [p \in CountedIn(D) |-> last[p]],
           \A d \in Counters(D) : last[d.id] = d.sequence
    PROVE  LastIn(D) = last
PROOF
  <1>1. \A p \in CountedIn(D) : LastIn(D)[p] = last[p]
    BY CounterFields
  <1>2. LastIn(D) = [p \in CountedIn(D) |-> LastIn(D)[p]]
    BY DEF LastIn
  <1> QED BY <1>1, <1>2

(* Documents that tell the same of projects and issues tell the same numbers. *)
LEMMA SameNumbers ==
    ASSUME NEW D, NEW E, Sound(D), Sound(E), CountedIn(E) = CountedIn(D),
           \A e \in Counters(E) : \E d \in Counters(D) : d.id = e.id /\ d.sequence = e.sequence,
           \A p \in CountedIn(D) : NumbersIn(E, p) = NumbersIn(D, p)
    PROVE  LastIn(E) = LastIn(D) /\ GivenIn(E) = GivenIn(D)
PROOF
  <1>1. \A e \in Counters(E) : LastIn(D)[e.id] = e.sequence
    BY CounterFields
  <1>2. LastIn(D) = [p \in CountedIn(E) |-> LastIn(D)[p]]
    BY DEF LastIn
  <1>3. LastIn(E) = LastIn(D)
    BY <1>1, <1>2, LastIs
  <1> QED BY <1>3 DEF GivenIn

(* An update that leaves the counters alone. *)
LEMMA AlikeKeys ==
    ASSUME NEW d, NEW e, Complete(d), Alike(d, e)
    PROVE  /\ e.id = d.id /\ e.class = d.class /\ e.space = d.space
           /\ "sequence" \in DOMAIN d <=> "sequence" \in DOMAIN e
           /\ "sequence" \in DOMAIN d => e.sequence = d.sequence
           /\ d.class = "Issue" => e.number = d.number
PROOF
  <1>1. {"id", "class", "space", "sequence", "number"} \subseteq KeyFields
    BY DEF KeyFields
  <1>2. \A f \in KeyFields : /\ f \in DOMAIN d <=> f \in DOMAIN e
                             /\ f \in DOMAIN d => e[f] = d[f]
    BY DEF Alike
  <1>3. {"id", "class", "space"} \subseteq DOMAIN d /\ (d.class = "Issue" => "number" \in DOMAIN d)
    BY DEF Complete, ClassFields
  <1> QED BY <1>1, <1>2, <1>3

(* Such an update is no step of the counters. *)
LEMMA AlikeNumbers ==
    ASSUME NEW D, NEW E, Sound(D), Sound(E), NEW u, E = {u[d] : d \in D},
           \A d \in D : Alike(d, u[d])
    PROVE  LastIn(E) = LastIn(D) /\ GivenIn(E) = GivenIn(D)
PROOF
  <1>1. ASSUME NEW d \in D
        PROVE  /\ u[d] \in E
               /\ u[d].id = d.id /\ u[d].class = d.class /\ u[d].space = d.space
               /\ "sequence" \in DOMAIN d <=> "sequence" \in DOMAIN u[d]
               /\ "sequence" \in DOMAIN d => u[d].sequence = d.sequence
               /\ d.class = "Issue" => u[d].number = d.number
    BY AlikeKeys DEF Sound
  <1>2. \A d \in D : d \in Counters(D) <=> u[d] \in Counters(E)
    BY <1>1, CounterFields
  <1>3. \A e \in Counters(E) : \E d \in Counters(D) : d.id = e.id /\ d.sequence = e.sequence
    BY <1>1, <1>2, CounterFields
  <1>4. CountedIn(E) = CountedIn(D)
    <2>1. ASSUME NEW p \in CountedIn(D) PROVE p \in CountedIn(E)
      BY <1>1, <1>2, CounterFields
    <2>2. ASSUME NEW p \in CountedIn(E) PROVE p \in CountedIn(D)
      BY <1>3, CounterFields
    <2> QED BY <2>1, <2>2
  <1>5. ASSUME NEW p PROVE NumbersIn(E, p) = NumbersIn(D, p)
    <2>1. \A n : n \in NumbersIn(D, p) <=> n \in NumbersIn(E, p)
      BY <1>1, CounterFields
    <2> QED BY <2>1
  <1> QED BY <1>3, <1>4, <1>5, SameNumbers

(* A new document that is no project and no issue is no step of the counters. *)
LEMMA OtherNumbers ==
    ASSUME NEW D, NEW d, Sound(D), Sound(D \cup {d}), d.class \notin {"Project", "Issue"}
    PROVE  LastIn(D \cup {d}) = LastIn(D) /\ GivenIn(D \cup {d}) = GivenIn(D)
PROOF
  <1> DEFINE E == D \cup {d}
  <1>1. \A e : e \in Counters(E) <=> e \in Counters(D)
    BY CounterFields
  <1>2. CountedIn(E) = CountedIn(D)
    BY <1>1 DEF CountedIn
  <1>3. ASSUME NEW p PROVE NumbersIn(E, p) = NumbersIn(D, p)
    <2>1. \A n : n \in NumbersIn(D, p) <=> n \in NumbersIn(E, p)
      BY CounterFields
    <2> QED BY <2>1
  <1> HIDE DEF E
  <1> QED BY <1>1, <1>2, <1>3, SameNumbers DEF E

(* A new project begins at 0 and has no issues. *)
LEMMA ProjectNumbers ==
    ASSUME NEW D, NEW d, Sound(D), Sound(D \cup {d}),
           d.class = "Project", "sequence" \in DOMAIN d, d.sequence = 0,
           \A e \in D : e.id # d.id /\ (e.class = "Issue" => e.space # d.id)
    PROVE  /\ d.id \notin CountedIn(D)
           /\ CountedIn(D \cup {d}) = CountedIn(D) \cup {d.id}
           /\ LastIn(D \cup {d}) =
                  [p \in CountedIn(D) \cup {d.id} |-> IF p = d.id THEN 0 ELSE LastIn(D)[p]]
           /\ GivenIn(D \cup {d}) =
                  [p \in CountedIn(D) \cup {d.id} |-> IF p = d.id THEN {} ELSE GivenIn(D)[p]]
PROOF
  <1>1. PICK E : E = D \cup {d}
    OBVIOUS
  <1>2. Sound(E)
    BY <1>1
  <1>3. \A e : e \in Counters(E) <=> e \in Counters(D) \/ e = d
    BY <1>1, <1>2, CounterFields
  <1>4. d.id \notin CountedIn(D)
    BY CounterFields
  <1>5. CountedIn(E) = CountedIn(D) \cup {d.id}
    BY <1>3 DEF CountedIn
  <1>6. ASSUME NEW p, p # d.id PROVE NumbersIn(E, p) = NumbersIn(D, p)
    <2>1. \A n : n \in NumbersIn(D, p) <=> n \in NumbersIn(E, p)
      BY <1>1, <1>2, CounterFields
    <2> QED BY <2>1
  <1>7. NumbersIn(E, d.id) = {}
    BY <1>1, <1>2, CounterFields
  <1>8. GivenIn(E) = [p \in CountedIn(D) \cup {d.id} |-> IF p = d.id THEN {} ELSE GivenIn(D)[p]]
    BY <1>5, <1>6, <1>7 DEF GivenIn
  <1> DEFINE last == [p \in CountedIn(D) \cup {d.id} |-> IF p = d.id THEN 0 ELSE LastIn(D)[p]]
  <1>9. last = [p \in CountedIn(E) |-> last[p]]
    BY <1>5
  <1>10. \A e \in Counters(E) : last[e.id] = e.sequence
    BY <1>3, <1>4, CounterFields
  <1> HIDE DEF last
  <1>11. LastIn(E) = last
    BY <1>2, <1>9, <1>10, LastIs
  <1> QED BY <1>1, <1>4, <1>5, <1>8, <1>11 DEF last

(* A project goes with its counter, or an issue with its number. *)
ProjectGone(D, E, x) ==
    /\ x \in CountedIn(D)
    /\ LastIn(E) = [p \in CountedIn(D) \ {x} |-> LastIn(D)[p]]
    /\ GivenIn(E) = [p \in CountedIn(D) \ {x} |-> GivenIn(D)[p]]

IssueGone(D, E) ==
    \E p \in CountedIn(D) : \E n \in GivenIn(D)[p] :
        /\ LastIn(E) = LastIn(D)
        /\ GivenIn(E) = [GivenIn(D) EXCEPT ![p] = @ \ {n}]

(* Deleting a document removes a project with its counter, an issue with its number, or nothing   *)
(* that is counted.                                                                                *)
LEMMA RemovedNumbers ==
    ASSUME NEW D, NEW x, NEW E, \A d : d \in E <=> d \in D /\ d.id # x, Sound(D), Sound(E)
    PROVE  \/ LastIn(E) = LastIn(D) /\ GivenIn(E) = GivenIn(D)
           \/ ProjectGone(D, E, x)
           \/ IssueGone(D, E)
PROOF
  <1>1. \A e : e \in Counters(E) <=> e \in Counters(D) /\ e.id # x
    BY CounterFields
  <1>2. CountedIn(E) = CountedIn(D) \ {x}
    BY <1>1 DEF CountedIn
  <1>3. \A p, n : n \in NumbersIn(E, p)
                      <=> \E d \in D : d.id # x /\ d.class = "Issue" /\ d.space = p /\ d.number = n
    BY CounterFields
  <1>4. CASE x \in CountedIn(D)
    <2>1. PICK d \in Counters(D) : d.id = x
      BY <1>4, CounterFields
    <2>2. \A e \in D : e.id = x => e.class = "Project"
      BY <2>1, CounterFields DEF Sound
    <2>3. ASSUME NEW p PROVE NumbersIn(E, p) = NumbersIn(D, p)
      <3>1. \A n : n \in NumbersIn(D, p) <=> n \in NumbersIn(E, p)
        BY <1>3, <2>2, CounterFields
      <3> QED BY <3>1
    <2>4. GivenIn(E) = [p \in CountedIn(D) \ {x} |-> GivenIn(D)[p]]
      BY <1>2, <2>3 DEF GivenIn
    <2> DEFINE last == [p \in CountedIn(D) \ {x} |-> LastIn(D)[p]]
    <2>5. last = [p \in CountedIn(E) |-> last[p]]
      BY <1>2
    <2>6. \A e \in Counters(E) : last[e.id] = e.sequence
      BY <1>1, CounterFields
    <2> HIDE DEF last
    <2>7. LastIn(E) = last
      BY <2>5, <2>6, LastIs
    <2> QED BY <1>4, <2>4, <2>7 DEF last, ProjectGone
  <1>5. CASE x \notin CountedIn(D)
    <2>1. CountedIn(E) = CountedIn(D)
      BY <1>2, <1>5
    <2>2. LastIn(E) = LastIn(D)
      <3>1. \A e \in Counters(E) : LastIn(D)[e.id] = e.sequence
        BY <1>1, CounterFields
      <3>2. LastIn(D) = [p \in CountedIn(E) |-> LastIn(D)[p]]
        BY <2>1 DEF LastIn
      <3> QED BY <3>1, <3>2, LastIs
    <2>3. ASSUME NEW p, \A n : n \in NumbersIn(D, p) => n \in NumbersIn(E, p)
          PROVE  NumbersIn(E, p) = NumbersIn(D, p)
      <3>1. \A n : n \in NumbersIn(D, p) <=> n \in NumbersIn(E, p)
        BY <1>3, <2>3, CounterFields
      <3> QED BY <3>1
    <2>4. CASE \A p \in CountedIn(D) : \A n : n \in NumbersIn(D, p) => n \in NumbersIn(E, p)
      BY <2>1, <2>2, <2>3, <2>4 DEF GivenIn
    <2>5. ASSUME NEW p \in CountedIn(D), NEW n, n \in NumbersIn(D, p), n \notin NumbersIn(E, p)
          PROVE  \E q \in CountedIn(D) : \E m \in GivenIn(D)[q] :
                     GivenIn(E) = [GivenIn(D) EXCEPT ![q] = @ \ {m}]
      <3>1. PICK d \in D : d.class = "Issue" /\ d.space = p /\ d.number = n
        BY <2>5, CounterFields
      <3>2. d.id = x
        BY <1>3, <2>5, <3>1
      <3>3. \A e \in D : e.id = x => e = d
        BY <3>1, <3>2 DEF Sound
      <3>4. ASSUME NEW q, q # p PROVE NumbersIn(E, q) = NumbersIn(D, q)
        <4>1. \A m : m \in NumbersIn(D, q) => m \in NumbersIn(E, q)
          BY <1>3, <3>1, <3>3, <3>4, CounterFields
        <4> QED BY <2>3, <4>1
      <3>5. NumbersIn(E, p) = NumbersIn(D, p) \ {n}
        <4>1. \A m : m \in NumbersIn(E, p) <=> m \in NumbersIn(D, p) /\ m # n
          BY <1>3, <2>5, <3>1, <3>3, CounterFields
        <4> QED BY <4>1
      <3>6. GivenIn(E) = [GivenIn(D) EXCEPT ![p] = @ \ {n}] /\ n \in GivenIn(D)[p]
        BY <2>1, <2>5, <3>4, <3>5 DEF GivenIn
      <3> QED BY <3>6
    <2> QED BY <2>2, <2>4, <2>5 DEF IssueGone
  <1> QED BY <1>4, <1>5

(* The next number of a project is given to a new issue. *)
LEMMA CountedNumbers ==
    ASSUME NEW D, NEW E, Sound(D), Sound(E), NEW p \in CountedIn(D), NEW u, NEW i,
           \A x : x \in E <=> x = i \/ \E d \in D : x = u[d],
           \A d \in D : d.id # p => u[d] = d,
           \A d \in D : d.id = p =>
               /\ u[d].id = p /\ u[d].class = "Project" /\ "sequence" \in DOMAIN u[d]
               /\ u[d].sequence = d.sequence + 1,
           i.class = "Issue", i.space = p, i.number = LastIn(D)[p] + 1
    PROVE  /\ LastIn(E) = [LastIn(D) EXCEPT ![p] = @ + 1]
           /\ GivenIn(E) = [GivenIn(D) EXCEPT ![p] = @ \cup {LastIn(D)[p] + 1}]
PROOF
  <1>1. PICK d \in Counters(D) : d.id = p
    BY CounterFields
  <1>2. d \in D /\ d.class = "Project" /\ (\A e \in D : e.id = p => e = d) /\ LastIn(D)[p] = d.sequence
    BY <1>1, CounterFields DEF Sound
  <1>3. PICK e : e = u[d]
    OBVIOUS
  <1>4. e.id = p /\ e.class = "Project" /\ "sequence" \in DOMAIN e /\ e.sequence = d.sequence + 1
    BY <1>1, <1>2, <1>3
  <1>5. \A x : x \in E <=> (x \in D /\ x.id # p) \/ x = e \/ x = i
    <2>1. \A x \in D : x.id # p => u[x] = x
      OBVIOUS
    <2>2. \A x \in D : x.id = p => u[x] = e
      BY <1>2, <1>3
    <2> QED BY <1>1, <1>2, <1>3, <2>1, <2>2
  <1>6. \A x : x \in Counters(E) <=> (x \in Counters(D) /\ x.id # p) \/ x = e
    BY <1>4, <1>5, CounterFields
  <1>7. CountedIn(E) = CountedIn(D)
    <2>1. \A q \in CountedIn(D) : q \in CountedIn(E)
      BY <1>1, <1>4, <1>6, CounterFields
    <2>2. \A q \in CountedIn(E) : q \in CountedIn(D)
      BY <1>1, <1>4, <1>6, CounterFields
    <2> QED BY <2>1, <2>2
  <1> DEFINE last == [q \in CountedIn(D) |-> IF q = p THEN LastIn(D)[p] + 1 ELSE LastIn(D)[q]]
  <1>8. last = [q \in CountedIn(E) |-> last[q]]
    BY <1>7
  <1>9. \A x \in Counters(E) : last[x.id] = x.sequence
    <2>1. \A q \in CountedIn(D) : last[q] = IF q = p THEN LastIn(D)[p] + 1 ELSE LastIn(D)[q]
      OBVIOUS
    <2> HIDE DEF last
    <2> QED BY <1>2, <1>4, <1>6, <2>1, CounterFields
  <1> HIDE DEF last
  <1>10. LastIn(E) = last
    BY <1>8, <1>9, LastIs
  <1>11. ASSUME NEW q PROVE NumbersIn(E, q) = IF q = p THEN NumbersIn(D, p) \cup {LastIn(D)[p] + 1}
                                                       ELSE NumbersIn(D, q)
    <2>1. \A n : n \in NumbersIn(E, q) <=> n \in NumbersIn(D, q) \/ (q = p /\ n = i.number)
      <3>1. \A x \in D : x.class = "Issue" => x.id # p
        BY <1>2
      <3> QED BY <1>4, <1>5, <3>1, CounterFields
    <2>2. CASE q = p
      <3>1. \A n : n \in NumbersIn(E, p) <=> n \in NumbersIn(D, p) \cup {LastIn(D)[p] + 1}
        BY <2>1, <2>2
      <3>2. NumbersIn(E, p) = NumbersIn(D, p) \cup {LastIn(D)[p] + 1}
        BY <3>1
      <3> QED BY <2>2, <3>2
    <2>3. CASE q # p
      <3>1. \A n : n \in NumbersIn(E, q) <=> n \in NumbersIn(D, q)
        BY <2>1, <2>3
      <3> QED BY <2>3, <3>1
    <2> QED BY <2>2, <2>3
  <1>12. GivenIn(E) = [GivenIn(D) EXCEPT ![p] = @ \cup {LastIn(D)[p] + 1}]
    <2>1. PICK n : n = LastIn(D)[p] + 1
      OBVIOUS
    <2>2. GivenIn(E) = [q \in CountedIn(D) |-> IF q = p THEN NumbersIn(D, p) \cup {n} ELSE NumbersIn(D, q)]
      BY <1>7, <1>11, <2>1 DEF GivenIn
    <2>3. GivenIn(E) = [GivenIn(D) EXCEPT ![p] = @ \cup {n}]
      BY <2>2 DEF GivenIn
    <2> QED BY <2>1, <2>3
  <1>13. last = [LastIn(D) EXCEPT ![p] = @ + 1]
    <2>1. PICK f, n : f = LastIn(D) /\ n = LastIn(D)[p] + 1
      OBVIOUS
    <2>2. f = [q \in CountedIn(D) |-> f[q]]
      BY <2>1 DEF LastIn
    <2>3. last = [q \in CountedIn(D) |-> IF q = p THEN n ELSE f[q]]
      BY <2>1 DEF last
    <2>4. last = [f EXCEPT ![p] = n]
      BY <2>2, <2>3
    <2> QED BY <2>1, <2>4
  <1> QED BY <1>10, <1>12, <1>13

(* Every step of a call is one of the counters, or none. *)
LEMMA CallCounts ==
    ASSUME AppliedInv, WorkInv, DataInv, DocsInv', NEW c \in Calls, Acts(c)
    PROVE  [Counter!Next]_(Counter!counterVars)
PROOF
  <1>1. PICK D, E : D = docs /\ E = docs'
    OBVIOUS
  <1>2. Sound(D) /\ Sound(E)
    BY <1>1 DEF DataInv, DocsInv, Sound
  <1>3. /\ LastNumber = LastIn(D) /\ LastNumber' = LastIn(E)
        /\ IssueNumbers = GivenIn(D) /\ IssueNumbers' = GivenIn(E)
    BY <1>1, CounterOf
  <1>4. DOMAIN LastNumber = CountedIn(D) /\ DOMAIN LastNumber' = CountedIn(E)
    BY <1>3 DEF LastIn
  <1>5. ASSUME LastIn(E) = LastIn(D), GivenIn(E) = GivenIn(D)
        PROVE  [Counter!Next]_(Counter!counterVars)
    BY <1>3, <1>5 DEF Counter!counterVars
  <1>6. CASE UNCHANGED docs
    BY <1>1, <1>5, <1>6
  <1>7. ASSUME NEW d, Changes(c), Creates(c, d) PROVE [Counter!Next]_(Counter!counterVars)
    <2>1. E = D \cup {d}
      BY <1>1, <1>7 DEF Creates
    <2>2. Added(c, d) /\ Txs(c) = {}
      BY <1>7, FirstTx, Creation
    <2>3. d.class # "Issue"
      BY <1>7, <2>2 DEF Added, Creates, Holds, At
    <2>4. CASE d.class # "Project"
      BY <1>2, <1>5, <2>1, <2>3, <2>4, OtherNumbers
    <2>5. CASE d.class = "Project"
      <3>1. "sequence" \in DOMAIN d /\ d.sequence = 0
        BY <2>2, <2>5 DEF Added
      <3>2. d.id \notin Known
        BY <2>2 DEF Added, DataInv, FreshInv
      <3>3. \A e \in D : e.id # d.id /\ (e.class = "Issue" => e.space # d.id)
        BY <1>1, <3>2 DEF Known
      <3>4. PICK p : p = d.id
        OBVIOUS
      <3>5. /\ p \notin CountedIn(D)
            /\ CountedIn(E) = CountedIn(D) \cup {p}
            /\ LastIn(E) = [q \in CountedIn(D) \cup {p} |-> IF q = p THEN 0 ELSE LastIn(D)[q]]
            /\ GivenIn(E) = [q \in CountedIn(D) \cup {p} |-> IF q = p THEN {} ELSE GivenIn(D)[q]]
        BY <1>2, <2>1, <2>5, <3>1, <3>3, <3>4, ProjectNumbers
      <3>6. Counter!CreateProject(p)
        BY <1>3, <1>4, <3>5 DEF Counter!CreateProject
      <3> QED BY <1>4, <3>5, <3>6 DEF Counter!Next
    <2> QED BY <2>4, <2>5
  <1>8. ASSUME NEW tx, Edits(c, tx) PROVE [Counter!Next]_(Counter!counterVars)
    <2> DEFINE u == [d \in D |-> IF d.id = tx.id THEN Updated(d, tx) ELSE d]
    <2>1. E = {u[d] : d \in D}
      BY <1>1, <1>8 DEF Edits, Edited
    <2>2. \A d : Alike(d, d)
      BY DEF Alike
    <2>3. \A d \in D : Alike(d, u[d])
      BY <1>8, <2>2, Edition
    <2> HIDE DEF u
    <2> QED BY <1>2, <1>5, <2>1, <2>3, AlikeNumbers
  <1>9. CASE Removes(c)
    <2>1. PICK x : x = Arg(c).id
      OBVIOUS
    <2>2. \A d : d \in E <=> d \in D /\ d.id # x
      BY <1>1, <1>9, <2>1 DEF Removes
    <2>3. CASE ProjectGone(D, E, x)
      <3>1. Counter!RemoveProject(x)
        BY <1>3, <1>4, <2>3 DEF ProjectGone, Counter!RemoveProject
      <3> QED BY <1>4, <2>3, <3>1 DEF ProjectGone, Counter!Next
    <2>4. CASE IssueGone(D, E)
      <3>1. PICK p \in CountedIn(D) : \E n \in GivenIn(D)[p] :
                /\ LastIn(E) = LastIn(D)
                /\ GivenIn(E) = [GivenIn(D) EXCEPT ![p] = @ \ {n}]
        BY <2>4 DEF IssueGone
      <3>2. Counter!RemoveIssue(p)
        BY <1>3, <3>1 DEF Counter!RemoveIssue
      <3> QED BY <1>4, <3>2 DEF Counter!Next
    <2> QED BY <1>2, <1>5, <2>2, <2>3, <2>4, RemovedNumbers
  <1>10. ASSUME Counts(c) PROVE [Counter!Next]_(Counter!counterVars)
    <2>1. PICK p : p = loc[c].doc.id
      OBVIOUS
    <2>2. PICK tx : tx = TxUpdateDoc(p, << >>, {"sequence"})
      OBVIOUS
    <2>3. PICK i : i = Issued(c)
      OBVIOUS
    <2> DEFINE u == [d \in D |-> IF d.id = p THEN Updated(d, tx) ELSE d]
    <2>4. \A x : x \in E <=> x = i \/ \E d \in D : x = u[d]
      <3>1. tx.id = p
        BY <2>2 DEF TxUpdateDoc
      <3>2. E = Edited(tx) \cup {i}
        BY <1>1, <1>10, <2>1, <2>2, <2>3 DEF Counts
      <3> QED BY <1>1, <3>1, <3>2 DEF Edited
    <2>5. ASSUME NEW d \in D, d.id = p
          PROVE  /\ d.class = "Project" /\ "sequence" \in DOMAIN d
                 /\ d.sequence = loc[c].sequence
                 /\ u[d].id = p /\ u[d].class = "Project" /\ "sequence" \in DOMAIN u[d]
                 /\ u[d].sequence = d.sequence + 1
      <3>1. PICK e : e = Updated(d, tx)
        OBVIOUS
      <3>2. /\ d.class = "Project" /\ "sequence" \in DOMAIN d
            /\ d.sequence = loc[c].sequence
            /\ DOMAIN e = DOMAIN d
            /\ e.sequence = d.sequence + 1
            /\ \A f \in DOMAIN d \ {"sequence"} : e[f] = d[f]
        BY <1>1, <1>10, <2>1, <2>2, <2>5, <3>1, Counted
      <3>3. {"id", "class"} \subseteq DOMAIN d
        BY <1>2 DEF Sound, Complete
      <3>4. e.id = p /\ e.class = "Project"
        BY <2>5, <3>2, <3>3
      <3> QED BY <2>5, <3>1, <3>2, <3>4
    <2>6. \A d \in D : d.id # p => u[d] = d
      OBVIOUS
    <2>7. p \in CountedIn(D) /\ LastIn(D)[p] = loc[c].sequence
      <3>1. PICK d \in D : d.id = p
        BY <1>1, <1>10, <2>1 DEF Counts, Taken, FindAll, Matches
      <3> QED BY <1>2, <2>5, <3>1, CounterFields
    <2>8. i.class = "Issue" /\ i.space = p /\ i.number = LastIn(D)[p] + 1
      BY <2>1, <2>3, <2>7, IssuedFields
    <2> HIDE DEF u
    <2>9. /\ LastIn(E) = [LastIn(D) EXCEPT ![p] = @ + 1]
          /\ GivenIn(E) = [GivenIn(D) EXCEPT ![p] = @ \cup {LastIn(D)[p] + 1}]
      BY <1>2, <2>4, <2>5, <2>6, <2>7, <2>8, CountedNumbers
    <2>10. Counter!CreateIssue(p)
      BY <1>3, <2>9 DEF Counter!CreateIssue
    <2> QED BY <1>4, <2>7, <2>10 DEF Counter!Next
  <1> QED BY <1>6, <1>7, <1>8, <1>9, <1>10, ActsEffects

(* If the raw tools leave the managed classes alone, and the numbers of each project are within    *)
(* its counter at the start: the tools, with their optimistic transactions and retries, implement   *)
(* the abstract counter of IssueCounter, where no number of a project is ever given again           *)
(* (NeverGivenAgainCorrect).                                                                        *)
THEOREM ImplementsIssueCounterCorrect ==
    ASSUME RawToolsElsewhere
    PROVE  Spec /\ Counter!Init => ImplementsIssueCounter
PROOF
  <1>1. ASSUME AppliedInv, WorkInv, DataInv, DataInv', [Next]_vars
        PROVE  [Counter!Next]_(Counter!counterVars)
    <2>1. UNCHANGED docs => UNCHANGED <<LastNumber, IssueNumbers>>
      <3>1. ASSUME UNCHANGED docs PROVE LastNumber' = LastNumber /\ IssueNumbers' = IssueNumbers
        BY <3>1, CounterOf
      <3> QED BY <3>1
    <2>2. UNCHANGED docs => [Counter!Next]_(Counter!counterVars)
      BY <2>1 DEF Counter!counterVars
    <2>3. UNCHANGED vars => UNCHANGED docs
      BY DEF vars
    <2>4. ASSUME NEW c \in Calls, CallStep(c) PROVE [Counter!Next]_(Counter!counterVars)
      <3>1. Ready(c) /\ Told(c)
        BY <1>1 DEF WorkInv, Work
      <3>2. Acts(c)
        BY <1>1, <2>4, <3>1, CallActs
      <3>3. DocsInv'
        BY <1>1 DEF DataInv
      <3> QED BY <1>1, <3>2, <3>3, CallCounts
    <2> QED BY <1>1, <2>2, <2>3, <2>4, EnvironmentQuieter DEF Next
  <1>2. (AppliedInv /\ WorkInv /\ DataInv) /\ DataInv' /\ [Next]_vars => [Counter!Next]_(Counter!counterVars)
    BY <1>1
  <1> QED BY <1>2, DataHolds, PTL DEF Spec, ImplementsIssueCounter, Counter!Spec

(* The numbers of a project stay within 1 .. its counter, whatever the counter does. *)
LEMMA CounterRange ==
    Counter!NumbersInRange /\ [Counter!Next]_(Counter!counterVars) => Counter!NumbersInRange'
PROOF
  <1> SUFFICES ASSUME Counter!NumbersInRange, [Counter!Next]_(Counter!counterVars)
               PROVE  Counter!NumbersInRange'
    OBVIOUS
  <1> DEFINE last == LastNumber
             given == IssueNumbers
  <1>1. ASSUME NEW p \in DOMAIN last, Counter!CreateIssue(p) PROVE Counter!NumbersInRange'
    <2>1. DOMAIN last' = DOMAIN last /\ DOMAIN given' = DOMAIN given
      BY <1>1 DEF Counter!CreateIssue
    <2>2. ASSUME NEW q \in DOMAIN last
          PROVE  last'[q] \in Nat /\ given'[q] \subseteq 1 .. last'[q]
      <3>1. last[q] \in Nat /\ given[q] \subseteq 1 .. last[q] /\ q \in DOMAIN given
        BY DEF Counter!NumbersInRange
      <3>2. CASE q = p
        <4>1. last'[q] = last[q] + 1 /\ given'[q] = given[q] \cup {last[q] + 1}
          BY <1>1, <3>1, <3>2 DEF Counter!CreateIssue
        <4> QED BY <3>1, <4>1
      <3>3. CASE q # p
        BY <1>1, <3>1, <3>3 DEF Counter!CreateIssue
      <3> QED BY <3>2, <3>3
    <2> QED BY <2>1, <2>2 DEF Counter!NumbersInRange
  <1>2. ASSUME NEW p \in DOMAIN last, Counter!RemoveIssue(p) PROVE Counter!NumbersInRange'
    <2>1. PICK n \in given[p] : given' = [given EXCEPT ![p] = @ \ {n}]
      BY <1>2 DEF Counter!RemoveIssue
    <2>2. last' = last
      BY <1>2 DEF Counter!RemoveIssue
    <2> QED BY <2>1, <2>2 DEF Counter!NumbersInRange
  <1>3. ASSUME NEW p \in DOMAIN last, Counter!RemoveProject(p) PROVE Counter!NumbersInRange'
    BY <1>3 DEF Counter!RemoveProject, Counter!NumbersInRange
  <1>4. ASSUME NEW p \in DOMAIN last' \ DOMAIN last, Counter!CreateProject(p)
        PROVE  Counter!NumbersInRange'
    BY <1>4 DEF Counter!CreateProject, Counter!NumbersInRange
  <1>5. CASE UNCHANGED Counter!counterVars
    BY <1>5 DEF Counter!counterVars, Counter!NumbersInRange
  <1> QED BY <1>1, <1>2, <1>3, <1>4, <1>5 DEF Counter!Next

(* From the same start, the numbers of a project's issues are always among those its sequence *)
(* has counted (create_issue_in_project of tools.rs).                                         *)
THEOREM RangeCorrect ==
    ASSUME RawToolsElsewhere
    PROVE  Spec /\ Counter!Init => []Counter!NumbersInRange
PROOF
  <1>1. Counter!Spec => []Counter!NumbersInRange
    BY CounterRange, PTL DEF Counter!Spec, Counter!Init
  <1> QED BY <1>1, ImplementsIssueCounterCorrect, PTL DEF ImplementsIssueCounter

(* A new issue's number is above every number its project has given before: no interleaving of *)
(* tools brings a number back, not that of a removed issue either.                             *)
THEOREM NeverGivenAgainCorrect ==
    ASSUME RawToolsElsewhere
    PROVE  Spec /\ Counter!Init => Counter!NeverGivenAgain
PROOF
  <1> DEFINE last == LastNumber
             given == IssueNumbers
             Above == \A p \in DOMAIN LastNumber \cap DOMAIN LastNumber' :
                          \A n \in IssueNumbers'[p] \ IssueNumbers[p] : n > LastNumber[p]
  <1>1. Counter!NumbersInRange /\ [Counter!Next]_(Counter!counterVars) => [Above]_(Counter!counterVars)
    <2> SUFFICES ASSUME Counter!NumbersInRange, Counter!Next,
                        NEW q \in DOMAIN last \cap DOMAIN last', NEW n \in given'[q] \ given[q]
                 PROVE  n > last[q]
      OBVIOUS
    <2>0. q \in DOMAIN given /\ last[q] \in Nat
      BY DEF Counter!NumbersInRange
    <2>1. ASSUME NEW p \in DOMAIN last, Counter!CreateIssue(p) PROVE n > last[q]
      BY <2>0, <2>1 DEF Counter!CreateIssue
    <2>2. ASSUME NEW p \in DOMAIN last, Counter!RemoveIssue(p) PROVE n > last[q]
      BY <2>0, <2>2 DEF Counter!RemoveIssue
    <2>3. ASSUME NEW p \in DOMAIN last, Counter!RemoveProject(p) PROVE n > last[q]
      BY <2>0, <2>3 DEF Counter!RemoveProject
    <2>4. ASSUME NEW p \in DOMAIN last' \ DOMAIN last, Counter!CreateProject(p) PROVE n > last[q]
      BY <2>0, <2>4 DEF Counter!CreateProject
    <2> QED BY <2>1, <2>2, <2>3, <2>4 DEF Counter!Next
  <1>2. []Counter!NumbersInRange /\ Counter!Spec => Counter!NeverGivenAgain
    BY <1>1, PTL DEF Counter!Spec, Counter!NeverGivenAgain
  <1> QED BY <1>2, RangeCorrect, ImplementsIssueCounterCorrect, PTL DEF ImplementsIssueCounter
=============================================================================
