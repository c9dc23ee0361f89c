------------------------------ MODULE Transactor ------------------------------
(***************************************************************************)
(* The documents of one Huly workspace as the transactor keeps them, and   *)
(* the transactions that huly-mcp builds for it (txcud.rs).  The           *)
(* transactor itself is external: it is modelled from how the tools use    *)
(* it.  It applies one transaction at a time, a TxApplyIf with its         *)
(* sub-transactions as a whole and only when its predicates hold.          *)
(*                                                                         *)
(* A document is a record with the fields id, class and space and those of *)
(* its class; a query is a record of the fields a document must have.      *)
(* Classes carry their bare names: "Issue" stands for                      *)
(* tracker:class:Issue.                                                    *)
(***************************************************************************)
EXTENDS Naturals, Sequences, FiniteSets, SequencesExt, TLC, Records

None == << >>

Matches(d, query) == \A f \in DOMAIN query : f \in DOMAIN d /\ d[f] = query[f]

FindAll(docs, class, query) == {d \in docs : d.class = class /\ Matches(d, query)}

-----------------------------------------------------------------------------
(* Sub-transactions. *)

TxCreateDoc(id, class, space, attrs) ==
    [op |-> "create", doc |-> Extended([id |-> id, class |-> class, space |-> space], attrs)]

(* The collection fields are stored with the document. *)
TxCollectionCreate(id, class, space, attachedTo, attrs) ==
    [op |-> "create",
     doc |-> Extended([id |-> id, class |-> class, space |-> space, attachedTo |-> attachedTo],
                      attrs)]

(* `set` is merged into the document, the fields in `inc` are incremented. *)
TxUpdateDoc(id, set, inc) == [op |-> "update", id |-> id, set |-> set, inc |-> inc]

TxRemoveDoc(id) == [op |-> "remove", id |-> id]

ApplyIfMatch(class, query) == [class |-> class, query |-> query]

TxApplyIf(match, notMatch, txes) ==
    [op |-> "apply_if", match |-> match, notMatch |-> notMatch, txes |-> txes]

-----------------------------------------------------------------------------
(* What the transactor does with a transaction. *)

Updated(d, tx) ==
    [f \in DOMAIN d \cup DOMAIN tx.set |->
        IF f \in DOMAIN tx.set THEN tx.set[f]
        ELSE IF f \in tx.inc THEN d[f] + 1 ELSE d[f]]

ApplyCud(docs, tx) ==
    CASE tx.op = "create" -> docs \cup {tx.doc}
      [] tx.op = "update" -> {IF d.id = tx.id THEN Updated(d, tx) ELSE d : d \in docs}
      [] tx.op = "remove" -> {d \in docs : d.id # tx.id}

Found(docs, m) == FindAll(docs, m.class, m.query) # {}

Accepts(docs, tx) ==
    tx.op = "apply_if" =>
        /\ \A m \in tx.match : Found(docs, m)
        /\ \A m \in tx.notMatch : ~Found(docs, m)

Apply(docs, tx) ==
    IF tx.op # "apply_if" THEN ApplyCud(docs, tx)
    ELSE IF Accepts(docs, tx) THEN FoldLeft(ApplyCud, docs, tx.txes) ELSE docs
=============================================================================
