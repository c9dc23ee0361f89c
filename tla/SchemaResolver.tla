--------------------------- MODULE SchemaResolver ---------------------------
(***************************************************************************)
(* Names of card types and relations (huly-client schema_resolver.rs),     *)
(* kept current by the transactor's events (huly-mcp                       *)
(* schema_invalidator.rs): the workspace's MasterTag and Association       *)
(* documents are read into two maps from user-visible name to id, a class  *)
(* given to a tool is looked up in them, and a transaction that may change *)
(* them makes the next call read them again.  ClientFactory.tla has what a *)
(* call gets from this cache, with versions for contents; here is what the *)
(* cache holds, of documents as they are.                                  *)
(* A name or an id is the sequence of its segments between colons.         *)
(***************************************************************************)
EXTENDS Naturals, Sequences, FiniteSets, SequencesExt, WireValues

CONSTANTS TagIds, AssocIds,                \* ids of MasterTag and Association documents
          TagAttributes, AssocAttributes,  \* what such documents may look like
          ClassNames,                      \* classes a caller may name
          Refreshers,                      \* calls that may refresh at the same time
          MaxQueued,                       \* bound: events on their way to the invalidator
          MaxVersion,                      \* bound: the cache is refreshed up to this version
          MaxChanges                       \* bound: how often the workspace is changed

\* The validators of the callers reject an empty class.
ASSUME NamesAssumption ==
    /\ IsFiniteSet(TagIds) /\ IsFiniteSet(AssocIds)
    /\ <<>> \notin ClassNames

VARIABLES ids,        \* the workspace: [tags, assocs], each from id to attributes
          handle,     \* the SchemaHandle of the cached entry: version, the maps, the ambiguous names
          fresh,      \* schema_refreshed_at of the cached entry is set and no TTL has passed
          events,     \* transactions on their way to the invalidator
          refresh,    \* each call's refresh_schema
          astray,     \* history: an event since the last lone refresh began has not done its work
          changes     \* how often the workspace has been changed

schemaVars == <<ids, handle, fresh, events, refresh, astray, changes>>

-----------------------------------------------------------------------------
IsPlatformName(name) == Len(name) >= 3

CardTypeNameKeys == <<"label", "name">>
AssocNameKeys    == <<"nameA", "name", "label">>

\* Mutant: a key that is there hides the others, even when it is empty.
PickFirstKey(attributes, keys, id) ==
    LET named == SelectSeq(keys, LAMBDA k : Has(attributes, k))
    IN  IF named = <<>> THEN id ELSE StrField(attributes, named[1], id)

\* The keys in turn: the first with a non-empty string, else the id.
PickName(attributes, keys, id) ==
    LET pick[k \in 1 .. Len(keys) + 1] ==
            IF k > Len(keys) THEN id
            ELSE IF StrField(attributes, keys[k], <<>>) # <<>> THEN StrField(attributes, keys[k], <<>>)
            ELSE pick[k + 1]
    IN  pick[1]

NameOf(doc, keys) == PickName(doc.attributes, keys, doc.id)

\* acc.entry(name).or_default().push(id)
Entered(acc, name, id) ==
    [n \in DOMAIN acc \cup {name} |->
        IF n # name THEN acc[n] ELSE IF n \in DOMAIN acc THEN Append(acc[n], id) ELSE <<id>>]

\* The ids of each name, in the order the documents were read; no name is skipped but the empty one.
Collected(docs, keys) ==
    LET acc[n \in 0 .. Len(docs)] ==
            IF n = 0 THEN <<>>
            ELSE IF NameOf(docs[n], keys) = <<>> THEN acc[n - 1]
            ELSE Entered(acc[n - 1], NameOf(docs[n], keys), docs[n].id)
    IN  acc[Len(docs)]

\* The names of exactly one document, and those of several with all their ids.
BuildMap(docs, keys) ==
    LET acc    == Collected(docs, keys)
        unique == {n \in DOMAIN acc : Len(acc[n]) = 1}
    IN  [unique    |-> [n \in unique |-> acc[n][1]],
         ambiguous |-> [n \in DOMAIN acc \ unique |-> acc[n]]]

\* SchemaHandle::install: the version tells two contents apart.
InstallSchema(h, cardTypes, associations) ==
    LET unchanged == h.cardTypes = cardTypes /\ h.associations = associations
    IN  IF unchanged /\ h.version # 0 THEN h
        ELSE [version |-> h.version + 1, cardTypes |-> cardTypes, associations |-> associations]

\* SchemaHandle::resolve_class: card types before associations, a name of
\* several documents before a lookup.
ResolveName(h, name) ==
    CASE IsPlatformName(name) -> Ok(name)
      [] ~IsPlatformName(name) /\ name \in DOMAIN h.cardTypes.ambiguous ->
             Err("Ambiguous", "CardType", h.cardTypes.ambiguous[name])
      [] ~IsPlatformName(name) /\ name \in DOMAIN h.cardTypes.unique -> Ok(h.cardTypes.unique[name])
      [] ~IsPlatformName(name) /\ name \notin DOMAIN h.cardTypes.ambiguous
            /\ name \notin DOMAIN h.cardTypes.unique ->
             CASE name \in DOMAIN h.associations.ambiguous ->
                      Err("Ambiguous", "Association", h.associations.ambiguous[name])
               [] name \in DOMAIN h.associations.unique -> Ok(h.associations.unique[name])
               [] OTHER -> Failure("Unknown")

-----------------------------------------------------------------------------
SchemaMutatingClasses == {"MasterTag", "Association", "Class", "Mixin", "Attribute"}
MutatingTxClasses == {"TxCreateDoc", "TxUpdateDoc", "TxRemoveDoc", "TxMixin"}

\* The transaction may be the whole event or its `tx`, and may bundle others.
\* Bundles in bundles are opened twice here, without a limit in the code.
TransactionOf(event) == IF "tx" \in DOMAIN event THEN event.tx ELSE event

Opened(payloads) ==
    UNION {IF "txes" \in DOMAIN TransactionOf(p) THEN Range(TransactionOf(p).txes) ELSE {p} : p \in payloads}

IsSchemaMutating(event) ==
    \E p \in Opened(Opened({event})) :
        TransactionOf(p).class \in MutatingTxClasses /\ TransactionOf(p).objectClass \in SchemaMutatingClasses

-----------------------------------------------------------------------------
EmptyMap == [unique |-> <<>>, ambiguous |-> <<>>]

EmptyHandle == [version |-> 0, cardTypes |-> EmptyMap, associations |-> EmptyMap]

\* kept: the handle that the call has cloned is still that of the cached entry.
NoRefresh == [pc |-> "idle", tags |-> <<>>, assocs |-> <<>>, kept |-> TRUE]

NothingCached ==
    /\ handle = EmptyHandle /\ fresh = FALSE
    /\ refresh = [r \in Refreshers |-> NoRefresh]
    /\ events = <<>> /\ astray = FALSE /\ changes = 0

SchemaInit ==
    /\ \E t \in SUBSET TagIds, a \in SUBSET AssocIds :
         \E tags \in [t -> TagAttributes], assocs \in [a -> AssocAttributes] :
            ids = [tags |-> tags, assocs |-> assocs]
    /\ NothingCached

SchemaIdle == ids = [tags |-> <<>>, assocs |-> <<>>] /\ NothingCached

-----------------------------------------------------------------------------
(* schema() and refresh_schema() of one call: it decides on one look at    *)
(* the entry, clones the handle on another, queries twice, installs both   *)
(* answers and marks the entry that is in the cache by then.               *)

\* find_all returns the documents in any order.
AnyOrder(docs) ==
    {[i \in DOMAIN s |-> [id |-> s[i], attributes |-> docs[s[i]]]] : s \in SetToSeqs(DOMAIN docs)}

GoesTo(r, pc) == refresh' = [refresh EXCEPT ![r].pc = pc]

UnderWay == \E r \in Refreshers : refresh[r].pc # "idle"

\* A refresh with no other one under way starts from what the workspace is.
NeedsRefresh(r) ==
    /\ refresh[r].pc = "idle" /\ ~fresh /\ handle.version <= MaxVersion
    /\ GoesTo(r, "snapshot")
    /\ astray' = (astray /\ UnderWay)
    /\ UNCHANGED <<ids, handle, fresh, events, changes>>

SnapshotEntry(r) ==
    /\ refresh[r].pc = "snapshot"
    /\ GoesTo(r, "tags")
    /\ UNCHANGED <<ids, handle, fresh, events, astray, changes>>

FetchMasterTags(r) ==
    /\ refresh[r].pc = "tags"
    /\ \E docs \in AnyOrder(ids.tags) :
          refresh' = [refresh EXCEPT ![r].tags = docs, ![r].pc = "assocs"]
    /\ UNCHANGED <<ids, handle, fresh, events, astray, changes>>

FetchAssociations(r) ==
    /\ refresh[r].pc = "assocs"
    /\ \E docs \in AnyOrder(ids.assocs) :
          refresh' = [refresh EXCEPT ![r].assocs = docs, ![r].pc = "install"]
    /\ UNCHANGED <<ids, handle, fresh, events, astray, changes>>

\* A query fails: the cache stays as it was, and stale.
QueryFailed(r) ==
    /\ refresh[r].pc \in {"tags", "assocs"}
    /\ refresh' = [refresh EXCEPT ![r] = NoRefresh]
    /\ UNCHANGED <<ids, handle, fresh, events, astray, changes>>

InstallNames(r) ==
    /\ refresh[r].pc = "install"
    /\ handle' = IF refresh[r].kept
                 THEN InstallSchema(handle, BuildMap(refresh[r].tags, CardTypeNameKeys),
                                            BuildMap(refresh[r].assocs, AssocNameKeys))
                 ELSE handle
    /\ refresh' = [refresh EXCEPT ![r] = [NoRefresh EXCEPT !.pc = "mark"]]
    /\ UNCHANGED <<ids, fresh, events, astray, changes>>

MarkFresh(r) ==
    /\ refresh[r].pc = "mark"
    /\ GoesTo(r, "idle")
    /\ fresh' = TRUE
    /\ UNCHANGED <<ids, handle, events, astray, changes>>

\* refresh_jwt puts another entry into the cache, with a handle of its own: a
\* refresh under way fills the old one and marks the new one.
ReplaceEntry ==
    /\ handle' = EmptyHandle /\ fresh' = FALSE
    /\ refresh' = [r \in Refreshers |->
                      [refresh[r] EXCEPT !.kept = @ /\ refresh[r].pc \in {"idle", "snapshot", "mark"}]]
    /\ astray' = (astray \/ UnderWay)
    /\ UNCHANGED <<ids, events, changes>>

NamesTtlElapsed ==
    /\ fresh' = FALSE
    /\ UNCHANGED <<ids, handle, events, refresh, astray, changes>>

-----------------------------------------------------------------------------
\* Somebody changes the workspace, in one transaction; the bridge publishes it
\* as it came: bare or wrapped, alone or behind another one in a TxApplyIf.
TransactionsOf(class, old, new) ==
    [class : {IF old = {} THEN "TxCreateDoc" ELSE IF new = {} THEN "TxRemoveDoc" ELSE "TxUpdateDoc"},
     objectClass : {class}]

Wrapped(tx) ==
    LET bundle == [class |-> "TxApplyIf",
                   txes |-> <<[class |-> "TxCreateDoc", objectClass |-> "Issue"], tx>>]
    IN  {tx, [tx |-> tx], bundle, [tx |-> bundle]}

Put(docs, id, new) ==
    [i \in (DOMAIN docs \ {id}) \cup (IF new = {} THEN {} ELSE {id}) |->
        IF i = id THEN CHOOSE a \in new : TRUE ELSE docs[i]]

ChangeDocument(kind, class, id, new) ==
    LET old == IF id \in DOMAIN ids[kind] THEN {ids[kind][id]} ELSE {}
    IN  /\ old # {} \/ new # {}
        /\ ids' = [ids EXCEPT ![kind] = Put(@, id, new)]
        /\ \E tx \in TransactionsOf(class, old, new) : events' = Append(events, tx)

TransactSchema ==
    /\ Len(events) < MaxQueued /\ changes < MaxChanges /\ changes' = changes + 1
    /\ \/ \E id \in TagIds, new \in {{}} \cup {{a} : a \in TagAttributes} :
             ChangeDocument("tags", "MasterTag", id, new)
       \/ \E id \in AssocIds, new \in {{}} \cup {{a} : a \in AssocAttributes} :
             ChangeDocument("assocs", "Association", id, new)
    /\ UNCHANGED <<handle, fresh, refresh, astray>>

\* run_schema_invalidator: what it clears, the mark of a refresh under way sets again.
SeeEvent ==
    /\ events # <<>>
    /\ events' = Tail(events)
    /\ \E event \in Wrapped(Head(events)) : fresh' = (fresh /\ ~IsSchemaMutating(event))
    /\ astray' = (astray \/ UnderWay)
    /\ UNCHANGED <<ids, handle, refresh, changes>>

\* The event does not reach the invalidator: a full channel of the connection,
\* the end of publish_event's retries, a subscription that is not there.
LoseEvent ==
    /\ events # <<>>
    /\ events' = Tail(events)
    /\ astray' = TRUE
    /\ UNCHANGED <<ids, handle, fresh, refresh, changes>>

SchemaNext ==
    \/ \E r \in Refreshers :
          \/ NeedsRefresh(r) \/ SnapshotEntry(r) \/ FetchMasterTags(r) \/ FetchAssociations(r)
          \/ QueryFailed(r) \/ InstallNames(r) \/ MarkFresh(r)
    \/ ReplaceEntry \/ NamesTtlElapsed
    \/ TransactSchema \/ SeeEvent \/ LoseEvent
SchemaSpec == SchemaInit /\ [][SchemaNext]_schemaVars

-----------------------------------------------------------------------------
\* What a name stands for in the workspace as it is.
FirstName(attributes, keys) ==
    LET usable == {i \in DOMAIN keys : Has(attributes, keys[i]) /\ IsStr(attributes.obj[keys[i]])
                                       /\ attributes.obj[keys[i]].str # <<>>}
    IN  IF usable = {} THEN <<>>
        ELSE attributes.obj[keys[CHOOSE i \in usable : \A j \in usable : i <= j]].str

Bearers(docs, keys, name) ==
    {id \in DOMAIN docs : name = IF FirstName(docs[id], keys) = <<>> THEN id
                                 ELSE FirstName(docs[id], keys)}

\* An answer that names what bears the name.
Answers(found, name, bearers) ==
    CASE IsPlatformName(name)                    -> found = Ok(name)
      [] ~IsPlatformName(name) /\ bearers = {}   -> ~IsOk(found) /\ found.err = "Unknown"
      [] ~IsPlatformName(name) /\ Cardinality(bearers) = 1 -> found = Ok(CHOOSE b \in bearers : TRUE)
      [] ~IsPlatformName(name) /\ Cardinality(bearers) > 1 ->
            /\ ~IsOk(found) /\ found.err = "Ambiguous"
            /\ Range(found.message) = bearers

\* The names of a cache that counts as fresh.  If no event of a change is on
\* its way, and none since the last refresh that began alone was lost or seen by
\* the invalidator while a refresh was under way, and no entry was replaced
\* under one, a name resolves as in the workspace of now: a platform id to
\* itself, a name of one card type to its id, a name of several to all of them
\* and to no arbitrary one, the same for relations where no card type has the
\* name, and any other name to nothing.  So a change between the two queries of
\* a refresh, a failed query, two refreshes of one handle and every wrapping of
\* a transaction are survived.  The excepted cases are wrong until the TTL or the
\* next event (ClientFactory's InvalidationHonoured and ReturnedPopulated).
NamesResolve ==
    (fresh /\ events = <<>> /\ ~astray) =>
        \A name \in ClassNames :
            LET tags   == Bearers(ids.tags, CardTypeNameKeys, name)
                assocs == Bearers(ids.assocs, AssocNameKeys, name)
            IN  Answers(ResolveName(handle, name), name, IF tags # {} THEN tags ELSE assocs)
=============================================================================
