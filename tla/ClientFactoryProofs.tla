------------------------- MODULE ClientFactoryProofs -------------------------
(***************************************************************************)
(* The client factory for any number of concurrent calls, schema changes,  *)
(* rebuilds and failures: its types, and that no handle ever pairs tags    *)
(* with older associations.                                                *)
(***************************************************************************)
EXTENDS ClientFactory, FiniteSetTheorems, TLAPS

(* A refresh that has the tags will get associations at least as new, because the schema's *)
(* version only grows; once it has both they are in order.                                 *)
FetchedInOrder ==
    \A c \in Callers :
        /\ pc[c] = "assocs" => fetched[c].tags <= remote
        /\ pc[c] = "install" => fetched[c].tags <= fetched[c].assocs

Inv ==
    /\ TypeOK
    /\ FetchedInOrder
    /\ NoMixedSchema

(* A set with fewer elements than there are handles leaves one free: handles are finite. *)
LEMMA HandlesFinite ==
    /\ IsFiniteSet(Handles)
    /\ Cardinality(Callers) \in Nat
    /\ Cardinality(Handles) = Cardinality(Callers) + 2
PROOF
  <1>1. IsFiniteSet(Callers) BY FactoryAssumption
  <1>2. Cardinality(Callers) \in Nat BY <1>1, FS_CardinalityType
  <1>3. 1 \in Int /\ Cardinality(Callers) + 2 \in Int
    BY <1>2
  <1>4. /\ IsFiniteSet(1 .. Cardinality(Callers) + 2)
        /\ Cardinality(1 .. Cardinality(Callers) + 2) =
               IF 1 > Cardinality(Callers) + 2 THEN 0 ELSE (Cardinality(Callers) + 2) - 1 + 1
    BY <1>3, FS_Interval, Zenon
  <1> QED BY <1>2, <1>4 DEF Handles

(* A new entry always finds a handle that neither the entry in the map nor a refresh in flight *)
(* uses: each call holds one at most.                                                           *)
LEMMA FreeHandle ==
    ASSUME TypeOK
    PROVE  /\ MintedHandle \in Handles
           /\ MintedHandle # entry.handle
           /\ \A c \in Callers : hold[c] # MintedHandle
PROOF
  <1> DEFINE Held == {h \in Handles \cup {NoHandle} : \E c \in Callers : hold[c] = h}
             Used == Held \cup {entry.handle}
  <1>1. hold \in Surjection(Callers, Held)
    BY DEF TypeOK, Surjection
  <1>2. IsFiniteSet(Callers)
    BY FactoryAssumption
  <1>3. IsFiniteSet(Held) /\ Cardinality(Held) <= Cardinality(Callers)
    <2> HIDE DEF Held
    <2> QED BY <1>1, <1>2, FS_Surjection
  <1>4. IsFiniteSet(Used) /\ Cardinality(Used) <= Cardinality(Callers) + 1
    <2> HIDE DEF Held
    <2>1. Cardinality(Held) \in Nat /\ Cardinality(Callers) \in Nat
      BY <1>2, <1>3, FS_CardinalityType
    <2>2. /\ IsFiniteSet(Used)
          /\ Cardinality(Used) = IF entry.handle \in Held THEN Cardinality(Held)
                                 ELSE Cardinality(Held) + 1
      BY <1>3, FS_AddElement
    <2> QED BY <1>3, <2>1, <2>2
  <1>5. \E h \in Handles : h \notin Used
    <2> HIDE DEF Used
    <2>1. SUFFICES ASSUME Handles \subseteq Used PROVE FALSE
      OBVIOUS
    <2>2. Cardinality(Handles) <= Cardinality(Used)
      BY <1>4, <2>1, FS_Subset
    <2>3. Cardinality(Used) \in Nat
      BY <1>4, FS_CardinalityType
    <2> QED BY <1>4, <2>2, <2>3, HandlesFinite
  <1>6. \E h \in Handles : h # entry.handle /\ \A c \in Callers : hold[c] # h
    BY <1>5
  <1> QED BY <1>6 DEF MintedHandle

(* Nothing cached, nobody at work. *)
LEMMA InvInit == Init => Inv
PROOF
  <1> SUFFICES ASSUME Init PROVE Inv
    OBVIOUS
  <1> USE FactoryAssumption DEF Init
  <1>1. TypeOK
    BY DEF TypeOK, Versions, Schemas, Empty, NoEntry, Refreshing
  <1>2. FetchedInOrder /\ NoMixedSchema
    BY DEF FetchedInOrder, NoMixedSchema, Empty
  <1> QED BY <1>1, <1>2 DEF Inv

(* The entry stays an entry, and the absent one absent, when a mark on it changes. *)
LEMMA EntryMarked ==
    ASSUME entry \in [handle : Handles, due : BOOLEAN, fresh : BOOLEAN] \cup {NoEntry}
    PROVE  /\ [entry EXCEPT !.fresh = FALSE] \in
                  [handle : Handles, due : BOOLEAN, fresh : BOOLEAN] \cup {NoEntry}
           /\ entry # NoEntry =>
                  /\ entry.handle \in Handles
                  /\ [entry EXCEPT !.fresh = TRUE] \in [handle : Handles, due : BOOLEAN, fresh : BOOLEAN]
                  /\ [entry EXCEPT !.due = TRUE] \in [handle : Handles, due : BOOLEAN, fresh : BOOLEAN]
PROOF
  <1>1. CASE entry = NoEntry
    <2>1. entry \in [handle : {NoHandle}, due : {FALSE}, fresh : {FALSE}]
      BY <1>1 DEF NoEntry
    <2>2. [entry EXCEPT !.fresh = FALSE] = entry
      BY <2>1
    <2> QED BY <1>1, <2>2
  <1>2. CASE entry \in [handle : Handles, due : BOOLEAN, fresh : BOOLEAN]
    <2> DEFINE Entries == [handle : Handles, due : BOOLEAN, fresh : BOOLEAN]
    <2>1. entry.handle \in Handles
      BY <1>2
    <2>2. [entry EXCEPT !.fresh = FALSE] \in Entries
      BY <1>2
    <2>3. [entry EXCEPT !.fresh = TRUE] \in Entries
      BY <1>2
    <2>4. [entry EXCEPT !.due = TRUE] \in Entries
      BY <1>2
    <2> QED BY <2>1, <2>2, <2>3, <2>4
  <1> QED BY <1>1, <1>2

(* What a call has fetched, field by field. *)
LEMMA FetchedFields ==
    ASSUME TypeOK, NEW c \in Callers, NEW d \in Callers
    PROVE  /\ fetched[d] \in Schemas
           /\ [fetched EXCEPT ![c].tags = remote] \in [Callers -> Schemas]
           /\ [fetched EXCEPT ![c].assocs = remote] \in [Callers -> Schemas]
           /\ [fetched EXCEPT ![c].tags = remote][d].tags =
                  IF d = c THEN remote ELSE fetched[d].tags
           /\ [fetched EXCEPT ![c].tags = remote][d].assocs = fetched[d].assocs
           /\ [fetched EXCEPT ![c].assocs = remote][d].assocs =
                  IF d = c THEN remote ELSE fetched[d].assocs
           /\ [fetched EXCEPT ![c].assocs = remote][d].tags = fetched[d].tags
PROOF
  <1> USE FactoryAssumption
  <1>1. remote \in 0 .. MaxVersion /\ fetched \in [Callers -> Schemas]
    BY DEF TypeOK, Versions
  <1>2. /\ [fetched[c] EXCEPT !.tags = remote] \in Schemas
        /\ [fetched[c] EXCEPT !.assocs = remote] \in Schemas
    BY <1>1 DEF Schemas
  <1>3. fetched[c] = [tags |-> fetched[c].tags, assocs |-> fetched[c].assocs]
    BY <1>1 DEF Schemas
  <1> QED BY <1>1, <1>2, <1>3

(* Inv is inductive: an action that is no refresh leaves the handles alone, or empties one. *)
LEMMA InvStep == Inv /\ [Next]_vars => Inv'
PROOF
  <1> SUFFICES ASSUME Inv, [Next]_vars PROVE Inv'
    OBVIOUS
  <1> USE FactoryAssumption DEF Inv
  <1>1. ASSUME NEW c \in Callers, StartSchema(c) PROVE Inv'
    <2>1. TypeOK'
      BY <1>1 DEF StartSchema, TypeOK, Empty, Schemas, GoTo, Refreshing, NoHandle
    <2>2. FetchedInOrder'
      BY <1>1 DEF StartSchema, FetchedInOrder, GoTo
    <2>3. NoMixedSchema'
      BY <1>1 DEF StartSchema, NoMixedSchema
    <2> QED BY <2>1, <2>2, <2>3
  <1>2. ASSUME NEW c \in Callers, StartStatus(c) PROVE Inv'
    BY <1>2
    DEF StartStatus, TypeOK, FetchedInOrder, NoMixedSchema, NoEntry, NoHandle, Handles, Refreshing,
        GoTo
  <1>3. ASSUME NEW c \in Callers, ReadEntry(c) PROVE Inv'
    BY <1>3
    DEF ReadEntry, TypeOK, FetchedInOrder, NoMixedSchema, NoEntry, NoHandle, Handles, Refreshing,
        GoTo, Usable
  <1>4. ASSUME NEW c \in Callers, Snapshot(c) PROVE Inv'
    <2>1. TypeOK'
      <3>1. NoHandle \notin Handles /\ (entry # NoEntry => entry.handle \in Handles)
        BY EntryMarked DEF TypeOK, Handles, NoHandle
      <3>2. CASE entry = NoEntry
        BY <1>4, <3>2 DEF Snapshot, TypeOK, GoTo, Refreshing
      <3>3. CASE entry # NoEntry
        BY <1>4, <3>1, <3>3 DEF Snapshot, TypeOK, GoTo, Refreshing
      <3> QED BY <3>2, <3>3
    <2>2. FetchedInOrder'
      BY <1>4 DEF Snapshot, TypeOK, FetchedInOrder, GoTo
    <2>3. NoMixedSchema'
      BY <1>4 DEF Snapshot, NoMixedSchema
    <2> QED BY <2>1, <2>2, <2>3
  <1>5. ASSUME NEW c \in Callers, Install(c) PROVE Inv'
    <2>1. TypeOK'
      BY <1>5 DEF Install, TypeOK, Empty, Schemas, GoTo, Refreshing, NoHandle
    <2>2. FetchedInOrder'
      BY <1>5 DEF Install, TypeOK, FetchedInOrder, GoTo
    <2>3. NoMixedSchema'
      BY <1>5 DEF Install, TypeOK, FetchedInOrder, NoMixedSchema, Refreshing, NoHandle
    <2> QED BY <2>1, <2>2, <2>3
  <1>6. ASSUME NEW c \in Callers, MarkRefreshed(c) PROVE Inv'
    BY <1>6
    DEF MarkRefreshed, TypeOK, FetchedInOrder, NoMixedSchema, NoEntry, NoHandle, Handles,
        Refreshing, GoTo
  <1>7. ASSUME NEW c \in Callers, ReadEntryAgain(c) PROVE Inv'
    <2>1. TypeOK'
      BY <1>7, EntryMarked DEF ReadEntryAgain, TypeOK, GoTo, Refreshing, NoHandle, Usable
    <2>2. FetchedInOrder'
      BY <1>7 DEF ReadEntryAgain, TypeOK, FetchedInOrder, GoTo, Usable
    <2>3. NoMixedSchema'
      BY <1>7 DEF ReadEntryAgain, NoMixedSchema
    <2> QED BY <2>1, <2>2, <2>3
  <1>8. ASSUME NEW c \in Callers, ReadEntryForStatus(c) PROVE Inv'
    BY <1>8
    DEF ReadEntryForStatus, TypeOK, FetchedInOrder, NoMixedSchema, NoEntry, NoHandle, Handles,
        Refreshing, GoTo, Usable
  <1>9. ASSUME NEW c \in Callers, MintFailed(c) PROVE Inv'
    BY <1>9
    DEF MintFailed, TypeOK, FetchedInOrder, NoMixedSchema, NoEntry, NoHandle, Handles, Refreshing,
        GoTo
  <1>10. ASSUME NEW c \in Callers, FetchTags(c) PROVE Inv'
    <2>1. TypeOK'
      BY <1>10, FetchedFields DEF FetchTags, TypeOK, GoTo, Refreshing, NoHandle
    <2>2. FetchedInOrder'
      <3> SUFFICES ASSUME NEW d \in Callers
                   PROVE /\ pc'[d] = "assocs" => fetched'[d].tags <= remote'
                         /\ pc'[d] = "install" => fetched'[d].tags <= fetched'[d].assocs
        BY Zenon DEF FetchedInOrder
      <3>1. remote \in Nat /\ remote' = remote /\ fetched' = [fetched EXCEPT ![c].tags = remote]
        BY <1>10 DEF FetchTags, TypeOK, Versions
      <3>2. pc'[c] = "assocs" /\ (d # c => pc'[d] = pc[d])
        BY <1>10 DEF FetchTags, TypeOK, GoTo
      <3>3. CASE d = c
        <4>1. fetched'[c].tags = remote
          BY <3>1, FetchedFields
        <4>2. remote <= remote
          BY <3>1
        <4> QED BY <3>1, <3>2, <3>3, <4>1, <4>2
      <3>4. CASE d # c
        BY <3>1, <3>2, <3>4, FetchedFields DEF FetchedInOrder
      <3> QED BY <3>3, <3>4
    <2>3. NoMixedSchema'
      BY <1>10 DEF FetchTags, NoMixedSchema
    <2> QED BY <2>1, <2>2, <2>3
  <1>11. ASSUME NEW c \in Callers, FetchAssocs(c) PROVE Inv'
    <2>1. TypeOK'
      BY <1>11, FetchedFields DEF FetchAssocs, TypeOK, GoTo, Refreshing, NoHandle
    <2>2. FetchedInOrder'
      <3> SUFFICES ASSUME NEW d \in Callers
                   PROVE /\ pc'[d] = "assocs" => fetched'[d].tags <= remote'
                         /\ pc'[d] = "install" => fetched'[d].tags <= fetched'[d].assocs
        BY Zenon DEF FetchedInOrder
      <3>1. remote \in Nat /\ remote' = remote /\ fetched' = [fetched EXCEPT ![c].assocs = remote]
        BY <1>11 DEF FetchAssocs, TypeOK, Versions
      <3>2. pc'[c] = "install" /\ (d # c => pc'[d] = pc[d])
        BY <1>11 DEF FetchAssocs, TypeOK, GoTo
      <3>3. CASE d = c
        <4>1. fetched'[c].tags = fetched[c].tags /\ fetched'[c].assocs = remote
          BY <3>1, FetchedFields
        <4>2. fetched[c].tags <= remote
          BY <1>11 DEF FetchAssocs, FetchedInOrder
        <4> QED BY <3>1, <3>2, <3>3, <4>1, <4>2
      <3>4. CASE d # c
        BY <3>1, <3>2, <3>4, FetchedFields DEF FetchedInOrder
      <3> QED BY <3>3, <3>4
    <2>3. NoMixedSchema'
      BY <1>11 DEF FetchAssocs, NoMixedSchema
    <2> QED BY <2>1, <2>2, <2>3
  <1>12. ASSUME NEW c \in Callers, FetchFailed(c) PROVE Inv'
    <2>1. TypeOK'
      BY <1>12 DEF FetchFailed, TypeOK, Empty, Schemas, GoTo, Refreshing, NoHandle
    <2>2. FetchedInOrder'
      BY <1>12 DEF FetchFailed, TypeOK, FetchedInOrder, GoTo
    <2>3. NoMixedSchema'
      BY <1>12 DEF FetchFailed, NoMixedSchema
    <2> QED BY <2>1, <2>2, <2>3
  <1>13. ASSUME NEW c \in Callers, MintForSchema(c) PROVE Inv'
    BY <1>13, FreeHandle
    DEF MintForSchema, Minted, TypeOK, FetchedInOrder, NoMixedSchema, NoEntry, NoHandle,
        Refreshing, GoTo, Schemas, Empty
  <1>14. ASSUME NEW c \in Callers, MintForReturn(c) PROVE Inv'
    BY <1>14, FreeHandle
    DEF MintForReturn, Minted, TypeOK, FetchedInOrder, NoMixedSchema, NoEntry, NoHandle,
        Refreshing, GoTo, Schemas, Empty
  <1>15. ASSUME NEW c \in Callers, MintForStatus(c) PROVE Inv'
    BY <1>15, FreeHandle
    DEF MintForStatus, Minted, TypeOK, FetchedInOrder, NoMixedSchema, NoEntry, NoHandle,
        Refreshing, GoTo, Schemas, Empty
  <1>16. ASSUME SchemaChange PROVE Inv'
    <2>1. remote \in Nat /\ remote' = remote + 1 /\ remote' \in Versions
      BY <1>16 DEF SchemaChange, TypeOK, Versions
    <2>2. TypeOK'
      BY <1>16, <2>1 DEF SchemaChange, TypeOK
    <2>3. \A c \in Callers : fetched[c].tags \in Nat
      BY DEF TypeOK, Schemas
    <2>4. FetchedInOrder'
      BY <1>16, <2>1, <2>3 DEF SchemaChange, FetchedInOrder
    <2>5. NoMixedSchema'
      BY <1>16 DEF SchemaChange, NoMixedSchema
    <2> QED BY <2>2, <2>4, <2>5
  <1>17. ASSUME JwtDue PROVE Inv'
    <2>1. TypeOK'
      BY <1>17, EntryMarked DEF JwtDue, TypeOK
    <2>2. FetchedInOrder'
      BY <1>17 DEF JwtDue, FetchedInOrder
    <2>3. NoMixedSchema'
      BY <1>17 DEF JwtDue, NoMixedSchema
    <2> QED BY <2>1, <2>2, <2>3
  <1>18. ASSUME TtlElapsed PROVE Inv'
    <2>1. TypeOK'
      BY <1>18, EntryMarked DEF TtlElapsed, TypeOK
    <2>2. FetchedInOrder'
      BY <1>18 DEF TtlElapsed, FetchedInOrder
    <2>3. NoMixedSchema'
      BY <1>18 DEF TtlElapsed, NoMixedSchema
    <2> QED BY <2>1, <2>2, <2>3
  <1>19. ASSUME NEW v \in Versions, LoseEvent(v) PROVE Inv'
    BY <1>19
    DEF LoseEvent, TypeOK, FetchedInOrder, NoMixedSchema, NoEntry, NoHandle, Handles, Refreshing,
        GoTo, Versions
  <1>20. ASSUME NEW v \in Versions, InvalidateAll(v) PROVE Inv'
    <2>1. TypeOK'
      BY <1>20, EntryMarked DEF InvalidateAll, TypeOK, Versions
    <2>2. FetchedInOrder'
      BY <1>20 DEF InvalidateAll, FetchedInOrder
    <2>3. NoMixedSchema'
      BY <1>20 DEF InvalidateAll, NoMixedSchema
    <2> QED BY <2>1, <2>2, <2>3
  <1>21. CASE UNCHANGED vars
    BY <1>21 DEF vars, TypeOK, FetchedInOrder, NoMixedSchema
  <1> QED
    BY <1>1, <1>2, <1>3, <1>4, <1>5, <1>6, <1>7, <1>8, <1>9, <1>10,
       <1>11, <1>12, <1>13, <1>14, <1>15, <1>16, <1>17, <1>18, <1>19, <1>20, <1>21
    DEF Next, CallStep, LocalStep, MintReply

(* Spec keeps Inv. *)
THEOREM InvCorrect == Spec => []Inv
PROOF
  <1> QED BY InvInit, InvStep, PTL DEF Spec

(* Type correctness, with one handle in use per refresh in flight, for any number of calls. *)
THEOREM TypeCorrect == Spec => []TypeOK
PROOF
  <1>1. Inv => TypeOK BY DEF Inv
  <1> QED BY <1>1, InvCorrect, PTL

(* No handle pairs tags with older associations, however many refreshes overlap. *)
THEOREM NoMixedSchemaCorrect == Spec => []NoMixedSchema
PROOF
  <1>1. Inv => NoMixedSchema BY DEF Inv
  <1> QED BY <1>1, InvCorrect, PTL
=============================================================================
