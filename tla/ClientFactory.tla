---------------------------- MODULE ClientFactory ----------------------------
(***************************************************************************)
(* The client factory of huly-mcp, for one workspace: the cached entry     *)
(* with its JWT and its schema, filled by concurrent tool calls without a  *)
(* lock across their requests, and the invalidator that marks the schema   *)
(* as stale when the bridge publishes a schema change.  Workspaces share   *)
(* nothing but the lock of the map, which is never held across an await.   *)
(*                                                                         *)
(* External: the workspace's schema has a version, which a schema change   *)
(* increments; a fetch of its tags or of its associations returns the      *)
(* version of its moment.  Change events arrive late or get lost.  Time is *)
(* abstracted: a JWT comes due and a schema outlives its TTL at any time.  *)
(***************************************************************************)
EXTENDS Naturals, FiniteSets

CONSTANTS
    Callers,     \* concurrent tool calls
    MaxVersion,  \* bound: versions of the workspace's schema
    MaxRebuilds, \* bound: times the JWT comes due or the entry is forgotten
    MaxFailures  \* bound: requests to the broker or the workspace that fail

ASSUME FactoryAssumption ==
    /\ IsFiniteSet(Callers)
    /\ MaxVersion \in Nat \ {0}
    /\ {MaxRebuilds, MaxFailures} \subseteq Nat

VARIABLES
    remote,     \* external: the current version of the workspace's schema
    events,     \* external: the versions whose change event is on its way
    entry,      \* the workspace's WorkspaceEntry, or NoEntry
    content,    \* what each SchemaHandle holds: Empty, or the versions fetched
    pc,         \* where each tool call is
    hold,       \* the handle a refresh fills, that of the entry it started from
    fetched,    \* what the refresh has fetched so far
    notified,   \* history: the highest version whose event was processed
    floor,      \* history: `notified` when the call began
    clean,      \* history: the call met no failed request
    seen,       \* history: the schema the call returned, when it returned it
    rebuilds,   \* counts due JWTs and forgets
    failures    \* counts failed requests

vars == <<remote, events, entry, content, pc, hold, fetched, notified, floor, clean, seen, rebuilds, failures>>

Versions == 1 .. MaxVersion
Empty == [tags |-> 0, assocs |-> 0]
Schemas == [tags : 0 .. MaxVersion, assocs : 0 .. MaxVersion]

(* A call fills one handle at most, so one per call, the entry's and a spare are enough. *)
Handles == 1 .. Cardinality(Callers) + 2
NoHandle == 0
NoEntry == [handle |-> NoHandle, due |-> FALSE, fresh |-> FALSE]

Refreshing == {"tags", "assocs", "install"}

TypeOK ==
    /\ remote \in Versions
    /\ events \subseteq Versions
    /\ entry \in [handle : Handles, due : BOOLEAN, fresh : BOOLEAN] \cup {NoEntry}
    /\ content \in [Handles -> Schemas]
    /\ pc \in [Callers -> {"idle", "entry", "mint", "snapshot", "mark", "reread", "remint",
                           "status", "statusMint"} \cup Refreshing]
    /\ hold \in [Callers -> Handles \cup {NoHandle}]
    /\ \A c \in Callers : hold[c] # NoHandle <=> pc[c] \in Refreshing
    /\ fetched \in [Callers -> Schemas]
    /\ notified \in 0 .. MaxVersion
    /\ floor \in [Callers -> 0 .. MaxVersion]
    /\ clean \in [Callers -> BOOLEAN]
    /\ seen \in [Callers -> Schemas]
    /\ rebuilds \in 0 .. MaxRebuilds
    /\ failures \in 0 .. MaxFailures

Init ==
    /\ remote = 1
    /\ events = {}
    /\ entry = NoEntry
    /\ content = [h \in Handles |-> Empty]
    /\ pc = [c \in Callers |-> "idle"]
    /\ hold = [c \in Callers |-> NoHandle]
    /\ fetched = [c \in Callers |-> Empty]
    /\ notified = 0
    /\ floor = [c \in Callers |-> 0]
    /\ clean = [c \in Callers |-> FALSE]
    /\ seen = [c \in Callers |-> Empty]
    /\ rebuilds = 0
    /\ failures = 0

-----------------------------------------------------------------------------
(* The workspace and the clock. *)

SchemaChange ==
    /\ remote < MaxVersion
    /\ remote' = remote + 1
    /\ events' = events \cup {remote'}
    /\ UNCHANGED <<entry, content, pc, hold, fetched, notified, floor, clean, seen, rebuilds, failures>>

LoseEvent(v) ==
    /\ v \in events
    /\ events' = events \ {v}
    /\ UNCHANGED <<remote, entry, content, pc, hold, fetched, notified, floor, clean, seen, rebuilds, failures>>

(* The invalidator sees the event: invalidate_all_schemas clears schema_refreshed_at. *)
InvalidateAll(v) ==
    /\ v \in events
    /\ events' = events \ {v}
    /\ notified' = IF v > notified THEN v ELSE notified
    /\ entry' = [entry EXCEPT !.fresh = FALSE]
    /\ UNCHANGED <<remote, content, pc, hold, fetched, floor, clean, seen, rebuilds, failures>>

JwtDue ==
    /\ entry # NoEntry
    /\ ~entry.due
    /\ rebuilds < MaxRebuilds
    /\ rebuilds' = rebuilds + 1
    /\ entry' = [entry EXCEPT !.due = TRUE]
    /\ UNCHANGED <<remote, events, content, pc, hold, fetched, notified, floor, clean, seen,
                   failures>>

(* Mutant: no TTL fallback. *)
TtlIgnored ==
    /\ FALSE
    /\ UNCHANGED vars

(* schema_refreshed_at is schema_ttl ago. *)
TtlElapsed ==
    /\ entry.fresh
    /\ entry' = [entry EXCEPT !.fresh = FALSE]
    /\ UNCHANGED <<remote, events, content, pc, hold, fetched, notified, floor, clean, seen, rebuilds, failures>>

-----------------------------------------------------------------------------
(* entry(): the cached entry while its JWT is not due, else a minted one. *)

Usable == entry # NoEntry /\ ~entry.due

GoTo(c, label) == pc' = [pc EXCEPT ![c] = label]

(* The new entry replaces whatever is in the map by now and has a handle of its own. *)
MintedHandle ==
    CHOOSE h \in Handles : h # entry.handle /\ \A c \in Callers : hold[c] # h

Minted ==
    /\ entry' = [handle |-> MintedHandle, due |-> FALSE, fresh |-> FALSE]
    /\ content' = [content EXCEPT ![MintedHandle] = Empty]

(* The broker refuses or does not answer: the call fails. *)
MintFailed(c) ==
    /\ pc[c] \in {"mint", "remint", "statusMint"}
    /\ failures < MaxFailures
    /\ failures' = failures + 1
    /\ GoTo(c, "idle")
    /\ clean' = [clean EXCEPT ![c] = FALSE]
    /\ UNCHANGED <<remote, events, entry, content, hold, fetched, notified, floor, seen, rebuilds>>

-----------------------------------------------------------------------------
(* schema() and, inside it, refresh_schema(). *)

StartSchema(c) ==
    /\ pc[c] = "idle"
    /\ GoTo(c, "entry")
    /\ floor' = [floor EXCEPT ![c] = notified]
    /\ clean' = [clean EXCEPT ![c] = TRUE]
    /\ seen' = [seen EXCEPT ![c] = Empty]
    /\ UNCHANGED <<remote, events, entry, content, hold, fetched, notified, rebuilds, failures>>

(* needs_refresh is decided on the entry read here. *)
ReadEntry(c) ==
    /\ pc[c] = "entry"
    /\ GoTo(c, IF ~Usable THEN "mint" ELSE IF entry.fresh THEN "reread" ELSE "snapshot")
    /\ UNCHANGED <<remote, events, entry, content, hold, fetched, notified, floor, clean, seen, rebuilds, failures>>

MintForSchema(c) ==
    /\ pc[c] = "mint"
    /\ Minted
    /\ GoTo(c, "snapshot")
    /\ UNCHANGED <<remote, events, hold, fetched, notified, floor, clean, seen, rebuilds, failures>>

(* refresh_schema reads the entry again; it may be another one, or gone. *)
Snapshot(c) ==
    /\ pc[c] = "snapshot"
    /\ IF entry = NoEntry
       THEN GoTo(c, "reread") /\ UNCHANGED hold
       ELSE GoTo(c, "tags") /\ hold' = [hold EXCEPT ![c] = entry.handle]
    /\ UNCHANGED <<remote, events, entry, content, fetched, notified, floor, clean, seen, rebuilds, failures>>

(* Mutant: the tags go into the handle as soon as they are there. *)
FetchTagsInPlace(c) ==
    /\ pc[c] = "tags"
    /\ fetched' = [fetched EXCEPT ![c].tags = remote]
    /\ content' = [content EXCEPT ![hold[c]].tags = remote]
    /\ GoTo(c, "assocs")
    /\ UNCHANGED <<remote, events, entry, hold, notified, floor, clean, seen, rebuilds, failures>>

FetchTags(c) ==
    /\ pc[c] = "tags"
    /\ fetched' = [fetched EXCEPT ![c].tags = remote]
    /\ GoTo(c, "assocs")
    /\ UNCHANGED <<remote, events, entry, content, hold, notified, floor, clean, seen, rebuilds, failures>>

FetchAssocs(c) ==
    /\ pc[c] = "assocs"
    /\ fetched' = [fetched EXCEPT ![c].assocs = remote]
    /\ GoTo(c, "install")
    /\ UNCHANGED <<remote, events, entry, content, hold, notified, floor, clean, seen, rebuilds, failures>>

(* The refresh fails: the handle keeps what it has. *)
FetchFailed(c) ==
    /\ pc[c] \in {"tags", "assocs"}
    /\ failures < MaxFailures
    /\ failures' = failures + 1
    /\ clean' = [clean EXCEPT ![c] = FALSE]
    /\ fetched' = [fetched EXCEPT ![c] = Empty]
    /\ hold' = [hold EXCEPT ![c] = NoHandle]
    /\ GoTo(c, "reread")
    /\ UNCHANGED <<remote, events, entry, content, notified, floor, seen, rebuilds>>

Install(c) ==
    /\ pc[c] = "install"
    /\ content' = [content EXCEPT ![hold[c]] = fetched[c]]
    /\ fetched' = [fetched EXCEPT ![c] = Empty]
    /\ hold' = [hold EXCEPT ![c] = NoHandle]
    /\ GoTo(c, "mark")
    /\ UNCHANGED <<remote, events, entry, notified, floor, clean, seen, rebuilds, failures>>

(* Mutant: a missing entry is created to carry the time. *)
MarkRevives(c) ==
    /\ pc[c] = "mark"
    /\ entry' = [entry EXCEPT !.fresh = TRUE]
    /\ GoTo(c, "reread")
    /\ UNCHANGED <<remote, events, content, hold, fetched, notified, floor, clean, seen, rebuilds, failures>>

(* schema_refreshed_at is set on the entry that is in the map by now, if there is one. *)
MarkRefreshed(c) ==
    /\ pc[c] = "mark"
    /\ entry' = IF entry = NoEntry THEN NoEntry ELSE [entry EXCEPT !.fresh = TRUE]
    /\ GoTo(c, "reread")
    /\ UNCHANGED <<remote, events, content, hold, fetched, notified, floor, clean, seen, rebuilds, failures>>

(* "Re-read after refresh in case the entry was rebuilt." *)
ReadEntryAgain(c) ==
    /\ pc[c] = "reread"
    /\ IF Usable
       THEN GoTo(c, "idle") /\ seen' = [seen EXCEPT ![c] = content[entry.handle]]
       ELSE GoTo(c, "remint") /\ UNCHANGED seen
    /\ UNCHANGED <<remote, events, entry, content, hold, fetched, notified, floor, clean, rebuilds, failures>>

(* A new entry is returned as it is, with an empty handle. *)
MintForReturn(c) ==
    /\ pc[c] = "remint"
    /\ Minted
    /\ GoTo(c, "idle")
    /\ seen' = [seen EXCEPT ![c] = Empty]
    /\ UNCHANGED <<remote, events, hold, fetched, notified, floor, clean, rebuilds, failures>>

-----------------------------------------------------------------------------
(* huly_status: forget(), then for_workspace(). *)

StartStatus(c) ==
    /\ pc[c] = "idle"
    /\ rebuilds < MaxRebuilds
    /\ rebuilds' = rebuilds + 1
    /\ entry' = NoEntry
    /\ clean' = [clean EXCEPT ![c] = FALSE]
    /\ GoTo(c, "status")
    /\ UNCHANGED <<remote, events, content, hold, fetched, notified, floor, seen, failures>>

ReadEntryForStatus(c) ==
    /\ pc[c] = "status"
    /\ GoTo(c, IF Usable THEN "idle" ELSE "statusMint")
    /\ UNCHANGED <<remote, events, entry, content, hold, fetched, notified, floor, clean, seen, rebuilds, failures>>

MintForStatus(c) ==
    /\ pc[c] = "statusMint"
    /\ Minted
    /\ GoTo(c, "idle")
    /\ UNCHANGED <<remote, events, hold, fetched, notified, floor, clean, seen, rebuilds, failures>>

-----------------------------------------------------------------------------
MintReply(c) == MintForSchema(c) \/ MintForReturn(c) \/ MintForStatus(c)

LocalStep(c) ==
    \/ ReadEntry(c) \/ Snapshot(c) \/ Install(c) \/ MarkRefreshed(c) \/ ReadEntryAgain(c)
    \/ ReadEntryForStatus(c)

CallStep(c) ==
    \/ LocalStep(c) \/ MintReply(c) \/ MintFailed(c)
    \/ FetchTags(c) \/ FetchAssocs(c) \/ FetchFailed(c)

Next ==
    \/ \E c \in Callers : StartSchema(c) \/ StartStatus(c) \/ CallStep(c)
    \/ SchemaChange \/ \E v \in Versions : LoseEvent(v) \/ InvalidateAll(v)
    \/ JwtDue \/ TtlElapsed

(***************************************************************************)
(* A call is polled and every request in it ends; the clock runs; calls    *)
(* that need the schema keep coming, since the refresh is lazy.  Nothing   *)
(* is assumed of the change events.                                        *)
(***************************************************************************)
Fairness ==
    /\ \A c \in Callers : WF_vars(StartSchema(c) \/ CallStep(c))
    /\ WF_vars(TtlElapsed)

Spec == Init /\ [][Next]_vars
FairSpec == Spec /\ Fairness

-----------------------------------------------------------------------------
(* A handle never pairs tags with older associations: a refresh fetches them in this order    *)
(* and installs both at once, whatever other refreshes install into the same handle.          *)
NoMixedSchema ==
    \A h \in Handles : content[h].tags <= content[h].assocs

(* The schema that the factory serves converges to the workspace's: lost events, a refresh    *)
(* that overlaps a change, refreshes that finish out of order and rebuilt entries are all     *)
(* repaired once the TTL has elapsed (D9's fallback).                                         *)
SchemaConverges ==
    <>[](entry # NoEntry /\ content[entry.handle] = [tags |-> remote, assocs |-> remote])

-----------------------------------------------------------------------------
(* What the documentation says. *)

Returned(c) == pc[c] = "idle" /\ clean[c]

(* D9: a schema change "invalidates the cached WorkspaceSchema [...]; MCP refetches [...] on  *)
(* the next tool call": a call that begins after the event was processed and meets no failure *)
(* returns a schema at least as new as the change (an empty one is another matter).           *)
InvalidationHonoured ==
    \A c \in Callers : Returned(c) /\ seen[c] # Empty =>
        seen[c].tags >= floor[c] /\ seen[c].assocs >= floor[c]

(* The doc of schema(): it refreshes a cache that was "never [...] populated", and only "on   *)
(* failure" returns a possibly empty one.                                                     *)
ReturnedPopulated ==
    \A c \in Callers : Returned(c) => seen[c] # Empty
=============================================================================
