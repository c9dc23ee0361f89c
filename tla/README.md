# A TLA+ model of huly-broxy

huly-broxy connects a Huly workspace to NATS. `huly-bridge` holds a WebSocket to the
Huly transactor, publishes the transactor's events on NATS and mints JWTs on request;
`huly-mcp` serves MCP tools that talk to Huly over REST with those JWTs. Both rest on the
library crates `huly-client` and `huly-common`. This directory models the two programs and
their library, checks the models with TLC and proves the safety of the central components
with TLAPS.

Paths below are relative to the repository; `connection.rs`, `lifecycle.rs` and the like
are the files listed in the inventory.

## Inventory

| Component | State | Operations | Interacts with |
|---|---|---|---|
| WebSocket connection, `huly-client/src/connection.rs`, `rpc.rs` | pending map (id to oneshot sender), write channel (256), event channel (1024), `connected` flag, handshake slot, id counter, three tasks | connect and handshake, `send_request`/`send_raw`, read, write and keepalive tasks, `shutdown`, drop | the transactor; callers of `send_request`; the event loop through the event channel |
| Event loop and publisher, `huly-bridge/src/bridge/event_loop.rs`, `nats_publisher.rs` | event in hand, retry count, statistics | receive, publish, retry, give up, stop | the event channel, the NATS client's buffer, the cancellation token |
| Lifecycle, `huly-bridge/src/service/lifecycle.rs` | `consecutive_failures`, the token, the task handles, the signal handlers | start-up, connection loop with backoff, shutdown | all tasks of the bridge |
| Watchdog, `service/watchdog.rs` | none | ping every 10 s until cancelled | systemd |
| JWT broker, `bridge/mint_responder.rs`, `huly-common/src/mint.rs` | credential map (constant) | one task per mint request: log in, select the workspace, reply | NATS, the accounts service, `huly-mcp`, brokers of other bridges on the same subject |
| Client factory, `huly-mcp/src/huly_client_factory.rs`, `jwt_broker_client.rs` | map workspace to entry (client, JWT, schema handle, refresh times) | `entry`, `refresh_jwt`, `schema`, `refresh_schema`, `invalidate_all_schemas`, `forget` | the broker, the transactor's REST API, the invalidator |
| Schema resolver, `huly-client/src/schema_resolver.rs` | one schema per handle | `refresh`, `install`, `resolve_class` | the REST API, the factory |
| Schema invalidator, `huly-mcp/src/schema_invalidator.rs` | none | classify an event, invalidate | NATS, the factory |
| MCP server, `huly-mcp/src/mcp/server.rs`, `audit.rs`, `main.rs` | none of its own | 21 handlers in `record_tool`, audit records, start and stop | the factory, the tools, NATS |
| MCP tools, `huly-mcp/src/mcp/tools.rs`, `catalog.rs`, `txcud.rs` | the workspace's documents (remote) | queries, creations under `ApplyIf`, issue numbering with retries, links | the REST client, the schema |
| REST client, `huly-client/src/rest_huly_client.rs`, `rest.rs`, `rate_limit.rs` | none that outlives a call | requests, retries after 429, reading of answers | HTTP services |
| WebSocket client, `client.rs`; accounts, `accounts.rs`, `auth.rs`; `proxy.rs` | none that outlives a call | the same trait over JSON-RPC; log-in and workspaces; one forwarded request | the connection, the accounts service |
| Collaborator client, `collaborator.rs`; markdown, `markdown.rs` | none that outlives a call | markup up- and download with retries; conversion both ways | the collaborator service, the tools |
| Sync runner, `huly-mcp/src/sync.rs` | none | spawn, timeout, exit | a child process |
| Configuration and start-up, `config.rs` of both programs | none | validation, log-in, provisioning of the broker | everything |
| Wire types (`huly-common`) | none | parsing | everything |

What is hard in this code, and what makes it correct:

- *Connection.* Callers race on one map whose lock is released between the cap check, the
  insert and each removal; a response, a timeout and a failed send compete for the same
  entry; the reader dies without waking anyone. Correct: no entry leaks, no response goes
  astray, the cap is exceeded by no more than the racers, a failed send is safe to repeat,
  a call returns unless a socket write hangs in front of it, every push is delivered or
  counted.
- *Event loop.* Retries while events queue up, a NATS outage that blocks `publish`, a
  channel that closes with events in it, a cancellation between two events. Correct:
  events leave in order and at most once, each is published, given up or cut off by a
  cancellation, which takes the youngest ones only, and the statistics say which.
- *Lifecycle.* Reconnects wait for the old loop; signals, failures and shutdown arrive at
  any point; the backoff multiplies without bound. Correct: a dropped connection leads to
  a new one, a shutdown ends and does not lose what NATS was given, the backoff does not
  wrap.
- *Factory.* No lock is held across a request, so a refresh works on an entry that may be
  replaced, forgotten or invalidated meanwhile; two refreshes may fill one handle; change
  events are late or lost. Correct: a schema is never torn, and the cache converges.

- *Broker.* Every bridge hears every request and the first reply wins, a refusal included.
  Correct: a refusal has a cause, and a request that nobody answers times out.
- *Tool calls.* Each is a sequence of requests between which other calls change the
  workspace; any of them may be refused, throttled, or applied with its answer lost.
  Correct: what a call reports is what it did, races create no duplicates, numbers are
  given once, and the audit trail announces every change before it is made.
- *Clients.* One trait over two transports, and answers of many shapes. Correct: both ask
  for the same thing and read the answer alike, no failure passes for a result.
- *Start-up, names, markdown.* Two validations of one file; names that clash, read in two
  queries while the workspace changes; a tree built from a stream of events. Correct: what
  passes the first validation passes the second, a name stands for what bears it now, no text
  that the builder accepts is lost or moved.

`PROJECT.json` lists the hazards line by line with the properties that watch them.

## Modules

| Module | Models | Lines up with |
|---|---|---|
| `WsConnection` | one connection, its callers and tasks | `connection.rs`, `rpc.rs` |
| `RequestReply` | abstract: what a connection promises its callers | |
| `EventDelivery` | abstract: what becomes of the events of a connection | |
| `EventLoop` | the event loop, the reader that feeds it, the NATS client | `event_loop.rs`, `nats_publisher.rs` |
| `BridgeLifecycle` | `run()` of the bridge around `EventLoop` (which it EXTENDS), watchdog, life of the broker task | `lifecycle.rs`, `watchdog.rs` |
| `ClientFactory` | one workspace of the factory, with the refresh of its schema and the invalidator | `huly_client_factory.rs`, `schema_resolver.rs` |
| `Transactor` | external: documents and how transactions change them; how `txcud.rs` builds these | `txcud.rs` |
| `McpCall` | a tool call: its steps, its outcome, its audit records | `server.rs` (`record_tool`), `audit.rs` |
| `PlatformRest` | the requests of a call, their retries and failures | `rest_huly_client.rs`, `collaborator.rs` |
| `JwtBroker` | when a call mints, and the bridges that answer | `mint_responder.rs`, `jwt_broker_client.rs` |
| `McpTools` | the bodies of the tools, a step for each await | `tools.rs`, `catalog.rs` |
| `McpServer` | the 21 handlers, and all of the above as one system | `server.rs`, `sync.rs` |
| `IssueCounter` | abstract: a project counts its issues | |
| `Wire`, `WireValues` | every request of the clients and what they make of the answers | `client.rs`, `rpc.rs`, `rest_huly_client.rs`, `rest.rs`, `rate_limit.rs`, `accounts.rs`, `proxy.rs` |
| `Records` | an operator on records that `Transactor` and `Wire` share | |
| `Startup` | from a configuration file to a serving process, both programs | `config.rs`, `auth.rs`, `rest.rs`, `lifecycle.rs`, `mint_responder.rs`, `main.rs` |
| `SchemaResolver` | the names a schema holds, and how refreshes and the filter keep them current | `schema_resolver.rs`, `huly_client_factory.rs`, `schema_invalidator.rs` |
| `Markdown` | the tree builder and the renderer | `markdown.rs` |
| `WsConnectionProofs`, `BridgeLifecycleProofs` (with `EventLoop`), `ClientFactoryProofs`, `McpServerProofs`, `McpDocumentsProofs`, `StartupProofs`, `WireProofs`, `NamesAndTextProofs` (`SchemaResolver` and `Markdown`) | theorems | |
| `MCMcpSystem`, `MC...` | what TLC needs on top: symmetry sets, situations, the composition of the run | |

The system of a tool call is a chain of modules, each of which EXTENDS the one before:
`Transactor`, `McpCall`, `PlatformRest`, `JwtBroker`, `McpTools`, `McpServer`.

An action is what the code does between two await points (or two acquisitions of a lock),
all of it. Time is abstracted: a timer may fire whenever what it guards is not ready, so
every order of a timeout and the answer it races is explored.

### WsConnection

`pc[c]` is where caller `c` is in `send_request`: `checked` after `is_connected()`,
`admitted` after the cap check, `enqueueing` once `send_raw` has inserted its sender,
`waiting` once the frame is in the write channel, `unsent` and `expired` between a failed
send or a timeout and the removal of the entry under the lock. `pending` maps an id to the
caller that holds the receiver; `inbox[c]` says its oneshot has been filled. A removal
after a failed send or a timeout takes the lock again, which is why it is an action of its
own and a response may come in between.

The reader's `id = -1` branch feeds the handshake slot first and the event channel after.
`AbortTasks` is `Drop` and `shutdown`: it ends the three tasks, and the write channel
loses what it holds. `connect_with_tls` itself keeps a clone of the handshake sender while
it waits, so a reader that ends early does not close the handshake's oneshot: the model
lets only the reply or the 10 s timeout end the handshake. The transactor may answer a
request twice, late or never, and push at any time.

A stream that ends without an error or a Close frame would leave `connected` as it is;
tungstenite reports the loss of a connection by one or the other first, so the model's
`ReadEnd` always clears the flag. Keepalive echoes and frames that do not decode are
skipped by the reader and change nothing; they are not steps of the model.

`race` is a history variable: the largest number of callers that were ever between the cap
check and the insert at once.

`RequestReply` is what all this amounts to for a caller: a call issues a request that no other
call has, the server gets it at most once, the call returns `ok` only when the server has it,
`send_failed` only when the server does not and never will, and may time out at any moment.
`Rpc` maps the connection onto it. A caller is `busy` from `send_request` to its return; its
`current` request is the id it has drawn, from the insert until it returns; what is `issued`
are the ids below the counter; a request is `open` while its caller sends it and while it is in
the write channel. Filling a oneshot, cleaning up an entry, pushes, pings and the handshake
are stutters; the loss of a connection loses what the channel holds.

### EventDelivery, EventLoop

`EventLoop` numbers the events as the reader routes them. `loop` is where
`run_event_loop` is: in `select!`, in a `publish` call, in one of the `RETRY_DELAYS` or
returned. Only a transient first error starts the retries; every error within them leads to
the next, as in the code. `select!` picks any ready branch, so a cancelled loop may take any
number of further events first, and the code gives no bound on when it stops; a closed channel
is seen only when it is empty. The NATS client is
external: `publish` hands the event to its bounded buffer and waits when that is full.

`Delivery` maps this state onto `EventDelivery`: the event in hand is the head of the
queue, what the client accepted is published, what overflowed, was given up or was in the
channel when the loop stopped is lost. `ImplementsDelivery` is that refinement. The run of
`BridgeLifecycle` checks it too, where it spans the connections: each reconnect waits for the
old loop, so its events neither mix with those of the next connection nor get lost without a
cancellation.

### BridgeLifecycle

`stage` is where `run()` is. `Connected` makes a fresh channel and event loop and, with
the first poll of `shutdown_signal()`, installs the signal handlers; they stay, as tokio
keeps them for the life of the process, but a signal is only heard by a live future. `Signal`
kills the process before that, is heard while connected, and is consumed otherwise.
`BeginShutdown` is everything between the signal and the flush: the connection is dropped
(so its reader is gone), the handle of the event loop is detached and the token cancelled.
The cancellation of `EventLoop` is therefore not an action here but a part of that one.
`CutOffIsLast` says what the cancellation costs: what a stopping loop throws away is younger
than all that NATS took, so a consumer misses the end of the stream and nothing from its
middle.

`CalculateBackoff` saturates like the code, at a small `U64Max`. `delay` is the last
backoff computed, `takenAtStop` a history variable: what NATS had taken when the flush
began.

### ClientFactory

One workspace: nothing but the lock of the map is shared between workspaces, and it is
never held across an await. `entry` is the cached `WorkspaceEntry`, its `fresh` field
stands for a `schema_refreshed_at` younger than the TTL, `due` for a passed
`refresh_at_ms`; `content` is what each `SchemaHandle` holds, as the versions its tags and
its associations were fetched at. `schema()` is `ReadEntry`, perhaps `MintForSchema`,
`Snapshot`, `FetchTags`, `FetchAssocs`, `Install`, `MarkRefreshed` and `ReadEntryAgain`,
perhaps `MintForReturn`: each reads the map anew, like the code. Old handles are reused
once nobody refers to them.

### Transactor, McpCall, PlatformRest, JwtBroker, McpTools, McpServer

A tool call `c` is a program: `todo[c]` holds the steps it has left, one for each await of
the code, and `loc[c]` its local variables. `Become` puts steps in front of the rest (a loop,
a second request), `Return` and `FailWith` replace what is left of the body by the closing
records, as `?` and `record_tool` do. A handler of `server.rs` is the list of steps its body
starts with (`Tool`); a mutating one begins with its `action` record. `trail[c]` is a history
variable: the records published for the call and the transactions it had applied, in order.
A lost record is a fault the call does not notice (`Publish`).

A request is one step, because it takes effect at one moment and its caller waits. It may be
throttled (429, and sent again up to `Max429` times), refused, lost on the way, or, for a
transaction, applied with its answer lost (`AnswerLost`). Each of these spends one of the
`faults` of the behaviour. `Transactor` applies a transaction as a whole; a `TxApplyIf` only
if its predicates hold. The gap between the read of a project's sequence (`ReadSequence`)
and the transaction that depends on it (`CommitIssue`) is where other calls come in.

`JwtBroker` decides when a step that uses the factory mints: `RequestJwt` puts the request to
every listening bridge, each answers in its own time (`HandleMint`), and `SendReply` keeps the
first answer. A call that waits does so in `inbox[c]`. `entry` is the factory's cache as far
as a call depends on it; the races inside the factory are in `ClientFactory`, which shares no
action with it. The two programs' interplay over NATS (bridges, broker subject, tool calls)
is thus in one state space, under `McpServer`.

`IssueCounter` is what issue creation promises: a project counts, a number is given once.
`McpServer` maps `sequence` and the issues' numbers onto it (`Counter`).

### Wire, WireValues

`WireValues` are JSON values. `Wire` follows one call of each client from the request it
sends (`WsFindAll` ... positional parameters; `RestFindAll` ... query or transaction
document) through the answers (`HttpAnswers`: statuses, headers, bodies, snappy) and the
retries with their waits (`RetryAfter`) to its outcome. `WsMeaning` and `RestMeaning` say
what a request asks for, whatever its form, so that the two transports can be compared
operation by operation.

### Startup, SchemaResolver, Markdown

`Startup` takes any configuration an operator can write through both validations, the log-in
and the credential map to the broker's replies with their arithmetic (`MintResponseFor`);
beside it, `huly-mcp` from its file to its end. URLs are sequences of parts, which is what the
composition of addresses needs. The server's own configuration is best effort and delays the
start at most (`BootstrapServerConfig`). `AcceptedConfigServes` speaks of a file that lists
credentials; of one that lists none, the code and its documentation say different things
(below).

`SchemaResolver` holds what `ClientFactory` abstracts to version numbers: documents with names
that clash or are missing, the two maps (`BuildMap`), the order of look-up (`ResolveName`),
and the events of the transactor in each of the shapes the filter knows
(`IsSchemaMutating`). `refresh[r]` is where a call is in `schema()` and `refresh_schema()`: it
decides to refresh, clones the entry, queries the card types, then the relations, installs both
and marks the entry that is cached by then, each in a step of its own, with other calls, with
changes of the workspace and with `refresh_jwt` (`ReplaceEntry`) between any two. A change puts
an event on its way to the invalidator, where it arrives late or not at all (`LoseEvent`: a full
event channel, retries that were used up, no subscription).

So a cache that counts as fresh may be wrong: while an event is on its way, and, until the TTL or
the next event, after one was lost, after one was seen while a refresh that had already queried
was going to set the mark (`invalidation_lost`), and after the entry was replaced under a refresh
that then marked the new one (`schema_unpopulated`). `astray` records the last three, at whatever
point of the refresh they happen; it ends with a refresh that begins when no other is under way. `NamesResolve` says that these are all:
a change between the two queries, a failed query, two refreshes of one handle and each of the
shapes of an event leave no fresh cache with a wrong name. The code opens bundles in bundles
without a limit, the model twice, which is deeper than any event it sends.

`Markdown` runs `DocBuilder` over every sequence of well-nested parser events up to a bound,
and renders the tree. The parser itself is external. It reports more than `handle_event` has an
arm for, and those events lose their text (`HandleUnknown`): `dropped` records them, `given` the
texts that have an arm, and `TextKept` says that the document has all of the second, in order and
with their marks, and none of the first. The recursion of `render_node` is a
function defined level by level: `Nodes[h]` are the nodes that nest at most `h` deep and
`Rendered[h]` renders them with `Rendered[h - 1]` for what is below. `Kept` is a filter of a
sequence (`retain`, `filter`), `Joined` is `join`.

## Runs

| Run | Instance | Shows |
|---|---|---|
| `ws_safety` | 3 callers, cap 1, channels of 1, 3 ids, 3 pushes | `TypeOK`, `CapOvershootBounded`, `PendingIsInFlight`, `WaiterHasSender`, `PushesAccountedFor` |
| `ws_liveness` | 2 callers, cap 2, write channel 2, 2 ids, 1 push | `ImplementsRequestReply`, `CallsReturn`, `DisconnectDrainsPending`, `HandshakeEnds` |
| `event_loop` | channel 2, buffer 2, 3 retries, 5 events | `EventLoopTypeOK`, `StatsMatchFates`, `NoDiscardWithoutCancel`, `ImplementsDelivery`, `EventsResolved` |
| `lifecycle` | channel and buffer of 1, 1 retry, 2 events, failures saturate at 7 | `TypeOK`, `FlushCoversForwarded`, `CutOffIsLast`, `ImplementsDelivery`, `BackoffNeverShrinks`, `DropLeadsToReconnect`, `ShutdownEnds` |
| `client_factory` | 2 callers, 1 schema change, 1 rebuild, 1 failure | `TypeOK`, `NoMixedSchema`, `SchemaConverges` |
| `mcp_system` | every tool alone, 11 races of two or three calls, 2 bridges, up to 2 failures; the four parts below | of the calls: `TypeOK`, `AppliedAsReported`, `GiveUpOnlyUnderContention`, `NoDuplicates`, `AuditTrail`, `ReportedExist`, `RefusalHasCause`, `MarkupStored`, `ImplementsIssueCounter`, `EveryCallEnds`; of the parts: `TransportsAgree`, `FailuresSurface` (`Wire`), `AcceptedConfigServes` (`Startup`), `NamesResolve` (`SchemaResolver`), `TextKept` (`Markdown`) |
| `signal_lost` | as `lifecycle`, smaller | violated: `SignalStops` |
| `shutdown_drain` | as `lifecycle`, smaller | violated: `EventLoopDrained` |
| `watchdog_pings` | as `lifecycle`, smaller | violated: `PingsOnlyWhenConnected` |
| `invalidation_lost` | 2 callers, 1 schema change | violated: `InvalidationHonoured` |
| `schema_unpopulated` | 2 callers, 1 rebuild | violated: `ReturnedPopulated` |
| `rest_addressed` | `Startup` as in `mcp_system` | violated: `RestAddressed` |

Why these bounds are enough. Three callers with a cap of one are the smallest race that
overshoots by two, so a bound that forgot a racer would fail; its small write channel makes
callers and the keepalive wait, and three pushes are the hello reply, one that is queued and
one that overflows. Liveness and the refinement need none of the last two, and a write channel
of two lets a request queue up behind another. In `event_loop`, five events are more than channel, hand
and buffer hold together, so overflow, waiting and giving up all happen, with the code's
three retries. `lifecycle` lets the failures go on until the product saturates, past 2^6 >
`U64Max`, and its two events are any two of: in hand, in the channel, in NATS's buffer, when the
shutdown begins. All three places at once take a third event, with which the liveness of this
run no longer fits into its time; `event_loop` has them, and the theorems have no bound. `client_factory` has two refreshes of one handle around a
change, and a rebuild in the middle of either. Checks of deadlock are off: an environment
that has run into its bound may stop, and a process that has exited does.

`mcp_system` is one state space of five parts that share no variable that any of them
changes: a behaviour takes one part and the others rest (`SystemInit`). `MCMcpServer` lists
the situations of the first part: what is called, on which workspace, with which bridges and
how many failures. Two failures are what it takes to exhaust `Max429` = 1 retries
(`RestHulyConfig` has 3) or `CollabAttempts` = 2 attempts (3 in the code), or to lose an
answer and a record; three creations of an issue make one of them lose twice, which exhausts
`MaxAttempts` = 2 (5 in the code). Races pair the calls that touch the same documents:
creations of the same issue number, component and relation, an update or a look-up and a
deletion. The first part deadlocks nowhere: `Done` is its only stuttering, and holds only
when every call has ended. `Wire` covers every shape of answer some call expects with and
without the fields it needs, and both forms of the error object; `Startup` lists of up to
`MaxListed` = 2 of 16 credentials; `SchemaResolver` two card types and an association with names that
clash within a kind and across, two calls that refresh, on a handle that is empty or at
`MaxVersion` = 1, and a workspace that changes `MaxChanges` = 1 times with `MaxQueued` = 1 event
on its way: enough for two refreshes around one change, before, between or after the queries of
either, and for its event to be seen, delayed or lost at each of these moments; `Markdown` four events at a depth of four, enough for a mark
inside a mark of its own kind and for text in a list item in a block. `U64Max` and
`LastMillis` are scaled to TLC's 32 bits, with lifetimes and waits that overflow them.

`MaxId`, `MaxPushes`, `MaxEvents`, `MaxPings`, `MaxVersion`, `MaxQueued`, `MaxChanges`,
`MaxRebuilds`, `MaxFailures`, `MaxDepth` and `faults` are bounds of the model, not of the code; each appears in
a guard of the action it limits. `MaxListed` bounds the list a configuration starts with.

### What the documentation says and the code does not

- `signal_lost`: README 596-601 says SIGTERM and SIGINT stop the service. A signal that
  arrives between two connections, after the handlers were installed, is lost.
- `shutdown_drain`: README 600 says the shutdown waits up to 10 s for the event loop to drain.
  It does not wait for the loop at all: in the counterexample the loop is idle, NATS is connected
  with room in its buffer, and the process exits with an event in the channel.
- `watchdog_pings`: README 607-608 says the ping is skipped while Huly or NATS is
  disconnected. The watchdog pings unconditionally, and the lifecycle reconnects for ever.
- `invalidation_lost`: D9 in `docs/architecture/v2-direct-mcp.md:230` says a schema change
  makes the next tool call refetch. A refresh that was in flight marks the entry as fresh
  afterwards and hides the change until the TTL.
- `schema_unpopulated`: the doc of `schema()` returns an empty schema only on failure. An
  entry that is rebuilt during the refresh is returned with an empty schema.
- `rest_addressed` (a bug of the code): the bridge announces a REST base URL that ends in
  `/api/v1`, and the client appends `/api/v1/tx/{uuid}` to it. `mint.rs:88` and
  `rest_huly_client.rs:57` document the base without the path.

Three more contradictions have no run of their own, because the model shows them in every
behaviour and nothing has to be searched for:

- `config.rs:10-18` (of the bridge) says that workspaces which are not listed under
  `workspace_credentials` get `unknown_workspace`, and that `[huly]` is "**not** a fallback for
  the broker". For an empty list it is: `effective_workspace_credentials`
  (`lifecycle.rs:274-289`, `EffectiveWorkspaceCredentials` in `Startup`) then makes `[huly]` the
  one credential, and its workspace can be minted for. `AcceptedConfigServes` takes no side and
  says nothing of an empty list.
- `accounts.rs:50-52`, `59-62` and `237-242` say that transactions are stamped with the social id
  that `pick_primary_social_id` picks. `resolve_workspace` (`lifecycle.rs:304-321`) looks it up,
  in two requests that may fail, but its caller reads only endpoint, token and workspace
  (`lifecycle.rs:165-178`). No reply of the broker carries it, and transactions are stamped
  `core:account:System` (`rest_huly_client.rs:431`, `txcud.rs:17`) unless the tool's caller names
  another author. The social id is therefore not modelled.
- `markdown.rs:22-25` and `369-370` say that constructs without a counterpart "fall back to a
  plain `text` node". The parser runs with `Options::all()` (line 51), and the arm `_ => {}`
  (375-377) drops what it reports as math, footnote references and task markers, text included
  (`HandleUnknown` in `Markdown`).

### What modelling it brought to light

No property states these; a reader of the code may want to know them.

- `find_issues` and `find_cards` apply `limit` before the title filter, so a match beyond
  the first page is not found.
- `create_project` has no guard: two projects may carry one identifier, and the identifiers
  of their issues are then ambiguous. The raw `huly_create` and `huly_update` can do the
  same to anything `ApplyIf` guards.
- `huly_update_issue` ignores the result of `update_collection`; `CreateDoc` ignores the
  answer.
- A transaction whose answer is lost was applied, though the tool reports an error; a caller
  that repeats the call creates a second document. Uploads that are retried leave blobs
  behind.
- The REST client takes a missing `success` for true in updates, the WebSocket client for an
  error; `error: null` in a 2xx body is an error over REST only; an error object without
  `code` decodes over REST only. No caller uses both transports at once.
- Nothing bounds the time of an HTTP request (`reqwest::Client::new()`), and `flush()` of
  NATS is not bounded either.
- Several bridges answer on `huly.bridge.mint`; a bridge without credentials for a workspace
  answers `unknown_workspace` at once and so tends to win over the one that has them.
  `v2-direct-mcp.md:106` speaks of one bridge per workspace.
- A token credential is minted for the slug in the request by `select_workspace`, while the
  bridge's own session takes the workspace of the token (`get_login_info_by_token`).
- `install()` of a schema bumps its version when the order of ambiguous ids changes, which
  the transactor does not fix.
- Audit records are awaited (`publish().await`), so a full NATS buffer holds the tool up,
  though the comment says that auditing never blocks.
- Closing a mark inside one of its own kind closes both (`markdown.rs:328-336`).

### Fairness

`WsConnection`: the runtime polls a task that can move and fires its timers
(`WF(CallerStep)`); a sender that waits for room in the write channel is served in turn, as
tokio's semaphore is first come, first served (`SF(Enqueue)`), else the keepalive could take
every slot. A socket write ends, with success or an error, once the connection is down
(`WF(WriteAfterDrop)`); on a live one nothing is assumed of it, since the write task has no
timeout and a peer that stops reading holds it as long as it likes. Nor is anything assumed of
the transactor or the reader: they may be silent for ever. `CallsReturn` therefore names its one
exception: a call that never returns waits, from some moment on, for room in a full channel
behind such a write (`StuckAtSend`).

`EventLoop`: the loop is polled and its sleeps end; the NATS client reconnects (it retries
without limit) and, while connections keep coming back, sends (`SF(Drain)`). Errors of
`publish` are not assumed to stop: the retries are bounded instead.

`BridgeLifecycle`: the same, and the main task is polled with every request it makes ending
one way or the other. The flush is assumed to end, which the code does not enforce by a
timeout: it rests on the NATS client getting its connection back. Nothing is assumed of
signals, the server, the watchdog or the broker, nor is the backoff assumed to end in a
connection.

`ClientFactory`: a call is polled and its requests end; the TTL elapses; calls that need the
schema keep coming, since the refresh is lazy. Change events need never arrive.

`McpServer`: the runtime polls every task and every wait of a call ends, by an answer or by
its timeout (`WF(CallStep(c))`; a mint by `MINT_TIMEOUT`, a child process by its own). The run
states it of `Moving(c)`, a step of a call with work left, which is every step a call has. Nothing
is assumed of the bridges, which may never answer, nor of the order of calls. That HTTP
requests are answered or fail is an assumption about the services: the code sets no timeout.

## Proofs

`WsConnectionProofs` proves, for every finite set of callers, every cap and every capacity
(`ConstantsAssumption`), that the specification keeps

- `TypeOK`, with the capacities of both channels (`TypeCorrect`);
- `CapOvershootBounded` (`CapOvershootBoundedCorrect`);
- `PendingIsInFlight` (`PendingIsInFlightCorrect`);
- `WaiterHasSender` (`WaiterHasSenderCorrect`);
- `FailedSendNeverServed` (`FailedSendNeverServedCorrect`);
- `PushesAccountedFor` (`PushesAccountedForCorrect`);
- that the connection implements `RequestReply` (`ImplementsRequestReplyCorrect`), and with it
  `Exclusive` of that module, read of the connection (`ExclusiveCorrect`): two calls never
  share a request, and one the server has is not on its way again.

`PushesAccountedFor` is inductive given the types; the others are not inductive alone. `TypeInv`
adds to the types that a request in flight has an id. `CapInv` counts the admitted callers
with the entries: entries and admitted callers together stay below the cap plus `race`,
since the check that admits a caller sees fewer entries than the cap and `race` counts the
callers admitted with it; the insert moves one from the second count to the first. The
argument is about cardinalities and rests on `FiniteSetTheorems`.

`CallInv` carries the other three together. `IdsFresh` says that no id from the counter on
is in the map, with a caller or on the wire; `IdsDistinct` that two callers never share an
id; `EntryInv` that an entry's caller is still in the call that inserted it, and that a
waiting caller without an answer has its entry; `SendInv` that a request whose caller has
not yet enqueued it, or was told `SendFailed`, is neither in the write channel nor served.
The steps are grouped by what they touch (`StepKinds`), so that each conjunct is proved
for the few actions that disturb it.

The refinement needs two facts more, which make up `ReplyInv` with `CallInv`: `SentOnce`, that
no id is twice in the write channel, nor in it when it is already with the server; and
`OwnAnswer`, that an inbox is only filled for a request the server has. Every action is then a
step of `RequestReply` or a stutter: `CallRefines` shows it of the callers' steps, `WriteRefines`
of the write channel's, `RpcStep` of the others. `FailedSendNeverServed` has no run of
its own: it is the guard of `FailToSend` in `RequestReply`, so `ws_liveness` checks it with the
refinement.

`BridgeLifecycleProofs` has two parts. The first is about the event loop by itself. It proves,
for any capacities, any number of retries and any number of events
(`EventLoopAssumption`),

- `EventLoopTypeOK` (`EventLoopTypeCorrect`);
- that `EventLoop` implements `EventDelivery` (`ImplementsDeliveryCorrect`), whose
  specification is safety only;
- `NoDiscardWithoutCancel` (`NoDiscardCorrect`), inductive as it stands;
- `StatsMatchFates` (`StatsMatchFatesCorrect`);
- `InOrderOnce` of `EventDelivery`, read of the loop (`PublishedInOrderCorrect`).

The types are not inductive: nothing in an action bounds the statistics. `Conserved` does:
what is counted, in hand and in the channel together is no more than what arrived.
`RetryLeft` (a backoff is only entered with a retry left) keeps the attempts in range. The
refinement maps the queue of `EventDelivery` to the event in hand followed by the channel,
so that receiving and retrying are stutters. `StatsMatchFates` needs that no event is
resolved twice, which no single action shows: `OrderInv` says that the channel is in order
of arrival, the event in hand is older than all of it, and every published or given up
event is older than both. `CountInv` then counts a new event at each resolution.

The second part builds on the first: the steps of the event loop keep its invariant as proved
there, the steps of `run()` are added. It proves, for any delays, capacities and
numbers of failures,

- `TypeOK` (`TypeCorrect`): the backoff is at most `MaxBackoff` after any number of
  failures, `saturating_mul` and `saturating_pow` included;
- `FlushCoversForwarded` (`FlushCorrect`): what NATS had taken when a shutdown began has been
  sent when the process ends after a flush;
- `CutOffIsLast` (`CutOffIsLastCorrect`);
- `BackoffNeverShrinks` (`BackoffNeverShrinksCorrect`);
- that the whole bridge implements `EventDelivery` (`LifecycleImplementsDelivery`) and
  publishes the events of all its connections in order, each once
  (`LifecyclePublishedInOrder`).

A connection resets the counters but not the log of what NATS accepted, so the log's length
needs a bound of its own (`LogBound`), and the reset needs that no loop is left from the
last connection (`Unconnected`). `FlushHolds` carries the second theorem from the flush
through the two joins. `CutOffIsLast` rests on `OrderInv`, on the cancellation being the
shutdown's only (`ShutdownIsFinal`) and on a loop that threw something away having stopped for
good (`CutByStop`). The backoff is about one series of failures: `DelayBelow` says that
while no connection is up, the last backoff is at most that of the failures so far, and
`BackoffGrows` that one more failure does not make it shorter, through both saturations and
the cap. For the events, `LifecycleLeavesEvents` says that no step but the loop's touches
them: a new connection replaces the channel by an empty one, but the channel was empty, as
the loop of the last connection had ended. `PowerAssumption` (a power of two is a number,
and the next one is its double) is the one fact assumed: the provers have no rule for
exponents; TLC evaluates it.

`ClientFactoryProofs` proves, for any number of concurrent calls, `TypeOK` (`TypeCorrect`)
and `NoMixedSchema` (`NoMixedSchemaCorrect`). The second needs `FetchedInOrder`: the tags a
refresh holds are no newer than the workspace, whose version only grows, so the associations
it fetches afterwards are at least as new. The first needs that a new entry always finds an
unused handle, a matter of counting: each call holds one at most (`FreeHandle`).

`McpServerProofs` proves, for any set of calls with any tools and arguments, any documents,
bridges and number of failures (`PlansAssumption`, `RestAssumption`, `ToolsAssumption`),

- `AppliedAsReported` (`AppliedAsReportedCorrect`);
- `RefusalHasCause` (`RefusalHasCauseCorrect`);
- `AuditTrail` (`AuditTrailCorrect`).

`AppliedInv` says of every call that it is either running, with no transaction in its trail
and only steps of its kind left, or has ended, with only closing records left and a trail
that fits its outcome. The kinds matter: a step that only reads is never left to a tool that
changes something, and `update_collection`, which sends an update, only to an issue with
something to change (`Steps`). `ToolBodies` shows it of the 21 programs. The argument then
goes by what a step may amount to (`Way`): to go on, to answer without a transaction, to
fail without one, or to apply one and end. One lemma per action shows that it is one of the
four (`CommitIssueWay` and its siblings), one that each of the four keeps the invariant
(`WayKeeps`), and `Others` that other calls are not touched. `CauseInv` follows a refusal on
its way from the bridge to the call. `AuditTrail` speaks of behaviours without a fault, but
a fault may come at any step: its invariant says what the trail of a call is as long as none
has come, from the records that are still to be published.

`McpDocumentsProofs` builds on that and is about the documents. For any calls, documents and
numbers of failures it proves

- `TypeOK` (`TypeCorrect`) and `MarkupStored` (`MarkupStoredCorrect`);
- `GiveUpOnlyUnderContention` (`GiveUpOnlyUnderContentionCorrect`), `ReportedExist`
  (`ReportedExistCorrect`) and `NoDuplicates` (`NoDuplicatesCorrect`);
- that `McpServer` implements `IssueCounter` (`ImplementsIssueCounterCorrect`), and what that is
  worth: the numbers of a project's issues are in 1 to its sequence (`RangeCorrect`), so a
  number given later is above all given before, to deleted issues too
  (`NeverGivenAgainCorrect`).

What it assumes:

- `PlansAssumption`: the documents at the start have the fields of their classes and an id
  each, `huly_update_issue` changes the fields its handler takes, and a new id is not one of
  those that are there;
- `GenTxIdAssumption`: no id is generated twice. `gen_tx_id` joins the time to a count that
  all calls of the process share;
- `CallsAssumption`: the calls are finitely many (`MarkupStored` counts them);
- `RawToolsElsewhere`, a hypothesis of the theorems on documents: `huly_create` and
  `huly_update` take any class and any field, and the code does not stop a user from writing
  a second component of a label, or from setting a sequence back, with them. The theorems are
  about the tools that are for these classes; the raw ones may run at the same time on any
  other class, change any field that names nothing, and delete anything. `MCMcpServer`
  asserts the hypothesis of the plans it runs;
- what was wrong in the workspace before is not put right: `NoDuplicatesCorrect` starts from a
  workspace without duplicates, `ImplementsIssueCounterCorrect` from one whose numbers fit
  their sequences (`Counter!Init`).

The invariants, each proved with the help of those before it:

- `WorkInv` bounds what a call has in hand: which steps may be behind the one it is at, that
  it counts attempts only at a step that makes them, and that it waits for the broker only
  where it uses the factory. One lemma per step shows that the step does one of a few things
  (`CallActs`): go on, ask again, answer, fail, or apply one transaction.
- `DataInv` is about what a call relies on after it was read. A transaction of one call
  meets others between their read and their write, so the invariant cannot say that what was
  read is still so, only what remains true of it: the sequence that was read is a lower bound
  of the counter (`AtLeast`), each rejected attempt stands for a number that somebody else
  took (`SequenceInv`), an id that a call will use is nobody's (`FreshInv`), a document that
  was found or created is there unless it was deleted (`CreatedInv`). `Evolution` sums up
  what a step makes of the documents: some are kept, the kept ones change no field that names
  or ties them except the counter, and at most one is added, with a new id, and if its
  class has a key then under the predicate that nobody has it. The other calls' parts of the
  invariant are then proved from `Evolves` alone, once for all steps (`AtLeastKept`,
  `ExistsKept`, `KnownKept`, `UniqueKept`).
- `MarkupInv`: each stored copy is one of an attempt of an upload of its content, and an upload
  that succeeded has its copy under the reference it reports. That copies are bounded by
  attempts is a matter of cardinality (`CopiesBounded`).

The refinement maps a project's `sequence` and the numbers of its issues
(`LastNumber`, `IssueNumbers`). There is one lemma for each kind of change of the documents:
of a field that does not count, of another class, a new project, a deletion, and the commit
of `huly_create_issue`, which is the step that gives a number (`CountedNumbers`). Folds over
the two parts of a transaction are evaluated in `AppliedTwo`.

`StartupProofs` proves, for lists of credentials of any length, any lifetimes, clock and width of
the integers (`StartupAssumption`: the clock fits its width), `AcceptedConfigServes`
(`AcceptedConfigServesCorrect`). That validation counts as many slugs as entries makes the slugs
injective (`SlugsDiffer`), so that the broker's map loses no entry (`BrokerOf`) and the lifetime
of a reply is the listed one (`ListedLifetime`); `Expiry` is the saturating arithmetic. `BootInv`
carries the validated configuration to the broker and the broker to the reply.

`WireProofs` proves, for any payloads, any number of retries and any waits and caps in
milliseconds that fit the clock (`RetriesAssumption`),

- `FailuresSurface` (`FailuresSurfaceCorrect`). `WireInv` says of each client's exchange that
  it has waited once after each answer but the last, each time as the 429 before it asked
  (`RetryAfterAsked`: the cap is below the largest number, so that saturation never shows),
  and that its outcome is no result if the last answer was a failure. One lemma per client
  (`WsSurfaces`, `RestSurfaces`, `HttpSurfaces`, `AccountsSurfaces`, `ProxySurfaces`) shows
  the second part of its reader;
- `TransportsAgree` (`TransportsAgreeCorrect`). `SameCalls` and `MadeOf`, in the same
  invariant, reduce it to the operators: `SameMeaning` compares the positional parameters of
  the eight operations with their transaction documents, for any arguments, `SameError` and
  `SameResult` what the two sides read from one answer.

It is assumed of the services that a result is not itself an object with an `error` in it
(`PayloadsAssumption`): over REST the body is the result, and such a one is read as an error.

`NamesAndTextProofs` is about algorithms on sequences and trees, written as recursive functions.
The provers have no induction over data, so the induction is done on sets of numbers: the
numbers up to `n` of which something holds contain 0 and with each its successor, and a least
one that is missing (`LeastNumber`, from the well-foundedness of `<`) would contradict that
(`UpTo`). The same argument shows that a recursive function exists, without which its CHOOSE
says nothing, and that two that take the same turns are equal (`LoopExists`, `LoopUnique`,
`RenderedDef`). It proves

- `NamesResolve` (`NamesResolveCorrect`), for any finite sets of documents with any attributes,
  any order of the answers, any set of calls that refresh at once and any number of events under
  way (`NamesAssumption`; that no
  caller names an empty class is what the validators see to). `PickIsFirst` says what the loop
  over the name keys picks, `CollectedLists` that the loop over the documents lists, under each
  name, exactly its documents, each once, and `BuiltRight` what the two maps then say of a
  name. `MutatingSeen` is about the filter: each form in which a change is published is seen.
  `SchemaInv` joins the two (`CacheRight`): when no event is on its way and none went astray, a
  cache marked fresh is right, and so is what each refresh under way has read so far or is about
  to mark (`ReadRight`). A change makes all of it wrong at once, but its event is then on its way,
  and it is only harmless if it arrives while no refresh is under way, as `astray` says;
- `TextKept` (`TextKeptCorrect`), for any number of events and any depth (`DepthAssumption`:
  the depth is a number). `MdInv` relates the builder to the parser's open tags: the stack has
  a frame for the document and each open block (`StackFits`, with `Kept(open, Blocks)`), each
  such that it fits into the one below it once it is closed; the active marks are the open ones
  (`Kept(open, MarkTags)`), unless a mark has been closed in one of its own kind; and the texts
  the frames hold, from the document's to the innermost, are the text events so far, in their
  order and with their marks (`Matches`). To close a block moves its texts to the end of its
  parent's, where they already were (`BlockClosed`); a text event adds its own at the end
  (`LeafPushed`). What the code does to a list relies on its children being list items, so the
  invariant says that nothing else gets into a list (`WellNested`, `ListOnTop`, `TopNoList`).
  The rendering is a fact about the tree alone: `RenderShows`, by induction on the height, that
  the pieces of text in it are those of the text nodes below, whatever markers, separators and
  prefixes come between.

Model-checked only: liveness, since the prover has no ENABLED. Every safety invariant, action
property and refinement that a passing run checks is also a theorem.

## Not modelled

- TLS and URL set-up, frame codecs, subject names, logging, metrics other than the dropped
  events counter, JSON schemas and texts of the tools, the status table of `catalog.rs`,
  escapes and attributes of markdown.
- Filters of `find_issues` and `find_cards` beyond title and limit: data of a query.
- The sync runner's command lines and the Node program it starts, and with them two runs on
  one state file: only the life of the child process is modelled.
- A half-open connection: a failed write or a silent peer ends neither the reader nor the
  event loop, so the bridge stays on it. `WsConnection` has the state, but no property says
  anything about it, because the code promises nothing.
- A malformed mint request, which `huly-mcp` never sends.
- Code without a caller outside tests: `update_markup` of the collaborator client,
  `invalidate_schema` for one workspace, `error.rs` of the bridge. `add_collection` and the
  proxy, which have none either, are in `Wire`.
- The connection and the lifecycle in one state space: `EventLoop` abstracts the reader to
  an event source that may end at any time, which is all the lifecycle sees of it.
