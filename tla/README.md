# Verification of relay-mcp

TLA+ models of the relay in `src/src/mcp_relay/` (paths below are relative to
that directory), checked with TLC and proved about with TLAPS.

relay-mcp is one asyncio process.  It keeps a registry of upstream MCP servers in
a database, asks each server for its tools, and offers all of them to REST and MCP
clients: lists them, filters them per server, and forwards calls.  What makes it
hard is that every database query, upstream request and webhook call is an
`await`: between any two of them every other request may run, and they share one
registry and five dictionaries with hardly a lock.

## 1. Inventory

| component | state | operations | talks to |
| --- | --- | --- | --- |
| Server registry (`db.py`, `models.py`) | table `mcp_servers`; one aiosqlite connection or a pool of asyncpg connections | list, get, create, update, delete, `update_server_status`; two-step queries (execute, then commit or fetch) | every handler, the canary, discovery |
| Server administration (`main.py:315-418`) | none of its own | register, PATCH, DELETE, refresh one server, health of one server | registry, `tool_cache`, `_filter_cache`, spawns discoveries |
| Tool discovery (`main.py:1630-1745`) | `tool_cache`, `cache_lock` | `discover_server_tools`, `refresh_all`, `refresh_all_tools` with retries at startup | registry, upstream servers |
| Tool listing and filter cache (`main.py:423-545, 914-937, 1531-1591`) | `_filter_cache` (filled lazily, invalidated by PATCH and DELETE) | `list_tools`, `discover_tools`, MCP `tools/list`, debug listing | `tool_cache` under `cache_lock`, registry |
| MCP SSE session (`main.py:71-95, 1116-1207`) | `mcp_sessions`, per session a bounded anyio stream and a `_closed` flag | GET `/mcp/sse` with `event_generator`, POST `/mcp/message` | MCP dispatch |
| Tool calls (`main.py:568-664, 892-911, 990-1047, 1215-1299`) | none of its own | `execute_tool`, `tools/call`, `call_tool` | registry, filter cache, principals, policy, upstream |
| Health canary (`main.py:229-308, 399-407, 1307-1416, 1594-1627`) | `last_health_results`, `previous_status`, the status column | `canary_loop`, `run_canary_check`, `probe_server`, `send_canary_alert`, POST `/api/canary/run` | registry, upstream servers, webhook |
| Content policy (`policy/`) | client configuration, local rules | `enforce_policy`, flattening, redaction, HTTP and local evaluation, fail-open or fail-closed | tool calls, policy backend |
| Principals (`principals.py`) | tokens, server surfaces | resolve a token, narrow a surface | tool calls, `tools/list` |
| Capabilities and sub-servers (`main.py`) | none | group tools by prefix, render the capabilities resource | `tool_cache`, registry |
| Semantic search (`discovery.py`) | embeddings | rank tools | listings |
| Process shell (`main.py:139-187`) | tasks | lifespan, telemetry, stats | everything |

Correct means, per component:

* **Registry**: a name has at most one row; an UPDATE touches only the columns it
  names; a refused statement has no effect and its handler answers.
* **Administration**: what a PATCH was answered 200 for is not undone by something
  that ran beside it; a row is replaced only through a DELETE; discoveries and canary
  cycles leave a disabled server alone; a registered server gets probed.
* **Discovery**: ends if the upstream servers answer, stores nothing for a server
  that is gone, and never blocks others while it waits.
* **Listing**: filters are those of the row once writers are done; the cache does
  not change under an iterator; nobody waits for an upstream server.
* **SSE session**: responses arrive once, in order, and all of them while the client
  stays; a POST is answered; a session is forgotten when its client leaves.
* **Canary**: cycles end; status, results, comparisons and alerts agree with each
  other and, eventually, with the servers; alerts tell changes.
* **Tool calls, policy, principals**: no call reaches an upstream server unless
  registration, filter, principal and policy let it, in that order, whatever
  administrators do meanwhile; a token is one caller's; a policy failure denies
  unless fail-open is configured; redaction does not hit the wrong argument; a name
  that is listed, or shown in a breakdown, routes back to its tool.
* **Process**: what was confirmed survives a crash, and a restarted relay does not
  show as healthy what it does not serve.

Hard to test here: awaits between a check and its use (registration, PATCH, filter
fill, discovery, canary), results of queries that overtake each other on
PostgreSQL, iteration over a dictionary across awaits, a lock held across awaits,
refused statements halfway through a handler, a slow or vanished SSE client,
timeouts that cancel work halfway, overlapping periodic tasks, a crash with
statements that are not committed, a call whose gates look at the registry at
different moments, arguments that are checked under one name and forwarded under
another.  `PROJECT.json`
lists each under `hazards`, at its line.

## 2. Modules

| module | models | variables |
| --- | --- | --- |
| `RelayDb` | registry and engines; the tools a pair of lists lets through | `rows`, `nextId`, `stmt`, `phase`, `order`, `reply` |
| `RelayCatalog` (extends `RelayDb`) | administration, discovery, probes, listings, both caches, `cache_lock` | `pc`, `req`, `response`, `toolCache`, `filterCache`, `cacheLock`, `todo`, `shown`, `attempt` |
| `RelayRestart` (extends `RelayCatalog`) | commits, crashes and restarts | `saved`, `crashes`, `earlier`; observed: `foundUp`, `missed` |
| `RelayNames` | names of tools, routing, sub-servers | none: operators |
| `RelayPrincipals` | principals file, tokens, surfaces | none: operators |
| `RelayToolCall` (extends `RelayDb`, `RelayNames`, `RelayPrincipals`) | the three call paths beside administrators | `at`, `call`, `target`, `held`, `verdict`, `sent`, `answer`, `asked`, `filterCache`, `toolCache`; observed: `hosts`, `open`, `callable` |
| `CallGate` | abstract: what the relay promises of the calls it forwards | `url`, `lets`, `call`, `hosts`, `open`, `verdict`, `sent`, `answer` |
| `RelayPolicy` | content policy, for one call | `backend`, `failOpen`, `rules`, `at`, `tool`, `who`, `given`, `reply`, `forwarded` |
| `RelaySse` | one MCP session | `gen`, `post`, `buffer`, `senders`, `hand`, `closed`, ... |
| `RelayCanary` | canary cycles and health checks | `at`, `probe`, `alertee`, `last`, `previous`, `column`, ... |
| `MCCatalog`, `MCRestart`, `MCToolCall`, `MCPolicy`, `MCSse`, `MCCanary` | small instances for TLC | |
| `RelayDbProofs`, `RelayCatalogProofs`, `RelayAgreementProofs`, `RelayRestartProofs`, `RelayToolCallProofs`, `RelayPolicyProofs`, `RelaySseProofs`, `RelayCanaryProofs` | lemmas, theorems, proofs | |

**RelayDb.**  A query is not atomic with the code around it.  A task hands over a
statement (`Submit`, or `Chain` straight after a result), the engine runs it
(`Execute`), and the loop gives the result back (`Take`, `Return`, `Chain`).
`Backend = "sqlite"` is aiosqlite: one worker thread, jobs in the order they were
queued, two jobs per query (`Execute`, `Complete`), owners resumed in the same order.
`Backend = "postgres"` is the pool: statements run, and results arrive, in any order.
A statement whose kind is in `Fallible` may be refused (`ExecuteRefused`), which the
task sees as an exception (`Raise`, `Recover`).

**RelayCatalog.**  One action per stretch of code between two awaits; `pc` names the
await.  A client carries one request, of any kind in `Requests`; `Boot` is the
startup task; a task `<<actor, name>>` is a discovery, for what `refresh_all_tools`
gathers and what registrations and PATCHes spawn, or a probe that a canary cycle
gathers.  A cycle of `canary_loop` is that of a client, like one of POST
`/api/canary/run`: both run `run_canary_check`.  `cacheLock` is the FIFO queue of an
`asyncio.Lock`, its head the holder.  Handlers map to actions so:
`register_server` to `ReceiveLookup`, `RegisterCheck`, `RegisterInsert`,
`RegisterDone`; `update_server` to `PatchCheck`, `PatchReread`, `PatchDone`;
`unregister_server` to `DeleteCheck`, `DeleteRow`, `DeletePop`; the three listings to
`ReceiveList`, `ListLocked`, `ListFilled`; `refresh_all_tools` to `StartupRefresh`,
`Gather`, `AfterTotal`, `CountTotal`; `discover_server_tools` to `DiscoveryStart`,
`DiscoveryLookup`, `FetchSucceeds`, `FetchFails`, `StoreLocked`, `StatusHealthy`,
`StatusUnhealthy`, `DropLocked`; `run_canary_check` to `ReceiveRefresh`, `Gather`,
`CanaryEnds`; `check_server_health` to `ReceiveLookup`, `ProbeCheck`; `probe_server` in
either to `ProbeSucceeds`, `ProbeFails`, `ProbeEnds`, and its `wait_for` in a cycle to
`ProbeExpires`; exceptions to `QueryFails` and `StatusHealthyFails`.  A probe writes the
status of a row and leaves `tool_cache` alone, and `check_server_health` probes a server
whether it is enabled or not.

**RelayRestart.**  `Running` is a step of the catalogue together with what it commits:
on PostgreSQL every statement, on SQLite whatever the shared connection has changed
so far, as soon as any task's commit runs (`Persist`).  `Crash` puts the table
back to `saved`, empties caches, lock and queues, breaks off every client that had
begun, and lets `Boot` start over, as `lifespan` does.  `Observe` notes which servers a
probe has found up since the crash, and which the startup task failed to discover:
`HealthyIsServed` is about that history.

**RelayToolCall.**  A caller is a task that serves one call of `execute_tool`,
`call_tool` or `tools/call`: `Receive` (refusals before the first await, routing of
qualified names), `Locate` (bare names, from `tool_cache`), `CheckServer` (`get_server`),
`CheckFilters` (the second lookup, in `_server_filters`), `PastGates` (lists, then
surface), `PolicyAnswers`, `Send`, `UpstreamAnswers`, `UpstreamFails`, `LookupFails`.
Administrators are the requests of `RelayCatalog` reduced to their
statements and to when they drop what is cached; discoveries leave anything in
`tool_cache` at any time (`Discovered`); the policy is a verdict.  So the two modules
share `RelayDb` and the code of the filter cache, and each over-approximates what
the other does in detail.  `Observe` notes, for each call that is being served, what
has been true of the registry meanwhile: the properties are about that history.

**CallGate.**  A call goes upstream at most once; only to a place where its server was
registered, and only for a tool that was let through, at some time while it was being
served; only if its caller may reach the server; only on a favourable verdict, with
the arguments that the verdict asks for; and not after it has been answered.
`GatesHold` is this specification under the refinement mapping `Gate` of
`RelayToolCall`: places and lists of the servers are read off rows and filter cache,
calls map to themselves.

**RelayPolicy.**  `Enforce` and `Receive` are the stretches of `enforce_policy` before and
after the wait for a backend; `Flatten`, `Allows` and `Redacted` are the flattening, the local
rules and the redaction.  A name is a sequence of parts between dots, a
dict the sequence of its items, a glob or regex the set it matches.

**RelayNames, RelayPrincipals.**  Operators over names as sequences of the parts between
two `__`, and over the principals file as a sequence of records.

**RelaySse.**  The generator of GET `/mcp/sse`, any number of POSTs, and anyio's
memory stream with its waiting receiver and blocked senders, action by action.
What `_handle_mcp_request` computes is left open: some awaits, then a response or
none.

**RelayCanary.**  Any number of overlapping calls of `run_canary_check`.  Probes are
tasks of their own (`Answered`, `Store`, `StoreRefused`, `Timeout`).  The loop over
the results suspends only in the webhook call, so it is one action up to its next
alert (`Gather`, then `AlertReturns`, both through `Process`).  Servers, rows and
failures are an environment that may turn `calm`.  `RelayCanary` has the canary's own
state: results, previous statuses, alerts, overlapping cycles, timeouts that cancel an
UPDATE; `RelayCatalog` has the same probes without that state, beside discoveries, caches
and administrators.  What the catalogue does to a row is `RowChanges` here.

## 3. Runs

| run | result | what it shows |
| --- | --- | --- |
| `catalog_filters` | holds | Three of PATCH, DELETE, register and listing, with the startup refresh, SQLite, writes may be refused.  `FilterAgreement`: once writers are done, `_filter_cache` has the filters of the row.  `IterationStable`: `tool_cache` does not change under a suspended listing. |
| `catalog_admin` | holds | Three of register, DELETE, PATCH and canary cycle on one name, registered disabled at first, PostgreSQL, writes may be refused.  `PatchKept`, `RowKeptUntilDeleted`; `DisabledNotAsked`: no discovery and no canary cycle asks a server that nobody has enabled, and no tools of it are kept.  GET `/health` of a disabled server does probe it. |
| `catalog_answers` | holds | One request of any kind, three startup attempts, every statement liable to be refused.  `AnswersWithoutUpstream`: listings, administration and canary cycles are answered though no upstream server ever answers.  `EveryTaskEnds`: if they do answer, every task ends, so no error path keeps the lock. |
| `catalog_restart` | holds | Two clients that register, remove and PATCH one server or run canary cycles, and a crash between any two steps, SQLite.  `ConfirmedIsDurable`, `PatchKept`; `HealthyIsServed`: once the startup task has ended, the tools of an enabled server that no request has touched are known, whatever probes wrote, unless its discovery failed, and then the row says "healthy" only if a probe found the server up; `RegisteredIsProbed`: a registration answered 201 leads to a status, a DELETE or a disabling, if upstream servers answer. |
| `catalog_ghost` | violated | `NoGhostTools`: DELETE during a fetch leaves the tools in the cache, unfiltered. |
| `tool_calls` | holds | One call on any path, two administrators that filter, move, remove and register its server.  `GatesHold` (implements `CallGate`); `SentWasCallable`: what is sent could have been called at one moment, unless its server was removed; `CacheAgrees`: calls fill the filter cache without `cache_lock`, and it still has the lists of the row; `CallsProceed`: without upstream's help a call is answered or about to be sent. |
| `calls_removed` | violated | `BlockedNotSent`: a call of a tool that was blocked as long as its server existed goes upstream, if a DELETE runs between its two lookups. |
| `policy` | holds | Every backend, dicts of up to two arguments, one of them named like an alias, four rules files, and replies that break off, fail, make no sense or redact up to two names.  `ForwardedSatisfiesRules`, `RedactionExact`, `DeniedWithoutDecision`. |
| `sse_session` | holds | `NothingLost`, `ResponseArrives`, `SessionForgotten`. |
| `sse_hang` | violated | `PostAnswered`: a POST blocked on a full stream is not woken when the client leaves. |
| `canary_cycles` | holds | `CyclesEnd` (also with hung servers), `Settles` (whatever overlapped or failed, the loop puts it right), `OneStatus` and `LoneAlertsAreNews` while no two cycles overlap. |
| `canary_hung` | violated | `SummaryTellsCanary`: a server that hangs keeps its old status in the rows `health_summary` counts. |

Two algorithms are checked by the assumptions of `MCToolCall`, which TLC evaluates in
its runs: `InventoriesAddUp` (for every set of up to six tool names, the breakdown
into sub-servers accounts for each tool once and its names route back) and
`FilesResolve` (in every principals file of up to two entries that loads, a token
resolves to the one entry that lists it).

Every property of a passing run has a mutant in `PROJECT.json`: a variant operator
in the module, written like a plausible bug, under which the property fails.

**Bounds, and why they are enough.** Catalogue: one name (its races are between tasks on
one row and one cache entry; servers meet only in the loop of a listing and in
`gather`), three clients where three parties make the race (a filler, a writer, a later
registration), one or two elsewhere; two tools, so that allow and block lists differ;
two endpoints where a PATCH moves a server.  `MaxRetries` is 1 where retries do not
matter and 3 in `catalog_answers`; in the code it is 5.  Canary cycles are among the
requests, so two of them, or one beside two administrators, fall into a run;
`canary_loop` is any number of them, as in the theorems.  `MaxCrashes` is 1, and a row
from an earlier life is among the initial tables; the theorem about crashes holds for
any number.  Tool calls: two servers, one of which the caller may not reach and which
lists the same tools; one call, as calls meet only in the filter cache, which the two
administrators contend for too; two administrators, so that a removal and a new
registration can both fall into one call.  Policy: one call, as a backend keeps nothing
between calls; two arguments are enough for one to shadow the other.  SSE: four POSTs
over a stream of one, so that a response is in the client's hands, one buffered and two
blocked; the code's capacity is 32 and the theorems hold for any.  Canary: one server,
the loop, one more client of cycles and one health check; two servers matter only for
the order in which results are recorded, which the theorems cover.  Nothing else is
bounded: no run uses a state constraint.

Symmetry is declared only in runs without liveness properties, over clients.

**Deadlock** is checked everywhere but in the SSE runs, where everything ends once
the client has left (and where a POST may hang, which `sse_hang` is about), and in
`policy`, where the one call ends.

## 4. Fairness

* The event loop and the database worker run whatever can run: weak fairness of each
  task's steps and of the engine (`LocalFairness`), of the generator and the POST
  handlers (`RelaySse!FairSpec`), of each cycle and check (`RelayCanary!FairSpec`).
  asyncio's ready queue and aiosqlite's job queue are FIFO; the pool is
  PostgreSQL's own scheduling.
* No specification makes upstream servers answer: the `timeout` argument of the fetch
  functions is never used, so nothing but the upstream server or the client library
  ends a fetch.  `EveryTaskEnds` and `RegisteredIsProbed` have it as their premise
  (`UpstreamFairness => ...`); `AnswersWithoutUpstream` does without.  Only the probes of
  a canary cycle end by themselves, by `wait_for` (`ProbeExpires`, among the steps of
  `Discovery` that are fair).
* `RestartSpec` has the fairness of the catalogue.  Nobody has to crash.
* Tool calls: the engine, the handlers' own steps and administrators' steps, and the
  policy backend, whose client gives up after `POLICY_TIMEOUT_SECONDS`.  Nothing is
  asked of upstream servers, so `CallsProceed` stops where they are waited for.
* The SSE client reads its stream while it is connected (`WF(Transmit)`); that a
  POST's own awaits end is assumed.
* `canary_loop` wakes from its sleep; a webhook call ends (`timeout=5`); a probe in a
  cycle is ended by `wait_for`; nobody has to ask for a cycle.  `Settles` supposes
  that from some time on servers and rows stay as they are and nothing fails, and
  that `CANARY_TIMEOUT` is enough for a server that answers.

## 5. Proofs

All for every value of the constants, under the named assumptions of the modules (backend
one of two, absent values distinct from present ones, disjoint kinds of tasks, initial
tables with distinct ids, calls that name servers and tools, a principals file that
loads).

* `RelayCatalogProofs`: `Inductive`, `TypeCorrect`, `StableIteration`, `RowsKept`.
  `TypeOK` alone is not inductive: a result is typed by the statement it answers and a
  location says which statement that can be.  `IInv` therefore adds, per task, which
  requests can be where and which locations have a statement pending (`TaskControl`), that
  no discovery is spawned while it runs (`SpawnControl`), and that a listing in a query
  holds the lock (`ListerHoldsLock`), from which `StableIteration` follows: every step
  that changes `tool_cache` needs the lock free or held by itself.  `RowsKept` follows
  from the engine's unique name.
* `RelayAgreementProofs`: what caches and table have to do with what was asked for.  It
  sums up the actions of the catalogue as a handful of moves (`TaskMove`, `StepKinds`): a
  client asks for its own write, reads back, forgets the cached lists, fills them, or does
  nothing of consequence; every proof below is by these moves and the engine's steps.
  * `OwnStatements`: every statement that writes more than a status is that of the request
    its client serves (`StatementInv`).
  * `PatchesAreKept` is `PatchKept`, `DisabledIsNotAsked` is `DisabledNotAsked`.
    `PatchInv` says it from the moment the UPDATE has run and not only from the answer.
    `EnabledInv` follows the flag from a request to a row, from a row to a result, a
    single one or a listing's, from a result to a fetch or a cycle's probe, and from a
    fetch to the tools.  Both suppose `AsStored`: that
    registrations are stored as they came, which is so on PostgreSQL (`PostgresStores`),
    and on SQLite if nobody registers a disabled server (section 6).
  * `FiltersAgree` is `FilterAgreement`, on SQLite if no SELECT is refused; section 6 has
    how each of the two fails without.  `FInv` explains every difference between the
    cached lists and the row, and every result of a listing that is out of date: some
    client that wrote the row has its invalidation still before it, and the job of the
    listing is ahead of that client's next one in the worker's queue (`Ahead`), so the
    fill comes first.
* `RelayRestartProofs`: `RestartTypes` carries the catalogue's invariant over crashes;
  `ConfirmedSurvives` is `ConfirmedIsDurable`.  `DurInv` follows the row of a confirmed
  request from its statement to its answer: between `Execute` and the commit the row is in
  the table, or somebody asked for the opposite (`InsertControl`, `DeleteControl`); after
  a commit it is so in `saved` as well (`Kept`, `Gone`); and a handler that has come as
  far as its answer has passed its own commit (`ReplyControl`).  The committed table is
  never behind on what was kept, since a commit takes the whole table, other tasks'
  changes included.  `PatchesSurvive` is `PatchKept` over crashes, under `AsStored`:
  `SavedPatchInv` says of the committed table what `PatchInv` says of the current one, for
  the clients whose UPDATE has been committed.  `HealthyServersAreServed` is
  `HealthyIsServed`, if no SELECT, listing or status UPDATE is refused: the property is
  false otherwise, as the startup task or its probe then ends early and the row keeps
  saying "healthy".  `SweepInv` follows a server that no request has touched (`Tracked`)
  through the startup task: the listing's cursor comes to it because ids tell rows apart
  and grow (`Reaches`, `Identified`), it is gathered and discovered (`SweepControl`), and
  the discovery ends with tools, or is noted as missed with a row that says "healthy" only
  if a probe is on record (`ProbeControl`, `Told`).  Others leave it alone: whoever enables
  it or drops its tools has touched it (`SpawnsTouch`, `RemovedOrTouched`), a probe changes
  nothing but the status and is on record before it says "healthy" (`FindsRecorded`), the
  startup task does not probe (`StartupDiscovers`), and clients from before the crash do
  nothing (`EarlierOver`).
* `RelayToolCallProofs`: `CallTypes`, `SentCallsWereCallable`, and `CallsPassTheirGates`:
  every step is a step of `CallGate` or leaves its variables alone.  `IInv` adds what a
  call has seen: what holds now is noted (`Noted`), a row in a caller's hands was in the
  table while the call was served (`Seen`), and a call that waits for the policy or is
  sent has passed the earlier gates (`Passed`).  The cached pair counts as letting a tool
  through, which is why `LetThrough` has two disjuncts; that it agrees with the row is
  `CacheAgrees`, proved on SQLite as `CallsKeepTheCache`.  Its `CacheInv` says of a call
  between its lookup and its fill what `FInv` says of a listing; an administrator whose
  request broke off after its write (`Broken`) is the exception that `CacheAgrees` itself
  makes.  `ListedNamesRouteBack`, `SampledNamesRouteBack` and `TokensAreOneCallers` are
  about names and tokens of any number and length.
* `RelayPolicyProofs`: `PolicyTypes`, `RulesHoldUpstream`, `RedactionIsExact`,
  `FailsClosed`.  `AsDecided` ties what was forwarded to the decision; the rest is about
  `Flatten`, `Allows` and `Redacted`: which argument last wrote a field, and what the last
  part of a field's name says of it.
* `RelaySseProofs`: `StreamInductive`, `StreamTypeCorrect`, `StreamIsFifo`.  `IInv` adds
  that a receiver waits only while nothing is offered and that POSTs block only on a full
  buffer (`StreamControl`); without the second a response could overtake blocked ones.
* `RelayCanaryProofs`: `CanaryInductive`, `CanaryTypeCorrect`, `StatusIsOne`,
  `AlertsTellNews`.  `IInv` adds that a cycle has an alert exactly while it awaits the
  webhook (`AlertControl`), that without overlap only one cycle is busy (`Alone`), and
  what the dictionaries hold while a status is being told (`BeingTold`).  The lemma
  `ProcessKeeps` carries the loop over the results, used by both its entries.
* `RelayDbProofs`: what calls and engine steps keep, used by catalogue and tool calls:
  types, the table as seen by the statement that runs (`Applied`), refusals
  (`RefusalInv`), and the order of the worker's queue (`QueueOK`, `Ahead`).

Every invariant and action property of the passing runs is the subject of a theorem.  Only
model-checked: the liveness properties (`ResponseArrives`, `SessionForgotten`,
`CyclesEnd`, `Settles`, `AnswersWithoutUpstream`, `EveryTaskEnds`, `RegisteredIsProbed`,
`CallsProceed`), which need fairness and ENABLED, out of the prover's reach; and what
recursive definitions compute (`InventoriesAddUp`, `FilesResolve`), which needs induction
over data.

The theorems with a hypothesis are about instances that TLC runs as well:
`catalog_filters` is SQLite with every write liable to be refused, `tool_calls` SQLite
with lookups liable to be refused, `catalog_admin` PostgreSQL, and `catalog_restart`
SQLite with registrations of enabled servers and no refusals.

## 6. Findings

Four runs find a property violated that the code's own words promise; `PROJECT.json`
quotes them.  More observations, without a run of their own:

* `enabled=false` in a registration is stored as 1 on SQLite (`db.py:234`), so the server
  is probed and listed at once: `DisabledNotAsked` fails there, and so does `PatchKept` (a
  server that a PATCH disabled is enabled after it was removed and registered again as
  disabled).  This is the hypothesis `AsStored` of their theorems.
* `FilterAgreement` supposes that the SELECT which re-reads a row after a PATCH is not
  refused: otherwise the UPDATE is committed, the answer is 500 and the cache keeps the
  old pair.  `CacheAgrees` counts such a request as still at work on its server.  On
  PostgreSQL, with a table whose timestamp columns take strings, both fail without any
  refusal: a lookup's result may be resumed after a later PATCH has invalidated the entry.
* The comment at `main.py:1555-1557` says the filter cache is refreshed by the canary
  loop; the canary never touches it.
* A disabled server is asked for its tools by GET `/api/servers/{name}/health`:
  `check_server_health` does not look at `enabled` (`main.py:399-407`).
* A probe that finds a server up writes "healthy" and leaves `tool_cache` alone
  (`main.py:1608`).  If a server's startup discovery fails while another server has
  tools, nothing tries again; the canary, on by default, then records its recovery as
  "healthy" while none of its tools are listed, until somebody refreshes it.  Such states
  are reached in `catalog_restart`, where one attempt stands for the missing retry, and
  `HealthyIsServed` says that, unless a request touches it, only a server whose startup
  discovery failed can get there.
* A canary cycle that starts while another one awaits its webhook sends the same alert
  again; a late write of the older one may hide the next change.
* On SQLite a 404 or 409 may rest on another task's row that is not committed yet and is
  lost in a crash, which is why `ConfirmedIsDurable` is about 200 and 201 only.
* POST `/api/proxy/execute` asks neither for the caller's identity nor for the policy's
  verdict, and no call path looks at `enabled`.
* A bare tool name goes to the first server in `tool_cache` that lists the tool, though
  its lists may hide it there and another server may offer it.
* A decision "redact" without fields forwards the arguments as they are; an argument whose
  name contains a dot is not redacted; an argument called `arguments.x` may be checked in
  place of `x`.
* Two discoveries of one server that overlap may leave its row "healthy" without its
  tools.

## 7. What the models leave out

* `tools_count`, `last_seen`, `description`, `created_at`: nothing decides on them.
  `url` stands for url, transport and credentials; a PATCH of the transport alone and
  an empty url are left out.
* A client makes one request.  A pool of ten connections is never exhausted.  A refused
  statement has no effect; a commit that fails is not modelled.  asyncpg refuses ISO
  strings for the timestamp columns of `SCHEMA_PG` and takes them for TEXT columns of
  an older table: both are in the model (`Fallible`).
* In a crash a PostgreSQL statement has run or is never run: one that reaches the
  server after the relay's end is left out, and so is the clean shutdown.
* What an upstream endpoint lists is fixed (`Offers`).  Dictionary order is arbitrary.
  Gaps in PostgreSQL's ids are not modelled.
* Tool calls: arguments are "given" or "redacted" (`RelayPolicy` has the rest);
  waiting for `cache_lock` is only a delay; a call meets the lists of one cache entry,
  its own server's.
* Names: parts that begin or end with `_` (`a_` and `b` make `a___b`).  A server whose
  own name contains `__` can be registered and listed but calls of its tools route
  elsewhere; `ListedNamesRouteBack` supposes that it does not.
* Policy: reading and validating rules and principals files; that `str` and `json.dumps`
  may make one text of different values.
* A timeout that cancels a probe in its UPDATE is in `RelayCanary` only; in `RelayCatalog`
  a probe expires before it.  Waiting for the webhook is a delay in the catalogue.
* In the canary an UPDATE that a timeout cancels runs before the cancellation or not at
  all; the status "unknown" and disabled rows' details are the environment's.
* `sessions_lock` never spans an await and leaves no trace.  One SSE session: sessions
  share nothing else.
* **Not modelled**: the health summary, stats endpoints and telemetry, which only read;
  the capabilities resource, which reads and may fill `_filter_cache` outside `cache_lock`
  (`main.py:777`), as the calls of `RelayToolCall` do; semantic search, which is numerical;
  the debug listing; narrowing `tools/list` to a principal, which drops whole servers from
  a listing.

## 8. Plan

1. An abstract catalogue (a set of permitted tools per server) that `RelayCatalog`
   implements on SQLite; a history property of listings (what is shown was permitted
   at some time during the listing), with the surface of a principal; overlapping
   discoveries and a changed url.
2. Proofs: that `RelayCatalog` implements the abstract catalogue, step by step; that a tool
   listed to a client was permitted by lists the row had; the equivalent of `SentWasCallable`
   with cached lists replaced by those of the row.
3. Failed commits, clean shutdown, and the narrowing of `tools/list`.
