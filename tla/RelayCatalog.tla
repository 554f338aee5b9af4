---------------------------- MODULE RelayCatalog ----------------------------
(***************************************************************************)
(* The catalogue of relay-mcp (src/src/mcp_relay/main.py): registering,    *)
(* changing and removing upstream servers, discovering their tools, and    *)
(* listing the tools that the allow and block lists let through.           *)
(*                                                                         *)
(* The relay is one asyncio process.  An action is what one task does from *)
(* one await that really suspends it to the next; awaits are the queries   *)
(* of RelayDb, the acquisition of a busy cache_lock, an upstream fetch,    *)
(* gather, and the sleep between startup retries.                          *)
(*                                                                         *)
(* Clients issue one REST request each.  Boot is the startup task          *)
(* refresh_all_tools(retry_on_empty=True).  Task <<a, n>> is the discovery *)
(* of server n, or the probe of a canary cycle, that actor a started with  *)
(* create_task or gather.  A cycle of canary_loop is that of a client: POST *)
(* /api/canary/run runs the same run_canary_check (see RelayCanary).       *)
(***************************************************************************)
EXTENDS RelayDb

CONSTANTS Clients,     \* REST requests that may be in progress
          Boot,        \* the startup task
          Requests,    \* what a client may ask for
          MaxRetries,  \* max_retries of the startup refresh
          Offers,      \* the tools an upstream endpoint lists (external)
          Miss,        \* no entry in _filter_cache
          Absent,      \* no entry in tool_cache
          AnyServer,   \* a listing without the server parameter
          NoReq        \* a client that has asked for nothing yet

Actors == Clients \cup {Boot}
Discoveries == Actors \X Names

RequestSet ==
  [op : {"register"}, name : Names, columns : Columns]
    \cup [op : {"patch"}, name : Names, url : {Keep} \cup Urls,
          enabled : {Keep, 0, 1}, allow : {Keep} \cup Filters,
          block : {Keep} \cup Filters, clearAllow : BOOLEAN,
          clearBlock : BOOLEAN, also : {"nothing", "auth", "description"}]
    \cup [op : {"delete", "discover", "probe"}, name : Names]
    \cup [op : {"list"}, name : {AnyServer} \cup Names]
    \cup [op : {"refresh", "canary"}]

ASSUME TasksAssumption ==
  /\ Tasks = Actors \cup Discoveries
  /\ Actors \cap Discoveries = {}
  /\ Boot \notin Clients
ASSUME RequestAssumption ==
  /\ Requests \subseteq RequestSet
  /\ NoReq \notin RequestSet
  /\ AnyServer \notin Names
ASSUME CatalogAssumption ==
  /\ MaxRetries \in Nat \ {0}
  /\ Offers \in [Urls -> SUBSET Tools]
  /\ \A S \in SUBSET Tools : S # Absent
  /\ \A p \in Filters \X Filters : p # Miss

VARIABLES pc,           \* where each task is suspended
          req,          \* the request each client is serving
          response,     \* the HTTP status it was answered with, 0 before
          filterCache,  \* _filter_cache
          toolCache,    \* tool_cache
          cacheLock,    \* cache_lock: its holder, then its waiters, in order
          todo,         \* servers a listing has still to go over
          shown,        \* <<server, tool>> pairs a listing has collected
          attempt       \* the retry loop of the startup task

catVars == <<pc, req, response, filterCache, toolCache, cacheLock, todo, shown,
             attempt>>
vars == <<dbVars, catVars>>

Locations == {"idle", "done",
              "check",                                   \* the first lookup
              "insert", "reread",                        \* register_server
              "update", "updated",                       \* update_server
              "remove", "pop_lock",                      \* unregister_server
              "list_lock", "list_query",                 \* list_tools
              "enabled", "gather", "total_lock", "sleep",\* refresh_all_tools
              "answer_lock",                             \* refresh_all
              "spawned", "lookup", "fetch", "store_lock",
              "healthy", "unhealthy", "drop_lock",       \* discover_server_tools
              "probing", "up", "down"}                   \* probe_server

Init ==
  /\ DbInit
  /\ pc = [t \in Tasks |-> "idle"]
  /\ req = [c \in Clients |-> NoReq]
  /\ response = [c \in Clients |-> 0]
  /\ filterCache = [n \in Names |-> Miss]
  /\ toolCache = [n \in Names |-> Absent]
  /\ cacheLock = <<>>
  /\ todo = [c \in Clients |-> {}]
  /\ shown = [c \in Clients |-> {}]
  /\ attempt = 0

TypeOK ==
  /\ DbTypeOK
  /\ pc \in [Tasks -> Locations]
  /\ req \in [Clients -> {NoReq} \cup Requests]
  /\ response \in [Clients -> {0, 200, 201, 404, 409, 500}]
  /\ filterCache \in [Names -> {Miss} \cup (Filters \X Filters)]
  /\ toolCache \in [Names -> {Absent} \cup SUBSET Tools]
  /\ cacheLock \in Seq(Tasks)
  /\ todo \in [Clients -> SUBSET Names]
  /\ shown \in [Clients -> SUBSET (Names \X Tools)]
  /\ attempt \in 0..MaxRetries

-----------------------------------------------------------------------------
(* Building blocks.                                                        *)

At(t, l) == pc[t] = l
Goto(t, l) == pc' = [pc EXCEPT ![t] = l]

\* The server a task works on.
Subject(t) == IF t \in Clients THEN req[t].name ELSE t[2]
Row(t) == reply[t][Subject(t)]

Answer(c, code) ==
  /\ Goto(c, "done")
  /\ response' = [response EXCEPT ![c] = code]

\* The end of a discovery; refresh_server_tools runs one inline and answers.
EndDiscovery(t) ==
  IF t \in Clients THEN Answer(t, 200) ELSE Goto(t, "done") /\ UNCHANGED response

\* asyncio.create_task(discover_server_tools(name)) while c answers.  (Variants
\* for the mutants: the task is never created; the discovery is awaited.)
AnswerOnly(c, code, n) == Answer(c, code)
ProbeThenAnswer(c, code, n) == Goto(c, "spawned") /\ UNCHANGED response
AnswerAndSpawn(c, code, n) ==
  /\ pc' = [pc EXCEPT ![c] = "done", ![<<c, n>>] = "spawned"]
  /\ response' = [response EXCEPT ![c] = code]

\* create_server: on SQLite enabled_val is 1 whatever the body says.
CreatedColumns(c) == [c EXCEPT !.enabled = IF Backend = "sqlite" THEN 1 ELSE @]

\* update_server: a list sets the column, else its clear flag sets NULL.
ListChange(given, clear) ==
  IF given = Keep /\ clear THEN NoList ELSE given
ChangeOf(r) ==
  [NoChange EXCEPT !.url = r.url, !.enabled = r.enabled,
                   !.allow = ListChange(r.allow, r.clearAllow),
                   !.block = ListChange(r.block, r.clearBlock)]
NamesNoColumn(r) == ChangeOf(r) = NoChange /\ r.also = "nothing"

\* Only a new url or new credentials make the relay ask the server again.
Rediscovers(r) == r.url # Keep \/ r.also = "auth"

Invalidate(n) == filterCache' = [filterCache EXCEPT ![n] = Miss]

\* asyncio.Lock: who asks while it is held, or while others wait, joins the
\* queue; a critical section that does not suspend leaves no trace.
\* (Variant for the mutant: whoever is queued has the lock.)
LockFree == cacheLock = <<>>
Queued(t) == \E i \in DOMAIN cacheLock : cacheLock[i] = t
LockMine(t) == cacheLock # <<>> /\ Head(cacheLock) = t
WaitLock(t, l) == ~LockFree /\ cacheLock' = Append(cacheLock, t) /\ Goto(t, l)
Unlock == cacheLock' = Tail(cacheLock)

listVars == <<todo, shown>>

-----------------------------------------------------------------------------
(* Requests.                                                               *)

\* Every request about one server begins with get_server(name).
ReceiveLookup(c, r) ==
  /\ At(c, "idle") /\ r.op \in {"register", "patch", "delete", "discover", "probe"}
  /\ req' = [req EXCEPT ![c] = r]
  /\ Submit(c, Select(r.name))
  /\ Goto(c, "check")
  /\ UNCHANGED <<response, filterCache, toolCache, cacheLock, listVars, attempt>>

\* register_server: 409 if the name is taken, else create_server.
RegisterCheck(c) ==
  /\ At(c, "check") /\ req[c].op = "register"
  /\ \/ /\ Row(c) # NoRow
        /\ Return(c)
        /\ Answer(c, 409)
     \/ /\ Row(c) = NoRow
        /\ Chain(c, Insert(req[c].name, CreatedColumns(req[c].columns)))
        /\ Goto(c, "insert")
        /\ UNCHANGED response
  /\ UNCHANGED <<req, filterCache, toolCache, cacheLock, listVars, attempt>>

\* (The IntegrityError of a lost race is not caught: see QueryFails.)
RegisterInsert(c) ==
  /\ At(c, "insert")
  /\ Chain(c, Select(req[c].name))
  /\ Goto(c, "reread")
  /\ UNCHANGED <<req, response, filterCache, toolCache, cacheLock, listVars, attempt>>

\* If the row is gone already, _db_to_server(None) raises: 500, but the filter
\* cache is invalidated and the discovery spawned all the same.
RegisterDone(c) ==
  /\ At(c, "reread")
  /\ Return(c)
  /\ Invalidate(req[c].name)
  /\ AnswerAndSpawn(c, IF Row(c) = NoRow THEN 500 ELSE 201, req[c].name)
  /\ UNCHANGED <<req, toolCache, cacheLock, listVars, attempt>>

\* update_server: 404 without a row; no UPDATE if the body names no column.
PatchCheck(c) ==
  /\ At(c, "check") /\ req[c].op = "patch"
  /\ \/ /\ Row(c) = NoRow
        /\ Return(c)
        /\ Answer(c, 404)
     \/ /\ Row(c) # NoRow
        /\ IF NamesNoColumn(req[c])
           THEN Chain(c, Select(req[c].name)) /\ Goto(c, "updated")
           ELSE /\ Chain(c, Update(req[c].name, ChangeOf(req[c])))
                /\ Goto(c, "update")
        /\ UNCHANGED response
  /\ UNCHANGED <<req, filterCache, toolCache, cacheLock, listVars, attempt>>

PatchReread(c) ==
  /\ At(c, "update")
  /\ Chain(c, Select(req[c].name))
  /\ Goto(c, "updated")
  /\ UNCHANGED <<req, response, filterCache, toolCache, cacheLock, listVars, attempt>>

\* 404 if the row vanished meanwhile, without touching the filter cache.
PatchDone(c) ==
  /\ At(c, "updated")
  /\ Return(c)
  /\ IF Row(c) = NoRow
     THEN Answer(c, 404) /\ UNCHANGED filterCache
     ELSE /\ Invalidate(req[c].name)
          /\ IF Rediscovers(req[c])
             THEN AnswerAndSpawn(c, 200, req[c].name)
             ELSE Answer(c, 200)
  /\ UNCHANGED <<req, toolCache, cacheLock, listVars, attempt>>

\* unregister_server.
DeleteCheck(c) ==
  /\ At(c, "check") /\ req[c].op = "delete"
  /\ \/ /\ Row(c) = NoRow
        /\ Return(c)
        /\ Answer(c, 404)
     \/ /\ Row(c) # NoRow
        /\ Chain(c, Delete(req[c].name))
        /\ Goto(c, "remove")
        /\ UNCHANGED response
  /\ UNCHANGED <<req, filterCache, toolCache, cacheLock, listVars, attempt>>

\* (Variant for the mutant: the filter cache is left alone.)
PopOnly(c) ==
  /\ toolCache' = [toolCache EXCEPT ![req[c].name] = Absent]
  /\ Answer(c, 200)
  /\ UNCHANGED filterCache
PopAndForget(c) ==
  /\ toolCache' = [toolCache EXCEPT ![req[c].name] = Absent]
  /\ Invalidate(req[c].name)
  /\ Answer(c, 200)

DeleteRow(c) ==
  /\ At(c, "remove")
  /\ Return(c)
  /\ \/ LockFree /\ PopAndForget(c) /\ UNCHANGED cacheLock
     \/ WaitLock(c, "pop_lock") /\ UNCHANGED <<response, filterCache, toolCache>>
  /\ UNCHANGED <<req, listVars, attempt>>

DeletePop(c) ==
  /\ At(c, "pop_lock") /\ LockMine(c)
  /\ Unlock
  /\ PopAndForget(c)
  /\ UNCHANGED <<dbVars, req, listVars, attempt>>

-----------------------------------------------------------------------------
(* Listing tools: list_tools, discover_tools and tools/list go over         *)
(* tool_cache with cache_lock held, and await a query for every server whose *)
(* filters are not cached.                                                   *)

ToolsOf(n) == IF toolCache[n] = Absent THEN {} ELSE toolCache[n]

Visible(n, pair) == {n} \X {tool \in ToolsOf(n) : Allowed(tool, pair)}

Listed(r) == IF r.name = AnyServer THEN {n \in Names : toolCache[n] # Absent}
                                   ELSE {r.name}

\* What a listing shows of servers S.
Collected(S, filters) == UNION {Visible(n, filters[n]) : n \in S}

\* The rest of the listing needs no query: the response is complete.
WalkEnds(c, left, found, filters) ==
  /\ \A n \in left : filters[n] # Miss
  /\ shown' = [shown EXCEPT ![c] = found \cup Collected(left, filters)]
  /\ todo' = [todo EXCEPT ![c] = {}]
  /\ Answer(c, 200)

\* The listing uses the filters S of some servers and comes to m, which has none
\* in the cache.  The servers come in the order of the dict, here in any order.
WalkStops(c, m, left, found, filters) ==
  /\ m \in left /\ filters[m] = Miss
  /\ \E S \in SUBSET {n \in left : filters[n] # Miss} :
       /\ shown' = [shown EXCEPT ![c] = found \cup Collected(S, filters)]
       /\ todo' = [todo EXCEPT ![c] = left \ S]
  /\ Goto(c, "list_query")
  /\ UNCHANGED response

ReceiveList(c, r) ==
  /\ At(c, "idle") /\ r.op = "list"
  /\ req' = [req EXCEPT ![c] = r]
  /\ \/ /\ LockFree
        /\ \/ /\ WalkEnds(c, Listed(r), {}, filterCache)
              /\ UNCHANGED <<dbVars, cacheLock>>
           \/ \E m \in Names :
                /\ WalkStops(c, m, Listed(r), {}, filterCache)
                /\ Submit(c, Select(m))
                /\ cacheLock' = <<c>>
     \/ /\ WaitLock(c, "list_lock")
        /\ UNCHANGED <<dbVars, response, listVars>>
  /\ UNCHANGED <<filterCache, toolCache, attempt>>

ListLocked(c) ==
  /\ At(c, "list_lock") /\ LockMine(c)
  /\ \/ /\ WalkEnds(c, Listed(req[c]), {}, filterCache)
        /\ Unlock
        /\ UNCHANGED dbVars
     \/ \E m \in Names :
          /\ WalkStops(c, m, Listed(req[c]), {}, filterCache)
          /\ Submit(c, Select(m))
          /\ UNCHANGED cacheLock
  /\ UNCHANGED <<req, filterCache, toolCache, attempt>>

\* _server_filters: an unknown server is not filtered, and not cached.
Filled(m, row) ==
  IF row = NoRow THEN filterCache ELSE [filterCache EXCEPT ![m] = PairOf(row)]

ListFilled(c) ==
  LET n == stmt[c].name
      row == reply[c][n]
      left == todo[c] \ {n}
      found == shown[c] \cup Visible(n, PairOf(row))
  IN /\ At(c, "list_query")
     /\ filterCache' = Filled(n, row)
     /\ \/ /\ Return(c)
           /\ WalkEnds(c, left, found, Filled(n, row))
           /\ Unlock
        \/ \E m \in Names :
             /\ WalkStops(c, m, left, found, Filled(n, row))
             /\ Chain(c, Select(m))
             /\ UNCHANGED cacheLock
     /\ UNCHANGED <<req, toolCache, attempt>>

-----------------------------------------------------------------------------
(* Refreshing: POST /api/tools/refresh, and at startup with retries; and    *)
(* run_canary_check, which probes the servers of the same list.             *)

ReceiveRefresh(c, r) ==
  /\ At(c, "idle") /\ r.op \in {"refresh", "canary"}
  /\ req' = [req EXCEPT ![c] = r]
  /\ Submit(c, SelectEnabled)
  /\ Goto(c, "enabled")
  /\ UNCHANGED <<response, filterCache, toolCache, cacheLock, listVars, attempt>>

NextAttempt == attempt' = attempt + 1

StartupRefresh ==
  /\ pc[Boot] \in {"idle", "sleep"}
  /\ NextAttempt
  /\ Submit(Boot, SelectEnabled)
  /\ Goto(Boot, "enabled")
  /\ UNCHANGED <<req, response, filterCache, toolCache, cacheLock, listVars>>

\* gather starts one discovery, or one probe, per listed server.
Canary(a) == a \in Clients /\ req[a] # NoReq /\ req[a].op = "canary"
Begun(a) == IF Canary(a) THEN "probing" ELSE "spawned"

Gather(a) ==
  /\ At(a, "enabled")
  /\ Return(a)
  /\ pc' = [t \in Tasks |->
              IF t = a THEN "gather"
              ELSE IF \E n \in Names : reply[a][n] # NoRow /\ t = <<a, n>>
                   THEN Begun(a) ELSE pc[t]]
  /\ UNCHANGED <<req, response, filterCache, toolCache, cacheLock, listVars, attempt>>

Gathered(a) == \A n \in Names : pc[<<a, n>>] \in {"idle", "done"}

\* The outcome depends on the tools known once the lock is had.
AfterTotal(a) ==
  IF a \in Clients THEN Answer(a, 200)
  ELSE /\ Goto(a, IF (\A n \in Names : ToolsOf(n) = {}) /\ attempt < MaxRetries
                  THEN "sleep" ELSE "done")
       /\ UNCHANGED response

\* refresh_all counts again after refresh_all_tools has: a client that had to wait
\* for the lock queues for it a second time if somebody waits behind it.
CountTotal(a) ==
  /\ ~Canary(a)
  /\ \/ /\ At(a, "gather") /\ Gathered(a)
        /\ \/ LockFree /\ AfterTotal(a) /\ UNCHANGED cacheLock
           \/ WaitLock(a, "total_lock") /\ UNCHANGED response
     \/ /\ At(a, "total_lock") /\ LockMine(a)
        /\ \/ /\ a = Boot \/ Tail(cacheLock) = <<>>
              /\ Unlock
              /\ AfterTotal(a)
           \/ /\ a # Boot /\ Tail(cacheLock) # <<>>
              /\ cacheLock' = Append(Tail(cacheLock), a)
              /\ Goto(a, "answer_lock")
              /\ UNCHANGED response
     \/ /\ At(a, "answer_lock") /\ LockMine(a)
        /\ Unlock
        /\ AfterTotal(a)
  /\ UNCHANGED <<dbVars, req, filterCache, toolCache, listVars, attempt>>

CanaryEnds(a) ==
  /\ At(a, "gather") /\ Gathered(a) /\ Canary(a)
  /\ Answer(a, 200)
  /\ UNCHANGED <<dbVars, req, filterCache, toolCache, cacheLock, listVars, attempt>>

-----------------------------------------------------------------------------
(* discover_server_tools, in a task of its own or inside a request.        *)

DiscoverCheck(c) ==
  /\ At(c, "check") /\ req[c].op = "discover"
  /\ \/ /\ Row(c) = NoRow
        /\ Return(c)
        /\ Answer(c, 404)
     \/ /\ Row(c) # NoRow
        /\ Chain(c, Select(req[c].name))
        /\ Goto(c, "lookup")
        /\ UNCHANGED response
  /\ UNCHANGED <<req, filterCache, toolCache, cacheLock, listVars, attempt>>

DiscoveryStart(t) ==
  /\ At(t, "spawned")
  /\ Submit(t, Select(Subject(t)))
  /\ Goto(t, "lookup")
  /\ UNCHANGED <<req, response, filterCache, toolCache, cacheLock, listVars, attempt>>

\* Unknown or disabled: nothing to do.  Otherwise the row just read is used for
\* the whole discovery.  (Variant for the mutant: enabled is not looked at.)
AnyRow(row) == row # NoRow
Discoverable(row) == row # NoRow /\ row.enabled = 1

DiscoveryLookup(t) ==
  /\ At(t, "lookup")
  /\ IF Discoverable(Row(t))
     THEN Take(t) /\ Goto(t, "fetch") /\ UNCHANGED response
     ELSE Return(t) /\ EndDiscovery(t)
  /\ UNCHANGED <<req, filterCache, toolCache, cacheLock, listVars, attempt>>

StatusUpdate(t, status) == Update(Subject(t), [NoChange EXCEPT !.status = status])
SetStatus(t, status) == Submit(t, StatusUpdate(t, status))

StoreTools(t) ==
  /\ toolCache' = [toolCache EXCEPT ![Subject(t)] = Offers[Row(t).url]]
  /\ SetStatus(t, "healthy")
  /\ Goto(t, "healthy")

\* The upstream server answers: tool_cache is set under the lock.
FetchSucceeds(t) ==
  /\ At(t, "fetch")
  /\ \/ LockFree /\ StoreTools(t) /\ UNCHANGED cacheLock
     \/ WaitLock(t, "store_lock") /\ UNCHANGED <<dbVars, toolCache>>
  /\ UNCHANGED <<req, response, filterCache, listVars, attempt>>

StoreLocked(t) ==
  /\ At(t, "store_lock") /\ LockMine(t)
  /\ Unlock
  /\ StoreTools(t)
  /\ UNCHANGED <<req, response, filterCache, listVars, attempt>>

\* It refuses, or the connection breaks.
FetchFails(t) ==
  /\ At(t, "fetch")
  /\ SetStatus(t, "unhealthy")
  /\ Goto(t, "unhealthy")
  /\ UNCHANGED <<req, response, filterCache, toolCache, cacheLock, listVars, attempt>>

StatusHealthy(t) ==
  /\ At(t, "healthy")
  /\ Return(t)
  /\ EndDiscovery(t)
  /\ UNCHANGED <<req, filterCache, toolCache, cacheLock, listVars, attempt>>

DropTools(t) ==
  /\ toolCache' = [toolCache EXCEPT ![Subject(t)] = Absent]
  /\ EndDiscovery(t)

StatusUnhealthy(t) ==
  /\ At(t, "unhealthy")
  /\ Return(t)
  /\ \/ LockFree /\ DropTools(t) /\ UNCHANGED cacheLock
     \/ WaitLock(t, "drop_lock") /\ UNCHANGED <<response, toolCache>>
  /\ UNCHANGED <<req, filterCache, listVars, attempt>>

DropLocked(t) ==
  /\ At(t, "drop_lock") /\ LockMine(t)
  /\ Unlock
  /\ DropTools(t)
  /\ UNCHANGED <<dbVars, req, filterCache, listVars, attempt>>

-----------------------------------------------------------------------------
(* probe_server, in a canary cycle or in GET /api/servers/{name}/health: it *)
(* asks a server for its tools and writes the status only.                  *)

\* The row is looked up; whether it is enabled is not asked.
ProbeCheck(c) ==
  /\ At(c, "check") /\ req[c].op = "probe"
  /\ Return(c)
  /\ \/ Row(c) = NoRow /\ Answer(c, 404)
     \/ Row(c) # NoRow /\ Goto(c, "probing") /\ UNCHANGED response
  /\ UNCHANGED <<req, filterCache, toolCache, cacheLock, listVars, attempt>>

ProbeSucceeds(t) ==
  /\ At(t, "probing")
  /\ SetStatus(t, "healthy")
  /\ Goto(t, "up")
  /\ UNCHANGED <<req, response, filterCache, toolCache, cacheLock, listVars, attempt>>

ProbeFails(t) ==
  /\ At(t, "probing")
  /\ SetStatus(t, "unhealthy")
  /\ Goto(t, "down")
  /\ UNCHANGED <<req, response, filterCache, toolCache, cacheLock, listVars, attempt>>

\* wait_for in a canary cycle, by itself or because the loop is busy: no status is
\* written.
ProbeExpires(t) ==
  /\ At(t, "probing") /\ t \in Discoveries
  /\ Goto(t, "done")
  /\ UNCHANGED <<dbVars, req, response, filterCache, toolCache, cacheLock, listVars,
                 attempt>>

ProbeEnds(t) ==
  /\ pc[t] \in {"up", "down"}
  /\ Return(t)
  /\ EndDiscovery(t)
  /\ UNCHANGED <<req, filterCache, toolCache, cacheLock, listVars, attempt>>

-----------------------------------------------------------------------------
(* Queries that raise.                                                     *)

\* Nobody catches it in a request, which FastAPI answers with 500, nor in the
\* startup task; gather takes it as the outcome of a discovery.
GiveUp(t) ==
  IF t \in Clients THEN Answer(t, 500) ELSE Goto(t, "done") /\ UNCHANGED response

\* async with: a listing gives the lock back.  (Variant for the mutant: it does
\* not.)
KeepLock(t) == UNCHANGED cacheLock
ReleaseLock(t) == IF At(t, "list_query") THEN Unlock ELSE UNCHANGED cacheLock

QueryFails(t) ==
  /\ pc[t] \notin {"healthy", "up"}
  /\ Raise(t)
  /\ ReleaseLock(t)
  /\ GiveUp(t)
  /\ UNCHANGED <<req, filterCache, toolCache, listVars, attempt>>

\* The except clauses of discover_server_tools and probe_server also cover the
\* status update that follows a successful fetch.
StatusHealthyFails(t) ==
  /\ pc[t] \in {"healthy", "up"}
  /\ Recover(t, StatusUpdate(t, "unhealthy"))
  /\ Goto(t, IF At(t, "up") THEN "down" ELSE "unhealthy")
  /\ UNCHANGED <<req, response, filterCache, toolCache, cacheLock, listVars, attempt>>

-----------------------------------------------------------------------------
(* The relay.                                                              *)

EngineStep(t) == Engine(t) /\ UNCHANGED catVars

Receive(c) ==
  \E r \in Requests : ReceiveLookup(c, r) \/ ReceiveList(c, r) \/ ReceiveRefresh(c, r)

Handler(c) ==
  \/ RegisterCheck(c) \/ RegisterInsert(c) \/ RegisterDone(c)
  \/ PatchCheck(c) \/ PatchReread(c) \/ PatchDone(c)
  \/ DeleteCheck(c) \/ DeleteRow(c) \/ DeletePop(c)
  \/ ListLocked(c) \/ ListFilled(c)
  \/ DiscoverCheck(c) \/ ProbeCheck(c)

Refresh(a) == Gather(a) \/ CountTotal(a) \/ CanaryEnds(a)

Fails(t) == QueryFails(t) \/ StatusHealthyFails(t)

Fetch(t) == FetchSucceeds(t) \/ FetchFails(t) \/ ProbeSucceeds(t) \/ ProbeFails(t)

\* A discovery or a probe between its fetches, and the timeout of a probe's fetch.
Discovery(t) ==
  \/ DiscoveryStart(t) \/ DiscoveryLookup(t) \/ StoreLocked(t)
  \/ StatusHealthy(t) \/ StatusUnhealthy(t) \/ DropLocked(t)
  \/ ProbeExpires(t) \/ ProbeEnds(t)

\* Every request was answered and every task has ended.
Quiescent == \A t \in Tasks : \/ At(t, "done")
                              \/ t \in Discoveries /\ At(t, "idle")

Next ==
  \/ \E t \in Tasks : EngineStep(t) \/ Fetch(t) \/ Discovery(t) \/ Fails(t)
  \/ \E c \in Clients : Receive(c) \/ Handler(c)
  \/ \E a \in Actors : Refresh(a)
  \/ StartupRefresh
  \/ Quiescent /\ UNCHANGED vars

Spec == Init /\ [][Next]_vars

\* The event loop and the engine go on with whatever they can go on with ...
LocalFairness ==
  /\ \A t \in Tasks : WF_vars(EngineStep(t)) /\ WF_vars(Discovery(t)) /\ WF_vars(Fails(t))
  /\ \A c \in Clients : WF_vars(Handler(c))
  /\ \A a \in Actors : WF_vars(Refresh(a))
  /\ WF_vars(StartupRefresh)

\* ... but outside a canary cycle a fetch ends only if the upstream server lets it.
UpstreamFairness == \A t \in Tasks : WF_vars(Fetch(t))

FairSpec == Spec /\ LocalFairness

-----------------------------------------------------------------------------
(* Properties.                                                             *)

\* A register, PATCH or DELETE on server n is in progress.
AdminBusy(n) ==
  \E c \in Clients :
    /\ req[c] # NoReq
    /\ req[c].op \in {"register", "patch", "delete"} /\ req[c].name = n
    /\ ~At(c, "done")

\* Once no administrative request on a server is in progress, what
\* _server_filters has cached for it is what its row says: _server_filters
\* reads the row, awaits, and stores the pair it computed, while
\* _invalidate_filter_cache runs in the requests that change the row.
FilterAgreement ==
  \A n \in Names :
    filterCache[n] # Miss /\ ~AdminBusy(n) =>
      rows[n] # NoRow /\ filterCache[n] = PairOf(rows[n])

\* tool_cache does not change while a listing that iterates over it is suspended
\* in a query: a dict that changes size under its iterator raises RuntimeError.
IterationStable ==
  [][\A c \in Clients : At(c, "list_query") => UNCHANGED toolCache]_vars

\* The check for an existing server and the INSERT of register_server are apart
\* by an await, and still a row is never replaced by another one of its name.
RowKeptUntilDeleted ==
  [][\A n \in Names :
       rows[n] # NoRow /\ rows'[n] # NoRow => rows'[n].id = rows[n].id]_vars

\* d is a request that gives column col of server n the value v.
Writes(d, n, col, v) ==
  /\ req[d] # NoReq /\ req[d].op \in {"register", "patch"} /\ req[d].name = n
  /\ \/ req[d].op = "register" /\ req[d].columns[col] = v
     \/ req[d].op = "patch" /\ ChangeOf(req[d])[col] = v

\* A column that a PATCH named, and that was answered with 200, never goes back
\* to a value that no request gave it, whatever other PATCHes, status updates
\* and registrations ran meanwhile: update_server and update_server_status name
\* only their own columns.
PatchKept ==
  \A c \in Clients :
    req[c] # NoReq /\ response[c] = 200 =>
      (req[c].op = "patch" /\ rows[req[c].name] # NoRow =>
         \A col \in {"url", "enabled", "allow", "block"} :
           ChangeOf(req[c])[col] # Keep =>
             \E d \in Clients : Writes(d, req[c].name, col, rows[req[c].name][col]))

\* No tools are kept for a server that is not registered once nothing works on
\* it: every listing would show them, unfiltered.
NoGhostTools ==
  \A n \in Names :
    toolCache[n] # Absent /\ rows[n] = NoRow =>
      \/ AdminBusy(n)
      \/ \E a \in Actors : pc[<<a, n>>] \notin {"idle", "done"}

EnabledAtStart(n) == \E T \in InitialTables : T[n] # NoRow /\ T[n].enabled = 1

\* A discovery of n, or a probe of it by a canary cycle, waits for the server.
Asking(t, n) ==
  \/ At(t, "fetch") /\ Subject(t) = n
  \/ At(t, "probing") /\ t \in Discoveries /\ Subject(t) = n

\* A server that nobody enabled is not asked for its tools by any discovery or
\* canary cycle, and none are kept of it: it is asked only if a registration or a
\* PATCH has enabled it, or it was enabled to begin with.  Only who asks for the
\* health of this very server has a disabled one probed (check_server_health).
DisabledNotAsked ==
  \A n \in Names :
    toolCache[n] # Absent \/ (\E t \in Tasks : Asking(t, n)) =>
      EnabledAtStart(n) \/ \E c \in Clients : Writes(c, n, "enabled", 1)

\* Listings, administrative requests and canary cycles are answered even if no
\* upstream server ever answers: nobody holds cache_lock while it waits for one, and
\* wait_for ends the probes of a cycle.
AnswersWithoutUpstream ==
  \A c \in Clients :
    (req[c] # NoReq /\ req[c].op \in {"register", "patch", "delete", "list", "canary"})
      ~> At(c, "done")

\* If upstream servers answer, every request is answered, refreshes included,
\* and the startup task comes to its end.
EveryTaskEnds ==
  UpstreamFairness =>
    /\ \A c \in Clients : (req[c] # NoReq) ~> At(c, "done")
    /\ []<>At(Boot, "done")

\* If upstream servers answer, a server whose registration was answered with 201
\* does not stay "unknown": it is probed, or removed, or disabled.
RegisteredIsProbed ==
  UpstreamFairness =>
    \A n \in Names :
      (\E c \in Clients : /\ req[c] # NoReq /\ req[c].op = "register" /\ req[c].name = n
                         /\ response[c] = 201)
        ~> (rows[n] = NoRow \/ rows[n].enabled = 0 \/ rows[n].status # "unknown")

-----------------------------------------------------------------------------
(* The inductive invariant behind the theorems of RelayCatalogProofs.      *)

DiscoveryLocations ==
  {"lookup", "fetch", "store_lock", "healthy", "unhealthy", "drop_lock"}
ProbeLocations == {"probing", "up", "down"}

\* Where a task waits for the database.
Querying == {"check", "insert", "reread", "update", "updated", "remove",
             "list_query", "enabled", "lookup", "healthy", "unhealthy", "up", "down"}

\* Which kinds of request a client can be serving at a location.
Serves(op, l) ==
  /\ op \in {"register", "patch", "delete", "discover", "probe", "list", "refresh",
            "canary"}
  /\ l \notin {"sleep", "spawned"}
  /\ l = "check" => op \in {"register", "patch", "delete", "discover", "probe"}
  /\ l \in {"insert", "reread"} => op = "register"
  /\ l \in {"update", "updated"} => op = "patch"
  /\ l \in {"remove", "pop_lock"} => op = "delete"
  /\ l \in {"list_lock", "list_query"} => op = "list"
  /\ l \in {"enabled", "gather"} => op \in {"refresh", "canary"}
  /\ l \in {"total_lock", "answer_lock"} => op = "refresh"
  /\ l \in DiscoveryLocations => op = "discover"
  /\ l \in ProbeLocations => op = "probe"

ClientControl(c) ==
  pc[c] # "idle" => req[c] \in Requests /\ Serves(req[c].op, pc[c])

BootControl ==
  /\ pc[Boot] \in {"idle", "enabled", "gather", "total_lock", "sleep", "done"}
  /\ pc[Boot] \in {"idle", "sleep"} => attempt < MaxRetries

\* A task that does not query has no statement pending; one that fetches has a
\* row to fetch by; a listing that queries looks up one server.
AwaitControl(t) ==
  /\ pc[t] \notin Querying => phase[t] = "idle"
  /\ pc[t] \in {"fetch", "store_lock"} => Row(t) # NoRow
  /\ pc[t] = "list_query" => stmt[t].op = "select"

TaskControl(t) ==
  /\ t \in Clients => ClientControl(t)
  /\ t = Boot => BootControl
  /\ t \in Discoveries => pc[t] \in {"idle", "spawned", "done"} \cup DiscoveryLocations
                                     \cup ProbeLocations
  /\ AwaitControl(t)

\* The discoveries of an actor run only while it gathers them or after it has
\* answered: none is spawned a second time while it runs.
SpawnControl == \A a \in Actors : pc[a] \notin {"gather", "done"} => Gathered(a)

\* A listing that is suspended in a query holds the lock.
ListerHoldsLock == \A c \in Clients : At(c, "list_query") => LockMine(c)

IInv ==
  TypeOK /\ (\A t \in Tasks : TaskControl(t)) /\ SpawnControl /\ ListerHoldsLock
=============================================================================
