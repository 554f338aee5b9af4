------------------------- MODULE RelayCatalogProofs -------------------------
(* Theorems about RelayCatalog for every number of clients, servers, tools   *)
(* and endpoints, and for both backends.                                     *)
EXTENDS RelayCatalog, RelayDbProofs

\* The parts of the type invariant that are neither the registry nor pc.
CacheTypeOK ==
  /\ req \in [Clients -> {NoReq} \cup Requests]
  /\ response \in [Clients -> {0, 200, 201, 404, 409, 500}]
  /\ filterCache \in [Names -> {Miss} \cup (Filters \X Filters)]
  /\ toolCache \in [Names -> {Absent} \cup SUBSET Tools]
  /\ cacheLock \in Seq(Tasks)
  /\ todo \in [Clients -> SUBSET Names]
  /\ shown \in [Clients -> SUBSET (Names \X Tools)]
  /\ attempt \in 0..MaxRetries

-----------------------------------------------------------------------------
(* Requests and the values built from them.                                  *)

LEMMA ClientsAreTasks ==
  /\ Clients \subseteq Tasks /\ Boot \in Tasks /\ Discoveries \subseteq Tasks
  /\ \A a \in Actors, n \in Names : <<a, n>> \in Discoveries
  /\ \A d \in Discoveries : d \notin Clients /\ d # Boot /\ d[2] \in Names /\ d[1] \in Actors
  /\ Boot \notin Clients
BY TasksAssumption DEF Actors, Discoveries

LEMMA RequestParts ==
  ASSUME NEW r \in Requests
  PROVE  /\ r.op \in {"register", "patch", "delete", "discover", "probe"} => r.name \in Names
         /\ r.op = "list" => r.name \in {AnyServer} \cup Names
         /\ r.op = "register" => r.columns \in Columns
         /\ r.op = "patch" => ChangeOf(r) \in Changes
         /\ r # NoReq
<1> r \in RequestSet
  BY RequestAssumption
<1>1. CASE r.op = "patch"
  BY <1>1, RequestAssumption
     DEF RequestSet, ChangeOf, NoChange, Changes, ListChange, Filters
<1>2. CASE r.op # "patch"
  BY <1>2, RequestAssumption DEF RequestSet
<1> QED
  BY <1>1, <1>2, RequestAssumption DEF RequestSet

LEMMA CreatedType ==
  ASSUME NEW c \in Columns
  PROVE  CreatedColumns(c) \in Columns
BY DEF CreatedColumns, Columns

LEMMA StatusChangeType ==
  ASSUME NEW s \in Statuses
  PROVE  [NoChange EXCEPT !.status = s] \in Changes
BY DEF NoChange, Changes, Statuses

\* What a listing shows of a server are tools of that server.
LEMMA VisibleType ==
  ASSUME toolCache \in [Names -> {Absent} \cup SUBSET Tools], NEW n \in Names, NEW p
  PROVE  Visible(n, p) \in SUBSET (Names \X Tools)
BY DEF Visible, ToolsOf

LEMMA ListedType ==
  ASSUME NEW r, r.name \in {AnyServer} \cup Names
  PROVE  Listed(r) \in SUBSET Names
BY DEF Listed

LEMMA PairType ==
  ASSUME NEW row \in {NoRow} \cup Rows
  PROVE  PairOf(row) \in Filters \X Filters
BY DEF PairOf, Rows, Filters

-----------------------------------------------------------------------------
(* One task moves: what has to be shown of it, and what follows for all.     *)

LEMMA TypeOKParts == TypeOK <=> DbTypeOK /\ CacheTypeOK /\ pc \in [Tasks -> Locations]
BY DEF TypeOK, CacheTypeOK

LEMMA OthersControlled ==
  ASSUME IInv, NEW t \in Tasks, NEW u \in Tasks \ {t},
         OthersKept(t), pc'[u] = pc[u],
         \A c \in Clients \ {t} : req'[c] = req[c],
         t # Boot => attempt' = attempt
  PROVE  TaskControl(u)'
<1> TaskControl(u)
  BY DEF IInv
<1>1. AwaitControl(u)'
  <2>1. Subject(u)' = Subject(u)
    BY DEF Subject
  <2>2. Row(u)' = Row(u)
    BY <2>1 DEF OthersKept, Row
  <2> QED
    BY <2>2 DEF OthersKept, TaskControl, AwaitControl
<1>2. u \in Clients => ClientControl(u)'
  BY DEF TaskControl, ClientControl
<1>3. u = Boot => BootControl'
  BY DEF TaskControl, BootControl
<1> QED
  BY <1>1, <1>2, <1>3 DEF TaskControl

\* What a step of task t may do to the lock.
LockStep(t) ==
  \/ cacheLock' = cacheLock
  \/ cacheLock # <<>> /\ cacheLock' = Append(cacheLock, t)
  \/ LockMine(t) /\ cacheLock' \in {Tail(cacheLock), Append(Tail(cacheLock), t)}
  \/ cacheLock = <<>> /\ cacheLock' = <<t>>

LEMMA ListerKeepsLock ==
  ASSUME IInv, NEW t \in Tasks, LockStep(t),
         NEW c \in Clients \ {t}, At(c, "list_query")
  PROVE  LockMine(c)'
<1>1. LockMine(c) /\ cacheLock \in Seq(Tasks)
  BY DEF IInv, ListerHoldsLock, TypeOK
<1> QED
  BY <1>1 DEF LockStep, LockMine

LEMMA Moves ==
  ASSUME IInv, NEW t \in Tasks, NEW l \in Locations, Goto(t, l),
         LockStep(t), l = "list_query" => LockMine(t)',
         OthersKept(t), \A c \in Clients \ {t} : req'[c] = req[c],
         t # Boot => attempt' = attempt,
         DbTypeOK', CacheTypeOK', TaskControl(t)',
         t \in Actors => (l \in {"gather", "done"} \/ Gathered(t)),
         t \in Discoveries => (pc[t] \in {"idle", "done"} => l \in {"idle", "done"})
  PROVE  IInv'
<1>p. pc \in [Tasks -> Locations]
  BY DEF IInv, TypeOK
<1>1. TypeOK'
  BY <1>p, TypeOKParts DEF Goto, TypeOK, CacheTypeOK
<1>2. ASSUME NEW u \in Tasks PROVE TaskControl(u)'
  BY <1>2, <1>p, OthersControlled DEF Goto
<1>3. SpawnControl'
  <2> SUFFICES ASSUME NEW a \in Actors, pc'[a] \notin {"gather", "done"}, NEW n \in Names
               PROVE  pc'[<<a, n>>] \in {"idle", "done"}
    BY DEF SpawnControl, Gathered
  <2>1. a \in Tasks /\ <<a, n>> \in Tasks /\ <<a, n>> \in Discoveries /\ a \notin Discoveries
    BY ClientsAreTasks, TasksAssumption DEF Actors
  <2>2. CASE a = t
    BY <2>1, <2>2, <1>p DEF Goto, Gathered
  <2>3. CASE a # t
    <3>1. pc[<<a, n>>] \in {"idle", "done"}
      BY <2>1, <2>3, <1>p DEF Goto, IInv, SpawnControl, Gathered
    <3> QED
      BY <3>1, <2>1, <1>p DEF Goto
  <2> QED
    BY <2>2, <2>3
<1>4. ListerHoldsLock'
  BY <1>p, ListerKeepsLock, ClientsAreTasks DEF ListerHoldsLock, At, Goto
<1> QED
  BY <1>1, <1>2, <1>3, <1>4 DEF IInv

\* A client moves to a place where its request may be.
LEMMA ClientMoves ==
  ASSUME IInv, NEW c \in Clients, NEW l \in Locations \ {"list_query"}, Goto(c, l),
         LockStep(c),
         OthersKept(c), req' = req, attempt' = attempt,
         DbTypeOK', CacheTypeOK', AwaitControl(c)',
         req[c] \in Requests, Serves(req[c].op, l),
         pc[c] \notin {"gather", "done"} \/ l \in {"gather", "done"}
  PROVE  IInv'
<1>1. pc'[c] = l
  BY ClientsAreTasks DEF IInv, TypeOK, Goto
<1>2. TaskControl(c)'
  BY <1>1, ClientsAreTasks DEF TaskControl, ClientControl
<1>3. l \in {"gather", "done"} \/ Gathered(c)
  BY DEF IInv, SpawnControl, Actors
<1> QED
  BY <1>2, <1>3, Moves, ClientsAreTasks

-----------------------------------------------------------------------------
(* Every action preserves the invariant.                                     *)

\* What is known of a client that has received a request.
LEMMA Received ==
  ASSUME IInv, NEW c \in Clients, pc[c] # "idle"
  PROVE  /\ req[c] \in Requests /\ Serves(req[c].op, pc[c])
         /\ c \in Tasks /\ DbTypeOK /\ CacheTypeOK
         /\ req[c].op \in {"register", "patch", "delete", "discover", "probe"} =>
              req[c].name \in Names /\ Row(c) \in {NoRow} \cup Rows
<1>1. c \in Tasks /\ TaskControl(c)
  BY ClientsAreTasks DEF IInv
<1>2. req[c] \in Requests /\ Serves(req[c].op, pc[c])
  BY <1>1 DEF TaskControl, ClientControl
<1>3. req[c].op \in {"register", "patch", "delete", "discover", "probe"} => req[c].name \in Names
  BY <1>2, RequestParts
<1> QED
  BY <1>1, <1>2, <1>3, TypeOKParts DEF IInv, Row, Subject, DbTypeOK, Tables

LEMMA ReceiveLookupInv ==
  ASSUME IInv, NEW c \in Clients, NEW r \in Requests, ReceiveLookup(c, r)
  PROVE  IInv'
<1>1. c \in Tasks /\ DbTypeOK /\ CacheTypeOK /\ r.name \in Names /\ pc[c] = "idle"
  BY ClientsAreTasks, TypeOKParts, RequestParts DEF IInv, ReceiveLookup, At
<1>2. DbTypeOK' /\ OthersKept(c) /\ phase'[c] = "queued"
  BY <1>1, SelectIsStatement, SubmitType, SubmitEffect DEF ReceiveLookup
<1>3. CacheTypeOK'
  BY <1>1 DEF ReceiveLookup, CacheTypeOK, listVars
<1>4. pc'[c] = "check" /\ req'[c] = r
  BY <1>1 DEF ReceiveLookup, Goto, IInv, TypeOK
<1>5. TaskControl(c)'
  <2>1. Serves(r.op, "check")
    BY DEF ReceiveLookup, Serves, DiscoveryLocations, ProbeLocations
  <2> QED
    BY <1>4, <2>1, ClientsAreTasks
       DEF TaskControl, ClientControl, AwaitControl, Querying
<1>6. Gathered(c)
  BY <1>1 DEF IInv, SpawnControl, Actors
<1>7. "check" \in Locations /\ Goto(c, "check") /\ attempt' = attempt
      /\ \A d \in Clients \ {c} : req'[d] = req[d]
  BY <1>1 DEF Locations, ReceiveLookup, CacheTypeOK
<1> QED
  BY <1>1, <1>2, <1>3, <1>5, <1>6, <1>7, Moves, ClientsAreTasks DEF LockStep, ReceiveLookup

\* A client takes its result and answers.
LEMMA ReturnAndAnswer ==
  ASSUME IInv, NEW c \in Clients, pc[c] \notin {"idle", "done"},
         Return(c), NEW code \in {200, 201, 404, 409, 500}, Answer(c, code),
         UNCHANGED <<req, toolCache, cacheLock, listVars, attempt>>,
         filterCache' \in [Names -> {Miss} \cup (Filters \X Filters)]
  PROVE  IInv'
<1>1. /\ req[c] \in Requests /\ Serves(req[c].op, pc[c])
      /\ c \in Tasks /\ DbTypeOK /\ CacheTypeOK
  BY Received
<1>2. DbTypeOK' /\ OthersKept(c) /\ phase'[c] = "idle"
  BY <1>1, ReturnType, ReturnEffect
<1>3. CacheTypeOK'
  BY <1>1 DEF CacheTypeOK, Answer, listVars
<1>4. Goto(c, "done") /\ "done" \in Locations /\ pc'[c] = "done"
  BY <1>1 DEF Answer, Locations, Goto, IInv, TypeOK
<1>5. Serves(req[c].op, "done")
  BY <1>1 DEF Serves, DiscoveryLocations, ProbeLocations
<1>6. AwaitControl(c)'
  BY <1>2, <1>4 DEF AwaitControl
<1> QED
  BY <1>1, <1>2, <1>3, <1>4, <1>5, <1>6, ClientMoves DEF LockStep

\* A client takes its result and queries again.
LEMMA ChainAndGoto ==
  ASSUME IInv, NEW c \in Clients, pc[c] \notin {"idle", "gather", "done"},
         NEW s \in Statements, Chain(c, s), NEW l \in Querying \ {"list_query"}, Goto(c, l),
         l \in Locations, Serves(req[c].op, l),
         UNCHANGED <<req, response, filterCache, toolCache, cacheLock, listVars, attempt>>
  PROVE  IInv'
<1>1. req[c] \in Requests /\ c \in Tasks /\ DbTypeOK /\ CacheTypeOK
  BY Received
<1>2. DbTypeOK' /\ OthersKept(c)
  BY <1>1, ChainType, ChainEffect
<1>3. CacheTypeOK'
  BY <1>1 DEF CacheTypeOK, listVars
<1>4. pc'[c] = l
  BY <1>1 DEF Goto, IInv, TypeOK
<1>6. AwaitControl(c)'
  BY <1>4 DEF AwaitControl, Querying
<1> QED
  BY <1>1, <1>2, <1>3, <1>6, ClientMoves DEF LockStep

LEMMA RegisterCheckInv ==
  ASSUME IInv, NEW c \in Clients, RegisterCheck(c)
  PROVE  IInv'
<1>1. pc[c] = "check" /\ req[c].op = "register" /\ req' = req
  BY DEF RegisterCheck, At
<1>2. req[c] \in Requests /\ CacheTypeOK /\ req[c].name \in Names
  BY <1>1, Received
<1>3. CASE Return(c) /\ Answer(c, 409)
  BY <1>1, <1>2, <1>3, ReturnAndAnswer DEF RegisterCheck, CacheTypeOK
<1>4. CASE /\ Chain(c, Insert(req[c].name, CreatedColumns(req[c].columns)))
           /\ Goto(c, "insert") /\ UNCHANGED response
  <2>1. Insert(req[c].name, CreatedColumns(req[c].columns)) \in Statements
    BY <1>1, <1>2, RequestParts, CreatedType, InsertIsStatement
  <2>2. "insert" \in Querying \ {"list_query"} /\ "insert" \in Locations
        /\ Serves(req[c].op, "insert")
    BY <1>1 DEF Querying, Locations, Serves, DiscoveryLocations, ProbeLocations
  <2> QED
    BY <1>1, <1>4, <2>1, <2>2, ChainAndGoto DEF RegisterCheck
<1> QED
  BY <1>3, <1>4 DEF RegisterCheck

LEMMA RegisterInsertInv ==
  ASSUME IInv, NEW c \in Clients, RegisterInsert(c)
  PROVE  IInv'
<1>1. pc[c] = "insert"
  BY DEF RegisterInsert, At
<1>2. req[c] \in Requests /\ CacheTypeOK /\ req[c].op = "register" /\ req[c].name \in Names
  BY <1>1, Received DEF Serves
<1>3. "reread" \in Querying \ {"list_query"} /\ "reread" \in Locations
      /\ Serves(req[c].op, "reread")
  BY <1>2 DEF Querying, Locations, Serves, DiscoveryLocations, ProbeLocations
<1> QED
  BY <1>1, <1>2, <1>3, SelectIsStatement, ChainAndGoto DEF RegisterInsert

\* A client takes its result, answers, and spawns a discovery.
LEMMA ReturnAndSpawn ==
  ASSUME IInv, NEW c \in Clients, pc[c] \notin {"idle", "gather", "done"},
         Return(c), NEW code \in {200, 201, 500}, NEW n \in Names,
         AnswerAndSpawn(c, code, n), Invalidate(n),
         UNCHANGED <<req, toolCache, cacheLock, listVars, attempt>>
  PROVE  IInv'
<1> DEFINE d == <<c, n>>
<1>1. /\ req[c] \in Requests /\ Serves(req[c].op, pc[c])
      /\ c \in Tasks /\ DbTypeOK /\ CacheTypeOK
  BY Received
<1>2. d \in Tasks /\ d \in Discoveries /\ d # c /\ d \notin Actors /\ c \in Actors
  BY ClientsAreTasks, TasksAssumption DEF Actors
<1>3. DbTypeOK' /\ OthersKept(c) /\ phase'[c] = "idle"
  BY <1>1, ReturnType, ReturnEffect
<1>4. CacheTypeOK'
  BY <1>1 DEF CacheTypeOK, AnswerAndSpawn, Invalidate, listVars
<1>5. pc \in [Tasks -> Locations]
  BY DEF IInv, TypeOK
<1>6. /\ pc' \in [Tasks -> Locations] /\ pc'[c] = "done" /\ pc'[d] = "spawned"
      /\ \A u \in Tasks \ {c, d} : pc'[u] = pc[u]
  BY <1>1, <1>2, <1>5 DEF AnswerAndSpawn, Locations
<1>7. pc[d] \in {"idle", "done"} /\ phase[d] = "idle"
  <2>1. pc[d] \in {"idle", "done"}
    BY <1>2 DEF IInv, SpawnControl, Gathered
  <2> QED
    BY <2>1, <1>2 DEF IInv, TaskControl, AwaitControl, Querying
<1>8. ASSUME NEW u \in Tasks PROVE TaskControl(u)'
  <2>1. CASE u = c
    <3>1. Serves(req[c].op, "done")
      BY <1>1 DEF Serves, DiscoveryLocations, ProbeLocations
    <3> QED
      BY <2>1, <3>1, <1>1, <1>3, <1>6, ClientsAreTasks
         DEF TaskControl, ClientControl, AwaitControl
  <2>2. CASE u = d
    <3>1. phase'[d] = "idle"
      BY <1>2, <1>3, <1>7 DEF OthersKept
    <3> QED
      BY <2>2, <3>1, <1>2, <1>6, ClientsAreTasks DEF TaskControl, AwaitControl
  <2>3. CASE u \notin {c, d}
    BY <2>3, <1>1, <1>3, <1>6, OthersControlled
  <2> QED
    BY <2>1, <2>2, <2>3
<1>9. SpawnControl'
  <2> SUFFICES ASSUME NEW a \in Actors, pc'[a] \notin {"gather", "done"}, NEW m \in Names
               PROVE  pc'[<<a, m>>] \in {"idle", "done"}
    BY DEF SpawnControl, Gathered
  <2>1. a # c /\ a # d /\ a \in Tasks
    BY <1>2, <1>6, TasksAssumption
  <2>2. <<a, m>> \in Tasks /\ <<a, m>> # c /\ <<a, m>> # d
    BY <2>1, <1>2, ClientsAreTasks, TasksAssumption
  <2> QED
    BY <2>1, <2>2, <1>6 DEF IInv, SpawnControl, Gathered
<1>10. ListerHoldsLock'
  BY <1>1, <1>2, <1>6, ClientsAreTasks DEF IInv, ListerHoldsLock, At, LockMine
<1> QED
  BY <1>3, <1>4, <1>6, <1>8, <1>9, <1>10, TypeOKParts DEF IInv, TypeOK, CacheTypeOK

LEMMA RegisterDoneInv ==
  ASSUME IInv, NEW c \in Clients, RegisterDone(c)
  PROVE  IInv'
<1>1. pc[c] = "reread"
  BY DEF RegisterDone, At
<1>2. req[c].name \in Names
  BY <1>1, Received DEF Serves
<1> QED
  BY <1>1, <1>2, ReturnAndSpawn DEF RegisterDone

LEMMA PatchCheckInv ==
  ASSUME IInv, NEW c \in Clients, PatchCheck(c)
  PROVE  IInv'
<1>1. pc[c] = "check" /\ req[c].op = "patch"
  BY DEF PatchCheck, At
<1>2. req[c] \in Requests /\ CacheTypeOK /\ req[c].name \in Names
  BY <1>1, Received
<1>3. CASE Return(c) /\ Answer(c, 404)
  BY <1>1, <1>2, <1>3, ReturnAndAnswer DEF PatchCheck, CacheTypeOK
<1>4. CASE Chain(c, Select(req[c].name)) /\ Goto(c, "updated") /\ UNCHANGED response
  <2>1. "updated" \in Querying \ {"list_query"} /\ "updated" \in Locations
        /\ Serves(req[c].op, "updated")
    BY <1>1 DEF Querying, Locations, Serves, DiscoveryLocations, ProbeLocations
  <2> QED
    BY <1>1, <1>2, <1>4, <2>1, SelectIsStatement, ChainAndGoto DEF PatchCheck
<1>5. CASE /\ Chain(c, Update(req[c].name, ChangeOf(req[c])))
           /\ Goto(c, "update") /\ UNCHANGED response
  <2>1. "update" \in Querying \ {"list_query"} /\ "update" \in Locations
        /\ Serves(req[c].op, "update")
    BY <1>1 DEF Querying, Locations, Serves, DiscoveryLocations, ProbeLocations
  <2>2. Update(req[c].name, ChangeOf(req[c])) \in Statements
    BY <1>1, <1>2, RequestParts, UpdateIsStatement
  <2> QED
    BY <1>1, <1>5, <2>1, <2>2, ChainAndGoto DEF PatchCheck
<1> QED
  BY <1>3, <1>4, <1>5 DEF PatchCheck

LEMMA PatchRereadInv ==
  ASSUME IInv, NEW c \in Clients, PatchReread(c)
  PROVE  IInv'
<1>1. pc[c] = "update"
  BY DEF PatchReread, At
<1>2. req[c].op = "patch" /\ req[c].name \in Names
  BY <1>1, Received DEF Serves
<1>3. "updated" \in Querying \ {"list_query"} /\ "updated" \in Locations
      /\ Serves(req[c].op, "updated")
  BY <1>2 DEF Querying, Locations, Serves, DiscoveryLocations, ProbeLocations
<1> QED
  BY <1>1, <1>2, <1>3, SelectIsStatement, ChainAndGoto DEF PatchReread

LEMMA PatchDoneInv ==
  ASSUME IInv, NEW c \in Clients, PatchDone(c)
  PROVE  IInv'
<1>1. pc[c] = "updated"
  BY DEF PatchDone, At
<1>2. req[c].name \in Names /\ CacheTypeOK
  BY <1>1, Received DEF Serves
<1>3. CASE Answer(c, 404) /\ UNCHANGED filterCache
  BY <1>1, <1>2, <1>3, ReturnAndAnswer DEF PatchDone, CacheTypeOK
<1>4. CASE Invalidate(req[c].name) /\ AnswerAndSpawn(c, 200, req[c].name)
  BY <1>1, <1>2, <1>4, ReturnAndSpawn DEF PatchDone
<1>5. CASE Invalidate(req[c].name) /\ Answer(c, 200)
  <2>1. filterCache' \in [Names -> {Miss} \cup (Filters \X Filters)]
    BY <1>2, <1>5 DEF Invalidate, CacheTypeOK
  <2> QED
    BY <1>1, <2>1, <1>5, ReturnAndAnswer DEF PatchDone
<1> QED
  BY <1>3, <1>4, <1>5 DEF PatchDone

\* The lock stays a sequence of tasks.
LEMMA LockType ==
  ASSUME cacheLock \in Seq(Tasks), NEW t \in Tasks
  PROVE  /\ Append(cacheLock, t) \in Seq(Tasks)
         /\ <<t>> \in Seq(Tasks)
         /\ LockMine(t) => Tail(cacheLock) \in Seq(Tasks)
BY DEF LockMine

\* A client that is not in a query answers, whatever it did to the caches.
LEMMA AnswerMoves ==
  ASSUME IInv, NEW c \in Clients, pc[c] # "idle", NEW code, Answer(c, code), LockStep(c),
         DbTypeOK', OthersKept(c), phase'[c] = "idle", CacheTypeOK',
         req' = req, attempt' = attempt
  PROVE  IInv'
<1>1. req[c] \in Requests /\ Serves(req[c].op, pc[c]) /\ c \in Tasks
  BY Received
<1>2. Goto(c, "done") /\ "done" \in Locations /\ pc'[c] = "done"
  BY <1>1 DEF Answer, Locations, Goto, IInv, TypeOK
<1>3. Serves(req[c].op, "done")
  BY <1>1 DEF Serves, DiscoveryLocations, ProbeLocations
<1>4. AwaitControl(c)'
  BY <1>2 DEF AwaitControl
<1> QED
  BY <1>1, <1>2, <1>3, <1>4, ClientMoves

LEMMA DeleteCheckInv ==
  ASSUME IInv, NEW c \in Clients, DeleteCheck(c)
  PROVE  IInv'
<1>1. pc[c] = "check" /\ req[c].op = "delete"
  BY DEF DeleteCheck, At
<1>2. req[c] \in Requests /\ CacheTypeOK /\ req[c].name \in Names
  BY <1>1, Received
<1>3. CASE Return(c) /\ Answer(c, 404)
  BY <1>1, <1>2, <1>3, ReturnAndAnswer DEF DeleteCheck, CacheTypeOK
<1>4. CASE Chain(c, Delete(req[c].name)) /\ Goto(c, "remove") /\ UNCHANGED response
  <2>1. "remove" \in Querying \ {"list_query"} /\ "remove" \in Locations
        /\ Serves(req[c].op, "remove")
    BY <1>1 DEF Querying, Locations, Serves, DiscoveryLocations, ProbeLocations
  <2> QED
    BY <1>1, <1>2, <1>4, <2>1, SelectIsStatement, ChainAndGoto DEF DeleteCheck
<1> QED
  BY <1>3, <1>4 DEF DeleteCheck

LEMMA PopType ==
  ASSUME CacheTypeOK, NEW c \in Clients, PopAndForget(c), req' = req,
         cacheLock' \in Seq(Tasks), UNCHANGED <<listVars, attempt>>
  PROVE  CacheTypeOK'
BY DEF CacheTypeOK, PopAndForget, Invalidate, Answer, listVars

LEMMA DeleteRowInv ==
  ASSUME IInv, NEW c \in Clients, DeleteRow(c)
  PROVE  IInv'
<1>1. pc[c] = "remove"
  BY DEF DeleteRow, At
<1>2. /\ req[c] \in Requests /\ req[c].op = "delete" /\ c \in Tasks
      /\ DbTypeOK /\ CacheTypeOK
  BY <1>1, Received DEF Serves
<1>3. DbTypeOK' /\ OthersKept(c) /\ phase'[c] = "idle"
  BY <1>2, ReturnType, ReturnEffect DEF DeleteRow
<1>4. req' = req /\ attempt' = attempt /\ UNCHANGED <<listVars, attempt>>
  BY DEF DeleteRow
<1>5. CASE PopAndForget(c) /\ UNCHANGED cacheLock
  <2>1. CacheTypeOK'
    BY <1>2, <1>4, <1>5, PopType DEF CacheTypeOK
  <2> QED
    BY <1>1, <1>3, <1>4, <1>5, <2>1, AnswerMoves DEF PopAndForget, LockStep
<1>6. CASE WaitLock(c, "pop_lock") /\ UNCHANGED <<response, filterCache, toolCache>>
  <2>1. CacheTypeOK'
    BY <1>2, <1>4, <1>6, LockType DEF CacheTypeOK, WaitLock, listVars
  <2>2. Goto(c, "pop_lock") /\ "pop_lock" \in Locations /\ pc'[c] = "pop_lock"
    BY <1>2, <1>6 DEF WaitLock, Goto, Locations, IInv, TypeOK
  <2>3. Serves(req[c].op, "pop_lock")
    BY <1>2 DEF Serves, DiscoveryLocations, ProbeLocations
  <2>4. AwaitControl(c)'
    BY <1>3, <2>2 DEF AwaitControl
  <2> QED
    BY <1>1, <1>2, <1>3, <1>4, <1>6, <2>1, <2>2, <2>3, <2>4, ClientMoves
       DEF LockStep, WaitLock, LockFree
<1> QED
  BY <1>5, <1>6 DEF DeleteRow

\* A task that waits for the lock has no statement pending.
LEMMA NotQuerying ==
  ASSUME IInv, NEW t \in Tasks, pc[t] \notin Querying
  PROVE  phase[t] = "idle"
BY DEF IInv, TaskControl, AwaitControl

LEMMA DeletePopInv ==
  ASSUME IInv, NEW c \in Clients, DeletePop(c)
  PROVE  IInv'
<1>1. pc[c] = "pop_lock"
  BY DEF DeletePop, At
<1>2. c \in Tasks /\ DbTypeOK /\ CacheTypeOK
  BY <1>1, Received
<1>3. DbTypeOK' /\ OthersKept(c) /\ phase'[c] = "idle"
  BY <1>1, <1>2, UnchangedDbType, UnchangedDbEffect, NotQuerying
     DEF DeletePop, Querying, dbVars
<1>4. CacheTypeOK'
  BY <1>2, LockType, PopType DEF DeletePop, Unlock, CacheTypeOK
<1> QED
  BY <1>1, <1>3, <1>4, AnswerMoves DEF DeletePop, PopAndForget, LockStep, Unlock

\* Whatever servers a listing has gone over, it has collected tools of servers.
LEMMA CollectedType ==
  ASSUME CacheTypeOK, NEW S \in SUBSET Names, NEW found \in SUBSET (Names \X Tools),
         NEW filters
  PROVE  found \cup Collected(S, filters) \in SUBSET (Names \X Tools)
<1>1. \A n \in S : Visible(n, filters[n]) \in SUBSET (Names \X Tools)
  BY VisibleType DEF CacheTypeOK
<1> QED
  BY <1>1 DEF Collected

LEMMA WalkEndsType ==
  ASSUME CacheTypeOK, NEW c \in Clients, NEW left \in SUBSET Names,
         NEW found \in SUBSET (Names \X Tools), NEW filters,
         WalkEnds(c, left, found, filters),
         req' \in [Clients -> {NoReq} \cup Requests],
         filterCache' \in [Names -> {Miss} \cup (Filters \X Filters)],
         cacheLock' \in Seq(Tasks), UNCHANGED <<toolCache, attempt>>
  PROVE  CacheTypeOK'
<1>1. found \cup Collected(left, filters) \in SUBSET (Names \X Tools)
  BY CollectedType
<1>2. shown' \in [Clients -> SUBSET (Names \X Tools)]
  BY <1>1 DEF WalkEnds, CacheTypeOK
<1> QED
  BY <1>2 DEF WalkEnds, Answer, CacheTypeOK

LEMMA WalkStopsType ==
  ASSUME CacheTypeOK, NEW c \in Clients, NEW m, NEW left \in SUBSET Names,
         NEW found \in SUBSET (Names \X Tools), NEW filters,
         WalkStops(c, m, left, found, filters),
         req' \in [Clients -> {NoReq} \cup Requests],
         filterCache' \in [Names -> {Miss} \cup (Filters \X Filters)],
         cacheLock' \in Seq(Tasks), UNCHANGED <<toolCache, attempt>>
  PROVE  CacheTypeOK'
<1>1. PICK S \in SUBSET {n \in left : filters[n] # Miss} :
        /\ shown' = [shown EXCEPT ![c] = found \cup Collected(S, filters)]
        /\ todo' = [todo EXCEPT ![c] = left \ S]
  BY DEF WalkStops
<1>2. found \cup Collected(S, filters) \in SUBSET (Names \X Tools)
  BY CollectedType
<1> QED
  BY <1>1, <1>2 DEF WalkStops, CacheTypeOK

\* A client begins or goes on with a listing: it is suspended in a query.
LEMMA QueryMoves ==
  ASSUME IInv, NEW c \in Clients, pc[c] \notin {"gather", "done"},
         LockStep(c), LockMine(c)', Goto(c, "list_query"), DbTypeOK',
         OthersKept(c), NEW m, stmt'[c] = Select(m),
         CacheTypeOK', req'[c] \in Requests, req'[c].op = "list",
         \A d \in Clients \ {c} : req'[d] = req[d], attempt' = attempt
  PROVE  IInv'
<1>1. pc'[c] = "list_query" /\ "list_query" \in Locations /\ c \in Tasks
  BY ClientsAreTasks DEF IInv, TypeOK, Goto, Locations
<1>2. TaskControl(c)'
  BY <1>1, ClientsAreTasks
     DEF TaskControl, ClientControl, AwaitControl, Serves, DiscoveryLocations, ProbeLocations,
         Querying, Select
<1>3. Gathered(c)
  BY DEF IInv, SpawnControl, Actors
<1> QED
  BY <1>1, <1>2, <1>3, Moves, ClientsAreTasks

\* A client finishes a listing.
LEMMA ListEndMoves ==
  ASSUME IInv, NEW c \in Clients, pc[c] \notin {"gather", "done"},
         LockStep(c), Goto(c, "done"), DbTypeOK', OthersKept(c), phase'[c] = "idle",
         CacheTypeOK', req'[c] \in Requests, req'[c].op = "list",
         \A d \in Clients \ {c} : req'[d] = req[d], attempt' = attempt
  PROVE  IInv'
<1>1. pc'[c] = "done" /\ "done" \in Locations /\ c \in Tasks
  BY ClientsAreTasks DEF IInv, TypeOK, Goto, Locations
<1>2. TaskControl(c)'
  BY <1>1, ClientsAreTasks
     DEF TaskControl, ClientControl, AwaitControl, Serves, DiscoveryLocations, ProbeLocations
<1> QED
  BY <1>1, <1>2, Moves, ClientsAreTasks

LEMMA ReceiveListInv ==
  ASSUME IInv, NEW c \in Clients, NEW r \in Requests, ReceiveList(c, r)
  PROVE  IInv'
<1>1. /\ pc[c] = "idle" /\ c \in Tasks /\ DbTypeOK /\ CacheTypeOK
      /\ r.op = "list" /\ r.name \in {AnyServer} \cup Names
  BY ClientsAreTasks, TypeOKParts, RequestParts DEF IInv, ReceiveList, At
<1>2. /\ req'[c] = r /\ \A d \in Clients \ {c} : req'[d] = req[d]
      /\ req' \in [Clients -> {NoReq} \cup Requests]
      /\ filterCache' = filterCache /\ toolCache' = toolCache /\ attempt' = attempt
  BY <1>1 DEF ReceiveList, CacheTypeOK
<1>3. Listed(r) \in SUBSET Names /\ {} \in SUBSET (Names \X Tools)
  BY <1>1, ListedType
<1>4. phase[c] = "idle"
  BY <1>1, NotQuerying DEF Querying
<1>5. CASE WalkEnds(c, Listed(r), {}, filterCache) /\ UNCHANGED <<dbVars, cacheLock>>
  <2>1. CacheTypeOK'
    BY <1>1, <1>2, <1>3, <1>5, WalkEndsType DEF CacheTypeOK
  <2>2. DbTypeOK' /\ OthersKept(c) /\ phase'[c] = "idle"
    BY <1>1, <1>4, <1>5, UnchangedDbType, UnchangedDbEffect DEF dbVars
  <2> QED
    BY <1>1, <1>2, <1>5, <2>1, <2>2, ListEndMoves
       DEF WalkEnds, Answer, LockStep, Unlock
<1>6. ASSUME NEW m \in Names, WalkStops(c, m, Listed(r), {}, filterCache), LockFree,
             Submit(c, Select(m)), cacheLock' = <<c>>
      PROVE  IInv'
  <2>1. CacheTypeOK'
    BY <1>1, <1>2, <1>3, <1>6, LockType, WalkStopsType DEF CacheTypeOK
  <2>2. DbTypeOK' /\ OthersKept(c) /\ stmt'[c] = Select(m)
    BY <1>1, <1>6, SelectIsStatement, SubmitType, SubmitEffect
  <2>3. cacheLock = <<>> /\ LockMine(c)'
    BY <1>6 DEF LockMine, LockFree
  <2> QED
    BY <1>1, <1>2, <1>6, <2>1, <2>2, <2>3, QueryMoves DEF WalkStops, LockStep
<1>7. CASE WaitLock(c, "list_lock") /\ UNCHANGED <<dbVars, response, listVars>>
  <2>1. CacheTypeOK'
    BY <1>1, <1>2, <1>7, LockType DEF CacheTypeOK, WaitLock, listVars
  <2>2. DbTypeOK' /\ OthersKept(c) /\ phase'[c] = "idle"
    BY <1>1, <1>4, <1>7, UnchangedDbType, UnchangedDbEffect DEF dbVars
  <2>3. Goto(c, "list_lock") /\ "list_lock" \in Locations /\ pc'[c] = "list_lock"
    BY <1>1, <1>7 DEF WaitLock, Goto, Locations, IInv, TypeOK
  <2>4. TaskControl(c)'
    BY <1>1, <1>2, <2>2, <2>3, ClientsAreTasks
       DEF TaskControl, ClientControl, AwaitControl, Serves, DiscoveryLocations, ProbeLocations
  <2>5. Gathered(c)
    BY <1>1 DEF IInv, SpawnControl, Actors
  <2> QED
    BY <1>1, <1>2, <1>7, <2>1, <2>2, <2>3, <2>4, <2>5, Moves, ClientsAreTasks
       DEF LockStep, WaitLock, LockFree
<1> QED
  BY <1>5, <1>6, <1>7 DEF ReceiveList

LEMMA ListLockedInv ==
  ASSUME IInv, NEW c \in Clients, ListLocked(c)
  PROVE  IInv'
<1>1. pc[c] = "list_lock" /\ LockMine(c) /\ UNCHANGED <<req, filterCache, toolCache, attempt>>
  BY DEF ListLocked, At
<1>2. /\ req[c] \in Requests /\ req[c].op = "list" /\ c \in Tasks
      /\ DbTypeOK /\ CacheTypeOK
  BY <1>1, Received DEF Serves
<1>3. Listed(req[c]) \in SUBSET Names /\ {} \in SUBSET (Names \X Tools)
  BY <1>2, RequestParts, ListedType
<1>4. phase[c] = "idle"
  BY <1>1, <1>2, NotQuerying DEF Querying
<1>5. CASE WalkEnds(c, Listed(req[c]), {}, filterCache) /\ Unlock /\ UNCHANGED dbVars
  <2>1. CacheTypeOK'
    BY <1>1, <1>2, <1>3, <1>5, LockType, WalkEndsType DEF CacheTypeOK, Unlock
  <2>2. DbTypeOK' /\ OthersKept(c) /\ phase'[c] = "idle"
    BY <1>2, <1>4, <1>5, UnchangedDbType, UnchangedDbEffect DEF dbVars
  <2> QED
    BY <1>1, <1>2, <1>5, <2>1, <2>2, ListEndMoves
       DEF WalkEnds, Answer, LockStep, Unlock
<1>6. ASSUME NEW m \in Names, WalkStops(c, m, Listed(req[c]), {}, filterCache),
             Submit(c, Select(m)), UNCHANGED cacheLock
      PROVE  IInv'
  <2>1. CacheTypeOK'
    BY <1>1, <1>2, <1>3, <1>6, WalkStopsType DEF CacheTypeOK
  <2>2. DbTypeOK' /\ OthersKept(c) /\ stmt'[c] = Select(m)
    BY <1>2, <1>6, SelectIsStatement, SubmitType, SubmitEffect
  <2>3. LockMine(c)'
    BY <1>1, <1>6 DEF LockMine
  <2> QED
    BY <1>1, <1>2, <1>6, <2>1, <2>2, <2>3, QueryMoves DEF WalkStops, LockStep
<1> QED
  BY <1>5, <1>6 DEF ListLocked

LEMMA ListFilledInv ==
  ASSUME IInv, NEW c \in Clients, ListFilled(c)
  PROVE  IInv'
<1> DEFINE n == stmt[c].name
           row == reply[c][n]
           left == todo[c] \ {n}
           found == shown[c] \cup Visible(n, PairOf(row))
<1>1. pc[c] = "list_query" /\ UNCHANGED <<req, toolCache, attempt>>
      /\ filterCache' = Filled(n, row)
  BY DEF ListFilled, At
<1>2. /\ req[c] \in Requests /\ req[c].op = "list" /\ c \in Tasks
      /\ DbTypeOK /\ CacheTypeOK
  BY <1>1, Received DEF Serves
<1>3. n \in Names
  <2>1. stmt[c].op = "select" /\ stmt[c] \in Statements
    BY <1>1, <1>2 DEF IInv, TaskControl, AwaitControl, DbTypeOK
  <2> QED
    BY <2>1, StatementParts
<1>4. row \in {NoRow} \cup Rows
  BY <1>2, <1>3 DEF DbTypeOK, Tables
<1>5. filterCache' \in [Names -> {Miss} \cup (Filters \X Filters)]
  BY <1>1, <1>2, <1>3, <1>4, PairType DEF Filled, CacheTypeOK
<1>6. left \in SUBSET Names /\ found \in SUBSET (Names \X Tools)
  BY <1>2, <1>3, VisibleType DEF CacheTypeOK
<1> HIDE DEF n, row, left, found
<1>7. LockMine(c) /\ Tail(cacheLock) \in Seq(Tasks)
  BY <1>1, <1>2, LockType DEF CacheTypeOK, IInv, ListerHoldsLock, At
<1>8. CASE Return(c) /\ WalkEnds(c, left, found, Filled(n, row)) /\ Unlock
  <2>2. CacheTypeOK'
    BY <1>1, <1>2, <1>5, <1>6, <1>7, <1>8, WalkEndsType DEF CacheTypeOK, Unlock
  <2>3. DbTypeOK' /\ OthersKept(c) /\ phase'[c] = "idle"
    BY <1>2, <1>8, ReturnType, ReturnEffect
  <2> QED
    BY <1>1, <1>2, <1>7, <1>8, <2>2, <2>3, ListEndMoves
       DEF WalkEnds, Answer, LockStep, Unlock
<1>9. ASSUME NEW m \in Names, WalkStops(c, m, left, found, Filled(n, row)),
             Chain(c, Select(m)), UNCHANGED cacheLock
      PROVE  IInv'
  <2>1. CacheTypeOK'
    BY <1>1, <1>2, <1>5, <1>6, <1>9, WalkStopsType DEF CacheTypeOK
  <2>2. DbTypeOK' /\ OthersKept(c) /\ stmt'[c] = Select(m)
    BY <1>2, <1>9, SelectIsStatement, ChainType, ChainEffect
  <2>3. LockMine(c)'
    BY <1>7, <1>9 DEF LockMine
  <2> QED
    BY <1>1, <1>2, <1>7, <1>9, <2>1, <2>2, <2>3, QueryMoves DEF WalkStops, LockStep
<1> QED
  BY <1>8, <1>9 DEF ListFilled, n, row, left, found

LEMMA ReceiveRefreshInv ==
  ASSUME IInv, NEW c \in Clients, NEW r \in Requests, ReceiveRefresh(c, r)
  PROVE  IInv'
<1>1. c \in Tasks /\ DbTypeOK /\ CacheTypeOK /\ pc[c] = "idle"
      /\ r.op \in {"refresh", "canary"}
  BY ClientsAreTasks, TypeOKParts DEF IInv, ReceiveRefresh, At
<1>2. DbTypeOK' /\ OthersKept(c) /\ phase'[c] = "queued"
  BY <1>1, ListIsStatement, SubmitType, SubmitEffect DEF ReceiveRefresh
<1>3. CacheTypeOK'
  BY <1>1 DEF ReceiveRefresh, CacheTypeOK, listVars
<1>4. /\ pc'[c] = "enabled" /\ req'[c] = r /\ Goto(c, "enabled") /\ "enabled" \in Locations
      /\ attempt' = attempt /\ \A d \in Clients \ {c} : req'[d] = req[d]
  BY <1>1 DEF ReceiveRefresh, Goto, IInv, TypeOK, Locations, CacheTypeOK
<1>5. TaskControl(c)'
  BY <1>1, <1>4, ClientsAreTasks
     DEF TaskControl, ClientControl, AwaitControl, Querying, Serves, DiscoveryLocations,
         ProbeLocations
<1>6. Gathered(c)
  BY <1>1 DEF IInv, SpawnControl, Actors
<1> QED
  BY <1>1, <1>2, <1>3, <1>4, <1>5, <1>6, Moves, ClientsAreTasks
     DEF LockStep, ReceiveRefresh

LEMMA StartupRefreshInv ==
  ASSUME IInv, StartupRefresh
  PROVE  IInv'
<1>1. Boot \in Tasks /\ DbTypeOK /\ CacheTypeOK /\ pc[Boot] \in {"idle", "sleep"}
  BY ClientsAreTasks, TypeOKParts DEF IInv, StartupRefresh
<1>2. attempt < MaxRetries
  BY <1>1 DEF IInv, TaskControl, BootControl
<1>3. DbTypeOK' /\ OthersKept(Boot) /\ phase'[Boot] = "queued"
  BY <1>1, ListIsStatement, SubmitType, SubmitEffect DEF StartupRefresh
<1>4. CacheTypeOK'
  BY <1>1, <1>2, CatalogAssumption DEF StartupRefresh, NextAttempt, CacheTypeOK, listVars
<1>5. pc'[Boot] = "enabled" /\ Goto(Boot, "enabled") /\ "enabled" \in Locations
  BY <1>1 DEF StartupRefresh, Goto, IInv, TypeOK, Locations
<1>6. TaskControl(Boot)'
  BY <1>5, ClientsAreTasks DEF TaskControl, BootControl, AwaitControl, Querying
<1>7. Gathered(Boot)
  BY <1>1 DEF IInv, SpawnControl, Actors
<1> QED
  BY <1>1, <1>3, <1>4, <1>5, <1>6, <1>7, Moves, ClientsAreTasks
     DEF LockStep, StartupRefresh

\* Where an actor can be while it refreshes.
LEMMA Refreshing ==
  ASSUME IInv, NEW a \in Actors, pc[a] \in {"enabled", "gather", "total_lock", "answer_lock"}
  PROVE  /\ a \in Tasks /\ DbTypeOK /\ CacheTypeOK
         /\ a \in Clients => req[a] \in Requests /\ req[a].op \in {"refresh", "canary"}
BY ClientsAreTasks, TypeOKParts
   DEF IInv, Actors, TaskControl, ClientControl, Serves

LEMMA GatherInv ==
  ASSUME IInv, NEW a \in Actors, Gather(a)
  PROVE  IInv'
<1>1. pc[a] = "enabled"
  BY DEF Gather, At
<1>2. /\ a \in Tasks /\ DbTypeOK /\ CacheTypeOK
      /\ a \in Clients => req[a] \in Requests /\ req[a].op \in {"refresh", "canary"}
  BY <1>1, Refreshing
<1>3. DbTypeOK' /\ OthersKept(a) /\ phase'[a] = "idle"
  BY <1>2, ReturnType, ReturnEffect DEF Gather
<1>4. CacheTypeOK' /\ req' = req /\ attempt' = attempt /\ cacheLock' = cacheLock
  BY <1>2 DEF Gather, CacheTypeOK, listVars
<1>5. /\ pc' \in [Tasks -> Locations] /\ pc'[a] = "gather"
      /\ \A u \in Tasks \ {a} :
           \/ pc'[u] = pc[u]
           \/ pc'[u] = Begun(a) /\ \E n \in Names : u = <<a, n>>
  BY <1>2 DEF Gather, Begun, IInv, TypeOK, Locations
<1>6. Gathered(a)
  BY <1>1 DEF IInv, SpawnControl
<1>7. ASSUME NEW u \in Tasks PROVE TaskControl(u)'
  <2>1. CASE u = a
    BY <2>1, <1>2, <1>3, <1>4, <1>5, ClientsAreTasks, TasksAssumption
       DEF TaskControl, ClientControl, BootControl, AwaitControl, Serves,
           DiscoveryLocations, ProbeLocations, Actors
  <2>2. CASE u # a /\ pc'[u] = pc[u]
    BY <2>2, <1>2, <1>3, <1>4, OthersControlled
  <2>3. ASSUME u # a, pc'[u] = Begun(a), NEW n \in Names, u = <<a, n>>
        PROVE  TaskControl(u)'
    <3>1. pc[u] \in {"idle", "done"}
      BY <2>3, <1>6 DEF Gathered
    <3>2. phase[u] = "idle"
      BY <3>1, NotQuerying DEF Querying
    <3>3. phase'[u] = "idle"
      BY <2>3, <3>2, <1>3 DEF OthersKept
    <3> QED
      BY <2>3, <3>3, ClientsAreTasks
         DEF Begun, TaskControl, AwaitControl, Querying, ProbeLocations
  <2> QED
    BY <2>1, <2>2, <2>3, <1>5
<1>8. SpawnControl'
  <2> SUFFICES ASSUME NEW b \in Actors, pc'[b] \notin {"gather", "done"}, NEW m \in Names
               PROVE  pc'[<<b, m>>] \in {"idle", "done"}
    BY DEF SpawnControl, Gathered
  <2>1. b # a /\ b \in Tasks /\ <<b, m>> \in Tasks /\ b \notin Discoveries
    BY <1>5, ClientsAreTasks, TasksAssumption
  <2>2. pc'[b] = pc[b]
    BY <2>1, <1>2, <1>5, ClientsAreTasks
  <2>3. pc'[<<b, m>>] = pc[<<b, m>>]
    <3>1. <<b, m>> # a /\ \A n \in Names : <<b, m>> # <<a, n>>
      BY <2>1, ClientsAreTasks, TasksAssumption
    <3> QED
      BY <2>1, <3>1, <1>5
  <2> QED
    BY <2>2, <2>3 DEF IInv, SpawnControl, Gathered
<1>9. ListerHoldsLock'
  BY <1>1, <1>4, <1>5, ClientsAreTasks DEF IInv, ListerHoldsLock, At, LockMine
<1> QED
  BY <1>3, <1>4, <1>5, <1>7, <1>8, <1>9, TypeOKParts DEF IInv, TypeOK, CacheTypeOK

LEMMA CountTotalInv ==
  ASSUME IInv, NEW a \in Actors, CountTotal(a)
  PROVE  IInv'
<1> DEFINE waits == {"total_lock", "answer_lock"}
<1>1. pc[a] \in {"gather"} \cup waits /\ Gathered(a)
  <2>1. pc[a] \in waits => Gathered(a)
    BY DEF IInv, SpawnControl
  <2> QED
    BY <2>1 DEF CountTotal, At
<1>2. /\ a \in Tasks /\ DbTypeOK /\ CacheTypeOK
      /\ a \in Clients => req[a] \in Requests /\ req[a].op = "refresh"
  BY <1>1, Refreshing, RequestParts DEF CountTotal, Canary
<1>3. DbTypeOK' /\ OthersKept(a) /\ phase'[a] = "idle"
  BY <1>1, <1>2, UnchangedDbType, UnchangedDbEffect, NotQuerying
     DEF CountTotal, Querying, dbVars
<1>4. UNCHANGED <<req, filterCache, toolCache, listVars, attempt>>
  BY DEF CountTotal
<1>5. ASSUME AfterTotal(a), LockStep(a), cacheLock' \in Seq(Tasks)
      PROVE  IInv'
  <2>1. PICK l \in {"done", "sleep"} :
          /\ Goto(a, l)
          /\ l = "sleep" => a \notin Clients /\ attempt < MaxRetries
    BY <1>5 DEF AfterTotal, Answer
  <2>2. CacheTypeOK'
    <3>1. response' \in [Clients -> {0, 200, 201, 404, 409, 500}]
      BY <1>2, <1>5 DEF AfterTotal, Answer, CacheTypeOK
    <3> QED
      BY <1>2, <1>4, <1>5, <3>1 DEF CacheTypeOK, listVars
  <2>3. pc'[a] = l /\ l \in Locations
    BY <1>2, <2>1 DEF Goto, IInv, TypeOK, Locations
  <2>4. TaskControl(a)'
    BY <1>2, <1>3, <1>4, <2>1, <2>3, ClientsAreTasks, TasksAssumption
       DEF TaskControl, ClientControl, BootControl, AwaitControl, Serves,
           DiscoveryLocations, ProbeLocations, Actors
  <2> QED
    BY <1>1, <1>2, <1>3, <1>4, <1>5, <2>1, <2>2, <2>3, <2>4, Moves, TasksAssumption
<1>6. ASSUME NEW l \in waits, Goto(a, l), l = "answer_lock" => a # Boot,
             UNCHANGED response, LockStep(a), cacheLock' \in Seq(Tasks)
      PROVE  IInv'
  <2>1. l \in Locations
    BY DEF Locations
  <2>2. CacheTypeOK'
    BY <1>2, <1>4, <1>6 DEF CacheTypeOK, listVars
  <2>3. pc'[a] = l
    BY <1>2, <1>6 DEF Goto, IInv, TypeOK
  <2>4. TaskControl(a)'
    BY <1>2, <1>3, <1>4, <1>6, <2>3, ClientsAreTasks, TasksAssumption
       DEF TaskControl, ClientControl, BootControl, AwaitControl, Serves,
           DiscoveryLocations, ProbeLocations, Actors
  <2> QED
    BY <1>1, <1>2, <1>3, <1>4, <1>6, <2>1, <2>2, <2>4, Moves, TasksAssumption
<1>7. CASE At(a, "gather")
  <2>1. CASE AfterTotal(a) /\ UNCHANGED cacheLock
    BY <1>2, <1>5, <2>1 DEF CacheTypeOK, LockStep
  <2>2. CASE WaitLock(a, "total_lock") /\ UNCHANGED response
    <3>1. LockStep(a) /\ cacheLock' \in Seq(Tasks)
      BY <1>2, <2>2, LockType DEF CacheTypeOK, LockStep, WaitLock, LockFree
    <3> QED
      BY <1>6, <2>2, <3>1 DEF WaitLock
  <2> QED
    BY <1>7, <2>1, <2>2 DEF CountTotal, At
<1>8. CASE LockMine(a) /\ Unlock /\ AfterTotal(a)
  <2>1. LockStep(a) /\ cacheLock' \in Seq(Tasks)
    BY <1>2, <1>8, LockType DEF CacheTypeOK, LockStep, Unlock
  <2> QED
    BY <1>5, <1>8, <2>1
<1>9. CASE /\ LockMine(a) /\ a # Boot /\ cacheLock' = Append(Tail(cacheLock), a)
           /\ Goto(a, "answer_lock") /\ UNCHANGED response
  <2>1. LockStep(a) /\ cacheLock' \in Seq(Tasks)
    BY <1>2, <1>9, LockType DEF CacheTypeOK, LockStep, LockMine
  <2> QED
    BY <1>6, <1>9, <2>1
<1> QED
  BY <1>7, <1>8, <1>9 DEF CountTotal

LEMMA CanaryEndsInv ==
  ASSUME IInv, NEW a \in Actors, CanaryEnds(a)
  PROVE  IInv'
<1>1. a \in Clients /\ pc[a] = "gather"
  BY DEF CanaryEnds, Canary, At
<1>2. a \in Tasks /\ DbTypeOK /\ CacheTypeOK /\ req[a] \in Requests
      /\ req[a].op \in {"refresh", "canary"} /\ phase[a] = "idle"
  BY <1>1, Refreshing, NotQuerying DEF Querying
<1>3. DbTypeOK' /\ OthersKept(a) /\ phase'[a] = "idle"
  BY <1>2, UnchangedDbType, UnchangedDbEffect DEF CanaryEnds, dbVars
<1>4. CacheTypeOK'
  BY <1>2 DEF CanaryEnds, Answer, CacheTypeOK, listVars
<1>5. Goto(a, "done") /\ "done" \in Locations /\ pc'[a] = "done"
  BY <1>2 DEF CanaryEnds, Answer, Locations, Goto, IInv, TypeOK
<1>6. Serves(req[a].op, "done") /\ AwaitControl(a)'
  BY <1>2, <1>3, <1>5 DEF Serves, DiscoveryLocations, ProbeLocations, AwaitControl
<1> QED
  BY <1>1, <1>2, <1>3, <1>4, <1>5, <1>6, ClientMoves DEF CanaryEnds, LockStep

\* What is known of a task inside discover_server_tools or probe_server.
LEMMA Discovering ==
  ASSUME IInv, NEW t \in Tasks,
         pc[t] \in DiscoveryLocations \cup ProbeLocations \cup {"spawned"}
  PROVE  /\ DbTypeOK /\ CacheTypeOK /\ t # Boot
         /\ t \in Clients =>
              /\ req[t] \in Requests
              /\ req[t].op = IF pc[t] \in ProbeLocations THEN "probe" ELSE "discover"
         /\ t \in Actors => pc[t] # "spawned" /\ Gathered(t)
         /\ t \in Clients \/ t \in Discoveries
         /\ Subject(t) \in Names /\ Row(t) \in {NoRow} \cup Rows
         /\ pc[t] \in {"fetch", "store_lock"} => Row(t) # NoRow
<1>1. DbTypeOK /\ CacheTypeOK /\ TaskControl(t)
  BY TypeOKParts DEF IInv
<1>2. t # Boot
  BY <1>1 DEF TaskControl, BootControl, DiscoveryLocations, ProbeLocations
<1>3. t \in Clients =>
        /\ req[t] \in Requests /\ pc[t] # "spawned"
        /\ req[t].op = IF pc[t] \in ProbeLocations THEN "probe" ELSE "discover"
  BY <1>1 DEF TaskControl, ClientControl, Serves, DiscoveryLocations, ProbeLocations
<1>4. t \in Clients \/ t \in Discoveries
  BY <1>2, TasksAssumption DEF Actors
<1>5. Subject(t) \in Names
  BY <1>3, <1>4, RequestParts, ClientsAreTasks DEF Subject
<1>6. t \in Actors => pc[t] # "spawned" /\ Gathered(t)
  BY <1>2, <1>3 DEF Actors, IInv, SpawnControl, DiscoveryLocations, ProbeLocations
<1> QED
  BY <1>1, <1>2, <1>3, <1>4, <1>5, <1>6
     DEF Row, DbTypeOK, Tables, TaskControl, AwaitControl

LEMMA DiscoveryMoves ==
  ASSUME IInv, NEW t \in Tasks, pc[t] \in DiscoveryLocations \cup {"spawned"},
         NEW l \in DiscoveryLocations \cup {"done"}, Goto(t, l), LockStep(t),
         OthersKept(t), DbTypeOK', CacheTypeOK', AwaitControl(t)',
         req' = req, attempt' = attempt
  PROVE  IInv'
<1>1. /\ t # Boot
      /\ t \in Clients \/ t \in Discoveries
      /\ t \in Clients => req[t] \in Requests /\ req[t].op = "discover"
      /\ t \in Actors => Gathered(t)
  BY Discovering DEF DiscoveryLocations, ProbeLocations
<1>2. l \in Locations /\ pc'[t] = l /\ l # "list_query" /\ pc[t] \notin {"idle", "done"}
  BY DEF Locations, DiscoveryLocations, Goto, IInv, TypeOK
<1>3. TaskControl(t)'
  BY <1>1, <1>2, ClientsAreTasks
     DEF TaskControl, ClientControl, Serves, DiscoveryLocations, ProbeLocations
<1> QED
  BY <1>1, <1>2, <1>3, Moves

LEMMA DiscoverCheckInv ==
  ASSUME IInv, NEW c \in Clients, DiscoverCheck(c)
  PROVE  IInv'
<1>1. pc[c] = "check" /\ req[c].op = "discover"
  BY DEF DiscoverCheck, At
<1>2. req[c] \in Requests /\ CacheTypeOK /\ req[c].name \in Names
  BY <1>1, Received
<1>3. CASE Return(c) /\ Answer(c, 404)
  BY <1>1, <1>2, <1>3, ReturnAndAnswer DEF DiscoverCheck, CacheTypeOK
<1>4. CASE Chain(c, Select(req[c].name)) /\ Goto(c, "lookup") /\ UNCHANGED response
  <2>1. "lookup" \in Querying \ {"list_query"} /\ "lookup" \in Locations
        /\ Serves(req[c].op, "lookup")
    BY <1>1 DEF Querying, Locations, Serves, DiscoveryLocations, ProbeLocations
  <2> QED
    BY <1>1, <1>2, <1>4, <2>1, SelectIsStatement, ChainAndGoto DEF DiscoverCheck
<1> QED
  BY <1>3, <1>4 DEF DiscoverCheck

LEMMA DiscoveryStartInv ==
  ASSUME IInv, NEW t \in Tasks, DiscoveryStart(t)
  PROVE  IInv'
<1>1. pc[t] = "spawned" /\ Goto(t, "lookup") /\ pc'[t] = "lookup"
  BY DEF DiscoveryStart, At, Goto, IInv, TypeOK
<1>2. DbTypeOK /\ CacheTypeOK /\ Subject(t) \in Names
  BY <1>1, Discovering
<1>3. DbTypeOK' /\ OthersKept(t)
  BY <1>2, SelectIsStatement, SubmitType, SubmitEffect DEF DiscoveryStart
<1>4. CacheTypeOK' /\ LockStep(t) /\ req' = req /\ attempt' = attempt
  BY <1>2 DEF DiscoveryStart, CacheTypeOK, LockStep, listVars
<1>5. AwaitControl(t)'
  BY <1>1 DEF AwaitControl, Querying
<1> QED
  BY <1>1, <1>3, <1>4, <1>5, DiscoveryMoves DEF DiscoveryLocations

\* The end of a discovery changes pc, and the response of the client it ran for.
LEMMA EndEffect ==
  ASSUME IInv, NEW t \in Tasks, EndDiscovery(t)
  PROVE  /\ Goto(t, "done") /\ pc'[t] = "done"
         /\ response' \in [Clients -> {0, 200, 201, 404, 409, 500}]
BY DEF IInv, TypeOK, EndDiscovery, Answer, Goto

LEMMA DiscoveryLookupInv ==
  ASSUME IInv, NEW t \in Tasks, DiscoveryLookup(t)
  PROVE  IInv'
<1>1. pc[t] = "lookup"
  BY DEF DiscoveryLookup, At
<1>2. DbTypeOK /\ CacheTypeOK
  BY <1>1, Discovering DEF DiscoveryLocations
<1>3. LockStep(t) /\ req' = req /\ attempt' = attempt
  BY DEF DiscoveryLookup, LockStep
<1>4. CASE Discoverable(Row(t)) /\ Take(t) /\ Goto(t, "fetch") /\ UNCHANGED response
  <2>1. DbTypeOK' /\ OthersKept(t) /\ phase'[t] = "idle" /\ reply'[t] = reply[t]
    BY <1>2, <1>4, TakeType, TakeEffect
  <2>2. CacheTypeOK'
    BY <1>2, <1>4 DEF DiscoveryLookup, CacheTypeOK, listVars
  <2>3. pc'[t] = "fetch"
    BY <1>4 DEF Goto, IInv, TypeOK
  <2>4. Row(t)' = Row(t)
    BY <1>3, <2>1 DEF Row, Subject
  <2>5. AwaitControl(t)'
    BY <1>4, <2>1, <2>3, <2>4 DEF AwaitControl, Discoverable
  <2> QED
    BY <1>1, <1>3, <1>4, <2>1, <2>2, <2>5, DiscoveryMoves DEF DiscoveryLocations
<1>5. CASE Return(t) /\ EndDiscovery(t)
  <2>1. DbTypeOK' /\ OthersKept(t) /\ phase'[t] = "idle"
    BY <1>2, <1>5, ReturnType, ReturnEffect
  <2>2. CacheTypeOK'
    BY <1>2, <1>5, EndEffect DEF DiscoveryLookup, CacheTypeOK, listVars
  <2>3. AwaitControl(t)' /\ Goto(t, "done")
    BY <1>5, <2>1, EndEffect DEF AwaitControl
  <2> QED
    BY <1>1, <1>3, <2>1, <2>2, <2>3, DiscoveryMoves DEF DiscoveryLocations
<1> QED
  BY <1>4, <1>5 DEF DiscoveryLookup

LEMMA SetStatusEffect ==
  ASSUME IInv, NEW t \in Tasks, pc[t] \in DiscoveryLocations \cup ProbeLocations,
         NEW s \in Statuses, SetStatus(t, s)
  PROVE  DbTypeOK' /\ OthersKept(t)
<1>1. DbTypeOK /\ Subject(t) \in Names
  BY Discovering
<1>2. Update(Subject(t), [NoChange EXCEPT !.status = s]) \in Statements
  BY <1>1, StatusChangeType, UpdateIsStatement
<1> QED
  BY <1>1, <1>2, SubmitType, SubmitEffect DEF SetStatus, StatusUpdate

LEMMA StoreMoves ==
  ASSUME IInv, NEW t \in Tasks, pc[t] \in {"fetch", "store_lock"}, StoreTools(t),
         LockStep(t), cacheLock' \in Seq(Tasks),
         UNCHANGED <<req, response, filterCache, listVars, attempt>>
  PROVE  IInv'
<1>1. /\ pc[t] \in DiscoveryLocations /\ CacheTypeOK /\ Subject(t) \in Names
      /\ Row(t) \in Rows
  BY Discovering DEF DiscoveryLocations
<1>2. DbTypeOK' /\ OthersKept(t)
  BY <1>1, SetStatusEffect DEF StoreTools, Statuses
<1>3. Offers[Row(t).url] \in SUBSET Tools
  BY <1>1, CatalogAssumption DEF Rows
<1>4. CacheTypeOK'
  BY <1>1, <1>3 DEF StoreTools, CacheTypeOK, listVars
<1>5. Goto(t, "healthy") /\ AwaitControl(t)'
  BY DEF StoreTools, Goto, IInv, TypeOK, AwaitControl, Querying
<1> QED
  BY <1>1, <1>2, <1>4, <1>5, DiscoveryMoves DEF DiscoveryLocations

\* A discovery that has to wait for the lock keeps its row.
LEMMA WaitMoves ==
  ASSUME IInv, NEW t \in Tasks, pc[t] \in DiscoveryLocations,
         NEW l \in {"store_lock", "drop_lock"}, WaitLock(t, l),
         DbTypeOK', OthersKept(t), phase'[t] = "idle",
         l = "store_lock" => Row(t)' # NoRow,
         UNCHANGED <<req, response, filterCache, toolCache, listVars, attempt>>
  PROVE  IInv'
<1>1. CacheTypeOK
  BY Discovering
<1>2. CacheTypeOK'
  BY <1>1, LockType DEF WaitLock, CacheTypeOK, listVars
<1>3. Goto(t, l) /\ pc'[t] = l /\ LockStep(t)
  BY DEF WaitLock, Goto, LockStep, LockFree, IInv, TypeOK
<1>4. AwaitControl(t)'
  BY <1>3 DEF AwaitControl
<1> QED
  BY <1>2, <1>3, <1>4, DiscoveryMoves DEF DiscoveryLocations

LEMMA FetchSucceedsInv ==
  ASSUME IInv, NEW t \in Tasks, FetchSucceeds(t)
  PROVE  IInv'
<1>1. pc[t] = "fetch"
  BY DEF FetchSucceeds, At
<1>2. DbTypeOK /\ CacheTypeOK /\ phase[t] = "idle" /\ Row(t) # NoRow
  BY <1>1, Discovering, NotQuerying DEF DiscoveryLocations, Querying
<1>3. CASE StoreTools(t) /\ UNCHANGED cacheLock
  BY <1>1, <1>2, <1>3, StoreMoves DEF FetchSucceeds, CacheTypeOK, LockStep
<1>4. CASE WaitLock(t, "store_lock") /\ UNCHANGED <<dbVars, toolCache>>
  <2>1. DbTypeOK' /\ OthersKept(t) /\ phase'[t] = "idle"
    BY <1>2, <1>4, UnchangedDbType, UnchangedDbEffect DEF dbVars
  <2>2. Row(t)' = Row(t)
    BY <1>4 DEF Row, Subject, dbVars, FetchSucceeds
  <2> QED
    BY <1>1, <1>2, <1>4, <2>1, <2>2, WaitMoves DEF FetchSucceeds, DiscoveryLocations
<1> QED
  BY <1>3, <1>4 DEF FetchSucceeds

LEMMA StoreLockedInv ==
  ASSUME IInv, NEW t \in Tasks, StoreLocked(t)
  PROVE  IInv'
<1>1. pc[t] = "store_lock" /\ LockMine(t)
  BY DEF StoreLocked, At
<1>2. CacheTypeOK
  BY <1>1, Discovering DEF DiscoveryLocations
<1>3. LockStep(t) /\ cacheLock' \in Seq(Tasks)
  BY <1>1, <1>2, LockType DEF StoreLocked, Unlock, LockStep, CacheTypeOK
<1> QED
  BY <1>1, <1>3, StoreMoves DEF StoreLocked

LEMMA FetchFailsInv ==
  ASSUME IInv, NEW t \in Tasks, FetchFails(t)
  PROVE  IInv'
<1>1. pc[t] = "fetch"
  BY DEF FetchFails, At
<1>2. CacheTypeOK
  BY <1>1, Discovering DEF DiscoveryLocations
<1>3. DbTypeOK' /\ OthersKept(t)
  BY <1>1, SetStatusEffect DEF FetchFails, DiscoveryLocations, Statuses
<1>4. CacheTypeOK' /\ LockStep(t) /\ req' = req /\ attempt' = attempt
  BY <1>2 DEF FetchFails, CacheTypeOK, LockStep, listVars
<1>5. Goto(t, "unhealthy") /\ AwaitControl(t)'
  BY DEF FetchFails, Goto, IInv, TypeOK, AwaitControl, Querying
<1> QED
  BY <1>1, <1>3, <1>4, <1>5, DiscoveryMoves DEF DiscoveryLocations

LEMMA StatusHealthyInv ==
  ASSUME IInv, NEW t \in Tasks, StatusHealthy(t)
  PROVE  IInv'
<1>1. pc[t] = "healthy"
  BY DEF StatusHealthy, At
<1>2. DbTypeOK /\ CacheTypeOK
  BY <1>1, Discovering DEF DiscoveryLocations
<1>3. DbTypeOK' /\ OthersKept(t) /\ phase'[t] = "idle"
  BY <1>2, ReturnType, ReturnEffect DEF StatusHealthy
<1>4. CacheTypeOK' /\ LockStep(t) /\ req' = req /\ attempt' = attempt
  BY <1>2, EndEffect DEF StatusHealthy, CacheTypeOK, LockStep, listVars
<1>5. Goto(t, "done") /\ AwaitControl(t)'
  BY <1>3, EndEffect DEF StatusHealthy, AwaitControl
<1> QED
  BY <1>1, <1>3, <1>4, <1>5, DiscoveryMoves DEF DiscoveryLocations

LEMMA DropMoves ==
  ASSUME IInv, NEW t \in Tasks, pc[t] \in DiscoveryLocations, DropTools(t),
         LockStep(t), cacheLock' \in Seq(Tasks),
         DbTypeOK', OthersKept(t), phase'[t] = "idle",
         UNCHANGED <<req, filterCache, listVars, attempt>>
  PROVE  IInv'
<1>1. CacheTypeOK
  BY Discovering
<1>2. CacheTypeOK'
  BY <1>1, EndEffect DEF DropTools, CacheTypeOK, listVars
<1>3. Goto(t, "done") /\ AwaitControl(t)'
  BY EndEffect DEF DropTools, AwaitControl
<1> QED
  BY <1>2, <1>3, DiscoveryMoves

LEMMA StatusUnhealthyInv ==
  ASSUME IInv, NEW t \in Tasks, StatusUnhealthy(t)
  PROVE  IInv'
<1>1. pc[t] = "unhealthy"
  BY DEF StatusUnhealthy, At
<1>2. DbTypeOK /\ CacheTypeOK
  BY <1>1, Discovering DEF DiscoveryLocations
<1>3. DbTypeOK' /\ OthersKept(t) /\ phase'[t] = "idle"
  BY <1>2, ReturnType, ReturnEffect DEF StatusUnhealthy
<1>4. CASE DropTools(t) /\ UNCHANGED cacheLock
  BY <1>1, <1>2, <1>3, <1>4, DropMoves
     DEF StatusUnhealthy, CacheTypeOK, LockStep, DiscoveryLocations
<1>5. CASE WaitLock(t, "drop_lock") /\ UNCHANGED <<response, toolCache>>
  BY <1>1, <1>3, <1>5, WaitMoves DEF StatusUnhealthy, DiscoveryLocations
<1> QED
  BY <1>4, <1>5 DEF StatusUnhealthy

LEMMA DropLockedInv ==
  ASSUME IInv, NEW t \in Tasks, DropLocked(t)
  PROVE  IInv'
<1>1. pc[t] = "drop_lock" /\ LockMine(t)
  BY DEF DropLocked, At
<1>2. DbTypeOK /\ CacheTypeOK /\ phase[t] = "idle"
  BY <1>1, Discovering, NotQuerying DEF DiscoveryLocations, Querying
<1>3. DbTypeOK' /\ OthersKept(t) /\ phase'[t] = "idle"
  BY <1>2, UnchangedDbType, UnchangedDbEffect DEF DropLocked, dbVars
<1>4. LockStep(t) /\ cacheLock' \in Seq(Tasks)
  BY <1>1, <1>2, LockType DEF DropLocked, Unlock, LockStep, CacheTypeOK
<1> QED
  BY <1>1, <1>3, <1>4, DropMoves DEF DropLocked, DiscoveryLocations

LEMMA ProbeMoves ==
  ASSUME IInv, NEW t \in Tasks, pc[t] \in ProbeLocations,
         NEW l \in ProbeLocations \cup {"done"}, Goto(t, l), LockStep(t),
         OthersKept(t), DbTypeOK', CacheTypeOK', AwaitControl(t)',
         req' = req, attempt' = attempt
  PROVE  IInv'
<1>1. /\ t # Boot
      /\ t \in Clients \/ t \in Discoveries
      /\ t \in Clients => req[t] \in Requests /\ req[t].op = "probe"
      /\ t \in Actors => Gathered(t)
  BY Discovering
<1>2. l \in Locations /\ pc'[t] = l /\ l # "list_query" /\ pc[t] \notin {"idle", "done"}
  BY DEF Locations, ProbeLocations, Goto, IInv, TypeOK
<1>3. TaskControl(t)'
  BY <1>1, <1>2, ClientsAreTasks
     DEF TaskControl, ClientControl, Serves, DiscoveryLocations, ProbeLocations
<1> QED
  BY <1>1, <1>2, <1>3, Moves

LEMMA ProbeCheckInv ==
  ASSUME IInv, NEW c \in Clients, ProbeCheck(c)
  PROVE  IInv'
<1>1. pc[c] = "check" /\ req[c].op = "probe"
  BY DEF ProbeCheck, At
<1>2. req[c] \in Requests /\ c \in Tasks /\ DbTypeOK /\ CacheTypeOK
  BY <1>1, Received
<1>3. CASE Answer(c, 404)
  BY <1>1, <1>2, <1>3, ReturnAndAnswer DEF ProbeCheck, CacheTypeOK
<1>4. CASE Goto(c, "probing") /\ UNCHANGED response
  <2>1. DbTypeOK' /\ OthersKept(c) /\ phase'[c] = "idle"
    BY <1>2, ReturnType, ReturnEffect DEF ProbeCheck
  <2>2. CacheTypeOK' /\ LockStep(c)
    BY <1>2, <1>4 DEF ProbeCheck, CacheTypeOK, LockStep, listVars
  <2>3. "probing" \in Locations \ {"list_query"} /\ pc'[c] = "probing"
        /\ Serves(req[c].op, "probing")
    BY <1>1, <1>2, <1>4
       DEF Locations, Serves, DiscoveryLocations, ProbeLocations, Goto, IInv, TypeOK
  <2>4. AwaitControl(c)'
    BY <2>1, <2>3 DEF AwaitControl
  <2> QED
    BY <1>1, <1>2, <1>4, <2>1, <2>2, <2>3, <2>4, ClientMoves DEF ProbeCheck
<1> QED
  BY <1>3, <1>4 DEF ProbeCheck

LEMMA ProbeAnsweredInv ==
  ASSUME IInv, NEW t \in Tasks, ProbeSucceeds(t) \/ ProbeFails(t)
  PROVE  IInv'
<1>1. pc[t] = "probing"
  BY DEF ProbeSucceeds, ProbeFails, At
<1>2. CacheTypeOK
  BY <1>1, Discovering DEF ProbeLocations
<1>3. DbTypeOK' /\ OthersKept(t)
  BY <1>1, SetStatusEffect DEF ProbeSucceeds, ProbeFails, ProbeLocations, Statuses
<1>4. CacheTypeOK' /\ LockStep(t) /\ req' = req /\ attempt' = attempt
  BY <1>2 DEF ProbeSucceeds, ProbeFails, CacheTypeOK, LockStep, listVars
<1>5. AwaitControl(t)' /\ \E l \in {"up", "down"} : Goto(t, l)
  BY DEF ProbeSucceeds, ProbeFails, Goto, IInv, TypeOK, AwaitControl, Querying
<1> QED
  BY <1>1, <1>3, <1>4, <1>5, ProbeMoves DEF ProbeLocations

LEMMA ProbeExpiresInv ==
  ASSUME IInv, NEW t \in Tasks, ProbeExpires(t)
  PROVE  IInv'
<1>1. pc[t] = "probing"
  BY DEF ProbeExpires, At
<1>2. DbTypeOK /\ CacheTypeOK /\ phase[t] = "idle"
  BY <1>1, Discovering, NotQuerying DEF ProbeLocations, Querying
<1>3. DbTypeOK' /\ OthersKept(t) /\ phase'[t] = "idle"
  BY <1>2, UnchangedDbType, UnchangedDbEffect DEF ProbeExpires, dbVars
<1>4. CacheTypeOK' /\ LockStep(t) /\ req' = req /\ attempt' = attempt
  BY <1>2 DEF ProbeExpires, CacheTypeOK, LockStep, listVars
<1>5. Goto(t, "done") /\ AwaitControl(t)'
  BY <1>3 DEF ProbeExpires, Goto, IInv, TypeOK, AwaitControl
<1> QED
  BY <1>1, <1>3, <1>4, <1>5, ProbeMoves DEF ProbeLocations

LEMMA ProbeEndsInv ==
  ASSUME IInv, NEW t \in Tasks, ProbeEnds(t)
  PROVE  IInv'
<1>1. pc[t] \in {"up", "down"}
  BY DEF ProbeEnds
<1>2. DbTypeOK /\ CacheTypeOK
  BY <1>1, Discovering DEF ProbeLocations
<1>3. DbTypeOK' /\ OthersKept(t) /\ phase'[t] = "idle"
  BY <1>2, ReturnType, ReturnEffect DEF ProbeEnds
<1>4. CacheTypeOK' /\ LockStep(t) /\ req' = req /\ attempt' = attempt
  BY <1>2, EndEffect DEF ProbeEnds, CacheTypeOK, LockStep, listVars
<1>5. Goto(t, "done") /\ AwaitControl(t)'
  BY <1>3, EndEffect DEF ProbeEnds, AwaitControl
<1> QED
  BY <1>1, <1>3, <1>4, <1>5, ProbeMoves DEF ProbeLocations

\* A task whose query raises was querying; a listing gives its lock back.
LEMMA QueryFailsInv ==
  ASSUME IInv, NEW t \in Tasks, QueryFails(t)
  PROVE  IInv'
<1>1. pc[t] \in Querying /\ DbTypeOK /\ CacheTypeOK
  <2>1. phase[t] # "idle"
    BY DEF QueryFails, Raise, HasError
  <2> QED
    BY <2>1, NotQuerying, TypeOKParts DEF IInv
<1>2. DbTypeOK' /\ OthersKept(t) /\ phase'[t] = "idle"
  BY <1>1, RaiseType, RaiseEffect DEF QueryFails
<1>3. /\ Goto(t, "done") /\ "done" \in Locations /\ pc'[t] = "done"
      /\ response' \in [Clients -> {0, 200, 201, 404, 409, 500}]
  <2>1. GiveUp(t)
    BY DEF QueryFails
  <2>2. Goto(t, "done") /\ pc'[t] = "done"
    BY <2>1 DEF GiveUp, Answer, Goto, IInv, TypeOK
  <2>3. response' \in [Clients -> {0, 200, 201, 404, 409, 500}]
    BY <2>1, <1>1 DEF GiveUp, Answer, CacheTypeOK
  <2> QED
    BY <2>2, <2>3 DEF Locations
<1>4. LockStep(t) /\ cacheLock' \in Seq(Tasks)
  <2>1. CASE At(t, "list_query")
    <3>1. t \in Clients
      <4>1. TaskControl(t)
        BY DEF IInv
      <4> QED
        BY <2>1, <4>1, TasksAssumption
           DEF TaskControl, BootControl, DiscoveryLocations, ProbeLocations, At, Actors
    <3>2. LockMine(t)
      BY <2>1, <3>1 DEF IInv, ListerHoldsLock
    <3>3. cacheLock' = Tail(cacheLock)
      BY <2>1 DEF QueryFails, ReleaseLock, Unlock
    <3> QED
      BY <1>1, <3>2, <3>3, LockType DEF LockStep, CacheTypeOK
  <2>2. CASE ~At(t, "list_query")
    BY <1>1, <2>2 DEF QueryFails, ReleaseLock, LockStep, CacheTypeOK
  <2> QED
    BY <2>1, <2>2
<1>5. CacheTypeOK' /\ req' = req /\ attempt' = attempt
  BY <1>1, <1>3, <1>4 DEF QueryFails, CacheTypeOK, listVars
<1>6. TaskControl(t)'
  <2>1. t \in Clients => req[t] \in Requests /\ Serves(req[t].op, "done")
    BY <1>1, Received DEF Querying, Serves, DiscoveryLocations, ProbeLocations
  <2> QED
    BY <2>1, <1>2, <1>3, <1>5
       DEF TaskControl, ClientControl, BootControl, AwaitControl
<1> QED
  BY <1>2, <1>3, <1>4, <1>5, <1>6, Moves

LEMMA StatusHealthyFailsInv ==
  ASSUME IInv, NEW t \in Tasks, StatusHealthyFails(t)
  PROVE  IInv'
<1>1. pc[t] \in {"healthy", "up"}
  BY DEF StatusHealthyFails
<1>2. DbTypeOK /\ CacheTypeOK /\ Subject(t) \in Names
  BY <1>1, Discovering DEF DiscoveryLocations, ProbeLocations
<1>3. StatusUpdate(t, "unhealthy") \in Statements
  BY <1>2, StatusChangeType, UpdateIsStatement DEF StatusUpdate, Statuses
<1>4. DbTypeOK' /\ OthersKept(t)
  BY <1>2, <1>3, RecoverType, RecoverEffect DEF StatusHealthyFails
<1>5. CacheTypeOK' /\ LockStep(t) /\ req' = req /\ attempt' = attempt
  BY <1>2 DEF StatusHealthyFails, CacheTypeOK, LockStep, listVars
<1>6. AwaitControl(t)'
  BY <1>1 DEF StatusHealthyFails, Goto, IInv, TypeOK, AwaitControl, Querying
<1>7. CASE pc[t] = "healthy"
  BY <1>4, <1>5, <1>6, <1>7, DiscoveryMoves DEF StatusHealthyFails, At, DiscoveryLocations
<1>8. CASE pc[t] = "up"
  BY <1>4, <1>5, <1>6, <1>8, ProbeMoves DEF StatusHealthyFails, At, ProbeLocations
<1> QED
  BY <1>1, <1>7, <1>8

\* The engine touches only the statement of one task that queries.
LEMMA EngineStepInv ==
  ASSUME IInv, NEW t \in Tasks, EngineStep(t)
  PROVE  IInv'
<1>1. DbTypeOK' /\ OthersKept(t) /\ stmt' = stmt /\ phase[t] # "idle"
  BY EngineType, EngineEffect, TypeOKParts DEF EngineStep, IInv
<1>2. UNCHANGED catVars
  BY DEF EngineStep
<1>3. TypeOK'
  BY <1>1, <1>2 DEF IInv, TypeOK, catVars
<1>4. pc[t] \in Querying
  BY <1>1, NotQuerying
<1>5. ASSUME NEW u \in Tasks PROVE TaskControl(u)'
  <2>1. CASE u # t
    BY <2>1, <1>1, <1>2, OthersControlled DEF catVars
  <2>2. CASE u = t
    <3>1. TaskControl(t)
      BY DEF IInv
    <3>2. AwaitControl(t)'
      BY <3>1, <1>1, <1>2, <1>4 DEF TaskControl, AwaitControl, catVars, Querying
    <3> QED
      BY <2>2, <3>1, <3>2, <1>2
         DEF TaskControl, ClientControl, BootControl, catVars
  <2> QED
    BY <2>1, <2>2
<1>6. SpawnControl' /\ ListerHoldsLock'
  BY <1>2 DEF IInv, SpawnControl, Gathered, ListerHoldsLock, At, LockMine, catVars
<1> QED
  BY <1>3, <1>5, <1>6 DEF IInv

LEMMA StutterInv ==
  ASSUME IInv, UNCHANGED vars
  PROVE  IInv'
BY DEF IInv, vars, dbVars, catVars, TypeOK, DbTypeOK, TaskControl, ClientControl,
       BootControl, AwaitControl, Row, Subject, SpawnControl, Gathered,
       ListerHoldsLock, At, LockMine

-----------------------------------------------------------------------------
(* The theorems.                                                             *)

LEMMA InitIInv == ASSUME Init PROVE IInv
<1>1. TypeOK
  BY DbInitType, CatalogAssumption DEF Init, TypeOK, Locations
<1>2. ASSUME NEW t \in Tasks PROVE TaskControl(t)
  BY CatalogAssumption, ClientsAreTasks
     DEF Init, DbInit, TaskControl, ClientControl, BootControl, AwaitControl
<1>3. SpawnControl /\ ListerHoldsLock
  BY ClientsAreTasks DEF Init, SpawnControl, Gathered, ListerHoldsLock, At
<1> QED
  BY <1>1, <1>2, <1>3 DEF IInv

LEMMA NextIInv == ASSUME IInv, [Next]_vars PROVE IInv'
<1>1. ASSUME NEW t \in Tasks, EngineStep(t) \/ Fetch(t) \/ Discovery(t) \/ Fails(t)
      PROVE  IInv'
  BY <1>1, QueryFailsInv, StatusHealthyFailsInv, EngineStepInv, FetchSucceedsInv,
     FetchFailsInv, DiscoveryStartInv, DiscoveryLookupInv, StoreLockedInv,
     StatusHealthyInv, StatusUnhealthyInv,
     DropLockedInv, ProbeAnsweredInv, ProbeExpiresInv, ProbeEndsInv
     DEF Fetch, Discovery, Fails
<1>2. ASSUME NEW c \in Clients, Receive(c) PROVE IInv'
  BY <1>2, ReceiveLookupInv, ReceiveListInv, ReceiveRefreshInv DEF Receive
<1>3. ASSUME NEW c \in Clients, Handler(c) PROVE IInv'
  BY <1>3, RegisterCheckInv, RegisterInsertInv, RegisterDoneInv, PatchCheckInv,
     PatchRereadInv, PatchDoneInv, DeleteCheckInv, DeleteRowInv, DeletePopInv,
     ListLockedInv, ListFilledInv, DiscoverCheckInv, ProbeCheckInv
     DEF Handler
<1>4. ASSUME NEW a \in Actors, Refresh(a) PROVE IInv'
  BY <1>4, GatherInv, CountTotalInv, CanaryEndsInv DEF Refresh
<1> QED
  BY <1>1, <1>2, <1>3, <1>4, StartupRefreshInv, StutterInv DEF Next

\* The inductive invariant: the program is where its variables say it is.
THEOREM Inductive == Spec => []IInv
<1>1. Init => IInv
  BY InitIInv
<1>2. IInv /\ [Next]_vars => IInv'
  BY NextIInv
<1> QED
  BY <1>1, <1>2, PTL DEF Spec

\* Every variable keeps its type, in every instance and on both backends.
THEOREM TypeCorrect == Spec => []TypeOK
<1>1. IInv => TypeOK
  BY DEF IInv
<1> QED
  BY <1>1, Inductive, PTL

\* A step changes tool_cache only for a task that has the lock, and a listing
\* suspended in its query is not that task.
LEMMA CacheStep ==
  ASSUME IInv, [Next]_vars, NEW c \in Clients, At(c, "list_query")
  PROVE  toolCache' = toolCache
<1>1. LockMine(c) /\ ~LockFree
  BY DEF IInv, ListerHoldsLock, LockMine, LockFree
<1>2. ASSUME NEW t \in Tasks, LockMine(t) PROVE pc[t] = "list_query"
  BY <1>1, <1>2 DEF LockMine, At
<1>3. ASSUME NEW t \in Tasks, EngineStep(t) \/ Fetch(t) \/ Discovery(t) \/ Fails(t)
      PROVE  toolCache' = toolCache
  BY <1>1, <1>2, <1>3
     DEF EngineStep, catVars, Fails, QueryFails, StatusHealthyFails, Fetch,
         FetchSucceeds, FetchFails, ProbeSucceeds, ProbeFails, Discovery, At,
         DiscoveryStart, DiscoveryLookup, StoreLocked, StatusHealthy,
         StatusUnhealthy, DropLocked, ProbeExpires, ProbeEnds
<1>4. ASSUME NEW d \in Clients, Receive(d) \/ Handler(d)
      PROVE  toolCache' = toolCache
  <2>1. d \in Tasks
    BY ClientsAreTasks
  <2>2. CASE Receive(d)
    BY <2>2 DEF Receive, ReceiveLookup, ReceiveList, ReceiveRefresh
  <2>3. CASE Handler(d)
    BY <1>1, <1>2, <2>1, <2>3
       DEF Handler, RegisterCheck, RegisterInsert, RegisterDone, PatchCheck,
           PatchReread, PatchDone, DeleteCheck, DeleteRow, DeletePop, ListLocked,
           ListFilled, DiscoverCheck, ProbeCheck, At
  <2> QED
    BY <1>4, <2>2, <2>3
<1>5. ASSUME NEW a \in Actors, Refresh(a) PROVE toolCache' = toolCache
  BY <1>5 DEF Refresh, Gather, CountTotal, CanaryEnds
<1>6. ASSUME StartupRefresh \/ UNCHANGED vars PROVE toolCache' = toolCache
  BY <1>6 DEF StartupRefresh, vars, catVars
<1> QED
  BY <1>3, <1>4, <1>5, <1>6 DEF Next

\* A listing never has tool_cache changed under its iterator: cache_lock is held
\* by every listing that awaits a query, and taken by whoever writes the cache.
THEOREM StableIteration == Spec => IterationStable
<1>1. IInv /\ [Next]_vars =>
        [\A c \in Clients : At(c, "list_query") => UNCHANGED toolCache]_vars
  BY CacheStep
<1> QED
  BY <1>1, Inductive, PTL DEF Spec, IterationStable

\* A statement gives a server that has a row another id only if it had none.
LEMMA EngineKeepsRows ==
  ASSUME DbTypeOK, NEW t \in Tasks, Engine(t), NEW n \in Names,
         rows[n] # NoRow, rows'[n] # NoRow
  PROVE  rows'[n].id = rows[n].id
<1>1. rows \in Tables /\ stmt[t] \in Statements
  BY DEF DbTypeOK
<1>2. CASE ExecuteInsert(t)
  BY <1>1, <1>2 DEF ExecuteInsert, UniqueViolation, Tables
<1>3. CASE ExecuteUpdate(t)
  <2>1. stmt[t].change \in Changes /\ stmt[t].name \in Names
    BY <1>1, <1>3, StatementParts DEF ExecuteUpdate
  <2>2. rows[stmt[t].name] # NoRow =>
          Assigned(rows[stmt[t].name], stmt[t].change).id = rows[stmt[t].name].id
    BY <1>1, <2>1, AssignedType DEF Tables
  <2> QED
    BY <1>1, <1>3, <2>1, <2>2 DEF ExecuteUpdate, UpdateBase, Tables
<1>4. CASE ExecuteDelete(t)
  BY <1>1, <1>4 DEF ExecuteDelete, Tables
<1>5. CASE ExecuteRead(t) \/ ExecuteRefused(t) \/ Continue(t) \/ Complete(t)
  BY <1>5 DEF ExecuteRead, ExecuteRefused, Continue, Complete
<1> QED
  BY <1>2, <1>3, <1>4, <1>5 DEF Engine, Execute

LEMMA RowsStep ==
  ASSUME IInv, [Next]_vars, NEW n \in Names, rows[n] # NoRow, rows'[n] # NoRow
  PROVE  rows'[n].id = rows[n].id
<1>1. ASSUME NEW t \in Tasks, EngineStep(t) PROVE rows'[n].id = rows[n].id
  BY <1>1, EngineKeepsRows DEF EngineStep, IInv, TypeOK
<1> USE DEF Submit, Chain, Issue, Take, Leave, Return, Raise, Recover, dbVars
<1>2. ASSUME NEW t \in Tasks, Fetch(t) \/ Discovery(t) \/ Fails(t)
      PROVE  rows' = rows
  BY <1>2
     DEF Fails, QueryFails, StatusHealthyFails, Fetch, FetchSucceeds, FetchFails,
         ProbeSucceeds, ProbeFails, Discovery, DiscoveryStart, DiscoveryLookup,
         StoreLocked, StoreTools, SetStatus, StatusUpdate, StatusHealthy,
         StatusUnhealthy, DropLocked, ProbeExpires, ProbeEnds
<1>3. ASSUME NEW d \in Clients, Receive(d) PROVE rows' = rows
  BY <1>3 DEF Receive, ReceiveLookup, ReceiveList, ReceiveRefresh
<1>4. ASSUME NEW d \in Clients, Handler(d) PROVE rows' = rows
  BY <1>4
     DEF Handler, RegisterCheck, RegisterInsert, RegisterDone, PatchCheck,
         PatchReread, PatchDone, DeleteCheck, DeleteRow, DeletePop, ListLocked,
         ListFilled, DiscoverCheck, ProbeCheck
<1>5. ASSUME NEW a \in Actors, Refresh(a) PROVE rows' = rows
  BY <1>5 DEF Refresh, Gather, CountTotal, CanaryEnds
<1>6. ASSUME StartupRefresh \/ UNCHANGED vars PROVE rows' = rows
  BY <1>6 DEF StartupRefresh, vars
<1> QED
  BY <1>1, <1>2, <1>3, <1>4, <1>5, <1>6 DEF Next

\* Whatever registrations race for a name, the row that is there stays until it
\* is deleted.
THEOREM RowsKept == Spec => RowKeptUntilDeleted
<1>1. IInv /\ [Next]_vars =>
        [\A n \in Names :
           rows[n] # NoRow /\ rows'[n] # NoRow => rows'[n].id = rows[n].id]_vars
  BY RowsStep
<1> QED
  BY <1>1, Inductive, PTL DEF Spec, RowKeptUntilDeleted
=============================================================================
