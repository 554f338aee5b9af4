------------------------- MODULE RelayRestartProofs -------------------------
(* Theorems about RelayRestart: what holds of the catalogue however often the *)
(* relay crashes, for every number of clients and servers and both backends.  *)
EXTENDS RelayRestart, RelayAgreementProofs, FiniteSetTheorems

-----------------------------------------------------------------------------
(* Types.                                                                    *)

\* The relay that starts again is where Init would have it, but for the clients
\* that were there before and the table.
LEMMA CrashInv ==
  ASSUME IInv, RestartTypeOK, Crash
  PROVE  IInv'
<1>p. pc \in [Tasks -> Locations] /\ DbTypeOK /\ CacheTypeOK
  BY TypeOKParts DEF IInv
<1>1. /\ \A t \in Tasks : pc'[t] = LocationAfter(t)
      /\ pc' \in [Tasks -> Locations]
  BY DEF Crash, LocationAfter, Locations
<1>2. DbTypeOK'
  <2>1. EmptyTable \in Tables
    BY DEF EmptyTable, Tables
  <2> QED
    BY <2>1, <1>p, ListIsStatement DEF Crash, RestartTypeOK, DbTypeOK, Phases
<1>3. CacheTypeOK'
  BY <1>p, CatalogAssumption DEF Crash, CacheTypeOK
<1>4. ASSUME NEW c \in Lost PROVE req[c] \in Requests /\ Serves(req[c].op, "done")
  <2>1. c \in Clients /\ pc[c] # "idle"
    BY DEF Lost, At
  <2> QED
    BY <2>1, Received DEF Serves, DiscoveryLocations, ProbeLocations
<1>5. ASSUME NEW t \in Tasks PROVE TaskControl(t)'
  <2>1. pc'[t] \in {"idle", "done"} /\ phase'[t] = "idle" /\ req' = req /\ attempt' = 0
    BY <1>1 DEF LocationAfter, Crash
  <2>2. t \in Clients => ClientControl(t)'
    BY <2>1, <1>1, <1>4 DEF ClientControl, LocationAfter
  <2>3. t = Boot => BootControl'
    BY <2>1, <1>1, ClientsAreTasks, CatalogAssumption DEF BootControl, LocationAfter
  <2> QED
    BY <2>1, <2>2, <2>3 DEF TaskControl, AwaitControl
<1>6. SpawnControl'
  BY <1>1, ClientsAreTasks DEF SpawnControl, Gathered, LocationAfter, Lost
<1>7. ListerHoldsLock'
  BY <1>1, ClientsAreTasks DEF ListerHoldsLock, At, LocationAfter
<1> QED
  BY <1>1, <1>2, <1>3, <1>5, <1>6, <1>7, TypeOKParts
     DEF IInv, TypeOK, CacheTypeOK

LEMMA RunningInv ==
  ASSUME IInv, RestartTypeOK, Running
  PROVE  IInv' /\ RestartTypeOK'
<1>1. IInv' /\ TypeOK'
  BY NextIInv DEF Running, IInv
<1>2. saved' \in [rows : Tables, nextId : Nat]
  <2>1. rows' \in Tables /\ nextId' \in Nat
    BY <1>1 DEF TypeOK, DbTypeOK
  <2> QED
    BY <2>1 DEF Running, Persist, RestartTypeOK
<1>3. foundUp' \subseteq Names
  <2>1. ASSUME NEW t \in Tasks, FindsUp(t) PROVE Subject(t) \in Names
    BY <2>1, Discovering DEF FindsUp, At, ProbeLocations
  <2> QED
    BY <2>1 DEF Running, Observe, RestartTypeOK
<1>4. missed' \subseteq Names
  BY DEF Running, Observe, RestartTypeOK
<1> QED
  BY <1>1, <1>2, <1>3, <1>4 DEF Running, RestartTypeOK

LEMMA RestartInitInv == ASSUME RestartInit PROVE IInv /\ RestartTypeOK
<1>1. IInv /\ TypeOK
  BY InitIInv DEF RestartInit, IInv
<1> QED
  BY <1>1, CrashAssumption DEF RestartInit, RestartTypeOK, TypeOK, DbTypeOK

LEMMA RestartNextInv ==
  ASSUME IInv, RestartTypeOK, [RestartNext]_restartVars
  PROVE  IInv' /\ RestartTypeOK'
<1>1. CASE Running
  BY <1>1, RunningInv
<1>2. CASE Crash
  <2>1. IInv' /\ TypeOK'
    BY <1>2, CrashInv DEF IInv
  <2>2. earlier' \subseteq Clients
    BY <1>2 DEF Crash, Lost
  <2>3. crashes' \in 0..MaxCrashes /\ saved' = saved /\ foundUp' = {} /\ missed' = {}
    BY <1>2, CrashAssumption DEF Crash, RestartTypeOK
  <2> QED
    BY <2>1, <2>2, <2>3 DEF RestartTypeOK
<1>3. CASE UNCHANGED restartVars
  <2>1. IInv' /\ TypeOK'
    BY <1>3, StutterInv DEF restartVars, IInv
  <2> QED
    BY <1>3, <2>1 DEF restartVars, RestartTypeOK
<1> QED
  BY <1>1, <1>2, <1>3 DEF RestartNext

\* A crash leaves nothing of the old process behind that the new one could not
\* have: every variable keeps its type, and the inductive invariant of the
\* catalogue holds again.
THEOREM RestartTypes == RestartSpec => [](IInv /\ RestartTypeOK)
<1>1. RestartInit => IInv /\ RestartTypeOK
  BY RestartInitInv
<1>2. IInv /\ RestartTypeOK /\ [RestartNext]_restartVars => (IInv /\ RestartTypeOK)'
  BY RestartNextInv
<1> QED
  BY <1>1, <1>2, PTL DEF RestartSpec

-----------------------------------------------------------------------------
(* Durability.                                                               *)

\* A step of the code of task t: the table stays, and what other tasks are about.
CodeStep(t) ==
  /\ rows' = rows /\ OthersKept(t)
  /\ \A u \in Clients \ {t} :
       pc'[u] = pc[u] /\ req'[u] = req[u] /\ response'[u] = response[u]

\* What a step of client c itself may do.
OwnStep(c) ==
  /\ req'[c] # NoReq /\ (req[c] # NoReq => req'[c] = req[c])
  /\ pc'[c] # "idle"
  /\ response'[c] # 0 => pc'[c] = "done"
  /\ pc'[c] = "insert" => stmt'[c].op = "insert"
  /\ pc'[c] = "remove" => stmt'[c].op = "delete"
  /\ \/ stmt'[c] = stmt[c] /\ phase'[c] = phase[c]
     \/ stmt'[c].op \in {"insert", "delete"} =>
          /\ phase'[c] = "queued" /\ stmt'[c].name = req'[c].name
          /\ stmt'[c].op = "insert" => req'[c].op = "register"
          /\ stmt'[c].op = "delete" => req'[c].op = "delete"
  /\ pc'[c] = "reread" => pc[c] = "insert" /\ phase[c] = "finished"
  /\ response'[c] = 201 => pc[c] = "reread"
  /\ pc'[c] = "pop_lock" => pc[c] = "remove" /\ phase[c] = "finished"
  /\ response'[c] = 200 /\ req'[c].op = "delete" =>
       pc[c] = "pop_lock" \/ (pc[c] = "remove" /\ phase[c] = "finished")

\* A step of another task than a client: the engine's work aside, it makes no
\* change to the table.
TaskStep(t) ==
  /\ CodeStep(t)
  /\ t \notin Clients => stmt'[t].op \notin {"insert", "delete"}
  /\ t \in Clients => OwnStep(t)

LEMMA TaskStepKeepsRequests ==
  ASSUME NEW t \in Tasks, TaskStep(t)
  PROVE  RequestsStay
BY DEF TaskStep, CodeStep, OwnStep, RequestsStay

LEMMA PersistKeeps ==
  ASSUME Persist
  PROVE  saved' = saved \/ saved'.rows = rows'
BY DEF Persist

LEMMA TaskStepDurable ==
  ASSUME DurInv, IInv, NEW t \in Tasks, TaskStep(t), Persist
  PROVE  DurInv'
<1>1. RequestsStay /\ (saved' = saved \/ saved'.rows = rows') /\ rows' = rows
  BY TaskStepKeepsRequests, PersistKeeps DEF TaskStep, CodeStep
<1>3. ASSUME NEW c \in Clients \ {t}
      PROVE  (InsertControl(c) /\ DeleteControl(c) /\ ReplyControl(c))'
  <2>1. /\ pc'[c] = pc[c] /\ req'[c] = req[c] /\ response'[c] = response[c]
        /\ stmt'[c] = stmt[c] /\ phase'[c] = phase[c]
    BY ClientsAreTasks DEF TaskStep, CodeStep, OthersKept
  <2>2. InsertControl(c)'
    BY <2>1, <1>1 DEF DurInv, InsertControl, Kept, Asked, RequestsStay
  <2>3. DeleteControl(c)'
    BY <2>1, <1>1 DEF DurInv, DeleteControl, Gone, Asked, RequestsStay
  <2>4. ReplyControl(c)'
    BY <2>1, <1>1 DEF DurInv, ReplyControl, At, Kept, Gone, Asked, RequestsStay
  <2> QED
    BY <2>2, <2>3, <2>4
<1>4. ASSUME t \in Clients
      PROVE  (InsertControl(t) /\ DeleteControl(t) /\ ReplyControl(t))'
  <2>1. OwnStep(t) /\ InsertControl(t) /\ DeleteControl(t) /\ ReplyControl(t)
    BY <1>4 DEF TaskStep, DurInv
  <2>6. pc[t] # "idle" => req[t] # NoReq
    BY <1>4, Received, RequestParts
  <2>2. InsertControl(t)' /\ DeleteControl(t)'
    <3>1. CASE stmt'[t] = stmt[t] /\ phase'[t] = phase[t]
      <4>1. InsertControl(t)'
        BY <2>1, <3>1, <1>1
           DEF OwnStep, InsertControl, Kept, Asked, RequestsStay
      <4>2. DeleteControl(t)'
        BY <2>1, <3>1, <1>1
           DEF OwnStep, DeleteControl, Gone, Asked, RequestsStay
      <4> QED
        BY <4>1, <4>2
    <3>2. CASE ~(stmt'[t] = stmt[t] /\ phase'[t] = phase[t])
      BY <2>1, <3>2 DEF OwnStep, InsertControl, DeleteControl
    <3> QED
      BY <3>1, <3>2
  <2>3. pc[t] \in {"insert", "reread"} /\ (pc[t] = "insert" => phase[t] = "finished")
          => (req[t].op = "register") /\ Kept(req[t].name) /\ req'[t] = req[t]
    BY <2>1, <2>6 DEF OwnStep, InsertControl, ReplyControl, At
  <2>4. pc[t] \in {"remove", "pop_lock"} /\ (pc[t] = "remove" => phase[t] = "finished")
          => Gone(req[t].name) /\ req'[t] = req[t]
    BY <2>1, <2>6 DEF OwnStep, DeleteControl, ReplyControl, At
  <2>5. ReplyControl(t)'
    BY <2>1, <2>3, <2>4, <1>1 DEF OwnStep, ReplyControl, At, Kept, Gone, Asked, RequestsStay
  <2> QED
    BY <2>2, <2>5
<1>5. ASSUME NEW u \in Tasks \ Clients PROVE stmt'[u].op \notin {"insert", "delete"}
  BY <1>5 DEF TaskStep, CodeStep, OthersKept, DurInv
<1> QED
  BY <1>3, <1>4, <1>5 DEF DurInv

-----------------------------------------------------------------------------
(* Every action of the code is such a step.                                  *)

\* What is known of a client that serves a request.
LEMMA Serving ==
  ASSUME IInv, DurInv, NEW c \in Clients, pc[c] \notin {"idle", "done"}
  PROVE  /\ req[c] # NoReq /\ Serves(req[c].op, pc[c]) /\ response[c] = 0
         /\ c \in Tasks /\ c \notin Discoveries
         /\ DbTypeOK /\ pc \in [Tasks -> Locations] /\ req \in [Clients -> {NoReq} \cup Requests]
         /\ response \in [Clients -> {0, 200, 201, 404, 409, 500}]
<1>1. req[c] \in Requests /\ Serves(req[c].op, pc[c])
  BY Received
<1>2. response[c] = 0
  BY DEF DurInv, ReplyControl, At
<1> QED
  BY <1>1, <1>2, RequestParts, ClientsAreTasks DEF IInv, TypeOK

\* A client hands a statement over and goes to where it waits.
LEMMA HandlesOver ==
  ASSUME IInv, DurInv, NEW c \in Clients, pc[c] \notin {"idle", "done"},
         NEW s \in Statements, Chain(c, s) \/ Submit(c, s), NEW l, Goto(c, l),
         UNCHANGED <<req, response>>,
         l \notin {"idle", "pop_lock"},
         l = "insert" => s.op = "insert", l = "remove" => s.op = "delete",
         s.op \in {"insert", "delete"} =>
           /\ s.name = req[c].name
           /\ s.op = "insert" => req[c].op = "register"
           /\ s.op = "delete" => req[c].op = "delete",
         l = "reread" => pc[c] = "insert" /\ HasResult(c)
  PROVE  TaskStep(c)
<1>1. /\ req[c] # NoReq /\ response[c] = 0 /\ c \in Tasks /\ DbTypeOK
      /\ pc \in [Tasks -> Locations]
  BY Serving
<1>2. OthersKept(c) /\ phase'[c] = "queued" /\ stmt'[c] = s
  BY <1>1, SubmitEffect, ChainEffect
<1>3. rows' = rows
  BY DEF Chain, Issue, Submit
<1>4. pc'[c] = l /\ \A u \in Clients \ {c} : pc'[u] = pc[u]
  BY <1>1, ClientsAreTasks DEF Goto
<1>5. OwnStep(c)
  BY <1>1, <1>2, <1>4 DEF OwnStep, HasResult
<1> QED
  BY <1>2, <1>3, <1>4, <1>5 DEF TaskStep, CodeStep

\* Client c is answered, and no other client.
AnsweredWith(c, code) ==
  /\ pc'[c] = "done" /\ response'[c] = code
  /\ \A u \in Clients \ {c} : pc'[u] = pc[u] /\ response'[u] = response[u]

\* A client takes its result, or an exception, and answers.
LEMMA TakesAndAnswers ==
  ASSUME IInv, DurInv, NEW c \in Clients, pc[c] \notin {"idle", "done"},
         Return(c) \/ Raise(c) \/ UNCHANGED dbVars,
         NEW code \in {200, 201, 404, 409, 500}, AnsweredWith(c, code), UNCHANGED req,
         code = 201 => pc[c] = "reread",
         code = 200 /\ req[c].op = "delete" =>
           pc[c] = "pop_lock" \/ (pc[c] = "remove" /\ HasResult(c))
  PROVE  TaskStep(c)
<1>1. /\ req[c] # NoReq /\ response[c] = 0 /\ c \in Tasks /\ DbTypeOK
      /\ response \in [Clients -> {0, 200, 201, 404, 409, 500}]
  BY Serving
<1>2. OthersKept(c) /\ rows' = rows
  BY <1>1, ReturnEffect, RaiseEffect, UnchangedDbEffect DEF Return, Raise, Leave, dbVars
<1>3. stmt'[c] = NoStatement \/ (stmt'[c] = stmt[c] /\ phase'[c] = phase[c])
  BY <1>1 DEF Return, Raise, Leave, dbVars, DbTypeOK
<1>4. OwnStep(c)
  BY <1>1, <1>3 DEF AnsweredWith, OwnStep, HasResult, NoStatement
<1> QED
  BY <1>2, <1>4 DEF AnsweredWith, TaskStep, CodeStep

\* A client moves on without a statement, to where it says nothing.
LEMMA MovesOn ==
  ASSUME IInv, DurInv, NEW c \in Clients, pc[c] \notin {"idle", "done"},
         Return(c) \/ Take(c) \/ UNCHANGED dbVars, NEW l, Goto(c, l),
         UNCHANGED <<req, response>>,
         l \notin {"idle", "insert", "remove", "reread"},
         l = "pop_lock" => pc[c] = "remove" /\ HasResult(c)
  PROVE  TaskStep(c)
<1>1. /\ req[c] # NoReq /\ response[c] = 0 /\ c \in Tasks /\ DbTypeOK
      /\ pc \in [Tasks -> Locations]
  BY Serving
<1>2. OthersKept(c) /\ rows' = rows
  BY <1>1, ReturnEffect, TakeEffect, UnchangedDbEffect DEF Return, Take, Leave, dbVars
<1>3. stmt'[c] = NoStatement \/ (stmt'[c] = stmt[c] /\ phase'[c] = phase[c])
  BY <1>1 DEF Return, Take, Leave, dbVars, DbTypeOK
<1>4. pc'[c] = l /\ \A u \in Clients \ {c} : pc'[u] = pc[u]
  BY <1>1, ClientsAreTasks DEF Goto
<1>5. OwnStep(c)
  BY <1>1, <1>3, <1>4 DEF OwnStep, HasResult, NoStatement
<1> QED
  BY <1>2, <1>4, <1>5 DEF TaskStep, CodeStep

LEMMA AnswersStep ==
  ASSUME IInv, DurInv, NEW c \in Clients, pc[c] \notin {"idle", "done"},
         Return(c) \/ Raise(c) \/ UNCHANGED dbVars,
         NEW code \in {200, 201, 404, 409, 500}, Answer(c, code), UNCHANGED req,
         code = 201 => pc[c] = "reread",
         code = 200 /\ req[c].op = "delete" =>
           pc[c] = "pop_lock" \/ (pc[c] = "remove" /\ HasResult(c))
  PROVE  TaskStep(c)
<1>1. /\ c \in Tasks /\ pc \in [Tasks -> Locations]
      /\ response \in [Clients -> {0, 200, 201, 404, 409, 500}]
  BY Serving
<1>2. AnsweredWith(c, code)
  BY <1>1, ClientsAreTasks DEF Answer, Goto, AnsweredWith
<1> QED
  BY <1>2, TakesAndAnswers

LEMMA SpawnsStep ==
  ASSUME IInv, DurInv, NEW c \in Clients, pc[c] \notin {"idle", "done"},
         Return(c), NEW code \in {200, 201, 500}, NEW n \in Names,
         AnswerAndSpawn(c, code, n), UNCHANGED req,
         code = 201 => pc[c] = "reread",
         code = 200 => req[c].op # "delete"
  PROVE  TaskStep(c)
<1>1. /\ c \in Tasks /\ pc \in [Tasks -> Locations]
      /\ response \in [Clients -> {0, 200, 201, 404, 409, 500}]
  BY Serving
<1>2. <<c, n>> \notin Clients /\ c # <<c, n>> /\ <<c, n>> \in Tasks
  BY ClientsAreTasks DEF Actors
<1>3. AnsweredWith(c, code)
  BY <1>1, <1>2, ClientsAreTasks DEF AnswerAndSpawn, AnsweredWith
<1> QED
  BY <1>3, TakesAndAnswers

LEMMA RegisterStep ==
  ASSUME IInv, DurInv, NEW c \in Clients,
         RegisterCheck(c) \/ RegisterInsert(c) \/ RegisterDone(c)
  PROVE  TaskStep(c)
<1>1. pc[c] \in {"check", "insert", "reread"} /\ UNCHANGED req
  BY DEF RegisterCheck, RegisterInsert, RegisterDone, At
<1>2. req[c] \in Requests /\ req[c].op = "register" /\ req[c].name \in Names
  <2>1. req[c] \in Requests /\ Serves(req[c].op, pc[c])
    BY <1>1, Received
  <2>2. req[c].op = "register"
    BY <2>1 DEF RegisterCheck, RegisterInsert, RegisterDone, Serves, At
  <2> QED
    BY <2>1, <2>2, RequestParts
<1>3. CASE RegisterCheck(c)
  <2>1. CASE Return(c) /\ Answer(c, 409)
    BY <1>1, <2>1, AnswersStep
  <2>2. CASE /\ Chain(c, Insert(req[c].name, CreatedColumns(req[c].columns)))
             /\ Goto(c, "insert") /\ UNCHANGED response
    <3>1. Insert(req[c].name, CreatedColumns(req[c].columns)) \in Statements
      BY <1>2, RequestParts, CreatedType, InsertIsStatement
    <3> QED
      BY <1>1, <1>2, <2>2, <3>1, HandlesOver DEF Insert
  <2> QED
    BY <1>3, <2>1, <2>2 DEF RegisterCheck
<1>4. CASE RegisterInsert(c)
  <2>1. pc[c] = "insert" /\ HasResult(c)
    BY <1>4 DEF RegisterInsert, At, Chain
  <2> QED
    BY <1>2, <1>4, <2>1, SelectIsStatement, HandlesOver DEF RegisterInsert, Select
<1>5. CASE RegisterDone(c)
  BY <1>2, <1>5, SpawnsStep DEF RegisterDone, At
<1> QED
  BY <1>3, <1>4, <1>5

LEMMA PatchStep ==
  ASSUME IInv, DurInv, NEW c \in Clients,
         PatchCheck(c) \/ PatchReread(c) \/ PatchDone(c)
  PROVE  TaskStep(c)
<1>1. pc[c] \in {"check", "update", "updated"} /\ UNCHANGED req
  BY DEF PatchCheck, PatchReread, PatchDone, At
<1>2. req[c] \in Requests /\ req[c].op = "patch" /\ req[c].name \in Names
  <2>1. req[c] \in Requests /\ Serves(req[c].op, pc[c])
    BY <1>1, Received
  <2>2. req[c].op = "patch"
    BY <2>1 DEF PatchCheck, PatchReread, PatchDone, Serves, At
  <2> QED
    BY <2>1, <2>2, RequestParts
<1>3. CASE PatchCheck(c)
  <2>1. CASE Return(c) /\ Answer(c, 404)
    BY <1>1, <1>2, <2>1, AnswersStep
  <2>2. CASE Chain(c, Select(req[c].name)) /\ Goto(c, "updated") /\ UNCHANGED response
    BY <1>1, <1>2, <2>2, SelectIsStatement, HandlesOver DEF Select
  <2>3. CASE /\ Chain(c, Update(req[c].name, ChangeOf(req[c])))
             /\ Goto(c, "update") /\ UNCHANGED response
    <3>1. Update(req[c].name, ChangeOf(req[c])) \in Statements
      BY <1>2, RequestParts, UpdateIsStatement
    <3> QED
      BY <1>1, <2>3, <3>1, HandlesOver DEF Update
  <2> QED
    BY <1>3, <2>1, <2>2, <2>3 DEF PatchCheck
<1>4. CASE PatchReread(c)
  BY <1>1, <1>2, <1>4, SelectIsStatement, HandlesOver DEF PatchReread, Select
<1>5. CASE PatchDone(c)
  <2>1. CASE Row(c) = NoRow \/ ~Rediscovers(req[c])
    BY <1>1, <1>2, <1>5, <2>1, AnswersStep DEF PatchDone
  <2>2. CASE Row(c) # NoRow /\ Rediscovers(req[c])
    BY <1>1, <1>2, <1>5, <2>2, SpawnsStep DEF PatchDone
  <2> QED
    BY <2>1, <2>2
<1> QED
  BY <1>3, <1>4, <1>5

LEMMA DeleteStep ==
  ASSUME IInv, DurInv, NEW c \in Clients,
         DeleteCheck(c) \/ DeleteRow(c) \/ DeletePop(c)
  PROVE  TaskStep(c)
<1>1. pc[c] \in {"check", "remove", "pop_lock"} /\ UNCHANGED req
  BY DEF DeleteCheck, DeleteRow, DeletePop, At
<1>2. req[c] \in Requests /\ req[c].op = "delete" /\ req[c].name \in Names
  <2>1. req[c] \in Requests /\ Serves(req[c].op, pc[c])
    BY <1>1, Received
  <2>2. req[c].op = "delete"
    BY <2>1 DEF DeleteCheck, DeleteRow, DeletePop, Serves, At
  <2> QED
    BY <2>1, <2>2, RequestParts
<1>3. CASE DeleteCheck(c)
  <2>1. CASE Return(c) /\ Answer(c, 404)
    BY <1>1, <1>2, <2>1, AnswersStep
  <2>2. CASE Chain(c, Delete(req[c].name)) /\ Goto(c, "remove") /\ UNCHANGED response
    BY <1>1, <1>2, <2>2, SelectIsStatement, HandlesOver DEF Delete
  <2> QED
    BY <1>3, <2>1, <2>2 DEF DeleteCheck
<1>4. CASE DeleteRow(c)
  <2>1. pc[c] = "remove" /\ HasResult(c) /\ Return(c)
    BY <1>4 DEF DeleteRow, At, Return
  <2>2. CASE PopAndForget(c)
    BY <1>1, <2>1, <2>2, AnswersStep DEF PopAndForget
  <2>3. CASE WaitLock(c, "pop_lock") /\ UNCHANGED response
    BY <1>1, <2>1, <2>3, MovesOn DEF WaitLock
  <2> QED
    BY <1>4, <2>2, <2>3 DEF DeleteRow
<1>5. CASE DeletePop(c)
  <2>1. pc[c] = "pop_lock"
    BY <1>5 DEF DeletePop, At
  <2> QED
    BY <1>1, <1>5, <2>1, AnswersStep DEF DeletePop, PopAndForget
<1> QED
  BY <1>3, <1>4, <1>5

LEMMA ListStep ==
  ASSUME IInv, DurInv, NEW c \in Clients, ListLocked(c) \/ ListFilled(c)
  PROVE  TaskStep(c)
<1>1. pc[c] \in {"list_lock", "list_query"} /\ UNCHANGED req
  BY DEF ListLocked, ListFilled, At
<1>2. req[c].op = "list"
  BY <1>1, Serving DEF Serves
<1>3. \A m \in Names : Select(m) \in Statements /\ Select(m).op = "select"
  BY SelectIsStatement DEF Select
<1>4. ASSUME Return(c) \/ UNCHANGED dbVars, Answer(c, 200) PROVE TaskStep(c)
  BY <1>1, <1>2, <1>4, AnswersStep
<1>5. ASSUME NEW m \in Names, Chain(c, Select(m)) \/ Submit(c, Select(m)),
             Goto(c, "list_query"), UNCHANGED response
      PROVE  TaskStep(c)
  BY <1>1, <1>3, <1>5, HandlesOver
<1> QED
  BY <1>4, <1>5 DEF ListLocked, ListFilled, WalkEnds, WalkStops

\* A request arrives: the client has had no statement before.
LEMMA ReceiveStep ==
  ASSUME IInv, DurInv, NEW c \in Clients, Receive(c)
  PROVE  TaskStep(c)
<1>1. PICK r \in Requests : ReceiveLookup(c, r) \/ ReceiveList(c, r) \/ ReceiveRefresh(c, r)
  BY DEF Receive
<1>2. /\ pc[c] = "idle" /\ req[c] = NoReq /\ response[c] = 0
      /\ req' = [req EXCEPT ![c] = r] /\ r # NoReq
  BY <1>1, RequestParts
     DEF ReceiveLookup, ReceiveList, ReceiveRefresh, At, DurInv, ReplyControl
<1>3. /\ c \in Tasks /\ DbTypeOK /\ pc \in [Tasks -> Locations]
      /\ req \in [Clients -> {NoReq} \cup Requests]
      /\ response \in [Clients -> {0, 200, 201, 404, 409, 500}]
  BY ClientsAreTasks DEF IInv, TypeOK
<1>4. stmt[c].op \notin {"insert", "delete"}
  BY <1>2 DEF DurInv, InsertControl, DeleteControl
<1>5. ASSUME NEW s, s.op \in {"select", "list"}, Submit(c, s),
             NEW l \in {"check", "list_query", "enabled"}, Goto(c, l), UNCHANGED response
      PROVE  TaskStep(c)
  <2>1. OthersKept(c) /\ stmt'[c] = s /\ rows' = rows
    BY <1>3, <1>5, SubmitEffect DEF Submit
  <2> QED
    BY <1>2, <1>3, <1>5, <2>1, ClientsAreTasks DEF Goto, TaskStep, CodeStep, OwnStep
<1>6. ASSUME UNCHANGED dbVars,
             \/ Answer(c, 200) /\ r.op # "delete"
             \/ Goto(c, "list_lock") /\ UNCHANGED response
      PROVE  TaskStep(c)
  <2>1. OthersKept(c) /\ stmt'[c] = stmt[c] /\ phase'[c] = phase[c] /\ rows' = rows
    BY <1>6, UnchangedDbEffect DEF dbVars
  <2> QED
    BY <1>2, <1>3, <1>4, <1>6, <2>1, ClientsAreTasks
       DEF Answer, Goto, TaskStep, CodeStep, OwnStep
<1>7. CASE ReceiveLookup(c, r)
  BY <1>5, <1>7 DEF ReceiveLookup, Select
<1>8. CASE ReceiveRefresh(c, r)
  BY <1>5, <1>8 DEF ReceiveRefresh, SelectEnabled
<1>9. CASE ReceiveList(c, r)
  <2>1. ASSUME NEW m \in Names, Submit(c, Select(m)), Goto(c, "list_query"),
               UNCHANGED response
        PROVE  TaskStep(c)
    BY <1>5, <2>1 DEF Select
  <2>2. r.op # "delete"
    BY <1>9 DEF ReceiveList
  <2> QED
    BY <1>6, <1>9, <2>1, <2>2 DEF ReceiveList, WalkEnds, WalkStops, WaitLock
<1> QED
  BY <1>1, <1>7, <1>8, <1>9

\* A task that is no client's, or a client's at a harmless place.
LEMMA OtherTaskStep ==
  ASSUME IInv, DurInv, NEW t \in Tasks \ Clients, OthersKept(t), rows' = rows,
         stmt'[t] = stmt[t] \/ stmt'[t].op \notin {"insert", "delete"},
         UNCHANGED <<req, response>>, \A c \in Clients : pc'[c] = pc[c]
  PROVE  TaskStep(t)
BY DEF TaskStep, CodeStep, DurInv

\* The database side of a step that hands over no insertion and no removal.
HarmlessDb(t) ==
  \/ UNCHANGED dbVars \/ Return(t) \/ Take(t) \/ Raise(t)
  \/ \E s \in Statements : /\ s.op \in {"select", "list", "update"}
                           /\ Submit(t, s) \/ Chain(t, s) \/ Recover(t, s)

LEMMA HarmlessEffect ==
  ASSUME DbTypeOK, NEW t \in Tasks, HarmlessDb(t)
  PROVE  /\ OthersKept(t) /\ rows' = rows
         /\ \/ stmt'[t] = stmt[t] /\ phase'[t] = phase[t]
            \/ stmt'[t].op \notin {"insert", "delete"}
<1>1. CASE UNCHANGED dbVars
  BY <1>1, UnchangedDbEffect DEF dbVars
<1>2. CASE Return(t) \/ Take(t) \/ Raise(t)
  <2>1. stmt'[t] = NoStatement /\ rows' = rows
    BY <1>2 DEF Return, Take, Raise, Leave, DbTypeOK
  <2> QED
    BY <1>2, <2>1, ReturnEffect, TakeEffect, RaiseEffect DEF NoStatement
<1>3. ASSUME NEW s \in Statements, s.op \in {"select", "list", "update"},
             Submit(t, s) \/ Chain(t, s) \/ Recover(t, s)
      PROVE  OthersKept(t) /\ rows' = rows /\ stmt'[t] = s
  BY <1>3, SubmitEffect, ChainEffect, RecoverEffect DEF Submit, Chain, Recover, Issue
<1> QED
  BY <1>1, <1>2, <1>3 DEF HarmlessDb

\* A discovery or a refresh goes on, or a query raised: a task of its own, or a
\* client that asked for neither a registration nor a removal, or is told 500.
LEMMA HarmlessStep ==
  ASSUME IInv, DurInv, NEW t \in Tasks, HarmlessDb(t), UNCHANGED req,
         NEW l \in {"lookup", "fetch", "store_lock", "healthy", "unhealthy",
                    "drop_lock", "up", "down", "enabled", "total_lock", "answer_lock",
                    "sleep", "done"},
         Goto(t, l),
         t \in Clients => pc[t] \notin {"idle", "done"},
         \/ UNCHANGED response
         \/ /\ t \in Clients /\ l = "done"
            /\ \/ response' = [response EXCEPT ![t] = 500]
               \/ response' = [response EXCEPT ![t] = 200] /\ req[t].op # "delete"
  PROVE  TaskStep(t)
<1>1. /\ DbTypeOK /\ pc \in [Tasks -> Locations]
      /\ response \in [Clients -> {0, 200, 201, 404, 409, 500}]
  BY DEF IInv, TypeOK
<1>2. /\ OthersKept(t) /\ rows' = rows
      /\ \/ stmt'[t] = stmt[t] /\ phase'[t] = phase[t]
         \/ stmt'[t].op \notin {"insert", "delete"}
  BY <1>1, HarmlessEffect
<1>3. pc'[t] = l /\ \A c \in Clients \ {t} : pc'[c] = pc[c]
  BY <1>1, ClientsAreTasks DEF Goto
<1>4. CASE t \notin Clients
  BY <1>2, <1>3, <1>4, OtherTaskStep
<1>5. CASE t \in Clients
  <2>1. req[t] # NoReq /\ response[t] = 0
    BY <1>5, Serving
  <2>2. /\ \A c \in Clients \ {t} : response'[c] = response[c]
        /\ \/ response'[t] = 0 \/ (l = "done" /\ response'[t] = 500)
           \/ (l = "done" /\ response'[t] = 200 /\ req[t].op # "delete")
    BY <1>1, <1>5, <2>1
  <2>3. OwnStep(t)
    BY <1>2, <1>3, <2>1, <2>2 DEF OwnStep
  <2> QED
    BY <1>2, <1>3, <1>5, <2>2, <2>3 DEF TaskStep, CodeStep
<1> QED
  BY <1>4, <1>5

LEMMA DiscoverCheckStep ==
  ASSUME IInv, DurInv, NEW c \in Clients, DiscoverCheck(c)
  PROVE  TaskStep(c)
<1>1. pc[c] = "check" /\ req[c].op = "discover" /\ UNCHANGED req
  BY DEF DiscoverCheck, At
<1>2. req[c].name \in Names
  BY <1>1, Received
<1>3. CASE Return(c) /\ Answer(c, 404)
  BY <1>1, <1>3, AnswersStep
<1>4. CASE Chain(c, Select(req[c].name)) /\ Goto(c, "lookup") /\ UNCHANGED response
  BY <1>1, <1>2, <1>4, SelectIsStatement, HandlesOver DEF Select
<1> QED
  BY <1>3, <1>4 DEF DiscoverCheck

LEMMA ProbeCheckStep ==
  ASSUME IInv, DurInv, NEW c \in Clients, ProbeCheck(c)
  PROVE  TaskStep(c)
<1>1. pc[c] = "check" /\ req[c].op = "probe" /\ UNCHANGED req /\ Return(c)
  BY DEF ProbeCheck, At
<1>2. CASE Answer(c, 404)
  BY <1>1, <1>2, AnswersStep
<1>3. CASE Goto(c, "probing") /\ UNCHANGED response
  BY <1>1, <1>3, MovesOn
<1> QED
  BY <1>2, <1>3 DEF ProbeCheck

LEMMA HandlerStep ==
  ASSUME IInv, DurInv, NEW c \in Clients, Handler(c)
  PROVE  TaskStep(c)
BY RegisterStep, PatchStep, DeleteStep, ListStep, DiscoverCheckStep, ProbeCheckStep
   DEF Handler

\* The database side of a discovery.
LEMMA DiscoveryDb ==
  ASSUME IInv, NEW t \in Tasks,
         pc[t] \in DiscoveryLocations \cup ProbeLocations \cup {"spawned"}
  PROVE  /\ Submit(t, Select(Subject(t))) => HarmlessDb(t)
         /\ \A s \in Statuses : /\ SetStatus(t, s) => HarmlessDb(t)
                                /\ Recover(t, StatusUpdate(t, s)) => HarmlessDb(t)
<1>1. Subject(t) \in Names
  BY Discovering
<1>2. Select(Subject(t)) \in Statements /\ Select(Subject(t)).op = "select"
  BY <1>1, SelectIsStatement DEF Select
<1>3. ASSUME NEW s \in Statuses
      PROVE  StatusUpdate(t, s) \in Statements /\ StatusUpdate(t, s).op = "update"
  BY <1>1, StatusChangeType, UpdateIsStatement DEF StatusUpdate, Update
<1> QED
  BY <1>2, <1>3 DEF HarmlessDb, SetStatus

LEMMA DiscoveryEnds ==
  ASSUME IInv, DurInv, NEW t \in Tasks, pc[t] \in DiscoveryLocations \cup ProbeLocations,
         HarmlessDb(t), EndDiscovery(t), UNCHANGED req
  PROVE  TaskStep(t)
<1>1. t \in Clients => req[t].op \in {"discover", "probe"}
  BY Discovering
<1>2. pc[t] \notin {"idle", "done"}
  BY DEF DiscoveryLocations, ProbeLocations
<1>3. CASE t \in Clients
  BY <1>1, <1>2, <1>3, HarmlessStep DEF EndDiscovery, Answer
<1>4. CASE t \notin Clients
  BY <1>2, <1>4, HarmlessStep DEF EndDiscovery
<1> QED
  BY <1>3, <1>4

LEMMA DiscoveryGoes ==
  ASSUME IInv, DurInv, NEW t \in Tasks,
         pc[t] \in DiscoveryLocations \cup ProbeLocations \cup {"spawned"},
         HarmlessDb(t), UNCHANGED <<req, response>>,
         NEW l \in {"lookup", "fetch", "store_lock", "healthy", "unhealthy", "drop_lock",
                    "up", "down", "done"},
         Goto(t, l)
  PROVE  TaskStep(t)
<1>1. pc[t] \notin {"idle", "done"}
  BY DEF DiscoveryLocations, ProbeLocations
<1> QED
  BY <1>1, HarmlessStep

LEMMA DiscoveryStep ==
  ASSUME IInv, DurInv, NEW t \in Tasks,
         Fetch(t) \/ Discovery(t) \/ StatusHealthyFails(t)
  PROVE  TaskStep(t)
<1>1. /\ pc[t] \in DiscoveryLocations \cup ProbeLocations \cup {"spawned"}
      /\ UNCHANGED req
  BY DEF Fetch, FetchSucceeds, FetchFails, Discovery, DiscoveryStart, DiscoveryLookup,
         StoreLocked, StatusHealthy, StatusUnhealthy, DropLocked, StatusHealthyFails,
         ProbeSucceeds, ProbeFails, ProbeExpires, ProbeEnds,
         At, DiscoveryLocations, ProbeLocations
<1>2. /\ Submit(t, Select(Subject(t))) => HarmlessDb(t)
      /\ \A s \in Statuses : /\ SetStatus(t, s) => HarmlessDb(t)
                             /\ Recover(t, StatusUpdate(t, s)) => HarmlessDb(t)
  BY <1>1, DiscoveryDb
<1>3. "healthy" \in Statuses /\ "unhealthy" \in Statuses
  BY DEF Statuses
<1>4. UNCHANGED dbVars \/ Return(t) \/ Take(t) => HarmlessDb(t)
  BY DEF HarmlessDb
<1>5. ASSUME pc[t] # "spawned", HarmlessDb(t), EndDiscovery(t) PROVE TaskStep(t)
  BY <1>1, <1>5, DiscoveryEnds
<1>6. ASSUME NEW l \in {"lookup", "fetch", "store_lock", "healthy", "unhealthy", "drop_lock",
                        "up", "down", "done"},
             HarmlessDb(t), Goto(t, l), UNCHANGED response
      PROVE  TaskStep(t)
  BY <1>1, <1>6, DiscoveryGoes
<1>7. CASE Fetch(t)
  BY <1>2, <1>3, <1>4, <1>6, <1>7
     DEF Fetch, FetchSucceeds, FetchFails, ProbeSucceeds, ProbeFails, StoreTools, WaitLock
<1>8. CASE StatusHealthyFails(t)
  BY <1>2, <1>3, <1>6, <1>8 DEF StatusHealthyFails
<1>9. CASE DiscoveryStart(t) \/ StoreLocked(t)
  BY <1>2, <1>3, <1>6, <1>9 DEF DiscoveryStart, StoreLocked, StoreTools
<1>10. CASE DiscoveryLookup(t) \/ StatusHealthy(t)
  BY <1>4, <1>5, <1>6, <1>10 DEF DiscoveryLookup, StatusHealthy, At
<1>11. CASE StatusUnhealthy(t) \/ DropLocked(t)
  BY <1>4, <1>5, <1>6, <1>11
     DEF StatusUnhealthy, DropLocked, DropTools, WaitLock, At
<1>12. CASE ProbeExpires(t)
  BY <1>4, <1>6, <1>12 DEF ProbeExpires
<1>13. CASE ProbeEnds(t)
  BY <1>4, <1>5, <1>13 DEF ProbeEnds
<1> QED
  BY <1>7, <1>8, <1>9, <1>10, <1>11, <1>12, <1>13 DEF Discovery

LEMMA QueryFailsStep ==
  ASSUME IInv, DurInv, NEW t \in Tasks, QueryFails(t)
  PROVE  TaskStep(t)
<1>1. Raise(t) /\ HarmlessDb(t) /\ UNCHANGED req /\ GiveUp(t)
  BY DEF QueryFails, HarmlessDb
<1>2. pc[t] \notin {"idle", "done"}
  <2>1. phase[t] # "idle"
    BY <1>1 DEF Raise, HasError
  <2> QED
    BY <2>1, NotQuerying DEF Querying
<1>3. CASE t \in Clients
  BY <1>1, <1>2, <1>3, HarmlessStep DEF GiveUp, Answer
<1>4. CASE t \notin Clients
  BY <1>1, <1>4, HarmlessStep DEF GiveUp
<1> QED
  BY <1>3, <1>4

LEMMA RefreshStep ==
  ASSUME IInv, DurInv, NEW a \in Actors, Refresh(a)
  PROVE  TaskStep(a)
<1>1. pc[a] \in {"enabled", "gather", "total_lock", "answer_lock"} /\ UNCHANGED req
  BY DEF Refresh, Gather, CountTotal, CanaryEnds, At
<1>2. a \in Tasks /\ (a \in Clients => req[a].op \in {"refresh", "canary"})
  BY <1>1, Refreshing
<1>3. CASE Gather(a)
  <2>1. Return(a) /\ HarmlessDb(a) /\ DbTypeOK /\ pc \in [Tasks -> Locations]
    BY <1>3 DEF Gather, HarmlessDb, IInv, TypeOK
  <2>2. /\ pc'[a] = "gather" /\ \A c \in Clients \ {a} : pc'[c] = pc[c]
        /\ UNCHANGED response
    BY <1>2, <1>3, ClientsAreTasks, TasksAssumption DEF Gather, Actors, Begun
  <2>3. /\ OthersKept(a) /\ rows' = rows
        /\ \/ stmt'[a] = stmt[a] /\ phase'[a] = phase[a]
           \/ stmt'[a].op \notin {"insert", "delete"}
    BY <1>2, <2>1, HarmlessEffect
  <2>4. CASE a \in Clients
    <3>1. req[a] # NoReq /\ response[a] = 0
      BY <1>1, <2>4, Serving
    <3> QED
      BY <1>1, <2>2, <2>3, <2>4, <3>1 DEF TaskStep, CodeStep, OwnStep
  <2>5. CASE a \notin Clients
    BY <1>1, <1>2, <2>2, <2>3, <2>5, OtherTaskStep
  <2> QED
    BY <2>4, <2>5
<1>4. CASE CountTotal(a)
  <2>1. HarmlessDb(a)
    BY <1>4 DEF CountTotal, HarmlessDb
  <2>2. CASE AfterTotal(a) /\ a \in Clients
    BY <1>1, <1>2, <2>1, <2>2, HarmlessStep DEF AfterTotal, Answer
  <2>3. CASE AfterTotal(a) /\ a \notin Clients
    BY <1>1, <1>2, <2>1, <2>3, HarmlessStep DEF AfterTotal
  <2>4. CASE UNCHANGED response /\ (Goto(a, "total_lock") \/ Goto(a, "answer_lock"))
    BY <1>1, <1>2, <2>1, <2>4, HarmlessStep
  <2> QED
    BY <1>4, <2>2, <2>3, <2>4 DEF CountTotal, WaitLock
<1>5. CASE CanaryEnds(a)
  <2>1. a \in Clients /\ HarmlessDb(a) /\ Answer(a, 200)
    BY <1>5 DEF CanaryEnds, Canary, HarmlessDb
  <2> QED
    BY <1>1, <1>2, <2>1, HarmlessStep DEF Answer
<1> QED
  BY <1>3, <1>4, <1>5 DEF Refresh

LEMMA StartupStep ==
  ASSUME IInv, DurInv, StartupRefresh
  PROVE  TaskStep(Boot)
<1>1. HarmlessDb(Boot)
  BY ListIsStatement DEF StartupRefresh, HarmlessDb, SelectEnabled
<1> QED
  BY <1>1, HarmlessStep, ClientsAreTasks DEF StartupRefresh

-----------------------------------------------------------------------------
(* The engine, and a crash.                                                  *)

\* A server appears in the table, or disappears, only because somebody asked.
LEMMA EngineRows ==
  ASSUME DbTypeOK, DurInv, NEW t \in Tasks, Engine(t), NEW n \in Names
  PROVE  /\ rows[n] # NoRow => rows'[n] # NoRow \/ Asked("delete", n)
         /\ rows[n] = NoRow => rows'[n] = NoRow \/ Asked("register", n)
<1>1. rows \in Tables /\ stmt[t] \in Statements /\ nextId \in Nat
  BY DEF DbTypeOK
<1>2. CASE ExecuteInsert(t)
  <2>1. Asked("register", stmt[t].name)
    BY <1>2 DEF ExecuteInsert, DurInv, InsertControl, Asked
  <2>2. stmt[t].name \in Names /\ (n # stmt[t].name => rows'[n] = rows[n])
    BY <1>1, <1>2, StatementParts DEF ExecuteInsert, Tables
  <2>3. InsertedRow(stmt[t].columns) # NoRow
    BY <1>1, <1>2, StatementParts, InsertedType, AbsentValues DEF ExecuteInsert
  <2>4. rows[n] # NoRow => rows'[n] # NoRow
    BY <1>1, <1>2, <2>2, <2>3 DEF ExecuteInsert, Tables
  <2> QED
    BY <2>1, <2>2, <2>4
<1>3. CASE ExecuteDelete(t)
  <2>1. Asked("delete", stmt[t].name)
    BY <1>3 DEF ExecuteDelete, DurInv, DeleteControl, Asked
  <2>2. /\ n # stmt[t].name => rows'[n] = rows[n]
        /\ rows[n] = NoRow => rows'[n] = NoRow
    BY <1>1, <1>3 DEF ExecuteDelete, Tables
  <2> QED
    BY <2>1, <2>2
<1>4. CASE ExecuteUpdate(t)
  <2>1. stmt[t].change \in Changes /\ stmt[t].name \in Names
    BY <1>1, <1>4, StatementParts DEF ExecuteUpdate
  <2>2. rows[stmt[t].name] # NoRow =>
          Assigned(rows[stmt[t].name], stmt[t].change) # NoRow
    BY <1>1, <2>1, AssignedType, AbsentValues DEF Tables
  <2> QED
    BY <1>1, <1>4, <2>1, <2>2 DEF ExecuteUpdate, UpdateBase, Tables
<1>5. CASE ExecuteRead(t) \/ ExecuteRefused(t) \/ Continue(t) \/ Complete(t)
  BY <1>5 DEF ExecuteRead, ExecuteRefused, Continue, Complete
<1> QED
  BY <1>2, <1>3, <1>4, <1>5 DEF Engine, Execute

\* The statement of t takes effect when it is executed, and is committed when it
\* is finished.
LEMMA EngineCommits ==
  ASSUME DbTypeOK, DurInv, NEW t \in Tasks, Engine(t), Persist,
         stmt[t].op \in {"insert", "delete"}
  PROVE  LET n == stmt[t].name IN
         /\ phase'[t] \in {"executed", "finishing", "finished"} =>
              \/ /\ phase[t] = "queued"
                 /\ stmt[t].op = "insert" => rows'[n] # NoRow
                 /\ stmt[t].op = "delete" => rows'[n] = NoRow
              \/ /\ phase[t] \in {"executed", "finishing"}
                 /\ rows' = rows
         /\ phase'[t] = "finished" => saved'.rows = rows'
<1>1. rows \in Tables /\ stmt[t] \in Statements /\ phase \in [Tasks -> Phases]
      /\ stmt[t].name \in Names
  BY StatementParts DEF DbTypeOK
<1>2. CASE Execute(t)
  <2>1. CASE ExecuteInsert(t)
    <3>1. stmt[t].op = "insert" /\ InsertedRow(stmt[t].columns) # NoRow
      BY <1>1, <2>1, StatementParts, InsertedType, AbsentValues
         DEF ExecuteInsert, DbTypeOK
    <3>2. phase'[t] = "failed" \/ (phase'[t] = Executed /\ rows'[stmt[t].name] # NoRow)
      BY <1>1, <2>1, <3>1 DEF ExecuteInsert, Tables
    <3>3. phase'[t] = "finished" => saved'.rows = rows'
      BY <3>2, BackendAssumption DEF Executed, Persist
    <3> QED
      BY <1>2, <3>1, <3>2, <3>3 DEF Execute
  <2>2. CASE ExecuteDelete(t)
    <3>1. stmt[t].op = "delete" /\ phase'[t] = Executed /\ rows'[stmt[t].name] = NoRow
      BY <1>1, <2>2 DEF ExecuteDelete, Tables
    <3>2. phase'[t] = "finished" => saved'.rows = rows'
      BY <3>1, BackendAssumption DEF Executed, Persist
    <3> QED
      BY <1>2, <3>1, <3>2 DEF Execute
  <2>3. CASE ExecuteRefused(t)
    BY <1>1, <2>3 DEF ExecuteRefused
  <2>4. CASE ExecuteRead(t) \/ ExecuteUpdate(t)
    BY <2>4 DEF ExecuteRead, ExecuteUpdate
  <2> QED
    BY <1>2, <2>1, <2>2, <2>3, <2>4 DEF Execute
<1>3. CASE Continue(t)
  BY <1>1, <1>3 DEF Continue
<1>4. CASE Complete(t)
  <2>1. phase[t] = "finishing" /\ phase'[t] = "finished" /\ rows' = rows
    BY <1>1, <1>4 DEF Complete
  <2>2. saved'.rows = rows'
    BY <2>1 DEF Persist, Commits
  <2> QED
    BY <2>1, <2>2
<1> QED
  BY <1>2, <1>3, <1>4 DEF Engine

\* Where a client is, the name of its request is a server's.
LEMMA NamedServer ==
  ASSUME IInv, DurInv, NEW c \in Clients
  PROVE  /\ pc[c] \in {"reread", "pop_lock"} => req[c].name \in Names
         /\ response[c] = 201 => req[c].name \in Names
         /\ response[c] = 200 /\ req[c].op = "delete" => req[c].name \in Names
         /\ stmt[c].op \in {"insert", "delete"} => stmt[c].name \in Names
<1>1. pc[c] # "idle" /\ req[c].op \in {"register", "patch", "delete", "discover"}
        => req[c].name \in Names
  BY Received
<1>2. response[c] # 0 => pc[c] # "idle"
  BY DEF DurInv, ReplyControl, At
<1>3. pc[c] \in {"reread", "pop_lock"} => req[c].op \in {"register", "delete"}
  BY Serving DEF Serves
<1>4. response[c] = 201 => req[c].op = "register"
  BY DEF DurInv, ReplyControl
<1>5. stmt[c] \in Statements
  BY ClientsAreTasks DEF IInv, TypeOK, DbTypeOK
<1> QED
  BY <1>1, <1>2, <1>3, <1>4, <1>5, StatementParts

LEMMA EngineStepDurable ==
  ASSUME IInv, DurInv, NEW t \in Tasks, EngineStep(t), Persist
  PROVE  DurInv'
<1>1. /\ DbTypeOK /\ Engine(t) /\ OthersKept(t) /\ stmt' = stmt
      /\ pc' = pc /\ req' = req /\ response' = response
  BY EngineEffect DEF EngineStep, IInv, TypeOK, catVars
<1>2. \A n \in Names : /\ rows[n] # NoRow => rows'[n] # NoRow \/ Asked("delete", n)
                       /\ rows[n] = NoRow => rows'[n] = NoRow \/ Asked("register", n)
  BY <1>1, EngineRows
<1>3. saved' = saved \/ saved'.rows = rows'
  BY PersistKeeps
<1>4. ASSUME NEW c \in Clients PROVE ReplyControl(c)'
  <2>1. ReplyControl(c)
    BY DEF DurInv
  <2>2. /\ pc[c] \in {"reread", "pop_lock"} => req[c].name \in Names
        /\ response[c] = 201 => req[c].name \in Names
        /\ response[c] = 200 /\ req[c].op = "delete" => req[c].name \in Names
    BY NamedServer
  <2> QED
    BY <1>1, <1>2, <1>3, <2>1, <2>2 DEF ReplyControl, At, Kept, Gone, Asked
<1>5. ASSUME NEW c \in Clients \ {t} PROVE InsertControl(c)' /\ DeleteControl(c)'
  <2>1. phase'[c] = phase[c] /\ InsertControl(c) /\ DeleteControl(c)
    BY <1>1, ClientsAreTasks DEF OthersKept, DurInv
  <2>2. stmt[c].op \in {"insert", "delete"} => stmt[c].name \in Names
    BY NamedServer
  <2>3. InsertControl(c)'
    BY <1>1, <1>2, <1>3, <2>1, <2>2 DEF InsertControl, Kept, Asked
  <2>4. DeleteControl(c)'
    BY <1>1, <1>2, <1>3, <2>1, <2>2 DEF DeleteControl, Gone, Asked
  <2> QED
    BY <2>3, <2>4
<1>6. ASSUME t \in Clients PROVE InsertControl(t)' /\ DeleteControl(t)'
  <2>1. InsertControl(t) /\ DeleteControl(t)
    BY <1>6 DEF DurInv
  <2>2. stmt[t].op \in {"insert", "delete"} =>
         /\ phase'[t] \in {"executed", "finishing", "finished"} =>
              \/ /\ phase[t] = "queued"
                 /\ stmt[t].op = "insert" => rows'[stmt[t].name] # NoRow
                 /\ stmt[t].op = "delete" => rows'[stmt[t].name] = NoRow
              \/ /\ phase[t] \in {"executed", "finishing"}
                 /\ rows' = rows
         /\ phase'[t] = "finished" => saved'.rows = rows'
    BY <1>1, EngineCommits
  <2>3. InsertControl(t)'
    BY <1>1, <2>1, <2>2 DEF InsertControl, Kept, Asked
  <2>4. DeleteControl(t)'
    BY <1>1, <2>1, <2>2 DEF DeleteControl, Gone, Asked
  <2> QED
    BY <2>3, <2>4
<1> QED
  BY <1>1, <1>4, <1>5, <1>6 DEF DurInv

\* What a crash undoes was not committed, and nobody had been told of it.
LEMMA CrashDurable ==
  ASSUME IInv, DurInv, Crash
  PROVE  DurInv'
<1>1. /\ req' = req /\ response' = response /\ saved' = saved /\ rows' = saved.rows
      /\ \A t \in Tasks : stmt'[t].op = "none" /\ pc'[t] = LocationAfter(t)
  BY DEF Crash, NoStatement
<1>2. ASSUME NEW c \in Clients PROVE ReplyControl(c)'
  <2>1. ReplyControl(c) /\ c \in Tasks
    BY ClientsAreTasks DEF DurInv
  <2>2. pc'[c] = IF pc[c] = "idle" THEN "idle" ELSE "done"
    BY <1>1, <2>1 DEF LocationAfter, Lost, At
  <2> QED
    BY <1>1, <2>1, <2>2 DEF ReplyControl, At, Kept, Gone, Asked
<1>3. ASSUME NEW c \in Clients PROVE InsertControl(c)' /\ DeleteControl(c)'
  BY <1>1, ClientsAreTasks DEF InsertControl, DeleteControl
<1> QED
  BY <1>1, <1>2, <1>3 DEF DurInv

LEMMA RunningDurable ==
  ASSUME IInv, DurInv, Running
  PROVE  DurInv'
<1>1. Next /\ Persist
  BY DEF Running
<1>2. ASSUME NEW t \in Tasks, TaskStep(t) PROVE DurInv'
  BY <1>1, <1>2, TaskStepDurable
<1>3. ASSUME NEW t \in Tasks, EngineStep(t) \/ Fetch(t) \/ Discovery(t) \/ Fails(t)
      PROVE  DurInv'
  BY <1>1, <1>2, <1>3, EngineStepDurable, DiscoveryStep, QueryFailsStep DEF Fails
<1>4. ASSUME NEW c \in Clients, Receive(c) \/ Handler(c) PROVE DurInv'
  BY <1>2, <1>4, ReceiveStep, HandlerStep, ClientsAreTasks
<1>5. ASSUME NEW a \in Actors, Refresh(a) PROVE DurInv'
  BY <1>2, <1>5, RefreshStep, TasksAssumption
<1>6. CASE StartupRefresh
  BY <1>2, <1>6, StartupStep, ClientsAreTasks
<1>7. CASE UNCHANGED vars
  <2>1. /\ rows' = rows /\ stmt' = stmt /\ phase' = phase
        /\ pc' = pc /\ req' = req /\ response' = response
    BY <1>7 DEF vars, dbVars, catVars
  <2>2. saved' = saved \/ saved'.rows = rows'
    BY <1>1, PersistKeeps
  <2>3. ASSUME NEW c \in Clients
        PROVE  InsertControl(c)' /\ DeleteControl(c)' /\ ReplyControl(c)'
    <3>1. InsertControl(c) /\ DeleteControl(c) /\ ReplyControl(c)
      BY DEF DurInv
    <3>2. InsertControl(c)'
      BY <2>1, <2>2, <3>1 DEF InsertControl, Kept, Asked
    <3>3. DeleteControl(c)'
      BY <2>1, <2>2, <3>1 DEF DeleteControl, Gone, Asked
    <3>4. ReplyControl(c)'
      BY <2>1, <2>2, <3>1 DEF ReplyControl, At, Kept, Gone, Asked
    <3> QED
      BY <3>2, <3>3, <3>4
  <2> QED
    BY <2>1, <2>3 DEF DurInv
<1> QED
  BY <1>1, <1>3, <1>4, <1>5, <1>6, <1>7 DEF Next

LEMMA InitDurable == ASSUME RestartInit PROVE DurInv
BY ClientsAreTasks
   DEF RestartInit, Init, DbInit, DurInv, InsertControl, DeleteControl, ReplyControl, At,
       NoStatement

LEMMA NextDurable ==
  ASSUME IInv, DurInv, [RestartNext]_restartVars
  PROVE  DurInv'
<1>1. CASE UNCHANGED restartVars
  BY <1>1 DEF restartVars, vars, dbVars, catVars, DurInv, InsertControl, DeleteControl,
              ReplyControl, At, Kept, Gone, Asked
<1> QED
  BY <1>1, RunningDurable, CrashDurable DEF RestartNext

\* A registration answered with 201 or a removal answered with 200 is not undone by
\* a crash, on either backend and however often the relay crashes: the handlers
\* answer only after the commit, and another task's commit takes along only what
\* was done at its request.
THEOREM ConfirmedSurvives == RestartSpec => []ConfirmedIsDurable
<1>1. RestartInit => DurInv
  BY InitDurable
<1>2. IInv /\ DurInv /\ [RestartNext]_restartVars => DurInv'
  BY NextDurable
<1>3. DurInv => ConfirmedIsDurable
  BY DEF DurInv, ReplyControl, Kept, Gone, ConfirmedIsDurable
<1> QED
  BY <1>1, <1>2, <1>3, RestartTypes, PTL DEF RestartSpec
-----------------------------------------------------------------------------
(* Servers that show as healthy.                                             *)

\* The startup task has server n to discover, and no request has touched it.
Tracked(n) == rows[n] # NoRow /\ rows[n].enabled = 1 /\ ~Touched(n)

\* The row says that the server is down, unless a probe has found it up.
Told(n) == rows[n].status = "healthy" => n \in foundUp

\* Its discovery finds the row, and ends with the tools known or the status told.
ProbeControl(n) ==
  LET d == <<Boot, n>>
  IN /\ At(d, "lookup") /\ Ran(d) => Discoverable(Row(d))
     /\ At(d, "healthy") => toolCache[n] # Absent
     /\ pc[d] \in {"unhealthy", "drop_lock"} => n \in missed
     /\ (At(d, "unhealthy") /\ Ran(d)) \/ At(d, "drop_lock") => Told(n)
     /\ At(d, "done") => toolCache[n] # Absent \/ (n \in missed /\ Told(n))

\* What the cursor of the startup task has read comes before n, or is n.
Reaches(n) ==
  \E m \in Names :
    reply[Boot][m] # NoRow /\ (m = n \/ reply[Boot][m].id < rows[n].id)

\* The startup task lists n, and gathers its discovery before it ends.
SweepControl(n) ==
  /\ At(Boot, "enabled") /\ phase[Boot] \in {"executed", "finishing"} => Reaches(n)
  /\ At(Boot, "enabled") /\ phase[Boot] = "finished" => reply[Boot][n] # NoRow
  /\ At(Boot, "gather") => ~At(<<Boot, n>>, "idle")
  /\ pc[Boot] \in {"total_lock", "done"} => At(<<Boot, n>>, "done")

\* What a task asks of the table while it lists, discovers or probes; nobody else
\* changes a status alone.
ProbeStatement(t) ==
  /\ At(t, "enabled") => stmt[t] = SelectEnabled
  /\ At(t, "lookup") => stmt[t] = Select(Subject(t))
  /\ pc[t] \in {"healthy", "up"} => stmt[t] = StatusUpdate(t, "healthy")
  /\ pc[t] \in {"unhealthy", "down"} => stmt[t] = StatusUpdate(t, "unhealthy")
  /\ stmt[t].op = "update" =>
       \/ t \in Clients /\ At(t, "update")
       \/ pc[t] \in {"healthy", "unhealthy", "up", "down"}

\* A probe that writes "healthy" is on record; the startup task probes nothing, it
\* discovers.
FindsRecorded == \A t \in Tasks : At(t, "up") => Subject(t) \in foundUp
StartupDiscovers == \A n \in Names : pc[<<Boot, n>>] \notin ProbeLocations

\* Ids tell rows apart.
Identified(T, next) ==
  \A n \in Names :
    T[n] # NoRow =>
      T[n].id < next /\ \A m \in Names \ {n} : T[m] # NoRow => T[m].id # T[n].id

\* Clients from before the crash do nothing any more; the discoveries of the others
\* have touched their servers, and so has whoever adds a server that was removed.
EarlierOver ==
  \A c \in earlier : At(c, "done") /\ \A n \in Names : At(<<c, n>>, "idle")
SpawnsTouch ==
  \A c \in Clients, n \in Names :
    pc[<<c, n>>] \in {"idle", "done"} \cup ProbeLocations \/ Touched(n)
RemovedOrTouched ==
  \A c \in Clients :
    (At(c, "remove") /\ Ran(c)) \/ At(c, "pop_lock") =>
      rows[req[c].name] = NoRow \/ Touched(req[c].name)

\* The inductive invariant behind HealthyIsServed.
SweepInv ==
  /\ RefusalInv /\ Identified(rows, nextId)
  /\ EarlierOver /\ SpawnsTouch /\ RemovedOrTouched /\ FindsRecorded /\ StartupDiscovers
  /\ \A t \in Tasks : ProbeStatement(t)
  /\ \A n \in Names : Tracked(n) => ProbeControl(n) /\ SweepControl(n)
ServedInv ==
  /\ IInv /\ RestartTypeOK /\ DurInv /\ StatementInv /\ SweepInv
  /\ Identified(saved.rows, saved.nextId)

LEMMA LeastNumber ==
  ASSUME NEW T \in SUBSET Nat, T # {}
  PROVE  \E x \in T : \A y \in T : x <= y
<1>1. PICK n : n \in T
  OBVIOUS
<1> DEFINE R == StrictSubsetOrdering(0..n)
           U == {S \in SUBSET (0..n) : \E x \in T : S = 0..x}
<1>2. IsWellFoundedOn(R, SUBSET (0..n))
  <2>1. IsFiniteSet(0..n)
    BY <1>1, FS_Interval
  <2>2. FiniteSubsetsOf(0..n) = SUBSET (0..n)
    BY <2>1, FS_FiniteSubsetsOfFinite
  <2> QED
    BY <2>2, FS_StrictSubsetOrderingWellFounded
<1>3. 0..n \in U
  BY <1>1
<1>4. PICK S \in U : \A V \in U : <<V, S>> \notin R
  <2> HIDE DEF R, U
  <2>1. U \subseteq SUBSET (0..n)
    BY DEF U
  <2> QED
    BY <1>2, <1>3, <2>1, WFMin
<1>5. PICK x \in T : S = 0..x
  BY <1>4
<1>6. ASSUME NEW y \in T, y < x PROVE FALSE
  <2>1. 0..y \in U /\ 0..y # 0..x /\ 0..y \subseteq 0..x
    BY <1>5, <1>4, <1>6
  <2> QED
    BY <2>1, <1>4, <1>5 DEF StrictSubsetOrdering
<1> QED
  BY <1>5, <1>6

\* Among rows there is an oldest one: the first a cursor comes to.
LEMMA OldestExists ==
  ASSUME rows \in Tables, NEW S \in SUBSET Names, \A n \in S : rows[n] # NoRow, S # {}
  PROVE  \E m \in S : m \in Oldest(S)
<1> DEFINE Ids == {rows[n].id : n \in S}
<1>1. Ids \in SUBSET Nat /\ Ids # {}
  BY DEF Tables, Rows
<1>2. PICK x \in Ids : \A y \in Ids : x <= y
  BY <1>1, LeastNumber
<1>3. PICK m \in S : x = rows[m].id
  BY <1>2
<1> QED
  BY <1>2, <1>3 DEF Oldest

\* The process that runs goes on running.
GoesOn == earlier' = earlier /\ Observe

LEMMA TouchedStays ==
  ASSUME RequestsStay, GoesOn, NEW n, Touched(n)
  PROVE  Touched(n)'
BY DEF RequestsStay, GoesOn, Observe, Touched

\* A client with something to do is of this process.
LEMMA BusyIsNew ==
  ASSUME ServedInv, NEW c \in Clients, pc[c] # "done"
  PROVE  c \in Clients \ earlier
BY DEF ServedInv, SweepInv, EarlierOver, At

-----------------------------------------------------------------------------
(* The engine, seen from a server that is tracked.                           *)

\* A discovery, but that of the startup task, has touched its server.
LEMMA ProbersTouch ==
  ASSUME ServedInv, NEW t \in Tasks, pc[t] \in DiscoveryLocations \cup {"spawned"}
  PROVE  /\ Subject(t) \in Names
         /\ t = <<Boot, Subject(t)>> \/ Touched(Subject(t))
<1>1. /\ Subject(t) \in Names /\ (t \in Clients \/ t \in Discoveries)
      /\ t \in Clients => req[t] \in Requests /\ req[t].op = "discover"
  BY Discovering DEF ServedInv, DiscoveryLocations, ProbeLocations
<1>2. CASE t \in Clients
  <2>1. req[t] # NoReq /\ Subject(t) = req[t].name
    BY <1>1, <1>2, RequestParts DEF Subject
  <2>2. t \in Clients \ earlier
    BY <1>2, BusyIsNew DEF DiscoveryLocations
  <2> QED
    BY <1>1, <1>2, <2>1, <2>2 DEF Touched
<1>3. CASE t \in Discoveries
  <2>1. PICK a \in Actors, m \in Names : t = <<a, m>>
    BY <1>3 DEF Discoveries
  <2>2. Subject(t) = m
    BY <1>3, <2>1, ClientsAreTasks DEF Subject
  <2>3. CASE a \in Clients
    BY <2>1, <2>2, <2>3
       DEF ServedInv, SweepInv, SpawnsTouch, DiscoveryLocations, ProbeLocations
  <2> QED
    BY <1>1, <2>1, <2>2, <2>3 DEF Actors
<1> QED
  BY <1>1, <1>2, <1>3

LEMMA StatusAssigned ==
  ASSUME NEW row \in Rows, NEW s \in Statuses
  PROVE  Assigned(row, [NoChange EXCEPT !.status = s]) = [row EXCEPT !.status = s]
<1> DEFINE c == [NoChange EXCEPT !.status = s]
<1>1. /\ c.url = Keep /\ c.enabled = Keep /\ c.allow = Keep /\ c.block = Keep
      /\ c.status = s /\ s # Keep
  BY AbsentValues DEF NoChange
<1> HIDE DEF c
<1>2. Assigned(row, c) = [row EXCEPT !.url = row.url, !.enabled = row.enabled,
                                     !.allow = row.allow, !.block = row.block, !.status = s]
  BY <1>1 DEF Assigned, Assign
<1> QED
  BY <1>2 DEF Rows, c

\* A row that changes is removed, or touched, or told that the server is down, or
\* told that it is healthy by a probe or by the discovery of the startup task.
LEMMA EngineTouches ==
  ASSUME ServedInv, NEW t \in Tasks, EngineStep(t), NEW n \in Names, rows'[n] # rows[n]
  PROVE  \/ rows'[n] = NoRow /\ stmt[t].op = "delete"
         \/ Touched(n)
         \/ rows[n] # NoRow /\ rows'[n] = [rows[n] EXCEPT !.status = "unhealthy"]
         \/ /\ n \in foundUp \/ (t = <<Boot, n>> /\ pc[t] = "healthy")
            /\ rows[n] # NoRow /\ rows'[n] = [rows[n] EXCEPT !.status = "healthy"]
<1>1. /\ Execute(t) /\ stmt[t].name = n /\ DbTypeOK
      /\ \/ stmt[t].op = "delete" /\ rows'[n] = NoRow
         \/ stmt[t].op = "insert"
         \/ /\ stmt[t].op = "update" /\ rows[n] # NoRow
            /\ rows'[n] = Assigned(rows[n], stmt[t].change)
  BY RowEffect DEF EngineStep, ServedInv, IInv, TypeOK
<1>2. OwnStatement(t) /\ ProbeStatement(t) /\ IInv /\ StatementInv
  BY DEF ServedInv, SweepInv, StatementInv
<1>3. CASE stmt[t].op = "insert" \/ (stmt[t].op = "update" /\ t \in Clients /\ At(t, "update"))
  <2>1. t \in Clients /\ pc[t] \in {"insert", "update"} /\ req[t].name = n
    BY <1>1, <1>2, <1>3 DEF OwnStatement, At, Insert, Update
  <2>2. req[t] # NoReq /\ req[t].op \in {"register", "patch"}
    BY <1>2, <2>1, ServingRequest DEF Serves
  <2>3. t \in Clients \ earlier
    BY <2>1, BusyIsNew
  <2> QED
    BY <2>1, <2>2, <2>3 DEF Touched
<1>4. ASSUME NEW v \in Statuses, stmt[t] = StatusUpdate(t, v)
      PROVE  /\ Subject(t) = n /\ rows[n] # NoRow
             /\ rows'[n] = [rows[n] EXCEPT !.status = v]
  <2>1. /\ Subject(t) = n /\ stmt[t].change = [NoChange EXCEPT !.status = v]
        /\ stmt[t].op = "update"
    BY <1>1, <1>4 DEF StatusUpdate, Update
  <2>2. rows[n] \in Rows
    BY <1>1, <2>1 DEF DbTypeOK, Tables
  <2>3. Assigned(rows[n], [NoChange EXCEPT !.status = v]) = [rows[n] EXCEPT !.status = v]
    BY <2>2, StatusAssigned
  <2>4. Assigned(rows[n], stmt[t].change) = [rows[n] EXCEPT !.status = v]
    BY <2>1, <2>3, Zenon
  <2> QED
    BY <1>1, <2>1, <2>4
<1>5. "healthy" \in Statuses /\ "unhealthy" \in Statuses
  BY DEF Statuses
<1>6. CASE pc[t] \in {"unhealthy", "down"}
  BY <1>2, <1>4, <1>5, <1>6 DEF ProbeStatement
<1>7. CASE pc[t] = "up"
  <2>1. /\ Subject(t) = n /\ rows[n] # NoRow
        /\ rows'[n] = [rows[n] EXCEPT !.status = "healthy"]
    BY <1>2, <1>4, <1>5, <1>7 DEF ProbeStatement
  <2>2. n \in foundUp
    BY <1>7, <2>1 DEF ServedInv, SweepInv, FindsRecorded, At
  <2> QED
    BY <2>1, <2>2
<1>8. CASE pc[t] = "healthy"
  <2>1. /\ Subject(t) = n /\ rows[n] # NoRow
        /\ rows'[n] = [rows[n] EXCEPT !.status = "healthy"]
    BY <1>2, <1>4, <1>5, <1>8 DEF ProbeStatement
  <2>2. t = <<Boot, n>> \/ Touched(n)
    BY <1>8, <2>1, ProbersTouch DEF DiscoveryLocations
  <2> QED
    BY <1>8, <2>1, <2>2
<1> QED
  BY <1>1, <1>2, <1>3, <1>6, <1>7, <1>8 DEF ProbeStatement

\* Whoever is tracked was tracked before, by the same id.
LEMMA EngineTracks ==
  ASSUME ServedInv, NEW t \in Tasks, EngineStep(t), GoesOn,
         NEW n \in Names, Tracked(n)'
  PROVE  /\ Tracked(n) /\ rows'[n].id = rows[n].id
         /\ \/ rows'[n] = rows[n] \/ rows'[n].status = "unhealthy"
            \/ n \in foundUp \/ (t = <<Boot, n>> /\ pc[t] = "healthy")
<1>1. RequestsStay
  BY DEF EngineStep, catVars, RequestsStay
<1>2. ~Touched(n)
  BY <1>1, TouchedStays DEF Tracked
<1>3. rows[n] \in {NoRow} \cup Rows
  BY DEF ServedInv, IInv, TypeOK, DbTypeOK, Tables
<1>4. CASE rows'[n] = rows[n]
  BY <1>2, <1>4 DEF Tracked
<1>5. CASE rows'[n] # rows[n]
  <2>1. PICK v \in Statuses :
          /\ rows[n] # NoRow /\ rows'[n] = [rows[n] EXCEPT !.status = v]
          /\ \/ v = "unhealthy"
             \/ n \in foundUp \/ (t = <<Boot, n>> /\ pc[t] = "healthy")
    BY <1>2, <1>5, EngineTouches DEF Tracked, Statuses
  <2>2. rows[n] \in Rows
    BY <1>3, <2>1
  <2>3. /\ rows'[n].id = rows[n].id /\ rows'[n].enabled = rows[n].enabled
        /\ rows'[n].status = v
    BY <2>1, <2>2 DEF Rows
  <2> QED
    BY <1>2, <2>1, <2>3 DEF Tracked
<1> QED
  BY <1>4, <1>5

LEMMA EngineKeepsProbe ==
  ASSUME ServedInv, NEW t \in Tasks, EngineStep(t), GoesOn, NEW n \in Names, Tracked(n),
         \/ rows'[n] = rows[n] \/ rows'[n].status = "unhealthy"
         \/ n \in foundUp \/ (t = <<Boot, n>> /\ pc[t] = "healthy")
  PROVE  ProbeControl(n)'
<1> DEFINE d == <<Boot, n>>
<1>1. /\ DbTypeOK /\ OthersKept(t) /\ stmt' = stmt /\ pc' = pc /\ toolCache' = toolCache
      /\ req' = req /\ ProbeControl(n) /\ (n \in foundUp => n \in foundUp')
      /\ (n \in missed => n \in missed')
  BY EngineEffect DEF EngineStep, catVars, ServedInv, SweepInv, IInv, TypeOK, GoesOn, Observe
<1>2. d \in Tasks /\ d \notin Clients /\ Subject(d) = n /\ Subject(d)' = n
  BY ClientsAreTasks DEF Actors, Subject
<1>3. /\ At(d, "lookup") => stmt[d] = Select(n)
      /\ At(d, "unhealthy") => stmt[d] = StatusUpdate(d, "unhealthy")
  BY <1>2 DEF ServedInv, SweepInv, ProbeStatement, At
<1>4. ASSUME At(d, "lookup"), Ran(d)' PROVE Discoverable(Row(d)')
  <2>1. CASE t = d /\ Execute(t)
    <3>1. Applied(d)
      BY <1>1, <1>4, <2>1, RunEffect DEF Ran
    <3>2. reply'[d] = Only({n}) /\ rows' = rows
      BY <1>3, <1>4, <3>1 DEF Applied, Select
    <3> QED
      BY <1>2, <3>2 DEF Only, Row, Tracked, Discoverable
  <2>2. CASE t = d /\ ~Execute(t)
    <3>1. Ran(d) /\ reply' = reply
      BY <1>1, <1>3, <1>4, <2>2, SecondJobEffect DEF EngineStep, Engine, Select
    <3> QED
      BY <1>1, <1>2, <1>4, <3>1 DEF ProbeControl, Row
  <2>3. CASE t # d
    BY <1>1, <1>2, <1>4, <2>3 DEF OthersKept, Ran, ProbeControl, Row
  <2> QED
    BY <2>1, <2>2, <2>3
<1>5. pc[d] # "healthy" /\ Told(n) => Told(n)'
  BY <1>1 DEF Told
<1>6. ASSUME At(d, "unhealthy"), Ran(d)' PROVE Told(n)'
  <2>1. CASE t = d /\ Execute(t)
    <3>1. Applied(d) /\ rows \in Tables
      BY <1>1, <1>6, <2>1, RunEffect DEF Ran, DbTypeOK
    <3>2. rows'[n] = Assigned(rows[n], [NoChange EXCEPT !.status = "unhealthy"])
      BY <1>2, <1>3, <1>6, <3>1 DEF Applied, StatusUpdate, Update, Tracked, Tables
    <3> QED
      BY <3>1, <3>2, AbsentValues
         DEF Assigned, Assign, NoChange, Statuses, Tracked, Tables, Rows, Told
  <2>2. CASE ~(t = d /\ Execute(t))
    <3>1. Ran(d)
      <4>1. CASE t = d
        BY <2>2, <4>1, SecondJobEffect, <1>1 DEF EngineStep, Engine
      <4>2. CASE t # d
        BY <1>1, <1>2, <1>6, <4>2 DEF OthersKept, Ran
      <4> QED
        BY <4>1, <4>2
    <3> QED
      BY <1>1, <1>6, <1>5, <2>2, <3>1 DEF ProbeControl, At
  <2> QED
    BY <2>1, <2>2
<1>7. /\ At(d, "drop_lock") => Told(n)'
      /\ At(d, "done") => toolCache[n] # Absent \/ (n \in missed' /\ Told(n)')
  BY <1>1, <1>5 DEF ProbeControl, At
<1> QED
  BY <1>1, <1>4, <1>6, <1>7 DEF ProbeControl, At

LEMMA EngineKeepsSweep ==
  ASSUME ServedInv, NEW t \in Tasks, EngineStep(t), NEW n \in Names, Tracked(n),
         rows'[n].id = rows[n].id
  PROVE  SweepControl(n)'
<1>1. /\ DbTypeOK /\ OthersKept(t) /\ stmt' = stmt /\ pc' = pc /\ SweepControl(n)
      /\ Identified(rows, nextId) /\ Boot \in Tasks
  BY EngineEffect, ClientsAreTasks
     DEF EngineStep, catVars, ServedInv, SweepInv, IInv, TypeOK
<1>2. /\ rows \in Tables /\ reply \in [Tasks -> Tables] /\ reply[Boot] \in Tables
      /\ phase \in [Tasks -> Phases] /\ n \in EnabledRows(rows) /\ rows[n] # NoRow
  BY <1>1 DEF DbTypeOK, EnabledRows, Tracked
<1>3. At(Boot, "enabled") => stmt[Boot].op = "list"
  BY <1>1 DEF ServedInv, SweepInv, ProbeStatement, SelectEnabled
<1>4. ASSUME At(Boot, "enabled"), t = Boot, Execute(t), Ran(t)'
      PROVE  Reaches(n)' /\ (phase'[Boot] = "finished" => reply'[Boot][n] # NoRow)
  <2>1. phase'[t] # "failed"
    BY <1>4 DEF Ran
  <2>2. ExecuteRead(t)
    BY <1>1, <1>2, <1>3, <1>4, <2>1
       DEF Execute, ExecuteInsert, ExecuteUpdate, ExecuteDelete, ExecuteRefused
  <2>3. reply'[Boot] = Only(ListedFirst) /\ phase'[Boot] = Executed /\ rows' = rows
    BY <1>1, <1>2, <1>3, <1>4, <2>2 DEF ExecuteRead
  <2>4. CASE Backend = "sqlite"
    <3>1. PICK m \in EnabledRows(rows) : m \in Oldest(EnabledRows(rows))
      BY <1>2, OldestExists DEF EnabledRows
    <3>2. /\ m \in Names /\ rows[m] # NoRow /\ reply'[Boot][m] = rows[m]
          /\ rows[m].id <= rows[n].id
      BY <1>2, <2>3, <2>4, <3>1 DEF ListedFirst, EnabledRows, Only, Oldest
    <3>3. m = n \/ rows[m].id # rows[n].id
      BY <1>1, <1>2, <3>2 DEF Identified
    <3>4. rows[m].id \in Nat /\ rows[n].id \in Nat
      BY <1>2, <3>2 DEF Tables, Rows
    <3>5. Reaches(n)'
      BY <2>3, <3>2, <3>3, <3>4 DEF Reaches
    <3> QED
      BY <2>3, <2>4, <3>5 DEF Executed
  <2>5. CASE Backend # "sqlite"
    <3>1. reply'[Boot][n] = rows[n]
      BY <1>2, <2>3, <2>5 DEF ListedFirst, Only
    <3> QED
      BY <1>2, <3>1 DEF Reaches
  <2> QED
    BY <2>4, <2>5
<1>5. ASSUME At(Boot, "enabled"), t = Boot, Continue(t)
      PROVE  Reaches(n)' /\ phase'[Boot] = "finishing"
  <2>1. Reaches(n) /\ reply' = reply /\ phase'[Boot] = "finishing"
    BY <1>1, <1>2, <1>5 DEF Continue, SweepControl
  <2> QED
    BY <2>1 DEF Reaches
<1>6. ASSUME At(Boot, "enabled"), t = Boot, Complete(t)
      PROVE  phase'[Boot] = "finished" /\ reply'[Boot][n] # NoRow
  <2>1. Reaches(n) /\ phase'[Boot] = "finished"
    BY <1>1, <1>2, <1>6 DEF Complete, SweepControl
  <2>2. reply'[Boot] = [m \in Names |-> IF m \in LaterRows(reply[Boot])
                                        THEN rows[m] ELSE reply[Boot][m]]
    BY <1>1, <1>2, <1>3, <1>6 DEF Complete
  <2>3. reply[Boot][n] # NoRow \/ n \in LaterRows(reply[Boot])
    BY <1>2, <2>1 DEF Reaches, LaterRows
  <2> QED
    BY <1>2, <2>1, <2>2, <2>3
<1>7. CASE t = Boot /\ At(Boot, "enabled")
  <2>1. Execute(t) \/ Continue(t) \/ Complete(t)
    BY DEF EngineStep, Engine
  <2> QED
    BY <1>1, <1>4, <1>5, <1>6, <1>7, <2>1 DEF SweepControl, At, Ran
<1>8. CASE ~(t = Boot /\ At(Boot, "enabled"))
  <2>1. At(Boot, "enabled") => phase'[Boot] = phase[Boot] /\ reply'[Boot] = reply[Boot]
    BY <1>1, <1>8 DEF OthersKept
  <2>2. At(Boot, "enabled") /\ Reaches(n) => Reaches(n)'
    BY <2>1 DEF Reaches
  <2> QED
    BY <1>1, <2>1, <2>2 DEF SweepControl, At
<1> QED
  BY <1>7, <1>8

\* A new row has an id of its own, and no row changes its id.
LEMMA EngineKeepsIds ==
  ASSUME DbTypeOK, NEW t \in Tasks, Engine(t), Identified(rows, nextId)
  PROVE  Identified(rows, nextId)'
<1>1. rows \in Tables /\ nextId \in Nat /\ \A n \in Names : rows[n] # NoRow => rows[n].id \in Nat
  BY DEF DbTypeOK, Tables, Rows
<1>2. nextId' \in Nat /\ nextId' >= nextId
  BY <1>1 DEF Engine, Execute, ExecuteRead, ExecuteInsert, ExecuteUpdate, ExecuteDelete,
              ExecuteRefused, Continue, Complete
<1>3. ASSUME NEW n \in Names, rows'[n] # NoRow
      PROVE  \/ rows[n] # NoRow /\ rows'[n].id = rows[n].id
             \/ rows'[n].id = nextId /\ nextId' = nextId + 1 /\ stmt[t].name = n
  <2>1. CASE rows[n] # NoRow
    BY <1>3, <2>1, EngineKeepsRows
  <2>2. CASE rows[n] = NoRow
    <3>1. /\ Execute(t) /\ Ran(t)' /\ stmt[t].name = n /\ stmt[t].op = "insert"
          /\ rows'[n] = InsertedRow(stmt[t].columns)
      BY <1>3, <2>2, RowEffect
    <3>2. ExecuteInsert(t) /\ rows' # rows
      BY <1>3, <2>2, <3>1 DEF Execute, ExecuteRead, ExecuteUpdate, ExecuteDelete, ExecuteRefused
    <3> QED
      BY <3>1, <3>2 DEF ExecuteInsert, InsertedRow
  <2> QED
    BY <2>1, <2>2
<1>4. ASSUME NEW n \in Names, rows'[n] # NoRow PROVE rows'[n].id < nextId'
  BY <1>1, <1>2, <1>3, <1>4 DEF Identified
<1>5. ASSUME NEW n \in Names, rows'[n] # NoRow, NEW m \in Names \ {n}, rows'[m] # NoRow
      PROVE  rows'[m].id # rows'[n].id
  <2>1. /\ rows[n] # NoRow => rows[n].id < nextId
        /\ rows[m] # NoRow => rows[m].id < nextId
        /\ rows[n] # NoRow /\ rows[m] # NoRow => rows[m].id # rows[n].id
    BY DEF Identified
  <2> QED
    BY <1>1, <1>3, <1>5, <2>1
<1> QED
  BY <1>4, <1>5 DEF Identified

LEMMA EngineKeepsRemoved ==
  ASSUME ServedInv, NEW t \in Tasks, EngineStep(t), GoesOn
  PROVE  RemovedOrTouched'
<1>1. /\ DbTypeOK /\ OthersKept(t) /\ stmt' = stmt /\ pc' = pc /\ req' = req
      /\ IInv /\ StatementInv
  BY EngineEffect DEF EngineStep, catVars, ServedInv, IInv, TypeOK
<1> SUFFICES ASSUME NEW c \in Clients, NEW n, n = req[c].name,
                    (At(c, "remove") /\ Ran(c)') \/ At(c, "pop_lock")
             PROVE  rows'[n] = NoRow \/ Touched(n)'
  BY <1>1 DEF RemovedOrTouched, At
<1>2. n = req[c].name /\ n \in Names
  BY <1>1, ServingRequest DEF At, Serves
<1>3. Touched(n) => Touched(n)'
  BY <1>1, TouchedStays DEF RequestsStay
<1>4. CASE (At(c, "remove") /\ Ran(c)) \/ At(c, "pop_lock")
  <2>1. rows[n] = NoRow \/ Touched(n)
    BY <1>2, <1>4 DEF ServedInv, SweepInv, RemovedOrTouched
  <2>2. CASE rows'[n] = rows[n]
    BY <1>2, <1>3, <2>1, <2>2
  <2>3. CASE rows'[n] # rows[n] /\ rows[n] = NoRow
    BY <1>2, <1>3, <2>3, EngineTouches
  <2> QED
    BY <1>2, <1>3, <2>1, <2>2, <2>3
<1>5. CASE At(c, "remove") /\ ~Ran(c)
  <2>1. t = c /\ c \in Tasks
    BY <1>1, <1>5, ClientsAreTasks DEF OthersKept, Ran, At
  <2>2. Execute(t)
    BY <1>1, <1>5, <2>1, SecondJobEffect DEF EngineStep, Engine
  <2>3. Applied(t)
    BY <1>1, <1>5, <2>1, <2>2, RunEffect DEF Ran, At
  <2>4. stmt[t] = Delete(n)
    BY <1>2, <1>5, <2>1
       DEF ServedInv, StatementInv, OwnStatement, DurInv, ReplyControl, At
  <2> QED
    BY <1>1, <1>2, <2>3, <2>4 DEF Applied, Delete, DbTypeOK, Tables
<1> QED
  BY <1>4, <1>5

\* What the engine does keeps all of it.
LEMMA EngineKeepsServed ==
  ASSUME ServedInv, NEW t \in Tasks, EngineStep(t), GoesOn
  PROVE  SweepInv'
<1>1. /\ DbTypeOK /\ stmt' = stmt /\ pc' = pc /\ req' = req /\ SweepInv
  BY EngineEffect DEF EngineStep, catVars, ServedInv, IInv, TypeOK
<1>2. RefusalInv' /\ Identified(rows, nextId)' /\ RemovedOrTouched'
  BY <1>1, EngineKeepsRefusals, EngineKeepsIds, EngineKeepsRemoved DEF EngineStep, SweepInv
<1>3. EarlierOver' /\ SpawnsTouch' /\ FindsRecorded' /\ StartupDiscovers'
  <2>1. \A n \in Names : Touched(n) => Touched(n)'
    BY <1>1, TouchedStays DEF RequestsStay
  <2>2. earlier' = earlier /\ foundUp \subseteq foundUp'
    BY DEF GoesOn, Observe
  <2> QED
    BY <1>1, <2>1, <2>2
       DEF SweepInv, EarlierOver, SpawnsTouch, FindsRecorded, StartupDiscovers, At, Subject
<1>4. \A u \in Tasks : ProbeStatement(u)'
  BY <1>1 DEF SweepInv, ProbeStatement, At, Subject, StatusUpdate
<1>5. ASSUME NEW n \in Names, Tracked(n)' PROVE ProbeControl(n)' /\ SweepControl(n)'
  <2>1. /\ Tracked(n) /\ rows'[n].id = rows[n].id
        /\ \/ rows'[n] = rows[n] \/ rows'[n].status = "unhealthy"
           \/ n \in foundUp \/ (t = <<Boot, n>> /\ pc[t] = "healthy")
    BY <1>5, EngineTracks
  <2> QED
    BY <2>1, EngineKeepsProbe, EngineKeepsSweep
<1> QED
  BY <1>2, <1>3, <1>4, <1>5 DEF SweepInv

-----------------------------------------------------------------------------
(* The code, seen from a server that is tracked.                             *)

\* A step of t creates the task u, a discovery or the probe of a canary cycle.
Spawns(t, u) ==
  \E m \in Names :
    /\ u = <<t, m>> /\ t \in Actors /\ pc[t] \notin {"gather", "done"}
    /\ \/ pc'[u] = "probing" /\ t \in Clients
       \/ /\ pc'[u] = "spawned"
          /\ t \in Clients =>
               /\ req[t] # NoReq
               /\ \/ req[t].op \in {"register", "patch"} /\ req[t].name = m
                  \/ req[t].op = "refresh"

\* A step of t may drop the tools of n.
Drops(t, n) ==
  /\ Subject(t) = n
  /\ \/ pc[t] = "drop_lock" \/ (pc[t] = "unhealthy" /\ Ran(t))
     \/ t \in Clients /\ (pc[t] = "pop_lock" \/ (pc[t] = "remove" /\ Ran(t)))
ToolsStay(t) ==
  \A n \in Names : toolCache'[n] = toolCache[n] \/ toolCache'[n] # Absent \/ Drops(t, n)

\* What every step of a task comes to.  A probe stays a probe, and so does a discovery.
SweepStep(t) ==
  /\ pc[t] # "done" /\ pc'[t] # "idle" /\ (t \in Discoveries => pc[t] # "idle")
  /\ pc'[t] = "up" => pc[t] = "probing"
  /\ t \in Discoveries =>
       /\ pc'[t] \in ProbeLocations => pc[t] \in ProbeLocations
       /\ pc[t] \in ProbeLocations => pc'[t] \in ProbeLocations \cup {"done"}
  /\ nextId' = nextId
  /\ \A u \in Tasks \ {t} : pc'[u] = pc[u] \/ Spawns(t, u)
  /\ ToolsStay(t)
  /\ ProbeStatement(t)'

LEMMA CallStatement ==
  ASSUME DbTypeOK, NEW t \in Tasks
  PROVE  /\ \A s : Submit(t, s) \/ Chain(t, s) \/ Recover(t, s) =>
                     stmt'[t] = s /\ nextId' = nextId
         /\ Take(t) \/ Return(t) \/ Raise(t) => stmt'[t].op = "none" /\ nextId' = nextId
         /\ Take(t) \/ Return(t) \/ (\E s : Chain(t, s)) => Ran(t)
BY DEF DbTypeOK, Submit, Chain, Recover, Take, Return, Raise, Issue, Leave, NoStatement,
       HasResult, Ran

\* A task goes to where it neither lists nor probes.
LEMMA QuietSwept ==
  ASSUME ServedInv, NEW t \in Tasks,
         pc[t] # "done" /\ (t \in Discoveries => pc[t] # "idle"),
         NEW l \in Locations \ {"idle", "enabled", "lookup", "healthy", "unhealthy",
                                "up", "down"},
         Goto(t, l), ToolsStay(t),
         t \in Discoveries => l # "probing" /\ (pc[t] \in ProbeLocations => l = "done"),
         \/ Return(t) \/ Raise(t) \/ Take(t)
         \/ UNCHANGED dbVars /\ pc[t] \notin Querying
         \/ \E s : /\ s.op # "update" \/ (t \in Clients /\ l = "update")
                   /\ Submit(t, s) \/ Chain(t, s)
  PROVE  SweepStep(t)
<1>1. pc \in [Tasks -> Locations] /\ DbTypeOK /\ ProbeStatement(t)
  BY DEF ServedInv, SweepInv, IInv, TypeOK
<1>2. pc'[t] = l /\ \A u \in Tasks \ {t} : pc'[u] = pc[u]
  BY <1>1 DEF Goto
<1>3. nextId' = nextId /\ (stmt'[t].op # "update" \/ (t \in Clients /\ l = "update"))
  BY <1>1, CallStatement DEF dbVars, ProbeStatement, Querying, At
<1>4. ProbeStatement(t)'
  BY <1>2, <1>3 DEF ProbeStatement, At
<1> QED
  BY <1>2, <1>3, <1>4 DEF SweepStep, ProbeLocations

\* A task goes to where it does, with the statement that belongs there.
LEMMA AsksSwept ==
  ASSUME ServedInv, NEW t \in Tasks,
         pc[t] # "done" /\ (t \in Discoveries => pc[t] # "idle"),
         NEW l, NEW s, Goto(t, l), ToolsStay(t),
         \/ l = "enabled" /\ s = SelectEnabled
         \/ /\ Subject(t)' = Subject(t)
            /\ \/ l = "lookup" /\ s = Select(Subject(t))
               \/ l \in {"healthy", "up"} /\ s = StatusUpdate(t, "healthy")
               \/ l \in {"unhealthy", "down"} /\ s = StatusUpdate(t, "unhealthy"),
         l = "up" => pc[t] = "probing",
         t \in Discoveries => (l \in ProbeLocations <=> pc[t] \in ProbeLocations),
         Submit(t, s) \/ Chain(t, s) \/ Recover(t, s)
  PROVE  SweepStep(t)
<1>1. pc \in [Tasks -> Locations] /\ DbTypeOK
  BY DEF ServedInv, IInv, TypeOK
<1>2. pc'[t] = l /\ \A u \in Tasks \ {t} : pc'[u] = pc[u]
  BY <1>1 DEF Goto
<1>3. nextId' = nextId /\ stmt'[t] = s
  BY <1>1, CallStatement
<1>4. ProbeStatement(t)'
  BY <1>2, <1>3
     DEF ProbeStatement, At, SelectEnabled, Select, StatusUpdate, Update
<1> QED
  BY <1>2, <1>3, <1>4 DEF SweepStep

\* It answers, and creates a task for its server.
LEMMA SpawnSwept ==
  ASSUME ServedInv, NEW c \in Clients, pc[c] \in {"reread", "updated"}, Return(c),
         NEW code, AnswerAndSpawn(c, code, req[c].name), UNCHANGED toolCache
  PROVE  SweepStep(c)
<1>1. /\ pc \in [Tasks -> Locations] /\ DbTypeOK /\ c \in Tasks /\ c \in Actors
      /\ req[c] # NoReq /\ req[c].op \in {"register", "patch"} /\ req[c].name \in Names
  BY ServingRequest DEF ServedInv, Serves, Actors
<1>2. c \notin Discoveries /\ <<c, req[c].name>> \in Tasks /\ c # <<c, req[c].name>>
  BY <1>1, ClientsAreTasks
<1>3. /\ pc'[c] = "done" /\ pc'[<<c, req[c].name>>] = "spawned"
      /\ \A u \in Tasks \ {c, <<c, req[c].name>>} : pc'[u] = pc[u]
  BY <1>1, <1>2 DEF AnswerAndSpawn
<1>4. nextId' = nextId /\ stmt'[c].op = "none"
  BY <1>1, CallStatement
<1>5. ProbeStatement(c)' /\ ToolsStay(c)
  BY <1>3, <1>4 DEF ProbeStatement, At, ToolsStay
<1>6. \A u \in Tasks \ {c} : pc'[u] = pc[u] \/ Spawns(c, u)
  BY <1>1, <1>3 DEF Spawns
<1> QED
  BY <1>2, <1>3, <1>4, <1>5, <1>6 DEF SweepStep

LEMMA PopStays ==
  ASSUME ServedInv, NEW c \in Clients,
         pc[c] = "pop_lock" \/ (pc[c] = "remove" /\ Ran(c)), PopAndForget(c)
  PROVE  ToolsStay(c) /\ Goto(c, "done")
BY DEF ServedInv, IInv, TypeOK, PopAndForget, Answer, ToolsStay, Drops, Subject

LEMMA RegisterSwept ==
  ASSUME ServedInv, NEW c \in Clients, RegisterCheck(c) \/ RegisterInsert(c) \/ RegisterDone(c)
  PROVE  SweepStep(c)
<1>1. /\ c \in Tasks /\ c \notin Discoveries /\ pc[c] \in {"check", "insert", "reread"}
      /\ UNCHANGED toolCache /\ ToolsStay(c)
  BY ClientsAreTasks DEF RegisterCheck, RegisterInsert, RegisterDone, At, ToolsStay
<1>2. CASE RegisterCheck(c) \/ RegisterInsert(c)
  BY <1>1, <1>2, QuietSwept
     DEF RegisterCheck, RegisterInsert, Answer, Insert, Select, Locations
<1>3. CASE RegisterDone(c)
  BY <1>1, <1>3, SpawnSwept DEF RegisterDone, At
<1> QED
  BY <1>2, <1>3

LEMMA PatchSwept ==
  ASSUME ServedInv, NEW c \in Clients, PatchCheck(c) \/ PatchReread(c) \/ PatchDone(c)
  PROVE  SweepStep(c)
<1>1. /\ c \in Tasks /\ c \notin Discoveries /\ pc[c] \in {"check", "update", "updated"}
      /\ UNCHANGED toolCache /\ ToolsStay(c)
  BY ClientsAreTasks DEF PatchCheck, PatchReread, PatchDone, At, ToolsStay
<1>2. ASSUME Return(c), NEW code, Answer(c, code) PROVE SweepStep(c)
  BY <1>1, <1>2, QuietSwept DEF Answer, Locations
<1>3. ASSUME NEW l \in {"update", "updated"}, NEW s, Chain(c, s), Goto(c, l),
             s.op # "update" \/ l = "update"
      PROVE  SweepStep(c)
  BY <1>1, <1>3, QuietSwept DEF Locations
<1>4. CASE PatchCheck(c)
  BY <1>2, <1>3, <1>4 DEF PatchCheck, Select, Update
<1>5. CASE PatchReread(c)
  BY <1>3, <1>5 DEF PatchReread, Select
<1>6. CASE PatchDone(c)
  BY <1>1, <1>2, <1>6, SpawnSwept DEF PatchDone, At
<1> QED
  BY <1>4, <1>5, <1>6

LEMMA DeleteSwept ==
  ASSUME ServedInv, NEW c \in Clients, DeleteCheck(c) \/ DeleteRow(c) \/ DeletePop(c)
  PROVE  SweepStep(c)
<1>1. c \in Tasks /\ c \notin Discoveries /\ pc[c] \in {"check", "remove", "pop_lock"}
  BY ClientsAreTasks DEF DeleteCheck, DeleteRow, DeletePop, At
<1>2. CASE DeleteCheck(c)
  BY <1>1, <1>2, QuietSwept DEF DeleteCheck, Answer, Delete, Locations, ToolsStay
<1>3. CASE DeleteRow(c)
  <2>1. pc[c] = "remove" /\ Return(c) /\ Ran(c)
    BY <1>1, <1>3, CallStatement DEF DeleteRow, At, ServedInv, IInv, TypeOK
  <2>2. CASE PopAndForget(c)
    BY <1>1, <2>1, <2>2, PopStays, QuietSwept DEF Locations
  <2>3. CASE WaitLock(c, "pop_lock") /\ UNCHANGED toolCache
    BY <1>1, <2>1, <2>3, QuietSwept DEF Locations, WaitLock, ToolsStay
  <2> QED
    BY <1>3, <2>2, <2>3 DEF DeleteRow
<1>4. CASE DeletePop(c)
  BY <1>1, <1>4, PopStays, QuietSwept DEF DeletePop, At, Locations, Querying
<1> QED
  BY <1>2, <1>3, <1>4

LEMMA ListSwept ==
  ASSUME ServedInv, NEW c \in Clients, ListLocked(c) \/ ListFilled(c)
  PROVE  SweepStep(c)
<1>1. /\ c \in Tasks /\ c \notin Discoveries /\ pc[c] \in {"list_lock", "list_query"}
      /\ ToolsStay(c)
  BY ClientsAreTasks DEF ListLocked, ListFilled, At, ToolsStay
<1>2. ASSUME Goto(c, "done"), Return(c) \/ (UNCHANGED dbVars /\ pc[c] = "list_lock")
      PROVE  SweepStep(c)
  BY <1>1, <1>2, QuietSwept DEF Locations, Querying
<1>3. ASSUME NEW m \in Names, Goto(c, "list_query"),
             Submit(c, Select(m)) \/ Chain(c, Select(m))
      PROVE  SweepStep(c)
  BY <1>1, <1>3, QuietSwept DEF Locations, Select
<1> QED
  BY <1>2, <1>3 DEF ListLocked, ListFilled, WalkEnds, WalkStops, Answer, At

LEMMA DiscoverCheckSwept ==
  ASSUME ServedInv, NEW c \in Clients, DiscoverCheck(c)
  PROVE  SweepStep(c)
<1>1. c \in Tasks /\ c \notin Discoveries /\ pc[c] = "check" /\ ToolsStay(c)
  BY ClientsAreTasks DEF DiscoverCheck, At, ToolsStay
<1>2. Subject(c) = req[c].name /\ Subject(c)' = Subject(c)
  BY DEF DiscoverCheck, Subject
<1>3. CASE Return(c) /\ Answer(c, 404)
  BY <1>1, <1>3, QuietSwept DEF Answer, Locations
<1>4. CASE Chain(c, Select(req[c].name)) /\ Goto(c, "lookup")
  BY <1>1, <1>2, <1>4, AsksSwept
<1> QED
  BY <1>3, <1>4 DEF DiscoverCheck

LEMMA ProbeCheckSwept ==
  ASSUME ServedInv, NEW c \in Clients, ProbeCheck(c)
  PROVE  SweepStep(c)
<1>1. c \in Tasks /\ c \notin Discoveries /\ pc[c] = "check" /\ ToolsStay(c)
  BY ClientsAreTasks DEF ProbeCheck, At, ToolsStay
<1>2. Return(c) /\ (Goto(c, "done") \/ Goto(c, "probing"))
  BY DEF ProbeCheck, Answer
<1> QED
  BY <1>1, <1>2, QuietSwept DEF Locations

LEMMA ReceiveSwept ==
  ASSUME ServedInv, NEW c \in Clients, Receive(c)
  PROVE  SweepStep(c)
<1>1. PICK r \in Requests : ReceiveLookup(c, r) \/ ReceiveList(c, r) \/ ReceiveRefresh(c, r)
  BY DEF Receive
<1>2. c \in Tasks /\ c \notin Discoveries /\ pc[c] = "idle" /\ ToolsStay(c)
  BY <1>1, ClientsAreTasks DEF ReceiveLookup, ReceiveList, ReceiveRefresh, At, ToolsStay
<1>3. CASE ReceiveLookup(c, r)
  BY <1>2, <1>3, QuietSwept DEF ReceiveLookup, Select, Locations
<1>4. CASE ReceiveRefresh(c, r)
  BY <1>2, <1>4, AsksSwept DEF ReceiveRefresh
<1>5. CASE ReceiveList(c, r)
  <2>1. \/ UNCHANGED dbVars /\ (Goto(c, "done") \/ Goto(c, "list_lock"))
        \/ \E m \in Names : Goto(c, "list_query") /\ Submit(c, Select(m))
    BY <1>5 DEF ReceiveList, WalkEnds, WalkStops, Answer, WaitLock
  <2> QED
    BY <1>2, <2>1, QuietSwept DEF Select, Locations, Querying
<1> QED
  BY <1>1, <1>3, <1>4, <1>5

LEMMA HandlerSwept ==
  ASSUME ServedInv, NEW c \in Clients, Handler(c)
  PROVE  SweepStep(c)
BY RegisterSwept, PatchSwept, DeleteSwept, ListSwept, DiscoverCheckSwept, ProbeCheckSwept
   DEF Handler

LEMMA RefreshSwept ==
  ASSUME ServedInv, NEW a \in Actors, Refresh(a)
  PROVE  SweepStep(a)
<1>1. /\ pc[a] \in {"enabled", "gather", "total_lock", "answer_lock"} /\ ToolsStay(a)
  BY DEF Refresh, Gather, CountTotal, CanaryEnds, At, ToolsStay
<1>2. /\ a \in Tasks /\ a \notin Discoveries /\ DbTypeOK /\ pc \in [Tasks -> Locations]
      /\ (a \in Clients => req[a].op \in {"refresh", "canary"} /\ req[a] # NoReq)
  BY <1>1, Refreshing, TasksAssumption, RequestParts DEF ServedInv, IInv, TypeOK
<1>3. CASE Gather(a)
  <2>1. /\ pc[a] = "enabled" /\ Return(a)
        /\ pc' = [t \in Tasks |->
              IF t = a THEN "gather"
              ELSE IF \E n \in Names : reply[a][n] # NoRow /\ t = <<a, n>>
                   THEN Begun(a) ELSE pc[t]]
    BY <1>3 DEF Gather, At
  <2>2. pc'[a] = "gather" /\ \A u \in Tasks \ {a} : pc'[u] = pc[u] \/ Spawns(a, u)
    <3>1. \/ Begun(a) = "probing" /\ a \in Clients
          \/ Begun(a) = "spawned" /\ (a \in Clients => req[a].op = "refresh")
      BY <1>2 DEF Begun, Canary
    <3> QED
      BY <1>2, <2>1, <3>1 DEF Spawns
  <2>3. nextId' = nextId /\ stmt'[a].op = "none"
    BY <1>2, <2>1, CallStatement
  <2>4. ProbeStatement(a)'
    BY <2>2, <2>3 DEF ProbeStatement, At
  <2> QED
    BY <1>1, <1>2, <2>1, <2>2, <2>3, <2>4 DEF SweepStep
<1>4. CASE CountTotal(a)
  <2>1. /\ UNCHANGED dbVars /\ pc[a] \notin Querying
        /\ \E l \in {"done", "sleep", "total_lock", "answer_lock"} : Goto(a, l)
    BY <1>4 DEF CountTotal, AfterTotal, Answer, WaitLock, At, Querying
  <2> QED
    BY <1>1, <1>2, <2>1, QuietSwept DEF Locations
<1>5. CASE CanaryEnds(a)
  <2>1. UNCHANGED dbVars /\ pc[a] \notin Querying /\ Goto(a, "done")
    BY <1>5 DEF CanaryEnds, Answer, At, Querying
  <2> QED
    BY <1>1, <1>2, <2>1, QuietSwept DEF Locations
<1> QED
  BY <1>3, <1>4, <1>5 DEF Refresh

LEMMA StartupSwept ==
  ASSUME ServedInv, StartupRefresh
  PROVE  SweepStep(Boot)
<1>1. Boot \in Tasks /\ Boot \notin Discoveries
  BY ClientsAreTasks
<1> QED
  BY <1>1, AsksSwept DEF StartupRefresh, ToolsStay

LEMMA StoreStays ==
  ASSUME ServedInv, NEW t \in Tasks, pc[t] \in {"fetch", "store_lock"}, StoreTools(t)
  PROVE  ToolsStay(t) /\ toolCache'[Subject(t)] # Absent
<1>1. Subject(t) \in Names /\ Row(t) \in Rows
  BY Discovering DEF ServedInv, DiscoveryLocations
<1>2. Offers[Row(t).url] # Absent
  BY <1>1, CatalogAssumption DEF Rows
<1> QED
  BY <1>1, <1>2 DEF StoreTools, ToolsStay, ServedInv, IInv, TypeOK

LEMMA DropStays ==
  ASSUME ServedInv, NEW t \in Tasks,
         pc[t] = "drop_lock" \/ (pc[t] = "unhealthy" /\ Ran(t)), DropTools(t)
  PROVE  ToolsStay(t) /\ Goto(t, "done")
BY DEF ServedInv, IInv, TypeOK, DropTools, EndDiscovery, Answer, ToolsStay, Drops

LEMMA DiscoverySwept ==
  ASSUME ServedInv, NEW t \in Tasks, Fetch(t) \/ Discovery(t) \/ StatusHealthyFails(t)
  PROVE  SweepStep(t)
<1>1. /\ pc[t] \in DiscoveryLocations \cup ProbeLocations \cup {"spawned"} /\ req' = req
  BY DEF Fetch, FetchSucceeds, FetchFails, Discovery, DiscoveryStart, DiscoveryLookup,
         StoreLocked, StatusHealthy, StatusUnhealthy, DropLocked, StatusHealthyFails,
         ProbeSucceeds, ProbeFails, ProbeExpires, ProbeEnds,
         At, DiscoveryLocations, ProbeLocations
<1>2. pc[t] \notin {"idle", "done"} /\ Subject(t)' = Subject(t) /\ DbTypeOK
  BY <1>1 DEF DiscoveryLocations, ProbeLocations, Subject, ServedInv, IInv, TypeOK
<1>3. UNCHANGED toolCache => ToolsStay(t)
  BY DEF ToolsStay
<1>4. ASSUME ToolsStay(t), Goto(t, "done"),
             Return(t) \/ (UNCHANGED dbVars /\ pc[t] \notin Querying)
      PROVE  SweepStep(t)
  BY <1>2, <1>4, QuietSwept DEF Locations
<1>5. ASSUME UNCHANGED toolCache, NEW l \in {"fetch", "store_lock", "drop_lock"}, Goto(t, l),
             Take(t) \/ Return(t) \/ (UNCHANGED dbVars /\ pc[t] \notin Querying),
             pc[t] \notin ProbeLocations
      PROVE  SweepStep(t)
  BY <1>2, <1>3, <1>5, QuietSwept DEF Locations
<1>6. CASE DiscoveryStart(t)
  BY <1>2, <1>3, <1>6, AsksSwept DEF DiscoveryStart, At, ProbeLocations
<1>7. CASE DiscoveryLookup(t)
  BY <1>3, <1>4, <1>5, <1>7 DEF DiscoveryLookup, EndDiscovery, Answer, At, ProbeLocations
<1>8. CASE pc[t] \in {"fetch", "store_lock"} /\ StoreTools(t)
  BY <1>2, <1>8, StoreStays, AsksSwept DEF StoreTools, SetStatus, ProbeLocations
<1>9. CASE FetchSucceeds(t) \/ StoreLocked(t)
  BY <1>5, <1>8, <1>9 DEF FetchSucceeds, StoreLocked, WaitLock, At, Querying, ProbeLocations
<1>10. CASE FetchFails(t) \/ ProbeSucceeds(t) \/ ProbeFails(t) \/ StatusHealthyFails(t)
  BY <1>2, <1>3, <1>10, AsksSwept
     DEF FetchFails, ProbeSucceeds, ProbeFails, StatusHealthyFails, SetStatus, At,
         ProbeLocations
<1>11. CASE StatusHealthy(t) \/ ProbeEnds(t) \/ ProbeExpires(t)
  BY <1>3, <1>4, <1>11
     DEF StatusHealthy, ProbeEnds, ProbeExpires, EndDiscovery, Answer, At, Querying
<1>12. CASE StatusUnhealthy(t)
  <2>1. pc[t] = "unhealthy" /\ Return(t) /\ Ran(t)
    BY <1>2, <1>12, CallStatement DEF StatusUnhealthy, At
  <2>2. CASE DropTools(t)
    BY <1>4, <2>1, <2>2, DropStays
  <2> QED
    BY <1>5, <1>12, <2>1, <2>2 DEF StatusUnhealthy, WaitLock, ProbeLocations
<1>13. CASE DropLocked(t)
  BY <1>4, <1>13, DropStays DEF DropLocked, At, Querying
<1> QED
  BY <1>6, <1>7, <1>9, <1>10, <1>11, <1>12, <1>13 DEF Fetch, Discovery

LEMMA QueryFailsSwept ==
  ASSUME ServedInv, NEW t \in Tasks, QueryFails(t)
  PROVE  SweepStep(t)
<1>1. Raise(t) /\ phase[t] # "idle" /\ Goto(t, "done") /\ ToolsStay(t)
  BY DEF QueryFails, Raise, HasError, GiveUp, Answer, ToolsStay
<1>2. pc[t] \notin {"idle", "done"}
  BY <1>1, NotQuerying DEF Querying, ServedInv
<1> QED
  BY <1>1, <1>2, QuietSwept DEF Locations

\* A step of the code, by the task that takes it.
TaskAction(t) ==
  \/ Fetch(t) \/ Discovery(t) \/ Fails(t)
  \/ t \in Clients /\ (Receive(t) \/ Handler(t))
  \/ t \in Actors /\ Refresh(t)
  \/ t = Boot /\ StartupRefresh

LEMMA ActionKinds ==
  ASSUME Next
  PROVE  UNCHANGED vars \/ \E t \in Tasks : EngineStep(t) \/ TaskAction(t)
BY ClientsAreTasks, TasksAssumption DEF Next, TaskAction

LEMMA ActionEffect ==
  ASSUME ServedInv, NEW t \in Tasks, TaskAction(t)
  PROVE  /\ TaskMove(t) /\ SweepStep(t) /\ RequestsStay /\ DbTypeOK /\ DbCall(t)
         /\ OthersKept(t) /\ rows' = rows /\ Elsewhere(t)
<1>1. IInv /\ StatementInv
  BY DEF ServedInv
<1>2. TaskMove(t)
  BY <1>1, DiscoveryMove, QueryFailsMove, ReceiveMove, HandlerMove, RefreshMove, StartupMove
     DEF TaskAction, Fails, TaskMove
<1>3. SweepStep(t)
  BY DiscoverySwept, QueryFailsSwept, ReceiveSwept, HandlerSwept, RefreshSwept, StartupSwept
     DEF TaskAction, Fails
<1> QED
  BY <1>1, <1>2, <1>3, MoveEffect, MoveKeepsRequests

\* Where the lookups, listings and status updates are not refused, none of them fails.
NoneRefused == Fallible \cap {"select", "list", "update"} = {}

LEMMA NoneFails ==
  ASSUME ServedInv, NoneRefused, NEW t \in Tasks,
         pc[t] \in {"enabled", "lookup", "healthy", "unhealthy"}
  PROVE  ~HasError(t)
<1>1. ProbeStatement(t)
  BY DEF ServedInv, SweepInv
<1>2. \/ stmt[t] = SelectEnabled \/ stmt[t] = Select(Subject(t))
      \/ stmt[t] = StatusUpdate(t, "healthy") \/ stmt[t] = StatusUpdate(t, "unhealthy")
  BY <1>1 DEF ProbeStatement, At
<1>3. stmt[t].op \in {"select", "list", "update"}
  BY <1>2 DEF SelectEnabled, Select, StatusUpdate, Update
<1> QED
  BY <1>3 DEF NoneRefused, HasError, ServedInv, SweepInv, RefusalInv

\* The discovery of the startup task goes on.
LEMMA StartupProbeMoves ==
  ASSUME ServedInv, NoneRefused, NEW n \in Names, Tracked(n), TaskAction(<<Boot, n>>), GoesOn
  PROVE  ProbeControl(n)'
<1> DEFINE d == <<Boot, n>>
<1>1. /\ d \in Tasks /\ d \notin Clients /\ d \notin Actors /\ d # Boot
      /\ Subject(d) = n /\ Subject(d)' = n
  BY ClientsAreTasks, TasksAssumption DEF Actors, Subject
<1>2. /\ ProbeControl(n) /\ DbTypeOK /\ pc \in [Tasks -> Locations]
      /\ toolCache \in [Names -> {Absent} \cup SUBSET Tools]
  BY DEF ServedInv, SweepInv, IInv, TypeOK
<1>3. rows' = rows /\ (Told(n) => Told(n)') /\ (n \in missed => n \in missed')
  BY <1>1, ActionEffect DEF GoesOn, Observe, Told
<1> HIDE DEF d
<1>4. Fetch(d) \/ Discovery(d) \/ Fails(d)
  BY <1>1 DEF TaskAction, d
<1>5. ~Fails(d) /\ pc[d] \notin ProbeLocations
  <2>1. pc[d] \notin ProbeLocations
    BY DEF d, ServedInv, SweepInv, StartupDiscovers
  <2>2. ASSUME HasError(d) PROVE pc[d] \in {"enabled", "lookup", "healthy", "unhealthy"}
    <3>1. pc[d] \in Querying /\ TaskControl(d)
      BY <1>1, <2>2, NotQuerying DEF HasError, ServedInv, IInv
    <3>2. d \in Discoveries
      BY <1>1, TasksAssumption
    <3> QED
      BY <2>1, <3>1, <3>2 DEF Querying, TaskControl, DiscoveryLocations, ProbeLocations
  <2>3. ~HasError(d)
    BY <1>1, <2>2, NoneFails
  <2> QED
    BY <2>1, <2>3 DEF Fails, QueryFails, StatusHealthyFails, Raise, Recover
<1>6. ASSUME pc'[d] \in {"fetch", "store_lock"} PROVE ProbeControl(n)'
  BY <1>6 DEF ProbeControl, At, d
<1>7. ASSUME pc'[d] \in {"lookup", "unhealthy"}, phase'[d] = "queued",
             pc'[d] = "unhealthy" => n \in missed'
      PROVE  ProbeControl(n)'
  BY <1>7 DEF ProbeControl, At, Ran, d
<1>8. ASSUME pc'[d] \in {"healthy", "done"}, toolCache'[n] # Absent PROVE ProbeControl(n)'
  BY <1>8 DEF ProbeControl, At, d
<1>9. ASSUME pc'[d] \in {"drop_lock", "done"}, Told(n), n \in missed
      PROVE ProbeControl(n)'
  BY <1>3, <1>9 DEF ProbeControl, At, d
<1>10. CASE DiscoveryStart(d)
  BY <1>1, <1>2, <1>7, <1>10, SubmitEffect DEF DiscoveryStart, Goto
<1>11. CASE DiscoveryLookup(d)
  <2>1. pc[d] = "lookup" /\ Ran(d)
    BY <1>1, <1>2, <1>11, CallStatement DEF DiscoveryLookup, At
  <2>2. Discoverable(Row(d))
    BY <1>2, <2>1 DEF ProbeControl, At, d
  <2> QED
    BY <1>1, <1>2, <1>6, <1>11, <2>2 DEF DiscoveryLookup, Goto
<1>12. CASE pc[d] \in {"fetch", "store_lock"} /\ StoreTools(d)
  BY <1>1, <1>2, <1>8, <1>12, StoreStays DEF StoreTools, Goto
<1>13. CASE FetchSucceeds(d) \/ StoreLocked(d)
  BY <1>1, <1>2, <1>6, <1>12, <1>13 DEF FetchSucceeds, StoreLocked, WaitLock, Goto, At
<1>14. CASE FetchFails(d)
  <2>1. pc[d] = "fetch" /\ pc'[d] = "unhealthy" /\ phase'[d] = "queued"
    BY <1>1, <1>2, <1>14, SubmitEffect DEF FetchFails, SetStatus, Goto, At
  <2>2. n \in missed'
    BY <2>1 DEF GoesOn, Observe, Misses, At, d
  <2> QED
    BY <1>7, <2>1, <2>2
<1>15. CASE StatusHealthy(d)
  BY <1>1, <1>2, <1>8, <1>15 DEF StatusHealthy, EndDiscovery, Goto, ProbeControl, At, d
<1>16. CASE StatusUnhealthy(d) \/ DropLocked(d)
  <2>1. pc[d] = "drop_lock" \/ (pc[d] = "unhealthy" /\ Ran(d))
    BY <1>1, <1>2, <1>16, CallStatement DEF StatusUnhealthy, DropLocked, At
  <2>2. Told(n) /\ n \in missed
    BY <1>2, <2>1 DEF ProbeControl, At, d
  <2>3. pc'[d] \in {"drop_lock", "done"}
    BY <1>1, <1>2, <1>16
       DEF StatusUnhealthy, DropLocked, DropTools, EndDiscovery, WaitLock, Goto
  <2> QED
    BY <1>9, <2>2, <2>3
<1>17. ~(ProbeSucceeds(d) \/ ProbeFails(d) \/ ProbeExpires(d) \/ ProbeEnds(d))
  BY <1>5 DEF ProbeSucceeds, ProbeFails, ProbeExpires, ProbeEnds, At, ProbeLocations
<1> QED
  BY <1>4, <1>5, <1>10, <1>11, <1>13, <1>14, <1>15, <1>16, <1>17 DEF Fetch, Discovery

\* The startup task goes on.
LEMMA SweepMoves ==
  ASSUME ServedInv, NoneRefused, NEW n \in Names, Tracked(n), TaskAction(Boot)
  PROVE  SweepControl(n)'
<1> DEFINE d == <<Boot, n>>
<1>1. /\ Boot \in Tasks /\ Boot \notin Clients /\ Boot \in Actors /\ d \in Tasks /\ d # Boot
  BY ClientsAreTasks, TasksAssumption DEF Actors
<1>2. /\ SweepControl(n) /\ DbTypeOK /\ pc \in [Tasks -> Locations] /\ BootControl
  BY <1>1 DEF ServedInv, SweepInv, IInv, TypeOK, TaskControl
<1>3. ~(Fetch(Boot) \/ Discovery(Boot) \/ StatusHealthyFails(Boot))
  BY <1>2 DEF BootControl, Fetch, FetchSucceeds, FetchFails, Discovery, DiscoveryStart,
              DiscoveryLookup, StoreLocked, StatusHealthy, StatusUnhealthy, DropLocked,
              StatusHealthyFails, ProbeSucceeds, ProbeFails, ProbeExpires, ProbeEnds, At
<1>4. ~QueryFails(Boot)
  <2>1. HasError(Boot) => pc[Boot] = "enabled"
    BY <1>1, <1>2, NotQuerying DEF HasError, BootControl, Querying, ServedInv
  <2>2. ~HasError(Boot)
    BY <1>1, <2>1, NoneFails
  <2> QED
    BY <2>2 DEF QueryFails, Raise
<1>5. CASE StartupRefresh
  <2>1. pc'[Boot] = "enabled" /\ phase'[Boot] = "queued"
    BY <1>1, <1>2, <1>5, SubmitEffect DEF StartupRefresh, Goto
  <2> QED
    BY <2>1 DEF SweepControl, At
<1>6. CASE Gather(Boot)
  <2>1. /\ pc[Boot] = "enabled" /\ phase[Boot] = "finished"
        /\ pc' = [t \in Tasks |->
              IF t = Boot THEN "gather"
              ELSE IF \E m \in Names : reply[Boot][m] # NoRow /\ t = <<Boot, m>>
                   THEN "spawned" ELSE pc[t]]
    BY <1>1, <1>6 DEF Gather, At, Return, HasResult, Begun, Canary
  <2>2. reply[Boot][n] # NoRow
    BY <1>2, <2>1 DEF SweepControl, At
  <2>3. pc'[Boot] = "gather" /\ pc'[d] = "spawned"
    BY <1>1, <2>1, <2>2
  <2> QED
    BY <2>3 DEF SweepControl, At
<1>7. CASE CountTotal(Boot)
  <2>1. /\ pc[Boot] = "total_lock" \/ (pc[Boot] = "gather" /\ Gathered(Boot))
        /\ \E l \in {"total_lock", "sleep", "done"} : Goto(Boot, l)
    BY <1>1, <1>2, <1>7 DEF CountTotal, AfterTotal, WaitLock, BootControl, At
  <2>2. pc[d] = "done"
    BY <1>2, <2>1 DEF SweepControl, At, Gathered
  <2>3. pc'[d] = "done" /\ pc'[Boot] \in {"total_lock", "sleep", "done"}
    BY <1>1, <1>2, <2>1, <2>2 DEF Goto
  <2> QED
    BY <2>3 DEF SweepControl, At
<1> QED
  BY <1>1, <1>3, <1>4, <1>5, <1>6, <1>7 DEF TaskAction, Fails, Refresh, CanaryEnds, Canary

\* A step of anybody else leaves both alone.
LEMMA OthersSweep ==
  ASSUME ServedInv, NEW t \in Tasks, TaskAction(t), GoesOn, NEW n \in Names, Tracked(n)
  PROVE  /\ t # <<Boot, n>> => ProbeControl(n)'
         /\ t # Boot => SweepControl(n)'
<1> DEFINE d == <<Boot, n>>
<1>1. /\ Boot \in Tasks /\ Boot \notin Clients /\ Boot \in Actors /\ d \in Tasks /\ d # Boot
      /\ d \notin Clients /\ d \in Discoveries /\ Boot \notin Discoveries
  BY ClientsAreTasks, TasksAssumption DEF Actors
<1>2. /\ SweepControl(n) /\ ProbeControl(n) /\ ~Touched(n)
  BY DEF ServedInv, SweepInv, Tracked
<1>3. /\ SweepStep(t) /\ OthersKept(t) /\ rows' = rows
  BY ActionEffect
<1>4. t # d => ~Drops(t, n)
  <2>1. ASSUME t # d, Drops(t, n), pc[t] \in DiscoveryLocations PROVE FALSE
    BY <1>2, <2>1, ProbersTouch DEF Drops
  <2>2. ASSUME Drops(t, n), t \in Clients,
               pc[t] = "pop_lock" \/ (pc[t] = "remove" /\ Ran(t))
        PROVE  FALSE
    <3>1. req[t].name = n
      BY <2>2 DEF Drops, Subject
    <3> QED
      BY <1>2, <2>2, <3>1 DEF ServedInv, SweepInv, RemovedOrTouched, At, Tracked
  <2> QED
    BY <2>1, <2>2 DEF Drops, DiscoveryLocations
<1>5. ASSUME t # d PROVE ProbeControl(n)'
  <2>1. toolCache[n] # Absent => toolCache'[n] # Absent
    BY <1>3, <1>4, <1>5 DEF SweepStep, ToolsStay
  <2>2. pc'[d] = pc[d] \/ pc'[d] = "spawned"
    BY <1>1, <1>3, <1>5 DEF SweepStep, Spawns
  <2>3. /\ phase'[d] = phase[d] /\ reply'[d] = reply[d] /\ Subject(d) = n /\ Subject(d)' = n
    BY <1>1, <1>3, <1>5 DEF OthersKept, Subject
  <2>4. (Told(n) => Told(n)') /\ (n \in missed => n \in missed')
    BY <1>3 DEF GoesOn, Observe, Told
  <2> QED
    BY <1>2, <1>3, <2>1, <2>2, <2>3, <2>4 DEF ProbeControl, At, Ran, Row
<1>6. ASSUME t # Boot PROVE SweepControl(n)'
  <2>1. pc'[Boot] = pc[Boot] /\ phase'[Boot] = phase[Boot] /\ reply'[Boot] = reply[Boot]
    BY <1>1, <1>3, <1>6, TasksAssumption DEF SweepStep, Spawns, OthersKept, Discoveries
  <2>2. /\ pc[d] # "idle" => pc'[d] # "idle"
        /\ pc[d] = "done" => pc'[d] = "done"
    BY <1>1, <1>3, <1>6 DEF SweepStep, Spawns
  <2>3. Reaches(n) => Reaches(n)'
    BY <1>3, <2>1 DEF Reaches
  <2> QED
    BY <1>2, <2>1, <2>2, <2>3 DEF SweepControl, At
<1> QED
  BY <1>5, <1>6

LEMMA RemovingSwept ==
  ASSUME ServedInv, NEW t \in Tasks, TaskAction(t)
  PROVE  GoesOn => RemovedOrTouched'
<1>1. /\ TaskMove(t) /\ RequestsStay /\ OthersKept(t) /\ rows' = rows /\ Elsewhere(t) /\ DbTypeOK
      /\ IInv /\ StatementInv
  BY ActionEffect DEF ServedInv
<1> SUFFICES ASSUME GoesOn, NEW c \in Clients, NEW n, n = req'[c].name,
                    ((At(c, "remove") /\ Ran(c)) \/ At(c, "pop_lock"))'
             PROVE  rows[n] = NoRow \/ Touched(n)'
  BY <1>1 DEF RemovedOrTouched, Touched
<1>2. /\ (At(c, "remove") /\ Ran(c)) \/ At(c, "pop_lock")
      /\ req'[c] = req[c]
  <2>1. CASE c # t
    BY <1>1, <2>1, ClientsAreTasks DEF OthersKept, Elsewhere, At, Ran
  <2>2. CASE c = t
    <3>1. ~QuietMove(c) /\ ~RereadMove(c) /\ ~ForgetMove(c) /\ ~QueryMove(c) /\ ~FillMove(c)
      BY DEF QuietMove, RereadMove, ForgetMove, QueryMove, FillMove, Watched, At
    <3>2. WriteMove(c) \/ WaitMove(c)
      BY <1>1, <2>2, <3>1 DEF TaskMove, AsideMove, ClientMove
    <3>3. ~WriteMove(c)
      <4>1. WriteMove(c) => \E s : Chain(c, s) /\ pc'[c] # "pop_lock"
        BY DEF WriteMove
      <4> QED
        BY <1>1, <2>2, <4>1, ChainEffect DEF Ran, At
    <3> QED
      BY <1>1, <2>2, <3>2, <3>3, CallStatement DEF WaitMove, Stays
  <2> QED
    BY <2>1, <2>2
<1>3. rows[n] = NoRow \/ Touched(n)
  BY <1>2 DEF ServedInv, SweepInv, RemovedOrTouched
<1> QED
  BY <1>1, <1>3, TouchedStays

\* What the code does keeps all of it.
LEMMA ActionKeepsServed ==
  ASSUME ServedInv, NoneRefused, NEW t \in Tasks, TaskAction(t), GoesOn
  PROVE  SweepInv'
<1>1. /\ SweepStep(t) /\ RequestsStay /\ DbTypeOK /\ DbCall(t) /\ OthersKept(t)
      /\ rows' = rows /\ nextId' = nextId /\ Elsewhere(t) /\ SweepInv
      /\ earlier' = earlier /\ foundUp \subseteq foundUp'
  BY ActionEffect DEF ServedInv, SweepStep, GoesOn, Observe
<1>2. RefusalInv' /\ Identified(rows, nextId)' /\ RemovedOrTouched'
  BY <1>1, CallKeepsRefusals, RemovingSwept DEF SweepInv, Identified
<1>3. EarlierOver'
  <2>1. ASSUME NEW c \in earlier PROVE pc'[c] = "done" /\ \A n \in Names : pc'[<<c, n>>] = "idle"
    <3>1. c \in Clients /\ pc[c] = "done" /\ c # t /\ \A n \in Names : pc[<<c, n>>] = "idle"
      BY <1>1, <2>1 DEF SweepInv, EarlierOver, At, SweepStep, ServedInv, RestartTypeOK
    <3>2. c \in Tasks /\ c \notin Discoveries /\ \A n \in Names : <<c, n>> \in Discoveries
      BY <3>1, ClientsAreTasks DEF Actors
    <3>3. pc'[c] = "done"
      BY <1>1, <3>1 DEF Elsewhere
    <3>4. ASSUME NEW n \in Names PROVE pc'[<<c, n>>] = "idle"
      BY <1>1, <3>1, <3>2, ClientsAreTasks DEF SweepStep, Spawns
    <3> QED
      BY <3>3, <3>4
  <2> QED
    BY <1>1, <2>1 DEF EarlierOver, At
<1>4. SpawnsTouch'
  <2> SUFFICES ASSUME NEW c \in Clients, NEW n \in Names, ~Touched(n)'
               PROVE  pc'[<<c, n>>] \in {"idle", "done"} \cup ProbeLocations
    BY DEF SpawnsTouch
  <2>1. <<c, n>> \in Discoveries /\ <<c, n>> \in Tasks
    BY ClientsAreTasks DEF Actors
  <2>2. pc[<<c, n>>] \in {"idle", "done"} \cup ProbeLocations
    BY <1>1, TouchedStays DEF SweepInv, SpawnsTouch
  <2>3. CASE <<c, n>> = t
    BY <1>1, <2>1, <2>2, <2>3 DEF SweepStep
  <2>4. CASE Spawns(t, <<c, n>>) /\ pc'[<<c, n>>] = "spawned"
    <3>1. /\ t = c /\ req[c] # NoReq
          /\ \/ req[c].op \in {"register", "patch"} /\ req[c].name = n
             \/ req[c].op = "refresh"
      BY <2>4 DEF Spawns
    <3>2. c \in Clients \ earlier
      BY <1>1, <3>1, BusyIsNew DEF SweepStep
    <3>3. Touched(n)
      BY <3>1, <3>2 DEF Touched
    <3> QED
      BY <1>1, <3>3, TouchedStays
  <2>5. CASE Spawns(t, <<c, n>>) /\ pc'[<<c, n>>] = "probing"
    BY <2>5 DEF ProbeLocations
  <2>6. CASE pc'[<<c, n>>] = pc[<<c, n>>]
    BY <2>2, <2>6
  <2> QED
    BY <1>1, <2>1, <2>3, <2>4, <2>5, <2>6 DEF SweepStep, Spawns
<1>5. ASSUME NEW u \in Tasks PROVE ProbeStatement(u)'
  <2>1. CASE u = t
    BY <1>1, <2>1 DEF SweepStep
  <2>2. CASE u # t
    <3>1. ProbeStatement(u) /\ stmt'[u] = stmt[u] /\ (u \in Clients => req'[u] = req[u])
      BY <1>1, <2>2 DEF SweepInv, OthersKept, Elsewhere
    <3>2. Subject(u)' = Subject(u)
      BY <3>1 DEF Subject
    <3>3. CASE pc'[u] = pc[u]
      BY <3>1, <3>2, <3>3 DEF ProbeStatement, At, StatusUpdate
    <3>4. CASE Spawns(t, u)
      <4>1. pc'[u] \in {"spawned", "probing"} /\ pc[u] \in {"idle", "done"}
        BY <3>4 DEF Spawns, ServedInv, IInv, SpawnControl, Gathered
      <4> QED
        BY <3>1, <4>1 DEF ProbeStatement, At
    <3> QED
      BY <1>1, <2>2, <3>3, <3>4 DEF SweepStep
  <2> QED
    BY <2>1, <2>2
<1>6. ASSUME NEW n \in Names, Tracked(n)' PROVE ProbeControl(n)' /\ SweepControl(n)'
  <2>1. Tracked(n)
    BY <1>1, <1>6, TouchedStays DEF Tracked
  <2> QED
    BY <2>1, StartupProbeMoves, SweepMoves, OthersSweep
<1>7. FindsRecorded'
  <2> SUFFICES ASSUME NEW u \in Tasks, pc'[u] = "up" PROVE Subject(u)' \in foundUp'
    BY DEF FindsRecorded, At
  <2>1. pc[u] \in {"probing", "up"}
    BY <1>1 DEF SweepStep, Spawns
  <2>2. Subject(u)' = Subject(u)
    <3>1. u \in Clients => req[u] \in Requests
      BY <2>1, Discovering DEF ServedInv, ProbeLocations
    <3> QED
      BY <1>1, <3>1, RequestParts DEF RequestsStay, Subject
  <2>3. CASE pc[u] = "up"
    BY <1>1, <2>2, <2>3 DEF SweepInv, FindsRecorded, At
  <2>4. CASE pc[u] = "probing"
    BY <2>2, <2>4 DEF GoesOn, Observe, FindsUp, At
  <2> QED
    BY <2>1, <2>3, <2>4
<1>8. StartupDiscovers'
  <2> SUFFICES ASSUME NEW n \in Names PROVE pc'[<<Boot, n>>] \notin ProbeLocations
    BY DEF StartupDiscovers
  <2>1. /\ <<Boot, n>> \in Discoveries /\ <<Boot, n>> \in Tasks /\ Boot \notin Clients
        /\ pc[<<Boot, n>>] \notin ProbeLocations
    BY <1>1, ClientsAreTasks, TasksAssumption DEF SweepInv, StartupDiscovers, Actors
  <2>2. ~(Spawns(t, <<Boot, n>>) /\ pc'[<<Boot, n>>] # "spawned")
    BY <2>1 DEF Spawns
  <2>3. "spawned" \notin ProbeLocations
    BY DEF ProbeLocations
  <2> QED
    BY <1>1, <2>1, <2>2, <2>3 DEF SweepStep
<1> QED
  BY <1>2, <1>3, <1>4, <1>5, <1>6, <1>7, <1>8 DEF SweepInv

\* No statement outlives the process, and who was answered stays so.
LEMMA CrashStatements ==
  ASSUME StatementInv, Crash
  PROVE  StatementInv'
<1>1. /\ req' = req /\ response' = response
      /\ \A t \in Tasks : /\ stmt'[t].op = "none"
                          /\ pc'[t] = IF t \in Lost THEN "done" ELSE "idle"
  BY DEF Crash, NoStatement, LocationAfter
<1>2. Clients \subseteq Tasks /\ \A c \in Clients \ Lost : pc[c] = "idle"
  BY ClientsAreTasks DEF Lost, At
<1>3. ASSUME NEW t \in Tasks PROVE OwnStatement(t)'
  <2>1. pc'[t] \in {"idle", "done"}
    BY <1>1
  <2> QED
    BY <1>1, <2>1 DEF OwnStatement, At
<1>4. ASSUME NEW c \in Clients PROVE OwnRequest(c)'
  <2>1. OwnRequest(c) /\ c \in Tasks
    BY <1>2 DEF StatementInv
  <2>2. CASE c \in Lost
    BY <1>1, <2>1, <2>2 DEF OwnRequest, At
  <2>3. CASE c \notin Lost
    BY <1>1, <1>2, <2>1, <2>3 DEF OwnRequest, At
  <2> QED
    BY <2>2, <2>3
<1> QED
  BY <1>3, <1>4 DEF StatementInv

\* A crash: the new process finds the rows last committed, and everything to do.
LEMMA CrashServed ==
  ASSUME ServedInv, Crash
  PROVE  StatementInv' /\ SweepInv' /\ Identified(saved.rows, saved.nextId)'
<1>1. /\ rows' = saved.rows /\ nextId' = saved.nextId /\ saved' = saved /\ req' = req
      /\ response' = response /\ earlier' = Lost
      /\ \A t \in Tasks : /\ stmt'[t].op = "none" /\ phase'[t] = "idle"
                          /\ pc'[t] = IF t \in Lost THEN "done" ELSE "idle"
  BY DEF Crash, NoStatement, LocationAfter
<1>2. /\ Lost \subseteq Clients /\ \A c \in Clients \ Lost : pc[c] = "idle"
      /\ Clients \subseteq Tasks /\ Boot \in Tasks /\ Boot \notin Clients
      /\ \A a \in Actors, n \in Names : <<a, n>> \in Tasks /\ <<a, n>> \notin Clients
  BY ClientsAreTasks DEF Lost, At
<1>3. StatementInv'
  BY CrashStatements DEF ServedInv
<1>4. Identified(rows, nextId)' /\ Identified(saved.rows, saved.nextId)'
  BY <1>1 DEF ServedInv, Identified
<1>5. /\ RefusalInv' /\ EarlierOver' /\ SpawnsTouch' /\ RemovedOrTouched'
      /\ FindsRecorded' /\ StartupDiscovers'
  BY <1>1, <1>2
     DEF RefusalInv, EarlierOver, SpawnsTouch, RemovedOrTouched, FindsRecorded,
         StartupDiscovers, ProbeLocations, At, Actors
<1>6. ASSUME NEW t \in Tasks PROVE ProbeStatement(t)'
  <2>1. pc'[t] \in {"idle", "done"}
    BY <1>1
  <2> QED
    BY <1>1, <2>1 DEF ProbeStatement, At
<1>7. ASSUME NEW n \in Names PROVE ProbeControl(n)' /\ SweepControl(n)'
  <2>1. pc'[Boot] = "idle" /\ pc'[<<Boot, n>>] = "idle"
    BY <1>1, <1>2 DEF Actors
  <2> QED
    BY <2>1 DEF ProbeControl, SweepControl, At
<1> QED
  BY <1>3, <1>4, <1>5, <1>6, <1>7 DEF SweepInv

LEMMA StutterServed ==
  ASSUME ServedInv, UNCHANGED vars, GoesOn \/ UNCHANGED <<earlier, foundUp, missed>>
  PROVE  SweepInv'
<1>1. earlier' = earlier /\ foundUp' = foundUp /\ missed' = missed
  BY DEF GoesOn, Observe, FindsUp, Misses, At, vars, catVars
<1> QED
  BY <1>1
     DEF vars, dbVars, catVars, ServedInv, SweepInv, RefusalInv, Identified, EarlierOver,
         SpawnsTouch, RemovedOrTouched, FindsRecorded, StartupDiscovers, ProbeStatement,
         StatusUpdate, Subject, Tracked, Touched, Told, ProbeControl, SweepControl, Reaches,
         Row, Ran, At

LEMMA NextServed ==
  ASSUME ServedInv, NoneRefused, [RestartNext]_restartVars
  PROVE  ServedInv'
<1>1. IInv' /\ RestartTypeOK' /\ DurInv'
  BY RestartNextInv, NextDurable DEF ServedInv
<1>2. CASE Running
  <2>1. Next /\ Persist /\ GoesOn
    BY <1>2 DEF Running, GoesOn
  <2>2. StatementInv'
    BY <2>1, NextStatementInv DEF ServedInv
  <2>3. SweepInv'
    BY <2>1, ActionKinds, EngineKeepsServed, ActionKeepsServed, StutterServed
  <2>4. Identified(saved.rows, saved.nextId)'
    BY <2>1, <2>3 DEF Persist, SweepInv, Identified, ServedInv
  <2> QED
    BY <1>1, <2>2, <2>3, <2>4 DEF ServedInv
<1>3. CASE Crash
  BY <1>1, <1>3, CrashServed DEF ServedInv
<1>4. CASE UNCHANGED restartVars
  <2>1. UNCHANGED vars /\ UNCHANGED <<earlier, foundUp, missed>> /\ saved' = saved
    BY <1>4 DEF restartVars
  <2>2. StatementInv'
    BY <2>1, NextStatementInv DEF ServedInv
  <2>3. SweepInv' /\ Identified(saved.rows, saved.nextId)'
    BY <2>1, StutterServed DEF Identified, ServedInv
  <2> QED
    BY <1>1, <2>2, <2>3 DEF ServedInv
<1> QED
  BY <1>2, <1>3, <1>4 DEF RestartNext

LEMMA InitServed == ASSUME RestartInit PROVE ServedInv
<1>1. IInv /\ RestartTypeOK /\ DurInv /\ StatementInv
  BY RestartInitInv, InitDurable, InitStatementInv DEF RestartInit
<1>2. /\ \A t \in Tasks : pc[t] = "idle" /\ phase[t] = "idle" /\ stmt[t].op = "none"
      /\ Clients \subseteq Tasks /\ Boot \in Tasks /\ earlier = {}
      /\ \A a \in Actors, n \in Names : <<a, n>> \in Tasks
      /\ rows \in InitialTables /\ nextId = FirstId
      /\ saved.rows = rows /\ saved.nextId = nextId
  BY ClientsAreTasks DEF RestartInit, Init, DbInit, NoStatement
<1>3. Identified(rows, nextId) /\ Identified(saved.rows, saved.nextId)
  BY <1>2, InitialAssumption DEF Identified
<1>4. /\ RefusalInv /\ EarlierOver /\ SpawnsTouch /\ RemovedOrTouched
      /\ FindsRecorded /\ StartupDiscovers
  BY <1>2
     DEF RefusalInv, EarlierOver, SpawnsTouch, RemovedOrTouched, FindsRecorded,
         StartupDiscovers, ProbeLocations, At, Actors
<1>5. \A t \in Tasks : ProbeStatement(t)
  BY <1>2 DEF ProbeStatement, At
<1>6. \A n \in Names : ProbeControl(n) /\ SweepControl(n)
  BY <1>2 DEF ProbeControl, SweepControl, At, Actors
<1> QED
  BY <1>1, <1>3, <1>4, <1>5, <1>6 DEF ServedInv, SweepInv

\* A row that says "healthy" outlives the crash that took its tools.  Once the startup
\* task of the process that runs now has ended, the tools of an enabled server that no
\* request has touched are known: it was listed, and its discovery has ended.  The
\* exception is a server whose discovery failed, and its row says "healthy" only if a
\* canary cycle or a health check has found it up; what other probes wrote beside the
\* startup task does not matter.  This needs every lookup, listing and update of a status
\* to succeed: one that is refused ends the task that asked, and the row keeps what it
\* said.
THEOREM HealthyServersAreServed ==
  ASSUME Fallible \cap {"select", "list", "update"} = {}
  PROVE  RestartSpec => []HealthyIsServed
<1>1. NoneRefused
  BY DEF NoneRefused
<1>2. RestartInit => ServedInv
  BY InitServed
<1>3. ServedInv /\ [RestartNext]_restartVars => ServedInv'
  BY <1>1, NextServed
<1>4. ServedInv => HealthyIsServed
  BY DEF ServedInv, SweepInv, HealthyIsServed, Tracked, ProbeControl, SweepControl, Told, At
<1> QED
  BY <1>2, <1>3, <1>4, PTL DEF RestartSpec

-----------------------------------------------------------------------------
(* PATCHes across a crash.                                                   *)

\* The UPDATE of c has been committed, or there was none to run.
Confirmed(c) ==
  /\ req[c] # NoReq /\ req[c].op = "patch"
  /\ (At(c, "update") /\ phase[c] = "finished") \/ At(c, "updated") \/ response[c] = 200

\* The table as last committed has what was confirmed, or what was asked for later.
SavedPatchInv ==
  \A c \in Clients :
    Confirmed(c) /\ saved.rows[req[c].name] # NoRow =>
      \A col \in EditableColumns :
        ChangeOf(req[c])[col] # Keep =>
          \E d \in Clients : Writes(d, req[c].name, col, saved.rows[req[c].name][col])

LEMMA ConfirmedIsPatched ==
  ASSUME NEW c, Confirmed(c)
  PROVE  Patched(c)
BY DEF Confirmed, Patched, Ran

\* What has just been committed is the table.
LEMMA CommitKeepsPatches ==
  ASSUME PatchInv', saved'.rows = rows'
  PROVE  SavedPatchInv'
BY DEF SavedPatchInv, PatchInv, Confirmed, Patched, Ran, Given, At

LEMMA MovesConfirmed ==
  ASSUME IInv, StatementInv, NEW c \in Clients, ClientMove(c), Confirmed(c)'
  PROVE  req'[c] = req[c] /\ (Confirmed(c) \/ NamesNoColumn(req[c]))
<1>1. Patched(c)'
  BY DEF Confirmed, Patched, Ran, At
<1>2. req'[c] = req[c] /\ (Patched(c) \/ NamesNoColumn(req[c]))
  BY <1>1, MovesPatched
<1>3. ASSUME Patched(c), ~Confirmed(c) PROVE FALSE
  <2>1. pc[c] = "update" /\ phase[c] # "finished" /\ req[c].op = "patch"
    BY <1>3 DEF Patched, Confirmed, At
  <2>2. ~QuietMove(c)
    BY <1>2, <2>1 DEF QuietMove, Confirmed, Watched, At
  <2>3. ~RereadMove(c)
    BY <2>1 DEF RereadMove, Chain, HasResult
  <2> QED
    BY <2>1, <2>2, <2>3 DEF ClientMove, WriteMove, ForgetMove, WaitMove, QueryMove, FillMove, At
<1> QED
  BY <1>2, <1>3

\* A client whose UPDATE is committed by a step sees the table committed by it.
LEMMA StepConfirms ==
  ASSUME IInv, StatementInv, [Next]_vars, NEW c \in Clients, Confirmed(c)'
  PROVE  /\ req'[c] = req[c]
         /\ \/ Confirmed(c) \/ NamesNoColumn(req[c])
            \/ Backend = "postgres" \/ (Commits(c) /\ phase'[c] = "finished")
<1>1. DbTypeOK /\ c \in Tasks
  BY ClientsAreTasks DEF IInv, TypeOK
<1>2. CASE UNCHANGED vars
  BY <1>2 DEF vars, dbVars, catVars, Confirmed, At
<1>3. ASSUME NEW t \in Tasks, TaskMove(t)
      PROVE  req'[c] = req[c] /\ (Confirmed(c) \/ NamesNoColumn(req[c]))
  <2>1. CASE c = t
    BY <1>3, <2>1, MovesConfirmed DEF TaskMove, AsideMove
  <2>2. CASE c # t
    BY <1>1, <1>3, <2>2, MoveEffect DEF Elsewhere, OthersKept, Confirmed, At
  <2> QED
    BY <2>1, <2>2
<1>4. ASSUME NEW t \in Tasks, EngineStep(t), ~Confirmed(c), Backend # "postgres"
      PROVE  Commits(c) /\ phase'[c] = "finished"
  <2>1. Engine(t) /\ OthersKept(t) /\ UNCHANGED <<pc, req, response>>
    BY <1>1, <1>4, EngineEffect DEF EngineStep, catVars
  <2>2. t = c /\ pc[c] = "update" /\ phase[c] # "finished" /\ phase'[c] = "finished"
    BY <1>1, <1>4, <2>1 DEF Confirmed, At, OthersKept
  <2>3. stmt[c].op = "update"
    <3>1. OwnStatement(c)
      BY <1>1 DEF StatementInv
    <3>2. stmt[c] = Update(req[c].name, ChangeOf(req[c]))
      BY <2>2, <3>1 DEF OwnStatement, At
    <3> QED
      BY <3>2 DEF Update
  <2>4. phase[c] = "finishing"
    <3>1. phase \in [Tasks -> Phases] /\ Backend = "sqlite"
      BY <1>1, <1>4, BackendAssumption DEF DbTypeOK
    <3>2. ~Execute(c)
      BY <2>2, <3>1, <1>1 DEF Execute, ExecuteRead, ExecuteInsert, ExecuteUpdate,
                              ExecuteDelete, ExecuteRefused, Executed
    <3>3. ~Continue(c)
      BY <1>1, <2>2, <3>1 DEF Continue
    <3>4. Complete(c)
      BY <2>1, <2>2, <3>2, <3>3 DEF Engine
    <3> QED
      BY <3>4 DEF Complete
  <2> QED
    BY <2>2, <2>3, <2>4 DEF Commits
<1>5. ASSUME NEW t \in Tasks, EngineStep(t) PROVE req'[c] = req[c]
  BY <1>5 DEF EngineStep, catVars
<1> QED
  BY <1>2, <1>3, <1>4, <1>5, StepKinds DEF vars, catVars

LEMMA RunningKeepsSaved ==
  ASSUME IInv, StatementInv, AsStored, PatchInv, SavedPatchInv, Running
  PROVE  PatchInv' /\ SavedPatchInv'
<1>1. Next /\ Persist /\ PatchInv' /\ RequestsStay
  BY NextPatchInv, StepReplies, ClientsAreTasks DEF Running
<1>2. CASE saved'.rows = rows'
  BY <1>1, <1>2, CommitKeepsPatches
<1>3. CASE saved'.rows # rows'
  <2>1. /\ saved' = saved /\ Backend # "postgres"
        /\ \A t \in Tasks : ~(Commits(t) /\ phase'[t] = "finished")
    BY <1>1, <1>3 DEF Persist
  <2> SUFFICES ASSUME NEW c \in Clients, Confirmed(c)', NEW n, n = req'[c].name,
                      saved.rows[n] # NoRow, NEW col \in EditableColumns,
                      ChangeOf(req'[c])[col] # Keep
               PROVE  \E d \in Clients : Writes(d, n, col, saved.rows[n][col])'
    BY <1>1, <2>1 DEF SavedPatchInv, Writes
  <2>2. req'[c] = req[c] /\ (Confirmed(c) \/ NamesNoColumn(req[c]))
    BY <1>1, <2>1, StepConfirms, ClientsAreTasks
  <2>3. Confirmed(c)
    BY <2>2 DEF NamesNoColumn, NoChange, EditableColumns
  <2>4. PICK d \in Clients : Writes(d, n, col, saved.rows[n][col])
    BY <2>2, <2>3 DEF SavedPatchInv
  <2> QED
    BY <1>1, <2>1, <2>4 DEF Writes, RequestsStay
<1> QED
  BY <1>1, <1>2, <1>3

LEMMA CrashKeepsPatches ==
  ASSUME SavedPatchInv, Crash
  PROVE  PatchInv' /\ SavedPatchInv'
<1>1. /\ rows' = saved.rows /\ saved' = saved /\ req' = req /\ response' = response
      /\ \A c \in Clients : pc'[c] \in {"idle", "done"}
  BY ClientsAreTasks DEF Crash, LocationAfter
<1>2. \A c \in Clients : Patched(c)' \/ Confirmed(c)' => Confirmed(c)
  BY <1>1 DEF Patched, Confirmed, At
<1>3. \A c \in Clients : \A n, col, v : Writes(c, n, col, v) <=> Writes(c, n, col, v)'
  BY <1>1 DEF Writes
<1> QED
  BY <1>1, <1>2, <1>3 DEF PatchInv, SavedPatchInv, Given, Writes

LEMMA NextKeepsSaved ==
  ASSUME IInv, RestartTypeOK, StatementInv, AsStored, PatchInv, SavedPatchInv,
         [RestartNext]_restartVars
  PROVE  PatchInv' /\ SavedPatchInv' /\ StatementInv'
<1>1. CASE Running
  BY <1>1, RunningKeepsSaved, NextStatementInv DEF Running
<1>2. CASE Crash
  BY <1>2, CrashKeepsPatches, CrashStatements
<1>3. CASE UNCHANGED restartVars
  <2>1. UNCHANGED vars /\ saved' = saved
    BY <1>3 DEF restartVars
  <2>2. StatementInv' /\ PatchInv'
    BY <2>1, NextStatementInv, NextPatchInv
  <2>3. SavedPatchInv'
    BY <2>1 DEF vars, dbVars, catVars, SavedPatchInv, Confirmed, Writes, At
  <2> QED
    BY <2>2, <2>3
<1> QED
  BY <1>1, <1>2, <1>3 DEF RestartNext

\* A PATCH that was answered with 200 is not undone by a crash either: update_server
\* answers only after its commit, and the table that is found again has the columns it
\* named as it or another request gave them.
THEOREM PatchesSurvive == ASSUME AsStored PROVE RestartSpec => []PatchKept
<1>1. RestartInit => IInv /\ RestartTypeOK /\ StatementInv /\ PatchInv /\ SavedPatchInv
  BY RestartInitInv, InitStatementInv
     DEF RestartInit, Init, PatchInv, Patched, SavedPatchInv, Confirmed
<1>2. IInv /\ RestartTypeOK /\ StatementInv /\ PatchInv /\ SavedPatchInv
        /\ [RestartNext]_restartVars
      => (IInv /\ RestartTypeOK /\ StatementInv /\ PatchInv /\ SavedPatchInv)'
  BY RestartNextInv, NextKeepsSaved
<1>3. PatchInv => PatchKept
  BY DEF PatchInv, PatchKept, Patched, Given, EditableColumns
<1> QED
  BY <1>1, <1>2, <1>3, PTL DEF RestartSpec

=============================================================================
