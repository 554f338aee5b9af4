------------------------ MODULE RelayAgreementProofs ------------------------
(* Theorems that relate the caches and the table of RelayCatalog to what was  *)
(* asked for, for every number of clients, servers, tools and endpoints.      *)
EXTENDS RelayCatalogProofs

-----------------------------------------------------------------------------
(* Whose statement is whose.                                                 *)

\* An UPDATE that sets the status alone, or a statement that writes nothing.
Gentle(s) ==
  /\ s.op \notin {"insert", "delete"}
  /\ s.op = "update" => \E v \in Statuses : s.change = [NoChange EXCEPT !.status = v]

\* A statement that writes more is that of the request its client serves; what
\* follows such a write is a lookup.
OwnStatement(t) ==
  /\ stmt[t].op = "insert" =>
       t \in Clients /\ At(t, "insert")
       /\ stmt[t] = Insert(req[t].name, CreatedColumns(req[t].columns))
  /\ stmt[t].op = "delete" =>
       t \in Clients /\ At(t, "remove") /\ stmt[t] = Delete(req[t].name)
  /\ stmt[t].op = "update" => Gentle(stmt[t]) \/ (t \in Clients /\ At(t, "update"))
  /\ t \in Clients =>
       /\ At(t, "update") => stmt[t] = Update(req[t].name, ChangeOf(req[t]))
       /\ pc[t] \in {"updated", "reread"} => stmt[t] = Select(req[t].name)

\* A client has one request, and is answered once.
OwnRequest(c) ==
  /\ At(c, "idle") => req[c] = NoReq
  /\ response[c] # 0 => At(c, "done")

StatementInv ==
  (\A t \in Tasks : OwnStatement(t)) /\ (\A c \in Clients : OwnRequest(c))

-----------------------------------------------------------------------------
(* What a step is: the moves every action of the code amounts to.            *)

\* What a step of task t leaves alone, whatever it does.
Elsewhere(t) ==
  \A c \in Clients \ {t} : pc'[c] = pc[c] /\ req'[c] = req[c] /\ response'[c] = response[c]

\* A call that hands over no statement of consequence.
GentleCall(t) ==
  \/ UNCHANGED dbVars \/ Take(t) \/ Return(t) \/ Raise(t)
  \/ \E s \in Statements :
       Gentle(s) /\ (Submit(t, s) \/ Chain(t, s) \/ Recover(t, s))

\* Where a client is about to change the registry or the filter cache.
Watched == {"insert", "update", "remove", "reread", "updated", "pop_lock", "list_query"}

\* A task that is no client's.
AsideMove(t) ==
  t \notin Clients /\ GentleCall(t) /\ Elsewhere(t) /\ UNCHANGED filterCache

\* A client that goes to where nothing is at stake, or is told of a failure.
QuietMove(c) ==
  /\ GentleCall(c) /\ UNCHANGED filterCache
  /\ pc'[c] \notin Watched \cup {"idle"}
  /\ pc[c] \in Watched =>
       Raise(c) \/ (At(c, "updated") /\ Return(c) /\ Row(c) = NoRow)
  /\ req[c] # NoReq => req'[c] = req[c]
  /\ response'[c] # 0 => pc'[c] = "done"
  /\ response'[c] = 200 => req'[c].op # "patch"

Stays(c) == req'[c] = req[c] /\ response'[c] = response[c] /\ UNCHANGED filterCache

\* From the first lookup to the statement that was asked for.
WriteMove(c) ==
  /\ At(c, "check") /\ Stays(c)
  /\ \/ /\ pc'[c] = "insert" /\ req[c].op = "register"
        /\ Chain(c, Insert(req[c].name, CreatedColumns(req[c].columns)))
     \/ /\ pc'[c] = "update" /\ req[c].op = "patch"
        /\ Chain(c, Update(req[c].name, ChangeOf(req[c])))
     \/ /\ pc'[c] = "remove" /\ req[c].op = "delete"
        /\ Chain(c, Delete(req[c].name))

\* To the lookup after it; a PATCH that names no column goes there at once.
RereadMove(c) ==
  /\ Stays(c) /\ Chain(c, Select(req[c].name))
  /\ \/ At(c, "insert") /\ pc'[c] = "reread"
     \/ At(c, "update") /\ pc'[c] = "updated"
     \/ At(c, "check") /\ pc'[c] = "updated" /\ NamesNoColumn(req[c])

\* The lists that were cached for its server are dropped, and it is answered.
ForgetMove(c) ==
  /\ pc'[c] = "done" /\ req'[c] = req[c] /\ Invalidate(req[c].name)
  /\ \/ pc[c] \in {"reread", "updated"} /\ Return(c)
     \/ At(c, "remove") /\ LockFree /\ Return(c)
     \/ At(c, "pop_lock") /\ LockMine(c) /\ UNCHANGED dbVars

\* A removal has to wait for the lock.
WaitMove(c) == At(c, "remove") /\ pc'[c] = "pop_lock" /\ Stays(c) /\ Return(c)

\* A listing comes to a server without cached lists; and gets its row.
QueryMove(c) ==
  /\ pc[c] \in {"idle", "list_lock"} /\ pc'[c] = "list_query"
  /\ response'[c] = response[c] /\ UNCHANGED filterCache
  /\ req[c] # NoReq => req'[c] = req[c]
  /\ req'[c].op = "list"
  /\ \E m \in Names : Submit(c, Select(m))
FillMove(c) ==
  /\ At(c, "list_query") /\ req'[c] = req[c]
  /\ filterCache' = Filled(stmt[c].name, reply[c][stmt[c].name])
  /\ \/ Return(c) /\ pc'[c] = "done"
     \/ pc'[c] = "list_query" /\ response'[c] = response[c]
        /\ \E m \in Names : Chain(c, Select(m))

ClientMove(c) ==
  /\ c \in Clients /\ Elsewhere(c)
  /\ \/ QuietMove(c) \/ WriteMove(c) \/ RereadMove(c) \/ ForgetMove(c)
     \/ WaitMove(c) \/ QueryMove(c) \/ FillMove(c)

LEMMA LookupIsGentle ==
  /\ \A n \in Names : Select(n) \in Statements /\ Gentle(Select(n))
  /\ SelectEnabled \in Statements /\ Gentle(SelectEnabled) /\ Gentle(NoStatement)
BY SelectIsStatement, ListIsStatement DEF Select, SelectEnabled, NoStatement, Gentle

LEMMA StatusUpdateIsGentle ==
  ASSUME NEW t, Subject(t) \in Names, NEW v \in Statuses
  PROVE  StatusUpdate(t, v) \in Statements /\ Gentle(StatusUpdate(t, v))
<1>1. StatusUpdate(t, v) \in Statements
  BY StatusChangeType, UpdateIsStatement DEF StatusUpdate
<1>2. Gentle(StatusUpdate(t, v))
  BY DEF StatusUpdate, Update, Gentle
<1> QED
  BY <1>1, <1>2

\* What a gentle call leaves behind.
LEMMA GentleEffect ==
  ASSUME DbTypeOK, NEW t \in Tasks, GentleCall(t)
  PROVE  /\ DbCall(t) /\ OthersKept(t) /\ rows' = rows
         /\ \/ stmt'[t] = stmt[t] /\ phase'[t] = phase[t]
            \/ Gentle(stmt'[t]) /\ phase'[t] \in {"idle", "queued"}
<1> SUFFICES \/ stmt'[t] = stmt[t] /\ phase'[t] = phase[t]
             \/ Gentle(stmt'[t]) /\ phase'[t] \in {"idle", "queued"}
  BY CallEffect DEF GentleCall, DbCall
<1>1. CASE UNCHANGED dbVars
  BY <1>1 DEF dbVars
<1>2. CASE Take(t) \/ Return(t) \/ Raise(t)
  <2>1. stmt'[t] = NoStatement /\ phase'[t] = "idle"
    BY <1>2 DEF Take, Return, Raise, Leave, DbTypeOK
  <2> QED
    BY <2>1, LookupIsGentle
<1>3. ASSUME NEW s \in Statements, Gentle(s), Submit(t, s) \/ Chain(t, s) \/ Recover(t, s)
      PROVE  stmt'[t] = s /\ phase'[t] = "queued"
  BY <1>3, SubmitEffect, ChainEffect, RecoverEffect
<1> QED
  BY <1>1, <1>2, <1>3 DEF GentleCall

\* What is known of a client that serves a request.
LEMMA ServingRequest ==
  ASSUME IInv, StatementInv, NEW c \in Clients, pc[c] \notin {"idle", "done"}
  PROVE  /\ req[c] \in Requests /\ req[c] # NoReq /\ Serves(req[c].op, pc[c])
         /\ response[c] = 0 /\ c \in Tasks /\ DbTypeOK /\ pc \in [Tasks -> Locations]
         /\ response \in [Clients -> {0, 200, 201, 404, 409, 500}]
         /\ req[c].op \in {"register", "patch", "delete", "discover", "probe"} =>
              req[c].name \in Names
<1>1. req[c] \in Requests /\ Serves(req[c].op, pc[c]) /\ c \in Tasks
  BY Received
<1> QED
  BY <1>1, RequestParts DEF IInv, TypeOK, StatementInv, OwnRequest, At

LEMMA GoesElsewhere ==
  ASSUME IInv, NEW c \in Tasks, UNCHANGED <<req, response>>, NEW l, Goto(c, l)
  PROVE  Elsewhere(c) /\ pc'[c] = l
BY ClientsAreTasks DEF IInv, TypeOK, Goto, Elsewhere

LEMMA AnswersElsewhere ==
  ASSUME IInv, NEW c \in Clients, UNCHANGED req, NEW code, Answer(c, code)
  PROVE  Elsewhere(c) /\ pc'[c] = "done" /\ response'[c] = code
BY ClientsAreTasks DEF IInv, TypeOK, Answer, Goto, Elsewhere

LEMMA QuietGoes ==
  ASSUME IInv, StatementInv, NEW c \in Clients, pc[c] \notin Watched \cup {"idle", "done"},
         GentleCall(c), UNCHANGED <<req, response, filterCache>>,
         NEW l, l \notin Watched \cup {"idle"}, Goto(c, l)
  PROVE  ClientMove(c)
<1>1. c \in Tasks /\ response[c] = 0
  BY ServingRequest
<1>2. Elsewhere(c) /\ pc'[c] = l
  BY <1>1, GoesElsewhere
<1> QED
  BY <1>1, <1>2 DEF ClientMove, QuietMove

LEMMA QuietAnswers ==
  ASSUME IInv, StatementInv, NEW c \in Clients, pc[c] \notin {"idle", "done"},
         GentleCall(c), UNCHANGED <<req, filterCache>>,
         NEW code, Answer(c, code), code = 200 => req[c].op # "patch",
         pc[c] \in Watched =>
           Raise(c) \/ (At(c, "updated") /\ Return(c) /\ Row(c) = NoRow)
  PROVE  ClientMove(c)
<1>1. Elsewhere(c) /\ pc'[c] = "done" /\ response'[c] = code
  BY AnswersElsewhere
<1> QED
  BY <1>1 DEF ClientMove, QuietMove, Watched

\* An answer, with a discovery or not.
Answered(c, code) == Answer(c, code) \/ \E n \in Names : AnswerAndSpawn(c, code, n)

LEMMA ForgetsAndAnswers ==
  ASSUME IInv, StatementInv, NEW c \in Clients, UNCHANGED req, Invalidate(req[c].name),
         NEW code, Answered(c, code),
         \/ pc[c] \in {"reread", "updated"} /\ Return(c)
         \/ At(c, "remove") /\ LockFree /\ Return(c)
         \/ At(c, "pop_lock") /\ LockMine(c) /\ UNCHANGED dbVars
  PROVE  ClientMove(c)
<1>1. Elsewhere(c) /\ pc'[c] = "done"
  <2>1. CASE Answer(c, code)
    BY <2>1, AnswersElsewhere
  <2>2. ASSUME NEW n \in Names, AnswerAndSpawn(c, code, n)
        PROVE  Elsewhere(c) /\ pc'[c] = "done"
    <3>1. <<c, n>> \notin Clients /\ c \in Tasks /\ Clients \subseteq Tasks
      BY ClientsAreTasks DEF Actors
    <3>2. /\ pc \in [Tasks -> Locations] /\ response \in [Clients -> {0, 200, 201, 404, 409, 500}]
          /\ pc' = [pc EXCEPT ![c] = "done", ![<<c, n>>] = "spawned"]
          /\ response' = [response EXCEPT ![c] = code]
      BY <2>2 DEF IInv, TypeOK, AnswerAndSpawn
    <3>3. pc'[c] = "done" /\ \A d \in Clients \ {c} : pc'[d] = pc[d]
      BY <3>1, <3>2
    <3> QED
      BY <3>2, <3>3 DEF Elsewhere
  <2> QED
    BY <2>1, <2>2 DEF Answered
<1> QED
  BY <1>1 DEF ClientMove, ForgetMove

LEMMA RegisterMove ==
  ASSUME IInv, StatementInv, NEW c \in Clients,
         RegisterCheck(c) \/ RegisterInsert(c) \/ RegisterDone(c)
  PROVE  ClientMove(c)
<1>1. pc[c] \in {"check", "insert", "reread"} /\ UNCHANGED req
  BY DEF RegisterCheck, RegisterInsert, RegisterDone, At
<1>2. req[c].name \in Names /\ req[c].op = "register" /\ c \in Tasks
  BY <1>1, ServingRequest DEF RegisterCheck, RegisterInsert, RegisterDone, At, Serves
<1>3. CASE Return(c) /\ Answer(c, 409) /\ UNCHANGED filterCache /\ At(c, "check")
  BY <1>1, <1>3, QuietAnswers DEF GentleCall, Watched, At
<1>4. CASE /\ Chain(c, Insert(req[c].name, CreatedColumns(req[c].columns)))
           /\ Goto(c, "insert") /\ UNCHANGED <<response, filterCache>> /\ At(c, "check")
  BY <1>1, <1>2, <1>4, GoesElsewhere DEF ClientMove, WriteMove, Stays
<1>5. CASE RegisterInsert(c)
  BY <1>1, <1>2, <1>5, GoesElsewhere DEF RegisterInsert, ClientMove, RereadMove, Stays
<1>6. CASE RegisterDone(c)
  BY <1>1, <1>2, <1>6, ForgetsAndAnswers DEF RegisterDone, Answered, At
<1> QED
  BY <1>3, <1>4, <1>5, <1>6 DEF RegisterCheck

LEMMA PatchMove ==
  ASSUME IInv, StatementInv, NEW c \in Clients,
         PatchCheck(c) \/ PatchReread(c) \/ PatchDone(c)
  PROVE  ClientMove(c)
<1>1. pc[c] \in {"check", "update", "updated"} /\ UNCHANGED req
  BY DEF PatchCheck, PatchReread, PatchDone, At
<1>2. req[c].name \in Names /\ req[c].op = "patch" /\ c \in Tasks
  BY <1>1, ServingRequest DEF PatchCheck, PatchReread, PatchDone, At, Serves
<1>3. CASE /\ Return(c) /\ Answer(c, 404) /\ UNCHANGED filterCache
           /\ At(c, "check") \/ (At(c, "updated") /\ Row(c) = NoRow)
  <2>1. GentleCall(c) /\ pc[c] \notin {"idle", "done"}
    BY <1>1, <1>3 DEF GentleCall
  <2>2. pc[c] \in Watched => At(c, "updated") /\ Row(c) = NoRow
    BY <1>3 DEF Watched, At
  <2> QED
    BY <1>1, <1>3, <2>1, <2>2, QuietAnswers
<1>4. CASE /\ Chain(c, Update(req[c].name, ChangeOf(req[c]))) /\ Goto(c, "update")
           /\ UNCHANGED <<response, filterCache>> /\ At(c, "check")
  BY <1>1, <1>2, <1>4, GoesElsewhere DEF ClientMove, WriteMove, Stays
<1>5. CASE /\ Chain(c, Select(req[c].name)) /\ Goto(c, "updated")
           /\ UNCHANGED <<response, filterCache>>
           /\ At(c, "update") \/ (At(c, "check") /\ NamesNoColumn(req[c]))
  BY <1>1, <1>2, <1>5, GoesElsewhere DEF ClientMove, RereadMove, Stays
<1>6. CASE PatchDone(c) /\ Row(c) # NoRow
  BY <1>1, <1>2, <1>6, ForgetsAndAnswers DEF PatchDone, Answered, At
<1>7. CASE PatchCheck(c)
  BY <1>3, <1>4, <1>5, <1>7 DEF PatchCheck
<1>8. CASE PatchReread(c)
  BY <1>5, <1>8 DEF PatchReread
<1>9. CASE PatchDone(c) /\ Row(c) = NoRow
  BY <1>3, <1>9 DEF PatchDone
<1> QED
  BY <1>6, <1>7, <1>8, <1>9

LEMMA DeleteMove ==
  ASSUME IInv, StatementInv, NEW c \in Clients,
         DeleteCheck(c) \/ DeleteRow(c) \/ DeletePop(c)
  PROVE  ClientMove(c)
<1>1. pc[c] \in {"check", "remove", "pop_lock"} /\ UNCHANGED req
  BY DEF DeleteCheck, DeleteRow, DeletePop, At
<1>2. req[c].name \in Names /\ req[c].op = "delete" /\ c \in Tasks
  BY <1>1, ServingRequest DEF DeleteCheck, DeleteRow, DeletePop, At, Serves
<1>3. CASE DeleteCheck(c) /\ Return(c) /\ Answer(c, 404)
  BY <1>1, <1>3, QuietAnswers DEF DeleteCheck, GentleCall, Watched, At
<1>4. CASE DeleteCheck(c) /\ Chain(c, Delete(req[c].name)) /\ Goto(c, "remove")
           /\ UNCHANGED response
  BY <1>1, <1>2, <1>4, GoesElsewhere DEF DeleteCheck, ClientMove, WriteMove, Stays
<1>5. CASE DeleteRow(c) /\ LockFree /\ PopAndForget(c)
  BY <1>1, <1>5, ForgetsAndAnswers DEF DeleteRow, PopAndForget, Answered
<1>6. CASE DeleteRow(c) /\ WaitLock(c, "pop_lock") /\ UNCHANGED <<response, filterCache>>
  BY <1>1, <1>2, <1>6, GoesElsewhere DEF DeleteRow, WaitLock, ClientMove, WaitMove, Stays
<1>7. CASE DeletePop(c)
  BY <1>1, <1>7, ForgetsAndAnswers DEF DeletePop, PopAndForget, Answered
<1> QED
  BY <1>3, <1>4, <1>5, <1>6, <1>7 DEF DeleteCheck, DeleteRow

LEMMA ListMove ==
  ASSUME IInv, StatementInv, NEW c \in Clients, ListLocked(c) \/ ListFilled(c)
  PROVE  ClientMove(c)
<1>1. pc[c] \in {"list_lock", "list_query"} /\ UNCHANGED req
  BY DEF ListLocked, ListFilled, At
<1>2. req[c].op = "list" /\ c \in Tasks
  BY <1>1, ServingRequest DEF Serves
<1>3. ASSUME UNCHANGED dbVars, At(c, "list_lock"), UNCHANGED filterCache, Answer(c, 200)
      PROVE  ClientMove(c)
  BY <1>1, <1>2, <1>3, QuietAnswers DEF GentleCall, Watched, At
<1>4. ASSUME NEW m \in Names, Submit(c, Select(m)), At(c, "list_lock"),
             UNCHANGED <<response, filterCache>>, Goto(c, "list_query")
      PROVE  ClientMove(c)
  BY <1>1, <1>2, <1>4, GoesElsewhere DEF ClientMove, QueryMove, At
<1>5. CASE ListLocked(c)
  BY <1>3, <1>4, <1>5 DEF ListLocked, WalkEnds, WalkStops
<1>6. CASE ListFilled(c)
  <2>1. At(c, "list_query") /\ filterCache' = Filled(stmt[c].name, reply[c][stmt[c].name])
    BY <1>6 DEF ListFilled
  <2>2. CASE Return(c) /\ Answer(c, 200)
    BY <1>1, <2>1, <2>2, AnswersElsewhere DEF ClientMove, FillMove
  <2>3. ASSUME NEW m \in Names, Chain(c, Select(m)), UNCHANGED response,
               Goto(c, "list_query")
        PROVE  ClientMove(c)
    BY <1>1, <1>2, <2>1, <2>3, GoesElsewhere DEF ClientMove, FillMove
  <2> QED
    BY <1>6, <2>2, <2>3 DEF ListFilled, WalkEnds, WalkStops
<1> QED
  BY <1>5, <1>6

LEMMA DiscoverCheckMove ==
  ASSUME IInv, StatementInv, NEW c \in Clients, DiscoverCheck(c)
  PROVE  ClientMove(c)
<1>1. At(c, "check") /\ pc[c] = "check" /\ req[c].op = "discover" /\ UNCHANGED <<req, filterCache>>
  BY DEF DiscoverCheck, At
<1>2. req[c].name \in Names
  BY <1>1, ServingRequest
<1>3. CASE Return(c) /\ Answer(c, 404)
  BY <1>1, <1>3, QuietAnswers DEF GentleCall, Watched
<1>4. CASE Chain(c, Select(req[c].name)) /\ Goto(c, "lookup") /\ UNCHANGED response
  BY <1>1, <1>2, <1>4, LookupIsGentle, QuietGoes DEF GentleCall, Watched
<1> QED
  BY <1>3, <1>4 DEF DiscoverCheck

LEMMA ProbeCheckMove ==
  ASSUME IInv, StatementInv, NEW c \in Clients, ProbeCheck(c)
  PROVE  ClientMove(c)
<1>1. /\ At(c, "check") /\ pc[c] = "check" /\ Return(c) /\ GentleCall(c)
      /\ UNCHANGED <<req, filterCache>>
  BY DEF ProbeCheck, At, GentleCall
<1>2. CASE Answer(c, 404)
  BY <1>1, <1>2, QuietAnswers DEF Watched
<1>3. CASE Goto(c, "probing") /\ UNCHANGED response
  BY <1>1, <1>3, QuietGoes DEF Watched
<1> QED
  BY <1>2, <1>3 DEF ProbeCheck

LEMMA HandlerMove ==
  ASSUME IInv, StatementInv, NEW c \in Clients, Handler(c)
  PROVE  ClientMove(c)
BY RegisterMove, PatchMove, DeleteMove, ListMove, DiscoverCheckMove, ProbeCheckMove
   DEF Handler

LEMMA ReceiveMove ==
  ASSUME IInv, StatementInv, NEW c \in Clients, Receive(c)
  PROVE  ClientMove(c)
<1>1. PICK r \in Requests : ReceiveLookup(c, r) \/ ReceiveList(c, r) \/ ReceiveRefresh(c, r)
  BY DEF Receive
<1>2. /\ pc[c] = "idle" /\ req[c] = NoReq /\ response[c] = 0 /\ UNCHANGED filterCache
      /\ req' = [req EXCEPT ![c] = r]
  BY <1>1 DEF ReceiveLookup, ReceiveList, ReceiveRefresh, At, StatementInv, OwnRequest
<1>3. /\ c \in Tasks /\ Clients \subseteq Tasks /\ pc \in [Tasks -> Locations]
      /\ req \in [Clients -> {NoReq} \cup Requests]
      /\ response \in [Clients -> {0, 200, 201, 404, 409, 500}]
  BY ClientsAreTasks DEF IInv, TypeOK
<1>4. ASSUME NEW l, Goto(c, l), UNCHANGED response
      PROVE  Elsewhere(c) /\ pc'[c] = l /\ response'[c] = 0
  BY <1>2, <1>3, <1>4 DEF Goto, Elsewhere
<1>5. ASSUME GentleCall(c), NEW l \in {"check", "enabled", "list_lock"}, Goto(c, l),
             UNCHANGED response
      PROVE  ClientMove(c)
  BY <1>2, <1>4, <1>5 DEF ClientMove, QuietMove, Watched
<1>6. CASE ReceiveLookup(c, r)
  <2>1. GentleCall(c)
    BY <1>6, RequestParts, LookupIsGentle DEF ReceiveLookup, GentleCall
  <2> QED
    BY <1>5, <1>6, <2>1 DEF ReceiveLookup
<1>7. CASE ReceiveRefresh(c, r)
  <2>1. GentleCall(c)
    BY <1>7, LookupIsGentle DEF ReceiveRefresh, GentleCall
  <2> QED
    BY <1>5, <1>7, <2>1 DEF ReceiveRefresh
<1>8. CASE ReceiveList(c, r)
  <2>1. r.op = "list" /\ req'[c] = r
    BY <1>2, <1>3, <1>8 DEF ReceiveList
  <2>2. CASE UNCHANGED dbVars /\ Answer(c, 200)
    <3>1. Elsewhere(c) /\ pc'[c] = "done" /\ response'[c] = 200
      BY <1>2, <1>3, <2>2 DEF Answer, Goto, Elsewhere
    <3> QED
      BY <1>2, <2>1, <2>2, <3>1 DEF ClientMove, QuietMove, GentleCall, Watched
  <2>3. ASSUME NEW m \in Names, Submit(c, Select(m)), Goto(c, "list_query"),
               UNCHANGED response
        PROVE  ClientMove(c)
    BY <1>2, <1>4, <2>1, <2>3 DEF ClientMove, QueryMove
  <2>4. CASE WaitLock(c, "list_lock") /\ UNCHANGED <<dbVars, response>>
    BY <1>5, <2>4 DEF WaitLock, GentleCall
  <2> QED
    BY <1>8, <2>2, <2>3, <2>4 DEF ReceiveList, WalkEnds, WalkStops
<1> QED
  BY <1>1, <1>6, <1>7, <1>8

-----------------------------------------------------------------------------
(* Discoveries, refreshes and failures are moves of a client, or aside.      *)

TaskMove(t) == AsideMove(t) \/ ClientMove(t)

\* A task goes to a place where nothing is at stake, or ends.
LEMMA HarmlessMove ==
  ASSUME IInv, StatementInv, NEW t \in Tasks, GentleCall(t), UNCHANGED <<req, filterCache>>,
         NEW l \in {"lookup", "fetch", "store_lock", "healthy", "unhealthy", "drop_lock",
                    "up", "down", "enabled", "total_lock", "answer_lock", "sleep", "done"},
         Goto(t, l),
         t \in Clients => pc[t] \notin Watched \cup {"idle", "done"},
         \/ UNCHANGED response
         \/ /\ t \in Clients /\ l = "done" /\ req[t].op # "patch"
            /\ Answer(t, 200)
  PROVE  TaskMove(t)
<1>1. CASE t \in Clients
  BY <1>1, QuietGoes, QuietAnswers DEF TaskMove, Watched
<1>2. CASE t \notin Clients
  BY <1>2, GoesElsewhere DEF TaskMove, AsideMove
<1> QED
  BY <1>1, <1>2

LEMMA DiscoveryCall ==
  ASSUME IInv, NEW t \in Tasks,
         pc[t] \in DiscoveryLocations \cup ProbeLocations \cup {"spawned"}
  PROVE  /\ Submit(t, Select(Subject(t))) => GentleCall(t)
         /\ \A v \in Statuses : /\ SetStatus(t, v) => GentleCall(t)
                                /\ Recover(t, StatusUpdate(t, v)) => GentleCall(t)
<1>1. Subject(t) \in Names
  BY Discovering
<1> QED
  BY <1>1, LookupIsGentle, StatusUpdateIsGentle DEF GentleCall, SetStatus

LEMMA DiscoveryMove ==
  ASSUME IInv, StatementInv, NEW t \in Tasks,
         Fetch(t) \/ Discovery(t) \/ StatusHealthyFails(t)
  PROVE  TaskMove(t)
<1>1. /\ pc[t] \in DiscoveryLocations \cup ProbeLocations \cup {"spawned"}
      /\ UNCHANGED <<req, filterCache>>
  BY DEF Fetch, FetchSucceeds, FetchFails, Discovery, DiscoveryStart, DiscoveryLookup,
         StoreLocked, StatusHealthy, StatusUnhealthy, DropLocked, StatusHealthyFails,
         ProbeSucceeds, ProbeFails, ProbeExpires, ProbeEnds,
         At, DiscoveryLocations, ProbeLocations
<1>2. /\ Submit(t, Select(Subject(t))) => GentleCall(t)
      /\ \A v \in Statuses : /\ SetStatus(t, v) => GentleCall(t)
                             /\ Recover(t, StatusUpdate(t, v)) => GentleCall(t)
  BY <1>1, DiscoveryCall
<1>3. "healthy" \in Statuses /\ "unhealthy" \in Statuses
  BY DEF Statuses
<1>4. UNCHANGED dbVars \/ Return(t) \/ Take(t) => GentleCall(t)
  BY DEF GentleCall
<1>5. pc[t] \notin Watched \cup {"idle", "done"}
  BY <1>1 DEF DiscoveryLocations, ProbeLocations, Watched
<1>6. ASSUME NEW l \in {"lookup", "fetch", "store_lock", "healthy", "unhealthy", "drop_lock",
                        "up", "down"},
             GentleCall(t), Goto(t, l), UNCHANGED response
      PROVE  TaskMove(t)
  BY <1>1, <1>5, <1>6, HarmlessMove
<1>7. ASSUME pc[t] # "spawned", GentleCall(t), EndDiscovery(t) PROVE TaskMove(t)
  <2>1. t \in Clients => req[t].op \in {"discover", "probe"}
    BY <1>1, Discovering
  <2> QED
    BY <1>1, <1>5, <1>7, <2>1, HarmlessMove DEF EndDiscovery, Answer
<1>8. CASE Fetch(t)
  BY <1>2, <1>3, <1>4, <1>6, <1>8
     DEF Fetch, FetchSucceeds, FetchFails, ProbeSucceeds, ProbeFails, StoreTools, WaitLock
<1>9. CASE StatusHealthyFails(t)
  BY <1>2, <1>3, <1>6, <1>9 DEF StatusHealthyFails
<1>10. CASE DiscoveryStart(t) \/ StoreLocked(t)
  BY <1>2, <1>3, <1>6, <1>10 DEF DiscoveryStart, StoreLocked, StoreTools
<1>11. CASE DiscoveryLookup(t) \/ StatusHealthy(t)
  BY <1>4, <1>6, <1>7, <1>11 DEF DiscoveryLookup, StatusHealthy, At
<1>12. CASE StatusUnhealthy(t) \/ DropLocked(t)
  BY <1>4, <1>6, <1>7, <1>12
     DEF StatusUnhealthy, DropLocked, DropTools, WaitLock, At
<1>13. CASE ProbeEnds(t)
  BY <1>4, <1>7, <1>13 DEF ProbeEnds
<1>14. CASE ProbeExpires(t)
  <2>1. GentleCall(t) /\ Goto(t, "done") /\ UNCHANGED response
    BY <1>4, <1>14 DEF ProbeExpires
  <2> QED
    BY <1>1, <1>5, <2>1, HarmlessMove
<1> QED
  BY <1>8, <1>9, <1>10, <1>11, <1>12, <1>13, <1>14 DEF Discovery

LEMMA QueryFailsMove ==
  ASSUME IInv, StatementInv, NEW t \in Tasks, QueryFails(t)
  PROVE  TaskMove(t)
<1>1. /\ Raise(t) /\ HasError(t) /\ GentleCall(t) /\ UNCHANGED <<req, filterCache>>
      /\ GiveUp(t)
  BY DEF QueryFails, GentleCall, Raise
<1>2. pc[t] \notin {"idle", "done"}
  <2>1. phase[t] # "idle"
    BY <1>1 DEF HasError
  <2> QED
    BY <2>1, NotQuerying DEF Querying
<1>3. CASE t \in Clients
  BY <1>1, <1>2, <1>3, QuietAnswers DEF GiveUp, TaskMove
<1>4. CASE t \notin Clients
  BY <1>1, <1>4, GoesElsewhere DEF GiveUp, TaskMove, AsideMove
<1> QED
  BY <1>3, <1>4

LEMMA RefreshMove ==
  ASSUME IInv, StatementInv, NEW a \in Actors, Refresh(a)
  PROVE  TaskMove(a)
<1>1. /\ pc[a] \in {"enabled", "gather", "total_lock", "answer_lock"}
      /\ UNCHANGED <<req, filterCache>>
  BY DEF Refresh, Gather, CountTotal, CanaryEnds, At
<1>2. a \in Tasks /\ (a \in Clients => req[a].op \in {"refresh", "canary"})
  BY <1>1, Refreshing
<1>3. pc[a] \notin Watched \cup {"idle", "done"}
  BY <1>1 DEF Watched
<1>4. CASE Gather(a)
  <2>1. GentleCall(a) /\ pc \in [Tasks -> Locations] /\ UNCHANGED response
    BY <1>4 DEF Gather, GentleCall, IInv, TypeOK
  <2>2. pc'[a] = "gather" /\ \A c \in Clients \ {a} : pc'[c] = pc[c]
    BY <1>2, <1>4, ClientsAreTasks, TasksAssumption DEF Gather, Actors, Begun
  <2>3. Elsewhere(a)
    BY <1>1, <2>1, <2>2 DEF Elsewhere
  <2>4. CASE a \in Clients
    <3>1. response'[a] = 0
      BY <1>3, <2>1, <2>4, ServingRequest
    <3> QED
      BY <1>1, <1>3, <2>1, <2>2, <2>3, <2>4, <3>1
         DEF TaskMove, ClientMove, QuietMove, Watched
  <2>5. CASE a \notin Clients
    BY <1>1, <2>1, <2>3, <2>5 DEF TaskMove, AsideMove
  <2> QED
    BY <2>4, <2>5
<1>5. CASE CountTotal(a)
  <2>1. GentleCall(a)
    BY <1>5 DEF CountTotal, GentleCall
  <2>2. CASE AfterTotal(a)
    BY <1>1, <1>2, <1>3, <2>1, <2>2, HarmlessMove DEF AfterTotal, Answer
  <2>3. CASE UNCHANGED response /\ (Goto(a, "total_lock") \/ Goto(a, "answer_lock"))
    BY <1>1, <1>2, <1>3, <2>1, <2>3, HarmlessMove
  <2> QED
    BY <1>5, <2>2, <2>3 DEF CountTotal, WaitLock
<1>6. CASE CanaryEnds(a)
  <2>1. a \in Clients /\ GentleCall(a) /\ Answer(a, 200) /\ Goto(a, "done")
    BY <1>6 DEF CanaryEnds, Canary, GentleCall, Answer
  <2> QED
    BY <1>1, <1>2, <1>3, <2>1, HarmlessMove
<1> QED
  BY <1>4, <1>5, <1>6 DEF Refresh

LEMMA StartupMove ==
  ASSUME IInv, StatementInv, StartupRefresh
  PROVE  TaskMove(Boot)
<1>1. GentleCall(Boot)
  BY LookupIsGentle DEF StartupRefresh, GentleCall
<1> QED
  BY <1>1, HarmlessMove, ClientsAreTasks DEF StartupRefresh

\* Every step of the catalogue is a move of one task, or the engine's.
LEMMA StepKinds ==
  ASSUME IInv, StatementInv, [Next]_vars
  PROVE  \/ UNCHANGED vars
         \/ \E t \in Tasks : EngineStep(t) \/ TaskMove(t)
<1>1. ASSUME NEW t \in Tasks, Fetch(t) \/ Discovery(t) \/ Fails(t)
      PROVE  TaskMove(t)
  BY <1>1, DiscoveryMove, QueryFailsMove DEF Fails
<1>2. ASSUME NEW c \in Clients, Receive(c) \/ Handler(c)
      PROVE  c \in Tasks /\ TaskMove(c)
  BY <1>2, ReceiveMove, HandlerMove, ClientsAreTasks DEF TaskMove
<1>3. ASSUME NEW a \in Actors, Refresh(a) PROVE a \in Tasks /\ TaskMove(a)
  BY <1>3, RefreshMove, TasksAssumption
<1>4. StartupRefresh => Boot \in Tasks /\ TaskMove(Boot)
  BY StartupMove, ClientsAreTasks
<1> QED
  BY <1>1, <1>2, <1>3, <1>4 DEF Next

-----------------------------------------------------------------------------
(* Whose statement is whose, proved.                                         *)

LEMMA OthersOwn ==
  ASSUME StatementInv, NEW t \in Tasks, OthersKept(t), Elsewhere(t)
  PROVE  /\ \A u \in Tasks \ {t} : OwnStatement(u)'
         /\ \A c \in Clients \ {t} : OwnRequest(c)'
<1>1. ASSUME NEW u \in Tasks \ {t} PROVE OwnStatement(u)'
  <2>1. stmt'[u] = stmt[u] /\ (u \in Clients => pc'[u] = pc[u] /\ req'[u] = req[u])
    BY <1>1 DEF OthersKept, Elsewhere
  <2>2. OwnStatement(u) /\ (Gentle(stmt[u]) <=> Gentle(stmt[u])')
    BY <2>1 DEF StatementInv, Gentle
  <2> QED
    BY <2>1, <2>2 DEF OwnStatement, At
<1>2. ASSUME NEW c \in Clients \ {t} PROVE OwnRequest(c)'
  BY <1>2 DEF StatementInv, OwnRequest, Elsewhere, At
<1> QED
  BY <1>1, <1>2

\* A move is a call of its task: it changes no row, and nothing of another task.
LEMMA AsksForItself ==
  ASSUME IInv, StatementInv, NEW c \in Clients, WriteMove(c) \/ RereadMove(c)
  PROVE  \E s \in Statements : Chain(c, s)
<1>1. pc[c] \in {"check", "insert", "update"}
  BY DEF WriteMove, RereadMove, At
<1>2. /\ req[c] \in Requests
      /\ req[c].op \in {"register", "patch", "delete", "discover", "probe"}
  BY <1>1, ServingRequest DEF Serves
<1>3. /\ req[c].name \in Names
      /\ req[c].op = "register" => CreatedColumns(req[c].columns) \in Columns
      /\ req[c].op = "patch" => ChangeOf(req[c]) \in Changes
  BY <1>2, RequestParts, CreatedType
<1> QED
  BY <1>3, SelectIsStatement, InsertIsStatement, UpdateIsStatement
     DEF WriteMove, RereadMove

LEMMA MoveEffect ==
  ASSUME IInv, StatementInv, NEW c \in Tasks, TaskMove(c)
  PROVE  DbTypeOK /\ DbCall(c) /\ OthersKept(c) /\ rows' = rows /\ Elsewhere(c)
<1>1. DbTypeOK
  BY DEF IInv, TypeOK
<1>2. CASE GentleCall(c)
  BY <1>1, <1>2, GentleEffect DEF TaskMove, AsideMove, ClientMove
<1>3. CASE c \in Clients /\ (WriteMove(c) \/ RereadMove(c)) /\ Elsewhere(c)
  <2>1. DbCall(c)
    BY <1>3, AsksForItself DEF DbCall
  <2> QED
    BY <1>1, <1>3, <2>1, CallEffect
<1>4. CASE Elsewhere(c) /\ (ForgetMove(c) \/ WaitMove(c) \/ QueryMove(c) \/ FillMove(c))
  <2>1. DbCall(c)
    BY <1>4, SelectIsStatement DEF DbCall, ForgetMove, WaitMove, QueryMove, FillMove
  <2> QED
    BY <1>1, <1>4, <2>1, CallEffect
<1> QED
  BY <1>2, <1>3, <1>4 DEF TaskMove, AsideMove, ClientMove, QuietMove

\* The statement and the request of the task that moves.
LEMMA OwnGentle ==
  ASSUME IInv, StatementInv, NEW t \in Tasks, GentleCall(t),
         t \in Clients => /\ pc'[t] \notin Watched \ {"list_query"}
                          /\ pc[t] \in Watched => stmt'[t] = NoStatement
  PROVE  OwnStatement(t)'
<1>1. \/ stmt'[t] = stmt[t] /\ phase'[t] = phase[t]
      \/ Gentle(stmt'[t])
  BY GentleEffect DEF IInv, TypeOK
<1>2. t \in Clients => OwnStatement(t)' <=> Gentle(stmt'[t])
  BY DEF OwnStatement, Watched, At, Gentle
<1>3. CASE Gentle(stmt'[t])
  BY <1>3 DEF OwnStatement, Watched, At, Gentle
<1>4. CASE stmt'[t] = stmt[t] /\ (t \in Clients => pc[t] \notin Watched)
  BY <1>4 DEF StatementInv, OwnStatement, Watched, At, Gentle
<1>5. CASE stmt'[t] = NoStatement
  BY <1>3, <1>5, LookupIsGentle
<1> QED
  BY <1>1, <1>3, <1>4, <1>5

LEMMA MoveKeepsStatements ==
  ASSUME IInv, StatementInv, NEW t \in Tasks, TaskMove(t)
  PROVE  StatementInv'
<1>1. DbTypeOK /\ DbCall(t) /\ OthersKept(t) /\ Elsewhere(t)
  BY MoveEffect
<1> SUFFICES OwnStatement(t)' /\ (t \in Clients => OwnRequest(t)')
  BY <1>1, OthersOwn DEF StatementInv
<1>2. CASE AsideMove(t)
  BY <1>2, OwnGentle DEF AsideMove
<1>3. CASE t \in Clients /\ QuietMove(t)
  <2>1. pc[t] \in Watched => stmt'[t] = NoStatement
    BY <1>1, <1>3 DEF QuietMove, Raise, Return, Leave, DbTypeOK
  <2>2. OwnStatement(t)'
    BY <1>3, <2>1, OwnGentle DEF QuietMove
  <2>3. OwnRequest(t)'
    BY <1>3 DEF QuietMove, OwnRequest, At
  <2> QED
    BY <2>2, <2>3
<1>4. CASE t \in Clients /\ (WriteMove(t) \/ RereadMove(t))
  <2>1. pc[t] \notin {"idle", "done"} /\ pc'[t] \notin {"idle", "done"}
    BY <1>4 DEF WriteMove, RereadMove, At
  <2>2. req'[t] = req[t] /\ response'[t] = 0
    BY <1>4, <2>1, ServingRequest DEF WriteMove, RereadMove, Stays
  <2>3. OwnRequest(t)'
    BY <2>1, <2>2 DEF OwnRequest, At
  <2>4. OwnStatement(t)'
    BY <1>1, <1>4, <2>2, ChainEffect
       DEF WriteMove, RereadMove, OwnStatement, At, Insert, Update, Delete, Select
  <2> QED
    BY <2>3, <2>4
<1>5. CASE t \in Clients /\ (ForgetMove(t) \/ WaitMove(t))
  <2>1. /\ pc[t] \notin {"idle", "done"} /\ pc'[t] \in {"done", "pop_lock"}
        /\ pc'[t] = "pop_lock" => response'[t] = response[t]
    BY <1>5 DEF ForgetMove, WaitMove, Stays, At
  <2>2. OwnRequest(t)'
    BY <1>5, <2>1, ServingRequest DEF OwnRequest, At
  <2>3. stmt'[t] = NoStatement \/ (At(t, "pop_lock") /\ stmt'[t] = stmt[t])
    BY <1>1, <1>5 DEF ForgetMove, WaitMove, Return, Leave, DbTypeOK, dbVars
  <2>4. Gentle(stmt'[t])
    BY <2>3, LookupIsGentle DEF StatementInv, OwnStatement, Gentle, At
  <2>5. OwnStatement(t)'
    BY <2>1, <2>4 DEF OwnStatement, Gentle, At
  <2> QED
    BY <2>2, <2>5
<1>6. CASE t \in Clients /\ (QueryMove(t) \/ FillMove(t))
  <2>1. /\ pc[t] \in {"idle", "list_lock", "list_query"} /\ pc'[t] \in {"list_query", "done"}
        /\ pc'[t] = "list_query" => response'[t] = response[t]
    BY <1>6 DEF QueryMove, FillMove, At
  <2>2. OwnRequest(t)'
    BY <1>6, <2>1, ServingRequest DEF StatementInv, OwnRequest, At
  <2>3. stmt'[t] = NoStatement \/ \E m \in Names : stmt'[t] = Select(m)
    BY <1>1, <1>6, SubmitEffect, ChainEffect
       DEF QueryMove, FillMove, Return, Leave, DbTypeOK
  <2>4. Gentle(stmt'[t])
    BY <2>3, LookupIsGentle
  <2>5. OwnStatement(t)'
    BY <2>1, <2>4 DEF OwnStatement, Gentle, At
  <2> QED
    BY <2>2, <2>5
<1> QED
  BY <1>2, <1>3, <1>4, <1>5, <1>6 DEF TaskMove, ClientMove

LEMMA EngineKeepsStatements ==
  ASSUME IInv, StatementInv, NEW t \in Tasks, EngineStep(t)
  PROVE  StatementInv'
<1>1. stmt' = stmt /\ pc' = pc /\ req' = req /\ response' = response
  BY EngineEffect DEF EngineStep, catVars, IInv, TypeOK
<1> QED
  BY <1>1 DEF StatementInv, OwnStatement, OwnRequest, At, Gentle

LEMMA InitStatementInv == ASSUME Init PROVE StatementInv
BY ClientsAreTasks
   DEF Init, DbInit, StatementInv, OwnStatement, OwnRequest, At, NoStatement, Gentle

LEMMA NextStatementInv == ASSUME IInv, StatementInv, [Next]_vars PROVE StatementInv'
<1>1. CASE UNCHANGED vars
  BY <1>1 DEF vars, dbVars, catVars, StatementInv, OwnStatement, OwnRequest, At, Gentle
<1> QED
  BY <1>1, StepKinds, EngineKeepsStatements, MoveKeepsStatements

\* Every statement that writes more than a status is that of the request its client
\* serves; every client is answered once.
THEOREM OwnStatements == Spec => [](IInv /\ StatementInv)
<1>1. Init => StatementInv
  BY InitStatementInv
<1>2. IInv /\ StatementInv /\ [Next]_vars => StatementInv'
  BY NextStatementInv
<1> QED
  BY <1>1, <1>2, Inductive, PTL DEF Spec

-----------------------------------------------------------------------------
(* Columns: a change that was confirmed stays until somebody changes it.     *)

EditableColumns == {"url", "enabled", "allow", "block"}

\* Every registration is stored as it was asked for.  On PostgreSQL it is; on
\* SQLite if nobody registers a server as disabled.
AsStored ==
  \A r \in Requests : r.op = "register" => CreatedColumns(r.columns) = r.columns

\* The UPDATE of c has been run, or there was none to run.
Patched(c) ==
  /\ req[c] # NoReq /\ req[c].op = "patch"
  /\ (At(c, "update") /\ Ran(c)) \/ At(c, "updated") \/ response[c] = 200

Given(n, col) == \E d \in Clients : Writes(d, n, col, rows[n][col])

PatchInv ==
  \A c \in Clients :
    Patched(c) /\ rows[req[c].name] # NoRow =>
      \A col \in EditableColumns : ChangeOf(req[c])[col] # Keep => Given(req[c].name, col)

\* A request that has arrived does not change.
RequestsStay == \A d \in Clients : req[d] # NoReq => req'[d] = req[d]

LEMMA PostgresStores == ASSUME Backend = "postgres" PROVE AsStored
<1>1. ASSUME NEW r \in Requests, r.op = "register" PROVE CreatedColumns(r.columns) = r.columns
  <2>1. r.columns \in Columns
    BY <1>1, RequestParts
  <2> QED
    BY <2>1 DEF CreatedColumns, Columns
<1> QED
  BY <1>1 DEF AsStored

LEMMA MoveKeepsRequests ==
  ASSUME NEW t \in Tasks, TaskMove(t)
  PROVE  RequestsStay
BY DEF TaskMove, AsideMove, ClientMove, Elsewhere, QuietMove, WriteMove, RereadMove,
       ForgetMove, WaitMove, QueryMove, FillMove, Stays, RequestsStay

LEMMA AssignedColumns ==
  ASSUME NEW row \in Rows, NEW ch \in Changes, NEW col \in EditableColumns
  PROVE  Assigned(row, ch)[col] = IF ch[col] = Keep THEN row[col] ELSE ch[col]
BY DEF Rows, Changes, EditableColumns, Assigned, Assign

LEMMA InsertedColumns ==
  ASSUME NEW c, NEW col \in EditableColumns
  PROVE  InsertedRow(c)[col] = c[col]
BY DEF InsertedRow, EditableColumns

LEMMA GentleColumns ==
  ASSUME NEW s, s.op = "update", Gentle(s), NEW col \in EditableColumns
  PROVE  s.change[col] = Keep
BY DEF Gentle, NoChange, EditableColumns

LEMMA GivenStays ==
  ASSUME RequestsStay, NEW n, NEW col, Given(n, col), rows'[n][col] = rows[n][col]
  PROVE  Given(n, col)'
BY DEF RequestsStay, Given, Writes

\* What the engine does to a row was asked for, column by column.
LEMMA EngineGives ==
  ASSUME IInv, StatementInv, AsStored, NEW t \in Tasks, EngineStep(t),
         NEW n \in Names, rows'[n] # rows[n], rows'[n] # NoRow, NEW col \in EditableColumns
  PROVE  \/ rows[n] # NoRow /\ rows'[n][col] = rows[n][col]
         \/ t \in Clients /\ Writes(t, n, col, rows'[n][col])
<1>1. /\ DbTypeOK /\ stmt[t].name = n
      /\ \/ stmt[t].op = "insert" /\ rows'[n] = InsertedRow(stmt[t].columns)
         \/ /\ stmt[t].op = "update" /\ rows[n] # NoRow
            /\ rows'[n] = Assigned(rows[n], stmt[t].change)
  BY RowEffect DEF EngineStep, IInv, TypeOK
<1>2. CASE stmt[t].op = "insert"
  <2>1. /\ t \in Clients /\ pc[t] = "insert"
        /\ stmt[t] = Insert(req[t].name, CreatedColumns(req[t].columns))
    BY <1>2 DEF StatementInv, OwnStatement, At
  <2>2. req[t] \in Requests /\ req[t] # NoReq /\ req[t].op = "register"
    BY <2>1, ServingRequest DEF Serves
  <2>3. stmt[t].columns = req[t].columns /\ req[t].name = n
    BY <1>1, <2>1, <2>2 DEF AsStored, Insert
  <2> QED
    BY <1>1, <1>2, <2>1, <2>2, <2>3, InsertedColumns DEF Writes
<1>3. CASE stmt[t].op = "update"
  <2>1. stmt[t].change \in Changes /\ rows[n] \in Rows
    BY <1>1, <1>3, StatementParts DEF DbTypeOK, Tables
  <2>2. rows'[n][col] = IF stmt[t].change[col] = Keep THEN rows[n][col] ELSE stmt[t].change[col]
    BY <1>1, <1>3, <2>1, AssignedColumns
  <2>3. CASE Gentle(stmt[t])
    BY <1>1, <1>3, <2>2, <2>3, GentleColumns
  <2>4. CASE t \in Clients /\ pc[t] = "update"
    <3>1. stmt[t] = Update(req[t].name, ChangeOf(req[t]))
      BY <2>4 DEF StatementInv, OwnStatement, At
    <3>2. req[t] # NoReq /\ req[t].op = "patch"
      BY <2>4, ServingRequest DEF Serves
    <3> QED
      BY <1>1, <1>3, <2>2, <2>4, <3>1, <3>2 DEF Writes, Update
  <2> QED
    BY <1>3, <2>3, <2>4 DEF StatementInv, OwnStatement, At
<1> QED
  BY <1>1, <1>2, <1>3

LEMMA EngineKeepsPatches ==
  ASSUME IInv, StatementInv, AsStored, PatchInv, NEW t \in Tasks, EngineStep(t)
  PROVE  PatchInv'
<1>1. /\ DbTypeOK /\ OthersKept(t) /\ stmt' = stmt /\ UNCHANGED <<pc, req, response>>
      /\ rows \in Tables /\ Engine(t)
  BY EngineEffect DEF EngineStep, catVars, IInv, TypeOK, DbTypeOK
<1>2. RequestsStay
  BY <1>1 DEF RequestsStay
<1> SUFFICES ASSUME NEW c \in Clients, Patched(c)', NEW n, n = req[c].name,
                    rows'[n] # NoRow, NEW col \in EditableColumns,
                    ChangeOf(req[c])[col] # Keep
             PROVE  Given(n, col)'
  BY <1>1 DEF PatchInv, Given, Writes
<1>3. req[c] # NoReq /\ req[c] \in Requests /\ req[c].op = "patch" /\ n \in Names
  BY <1>1, RequestParts DEF Patched, IInv, TypeOK
<1>4. CASE Patched(c)
  <2>1. CASE rows[n] # NoRow /\ rows'[n][col] = rows[n][col]
    BY <1>2, <1>4, <2>1, GivenStays DEF PatchInv
  <2>2. CASE t \in Clients /\ Writes(t, n, col, rows'[n][col])
    BY <1>1, <2>2 DEF Given, Writes
  <2> QED
    BY <1>3, <2>1, <2>2, EngineGives
<1>5. CASE ~Patched(c)
  <2>1. c = t /\ pc[c] = "update" /\ ~Ran(c) /\ Ran(c)'
    BY <1>1, <1>5, ClientsAreTasks DEF Patched, At, OthersKept, Ran
  <2>2. stmt[c] = Update(n, ChangeOf(req[c]))
    BY <2>1 DEF StatementInv, OwnStatement, At
  <2>3. Applied(c)
    BY <1>1, <2>1, RunEffect, SecondJobEffect DEF Engine, Ran
  <2>4. rows[n] # NoRow /\ rows'[n] = Assigned(rows[n], ChangeOf(req[c]))
    BY <1>1, <1>3, <2>2, <2>3 DEF Applied, Update, Tables
  <2>5. rows'[n][col] = ChangeOf(req[c])[col]
    BY <1>1, <1>3, <2>4, AssignedColumns, RequestParts DEF Tables
  <2> QED
    BY <1>1, <1>3, <2>5 DEF Given, Writes
<1> QED
  BY <1>4, <1>5

\* A client that moves to where its change was made has made it.
LEMMA MovesPatched ==
  ASSUME IInv, StatementInv, NEW c \in Clients, ClientMove(c), Patched(c)'
  PROVE  req'[c] = req[c] /\ (Patched(c) \/ NamesNoColumn(req[c]))
<1>1. CASE QuietMove(c)
  BY <1>1 DEF QuietMove, Watched, Patched, At
<1>2. CASE WriteMove(c) \/ RereadMove(c)
  <2>1. pc[c] \in {"check", "insert", "update"} /\ req'[c] = req[c] /\ response'[c] = response[c]
    BY <1>2 DEF WriteMove, RereadMove, Stays, At
  <2>2. /\ response'[c] = 0 /\ DbTypeOK /\ c \in Tasks /\ req[c] # NoReq
        /\ pc[c] = "insert" => req[c].op = "register"
    BY <2>1, ServingRequest DEF Serves
  <2>3. HasResult(c) /\ phase'[c] = "queued"
    BY <1>2, <2>2, ChainEffect DEF WriteMove, RereadMove, Chain
  <2>4. Patched(c)' => pc'[c] = "updated" /\ req[c].op = "patch"
    BY <2>1, <2>2, <2>3 DEF Patched, At, Ran
  <2> QED
    BY <1>2, <2>1, <2>2, <2>3, <2>4 DEF WriteMove, RereadMove, Patched, At, Ran, HasResult
<1>3. CASE ForgetMove(c) \/ WaitMove(c)
  <2>1. pc[c] \in {"reread", "updated", "remove", "pop_lock"} /\ req'[c] = req[c]
    BY <1>3 DEF ForgetMove, WaitMove, Stays, At
  <2>2. req[c] # NoReq /\ (req[c].op = "patch" => pc[c] = "updated")
    BY <2>1, ServingRequest DEF Serves
  <2> QED
    BY <2>1, <2>2 DEF Patched, At
<1>4. CASE QueryMove(c) \/ FillMove(c)
  <2>1. req'[c].op = "list"
    BY <1>4, ServingRequest DEF QueryMove, FillMove, At, Serves
  <2> QED
    BY <2>1 DEF Patched
<1> QED
  BY <1>1, <1>2, <1>3, <1>4 DEF ClientMove

LEMMA MoveKeepsPatches ==
  ASSUME IInv, StatementInv, PatchInv, NEW t \in Tasks, TaskMove(t)
  PROVE  PatchInv'
<1>1. /\ OthersKept(t) /\ rows' = rows /\ Elsewhere(t) /\ RequestsStay
  BY MoveEffect, MoveKeepsRequests
<1> SUFFICES ASSUME NEW c \in Clients, Patched(c)', NEW n, n = req'[c].name,
                    rows[n] # NoRow, NEW col \in EditableColumns,
                    ChangeOf(req'[c])[col] # Keep
             PROVE  Given(n, col)'
  BY <1>1 DEF PatchInv, Given, Writes
<1>2. req'[c] = req[c] /\ (Patched(c) \/ NamesNoColumn(req[c]))
  <2>1. CASE c = t
    BY <2>1, MovesPatched DEF TaskMove, AsideMove
  <2>2. CASE c # t
    BY <1>1, <2>2, ClientsAreTasks DEF Elsewhere, OthersKept, Patched, At, Ran
  <2> QED
    BY <2>1, <2>2
<1>3. Patched(c)
  BY <1>2 DEF NamesNoColumn, NoChange, EditableColumns
<1>4. Given(n, col)
  BY <1>1, <1>2, <1>3 DEF PatchInv
<1> QED
  BY <1>1, <1>2, <1>4, GivenStays

LEMMA NextPatchInv ==
  ASSUME IInv, StatementInv, AsStored, PatchInv, [Next]_vars
  PROVE  PatchInv'
<1>1. CASE UNCHANGED vars
  BY <1>1 DEF vars, dbVars, catVars, PatchInv, Patched, Given, Writes, At, Ran
<1> QED
  BY <1>1, StepKinds, EngineKeepsPatches, MoveKeepsPatches

\* A column that a PATCH named, and that was answered with 200, never goes back to
\* a value that no request gave it.
THEOREM PatchesAreKept == ASSUME AsStored PROVE Spec => []PatchKept
<1>1. Init => PatchInv
  BY DEF Init, PatchInv, Patched
<1>2. IInv /\ StatementInv /\ PatchInv /\ [Next]_vars => PatchInv'
  BY NextPatchInv
<1>3. PatchInv => PatchKept
  BY DEF PatchInv, PatchKept, Patched, Given, EditableColumns
<1> QED
  BY <1>1, <1>2, <1>3, OwnStatements, PTL DEF Spec

-----------------------------------------------------------------------------
(* Servers that nobody enabled.                                              *)

\* Somebody enabled server n, or it was enabled from the start.
Enabled(n) ==
  EnabledAtStart(n) \/ \E c \in Clients : Writes(c, n, "enabled", 1)

\* list_enabled_servers gives a refresh or a cycle rows of enabled servers only.
ListControl(t) ==
  At(t, "enabled") =>
    /\ stmt[t] = SelectEnabled
    /\ Ran(t) => \A n \in Names : reply[t][n] # NoRow => Discoverable(reply[t][n])

\* Whatever says that n is enabled, or follows from it, does so for a reason.
EnabledInv ==
  /\ \A n \in Names : Discoverable(rows[n]) => Enabled(n)
  /\ \A t \in Tasks, n \in Names : Discoverable(reply[t][n]) => Enabled(n)
  /\ \A t \in Tasks : pc[t] \in {"fetch", "store_lock"} => Discoverable(Row(t))
  /\ \A n \in Names : toolCache[n] # Absent => Enabled(n)
  /\ \A t \in Tasks : ListControl(t)
  /\ \A a \in Actors, n \in Names : At(<<a, n>>, "probing") => Enabled(n)

\* Tools appear for a task that has fetched them.
LEMMA ToolsAppear ==
  ASSUME IInv, [Next]_vars, NEW n \in Names, toolCache[n] = Absent, toolCache'[n] # Absent
  PROVE  \E t \in Tasks : pc[t] \in {"fetch", "store_lock"} /\ Subject(t) = n
<1>1. toolCache \in [Names -> {Absent} \cup SUBSET Tools]
  BY DEF IInv, TypeOK
<1>2. ASSUME NEW t \in Tasks, EngineStep(t) \/ Fetch(t) \/ Discovery(t) \/ Fails(t)
      PROVE  pc[t] \in {"fetch", "store_lock"} /\ Subject(t) = n
  BY <1>1, <1>2
     DEF EngineStep, catVars, Fails, QueryFails, StatusHealthyFails, Fetch, FetchSucceeds,
         FetchFails, Discovery, At, DiscoveryStart, DiscoveryLookup, StoreLocked,
         StoreTools, StatusHealthy, StatusUnhealthy, DropLocked, DropTools,
         ProbeSucceeds, ProbeFails, ProbeExpires, ProbeEnds
<1>3. ASSUME NEW c \in Clients, Receive(c) \/ Handler(c) PROVE FALSE
  BY <1>1, <1>3
     DEF Receive, ReceiveLookup, ReceiveList, ReceiveRefresh, Handler, RegisterCheck,
         RegisterInsert, RegisterDone, PatchCheck, PatchReread, PatchDone, DeleteCheck,
         DeleteRow, DeletePop, PopAndForget, ListLocked, ListFilled, DiscoverCheck,
         ProbeCheck
<1>4. ASSUME NEW a \in Actors, Refresh(a) PROVE FALSE
  BY <1>4 DEF Refresh, Gather, CountTotal, CanaryEnds
<1>5. ~(StartupRefresh \/ UNCHANGED vars)
  BY DEF StartupRefresh, vars, catVars
<1> QED
  BY <1>2, <1>3, <1>4, <1>5 DEF Next

\* A task fetches by the row it has looked up.
LEMMA FetchesFound ==
  ASSUME IInv, [Next]_vars, NEW t \in Tasks, pc'[t] \in {"fetch", "store_lock"}
  PROVE  \/ pc[t] \in {"fetch", "store_lock"}
         \/ pc[t] = "lookup" /\ Discoverable(Row(t)) /\ Take(t)
<1>1. /\ pc \in [Tasks -> Locations] /\ Clients \subseteq Tasks /\ Boot \in Tasks
      /\ Actors \subseteq Tasks
  BY ClientsAreTasks, TasksAssumption DEF IInv, TypeOK
<1> SUFFICES ASSUME pc[t] \notin {"fetch", "store_lock"}
             PROVE  pc[t] = "lookup" /\ Discoverable(Row(t)) /\ Take(t)
  OBVIOUS
<1> USE DEF Goto, Answer, At
<1>2. ASSUME NEW u \in Tasks, Fetch(u) \/ Discovery(u) \/ Fails(u)
      PROVE  pc[t] = "lookup" /\ Discoverable(Row(t)) /\ Take(t)
  <2>1. CASE DiscoveryLookup(u)
    BY <1>1, <2>1 DEF DiscoveryLookup, EndDiscovery
  <2>2. CASE Fetch(u)
    BY <1>1, <2>2
       DEF Fetch, FetchSucceeds, FetchFails, StoreTools, WaitLock, ProbeSucceeds, ProbeFails
  <2>3. CASE Fails(u)
    BY <1>1, <2>3 DEF Fails, QueryFails, StatusHealthyFails, GiveUp
  <2>4. CASE DiscoveryStart(u) \/ StoreLocked(u) \/ StatusHealthy(u)
    BY <1>1, <2>4 DEF DiscoveryStart, StoreLocked, StoreTools, StatusHealthy, EndDiscovery
  <2>5. CASE StatusUnhealthy(u) \/ DropLocked(u)
    BY <1>1, <2>5 DEF StatusUnhealthy, DropLocked, DropTools, WaitLock, EndDiscovery
  <2>6. CASE ProbeExpires(u) \/ ProbeEnds(u)
    BY <1>1, <2>6 DEF ProbeExpires, ProbeEnds, EndDiscovery
  <2> QED
    BY <1>2, <2>1, <2>2, <2>3, <2>4, <2>5, <2>6 DEF Discovery
<1>3. ASSUME NEW c \in Clients, Receive(c) PROVE FALSE
  BY <1>1, <1>3
     DEF Receive, ReceiveLookup, ReceiveList, ReceiveRefresh, WalkEnds, WalkStops, WaitLock
<1>4. ASSUME NEW c \in Clients, Handler(c) PROVE FALSE
  <2>1. c \in Tasks
    BY <1>1
  <2>2. CASE RegisterCheck(c) \/ RegisterInsert(c) \/ RegisterDone(c)
    BY <1>1, <2>1, <2>2 DEF RegisterCheck, RegisterInsert, RegisterDone, AnswerAndSpawn
  <2>3. CASE PatchCheck(c) \/ PatchReread(c) \/ PatchDone(c)
    BY <1>1, <2>1, <2>3 DEF PatchCheck, PatchReread, PatchDone, AnswerAndSpawn
  <2>4. CASE DeleteCheck(c) \/ DeleteRow(c) \/ DeletePop(c)
    BY <1>1, <2>1, <2>4 DEF DeleteCheck, DeleteRow, DeletePop, PopAndForget, WaitLock
  <2>5. CASE ListLocked(c) \/ ListFilled(c) \/ DiscoverCheck(c) \/ ProbeCheck(c)
    BY <1>1, <2>1, <2>5
       DEF ListLocked, ListFilled, WalkEnds, WalkStops, DiscoverCheck, ProbeCheck
  <2> QED
    BY <1>4, <2>2, <2>3, <2>4, <2>5 DEF Handler
<1>5. ASSUME NEW a \in Actors, Refresh(a) PROVE FALSE
  BY <1>1, <1>5 DEF Refresh, Gather, Begun, CountTotal, CanaryEnds, AfterTotal, WaitLock
<1>6. ~(StartupRefresh \/ UNCHANGED vars \/ \E u \in Tasks : EngineStep(u))
  BY <1>1 DEF StartupRefresh, vars, EngineStep, catVars
<1> QED
  BY <1>2, <1>3, <1>4, <1>5, <1>6 DEF Next

\* A task comes to list the enabled servers by asking for them, and to probe one
\* because it was listed, or because its client asks for it.
LEMMA ListsAndProbes ==
  ASSUME IInv, [Next]_vars, NEW t \in Tasks, pc'[t] \in {"enabled", "probing"},
         pc'[t] # pc[t]
  PROVE  \/ pc'[t] = "enabled" /\ Submit(t, SelectEnabled)
         \/ pc'[t] = "probing" /\ t \in Clients
         \/ \E a \in Actors, n \in Names : t = <<a, n>> /\ Gather(a) /\ reply[a][n] # NoRow
<1>1. /\ pc \in [Tasks -> Locations] /\ Clients \subseteq Tasks /\ Boot \in Tasks
      /\ Actors \subseteq Tasks
  BY ClientsAreTasks, TasksAssumption DEF IInv, TypeOK
<1> DEFINE Goal == \/ pc'[t] = "enabled" /\ Submit(t, SelectEnabled)
                   \/ pc'[t] = "probing" /\ t \in Clients
                   \/ \E a \in Actors, n \in Names :
                        t = <<a, n>> /\ Gather(a) /\ reply[a][n] # NoRow
<1> USE DEF Goto, Answer
<1>2. ASSUME NEW u \in Tasks, Fetch(u) \/ Discovery(u) \/ Fails(u) PROVE FALSE
  <2>1. CASE DiscoveryStart(u) \/ DiscoveryLookup(u)
    BY <1>1, <2>1 DEF DiscoveryStart, DiscoveryLookup, EndDiscovery
  <2>2. CASE Fetch(u)
    BY <1>1, <2>2
       DEF Fetch, FetchSucceeds, FetchFails, StoreTools, WaitLock, ProbeSucceeds, ProbeFails
  <2>3. CASE Fails(u)
    BY <1>1, <2>3 DEF Fails, QueryFails, StatusHealthyFails, GiveUp
  <2>4. CASE StoreLocked(u) \/ StatusHealthy(u)
    BY <1>1, <2>4 DEF StoreLocked, StoreTools, StatusHealthy, EndDiscovery
  <2>5. CASE StatusUnhealthy(u) \/ DropLocked(u)
    BY <1>1, <2>5 DEF StatusUnhealthy, DropLocked, DropTools, WaitLock, EndDiscovery
  <2>6. CASE ProbeExpires(u) \/ ProbeEnds(u)
    BY <1>1, <2>6 DEF ProbeExpires, ProbeEnds, EndDiscovery
  <2> QED
    BY <1>2, <2>1, <2>2, <2>3, <2>4, <2>5, <2>6 DEF Discovery
<1>3. ASSUME NEW c \in Clients, Receive(c) PROVE Goal
  BY <1>1, <1>3
     DEF Receive, ReceiveLookup, ReceiveList, ReceiveRefresh, WalkEnds, WalkStops, WaitLock
<1>4. ASSUME NEW c \in Clients, Handler(c) PROVE Goal
  <2>1. c \in Tasks
    BY <1>1
  <2>2. CASE RegisterCheck(c) \/ RegisterInsert(c) \/ RegisterDone(c)
    BY <1>1, <2>1, <2>2 DEF RegisterCheck, RegisterInsert, RegisterDone, AnswerAndSpawn
  <2>3. CASE PatchCheck(c) \/ PatchReread(c) \/ PatchDone(c)
    BY <1>1, <2>1, <2>3 DEF PatchCheck, PatchReread, PatchDone, AnswerAndSpawn
  <2>4. CASE DeleteCheck(c) \/ DeleteRow(c) \/ DeletePop(c)
    BY <1>1, <2>1, <2>4 DEF DeleteCheck, DeleteRow, DeletePop, PopAndForget, WaitLock
  <2>5. CASE ListLocked(c) \/ ListFilled(c) \/ DiscoverCheck(c) \/ ProbeCheck(c)
    BY <1>1, <2>1, <2>5
       DEF ListLocked, ListFilled, WalkEnds, WalkStops, DiscoverCheck, ProbeCheck
  <2> QED
    BY <1>4, <2>2, <2>3, <2>4, <2>5 DEF Handler
<1>5. ASSUME NEW a \in Actors, Refresh(a) PROVE Goal
  <2>1. CASE Gather(a)
    BY <1>1, <2>1 DEF Gather
  <2>2. CASE CountTotal(a) \/ CanaryEnds(a)
    BY <1>1, <2>2 DEF CountTotal, CanaryEnds, AfterTotal, WaitLock
  <2> QED
    BY <1>5, <2>1, <2>2 DEF Refresh
<1>6. ASSUME StartupRefresh PROVE Goal
  BY <1>1, <1>6 DEF StartupRefresh
<1>7. ~(UNCHANGED vars \/ \E u \in Tasks : EngineStep(u))
  BY <1>1 DEF vars, EngineStep, catVars
<1> QED
  BY <1>2, <1>3, <1>4, <1>5, <1>6, <1>7 DEF Next

\* Until it has its list, a task waits for it.
LEMMA StaysListing ==
  ASSUME IInv, StatementInv, [Next]_vars, NEW t \in Tasks, pc[t] = "enabled",
         pc'[t] = "enabled"
  PROVE  /\ stmt'[t] = stmt[t]
         /\ (phase'[t] = phase[t] /\ reply'[t] = reply[t]) \/ EngineStep(t)
<1>1. /\ DbTypeOK /\ pc \in [Tasks -> Locations]
      /\ Actors \subseteq Tasks /\ Clients \subseteq Tasks
  BY ClientsAreTasks, TasksAssumption DEF IInv, TypeOK
<1>2. ASSUME NEW u \in Tasks \ {t}, TaskMove(u) \/ EngineStep(u)
      PROVE  stmt'[t] = stmt[t] /\ phase'[t] = phase[t] /\ reply'[t] = reply[t]
  <2>1. OthersKept(u)
    BY <1>1, <1>2, MoveEffect, EngineEffect DEF EngineStep
  <2> QED
    BY <2>1 DEF OthersKept
<1>3. ASSUME NEW u \in Tasks, Fetch(u) \/ Discovery(u) \/ Fails(u)
      PROVE  u # t /\ TaskMove(u)
  <2>1. TaskMove(u)
    BY <1>3, DiscoveryMove, QueryFailsMove DEF Fails
  <2>2. QueryFails(t) => pc'[t] = "done"
    BY <1>1 DEF QueryFails, GiveUp, Answer, Goto
  <2>3. ~(Fetch(t) \/ Discovery(t) \/ StatusHealthyFails(t))
    BY DEF Fetch, FetchSucceeds, FetchFails, Discovery, DiscoveryStart, DiscoveryLookup,
           StoreLocked, StatusHealthy, StatusUnhealthy, DropLocked, StatusHealthyFails,
           ProbeSucceeds, ProbeFails, ProbeExpires, ProbeEnds, At
  <2> QED
    BY <1>3, <2>1, <2>2, <2>3 DEF Fails
<1>4. ASSUME NEW c \in Clients, Receive(c) \/ Handler(c)
      PROVE  c # t /\ c \in Tasks /\ TaskMove(c)
  <2>1. TaskMove(c) /\ c \in Tasks
    BY <1>1, <1>4, ReceiveMove, HandlerMove DEF TaskMove
  <2>2. pc[c] # "enabled"
    BY <1>4
       DEF Receive, ReceiveLookup, ReceiveList, ReceiveRefresh, Handler, RegisterCheck,
           RegisterInsert, RegisterDone, PatchCheck, PatchReread, PatchDone, DeleteCheck,
           DeleteRow, DeletePop, ListLocked, ListFilled, DiscoverCheck, ProbeCheck, At
  <2> QED
    BY <2>1, <2>2
<1>5. ASSUME NEW a \in Actors, Refresh(a)
      PROVE  a # t /\ a \in Tasks /\ TaskMove(a)
  <2>1. TaskMove(a) /\ a \in Tasks
    BY <1>1, <1>5, RefreshMove
  <2>2. Gather(t) => pc'[t] # "enabled"
    BY <1>1 DEF Gather
  <2>3. ~(CountTotal(t) \/ CanaryEnds(t))
    BY DEF CountTotal, CanaryEnds, At
  <2> QED
    BY <1>5, <2>1, <2>2, <2>3 DEF Refresh
<1>6. StartupRefresh => Boot # t /\ Boot \in Tasks /\ TaskMove(Boot)
  BY StartupMove, ClientsAreTasks DEF StartupRefresh
<1>7. ASSUME EngineStep(t) PROVE stmt'[t] = stmt[t]
  BY <1>1, <1>7, EngineEffect DEF EngineStep
<1>8. CASE UNCHANGED vars
  BY <1>8 DEF vars, dbVars
<1> QED
  BY <1>2, <1>3, <1>4, <1>5, <1>6, <1>7, <1>8 DEF Next

\* Nothing that a step tells a task is new but the table.
LEMMA StepReplies ==
  ASSUME IInv, StatementInv, [Next]_vars, NEW t \in Tasks
  PROVE  /\ \A n \in Names : reply'[t][n] \in {reply[t][n], rows[n], NoRow}
         /\ phase[t] = "idle" \/ Take(t) => reply'[t] = reply[t]
         /\ RequestsStay
<1>1. DbTypeOK
  BY DEF IInv, TypeOK
<1>2. Take(t) => reply'[t] = reply[t]
  BY <1>1, TakeEffect
<1>3. CASE UNCHANGED vars
  BY <1>3 DEF vars, dbVars, catVars, RequestsStay
<1>4. ASSUME NEW u \in Tasks, EngineStep(u)
      PROVE  /\ \A n \in Names : reply'[t][n] \in {reply[t][n], rows[n], NoRow}
             /\ phase[t] = "idle" => reply'[t] = reply[t]
             /\ RequestsStay
  BY <1>1, <1>4, EngineReplies, EngineEffect
     DEF EngineStep, catVars, RequestsStay, OthersKept
<1>5. ASSUME NEW u \in Tasks, TaskMove(u)
      PROVE  /\ \A n \in Names : reply'[t][n] \in {reply[t][n], rows[n], NoRow}
             /\ phase[t] = "idle" => reply'[t] = reply[t]
             /\ RequestsStay
  <2>1. DbCall(u) /\ RequestsStay
    BY <1>5, MoveEffect, MoveKeepsRequests
  <2> QED
    BY <1>1, <2>1, CallReplies
<1> QED
  BY <1>2, <1>3, <1>4, <1>5, StepKinds

\* What changes in a row, or fills it, was asked for.
LEMMA StepGives ==
  ASSUME IInv, StatementInv, AsStored, [Next]_vars, NEW n \in Names,
         rows'[n] # rows[n], rows'[n] # NoRow, NEW col \in EditableColumns
  PROVE  \/ rows[n] # NoRow /\ rows'[n][col] = rows[n][col]
         \/ \E c \in Clients : Writes(c, n, col, rows'[n][col])
<1>1. \E t \in Tasks : EngineStep(t)
  BY StepKinds, MoveEffect DEF vars, dbVars
<1> QED
  BY <1>1, EngineGives

LEMMA ListsEnabled ==
  ASSUME DbTypeOK, NEW t \in Tasks, Engine(t), ListControl(t), At(t, "enabled"), Ran(t)',
         NEW n \in Names, reply'[t][n] # NoRow
  PROVE  Discoverable(reply'[t][n])
<1>1. stmt[t] = SelectEnabled /\ stmt[t].op = "list"
  BY DEF ListControl, SelectEnabled
<1>2. /\ reply \in [Tasks -> Tables] /\ reply[t] \in Tables /\ phase \in [Tasks -> Phases]
      /\ Ran(t) => (reply[t][n] # NoRow => Discoverable(reply[t][n]))
  BY DEF DbTypeOK, ListControl
<1>3. CASE Execute(t)
  <2>1. ExecuteRead(t)
    BY <1>1, <1>2, <1>3
       DEF Execute, ExecuteInsert, ExecuteUpdate, ExecuteDelete, ExecuteRefused, Ran
  <2>2. reply'[t] = Only(ListedFirst)
    BY <1>1, <1>2, <2>1 DEF ExecuteRead
  <2>3. n \in EnabledRows(rows) /\ reply'[t][n] = rows[n]
    BY <2>2 DEF Only, ListedFirst, Oldest
  <2> QED
    BY <2>3 DEF EnabledRows, Discoverable
<1>4. CASE Complete(t)
  <2>1. Ran(t) /\ reply'[t][n] = IF n \in LaterRows(reply[t]) THEN rows[n] ELSE reply[t][n]
    BY <1>1, <1>2, <1>4 DEF Complete, Ran
  <2> QED
    BY <1>2, <2>1 DEF LaterRows, EnabledRows, Discoverable
<1>5. CASE Continue(t)
  BY <1>2, <1>5 DEF Continue, Ran
<1> QED
  BY <1>3, <1>4, <1>5 DEF Engine

LEMMA NextListControl ==
  ASSUME IInv, StatementInv, [Next]_vars, NEW t \in Tasks, ListControl(t)
  PROVE  ListControl(t)'
<1> SUFFICES ASSUME pc'[t] = "enabled"
             PROVE  /\ stmt'[t] = SelectEnabled
                    /\ Ran(t)' => \A n \in Names :
                                    reply'[t][n] # NoRow => Discoverable(reply'[t][n])
  BY DEF ListControl, At, Discoverable
<1>1. DbTypeOK
  BY DEF IInv, TypeOK
<1>2. CASE pc[t] # "enabled"
  <2>1. Submit(t, SelectEnabled)
    <3>1. ASSUME NEW a \in Actors, NEW n \in Names, t = <<a, n>>, Gather(a) PROVE FALSE
      BY <1>2, <3>1, TasksAssumption DEF Gather, Begun, Actors, Discoveries
    <3> QED
      BY <1>2, <3>1, ListsAndProbes
  <2>2. stmt'[t] = SelectEnabled /\ phase'[t] = "queued"
    BY <1>1, <2>1, SubmitEffect
  <2> QED
    BY <2>2 DEF Ran
<1>3. CASE pc[t] = "enabled"
  <2>1. /\ stmt'[t] = stmt[t]
        /\ (phase'[t] = phase[t] /\ reply'[t] = reply[t]) \/ EngineStep(t)
    BY <1>3, StaysListing
  <2>2. CASE phase'[t] = phase[t] /\ reply'[t] = reply[t]
    BY <1>3, <2>1, <2>2 DEF ListControl, Ran, At
  <2>3. CASE EngineStep(t)
    BY <1>1, <1>3, <2>1, <2>3, ListsEnabled DEF ListControl, EngineStep, At
  <2> QED
    BY <2>1, <2>2, <2>3
<1> QED
  BY <1>2, <1>3

LEMMA NextEnabledInv ==
  ASSUME IInv, StatementInv, AsStored, EnabledInv, [Next]_vars, TypeOK'
  PROVE  EnabledInv'
<1>1. /\ RequestsStay /\ DbTypeOK
      /\ \A t \in Tasks : /\ \A n \in Names : reply'[t][n] \in {reply[t][n], rows[n], NoRow}
                          /\ phase[t] = "idle" \/ Take(t) => reply'[t] = reply[t]
  BY StepReplies, ClientsAreTasks DEF IInv, TypeOK
<1>2. ASSUME NEW n \in Names, Enabled(n) PROVE Enabled(n)'
  BY <1>1, <1>2 DEF Enabled, EnabledAtStart, Writes, RequestsStay
<1>3. ASSUME NEW n \in Names, Discoverable(rows'[n]) PROVE Enabled(n)'
  <2>1. CASE rows'[n] = rows[n]
    BY <1>2, <1>3, <2>1 DEF EnabledInv
  <2>2. CASE rows'[n] # rows[n]
    <3>1. rows'[n] # NoRow /\ rows'[n]["enabled"] = 1
      BY <1>3 DEF Discoverable
    <3>2. "enabled" \in EditableColumns
      BY DEF EditableColumns
    <3>3. \/ Discoverable(rows[n])
          \/ \E c \in Clients : Writes(c, n, "enabled", 1)
      BY <2>2, <3>1, <3>2, StepGives DEF Discoverable
    <3> QED
      BY <1>2, <3>3 DEF EnabledInv, Enabled
  <2> QED
    BY <2>1, <2>2
<1>4. ASSUME NEW t \in Tasks, NEW n \in Names, Discoverable(reply'[t][n])
      PROVE  Enabled(n)'
  <2>1. Discoverable(reply[t][n]) \/ Discoverable(rows[n])
    BY <1>1, <1>4 DEF Discoverable
  <2> QED
    BY <1>2, <2>1 DEF EnabledInv
<1>5. ASSUME NEW t \in Tasks, pc'[t] \in {"fetch", "store_lock"}
      PROVE  Discoverable(Row(t)')
  <2>1. pc[t] \in {"fetch", "store_lock"} \/ (pc[t] = "lookup" /\ Take(t) /\ Discoverable(Row(t)))
    BY <1>5, FetchesFound
  <2>2. Discoverable(Row(t))
    BY <2>1 DEF EnabledInv
  <2>3. reply'[t] = reply[t]
    BY <1>1, <2>1, NotQuerying DEF Querying
  <2>4. Subject(t)' = Subject(t)
    BY <1>1, <2>1, ServingRequest DEF Subject, RequestsStay
  <2> QED
    BY <2>2, <2>3, <2>4 DEF Row
<1>6. ASSUME NEW n \in Names, toolCache'[n] # Absent PROVE Enabled(n)'
  <2>1. CASE toolCache[n] # Absent
    BY <1>2, <2>1 DEF EnabledInv
  <2>2. CASE toolCache[n] = Absent
    <3>1. PICK t \in Tasks : pc[t] \in {"fetch", "store_lock"} /\ Subject(t) = n
      BY <1>6, <2>2, ToolsAppear
    <3>2. Discoverable(reply[t][n])
      BY <3>1 DEF EnabledInv, Row
    <3> QED
      BY <1>2, <3>2 DEF EnabledInv
  <2> QED
    BY <2>1, <2>2
<1>7. ASSUME NEW t \in Tasks PROVE ListControl(t)'
  BY NextListControl DEF EnabledInv
<1>8. ASSUME NEW a \in Actors, NEW n \in Names, At(<<a, n>>, "probing")'
      PROVE  Enabled(n)'
  <2>1. /\ <<a, n>> \in Tasks /\ <<a, n>> \notin Clients /\ a \in Tasks
        /\ \A b \in Actors, m \in Names : <<a, n>> = <<b, m>> => b = a /\ m = n
    BY TasksAssumption, ClientsAreTasks DEF Actors
  <2>2. CASE pc[<<a, n>>] = "probing"
    BY <1>2, <2>2 DEF EnabledInv, At
  <2>3. CASE pc[<<a, n>>] # "probing"
    <3>1. Gather(a) /\ reply[a][n] # NoRow
      BY <1>8, <2>1, <2>3, ListsAndProbes DEF At
    <3>2. At(a, "enabled") /\ Ran(a)
      BY <3>1 DEF Gather, Return, HasResult, Ran
    <3>3. Discoverable(reply[a][n])
      BY <2>1, <3>1, <3>2 DEF EnabledInv, ListControl
    <3> QED
      BY <1>2, <2>1, <3>3 DEF EnabledInv
  <2> QED
    BY <2>2, <2>3
<1> QED
  BY <1>3, <1>4, <1>5, <1>6, <1>7, <1>8 DEF EnabledInv, Discoverable

LEMMA InitEnabledInv == ASSUME Init PROVE EnabledInv
<1>1. rows \in InitialTables /\ \A t \in Tasks, n \in Names : reply[t][n] = NoRow
  BY DEF Init, DbInit, EmptyTable
<1>2. /\ \A t \in Tasks : pc[t] \notin {"fetch", "store_lock"}
      /\ \A n \in Names : toolCache[n] = Absent
  BY DEF Init
<1>3. /\ \A t \in Tasks : ListControl(t)
      /\ \A a \in Actors, n \in Names : ~At(<<a, n>>, "probing")
  BY ClientsAreTasks DEF Init, ListControl, At
<1> QED
  BY <1>1, <1>2, <1>3 DEF EnabledInv, Enabled, EnabledAtStart, Discoverable

\* Discoveries and canary cycles ask a server for its tools only if it is enabled from
\* the start, or somebody enabled it: discover_server_tools looks at the row before
\* each fetch, and run_canary_check lists the enabled servers.
THEOREM DisabledIsNotAsked == ASSUME AsStored PROVE Spec => []DisabledNotAsked
<1>1. Init => EnabledInv
  BY InitEnabledInv
<1>2. IInv /\ StatementInv /\ EnabledInv /\ [Next]_vars => EnabledInv'
  BY NextEnabledInv, NextIInv DEF IInv
<1>3. ASSUME IInv, EnabledInv PROVE DisabledNotAsked
  <2>1. ASSUME NEW t \in Tasks, NEW n \in Names, Asking(t, n) PROVE Enabled(n)
    <3>1. CASE At(t, "fetch") /\ Subject(t) = n
      <4>1. Discoverable(reply[t][n])
        BY <1>3, <3>1 DEF EnabledInv, Row, At
      <4> QED
        BY <1>3, <4>1 DEF EnabledInv
    <3>2. CASE At(t, "probing") /\ t \in Discoveries /\ Subject(t) = n
      <4>1. PICK a \in Actors, m \in Names : t = <<a, m>>
        BY <3>2 DEF Discoveries
      <4>2. m = n
        BY <3>2, <4>1, ClientsAreTasks, TasksAssumption DEF Subject, Actors
      <4> QED
        BY <1>3, <3>2, <4>1, <4>2 DEF EnabledInv
    <3> QED
      BY <2>1, <3>1, <3>2 DEF Asking
  <2> QED
    BY <1>3, <2>1 DEF EnabledInv, DisabledNotAsked, Enabled
<1> QED
  BY <1>1, <1>2, <1>3, OwnStatements, PTL DEF Spec

-----------------------------------------------------------------------------
(* Filters: why a cached pair of lists that is not the row's will be dropped. *)

\* c has removed the row of n, and is yet to drop what is cached of it.
Removing(c, n) ==
  /\ req[c] # NoReq /\ req[c].op = "delete" /\ req[c].name = n
  /\ (At(c, "remove") /\ Ran(c)) \/ At(c, "pop_lock")

\* c has written the lists of n, and is yet to look the row up and drop them.
Writing(c, n) ==
  /\ req[c] # NoReq /\ req[c].op \in {"register", "patch"} /\ req[c].name = n
  /\ pc[c] \in {"update", "insert"} /\ Ran(c)

\* c looks the row of n up, and will find it, or drops the lists anyhow.
Rereading(c, n) ==
  /\ req[c] # NoReq /\ req[c].op \in {"register", "patch"} /\ req[c].name = n
  /\ \/ At(c, "reread")
     \/ At(c, "updated") /\ (IF Ran(c) THEN reply[c][n] # NoRow ELSE rows[n] # NoRow)

\* Listing L is about to cache the lists of n that it was told of.
Filling(L, n) ==
  At(L, "list_query") /\ stmt[L].name = n /\ Ran(L) /\ reply[L][n] # NoRow

Stale(pair, n) == rows[n] # NoRow /\ pair # PairOf(rows[n])

CacheControl(n) ==
  /\ filterCache[n] # Miss /\ rows[n] = NoRow => \E c \in Clients : Removing(c, n)
  /\ filterCache[n] # Miss /\ Stale(filterCache[n], n) =>
       \E c \in Clients : Removing(c, n) \/ Writing(c, n) \/ Rereading(c, n)

\* Whoever is to drop them does so after L has cached them.
FillControl(L, n) ==
  Filling(L, n) =>
    /\ rows[n] = NoRow => \E c \in Clients : Removing(c, n)
    /\ Stale(PairOf(reply[L][n]), n) =>
         \E c \in Clients : \/ Removing(c, n)
                            \/ Writing(c, n) /\ Ahead(L, c, 2)
                            \/ Rereading(c, n) /\ Ahead(L, c, 0)

FilterInv ==
  \A n \in Names : CacheControl(n) /\ \A L \in Clients : FillControl(L, n)

\* The invariant behind FilterAgreement.
FInv == IInv /\ StatementInv /\ QueueOK /\ RefusalInv /\ FilterInv

-----------------------------------------------------------------------------
(* The engine keeps it.                                                      *)

LEMMA EngineKeepsReason ==
  ASSUME FInv, "select" \notin Fallible, NEW t \in Tasks, EngineStep(t), NEW n \in Names,
         NEW c \in Clients
  PROVE  /\ Removing(c, n) => Removing(c, n)'
         /\ Writing(c, n) => Writing(c, n)'
         /\ Rereading(c, n) => Rereading(c, n)' \/ rows'[n] = NoRow
<1>1. /\ DbTypeOK /\ OthersKept(t) /\ stmt' = stmt /\ UNCHANGED <<pc, req>>
      /\ c \in Tasks /\ Engine(t)
  BY EngineEffect, ClientsAreTasks DEF EngineStep, catVars, FInv, IInv, TypeOK
<1>2. Ran(c) => Ran(c)'
  BY <1>1, RunEffect, SecondJobEffect DEF OthersKept, Ran, Engine
<1>3. Removing(c, n) => Removing(c, n)'
  BY <1>1, <1>2 DEF Removing, At
<1>4. Writing(c, n) => Writing(c, n)'
  BY <1>1, <1>2 DEF Writing, At
<1>5. ASSUME At(c, "updated"), Rereading(c, n), rows'[n] # NoRow PROVE Rereading(c, n)'
  <2>1. stmt[c] = Select(n)
    BY <1>1, <1>5 DEF FInv, StatementInv, OwnStatement, Rereading, At
  <2>2. CASE Ran(c)
    <3>1. reply'[c] = reply[c]
      BY <1>1, <2>1, <2>2, RunEffect, SecondJobEffect DEF OthersKept, Engine, Select, Ran
    <3> QED
      BY <1>1, <1>2, <1>5, <2>2, <3>1 DEF Rereading, At
  <2>3. CASE ~Ran(c) /\ ~Ran(c)'
    BY <1>1, <1>5, <2>3 DEF Rereading, At
  <2>4. CASE ~Ran(c) /\ Ran(c)'
    <3>1. c = t
      BY <1>1, <2>4 DEF OthersKept, Ran
    <3>2. Execute(t) /\ Ran(t)'
      BY <1>1, <2>4, <3>1, SecondJobEffect DEF Engine
    <3>3. Applied(c)
      BY <1>1, <3>1, <3>2, RunEffect DEF Ran
    <3>4. rows' = rows /\ reply'[c][n] = rows[n]
      BY <2>1, <3>3 DEF Applied, Select, Only
    <3> QED
      BY <1>1, <1>5, <2>4, <3>4 DEF Rereading, At
  <2> QED
    BY <1>2, <2>2, <2>3, <2>4
<1>6. Rereading(c, n) => Rereading(c, n)' \/ rows'[n] = NoRow
  BY <1>1, <1>5 DEF Rereading, At
<1> QED
  BY <1>3, <1>4, <1>6

\* A row that is changed gives a reason.
LEMMA EngineGivesReason ==
  ASSUME FInv, NEW t \in Tasks, EngineStep(t), NEW n \in Names, rows'[n] # rows[n]
  PROVE  \/ rows'[n] = NoRow /\ t \in Clients /\ Removing(t, n)'
         \/ rows'[n] # NoRow /\ t \in Clients /\ Writing(t, n)' /\ Execute(t)
         \/ rows[n] # NoRow /\ rows'[n] # NoRow /\ PairOf(rows'[n]) = PairOf(rows[n])
<1>1. /\ DbTypeOK /\ Engine(t) /\ UNCHANGED <<pc, req>> /\ rows \in Tables
      /\ stmt[t] \in Statements /\ nextId \in Nat
  BY DEF EngineStep, catVars, FInv, IInv, TypeOK, DbTypeOK
<1>2. /\ Execute(t) /\ Ran(t)' /\ stmt[t].name = n
      /\ \/ stmt[t].op = "delete" /\ rows'[n] = NoRow
         \/ /\ stmt[t].op = "insert" /\ rows[n] = NoRow
            /\ rows'[n] = InsertedRow(stmt[t].columns)
         \/ /\ stmt[t].op = "update" /\ rows[n] # NoRow
            /\ rows'[n] = Assigned(rows[n], stmt[t].change)
  BY <1>1, RowEffect
<1>3. OwnStatement(t)
  BY DEF FInv, StatementInv
<1>4. CASE stmt[t].op = "delete"
  <2>1. t \in Clients /\ pc[t] = "remove" /\ stmt[t] = Delete(req[t].name)
    BY <1>3, <1>4 DEF OwnStatement, At
  <2>2. req[t] # NoReq /\ req[t].op = "delete" /\ req[t].name = n
    BY <1>2, <2>1, ServingRequest DEF FInv, Serves, Delete
  <2> QED
    BY <1>1, <1>2, <1>4, <2>1, <2>2 DEF Removing, At
<1>5. CASE stmt[t].op = "insert"
  <2>1. /\ t \in Clients /\ pc[t] = "insert"
        /\ stmt[t] = Insert(req[t].name, CreatedColumns(req[t].columns))
    BY <1>3, <1>5 DEF OwnStatement, At
  <2>2. req[t] # NoReq /\ req[t].op = "register" /\ req[t].name = n
    BY <1>2, <2>1, ServingRequest DEF FInv, Serves, Insert
  <2>3. rows'[n] # NoRow
    BY <1>1, <1>2, <1>5, StatementParts, InsertedType, AbsentValues
  <2> QED
    BY <1>1, <1>2, <2>1, <2>2, <2>3 DEF Writing
<1>6. CASE stmt[t].op = "update"
  <2>1. stmt[t].change \in Changes /\ rows[n] \in Rows
    BY <1>1, <1>2, <1>6, StatementParts DEF Tables
  <2>2. rows'[n] \in Rows /\ rows'[n] # NoRow
    BY <1>2, <1>6, <2>1, AssignedType, AbsentValues
  <2>3. CASE Gentle(stmt[t])
    <3>1. stmt[t].change["allow"] = Keep /\ stmt[t].change["block"] = Keep
      BY <1>6, <2>3, GentleColumns DEF EditableColumns
    <3>2. rows'[n]["allow"] = rows[n]["allow"] /\ rows'[n]["block"] = rows[n]["block"]
      BY <1>2, <1>6, <2>1, <3>1, AssignedColumns DEF EditableColumns
    <3> QED
      BY <1>2, <1>6, <2>2, <3>2 DEF PairOf
  <2>4. CASE t \in Clients /\ pc[t] = "update"
    <3>1. stmt[t] = Update(req[t].name, ChangeOf(req[t]))
      BY <1>3, <2>4 DEF OwnStatement, At
    <3>2. req[t] # NoReq /\ req[t].op = "patch" /\ req[t].name = n
      BY <1>2, <2>4, <3>1, ServingRequest DEF FInv, Serves, Update
    <3> QED
      BY <1>1, <1>2, <2>2, <2>4, <3>2 DEF Writing
  <2> QED
    BY <1>3, <1>6, <2>3, <2>4 DEF OwnStatement, At
<1> QED
  BY <1>2, <1>4, <1>5, <1>6

LEMMA EngineKeepsCacheControl ==
  ASSUME FInv, "select" \notin Fallible, NEW t \in Tasks, EngineStep(t), NEW n \in Names
  PROVE  CacheControl(n)'
<1>1. CacheControl(n) /\ filterCache' = filterCache
  BY DEF EngineStep, catVars, FInv, FilterInv
<1>2. ASSUME filterCache[n] # Miss, rows'[n] = NoRow
      PROVE  \E c \in Clients : Removing(c, n)'
  BY <1>1, <1>2, EngineKeepsReason, EngineGivesReason DEF CacheControl
<1>3. ASSUME filterCache[n] # Miss, Stale(filterCache[n], n)'
      PROVE  \E c \in Clients : Removing(c, n)' \/ Writing(c, n)' \/ Rereading(c, n)'
  <2>1. rows'[n] # NoRow /\ filterCache[n] # PairOf(rows'[n])
    BY <1>1, <1>3 DEF Stale
  <2>2. CASE t \in Clients /\ Writing(t, n)'
    BY <2>2
  <2>3. CASE rows[n] # NoRow /\ PairOf(rows'[n]) = PairOf(rows[n])
    BY <1>1, <1>3, <2>1, <2>3, EngineKeepsReason DEF CacheControl, Stale
  <2>4. CASE rows'[n] = rows[n]
    BY <2>1, <2>3, <2>4
  <2> QED
    BY <2>1, <2>2, <2>3, <2>4, EngineGivesReason
<1> QED
  BY <1>1, <1>2, <1>3 DEF CacheControl, Stale

LEMMA EngineKeepsFillControl ==
  ASSUME FInv, Backend = "sqlite", "select" \notin Fallible, NEW t \in Tasks, EngineStep(t),
         NEW n \in Names, NEW L \in Clients
  PROVE  FillControl(L, n)'
<1>1. /\ DbTypeOK /\ Engine(t) /\ OthersKept(t) /\ stmt' = stmt /\ UNCHANGED <<pc, req>>
      /\ L \in Tasks /\ Clients \subseteq Tasks /\ FillControl(L, n) /\ QueueOK
  BY EngineEffect, ClientsAreTasks
     DEF EngineStep, catVars, FInv, FilterInv, IInv, TypeOK
<1> SUFFICES ASSUME Filling(L, n)'
             PROVE  /\ rows'[n] = NoRow => \E c \in Clients : Removing(c, n)'
                    /\ Stale(PairOf(reply[L][n]), n)' =>
                         \E c \in Clients : \/ Removing(c, n)'
                                            \/ Writing(c, n)' /\ Ahead(L, c, 2)'
                                            \/ Rereading(c, n)' /\ Ahead(L, c, 0)'
  BY DEF FillControl
<1>2. At(L, "list_query") /\ stmt[L].op = "select" /\ stmt[L].name = n
  BY <1>1 DEF Filling, At, FInv, IInv, TaskControl, AwaitControl
<1>3. CASE ~Ran(L)
  <2>1. L = t /\ Execute(t) /\ Ran(t)'
    BY <1>1, <1>3, SecondJobEffect DEF Filling, OthersKept, Ran, Engine
  <2>2. Applied(t)
    BY <1>1, <2>1, RunEffect DEF Ran
  <2>3. rows' = rows /\ reply'[L][n] = rows[n]
    BY <1>2, <2>1, <2>2 DEF Applied, Only
  <2> QED
    BY <2>3 DEF Filling, Stale
<1>4. CASE Ran(L)
  <2>1. reply'[L] = reply[L]
    BY <1>1, <1>2, <1>4, RunEffect, SecondJobEffect DEF OthersKept, Engine, Ran
  <2>2. Filling(L, n)
    BY <1>1, <1>2, <1>4, <2>1 DEF Filling
  <2>3. rows'[n] = NoRow => \E c \in Clients : Removing(c, n)'
    BY <1>1, <2>2, EngineKeepsReason, EngineGivesReason DEF FillControl
  <2>4. ASSUME rows[n] # NoRow, rows'[n] # NoRow, PairOf(rows'[n]) = PairOf(rows[n]),
               Stale(PairOf(reply[L][n]), n)'
        PROVE  \E c \in Clients : \/ Removing(c, n)'
                                  \/ Writing(c, n)' /\ Ahead(L, c, 2)'
                                  \/ Rereading(c, n)' /\ Ahead(L, c, 0)'
    <3>1. PICK c \in Clients : \/ Removing(c, n)
                               \/ Writing(c, n) /\ Ahead(L, c, 2)
                               \/ Rereading(c, n) /\ Ahead(L, c, 0)
      BY <1>1, <2>1, <2>2, <2>4 DEF FillControl, Stale
    <3>2. CASE Removing(c, n)
      BY <3>2, EngineKeepsReason
    <3>3. ASSUME NEW k \in Nat, Ahead(L, c, k), Busy(c), c # L PROVE Ahead(L, c, k)'
      BY <1>1, <1>4, <3>3, AheadWhenEngine DEF Ran, Busy
    <3>4. CASE Writing(c, n) /\ Ahead(L, c, 2)
      <4>1. Busy(c) /\ c # L
        BY <1>2, <3>4 DEF Writing, Ran, Busy, At
      <4> QED
        BY <3>3, <3>4, <4>1, EngineKeepsReason
    <3>5. CASE Rereading(c, n) /\ Ahead(L, c, 0)
      <4>1. Busy(c) /\ c # L
        BY <1>1, <1>2, <3>5, AheadIsBusy DEF Rereading, At
      <4> QED
        BY <2>4, <3>3, <3>5, <4>1, EngineKeepsReason
    <3> QED
      BY <3>1, <3>2, <3>4, <3>5
  <2>5. ASSUME Stale(PairOf(reply[L][n]), n)'
        PROVE  \E c \in Clients : \/ Removing(c, n)'
                                  \/ Writing(c, n)' /\ Ahead(L, c, 2)'
                                  \/ Rereading(c, n)' /\ Ahead(L, c, 0)'
    <3>1. rows'[n] # NoRow
      BY <2>5 DEF Stale
    <3>2. CASE t \in Clients /\ Writing(t, n)' /\ Execute(t)
      <4>1. L # t
        BY <1>1, <1>2, <3>2 DEF Writing, At
      <4>2. Ahead(L, t, 2)'
        BY <1>1, <1>4, <3>2, <4>1, AheadWhenRun
      <4> QED
        BY <3>2, <4>2
    <3>3. CASE rows[n] # NoRow /\ PairOf(rows'[n]) = PairOf(rows[n])
      BY <2>4, <2>5, <3>1, <3>3
    <3> QED
      BY <3>1, <3>2, <3>3, EngineGivesReason
  <2> QED
    BY <2>3, <2>5
<1> QED
  BY <1>3, <1>4

-----------------------------------------------------------------------------
(* A move keeps it: a reason goes over into the next one, or has been acted on. *)

\* A client that does not move keeps its reason.
LEMMA ReasonStays ==
  ASSUME FInv, NEW t \in Tasks, TaskMove(t), NEW n \in Names, NEW c \in Clients \ {t}
  PROVE  /\ Removing(c, n) => Removing(c, n)'
         /\ Writing(c, n) => Writing(c, n)'
         /\ Rereading(c, n) => Rereading(c, n)'
<1>1. OthersKept(t) /\ Elsewhere(t) /\ rows' = rows /\ c \in Tasks
  BY MoveEffect, ClientsAreTasks DEF FInv
<1>2. /\ pc'[c] = pc[c] /\ req'[c] = req[c] /\ reply'[c] = reply[c] /\ phase'[c] = phase[c]
  BY <1>1 DEF OthersKept, Elsewhere
<1> QED
  BY <1>1, <1>2 DEF Removing, Writing, Rereading, At, Ran

\* The lists of n are dropped while nobody fills them in.
Dropped(t, n) == filterCache'[n] = Miss /\ (LockFree \/ LockMine(t))

LEMMA RemovingMoves ==
  ASSUME FInv, NEW c \in Clients, ClientMove(c), NEW n \in Names, Removing(c, n)
  PROVE  Removing(c, n)' \/ Dropped(c, n)
<1>1. /\ pc[c] \in {"remove", "pop_lock"} /\ req[c] # NoReq /\ req[c].op = "delete"
      /\ req[c].name = n /\ (pc[c] = "remove" => Ran(c))
  BY DEF Removing, At
<1>2. filterCache \in [Names -> {Miss} \cup (Filters \X Filters)]
  BY DEF FInv, IInv, TypeOK
<1>3. CASE QuietMove(c)
  <2>1. HasError(c)
    BY <1>1, <1>3 DEF QuietMove, Watched, At, Raise
  <2>2. phase[c] = "failed" /\ pc[c] # "pop_lock"
    BY <2>1, NotQuerying, ClientsAreTasks DEF HasError, Querying, FInv
  <2> QED
    BY <1>1, <2>2 DEF Ran
<1>4. CASE ForgetMove(c)
  BY <1>1, <1>2, <1>4 DEF ForgetMove, Invalidate, Dropped
<1>5. CASE WaitMove(c)
  BY <1>1, <1>5 DEF WaitMove, Stays, Removing, At
<1> QED
  BY <1>1, <1>3, <1>4, <1>5 DEF ClientMove, WriteMove, RereadMove, QueryMove, FillMove, At

LEMMA WritingMoves ==
  ASSUME FInv, NEW c \in Clients, ClientMove(c), NEW n \in Names, Writing(c, n),
         rows[n] # NoRow
  PROVE  Rereading(c, n)' /\ (\E s : Chain(c, s)) /\ filterCache' = filterCache
<1>1. /\ pc[c] \in {"update", "insert"} /\ req[c] # NoReq /\ req[c].name = n /\ Ran(c)
      /\ req[c].op \in {"register", "patch"}
  BY DEF Writing
<1>2. /\ rows' = rows /\ DbTypeOK /\ c \in Tasks
      /\ \A s : Chain(c, s) => phase'[c] = "queued"
  BY MoveEffect, ClientsAreTasks, ChainEffect DEF FInv, TaskMove
<1>3. CASE QuietMove(c)
  BY <1>1, <1>3 DEF QuietMove, Watched, At, Raise, HasError, Ran
<1>4. CASE RereadMove(c)
  BY <1>1, <1>2, <1>4 DEF RereadMove, Stays, Rereading, At, Ran
<1> QED
  BY <1>1, <1>3, <1>4 DEF ClientMove, WriteMove, ForgetMove, WaitMove, QueryMove, FillMove, At

LEMMA RereadingMoves ==
  ASSUME FInv, "select" \notin Fallible, NEW c \in Clients, ClientMove(c), NEW n \in Names,
         Rereading(c, n)
  PROVE  filterCache'[n] = Miss /\ HasResult(c)
<1>1. /\ pc[c] \in {"reread", "updated"} /\ req[c] # NoReq /\ req[c].name = n
      /\ pc[c] = "updated" /\ Ran(c) => reply[c][n] # NoRow
  BY DEF Rereading, At
<1>2. filterCache \in [Names -> {Miss} \cup (Filters \X Filters)]
  BY DEF FInv, IInv, TypeOK
<1>3. ~HasError(c)
  <2>1. c \in Tasks
    BY ClientsAreTasks
  <2>2. stmt[c] = Select(req[c].name)
    BY <1>1, <2>1 DEF FInv, StatementInv, OwnStatement
  <2> QED
    BY <2>1, <2>2 DEF FInv, RefusalInv, HasError, Select
<1>4. ~(At(c, "updated") /\ Return(c) /\ Row(c) = NoRow)
  BY <1>1 DEF At, Return, HasResult, Row, Subject, Ran
<1>5. CASE QuietMove(c)
  BY <1>1, <1>3, <1>4, <1>5 DEF QuietMove, Watched, At, Raise
<1>6. CASE ForgetMove(c)
  BY <1>1, <1>2, <1>6 DEF ForgetMove, Invalidate, Return, At
<1> QED
  BY <1>1, <1>5, <1>6 DEF ClientMove, WriteMove, RereadMove, WaitMove, QueryMove, FillMove, At

\* What a move does to the cached lists of n.
LEMMA CacheMoves ==
  ASSUME FInv, NEW t \in Tasks, TaskMove(t), NEW n \in Names
  PROVE  \/ filterCache'[n] \in {filterCache[n], Miss}
         \/ t \in Clients /\ Filling(t, n) /\ filterCache'[n] = PairOf(reply[t][n])
<1>1. filterCache \in [Names -> {Miss} \cup (Filters \X Filters)]
  BY DEF FInv, IInv, TypeOK
<1>2. ASSUME NEW m, Invalidate(m) PROVE filterCache'[n] \in {filterCache[n], Miss}
  BY <1>1, <1>2 DEF Invalidate
<1>3. CASE t \in Clients /\ FillMove(t)
  <2>1. /\ At(t, "list_query") /\ Ran(t)
        /\ filterCache' = Filled(stmt[t].name, reply[t][stmt[t].name])
    BY <1>3 DEF FillMove, Return, Chain, HasResult, Ran
  <2>2. CASE reply[t][stmt[t].name] = NoRow \/ stmt[t].name # n
    BY <1>1, <2>1, <2>2 DEF Filled
  <2>3. CASE reply[t][n] # NoRow /\ stmt[t].name = n
    BY <1>1, <1>3, <2>1, <2>3 DEF Filled, Filling
  <2> QED
    BY <2>2, <2>3
<1> QED
  BY <1>2, <1>3
     DEF TaskMove, AsideMove, ClientMove, QuietMove, WriteMove, RereadMove, ForgetMove,
         WaitMove, QueryMove, Stays

\* A listing that is filling does not move, and nobody has its lock.
LEMMA FillsBefore ==
  ASSUME FInv, NEW t \in Tasks, TaskMove(t), NEW n \in Names, NEW L \in Clients,
         Filling(L, n)'
  PROVE  L # t /\ Filling(L, n) /\ reply'[L] = reply[L] /\ ~Dropped(t, n)
<1>1. OthersKept(t) /\ Elsewhere(t) /\ L \in Tasks /\ DbTypeOK
  BY MoveEffect, ClientsAreTasks DEF FInv
<1>2. L # t
  <2>1. ASSUME L = t PROVE FALSE
    <3>1. pc'[t] = "list_query" /\ Ran(t)'
      BY <2>1 DEF Filling, At
    <3>2. QueryMove(t) \/ FillMove(t)
      BY <2>1, <3>1
         DEF TaskMove, AsideMove, ClientMove, QuietMove, Watched, WriteMove, RereadMove,
             ForgetMove, WaitMove
    <3>3. phase'[t] = "queued"
      BY <1>1, <2>1, <3>1, <3>2, SubmitEffect, ChainEffect DEF QueryMove, FillMove
    <3> QED
      BY <3>1, <3>3 DEF Ran
  <2> QED
    BY <2>1
<1>3. Filling(L, n) /\ reply'[L] = reply[L]
  BY <1>1, <1>2 DEF Filling, OthersKept, Elsewhere, At, Ran
<1>4. LockMine(L)
  BY <1>3 DEF Filling, FInv, IInv, ListerHoldsLock
<1> QED
  BY <1>2, <1>3, <1>4 DEF Dropped, LockFree, LockMine

LEMMA MoveKeepsCacheControl ==
  ASSUME FInv, "select" \notin Fallible, NEW t \in Tasks, TaskMove(t), NEW n \in Names
  PROVE  CacheControl(n)'
<1>1. rows' = rows /\ CacheControl(n)
  BY MoveEffect DEF FInv, FilterInv
<1>2. t \in Clients /\ (Removing(t, n) \/ Writing(t, n) \/ Rereading(t, n)) => ClientMove(t)
  BY DEF TaskMove, AsideMove
<1>3. ASSUME NEW c \in Clients, Removing(c, n)
      PROVE  Removing(c, n)' \/ filterCache'[n] = Miss
  BY <1>2, <1>3, ReasonStays, RemovingMoves DEF Dropped
<1>4. ASSUME NEW c \in Clients, Writing(c, n), rows[n] # NoRow
      PROVE  Writing(c, n)' \/ Rereading(c, n)'
  BY <1>2, <1>4, ReasonStays, WritingMoves
<1>5. ASSUME NEW c \in Clients, Rereading(c, n)
      PROVE  Rereading(c, n)' \/ filterCache'[n] = Miss
  BY <1>2, <1>5, ReasonStays, RereadingMoves
<1>6. ASSUME filterCache'[n] # Miss, rows[n] = NoRow
      PROVE  \E c \in Clients : Removing(c, n)
  <2>1. CASE filterCache'[n] = filterCache[n]
    BY <1>1, <1>6, <2>1 DEF CacheControl
  <2>2. CASE t \in Clients /\ Filling(t, n)
    BY <1>6, <2>2 DEF FInv, FilterInv, FillControl
  <2> QED
    BY <1>6, <2>1, <2>2, CacheMoves
<1>7. ASSUME filterCache'[n] # Miss, rows[n] # NoRow, filterCache'[n] # PairOf(rows[n])
      PROVE  \E c \in Clients : Removing(c, n) \/ Writing(c, n) \/ Rereading(c, n)
  <2>1. CASE filterCache'[n] = filterCache[n]
    BY <1>1, <1>7, <2>1 DEF CacheControl, Stale
  <2>2. CASE t \in Clients /\ Filling(t, n) /\ filterCache'[n] = PairOf(reply[t][n])
    <3>1. Stale(PairOf(reply[t][n]), n) /\ FillControl(t, n)
      BY <1>7, <2>2 DEF Stale, FInv, FilterInv
    <3> QED
      BY <2>2, <3>1 DEF FillControl
  <2> QED
    BY <1>7, <2>1, <2>2, CacheMoves
<1> QED
  BY <1>1, <1>3, <1>4, <1>5, <1>6, <1>7 DEF CacheControl, Stale

LEMMA MoveKeepsFillControl ==
  ASSUME FInv, Backend = "sqlite", "select" \notin Fallible, NEW t \in Tasks, TaskMove(t),
         NEW n \in Names, NEW L \in Clients
  PROVE  FillControl(L, n)'
<1> SUFFICES ASSUME Filling(L, n)'
             PROVE  /\ rows'[n] = NoRow => \E c \in Clients : Removing(c, n)'
                    /\ Stale(PairOf(reply[L][n]), n)' =>
                         \E c \in Clients : \/ Removing(c, n)'
                                            \/ Writing(c, n)' /\ Ahead(L, c, 2)'
                                            \/ Rereading(c, n)' /\ Ahead(L, c, 0)'
  BY DEF FillControl
<1>1. L # t /\ Filling(L, n) /\ reply'[L] = reply[L] /\ ~Dropped(t, n)
  BY FillsBefore
<1>2. /\ rows' = rows /\ DbTypeOK /\ DbCall(t) /\ FillControl(L, n) /\ QueueOK
      /\ L \in Tasks /\ Clients \subseteq Tasks
  BY MoveEffect, ClientsAreTasks DEF FInv, FilterInv
<1>3. t \in Clients /\ (Removing(t, n) \/ Writing(t, n) \/ Rereading(t, n)) => ClientMove(t)
  BY DEF TaskMove, AsideMove
<1>4. ASSUME NEW c \in Clients, Removing(c, n) PROVE Removing(c, n)'
  BY <1>1, <1>3, <1>4, ReasonStays, RemovingMoves
<1>5. ASSUME NEW c \in Clients, Writing(c, n), Ahead(L, c, 2), rows[n] # NoRow
      PROVE  \/ Writing(c, n)' /\ Ahead(L, c, 2)'
             \/ Rereading(c, n)' /\ Ahead(L, c, 0)'
  <2>1. CASE c = t
    <3>1. Rereading(c, n)' /\ \E s : Chain(c, s)
      BY <1>3, <1>5, <2>1, WritingMoves
    <3>2. Busy(L)
      BY <1>1 DEF Filling, Ran, Busy
    <3> QED
      BY <1>1, <1>2, <1>5, <2>1, <3>1, <3>2, AheadWhenChained
  <2>2. CASE c # t
    <3>1. Writing(c, n)'
      BY <1>5, <2>2, ReasonStays
    <3>2. Ahead(L, c, 2)'
      BY <1>1, <1>2, <1>5, <2>2, MovesInQueue, AheadOfOthers
    <3> QED
      BY <3>1, <3>2
  <2> QED
    BY <2>1, <2>2
<1>6. ASSUME NEW c \in Clients, Rereading(c, n), Ahead(L, c, 0)
      PROVE  Rereading(c, n)' /\ Ahead(L, c, 0)'
  <2>1. CASE c = t
    <3>1. HasResult(c)
      BY <1>3, <1>6, <2>1, RereadingMoves
    <3> QED
      BY <1>2, <1>6, <3>1, NobodyAhead
  <2>2. CASE c # t
    <3>1. Rereading(c, n)'
      BY <1>6, <2>2, ReasonStays
    <3>2. Ahead(L, c, 0)'
      BY <1>1, <1>2, <1>6, <2>2, MovesInQueue, AheadOfOthers
    <3> QED
      BY <3>1, <3>2
  <2> QED
    BY <2>1, <2>2
<1>7. rows'[n] = NoRow => \E c \in Clients : Removing(c, n)'
  BY <1>1, <1>2, <1>4 DEF FillControl
<1>8. ASSUME Stale(PairOf(reply[L][n]), n)'
      PROVE  \E c \in Clients : \/ Removing(c, n)'
                                \/ Writing(c, n)' /\ Ahead(L, c, 2)'
                                \/ Rereading(c, n)' /\ Ahead(L, c, 0)'
  <2>1. rows[n] # NoRow /\ Stale(PairOf(reply[L][n]), n)
    BY <1>1, <1>2, <1>8 DEF Stale
  <2>2. \E c \in Clients : \/ Removing(c, n)
                           \/ Writing(c, n) /\ Ahead(L, c, 2)
                           \/ Rereading(c, n) /\ Ahead(L, c, 0)
    BY <1>1, <1>2, <2>1 DEF FillControl
  <2> QED
    BY <1>4, <1>5, <1>6, <2>1, <2>2
<1> QED
  BY <1>7, <1>8

LEMMA NextFInv ==
  ASSUME FInv, Backend = "sqlite", "select" \notin Fallible, [Next]_vars
  PROVE  FInv'
<1>1. DbTypeOK /\ IInv' /\ StatementInv'
  BY NextIInv, NextStatementInv DEF FInv, IInv, TypeOK
<1>2. CASE UNCHANGED vars
  BY <1>1, <1>2
     DEF vars, dbVars, catVars, FInv, QueueOK, RefusalInv, FilterInv, CacheControl,
         FillControl, Removing, Writing, Rereading, Filling, Stale, At, Ran, Ahead, Left,
         Before
<1>3. ASSUME NEW t \in Tasks, EngineStep(t) PROVE FInv'
  <2>1. QueueOK' /\ RefusalInv'
    BY <1>1, <1>3, EngineKeepsQueue, EngineKeepsRefusals DEF FInv, EngineStep
  <2>2. FilterInv'
    BY <1>3, EngineKeepsCacheControl, EngineKeepsFillControl DEF FilterInv
  <2> QED
    BY <1>1, <2>1, <2>2 DEF FInv
<1>4. ASSUME NEW t \in Tasks, TaskMove(t) PROVE FInv'
  <2>1. DbCall(t)
    BY <1>4, MoveEffect DEF FInv
  <2>2. QueueOK' /\ RefusalInv'
    BY <1>1, <2>1, CallKeepsQueue, CallKeepsRefusals DEF FInv
  <2>3. FilterInv'
    BY <1>4, MoveKeepsCacheControl, MoveKeepsFillControl DEF FilterInv
  <2> QED
    BY <1>1, <2>2, <2>3 DEF FInv
<1> QED
  BY <1>2, <1>3, <1>4, StepKinds DEF FInv

LEMMA InitFInv == ASSUME Init PROVE FInv
<1>1. /\ \A n \in Names : filterCache[n] = Miss
      /\ \A t \in Tasks : phase[t] = "idle" /\ pc[t] = "idle"
      /\ order = <<>>
  BY DEF Init, DbInit
<1>2. QueueOK /\ RefusalInv
  BY <1>1 DEF QueueOK, Queues, RefusalInv
<1>3. FilterInv
  BY <1>1, ClientsAreTasks DEF FilterInv, CacheControl, FillControl, Filling, Stale, At
<1> QED
  BY <1>2, <1>3, InitIInv, InitStatementInv DEF FInv

\* On SQLite, if lookups are not refused, the lists that are cached for a server are
\* those of its row whenever no register, PATCH or DELETE on it is in progress:
\* _server_filters stores what it read before whoever changed the row meanwhile
\* is told of the row and invalidates the cache.
THEOREM FiltersAgree ==
  ASSUME Backend = "sqlite", "select" \notin Fallible
  PROVE  Spec => []FilterAgreement
<1>1. Init => FInv
  BY InitFInv
<1>2. FInv /\ [Next]_vars => FInv'
  BY NextFInv
<1>3. FInv => FilterAgreement
  <2>1. ASSUME FInv, NEW c \in Clients, NEW n \in Names,
               Removing(c, n) \/ Writing(c, n) \/ Rereading(c, n)
        PROVE  AdminBusy(n)
    BY <2>1 DEF Removing, Writing, Rereading, AdminBusy, At
  <2> QED
    BY <2>1 DEF FInv, FilterInv, CacheControl, Stale, FilterAgreement
<1> QED
  BY <1>1, <1>2, <1>3, PTL DEF Spec
=============================================================================
