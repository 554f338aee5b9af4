--------------------------- MODULE RelayDbProofs ---------------------------
(* What the operators of RelayDb preserve: the lemmas the catalogue's proofs *)
(* rest on.                                                                  *)
EXTENDS RelayDb, TLAPS

\* A statement is well formed whatever server it is about.
LEMMA SelectIsStatement ==
  ASSUME NEW n \in Names
  PROVE  /\ Select(n) \in Statements
         /\ Delete(n) \in Statements
BY DEF Select, Delete, Statements

LEMMA ListIsStatement == SelectEnabled \in Statements /\ NoStatement \in Statements
BY DEF Statements

LEMMA InsertIsStatement ==
  ASSUME NEW n \in Names, NEW c \in Columns
  PROVE  Insert(n, c) \in Statements
BY DEF Insert, Statements

LEMMA UpdateIsStatement ==
  ASSUME NEW n \in Names, NEW c \in Changes
  PROVE  Update(n, c) \in Statements
BY DEF Update, Statements

LEMMA NoChangeIsChange == NoChange \in Changes
BY DEF NoChange, Changes

\* The table a task is answered with is a table.
LEMMA OnlyType ==
  ASSUME rows \in Tables, NEW S
  PROVE  Only(S) \in Tables
BY DEF Only, Tables

LEMMA AssignedType ==
  ASSUME NEW row \in Rows, NEW c \in Changes
  PROVE  Assigned(row, c) \in Rows /\ Assigned(row, c).id = row.id
BY DEF Rows, Changes, Assigned, Assign

LEMMA InsertedType ==
  ASSUME nextId \in Nat, NEW c \in Columns
  PROVE  InsertedRow(c) \in Rows /\ InsertedRow(c).id = nextId
BY DEF Rows, Columns, InsertedRow, Statuses

\* The queue of jobs stays a sequence of tasks.
LEMMA OrderType ==
  ASSUME order \in Seq(Tasks), NEW t \in Tasks
  PROVE  /\ Enqueue(order, t) \in Seq(Tasks)
         /\ FirstOut(t) => /\ Dequeue(order) \in Seq(Tasks)
                           /\ Enqueue(Dequeue(order), t) \in Seq(Tasks)
BY DEF Enqueue, Dequeue, FirstOut

-----------------------------------------------------------------------------
\* The registry starts in a typed state.
LEMMA DbInitType == ASSUME DbInit PROVE DbTypeOK
BY InitialAssumption, ListIsStatement
   DEF DbInit, DbTypeOK, EmptyTable, Tables, Phases

\* What task t is about to know, and that nothing of another task changes.
OthersKept(t) ==
  \A u \in Tasks \ {t} : phase'[u] = phase[u] /\ stmt'[u] = stmt[u] /\ reply'[u] = reply[u]

LEMMA SubmitEffect ==
  ASSUME DbTypeOK, NEW t \in Tasks, NEW s, Submit(t, s)
  PROVE  OthersKept(t) /\ phase'[t] = "queued" /\ stmt'[t] = s /\ reply'[t] = reply[t]
BY DEF DbTypeOK, Submit, OthersKept

LEMMA ChainEffect ==
  ASSUME DbTypeOK, NEW t \in Tasks, NEW s, Chain(t, s)
  PROVE  OthersKept(t) /\ phase'[t] = "queued" /\ stmt'[t] = s /\ reply'[t] = reply[t]
BY DEF DbTypeOK, Chain, Issue, OthersKept

LEMMA TakeEffect ==
  ASSUME DbTypeOK, NEW t \in Tasks, Take(t)
  PROVE  OthersKept(t) /\ phase'[t] = "idle" /\ reply'[t] = reply[t]
BY DEF DbTypeOK, Take, Leave, OthersKept

LEMMA ReturnEffect ==
  ASSUME DbTypeOK, NEW t \in Tasks, Return(t)
  PROVE  OthersKept(t) /\ phase'[t] = "idle"
BY DEF DbTypeOK, Return, Leave, OthersKept

LEMMA RaiseEffect ==
  ASSUME DbTypeOK, NEW t \in Tasks, Raise(t)
  PROVE  OthersKept(t) /\ phase'[t] = "idle"
BY DEF DbTypeOK, Raise, Leave, OthersKept

LEMMA RecoverEffect ==
  ASSUME DbTypeOK, NEW t \in Tasks, NEW s, Recover(t, s)
  PROVE  OthersKept(t) /\ phase'[t] = "queued" /\ stmt'[t] = s /\ reply'[t] = reply[t]
BY DEF DbTypeOK, Recover, Issue, OthersKept

LEMMA UnchangedDbEffect ==
  ASSUME NEW t, UNCHANGED dbVars
  PROVE  OthersKept(t)
BY DEF dbVars, OthersKept

\* The engine works for one task, which has a statement pending.
LEMMA EngineEffect ==
  ASSUME DbTypeOK, NEW t \in Tasks, Engine(t)
  PROVE  OthersKept(t) /\ stmt' = stmt /\ phase[t] # "idle"
<1>1. CASE Execute(t)
  BY <1>1 DEF DbTypeOK, Execute, ExecuteRead, ExecuteInsert, ExecuteUpdate,
              ExecuteDelete, ExecuteRefused, OthersKept
<1>2. CASE Continue(t)
  BY <1>2 DEF DbTypeOK, Continue, OthersKept
<1>3. CASE Complete(t)
  BY <1>3 DEF DbTypeOK, Complete, OthersKept
<1> QED
  BY <1>1, <1>2, <1>3 DEF Engine

\* Each way a task hands a statement over or takes its result keeps the types.
LEMMA SubmitType ==
  ASSUME DbTypeOK, NEW t \in Tasks, NEW s \in Statements, Submit(t, s)
  PROVE  DbTypeOK'
BY OrderType DEF DbTypeOK, Submit, Phases

LEMMA ChainType ==
  ASSUME DbTypeOK, NEW t \in Tasks, NEW s \in Statements, Chain(t, s)
  PROVE  DbTypeOK'
BY OrderType DEF DbTypeOK, Chain, Issue, Phases, HasResult

LEMMA RecoverType ==
  ASSUME DbTypeOK, NEW t \in Tasks, NEW s \in Statements, Recover(t, s)
  PROVE  DbTypeOK'
BY OrderType DEF DbTypeOK, Recover, Issue, Phases, HasError

LEMMA TakeType ==
  ASSUME DbTypeOK, NEW t \in Tasks, Take(t)
  PROVE  DbTypeOK'
BY OrderType, ListIsStatement DEF DbTypeOK, Take, Leave, Phases, HasResult

LEMMA ReturnType ==
  ASSUME DbTypeOK, NEW t \in Tasks, Return(t)
  PROVE  DbTypeOK'
<1>1. EmptyTable \in Tables
  BY DEF EmptyTable, Tables
<1> QED
  BY <1>1, OrderType, ListIsStatement DEF DbTypeOK, Return, Leave, Phases, HasResult

LEMMA RaiseType ==
  ASSUME DbTypeOK, NEW t \in Tasks, Raise(t)
  PROVE  DbTypeOK'
<1>1. EmptyTable \in Tables
  BY DEF EmptyTable, Tables
<1> QED
  BY <1>1, OrderType, ListIsStatement DEF DbTypeOK, Raise, Leave, Phases, HasError

LEMMA UnchangedDbType ==
  ASSUME DbTypeOK, UNCHANGED dbVars
  PROVE  DbTypeOK'
BY DEF DbTypeOK, dbVars

\* What the parts of a statement are, by its kind.
LEMMA StatementParts ==
  ASSUME NEW s \in Statements
  PROVE  /\ s.op \in {"select", "insert", "update", "delete"} => s.name \in Names
         /\ s.op = "insert" => s.columns \in Columns
         /\ s.op = "update" => s.change \in Changes
BY DEF Statements, SelectEnabled, NoStatement

\* The engine keeps the types.
LEMMA EngineType ==
  ASSUME DbTypeOK, NEW t \in Tasks, Engine(t)
  PROVE  DbTypeOK'
<1> USE DEF DbTypeOK
<1>s. stmt[t] \in Statements
  OBVIOUS
<1>e. Executed \in Phases
  BY BackendAssumption DEF Executed, Phases
<1>1. CASE Execute(t)
  <2> stmt' = stmt /\ order' = order
    BY <1>1 DEF Execute
  <2>1. CASE ExecuteRead(t)
    <3>1. \A S : Only(S) \in Tables
      BY OnlyType
    <3>2. reply' \in [Tasks -> Tables]
      BY <2>1, <3>1 DEF ExecuteRead
    <3> QED
      BY <2>1, <1>e, <3>2 DEF ExecuteRead
  <2>2. CASE ExecuteInsert(t)
    <3>1. CASE UniqueViolation(stmt[t].name)
      BY <2>2, <3>1 DEF ExecuteInsert, Phases
    <3>2. CASE ~UniqueViolation(stmt[t].name)
      <4>1. InsertedRow(stmt[t].columns) \in Rows
        BY <2>2, <1>s, StatementParts, InsertedType DEF ExecuteInsert
      <4>2. rows' \in Tables
        BY <4>1, <2>2, <3>2 DEF ExecuteInsert, Tables
      <4> QED
        BY <4>2, <2>2, <3>2, <1>e DEF ExecuteInsert
    <3> QED
      BY <3>1, <3>2
  <2>3. CASE ExecuteUpdate(t)
    <3>1. stmt[t].change \in Changes /\ stmt[t].name \in Names
      BY <2>3, <1>s, StatementParts DEF ExecuteUpdate
    <3>2. rows[stmt[t].name] # NoRow =>
             Assigned(rows[stmt[t].name], stmt[t].change) \in Rows
      BY <3>1, AssignedType DEF Tables
    <3>3. rows' \in Tables
      BY <2>3, <3>1, <3>2 DEF ExecuteUpdate, Tables, UpdateBase
    <3> QED
      BY <2>3, <3>3, <1>e DEF ExecuteUpdate
  <2>4. CASE ExecuteDelete(t)
    BY <2>4, <1>e DEF ExecuteDelete, Tables
  <2>5. CASE ExecuteRefused(t)
    BY <2>5 DEF ExecuteRefused, Phases
  <2> QED
    BY <1>1, <2>1, <2>2, <2>3, <2>4, <2>5 DEF Execute
<1>2. CASE Continue(t)
  BY <1>2, OrderType DEF Continue, Phases
<1>3. CASE Complete(t)
  <2>1. reply' \in [Tasks -> Tables]
    BY <1>3 DEF Complete, Tables
  <2> QED
    BY <2>1, <1>3 DEF Complete, Phases
<1> QED
  BY <1>1, <1>2, <1>3 DEF Engine

-----------------------------------------------------------------------------
(* The queue of jobs (SQLite).                                               *)

Busy(t) == phase[t] # "idle"
Waiting == {"queued", "finishing"}

\* The statement of t has taken effect, and t has not taken its result.
Ran(t) == phase[t] \in {"executed", "finishing", "finished"}

Before(s, t) == \E i, j \in 1..Len(order) : i < j /\ order[i] = s /\ order[j] = t

\* A task waits once, if it waits; the worker takes the jobs in their order.
Queues(q, ph) ==
  /\ \A i, j \in 1..Len(q) : q[i] = q[j] => i = j
  /\ \A t \in Tasks : ph[t] # "idle" <=> \E i \in 1..Len(q) : q[i] = t
  /\ \A i, j \in 1..Len(q) : i < j /\ ph[q[i]] \in Waiting => ph[q[j]] \in Waiting
QueueOK == Queues(order, phase)

\* How often the loop has still to resume t for its statement.
Left(t) == IF phase[t] \in {"queued", "executed", "failed"} THEN 2 ELSE 1

\* L takes its result before W, which has k resumptions to come after those of
\* its present statement, is through with them.
Ahead(L, W, k) ==
  \/ Left(L) < Left(W) + k
  \/ Left(L) = Left(W) + k /\ Before(L, W)

\* What a task may do with the registry in one step.
DbCall(t) ==
  \/ UNCHANGED dbVars
  \/ \E s \in Statements : Submit(t, s) \/ Chain(t, s) \/ Recover(t, s)
  \/ Take(t) \/ Return(t) \/ Raise(t)

\* What that does to the queue: t joins it, goes to its end, or leaves it.
Joins(t) == ~Busy(t) /\ phase'[t] = "queued" /\ order' = Append(order, t)
Rejoins(t) ==
  /\ order # <<>> /\ Head(order) = t /\ phase[t] \in {"executed", "finished", "failed"}
  /\ phase'[t] \in Waiting /\ order' = Append(Tail(order), t)
Leaves(t) ==
  /\ order # <<>> /\ Head(order) = t /\ phase[t] \in {"finished", "failed"}
  /\ phase'[t] = "idle" /\ order' = Tail(order)

LEMMA CallEffect ==
  ASSUME DbTypeOK, NEW t \in Tasks, DbCall(t)
  PROVE  OthersKept(t) /\ rows' = rows /\ nextId' = nextId
<1>1. OthersKept(t)
  BY SubmitEffect, ChainEffect, RecoverEffect, TakeEffect, ReturnEffect, RaiseEffect,
     UnchangedDbEffect
     DEF DbCall
<1> QED
  BY <1>1 DEF DbCall, dbVars, Submit, Chain, Recover, Issue, Take, Return, Raise, Leave

LEMMA CallQueue ==
  ASSUME DbTypeOK, Backend = "sqlite", NEW t \in Tasks, DbCall(t)
  PROVE  \/ order' = order /\ phase' = phase
         \/ Joins(t) \/ Rejoins(t) \/ Leaves(t)
<1>1. ASSUME NEW s \in Statements, Submit(t, s) PROVE Joins(t)
  BY <1>1 DEF DbTypeOK, Submit, Enqueue, Joins, Busy
<1>2. ASSUME NEW s \in Statements, Chain(t, s) \/ Recover(t, s) PROVE Rejoins(t)
  BY <1>2 DEF DbTypeOK, Chain, Recover, HasResult, HasError, FirstOut, Issue, Enqueue,
              Dequeue, Rejoins, Waiting
<1>3. CASE Take(t) \/ Return(t) \/ Raise(t)
  BY <1>3 DEF DbTypeOK, Take, Return, Raise, HasResult, HasError, FirstOut, Leave, Dequeue,
              Leaves
<1> QED
  BY <1>1, <1>2, <1>3 DEF DbCall, dbVars

\* The queue stays what it is when a task comes to its end, or leaves its head.
LEMMA LongerQueue ==
  ASSUME NEW q \in Seq(Tasks), NEW f, NEW g, Queues(q, f), NEW t \in Tasks,
         f[t] = "idle", g[t] \in Waiting, \A u \in Tasks \ {t} : g[u] = f[u]
  PROVE  Queues(Append(q, t), g)
<1> DEFINE p == Append(q, t)
<1>1. /\ Len(p) = Len(q) + 1 /\ Len(q) \in Nat /\ p[Len(q) + 1] = t
      /\ \A i \in 1..Len(q) : p[i] = q[i] /\ q[i] \in Tasks /\ q[i] # t
  BY DEF Queues
<1> HIDE DEF p
<1>2. \A i \in 1..Len(q) : g[q[i]] = f[q[i]]
  BY <1>1
<1>3. \A i, j \in 1..Len(p) : p[i] = p[j] => i = j
  BY <1>1 DEF Queues
<1>4. \A u \in Tasks : g[u] # "idle" <=> \E i \in 1..Len(p) : p[i] = u
  BY <1>1 DEF Queues, Waiting
<1>5. \A i, j \in 1..Len(p) : i < j /\ g[p[i]] \in Waiting => g[p[j]] \in Waiting
  BY <1>1, <1>2 DEF Queues, Waiting
<1> QED
  BY <1>3, <1>4, <1>5 DEF Queues, p

LEMMA TailOfQueue ==
  ASSUME NEW q \in Seq(Tasks), q # <<>>, NEW f, Queues(q, f)
  PROVE  /\ Tail(q) \in Seq(Tasks) /\ Len(Tail(q)) = Len(q) - 1
         /\ Len(q) \in Nat \ {0} /\ q[1] = Head(q) /\ Head(q) \in Tasks
         /\ \A i \in 1..Len(Tail(q)) :
              /\ Tail(q)[i] = q[i + 1] /\ i + 1 \in 1..Len(q)
              /\ q[i + 1] \in Tasks \ {Head(q)}
BY DEF Queues

LEMMA ShorterQueue ==
  ASSUME NEW q \in Seq(Tasks), q # <<>>, NEW f, NEW g, Queues(q, f),
         g[Head(q)] = "idle", \A u \in Tasks \ {Head(q)} : g[u] = f[u]
  PROVE  Queues(Tail(q), g)
<1> DEFINE p == Tail(q)
           t == Head(q)
<1>1. /\ Len(p) = Len(q) - 1 /\ Len(q) \in Nat \ {0} /\ q[1] = t /\ t \in Tasks
      /\ \A i \in 1..Len(p) :
           p[i] = q[i + 1] /\ i + 1 \in 1..Len(q) /\ q[i + 1] \in Tasks \ {t}
  BY TailOfQueue
<1> HIDE DEF p
<1>2. \A i, j \in 1..Len(p) : p[i] = p[j] => i = j
  BY <1>1 DEF Queues
<1>3. ASSUME NEW u \in Tasks PROVE g[u] # "idle" <=> \E i \in 1..Len(p) : p[i] = u
  <2>1. CASE u = t
    BY <1>1, <2>1
  <2>2. CASE u # t
    <3>1. g[u] # "idle" <=> \E i \in 1..Len(q) : q[i] = u
      BY <2>2 DEF Queues
    <3>2. ASSUME NEW i \in 1..Len(q), q[i] = u PROVE \E k \in 1..Len(p) : p[k] = u
      <4>1. i # 1 /\ i - 1 \in 1..Len(p)
        BY <1>1, <2>2, <3>2
      <4>2. p[i - 1] = q[(i - 1) + 1] /\ (i - 1) + 1 = i
        BY <1>1, <4>1
      <4> QED
        BY <4>1, <4>2, <3>2
    <3> QED
      BY <1>1, <3>1, <3>2
  <2> QED
    BY <2>1, <2>2
<1>4. ASSUME NEW i \in 1..Len(p), NEW j \in 1..Len(p), i < j, g[p[i]] \in Waiting
      PROVE  g[p[j]] \in Waiting
  <2>1. p[i] = q[i + 1] /\ p[j] = q[j + 1] /\ i + 1 \in 1..Len(q) /\ j + 1 \in 1..Len(q)
    BY <1>1
  <2>2. g[p[i]] = f[q[i + 1]] /\ g[p[j]] = f[q[j + 1]]
    BY <1>1, <2>1
  <2>3. i + 1 < j + 1
    BY <1>1, <1>4
  <2> QED
    BY <1>4, <2>1, <2>2, <2>3 DEF Queues
<1> QED
  BY <1>2, <1>3, <1>4 DEF Queues, p

LEMMA RejoinsKeepsQueue ==
  ASSUME DbTypeOK, QueueOK, NEW t \in Tasks, OthersKept(t), Rejoins(t)
  PROVE  QueueOK'
<1> DEFINE left == [phase EXCEPT ![t] = "idle"]
<1>1. order \in Seq(Tasks) /\ phase \in [Tasks -> Phases]
  BY DEF DbTypeOK
<1>2. /\ left[t] = "idle" /\ \A u \in Tasks \ {t} : left[u] = phase[u]
      /\ order # <<>> /\ Head(order) = t /\ Tail(order) \in Seq(Tasks)
  BY <1>1 DEF Rejoins
<1> HIDE DEF left
<1>3. Queues(Tail(order), left)
  BY <1>1, <1>2, ShorterQueue DEF QueueOK
<1>4. /\ \A u \in Tasks \ {t} : phase'[u] = left[u]
      /\ phase'[t] \in Waiting /\ order' = Append(Tail(order), t)
  BY <1>1, <1>2 DEF Rejoins, OthersKept
<1> QED
  BY <1>2, <1>3, <1>4, LongerQueue DEF QueueOK

LEMMA CallKeepsQueue ==
  ASSUME DbTypeOK, QueueOK, Backend = "sqlite", NEW t \in Tasks, DbCall(t)
  PROVE  QueueOK'
<1>1. order \in Seq(Tasks) /\ phase \in [Tasks -> Phases] /\ OthersKept(t)
  BY CallEffect DEF DbTypeOK
<1>2. CASE order' = order /\ phase' = phase
  BY <1>2 DEF QueueOK, Queues
<1>3. CASE Joins(t)
  BY <1>1, <1>3, LongerQueue DEF QueueOK, Joins, Busy, OthersKept, Waiting
<1>4. CASE Leaves(t)
  BY <1>1, <1>4, ShorterQueue DEF QueueOK, Leaves, OthersKept
<1>5. CASE Rejoins(t)
  BY <1>1, <1>5, RejoinsKeepsQueue
<1> QED
  BY <1>2, <1>3, <1>4, <1>5, CallQueue

LEMMA EngineQueue ==
  ASSUME DbTypeOK, Backend = "sqlite", NEW t \in Tasks, Engine(t)
  PROVE  \/ /\ phase[t] = "queued" /\ phase'[t] \in {"executed", "failed"}
            /\ order' = order /\ Turn(t)
         \/ /\ phase[t] = "finishing" /\ phase'[t] = "finished"
            /\ order' = order /\ Turn(t)
         \/ phase[t] = "executed" /\ phase'[t] = "finishing" /\ Rejoins(t)
<1>1. CASE Execute(t)
  BY <1>1 DEF DbTypeOK, Execute, ExecuteRead, ExecuteInsert, ExecuteUpdate, ExecuteDelete,
              ExecuteRefused, Executed
<1>2. CASE Complete(t)
  BY <1>2 DEF DbTypeOK, Complete
<1>3. CASE Continue(t)
  BY <1>3 DEF DbTypeOK, Continue, FirstOut, Enqueue, Dequeue, Rejoins, Waiting
<1> QED
  BY <1>1, <1>2, <1>3 DEF Engine

LEMMA EngineKeepsQueue ==
  ASSUME DbTypeOK, QueueOK, Backend = "sqlite", NEW t \in Tasks, Engine(t)
  PROVE  QueueOK'
<1>1. order \in Seq(Tasks) /\ phase \in [Tasks -> Phases] /\ OthersKept(t)
  BY EngineEffect DEF DbTypeOK
<1>2. CASE order' = order /\ Turn(t) /\ Busy(t) /\ phase'[t] \in {"executed", "failed", "finished"}
  <2>1. \A u \in Tasks : phase'[u] # "idle" <=> phase[u] # "idle"
    BY <1>1, <1>2 DEF OthersKept, Busy
  <2>2. ASSUME NEW i \in 1..Len(order), NEW j \in 1..Len(order), i < j,
               phase'[order[i]] \in Waiting
        PROVE  phase'[order[j]] \in Waiting
    <3>1. order[i] \in Tasks /\ order[j] \in Tasks
      BY <1>1
    <3>2. order[i] # t /\ phase[order[i]] \in Waiting
      BY <1>1, <1>2, <2>2, <3>1 DEF OthersKept, Waiting
    <3>3. phase[order[j]] \in Waiting
      BY <2>2, <3>2 DEF QueueOK, Queues
    <3>4. CASE order[j] = t
      <4>1. PICK k \in DOMAIN order :
              order[k] = t /\ \A m \in 1..(k - 1) : phase[order[m]] \notin Waiting
        BY <1>2 DEF Turn, Waiting
      <4>2. k = j
        BY <3>4, <4>1, <1>1 DEF QueueOK, Queues
      <4>3. i \in 1..(k - 1)
        BY <4>2, <2>2, <1>1
      <4> QED
        BY <4>1, <4>3, <3>2
    <3> QED
      BY <1>1, <3>1, <3>3, <3>4 DEF OthersKept
  <2> QED
    BY <1>2, <2>1, <2>2 DEF QueueOK, Queues
<1>3. CASE Rejoins(t)
  BY <1>1, <1>3, RejoinsKeepsQueue
<1> QED
  BY <1>2, <1>3, EngineQueue DEF Busy

\* A step of task t: its call, or its job.
QueueMove(t) == OthersKept(t) /\ (order' = order \/ Joins(t) \/ Rejoins(t) \/ Leaves(t))

LEMMA MovesInQueue ==
  ASSUME DbTypeOK, Backend = "sqlite", NEW t \in Tasks, DbCall(t) \/ Engine(t)
  PROVE  QueueMove(t)
BY CallEffect, CallQueue, EngineEffect, EngineQueue DEF QueueMove

\* Two other tasks keep their order.
LEMMA BeforeKept ==
  ASSUME DbTypeOK, QueueOK, NEW t \in Tasks, QueueMove(t),
         NEW a \in Tasks \ {t}, NEW b \in Tasks \ {t}, Before(a, b)
  PROVE  Before(a, b)'
<1> order \in Seq(Tasks)
  BY DEF DbTypeOK
<1>1. PICK i \in 1..Len(order), j \in 1..Len(order) : i < j /\ order[i] = a /\ order[j] = b
  BY DEF Before
<1>2. CASE order' = order
  BY <1>2, <1>1 DEF Before
<1>3. CASE Joins(t)
  <2>1. /\ Len(order') = Len(order) + 1
        /\ \A m \in 1..Len(order) : order'[m] = order[m] /\ m \in 1..Len(order')
    BY <1>3 DEF Joins
  <2> QED
    BY <1>1, <2>1 DEF Before
<1>4. CASE Rejoins(t) \/ Leaves(t)
  <2> DEFINE p == Tail(order)
  <2>1. /\ Len(p) = Len(order) - 1 /\ order[1] = t /\ Len(order) \in Nat
        /\ \A m \in 1..Len(p) : p[m] = order[m + 1]
        /\ p \in Seq(Tasks) /\ order' \in {p, Append(p, t)}
    BY <1>4, TailOfQueue DEF QueueOK, Rejoins, Leaves
  <2>2. Len(order') \in Nat /\ \A m \in 1..Len(p) : order'[m] = p[m] /\ m \in 1..Len(order')
    BY <2>1
  <2> HIDE DEF p
  <2>3. i # 1 /\ j # 1
    BY <1>1, <2>1
  <2>4. i - 1 \in 1..Len(p) /\ j - 1 \in 1..Len(p) /\ i - 1 < j - 1
    BY <1>1, <2>1, <2>3
  <2>5. (i - 1) + 1 = i /\ (j - 1) + 1 = j
    BY <1>1
  <2>6. order'[i - 1] = a /\ order'[j - 1] = b
    BY <1>1, <2>1, <2>2, <2>4, <2>5
  <2> QED
    BY <2>2, <2>4, <2>6 DEF Before
<1> QED
  BY <1>2, <1>3, <1>4 DEF QueueMove

\* Nobody is before the head; everybody is before a task that goes to the end.
LEMMA HeadIsFirst ==
  ASSUME DbTypeOK, QueueOK, NEW t \in Tasks, order # <<>>, Head(order) = t, NEW a \in Tasks
  PROVE  ~Before(a, t)
<1>1. order[1] = t /\ Len(order) \in Nat \ {0} /\ order \in Seq(Tasks)
  BY TailOfQueue DEF QueueOK, DbTypeOK
<1> QED
  BY <1>1 DEF Before, QueueOK, Queues

LEMMA LastIsAfter ==
  ASSUME DbTypeOK, QueueOK, NEW t \in Tasks, OthersKept(t), Rejoins(t),
         NEW a \in Tasks \ {t}, Busy(a)
  PROVE  Before(a, t)'
<1> DEFINE p == Tail(order)
<1>1. /\ Len(p) = Len(order) - 1 /\ order[1] = t /\ Len(order) \in Nat /\ p \in Seq(Tasks)
      /\ \A m \in 1..Len(p) : p[m] = order[m + 1]
  BY TailOfQueue DEF QueueOK, Rejoins, DbTypeOK
<1>2. /\ Len(order') = Len(p) + 1 /\ order'[Len(p) + 1] = t /\ Len(p) \in Nat
      /\ \A m \in 1..Len(p) : order'[m] = p[m]
  BY <1>1 DEF Rejoins
<1>3. PICK i \in 1..Len(order) : order[i] = a
  BY DEF QueueOK, Queues, Busy
<1> HIDE DEF p
<1>4. i - 1 \in 1..Len(p) /\ (i - 1) + 1 = i
  BY <1>1, <1>3
<1>5. order'[i - 1] = a
  BY <1>1, <1>2, <1>3, <1>4
<1>6. /\ i - 1 \in 1..Len(order') /\ Len(p) + 1 \in 1..Len(order') /\ i - 1 < Len(p) + 1
  BY <1>2, <1>4
<1> QED
  BY <1>2, <1>5, <1>6 DEF Before

\* Two tasks that wait stand one before the other.
LEMMA OneIsBefore ==
  ASSUME DbTypeOK, QueueOK, NEW a \in Tasks, NEW b \in Tasks \ {a}, Busy(a), Busy(b)
  PROVE  Before(a, b) \/ Before(b, a)
<1>1. PICK i \in 1..Len(order) : order[i] = a
  BY DEF QueueOK, Queues, Busy
<1>2. PICK j \in 1..Len(order) : order[j] = b
  BY DEF QueueOK, Queues, Busy
<1>3. i # j /\ Len(order) \in Nat
  BY <1>1, <1>2 DEF DbTypeOK
<1> QED
  BY <1>1, <1>2, <1>3 DEF Before
-----------------------------------------------------------------------------
(* Who is through first.                                                     *)

LEMMA LeftType == ASSUME NEW t PROVE Left(t) \in {1, 2}
BY DEF Left

\* A step of a third task.
LEMMA AheadOfOthers ==
  ASSUME DbTypeOK, QueueOK, NEW t \in Tasks, QueueMove(t),
         NEW L \in Tasks \ {t}, NEW W \in Tasks \ {t}, NEW k \in Nat, Ahead(L, W, k)
  PROVE  Ahead(L, W, k)'
<1>1. Left(L)' = Left(L) /\ Left(W)' = Left(W)
  BY DEF QueueMove, OthersKept, Left
<1> QED
  BY <1>1, BeforeKept DEF Ahead

\* The engine works for either.
LEMMA AheadWhenEngine ==
  ASSUME DbTypeOK, QueueOK, Backend = "sqlite", NEW t \in Tasks, Engine(t),
         NEW L \in Tasks, NEW W \in Tasks \ {L}, Busy(L), Busy(W), NEW k \in Nat,
         Ahead(L, W, k)
  PROVE  Ahead(L, W, k)'
<1>1. QueueMove(t) /\ OthersKept(t)
  BY MovesInQueue DEF QueueMove
<1>2. CASE t \notin {L, W}
  BY <1>1, <1>2, AheadOfOthers
<1>3. CASE t \in {L, W} /\ ~Rejoins(t)
  <2>1. order' = order /\ Left(t)' = Left(t)
    BY <1>3, EngineQueue DEF Left
  <2>2. Left(L)' = Left(L) /\ Left(W)' = Left(W)
    BY <1>1, <1>3, <2>1 DEF OthersKept, Left
  <2> QED
    BY <2>1, <2>2 DEF Ahead, Before
<1>4. CASE t = L /\ Rejoins(t)
  <2>1. Left(L) = 2 /\ Left(L)' = 1 /\ Left(W)' = Left(W) /\ Left(W) \in Nat
    BY <1>1, <1>4, EngineQueue, LeftType DEF OthersKept, Left, Rejoins, Waiting
  <2> QED
    BY <2>1 DEF Ahead
<1>5. CASE t = W /\ Rejoins(t)
  <2>1. Left(W) = 2 /\ Left(W)' = 1 /\ Left(L)' = Left(L) /\ Left(L) \in Nat
    BY <1>1, <1>5, EngineQueue, LeftType DEF OthersKept, Left, Rejoins, Waiting
  <2>2. ~Before(L, W) /\ Before(L, W)'
    BY <1>1, <1>5, HeadIsFirst, LastIsAfter DEF Rejoins
  <2> QED
    BY <2>1, <2>2 DEF Ahead
<1> QED
  BY <1>2, <1>3, <1>4, <1>5

\* W takes its result and issues the statement after it, or is through.
LEMMA AheadWhenChained ==
  ASSUME DbTypeOK, QueueOK, Backend = "sqlite", NEW W \in Tasks, NEW s, Chain(W, s),
         NEW L \in Tasks \ {W}, Busy(L), Ahead(L, W, 2)
  PROVE  Ahead(L, W, 0)'
<1>1. OthersKept(W) /\ Rejoins(W)
  BY ChainEffect
     DEF DbTypeOK, Chain, HasResult, FirstOut, Issue, Enqueue, Dequeue, Rejoins, Waiting
<1>2. Left(W) = 1 /\ Left(W)' = 2 /\ Left(L)' = Left(L) /\ Left(L) \in Nat
  BY <1>1, ChainEffect, LeftType DEF OthersKept, Left, Chain, HasResult
<1>3. ~Before(L, W) /\ Before(L, W)'
  BY <1>1, HeadIsFirst, LastIsAfter DEF Rejoins
<1> QED
  BY <1>2, <1>3 DEF Ahead

LEMMA NobodyAhead ==
  ASSUME DbTypeOK, QueueOK, Backend = "sqlite", NEW W \in Tasks, HasResult(W),
         NEW L \in Tasks
  PROVE  ~Ahead(L, W, 0)
<1>1. Left(W) = 1 /\ Left(L) \in {1, 2} /\ ~Before(L, W)
  BY HeadIsFirst, LeftType DEF HasResult, FirstOut, Left
<1> QED
  BY <1>1 DEF Ahead

\* The statement of W is run after that of L.
LEMMA AheadWhenRun ==
  ASSUME DbTypeOK, QueueOK, Backend = "sqlite", NEW W \in Tasks, Execute(W),
         NEW L \in Tasks \ {W}, Ran(L), NEW k \in Nat
  PROVE  Ahead(L, W, k)'
<1>1. /\ phase[W] = "queued" /\ phase'[W] \in {"executed", "failed"} /\ order' = order
      /\ OthersKept(W)
  BY EngineQueue, EngineEffect DEF Engine, Execute
<1>2. Left(W)' = 2 /\ Left(L)' = Left(L)
  BY <1>1 DEF OthersKept, Left
<1>3. CASE Left(L) = 1
  BY <1>2, <1>3 DEF Ahead
<1>4. CASE Left(L) = 2
  <2>1. phase[L] = "executed"
    BY <1>4 DEF Left, Ran
  <2>2. ~Before(W, L)
    BY <1>1, <2>1 DEF Before, QueueOK, Queues, Waiting
  <2>3. Before(L, W)'
    BY <1>1, <2>1, <2>2, OneIsBefore DEF Busy, Before
  <2> QED
    BY <1>2, <1>4, <2>3 DEF Ahead
<1> QED
  BY <1>3, <1>4, LeftType

\* Who is to come first has been asked to come.
LEMMA AheadIsBusy ==
  ASSUME DbTypeOK, QueueOK, NEW L \in Tasks, NEW W \in Tasks, Ahead(L, W, 0)
  PROVE  Busy(W)
<1>1. CASE Before(L, W)
  BY <1>1 DEF Before, QueueOK, Queues, Busy
<1>2. CASE Left(L) < Left(W)
  BY <1>2, LeftType DEF Left, Busy
<1> QED
  BY <1>1, <1>2, LeftType DEF Ahead

-----------------------------------------------------------------------------
(* What a statement does to the table.                                       *)

\* The statement of t takes effect, and t will be told of it.
Applied(t) ==
  /\ stmt[t].op = "insert" =>
       /\ rows[stmt[t].name] = NoRow
       /\ rows' = [rows EXCEPT ![stmt[t].name] = InsertedRow(stmt[t].columns)]
  /\ stmt[t].op = "update" =>
       rows' = IF rows[stmt[t].name] = NoRow THEN rows
               ELSE [rows EXCEPT ![stmt[t].name] =
                                   Assigned(rows[stmt[t].name], stmt[t].change)]
  /\ stmt[t].op = "delete" => rows' = [rows EXCEPT ![stmt[t].name] = NoRow]
  /\ stmt[t].op = "select" => reply'[t] = Only({stmt[t].name})
  /\ stmt[t].op \in {"select", "list"} => rows' = rows
  /\ stmt[t].op \notin {"select", "list"} => reply' = reply

\* Either it takes effect, or it is refused and has none.
LEMMA RunEffect ==
  ASSUME DbTypeOK, NEW t \in Tasks, Execute(t)
  PROVE  /\ phase[t] = "queued" /\ OthersKept(t) /\ stmt' = stmt
         /\ \/ /\ phase'[t] = "failed" /\ rows' = rows /\ reply' = reply
               /\ stmt[t].op \in Fallible \cup {"insert"}
            \/ Ran(t)' /\ Applied(t) /\ stmt[t].op # "none"
<1>1. phase[t] = "queued" /\ OthersKept(t) /\ stmt' = stmt
  BY EngineEffect DEF Engine, Execute
<1>2. phase \in [Tasks -> Phases] /\ reply \in [Tasks -> Tables]
  BY DEF DbTypeOK
<1>3. Executed \in {"executed", "finished"}
  BY DEF Executed
<1>4. CASE ExecuteRead(t)
  BY <1>1, <1>2, <1>3, <1>4 DEF ExecuteRead, Ran, Applied
<1>5. CASE ExecuteInsert(t)
  BY <1>1, <1>2, <1>3, <1>5 DEF ExecuteInsert, UniqueViolation, Ran, Applied
<1>6. CASE ExecuteUpdate(t)
  BY <1>1, <1>2, <1>3, <1>6 DEF ExecuteUpdate, UpdateBase, Ran, Applied
<1>7. CASE ExecuteDelete(t)
  BY <1>1, <1>2, <1>3, <1>7 DEF ExecuteDelete, Ran, Applied
<1>8. CASE ExecuteRefused(t)
  BY <1>1, <1>2, <1>8 DEF ExecuteRefused
<1> QED
  BY <1>1, <1>4, <1>5, <1>6, <1>7, <1>8 DEF Execute

\* The second job changes no row; only a list is told of more.
LEMMA SecondJobEffect ==
  ASSUME DbTypeOK, NEW t \in Tasks, Continue(t) \/ Complete(t)
  PROVE  /\ Ran(t) /\ Ran(t)' /\ OthersKept(t) /\ stmt' = stmt /\ rows' = rows
         /\ nextId' = nextId
         /\ stmt[t].op # "list" => reply' = reply
<1>1. OthersKept(t) /\ stmt' = stmt /\ phase \in [Tasks -> Phases]
  BY EngineEffect DEF Engine, DbTypeOK
<1> QED
  BY <1>1 DEF Continue, Complete, Ran

\* What the engine does to the row of n: nothing, or it goes, comes, or changes.
LEMMA RowEffect ==
  ASSUME DbTypeOK, NEW t \in Tasks, Engine(t), NEW n \in Names, rows'[n] # rows[n]
  PROVE  /\ Execute(t) /\ Ran(t)' /\ stmt[t].name = n
         /\ \/ stmt[t].op = "delete" /\ rows'[n] = NoRow
            \/ /\ stmt[t].op = "insert" /\ rows[n] = NoRow
               /\ rows'[n] = InsertedRow(stmt[t].columns)
            \/ /\ stmt[t].op = "update" /\ rows[n] # NoRow
               /\ rows'[n] = Assigned(rows[n], stmt[t].change)
<1>1. Execute(t) /\ Ran(t)' /\ Applied(t) /\ stmt[t].op # "none"
  BY RunEffect, SecondJobEffect DEF Engine
<1>2. rows \in Tables /\ stmt[t] \in Statements
  BY DEF DbTypeOK
<1>3. /\ stmt[t].op \in {"select", "list", "insert", "update", "delete"}
      /\ stmt[t].op \in {"insert", "update", "delete"} => stmt[t].name \in Names
  BY <1>1, <1>2 DEF Statements, SelectEnabled, NoStatement
<1> QED
  BY <1>1, <1>2, <1>3 DEF Applied, Tables

-----------------------------------------------------------------------------
(* What a task is told of the table.                                         *)

\* What it knew before, the row as it is, or nothing.
LEMMA EngineReplies ==
  ASSUME DbTypeOK, NEW t \in Tasks, Engine(t), NEW u \in Tasks, NEW n \in Names
  PROVE  reply'[u][n] \in {reply[u][n], rows[n], NoRow}
<1>1. OthersKept(t) /\ reply \in [Tasks -> Tables] /\ reply[t] \in Tables
  BY EngineEffect DEF DbTypeOK
<1>2. CASE u # t
  BY <1>1, <1>2 DEF OthersKept
<1>3. CASE u = t /\ reply' = reply
  BY <1>3
<1>4. ASSUME ExecuteRead(t) PROVE reply'[t][n] \in {rows[n], NoRow}
  BY <1>1, <1>4 DEF ExecuteRead, Only
<1>5. ASSUME Complete(t), reply' # reply PROVE reply'[t][n] \in {reply[t][n], rows[n]}
  BY <1>1, <1>5 DEF Complete
<1> QED
  BY <1>2, <1>3, <1>4, <1>5
     DEF Engine, Execute, ExecuteInsert, ExecuteUpdate, ExecuteDelete, ExecuteRefused,
         Continue

LEMMA CallReplies ==
  ASSUME DbTypeOK, NEW t \in Tasks, DbCall(t), NEW u \in Tasks
  PROVE  /\ \A n \in Names : reply'[u][n] \in {reply[u][n], NoRow}
         /\ phase[u] = "idle" => reply'[u] = reply[u]
<1>1. OthersKept(t) /\ reply \in [Tasks -> Tables] /\ \A n \in Names : EmptyTable[n] = NoRow
  BY CallEffect DEF DbTypeOK, EmptyTable
<1>2. CASE Return(t) \/ Raise(t)
  BY <1>1, <1>2 DEF Return, Raise, OthersKept, HasResult, HasError
<1>3. CASE ~(Return(t) \/ Raise(t))
  <2>1. reply' = reply
    BY <1>3 DEF DbCall, dbVars, Submit, Chain, Recover, Issue, Take
  <2> QED
    BY <2>1
<1> QED
  BY <1>2, <1>3

-----------------------------------------------------------------------------
(* Refusals.                                                                 *)

\* Only statements that may be refused are, and an INSERT whose name is taken.
RefusalInv ==
  \A t \in Tasks : phase[t] = "failed" => stmt[t].op \in Fallible \cup {"insert"}

LEMMA CallKeepsRefusals ==
  ASSUME DbTypeOK, RefusalInv, NEW t \in Tasks, DbCall(t)
  PROVE  RefusalInv'
<1>1. OthersKept(t)
  BY CallEffect
<1>2. (phase' = phase /\ stmt' = stmt) \/ phase'[t] \in {"idle", "queued"}
  BY DEF DbTypeOK, DbCall, dbVars, Submit, Chain, Recover, Issue, Take, Return, Raise, Leave
<1> QED
  BY <1>1, <1>2 DEF RefusalInv, OthersKept

LEMMA EngineKeepsRefusals ==
  ASSUME DbTypeOK, RefusalInv, NEW t \in Tasks, Engine(t)
  PROVE  RefusalInv'
<1>1. OthersKept(t) /\ stmt' = stmt
  BY EngineEffect
<1>2. phase'[t] = "failed" => stmt[t].op \in Fallible \cup {"insert"}
  BY RunEffect, SecondJobEffect DEF Engine, Ran
<1> QED
  BY <1>1, <1>2 DEF RefusalInv, OthersKept
=============================================================================
