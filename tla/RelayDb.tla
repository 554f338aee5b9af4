------------------------------ MODULE RelayDb ------------------------------
(***************************************************************************)
(* The server registry of relay-mcp (src/src/mcp_relay/db.py): the table   *)
(* mcp_servers and the two engines behind class Database.                  *)
(*                                                                         *)
(* Every query of a coroutine is an await, so a statement is not atomic    *)
(* with the code around it.  A task hands a statement over (Submit or      *)
(* Chain), the engine runs it (Execute, and on SQLite a second job,        *)
(* Complete), and the event loop gives the result back when it resumes the *)
(* task (Chain, Take or Return).                                           *)
(*                                                                         *)
(* Backend = "sqlite": aiosqlite runs the jobs of one connection on one    *)
(*   worker thread, in the order they were queued, and the loop resumes    *)
(*   their owners in that order.  A query is two jobs: execute, then       *)
(*   commit or fetch.                                                      *)
(* Backend = "postgres": every query has a pool connection of its own, so  *)
(*   statements run, and their results arrive, in any order.  The pool of  *)
(*   ten connections is assumed not to be exhausted.                       *)
(*                                                                         *)
(* A statement whose kind is in Fallible may be refused: it has no effect  *)
(* and the query raises.  On PostgreSQL every INSERT and UPDATE passes ISO *)
(* strings for timestamps, which asyncpg refuses if the columns have the   *)
(* types of SCHEMA_PG, and takes if an older table has them as TEXT.       *)
(***************************************************************************)
EXTENDS Naturals, Sequences, FiniteSets

CONSTANTS Names,          \* names a server can be registered under
          Urls,           \* upstream endpoints: url, transport and credentials
          Tools,          \* local names of tools
          Tasks,          \* asyncio tasks that query the registry
          Backend,        \* "sqlite" or "postgres"
          Fallible,       \* the kinds of statement the engine may refuse
          NoList,         \* SQL NULL in an allow or block list: no filtering
          Keep,           \* a column an UPDATE does not name
          NoRow,          \* what a lookup returns when there is no such row
          InitialTables,  \* tables a deployment may start from
          FirstId         \* the next value of the id column then

Filters == {NoList} \cup SUBSET Tools
Statuses == {"unknown", "healthy", "unhealthy"}

\* The columns the relay decides on.  tools_count and last_seen are written
\* only together with status, description and created_at decide nothing.
Rows == [id : Nat, url : Urls, enabled : {0, 1}, allow : Filters,
         block : Filters, status : Statuses]

Tables == [Names -> {NoRow} \cup Rows]

ASSUME BackendAssumption == Backend \in {"sqlite", "postgres"}
ASSUME FallibleAssumption ==
  Fallible \subseteq {"select", "list", "insert", "update", "delete"}
ASSUME AbsentValues == /\ NoRow \notin Rows
                       /\ \A S \in SUBSET Tools : S # NoList
                       /\ \A v \in Urls \cup {0, 1} \cup Filters \cup Statuses : v # Keep
ASSUME InitialAssumption ==
  /\ FirstId \in Nat
  /\ InitialTables \subseteq Tables
  /\ \A T \in InitialTables, n \in Names :
        T[n] # NoRow =>
          /\ T[n].id < FirstId
          /\ \A m \in Names \ {n} : T[m] # NoRow => T[m].id # T[n].id

\* The lists of a row as _server_filters reads them: no row, no filtering.
PairOf(row) == IF row = NoRow THEN <<NoList, NoList>> ELSE <<row.allow, row.block>>

\* _is_tool_allowed.
Allowed(tool, pair) ==
  /\ pair[1] = NoList \/ tool \in pair[1]
  /\ pair[2] = NoList \/ tool \notin pair[2]

\* Statements: the SQL the methods of Database issue.
Columns == [url : Urls, enabled : {0, 1}, allow : Filters, block : Filters]
Changes == [url : {Keep} \cup Urls, enabled : {Keep, 0, 1},
            allow : {Keep} \cup Filters, block : {Keep} \cup Filters,
            status : {Keep} \cup Statuses]

Select(n) == [op |-> "select", name |-> n]
SelectEnabled == [op |-> "list"]
Insert(n, c) == [op |-> "insert", name |-> n, columns |-> c]
Update(n, c) == [op |-> "update", name |-> n, change |-> c]
Delete(n) == [op |-> "delete", name |-> n]
NoStatement == [op |-> "none"]

Statements == [op : {"select", "delete"}, name : Names]
                \cup {SelectEnabled, NoStatement}
                \cup [op : {"insert"}, name : Names, columns : Columns]
                \cup [op : {"update"}, name : Names, change : Changes]

NoChange == [url |-> Keep, enabled |-> Keep, allow |-> Keep, block |-> Keep,
             status |-> Keep]

Phases == {"idle",       \* no statement of this task
           "queued",     \* its first job waits for the engine
           "executed",   \* SQLite: first job done, the task not yet resumed
           "finishing",  \* SQLite: the commit or fetch job waits
           "finished",   \* the result is ready, the task not yet resumed
           "failed"}     \* as "finished", with an exception

VARIABLES rows,     \* the table mcp_servers
          nextId,   \* its AUTOINCREMENT / SERIAL sequence
          stmt,     \* the statement of each task
          phase,    \* how far it is
          order,    \* SQLite: tasks in the order of their jobs
          reply     \* the rows each task was given last

dbVars == <<rows, nextId, stmt, phase, order, reply>>

EmptyTable == [n \in Names |-> NoRow]

DbInit ==
  /\ rows \in InitialTables
  /\ nextId = FirstId
  /\ stmt = [t \in Tasks |-> NoStatement]
  /\ phase = [t \in Tasks |-> "idle"]
  /\ order = <<>>
  /\ reply = [t \in Tasks |-> EmptyTable]

DbTypeOK ==
  /\ rows \in Tables
  /\ nextId \in Nat
  /\ stmt \in [Tasks -> Statements]
  /\ phase \in [Tasks -> Phases]
  /\ order \in Seq(Tasks)
  /\ reply \in [Tasks -> Tables]

-----------------------------------------------------------------------------
(* The task side.                                                          *)

\* The worker takes jobs in the order they were queued.
Turn(t) ==
  Backend = "sqlite" =>
    \E i \in DOMAIN order :
      /\ order[i] = t
      /\ \A j \in 1..(i - 1) : phase[order[j]] \notin {"queued", "finishing"}

\* The loop resumes tasks in the order their jobs ran.
FirstOut(t) == Backend = "sqlite" => order # <<>> /\ Head(order) = t

Enqueue(q, t) == IF Backend = "sqlite" THEN Append(q, t) ELSE q
Dequeue(q) == IF Backend = "sqlite" THEN Tail(q) ELSE q

HasResult(t) == phase[t] = "finished" /\ FirstOut(t)
HasError(t) == phase[t] = "failed" /\ FirstOut(t)

\* A resumed task issues another statement, or has done with the database.
Issue(t, s) ==
  /\ stmt' = [stmt EXCEPT ![t] = s]
  /\ phase' = [phase EXCEPT ![t] = "queued"]
  /\ order' = Enqueue(Dequeue(order), t)
  /\ UNCHANGED <<rows, nextId, reply>>

Leave(t) ==
  /\ stmt' = [stmt EXCEPT ![t] = NoStatement]
  /\ phase' = [phase EXCEPT ![t] = "idle"]
  /\ order' = Dequeue(order)
  /\ UNCHANGED <<rows, nextId>>

\* A task that was not waiting for the database issues a statement.
Submit(t, s) ==
  /\ phase[t] = "idle"
  /\ stmt' = [stmt EXCEPT ![t] = s]
  /\ phase' = [phase EXCEPT ![t] = "queued"]
  /\ order' = Enqueue(order, t)
  /\ UNCHANGED <<rows, nextId, reply>>

\* A task takes its result and issues the next statement at once.
Chain(t, s) == HasResult(t) /\ Issue(t, s)

\* A task takes its result, which it goes on using, and awaits other things.
Take(t) == HasResult(t) /\ Leave(t) /\ UNCHANGED reply

\* A task takes its result for the last time.
Return(t) == HasResult(t) /\ Leave(t) /\ reply' = [reply EXCEPT ![t] = EmptyTable]

\* The query raises: the task gives up, or catches it and issues a statement.
Raise(t) == HasError(t) /\ Leave(t) /\ reply' = [reply EXCEPT ![t] = EmptyTable]
Recover(t, s) == HasError(t) /\ Issue(t, s)

-----------------------------------------------------------------------------
(* The engine side.                                                        *)

Executed == IF Backend = "sqlite" THEN "executed" ELSE "finished"

\* UPDATE ... SET names only the columns the caller gave.  (Variant for the
\* mutant: an omitted field overwrites its column.)
AssignAlways(old, new) == new
Assign(old, new) == IF new = Keep THEN old ELSE new
Assigned(row, c) ==
  [row EXCEPT !.url = Assign(@, c.url), !.enabled = Assign(@, c.enabled),
              !.allow = Assign(@, c.allow), !.block = Assign(@, c.block),
              !.status = Assign(@, c.status)]

\* The row an UPDATE computes its new values from.  (Variant for the mutant: the
\* row that get_server returned before, where the caller read one.)
FetchedBase(t) ==
  IF reply[t][stmt[t].name] = NoRow THEN rows[stmt[t].name]
                                    ELSE reply[t][stmt[t].name]
UpdateBase(t) == rows[stmt[t].name]

\* name TEXT UNIQUE NOT NULL.  (Variant for the mutant: no such constraint.)
NoConstraint(n) == FALSE
UniqueViolation(n) == rows[n] # NoRow

InsertedRow(c) ==
  [id |-> nextId, url |-> c.url, enabled |-> c.enabled, allow |-> c.allow,
   block |-> c.block, status |-> "unknown"]

EnabledRows(table) == {n \in Names : table[n] # NoRow /\ table[n].enabled = 1}
Oldest(S) == {n \in S : \A m \in S : rows[n].id <= rows[m].id}
Only(S) == [n \in Names |-> IF n \in S THEN rows[n] ELSE NoRow]

\* On SQLite the first job of a SELECT steps to its first row only.
ListedFirst == IF Backend = "sqlite" THEN Oldest(EnabledRows(rows))
                                     ELSE EnabledRows(rows)

ExecuteRead(t) ==
  /\ stmt[t].op \in {"select", "list"}
  /\ reply' = [reply EXCEPT ![t] =
                 Only(IF stmt[t].op = "select" THEN {stmt[t].name}
                                               ELSE ListedFirst)]
  /\ phase' = [phase EXCEPT ![t] = Executed]
  /\ UNCHANGED <<rows, nextId>>

ExecuteInsert(t) ==
  /\ stmt[t].op = "insert"
  /\ IF UniqueViolation(stmt[t].name)
     THEN /\ phase' = [phase EXCEPT ![t] = "failed"]
          /\ UNCHANGED <<rows, nextId>>
     ELSE /\ phase' = [phase EXCEPT ![t] = Executed]
          /\ rows' = [rows EXCEPT ![stmt[t].name] = InsertedRow(stmt[t].columns)]
          /\ nextId' = nextId + 1
  /\ UNCHANGED reply

ExecuteUpdate(t) ==
  /\ stmt[t].op = "update"
  /\ rows' = IF rows[stmt[t].name] = NoRow THEN rows
             ELSE [rows EXCEPT ![stmt[t].name] =
                                 Assigned(UpdateBase(t), stmt[t].change)]
  /\ phase' = [phase EXCEPT ![t] = Executed]
  /\ UNCHANGED <<nextId, reply>>

ExecuteDelete(t) ==
  /\ stmt[t].op = "delete"
  /\ rows' = [rows EXCEPT ![stmt[t].name] = NoRow]
  /\ phase' = [phase EXCEPT ![t] = Executed]
  /\ UNCHANGED <<nextId, reply>>

ExecuteRefused(t) ==
  /\ stmt[t].op \in Fallible
  /\ phase' = [phase EXCEPT ![t] = "failed"]
  /\ UNCHANGED <<rows, nextId, reply>>

Execute(t) ==
  /\ phase[t] = "queued"
  /\ Turn(t)
  /\ \/ ExecuteRead(t) \/ ExecuteInsert(t) \/ ExecuteUpdate(t)
     \/ ExecuteDelete(t) \/ ExecuteRefused(t)
  /\ UNCHANGED <<stmt, order>>

\* SQLite: the loop resumes Database.execute / fetchone / fetchall between its
\* two awaits, which queue the second job.
Continue(t) ==
  /\ phase[t] = "executed"
  /\ FirstOut(t)
  /\ phase' = [phase EXCEPT ![t] = "finishing"]
  /\ order' = Enqueue(Dequeue(order), t)
  /\ UNCHANGED <<rows, nextId, stmt, reply>>

\* SQLite: commit, or fetch.  The cursor of a list goes on after its first row,
\* in id order, over the table as it is now.
LaterRows(first) ==
  {n \in EnabledRows(rows) :
     \E m \in Names : first[m] # NoRow /\ first[m].id < rows[n].id}

Complete(t) ==
  /\ phase[t] = "finishing"
  /\ Turn(t)
  /\ phase' = [phase EXCEPT ![t] = "finished"]
  /\ reply' = IF stmt[t].op = "list"
              THEN [reply EXCEPT ![t] = [n \in Names |->
                      IF n \in LaterRows(@) THEN rows[n] ELSE @[n]]]
              ELSE reply
  /\ UNCHANGED <<rows, nextId, stmt, order>>

Engine(t) == Execute(t) \/ Continue(t) \/ Complete(t)
=============================================================================
