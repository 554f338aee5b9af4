---------------------------- MODULE RelayRestart ----------------------------
(***************************************************************************)
(* The catalogue of relay-mcp across a crash: the process dies between any *)
(* two steps and is started again on the database it left.  What survives  *)
(* is the table as last committed; tasks, caches and cache_lock            *)
(* (src/src/mcp_relay/main.py:59-62) begin anew, and lifespan starts the   *)
(* startup task over.  Clients see their connections break.                *)
(*                                                                         *)
(* On PostgreSQL every statement commits by itself.  The connection to     *)
(* SQLite opens a transaction with the first change and ends it with the   *)
(* next commit, whichever task that is by: all tasks share the connection, *)
(* and see each other's changes before they are committed.                 *)
(***************************************************************************)
EXTENDS RelayCatalog

CONSTANT MaxCrashes  \* bound: how often the relay crashes

ASSUME CrashAssumption == MaxCrashes \in Nat

VARIABLES saved,    \* the table, and its sequence, as last committed
          crashes,  \* how often it has crashed
          earlier,  \* clients whose requests came before the last crash
          foundUp,  \* history: servers that a probe has found up since then
          missed    \* history: servers the startup task has since failed to discover

restartVars == <<vars, saved, crashes, earlier, foundUp, missed>>

RestartInit ==
  /\ Init
  /\ saved = [rows |-> rows, nextId |-> nextId]
  /\ crashes = 0
  /\ earlier = {}
  /\ foundUp = {} /\ missed = {}

RestartTypeOK ==
  /\ TypeOK
  /\ saved \in [rows : Tables, nextId : Nat]
  /\ crashes \in 0..MaxCrashes
  /\ earlier \subseteq Clients
  /\ foundUp \subseteq Names /\ missed \subseteq Names

-----------------------------------------------------------------------------

\* Database.execute awaits commit after its statement; a statement that raised is
\* not followed by one.  (Variant for the mutant: only creations are committed.)
CommitsInserts(t) == phase[t] = "finishing" /\ stmt[t].op = "insert"
Commits(t) == phase[t] = "finishing" /\ stmt[t].op \in {"insert", "update", "delete"}

\* A step of the running relay, and what it commits.
Persist ==
  saved' = IF \/ Backend = "postgres"
              \/ \E t \in Tasks : Commits(t) /\ phase'[t] = "finished"
           THEN [rows |-> rows', nextId |-> nextId'] ELSE saved

\* A probe of a canary cycle or of a health check is about to write "healthy"; a
\* discovery of the startup task is about to write "unhealthy".
FindsUp(t) == At(t, "probing") /\ pc'[t] = "up"
Misses(n) == At(<<Boot, n>>, "fetch") /\ pc'[<<Boot, n>>] = "unhealthy"
Observe ==
  /\ foundUp' = foundUp \cup {Subject(t) : t \in {u \in Tasks : FindsUp(u)}}
  /\ missed' = missed \cup {n \in Names : Misses(n)}

Running == Next /\ Persist /\ Observe /\ UNCHANGED <<crashes, earlier>>

\* Clients that had a request in progress, or answered, are not heard of again; the
\* startup task of the new process has everything to do again.  (Variant for
\* the mutant: it does not run.)
Lost == {c \in Clients : ~At(c, "idle")}
LocationLost(t) == IF t \in Lost \cup {Boot} THEN "done" ELSE "idle"
LocationAfter(t) == IF t \in Lost THEN "done" ELSE "idle"

Crash ==
  /\ crashes < MaxCrashes
  /\ crashes' = crashes + 1
  /\ earlier' = Lost
  /\ foundUp' = {} /\ missed' = {}
  /\ rows' = saved.rows /\ nextId' = saved.nextId
  /\ stmt' = [t \in Tasks |-> NoStatement]
  /\ phase' = [t \in Tasks |-> "idle"]
  /\ order' = <<>>
  /\ reply' = [t \in Tasks |-> EmptyTable]
  /\ pc' = [t \in Tasks |-> LocationAfter(t)]
  /\ filterCache' = [n \in Names |-> Miss]
  /\ toolCache' = [n \in Names |-> Absent]
  /\ cacheLock' = <<>>
  /\ todo' = [c \in Clients |-> {}]
  /\ shown' = [c \in Clients |-> {}]
  /\ attempt' = 0
  /\ UNCHANGED <<req, response, saved>>

RestartNext == Running \/ Crash

\* Fairness is that of the catalogue; nobody has to crash.
RestartSpec == RestartInit /\ [][RestartNext]_restartVars /\ LocalFairness

-----------------------------------------------------------------------------
(* Properties.                                                             *)

Asked(op, n) == \E c \in Clients : req[c] # NoReq /\ req[c].op = op /\ req[c].name = n

\* A registration or removal that the relay confirmed is still there after a crash,
\* unless a later request was for the opposite: register_server and
\* unregister_server answer only after their commit.
ConfirmedIsDurable ==
  \A c \in Clients :
    req[c] # NoReq =>
      /\ (req[c].op = "register" /\ response[c] = 201) =>
           rows[req[c].name] # NoRow \/ Asked("delete", req[c].name)
      /\ (req[c].op = "delete" /\ response[c] = 200) =>
           rows[req[c].name] = NoRow \/ Asked("register", req[c].name)

\* Since the last crash a request may have enabled n or discovered its tools, beside the
\* startup task.
Touched(n) ==
  \E c \in Clients \ earlier :
    /\ req[c] # NoReq
    /\ \/ req[c].op \in {"register", "patch", "discover"} /\ req[c].name = n
       \/ req[c].op = "refresh"

\* tool_cache is gone after a crash while the rows still say "healthy".  Once the
\* startup task has ended, the tools of an enabled server that no request has touched
\* are known, whatever canary cycles and health checks did beside it, unless the
\* discovery of that very server failed; and if it did, the row does not say
\* "healthy", unless a probe has found the server up: probes leave tool_cache alone.
HealthyIsServed ==
  \A n \in Names :
    At(Boot, "done") /\ rows[n] # NoRow /\ rows[n].enabled = 1 /\ ~Touched(n) =>
      \/ toolCache[n] # Absent
      \/ n \in missed /\ (rows[n].status = "healthy" => n \in foundUp)

-----------------------------------------------------------------------------
(* The inductive invariant behind ConfirmedIsDurable.                      *)

\* Server n is in the table, and stays there over a crash, or somebody asked for
\* its removal; and the opposite.
Kept(n) == (rows[n] # NoRow /\ saved.rows[n] # NoRow) \/ Asked("delete", n)
Gone(n) == (rows[n] = NoRow /\ saved.rows[n] = NoRow) \/ Asked("register", n)

\* The statement of c is its own request's, and what it did is still so; once it
\* has been committed a crash does not undo it.
InsertControl(c) ==
  stmt[c].op = "insert" =>
    /\ req[c] # NoReq /\ req[c].op = "register" /\ req[c].name = stmt[c].name
    /\ phase[c] \in {"executed", "finishing"} =>
         rows[stmt[c].name] # NoRow \/ Asked("delete", stmt[c].name)
    /\ phase[c] = "finished" => Kept(stmt[c].name)
DeleteControl(c) ==
  stmt[c].op = "delete" =>
    /\ req[c] # NoReq /\ req[c].op = "delete" /\ req[c].name = stmt[c].name
    /\ phase[c] \in {"executed", "finishing"} =>
         rows[stmt[c].name] = NoRow \/ Asked("register", stmt[c].name)
    /\ phase[c] = "finished" => Gone(stmt[c].name)

\* Where a client is tells what its statement has been, and what it may say.
ReplyControl(c) ==
  /\ At(c, "idle") => req[c] = NoReq /\ response[c] = 0
  /\ response[c] # 0 => At(c, "done")
  /\ At(c, "insert") => stmt[c].op = "insert"
  /\ At(c, "remove") => stmt[c].op = "delete"
  /\ At(c, "reread") \/ response[c] = 201 =>
       req[c].op = "register" /\ Kept(req[c].name)
  /\ At(c, "pop_lock") \/ (response[c] = 200 /\ req[c].op = "delete") =>
       Gone(req[c].name)

DurInv ==
  /\ \A c \in Clients : InsertControl(c) /\ DeleteControl(c) /\ ReplyControl(c)
  /\ \A t \in Tasks \ Clients : stmt[t].op \notin {"insert", "delete"}
=============================================================================
