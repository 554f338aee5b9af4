----------------------------- MODULE RelayCanary -----------------------------
(***************************************************************************)
(* The health canary of relay-mcp (src/src/mcp_relay/main.py): the cycles  *)
(* of canary_loop and of POST /api/canary/run, which probe every enabled   *)
(* server at once and then go through the results one by one, and the      *)
(* probes of GET /api/servers/{name}/health.  They share the status column *)
(* of the registry and the dictionaries last_health_results and            *)
(* previous_status; only a cycle that awaits the alert webhook is          *)
(* suspended between the two dictionaries.                                 *)
(*                                                                         *)
(* The status "unknown" of a row nobody has probed is left out: nothing    *)
(* here tells it from the others, and every write replaces it.             *)
(*                                                                         *)
(* Upstream servers, the rest of the relay and whatever may fail are an    *)
(* environment that does as it likes until it is calm.                     *)
(***************************************************************************)
CONSTANTS Names,      \* names of servers
          Loop,       \* the task of canary_loop
          Runs,       \* clients of POST /api/canary/run
          Checks,     \* clients of GET /api/servers/{name}/health
          Webhook,    \* CANARY_WEBHOOK_URL is set
          NoName

Cycles == {Loop} \cup Runs
Probers == Cycles \cup Checks

ASSUME TaskAssumption == Loop \notin Runs /\ Cycles \cap Checks = {}
ASSUME WebhookAssumption == Webhook \in BOOLEAN
ASSUME NameAssumption == NoName \notin Names

VARIABLES upstream,   \* what the upstream server behind a name does
          enabled,    \* the names whose row is enabled
          column,     \* the status column of a row, or "absent"
          calm,       \* the environment has settled
          at,         \* where a cycle or a health check is
          probe,      \* the probe of a server, and its outcome, per prober
          alertee,    \* the server whose alert a cycle awaits
          last,       \* last_health_results
          previous,   \* previous_status
          told,       \* history: the status the last alert of a server reported
          overlapped  \* history: two cycles have been under way at once

environment == <<upstream, enabled, calm>>
results == <<last, previous, told, alertee>>
vars == <<environment, column, at, probe, results, overlapped>>

Health == {"healthy", "unhealthy"}
Storing == {"storing healthy", "storing unhealthy"}
Pending == {"fetching"} \cup Storing

Init ==
  /\ upstream \in [Names -> {"up", "down", "hung"}]
  /\ column \in [Names -> {"absent"} \cup Health]
  /\ enabled \in SUBSET {n \in Names : column[n] # "absent"}
  /\ calm = FALSE
  /\ at = [p \in Probers |-> "idle"]
  /\ probe = [p \in Probers |-> [n \in Names |-> "none"]]
  /\ alertee = [c \in Cycles |-> NoName]
  /\ last = [n \in Names |-> "none"]
  /\ previous = [n \in Names |-> "none"]
  /\ told = [n \in Names |-> "none"]
  /\ overlapped = FALSE

TypeOK ==
  /\ upstream \in [Names -> {"up", "down", "hung"}]
  /\ enabled \subseteq Names /\ calm \in BOOLEAN
  /\ column \in [Names -> {"absent"} \cup Health]
  /\ at \in [Probers -> {"idle", "listing", "probing", "alerting"}]
  /\ probe \in [Probers -> [Names -> {"none", "failed"} \cup Pending \cup Health]]
  /\ alertee \in [Cycles -> Names \cup {NoName}]
  /\ last \in [Names -> {"none"} \cup Health]
  /\ previous \in [Names -> {"none"} \cup Health]
  /\ told \in [Names -> {"none"} \cup Health]
  /\ overlapped \in BOOLEAN

-----------------------------------------------------------------------------
(* The environment.                                                        *)

UpstreamChanges(n) ==
  /\ ~calm
  /\ \E u \in {"up", "down", "hung"} : upstream' = [upstream EXCEPT ![n] = u]
  /\ UNCHANGED <<enabled, calm, column, at, probe, results, overlapped>>

\* Registrations, PATCHes, DELETEs and discoveries (RelayCatalog) write the row.
RowChanges(n) ==
  /\ ~calm
  /\ \E s \in {"absent"} \cup Health :
       /\ column' = [column EXCEPT ![n] = s]
       /\ \/ enabled' = enabled \ {n}
          \/ s # "absent" /\ enabled' = enabled \cup {n}
  /\ UNCHANGED <<upstream, calm, at, probe, results, overlapped>>

CalmDown ==
  /\ ~calm
  /\ calm' = TRUE
  /\ UNCHANGED <<upstream, enabled, column, at, probe, results, overlapped>>

-----------------------------------------------------------------------------
(* probe_server, inside wait_for when a cycle runs it.                     *)

Probe(p, n, s) == probe' = [probe EXCEPT ![p][n] = s]

\* update_server_status: no row, no effect.
StatusWritten(n, s) ==
  column' = IF column[n] = "absent" THEN column ELSE [column EXCEPT ![n] = s]

\* _fetch_tools_from_server lists the tools or raises.
Answered(p, n) ==
  /\ probe[p][n] = "fetching" /\ upstream[n] # "hung"
  /\ Probe(p, n, IF upstream[n] = "up" THEN "storing healthy" ELSE "storing unhealthy")
  /\ UNCHANGED <<environment, column, at, results, overlapped>>

\* (Variant for the mutant: the except clause writes the same status.)
AlwaysHealthy(s) == "healthy"
Outcome(s) == IF s = "storing healthy" THEN "healthy" ELSE "unhealthy"

Store(p, n) ==
  /\ probe[p][n] \in Storing
  /\ StatusWritten(n, Outcome(probe[p][n]))
  /\ Probe(p, n, Outcome(probe[p][n]))
  /\ UNCHANGED <<environment, at, results, overlapped>>

\* A refused UPDATE raises into the except clause, which tries "unhealthy"; a
\* refusal of that leaves the probe.
StoreRefused(p, n) ==
  /\ ~calm
  /\ probe[p][n] \in Storing
  /\ Probe(p, n, IF probe[p][n] = "storing healthy" THEN "storing unhealthy" ELSE "failed")
  /\ UNCHANGED <<environment, column, at, results, overlapped>>

\* wait_for cancels the probe of a cycle, which no except clause of probe_server
\* sees; an UPDATE that was under way may have run.  In calm times only a server
\* that hangs takes longer than CANARY_TIMEOUT.  (Variant for the mutant: no
\* timeout.)
NeverExpires(c, n) == FALSE
Expires(c, n) ==
  \/ probe[c][n] = "fetching" /\ (calm => upstream[n] = "hung")
  \/ probe[c][n] \in Storing /\ ~calm

Timeout(c, n) ==
  /\ Expires(c, n)
  /\ Probe(c, n, "unhealthy")
  /\ \/ UNCHANGED column
     \/ probe[c][n] \in Storing /\ StatusWritten(n, Outcome(probe[c][n]))
  /\ UNCHANGED <<environment, at, results, overlapped>>

Returned(p) == \A n \in Names : probe[p][n] \notin Pending

-----------------------------------------------------------------------------
(* run_canary_check.                                                       *)

Begin(c) ==
  /\ at[c] = "idle"
  /\ at' = [at EXCEPT ![c] = "listing"]
  /\ overlapped' = (overlapped \/ \E d \in Cycles : at[d] # "idle")
  /\ UNCHANGED <<environment, column, probe, results>>

Listed(c) ==
  /\ at[c] = "listing"
  /\ at' = [at EXCEPT ![c] = "probing"]
  /\ probe' = [probe EXCEPT ![c] =
                 [n \in Names |-> IF n \in enabled THEN "fetching" ELSE "none"]]
  /\ UNCHANGED <<environment, column, results, overlapped>>

\* canary_loop logs the exception, run_canary_now answers 500.
ListFails(c) ==
  /\ ~calm
  /\ at[c] = "listing"
  /\ at' = [at EXCEPT ![c] = "idle"]
  /\ UNCHANGED <<environment, column, probe, results, overlapped>>

\* The results of c for the names in R, written over f.
Overwrite(f, c, R) == [n \in Names |-> IF n \in R THEN probe[c][n] ELSE f[n]]

\* "if prev and prev != result.status".  (Variant for the mutant: an alert for
\* every unhealthy result.)
Unhealthy(c, todo, prev) ==
  {n \in todo : prev[n] # "none" /\ probe[c][n] = "unhealthy"}
Changed(c, todo, prev) ==
  {n \in todo : prev[n] # "none" /\ prev[n] # probe[c][n]}

FinishCycle(c, todo, prev) ==
  /\ ~Webhook \/ Changed(c, todo, prev) = {}
  /\ last' = Overwrite(last, c, todo)
  /\ previous' = Overwrite(prev, c, todo)
  /\ at' = [at EXCEPT ![c] = "idle"]
  /\ probe' = [probe EXCEPT ![c] = [n \in Names |-> "none"]]
  /\ alertee' = [alertee EXCEPT ![c] = NoName]
  /\ UNCHANGED told

\* Unchanged results before it in the list are recorded without a suspension.
SendAlert(c, todo, prev, n, before) ==
  /\ Webhook
  /\ last' = Overwrite(last, c, before \cup {n})
  /\ previous' = Overwrite(prev, c, before)
  /\ told' = [told EXCEPT ![n] = probe[c][n]]
  /\ at' = [at EXCEPT ![c] = "alerting"]
  /\ probe' = [probe EXCEPT ![c] =
                 [m \in Names |-> IF m \in todo \ before THEN probe[c][m] ELSE "none"]]
  /\ alertee' = [alertee EXCEPT ![c] = n]

\* The loop over the results still to do, up to its end or to the next alert.
Process(c, todo, prev) ==
  \/ FinishCycle(c, todo, prev)
  \/ \E n \in Changed(c, todo, prev) :
       \E before \in SUBSET (todo \ Changed(c, todo, prev)) :
         SendAlert(c, todo, prev, n, before)

\* gather(return_exceptions=True): a probe that raised has no result.  (Variant for
\* the mutant: it is recorded as well.)
AllResults(c) == {n \in Names : probe[c][n] # "none"}
Results(c) == {n \in Names : probe[c][n] \in Health}

Gather(c) ==
  /\ at[c] = "probing" /\ Returned(c)
  /\ Process(c, Results(c), previous)
  /\ UNCHANGED <<environment, column, overlapped>>

\* The webhook answers, fails or times out: the loop goes on in the same way.
\* (Variant for the mutant: the alert is sent instead of recording the status.)
Unrecorded(c) == previous
Recorded(c) == [previous EXCEPT ![alertee[c]] = probe[c][alertee[c]]]

AlertReturns(c) ==
  /\ at[c] = "alerting"
  /\ Process(c, Results(c) \ {alertee[c]}, Recorded(c))
  /\ UNCHANGED <<environment, column, overlapped>>

-----------------------------------------------------------------------------
(* GET /api/servers/{name}/health: a probe with no timeout and no trace in *)
(* the two dictionaries.                                                   *)

StartCheck(k, n) ==
  /\ at[k] = "idle" /\ column[n] # "absent"
  /\ at' = [at EXCEPT ![k] = "probing"]
  /\ Probe(k, n, "fetching")
  /\ UNCHANGED <<environment, column, results, overlapped>>

EndCheck(k) ==
  /\ at[k] = "probing" /\ Returned(k)
  /\ at' = [at EXCEPT ![k] = "idle"]
  /\ probe' = [probe EXCEPT ![k] = [n \in Names |-> "none"]]
  /\ UNCHANGED <<environment, column, results, overlapped>>

-----------------------------------------------------------------------------
Environment == CalmDown \/ \E n \in Names : UpstreamChanges(n) \/ RowChanges(n)

ProbeStep(p) == \E n \in Names : Answered(p, n) \/ Store(p, n) \/ StoreRefused(p, n)

Cycle(c) ==
  \/ Listed(c) \/ ListFails(c) \/ Gather(c) \/ AlertReturns(c)
  \/ ProbeStep(c) \/ \E n \in Names : Timeout(c, n)

Check(k) == ProbeStep(k) \/ EndCheck(k)

Next ==
  \/ Environment
  \/ \E c \in Cycles : Begin(c) \/ Cycle(c)
  \/ \E k \in Checks : Check(k) \/ \E n \in Names : StartCheck(k, n)

Spec == Init /\ [][Next]_vars

\* The event loop runs whatever can run, the sleep of canary_loop ends, and so
\* does a webhook call (httpx with timeout=5).  Only wait_for makes a server that
\* hangs answer, and nobody has to ask for a cycle or a check.
FairSpec ==
  /\ Spec
  /\ WF_vars(Begin(Loop))
  /\ \A c \in Cycles : WF_vars(Cycle(c))
  /\ \A k \in Checks : WF_vars(Check(k))

-----------------------------------------------------------------------------
(* Properties.                                                             *)

\* c sends an alert in this step, and it reports what the last one reported.
RepeatsAlert(c) ==
  /\ alertee'[c] \notin {NoName, alertee[c]}
  /\ told'[alertee'[c]] = told[alertee'[c]]

\* "Send alert webhook when server status changes": as long as no two cycles have
\* overlapped, no alert repeats the one before it.
LoneAlertsAreNews == [][~overlapped' => \A c \in Cycles : ~RepeatsAlert(c)]_vars

\* As long as no two cycles have overlapped, and unless its alert is being sent,
\* the canary remembers one status of a server: the last result, the status the
\* next result is compared with, and the one its last alert reported.
OneStatus ==
  ~overlapped =>
    \A n \in Names :
      (\A c \in Cycles : alertee[c] # n) =>
        last[n] = previous[n] /\ told[n] \in {"none", previous[n]}

\* A cycle ends, also with servers that never answer: POST /api/canary/run is
\* answered and canary_loop comes back to its sleep.
CyclesEnd == \A c \in Cycles : (at[c] # "idle") ~> (at[c] = "idle")

Actual(n) == IF upstream[n] = "up" THEN "healthy" ELSE "unhealthy"

\* Whatever cycles overlapped and whatever failed before, the loop puts it right:
\* once servers stay as they are, the canary and the registry come to agree with
\* them and keep doing so.  The status column of a server that hangs is excepted.
Settles ==
  calm ~> [](\A n \in enabled :
               /\ last[n] = Actual(n) /\ previous[n] = Actual(n)
               /\ upstream[n] # "hung" => column[n] = Actual(n))

\* The summary of health_summary counts by the status column what the canary
\* found: in the end the two agree.
SummaryTellsCanary == calm ~> [](\A n \in enabled : column[n] = last[n])

-----------------------------------------------------------------------------
(* The inductive invariant behind the theorems of RelayCanaryProofs.       *)

\* A cycle has an alert under way exactly while it awaits the webhook, and the
\* result it is about is still among its probes.
AlertControl ==
  \A c \in Cycles :
    /\ alertee[c] # NoName <=> at[c] = "alerting"
    /\ at[c] = "alerting" => probe[c][alertee[c]] \in Health

Alone ==
  ~overlapped =>
    \A c, d \in Cycles : at[c] # "idle" /\ at[d] # "idle" => c = d

\* A status that is being told is already the last result, not yet the previous.
BeingTold ==
  ~overlapped =>
    \A c \in Cycles :
      at[c] = "alerting" =>
        /\ last[alertee[c]] = probe[c][alertee[c]]
        /\ told[alertee[c]] = probe[c][alertee[c]]

\* Without a webhook nothing is ever told.
Silent == Webhook \/ \A n \in Names : told[n] = "none"

IInv == TypeOK /\ AlertControl /\ Alone /\ Silent /\ BeingTold /\ OneStatus
=============================================================================
