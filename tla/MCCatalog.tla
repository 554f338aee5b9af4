------------------------------ MODULE MCCatalog ------------------------------
(* Small instances of RelayCatalog for TLC. *)
EXTENDS RelayCatalog, TLC

CONSTANTS n1, t1, t2, u1, u2

MCTasks == Clients \cup {Boot} \cup ((Clients \cup {Boot}) \X Names)
MCSymmetry == Permutations(Clients)

\* Endpoint u1 offers the tool t1, any other endpoint t2.
MCOffers == [u \in Urls |-> IF u = u1 THEN {t1} ELSE {t2}]

\* Tables to start from: every server registered and enabled, or one that is
\* registered, disabled and hidden.
InitialRow(i) == [id |-> i, url |-> u1, enabled |-> 1, allow |-> NoList,
                  block |-> NoList, status |-> "unknown"]
AllServers ==
  {[n \in Names |-> IF n = n1 THEN InitialRow(1) ELSE InitialRow(2)]}

DisabledServer ==
  {[n \in Names |-> [InitialRow(1) EXCEPT !.enabled = 0, !.allow = {}]]}

\* Requests.
Register(n, u, e, l) ==
  [op |-> "register", name |-> n,
   columns |-> [url |-> u, enabled |-> e, allow |-> l, block |-> NoList]]
Patch(n) == [op |-> "patch", name |-> n, url |-> Keep, enabled |-> Keep,
             allow |-> Keep, block |-> Keep, clearAllow |-> FALSE,
             clearBlock |-> FALSE, also |-> "nothing"]
Remove(n) == [op |-> "delete", name |-> n]
Discover(n) == [op |-> "discover", name |-> n]
List(n) == [op |-> "list", name |-> n]
RefreshAll == [op |-> "refresh"]
Probe(n) == [op |-> "probe", name |-> n]
Cycle == [op |-> "canary"]

\* Filters change under a listing; a server comes and goes.
FilterRequests ==
  {[Patch(n1) EXCEPT !.block = {t1}], List(n1), Remove(n1),
   Register(n1, u1, 1, {t1})}

\* Registrations (disabled), PATCHes of different columns and removals of one server,
\* and cycles of the canary.
AdminRequests ==
  {Register(n1, u1, 0, {}), Remove(n1), [Patch(n1) EXCEPT !.url = u2],
   [Patch(n1) EXCEPT !.clearAllow = TRUE, !.enabled = 1],
   Cycle}

\* A server removed while its tools are being fetched.
GhostRequests == {Remove(n1)}

\* One request of every kind.
AllRequests == {List(AnyServer), RefreshAll, Cycle, Remove(n1), Discover(n1), Probe(n1),
                Register(n1, u1, 1, NoList), [Patch(n1) EXCEPT !.also = "auth"]}
=============================================================================
