----------------------------- MODULE MCRestart -----------------------------
(* A small instance of RelayRestart for TLC. *)
EXTENDS RelayRestart

CONSTANTS n1, t1, t2, u1

MCTasks == Clients \cup {Boot} \cup ((Clients \cup {Boot}) \X Names)
MCOffers == [u \in Urls |-> {t1}]

\* The server is not registered yet, or is from before.
MCTables == {[n \in Names |-> NoRow],
             [n \in Names |-> [id |-> 1, url |-> u1, enabled |-> 1, allow |-> NoList,
                               block |-> NoList, status |-> "healthy"]]}

Patch == [op |-> "patch", name |-> n1, url |-> Keep, enabled |-> Keep, allow |-> Keep,
          block |-> Keep, clearAllow |-> FALSE, clearBlock |-> FALSE, also |-> "nothing"]

\* Registrations, removals and PATCHes, the work that crashes interrupt, and a cycle
\* of the canary.
MCRequests ==
  {[op |-> "register", name |-> n1,
    columns |-> [url |-> u1, enabled |-> 1, allow |-> NoList, block |-> NoList]],
   [op |-> "delete", name |-> n1],
   [Patch EXCEPT !.enabled = 0], [op |-> "canary"]}
=============================================================================
