----------------------------- MODULE MCToolCall -----------------------------
(* Small instances of RelayToolCall for TLC. *)
EXTENDS RelayToolCall

CONSTANTS u1, u2, full, narrow, stranger

A == <<"a">>
B == <<"b">>
X == <<"x">>
SX == <<"s", "x">>  \* a tool of an upstream that is an aggregator

MCNames == {A, B}
MCTools == {X, SX}
MCTasks == Callers \cup Admins

\* Both servers are registered, and nothing is filtered.
Row(i) == [id |-> i, url |-> u1, enabled |-> 1, allow |-> NoList,
           block |-> NoList, status |-> "healthy"]
MCTables == {[n \in Names |-> IF n = A THEN Row(1) ELSE Row(2)]}

\* One principal reaches every server, the other one only A.
MCConfig == <<[id |-> "operator", tokens |-> <<full>>, servers |-> AllServers],
              [id |-> "tenant", tokens |-> <<narrow>>, servers |-> {A}]>>

MakeCall(p, i, k, m) == [path |-> p, id |-> i, token |-> k, meta |-> m]

\* Calls by a qualified and by a bare name, of a principal, and of nobody.
MCCalls ==
  {MakeCall("execute", Join(A, SX), NoToken, TRUE), MakeCall("mcp", X, narrow, TRUE),
   MakeCall("legacy", X, stranger, TRUE)}

Patch(c) == [op |-> "patch", name |-> A, change |-> c]
Register(c) == [op |-> "register", name |-> A, columns |-> c]

\* The server A is filtered and moved, removed and registered again, elsewhere.
MCOrders ==
  {Patch([NoChange EXCEPT !.block = MCTools, !.url = u2]),
   Register([url |-> u2, enabled |-> 1, allow |-> NoList, block |-> {X}]),
   [op |-> "delete", name |-> A]}

MCCatalogs == {MCTools}

\* Every inventory of some of these tools, more of them than a sample shows.
ToolNames == {X, SX, <<"s", "a">>, <<"s", "b">>, <<"a", "s", "x">>, <<Blank, "x">>}
ASSUME InventoriesAddUp == \A tools \in SUBSET ToolNames : SubServersAddUp(A, tools)

\* Every file of up to two principals with up to two tokens each.
TokenLists == {<<>>} \cup UNION {[1..k -> {full, narrow}] : k \in {1, 2}}
Entries == [id : {"operator", "tenant", BlankId}, tokens : TokenLists, servers : {AllServers}]
Files == {<<>>} \cup {<<e>> : e \in Entries} \cup (Entries \X Entries)
ASSUME FilesResolve == \A cfg \in Files : TokensResolve(cfg)
=============================================================================
