------------------------------ MODULE MCPolicy ------------------------------
(* A small instance of RelayPolicy for TLC. *)
EXTENDS RelayPolicy

\* Arguments "tenant" and "body", one called "arguments" and one that looks like
\* the alias of "tenant".
T == <<"tenant">>
B == <<"body">>
A == <<"arguments">>
AT == <<"arguments", "tenant">>

MCValues == {Null, [kind |-> "str", text |-> "x"], [kind |-> "number", text |-> "y"]}
Items == [key : {T, B, A, AT}, value : MCValues]
MCDicts == {<<>>} \cup {<<i>> : i \in Items}
             \cup {d \in Items \X Items : d[1].key # d[2].key}

Anything == [eq |-> Unset, ne |-> Unset, in |-> Unset, matches |-> Unset]
Is(text) == [Anything EXCEPT !.eq = text]
IsNot(text) == [Anything EXCEPT !.ne = text]
OneOf(S) == [Anything EXCEPT !.in = S, !.matches = {"x", "y"}]

Rule(tools, principals, require) ==
  [tools |-> tools, principals |-> principals, require |-> require]

\* A guard for everybody, one for a tenant, both, and a default for the rest.
ForAll(f) == Rule({"s__t"}, Unset, f)
MCRuleSets ==
  {[default |-> "reject", rules |-> {ForAll([f \in {T} |-> Is("x")])}],
   [default |-> "pass", rules |-> {ForAll([f \in {AT, B} |-> IsNot("x")])}],
   [default |-> "pass", rules |-> {Rule(ToolIds, {"tenant"}, [f \in {A} |-> OneOf({"y"})]),
                                   ForAll([f \in {T} |-> Anything])}],
   [default |-> "pass", rules |-> {}]}

Ok(decision, redacted) ==
  [status |-> 200, body |-> [decision |-> decision, redacted |-> redacted]]
Redactions == [path : {T, AT, B, A, <<"arguments", "arguments">>}, text : {"x", "z"}]
MCReplies ==
  {Ok("pass", <<>>), Ok("reject", <<>>), Ok("redact", <<>>),
   [status |-> 200, body |-> Malformed], [status |-> 403, body |-> Malformed],
   [status |-> 503, body |-> [decision |-> "pass", redacted |-> <<>>]]}
  \cup {Ok("redact", <<r>>) : r \in Redactions}
  \cup {Ok("redact", s) : s \in {q \in Redactions \X Redactions : q[1].path # q[2].path}}
=============================================================================
