----------------------------- MODULE RelayNames -----------------------------
(***************************************************************************)
(* Names of tools (src/src/mcp_relay/main.py).  The relay offers the tool  *)
(* t of the server n as "n__t", and a call of such a name is routed by its *)
(* first "__".  Tools of an upstream that is an aggregator itself contain  *)
(* "__" already, and nothing forbids it in the name of a server.           *)
(*                                                                         *)
(* A name is the sequence of its parts, what stands between two "__".      *)
(* Blank is the empty part (of a tool called "__x", say).  Parts that      *)
(* begin or end with "_" are left out: "a_" and "b" make "a___b", which    *)
(* splits into "a" and "_b".                                               *)
(***************************************************************************)
EXTENDS Naturals, Sequences, FiniteSets

CONSTANTS Parts,     \* what names are made of
          Blank,     \* the empty part of a name
          SampleSize \* how many names a sub-server's sample shows

ASSUME SampleAssumption == SampleSize \in Nat

Qualified(id) == Len(id) > 1

\* f"{server}__{tool}", in listings and prefixes.
Join(server, tool) == server \o tool

\* tool_id.split("__", 1).
Split(id) == << <<Head(id)>>, Tail(id)>>

-----------------------------------------------------------------------------
(* _detect_sub_servers: tools grouped by the part before their first "__". *)

Bucket(tool) == IF Qualified(tool) THEN Head(tool) ELSE Blank

Buckets(tools) == {Bucket(tool) : tool \in tools}
InBucket(tools, b) == {tool \in tools : Bucket(tool) = b}

\* The sample shows local names: the prefix of the bucket is cut off, if it has one.
Local(tool, b) == IF b = Blank THEN tool ELSE Tail(tool)

ToolPrefix(server, b) == IF b = Blank THEN server ELSE server \o <<b>>

\* The names come sorted, so which ones are in the sample is decided by order.
Samples(names) ==
  {S \in SUBSET names :
     Cardinality(S) = IF Cardinality(names) < SampleSize THEN Cardinality(names)
                                                         ELSE SampleSize}

SubServer(server, tools, b, sample) ==
  [prefix |-> b, count |-> Cardinality(InBucket(tools, b)),
   toolPrefix |-> ToolPrefix(server, b),
   sample |-> {Local(tool, b) : tool \in sample}]

\* Nothing to tell about a server whose tools are all in one bucket.
Worthwhile(tools) == Cardinality(Buckets(tools)) >= 2

\* The breakdowns the relay may give of a server's tools.
SubServers(server, tools) ==
  IF ~Worthwhile(tools) THEN {{}}
  ELSE LET choices == {f \in [Buckets(tools) -> SUBSET tools] :
                         \A b \in Buckets(tools) : f[b] \in Samples(InBucket(tools, b))}
       IN {{SubServer(server, tools, b, f[b]) : b \in Buckets(tools)} : f \in choices}

\* The breakdown of a server accounts for each of its tools once, and what an agent
\* puts together from a sub-server's prefix and a name in its sample is routed to
\* that very tool: grouping, cutting the prefix off and splitting agree.
SubServersAddUp(server, tools) ==
  \A breakdown \in SubServers(server, tools) :
    breakdown # {} =>
      /\ Cardinality(UNION {{s.prefix} \X (1..s.count) : s \in breakdown})
           = Cardinality(tools)
      /\ \A s \in breakdown : \A name \in s.sample : \E tool \in tools :
           Bucket(tool) = s.prefix /\ Split(Join(s.toolPrefix, name)) = <<server, tool>>
=============================================================================
