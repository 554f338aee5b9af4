------------------------- MODULE RelayToolCallProofs -------------------------
(* Theorems about RelayToolCall for every number of callers, administrators,   *)
(* servers and tools, every configuration of principals, and both backends.    *)
EXTENDS RelayToolCall, RelayDbProofs, SequenceTheorems

-----------------------------------------------------------------------------
(* Names, calls and requests.                                                *)

\* Cutting the first part off a name and putting it back.
LEMMA SplitJoin ==
  ASSUME NEW id \in Seq(Parts), Qualified(id)
  PROVE  /\ Join(Split(id)[1], Split(id)[2]) = id
         /\ Len(Split(id)[1]) = 1
<1> DEFINE j == <<Head(id)>> \o Tail(id)
<1>1. Tail(id) \in Seq(Parts) /\ Len(Tail(id)) = Len(id) - 1 /\ Head(id) \in Parts
  BY DEF Qualified
<1>2. j \in Seq(Parts) /\ Len(j) = Len(id)
  BY <1>1
<1>3. \A i \in 1..Len(id) : j[i] = id[i]
  BY <1>1 DEF Qualified
<1>4. j = id
  BY <1>2, <1>3
<1> QED
  BY <1>4 DEF Join, Split

\* The name under which a tool is listed routes a call back to it, if the name of
\* its server contains no "__" (main.py: tool_id.split("__", 1)).
THEOREM ListedNamesRouteBack ==
  ASSUME NEW n \in Seq(Parts), Len(n) = 1, NEW tool \in Seq(Parts), tool # <<>>
  PROVE  Qualified(Join(n, tool)) /\ Split(Join(n, tool)) = <<n, tool>>
<1> 1 \in 1..Len(n)
  OBVIOUS
<1>a. n[1] \in Parts
  BY ElementOfSeq
<1>b. n = <<n[1]>>
  OBVIOUS
<1>c. Len(tool) > 0
  BY EmptySeq
<1>1. n = <<n[1]>> /\ Len(tool) > 0 /\ n[1] \in Parts
  BY <1>a, <1>b, <1>c
<1>2. n \o tool \in Seq(Parts) /\ Len(n \o tool) = 1 + Len(tool)
  BY ConcatProperties
<1>3. Head(n \o tool) = n[1]
  BY <1>1, <1>2
<1>4. Tail(n \o tool) = tool
  <2>1. Tail(n \o tool) \in Seq(Parts) /\ Len(Tail(n \o tool)) = Len(tool)
    BY <1>1, <1>2
  <2>2. \A i \in 1..Len(tool) : Tail(n \o tool)[i] = tool[i]
    BY <1>1, <1>2
  <2> QED
    BY <2>1, <2>2
<1> QED
  BY <1>1, <1>2, <1>3, <1>4 DEF Qualified, Join, Split

\* What the snapshot of capabilities shows of a sub-server, its prefix followed by a
\* name in its sample, is routed to that very tool (_detect_sub_servers).
THEOREM SampledNamesRouteBack ==
  ASSUME NEW n \in Seq(Parts), Len(n) = 1, NEW tool \in Seq(Parts), tool # <<>>,
         NEW b, b = Bucket(tool), NEW sample \in SUBSET Seq(Parts), tool \in sample,
         Blank \in Parts, NEW tools
  PROVE  LET s == SubServer(n, tools, b, sample)
         IN /\ Local(tool, b) \in s.sample
            /\ Split(Join(s.toolPrefix, Local(tool, b))) = <<n, tool>>
<1> DEFINE s == SubServer(n, tools, b, sample)
<1>1. s.sample = {Local(t, b) : t \in sample} /\ s.toolPrefix = ToolPrefix(n, b)
  BY DEF SubServer
<1>2. Local(tool, b) \in s.sample
  BY <1>1
<1>3. Join(ToolPrefix(n, b), Local(tool, b)) = Join(n, tool)
  <2>1. CASE b = Blank
    BY <2>1 DEF ToolPrefix, Local, Join
  <2>2. CASE b # Blank
    <3>1. b = Head(tool) /\ tool = <<b>> \o Tail(tool)
      <4>1. Qualified(tool) /\ b = Head(tool)
        BY <2>2 DEF Bucket
      <4>2. Join(Split(tool)[1], Split(tool)[2]) = tool
        BY <4>1, SplitJoin
      <4> QED
        BY <4>1, <4>2 DEF Join, Split
    <3>2. Tail(tool) \in Seq(Parts) /\ <<b>> \in Seq(Parts)
      BY <3>1, HeadTailProperties
    <3>3. (n \o <<b>>) \o Tail(tool) = n \o (<<b>> \o Tail(tool))
      BY <3>2, ConcatAssociative
    <3> QED
      BY <2>2, <3>1, <3>3 DEF ToolPrefix, Local, Join
  <2> QED
    BY <2>1, <2>2
<1>4. Split(Join(n, tool)) = <<n, tool>>
  BY ListedNamesRouteBack
<1> QED
  BY <1>1, <1>2, <1>3, <1>4

\* In every file of principals that the relay starts with, a token belongs to the
\* one principal that it resolves to (load_principals, PrincipalRegistry.resolve).
THEOREM TokensAreOneCallers ==
  ASSUME NEW cfg, Len(cfg) \in Nat, \A i \in 1..Len(cfg) : Len(cfg[i].tokens) \in Nat
  PROVE  TokensResolve(cfg)
<1> SUFFICES ASSUME Loads(cfg), NEW p \in Places(cfg), NEW i \in 1..Len(cfg),
                    TokenAt(cfg, p) # NoToken
             PROVE  Resolve(cfg, TokenAt(cfg, p)) = cfg[i] <=> i = p[1]
  BY DEF TokensResolve
<1> DEFINE t == TokenAt(cfg, p)
<1>1. \A q \in Places(cfg) : TokenAt(cfg, q) = t => q = p
  BY DEF Loads, TokensDistinct
<1>2. Holders(cfg, t) = {p[1]}
  BY <1>1 DEF Holders
<1>3. p[1] \in 1..Len(cfg)
  BY DEF Places
<1>4. ByToken(cfg, t) = p[1]
  BY <1>2, <1>3 DEF ByToken
<1>5. Resolve(cfg, t) = cfg[p[1]]
  BY <1>2, <1>4 DEF Resolve
<1>6. cfg[i] = cfg[p[1]] => i = p[1]
  BY <1>3 DEF Loads
<1> QED
  BY <1>5, <1>6

LEMMA CallParts ==
  ASSUME NEW r \in Calls
  PROVE  /\ r # NoCall /\ r.path \in Paths
         /\ Qualified(r.id) => Split(r.id) \in Names \X Tools /\ Split(r.id) \in Meant[r]
         /\ ~Qualified(r.id) => r.id \in Tools /\ \A n \in Names : <<n, r.id>> \in Meant[r]
<1>1. /\ r # NoCall /\ r.path \in Paths /\ r.id \in Seq(Parts)
      /\ IF Qualified(r.id) THEN Split(r.id) \in Names \X Tools ELSE r.id \in Tools
  BY CallAssumption
<1>2. Qualified(r.id) => Join(Split(r.id)[1], Split(r.id)[2]) = r.id
  BY <1>1, SplitJoin
<1> QED
  BY <1>1, <1>2 DEF Meant

LEMMA OrderParts ==
  ASSUME NEW o \in Orders
  PROVE  o # NoOrder /\ o.name \in Names /\ StatementOf(o) \in Statements
<1>1. o \in OrderSet /\ o # NoOrder
  BY OrderAssumption
<1>2. CASE o \in [op : {"register"}, name : Names, columns : Columns]
  BY <1>1, <1>2, InsertIsStatement DEF StatementOf
<1>3. CASE o \in [op : {"patch"}, name : Names, change : Changes]
  BY <1>1, <1>3, UpdateIsStatement DEF StatementOf
<1>4. CASE o \in [op : {"delete"}, name : Names]
  BY <1>1, <1>4, SelectIsStatement DEF StatementOf
<1> QED
  BY <1>1, <1>2, <1>3, <1>4 DEF OrderSet

\* In a file that loads, a token has one holder, which is what it resolves to.
LEMMA ResolvesToHolder ==
  ASSUME NEW t, Resolve(Config, t) # Nobody
  PROVE  \E i \in 1..Len(Config) :
           /\ Resolve(Config, t) = Config[i]
           /\ \E k \in 1..Len(Config[i].tokens) : Config[i].tokens[k] = t
<1>1. Holders(Config, t) # {} /\ Resolve(Config, t) = Config[ByToken(Config, t)]
  BY DEF Resolve
<1>2. \A i \in Holders(Config, t) :
        i \in 1..Len(Config) /\ \E k \in 1..Len(Config[i].tokens) : Config[i].tokens[k] = t
  BY DEF Holders, Places, TokenAt
<1>3. \A i, j \in Holders(Config, t) : i = j
  <2> SUFFICES ASSUME NEW p \in Places(Config), NEW q \in Places(Config),
                      TokenAt(Config, p) = t, TokenAt(Config, q) = t
               PROVE  p[1] = q[1]
    BY DEF Holders
  <2> QED
    BY ConfigAssumption DEF Loads, TokensDistinct
<1>4. PICK i \in Holders(Config, t) : TRUE
  BY <1>1
<1>5. i \in Nat /\ \A j \in Holders(Config, t) : j <= i
  BY <1>2, <1>3, <1>4, ConfigAssumption
<1>6. ByToken(Config, t) \in Holders(Config, t)
  BY <1>4, <1>5 DEF ByToken
<1> QED
  BY <1>1, <1>2, <1>6

\* A server that a known caller reaches is one its token is entitled to.
LEMMA ReachedIsEntitled ==
  ASSUME NEW r \in Calls, NEW n \in Names, Known(r), Reaches(r, n)
  PROVE  n \in Entitled[r]
<1>1. CASE ~Identified(r)
  <2>1. r.path = "execute" \/ Config = <<>>
    BY <1>1 DEF Identified, Shared
  <2> QED
    BY <2>1 DEF Entitled
<1>2. CASE Identified(r)
  <2>1. /\ Resolve(Config, r.token) # Nobody
        /\ AllowsServer(Resolve(Config, r.token), n)
    BY <1>2 DEF Known, Reaches
  <2>2. PICK i \in 1..Len(Config) :
          /\ Resolve(Config, r.token) = Config[i]
          /\ \E k \in 1..Len(Config[i].tokens) : Config[i].tokens[k] = r.token
    BY <2>1, ResolvesToHolder
  <2>3. Config[i] \in Principals
    BY <2>2 DEF Principals
  <2>4. Config[i].servers = AllServers \/ n \in Config[i].servers
    BY <2>1, <2>2 DEF AllowsServer
  <2> QED
    BY <2>2, <2>3, <2>4 DEF Entitled
<1> QED
  BY <1>1, <1>2

LEMMA PairType ==
  ASSUME NEW row \in {NoRow} \cup Rows
  PROVE  PairOf(row) \in Filters \X Filters
BY DEF PairOf, Rows, Filters

-----------------------------------------------------------------------------
(* What is observed.                                                         *)

\* The parts of the type invariant.
CallTypeOK ==
  /\ at \in [Tasks -> Locations]
  /\ call \in [Callers -> Calls \cup {NoCall}]
  /\ target \in [Callers -> (Names \X Tools) \cup {NoTarget}]
  /\ held \in [Callers -> Urls \cup {NoUrl}]
  /\ verdict \in [Callers -> Verdicts \cup {"none"}]
  /\ sent \in [Callers -> Sent \cup {NotSent}]
  /\ answer \in [Callers -> Answers \cup {"none"}]
  /\ asked \in [Admins -> Orders \cup {NoOrder}]
  /\ filterCache \in [Names -> {Miss} \cup (Filters \X Filters)]
  /\ toolCache \in [Names -> SUBSET Tools]
ObservedTypeOK ==
  /\ hosts \in [Callers -> SUBSET (Names \X (Urls \cup {NoUrl}))]
  /\ open \in [Callers -> SUBSET (Names \X Tools)]
  /\ callable \in [Callers -> SUBSET (Names \X Tools)]

LEMMA TypeOKParts == TypeOK <=> DbTypeOK /\ CallTypeOK /\ ObservedTypeOK
BY DEF TypeOK, CallTypeOK, ObservedTypeOK

LEMMA UrlOfType ==
  ASSUME DbTypeOK, NEW n \in Names
  PROVE  UrlOf(n) \in Urls \cup {NoUrl}
BY DEF DbTypeOK, Tables, Rows, UrlOf

LEMMA ObserveType ==
  ASSUME ObservedTypeOK, DbTypeOK', Observe
  PROVE  ObservedTypeOK'
<1>1. \A n \in Names : UrlOf(n)' \in Urls \cup {NoUrl}
  BY DEF DbTypeOK, Tables, Rows, UrlOf
<1>2. hosts' \in [Callers -> SUBSET (Names \X (Urls \cup {NoUrl}))]
  BY <1>1 DEF ObservedTypeOK, Observe
<1>3. open' \in [Callers -> SUBSET (Names \X Tools)]
  BY DEF ObservedTypeOK, Observe
<1>4. callable' \in [Callers -> SUBSET (Names \X Tools)]
  BY DEF ObservedTypeOK, Observe
<1> QED
  BY <1>2, <1>3, <1>4 DEF ObservedTypeOK

LEMMA ObservedGrows ==
  ASSUME ObservedTypeOK, Observe, NEW c \in Callers
  PROVE  /\ hosts[c] \subseteq hosts'[c] /\ open[c] \subseteq open'[c]
         /\ callable[c] \subseteq callable'[c]
BY DEF ObservedTypeOK, Observe

LEMMA NotedNow ==
  ASSUME Observe, NEW c \in Callers
  PROVE  Noted(c)'
<1> SUFFICES ASSUME Serving(c)', NEW n \in Names
             PROVE  /\ <<n, UrlOf(n)'>> \in hosts'[c]
                    /\ \A tool \in Tools :
                         LetThrough(n, tool)' =>
                           /\ <<n, tool>> \in open'[c]
                           /\ rows'[n] # NoRow => <<n, tool>> \in callable'[c]
  BY DEF Noted
<1>1. <<n, UrlOf(n)'>> \in hosts'[c]
  BY DEF Observe
<1>2. ASSUME NEW tool \in Tools, LetThrough(n, tool)'
      PROVE  /\ <<n, tool>> \in open'[c]
             /\ rows'[n] # NoRow => <<n, tool>> \in callable'[c]
  BY <1>2 DEF Observe
<1> QED
  BY <1>1, <1>2

-----------------------------------------------------------------------------
(* Tasks that do not move.                                                   *)

\* Nothing of caller c changes but what is observed, which grows.
CallerSteady(c) ==
  /\ at'[c] = at[c] /\ call'[c] = call[c] /\ target'[c] = target[c]
  /\ held'[c] = held[c] /\ verdict'[c] = verdict[c] /\ sent'[c] = sent[c]
  /\ answer'[c] = answer[c]

LEMMA SteadyCaller ==
  ASSUME ObservedTypeOK, Observe, NEW c \in Callers, CallerInv(c), CallerSteady(c),
         phase'[c] = phase[c], stmt'[c] = stmt[c], reply'[c] = reply[c]
  PROVE  CallerInv(c)'
<1>1. Noted(c)'
  BY NotedNow
<1>2. /\ hosts[c] \subseteq hosts'[c] /\ open[c] \subseteq open'[c]
      /\ callable[c] \subseteq callable'[c]
  BY ObservedGrows
<1>3. CallerControl(c)'
  BY DEF CallerInv, CallerSteady, CallerControl, Server
<1>4. Routed(c)'
  BY DEF CallerInv, CallerSteady, Routed
<1>5. Seen(c)'
  BY <1>2 DEF CallerInv, CallerSteady, Seen, Server, RowOf
<1>6. Passed(c)'
  BY <1>2 DEF CallerInv, CallerSteady, Passed, Server
<1>7. Sending(c)'
  BY <1>2 DEF CallerInv, CallerSteady, Sending
<1> QED
  BY <1>1, <1>3, <1>4, <1>5, <1>6, <1>7 DEF CallerInv

LEMMA SteadyAdmin ==
  ASSUME NEW a \in Admins, AdminInv(a),
         at'[a] = at[a], asked'[a] = asked[a], phase'[a] = phase[a]
  PROVE  AdminInv(a)'
BY DEF AdminInv

\* What task t does not touch of the others.
TasksKept(t) ==
  /\ OthersKept(t)
  /\ \A u \in Tasks \ {t} : at'[u] = at[u]
  /\ \A c \in Callers \ {t} : CallerSteady(c)
  /\ \A a \in Admins \ {t} : asked'[a] = asked[a]

LEMMA OthersKeepInv ==
  ASSUME IInv, Observe, NEW t \in Tasks, TasksKept(t)
  PROVE  /\ \A c \in Callers \ {t} : CallerInv(c)'
         /\ \A a \in Admins \ {t} : AdminInv(a)'
<1>1. ObservedTypeOK
  BY TypeOKParts DEF IInv
<1>2. ASSUME NEW c \in Callers \ {t} PROVE CallerInv(c)'
  <2>1. /\ c \in Tasks \ {t} /\ CallerInv(c) /\ CallerSteady(c)
        /\ phase'[c] = phase[c] /\ stmt'[c] = stmt[c] /\ reply'[c] = reply[c]
    BY <1>2, CallTasks DEF IInv, TasksKept, OthersKept
  <2> QED
    BY <1>1, <2>1, SteadyCaller
<1>3. ASSUME NEW a \in Admins \ {t} PROVE AdminInv(a)'
  <2>1. /\ a \in Tasks \ {t} /\ AdminInv(a) /\ at'[a] = at[a]
        /\ asked'[a] = asked[a] /\ phase'[a] = phase[a]
    BY <1>3, CallTasks DEF IInv, TasksKept, OthersKept
  <2> QED
    BY <2>1, SteadyAdmin
<1> QED
  BY <1>2, <1>3

\* A step of the relay keeps the invariant if it types the variables and keeps
\* the part of the invariant that is about the task that moves.
LEMMA CallerMoves ==
  ASSUME IInv, Observe, NEW c \in Callers, TasksKept(c), DbTypeOK', CallTypeOK',
         CallerInv(c)'
  PROVE  IInv'
<1>o. ObservedTypeOK'
  BY TypeOKParts, ObserveType DEF IInv
<1>1. TypeOK'
  BY <1>o DEF TypeOK, CallTypeOK, ObservedTypeOK
<1>2. c \in Tasks /\ c \notin Admins
  BY CallTasks
<1>3. /\ \A d \in Callers \ {c} : CallerInv(d)'
      /\ \A a \in Admins \ {c} : AdminInv(a)'
  BY <1>2, OthersKeepInv
<1> QED
  BY <1>1, <1>2, <1>3 DEF IInv

LEMMA AdminMoves ==
  ASSUME IInv, Observe, NEW a \in Admins, TasksKept(a), DbTypeOK', CallTypeOK',
         AdminInv(a)'
  PROVE  IInv'
<1>o. ObservedTypeOK'
  BY TypeOKParts, ObserveType DEF IInv
<1>1. TypeOK'
  BY <1>o DEF TypeOK, CallTypeOK, ObservedTypeOK
<1>2. a \in Tasks /\ a \notin Callers
  BY CallTasks
<1>3. /\ \A d \in Callers \ {a} : CallerInv(d)'
      /\ \A b \in Admins \ {a} : AdminInv(b)'
  BY <1>2, OthersKeepInv
<1> QED
  BY <1>1, <1>2, <1>3 DEF IInv

-----------------------------------------------------------------------------
(* What the steps of a call leave alone.                                     *)

LEMMA CallerIsTask ==
  ASSUME NEW c \in Callers
  PROVE  c \in Tasks /\ c \notin Admins
BY CallTasks

LEMMA ReceiveKeeps ==
  ASSUME IInv, NEW c \in Callers, NEW r \in Calls, Receive(c, r)
  PROVE  TasksKept(c)
<1>1. DbTypeOK /\ c \in Tasks
  BY TypeOKParts, CallerIsTask DEF IInv
<1>2. OthersKept(c)
  BY <1>1, SubmitEffect, UnchangedDbEffect DEF Receive, Route
<1>3. \A u \in Tasks \ {c} : at'[u] = at[u]
  BY TypeOKParts DEF IInv, CallTypeOK, Receive, Route, Tell, Go
<1>4. \A d \in Callers \ {c} :
        /\ call'[d] = call[d] /\ target'[d] = target[d] /\ answer'[d] = answer[d]
  BY TypeOKParts DEF IInv, CallTypeOK, Receive, Route, Tell
<1>5. UNCHANGED <<held, verdict, sent, asked>>
  BY DEF Receive, adminVars
<1> QED
  BY <1>2, <1>3, <1>4, <1>5, CallTasks DEF TasksKept, CallerSteady

LEMMA HandleKeeps ==
  ASSUME IInv, NEW c \in Callers, Handle(c)
  PROVE  TasksKept(c)
<1>1. DbTypeOK /\ c \in Tasks
  BY TypeOKParts, CallerIsTask DEF IInv
<1>2. OthersKept(c)
  BY <1>1, SubmitEffect, ChainEffect, ReturnEffect, RaiseEffect, UnchangedDbEffect
     DEF Handle, Locate, Route, CheckServer, CheckFilters, LookupFails
<1>3. \A u \in Tasks \ {c} : at'[u] = at[u]
  BY TypeOKParts DEF IInv, CallTypeOK, Handle, Locate, Route, CheckServer, CheckFilters,
                     LookupFails, PastGates, Tell, Go
<1>4. \A d \in Callers \ {c} :
        /\ held'[d] = held[d] /\ target'[d] = target[d] /\ answer'[d] = answer[d]
  BY TypeOKParts DEF IInv, CallTypeOK, Handle, Locate, Route, CheckServer, CheckFilters,
                     LookupFails, PastGates, Tell
<1>5. UNCHANGED <<call, verdict, sent, asked>>
  BY DEF Handle, Locate, CheckServer, CheckFilters, LookupFails, adminVars
<1> QED
  BY <1>2, <1>3, <1>4, <1>5, CallTasks DEF TasksKept, CallerSteady

LEMMA UpstreamKeeps ==
  ASSUME IInv, NEW c \in Callers, Judge(c) \/ Upstream(c)
  PROVE  TasksKept(c) /\ UNCHANGED dbVars
<1>1. UNCHANGED dbVars
  BY DEF Judge, PolicyAnswers, Upstream, Send, UpstreamFails, UpstreamAnswers
<1>2. OthersKept(c)
  BY <1>1, UnchangedDbEffect
<1>3. \A u \in Tasks \ {c} : at'[u] = at[u]
  BY TypeOKParts DEF IInv, CallTypeOK, Judge, PolicyAnswers, Upstream, Send, UpstreamFails,
                     UpstreamAnswers, Tell, Go
<1>4. \A d \in Callers \ {c} :
        /\ verdict'[d] = verdict[d] /\ sent'[d] = sent[d] /\ answer'[d] = answer[d]
  BY TypeOKParts DEF IInv, CallTypeOK, Judge, PolicyAnswers, Upstream, Send, UpstreamFails,
                     UpstreamAnswers, Tell
<1>5. UNCHANGED <<call, target, held, asked>>
  BY DEF Judge, PolicyAnswers, Upstream, Send, UpstreamFails, UpstreamAnswers, adminVars
<1> QED
  BY <1>1, <1>2, <1>3, <1>4, <1>5, CallTasks DEF TasksKept, CallerSteady

LEMMA AdminIsTask ==
  ASSUME NEW a \in Admins
  PROVE  a \in Tasks /\ a \notin Callers
BY CallTasks

LEMMA AdminKeeps ==
  ASSUME IInv, NEW a \in Admins,
         (\E o \in Orders : AdminReceive(a, o)) \/ Administer(a) \/ AdminForget(a)
  PROVE  TasksKept(a)
<1>1. DbTypeOK /\ a \in Tasks
  BY TypeOKParts, AdminIsTask DEF IInv
<1>2. OthersKept(a)
  BY <1>1, SubmitEffect, ChainEffect, ReturnEffect, RaiseEffect, UnchangedDbEffect
     DEF AdminReceive, Administer, AdminCheck, AdminWrite, AdminReread, AdminFails,
         AdminForget
<1>3. \A u \in Tasks \ {a} : at'[u] = at[u]
  BY TypeOKParts DEF IInv, CallTypeOK, AdminReceive, Administer, AdminCheck, AdminWrite,
                     AdminReread, AdminFails, AdminForget, Go
<1>4. \A b \in Admins \ {a} : asked'[b] = asked[b]
  BY TypeOKParts DEF IInv, CallTypeOK, AdminReceive, Administer, AdminCheck, AdminWrite,
                     AdminReread, AdminFails, AdminForget, adminVars
<1>5. UNCHANGED callVars
  BY DEF AdminReceive, Administer, AdminCheck, AdminWrite, AdminReread, AdminFails,
         AdminForget
<1> QED
  BY <1>2, <1>3, <1>4, <1>5, CallTasks DEF TasksKept, CallerSteady, callVars

-----------------------------------------------------------------------------
(* The steps of a call.                                                      *)

LEMMA ReceiveInv ==
  ASSUME IInv, Observe, NEW c \in Callers, NEW r \in Calls, Receive(c, r)
  PROVE  DbTypeOK' /\ CallTypeOK' /\ CallerInv(c)'
<1>0. /\ DbTypeOK /\ CallTypeOK /\ CallerInv(c) /\ at[c] = "idle" /\ c \in Tasks
      /\ phase[c] = "idle" /\ answer[c] = "none" /\ verdict[c] = "none"
      /\ sent[c] = NotSent
  BY TypeOKParts, CallerIsTask
     DEF IInv, Receive, CallerInv, CallerControl, Sending
<1>r. /\ r # NoCall /\ call'[c] = r /\ call' \in [Callers -> Calls \cup {NoCall}]
      /\ UNCHANGED <<held, verdict, sent, asked, toolCache, filterCache>>
  BY <1>0, CallParts DEF CallTypeOK, Receive, adminVars
<1>n. Noted(c)'
  BY NotedNow
<1>1. CASE Flawed(r)
  <2>1. Tell(c, FirstFlaw(r)) /\ UNCHANGED <<dbVars, target>>
    BY <1>1 DEF Receive
  <2>2. at'[c] = "done" /\ answer'[c] = FirstFlaw(r) /\ FirstFlaw(r) \in Answers
        /\ phase' = phase
    BY <1>0, <2>1 DEF CallTypeOK, Tell, Go, FirstFlaw, Answers, dbVars
  <2>3. DbTypeOK'
    BY <1>0, <2>1, UnchangedDbType
  <2>4. CallTypeOK'
    BY <1>0, <1>r, <2>1, <2>2 DEF CallTypeOK, Tell, Go, Locations
  <2>5. CallerInv(c)'
    BY <1>0, <1>r, <1>n, <2>2
       DEF CallerInv, CallerControl, CallerLocations, Routed, Seen, Passed, Sending, Answers
  <2> QED
    BY <2>3, <2>4, <2>5
<1>2. CASE ~Flawed(r) /\ Qualified(r.id)
  <2> DEFINE n == Split(r.id)[1]
             tool == Split(r.id)[2]
  <2>1. Route(c, n, tool) /\ UNCHANGED answer
    BY <1>2 DEF Receive
  <2>2. n \in Names /\ tool \in Tools /\ <<n, tool>> \in Meant[r]
    BY <1>2, CallParts
  <2>3. /\ at'[c] = "server" /\ target'[c] = <<n, tool>> /\ Server(c)' = n
        /\ phase'[c] = "queued" /\ stmt'[c] = Select(n)
    BY <1>0, <2>1, SubmitEffect DEF CallTypeOK, Route, Go, Server
  <2>4. DbTypeOK'
    BY <1>0, <2>1, <2>2, SubmitType, SelectIsStatement DEF Route
  <2>5. CallTypeOK'
    BY <1>0, <1>r, <2>1, <2>2 DEF CallTypeOK, Route, Go, Locations
  <2>6. Known(r)
    BY <1>2 DEF Flawed
  <2>7. CallerInv(c)'
    BY <1>0, <1>r, <1>n, <2>1, <2>2, <2>3, <2>6
       DEF CallerInv, CallerControl, CallerLocations, Routed, Seen, Passed, Sending
  <2> QED
    BY <2>4, <2>5, <2>7
<1>3. CASE ~Flawed(r) /\ ~Qualified(r.id)
  <2>1. Go(c, "locate") /\ UNCHANGED <<dbVars, target, answer>>
    BY <1>3 DEF Receive
  <2>2. at'[c] = "locate" /\ phase' = phase
    BY <1>0, <2>1 DEF CallTypeOK, Go, dbVars
  <2>3. DbTypeOK'
    BY <1>0, <2>1, UnchangedDbType
  <2>4. CallTypeOK'
    BY <1>0, <1>r, <2>1 DEF CallTypeOK, Go, Locations
  <2>5. Known(r)
    BY <1>3 DEF Flawed
  <2>6. CallerInv(c)'
    BY <1>0, <1>3, <1>r, <1>n, <2>1, <2>2, <2>5
       DEF CallerInv, CallerControl, CallerLocations, Routed, Seen, Passed, Sending
  <2> QED
    BY <2>3, <2>4, <2>6
<1> QED
  BY <1>1, <1>2, <1>3

LEMMA LocateInv ==
  ASSUME IInv, Observe, NEW c \in Callers, Locate(c)
  PROVE  DbTypeOK' /\ CallTypeOK' /\ CallerInv(c)'
<1>0. /\ DbTypeOK /\ CallTypeOK /\ CallerInv(c) /\ at[c] = "locate" /\ c \in Tasks
      /\ phase[c] = "idle" /\ answer[c] = "none" /\ verdict[c] = "none"
      /\ sent[c] = NotSent /\ call[c] \in Calls
      /\ ~Qualified(call[c].id) /\ Known(call[c])
  BY TypeOKParts, CallerIsTask
     DEF IInv, CallTypeOK, Locate, CallerInv, CallerControl, Routed, Sending
<1>r. UNCHANGED <<call, held, verdict, sent, asked, toolCache, filterCache>>
  BY DEF Locate, adminVars
<1>n. Noted(c)'
  BY NotedNow
<1>1. CASE Tell(c, "no_tool") /\ UNCHANGED <<dbVars, target>>
  <2>1. at'[c] = "done" /\ answer'[c] = "no_tool" /\ phase' = phase
    BY <1>0, <1>1 DEF CallTypeOK, Tell, Go, dbVars
  <2>2. DbTypeOK'
    BY <1>0, <1>1, UnchangedDbType
  <2>3. CallTypeOK'
    BY <1>0, <1>r, <1>1 DEF CallTypeOK, Tell, Go, Locations, Answers
  <2>4. CallerInv(c)'
    BY <1>0, <1>r, <1>n, <2>1
       DEF CallerInv, CallerControl, CallerLocations, Routed, Seen, Passed, Sending
  <2> QED
    BY <2>2, <2>3, <2>4
<1>2. ASSUME NEW n \in Names, Route(c, n, call[c].id), UNCHANGED answer
      PROVE  DbTypeOK' /\ CallTypeOK' /\ CallerInv(c)'
  <2>1. call[c].id \in Tools /\ <<n, call[c].id>> \in Meant[call[c]]
    BY <1>0, CallParts
  <2>2. /\ at'[c] = "server" /\ target'[c] = <<n, call[c].id>> /\ Server(c)' = n
        /\ phase'[c] = "queued" /\ stmt'[c] = Select(n)
    BY <1>0, <1>2, SubmitEffect DEF CallTypeOK, Route, Go, Server
  <2>3. DbTypeOK'
    BY <1>0, <1>2, SubmitType, SelectIsStatement DEF Route
  <2>4. CallTypeOK'
    BY <1>0, <1>r, <1>2, <2>1 DEF CallTypeOK, Route, Go, Locations
  <2>5. CallerInv(c)'
    BY <1>0, <1>r, <1>n, <1>2, <2>1, <2>2
       DEF CallerInv, CallerControl, CallerLocations, Routed, Seen, Passed, Sending
  <2> QED
    BY <2>3, <2>4, <2>5
<1> QED
  BY <1>1, <1>2 DEF Locate, Owners

\* A call that has been routed is for a tool of a server.
LEMMA TargetParts ==
  ASSUME CallTypeOK, NEW c \in Callers, CallerInv(c),
         at[c] \in {"server", "filters", "policy", "send"}
  PROVE  /\ call[c] \in Calls /\ target[c] \in Meant[call[c]]
         /\ Server(c) \in Names /\ Tool(c) \in Tools /\ target[c] = <<Server(c), Tool(c)>>
         /\ Serving(c)
<1>1. call[c] \in Calls /\ target[c] \in Meant[call[c]] /\ Serving(c)
  BY DEF CallTypeOK, CallerInv, CallerControl, Routed, Serving
<1>2. target[c] \in Names \X Tools
  BY <1>1 DEF Meant
<1> QED
  BY <1>1, <1>2 DEF Server, Tool

LEMMA GatesEffect ==
  ASSUME CallTypeOK, NEW c \in Callers, NEW lists, PastGates(c, lists)
  PROVE  /\ at' \in [Tasks -> Locations] /\ answer' \in [Callers -> Answers \cup {"none"}]
         /\ \/ at'[c] = "done" /\ answer'[c] \in {"filtered", "surface"}
            \/ /\ at'[c] = IF Judged(call[c]) THEN "policy" ELSE "send"
               /\ answer' = answer
               /\ Allowed(Tool(c), lists) /\ Reaches(call[c], Server(c))
<1>1. c \in Tasks
  BY CallerIsTask
<1>2. CASE ~Allowed(Tool(c), lists)
  BY <1>1, <1>2 DEF CallTypeOK, PastGates, Tell, Go, Locations, Answers
<1>3. CASE Allowed(Tool(c), lists) /\ ~Reaches(call[c], Server(c))
  BY <1>1, <1>3 DEF CallTypeOK, PastGates, Tell, Go, Locations, Answers
<1>4. CASE Allowed(Tool(c), lists) /\ Reaches(call[c], Server(c))
  BY <1>1, <1>4 DEF CallTypeOK, PastGates, Go, Locations
<1> QED
  BY <1>2, <1>3, <1>4

\* A call goes through its gates on lists that were seen during the call.
LEMMA GatedInv ==
  ASSUME IInv, Observe, NEW c \in Callers, at[c] \in {"server", "filters"},
         NEW lists, PastGates(c, lists),
         UNCHANGED <<call, target, verdict, sent>>, phase'[c] = "idle",
         held'[c] \in Urls, <<Server(c), held'[c]>> \in hosts'[c],
         Allowed(Tool(c), lists) =>
           /\ <<Server(c), Tool(c)>> \in open'[c]
           /\ \/ <<Server(c), Tool(c)>> \in callable'[c]
              \/ <<Server(c), NoUrl>> \in hosts'[c]
  PROVE  CallerInv(c)'
<1>0. /\ CallTypeOK /\ CallerInv(c) /\ answer[c] = "none" /\ verdict[c] = "none"
      /\ sent[c] = NotSent /\ Known(call[c]) /\ call[c] # NoCall
  BY TypeOKParts DEF IInv, CallerInv, CallerControl, Routed, Sending
<1>t. /\ call[c] \in Calls /\ target[c] \in Meant[call[c]] /\ Server(c) \in Names
      /\ target[c] = <<Server(c), Tool(c)>>
  BY <1>0, TargetParts
<1>s. Server(c)' = Server(c)
  BY DEF Server
<1>n. Noted(c)'
  BY NotedNow
<1>1. CASE at'[c] = "done" /\ answer'[c] \in {"filtered", "surface"}
  BY <1>0, <1>n, <1>1
     DEF CallerInv, CallerControl, CallerLocations, Routed, Seen, Passed, Sending
<1>2. CASE /\ at'[c] = IF Judged(call[c]) THEN "policy" ELSE "send"
           /\ answer' = answer
           /\ Allowed(Tool(c), lists) /\ Reaches(call[c], Server(c))
  <2>1. Server(c) \in Entitled[call[c]]
    BY <1>0, <1>t, <1>2, ReachedIsEntitled
  <2>2. Passed(c)'
    BY <1>t, <1>s, <1>2, <2>1 DEF Passed
  <2> QED
    BY <1>0, <1>n, <1>t, <1>2, <2>2
       DEF CallerInv, CallerControl, CallerLocations, Routed, Seen, Sending
<1> QED
  BY <1>0, <1>1, <1>2, GatesEffect

LEMMA CheckServerInv ==
  ASSUME IInv, Observe, NEW c \in Callers, CheckServer(c)
  PROVE  DbTypeOK' /\ CallTypeOK' /\ CallerInv(c)'
<1>0. /\ DbTypeOK /\ CallTypeOK /\ ObservedTypeOK /\ CallerInv(c) /\ at[c] = "server"
      /\ c \in Tasks /\ answer[c] = "none" /\ verdict[c] = "none" /\ sent[c] = NotSent
      /\ Known(call[c]) /\ Noted(c) /\ Seen(c)
  BY TypeOKParts, CallerIsTask
     DEF IInv, CheckServer, CallerInv, CallerControl, Routed, Sending
<1>t. /\ call[c] \in Calls /\ target[c] \in Meant[call[c]] /\ Serving(c)
      /\ Server(c) \in Names /\ Tool(c) \in Tools /\ target[c] = <<Server(c), Tool(c)>>
  BY <1>0, TargetParts
<1>r. /\ UNCHANGED <<call, target, verdict, sent, asked, toolCache, filterCache>>
      /\ Server(c)' = Server(c)
  BY DEF CheckServer, adminVars, Server
<1>n. Noted(c)'
  BY NotedNow
<1>g. hosts[c] \subseteq hosts'[c] /\ open[c] \subseteq open'[c] /\ callable[c] \subseteq callable'[c]
  BY <1>0, ObservedGrows
<1>1. CASE /\ Return(c) /\ Tell(c, "no_server") /\ UNCHANGED held
  <2>1. at'[c] = "done" /\ answer'[c] = "no_server" /\ phase'[c] = "idle"
    BY <1>0, <1>1, ReturnEffect DEF CallTypeOK, Tell, Go
  <2>2. DbTypeOK'
    BY <1>0, <1>1, ReturnType
  <2>3. CallTypeOK'
    BY <1>0, <1>r, <1>1 DEF CallTypeOK, Tell, Go, Locations, Answers
  <2>4. CallerInv(c)'
    BY <1>0, <1>t, <1>r, <1>n, <2>1
       DEF CallerInv, CallerControl, CallerLocations, Routed, Seen, Passed, Sending, Serving
  <2> QED
    BY <2>2, <2>3, <2>4
<1>2. CASE /\ RowOf(c) # NoRow /\ HasResult(c)
           /\ held' = [held EXCEPT ![c] = RowOf(c).url]
  <2>1. RowOf(c) \in Rows /\ RowOf(c).url \in Urls
    BY <1>0, <1>t, <1>2 DEF DbTypeOK, Tables, RowOf, Rows
  <2>2. /\ held' \in [Callers -> Urls \cup {NoUrl}] /\ held'[c] \in Urls
        /\ <<Server(c), held'[c]>> \in hosts'[c]
    BY <1>0, <1>2, <1>g, <2>1 DEF CallTypeOK, Seen, HasResult
  <2>3. CASE /\ filterCache[Server(c)] # Miss /\ Return(c)
             /\ PastGates(c, filterCache[Server(c)])
    <3>1. Allowed(Tool(c), filterCache[Server(c)]) =>
            /\ <<Server(c), Tool(c)>> \in open'[c]
            /\ \/ <<Server(c), Tool(c)>> \in callable'[c]
               \/ <<Server(c), NoUrl>> \in hosts'[c]
      BY <1>0, <1>t, <1>g, <2>3 DEF Noted, LetThrough, UrlOf
    <3>2. phase'[c] = "idle"
      BY <1>0, <2>3, ReturnEffect
    <3>3. CallerInv(c)'
      BY <1>0, <1>r, <2>2, <2>3, <3>1, <3>2, GatedInv
    <3>4. DbTypeOK'
      BY <1>0, <2>3, ReturnType
    <3>5. CallTypeOK'
      BY <1>0, <1>r, <2>2, <2>3, GatesEffect DEF CallTypeOK
    <3> QED
      BY <3>3, <3>4, <3>5
  <2>4. CASE Chain(c, Select(Server(c))) /\ Go(c, "filters") /\ UNCHANGED answer
    <3>1. at'[c] = "filters" /\ phase'[c] = "queued" /\ stmt'[c] = Select(Server(c))
      BY <1>0, <2>4, ChainEffect DEF CallTypeOK, Go
    <3>2. DbTypeOK'
      BY <1>0, <1>t, <2>4, ChainType, SelectIsStatement
    <3>3. CallTypeOK'
      BY <1>0, <1>r, <2>2, <2>4 DEF CallTypeOK, Go, Locations
    <3>4. CallerInv(c)'
      BY <1>0, <1>t, <1>r, <1>n, <2>2, <2>4, <3>1
         DEF CallerInv, CallerControl, CallerLocations, Routed, Seen, Passed, Sending, Serving
    <3> QED
      BY <3>2, <3>3, <3>4
  <2> QED
    BY <1>2, <2>3, <2>4 DEF CheckServer
<1> QED
  BY <1>1, <1>2 DEF CheckServer, Return, Chain

LEMMA CheckFiltersInv ==
  ASSUME IInv, Observe, NEW c \in Callers, CheckFilters(c)
  PROVE  DbTypeOK' /\ CallTypeOK' /\ CallerInv(c)'
<1>0. /\ DbTypeOK /\ CallTypeOK /\ ObservedTypeOK /\ CallerInv(c) /\ at[c] = "filters"
      /\ c \in Tasks /\ Seen(c) /\ Passed(c)
  BY TypeOKParts, CallerIsTask DEF IInv, CheckFilters, CallerInv
<1>t. Server(c) \in Names /\ Tool(c) \in Tools
  BY <1>0, TargetParts
<1>r. UNCHANGED <<call, target, held, verdict, sent, asked, toolCache>>
  BY DEF CheckFilters, adminVars
<1>g. hosts[c] \subseteq hosts'[c] /\ open[c] \subseteq open'[c] /\ callable[c] \subseteq callable'[c]
  BY <1>0, ObservedGrows
<1>h. Return(c) /\ HasResult(c) /\ PastGates(c, PairOf(RowOf(c)))
      /\ filterCache' = Fill(Server(c), RowOf(c))
  BY DEF CheckFilters, Return
<1>1. Allowed(Tool(c), PairOf(RowOf(c))) =>
        /\ <<Server(c), Tool(c)>> \in open'[c]
        /\ \/ <<Server(c), Tool(c)>> \in callable'[c]
           \/ <<Server(c), NoUrl>> \in hosts'[c]
  BY <1>0, <1>t, <1>g, <1>h DEF Seen, HasResult
<1>2. held'[c] \in Urls /\ <<Server(c), held'[c]>> \in hosts'[c]
  BY <1>0, <1>r, <1>g DEF Passed
<1>3. phase'[c] = "idle"
  BY <1>0, <1>h, ReturnEffect
<1>4. CallerInv(c)'
  BY <1>0, <1>r, <1>h, <1>1, <1>2, <1>3, GatedInv
<1>5. DbTypeOK'
  BY <1>0, <1>h, ReturnType
<1>6. filterCache' \in [Names -> {Miss} \cup (Filters \X Filters)]
  <2>1. RowOf(c) \in {NoRow} \cup Rows
    BY <1>0, <1>t DEF DbTypeOK, Tables, RowOf
  <2>2. PairOf(RowOf(c)) \in Filters \X Filters
    BY <2>1, PairType
  <2> QED
    BY <1>0, <1>h, <2>2 DEF CallTypeOK, Fill
<1>7. CallTypeOK'
  BY <1>0, <1>r, <1>h, <1>6, GatesEffect DEF CallTypeOK
<1> QED
  BY <1>4, <1>5, <1>7

LEMMA LookupFailsInv ==
  ASSUME IInv, Observe, NEW c \in Callers, LookupFails(c)
  PROVE  DbTypeOK' /\ CallTypeOK' /\ CallerInv(c)'
<1>0. /\ DbTypeOK /\ CallTypeOK /\ CallerInv(c) /\ c \in Tasks
      /\ at[c] \in {"server", "filters"}
      /\ answer[c] = "none" /\ verdict[c] = "none" /\ sent[c] = NotSent
      /\ call[c] # NoCall
  BY TypeOKParts, CallerIsTask
     DEF IInv, LookupFails, Raise, HasError, CallerInv, CallerControl, Sending
<1>r. UNCHANGED <<call, target, held, verdict, sent, asked, toolCache, filterCache>>
  BY DEF LookupFails, adminVars
<1>n. Noted(c)'
  BY NotedNow
<1>1. at'[c] = "done" /\ answer'[c] = "failed" /\ phase'[c] = "idle"
  BY <1>0, RaiseEffect DEF LookupFails, CallTypeOK, Tell, Go
<1>2. DbTypeOK'
  BY <1>0, RaiseType DEF LookupFails
<1>3. CallTypeOK'
  BY <1>0, <1>r DEF LookupFails, CallTypeOK, Tell, Go, Locations, Answers
<1>4. CallerInv(c)'
  BY <1>0, <1>r, <1>n, <1>1
     DEF CallerInv, CallerControl, CallerLocations, Routed, Seen, Passed, Sending
<1> QED
  BY <1>2, <1>3, <1>4

LEMMA JudgeInv ==
  ASSUME IInv, Observe, NEW c \in Callers, NEW v \in Verdicts, PolicyAnswers(c, v)
  PROVE  DbTypeOK' /\ CallTypeOK' /\ CallerInv(c)'
<1>0. /\ DbTypeOK /\ CallTypeOK /\ ObservedTypeOK /\ CallerInv(c) /\ c \in Tasks
      /\ at[c] = "policy" /\ answer[c] = "none" /\ sent[c] = NotSent /\ phase[c] = "idle"
      /\ call[c] # NoCall /\ Passed(c) /\ Routed(c)
  BY TypeOKParts, CallerIsTask
     DEF IInv, PolicyAnswers, CallerInv, CallerControl, Sending
<1>r. UNCHANGED <<call, target, held, sent, asked, toolCache, filterCache, dbVars>>
  BY DEF PolicyAnswers, adminVars
<1>n. Noted(c)'
  BY NotedNow
<1>g. hosts[c] \subseteq hosts'[c] /\ open[c] \subseteq open'[c] /\ callable[c] \subseteq callable'[c]
  BY <1>0, ObservedGrows
<1>1. DbTypeOK'
  BY <1>0, <1>r, UnchangedDbType
<1>2. phase' = phase /\ verdict'[c] = v /\ verdict' \in [Callers -> Verdicts \cup {"none"}]
  BY <1>0, <1>r DEF PolicyAnswers, CallTypeOK, dbVars
<1>3. CASE Favourable(v)
  <2>1. Go(c, "send") /\ UNCHANGED answer
    BY <1>3 DEF PolicyAnswers
  <2>2. at'[c] = "send"
    BY <1>0, <2>1 DEF CallTypeOK, Go
  <2>3. CallTypeOK'
    BY <1>0, <1>r, <1>2, <2>1 DEF CallTypeOK, Go, Locations
  <2>4. Passed(c)'
    BY <1>0, <1>r, <1>g, <2>2 DEF Passed, Server
  <2>5. CallerInv(c)'
    BY <1>0, <1>r, <1>n, <1>2, <1>3, <2>1, <2>2, <2>4
       DEF CallerInv, CallerControl, CallerLocations, Routed, Seen, Sending
  <2> QED
    BY <1>1, <2>3, <2>5
<1>4. CASE ~Favourable(v)
  <2>1. Tell(c, "policy")
    BY <1>4 DEF PolicyAnswers
  <2>2. at'[c] = "done" /\ answer'[c] = "policy"
    BY <1>0, <2>1 DEF CallTypeOK, Tell, Go
  <2>3. CallTypeOK'
    BY <1>0, <1>r, <1>2, <2>1 DEF CallTypeOK, Tell, Go, Locations, Answers
  <2>4. CallerInv(c)'
    BY <1>0, <1>r, <1>n, <1>2, <2>2
       DEF CallerInv, CallerControl, CallerLocations, Routed, Seen, Passed, Sending
  <2> QED
    BY <1>1, <2>3, <2>4
<1> QED
  BY <1>3, <1>4

LEMMA SendInv ==
  ASSUME IInv, Observe, NEW c \in Callers, Send(c)
  PROVE  DbTypeOK' /\ CallTypeOK' /\ CallerInv(c)'
<1>0. /\ DbTypeOK /\ CallTypeOK /\ ObservedTypeOK /\ CallerInv(c) /\ c \in Tasks
      /\ at[c] = "send" /\ answer[c] = "none" /\ phase[c] = "idle" /\ call[c] # NoCall
      /\ Passed(c)
  BY TypeOKParts, CallerIsTask DEF IInv, Send, CallerInv, CallerControl
<1>t. Server(c) \in Names /\ Tool(c) \in Tools /\ target[c] = <<Server(c), Tool(c)>>
  BY <1>0, TargetParts
<1>r. UNCHANGED <<call, target, held, verdict, answer, asked, toolCache, filterCache, dbVars>>
  BY DEF Send, adminVars
<1>n. Noted(c)'
  BY NotedNow
<1>g. hosts[c] \subseteq hosts'[c] /\ open[c] \subseteq open'[c] /\ callable[c] \subseteq callable'[c]
  BY <1>0, ObservedGrows
<1>1. DbTypeOK'
  BY <1>0, <1>r, UnchangedDbType
<1>2. phase' = phase /\ at'[c] = "upstream" /\ at' \in [Tasks -> Locations]
  BY <1>0, <1>r DEF Send, Go, CallTypeOK, dbVars, Locations
<1>3. /\ sent'[c].server = Server(c) /\ sent'[c].tool = Tool(c) /\ sent'[c] # NotSent
      /\ sent' \in [Callers -> Sent \cup {NotSent}]
  <2>1. [server |-> Server(c), tool |-> Tool(c), url |-> SendTo(c),
         args |-> Payload(call[c], verdict[c])] \in Sent
    BY <1>0, <1>t DEF Sent, SendTo, Payload, Passed
  <2> QED
    BY <1>0, <2>1, CallAbsentValues DEF Send, CallTypeOK
<1>4. CallTypeOK'
  BY <1>0, <1>r, <1>2, <1>3 DEF CallTypeOK
<1>5. \/ <<Server(c), Tool(c)>> \in callable'[c]
      \/ <<Server(c), NoUrl>> \in hosts'[c]
  BY <1>0, <1>t, <1>g DEF Passed
<1>6. CallerInv(c)'
  BY <1>0, <1>r, <1>n, <1>2, <1>3, <1>5
     DEF CallerInv, CallerControl, CallerLocations, Routed, Seen, Passed, Sending
<1> QED
  BY <1>1, <1>4, <1>6

LEMMA UpstreamInv ==
  ASSUME IInv, Observe, NEW c \in Callers, UpstreamFails(c) \/ UpstreamAnswers(c)
  PROVE  DbTypeOK' /\ CallTypeOK' /\ CallerInv(c)'
<1>0. /\ DbTypeOK /\ CallTypeOK /\ ObservedTypeOK /\ CallerInv(c) /\ c \in Tasks
      /\ at[c] \in {"send", "upstream"} /\ phase[c] = "idle" /\ call[c] # NoCall
      /\ Sending(c)
  BY TypeOKParts, CallerIsTask
     DEF IInv, UpstreamFails, UpstreamAnswers, CallerInv, CallerControl
<1>r. UNCHANGED <<call, target, held, verdict, sent, asked, toolCache, filterCache, dbVars>>
  BY DEF UpstreamFails, UpstreamAnswers, adminVars
<1>n. Noted(c)'
  BY NotedNow
<1>g. hosts[c] \subseteq hosts'[c] /\ callable[c] \subseteq callable'[c]
  BY <1>0, ObservedGrows
<1>1. DbTypeOK'
  BY <1>0, <1>r, UnchangedDbType
<1>2. /\ phase' = phase /\ at'[c] = "done" /\ at' \in [Tasks -> Locations]
      /\ answer'[c] \in {"failed", "result"} /\ answer' \in [Callers -> Answers \cup {"none"}]
  BY <1>0, <1>r DEF UpstreamFails, UpstreamAnswers, Tell, Go, CallTypeOK, dbVars, Locations, Answers
<1>3. CallTypeOK'
  BY <1>0, <1>r, <1>2 DEF CallTypeOK
<1>4. CallerInv(c)'
  BY <1>0, <1>r, <1>n, <1>g, <1>2
     DEF CallerInv, CallerControl, CallerLocations, Routed, Seen, Passed, Sending
<1> QED
  BY <1>1, <1>3, <1>4

-----------------------------------------------------------------------------
(* Administrators, discoveries and the engine.                               *)

LEMMA AdminInvKept ==
  ASSUME IInv, Observe, NEW a \in Admins,
         (\E o \in Orders : AdminReceive(a, o)) \/ Administer(a) \/ AdminForget(a)
  PROVE  DbTypeOK' /\ CallTypeOK' /\ AdminInv(a)'
<1>0. /\ DbTypeOK /\ CallTypeOK /\ AdminInv(a) /\ a \in Tasks
  BY TypeOKParts, AdminIsTask DEF IInv
<1>1. CASE \E o \in Orders : AdminReceive(a, o)
  <2>1. PICK o \in Orders : AdminReceive(a, o)
    BY <1>1
  <2>2. o.name \in Names
    BY OrderParts
  <2>3. DbTypeOK'
    BY <1>0, <2>1, <2>2, SubmitType, SelectIsStatement DEF AdminReceive
  <2>4. CallTypeOK' /\ at'[a] = "check" /\ asked'[a] = o
    BY <1>0, <2>1 DEF AdminReceive, CallTypeOK, callVars, Go, Locations
  <2> QED
    BY <2>1, <2>3, <2>4 DEF AdminInv
<1>2. CASE at[a] # "idle"
  <2>0. /\ asked[a] \in Orders /\ Subject(a) \in Names
        /\ StatementOf(asked[a]) \in Statements
    BY <1>0, <1>2, OrderParts DEF AdminInv, Subject
  <2>1. CASE AdminCheck(a)
    <3>r. UNCHANGED <<callVars, adminVars, filterCache>>
      BY <2>1 DEF AdminCheck
    <3>1. CASE Return(a) /\ Go(a, "done")
      <4>1. phase'[a] = "idle" /\ DbTypeOK'
        BY <1>0, <3>1, ReturnEffect, ReturnType
      <4>2. CallTypeOK' /\ at'[a] = "done"
        BY <1>0, <3>r, <3>1 DEF CallTypeOK, callVars, adminVars, Go, Locations
      <4> QED
        BY <2>0, <3>r, <4>1, <4>2 DEF AdminInv, adminVars
    <3>2. CASE Chain(a, StatementOf(asked[a])) /\ Go(a, "write")
      <4>1. DbTypeOK'
        BY <1>0, <2>0, <3>2, ChainType
      <4>2. CallTypeOK' /\ at'[a] = "write"
        BY <1>0, <3>r, <3>2 DEF CallTypeOK, callVars, adminVars, Go, Locations
      <4> QED
        BY <2>0, <3>r, <4>1, <4>2 DEF AdminInv, adminVars
    <3> QED
      BY <2>1, <3>1, <3>2 DEF AdminCheck
  <2>2. CASE AdminWrite(a)
    <3>r. UNCHANGED <<callVars, adminVars, filterCache>>
      BY <2>2 DEF AdminWrite
    <3>1. CASE Return(a) /\ Go(a, "forget")
      <4>1. phase'[a] = "idle" /\ DbTypeOK'
        BY <1>0, <3>1, ReturnEffect, ReturnType
      <4>2. CallTypeOK' /\ at'[a] = "forget"
        BY <1>0, <3>r, <3>1 DEF CallTypeOK, callVars, adminVars, Go, Locations
      <4> QED
        BY <2>0, <3>r, <4>1, <4>2 DEF AdminInv, adminVars
    <3>2. CASE Chain(a, Select(Subject(a))) /\ Go(a, "reread")
      <4>1. DbTypeOK'
        BY <1>0, <2>0, <3>2, ChainType, SelectIsStatement
      <4>2. CallTypeOK' /\ at'[a] = "reread"
        BY <1>0, <3>r, <3>2 DEF CallTypeOK, callVars, adminVars, Go, Locations
      <4> QED
        BY <2>0, <3>r, <4>1, <4>2 DEF AdminInv, adminVars
    <3> QED
      BY <2>2, <3>1, <3>2 DEF AdminWrite
  <2>3. CASE AdminReread(a)
    <3>1. Return(a) /\ Go(a, "done") /\ UNCHANGED <<callVars, adminVars>>
      BY <2>3 DEF AdminReread
    <3>2. phase'[a] = "idle" /\ DbTypeOK'
      BY <1>0, <3>1, ReturnEffect, ReturnType
    <3>3. filterCache' \in [Names -> {Miss} \cup (Filters \X Filters)]
      BY <1>0, <2>3 DEF AdminReread, CallTypeOK, Invalidate
    <3>4. CallTypeOK' /\ at'[a] = "done"
      BY <1>0, <3>1, <3>3 DEF CallTypeOK, callVars, adminVars, Go, Locations
    <3> QED
      BY <2>0, <3>1, <3>2, <3>4 DEF AdminInv, adminVars
  <2>4. CASE AdminFails(a)
    <3>1. Raise(a) /\ UNCHANGED <<callVars, adminVars, filterCache>>
      BY <2>4 DEF AdminFails
    <3>2. phase'[a] = "idle" /\ DbTypeOK'
      BY <1>0, <3>1, RaiseEffect, RaiseType
    <3>3. CallTypeOK' /\ at'[a] \in {"aborted", "done"}
      BY <1>0, <2>4, <3>1 DEF AdminFails, CallTypeOK, callVars, adminVars, Go, Locations
    <3> QED
      BY <2>0, <3>1, <3>2, <3>3 DEF AdminInv, adminVars
  <2>5. CASE AdminForget(a)
    <3>1. DbTypeOK' /\ phase' = phase
      BY <1>0, <2>5, UnchangedDbType DEF AdminForget, dbVars
    <3>2. CallTypeOK' /\ at'[a] = "done"
      BY <1>0, <2>5 DEF AdminForget, CallTypeOK, callVars, Invalidate, Go, Locations
    <3> QED
      BY <1>0, <2>0, <2>5, <3>1, <3>2 DEF AdminInv, AdminForget
  <2> QED
    BY <1>1, <1>2, <2>1, <2>2, <2>3, <2>4, <2>5 DEF Administer, AdminReceive
<1>3. Administer(a) \/ AdminForget(a) => at[a] # "idle"
  BY <1>0 DEF Administer, AdminCheck, AdminWrite, AdminReread, AdminFails, AdminForget,
              Raise, HasError, AdminInv
<1> QED
  BY <1>1, <1>2, <1>3

LEMMA DiscoveredInv ==
  ASSUME IInv, Observe, NEW n \in Names, NEW found \in Catalogs, Discovered(n, found)
  PROVE  IInv'
<1>0. DbTypeOK /\ CallTypeOK /\ ObservedTypeOK
  BY TypeOKParts DEF IInv
<1>r. UNCHANGED <<dbVars, at, callVars, asked, filterCache>>
  BY DEF Discovered
<1>1. DbTypeOK'
  BY <1>0, <1>r, UnchangedDbType
<1>2. CallTypeOK'
  BY <1>0, <1>r, CatalogAssumption DEF CallTypeOK, Discovered, callVars
<1>3. ObservedTypeOK'
  BY <1>0, <1>1, ObserveType
<1>4. \A c \in Callers : CallerInv(c)'
  <2> SUFFICES ASSUME NEW c \in Callers PROVE CallerInv(c)'
    OBVIOUS
  <2>1. CallerInv(c) /\ CallerSteady(c) /\ phase' = phase /\ stmt' = stmt /\ reply' = reply
    BY <1>r DEF IInv, CallerSteady, callVars, dbVars
  <2> QED
    BY <1>0, <2>1, SteadyCaller
<1>5. \A a \in Admins : AdminInv(a)'
  BY <1>r DEF IInv, AdminInv, dbVars
<1> QED
  BY <1>1, <1>2, <1>3, <1>4, <1>5 DEF IInv, TypeOK, CallTypeOK, ObservedTypeOK

\* What the engine returns for a call is what was in the table during the call.
LEMMA EngineCallerInv ==
  ASSUME IInv, Observe, NEW c \in Callers, EngineStep(c), DbTypeOK'
  PROVE  CallerInv(c)'
<1>0. /\ DbTypeOK /\ CallTypeOK /\ ObservedTypeOK /\ CallerInv(c) /\ c \in Tasks
      /\ Noted(c) /\ Seen(c)
  BY TypeOKParts, CallerIsTask DEF IInv, CallerInv
<1>e. Engine(c) /\ UNCHANGED <<at, callVars, adminVars, filterCache>>
  BY DEF EngineStep
<1>s. stmt' = stmt /\ phase[c] # "idle"
  BY <1>0, <1>e, EngineEffect
<1>c. at[c] \in {"server", "filters"} /\ stmt[c] = Select(Server(c))
  BY <1>0, <1>s DEF CallerInv, CallerControl
<1>t. Serving(c) /\ Server(c) \in Names
  BY <1>0, <1>c, TargetParts
<1>n. Noted(c)'
  BY NotedNow
<1>g. hosts[c] \subseteq hosts'[c] /\ open[c] \subseteq open'[c] /\ callable[c] \subseteq callable'[c]
  BY <1>0, ObservedGrows
<1>u. Server(c)' = Server(c) /\ at' = at
  BY <1>e DEF Server, callVars
<1>1. Seen(c)'
  <2>1. CASE Execute(c)
    <3>1. CASE ExecuteRead(c)
      <4>1. RowOf(c)' = rows[Server(c)] /\ rows' = rows
        BY <1>0, <1>c, <1>t, <1>u, <3>1 DEF ExecuteRead, RowOf, Only, Select, DbTypeOK
      <4>2. rows[Server(c)] # NoRow => <<Server(c), rows[Server(c)].url>> \in hosts'[c]
        BY <1>0, <1>t, <1>g DEF Noted, UrlOf
      <4>3. \A tool \in Tools :
              Allowed(tool, PairOf(rows[Server(c)])) =>
                /\ <<Server(c), tool>> \in open'[c]
                /\ \/ <<Server(c), tool>> \in callable'[c]
                   \/ <<Server(c), NoUrl>> \in hosts'[c]
        BY <1>0, <1>t, <1>g DEF Noted, UrlOf, LetThrough
      <4> QED
        BY <1>u, <4>1, <4>2, <4>3 DEF Seen
    <3>2. CASE ExecuteRefused(c)
      BY <1>0, <3>2 DEF ExecuteRefused, Seen, DbTypeOK
    <3> QED
      BY <1>c, <2>1, <3>1, <3>2
         DEF Execute, ExecuteInsert, ExecuteUpdate, ExecuteDelete, Select
  <2>2. CASE Continue(c)
    <3>1. reply' = reply /\ phase[c] = "executed"
      BY <2>2 DEF Continue
    <3> QED
      BY <1>0, <1>g, <1>u, <3>1 DEF Seen, RowOf
  <2>3. CASE Complete(c)
    <3>1. reply' = reply /\ phase[c] = "finishing"
      BY <1>c, <2>3 DEF Complete, Select
    <3> QED
      BY <1>0, <1>g, <1>u, <3>1 DEF Seen, RowOf
  <2> QED
    BY <1>e, <2>1, <2>2, <2>3 DEF Engine
<1>2. Passed(c)'
  BY <1>0, <1>c, <1>e, <1>g, <1>u DEF Passed, CallerInv, callVars
<1>3. Sending(c)'
  BY <1>0, <1>c, <1>e, <1>g, <1>u DEF Sending, CallerInv, callVars
<1>4. CallerControl(c)'
  BY <1>0, <1>c, <1>e, <1>s, <1>u DEF CallerControl, CallerInv, callVars
<1>5. Routed(c)'
  BY <1>0, <1>c, <1>e, <1>u DEF Routed, CallerInv, callVars
<1> QED
  BY <1>n, <1>1, <1>2, <1>3, <1>4, <1>5 DEF CallerInv

LEMMA EngineInv ==
  ASSUME IInv, Observe, NEW t \in Tasks, EngineStep(t)
  PROVE  IInv'
<1>0. DbTypeOK /\ CallTypeOK /\ ObservedTypeOK
  BY TypeOKParts DEF IInv
<1>e. Engine(t) /\ UNCHANGED <<at, callVars, adminVars, filterCache>>
  BY DEF EngineStep
<1>1. DbTypeOK'
  BY <1>0, <1>e, EngineType
<1>2. OthersKept(t) /\ phase[t] # "idle"
  BY <1>0, <1>e, EngineEffect
<1>3. TasksKept(t)
  BY <1>e, <1>2 DEF TasksKept, CallerSteady, callVars, adminVars
<1>4. CallTypeOK'
  BY <1>0, <1>e DEF CallTypeOK, callVars, adminVars
<1>5. CASE t \in Callers
  BY <1>1, <1>3, <1>4, <1>5, EngineCallerInv, CallerMoves
<1>6. CASE t \in Admins
  <2>1. AdminInv(t) /\ at[t] \in {"check", "write", "reread"}
    BY <1>2, <1>6 DEF IInv, AdminInv
  <2>2. AdminInv(t)'
    BY <1>e, <2>1 DEF AdminInv, adminVars
  <2> QED
    BY <1>1, <1>3, <1>4, <1>6, <2>2, AdminMoves
<1> QED
  BY <1>5, <1>6, CallTasks

LEMMA InitInv == Init => IInv
<1> SUFFICES ASSUME Init PROVE IInv
  OBVIOUS
<1>1. DbTypeOK
  BY DbInitType DEF Init
<1>2. TypeOK
  BY <1>1 DEF Init, TypeOK, Locations
<1>3. \A t \in Tasks : phase[t] = "idle" /\ at[t] = "idle"
  BY DEF Init, DbInit
<1>4. ASSUME NEW c \in Callers PROVE CallerInv(c)
  <2>1. /\ phase[c] = "idle" /\ at[c] = "idle" /\ call[c] = NoCall /\ answer[c] = "none"
        /\ verdict[c] = "none" /\ sent[c] = NotSent
    BY <1>3, CallerIsTask DEF Init
  <2> QED
    BY <2>1 DEF CallerInv, Noted, Serving, CallerControl, CallerLocations, Routed, Seen,
                Passed, Sending
<1>5. ASSUME NEW a \in Admins PROVE AdminInv(a)
  BY <1>3, AdminIsTask DEF AdminInv
<1> QED
  BY <1>2, <1>4, <1>5 DEF IInv

LEMMA StutterInv ==
  ASSUME IInv, UNCHANGED vars
  PROVE  IInv'
<1>r. UNCHANGED <<dbVars, at, callVars, adminVars, filterCache, observed>>
  BY DEF vars
<1>d. UNCHANGED <<rows, phase, stmt, reply>>
  BY <1>r DEF dbVars
<1>c. UNCHANGED <<at, call, target, held, verdict, sent, answer, asked, toolCache, filterCache,
                  hosts, open, callable>>
  BY <1>r DEF callVars, adminVars, observed
<1>1. DbTypeOK'
  BY <1>r, UnchangedDbType, TypeOKParts DEF IInv
<1>2. TypeOK'
  BY <1>1, <1>c DEF IInv, TypeOK
<1>3. ASSUME NEW c \in Callers PROVE CallerInv(c)'
  <2>0. CallerInv(c)
    BY DEF IInv
  <2>1. Server(c)' = Server(c) /\ RowOf(c)' = RowOf(c)
    BY <1>d, <1>c DEF Server, RowOf
  <2>2. Noted(c)'
    BY <2>0, <1>d, <1>c DEF CallerInv, Noted, Serving, UrlOf, LetThrough
  <2>3. CallerControl(c)' /\ Routed(c)' /\ Passed(c)' /\ Sending(c)'
    BY <2>0, <2>1, <1>d, <1>c DEF CallerInv, CallerControl, Routed, Passed, Sending
  <2>4. Seen(c)'
    BY <2>0, <2>1, <1>d, <1>c DEF CallerInv, Seen
  <2> QED
    BY <2>2, <2>3, <2>4 DEF CallerInv
<1>4. ASSUME NEW a \in Admins PROVE AdminInv(a)'
  BY <1>d, <1>c DEF IInv, AdminInv
<1> QED
  BY <1>2, <1>3, <1>4 DEF IInv

LEMMA StepInv == IInv /\ [Next]_vars => IInv'
<1> SUFFICES ASSUME IInv, [Next]_vars PROVE IInv'
  OBVIOUS
<1>1. CASE UNCHANGED vars
  BY <1>1, StutterInv
<1>2. CASE Next
  <2> Observe
    BY <1>2 DEF Next
  <2>1. ASSUME NEW t \in Tasks, EngineStep(t) PROVE IInv'
    BY <2>1, EngineInv
  <2>2. ASSUME NEW c \in Callers, NEW r \in Calls, Receive(c, r) PROVE IInv'
    BY <2>2, ReceiveInv, ReceiveKeeps, CallerMoves
  <2>3. ASSUME NEW c \in Callers, Handle(c) PROVE IInv'
    BY <2>3, LocateInv, CheckServerInv, CheckFiltersInv, LookupFailsInv, HandleKeeps,
       CallerMoves DEF Handle
  <2>4. ASSUME NEW c \in Callers, Judge(c) PROVE IInv'
    BY <2>4, JudgeInv, UpstreamKeeps, CallerMoves DEF Judge
  <2>5. ASSUME NEW c \in Callers, Upstream(c) PROVE IInv'
    BY <2>5, SendInv, UpstreamInv, UpstreamKeeps, CallerMoves DEF Upstream
  <2>6. ASSUME NEW a \in Admins,
               (\E o \in Orders : AdminReceive(a, o)) \/ Administer(a) \/ AdminForget(a)
        PROVE  IInv'
    BY <2>6, AdminInvKept, AdminKeeps, AdminMoves
  <2>7. ASSUME NEW n \in Names, NEW found \in Catalogs, Discovered(n, found) PROVE IInv'
    BY <2>7, DiscoveredInv
  <2> QED
    BY <1>2, <2>1, <2>2, <2>3, <2>4, <2>5, <2>6, <2>7 DEF Next, Step
<1> QED
  BY <1>1, <1>2

\* Everything the relay keeps about its calls has its type, whatever calls and
\* administrative requests overlap (the variables of RelayToolCall).
THEOREM CallTypes == Spec => []TypeOK
<1>1. IInv => TypeOK
  BY DEF IInv
<1> QED
  BY <1>1, InitInv, StepInv, PTL DEF Spec

\* A call that was sent could have been made at one moment while it was served,
\* or its server was removed meanwhile: what a call reads in two lookups and the
\* filter cache is never put together from two registrations.
THEOREM SentCallsWereCallable == Spec => []SentWasCallable
<1>1. IInv => SentWasCallable
  BY DEF IInv, CallerInv, Sending, SentWasCallable
<1> QED
  BY <1>1, InitInv, StepInv, PTL DEF Spec
-----------------------------------------------------------------------------
(* The relay implements CallGate.                                            *)

LEMMA GateWitness ==
  ASSUME Observe
  PROVE  Gate!Witness
<1> DEFINE u == [n \in Names |-> UrlOf(n)']
           l == [n \in Names |-> {tool \in Tools : LetThrough(n, tool)'}]
<1>1. {<<n, UrlOf(n)'>> : n \in Names} = {<<n, u[n]>> : n \in Names}
  OBVIOUS
<1>2. {p \in Names \X Tools : LetThrough(p[1], p[2])'} =
        {p \in Names \X Tools : p[2] \in l[p[1]]}
  OBVIOUS
<1> HIDE DEF u, l
<1>3. hosts' = [c \in Callers |->
                  IF Serving(c)' THEN hosts[c] \cup {<<n, u[n]>> : n \in Names} ELSE hosts[c]]
  BY <1>1 DEF Observe
<1>4. open' = [c \in Callers |->
                 IF Serving(c)'
                 THEN open[c] \cup {p \in Names \X Tools : p[2] \in l[p[1]]} ELSE open[c]]
  BY <1>2 DEF Observe
<1> QED
  BY <1>3, <1>4 DEF u, l, Gate!Witness, Gate!Facts, Gate!Serving, Serving

\* The registry, as CallGate sees it, has its type.
LEMMA GateRegistry ==
  ASSUME DbTypeOK
  PROVE  /\ [n \in Names |-> UrlOf(n)] \in [Names -> Urls \cup {NoUrl}]
         /\ [n \in Names |-> {tool \in Tools : LetThrough(n, tool)}]
              \in [Names -> SUBSET Tools]
BY UrlOfType

LEMMA GateInit == Init => Gate!Init
<1> SUFFICES ASSUME Init PROVE Gate!Init
  OBVIOUS
<1>1. DbTypeOK
  BY DbInitType DEF Init
<1> QED
  BY <1>1, GateRegistry DEF Init, Gate!Init

\* What CallGate allows of the registry is what its types allow.
LEMMA GateChanges ==
  ASSUME DbTypeOK'
  PROVE  /\ [n \in Names |-> UrlOf(n)]' \in [Names -> Urls \cup {NoUrl}]
         /\ [n \in Names |-> {tool \in Tools : LetThrough(n, tool)}]'
              \in [Names -> SUBSET Tools]
<1>1. \A n \in Names : UrlOf(n)' \in Urls \cup {NoUrl}
  BY DEF DbTypeOK, Tables, Rows, UrlOf
<1> QED
  BY <1>1

LEMMA GateChange ==
  ASSUME DbTypeOK', Gate!Witness, UNCHANGED <<call, verdict, sent, answer>>
  PROVE  Gate!Next
BY GateChanges DEF Gate!Next, Gate!Change

\* A call that is answered in a step that leaves the verdict alone.
LEMMA GateRefuse ==
  ASSUME CallTypeOK, DbTypeOK', Gate!Witness, NEW c \in Callers, Serving(c),
         UNCHANGED <<call, verdict, sent>>, NEW a \in Answers,
         a = "result" => sent[c] # NotSent, answer' = [answer EXCEPT ![c] = a]
  PROVE  Gate!Next
<1>1. Gate!Reply(c, a)
  BY DEF Gate!Reply, Gate!Serving, Serving
<1>2. Gate!Refuse(c, a)
  BY <1>1, GateChanges DEF Gate!Refuse
<1> QED
  BY <1>2 DEF Gate!Next

LEMMA GateReceive ==
  ASSUME IInv, NEW c \in Callers, NEW r \in Calls, Receive(c, r), Gate!Witness
  PROVE  Gate!Next
<1>1. call[c] = NoCall /\ call' = [call EXCEPT ![c] = r] /\ UNCHANGED <<verdict, sent>>
  BY DEF IInv, CallerInv, CallerControl, Receive
<1>2. rows' = rows /\ filterCache' = filterCache
  BY DEF Receive, Route, Submit, dbVars
<1>3. /\ [n \in Names |-> UrlOf(n)]' = [n \in Names |-> UrlOf(n)]
      /\ [n \in Names |-> {tool \in Tools : LetThrough(n, tool)}]'
           = [n \in Names |-> {tool \in Tools : LetThrough(n, tool)}]
  BY <1>2 DEF UrlOf, LetThrough
<1>4. CASE Tell(c, FirstFlaw(r))
  <2>1. /\ FirstFlaw(r) \in Answers /\ FirstFlaw(r) # "result"
        /\ answer' = [answer EXCEPT ![c] = FirstFlaw(r)]
    BY <1>4 DEF FirstFlaw, Answers, Tell
  <2>2. Gate!RefuseAtOnce(c, r, FirstFlaw(r))
    BY <1>1, <1>3, <2>1 DEF Gate!RefuseAtOnce
  <2> QED
    BY <2>1, <2>2 DEF Gate!Next
<1>5. CASE UNCHANGED answer
  <2>1. Gate!Begin(c, r)
    BY <1>1, <1>3, <1>5 DEF Gate!Begin
  <2> QED
    BY <2>1 DEF Gate!Next
<1> QED
  BY <1>4, <1>5 DEF Receive

LEMMA GateHandle ==
  ASSUME IInv, NEW c \in Callers, Handle(c), Gate!Witness, DbTypeOK'
  PROVE  Gate!Next
<1>0. CallTypeOK /\ UNCHANGED <<call, verdict, sent>>
  BY TypeOKParts DEF IInv, Handle, Locate, CheckServer, CheckFilters, LookupFails
<1>1. at[c] \in {"locate", "server", "filters"} /\ Serving(c)
  BY CallerIsTask
     DEF IInv, Handle, Locate, CheckServer, CheckFilters, LookupFails, CallerInv,
         CallerControl, Serving, Raise, HasError
<1>2. \/ UNCHANGED answer
      \/ \E a \in {"no_tool", "no_server", "filtered", "surface", "failed"} : Tell(c, a)
  BY DEF Handle, Locate, CheckServer, CheckFilters, LookupFails, PastGates
<1>3. CASE UNCHANGED answer
  BY <1>0, <1>3, GateChange
<1>4. ASSUME NEW a \in {"no_tool", "no_server", "filtered", "surface", "failed"}, Tell(c, a)
      PROVE  Gate!Next
  <2>1. a \in Answers /\ a # "result" /\ answer' = [answer EXCEPT ![c] = a]
    BY <1>4 DEF Tell, Answers
  <2> QED
    BY <1>0, <1>1, <2>1, GateRefuse
<1> QED
  BY <1>2, <1>3, <1>4

LEMMA GateJudge ==
  ASSUME IInv, NEW c \in Callers, NEW v \in Verdicts, PolicyAnswers(c, v), Gate!Witness,
         DbTypeOK'
  PROVE  Gate!Next
<1>0. CallTypeOK /\ CallerInv(c)
  BY TypeOKParts DEF IInv
<1>1. /\ at[c] = "policy" /\ call[c] \in Calls /\ Serving(c) /\ Judged(call[c])
      /\ verdict[c] = "none" /\ sent[c] = NotSent
  BY <1>0
     DEF PolicyAnswers, CallTypeOK, CallerInv, CallerControl, Sending, Serving
<1>2. /\ verdict' = [verdict EXCEPT ![c] = v]
      /\ UNCHANGED <<dbVars, call, sent, filterCache>>
  BY DEF PolicyAnswers
<1>3. CASE Favourable(v)
  <2>1. /\ [n \in Names |-> UrlOf(n)]' = [n \in Names |-> UrlOf(n)]
        /\ [n \in Names |-> {tool \in Tools : LetThrough(n, tool)}]'
             = [n \in Names |-> {tool \in Tools : LetThrough(n, tool)}]
    BY <1>2 DEF UrlOf, LetThrough, dbVars
  <2>2. Gate!Judge(c, v)
    BY <1>1, <1>2, <1>3, <2>1 DEF PolicyAnswers, Gate!Judge, Gate!Serving, Serving
  <2> QED
    BY <2>2 DEF Gate!Next
<1>4. CASE ~Favourable(v)
  <2>1. "policy" \in Answers /\ answer' = [answer EXCEPT ![c] = "policy"]
    BY <1>4 DEF PolicyAnswers, Tell, Answers
  <2>2. Gate!Reply(c, "policy")
    BY <1>1, <1>2, <2>1 DEF Gate!Reply, Gate!Serving, Serving
  <2>3. Gate!Refuse(c, "policy")
    BY <1>1, <1>2, <1>4, <2>2, GateChanges DEF Gate!Refuse
  <2> QED
    BY <2>1, <2>3 DEF Gate!Next
<1> QED
  BY <1>3, <1>4

LEMMA GateSend ==
  ASSUME IInv, NEW c \in Callers, Send(c), Gate!Witness
  PROVE  Gate!Next
<1>0. CallTypeOK /\ CallerInv(c)
  BY TypeOKParts DEF IInv
<1>1. /\ at[c] = "send" /\ Serving(c) /\ sent[c] = NotSent /\ held[c] \in Urls
      /\ target[c] \in Meant[call[c]] /\ target[c] \in open[c]
      /\ <<Server(c), held[c]>> \in hosts[c] /\ Server(c) \in Entitled[call[c]]
      /\ Judged(call[c]) => Favourable(verdict[c])
  BY <1>0 DEF Send, CallerInv, CallerControl, Routed, Passed, Sending, Serving
<1>2. /\ call[c] \in Calls /\ Server(c) \in Names /\ Tool(c) \in Tools
      /\ target[c] = <<Server(c), Tool(c)>>
  BY <1>0, <1>1, TargetParts DEF CallTypeOK, Serving
<1>3. /\ verdict[c] \in Verdicts \cup {"none"}
      /\ Judged(call[c]) => verdict[c] \in {v \in Verdicts : Favourable(v)}
  BY <1>0, <1>1 DEF CallTypeOK, Favourable
<1>4. /\ [n \in Names |-> UrlOf(n)]' = [n \in Names |-> UrlOf(n)]
      /\ [n \in Names |-> {tool \in Tools : LetThrough(n, tool)}]'
           = [n \in Names |-> {tool \in Tools : LetThrough(n, tool)}]
  BY DEF Send, UrlOf, LetThrough, dbVars
<1> DEFINE arguments == [p \in Calls \X (Verdicts \cup {"none"}) |-> Payload(p[1], p[2])]
<1>5. arguments[<<call[c], verdict[c]>>] = Payload(call[c], verdict[c])
  BY <1>2, <1>3
<1>6. sent' = [sent EXCEPT ![c] = [server |-> Server(c), tool |-> Tool(c), url |-> held[c],
                                   args |-> arguments[<<call[c], verdict[c]>>]]]
  BY <1>5 DEF Send, SendTo
<1>7. UNCHANGED <<call, verdict, answer>>
  BY DEF Send
<1>8. Gate!Send(c, Server(c), Tool(c), held[c])
  BY <1>1, <1>2, <1>3, <1>4, <1>6, <1>7 DEF Gate!Send, Gate!Serving, Serving
<1> QED
  BY <1>1, <1>2, <1>8 DEF Gate!Next

LEMMA GateUpstream ==
  ASSUME IInv, NEW c \in Callers, UpstreamFails(c) \/ UpstreamAnswers(c), Gate!Witness,
         DbTypeOK'
  PROVE  Gate!Next
<1>0. CallTypeOK /\ CallerInv(c) /\ UNCHANGED <<call, verdict, sent>>
  BY TypeOKParts DEF IInv, UpstreamFails, UpstreamAnswers
<1>1. Serving(c)
  BY <1>0 DEF UpstreamFails, UpstreamAnswers, CallerInv, CallerControl, Serving
<1>2. CASE UpstreamFails(c)
  <2>1. "failed" \in Answers /\ answer' = [answer EXCEPT ![c] = "failed"]
    BY <1>2 DEF UpstreamFails, Tell, Answers
  <2> QED
    BY <1>0, <1>1, <2>1, GateRefuse
<1>3. CASE UpstreamAnswers(c)
  <2>1. /\ "result" \in Answers /\ answer' = [answer EXCEPT ![c] = "result"]
        /\ sent[c] # NotSent
    BY <1>0, <1>3 DEF UpstreamAnswers, Tell, Answers, CallerInv, Sending
  <2> QED
    BY <1>0, <1>1, <2>1, GateRefuse
<1> QED
  BY <1>2, <1>3

LEMMA GateStep == IInv /\ IInv' /\ [Next]_vars => [Gate!Next]_(Gate!vars)
<1> SUFFICES ASSUME IInv, IInv', [Next]_vars PROVE [Gate!Next]_(Gate!vars)
  OBVIOUS
<1>0. DbTypeOK'
  BY DEF IInv, TypeOK
<1>1. CASE UNCHANGED vars
  BY <1>1 DEF vars, dbVars, callVars, observed, Gate!vars, UrlOf, LetThrough
<1>2. CASE Next
  <2>w. Gate!Witness
    BY <1>2, GateWitness DEF Next
  <2>1. ASSUME NEW t \in Tasks, EngineStep(t) PROVE Gate!Next
    BY <1>0, <2>w, <2>1, GateChange DEF EngineStep, callVars
  <2>2. ASSUME NEW c \in Callers, NEW r \in Calls, Receive(c, r) PROVE Gate!Next
    BY <2>w, <2>2, GateReceive
  <2>3. ASSUME NEW c \in Callers, Handle(c) PROVE Gate!Next
    BY <1>0, <2>w, <2>3, GateHandle
  <2>4. ASSUME NEW c \in Callers, Judge(c) PROVE Gate!Next
    BY <1>0, <2>w, <2>4, GateJudge DEF Judge
  <2>5. ASSUME NEW c \in Callers, Upstream(c) PROVE Gate!Next
    BY <1>0, <2>w, <2>5, GateSend, GateUpstream DEF Upstream
  <2>6. ASSUME NEW a \in Admins,
               (\E o \in Orders : AdminReceive(a, o)) \/ Administer(a) \/ AdminForget(a)
        PROVE  Gate!Next
    <3>1. UNCHANGED callVars
      BY <2>6 DEF AdminReceive, Administer, AdminCheck, AdminWrite, AdminReread, AdminFails,
                  AdminForget
    <3> QED
      BY <1>0, <2>w, <3>1, GateChange DEF callVars
  <2>7. ASSUME NEW n \in Names, NEW found \in Catalogs, Discovered(n, found) PROVE Gate!Next
    BY <1>0, <2>w, <2>7, GateChange DEF Discovered, callVars
  <2> QED
    BY <1>2, <2>1, <2>2, <2>3, <2>4, <2>5, <2>6, <2>7 DEF Next, Step
<1> QED
  BY <1>1, <1>2

\* The relay implements CallGate: however calls, administrators and discoveries
\* overlap, a call goes upstream at most once, to a place where its server was
\* registered while it was served, for a tool that the lists let through
\* meanwhile, within its caller's surface, on a favourable verdict and with the
\* arguments of that verdict; and a call that was refused never does.
THEOREM CallsPassTheirGates == Spec => GatesHold
<1>1. Init => IInv /\ Gate!Init
  BY InitInv, GateInit
<1>2. IInv /\ [Next]_vars => IInv'
  BY StepInv
<1>3. IInv /\ IInv' /\ [Next]_vars => [Gate!Next]_(Gate!vars)
  BY GateStep
<1> QED
  BY <1>1, <1>2, <1>3, PTL DEF Spec, GatesHold, Gate!Spec
-----------------------------------------------------------------------------
(* The filter cache: why a cached pair of lists that is not the row's will be  *)
(* dropped, or an administrator has broken off.                               *)

\* The statement a request has pending is the one its handler issued last.
OwnOrder(a) ==
  /\ at[a] = "write" => stmt[a] = StatementOf(asked[a])
  /\ at[a] \in {"check", "reread"} => stmt[a] = Select(Subject(a)) /\ Busy(a)

Asks(a, n, ops) == asked[a] # NoOrder /\ asked[a].name = n /\ asked[a].op \in ops

\* a has removed the row of n, and is yet to drop what is cached of it.
Removing(a, n) ==
  Asks(a, n, {"delete"}) /\ (at[a] = "forget" \/ (at[a] = "write" /\ Ran(a)))

\* a has written the lists of n, and is yet to look the row up and drop them.
Writing(a, n) == Asks(a, n, {"register", "patch"}) /\ at[a] = "write" /\ Ran(a)

\* a looks the row of n up, and will find it, or drops the lists anyhow, or breaks
\* off because the lookup is refused.
Rereading(a, n) ==
  /\ Asks(a, n, {"register", "patch"}) /\ at[a] = "reread"
  /\ \/ asked[a].op = "register" \/ phase[a] = "failed"
     \/ IF Ran(a) THEN reply[a][n] # NoRow ELSE rows[n] # NoRow

\* a's request on n broke off, after its write perhaps, and will drop no lists.
Broken(a, n) == asked[a] # NoOrder /\ asked[a].name = n /\ at[a] = "aborted"

\* Call L is about to cache the lists of n that it was told of.
Filling(L, n) == at[L] = "filters" /\ Server(L) = n /\ Ran(L) /\ reply[L][n] # NoRow

Stale(pair, n) == rows[n] # NoRow /\ pair # PairOf(rows[n])

CacheControl(n) ==
  /\ filterCache[n] # Miss /\ rows[n] = NoRow => \E a \in Admins : Removing(a, n)
  /\ filterCache[n] # Miss /\ Stale(filterCache[n], n) =>
       \E a \in Admins : Removing(a, n) \/ Writing(a, n) \/ Rereading(a, n) \/ Broken(a, n)

\* Nothing but the order of the jobs keeps L's lists from being cached after they
\* were dropped: a call does not hold cache_lock.
StaleReason(L, a, n) ==
  \/ Removing(a, n) /\ Ahead(L, a, 0)
  \/ Writing(a, n) /\ Ahead(L, a, 2)
  \/ Rereading(a, n) /\ Ahead(L, a, 0)
  \/ Broken(a, n)

FillControl(L, n) ==
  Filling(L, n) =>
    /\ rows[n] = NoRow => \E a \in Admins : Removing(a, n) /\ Ahead(L, a, 0)
    /\ Stale(PairOf(reply[L][n]), n) => \E a \in Admins : StaleReason(L, a, n)

\* The invariant behind CacheAgrees.
CacheInv ==
  /\ QueueOK
  /\ \A a \in Admins : OwnOrder(a)
  /\ \A n \in Names : CacheControl(n) /\ \A L \in Callers : FillControl(L, n)

-----------------------------------------------------------------------------
(* What a step of a task is, to the registry.                                 *)

CacheMove(t) ==
  \/ t \in Callers /\ ((\E r \in Calls : Receive(t, r)) \/ Handle(t) \/ Judge(t) \/ Upstream(t))
  \/ t \in Admins /\ ((\E o \in Orders : AdminReceive(t, o)) \/ Administer(t) \/ AdminForget(t))

LEMMA AdminAsks ==
  ASSUME IInv, NEW a \in Admins, at[a] # "idle"
  PROVE  /\ asked[a] \in Orders /\ asked[a] # NoOrder /\ Subject(a) \in Names
         /\ asked[a].op \in {"register", "patch", "delete"}
         /\ StatementOf(asked[a]) \in Statements
         /\ StatementOf(asked[a]).name = Subject(a)
         /\ StatementOf(asked[a]).op = IF asked[a].op = "register" THEN "insert"
                                       ELSE IF asked[a].op = "patch" THEN "update"
                                       ELSE "delete"
<1>1. asked[a] \in Orders
  BY DEF IInv, AdminInv
<1>2. asked[a] # NoOrder /\ asked[a] \in OrderSet
  BY <1>1, OrderAssumption
<1>3. Subject(a) \in Names /\ StatementOf(asked[a]) \in Statements
  BY <1>1, OrderParts DEF Subject
<1>4. asked[a].op \in {"register", "patch", "delete"}
  BY <1>2 DEF OrderSet
<1> QED
  BY <1>1, <1>2, <1>3, <1>4 DEF StatementOf, Insert, Update, Delete, Subject

LEMMA MoveCalls ==
  ASSUME IInv, NEW t \in Tasks, CacheMove(t)
  PROVE  TasksKept(t) /\ DbCall(t) /\ rows' = rows
<1>d. DbTypeOK /\ CallTypeOK
  BY TypeOKParts DEF IInv
<1>1. TasksKept(t)
  BY ReceiveKeeps, HandleKeeps, UpstreamKeeps, AdminKeeps DEF CacheMove
<1>2. ASSUME t \in Callers, NEW r \in Calls, Receive(t, r) PROVE DbCall(t)
  <2>1. ASSUME NEW n \in Names, NEW tool, Route(t, n, tool) PROVE DbCall(t)
    BY <2>1, SelectIsStatement DEF Route, DbCall
  <2>2. Qualified(r.id) => Split(r.id)[1] \in Names
    BY CallParts
  <2> QED
    BY <1>2, <2>1, <2>2 DEF Receive, DbCall, dbVars
<1>3. ASSUME t \in Callers, Handle(t) PROVE DbCall(t)
  <2>1. CASE Locate(t)
    <3>1. ASSUME NEW n \in Names, NEW tool, Route(t, n, tool) PROVE DbCall(t)
      BY <3>1, SelectIsStatement DEF Route, DbCall
    <3> QED
      BY <2>1, <3>1 DEF Locate, Owners, DbCall, dbVars
  <2>2. CASE CheckServer(t)
    <3>1. Server(t) \in Names
      BY <1>d, <1>3, <2>2, TargetParts DEF CheckServer, IInv
    <3> QED
      BY <2>2, <3>1, SelectIsStatement DEF CheckServer, DbCall
  <2> QED
    BY <1>3, <2>1, <2>2 DEF Handle, CheckFilters, LookupFails, DbCall
<1>4. ASSUME t \in Callers, Judge(t) \/ Upstream(t) PROVE DbCall(t)
  BY <1>4, UpstreamKeeps DEF DbCall
<1>5. ASSUME t \in Admins, NEW o \in Orders, AdminReceive(t, o) PROVE DbCall(t)
  BY <1>5, OrderParts, SelectIsStatement DEF AdminReceive, DbCall
<1>6. ASSUME t \in Admins, Administer(t) \/ AdminForget(t) PROVE DbCall(t)
  <2>1. CASE at[t] # "idle"
    <3>1. StatementOf(asked[t]) \in Statements /\ Select(Subject(t)) \in Statements
      BY <1>6, <2>1, AdminAsks, SelectIsStatement
    <3> QED
      BY <1>6, <3>1 DEF Administer, AdminCheck, AdminWrite, AdminReread, AdminFails,
                        AdminForget, DbCall
  <2>2. CASE AdminFails(t)
    BY <2>2 DEF AdminFails, DbCall
  <2> QED
    BY <1>6, <2>1, <2>2 DEF Administer, AdminCheck, AdminWrite, AdminReread, AdminForget
<1>7. DbCall(t)
  BY <1>2, <1>3, <1>4, <1>5, <1>6 DEF CacheMove
<1> QED
  BY <1>d, <1>1, <1>7, CallEffect

\* A request that is being served issues the statements of its kind.
LEMMA MoveKeepsOrders ==
  ASSUME IInv, \A a \in Admins : OwnOrder(a), NEW t \in Tasks, CacheMove(t),
         NEW a \in Admins
  PROVE  OwnOrder(a)'
<1>1. TasksKept(t) /\ DbTypeOK /\ CallTypeOK /\ a \in Tasks /\ a \notin Callers
  BY MoveCalls, AdminIsTask, TypeOKParts DEF IInv
<1>2. CASE a # t
  BY <1>1, <1>2 DEF TasksKept, OthersKept, OwnOrder, Subject, Busy
<1>3. CASE a = t
  <2>1. CASE \E o \in Orders : AdminReceive(a, o)
    <3>1. PICK o \in Orders : AdminReceive(a, o)
      BY <2>1
    <3>2. /\ stmt'[a] = Select(o.name) /\ phase'[a] = "queued" /\ asked'[a] = o
          /\ at'[a] = "check"
      BY <1>1, <3>1, SubmitEffect DEF AdminReceive, Go, CallTypeOK
    <3> QED
      BY <3>2 DEF OwnOrder, Subject, Busy
  <2>2. CASE AdminCheck(a) \/ AdminWrite(a)
    <3>1. asked' = asked
      BY <2>2 DEF AdminCheck, AdminWrite, adminVars
    <3>2. \/ at'[a] \in {"done", "forget"}
          \/ at'[a] = "write" /\ Chain(a, StatementOf(asked[a]))
          \/ at'[a] = "reread" /\ Chain(a, Select(Subject(a)))
      BY <1>1, <2>2 DEF AdminCheck, AdminWrite, Go, CallTypeOK
    <3>3. \A s : Chain(a, s) => stmt'[a] = s /\ phase'[a] = "queued"
      BY <1>1, ChainEffect
    <3> QED
      BY <3>1, <3>2, <3>3 DEF OwnOrder, Subject, Busy
  <2>3. CASE AdminReread(a) \/ AdminFails(a) \/ AdminForget(a)
    <3>1. at'[a] \in {"done", "aborted"}
      BY <1>1, <2>3 DEF AdminReread, AdminFails, AdminForget, Go, CallTypeOK
    <3> QED
      BY <3>1 DEF OwnOrder
  <2> QED
    BY <1>1, <1>3, <2>1, <2>2, <2>3 DEF CacheMove, Administer
<1> QED
  BY <1>2, <1>3

LEMMA EngineKeepsOrders ==
  ASSUME IInv, NEW t \in Tasks, EngineStep(t), NEW a \in Admins, OwnOrder(a)
  PROVE  OwnOrder(a)'
<1>1. /\ OthersKept(t) /\ stmt' = stmt /\ UNCHANGED <<at, asked>> /\ a \in Tasks
      /\ DbTypeOK /\ Engine(t)
  BY EngineEffect, AdminIsTask, TypeOKParts DEF EngineStep, adminVars, IInv
<1>2. Busy(a) => Busy(a)'
  BY <1>1, RunEffect, SecondJobEffect DEF OthersKept, Busy, Engine, Ran
<1> QED
  BY <1>1, <1>2 DEF OwnOrder, Subject

-----------------------------------------------------------------------------
(* The engine keeps the filter cache's reasons.                               *)

LEMMA EngineKeepsReason ==
  ASSUME IInv, CacheInv, NEW t \in Tasks, EngineStep(t), NEW n \in Names, NEW a \in Admins
  PROVE  /\ Removing(a, n) => Removing(a, n)'
         /\ Writing(a, n) => Writing(a, n)'
         /\ Rereading(a, n) => Rereading(a, n)' \/ rows'[n] = NoRow
         /\ Broken(a, n) => Broken(a, n)'
<1>1. /\ DbTypeOK /\ OthersKept(t) /\ stmt' = stmt /\ UNCHANGED <<at, asked>>
      /\ a \in Tasks /\ Engine(t) /\ OwnOrder(a)
  BY EngineEffect, AdminIsTask, TypeOKParts DEF EngineStep, adminVars, IInv, CacheInv
<1>2. Ran(a) => Ran(a)'
  BY <1>1, RunEffect, SecondJobEffect DEF OthersKept, Ran, Engine
<1>3. Removing(a, n) => Removing(a, n)'
  BY <1>1, <1>2 DEF Removing, Asks
<1>4. Writing(a, n) => Writing(a, n)'
  BY <1>1, <1>2 DEF Writing, Asks
<1>5. phase[a] = "failed" => phase'[a] = "failed"
  BY <1>1, RunEffect, SecondJobEffect DEF OthersKept, Engine, Ran
<1>6. ASSUME Rereading(a, n), rows'[n] # NoRow, asked[a].op # "register", phase[a] # "failed"
      PROVE  Rereading(a, n)'
  <2>1. stmt[a] = Select(n)
    BY <1>1, <1>6 DEF OwnOrder, Rereading, Asks, Subject
  <2>2. CASE Ran(a)
    <3>1. reply'[a] = reply[a]
      BY <1>1, <2>1, <2>2, RunEffect, SecondJobEffect DEF OthersKept, Engine, Select, Ran
    <3> QED
      BY <1>1, <1>2, <1>6, <2>2, <3>1 DEF Rereading, Asks
  <2>3. CASE ~Ran(a) /\ ~Ran(a)'
    BY <1>1, <1>6, <2>3 DEF Rereading, Asks
  <2>4. CASE ~Ran(a) /\ Ran(a)'
    <3>1. a = t
      BY <1>1, <2>4 DEF OthersKept, Ran
    <3>2. Execute(t) /\ Ran(t)'
      BY <1>1, <2>4, <3>1, SecondJobEffect DEF Engine
    <3>3. Applied(a)
      BY <1>1, <3>1, <3>2, RunEffect DEF Ran
    <3>4. rows' = rows /\ reply'[a][n] = rows[n]
      BY <2>1, <3>3 DEF Applied, Select, Only
    <3> QED
      BY <1>1, <1>6, <2>4, <3>4 DEF Rereading, Asks
  <2> QED
    BY <1>2, <2>2, <2>3, <2>4
<1>7. Rereading(a, n) /\ (asked[a].op = "register" \/ phase[a] = "failed") => Rereading(a, n)'
  BY <1>1, <1>5 DEF Rereading, Asks
<1>8. Broken(a, n) => Broken(a, n)'
  BY <1>1 DEF Broken
<1> QED
  BY <1>3, <1>4, <1>6, <1>7, <1>8

\* Only a request changes a row, and it is then a reason to drop its lists.
LEMMA EngineGivesReason ==
  ASSUME IInv, CacheInv, NEW t \in Tasks, EngineStep(t), NEW n \in Names, rows'[n] # rows[n]
  PROVE  /\ t \in Admins /\ Execute(t)
         /\ IF rows'[n] = NoRow THEN Removing(t, n)' ELSE Writing(t, n)'
<1>1. /\ DbTypeOK /\ Engine(t) /\ UNCHANGED <<at, asked>> /\ rows \in Tables
      /\ stmt[t] \in Statements /\ nextId \in Nat /\ phase[t] # "idle"
  BY EngineEffect, TypeOKParts DEF EngineStep, adminVars, IInv, DbTypeOK
<1>2. /\ Execute(t) /\ Ran(t)' /\ stmt[t].name = n
      /\ \/ stmt[t].op = "delete" /\ rows'[n] = NoRow
         \/ /\ stmt[t].op = "insert" /\ rows[n] = NoRow
            /\ rows'[n] = InsertedRow(stmt[t].columns)
         \/ /\ stmt[t].op = "update" /\ rows[n] # NoRow
            /\ rows'[n] = Assigned(rows[n], stmt[t].change)
  BY <1>1, RowEffect
<1>r. \A m : Select(m).op = "select"
  BY DEF Select
<1>3. t \in Admins
  <2>1. t \in Callers => stmt[t] = Select(Server(t))
    BY <1>1 DEF IInv, CallerInv, CallerControl
  <2> QED
    BY <1>2, <1>r, <2>1, CallTasks
<1>4. at[t] = "write"
  <2>1. at[t] \in {"check", "write", "reread"} /\ OwnOrder(t)
    BY <1>1, <1>3 DEF IInv, AdminInv, CacheInv
  <2> QED
    BY <1>2, <1>r, <2>1 DEF OwnOrder
<1>5. /\ asked[t] # NoOrder /\ asked[t].name = n /\ stmt[t] = StatementOf(asked[t])
      /\ asked[t].op \in {"register", "patch", "delete"}
      /\ asked[t].op = "delete" <=> stmt[t].op = "delete"
  BY <1>2, <1>3, <1>4, AdminAsks DEF CacheInv, OwnOrder, Subject
<1>6. stmt[t].op # "delete" => rows'[n] # NoRow
  <2>1. CASE stmt[t].op = "insert"
    BY <1>1, <1>2, <2>1, StatementParts, InsertedType, AbsentValues
  <2>2. CASE stmt[t].op = "update"
    <3>1. stmt[t].change \in Changes /\ rows[n] \in Rows
      BY <1>1, <1>2, <2>2, StatementParts DEF Tables
    <3> QED
      BY <1>2, <2>2, <3>1, AssignedType, AbsentValues
  <2> QED
    BY <1>2, <2>1, <2>2
<1>7. CASE stmt[t].op = "delete"
  BY <1>1, <1>2, <1>3, <1>4, <1>5, <1>7 DEF Removing, Asks
<1>8. CASE stmt[t].op # "delete"
  BY <1>1, <1>2, <1>3, <1>4, <1>5, <1>6, <1>8 DEF Writing, Asks
<1> QED
  BY <1>2, <1>3, <1>7, <1>8

LEMMA EngineKeepsCacheControl ==
  ASSUME IInv, CacheInv, NEW t \in Tasks, EngineStep(t), NEW n \in Names
  PROVE  CacheControl(n)'
<1>1. CacheControl(n) /\ filterCache' = filterCache
  BY DEF EngineStep, CacheInv
<1>2. ASSUME filterCache[n] # Miss, rows'[n] = NoRow
      PROVE  \E a \in Admins : Removing(a, n)'
  <2>1. CASE rows'[n] = rows[n]
    BY <1>1, <1>2, <2>1, EngineKeepsReason DEF CacheControl
  <2>2. CASE rows'[n] # rows[n]
    BY <1>2, <2>2, EngineGivesReason
  <2> QED
    BY <2>1, <2>2
<1>3. ASSUME filterCache[n] # Miss, rows'[n] # NoRow, filterCache[n] # PairOf(rows'[n])
      PROVE  \E a \in Admins :
               Removing(a, n)' \/ Writing(a, n)' \/ Rereading(a, n)' \/ Broken(a, n)'
  <2>1. CASE rows'[n] = rows[n]
    BY <1>1, <1>3, <2>1, EngineKeepsReason DEF CacheControl, Stale
  <2>2. CASE rows'[n] # rows[n]
    BY <1>3, <2>2, EngineGivesReason
  <2> QED
    BY <2>1, <2>2
<1> QED
  BY <1>1, <1>2, <1>3 DEF CacheControl, Stale

LEMMA EngineKeepsFillControl ==
  ASSUME IInv, CacheInv, Backend = "sqlite", NEW t \in Tasks, EngineStep(t),
         NEW n \in Names, NEW L \in Callers
  PROVE  FillControl(L, n)'
<1>1. /\ DbTypeOK /\ Engine(t) /\ OthersKept(t) /\ stmt' = stmt
      /\ UNCHANGED <<at, target, asked>>
      /\ L \in Tasks /\ L \notin Admins /\ Admins \subseteq Tasks /\ FillControl(L, n) /\ QueueOK
  BY EngineEffect, CallTasks, TypeOKParts
     DEF EngineStep, adminVars, callVars, CacheInv, IInv
<1> SUFFICES ASSUME Filling(L, n)'
             PROVE  /\ rows'[n] = NoRow =>
                         \E a \in Admins : Removing(a, n)' /\ Ahead(L, a, 0)'
                    /\ Stale(PairOf(reply[L][n]), n)' =>
                         \E a \in Admins : StaleReason(L, a, n)'
  BY DEF FillControl
<1>2. at[L] = "filters" /\ Server(L) = n /\ stmt[L] = Select(n)
  BY <1>1 DEF Filling, Server, IInv, CallerInv, CallerControl
<1>3. CASE ~Ran(L)
  <2>1. L = t /\ Execute(t) /\ Ran(t)'
    BY <1>1, <1>3, SecondJobEffect DEF Filling, OthersKept, Ran, Engine
  <2>2. Applied(t)
    BY <1>1, <2>1, RunEffect DEF Ran
  <2>3. rows' = rows /\ reply'[L][n] = rows[n]
    BY <1>2, <2>1, <2>2 DEF Applied, Only, Select
  <2> QED
    BY <2>3 DEF Filling, Stale
<1>4. CASE Ran(L)
  <2>1. reply'[L] = reply[L]
    BY <1>1, <1>2, <1>4, RunEffect, SecondJobEffect DEF OthersKept, Engine, Ran, Select
  <2>2. Filling(L, n)
    BY <1>1, <1>2, <1>4, <2>1 DEF Filling
  <2>3. ASSUME NEW k \in Nat, NEW a \in Admins, Ahead(L, a, k), Busy(a)
        PROVE  Ahead(L, a, k)'
    BY <1>1, <1>4, <2>3, AheadWhenEngine DEF Ran, Busy
  <2>4. ASSUME NEW a \in Admins, Ahead(L, a, 0) PROVE Ahead(L, a, 0)'
    BY <1>1, <2>3, <2>4, AheadIsBusy
  <2>5. CASE rows'[n] = rows[n]
    <3>1. ASSUME NEW a \in Admins, Removing(a, n), Ahead(L, a, 0)
          PROVE  Removing(a, n)' /\ Ahead(L, a, 0)'
      BY <2>4, <3>1, EngineKeepsReason
    <3>2. ASSUME NEW a \in Admins, rows'[n] # NoRow, StaleReason(L, a, n)
          PROVE  StaleReason(L, a, n)'
      <4>1. CASE Removing(a, n) /\ Ahead(L, a, 0)
        BY <3>1, <4>1 DEF StaleReason
      <4>2. CASE Writing(a, n) /\ Ahead(L, a, 2)
        <5>1. Ahead(L, a, 2)'
          BY <2>3, <4>2 DEF Writing, Ran, Busy
        <5> QED
          BY <4>2, <5>1, EngineKeepsReason DEF StaleReason
      <4>3. CASE Rereading(a, n) /\ Ahead(L, a, 0)
        <5>1. Ahead(L, a, 0)'
          BY <2>4, <4>3
        <5> QED
          BY <3>2, <4>3, <5>1, EngineKeepsReason DEF StaleReason
      <4>4. CASE Broken(a, n)
        BY <4>4, EngineKeepsReason DEF StaleReason
      <4> QED
        BY <3>2, <4>1, <4>2, <4>3, <4>4 DEF StaleReason
    <3>3. rows'[n] = NoRow => \E a \in Admins : Removing(a, n)' /\ Ahead(L, a, 0)'
      BY <1>1, <2>2, <2>5, <3>1 DEF FillControl
    <3>4. Stale(PairOf(reply[L][n]), n)' => \E a \in Admins : StaleReason(L, a, n)
      BY <1>1, <2>1, <2>2, <2>5 DEF FillControl, Stale
    <3>5. Stale(PairOf(reply[L][n]), n)' => rows'[n] # NoRow
      BY DEF Stale
    <3> QED
      BY <3>2, <3>3, <3>4, <3>5
  <2>6. CASE rows'[n] # rows[n]
    <3>1. /\ t \in Admins /\ Execute(t)
          /\ IF rows'[n] = NoRow THEN Removing(t, n)' ELSE Writing(t, n)'
      BY <2>6, EngineGivesReason
    <3>2. Ahead(L, t, 0)' /\ Ahead(L, t, 2)'
      BY <1>1, <1>4, <3>1, AheadWhenRun
    <3> QED
      BY <3>1, <3>2 DEF StaleReason, Stale
  <2> QED
    BY <2>5, <2>6
<1> QED
  BY <1>3, <1>4

-----------------------------------------------------------------------------
(* A move keeps them: a reason goes over into the next one, or is acted on.   *)

LEMMA ReasonStays ==
  ASSUME IInv, NEW t \in Tasks, CacheMove(t), NEW n \in Names, NEW a \in Admins \ {t}
  PROVE  /\ Removing(a, n) => Removing(a, n)'
         /\ Writing(a, n) => Writing(a, n)'
         /\ Rereading(a, n) => Rereading(a, n)'
<1>1. TasksKept(t) /\ rows' = rows /\ a \in Tasks \ {t}
  BY MoveCalls, AdminIsTask
<1>2. at'[a] = at[a] /\ asked'[a] = asked[a] /\ reply'[a] = reply[a] /\ phase'[a] = phase[a]
  BY <1>1 DEF TasksKept, OthersKept
<1> QED
  BY <1>1, <1>2 DEF Removing, Writing, Rereading, Asks, Ran

\* What an administrator at work on n does.
LEMMA AdminMove ==
  ASSUME IInv, NEW a \in Admins, CacheMove(a), at[a] # "idle"
  PROVE  /\ asked'[a] = asked[a]
         /\ \/ AdminCheck(a) \/ AdminWrite(a) \/ AdminReread(a) \/ AdminFails(a)
            \/ AdminForget(a)
<1>1. a \notin Callers
  BY AdminIsTask
<1> QED
  BY <1>1 DEF CacheMove, Administer, AdminReceive, AdminCheck, AdminWrite, AdminReread,
              AdminFails, AdminForget, adminVars

LEMMA RemovingMoves ==
  ASSUME IInv, NEW a \in Admins, CacheMove(a), NEW n \in Names, Removing(a, n)
  PROVE  \/ at[a] = "forget" /\ filterCache'[n] = Miss
         \/ Removing(a, n)' /\ HasResult(a) /\ filterCache' = filterCache
<1>1. /\ asked[a].op = "delete" /\ Subject(a) = n /\ at[a] \in {"write", "forget"}
      /\ at[a] = "write" => Ran(a)
      /\ CallTypeOK /\ AdminInv(a) /\ a \in Tasks
  BY TypeOKParts, AdminIsTask DEF Removing, Asks, Subject, IInv
<1>2. asked'[a] = asked[a]
  BY <1>1, AdminMove
<1>3. CASE AdminForget(a)
  BY <1>1, <1>3 DEF AdminForget, Invalidate, CallTypeOK
<1>4. CASE AdminWrite(a)
  <2>1. at'[a] = "forget" /\ filterCache' = filterCache /\ HasResult(a)
    BY <1>1, <1>4 DEF AdminWrite, Go, CallTypeOK, Return
  <2> QED
    BY <1>2, <2>1 DEF Removing, Asks
<1>5. ~AdminFails(a)
  BY <1>1 DEF AdminFails, Raise, HasError, Ran, AdminInv
<1> QED
  BY <1>1, <1>3, <1>4, <1>5, AdminMove DEF AdminCheck, AdminReread

LEMMA WritingMoves ==
  ASSUME IInv, NEW a \in Admins, CacheMove(a), NEW n \in Names, Writing(a, n),
         rows[n] # NoRow
  PROVE  Rereading(a, n)' /\ (\E s : Chain(a, s)) /\ filterCache' = filterCache
<1>1. /\ asked[a].op \in {"register", "patch"} /\ Subject(a) = n /\ at[a] = "write"
      /\ Ran(a) /\ CallTypeOK /\ DbTypeOK /\ a \in Tasks /\ rows' = rows
  BY TypeOKParts, AdminIsTask, MoveCalls DEF Writing, Asks, Subject, IInv
<1>2. asked'[a] = asked[a]
  BY <1>1, AdminMove
<1>3. ~AdminFails(a)
  BY <1>1 DEF AdminFails, Raise, HasError, Ran
<1>4. AdminWrite(a)
  BY <1>1, <1>3, AdminMove DEF AdminCheck, AdminReread, AdminForget
<1>5. Chain(a, Select(n)) /\ at'[a] = "reread" /\ filterCache' = filterCache
  BY <1>1, <1>4 DEF AdminWrite, Go, CallTypeOK
<1>6. phase'[a] = "queued"
  BY <1>1, <1>5, ChainEffect
<1> QED
  BY <1>1, <1>2, <1>5, <1>6 DEF Rereading, Writing, Asks, Ran

LEMMA RereadingMoves ==
  ASSUME IInv, NEW a \in Admins, CacheMove(a), NEW n \in Names, Rereading(a, n)
  PROVE  \/ filterCache'[n] = Miss /\ HasResult(a)
         \/ Broken(a, n)' /\ filterCache' = filterCache
<1>1. /\ asked[a].op \in {"register", "patch"} /\ Subject(a) = n /\ at[a] = "reread"
      /\ CallTypeOK /\ a \in Tasks
  BY TypeOKParts, AdminIsTask DEF Rereading, Asks, Subject, IInv
<1>2. asked'[a] = asked[a]
  BY <1>1, AdminMove
<1>3. CASE AdminReread(a)
  <2>1. HasResult(a) /\ Ran(a) /\ phase[a] # "failed"
    BY <1>3 DEF AdminReread, Return, HasResult, Ran
  <2>2. Forgets(a)
    BY <1>1, <2>1 DEF Rereading, Forgets, Found
  <2> QED
    BY <1>1, <1>3, <2>1, <2>2 DEF AdminReread, Invalidate, CallTypeOK
<1>4. CASE AdminFails(a)
  <2>1. at'[a] = "aborted" /\ filterCache' = filterCache
    BY <1>1, <1>4 DEF AdminFails, Go, CallTypeOK
  <2> QED
    BY <1>2, <2>1 DEF Rereading, Asks, Broken
<1> QED
  BY <1>1, <1>3, <1>4, AdminMove DEF AdminCheck, AdminWrite, AdminForget

LEMMA BrokenStays ==
  ASSUME IInv, NEW t \in Tasks, CacheMove(t), NEW n \in Names, NEW a \in Admins, Broken(a, n)
  PROVE  Broken(a, n)'
<1>1. TasksKept(t) /\ a \in Tasks /\ phase[a] = "idle" /\ at[a] = "aborted"
  BY MoveCalls, AdminIsTask DEF Broken, IInv, AdminInv
<1>2. CASE a # t
  BY <1>1, <1>2 DEF TasksKept, Broken
<1>3. CASE a = t
  BY <1>1, <1>3, AdminMove
     DEF AdminCheck, AdminWrite, AdminReread, AdminFails, AdminForget, Raise, HasError
<1> QED
  BY <1>2, <1>3

\* What a move does to the cached lists of n.
LEMMA CacheMoves ==
  ASSUME IInv, NEW t \in Tasks, CacheMove(t), NEW n \in Names
  PROVE  \/ filterCache'[n] \in {filterCache[n], Miss}
         \/ t \in Callers /\ Filling(t, n) /\ filterCache'[n] = PairOf(reply[t][n])
<1>1. filterCache \in [Names -> {Miss} \cup (Filters \X Filters)]
  BY TypeOKParts DEF IInv, CallTypeOK
<1>2. ASSUME NEW m, Invalidate(m) PROVE filterCache'[n] \in {filterCache[n], Miss}
  BY <1>1, <1>2 DEF Invalidate
<1>3. CASE t \in Callers /\ CheckFilters(t)
  <2>1. at[t] = "filters" /\ Ran(t) /\ filterCache' = Fill(Server(t), RowOf(t))
    BY <1>3 DEF CheckFilters, Return, HasResult, Ran
  <2>2. CASE RowOf(t) = NoRow \/ Server(t) # n
    BY <1>1, <2>1, <2>2 DEF Fill
  <2>3. CASE RowOf(t) # NoRow /\ Server(t) = n
    BY <1>1, <1>3, <2>1, <2>3 DEF Fill, Filling, RowOf
  <2> QED
    BY <2>2, <2>3
<1>4. CASE t \in Callers /\ ~CheckFilters(t)
  <2>1. filterCache' = filterCache
    BY <1>4, CallTasks
       DEF CacheMove, Receive, Handle, Locate, CheckServer, LookupFails, Judge,
           PolicyAnswers, Upstream, Send, UpstreamFails, UpstreamAnswers
  <2> QED
    BY <2>1
<1>5. CASE t \in Admins
  <2>1. filterCache' = filterCache \/ Invalidate(Subject(t))
    BY <1>5, CallTasks
       DEF CacheMove, AdminReceive, Administer, AdminCheck, AdminWrite, AdminReread,
           AdminFails, AdminForget
  <2> QED
    BY <1>2, <2>1
<1> QED
  BY <1>3, <1>4, <1>5 DEF CacheMove

\* A call that is about to cache the lists was before, and does not move.
LEMMA FillsBefore ==
  ASSUME IInv, NEW t \in Tasks, CacheMove(t), NEW n \in Names, NEW L \in Callers,
         Filling(L, n)'
  PROVE  L # t /\ Filling(L, n) /\ reply'[L] = reply[L]
<1>1. /\ TasksKept(t) /\ L \in Tasks /\ L \notin Admins /\ DbTypeOK /\ CallTypeOK
  BY MoveCalls, CallerIsTask, TypeOKParts DEF IInv
<1>2. L # t
  <2> SUFFICES ASSUME L = t PROVE FALSE
    OBVIOUS
  <2>1. at'[t] = "filters" /\ Ran(t)'
    BY DEF Filling
  <2>2. at'[t] = "filters" => \E s : Chain(t, s)
    <3>1. ASSUME NEW l, Go(t, l) PROVE at'[t] = l
      BY <1>1, <3>1 DEF Go, CallTypeOK
    <3>2. ASSUME NEW lists, PastGates(t, lists) PROVE at'[t] # "filters"
      BY <3>1, <3>2 DEF PastGates, Tell
    <3> QED
      BY <1>1, <2>1, <3>1, <3>2
         DEF CacheMove, Receive, Route, Handle, Locate, CheckServer, CheckFilters,
             LookupFails, Judge, PolicyAnswers, Upstream, Send, UpstreamFails,
             UpstreamAnswers, Tell
  <2>3. phase'[t] = "queued"
    BY <1>1, <2>1, <2>2, ChainEffect
  <2> QED
    BY <2>1, <2>3 DEF Ran
<1> QED
  BY <1>1, <1>2 DEF Filling, Server, TasksKept, CallerSteady, OthersKept, Ran

LEMMA MoveKeepsCacheControl ==
  ASSUME IInv, CacheInv, NEW t \in Tasks, CacheMove(t), NEW n \in Names
  PROVE  CacheControl(n)'
<1>1. rows' = rows /\ CacheControl(n)
  BY MoveCalls DEF CacheInv
<1>2. ASSUME NEW a \in Admins, Removing(a, n)
      PROVE  Removing(a, n)' \/ filterCache'[n] = Miss
  BY <1>2, ReasonStays, RemovingMoves
<1>3. ASSUME NEW a \in Admins, Writing(a, n), rows[n] # NoRow
      PROVE  Writing(a, n)' \/ Rereading(a, n)'
  BY <1>3, ReasonStays, WritingMoves
<1>4. ASSUME NEW a \in Admins, Rereading(a, n)
      PROVE  Rereading(a, n)' \/ Broken(a, n)' \/ filterCache'[n] = Miss
  BY <1>4, ReasonStays, RereadingMoves
<1>5. \A a \in Admins : Broken(a, n) => Broken(a, n)'
  BY BrokenStays
<1>6. ASSUME filterCache'[n] # Miss, rows[n] = NoRow
      PROVE  \E a \in Admins : Removing(a, n)
  <2>1. CASE filterCache'[n] = filterCache[n]
    BY <1>1, <1>6, <2>1 DEF CacheControl
  <2>2. CASE t \in Callers /\ Filling(t, n)
    BY <1>6, <2>2 DEF CacheInv, FillControl
  <2> QED
    BY <1>6, <2>1, <2>2, CacheMoves
<1>7. ASSUME filterCache'[n] # Miss, rows[n] # NoRow, filterCache'[n] # PairOf(rows[n])
      PROVE  \E a \in Admins :
               Removing(a, n) \/ Writing(a, n) \/ Rereading(a, n) \/ Broken(a, n)
  <2>1. CASE filterCache'[n] = filterCache[n]
    BY <1>1, <1>7, <2>1 DEF CacheControl, Stale
  <2>2. CASE t \in Callers /\ Filling(t, n) /\ filterCache'[n] = PairOf(reply[t][n])
    <3>1. Stale(PairOf(reply[t][n]), n) /\ FillControl(t, n)
      BY <1>7, <2>2 DEF Stale, CacheInv
    <3> QED
      BY <2>2, <3>1 DEF FillControl, StaleReason
  <2> QED
    BY <1>7, <2>1, <2>2, CacheMoves
<1> QED
  BY <1>1, <1>2, <1>3, <1>4, <1>5, <1>6, <1>7 DEF CacheControl, Stale

LEMMA MoveKeepsFillControl ==
  ASSUME IInv, CacheInv, Backend = "sqlite", NEW t \in Tasks, CacheMove(t), NEW n \in Names,
         NEW L \in Callers
  PROVE  FillControl(L, n)'
<1> SUFFICES ASSUME Filling(L, n)'
             PROVE  /\ rows'[n] = NoRow =>
                         \E a \in Admins : Removing(a, n)' /\ Ahead(L, a, 0)'
                    /\ Stale(PairOf(reply[L][n]), n)' =>
                         \E a \in Admins : StaleReason(L, a, n)'
  BY DEF FillControl
<1>1. L # t /\ Filling(L, n) /\ reply'[L] = reply[L]
  BY FillsBefore
<1>2. /\ rows' = rows /\ DbTypeOK /\ DbCall(t) /\ FillControl(L, n) /\ QueueOK
      /\ L \in Tasks /\ L \notin Admins /\ Admins \subseteq Tasks
  BY MoveCalls, CallTasks, TypeOKParts DEF IInv, CacheInv
<1>3. ASSUME NEW k \in Nat, NEW a \in Admins \ {t}, Ahead(L, a, k) PROVE Ahead(L, a, k)'
  <2>1. QueueMove(t)
    BY <1>2, MovesInQueue
  <2> QED
    BY <1>1, <1>2, <1>3, <2>1, AheadOfOthers
<1>4. ASSUME HasResult(t), Ahead(L, t, 0) PROVE FALSE
  BY <1>2, <1>4, NobodyAhead
<1>5. ASSUME NEW a \in Admins, Removing(a, n), Ahead(L, a, 0)
      PROVE  Removing(a, n)' /\ Ahead(L, a, 0)'
  <2>1. CASE a # t
    BY <1>3, <1>5, <2>1, ReasonStays
  <2>2. CASE a = t
    <3>1. at[a] # "forget"
      <4>1. phase[a] # "idle"
        BY <1>2, <1>5, AheadIsBusy DEF Busy
      <4> QED
        BY <4>1 DEF IInv, AdminInv
    <3> QED
      BY <1>4, <1>5, <2>2, <3>1, RemovingMoves
  <2> QED
    BY <2>1, <2>2
<1>6. ASSUME NEW a \in Admins, rows[n] # NoRow, StaleReason(L, a, n)
      PROVE  StaleReason(L, a, n)'
  <2>1. CASE Removing(a, n) /\ Ahead(L, a, 0)
    BY <1>5, <2>1 DEF StaleReason
  <2>2. CASE Writing(a, n) /\ Ahead(L, a, 2)
    <3>1. CASE a # t
      BY <1>3, <2>2, <3>1, ReasonStays DEF StaleReason
    <3>2. CASE a = t
      <4>1. Rereading(a, n)' /\ \E s : Chain(a, s)
        BY <1>6, <2>2, <3>2, WritingMoves
      <4>2. Busy(L)
        BY <1>1 DEF Filling, Ran, Busy
      <4>3. Ahead(L, a, 0)'
        BY <1>2, <2>2, <4>1, <4>2, AheadWhenChained
      <4> QED
        BY <4>1, <4>3 DEF StaleReason
    <3> QED
      BY <3>1, <3>2
  <2>3. CASE Rereading(a, n) /\ Ahead(L, a, 0)
    <3>1. CASE a # t
      BY <1>3, <2>3, <3>1, ReasonStays DEF StaleReason
    <3>2. CASE a = t
      BY <1>4, <2>3, <3>2, RereadingMoves DEF StaleReason
    <3> QED
      BY <3>1, <3>2
  <2>4. CASE Broken(a, n)
    BY <2>4, BrokenStays DEF StaleReason
  <2> QED
    BY <1>6, <2>1, <2>2, <2>3, <2>4 DEF StaleReason
<1>7. rows'[n] = NoRow => \E a \in Admins : Removing(a, n)' /\ Ahead(L, a, 0)'
  BY <1>1, <1>2, <1>5 DEF FillControl
<1>8. ASSUME Stale(PairOf(reply[L][n]), n)' PROVE \E a \in Admins : StaleReason(L, a, n)'
  <2>1. rows[n] # NoRow /\ Stale(PairOf(reply[L][n]), n)
    BY <1>1, <1>2, <1>8 DEF Stale
  <2>2. \E a \in Admins : StaleReason(L, a, n)
    BY <1>1, <1>2, <2>1 DEF FillControl
  <2> QED
    BY <1>6, <2>1, <2>2
<1> QED
  BY <1>7, <1>8

LEMMA NextCacheInv ==
  ASSUME IInv, CacheInv, Backend = "sqlite", [Next]_vars
  PROVE  CacheInv'
<1>1. DbTypeOK
  BY TypeOKParts DEF IInv
<1>2. CASE UNCHANGED <<dbVars, at, target, asked, filterCache>>
  BY <1>2
     DEF dbVars, CacheInv, QueueOK, OwnOrder, Subject, Busy, CacheControl, FillControl,
         StaleReason, Removing, Writing, Rereading, Broken, Asks, Filling, Server, Stale,
         Ran, Ahead, Left, Before
<1>3. ASSUME NEW t \in Tasks, EngineStep(t) PROVE CacheInv'
  <2>1. QueueOK'
    BY <1>1, <1>3, EngineKeepsQueue DEF CacheInv, EngineStep
  <2>2. \A a \in Admins : OwnOrder(a)'
    BY <1>3, EngineKeepsOrders DEF CacheInv
  <2> QED
    BY <1>3, <2>1, <2>2, EngineKeepsCacheControl, EngineKeepsFillControl DEF CacheInv
<1>4. ASSUME NEW t \in Tasks, CacheMove(t) PROVE CacheInv'
  <2>1. QueueOK'
    BY <1>1, <1>4, MoveCalls, CallKeepsQueue DEF CacheInv
  <2>2. \A a \in Admins : OwnOrder(a)'
    BY <1>4, MoveKeepsOrders DEF CacheInv
  <2> QED
    BY <1>4, <2>1, <2>2, MoveKeepsCacheControl, MoveKeepsFillControl DEF CacheInv
<1>5. CASE UNCHANGED vars
  BY <1>2, <1>5 DEF vars, callVars, adminVars
<1>6. CASE Step
  <2>1. ASSUME NEW n \in Names, NEW found \in Catalogs, Discovered(n, found) PROVE CacheInv'
    BY <1>2, <2>1 DEF Discovered, callVars
  <2> QED
    BY <1>3, <1>4, <1>6, <2>1, CallTasks DEF Step, CacheMove
<1> QED
  BY <1>5, <1>6 DEF Next

LEMMA InitCacheInv == ASSUME Init PROVE CacheInv
<1>1. /\ \A n \in Names : filterCache[n] = Miss
      /\ \A t \in Tasks : phase[t] = "idle" /\ at[t] = "idle"
      /\ order = <<>> /\ Callers \subseteq Tasks /\ Admins \subseteq Tasks
  BY CallTasks DEF Init, DbInit
<1>2. QueueOK
  BY <1>1 DEF QueueOK, Queues
<1> QED
  BY <1>1, <1>2 DEF CacheInv, OwnOrder, CacheControl, FillControl, Filling

\* On SQLite the lists that are cached for a server are those of its row whenever no
\* administrative request on it is in progress or has broken off after its write:
\* calls cache what they read without cache_lock, and only the order in which the
\* connection serves its jobs lets them do so before the cache is invalidated
\* (_server_filters, invalidate_filter_cache).
THEOREM CallsKeepTheCache == ASSUME Backend = "sqlite" PROVE Spec => []CacheAgrees
<1>1. Init => IInv /\ CacheInv
  BY InitInv, InitCacheInv
<1>2. IInv /\ CacheInv /\ [Next]_vars => IInv' /\ CacheInv'
  BY StepInv, NextCacheInv
<1>3. IInv /\ CacheInv => CacheAgrees
  <2>1. ASSUME NEW a \in Admins, NEW n \in Names,
               Removing(a, n) \/ Writing(a, n) \/ Rereading(a, n) \/ Broken(a, n)
        PROVE  AdminBusy(n)
    BY <2>1 DEF Removing, Writing, Rereading, Broken, Asks, AdminBusy
  <2> QED
    BY <2>1 DEF CacheInv, CacheControl, Stale, CacheAgrees
<1> QED
  BY <1>1, <1>2, <1>3, PTL DEF Spec

=============================================================================
