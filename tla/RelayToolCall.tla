---------------------------- MODULE RelayToolCall ----------------------------
(***************************************************************************)
(* Tool calls through relay-mcp (src/src/mcp_relay/main.py): the REST      *)
(* endpoint POST /api/proxy/execute ("execute"), the legacy endpoint POST  *)
(* /mcp/tools/call ("legacy") and the method tools/call of an MCP session  *)
(* ("mcp").  Each routes the call by its name, looks the server up, puts   *)
(* the call through the server's lists, the caller's surface and the       *)
(* policy backend, and sends it to the place the first lookup returned.    *)
(* Between those steps it awaits, and administrators change the registry.  *)
(*                                                                         *)
(* Administrators are the requests of RelayCatalog reduced to what a call  *)
(* can notice: their statements, and when they drop what is cached.  What  *)
(* a call changes in RelayCatalog's state is the filter cache.             *)
(***************************************************************************)
EXTENDS RelayDb, RelayNames, RelayPrincipals

CONSTANTS Callers,    \* tasks that serve a call
          Admins,     \* tasks that serve an administrative request
          Calls,      \* the calls that may be made
          Orders,     \* the administrative requests that may be made
          Catalogs,   \* what a discovery may leave in tool_cache
          Config,     \* the principals the relay was started with
          Verdicts,   \* what the policy backend may come back with
          FailOpen,   \* POLICY_FAIL_OPEN
          Miss,       \* no entry in _filter_cache
          NoCall, NoOrder, NoTarget, NoUrl, NotSent

Paths == {"execute", "legacy", "mcp"}
OrderSet == [op : {"register"}, name : Names, columns : Columns]
              \cup [op : {"patch"}, name : Names, change : Changes]
              \cup [op : {"delete"}, name : Names]

\* What goes upstream.
Sent == [server : Names, tool : Tools, url : Urls, args : {"given", "redacted"}]

ASSUME CallTasks == Tasks = Callers \cup Admins /\ Callers \cap Admins = {}
ASSUME CallAssumption ==
  /\ NoCall \notin Calls
  /\ \A r \in Calls :
       /\ r.path \in Paths /\ r.meta \in BOOLEAN /\ r.id \in Seq(Parts)
       /\ IF Qualified(r.id) THEN Split(r.id) \in Names \X Tools ELSE r.id \in Tools
ASSUME OrderAssumption == Orders \subseteq OrderSet /\ NoOrder \notin OrderSet
ASSUME CatalogAssumption == Catalogs \subseteq SUBSET Tools
ASSUME ConfigAssumption == Len(Config) \in Nat /\ Loads(Config)
ASSUME VerdictAssumption ==
  /\ Verdicts \subseteq {"pass", "redact", "reject", "error"}
  /\ FailOpen \in BOOLEAN
ASSUME CallAbsentValues ==
  /\ \A p \in Filters \X Filters : p # Miss
  /\ NoUrl \notin Urls /\ NoTarget \notin Names \X Tools /\ NotSent \notin Sent

VARIABLES at,           \* where each task is suspended
          call,         \* the call each caller serves
          target,       \* the server and tool it was routed to
          held,         \* the endpoint of the row the call goes on with
          verdict,      \* the policy's verdict on the call
          sent,         \* what was sent upstream for it
          answer,       \* how it was answered
          asked,        \* what each administrator asked for
          filterCache,  \* _filter_cache
          toolCache,    \* tool_cache
          hosts,        \* observed: where servers were registered during the call,
          open,         \*   the tools that the lists let through,
          callable      \*   those let through while their server was registered

callVars == <<call, target, held, verdict, sent, answer>>
adminVars == <<asked, toolCache>>
observed == <<hosts, open, callable>>
vars == <<dbVars, at, callVars, adminVars, filterCache, observed>>

Locations == {"idle", "locate", "server", "filters", "policy", "send", "upstream",
              "check", "write", "reread", "forget", "aborted", "done"}
Answers == {"bad_meta", "bad_id", "unauthenticated", "no_tool", "no_server",
            "filtered", "surface", "policy", "failed", "result"}

Init ==
  /\ DbInit
  /\ at = [t \in Tasks |-> "idle"]
  /\ call = [c \in Callers |-> NoCall]
  /\ target = [c \in Callers |-> NoTarget]
  /\ held = [c \in Callers |-> NoUrl]
  /\ verdict = [c \in Callers |-> "none"]
  /\ sent = [c \in Callers |-> NotSent]
  /\ answer = [c \in Callers |-> "none"]
  /\ asked = [a \in Admins |-> NoOrder]
  /\ filterCache = [n \in Names |-> Miss]
  /\ toolCache = [n \in Names |-> {}]
  /\ hosts = [c \in Callers |-> {}]
  /\ open = [c \in Callers |-> {}]
  /\ callable = [c \in Callers |-> {}]

TypeOK ==
  /\ DbTypeOK
  /\ at \in [Tasks -> Locations]
  /\ call \in [Callers -> Calls \cup {NoCall}]
  /\ target \in [Callers -> (Names \X Tools) \cup {NoTarget}]
  /\ held \in [Callers -> Urls \cup {NoUrl}]
  /\ verdict \in [Callers -> Verdicts \cup {"none"}]
  /\ sent \in [Callers -> Sent \cup {NotSent}]
  /\ answer \in [Callers -> Answers \cup {"none"}]
  /\ asked \in [Admins -> Orders \cup {NoOrder}]
  /\ filterCache \in [Names -> {Miss} \cup (Filters \X Filters)]
  /\ toolCache \in [Names -> SUBSET Tools]
  /\ hosts \in [Callers -> SUBSET (Names \X (Urls \cup {NoUrl}))]
  /\ open \in [Callers -> SUBSET (Names \X Tools)]
  /\ callable \in [Callers -> SUBSET (Names \X Tools)]

-----------------------------------------------------------------------------
(* Gates that do not suspend.                                              *)

Go(t, l) == at' = [at EXCEPT ![t] = l]
Tell(c, a) == answer' = [answer EXCEPT ![c] = a] /\ Go(c, "done")

\* _resolve_principal: the execute endpoint does not ask who calls.
Identified(r) == r.path # "execute" /\ Shared(Config)
Known(r) == Identified(r) => Resolve(Config, r.token) # Nobody
Reaches(r, n) == Identified(r) => AllowsServer(Resolve(Config, r.token), n)

\* enforce_policy is called by the legacy endpoint and by tools/call.
Judged(r) == r.path # "execute"

\* PolicyClientError: fail_open decides.
Favourable(v) == v \in {"pass", "redact"} \/ (v = "error" /\ FailOpen)
Payload(r, v) == IF Judged(r) /\ v = "redact" THEN "redacted" ELSE "given"

\* Refusals of a call before its first await: a session's identity is asked for
\* before its message is read.
Flawed(r) == ~r.meta \/ ~Known(r) \/ (r.path = "execute" /\ ~Qualified(r.id))
FirstFlaw(r) ==
  IF ~Known(r) /\ (r.path = "mcp" \/ r.meta) THEN "unauthenticated"
  ELSE IF ~r.meta THEN "bad_meta" ELSE "bad_id"

-----------------------------------------------------------------------------
(* A call.                                                                 *)

Server(c) == target[c][1]
Tool(c) == target[c][2]
RowOf(c) == reply[c][Server(c)]

Route(c, n, tool) ==
  /\ target' = [target EXCEPT ![c] = <<n, tool>>]
  /\ Submit(c, Select(n))
  /\ Go(c, "server")

Receive(c, r) ==
  /\ at[c] = "idle"
  /\ call' = [call EXCEPT ![c] = r]
  /\ \/ /\ Flawed(r)
        /\ Tell(c, FirstFlaw(r))
        /\ UNCHANGED <<dbVars, target>>
     \/ /\ ~Flawed(r) /\ Qualified(r.id)
        /\ Route(c, Split(r.id)[1], Split(r.id)[2])
        /\ UNCHANGED answer
     \/ /\ ~Flawed(r) /\ ~Qualified(r.id)
        /\ Go(c, "locate")
        /\ UNCHANGED <<dbVars, target, answer>>
  /\ UNCHANGED <<held, verdict, sent, adminVars, filterCache>>

\* A bare name is looked up in tool_cache, under cache_lock: the first server
\* that lists it, in the order of the dict, whatever its lists say.
Owners(tool) == {n \in Names : tool \in toolCache[n]}

Locate(c) ==
  /\ at[c] = "locate"
  /\ \/ /\ Owners(call[c].id) = {}
        /\ Tell(c, "no_tool")
        /\ UNCHANGED <<dbVars, target>>
     \/ /\ \E n \in Owners(call[c].id) : Route(c, n, call[c].id)
        /\ UNCHANGED answer
  /\ UNCHANGED <<call, held, verdict, sent, adminVars, filterCache>>

\* The lists, then the caller's surface, then the policy.  (Variants for the
\* mutants: the surface, or the lists, are for listings only.)
PastLists(c, lists) ==
  IF ~Allowed(Tool(c), lists) THEN Tell(c, "filtered")
  ELSE Go(c, IF Judged(call[c]) THEN "policy" ELSE "send") /\ UNCHANGED answer
PastSurface(c, lists) ==
  IF ~Reaches(call[c], Server(c)) THEN Tell(c, "surface")
  ELSE Go(c, IF Judged(call[c]) THEN "policy" ELSE "send") /\ UNCHANGED answer
PastGates(c, lists) ==
  IF ~Allowed(Tool(c), lists) THEN Tell(c, "filtered")
  ELSE IF ~Reaches(call[c], Server(c)) THEN Tell(c, "surface")
  ELSE Go(c, IF Judged(call[c]) THEN "policy" ELSE "send") /\ UNCHANGED answer

\* get_server; the lists come from the cache or from a second lookup.
CheckServer(c) ==
  /\ at[c] = "server"
  /\ \/ /\ RowOf(c) = NoRow
        /\ Return(c)
        /\ Tell(c, "no_server")
        /\ UNCHANGED held
     \/ /\ RowOf(c) # NoRow
        /\ held' = [held EXCEPT ![c] = RowOf(c).url]
        /\ \/ /\ filterCache[Server(c)] # Miss
              /\ Return(c)
              /\ PastGates(c, filterCache[Server(c)])
           \/ /\ filterCache[Server(c)] = Miss
              /\ Chain(c, Select(Server(c)))
              /\ Go(c, "filters")
              /\ UNCHANGED answer
  /\ UNCHANGED <<call, target, verdict, sent, adminVars, filterCache>>

\* _server_filters: a server that is gone has no lists, and nothing is cached.
\* (Variant for the mutant: the pair of a server that is gone is cached.)
FillAlways(n, row) == [filterCache EXCEPT ![n] = PairOf(row)]
Fill(n, row) == IF row = NoRow THEN filterCache ELSE [filterCache EXCEPT ![n] = PairOf(row)]

CheckFilters(c) ==
  /\ at[c] = "filters"
  /\ Return(c)
  /\ filterCache' = Fill(Server(c), RowOf(c))
  /\ PastGates(c, PairOf(RowOf(c)))
  /\ UNCHANGED <<call, target, held, verdict, sent, adminVars>>

PolicyAnswers(c, v) ==
  /\ at[c] = "policy"
  /\ verdict' = [verdict EXCEPT ![c] = v]
  /\ IF Favourable(v) THEN Go(c, "send") /\ UNCHANGED answer ELSE Tell(c, "policy")
  /\ UNCHANGED <<dbVars, call, target, held, sent, adminVars, filterCache>>

\* execute_tool_on_server: a session with the endpoint, then call_tool.
\* (Variant for the mutant: the row is looked up again.)
CurrentUrl(c) == IF rows[Server(c)] = NoRow THEN NoUrl ELSE rows[Server(c)].url
SendTo(c) == held[c]

Send(c) ==
  /\ at[c] = "send"
  /\ sent' = [sent EXCEPT ![c] = [server |-> Server(c), tool |-> Tool(c),
                                  url |-> SendTo(c),
                                  args |-> Payload(call[c], verdict[c])]]
  /\ Go(c, "upstream")
  /\ UNCHANGED <<dbVars, call, target, held, verdict, answer, adminVars, filterCache>>

UpstreamFails(c) ==
  /\ at[c] \in {"send", "upstream"}
  /\ Tell(c, "failed")
  /\ UNCHANGED <<dbVars, call, target, held, verdict, sent, adminVars, filterCache>>

UpstreamAnswers(c) ==
  /\ at[c] = "upstream"
  /\ Tell(c, "result")
  /\ UNCHANGED <<dbVars, call, target, held, verdict, sent, adminVars, filterCache>>

\* (Variant for the mutant: the exception is swallowed.)
LookupForgotten(c) ==
  Raise(c) /\ UNCHANGED <<at, answer, call, target, held, verdict, sent, adminVars, filterCache>>
LookupFails(c) ==
  /\ Raise(c)
  /\ Tell(c, "failed")
  /\ UNCHANGED <<call, target, held, verdict, sent, adminVars, filterCache>>

-----------------------------------------------------------------------------
(* Administrators, and discoveries.                                        *)

Subject(a) == asked[a].name
Found(a) == reply[a][Subject(a)] # NoRow
Invalidate(n) == filterCache' = [filterCache EXCEPT ![n] = Miss]

StatementOf(o) ==
  IF o.op = "register" THEN Insert(o.name, o.columns)
  ELSE IF o.op = "patch" THEN Update(o.name, o.change)
  ELSE Delete(o.name)

AdminReceive(a, o) ==
  /\ at[a] = "idle"
  /\ asked' = [asked EXCEPT ![a] = o]
  /\ Submit(a, Select(o.name))
  /\ Go(a, "check")
  /\ UNCHANGED <<callVars, toolCache, filterCache>>

AdminCheck(a) ==
  /\ at[a] = "check"
  /\ IF Found(a) <=> (asked[a].op = "register")
     THEN Return(a) /\ Go(a, "done")
     ELSE Chain(a, StatementOf(asked[a])) /\ Go(a, "write")
  /\ UNCHANGED <<callVars, adminVars, filterCache>>

AdminWrite(a) ==
  /\ at[a] = "write"
  /\ IF asked[a].op = "delete"
     THEN Return(a) /\ Go(a, "forget")
     ELSE Chain(a, Select(Subject(a))) /\ Go(a, "reread")
  /\ UNCHANGED <<callVars, adminVars, filterCache>>

\* A PATCH whose row is gone by now leaves the cache alone.
Forgets(a) == asked[a].op = "register" \/ Found(a)

AdminReread(a) ==
  /\ at[a] = "reread"
  /\ Return(a)
  /\ Go(a, "done")
  /\ IF Forgets(a) THEN Invalidate(Subject(a)) ELSE UNCHANGED filterCache
  /\ UNCHANGED <<callVars, adminVars>>

\* Under cache_lock, for which it may have to wait.
AdminForget(a) ==
  /\ at[a] = "forget"
  /\ toolCache' = [toolCache EXCEPT ![Subject(a)] = {}]
  /\ Invalidate(Subject(a))
  /\ Go(a, "done")
  /\ UNCHANGED <<dbVars, callVars, asked>>

\* If the second lookup of a PATCH or of a registration raises, the row has been
\* written and the lists that were cached for it stay.
AdminFails(a) ==
  /\ Raise(a)
  /\ Go(a, IF at[a] = "reread" THEN "aborted" ELSE "done")
  /\ UNCHANGED <<callVars, adminVars, filterCache>>

\* A discovery of n ends, or a refresh drops n.  RelayCatalog says when; here it
\* may happen at any time.
Discovered(n, found) ==
  /\ toolCache' = [toolCache EXCEPT ![n] = found]
  /\ UNCHANGED <<dbVars, at, callVars, asked, filterCache>>

EngineStep(t) ==
  Engine(t) /\ UNCHANGED <<at, callVars, adminVars, filterCache>>

-----------------------------------------------------------------------------
(* The relay.                                                              *)

\* The lists of n let a tool through: those of its row, or those cached.
LetThrough(n, tool) ==
  \/ Allowed(tool, PairOf(rows[n]))
  \/ filterCache[n] # Miss /\ Allowed(tool, filterCache[n])
UrlOf(n) == IF rows[n] = NoRow THEN NoUrl ELSE rows[n].url

Serving(c) == call[c] # NoCall /\ answer[c] = "none"

\* What holds of the registry is noted for every call that is being served.
Observe ==
  /\ hosts' = [c \in Callers |->
       IF Serving(c)' THEN hosts[c] \cup {<<n, UrlOf(n)'>> : n \in Names} ELSE hosts[c]]
  /\ open' = [c \in Callers |->
       IF Serving(c)'
       THEN open[c] \cup {p \in Names \X Tools : LetThrough(p[1], p[2])'} ELSE open[c]]
  /\ callable' = [c \in Callers |->
       IF Serving(c)'
       THEN callable[c] \cup {p \in Names \X Tools : /\ rows'[p[1]] # NoRow
                                                     /\ LetThrough(p[1], p[2])'}
       ELSE callable[c]]

Handle(c) == Locate(c) \/ CheckServer(c) \/ CheckFilters(c) \/ LookupFails(c)
Judge(c) == \E v \in Verdicts : PolicyAnswers(c, v)
Upstream(c) == Send(c) \/ UpstreamFails(c) \/ UpstreamAnswers(c)
Administer(a) == AdminCheck(a) \/ AdminWrite(a) \/ AdminReread(a) \/ AdminFails(a)

Step ==
  \/ \E t \in Tasks : EngineStep(t)
  \/ \E c \in Callers :
       (\E r \in Calls : Receive(c, r)) \/ Handle(c) \/ Judge(c) \/ Upstream(c)
  \/ \E a \in Admins : (\E o \in Orders : AdminReceive(a, o)) \/ Administer(a) \/ AdminForget(a)
  \/ \E n \in Names, found \in Catalogs : Discovered(n, found)

Next == Step /\ Observe

Spec == Init /\ [][Next]_vars

\* The loop resumes what may be resumed: on SQLite a result that an administrator
\* does not take keeps those of the calls back.  A policy backend answers or times
\* out; nothing bounds an upstream server.
FairSpec ==
  /\ Spec
  /\ \A t \in Tasks : WF_dbVars(EngineStep(t))
  /\ \A a \in Admins : WF_at(Administer(a))
  /\ \A c \in Callers : WF_at(Handle(c)) /\ WF_at(Judge(c))

-----------------------------------------------------------------------------
(* Properties.                                                             *)

Args == {"given", "redacted"}
Principals == {Config[i] : i \in 1..Len(Config)}

\* What a call may be meant for: its qualified name, or its bare name anywhere.
Meant == [r \in Calls |->
            {p \in Names \X Tools : r.id = Join(p[1], p[2]) \/ r.id = p[2]}]
\* Servers that a principal holding the call's token is confined to, if any.
Entitled == [r \in Calls |->
  {n \in Names : r.path = "execute" \/ Config = <<>>
                 \/ \E p \in Principals :
                      /\ \E k \in 1..Len(p.tokens) : p.tokens[k] = r.token
                      /\ p.servers = AllServers \/ n \in p.servers}]

\* CallGate, seen through the relay's variables.
Gate == INSTANCE CallGate WITH
  Servers <- Names, Results <- Answers, Unjudged <- "none", Pending <- "none",
  Guarded <- {r \in Calls : Judged(r)},
  Passing <- {v \in Verdicts : Favourable(v)},
  Arguments <- [p \in Calls \X (Verdicts \cup {"none"}) |-> Payload(p[1], p[2])],
  url <- [n \in Names |-> UrlOf(n)],
  lets <- [n \in Names |-> {tool \in Tools : LetThrough(n, tool)}]

\* Every call goes through all of its gates before it is sent, whatever
\* administrators do between its awaits: see CallGate.
GatesHold == Gate!Spec

\* An administrative request on n is in progress, or broke off after its write.
AdminBusy(n) ==
  \E a \in Admins : asked[a] # NoOrder /\ asked[a].name = n /\ at[a] # "done"

\* Calls fill the filter cache without cache_lock, and still what is cached for
\* a server is what its row says once no administrator is at work on it.
CacheAgrees ==
  \A n \in Names :
    filterCache[n] # Miss /\ ~AdminBusy(n) =>
      rows[n] # NoRow /\ filterCache[n] = PairOf(rows[n])

\* A call that is sent could have been made at one single moment while it was
\* served, unless its server was removed meanwhile: the row and the lists are
\* two lookups.
SentWasCallable ==
  \A c \in Callers :
    sent[c] # NotSent =>
      \/ <<sent[c].server, sent[c].tool>> \in callable[c]
      \/ <<sent[c].server, NoUrl>> \in hosts[c]

\* A call is only ever sent for a tool that was let through while its server was
\* registered.
BlockedNotSent ==
  \A c \in Callers :
    sent[c] # NotSent => <<sent[c].server, sent[c].tool>> \in callable[c]

\* Without any upstream server's help a call is answered, or about to be sent.
CallsProceed ==
  \A c \in Callers :
    (call[c] # NoCall) ~> (at[c] \in {"send", "upstream", "done"})
-----------------------------------------------------------------------------
(* The inductive invariant behind the theorems of RelayToolCallProofs.     *)

CallerLocations ==
  {"idle", "locate", "server", "filters", "policy", "send", "upstream", "done"}

\* What holds now has been noted for every call that is being served.
Noted(c) ==
  Serving(c) =>
    \A n \in Names :
      /\ <<n, UrlOf(n)>> \in hosts[c]
      /\ \A tool \in Tools :
           LetThrough(n, tool) => /\ <<n, tool>> \in open[c]
                                  /\ rows[n] # NoRow => <<n, tool>> \in callable[c]

CallerControl(c) ==
  /\ at[c] \in CallerLocations
  /\ at[c] = "idle" <=> call[c] = NoCall
  /\ at[c] = "done" <=> answer[c] # "none"
  /\ IF at[c] \in {"server", "filters"} THEN stmt[c] = Select(Server(c))
                                        ELSE phase[c] = "idle"

\* A call that was refused at once has no target.
Routed(c) ==
  /\ at[c] = "locate" => ~Qualified(call[c].id)
  /\ at[c] \in {"locate", "server", "filters"} => Known(call[c])
  /\ at[c] \in {"server", "filters", "policy", "send"} => target[c] \in Meant[call[c]]

\* A row that a query returned was in the table while the call was served.
Seen(c) ==
  phase[c] \in {"executed", "finishing", "finished"} =>
    /\ at[c] = "server" /\ RowOf(c) # NoRow => <<Server(c), RowOf(c).url>> \in hosts[c]
    /\ at[c] = "filters" =>
         \A tool \in Tools :
           Allowed(tool, PairOf(RowOf(c))) =>
             /\ <<Server(c), tool>> \in open[c]
             /\ \/ <<Server(c), tool>> \in callable[c]
                \/ <<Server(c), NoUrl>> \in hosts[c]

\* What a call has passed by the time it waits for the policy, or is sent.
Passed(c) ==
  /\ at[c] \in {"filters", "policy", "send"} =>
       held[c] \in Urls /\ <<Server(c), held[c]>> \in hosts[c]
  /\ at[c] \in {"policy", "send"} =>
       /\ target[c] \in open[c]
       /\ target[c] \in callable[c] \/ <<Server(c), NoUrl>> \in hosts[c]
       /\ Server(c) \in Entitled[call[c]]

Sending(c) ==
  /\ at[c] \notin {"send", "upstream", "done"} => verdict[c] = "none"
  /\ at[c] = "policy" => Judged(call[c])
  /\ at[c] = "send" => (Judged(call[c]) => Favourable(verdict[c]))
  /\ at[c] \notin {"upstream", "done"} => sent[c] = NotSent
  /\ at[c] = "upstream" => sent[c] # NotSent
  /\ sent[c] # NotSent =>
       \/ <<sent[c].server, sent[c].tool>> \in callable[c]
       \/ <<sent[c].server, NoUrl>> \in hosts[c]

CallerInv(c) ==
  Noted(c) /\ CallerControl(c) /\ Routed(c) /\ Seen(c) /\ Passed(c) /\ Sending(c)

AdminInv(a) ==
  /\ at[a] \in {"idle", "check", "write", "reread", "forget", "aborted", "done"}
  /\ at[a] # "idle" => asked[a] \in Orders
  /\ at[a] \in {"check", "write", "reread"} \/ phase[a] = "idle"

IInv == TypeOK /\ (\A c \in Callers : CallerInv(c)) /\ (\A a \in Admins : AdminInv(a))
=============================================================================
