------------------------------ MODULE CallGate ------------------------------
(***************************************************************************)
(* What the relay promises about the calls it forwards, without saying     *)
(* how: a call reaches an upstream server only at a place where the server *)
(* was registered, and only for a tool that the lists let through, at some *)
(* time while the call was being served; only if its caller may reach that *)
(* server; only on a favourable verdict, with the arguments the verdict    *)
(* asks for; once; and never after it was refused.                         *)
(***************************************************************************)
CONSTANTS Callers, Servers, Tools, Urls, Calls, Verdicts, Results,
          NoCall, NoUrl, NotSent, Unjudged, Pending,
          Meant,       \* servers and tools each call may be meant for
          Entitled,    \* servers the caller of each call may reach
          Guarded,     \* calls that are put before the policy
          Passing,     \* verdicts that let a call through
          Arguments    \* what is sent for each call on each verdict

VARIABLES url,      \* where each server is registered, NoUrl if it is not
          lets,     \* the tools of each server that its lists let through
          call,     \* the call each caller has made
          hosts,    \* places where a server was registered since then
          open,     \* tools that were let through since then
          verdict,  \* what the policy said of the call
          sent,     \* what was sent upstream for it
          answer    \* what the caller was told

vars == <<url, lets, call, hosts, open, verdict, sent, answer>>

Facts(u, l) ==
  [hosts |-> {<<n, u[n]>> : n \in Servers},
   open  |-> {p \in Servers \X Tools : p[2] \in l[p[1]]}]

Init ==
  /\ url \in [Servers -> Urls \cup {NoUrl}]
  /\ lets \in [Servers -> SUBSET Tools]
  /\ call = [c \in Callers |-> NoCall]
  /\ hosts = [c \in Callers |-> {}]
  /\ open = [c \in Callers |-> {}]
  /\ verdict = [c \in Callers |-> Unjudged]
  /\ sent = [c \in Callers |-> NotSent]
  /\ answer = [c \in Callers |-> Pending]

\* While a call is being served, whatever the administrator changes counts for it.
Serving(c) == call[c] # NoCall /\ answer[c] = Pending
Witness ==
  /\ hosts' = [c \in Callers |->
                 IF Serving(c)' THEN hosts[c] \cup Facts(url', lets').hosts ELSE hosts[c]]
  /\ open' = [c \in Callers |->
                IF Serving(c)' THEN open[c] \cup Facts(url', lets').open ELSE open[c]]

Change ==
  /\ url' \in [Servers -> Urls \cup {NoUrl}]
  /\ lets' \in [Servers -> SUBSET Tools]
  /\ UNCHANGED <<call, verdict, sent, answer>>

Begin(c, r) ==
  /\ call[c] = NoCall
  /\ call' = [call EXCEPT ![c] = r]
  /\ UNCHANGED <<url, lets, verdict, sent, answer>>

Judge(c, v) ==
  /\ Serving(c) /\ call[c] \in Guarded /\ verdict[c] = Unjudged /\ sent[c] = NotSent
  /\ verdict' = [verdict EXCEPT ![c] = v]
  /\ UNCHANGED <<url, lets, call, sent, answer>>

Send(c, n, t, u) ==
  /\ Serving(c) /\ sent[c] = NotSent
  /\ <<n, t>> \in Meant[call[c]]
  /\ <<n, u>> \in hosts[c]
  /\ <<n, t>> \in open[c]
  /\ n \in Entitled[call[c]]
  /\ call[c] \in Guarded => verdict[c] \in Passing
  /\ sent' = [sent EXCEPT ![c] = [server |-> n, tool |-> t, url |-> u,
                                  args |-> Arguments[<<call[c], verdict[c]>>]]]
  /\ UNCHANGED <<url, lets, call, verdict, answer>>

\* Only a call that was sent has a result.
Reply(c, a) ==
  /\ Serving(c)
  /\ a = "result" => sent[c] # NotSent
  /\ answer' = [answer EXCEPT ![c] = a]
  /\ UNCHANGED <<call, sent>>

\* A refusal may be told in the step that finds it out.
Refuse(c, a) ==
  /\ Reply(c, a)
  /\ url' \in [Servers -> Urls \cup {NoUrl}] /\ lets' \in [Servers -> SUBSET Tools]
  /\ \/ UNCHANGED verdict
     \/ \E v \in Verdicts :
          /\ v \notin Passing /\ call[c] \in Guarded /\ verdict[c] = Unjudged
          /\ sent[c] = NotSent
          /\ verdict' = [verdict EXCEPT ![c] = v]

\* Some calls are refused as soon as they are made.
RefuseAtOnce(c, r, a) ==
  /\ call[c] = NoCall
  /\ call' = [call EXCEPT ![c] = r]
  /\ a # "result"
  /\ answer' = [answer EXCEPT ![c] = a]
  /\ UNCHANGED <<url, lets, verdict, sent>>

Next ==
  /\ \/ Change
     \/ \E c \in Callers :
          \/ \E r \in Calls : Begin(c, r) \/ \E a \in Results : RefuseAtOnce(c, r, a)
          \/ \E v \in Verdicts : Judge(c, v)
          \/ \E n \in Servers, t \in Tools, u \in Urls : Send(c, n, t, u)
          \/ \E a \in Results : Refuse(c, a)
  /\ Witness

Spec == Init /\ [][Next]_vars
=============================================================================
