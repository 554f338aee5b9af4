---------------------------- MODULE RelayPolicy ----------------------------
(***************************************************************************)
(* The content policy of relay-mcp (src/src/mcp_relay/policy/): what       *)
(* becomes of the arguments of one guarded tool call.  The relay flattens  *)
(* them into named fields, has a backend evaluate the fields, and forwards *)
(* the arguments, forwards them redacted, or denies the call.  A backend   *)
(* keeps no state between calls, so one call shows all it can do.          *)
(*                                                                         *)
(* A name is the sequence of its parts between dots.  The arguments of a   *)
(* call are a dict, here the sequence of its items.  A value is None, or   *)
(* its kind together with the text that str() or json.dumps makes of it.   *)
(* A glob is the set of tools it matches, a regex the set of texts in      *)
(* which it is found (fnmatch, re).                                        *)
(***************************************************************************)
EXTENDS Naturals, Sequences

CONSTANTS Segments,    \* parts of names
          Alias,       \* the part "arguments"
          Texts,       \* values as text
          Null,        \* None
          Unset,       \* a predicate or a list that is null in the rules file
          ToolIds,     \* "server__tool"
          Callers,     \* ids of principals
          Anonymous,   \* no principal: 1:1 mode
          Dicts,       \* the arguments a call may have
          RuleSets,    \* the rules files the relay may be started with
          Replies,     \* what a policy server may reply with
          Malformed,   \* a body that is no EvaluateResponse
          Broken       \* no reply: the request failed or timed out

Kinds == {"str", "number", "tree"}
Values == {Null} \cup [kind : Kinds, text : Texts]
Names == Seq(Segments) \ {<<>>}
Item == [key : Names, value : Values]

\* A dict has every key once.
IsDict(d) ==
  /\ d \in Seq(Item)
  /\ \A i, j \in 1..Len(d) : d[i].key = d[j].key => i = j

Predicates == [eq : Texts \cup {Unset}, ne : Texts \cup {Unset},
               in : {Unset} \cup SUBSET Texts, matches : {Unset} \cup SUBSET Texts]

IsRule(r) ==
  /\ r.tools \subseteq ToolIds
  /\ r.principals = Unset \/ r.principals \subseteq Callers
  /\ DOMAIN r.require \subseteq Names
  /\ \A f \in DOMAIN r.require : r.require[f] \in Predicates

\* A status, and the fields of an EvaluateResponse that decide something.
Decisions == {"pass", "reject", "redact"}
Redaction == [path : Names, text : Texts]
IsReply(r) ==
  /\ r.status \in 100..599
  /\ r.body # Malformed =>
       r.body.decision \in Decisions /\ r.body.redacted \in Seq(Redaction)

ASSUME AliasAssumption == Alias \in Segments
ASSUME AbsentPolicyValues ==
  /\ Null \notin [kind : Kinds, text : Texts]
  /\ Anonymous \notin Callers
  /\ \A v \in Texts \cup (SUBSET Texts) \cup (SUBSET Callers) : v # Unset
ASSUME DictAssumption == \A d \in Dicts : IsDict(d)
ASSUME RulesAssumption ==
  \A s \in RuleSets : s.default \in {"pass", "reject"} /\ \A r \in s.rules : IsRule(r)
ASSUME ReplyAssumption == Broken \notin Replies /\ \A r \in Replies : IsReply(r)

VARIABLES backend,   \* POLICY_BACKEND
          failOpen,  \* POLICY_FAIL_OPEN
          rules,     \* POLICY_RULES_FILE
          at,        \* how far the call is
          tool, who, \* the tool it names and the principal that makes it
          given,     \* its arguments
          reply,     \* what the policy server replied
          forwarded  \* the arguments that went upstream

config == <<backend, failOpen, rules>>
vars == <<config, at, tool, who, given, reply, forwarded>>

-----------------------------------------------------------------------------
(* What the backend is sent.                                               *)

Prefixed(name) == <<Alias>> \o name

\* None is left out.  (Variant for the mutant: it is sent like any value.)
SentAlways(item) == TRUE
IsSent(item) == item.value # Null
Text(value) == IF value = Null THEN "None" ELSE value.text

\* Every argument is sent under its key and under arguments.<key>; an argument
\* that is called so itself overwrites, or is overwritten, as the dict has it.
Writers(d, path) ==
  {i \in 1..Len(d) : IsSent(d[i]) /\ path \in {d[i].key, Prefixed(d[i].key)}}
Fields(d) == UNION {{d[i].key, Prefixed(d[i].key)} : i \in {j \in 1..Len(d) : IsSent(d[j])}}
Last(S) == CHOOSE i \in S : \A j \in S : j <= i

\* _flatten_for_evaluation
Flatten(d) == [path \in Fields(d) |-> Text(d[Last(Writers(d, path))].value)]

-----------------------------------------------------------------------------
(* LocalRulesPolicy.                                                       *)

\* The rule is about calls of tool t by principal w.
Applies(r, t, w) ==
  /\ r.principals = Unset \/ w \in r.principals
  /\ t \in r.tools

Holds(pred, text) ==
  /\ pred.eq = Unset \/ text = pred.eq
  /\ pred.ne = Unset \/ text # pred.ne
  /\ pred.in = Unset \/ text \in pred.in
  /\ pred.matches = Unset \/ text \in pred.matches

\* A field that is missing under both of its names fails whatever is required of
\* it.  (Variant for the mutant: nothing is required of it.)
PassesIfMissing(fields, f, pred) ==
  LET named == {f, Prefixed(f)} \cap DOMAIN fields
  IN named # {} => Holds(pred, fields[IF f \in named THEN f ELSE Prefixed(f)])
Passes(fields, f, pred) ==
  LET named == {f, Prefixed(f)} \cap DOMAIN fields
  IN named # {} /\ Holds(pred, fields[IF f \in named THEN f ELSE Prefixed(f)])

Matched(t, w) == {r \in rules.rules : Applies(r, t, w)}

Allows(t, w, fields) ==
  IF Matched(t, w) = {} THEN rules.default = "pass"
  ELSE \A r \in Matched(t, w) :
         \A f \in DOMAIN r.require : Passes(fields, f, r.require[f])

-----------------------------------------------------------------------------
(* HttpPolicyClient: a reply that is not one raises PolicyClientError.      *)

\* (Variant for the mutant: the body of an error is taken for a decision.)
UsableBody(r) == r # Broken /\ r.body # Malformed
Usable(r) == r # Broken /\ r.status = 200 /\ r.body # Malformed

\* path.split(".")[-1]
LastPart(path) == <<path[Len(path)]>>

\* _apply_redactions goes through the redactions in their order, and what it swaps
\* in is a string.  (Variant for the mutant: a path has to be the key itself.)
ExactlyBy(redacted, key) == {j \in 1..Len(redacted) : redacted[j].path = key}
RedactedBy(redacted, key) == {j \in 1..Len(redacted) : LastPart(redacted[j].path) = key}

\* (Variant for the mutant: the redactions are added to the arguments.)
AddRedacted(d, redacted) ==
  d \o [j \in 1..Len(redacted) |-> [key |-> LastPart(redacted[j].path),
                                    value |-> [kind |-> "str", text |-> redacted[j].text]]]
Redacted(d, redacted) ==
  [i \in 1..Len(d) |->
     LET by == RedactedBy(redacted, d[i].key)
     IN IF by = {} THEN d[i]
        ELSE [key |-> d[i].key, value |-> [kind |-> "str", text |-> redacted[Last(by)].text]]]

-----------------------------------------------------------------------------
(* enforce_policy, for one call.                                           *)

Init ==
  /\ backend \in {"noop", "local", "http"}
  /\ failOpen \in BOOLEAN
  /\ rules \in RuleSets
  /\ at = "idle"
  /\ tool \in ToolIds /\ who \in Callers \cup {Anonymous} /\ given \in Dicts
  /\ reply = Broken
  /\ forwarded = <<>>

Forward(d) == at' = "forwarded" /\ forwarded' = d
Deny == at' = "denied" /\ UNCHANGED forwarded

\* The noop and the local backend answer without suspending.
Enforce ==
  /\ at = "idle"
  /\ \/ /\ backend = "noop"
        /\ Forward(given)
     \/ /\ backend = "local"
        /\ IF Allows(tool, who, Flatten(given)) THEN Forward(given) ELSE Deny
     \/ /\ backend = "http"
        /\ at' = "posted" /\ UNCHANGED forwarded
  /\ UNCHANGED <<config, tool, who, given, reply>>

\* No reply within POLICY_TIMEOUT_SECONDS, or one that is of no use.
Unavailable(r) ==
  /\ ~Usable(r)
  /\ IF failOpen THEN Forward(given) ELSE Deny

Decided(r) ==
  /\ Usable(r)
  /\ \/ r.body.decision = "pass" /\ Forward(given)
     \/ r.body.decision = "reject" /\ Deny
     \/ r.body.decision = "redact" /\ Forward(Redacted(given, r.body.redacted))

Receive(r) ==
  /\ at = "posted"
  /\ reply' = r
  /\ Unavailable(r) \/ Decided(r)
  /\ UNCHANGED <<config, tool, who, given>>

Next == Enforce \/ \E r \in Replies \cup {Broken} : Receive(r)

Spec == Init /\ [][Next]_vars

TypeOK ==
  /\ backend \in {"noop", "local", "http"} /\ failOpen \in BOOLEAN /\ rules \in RuleSets
  /\ at \in {"idle", "posted", "forwarded", "denied"}
  /\ tool \in ToolIds /\ who \in Callers \cup {Anonymous} /\ given \in Dicts
  /\ reply \in Replies \cup {Broken}
  /\ IsDict(forwarded)

-----------------------------------------------------------------------------
(* Properties.                                                             *)

IsPrefixed(name) == Len(name) > 1 /\ Head(name) = Alias

\* The argument that a rule, or a reply, means by a name.
Meant(name) == IF IsPrefixed(name) THEN Tail(name) ELSE name

\* No argument of the call bears the name of an alias.
Unaliased(d) == \A i \in 1..Len(d) : ~IsPrefixed(d[i].key)

\* What a rules file requires of an argument holds of the argument that goes
\* upstream, which is there and not null: the lookup under two names, the aliases
\* and the coercion to text let no other call through.
ForwardedSatisfiesRules ==
  at = "forwarded" /\ backend = "local" /\ Unaliased(given) =>
    \A r \in Matched(tool, who) : \A f \in DOMAIN r.require :
      \E i \in 1..Len(forwarded) :
        /\ forwarded[i].key = Meant(f) /\ forwarded[i].value # Null
        /\ Holds(r.require[f], forwarded[i].value.text)

\* A reply names only fields it was sent, of a call without dots in its names.
Plain(d, redacted) ==
  /\ \A i \in 1..Len(d) : Len(d[i].key) = 1
  /\ \A j \in 1..Len(redacted) : redacted[j].path \in Fields(d)

\* Redaction reaches the arguments that the reply names, under either name, and no
\* others: those are replaced by a text given for them, the rest goes upstream as
\* it came.
RedactionExact ==
  at = "forwarded" /\ backend = "http" /\ Usable(reply) /\ reply.body.decision = "redact" =>
    LET redacted == reply.body.redacted
        named(i) == {j \in 1..Len(redacted) : Meant(redacted[j].path) = given[i].key}
    IN Plain(given, redacted) =>
         /\ Len(forwarded) = Len(given)
         /\ \A i \in 1..Len(given) :
              /\ forwarded[i].key = given[i].key
              /\ IF named(i) = {} THEN forwarded[i] = given[i]
                 ELSE \E j \in named(i) : forwarded[i].value =
                                             [kind |-> "str", text |-> redacted[j].text]

\* Without a decision of the policy server nothing goes upstream, unless the relay
\* was told to fail open: a timeout, an error status and a body that makes no
\* sense are all the same.
DeniedWithoutDecision ==
  at = "forwarded" /\ backend = "http" /\ ~failOpen =>
    /\ reply # Broken /\ reply.status = 200
    /\ reply.body # Malformed /\ reply.body.decision \in {"pass", "redact"}
-----------------------------------------------------------------------------
(* The inductive invariant behind the theorems of RelayPolicyProofs: what   *)
(* has been forwarded is what the decision asked for.                       *)

AsDecided ==
  /\ at = "posted" => backend = "http"
  /\ at = "forwarded" =>
       \/ backend = "noop" /\ forwarded = given
       \/ backend = "local" /\ forwarded = given /\ Allows(tool, who, Flatten(given))
       \/ backend = "http" /\ ~Usable(reply) /\ failOpen /\ forwarded = given
       \/ /\ backend = "http" /\ Usable(reply) /\ reply.body.decision # "reject"
          /\ forwarded = IF reply.body.decision = "redact"
                         THEN Redacted(given, reply.body.redacted) ELSE given

IInv == TypeOK /\ AsDecided
=============================================================================
