------------------------- MODULE RelayPolicyProofs -------------------------
(* Proofs about RelayPolicy. *)
EXTENDS RelayPolicy, SequenceTheorems, WellFoundedInduction, TLAPS

-----------------------------------------------------------------------------
(* The last of some places.                                                *)

LEMMA LeastNatural ==
  ASSUME NEW S, S \subseteq Nat, S # {}
  PROVE  \E m \in S : \A k \in S : m <= k
<1>1. \E m \in S : \A k \in S : ~ (<<k, m>> \in OpToRel(<, Nat))
  BY NatLessThanWellFounded, WFMin
<1>2. \A m, k \in S : ~ (<<k, m>> \in OpToRel(<, Nat)) => m <= k
  BY DEF OpToRel
<1> QED
  BY <1>1, <1>2

LEMMA LastIsThere ==
  ASSUME NEW n \in Nat, NEW S, S \subseteq 1..n, S # {}
  PROVE  Last(S) \in S /\ \A j \in S : j <= Last(S)
<1> DEFINE fromEnd == {k \in 0..n : n - k \in S}
<1>1. PICK m \in fromEnd : \A k \in fromEnd : m <= k
  <2>1. fromEnd \subseteq Nat
    OBVIOUS
  <2>2. PICK s \in S : TRUE
    OBVIOUS
  <2>3. s \in 1..n
    BY <2>2
  <2>4. n - s \in 0..n /\ n - (n - s) = s
    BY <2>3
  <2>5. fromEnd # {}
    BY <2>2, <2>4
  <2> HIDE DEF fromEnd
  <2> QED
    BY <2>1, <2>5, LeastNatural
<1>2. n - m \in S
  BY <1>1
<1>3. ASSUME NEW j \in S PROVE j <= n - m
  <2>1. j \in 1..n
    BY <1>3
  <2>2. n - j \in 0..n /\ n - (n - j) = j
    BY <2>1
  <2>3. n - j \in fromEnd
    BY <2>2, <1>3
  <2> QED
    BY <1>1, <2>1, <2>3
<1> QED
  BY <1>2, <1>3 DEF Last

-----------------------------------------------------------------------------
(* Names and dicts.                                                        *)

LEMMA PrefixedParts ==
  ASSUME NEW s \in Names
  PROVE  /\ IsPrefixed(Prefixed(s)) /\ Tail(Prefixed(s)) = s
         /\ Prefixed(s) \in Names
         /\ Len(Prefixed(s)) = 1 + Len(s)
         /\ \A k \in 1..Len(s) : Prefixed(s)[1 + k] = s[k]
<1>1. <<Alias>> \in Seq(Segments) /\ s \in Seq(Segments) /\ Len(s) > 0
  BY AliasAssumption, EmptySeq DEF Names
<1>2. Prefixed(s) \in Seq(Segments) /\ Len(Prefixed(s)) = 1 + Len(s)
  BY <1>1, ConcatProperties DEF Prefixed
<1>3. Head(Prefixed(s)) = Alias
  <2>1. Prefixed(s)[1] = <<Alias>>[1]
    BY <1>1 DEF Prefixed
  <2> QED
    BY <1>1, <1>2, <2>1
<1>4. \A k \in 1..Len(s) : Prefixed(s)[1 + k] = s[k]
  BY <1>1, ConcatProperties DEF Prefixed
<1>5. Tail(Prefixed(s)) = s
  <2>1. /\ Tail(Prefixed(s)) \in Seq(Segments) /\ Len(Tail(Prefixed(s))) = Len(s)
        /\ \A k \in 1..Len(s) : Tail(Prefixed(s))[k] = Prefixed(s)[1 + k]
    BY <1>1, <1>2, HeadTailProperties, EmptySeq
  <2> QED
    BY <1>1, <1>4, <2>1, SeqEqual
<1> QED
  BY <1>1, <1>2, <1>3, <1>4, <1>5, EmptySeq DEF IsPrefixed, Names

LEMMA DictParts ==
  ASSUME NEW d, IsDict(d), NEW i \in 1..Len(d)
  PROVE  d[i] \in Item /\ d[i].key \in Names /\ d[i].value \in Values
<1>1. d \in Seq(Item)
  BY DEF IsDict
<1>2. d[i] \in Item
  BY <1>1, ElementOfSeq
<1> QED
  BY <1>2 DEF Item

\* A field that was sent of a call without odd names is the text of the argument
\* that is meant, whichever of its two names a rule looks it up under.
LEMMA FieldIsArgument ==
  ASSUME NEW d, IsDict(d), Unaliased(d), NEW f \in Names,
         NEW path \in {f, Prefixed(f)}, path \in Fields(d)
  PROVE  \E i \in 1..Len(d) :
           /\ d[i].key = Meant(f) /\ d[i].value # Null
           /\ Flatten(d)[path] = d[i].value.text
<1> DEFINE i == Last(Writers(d, path))
<1>1. Writers(d, path) \subseteq 1..Len(d) /\ Writers(d, path) # {} /\ Len(d) \in Nat
  BY DEF Writers, Fields, IsDict
<1>2. i \in Writers(d, path)
  BY <1>1, LastIsThere
<1> HIDE DEF i
<1>3. i \in 1..Len(d) /\ d[i].value # Null /\ path \in {d[i].key, Prefixed(d[i].key)}
  BY <1>2 DEF Writers, IsSent
<1>4. d[i].key \in Names /\ ~IsPrefixed(d[i].key)
  BY <1>3, DictParts DEF Unaliased
<1>5. Flatten(d)[path] = d[i].value.text
  BY <1>3 DEF Flatten, Text, i
<1>6. d[i].key = Meant(f)
  <2>1. CASE path = f
    BY <1>3, <1>4, <2>1, PrefixedParts DEF Meant
  <2>2. CASE path = Prefixed(f)
    BY <1>3, <1>4, <2>2, PrefixedParts DEF Meant
  <2> QED
    BY <2>1, <2>2
<1> QED
  BY <1>3, <1>5, <1>6

LEMMA RedactedIsDict ==
  ASSUME NEW d, IsDict(d), NEW redacted \in Seq(Redaction)
  PROVE  /\ IsDict(Redacted(d, redacted)) /\ Len(Redacted(d, redacted)) = Len(d)
         /\ \A i \in 1..Len(d) : Redacted(d, redacted)[i].key = d[i].key
<1> DEFINE r == Redacted(d, redacted)
<1>0. Len(d) \in Nat /\ Len(redacted) \in Nat
  BY DEF IsDict
<1>1. ASSUME NEW i \in 1..Len(d)
      PROVE  r[i] \in Item /\ r[i].key = d[i].key
  <2> DEFINE by == RedactedBy(redacted, d[i].key)
  <2>1. d[i] \in Item /\ d[i].key \in Names
    BY DictParts
  <2>2. CASE by = {}
    BY <2>1, <2>2 DEF Redacted
  <2>3. CASE by # {}
    <3>1. Last(by) \in 1..Len(redacted)
      BY <1>0, <2>3, LastIsThere DEF RedactedBy
    <3>2. redacted[Last(by)].text \in Texts
      <4>1. redacted[Last(by)] \in Redaction
        BY <3>1, ElementOfSeq
      <4> QED
        BY <4>1 DEF Redaction
    <3>3. r[i] = [key |-> d[i].key,
                  value |-> [kind |-> "str", text |-> redacted[Last(by)].text]]
      BY <2>3 DEF Redacted
    <3> QED
      BY <2>1, <3>2, <3>3 DEF Item, Values, Kinds
  <2> QED
    BY <2>2, <2>3
<1>2. DOMAIN r = 1..Len(d)
  BY DEF Redacted
<1> HIDE DEF r
<1>3. r \in Seq(Item) /\ Len(r) = Len(d)
  <2>1. r = [i \in 1..Len(d) |-> r[i]]
    BY <1>2 DEF r, Redacted
  <2>2. r \in [1..Len(d) -> Item]
    BY <1>1, <2>1
  <2> QED
    BY <1>0, <1>2, <2>2
<1>4. IsDict(r)
  BY <1>1, <1>3 DEF IsDict
<1> QED
  BY <1>1, <1>3, <1>4 DEF r

-----------------------------------------------------------------------------
(* The invariant.                                                          *)

LEMMA InitInv == Init => IInv
BY EmptySeq, DictAssumption DEF Init, IInv, TypeOK, AsDecided, IsDict

LEMMA EnforceInv == IInv /\ Enforce => IInv'
<1> SUFFICES ASSUME IInv, Enforce PROVE IInv'
  OBVIOUS
<1>1. UNCHANGED <<backend, failOpen, rules, tool, who, given, reply>>
  BY DEF Enforce, config
<1>2. IsDict(given) /\ IsDict(forwarded)
  BY DictAssumption DEF IInv, TypeOK
<1>3. CASE at' = "forwarded" /\ forwarded' = given
           /\ (backend = "noop" \/ (backend = "local" /\ Allows(tool, who, Flatten(given))))
  <2>1. TypeOK'
    BY <1>1, <1>2, <1>3 DEF IInv, TypeOK
  <2>2. Allows(tool, who, Flatten(given))' <=> Allows(tool, who, Flatten(given))
    BY <1>1 DEF Allows, Matched
  <2> QED
    BY <1>1, <1>3, <2>1, <2>2 DEF IInv, AsDecided
<1>4. CASE /\ at' = "denied" \/ (at' = "posted" /\ backend = "http")
           /\ forwarded' = forwarded
  BY <1>1, <1>2, <1>4 DEF IInv, TypeOK, AsDecided
<1> QED
  BY <1>3, <1>4 DEF Enforce, Forward, Deny

LEMMA ReceiveInv ==
  ASSUME IInv, NEW r \in Replies \cup {Broken}, Receive(r)
  PROVE  IInv'
<1>1. UNCHANGED <<backend, failOpen, rules, tool, who, given>> /\ reply' = r
  BY DEF Receive, config
<1>2. IsDict(given) /\ IsDict(forwarded)
  BY DictAssumption DEF IInv, TypeOK
<1>b. backend = "http"
  BY DEF Receive, IInv, AsDecided
<1>3. CASE Unavailable(r)
  <2>1. \/ at' = "forwarded" /\ forwarded' = given /\ failOpen /\ ~Usable(r)
        \/ at' = "denied" /\ forwarded' = forwarded
    BY <1>3 DEF Unavailable, Forward, Deny
  <2> QED
    BY <1>1, <1>2, <1>b, <2>1 DEF IInv, TypeOK, AsDecided
<1>4. CASE Decided(r)
  <2>1. Usable(r) /\ r \in Replies /\ r.body # Malformed
    BY <1>4 DEF Decided, Usable
  <2>2. r.body.redacted \in Seq(Redaction)
    BY <2>1, ReplyAssumption DEF IsReply
  <2>3. CASE r.body.decision = "pass" /\ Forward(given)
    BY <1>1, <1>2, <1>b, <2>1, <2>3 DEF IInv, TypeOK, AsDecided, Forward
  <2>4. CASE r.body.decision = "reject" /\ Deny
    BY <1>1, <1>2, <2>4 DEF IInv, TypeOK, AsDecided, Deny
  <2>5. CASE r.body.decision = "redact" /\ Forward(Redacted(given, r.body.redacted))
    <3>1. IsDict(Redacted(given, r.body.redacted))
      BY <1>2, <2>2, RedactedIsDict
    <3> QED
      BY <1>1, <1>b, <2>1, <2>5, <3>1 DEF IInv, TypeOK, AsDecided, Forward
  <2> QED
    BY <1>4, <2>3, <2>4, <2>5 DEF Decided
<1> QED
  BY <1>3, <1>4 DEF Receive

LEMMA StepInv == IInv /\ [Next]_vars => IInv'
<1> SUFFICES ASSUME IInv, [Next]_vars PROVE IInv'
  OBVIOUS
<1>1. CASE UNCHANGED vars
  BY <1>1 DEF vars, config, IInv, TypeOK, AsDecided, Allows, Matched
<1>2. CASE Next
  BY <1>2, EnforceInv, ReceiveInv DEF Next
<1> QED
  BY <1>1, <1>2

\* Whatever is forwarded is the arguments of the call, or what redaction makes of
\* them: a dict again, every key once (_apply_redactions).
THEOREM PolicyTypes == Spec => []TypeOK
<1>1. IInv => TypeOK
  BY DEF IInv
<1> QED
  BY <1>1, InitInv, StepInv, PTL DEF Spec

LEMMA AllowedSatisfies == IInv => ForwardedSatisfiesRules
<1> SUFFICES ASSUME IInv, at = "forwarded", backend = "local", Unaliased(given),
                    NEW r \in Matched(tool, who), NEW f \in DOMAIN r.require
             PROVE  \E i \in 1..Len(forwarded) :
                      /\ forwarded[i].key = Meant(f) /\ forwarded[i].value # Null
                      /\ Holds(r.require[f], forwarded[i].value.text)
  BY DEF ForwardedSatisfiesRules
<1>1. forwarded = given /\ Allows(tool, who, Flatten(given)) /\ IsDict(given)
  BY DictAssumption DEF IInv, TypeOK, AsDecided
<1>2. Passes(Flatten(given), f, r.require[f])
  BY <1>1 DEF Allows
<1>3. DOMAIN Flatten(given) = Fields(given)
  BY DEF Flatten
<1>4. PICK path \in {f, Prefixed(f)} :
        path \in Fields(given) /\ Holds(r.require[f], Flatten(given)[path])
  BY <1>2, <1>3 DEF Passes
<1>5. f \in Names
  BY RulesAssumption DEF IInv, TypeOK, Matched, IsRule
<1>6. PICK i \in 1..Len(given) : /\ given[i].key = Meant(f) /\ given[i].value # Null
                                 /\ Flatten(given)[path] = given[i].value.text
  BY <1>1, <1>4, <1>5, FieldIsArgument
<1> QED
  BY <1>1, <1>4, <1>6

\* Whatever rules files and arguments there may be, a call that LocalRulesPolicy
\* lets through has every argument that the rules for it require, not null, and
\* with the value they require.
THEOREM RulesHoldUpstream == Spec => []ForwardedSatisfiesRules
<1> QED
  BY AllowedSatisfies, InitInv, StepInv, PTL DEF Spec

LEMMA RedactedAsAsked == IInv => RedactionExact
<1> SUFFICES ASSUME IInv, at = "forwarded", backend = "http", Usable(reply),
                    reply.body.decision = "redact", Plain(given, reply.body.redacted)
             PROVE  /\ Len(forwarded) = Len(given)
                    /\ \A i \in 1..Len(given) :
                         LET named == {j \in 1..Len(reply.body.redacted) :
                                         Meant(reply.body.redacted[j].path) = given[i].key}
                         IN /\ forwarded[i].key = given[i].key
                            /\ IF named = {} THEN forwarded[i] = given[i]
                               ELSE \E j \in named :
                                      forwarded[i].value =
                                        [kind |-> "str", text |-> reply.body.redacted[j].text]
  BY DEF RedactionExact
<1> DEFINE redacted == reply.body.redacted
<1>1. /\ IsDict(given) /\ reply \in Replies /\ forwarded = Redacted(given, redacted)
  BY DictAssumption DEF IInv, TypeOK, AsDecided, Usable
<1>2. redacted \in Seq(Redaction)
  BY <1>1, ReplyAssumption DEF IsReply, Usable
<1>3. \A i \in 1..Len(given) : given[i].key \in Names /\ Len(given[i].key) = 1
  BY <1>1, DictParts DEF Plain
<1>4. \A j \in 1..Len(redacted) : LastPart(redacted[j].path) = Meant(redacted[j].path)
  <2> SUFFICES ASSUME NEW j \in 1..Len(redacted)
               PROVE  LastPart(redacted[j].path) = Meant(redacted[j].path)
    OBVIOUS
  <2>1. PICK i \in 1..Len(given) : redacted[j].path \in {given[i].key, Prefixed(given[i].key)}
    BY DEF Plain, Fields
  <2>2. given[i].key \in Seq(Segments) /\ Len(given[i].key) = 1
    BY <1>3 DEF Names
  <2>3. given[i].key = <<given[i].key[1]>>
    BY <2>2
  <2>4. CASE redacted[j].path = given[i].key
    BY <2>2, <2>3, <2>4 DEF LastPart, Meant, IsPrefixed
  <2>5. CASE redacted[j].path = Prefixed(given[i].key)
    <3>1. Meant(redacted[j].path) = given[i].key
      BY <1>3, <2>5, PrefixedParts DEF Meant
    <3>2. /\ Len(Prefixed(given[i].key)) = 2
          /\ Prefixed(given[i].key)[2] = given[i].key[1]
      <4>1. /\ Len(Prefixed(given[i].key)) = 1 + Len(given[i].key)
            /\ \A k \in 1..Len(given[i].key) :
                 Prefixed(given[i].key)[1 + k] = given[i].key[k]
        BY <1>3, PrefixedParts
      <4>2. 1 \in 1..Len(given[i].key) /\ 1 + 1 = 2
        BY <2>2
      <4>3. Prefixed(given[i].key)[1 + 1] = given[i].key[1]
        BY <4>1, <4>2, Zenon
      <4> QED
        BY <2>2, <4>1, <4>2, <4>3
    <3> QED
      BY <2>3, <2>5, <3>1, <3>2 DEF LastPart
  <2> QED
    BY <2>1, <2>4, <2>5
<1> HIDE DEF redacted
<1>5. ASSUME NEW i \in 1..Len(given)
      PROVE  LET named == {j \in 1..Len(redacted) : Meant(redacted[j].path) = given[i].key}
             IN /\ forwarded[i].key = given[i].key
                /\ IF named = {} THEN forwarded[i] = given[i]
                   ELSE \E j \in named :
                          forwarded[i].value = [kind |-> "str", text |-> redacted[j].text]
  <2> DEFINE named == {j \in 1..Len(redacted) : Meant(redacted[j].path) = given[i].key}
             by == RedactedBy(redacted, given[i].key)
  <2>1. by = named
    BY <1>4 DEF RedactedBy
  <2>2. forwarded[i] = IF by = {} THEN given[i]
                       ELSE [key |-> given[i].key,
                             value |-> [kind |-> "str", text |-> redacted[Last(by)].text]]
    BY <1>1 DEF Redacted, redacted
  <2>3. Len(redacted) \in Nat /\ by \subseteq 1..Len(redacted)
    BY <1>2 DEF RedactedBy
  <2>4. by # {} => Last(by) \in by
    BY <2>3, LastIsThere
  <2> HIDE DEF named, by
  <2>5. CASE by = {}
    BY <2>1, <2>2, <2>5 DEF named
  <2>6. CASE by # {}
    <3>1. forwarded[i].key = given[i].key
      BY <2>2, <2>6
    <3>2. forwarded[i].value = [kind |-> "str", text |-> redacted[Last(by)].text]
      BY <2>2, <2>6
    <3>3. Last(by) \in named
      BY <2>1, <2>4, <2>6
    <3> QED
      BY <2>1, <2>6, <3>1, <3>2, <3>3 DEF named
  <2> QED
    BY <2>5, <2>6
<1>6. Len(forwarded) = Len(given)
  BY <1>1, <1>2, RedactedIsDict DEF redacted
<1> QED
  BY <1>5, <1>6 DEF redacted

\* Whatever a policy server replies, of a call without dots in the names of its
\* arguments every argument it names is redacted, and no other one is touched.
THEOREM RedactionIsExact == Spec => []RedactionExact
<1> QED
  BY RedactedAsAsked, InitInv, StepInv, PTL DEF Spec

\* With POLICY_FAIL_OPEN unset, no failure of the policy server lets a call through.
THEOREM FailsClosed == Spec => []DeniedWithoutDecision
<1>1. IInv => DeniedWithoutDecision
  <2> SUFFICES ASSUME IInv, at = "forwarded", backend = "http", ~failOpen
               PROVE  /\ reply # Broken /\ reply.status = 200
                      /\ reply.body # Malformed
                      /\ reply.body.decision \in {"pass", "redact"}
    BY DEF DeniedWithoutDecision
  <2>1. Usable(reply) /\ reply.body.decision # "reject" /\ reply \in Replies
    BY DEF IInv, TypeOK, AsDecided, Usable
  <2> QED
    BY <2>1, ReplyAssumption DEF Usable, IsReply, Decisions
<1> QED
  BY <1>1, InitInv, StepInv, PTL DEF Spec
=============================================================================
