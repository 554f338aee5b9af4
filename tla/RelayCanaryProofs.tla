-------------------------- MODULE RelayCanaryProofs --------------------------
(* Theorems about RelayCanary for any number of servers, cycles and checks,   *)
(* with or without a webhook.                                                 *)
EXTENDS RelayCanary, TLAPS

-----------------------------------------------------------------------------
(* The loop over the results of a cycle.                                      *)

\* The loop of c may start over todo with prev as the previous statuses: all of
\* them are known, and while no two cycles have overlapped they are the one
\* status the canary remembers.
Ready(c, todo, prev) ==
  /\ todo \subseteq Results(c) \ {alertee[c]}
  /\ prev \in [Names -> {"none"} \cup Health]
  /\ ~overlapped =>
       \A n \in Names : last[n] = prev[n] /\ told[n] \in {"none", prev[n]}

\* While no two cycles have overlapped, no cycle but c has anything under way.
OnlyCycle(c) ==
  ~overlapped => \A d \in Cycles \ {c} : at[d] = "idle" /\ alertee[d] = NoName

LEMMA BusyIsOnly ==
  ASSUME TypeOK, AlertControl, Alone, NEW c \in Cycles, at[c] # "idle"
  PROVE  OnlyCycle(c)
BY DEF AlertControl, Alone, OnlyCycle

\* Recording results keeps statuses statuses.
LEMMA OverwriteType ==
  ASSUME NEW c \in Cycles, NEW R \in SUBSET Results(c),
         NEW f \in [Names -> {"none"} \cup Health]
  PROVE  Overwrite(f, c, R) \in [Names -> {"none"} \cup Health]
BY DEF Overwrite, Results

\* The outcomes of a prober may be replaced by others.
ProbeStates == {"none", "failed"} \cup Pending \cup Health

LEMMA ProbesType ==
  ASSUME TypeOK, NEW p \in Probers, NEW g \in [Names -> ProbeStates]
  PROVE  [probe EXCEPT ![p] = g] \in [Probers -> [Names -> ProbeStates]]
<1>1. probe \in [Probers -> [Names -> ProbeStates]]
  BY DEF TypeOK, ProbeStates
<1>2. QED
  BY <1>1

\* The loop keeps the invariant, up to its end or to the next alert, and sends no
\* alert twice.
LEMMA ProcessKeeps ==
  ASSUME IInv, NEW c \in Cycles, at[c] # "idle",
         NEW todo, NEW prev, Ready(c, todo, prev), Process(c, todo, prev),
         UNCHANGED <<environment, column, overlapped>>
  PROVE  /\ IInv'
         /\ ~overlapped' => \A d \in Cycles : ~RepeatsAlert(d)
<1> USE NameAssumption DEF Cycles, Probers
<1>0. /\ TypeOK /\ AlertControl /\ Alone /\ Silent /\ BeingTold /\ OneStatus
      /\ OnlyCycle(c) /\ c \in Probers
      /\ todo \in SUBSET Results(c) /\ todo \subseteq Names /\ alertee[c] \notin todo
      /\ prev \in [Names -> {"none"} \cup Health]
  BY BusyIsOnly DEF IInv, Ready, Results
<1>1. CASE FinishCycle(c, todo, prev)
  <2>1. /\ last' = Overwrite(last, c, todo) /\ previous' = Overwrite(prev, c, todo)
        /\ at' = [at EXCEPT ![c] = "idle"]
        /\ probe' = [probe EXCEPT ![c] = [n \in Names |-> "none"]]
        /\ alertee' = [alertee EXCEPT ![c] = NoName]
        /\ told' = told /\ overlapped' = overlapped
        /\ ~Webhook \/ Changed(c, todo, prev) = {}
    BY <1>1 DEF FinishCycle
  <2>2. TypeOK'
    <3>1. last' \in [Names -> {"none"} \cup Health]
          /\ previous' \in [Names -> {"none"} \cup Health]
      BY <1>0, <2>1, OverwriteType DEF TypeOK
    <3>2. [n \in Names |-> "none"] \in [Names -> ProbeStates]
      BY DEF ProbeStates
    <3>3. probe' \in [Probers -> [Names -> ProbeStates]]
      BY <1>0, <2>1, <3>2, ProbesType
    <3>4. QED
      BY <1>0, <2>1, <3>1, <3>3 DEF TypeOK, ProbeStates, environment
  <2>3. AlertControl'
    BY <1>0, <2>1 DEF AlertControl, TypeOK
  <2>4. Alone'
    BY <1>0, <2>1 DEF Alone, TypeOK
  <2>5. BeingTold'
    BY <1>0, <2>1 DEF BeingTold, OnlyCycle, TypeOK
  <2>6. OneStatus'
    <3> SUFFICES ASSUME ~overlapped, NEW n \in Names
                 PROVE  last'[n] = previous'[n] /\ told'[n] \in {"none", previous'[n]}
      BY <2>1 DEF OneStatus
    <3>1. last[n] = prev[n] /\ told[n] \in {"none", prev[n]}
      BY DEF Ready
    <3>2. CASE n \in todo
      <4>1. last'[n] = probe[c][n] /\ previous'[n] = probe[c][n]
        BY <2>1, <3>2 DEF Overwrite
      <4>2. told[n] = "none" \/ prev[n] = probe[c][n]
        BY <1>0, <2>1, <3>1, <3>2 DEF Changed, Silent
      <4>3. QED
        BY <2>1, <3>1, <4>1, <4>2
    <3>3. CASE n \notin todo
      BY <2>1, <3>1, <3>3 DEF Overwrite
    <3>4. QED
      BY <3>2, <3>3
  <2>7. Silent'
    BY <1>0, <2>1 DEF Silent
  <2>8. ASSUME NEW d \in Cycles PROVE ~RepeatsAlert(d)
    BY <1>0, <2>1 DEF RepeatsAlert, TypeOK
  <2>9. QED
    BY <2>2, <2>3, <2>4, <2>5, <2>6, <2>7, <2>8 DEF IInv
<1>2. ASSUME NEW n \in Changed(c, todo, prev),
             NEW before \in SUBSET (todo \ Changed(c, todo, prev)),
             SendAlert(c, todo, prev, n, before)
      PROVE  /\ IInv'
             /\ ~overlapped' => \A d \in Cycles : ~RepeatsAlert(d)
  <2>1. /\ Webhook
        /\ last' = Overwrite(last, c, before \cup {n})
        /\ previous' = Overwrite(prev, c, before)
        /\ told' = [told EXCEPT ![n] = probe[c][n]]
        /\ at' = [at EXCEPT ![c] = "alerting"]
        /\ probe' = [probe EXCEPT ![c] =
             [m \in Names |-> IF m \in todo \ before THEN probe[c][m] ELSE "none"]]
        /\ alertee' = [alertee EXCEPT ![c] = n]
        /\ overlapped' = overlapped
    BY <1>2 DEF SendAlert
  <2>0. overlapped' = overlapped
    BY <2>1
  <2>2. /\ n \in todo /\ n \in Names /\ n \notin before /\ n # alertee[c] /\ n # NoName
        /\ before \subseteq todo /\ before \in SUBSET Results(c)
        /\ before \cup {n} \in SUBSET Results(c)
        /\ prev[n] # "none" /\ prev[n] # probe[c][n] /\ probe[c][n] \in Health
    BY <1>0 DEF Changed, Results
  <2>3. TypeOK'
    <3>1. last' \in [Names -> {"none"} \cup Health]
          /\ previous' \in [Names -> {"none"} \cup Health]
      BY <1>0, <2>1, <2>2, OverwriteType DEF TypeOK
    <3>2. [m \in Names |-> IF m \in todo \ before THEN probe[c][m] ELSE "none"]
            \in [Names -> ProbeStates]
      BY <1>0 DEF ProbeStates, TypeOK
    <3>3. probe' \in [Probers -> [Names -> ProbeStates]]
      BY <1>0, <2>1, <3>2, ProbesType
    <3>4. told' \in [Names -> {"none"} \cup Health]
      BY <1>0, <2>1, <2>2 DEF TypeOK
    <3>5. QED
      BY <1>0, <2>1, <2>2, <3>1, <3>3, <3>4 DEF TypeOK, ProbeStates, environment
  <2>4. /\ probe'[c][n] = probe[c][n] /\ at'[c] = "alerting" /\ alertee'[c] = n
        /\ \A d \in Cycles \ {c} :
             probe'[d] = probe[d] /\ at'[d] = at[d] /\ alertee'[d] = alertee[d]
    BY <1>0, <2>1, <2>2 DEF TypeOK
  <2>5. AlertControl'
    BY <1>0, <2>2, <2>4 DEF AlertControl
  <2>6. Alone'
    BY <1>0, <2>1, <2>4 DEF Alone
  <2>7. Silent'
    BY <2>1 DEF Silent
  <2>8. last'[n] = probe[c][n] /\ told'[n] = probe[c][n]
    BY <1>0, <2>1, <2>2 DEF Overwrite, TypeOK
  <2>9. BeingTold'
    <3> SUFFICES ASSUME ~overlapped, NEW d \in Cycles, at'[d] = "alerting"
                 PROVE  /\ last'[alertee'[d]] = probe'[d][alertee'[d]]
                        /\ told'[alertee'[d]] = probe'[d][alertee'[d]]
      BY <2>0 DEF BeingTold
    <3>1. d = c
      BY <1>0, <2>4 DEF OnlyCycle
    <3>2. QED
      BY <2>4, <2>8, <3>1
  <2>10. OneStatus'
    <3> SUFFICES ASSUME ~overlapped, NEW m \in Names, \A d \in Cycles : alertee'[d] # m
                 PROVE  last'[m] = previous'[m] /\ told'[m] \in {"none", previous'[m]}
      BY <2>0 DEF OneStatus
    <3>1. m # n
      BY <2>4
    <3>2. last[m] = prev[m] /\ told[m] \in {"none", prev[m]} /\ told'[m] = told[m]
      BY <1>0, <2>1, <3>1 DEF Ready, TypeOK
    <3>3. CASE m \in before
      <4>1. last'[m] = probe[c][m] /\ previous'[m] = probe[c][m]
        BY <2>1, <3>3 DEF Overwrite
      <4>2. told[m] = "none" \/ prev[m] = probe[c][m]
        BY <2>2, <3>2, <3>3 DEF Changed
      <4>3. QED
        BY <3>2, <4>1, <4>2
    <3>4. CASE m \notin before
      BY <2>1, <3>1, <3>2, <3>4 DEF Overwrite
    <3>5. QED
      BY <3>3, <3>4
  <2>11. ASSUME ~overlapped, NEW d \in Cycles PROVE ~RepeatsAlert(d)
    <3>1. CASE d = c
      <4>1. told[n] \in {"none", prev[n]}
        BY <2>2, <2>11 DEF Ready
      <4>2. told'[n] # told[n]
        BY <2>2, <2>8, <4>1 DEF Health
      <4>3. QED
        BY <2>4, <3>1, <4>2 DEF RepeatsAlert
    <3>2. CASE d # c
      BY <2>4, <3>2 DEF RepeatsAlert
    <3>3. QED
      BY <3>1, <3>2
  <2>12. QED
    BY <2>1, <2>3, <2>5, <2>6, <2>7, <2>9, <2>10, <2>11 DEF IInv
<1>3. QED
  BY <1>1, <1>2 DEF Process

-----------------------------------------------------------------------------
(* The steps.                                                                 *)

LEMMA GatherKeeps ==
  ASSUME IInv, NEW c \in Cycles, Gather(c)
  PROVE  IInv' /\ (~overlapped' => \A d \in Cycles : ~RepeatsAlert(d))
<1>1. at[c] = "probing" /\ alertee[c] = NoName /\ OnlyCycle(c)
  BY BusyIsOnly DEF Gather, IInv, AlertControl
<1>2. Ready(c, Results(c), previous)
  <2>1. ~overlapped => \A d \in Cycles : alertee[d] = NoName
    BY <1>1 DEF OnlyCycle
  <2>2. ~overlapped =>
          \A n \in Names : last[n] = previous[n] /\ told[n] \in {"none", previous[n]}
    BY <2>1, NameAssumption DEF IInv, OneStatus
  <2>3. QED
    BY <1>1, <2>2, NameAssumption DEF Ready, Results, IInv, TypeOK
<1>3. QED
  BY <1>1, <1>2, ProcessKeeps DEF Gather

LEMMA AlertReturnsKeeps ==
  ASSUME IInv, NEW c \in Cycles, AlertReturns(c)
  PROVE  IInv' /\ (~overlapped' => \A d \in Cycles : ~RepeatsAlert(d))
<1> DEFINE a == alertee[c]
<1>1. /\ at[c] = "alerting" /\ a \in Names /\ probe[c][a] \in Health /\ OnlyCycle(c)
  BY BusyIsOnly DEF AlertReturns, IInv, AlertControl, TypeOK
<1>2. /\ Recorded(c) \in [Names -> {"none"} \cup Health]
      /\ Recorded(c)[a] = probe[c][a]
      /\ \A n \in Names \ {a} : Recorded(c)[n] = previous[n]
  BY <1>1 DEF Recorded, IInv, TypeOK
<1>3. ASSUME ~overlapped, NEW n \in Names
      PROVE  last[n] = Recorded(c)[n] /\ told[n] \in {"none", Recorded(c)[n]}
  <2>1. CASE n = a
    BY <1>1, <1>2, <1>3, <2>1 DEF IInv, BeingTold
  <2>2. CASE n # a
    <3>1. \A d \in Cycles : alertee[d] # n
      BY <1>1, <1>3, <2>2, NameAssumption DEF OnlyCycle
    <3>2. QED
      BY <1>2, <1>3, <2>2, <3>1 DEF IInv, OneStatus
  <2>3. QED
    BY <2>1, <2>2
<1>4. Ready(c, Results(c) \ {a}, Recorded(c))
  BY <1>2, <1>3 DEF Ready
<1>5. QED
  BY <1>1, <1>4, ProcessKeeps DEF AlertReturns

\* A step that sends no alert and ends no wait for the webhook.
LEMMA QuietStep ==
  ASSUME IInv, TypeOK', Alone', UNCHANGED results, overlapped => overlapped',
         \A c \in Cycles :
           /\ at'[c] = "alerting" <=> at[c] = "alerting"
           /\ at[c] = "alerting" => probe'[c][alertee[c]] = probe[c][alertee[c]]
  PROVE  IInv' /\ (~overlapped' => \A d \in Cycles : ~RepeatsAlert(d))
<1>1. /\ last' = last /\ previous' = previous /\ told' = told /\ alertee' = alertee
      /\ AlertControl /\ Silent /\ BeingTold /\ OneStatus
  BY DEF results, IInv
<1>2. AlertControl'
  BY <1>1 DEF AlertControl
<1>3. Silent'
  BY <1>1 DEF Silent
<1>4. BeingTold'
  <2> SUFFICES ASSUME ~overlapped', NEW c \in Cycles, at'[c] = "alerting"
               PROVE  /\ last'[alertee'[c]] = probe'[c][alertee'[c]]
                      /\ told'[alertee'[c]] = probe'[c][alertee'[c]]
    BY DEF BeingTold
  <2>1. last[alertee[c]] = probe[c][alertee[c]] /\ told[alertee[c]] = probe[c][alertee[c]]
    BY <1>1 DEF BeingTold
  <2>2. QED
    BY <1>1, <2>1
<1>5. OneStatus'
  BY <1>1 DEF OneStatus
<1>6. \A d \in Cycles : ~RepeatsAlert(d)
  BY <1>1 DEF RepeatsAlert
<1>7. QED
  BY <1>2, <1>3, <1>4, <1>5, <1>6 DEF IInv

\* A step of one probe does not touch the result that is being told.
LEMMA ProbeKeeps ==
  ASSUME IInv, NEW p \in Probers, NEW n \in Names, probe[p][n] \in Pending,
         NEW s \in ProbeStates, Probe(p, n, s),
         column' = column \/ \E h \in Health : StatusWritten(n, h),
         UNCHANGED <<environment, at, results, overlapped>>
  PROVE  IInv' /\ (~overlapped' => \A d \in Cycles : ~RepeatsAlert(d))
<1>1. /\ probe' = [probe EXCEPT ![p][n] = s]
      /\ at' = at /\ overlapped' = overlapped /\ UNCHANGED results
  BY DEF Probe
<1>2. probe \in [Probers -> [Names -> ProbeStates]] /\ TypeOK /\ AlertControl
  BY DEF IInv, TypeOK, ProbeStates
<1>3. TypeOK'
  <2>1. probe' \in [Probers -> [Names -> ProbeStates]]
    BY <1>1, <1>2
  <2>2. column' \in [Names -> {"absent"} \cup Health]
    BY <1>2 DEF StatusWritten, TypeOK
  <2>3. QED
    BY <1>1, <1>2, <2>1, <2>2 DEF TypeOK, ProbeStates, environment, results
<1>4. Alone'
  BY <1>1 DEF IInv, Alone
<1>5. ASSUME NEW c \in Cycles, at[c] = "alerting"
      PROVE  probe'[c][alertee[c]] = probe[c][alertee[c]]
  <2>1. probe[c][alertee[c]] \in Health /\ alertee[c] \in Names /\ c \in Probers
    BY <1>2, <1>5 DEF AlertControl, TypeOK, Probers
  <2>2. c # p \/ alertee[c] # n
    BY <2>1 DEF Health, Pending, Storing
  <2>3. QED
    BY <1>1, <1>2, <2>1, <2>2
<1>6. QED
  BY <1>1, <1>3, <1>4, <1>5, QuietStep

LEMMA ProbeStepKeeps ==
  ASSUME IInv, NEW p \in Probers, NEW n \in Names,
         Answered(p, n) \/ Store(p, n) \/ StoreRefused(p, n)
           \/ (p \in Cycles /\ Timeout(p, n))
  PROVE  IInv' /\ (~overlapped' => \A d \in Cycles : ~RepeatsAlert(d))
<1> USE DEF ProbeStates, Pending, Storing, Health, Outcome
<1>1. CASE Answered(p, n)
  BY <1>1, ProbeKeeps DEF Answered
<1>2. CASE Store(p, n)
  BY <1>2, ProbeKeeps DEF Store
<1>3. CASE StoreRefused(p, n)
  BY <1>3, ProbeKeeps DEF StoreRefused
<1>4. CASE Timeout(p, n)
  BY <1>4, ProbeKeeps DEF Timeout, Expires
<1>5. QED
  BY <1>1, <1>2, <1>3, <1>4

\* A step that moves one prober, which is not alerting, and renews its probes.
LEMMA MoveKeeps ==
  ASSUME IInv, NEW p \in Probers, at[p] # "alerting",
         NEW l \in {"idle", "listing", "probing"}, at' = [at EXCEPT ![p] = l],
         at[p] # "idle" \/ p \notin Cycles,
         NEW g \in [Names -> ProbeStates], probe' = [probe EXCEPT ![p] = g],
         UNCHANGED <<environment, column, results, overlapped>>
  PROVE  IInv' /\ (~overlapped' => \A d \in Cycles : ~RepeatsAlert(d))
<1>1. TypeOK /\ Alone
  BY DEF IInv
<1>2. TypeOK'
  <2>1. probe' \in [Probers -> [Names -> ProbeStates]]
    BY <1>1, ProbesType
  <2>2. at' \in [Probers -> {"idle", "listing", "probing", "alerting"}]
    BY <1>1 DEF TypeOK
  <2>3. QED
    BY <1>1, <2>1, <2>2 DEF TypeOK, ProbeStates, environment, results
<1>3. ASSUME NEW c \in Cycles
      PROVE  /\ at'[c] = "alerting" <=> at[c] = "alerting"
             /\ at[c] = "alerting" => probe'[c][alertee[c]] = probe[c][alertee[c]]
             /\ at'[c] # "idle" => at[c] # "idle"
  BY <1>1 DEF TypeOK, Probers
<1>4. Alone'
  BY <1>1, <1>3 DEF Alone
<1>5. QED
  BY <1>2, <1>3, <1>4, QuietStep

LEMMA BeginKeeps ==
  ASSUME IInv, NEW c \in Cycles, Begin(c)
  PROVE  IInv' /\ (~overlapped' => \A d \in Cycles : ~RepeatsAlert(d))
<1>1. /\ TypeOK /\ Alone /\ c \in Probers
      /\ at[c] = "idle" /\ at' = [at EXCEPT ![c] = "listing"]
      /\ probe' = probe /\ UNCHANGED results
  BY DEF Begin, IInv, Probers
<1>2. overlapped' = (overlapped \/ \E d \in Cycles : at[d] # "idle")
  BY DEF Begin
<1>3. TypeOK'
  BY <1>1, <1>2 DEF TypeOK, Begin, environment, results
<1>4. ASSUME NEW d \in Cycles
      PROVE  at'[d] = IF d = c THEN "listing" ELSE at[d]
  BY <1>1 DEF TypeOK, Probers
<1>5. Alone'
  <2> SUFFICES ASSUME ~overlapped', NEW d \in Cycles, NEW e \in Cycles,
                      at'[d] # "idle", at'[e] # "idle"
               PROVE  d = e
    BY DEF Alone
  <2>1. \A b \in Cycles : at[b] = "idle"
    BY <1>2
  <2>2. QED
    BY <1>4, <2>1
<1>6. overlapped => overlapped'
  BY <1>2, Zenon
<1>7. /\ UNCHANGED results
      /\ \A d \in Cycles :
           /\ at'[d] = "alerting" <=> at[d] = "alerting"
           /\ at[d] = "alerting" => probe'[d][alertee[d]] = probe[d][alertee[d]]
  BY <1>1, <1>4
<1>8. QED
  BY <1>3, <1>5, <1>6, <1>7, QuietStep

LEMMA EnvironmentKeeps ==
  ASSUME IInv, Environment \/ UNCHANGED vars
  PROVE  IInv' /\ (~overlapped' => \A d \in Cycles : ~RepeatsAlert(d))
<1>1. UNCHANGED <<at, probe, results, overlapped>>
  BY DEF Environment, CalmDown, UpstreamChanges, RowChanges, vars
<1>2. TypeOK'
  <2>1. /\ upstream' \in [Names -> {"up", "down", "hung"}]
        /\ enabled' \subseteq Names /\ calm' \in BOOLEAN
        /\ column' \in [Names -> {"absent"} \cup Health]
    BY DEF IInv, TypeOK, Environment, CalmDown, UpstreamChanges, RowChanges, vars,
           environment
  <2>2. QED
    BY <1>1, <2>1 DEF IInv, TypeOK, results
<1>3. Alone'
  BY <1>1 DEF IInv, Alone
<1>4. at' = at /\ probe' = probe /\ overlapped' = overlapped /\ UNCHANGED results
  BY <1>1
<1>5. QED
  BY <1>2, <1>3, <1>4, QuietStep

LEMMA StepKeeps ==
  ASSUME IInv, [Next]_vars
  PROVE  IInv' /\ (~overlapped' => \A d \in Cycles : ~RepeatsAlert(d))
<1> DEFINE Goal == IInv' /\ (~overlapped' => \A d \in Cycles : ~RepeatsAlert(d))
<1>1. CASE Environment \/ UNCHANGED vars
  BY <1>1, EnvironmentKeeps
<1>2. ASSUME NEW c \in Cycles, Begin(c) \/ Cycle(c) PROVE Goal
  <2>0. c \in Probers
    BY DEF Probers
  <2>1. CASE Begin(c)
    BY <2>1, BeginKeeps
  <2>2. CASE Listed(c)
    <3>1. [n \in Names |-> IF n \in enabled THEN "fetching" ELSE "none"]
            \in [Names -> ProbeStates]
      BY DEF ProbeStates, Pending
    <3>2. QED
      BY <2>0, <2>2, <3>1, MoveKeeps DEF Listed
  <2>3. CASE ListFails(c)
    <3>1. probe[c] \in [Names -> ProbeStates] /\ probe' = [probe EXCEPT ![c] = probe[c]]
      BY <2>0, <2>3 DEF ListFails, IInv, TypeOK, ProbeStates
    <3>2. QED
      BY <2>0, <2>3, <3>1, MoveKeeps DEF ListFails
  <2>4. CASE Gather(c)
    BY <2>4, GatherKeeps
  <2>5. CASE AlertReturns(c)
    BY <2>5, AlertReturnsKeeps
  <2>6. CASE ProbeStep(c) \/ \E n \in Names : Timeout(c, n)
    BY <2>0, <2>6, ProbeStepKeeps DEF ProbeStep
  <2>7. QED
    BY <1>2, <2>1, <2>2, <2>3, <2>4, <2>5, <2>6 DEF Cycle
<1>3. ASSUME NEW k \in Checks, Check(k) \/ \E n \in Names : StartCheck(k, n) PROVE Goal
  <2>0. k \in Probers /\ k \notin Cycles
    BY TaskAssumption DEF Probers, Cycles
  <2>1. CASE ProbeStep(k)
    BY <2>0, <2>1, ProbeStepKeeps DEF ProbeStep
  <2>2. CASE EndCheck(k)
    <3>1. [n \in Names |-> "none"] \in [Names -> ProbeStates]
      BY DEF ProbeStates
    <3>2. QED
      BY <2>0, <2>2, <3>1, MoveKeeps DEF EndCheck
  <2>3. ASSUME NEW n \in Names, StartCheck(k, n) PROVE Goal
    <3>1. [probe[k] EXCEPT ![n] = "fetching"] \in [Names -> ProbeStates]
      BY <2>0 DEF IInv, TypeOK, ProbeStates, Pending
    <3>2. probe' = [probe EXCEPT ![k] = [probe[k] EXCEPT ![n] = "fetching"]]
      BY <2>0, <2>3 DEF StartCheck, Probe, IInv, TypeOK
    <3>3. QED
      BY <2>0, <2>3, <3>1, <3>2, MoveKeeps DEF StartCheck
  <2>4. QED
    BY <1>3, <2>1, <2>2, <2>3 DEF Check
<1>4. QED
  BY <1>1, <1>2, <1>3 DEF Next

LEMMA InitGood == Init => IInv
<1> SUFFICES ASSUME Init PROVE IInv
  OBVIOUS
<1>1. \A c \in Cycles : at[c] = "idle" /\ alertee[c] = NoName
  BY DEF Init, Probers
<1>2. TypeOK
  BY DEF Init, TypeOK
<1>3. AlertControl /\ Alone /\ BeingTold
  BY <1>1 DEF AlertControl, Alone, BeingTold
<1>4. Silent /\ OneStatus
  BY DEF Init, Silent, OneStatus
<1>5. QED
  BY <1>2, <1>3, <1>4 DEF IInv

-----------------------------------------------------------------------------
(* The theorems.                                                              *)

\* The conjuncts of IInv hold in every reachable state: in particular a cycle that
\* awaits the webhook keeps the result it reports.
THEOREM CanaryInductive == Spec => []IInv
<1>1. IInv /\ [Next]_vars => IInv'
  BY StepKeeps
<1>2. QED
  BY <1>1, InitGood, PTL DEF Spec

\* The state of run_canary_check and probe_server keeps its type, for any servers,
\* cycles and health checks.
THEOREM CanaryTypeCorrect == Spec => []TypeOK
<1>1. IInv => TypeOK
  BY DEF IInv
<1>2. QED
  BY <1>1, CanaryInductive, PTL

\* As long as no two calls of run_canary_check have overlapped, last_health_results,
\* previous_status and the last alert agree on every server that no alert is being
\* sent about.
THEOREM StatusIsOne == Spec => []OneStatus
<1>1. IInv => OneStatus
  BY DEF IInv
<1>2. QED
  BY <1>1, CanaryInductive, PTL

\* As long as no two calls of run_canary_check have overlapped, send_canary_alert
\* is never called to report what it reported last for the same server.
THEOREM AlertsTellNews == Spec => LoneAlertsAreNews
<1>1. IInv /\ [Next]_vars => [~overlapped' => \A c \in Cycles : ~RepeatsAlert(c)]_vars
  BY StepKeeps
<1>2. QED
  BY <1>1, CanaryInductive, PTL DEF Spec, LoneAlertsAreNews
=============================================================================
