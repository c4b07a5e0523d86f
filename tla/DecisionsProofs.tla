--------------------------- MODULE DecisionsProofs ---------------------------
(***************************************************************************)
(* Proofs about what decides a run and what is learned from it, for every     *)
(* number of edits, publications, requests, tenants, reports and runs. Each   *)
(* component that MCDecisions puts together has an inductive invariant, and   *)
(* what a run of MCDecisions does in a focus is what the component does.       *)
(* RunAdmission has its proofs in RunAdmissionProofs.                       *)
(***************************************************************************)
EXTENDS MCDecisions, RunAdmissionProofs, FiniteSetTheorems

allVars == <<focus, vars, carriedVars, governedVars, learnedVars>>

\* A step of MCDecisions is a step of the component in focus.
LEMMA FocusStep ==
  ASSUME [DecisionsNext]_allVars
  PROVE  /\ focus' = focus
         /\ focus = "admission" => [Next]_vars
         /\ focus = "rules" => [RuleSet!Next]_ruleVars
         /\ focus = "constitution" => [Constitution!Next]_constitutionVars
         /\ focus = "pipeline" => [Pipeline!Next]_pipelineVars
         /\ focus = "graph" => [Graph!Next]_graphVars
         /\ focus = "ledger" => [Ledger!Next]_ledgerVars
         /\ focus = "maturity" => [TenantMaturity!Next]_maturityVars
         /\ focus = "patterns" => [Evolution!Next]_evolutionVars
         /\ focus = "client" => [Client!Next]_clientVars
         /\ focus # "maturity" => UNCHANGED maturityVars
BY DEF DecisionsNext, allVars, carriedVars, governedVars, learnedVars

\* The numbers among the constants
LEMMA DecisionNumbers ==
  /\ MaxVersions \in Nat \ {0} /\ MaxMoment \in Nat /\ MaxBid \in Nat
  /\ Interval \in Nat \ {0} /\ KeyTtl \in Nat /\ MaxLives \in Nat /\ MaxLedgerTime \in Nat \ {0}
  /\ Tiers \in Nat /\ NoCeiling \in Nat
  /\ FailureLimit \in Nat \ {0} /\ MaxPatterns \in Nat /\ MaxStreak \in Nat
  /\ Polls \in Nat /\ Timeout \in Nat /\ Margin \in Nat /\ TokenLife \in Nat /\ MaxSecond \in Nat \ {0}
  /\ 2 * Timeout <= Margin /\ 2 * Timeout < TokenLife
BY DecisionsAssumption DEF DecisionsAssumption
-----------------------------------------------------------------------------
(* A rule set: its numbers have no gap, and whoever is still to make a number *)
(* active knows of every higher one.                                        *)

EditRow ==
  [pc : {"ready", "latest", "create", "activate", "done", "failed"},
   latest : 0..MaxVersions, text : Texts]

RulesTyped ==
  /\ versions \subseteq [number : 1..MaxVersions, text : Texts, by : Edits \cup {"create"}]
  /\ edit \in [Edits -> EditRow]
  /\ active \in RuleSet!Numbers /\ passed \subseteq RuleSet!Numbers

\* m is the number of the newest version.
RulesCount(m) == m \in 1..MaxVersions /\ RuleSet!Numbers = 1..m

RulesHeld(m) ==
  /\ \A e \in Edits : edit[e].pc = "create" => edit[e].latest \in 1..m
  /\ \A e \in Edits : edit[e].pc = "activate" =>
       edit[e].latest + 1 \in 1..m /\ \A n \in 1..m : n > edit[e].latest + 1 => n \in passed
  /\ \/ active = m \/ m \in passed
     \/ \E e \in Edits : edit[e].pc = "activate" /\ edit[e].latest + 1 = m

RulesInv == RulesTyped /\ \E m \in Nat : RulesCount(m) /\ RulesHeld(m)

LEMMA LatestOf ==
  ASSUME NEW m \in Nat, RulesCount(m)
  PROVE  RuleSet!Latest = m /\ m \in 1..m
<1>1. m \in RuleSet!Numbers /\ \A k \in RuleSet!Numbers : k <= m
  BY DecisionNumbers DEF RulesCount
<1>2. \A n \in RuleSet!Numbers : (\A k \in RuleSet!Numbers : k <= n) => n = m
  BY <1>1, DecisionNumbers DEF RulesCount
<1> QED BY <1>1, <1>2, DecisionNumbers DEF RuleSet!Latest, RulesCount

LEMMA ReadyTyped ==
  ASSUME NEW t \in Texts
  PROVE  RuleSet!Ready \in EditRow /\ RuleSet!Ready.pc = "ready"
BY DecisionNumbers DEF RuleSet!Ready, EditRow

LEMMA RulesInit == RuleSet!Init => RulesInv
<1> SUFFICES ASSUME RuleSet!Init PROVE RulesInv
  OBVIOUS
<1>1. PICK t \in Texts : versions = {[number |-> 1, text |-> t, by |-> "create"]}
  BY DEF RuleSet!Init
<1>2. RuleSet!Numbers = {1}
  BY <1>1 DEF RuleSet!Numbers
<1>3. RuleSet!Numbers = 1..1
  BY <1>2
<1>4. RuleSet!Ready \in EditRow /\ RuleSet!Ready.pc = "ready"
  BY ReadyTyped
<1>5. versions \subseteq [number : 1..MaxVersions, text : Texts, by : Edits \cup {"create"}]
  BY <1>1, DecisionNumbers
<1>6. RulesTyped
  BY <1>2, <1>4, <1>5 DEF RuleSet!Init, RulesTyped
<1>7. RulesCount(1) /\ RulesHeld(1)
  BY <1>3, <1>4, DecisionNumbers DEF RuleSet!Init, RulesCount, RulesHeld
<1> QED BY <1>6, <1>7 DEF RulesInv

\* An edit that moves without creating or activating anything
LEMMA RulesMoved ==
  ASSUME RulesInv, NEW e \in Edits, NEW r \in EditRow,
         edit' = [edit EXCEPT ![e] = r], edit[e].pc # "activate", r.pc # "activate",
         r.pc = "create" => r.latest \in RuleSet!Numbers,
         UNCHANGED <<versions, active, passed>>
  PROVE  RulesInv'
<1>1. PICK m \in Nat : RulesCount(m) /\ RulesHeld(m)
  BY DEF RulesInv
<1>2. RuleSet!Numbers' = RuleSet!Numbers
  BY DEF RuleSet!Numbers
<1>3. RulesTyped'
  BY <1>2 DEF RulesInv, RulesTyped
<1>4. RulesCount(m)'
  BY <1>1, <1>2 DEF RulesCount
<1>5. \A d \in Edits : edit'[d] = edit[d] \/ (d = e /\ edit'[d] = r)
  BY DEF RulesInv, RulesTyped
<1>6. \A d \in Edits : edit[d].pc = "activate" => edit'[d] = edit[d]
  BY DEF RulesInv, RulesTyped
<1>7. RulesHeld(m)'
  BY <1>1, <1>5, <1>6 DEF RulesHeld, RulesCount
<1> QED BY <1>3, <1>4, <1>7 DEF RulesInv

\* The number that is not taken is the next one.
LEMMA RulesCreated ==
  ASSUME RulesInv, NEW e \in Edits, RuleSet!Create(e)
  PROVE  RulesInv'
<1>1. PICK m \in Nat : RulesCount(m) /\ RulesHeld(m)
  BY DEF RulesInv
<1> DEFINE n == edit[e].latest + 1
<1>2. n = m + 1 /\ n <= MaxVersions
  <2>1. edit[e].latest \in 1..m /\ n \notin 1..m /\ n <= MaxVersions
    BY <1>1 DEF RuleSet!Create, RuleSet!NumberTaken, RulesHeld, RulesCount
  <2> QED BY <2>1, <1>1
<1>3. versions' = versions \cup {[number |-> n, text |-> edit[e].text, by |-> e]}
  BY DEF RuleSet!Create
<1>4. RuleSet!Numbers' = RuleSet!Numbers \cup {n}
  <2> DEFINE v == [number |-> n, text |-> edit[e].text, by |-> e]
  <2>1. v.number = n /\ versions' = versions \cup {v}
    BY <1>3
  <2> HIDE DEF v
  <2> QED BY <2>1 DEF RuleSet!Numbers
<1>5. RuleSet!Numbers' = 1..(m + 1)
  BY <1>1, <1>2, <1>4 DEF RulesCount
<1>6. PICK r \in EditRow : r = edit[e]
  BY DEF RulesInv, RulesTyped
<1> DEFINE a == [r EXCEPT !.pc = "activate"]
<1>7. a \in EditRow /\ a.pc = "activate" /\ a.latest = r.latest
  BY DEF EditRow
<1>8. edit' = [edit EXCEPT ![e] = a]
  BY <1>6 DEF RuleSet!Create
<1> HIDE DEF a
<1>9. \A d \in Edits : edit'[d] = IF d = e THEN a ELSE edit[d]
  BY <1>8 DEF RulesInv, RulesTyped
<1>10. passed \subseteq passed' /\ passed' \subseteq passed \cup {n} /\ active' = active
  BY DEF RuleSet!Create
<1>11. (\E d \in Edits \ {e} : edit[d].pc = "activate") => n \in passed'
  BY DEF RuleSet!Create
<1>12. RulesTyped'
  <2>1. [number |-> n, text |-> edit[e].text, by |-> e]
          \in [number : 1..MaxVersions, text : Texts, by : Edits \cup {"create"}]
    BY <1>1, <1>2, <1>6, DecisionNumbers DEF EditRow
  <2>2. versions' \subseteq [number : 1..MaxVersions, text : Texts, by : Edits \cup {"create"}]
    BY <1>3, <2>1 DEF RulesInv, RulesTyped
  <2>3. edit' \in [Edits -> EditRow]
    BY <1>7, <1>8 DEF RulesInv, RulesTyped
  <2> QED BY <2>2, <2>3, <1>4, <1>10 DEF RulesInv, RulesTyped
<1>13. RulesCount(m + 1)'
  BY <1>1, <1>2, <1>5, DecisionNumbers DEF RulesCount
<1>14. RulesHeld(m + 1)'
  <2>1. \A d \in Edits : edit'[d].pc = "create" => edit'[d].latest \in 1..(m + 1)
    BY <1>1, <1>7, <1>9 DEF RulesHeld
  <2>2. ASSUME NEW d \in Edits, edit'[d].pc = "activate"
        PROVE  /\ edit'[d].latest + 1 \in 1..(m + 1)
               /\ \A k \in 1..(m + 1) : k > edit'[d].latest + 1 => k \in passed'
    <3>1. CASE d = e
      BY <3>1, <1>2, <1>6, <1>7, <1>9 DEF EditRow
    <3>2. CASE d # e
      <4>1. edit[d].pc = "activate" /\ edit'[d] = edit[d]
        BY <2>2, <3>2, <1>9
      <4>2. m + 1 \in passed'
        BY <4>1, <3>2, <1>2, <1>11
      <4> QED BY <4>1, <4>2, <1>1, <1>10 DEF RulesHeld
    <3> QED BY <3>1, <3>2
  <2>3. edit'[e].pc = "activate" /\ edit'[e].latest + 1 = m + 1
    BY <1>2, <1>6, <1>7, <1>9
  <2> QED BY <2>1, <2>2, <2>3 DEF RulesHeld
<1> QED BY <1>1, <1>12, <1>13, <1>14 DEF RulesInv

\* An edit whose number is made active, or stays inactive
LEMMA RulesEnded ==
  ASSUME RulesInv, NEW e \in Edits, RuleSet!Activate(e) \/ RuleSet!ActivateFails(e)
  PROVE  RulesInv'
<1>1. PICK m \in Nat : RulesCount(m) /\ RulesHeld(m)
  BY DEF RulesInv
<1> DEFINE n == edit[e].latest + 1
<1>2. edit[e].pc = "activate" /\ n \in 1..m /\ \A k \in 1..m : k > n => k \in passed
  BY <1>1 DEF RuleSet!Activate, RuleSet!ActivateFails, RulesHeld
<1>3. PICK r \in EditRow : edit' = [edit EXCEPT ![e] = r] /\ r.pc \notin {"activate", "create"}
  <2>1. RuleSet!Ready \in EditRow
    BY ReadyTyped DEF RulesInv, RulesTyped, EditRow
  <2>2. /\ [RuleSet!Ready EXCEPT !.pc = "done"] \in EditRow
        /\ [RuleSet!Ready EXCEPT !.pc = "failed"] \in EditRow
        /\ [RuleSet!Ready EXCEPT !.pc = "done"].pc = "done"
        /\ [RuleSet!Ready EXCEPT !.pc = "failed"].pc = "failed"
    BY <2>1 DEF EditRow
  <2> QED BY <2>2 DEF RuleSet!Activate, RuleSet!ActivateFails
<1>4. \A d \in Edits : edit'[d] = IF d = e THEN r ELSE edit[d]
  BY <1>3 DEF RulesInv, RulesTyped
<1>5. versions' = versions /\ RuleSet!Numbers' = RuleSet!Numbers
  BY DEF RuleSet!Activate, RuleSet!ActivateFails, RuleSet!Numbers
<1>6. \/ active' = n /\ passed' = passed
      \/ active' = active /\ passed' = passed \cup {n}
  BY DEF RuleSet!Activate, RuleSet!ActivateFails, RuleSet!CreatedNumber
<1>7. RulesTyped'
  BY <1>1, <1>2, <1>3, <1>5, <1>6 DEF RulesInv, RulesTyped, RulesCount
<1>8. RulesCount(m)'
  BY <1>1, <1>5 DEF RulesCount
<1>9. RulesHeld(m)'
  BY <1>1, <1>2, <1>3, <1>4, <1>6 DEF RulesHeld
<1> QED BY <1>7, <1>8, <1>9 DEF RulesInv

LEMMA RulesStep == RulesInv /\ [RuleSet!Next]_ruleVars => RulesInv'
<1> SUFFICES ASSUME RulesInv, [RuleSet!Next]_ruleVars PROVE RulesInv'
  OBVIOUS
<1>1. PICK m \in Nat : RulesCount(m) /\ RulesHeld(m)
  BY DEF RulesInv
<1>2. ASSUME NEW e \in Edits, RuleSet!BeginUpdate(e) \/ RuleSet!BeginRollback(e)
      PROVE  RulesInv'
  <2>1. PICK t \in Texts : edit' = [edit EXCEPT ![e] = [RuleSet!Ready EXCEPT !.pc = "latest", !.text = t]]
    <3>1. CASE RuleSet!BeginUpdate(e)
      BY <3>1 DEF RuleSet!BeginUpdate
    <3>2. CASE RuleSet!BeginRollback(e)
      <4>1. PICK n \in RuleSet!Numbers :
              edit' = [edit EXCEPT ![e] = [RuleSet!Ready EXCEPT !.pc = "latest", !.text = RuleSet!Text(n)]]
        BY <3>2 DEF RuleSet!BeginRollback
      <4>2. RuleSet!Text(n) \in Texts
        BY DEF RuleSet!Text, RuleSet!Numbers, RulesInv, RulesTyped
      <4> QED BY <4>1, <4>2
    <3> QED BY <1>2, <3>1, <3>2
  <2> DEFINE r == [RuleSet!Ready EXCEPT !.pc = "latest", !.text = t]
  <2>2. r \in EditRow /\ r.pc = "latest"
    <3>1. PICK x \in EditRow : x = RuleSet!Ready
      BY ReadyTyped
    <3> QED BY <3>1 DEF EditRow
  <2>3. edit[e].pc = "ready" /\ UNCHANGED <<versions, active, passed>>
    BY <1>2 DEF RuleSet!BeginUpdate, RuleSet!BeginRollback
  <2> HIDE DEF r
  <2> QED BY <2>1, <2>2, <2>3, RulesMoved DEF r
<1>3. ASSUME NEW e \in Edits, RuleSet!ReadLatest(e)
      PROVE  RulesInv'
  <2>1. PICK r \in EditRow : r = edit[e]
    BY DEF RulesInv, RulesTyped
  <2> DEFINE a == [r EXCEPT !.pc = "create", !.latest = RuleSet!Latest]
  <2>2. RuleSet!Latest = m /\ m \in 1..m /\ m \in 0..MaxVersions
    BY <1>1, LatestOf, DecisionNumbers DEF RulesCount
  <2>3. a \in EditRow /\ a.pc = "create" /\ a.latest = m
    BY <2>2 DEF EditRow
  <2>4. edit' = [edit EXCEPT ![e] = a] /\ edit[e].pc = "latest" /\ UNCHANGED <<versions, active, passed>>
    BY <1>3, <2>1 DEF RuleSet!ReadLatest
  <2> HIDE DEF a
  <2>5. a.pc # "activate" /\ edit[e].pc # "activate" /\ a.latest \in RuleSet!Numbers
    BY <2>2, <2>3, <2>4, <1>1 DEF RulesCount
  <2> QED BY <2>3, <2>4, <2>5, RulesMoved
<1>4. ASSUME NEW e \in Edits, RuleSet!CreateFails(e)
      PROVE  RulesInv'
  <2> DEFINE r == [RuleSet!Ready EXCEPT !.pc = "failed"]
  <2>1. PICK t \in Texts : TRUE
    BY <1>4 DEF RulesInv, RulesTyped, EditRow
  <2>2. r \in EditRow /\ r.pc = "failed"
    <3>1. PICK x \in EditRow : x = RuleSet!Ready
      BY <2>1, ReadyTyped
    <3> QED BY <3>1 DEF EditRow
  <2>3. /\ edit' = [edit EXCEPT ![e] = r] /\ edit[e].pc = "create"
        /\ UNCHANGED <<versions, active, passed>>
    BY <1>4 DEF RuleSet!CreateFails
  <2> HIDE DEF r
  <2> QED BY <2>2, <2>3, RulesMoved
<1>5. CASE UNCHANGED ruleVars
  BY <1>5 DEF ruleVars, RulesInv, RulesTyped, RulesCount, RulesHeld, RuleSet!Numbers
<1> QED BY <1>2, <1>3, <1>4, <1>5, RulesCreated, RulesEnded DEF RuleSet!Next

LEMMA RulesKept ==
  ASSUME RulesInv
  PROVE  RuleSet!TypeOK /\ RuleSet!NewestIsActive
<1>1. PICK m \in Nat : RulesCount(m) /\ RulesHeld(m)
  BY DEF RulesInv
<1>2. RuleSet!Latest = m
  BY <1>1, LatestOf
<1>3. RuleSet!NewestIsActive
  BY <1>1, <1>2 DEF RulesHeld, RuleSet!NewestIsActive
<1>4. \A e \in Edits : edit[e] \in EditRow
  BY DEF RulesInv, RulesTyped
<1> QED BY <1>3, <1>4 DEF RulesInv, RulesTyped, EditRow, RuleSet!TypeOK
-----------------------------------------------------------------------------
(* Maturity: an action property of what a recalculation writes              *)

Ceilings == 0..Tiers \cup {NoCeiling}
MaturityRow == [exists : BOOLEAN, level : 0..Tiers, ceiling : Ceilings]
RecalcRow ==
  [pc : {"free", "counts", "ceiling", "write"}, owner : Owners \cup {"none"},
   earned : 0..Tiers, ceiling : Ceilings]

MaturityInv ==
  /\ earned \in [Owners -> 0..Tiers] /\ list \subseteq Owners /\ jobRuns \in BOOLEAN
  /\ row \in [Owners -> MaturityRow] /\ recalc \in [TenantMaturity!Workers -> RecalcRow]
  /\ \A w \in TenantMaturity!Workers : recalc[w].pc # "free" => recalc[w].owner \in Owners

LEMMA MaturityRows ==
  /\ TenantMaturity!Free \in RecalcRow /\ TenantMaturity!Free.pc = "free"
  /\ TenantMaturity!NoRow \in MaturityRow
BY DecisionNumbers
DEF TenantMaturity!Free, TenantMaturity!NoRow, RecalcRow, MaturityRow, Ceilings

LEMMA MaturityInit == TenantMaturity!Init => MaturityInv
<1> SUFFICES ASSUME TenantMaturity!Init PROVE MaturityInv
  OBVIOUS
<1>1. earned \in [Owners -> 0..Tiers]
  BY DecisionNumbers DEF TenantMaturity!Init
<1>2. row \in [Owners -> MaturityRow] /\ recalc \in [TenantMaturity!Workers -> RecalcRow]
  BY MaturityRows DEF TenantMaturity!Init
<1>3. \A w \in TenantMaturity!Workers : recalc[w].pc = "free"
  BY MaturityRows DEF TenantMaturity!Init
<1> QED BY <1>1, <1>2, <1>3 DEF TenantMaturity!Init, MaturityInv

\* A worker that goes on with a tenant
LEMMA MaturityMoved ==
  ASSUME MaturityInv, NEW w \in TenantMaturity!Workers, NEW r \in RecalcRow,
         r.pc # "free" => r.owner \in Owners,
         recalc' = [recalc EXCEPT ![w] = r], list' \subseteq Owners, UNCHANGED <<earned, row, jobRuns>>
  PROVE  MaturityInv'
<1>1. \A v \in TenantMaturity!Workers : recalc'[v] = IF v = w THEN r ELSE recalc[v]
  BY DEF MaturityInv
<1> QED BY <1>1 DEF MaturityInv, TenantMaturity!Workers

LEMMA MaturityTaken ==
  ASSUME MaturityInv, NEW w \in TenantMaturity!Workers, NEW t \in Owners,
         recalc' = [recalc EXCEPT ![w] = [TenantMaturity!Free EXCEPT !.pc = "counts", !.owner = t]],
         list' \subseteq Owners, UNCHANGED <<earned, row, jobRuns>>
  PROVE  MaturityInv'
<1>1. PICK f \in RecalcRow : f = TenantMaturity!Free
  BY MaturityRows
<1> DEFINE r == [f EXCEPT !.pc = "counts", !.owner = t]
<1>2. r \in RecalcRow /\ r.owner = t
  BY DEF RecalcRow
<1>3. recalc' = [recalc EXCEPT ![w] = r]
  BY <1>1
<1> HIDE DEF r
<1> QED BY <1>2, <1>3, MaturityMoved

\* What a worker writes
Levelled(w) ==
  [exists |-> TRUE, ceiling |-> row[recalc[w].owner].ceiling,
   level |-> TenantMaturity!Effective(recalc[w].earned, recalc[w].ceiling)]

LEMMA LevelWritten ==
  ASSUME MaturityInv, NEW w \in TenantMaturity!Workers, TenantMaturity!Write(w)
  PROVE  /\ recalc[w].owner \in Owners /\ recalc[w].pc = "write"
         /\ Levelled(w) \in MaturityRow
         /\ Levelled(w).level <= recalc[w].ceiling
         /\ row' = [row EXCEPT ![recalc[w].owner] = Levelled(w)]
<1>1. recalc[w].owner \in Owners /\ recalc[w].pc = "write"
  BY DEF MaturityInv, TenantMaturity!Write
<1>2. PICK r \in RecalcRow : r = recalc[w]
  BY DEF MaturityInv
<1>3. PICK o \in MaturityRow : o = row[recalc[w].owner]
  BY <1>1 DEF MaturityInv
<1> DEFINE l == TenantMaturity!Effective(recalc[w].earned, recalc[w].ceiling)
<1>4. l \in 0..Tiers /\ l <= recalc[w].ceiling
  BY <1>2, DecisionNumbers DEF RecalcRow, Ceilings, TenantMaturity!Effective
<1> HIDE DEF l
<1>5. Levelled(w) \in MaturityRow /\ Levelled(w).level = l
  BY <1>3, <1>4 DEF MaturityRow, Levelled, l
<1> QED BY <1>1, <1>4, <1>5 DEF TenantMaturity!Write, Levelled

LEMMA MaturityStep == MaturityInv /\ [TenantMaturity!Next]_maturityVars => MaturityInv'
<1> SUFFICES ASSUME MaturityInv, [TenantMaturity!Next]_maturityVars PROVE MaturityInv'
  OBVIOUS
<1>1. CASE TenantMaturity!StartJob \/ TenantMaturity!EndJob
  BY <1>1 DEF MaturityInv, TenantMaturity!StartJob, TenantMaturity!EndJob, TenantMaturity!Workers
<1>2. ASSUME NEW t \in Owners, TenantMaturity!Learn(t)
      PROVE  MaturityInv'
  BY <1>2 DEF MaturityInv, TenantMaturity!Learn, TenantMaturity!Workers
<1>3. ASSUME NEW t \in Owners, TenantMaturity!SetCeiling(t)
      PROVE  MaturityInv'
  <2>1. PICK c \in Ceilings : row' = [row EXCEPT ![t].ceiling = c, ![t].exists = TRUE]
    BY <1>3 DEF TenantMaturity!SetCeiling, Ceilings
  <2>2. PICK o \in MaturityRow : o = row[t]
    BY DEF MaturityInv
  <2> DEFINE n == [o EXCEPT !.ceiling = c, !.exists = TRUE]
  <2>3. n \in MaturityRow /\ row' = [row EXCEPT ![t] = n]
    BY <2>1, <2>2 DEF MaturityInv, MaturityRow
  <2> HIDE DEF n
  <2> QED BY <1>3, <2>3 DEF MaturityInv, TenantMaturity!SetCeiling, TenantMaturity!Workers
<1>4. ASSUME NEW w \in TenantMaturity!Workers, NEW t \in Owners, TenantMaturity!Ask(w, t)
      PROVE  MaturityInv'
  BY <1>4, MaturityTaken DEF TenantMaturity!Ask, MaturityInv
<1>5. ASSUME NEW w \in TenantMaturity!Workers, TenantMaturity!Take(w)
      PROVE  MaturityInv'
  <2>1. PICK t \in list : /\ list' = list \ {t}
                          /\ recalc' = [recalc EXCEPT ![w] =
                               [TenantMaturity!Free EXCEPT !.pc = "counts", !.owner = t]]
    BY <1>5 DEF TenantMaturity!Take
  <2>2. t \in Owners /\ list' \subseteq Owners /\ UNCHANGED <<earned, row, jobRuns>>
    BY <1>5, <2>1 DEF TenantMaturity!Take, MaturityInv
  <2> QED BY <2>1, <2>2, MaturityTaken
<1>6. ASSUME NEW w \in TenantMaturity!Workers, TenantMaturity!Count(w) \/ TenantMaturity!ReadCeiling(w)
      PROVE  MaturityInv'
  <2>1. PICK f \in RecalcRow : f = recalc[w]
    BY DEF MaturityInv
  <2>2. f.owner \in Owners
    BY <1>6, <2>1 DEF MaturityInv, TenantMaturity!Count, TenantMaturity!ReadCeiling
  <2>3. PICK n \in 0..Tiers, c \in Ceilings : n = earned[f.owner] /\ c = row[f.owner].ceiling
    BY <2>2 DEF MaturityInv, MaturityRow
  <2> DEFINE a == [f EXCEPT !.pc = "ceiling", !.earned = n]
             b == [f EXCEPT !.pc = "write", !.ceiling = c]
  <2>4. a \in RecalcRow /\ b \in RecalcRow /\ a.owner = f.owner /\ b.owner = f.owner
    BY DEF RecalcRow
  <2>5. recalc' = [recalc EXCEPT ![w] = a] \/ recalc' = [recalc EXCEPT ![w] = b]
    BY <1>6, <2>1, <2>3 DEF TenantMaturity!Count, TenantMaturity!ReadCeiling, MaturityInv
  <2>6. list' \subseteq Owners /\ UNCHANGED <<earned, row, jobRuns>>
    BY <1>6 DEF TenantMaturity!Count, TenantMaturity!ReadCeiling, MaturityInv
  <2> HIDE DEF a, b
  <2> QED BY <2>2, <2>4, <2>5, <2>6, MaturityMoved
<1>7. ASSUME NEW w \in TenantMaturity!Workers, TenantMaturity!Fail(w)
      PROVE  MaturityInv'
  BY <1>7, MaturityRows, MaturityMoved DEF TenantMaturity!Fail, MaturityInv
<1>8. ASSUME NEW w \in TenantMaturity!Workers, TenantMaturity!Write(w)
      PROVE  MaturityInv'
  <2>1. row' \in [Owners -> MaturityRow]
    BY <1>8, LevelWritten DEF MaturityInv
  <2>2. recalc' = [recalc EXCEPT ![w] = TenantMaturity!Free] /\ UNCHANGED <<earned, list, jobRuns>>
    BY <1>8 DEF TenantMaturity!Write
  <2>3. \A v \in TenantMaturity!Workers : recalc'[v] = IF v = w THEN TenantMaturity!Free ELSE recalc[v]
    BY <2>2 DEF MaturityInv
  <2> QED BY <2>1, <2>2, <2>3, MaturityRows DEF MaturityInv, TenantMaturity!Workers
<1>9. CASE UNCHANGED maturityVars
  BY <1>9 DEF maturityVars, MaturityInv, TenantMaturity!Workers
<1> QED BY <1>1, <1>2, <1>3, <1>4, <1>5, <1>6, <1>7, <1>8, <1>9 DEF TenantMaturity!Next

LEMMA RaiseKept ==
  ASSUME MaturityInv, [TenantMaturity!Next]_maturityVars
  PROVE  TenantMaturity!RaiseStep
<1> SUFFICES ASSUME NEW t \in Owners, row'[t].level > row[t].level, row'[t].level > row[t].ceiling
             PROVE  \E w \in TenantMaturity!Workers :
                      /\ recalc[w].owner = t /\ recalc[w].pc = "write"
                      /\ recalc[w].ceiling # row[t].ceiling
  BY DEF TenantMaturity!RaiseStep
<1>1. PICK o \in MaturityRow : o = row[t]
  BY DEF MaturityInv
<1>2. row' # row
  BY <1>1, DecisionNumbers DEF MaturityRow
<1>3. ASSUME NEW s \in Owners, TenantMaturity!SetCeiling(s)
      PROVE  FALSE
  <2>1. PICK c \in Ceilings : row' = [row EXCEPT ![s].ceiling = c, ![s].exists = TRUE]
    BY <1>3 DEF TenantMaturity!SetCeiling, Ceilings
  <2>2. row'[t].level = row[t].level
    BY <1>1, <2>1 DEF MaturityInv, MaturityRow
  <2> QED BY <1>1, <2>2, DecisionNumbers DEF MaturityRow
<1>4. PICK w \in TenantMaturity!Workers : TenantMaturity!Write(w)
  BY <1>2, <1>3
  DEF TenantMaturity!Next, TenantMaturity!StartJob, TenantMaturity!EndJob, TenantMaturity!Learn,
      TenantMaturity!Ask, TenantMaturity!Take, TenantMaturity!Count, TenantMaturity!ReadCeiling,
      TenantMaturity!Fail, maturityVars
<1>5. t = recalc[w].owner /\ row'[t] = Levelled(w)
  <2>1. \A s \in Owners : s # recalc[w].owner => row'[s] = row[s]
    BY <1>4, LevelWritten DEF MaturityInv
  <2>2. t = recalc[w].owner
    BY <2>1, <1>1, DecisionNumbers DEF MaturityRow
  <2> QED BY <1>4, <2>2, LevelWritten DEF MaturityInv
<1>6. recalc[w].ceiling # row[t].ceiling
  <2>1. Levelled(w).level \in 0..Tiers /\ Levelled(w).level <= recalc[w].ceiling
    BY <1>4, LevelWritten DEF MaturityRow
  <2>2. recalc[w].ceiling \in Ceilings /\ o.ceiling \in Ceilings
    BY DEF MaturityInv, MaturityRow, RecalcRow
  <2> QED BY <1>1, <1>5, <2>1, <2>2, DecisionNumbers DEF Ceilings
<1> QED BY <1>4, <1>5, <1>6, LevelWritten

LEMMA MaturityKept == MaturityInv => TenantMaturity!TypeOK
BY DEF MaturityInv, MaturityRow, Ceilings, TenantMaturity!TypeOK
-----------------------------------------------------------------------------
(* The client of a platform: a token is good for the time of its request       *)

AskRow ==
  [pc : {"idle", "queued", "start", "wait", "sent", "sleep", "download"},
   asks : {"none", "report", "status"}, polls : 0..Polls, since : Nat, token : Nat]
RefreshRow == [pc : {"none", "asked", "issued"}, since : Nat, issued : Nat]
CachedToken == [issued : Nat, expires : Nat]

\* A request that is under way at s will be over before its token is.
Good(a, s) ==
  /\ a.token <= s
  /\ a.pc = "sent" => /\ a.since <= s /\ s <= a.since + Timeout
                      /\ a.since + Timeout < a.token + TokenLife

ClientTyped ==
  /\ second \in 1..MaxSecond /\ cached \in CachedToken /\ refresh \in RefreshRow
  /\ asking \in [ReportRuns -> AskRow]
  /\ reports \in [ReportRuns -> {"none", "pending", "completed"}]

ClientTimes ==
  /\ cached.issued <= second /\ cached.expires <= cached.issued + Timeout + TokenLife
  /\ cached.expires <= MaxSecond + TokenLife
  /\ refresh.pc # "none" => refresh.since <= second /\ second <= refresh.since + Timeout
  /\ refresh.pc = "issued" => refresh.since <= refresh.issued /\ refresh.issued <= second

ClientInv ==
  /\ ClientTyped /\ ClientTimes
  /\ \A r \in ReportRuns : Good(asking[r], second)
  /\ \A r \in ReportRuns : asking[r].pc = "wait" => refresh.pc # "none"

LEMMA ClientRows ==
  /\ Client!NoRun \in AskRow /\ Client!NoRun.pc = "idle" /\ Client!NoRun.token = 0
  /\ Client!NoRefresh \in RefreshRow /\ Client!NoRefresh.pc = "none"
  /\ Client!NoToken \in CachedToken /\ Client!NoToken.issued = 0 /\ Client!NoToken.expires = 0
BY DecisionNumbers
DEF Client!NoRun, Client!NoRefresh, Client!NoToken, AskRow, RefreshRow, CachedToken

LEMMA IdleIsGood ==
  ASSUME NEW a \in AskRow, NEW s \in Nat, a.token <= s, a.pc # "sent"
  PROVE  Good(a, s)
BY DEF Good

LEMMA ClientInit == Client!Init => ClientInv
<1> SUFFICES ASSUME Client!Init PROVE ClientInv
  OBVIOUS
<1>1. ClientTyped
  BY ClientRows, DecisionNumbers DEF Client!Init, ClientTyped
<1>2. ClientTimes
  BY ClientRows, DecisionNumbers DEF Client!Init, ClientTimes
<1>3. \A r \in ReportRuns : Good(asking[r], second) /\ asking[r].pc # "wait"
  BY ClientRows DEF Client!Init, Good
<1> QED BY <1>1, <1>2, <1>3 DEF ClientInv

\* One run goes on, and the refresh is not over.
LEMMA ClientMoved ==
  ASSUME ClientInv, NEW r \in ReportRuns, NEW a \in AskRow, Good(a, second),
         asking' = [asking EXCEPT ![r] = a],
         a.pc = "wait" => refresh'.pc # "none",
         refresh' \in RefreshRow, refresh.pc # "none" => refresh' = refresh,
         refresh'.pc # "none" => refresh'.since <= second /\ second <= refresh'.since + Timeout,
         refresh'.pc = "issued" => refresh'.since <= refresh'.issued /\ refresh'.issued <= second,
         reports' \in [ReportRuns -> {"none", "pending", "completed"}],
         UNCHANGED <<second, cached>>
  PROVE  ClientInv'
<1>1. \A q \in ReportRuns : asking'[q] = IF q = r THEN a ELSE asking[q]
  BY DEF ClientInv, ClientTyped
<1>2. ClientTyped'
  BY DEF ClientInv, ClientTyped
<1>3. ClientTimes'
  BY DEF ClientInv, ClientTimes
<1>4. \A q \in ReportRuns : Good(asking'[q], second)
  BY <1>1 DEF ClientInv
<1>5. \A q \in ReportRuns : asking'[q].pc = "wait" => refresh'.pc # "none"
  BY <1>1 DEF ClientInv
<1> QED BY <1>2, <1>3, <1>4, <1>5 DEF ClientInv, Good

LEMMA ClientWent ==
  ASSUME ClientInv, NEW r \in ReportRuns,
         NEW pc \in {"idle", "queued", "start", "sleep", "download"}, Client!Go(r, pc),
         reports' \in [ReportRuns -> {"none", "pending", "completed"}],
         UNCHANGED <<second, cached, refresh>>
  PROVE  ClientInv'
<1>1. PICK f \in AskRow : f = asking[r]
  BY DEF ClientInv, ClientTyped
<1> DEFINE a == [f EXCEPT !.pc = pc, !.since = 0, !.token = 0]
<1>2. a \in AskRow /\ a.token = 0 /\ a.pc = pc
  BY DEF AskRow
<1>3. asking' = [asking EXCEPT ![r] = a]
  BY <1>1 DEF Client!Go, ClientInv, ClientTyped
<1> HIDE DEF a
<1>4. Good(a, second)
  BY <1>2, IdleIsGood DEF ClientInv, ClientTyped
<1> QED BY <1>2, <1>3, <1>4, ClientMoved DEF ClientInv, ClientTyped, ClientTimes

\* A run that takes what the queue has, or nothing
LEMMA ClientQueued ==
  ASSUME ClientInv, NEW r \in ReportRuns, NEW a \in AskRow, a.token <= second, a.pc \in {"idle", "queued"},
         asking' = [asking EXCEPT ![r] = a],
         reports' \in [ReportRuns -> {"none", "pending", "completed"}],
         UNCHANGED <<second, cached, refresh>>
  PROVE  ClientInv'
<1>1. Good(a, second)
  BY IdleIsGood DEF ClientInv, ClientTyped
<1> QED BY <1>1, ClientMoved DEF ClientInv, ClientTyped, ClientTimes
\* A request that goes now, with a token that is usable or new
LEMMA SentIsGood ==
  ASSUME second \in Nat, NEW a \in AskRow, NEW i \in Nat, i <= second,
         second + Timeout < i + TokenLife
  PROVE  /\ Client!Sent(a, i) \in AskRow /\ Client!Sent(a, i).pc = "sent"
         /\ Good(Client!Sent(a, i), second)
<1> DEFINE b == [a EXCEPT !.pc = "sent", !.token = i, !.since = second]
<1>1. b \in AskRow /\ b.pc = "sent" /\ b.token = i /\ b.since = second
  BY DEF AskRow
<1>2. b = Client!Sent(a, i)
  BY DEF Client!Sent
<1> HIDE DEF b
<1> QED BY <1>1, <1>2, DecisionNumbers DEF Good

\* What the margin is for: a token taken from the cache outlives a request.
LEMMA UsableOutlives ==
  ASSUME ClientInv, Client!Usable
  PROVE  second + Timeout < cached.issued + TokenLife
<1>1. PICK c \in CachedToken : c = cached
  BY DEF ClientInv, ClientTyped
<1>2. second + Margin < c.expires /\ c.expires <= c.issued + Timeout + TokenLife
  BY <1>1 DEF Client!Usable, ClientInv, ClientTimes
<1>3. second \in Nat /\ c.issued \in Nat /\ c.expires \in Nat
  BY DEF ClientInv, ClientTyped, CachedToken
<1> QED BY <1>1, <1>2, <1>3, DecisionNumbers

LEMMA ClientTakesToken ==
  ASSUME ClientInv, NEW r \in ReportRuns, Client!TakeToken(r)
  PROVE  ClientInv'
<1>1. PICK f \in AskRow : f = asking[r]
  BY DEF ClientInv, ClientTyped
<1>2. second \in Nat /\ cached.issued \in Nat /\ cached.issued <= second
  BY DEF ClientInv, ClientTyped, ClientTimes, CachedToken
<1>3. reports' \in [ReportRuns -> {"none", "pending", "completed"}] /\ UNCHANGED <<second, cached>>
  BY DEF Client!TakeToken, ClientInv, ClientTyped
<1>4. CASE Client!Usable
  <2> DEFINE a == Client!Sent(f, cached.issued)
  <2>1. a \in AskRow /\ a.pc = "sent" /\ Good(a, second)
    BY <1>2, <1>4, UsableOutlives, SentIsGood
  <2>2. asking' = [asking EXCEPT ![r] = a] /\ refresh' = refresh
    BY <1>1, <1>4 DEF Client!TakeToken
  <2> HIDE DEF a
  <2> QED BY <2>1, <2>2, <1>3, ClientMoved DEF ClientInv, ClientTyped, ClientTimes
<1>5. CASE ~Client!Usable
  <2> DEFINE a == [f EXCEPT !.pc = "wait", !.since = 0, !.token = 0]
  <2>1. a \in AskRow /\ a.pc = "wait" /\ a.token = 0
    BY DEF AskRow
  <2>2. asking' = [asking EXCEPT ![r] = a]
    BY <1>1, <1>5 DEF Client!TakeToken, Client!Go, ClientInv, ClientTyped
  <2> HIDE DEF a
  <2>3. Good(a, second)
    BY <1>2, <2>1, IdleIsGood
  <2>4. CASE refresh.pc = "none"
    <3>1. PICK e \in RefreshRow : e = Client!NoRefresh
      BY ClientRows
    <3> DEFINE n == [e EXCEPT !.pc = "asked", !.since = second]
    <3>2. n \in RefreshRow /\ n.pc = "asked" /\ n.since = second
      BY <1>2 DEF RefreshRow
    <3>3. refresh' = n
      BY <1>5, <2>4, <3>1 DEF Client!TakeToken
    <3> HIDE DEF n
    <3>4. second <= n.since + Timeout
      BY <1>2, <3>2, DecisionNumbers
    <3>5. /\ refresh' \in RefreshRow /\ refresh'.pc = "asked" /\ refresh.pc = "none"
          /\ refresh'.since <= second /\ second <= refresh'.since + Timeout
      BY <1>2, <2>4, <3>2, <3>3, <3>4
    <3> QED BY <1>3, <2>1, <2>2, <2>3, <3>5, ClientMoved
  <2>5. CASE refresh.pc # "none"
    <3>1. refresh' = refresh
      BY <1>5, <2>5 DEF Client!TakeToken
    <3> QED BY <1>3, <2>1, <2>2, <2>3, <2>5, <3>1, ClientMoved DEF ClientInv, ClientTyped, ClientTimes
  <2> QED BY <2>4, <2>5
<1> QED BY <1>4, <1>5

LEMMA ClientRun ==
  ASSUME ClientInv, NEW r \in ReportRuns,
         \/ Client!Begin(r) \/ Client!TakeSlot(r) \/ Client!Reported(r) \/ Client!Polled(r)
         \/ Client!Downloaded(r) \/ Client!Wake(r) \/ Client!RequestFails(r) \/ Client!Complete(r)
  PROVE  ClientInv'
<1>1. PICK f \in AskRow : f = asking[r] /\ Good(f, second)
  BY DEF ClientInv, ClientTyped
<1>2. second \in Nat /\ 0 <= second
  BY DEF ClientInv, ClientTyped
<1>3. CASE Client!Begin(r)
  <2>1. PICK n \in AskRow : n = Client!NoRun /\ n.token = 0
    BY ClientRows
  <2> DEFINE a == [n EXCEPT !.pc = "queued", !.asks = "report"]
  <2>2. a \in AskRow /\ a.token = 0 /\ a.pc = "queued"
    BY <2>1 DEF AskRow
  <2>3. /\ asking' = [asking EXCEPT ![r] = a] /\ UNCHANGED <<second, cached, refresh>>
        /\ reports' \in [ReportRuns -> {"none", "pending", "completed"}]
    BY <1>3, <2>1 DEF Client!Begin, ClientInv, ClientTyped
  <2> HIDE DEF a
  <2> QED BY <1>2, <2>2, <2>3, ClientQueued
<1>4. CASE Client!TakeSlot(r)
  BY <1>4, ClientWent DEF Client!TakeSlot, ClientInv, ClientTyped
<1>5. CASE Client!Reported(r)
  BY <1>5, ClientWent DEF Client!Reported, ClientInv, ClientTyped
<1>6. CASE Client!Polled(r)
  BY <1>6, ClientWent DEF Client!Polled, ClientInv, ClientTyped
<1>7. CASE Client!Downloaded(r) \/ Client!RequestFails(r)
  <2>1. asking' = [asking EXCEPT ![r] = Client!NoRun] /\ UNCHANGED <<second, cached, refresh, reports>>
    BY <1>7 DEF Client!Downloaded, Client!RequestFails
  <2> QED BY <1>2, <2>1, ClientRows, ClientQueued DEF ClientInv, ClientTyped
<1>8. CASE Client!Wake(r)
  <2> DEFINE q == [f EXCEPT !.pc = "queued", !.asks = "status", !.polls = f.polls + 1]
  <2>1. f.polls < Polls => q \in AskRow
    <3>1. f.polls < Polls => f.polls + 1 \in 0..Polls
      BY DecisionNumbers DEF AskRow
    <3> QED BY <3>1 DEF AskRow
  <2>2. q.pc = "queued" /\ q.token = f.token
    BY DEF AskRow
  <2>3. asking' = [asking EXCEPT ![r] = IF f.polls < Polls THEN q ELSE Client!NoRun]
    BY <1>1, <1>8 DEF Client!Wake
  <2>4. UNCHANGED <<second, cached, refresh, reports>>
    BY <1>8 DEF Client!Wake
  <2>5. f.token <= second
    BY <1>1 DEF Good
  <2> HIDE DEF q
  <2> QED BY <1>2, <2>1, <2>2, <2>3, <2>4, <2>5, ClientRows, ClientQueued DEF ClientInv, ClientTyped
<1>9. CASE Client!Complete(r)
  <2>1. asking' = [asking EXCEPT ![r] = f] /\ UNCHANGED <<second, cached, refresh>>
    BY <1>1, <1>9 DEF Client!Complete, ClientInv, ClientTyped
  <2>2. reports' \in [ReportRuns -> {"none", "pending", "completed"}]
    BY <1>9 DEF Client!Complete, ClientInv, ClientTyped
  <2> QED BY <1>1, <2>1, <2>2, ClientMoved DEF ClientInv, ClientTyped, ClientTimes
<1> QED BY <1>3, <1>4, <1>5, <1>6, <1>7, <1>8, <1>9

\* The answer with the token, or its failure, for all that wait
LEMMA ClientAnswered ==
  ASSUME ClientInv, Client!TokenAnswered \/ Client!RefreshFails
  PROVE  ClientInv'
<1>1. second' = second /\ reports' = reports /\ refresh' = Client!NoRefresh
  BY DEF Client!TokenAnswered, Client!RefreshFails
<1>2. second \in Nat /\ second <= MaxSecond /\ MaxSecond \in Nat
  BY DecisionNumbers DEF ClientInv, ClientTyped
<1>3. CASE Client!TokenAnswered
  <2>1. PICK f \in RefreshRow : f = refresh
    BY DEF ClientInv, ClientTyped
  <2>2. /\ f.issued <= second /\ second <= f.issued + Timeout /\ f.issued \in Nat
    <3>1. f.pc = "issued"
      BY <1>3, <2>1 DEF Client!TokenAnswered
    <3>2. f.since <= f.issued /\ f.issued <= second /\ second <= f.since + Timeout
      BY <2>1, <3>1 DEF ClientInv, ClientTimes
    <3>3. f.since \in Nat /\ f.issued \in Nat
      BY DEF RefreshRow
    <3> QED BY <1>2, <3>2, <3>3, DecisionNumbers
  <2>3. cached' = [issued |-> f.issued, expires |-> second + TokenLife]
    BY <1>3, <2>1 DEF Client!TokenAnswered
  <2>4. cached' \in CachedToken /\ cached'.issued = f.issued /\ cached'.expires = second + TokenLife
    BY <1>2, <2>2, <2>3, DecisionNumbers DEF CachedToken
  <2>5. ASSUME NEW r \in ReportRuns
        PROVE  asking'[r] \in AskRow /\ Good(asking'[r], second) /\ asking'[r].pc # "wait"
    <3>1. PICK a \in AskRow : a = asking[r] /\ Good(a, second)
      BY DEF ClientInv, ClientTyped
    <3>2. second + Timeout < f.issued + TokenLife
      BY <1>2, <2>2, DecisionNumbers
    <3>3. Client!Sent(a, f.issued) \in AskRow /\ Client!Sent(a, f.issued).pc = "sent"
          /\ Good(Client!Sent(a, f.issued), second)
      BY <1>2, <2>2, <3>2, SentIsGood
    <3>4. asking'[r] = IF a.pc = "wait" THEN Client!Sent(a, f.issued) ELSE a
      BY <1>3, <2>1, <3>1 DEF Client!TokenAnswered
    <3> HIDE DEF Client!Sent
    <3> QED BY <3>1, <3>3, <3>4
  <2>6. asking' \in [ReportRuns -> AskRow]
    BY <1>3, <2>5 DEF Client!TokenAnswered
  <2>7. ClientTyped'
    BY <1>1, <2>4, <2>6, ClientRows DEF ClientInv, ClientTyped
  <2>8. ClientTimes'
    <3>1. cached'.expires <= MaxSecond + TokenLife /\ cached'.expires <= cached'.issued + Timeout + TokenLife
      BY <1>2, <2>2, <2>4, DecisionNumbers
    <3> QED BY <1>1, <2>2, <2>4, <3>1, ClientRows DEF ClientTimes
  <2> QED BY <1>1, <2>5, <2>7, <2>8 DEF ClientInv, Good
<1>4. CASE Client!RefreshFails
  <2>1. ASSUME NEW r \in ReportRuns
        PROVE  asking'[r] \in AskRow /\ Good(asking'[r], second) /\ asking'[r].pc # "wait"
    <3>1. PICK a \in AskRow : a = asking[r] /\ Good(a, second)
      BY DEF ClientInv, ClientTyped
    <3>2. PICK n \in AskRow : n = Client!NoRun /\ n.pc = "idle" /\ n.token = 0
      BY ClientRows
    <3>3. Good(n, second)
      BY <1>2, <3>2, IdleIsGood
    <3>4. asking'[r] = IF a.pc = "wait" THEN n ELSE a
      BY <1>4, <3>1, <3>2 DEF Client!RefreshFails
    <3> QED BY <3>1, <3>2, <3>3, <3>4
  <2>2. asking' \in [ReportRuns -> AskRow] /\ cached' = cached
    BY <1>4, <2>1 DEF Client!RefreshFails
  <2>3. ClientTyped' /\ ClientTimes'
    BY <1>1, <2>2, ClientRows DEF ClientInv, ClientTyped, ClientTimes
  <2> QED BY <1>1, <2>1, <2>3 DEF ClientInv, Good
<1> QED BY <1>3, <1>4

\* Nothing is under way longer than its timeout.
LEMMA ClientTicked ==
  ASSUME ClientInv, Client!Tick
  PROVE  ClientInv'
<1>1. second \in Nat /\ second' = second + 1 /\ second' \in 1..MaxSecond
  BY DecisionNumbers DEF Client!Tick, ClientInv, ClientTyped
<1>2. UNCHANGED <<cached, refresh, asking, reports>>
  BY DEF Client!Tick
<1>3. PICK f \in RefreshRow : f = refresh
  BY DEF ClientInv, ClientTyped
<1>4. PICK c \in CachedToken : c = cached
  BY DEF ClientInv, ClientTyped
<1>5. ClientTyped'
  BY <1>1, <1>2 DEF ClientInv, ClientTyped
<1>6. ClientTimes'
  <2>1. f.pc # "none" => f.since <= second + 1 /\ second + 1 <= f.since + Timeout
    <3>1. f.pc # "none" => f.since <= second /\ second < f.since + Timeout
      BY <1>3 DEF Client!Tick, ClientInv, ClientTimes
    <3>2. f.since \in Nat
      BY DEF RefreshRow
    <3> QED BY <1>1, <3>1, <3>2, DecisionNumbers
  <2>2. f.pc = "issued" => f.since <= f.issued /\ f.issued <= second + 1
    <3>1. f.pc = "issued" => f.since <= f.issued /\ f.issued <= second
      BY <1>3 DEF ClientInv, ClientTimes
    <3>2. f.issued \in Nat
      BY DEF RefreshRow
    <3> QED BY <1>1, <3>1, <3>2
  <2>3. /\ c.issued <= second + 1 /\ c.expires <= c.issued + Timeout + TokenLife
        /\ c.expires <= MaxSecond + TokenLife
    <3>1. c.issued \in Nat
      BY DEF CachedToken
    <3> QED BY <1>1, <1>4, <3>1 DEF ClientInv, ClientTimes
  <2> QED BY <1>1, <1>2, <1>3, <1>4, <2>1, <2>2, <2>3 DEF ClientTimes
<1>7. ASSUME NEW r \in ReportRuns
      PROVE  Good(asking[r], second + 1)
  <2>1. PICK a \in AskRow : a = asking[r] /\ Good(a, second)
    BY DEF ClientInv, ClientTyped
  <2>2. a.pc = "sent" => second < a.since + Timeout
    BY <2>1 DEF Client!Tick
  <2>3. a.since \in Nat /\ a.token \in Nat
    BY DEF AskRow
  <2>4. Good(a, second + 1)
    BY <1>1, <2>1, <2>2, <2>3, DecisionNumbers DEF Good
  <2> QED BY <2>1, <2>4
<1> QED BY <1>1, <1>2, <1>5, <1>6, <1>7 DEF ClientInv

LEMMA ClientStep == ClientInv /\ [Client!Next]_clientVars => ClientInv'
<1> SUFFICES ASSUME ClientInv, [Client!Next]_clientVars PROVE ClientInv'
  OBVIOUS
<1>1. CASE Client!TokenIssued
  <2>1. PICK f \in RefreshRow : f = refresh /\ f.pc = "asked"
    BY <1>1 DEF Client!TokenIssued, ClientInv, ClientTyped
  <2> DEFINE n == [f EXCEPT !.pc = "issued", !.issued = second]
  <2>2. n \in RefreshRow /\ n.pc = "issued" /\ n.issued = second /\ n.since = f.since
    <3>1. second \in Nat
      BY DEF ClientInv, ClientTyped
    <3> QED BY <3>1 DEF RefreshRow
  <2>3. refresh' = n /\ UNCHANGED <<second, cached, asking, reports>>
    BY <1>1, <2>1 DEF Client!TokenIssued
  <2> HIDE DEF n
  <2>4. ClientTyped'
    BY <2>2, <2>3 DEF ClientInv, ClientTyped
  <2>5. ClientTimes'
    BY <2>1, <2>2, <2>3 DEF ClientInv, ClientTyped, ClientTimes
  <2>6. refresh'.pc # "none"
    BY <2>2, <2>3
  <2> QED BY <2>3, <2>4, <2>5, <2>6 DEF ClientInv
<1>2. CASE UNCHANGED clientVars
  BY <1>2 DEF clientVars, ClientInv, ClientTyped, ClientTimes
<1> QED BY <1>1, <1>2, ClientTakesToken, ClientRun, ClientAnswered, ClientTicked DEF Client!Next

LEMMA ClientHeld ==
  ASSUME ClientInv
  PROVE  Client!TypeOK /\ Client!ClientKept
<1>1. ASSUME NEW r \in ReportRuns
      PROVE  /\ asking[r].polls \in 0..Polls /\ asking[r].token <= second
             /\ asking[r].pc = "sent" => second < asking[r].token + TokenLife
  <2>1. PICK a \in AskRow : a = asking[r] /\ Good(a, second)
    BY DEF ClientInv, ClientTyped
  <2>2. second \in Nat /\ a.since \in Nat /\ a.token \in Nat /\ a.polls \in 0..Polls
    BY DEF ClientInv, ClientTyped, AskRow
  <2> QED BY <2>1, <2>2, DecisionNumbers DEF Good
<1>2. Client!TypeOK
  BY <1>1 DEF ClientInv, ClientTyped, ClientTimes, RefreshRow, Client!TypeOK
<1>3. Client!TokenFresh /\ Client!NobodyForgotten
  BY <1>1 DEF ClientInv, Client!TokenFresh, Client!NobodyForgotten
<1> QED BY <1>2, <1>3 DEF Client!ClientKept
-----------------------------------------------------------------------------
(* The ledger: what the interval and the key keep apart                      *)

Entries == [key : {Ledger!CacheKey(r) : r \in Posts}, ts : 1..MaxLedgerTime]

LedgerTyped ==
  /\ time \in 1..MaxLedgerTime /\ lives \in 0..MaxLives
  /\ stamp \in [Ledger!Tenants -> 0..MaxLedgerTime] /\ \A t \in Ledger!Tenants : stamp[t] <= time
  /\ known \subseteq Entries /\ \A k \in known : k.ts <= time
  /\ post \in [Posts -> {"new", "refused", "repeated", "writing", "written", "failed"}]
  /\ begun \in [Posts -> 0..MaxLedgerTime] /\ ended \in [Posts -> 0..MaxLedgerTime]
  /\ \A r \in Posts : begun[r] <= time /\ ended[r] <= time
  /\ life \in [Posts -> 0..MaxLives] /\ \A r \in Posts : life[r] <= lives

\* When a request was begun and written
PostTimes(r) ==
  /\ post[r] \in {"new", "refused", "repeated"} => begun[r] = 0 /\ ended[r] = 0
  /\ post[r] = "writing" => begun[r] # 0 /\ ended[r] = 0 /\ life[r] = lives
  /\ post[r] = "written" => begun[r] # 0 /\ begun[r] <= ended[r]

\* The process still has the stamp of a request that was begun in this life,
\* and the key of one that was written, or has dropped it with age.
Stamped(r) ==
  begun[r] # 0 /\ life[r] = lives
    => begun[r] <= stamp[PostOwner[r]] \/ begun[r] + Interval < time
Remembered(r) ==
  post[r] = "written" /\ PostKey[r] # "none" /\ life[r] = lives
    => \/ ended[r] + KeyTtl < time
       \/ \E k \in known : k.key = Ledger!CacheKey(r) /\ ended[r] <= k.ts

\* b repeats a, in the same life of the process.
Repeats(a, b) ==
  /\ a # b /\ Ledger!CacheKey(a) = Ledger!CacheKey(b) /\ PostKey[a] # "none"
  /\ begun[a] # 0 /\ begun[b] # 0 /\ life[a] = life[b] /\ begun[a] <= begun[b]
Apart(a, b) ==
  /\ begun[a] + Interval <= begun[b]
  /\ post[a] = "written" => begun[a] + Interval <= ended[a] \/ ended[a] + KeyTtl < begun[b]

LedgerInv ==
  /\ LedgerTyped
  /\ \A r \in Posts : PostTimes(r) /\ Stamped(r) /\ Remembered(r)
  /\ \A a, b \in Posts : Repeats(a, b) => Apart(a, b)

LEMMA LedgerInit == Ledger!Init => LedgerInv
<1> SUFFICES ASSUME Ledger!Init PROVE LedgerInv
  OBVIOUS
<1>1. LedgerTyped
  BY DecisionNumbers DEF Ledger!Init, LedgerTyped
<1>2. \A r \in Posts : post[r] = "new" /\ begun[r] = 0 /\ ended[r] = 0
  BY DEF Ledger!Init
<1> QED BY <1>1, <1>2 DEF LedgerInv, PostTimes, Stamped, Remembered, Repeats

\* Whoever has the same key has the same tenant.
LEMMA SameTenant ==
  ASSUME NEW a \in Posts, NEW b \in Posts, Ledger!CacheKey(a) = Ledger!CacheKey(b)
  PROVE  PostOwner[a] = PostOwner[b] /\ PostKey[a] = PostKey[b]
BY DEF Ledger!CacheKey

LEMMA LedgerTicked ==
  ASSUME LedgerInv, Ledger!Tick
  PROVE  LedgerInv'
<1>1. time \in Nat /\ time' = time + 1 /\ time' \in 1..MaxLedgerTime
  BY DecisionNumbers DEF Ledger!Tick, LedgerInv, LedgerTyped
<1>2. UNCHANGED <<stamp, known, post, begun, ended, life, lives>>
  BY DEF Ledger!Tick
<1>3. LedgerTyped'
  <2>1. \A k \in known : k.ts <= time + 1
    BY <1>1 DEF LedgerInv, LedgerTyped, Entries
  <2>2. \A t \in Ledger!Tenants : stamp[t] <= time + 1
    BY <1>1 DEF LedgerInv, LedgerTyped
  <2>3. \A r \in Posts : begun[r] <= time + 1 /\ ended[r] <= time + 1
    BY <1>1 DEF LedgerInv, LedgerTyped
  <2> QED BY <1>1, <1>2, <2>1, <2>2, <2>3 DEF LedgerInv, LedgerTyped
<1>4. ASSUME NEW r \in Posts
      PROVE  PostTimes(r)' /\ Stamped(r)' /\ Remembered(r)'
  <2>1. begun[r] \in Nat /\ ended[r] \in Nat
    BY DecisionNumbers DEF LedgerInv, LedgerTyped
  <2>2. PostTimes(r) /\ Stamped(r) /\ Remembered(r)
    BY DEF LedgerInv
  <2> QED BY <1>1, <1>2, <2>1, <2>2, DecisionNumbers DEF PostTimes, Stamped, Remembered, Ledger!CacheKey
<1>5. \A a, b \in Posts : Repeats(a, b)' => Apart(a, b)'
  BY <1>2 DEF LedgerInv, Repeats, Apart, Ledger!CacheKey
<1> QED BY <1>3, <1>4, <1>5 DEF LedgerInv

\* A request of this life that nobody answered any more
LEMMA LedgerRestarted ==
  ASSUME LedgerInv, Ledger!Restart
  PROVE  LedgerInv'
<1>1. lives \in Nat /\ lives' = lives + 1 /\ lives' \in 0..MaxLives
  BY DecisionNumbers DEF Ledger!Restart, LedgerInv, LedgerTyped
<1>2. UNCHANGED <<time, begun, ended, life>> /\ known' = {} /\ stamp' = [t \in Ledger!Tenants |-> 0]
  BY DEF Ledger!Restart
<1>3. \A r \in Posts : /\ post[r] = "writing" => post'[r] = "failed"
                       /\ post[r] # "writing" => post'[r] = post[r]
  BY DEF Ledger!Restart
<1>4. \A r \in Posts : life[r] \in Nat /\ life'[r] # lives'
  BY <1>1, <1>2 DEF LedgerInv, LedgerTyped
<1>5. LedgerTyped'
  <2>1. post' \in [Posts -> {"new", "refused", "repeated", "writing", "written", "failed"}]
    BY DEF Ledger!Restart, LedgerInv, LedgerTyped
  <2>2. stamp' \in [Ledger!Tenants -> 0..MaxLedgerTime] /\ \A t \in Ledger!Tenants : stamp'[t] <= time
    BY <1>2, DecisionNumbers DEF LedgerInv, LedgerTyped
  <2>3. \A r \in Posts : life[r] <= lives + 1
    BY <1>1, <1>4 DEF LedgerInv, LedgerTyped
  <2> QED BY <1>1, <1>2, <2>1, <2>2, <2>3 DEF LedgerInv, LedgerTyped
<1>6. \A r \in Posts : PostTimes(r)' /\ Stamped(r)' /\ Remembered(r)'
  BY <1>2, <1>3, <1>4 DEF LedgerInv, PostTimes, Stamped, Remembered
<1>7. \A a, b \in Posts : Repeats(a, b)' => Apart(a, b)'
  BY <1>2, <1>3 DEF LedgerInv, Repeats, Apart, Ledger!CacheKey
<1> QED BY <1>5, <1>6, <1>7 DEF LedgerInv

\* A request that is answered without a row, or with one nobody knows of
LEMMA LedgerSettled ==
  ASSUME LedgerInv, NEW r \in Posts, Ledger!Refused(r) \/ Ledger!Failed(r)
  PROVE  LedgerInv'
<1>1. UNCHANGED <<time, stamp, known, begun, life, lives>>
  BY DEF Ledger!Refused, Ledger!Failed
<1>2. PICK s \in {"refused", "failed"} : post' = [post EXCEPT ![r] = s]
  BY DEF Ledger!Refused, Ledger!Failed
<1>3. s = "refused" => begun[r] = 0 /\ ended[r] = 0
  BY <1>2 DEF Ledger!Refused, Ledger!Failed, LedgerInv, LedgerTyped, PostTimes
<1>4. ended' = ended \/ (s = "failed" /\ ended' = [ended EXCEPT ![r] = time])
  BY <1>2 DEF Ledger!Refused, Ledger!Failed, LedgerInv, LedgerTyped
<1>5. \A q \in Posts : /\ q # r => post'[q] = post[q] /\ ended'[q] = ended[q]
                       /\ post'[r] = s /\ (s = "refused" => ended'[r] = ended[r])
  BY <1>2, <1>4 DEF LedgerInv, LedgerTyped
<1>6. LedgerTyped'
  <2>1. ended' \in [Posts -> 0..MaxLedgerTime] /\ \A q \in Posts : ended'[q] <= time
    BY <1>4, DecisionNumbers DEF LedgerInv, LedgerTyped
  <2>2. post' \in [Posts -> {"new", "refused", "repeated", "writing", "written", "failed"}]
    BY <1>2 DEF LedgerInv, LedgerTyped
  <2> QED BY <1>1, <2>1, <2>2 DEF LedgerInv, LedgerTyped
<1>7. \A q \in Posts : PostTimes(q)' /\ Stamped(q)' /\ Remembered(q)'
  BY <1>1, <1>3, <1>5 DEF LedgerInv, PostTimes, Stamped, Remembered, Ledger!CacheKey
<1>8. \A a, b \in Posts : Repeats(a, b)' => Apart(a, b)'
  BY <1>1, <1>5 DEF LedgerInv, Repeats, Apart, Ledger!CacheKey
<1> QED BY <1>6, <1>7, <1>8 DEF LedgerInv

LEMMA LedgerWrote ==
  ASSUME LedgerInv, NEW r \in Posts, Ledger!Written(r)
  PROVE  LedgerInv'
<1>1. UNCHANGED <<time, stamp, begun, life, lives>> /\ post[r] = "writing"
  BY DEF Ledger!Written
<1>2. time \in 1..MaxLedgerTime /\ MaxLedgerTime \in Nat
  BY DecisionNumbers DEF LedgerInv, LedgerTyped
<1>3. \A q \in Posts : /\ q # r => post'[q] = post[q] /\ ended'[q] = ended[q]
                       /\ post'[r] = "written" /\ ended'[r] = time
  BY DEF Ledger!Written, LedgerInv, LedgerTyped
<1>4. begun[r] # 0 /\ life[r] = lives /\ begun[r] \in Nat /\ begun[r] <= time
  BY <1>1, <1>2 DEF LedgerInv, LedgerTyped, PostTimes
<1> DEFINE new == [key |-> Ledger!CacheKey(r), ts |-> time]
<1>5. new \in Entries /\ new.key = Ledger!CacheKey(r) /\ new.ts = time
  BY <1>2 DEF Entries
<1>6. \/ PostKey[r] = "none" /\ known' = known
      \/ PostKey[r] # "none" /\ known' = {k \in known : k.key # Ledger!CacheKey(r)} \cup {new}
  BY DEF Ledger!Written
<1> HIDE DEF new
<1>7. LedgerTyped'
  <2>1. known' \subseteq Entries /\ \A k \in known' : k.ts <= time
    BY <1>2, <1>5, <1>6 DEF LedgerInv, LedgerTyped
  <2>2. post' \in [Posts -> {"new", "refused", "repeated", "writing", "written", "failed"}]
    BY DEF Ledger!Written, LedgerInv, LedgerTyped
  <2>3. ended' \in [Posts -> 0..MaxLedgerTime] /\ \A q \in Posts : ended'[q] <= time
    BY <1>2 DEF Ledger!Written, LedgerInv, LedgerTyped
  <2> QED BY <1>1, <2>1, <2>2, <2>3 DEF LedgerInv, LedgerTyped
<1>8. ASSUME NEW q \in Posts
      PROVE  PostTimes(q)' /\ Stamped(q)' /\ Remembered(q)'
  <2>1. PostTimes(q)' /\ Stamped(q)'
    BY <1>1, <1>3, <1>4 DEF LedgerInv, PostTimes, Stamped
  <2>2. Remembered(q)'
    <3> SUFFICES ASSUME post'[q] = "written", PostKey[q] # "none", life[q] = lives
                 PROVE  \/ ended'[q] + KeyTtl < time
                        \/ \E k \in known' : k.key = Ledger!CacheKey(q) /\ ended'[q] <= k.ts
      BY <1>1 DEF Remembered, Ledger!CacheKey
    <3>1. ended'[q] \in Nat /\ ended'[q] <= time
      BY <1>1, <1>7, DecisionNumbers DEF LedgerTyped
    <3>2. CASE Ledger!CacheKey(q) = Ledger!CacheKey(r)
      <4>1. PostKey[r] # "none"
        BY <3>2, SameTenant
      <4> QED BY <4>1, <3>1, <3>2, <1>5, <1>6
    <3>3. CASE Ledger!CacheKey(q) # Ledger!CacheKey(r)
      <4>1. post[q] = "written" /\ ended'[q] = ended[q]
        BY <1>3, <3>3
      <4>2. \/ ended[q] + KeyTtl < time
            \/ \E k \in known : k.key = Ledger!CacheKey(q) /\ ended[q] <= k.ts
        BY <4>1 DEF LedgerInv, Remembered
      <4> QED BY <4>1, <4>2, <3>3, <1>6
    <3> QED BY <3>2, <3>3
  <2> QED BY <2>1, <2>2
<1>9. ASSUME NEW a \in Posts, NEW b \in Posts, Repeats(a, b)'
      PROVE  Apart(a, b)'
  <2>1. Repeats(a, b)
    BY <1>1, <1>9 DEF Repeats, Ledger!CacheKey
  <2>2. Apart(a, b)
    BY <2>1 DEF LedgerInv
  <2>3. begun[b] <= time /\ begun[a] \in Nat /\ begun[b] \in Nat
    BY <1>2 DEF LedgerInv, LedgerTyped
  <2>4. CASE a = r
    BY <1>1, <1>2, <1>3, <2>2, <2>3, <2>4, DecisionNumbers DEF Apart
  <2>5. CASE a # r
    BY <1>1, <1>3, <2>2, <2>5 DEF Apart
  <2> QED BY <2>4, <2>5
<1> QED BY <1>7, <1>8, <1>9 DEF LedgerInv

LEMMA LedgerAccepts ==
  ASSUME LedgerInv, NEW r \in Posts, Ledger!Accepted(r)
  PROVE  LedgerInv'
<1>1. UNCHANGED <<time, ended, lives>> /\ post[r] = "new" /\ ~Ledger!TooSoon(r)
  BY DEF Ledger!Accepted
<1>2. time \in 1..MaxLedgerTime /\ time \in Nat /\ MaxLedgerTime \in Nat /\ lives \in 0..MaxLives
  BY DecisionNumbers DEF LedgerInv, LedgerTyped
<1>3. begun[r] = 0 /\ ended[r] = 0
  BY <1>1 DEF LedgerInv, PostTimes
<1>4. PostOwner[r] \in Ledger!Tenants
  BY DEF Ledger!Tenants
<1>5. \A t \in Ledger!Tenants :
        stamp'[t] = IF t = PostOwner[r] THEN time
                    ELSE IF time - stamp[t] > Interval THEN 0 ELSE stamp[t]
  BY <1>2, <1>4, DecisionNumbers DEF Ledger!Accepted, Ledger!FreshStamps, LedgerInv, LedgerTyped
<1>6. known' = {k \in known : time - k.ts <= KeyTtl}
  BY DEF Ledger!Accepted, Ledger!FreshKeys
<1>7. life' = [life EXCEPT ![r] = lives]
  BY DEF Ledger!Accepted
<1>8. \/ /\ post' = [post EXCEPT ![r] = "repeated"] /\ begun' = begun
      \/ /\ post' = [post EXCEPT ![r] = "writing"] /\ begun' = [begun EXCEPT ![r] = time]
         /\ PostKey[r] = "none" \/ \A k \in known' : k.key # Ledger!CacheKey(r)
  BY <1>6 DEF Ledger!Accepted, Ledger!FreshKeys
<1>9. \A q \in Posts : q # r => post'[q] = post[q] /\ begun'[q] = begun[q] /\ life'[q] = life[q]
  BY <1>7, <1>8 DEF LedgerInv, LedgerTyped
<1>10. life'[r] = lives
  BY <1>7 DEF LedgerInv, LedgerTyped
<1>11. \/ post'[r] = "repeated" /\ begun'[r] = 0
       \/ /\ post'[r] = "writing" /\ begun'[r] = time
          /\ PostKey[r] = "none" \/ \A k \in known' : k.key # Ledger!CacheKey(r)
  BY <1>3, <1>8 DEF LedgerInv, LedgerTyped
<1>12. LedgerTyped'
  <2>1. stamp' \in [Ledger!Tenants -> 0..MaxLedgerTime] /\ \A t \in Ledger!Tenants : stamp'[t] <= time
    <3>1. \A t \in Ledger!Tenants : stamp'[t] \in 0..MaxLedgerTime /\ stamp'[t] <= time
      BY <1>2, <1>5 DEF LedgerInv, LedgerTyped
    <3>2. DOMAIN stamp' = Ledger!Tenants /\ stamp' = [t \in Ledger!Tenants |-> stamp'[t]]
      BY DEF Ledger!Accepted, Ledger!FreshStamps
    <3> QED BY <3>1, <3>2
  <2>2. known' \subseteq Entries /\ \A k \in known' : k.ts <= time
    BY <1>6 DEF LedgerInv, LedgerTyped
  <2>3. post' \in [Posts -> {"new", "refused", "repeated", "writing", "written", "failed"}]
    BY <1>8 DEF LedgerInv, LedgerTyped
  <2>4. begun' \in [Posts -> 0..MaxLedgerTime] /\ \A q \in Posts : begun'[q] <= time
    BY <1>2, <1>8 DEF LedgerInv, LedgerTyped
  <2>5. life' \in [Posts -> 0..MaxLives] /\ \A q \in Posts : life'[q] <= lives
    BY <1>2, <1>7 DEF LedgerInv, LedgerTyped
  <2> QED BY <1>1, <2>1, <2>2, <2>3, <2>4, <2>5 DEF LedgerInv, LedgerTyped
<1>13. ASSUME NEW q \in Posts
       PROVE  PostTimes(q)' /\ Stamped(q)' /\ Remembered(q)'
  <2>1. PostTimes(q) /\ Stamped(q) /\ Remembered(q)
    BY DEF LedgerInv
  <2>2. PostTimes(q)'
    BY <1>1, <1>2, <1>3, <1>9, <1>10, <1>11, <2>1 DEF PostTimes
  <2>3. Stamped(q)'
    <3>1. PostOwner[q] \in Ledger!Tenants /\ begun[q] \in Nat /\ begun[q] <= time
      BY <1>2 DEF Ledger!Tenants, LedgerInv, LedgerTyped
    <3>2. stamp[PostOwner[q]] \in Nat
      BY <3>1, DecisionNumbers DEF LedgerInv, LedgerTyped
    <3>3. CASE q = r
      BY <1>1, <1>2, <1>4, <1>5, <1>11, <3>3 DEF Stamped
    <3>4. CASE q # r /\ PostOwner[q] = PostOwner[r]
      BY <1>1, <1>5, <1>9, <3>1, <3>4 DEF Stamped
    <3>5. CASE q # r /\ PostOwner[q] # PostOwner[r]
      BY <1>1, <1>2, <1>5, <1>9, <2>1, <3>1, <3>2, <3>5, DecisionNumbers DEF Stamped
    <3> QED BY <3>3, <3>4, <3>5
  <2>4. Remembered(q)'
    <3> SUFFICES ASSUME post'[q] = "written", PostKey[q] # "none", life'[q] = lives
                 PROVE  \/ ended[q] + KeyTtl < time
                        \/ \E k \in known' : k.key = Ledger!CacheKey(q) /\ ended[q] <= k.ts
      BY <1>1 DEF Remembered, Ledger!CacheKey
    <3>1. q # r /\ post[q] = "written" /\ life[q] = lives
      BY <1>9, <1>11
    <3>2. ended[q] \in Nat
      BY <1>2 DEF LedgerInv, LedgerTyped
    <3>3. CASE \E k \in known : k.key = Ledger!CacheKey(q) /\ ended[q] <= k.ts
      <4>1. PICK k \in known : k.key = Ledger!CacheKey(q) /\ ended[q] <= k.ts
        BY <3>3
      <4>2. k.ts \in Nat
        BY DecisionNumbers DEF LedgerInv, LedgerTyped, Entries
      <4>3. k \in known' \/ k.ts + KeyTtl < time
        BY <1>2, <1>6, <4>2, DecisionNumbers
      <4> QED BY <1>2, <3>2, <4>1, <4>2, <4>3, DecisionNumbers
    <3> QED BY <2>1, <3>1, <3>3 DEF Remembered
  <2> QED BY <2>2, <2>3, <2>4
<1>14. ASSUME NEW a \in Posts, NEW b \in Posts, Repeats(a, b)'
       PROVE  Apart(a, b)'
  <2>1. /\ a # b /\ Ledger!CacheKey(a) = Ledger!CacheKey(b) /\ PostKey[a] # "none"
        /\ PostOwner[a] = PostOwner[b] /\ PostKey[b] # "none"
    BY <1>14, SameTenant DEF Repeats, Ledger!CacheKey
  <2>2. begun[a] \in Nat /\ begun[b] \in Nat /\ begun[a] <= time /\ begun[b] <= time
    BY <1>2 DEF LedgerInv, LedgerTyped
  <2>3. CASE a # r /\ b # r
    <3>1. Repeats(a, b)
      BY <1>9, <1>14, <2>3 DEF Repeats, Ledger!CacheKey
    <3> QED BY <1>1, <1>9, <2>3, <3>1 DEF LedgerInv, Apart
  <2>4. ASSUME NEW c \in Posts, c # r, PostOwner[c] = PostOwner[r], begun[c] # 0, life[c] = lives
        PROVE  begun[c] + Interval <= time
    <3>1. Stamped(c) /\ begun[c] \in Nat /\ stamp[PostOwner[c]] \in Nat
      BY <1>2, <1>4, <2>4 DEF LedgerInv, LedgerTyped
    <3>2. begun[c] <= stamp[PostOwner[r]] \/ begun[c] + Interval < time
      BY <2>4, <3>1 DEF Stamped
    <3>3. stamp[PostOwner[r]] = 0 \/ ~(time - stamp[PostOwner[r]] < Interval)
      BY <1>1 DEF Ledger!TooSoon
    <3> QED BY <1>2, <2>4, <3>1, <3>2, <3>3, DecisionNumbers
  <2>5. CASE b = r
    <3>1. begun'[b] = time /\ \A k \in known' : k.key # Ledger!CacheKey(r)
      BY <1>11, <1>14, <2>1, <2>5 DEF Repeats
    <3>2. a # r /\ begun[a] # 0 /\ begun'[a] = begun[a] /\ life[a] = lives /\ post'[a] = post[a]
      BY <1>9, <1>10, <1>14, <2>1, <2>5 DEF Repeats
    <3>3. begun[a] + Interval <= time
      BY <2>1, <2>4, <2>5, <3>2
    <3>4. post[a] = "written" => ended[a] + KeyTtl < time
      <4>1. Remembered(a)'
        BY <1>13
      <4> QED BY <1>1, <1>9, <2>1, <2>5, <3>1, <3>2, <4>1 DEF Remembered, Ledger!CacheKey
    <3> QED BY <1>1, <3>1, <3>2, <3>3, <3>4 DEF Apart
  <2>6. CASE a = r
    <3>1. begun'[a] = time /\ b # r /\ begun[b] # 0 /\ begun'[b] = begun[b] /\ life[b] = lives
      BY <1>9, <1>10, <1>11, <1>14, <2>1, <2>6 DEF Repeats
    <3>2. begun[b] + Interval <= time /\ time <= begun[b]
      BY <1>14, <2>1, <2>4, <2>6, <3>1 DEF Repeats
    <3> QED BY <1>2, <2>2, <3>2, DecisionNumbers
  <2> QED BY <2>3, <2>5, <2>6
<1> QED BY <1>12, <1>13, <1>14 DEF LedgerInv

LEMMA LedgerStep == LedgerInv /\ [Ledger!Next]_ledgerVars => LedgerInv'
<1> SUFFICES ASSUME LedgerInv, [Ledger!Next]_ledgerVars PROVE LedgerInv'
  OBVIOUS
<1>1. CASE UNCHANGED ledgerVars
  BY <1>1 DEF ledgerVars, LedgerInv, LedgerTyped, PostTimes, Stamped, Remembered, Repeats, Apart,
              Ledger!CacheKey
<1> QED BY <1>1, LedgerTicked, LedgerRestarted, LedgerSettled, LedgerWrote, LedgerAccepts DEF Ledger!Next

LEMMA LedgerKept ==
  ASSUME LedgerInv
  PROVE  Ledger!TypeOK /\ Ledger!WrittenTwiceOnlyIfSlow
<1>1. time \in Nat /\ lives \in Nat
  BY DecisionNumbers DEF LedgerInv, LedgerTyped
<1>2. Ledger!TypeOK
  <2>1. stamp \in [Ledger!Tenants -> 0..time]
    BY <1>1, DecisionNumbers DEF LedgerInv, LedgerTyped
  <2>2. known \subseteq [key : {Ledger!CacheKey(r) : r \in Posts}, ts : 1..time]
    BY <1>1, DecisionNumbers DEF LedgerInv, LedgerTyped, Entries
  <2>3. begun \in [Posts -> 0..time] /\ ended \in [Posts -> 0..time] /\ life \in [Posts -> 0..lives]
    BY <1>1, DecisionNumbers DEF LedgerInv, LedgerTyped
  <2> QED BY <2>1, <2>2, <2>3 DEF LedgerInv, LedgerTyped, Ledger!TypeOK
<1>3. ASSUME NEW a \in Posts, NEW b \in Posts, a # b, Ledger!CacheKey(a) = Ledger!CacheKey(b),
             PostKey[a] # "none", post[a] = "written", ended[b] # 0, life[a] = life[b],
             begun[a] <= begun[b]
      PROVE  ended[a] - begun[a] >= Interval \/ begun[b] - ended[a] > KeyTtl
  <2>1. begun[a] \in Nat /\ begun[b] \in Nat /\ ended[a] \in Nat
    BY DecisionNumbers DEF LedgerInv, LedgerTyped
  <2>2. begun[a] # 0
    BY <1>3 DEF LedgerInv, PostTimes
  <2>3. begun[b] # 0
    BY <1>3, <2>1, <2>2
  <2>4. Apart(a, b)
    BY <1>3, <2>2, <2>3 DEF LedgerInv, Repeats
  <2> QED BY <1>3, <2>1, <2>4, DecisionNumbers DEF Apart
<1>4. Ledger!WrittenTwiceOnlyIfSlow
  BY <1>3 DEF Ledger!WrittenTwiceOnlyIfSlow
<1> QED BY <1>2, <1>4
-----------------------------------------------------------------------------
(* Patterns: the failures that were counted and those that were written over *)

PatternRow == [sample : SUBSET DOMAIN ExperienceGroup, failures : Nat, grade : {"SHADOW", "SUGGEST", "AUTO"}]
ReportRow == [pattern : Nat, failures : Nat, grade : {"SHADOW", "SUGGEST", "AUTO"}]
DistillRow == [reads : BOOLEAN, found : SUBSET DOMAIN ExperienceGroup]

EvolutionTyped ==
  /\ distilled \subseteq DOMAIN ExperienceGroup
  /\ distill \in [Distills -> DistillRow] /\ report \in [Reports -> ReportRow]
  /\ \A r \in Reports : report[r].pattern = 0 \/ report[r].pattern \in DOMAIN patterns

\* n patterns have been made.
EvolutionRows(n) ==
  /\ patterns \in [1..n -> PatternRow] /\ streak \in [1..n -> Nat] /\ lost \in [1..n -> Nat]
  /\ \A p \in 1..n : patterns[p].sample \subseteq distilled

\* Failures are counted or lost; a grade that is lost does not come back, so
\* that a report on an automatic pattern has read that it was automatic.
Counted(p) ==
  /\ streak[p] <= patterns[p].failures + lost[p]
  /\ patterns[p].grade = "AUTO" => patterns[p].failures < FailureLimit
ReadGrade(r) ==
  report[r].pattern # 0 /\ patterns[report[r].pattern].grade = "AUTO" => report[r].grade = "AUTO"

EvolutionInv ==
  /\ EvolutionTyped
  /\ \E n \in Nat : EvolutionRows(n) /\ \A p \in 1..n : Counted(p)
  /\ \A r \in Reports : ReadGrade(r)

LEMMA EvolutionRowsIdle ==
  /\ Evolution!Idle \in DistillRow
  /\ Evolution!NoReport \in ReportRow /\ Evolution!NoReport.pattern = 0
BY DEF Evolution!Idle, Evolution!NoReport, DistillRow, ReportRow

LEMMA EvolutionInit == Evolution!Init => EvolutionInv
<1> SUFFICES ASSUME Evolution!Init PROVE EvolutionInv
  OBVIOUS
<1>1. EvolutionTyped
  BY EvolutionRowsIdle DEF Evolution!Init, EvolutionTyped
<1>2. EvolutionRows(0) /\ \A p \in 1..0 : Counted(p)
  BY DEF Evolution!Init, EvolutionRows
<1>3. \A r \in Reports : ReadGrade(r)
  BY EvolutionRowsIdle DEF Evolution!Init, ReadGrade
<1> QED BY <1>1, <1>2, <1>3 DEF EvolutionInv

\* What a call of distill reads
LEMMA EvolutionDistils ==
  ASSUME EvolutionInv, NEW d \in Distills, NEW r \in DistillRow,
         distill' = [distill EXCEPT ![d] = r],
         UNCHANGED <<distilled, patterns, report, streak, lost>>
  PROVE  EvolutionInv'
<1>1. EvolutionTyped'
  BY DEF EvolutionInv, EvolutionTyped
<1>2. PICK n \in Nat : EvolutionRows(n) /\ \A p \in 1..n : Counted(p)
  BY DEF EvolutionInv
<1>3. EvolutionRows(n)' /\ \A p \in 1..n : Counted(p)'
  BY <1>2 DEF EvolutionRows, Counted
<1> QED BY <1>1, <1>2, <1>3 DEF EvolutionInv, ReadGrade

\* The next pattern
LEMMA EvolutionMade ==
  ASSUME EvolutionInv, NEW n \in Nat, EvolutionRows(n), \A p \in 1..n : Counted(p),
         NEW x \in PatternRow, x.failures = 0, x.sample \subseteq distilled',
         distilled \subseteq distilled', distilled' \subseteq DOMAIN ExperienceGroup,
         distill' \in [Distills -> DistillRow], report' = report,
         patterns' = [i \in 1..(n + 1) |-> IF i = n + 1 THEN x ELSE patterns[i]],
         streak' = [i \in 1..(n + 1) |-> IF i = n + 1 THEN 0 ELSE streak[i]],
         lost' = [i \in 1..(n + 1) |-> IF i = n + 1 THEN 0 ELSE lost[i]]
  PROVE  EvolutionInv'
<1>1. EvolutionRows(n + 1)'
  BY DEF EvolutionRows
<1>2. \A p \in 1..(n + 1) : Counted(p)'
  BY DecisionNumbers DEF EvolutionRows, Counted
<1>3. DOMAIN patterns = 1..n /\ DOMAIN patterns' = 1..(n + 1)
  BY DEF EvolutionRows
<1>4. EvolutionTyped'
  BY <1>3 DEF EvolutionInv, EvolutionTyped
<1>5. \A r \in Reports : ReadGrade(r)'
  BY <1>3 DEF EvolutionInv, EvolutionTyped, ReadGrade, ReportRow
<1> QED BY <1>1, <1>2, <1>4, <1>5 DEF EvolutionInv

LEMMA EvolutionSizes ==
  ASSUME NEW S
  PROVE  Evolution!Cardinality(S) = Cardinality(S)
BY DEF Evolution!Cardinality, Cardinality

LEMMA EvolutionDistilled ==
  ASSUME EvolutionInv, NEW d \in Distills, NEW g, Evolution!Distil(d, g)
  PROVE  EvolutionInv'
<1>1. PICK f \in DistillRow : f = distill[d]
  BY DEF EvolutionInv, EvolutionTyped
<1>2. PICK cluster \in SUBSET DOMAIN ExperienceGroup : cluster = {e \in distill[d].found : ExperienceGroup[e] = g}
  BY <1>1 DEF DistillRow
<1> DEFINE r == [f EXCEPT !.found = f.found \ cluster]
<1>3. r \in DistillRow
  BY DEF DistillRow
<1>4. distill' = [distill EXCEPT ![d] = r] /\ report' = report
  BY <1>1, <1>2 DEF Evolution!Distil, EvolutionInv, EvolutionTyped
<1> HIDE DEF r
<1>5. CASE UNCHANGED <<distilled, patterns, streak, lost>>
  BY <1>3, <1>4, <1>5, EvolutionDistils
<1>6. CASE ~UNCHANGED <<distilled, patterns, streak, lost>>
  <2>1. PICK n \in Nat : EvolutionRows(n) /\ \A p \in 1..n : Counted(p)
    BY DEF EvolutionInv
  <2>2. Evolution!Made = 1..n
    BY <2>1 DEF EvolutionRows, Evolution!Made
  <2>3. Cardinality(1..n) = n
    BY FS_Interval
  <2>4. Evolution!Cardinality(Evolution!Made) + 1 = n + 1
    BY <2>2, <2>3, EvolutionSizes
  <2>5. PICK confidence \in 1..3, p \in {Evolution!Cardinality(Evolution!Made) + 1} :
          /\ p = Evolution!Cardinality(Evolution!Made) + 1
          /\ patterns' = [i \in Evolution!Made \cup {p} |->
               IF i = p THEN [sample |-> cluster, failures |-> 0,
                              grade |-> Evolution!GradeOf(confidence, Evolution!Cardinality(cluster))]
                        ELSE patterns[i]]
          /\ distilled' = distilled \cup cluster
          /\ streak' = [i \in Evolution!Made \cup {p} |-> IF i = p THEN 0 ELSE streak[i]]
          /\ lost' = [i \in Evolution!Made \cup {p} |-> IF i = p THEN 0 ELSE lost[i]]
    <3> DEFINE c == {e \in distill[d].found : ExperienceGroup[e] = g}
    <3>1. \E confidence \in 1..3 :
            LET p == Evolution!Cardinality(Evolution!Made) + 1 IN
            /\ patterns' = [i \in Evolution!Made \cup {p} |->
                 IF i = p THEN [sample |-> c, failures |-> 0,
                                grade |-> Evolution!GradeOf(confidence, Evolution!Cardinality(c))]
                          ELSE patterns[i]]
            /\ distilled' = distilled \cup c
            /\ streak' = [i \in Evolution!Made \cup {p} |-> IF i = p THEN 0 ELSE streak[i]]
            /\ lost' = [i \in Evolution!Made \cup {p} |-> IF i = p THEN 0 ELSE lost[i]]
      BY <1>6, Zenon DEF Evolution!Distil
    <3> HIDE DEF c
    <3>2. c = cluster
      BY <1>2 DEF c
    <3> QED BY <3>1, <3>2
  <2>6. p = n + 1 /\ Evolution!Made \cup {p} = 1..(n + 1)
    BY <2>2, <2>4, <2>5
  <2> DEFINE y == [sample |-> cluster, failures |-> 0,
                   grade |-> Evolution!GradeOf(confidence, Evolution!Cardinality(cluster))]
  <2>7. PICK x \in PatternRow : x = y /\ x.failures = 0 /\ x.sample = cluster
    <3>1. Evolution!GradeOf(confidence, Evolution!Cardinality(cluster)) \in {"SHADOW", "SUGGEST", "AUTO"}
      BY DEF Evolution!GradeOf
    <3>2. y \in PatternRow /\ y.failures = 0 /\ y.sample = cluster
      BY <3>1 DEF PatternRow
    <3> QED BY <3>2
  <2>8. /\ patterns' = [i \in 1..(n + 1) |-> IF i = n + 1 THEN x ELSE patterns[i]]
        /\ streak' = [i \in 1..(n + 1) |-> IF i = n + 1 THEN 0 ELSE streak[i]]
        /\ lost' = [i \in 1..(n + 1) |-> IF i = n + 1 THEN 0 ELSE lost[i]]
    BY <2>5, <2>6, <2>7
  <2>9. /\ distilled \subseteq distilled' /\ x.sample \subseteq distilled'
        /\ distilled' \subseteq DOMAIN ExperienceGroup
    BY <2>5, <2>7 DEF EvolutionInv, EvolutionTyped
  <2>10. distill' \in [Distills -> DistillRow]
    BY <1>3, <1>4 DEF EvolutionInv, EvolutionTyped
  <2> QED BY <1>4, <2>1, <2>7, <2>8, <2>9, <2>10, EvolutionMade
<1> QED BY <1>5, <1>6

\* One pattern has another count, or another grade that is not automatic.
LEMMA EvolutionReported ==
  ASSUME EvolutionInv, NEW r \in Reports, report[r].pattern # 0,
         NEW x \in PatternRow, x.sample = patterns[report[r].pattern].sample,
         x.grade = "AUTO" => patterns[report[r].pattern].grade = "AUTO" /\ x.failures < FailureLimit,
         NEW s \in Nat, NEW l \in Nat, s <= x.failures + l,
         patterns' = [patterns EXCEPT ![report[r].pattern] = x],
         streak' = [streak EXCEPT ![report[r].pattern] = s],
         lost' = [lost EXCEPT ![report[r].pattern] = l],
         report' = [report EXCEPT ![r] = Evolution!NoReport], UNCHANGED <<distilled, distill>>
  PROVE  EvolutionInv'
<1> DEFINE q == report[r].pattern
<1>1. PICK n \in Nat : EvolutionRows(n) /\ \A p \in 1..n : Counted(p)
  BY DEF EvolutionInv
<1>2. q \in 1..n
  BY <1>1 DEF EvolutionInv, EvolutionTyped, EvolutionRows
<1>3. \A p \in 1..n : /\ patterns'[p] = IF p = q THEN x ELSE patterns[p]
                      /\ streak'[p] = IF p = q THEN s ELSE streak[p]
                      /\ lost'[p] = IF p = q THEN l ELSE lost[p]
  BY <1>1 DEF EvolutionRows
<1>4. EvolutionRows(n)'
  BY <1>1, <1>2, <1>3 DEF EvolutionRows
<1>5. \A p \in 1..n : Counted(p)'
  BY <1>1, <1>3 DEF Counted
<1>6. \A w \in Reports : report'[w] = IF w = r THEN Evolution!NoReport ELSE report[w]
  BY DEF EvolutionInv, EvolutionTyped
<1>7. EvolutionTyped'
  BY <1>1, <1>4, <1>6, EvolutionRowsIdle DEF EvolutionInv, EvolutionTyped, EvolutionRows
<1>8. \A w \in Reports : ReadGrade(w)'
  <2> SUFFICES ASSUME NEW w \in Reports, report'[w].pattern # 0,
                      patterns'[report'[w].pattern].grade = "AUTO"
               PROVE  report'[w].grade = "AUTO"
    BY DEF ReadGrade
  <2>1. report'[w] = report[w] /\ report[w].pattern \in 1..n
    BY <1>1, <1>6, EvolutionRowsIdle DEF EvolutionInv, EvolutionTyped, EvolutionRows
  <2>2. patterns[report[w].pattern].grade = "AUTO"
    BY <1>3, <2>1
  <2> QED BY <2>1, <2>2 DEF EvolutionInv, ReadGrade
<1> QED BY <1>1, <1>4, <1>5, <1>7, <1>8 DEF EvolutionInv

LEMMA EvolutionFailed ==
  ASSUME EvolutionInv, NEW r \in Reports, Evolution!ReportFailed(r)
  PROVE  EvolutionInv'
<1>1. PICK n \in Nat : EvolutionRows(n) /\ \A p \in 1..n : Counted(p)
  BY DEF EvolutionInv
<1>2. PICK w \in ReportRow : w = report[r] /\ w.pattern # 0 /\ w.pattern \in 1..n
  BY <1>1 DEF Evolution!ReportFailed, EvolutionInv, EvolutionTyped, EvolutionRows
<1>3. PICK o \in PatternRow : o = patterns[w.pattern]
  BY <1>1, <1>2 DEF EvolutionRows
<1> DEFINE k == w.failures + 1
           g == IF Evolution!TooMany(k) /\ w.grade # "SHADOW" THEN "SUGGEST" ELSE o.grade
           x == [o EXCEPT !.failures = k, !.grade = g]
           s == streak[w.pattern] + 1
           l == IF o.failures > w.failures THEN lost[w.pattern] + o.failures - w.failures
                ELSE lost[w.pattern]
<1>4. k \in Nat /\ o.failures \in Nat /\ w.failures \in Nat
  BY DEF ReportRow, PatternRow
<1>5. g \in {"SHADOW", "SUGGEST", "AUTO"}
  BY DEF PatternRow
<1>6. x \in PatternRow /\ x.failures = k /\ x.grade = g /\ x.sample = o.sample
  <2> HIDE DEF k, g
  <2> QED BY <1>4, <1>5 DEF PatternRow
<1>7. streak[w.pattern] \in Nat /\ lost[w.pattern] \in Nat
  BY <1>1, <1>2 DEF EvolutionRows
<1>8. s \in Nat /\ l \in Nat /\ s <= k + l
  <2>1. streak[w.pattern] <= o.failures + lost[w.pattern]
    BY <1>1, <1>2, <1>3 DEF Counted
  <2> QED BY <1>4, <1>7, <2>1
<1>9. g = "AUTO" => o.grade = "AUTO" /\ k < FailureLimit
  <2>1. o.grade = "AUTO" => w.grade = "AUTO"
    BY <1>2, <1>3 DEF EvolutionInv, ReadGrade
  <2> QED BY <1>4, <2>1, DecisionNumbers DEF Evolution!TooMany
<1>10. /\ streak' = [streak EXCEPT ![w.pattern] = s]
       /\ lost' = [lost EXCEPT ![w.pattern] = l]
       /\ report' = [report EXCEPT ![r] = Evolution!NoReport] /\ UNCHANGED <<distilled, distill>>
  BY <1>2, <1>3 DEF Evolution!ReportFailed
<1>11. patterns' = [patterns EXCEPT ![w.pattern] = x]
  BY <1>1, <1>2, <1>3 DEF Evolution!ReportFailed, EvolutionRows, PatternRow
<1> HIDE DEF k, g, x, s, l
<1> QED BY <1>2, <1>3, <1>6, <1>8, <1>9, <1>10, <1>11, EvolutionReported

LEMMA EvolutionSucceeded ==
  ASSUME EvolutionInv, NEW r \in Reports, Evolution!ReportSucceeded(r)
  PROVE  EvolutionInv'
<1>1. PICK n \in Nat : EvolutionRows(n) /\ \A p \in 1..n : Counted(p)
  BY DEF EvolutionInv
<1>2. PICK w \in ReportRow : w = report[r] /\ w.pattern # 0 /\ w.pattern \in 1..n
  BY <1>1 DEF Evolution!ReportSucceeded, EvolutionInv, EvolutionTyped, EvolutionRows
<1>3. PICK o \in PatternRow : o = patterns[w.pattern]
  BY <1>1, <1>2 DEF EvolutionRows
<1> DEFINE x == [o EXCEPT !.failures = 0]
<1>4. x \in PatternRow /\ x.failures = 0 /\ x.grade = o.grade /\ x.sample = o.sample
  BY DEF PatternRow
<1>5. patterns' = [patterns EXCEPT ![w.pattern] = x]
  BY <1>1, <1>2, <1>3 DEF Evolution!ReportSucceeded, EvolutionRows
<1>6. /\ streak' = [streak EXCEPT ![w.pattern] = 0] /\ lost' = [lost EXCEPT ![w.pattern] = 0]
      /\ report' = [report EXCEPT ![r] = Evolution!NoReport] /\ UNCHANGED <<distilled, distill>>
  BY <1>2 DEF Evolution!ReportSucceeded
<1>7. x.grade = "AUTO" => o.grade = "AUTO" /\ x.failures < FailureLimit
  BY <1>4, DecisionNumbers
<1>8. PICK z \in Nat : z = 0 /\ z <= x.failures + z
  BY <1>4
<1> HIDE DEF x
<1> QED BY <1>2, <1>3, <1>4, <1>5, <1>6, <1>7, <1>8, EvolutionReported

LEMMA EvolutionStep == EvolutionInv /\ [Evolution!Next]_evolutionVars => EvolutionInv'
<1> SUFFICES ASSUME EvolutionInv, [Evolution!Next]_evolutionVars PROVE EvolutionInv'
  OBVIOUS
<1>1. PICK n \in Nat : EvolutionRows(n) /\ \A p \in 1..n : Counted(p)
  BY DEF EvolutionInv
<1>2. ASSUME NEW d \in Distills, Evolution!Read(d) \/ Evolution!EndDistil(d)
      PROVE  EvolutionInv'
  <2>1. [reads |-> TRUE, found |-> Evolution!Undistilled] \in DistillRow
    BY DEF DistillRow, Evolution!Undistilled
  <2> QED BY <1>2, <2>1, EvolutionRowsIdle, EvolutionDistils DEF Evolution!Read, Evolution!EndDistil
<1>3. ASSUME NEW r \in Reports, NEW p \in Evolution!Made, Evolution!ReadPattern(r, p)
      PROVE  EvolutionInv'
  <2>1. p \in 1..n /\ DOMAIN patterns = 1..n
    BY <1>1 DEF Evolution!Made, EvolutionRows
  <2>2. PICK o \in PatternRow : o = patterns[p]
    BY <1>1, <2>1 DEF EvolutionRows
  <2> DEFINE w == [pattern |-> p, failures |-> o.failures, grade |-> o.grade]
  <2>3. w \in ReportRow /\ w.pattern = p /\ w.grade = o.grade
    BY <2>1 DEF ReportRow, PatternRow
  <2>4. report' = [report EXCEPT ![r] = w] /\ UNCHANGED <<distilled, patterns, distill, streak, lost>>
    BY <1>3, <2>2 DEF Evolution!ReadPattern
  <2> HIDE DEF w
  <2>5. \A v \in Reports : report'[v] = IF v = r THEN w ELSE report[v]
    BY <2>4 DEF EvolutionInv, EvolutionTyped
  <2>6. EvolutionTyped'
    BY <2>1, <2>3, <2>4, <2>5 DEF EvolutionInv, EvolutionTyped
  <2>7. EvolutionRows(n)' /\ \A q \in 1..n : Counted(q)'
    BY <1>1, <2>4 DEF EvolutionRows, Counted
  <2>8. \A v \in Reports : ReadGrade(v)'
    BY <2>2, <2>3, <2>4, <2>5 DEF EvolutionInv, ReadGrade
  <2> QED BY <2>6, <2>7, <2>8 DEF EvolutionInv
<1>4. CASE Evolution!Decay
  <2>1. PICK S \in SUBSET Evolution!Made :
          patterns' = [p \in Evolution!Made |->
            IF p \in S THEN [patterns[p] EXCEPT !.grade = "SHADOW"] ELSE patterns[p]]
    BY <1>4 DEF Evolution!Decay
  <2>2. UNCHANGED <<distilled, distill, report, streak, lost>> /\ Evolution!Made = 1..n
    BY <1>1, <1>4 DEF Evolution!Decay, Evolution!Made, EvolutionRows
  <2>3. ASSUME NEW p \in 1..n
        PROVE  /\ patterns'[p] \in PatternRow /\ patterns'[p].sample = patterns[p].sample
               /\ patterns'[p].failures = patterns[p].failures
               /\ patterns'[p].grade = "AUTO" => patterns[p].grade = "AUTO"
    <3>1. PICK o \in PatternRow : o = patterns[p]
      BY <1>1 DEF EvolutionRows
    <3> DEFINE x == [o EXCEPT !.grade = "SHADOW"]
    <3>2. x \in PatternRow /\ x.sample = o.sample /\ x.failures = o.failures /\ x.grade = "SHADOW"
      BY DEF PatternRow
    <3>3. patterns'[p] = IF p \in S THEN x ELSE o
      BY <2>1, <2>2, <3>1
    <3> HIDE DEF x
    <3> QED BY <3>1, <3>2, <3>3
  <2>4. EvolutionRows(n)' /\ \A p \in 1..n : Counted(p)'
    BY <1>1, <2>1, <2>2, <2>3 DEF EvolutionRows, Counted
  <2>5. DOMAIN patterns' = DOMAIN patterns
    BY <1>1, <2>4 DEF EvolutionRows
  <2>6. EvolutionTyped'
    BY <2>2, <2>5 DEF EvolutionInv, EvolutionTyped
  <2>7. \A r \in Reports : ReadGrade(r)'
    <3>1. \A r \in Reports : report[r].pattern = 0 \/ report[r].pattern \in 1..n
      BY <1>1 DEF EvolutionInv, EvolutionTyped, EvolutionRows
    <3> QED BY <2>2, <2>3, <3>1 DEF EvolutionInv, ReadGrade
  <2> QED BY <2>4, <2>6, <2>7 DEF EvolutionInv
<1>5. CASE UNCHANGED evolutionVars
  BY <1>1, <1>5 DEF evolutionVars, EvolutionInv, EvolutionTyped, EvolutionRows, Counted, ReadGrade
<1> QED BY <1>2, <1>3, <1>4, <1>5, EvolutionDistilled, EvolutionFailed, EvolutionSucceeded
        DEF Evolution!Next

LEMMA EvolutionKept ==
  ASSUME EvolutionInv
  PROVE  Evolution!TypeOK /\ Evolution!FailingIsDemoted
<1>1. PICK n \in Nat : EvolutionRows(n) /\ \A p \in 1..n : Counted(p)
  BY DEF EvolutionInv
<1>2. Evolution!Made = 1..n
  BY <1>1 DEF EvolutionRows, Evolution!Made
<1>3. Evolution!TypeOK
  BY <1>1, <1>2 DEF EvolutionInv, EvolutionTyped, EvolutionRows, PatternRow, Evolution!TypeOK, Evolution!Grades
<1>4. ASSUME NEW p \in 1..n, patterns[p].grade = "AUTO"
      PROVE  streak[p] < FailureLimit + lost[p]
  <2>1. patterns[p].failures \in Nat /\ streak[p] \in Nat /\ lost[p] \in Nat
    BY <1>1 DEF EvolutionRows, PatternRow
  <2> QED BY <1>1, <1>4, <2>1, DecisionNumbers DEF Counted
<1> QED BY <1>2, <1>3, <1>4 DEF Evolution!FailingIsDemoted
-----------------------------------------------------------------------------
(* From a sentence to a job                                                *)

\* What the numbers of a sentence can be
Worded(s) == s.bid \in -99..99 /\ s.priority \in 5..95

LEMMA SentencesGiven ==
  ASSUME NEW t \in RuleTexts, NEW i \in DOMAIN t
  PROVE  Worded(t[i])
<1>1. \A s \in Alone : s.bid \in {0, -10, 12, 40} /\ s.priority \in {55, 95}
  BY DEF Alone
<1>2. \A s \in Paired : s.bid \in {0} /\ s.priority \in {65}
  BY DEF Paired
<1>3. \A s \in Alone \cup Paired : Worded(s)
  BY <1>1, <1>2 DEF Worded
<1>4. CASE \E s \in Alone : t = <<s>>
  BY <1>3, <1>4
<1>5. CASE t \in Paired \X Paired
  BY <1>3, <1>5
<1> QED BY <1>4, <1>5 DEF RuleTexts

\* What was compiled is what was understood, job by job.
Compiled(i) == i \in Pipeline!Understood(text) /\ intents[i] = Pipeline!CompileRule(text[i])
JobKept(j) ==
  /\ j.of \in DOMAIN intents /\ j.score \in Int
  /\ j.via = "run" /\ intents[j.of].change > MaxBid => j.score >= 70
GateKept(g) == g.job \in jobs /\ (g.does = "run" => g.job.score < 70)

PipelineInv ==
  /\ text \in RuleTexts /\ cap \in Nat /\ step \in {"compile", "execute", "sign", "failed"}
  /\ step = "compile" => jobs = {}
  /\ \A i \in DOMAIN intents : Compiled(i)
  /\ \A j \in jobs : JobKept(j)
  /\ \A g \in gated : GateKept(g)

LEMMA PipelineInit == Pipeline!Init => PipelineInv
BY DecisionsAssumption DEF Pipeline!Init, PipelineInv, DecisionsAssumption

\* The scores and changes that can be compiled
LEMMA CompiledNumbers ==
  ASSUME NEW s, Worded(s), cap \in Nat
  PROVE  /\ Pipeline!CompileRule(s).score \in 5..95 /\ Pipeline!CompileRule(s).change \in 0..99
         /\ Pipeline!CompileRule(s).action = Pipeline!Action(s) /\ Pipeline!CompileRule(s).rule = s
<1>1. s.bid \in -99..99 /\ s.priority \in 5..95
  BY DEF Worded
<1>2. Pipeline!BidChange(s) \in 0..99
  BY <1>1 DEF Pipeline!BidChange, Pipeline!BidRead, Pipeline!Magnitude
<1>3. Pipeline!Score(s, cap) \in 5..95
  BY <1>1, <1>2 DEF Pipeline!Score, Pipeline!Higher
<1> HIDE DEF Pipeline!BidChange, Pipeline!Score
<1> QED BY <1>2, <1>3 DEF Pipeline!CompileRule

LEMMA IntentNumbers ==
  ASSUME PipelineInv, NEW i \in DOMAIN intents
  PROVE  intents[i].score \in 5..95 /\ intents[i].change \in 0..99
<1>1. Compiled(i)
  BY DEF PipelineInv
<1>2. Worded(text[i])
  BY <1>1, SentencesGiven DEF PipelineInv, Compiled, Pipeline!Understood
<1> QED BY <1>1, <1>2, CompiledNumbers DEF PipelineInv, Compiled

\* A job is queued.
LEMMA PipelineQueued ==
  ASSUME PipelineInv, step # "compile", NEW j, JobKept(j), jobs' = jobs \cup {j},
         UNCHANGED <<text, facts, cap, step, intents, gated>>
  PROVE  PipelineInv'
BY DEF PipelineInv, Compiled, JobKept, GateKept, Pipeline!Understood, Pipeline!CompileRule,
       Pipeline!Approved, Pipeline!Matched, Pipeline!Holds

LEMMA PipelineStep == PipelineInv /\ [Pipeline!Next]_pipelineVars => PipelineInv'
<1> SUFFICES ASSUME PipelineInv, [Pipeline!Next]_pipelineVars PROVE PipelineInv'
  OBVIOUS
<1>1. CASE Pipeline!Compile
  <2>1. /\ intents' = [i \in Pipeline!Understood(text) |-> Pipeline!CompileRule(text[i])]
        /\ UNCHANGED <<text, facts, cap, jobs, gated>> /\ jobs = {}
        /\ step' \in {"execute", "sign"}
    BY <1>1 DEF Pipeline!Compile, PipelineInv
  <2>2. \A i \in DOMAIN intents' : Compiled(i)'
    BY <2>1 DEF Compiled, Pipeline!Understood, Pipeline!CompileRule, Pipeline!Matched
  <2>3. \A g \in gated : FALSE
    BY <2>1 DEF PipelineInv, GateKept
  <2> QED BY <2>1, <2>2, <2>3 DEF PipelineInv
<1>2. CASE Pipeline!Execute
  <2>1. PICK i \in Pipeline!ToQueue :
          jobs' = jobs \cup {[of |-> i, score |-> intents[i].score, via |-> "execute"]}
    BY <1>2 DEF Pipeline!Execute, Pipeline!ToQueue
  <2> DEFINE j == [of |-> i, score |-> intents[i].score, via |-> "execute"]
  <2>2. JobKept(j)
    BY IntentNumbers DEF JobKept, Pipeline!ToQueue
  <2> HIDE DEF j
  <2> QED BY <1>2, <2>1, <2>2, PipelineQueued DEF Pipeline!Execute, j
<1>3. CASE Pipeline!Run
  <2>1. PICK i \in DOMAIN intents :
          jobs' = jobs \cup {[of |-> i, score |-> Pipeline!RunScore(i), via |-> "run"]}
    BY <1>3 DEF Pipeline!Run
  <2> DEFINE j == [of |-> i, score |-> Pipeline!RunScore(i), via |-> "run"]
  <2>2. JobKept(j)
    BY IntentNumbers, DecisionNumbers DEF JobKept, Pipeline!RunScore, Pipeline!Higher
  <2> HIDE DEF j
  <2> QED BY <1>3, <2>1, <2>2, PipelineQueued DEF Pipeline!Run, j
<1>4. CASE Pipeline!ExecuteDone \/ Pipeline!Fails
  BY <1>4 DEF Pipeline!ExecuteDone, Pipeline!Fails, PipelineInv, Compiled, JobKept, GateKept,
       Pipeline!Understood, Pipeline!CompileRule, Pipeline!Matched
<1>5. CASE Pipeline!Gate
  <2>1. PICK j \in jobs : gated' = gated \cup {[job |-> j, does |-> IF j.score >= 70 THEN "ask" ELSE "run"]}
    BY <1>5 DEF Pipeline!Gate
  <2> DEFINE g == [job |-> j, does |-> IF j.score >= 70 THEN "ask" ELSE "run"]
  <2>2. GateKept(g)
    BY DEF GateKept, PipelineInv, JobKept
  <2>3. UNCHANGED <<text, facts, cap, step, intents, jobs>> /\ gated' = gated \cup {g}
    BY <1>5, <2>1 DEF Pipeline!Gate
  <2> HIDE DEF g
  <2> QED BY <2>2, <2>3 DEF PipelineInv, Compiled, JobKept, GateKept, Pipeline!Understood,
                            Pipeline!CompileRule, Pipeline!Matched
<1>6. CASE UNCHANGED pipelineVars
  BY <1>6 DEF pipelineVars, PipelineInv, Compiled, JobKept, GateKept, Pipeline!Understood,
              Pipeline!CompileRule, Pipeline!Matched
<1> QED BY <1>1, <1>2, <1>3, <1>4, <1>5, <1>6 DEF Pipeline!Next

\* A rule that pauses for stock and one that ignores stock speak of different
\* things first.
LEMMA FieldsOf ==
  ASSUME NEW s
  PROVE  /\ s.stock => Pipeline!PrimaryField(s) = "inventory_days"
         /\ ~s.stock /\ s.days > 0 => Pipeline!PrimaryField(s) = "new_product_days"
<1> DEFINE F == Pipeline!FieldOrder
<1>1. /\ F[1] = "inventory_days" /\ F[2] = "new_product_days" /\ F[3] = "acos"
      /\ F[4] = "bid_change_pct" /\ F[5] = "risk_profile" /\ F[6] = "season_window"
  BY DEF Pipeline!FieldOrder
<1>2. /\ "inventory_days" \in Pipeline!Fields(s) <=> s.stock
      /\ "new_product_days" \in Pipeline!Fields(s) <=> s.days > 0
  BY DEF Pipeline!Fields
<1> DEFINE first(i) == F[i] \in Pipeline!Fields(s) /\ \A k \in 1..(i - 1) : F[k] \notin Pipeline!Fields(s)
<1>3. ASSUME s.stock
      PROVE  Pipeline!PrimaryField(s) = "inventory_days"
  <2>1. first(1)
    BY <1>1, <1>2, <1>3
  <2>2. \A i \in 1..6 : first(i) => i = 1
    BY <1>1, <1>2, <1>3
  <2> QED BY <1>1, <2>1, <2>2 DEF Pipeline!PrimaryField
<1>4. ASSUME ~s.stock, s.days > 0
      PROVE  Pipeline!PrimaryField(s) = "new_product_days"
  <2>1. first(2)
    BY <1>1, <1>2, <1>4
  <2>2. \A i \in 1..6 : first(i) => i = 2
    BY <1>1, <1>2, <1>4
  <2> QED BY <1>1, <2>1, <2>2 DEF Pipeline!PrimaryField
<1> QED BY <1>3, <1>4

LEMMA PipelineHeld ==
  ASSUME PipelineInv
  PROVE  Pipeline!TypeOK /\ Pipeline!RunKeepsConstitution /\ Pipeline!ContradictionFound
<1>1. Pipeline!TypeOK
  BY IntentNumbers DEF PipelineInv, JobKept, GateKept, Pipeline!TypeOK
<1>2. Pipeline!RunKeepsConstitution
  <2> SUFFICES ASSUME NEW g \in gated, g.job.via = "run", g.does = "run"
               PROVE  intents[g.job.of].change <= MaxBid
    BY DEF Pipeline!RunKeepsConstitution
  <2>1. g.job \in jobs /\ g.job.score < 70
    BY DEF PipelineInv, GateKept
  <2>2. JobKept(g.job)
    BY <2>1 DEF PipelineInv
  <2>3. intents[g.job.of].change \in Nat
    BY <2>2, IntentNumbers DEF JobKept
  <2> QED BY <2>1, <2>2, <2>3, DecisionNumbers DEF JobKept
<1>3. Pipeline!ContradictionFound
  <2> SUFFICES ASSUME NEW i \in DOMAIN intents, NEW k \in DOMAIN intents,
                      intents[i].action = "PAUSE_ADS", intents[k].action = "OVERRIDE_INVENTORY_GUARD",
                      ~intents[k].rule.stock
               PROVE  Pipeline!Contradiction(text)
    BY DEF Pipeline!ContradictionFound
  <2>1. Compiled(i) /\ Compiled(k)
    BY DEF PipelineInv
  <2>2. Worded(text[i]) /\ Worded(text[k])
    BY <2>1, SentencesGiven DEF PipelineInv, Compiled, Pipeline!Understood
  <2>3. /\ Pipeline!Action(text[i]) = "PAUSE_ADS"
        /\ Pipeline!Action(text[k]) = "OVERRIDE_INVENTORY_GUARD" /\ ~text[k].stock
    BY <2>1, <2>2, CompiledNumbers DEF PipelineInv, Compiled
  <2>4. text[i].stock /\ text[k].days > 0
    BY <2>3 DEF Pipeline!Action
  <2>5. /\ Pipeline!PrimaryField(text[i]) = "inventory_days"
        /\ Pipeline!PrimaryField(text[k]) = "new_product_days"
    BY <2>3, <2>4, FieldsOf
  <2> QED BY <2>1, <2>3, <2>5 DEF Compiled, Pipeline!Contradiction
<1> QED BY <1>1, <1>2, <1>3
-----------------------------------------------------------------------------
(* A run of the agent service                                              *)

ListingFields == {"bid", "minBid", "price", "cost", "days", "reviews", "slope", "trend", "returns"}

\* What a run is given are whole numbers, and the bids are a few.
LEMMA RunsGiven ==
  ASSUME NEW g \in GraphRuns
  PROVE  /\ g.stock \in Int /\ g.gap \in Int /\ g.acos \in Nat \ {0} /\ g.margin \in Int
         /\ g.listing \in ListingsGiven
<1> DEFINE Given ==
      [listing : ListingsGiven, typed : BOOLEAN, tenant : {"listed", "other"},
       stock : {AbsentKey, 8, 30}, gap : {0, 20}, acos : {20, 60, 90}, margin : {AbsentKey, 20, 40},
       age : {AbsentKey, 60}, resumes : BOOLEAN, shadow : BOOLEAN]
<1>1. g \in Given
  BY Zenon DEF GraphRuns
<1>2. /\ g.listing \in ListingsGiven /\ g.stock \in {AbsentKey, 8, 30} /\ g.gap \in {0, 20}
      /\ g.acos \in {20, 60, 90} /\ g.margin \in {AbsentKey, 20, 40}
  BY <1>1
<1> QED BY <1>2 DEF AbsentKey

Graded(i) == i \in {"LAUNCH", "GROWTH", "MATURE", "DECLINE"}

\* Of four numbers one is the first that no other exceeds.
LEMMA FirstOfBest ==
  ASSUME NEW a, \A i \in 1..4 : a[i] \in Int
  PROVE  \E i \in 1..4 : (\A k \in 1..4 : a[k] <= a[i]) /\ (\A k \in 1..(i - 1) : a[k] < a[i])
<1> DEFINE first(i) == (\A k \in 1..4 : a[k] <= a[i]) /\ (\A k \in 1..(i - 1) : a[k] < a[i])
<1>1. a[1] \in Int /\ a[2] \in Int /\ a[3] \in Int /\ a[4] \in Int
  OBVIOUS
<1>2. CASE a[2] <= a[1] /\ a[3] <= a[1] /\ a[4] <= a[1]
  <2>1. first(1)
    BY <1>1, <1>2
  <2> QED BY <2>1
<1>3. CASE a[1] < a[2] /\ a[3] <= a[2] /\ a[4] <= a[2]
  <2>1. first(2)
    BY <1>1, <1>3
  <2> QED BY <2>1
<1>4. CASE a[1] < a[3] /\ a[2] < a[3] /\ a[4] <= a[3]
  <2>1. first(3)
    BY <1>1, <1>4
  <2> QED BY <2>1
<1>5. CASE a[1] < a[4] /\ a[2] < a[4] /\ a[3] < a[4]
  <2>1. first(4)
    BY <1>1, <1>5
  <2> QED BY <2>1
<1> QED BY <1>1, <1>2, <1>3, <1>4, <1>5

LEMMA ListingNumbers ==
  ASSUME NEW g \in ListingsGiven
  PROVE  /\ g.bid \in {-1, 60, 80} /\ g.minBid \in {-1, 20, 80}
         /\ g.days \in Int /\ g.reviews \in Int /\ g.slope \in Int /\ g.trend \in Int /\ g.returns \in Int
<1>1. /\ Listing.bid = -1 /\ Listing.minBid = -1 /\ Listing.days = 999 /\ Listing.reviews = 0
      /\ Listing.slope = 0 /\ Listing.trend = 0 /\ Listing.returns = -1
  BY DEF Listing, AbsentKey
<1>2. DOMAIN Listing = ListingFields
  BY DEF Listing, ListingFields
<1>3. /\ Falling.bid = -1 /\ Falling.minBid = -1 /\ Falling.days = 999 /\ Falling.reviews = 0
      /\ Falling.slope = -8 /\ Falling.trend = 8 /\ Falling.returns = 10
      /\ DOMAIN Falling = ListingFields
  BY <1>1, <1>2 DEF Falling, ListingFields
<1> DEFINE Numbered(r) ==
      /\ r.bid \in {-1, 60, 80} /\ r.minBid \in {-1, 20, 80}
      /\ r.days \in Int /\ r.reviews \in Int /\ r.slope \in Int /\ r.trend \in Int /\ r.returns \in Int
<1>4. Numbered(Listing) /\ Numbered(Falling)
  BY <1>1, <1>3
<1>5. Numbered([Listing EXCEPT !.days = 10, !.slope = 5]) /\ Numbered([Listing EXCEPT !.reviews = 300])
  BY <1>1, <1>2 DEF ListingFields
<1>6. Numbered([Listing EXCEPT !.days = 60, !.reviews = 60, !.trend = -5])
  BY <1>1, <1>2 DEF ListingFields
<1>7. Numbered([Falling EXCEPT !.price = 30, !.cost = 5])
  BY <1>3 DEF ListingFields
<1>8. Numbered([Listing EXCEPT !.bid = 80, !.minBid = 80]) /\ Numbered([Listing EXCEPT !.bid = 60, !.minBid = 20])
  BY <1>1, <1>2 DEF ListingFields
<1> HIDE DEF Numbered
<1>9. Numbered(g)
  <2>1. \/ g = Listing \/ g = Falling
        \/ g = [Listing EXCEPT !.days = 10, !.slope = 5] \/ g = [Listing EXCEPT !.reviews = 300]
        \/ g = [Listing EXCEPT !.days = 60, !.reviews = 60, !.trend = -5]
        \/ g = [Falling EXCEPT !.price = 30, !.cost = 5]
        \/ g = [Listing EXCEPT !.bid = 80, !.minBid = 80] \/ g = [Listing EXCEPT !.bid = 60, !.minBid = 20]
    BY Zenon DEF ListingsGiven
  <2> QED BY <2>1, <1>4, <1>5, <1>6, <1>7, <1>8
<1> QED BY <1>9 DEF Numbered

LEMMA StageFound ==
  ASSUME NEW g \in ListingsGiven
  PROVE  Graded(Graph!StageOf(g))
<1> DEFINE a == [i \in 1..4 |-> Graph!StageScore(g, Graph!Stages[i])]
<1>1. \A s \in {"LAUNCH", "GROWTH", "MATURE", "DECLINE"} : Graph!StageScore(g, s) \in Int
  <2> DEFINE Num == g.days \in Int /\ g.reviews \in Int /\ g.slope \in Int /\ g.trend \in Int /\ g.returns \in Int
  <2>1. Num
    BY ListingNumbers
  <2>2. /\ Graph!StageScore(g, "LAUNCH") \in Int /\ Graph!StageScore(g, "GROWTH") \in Int
        /\ Graph!StageScore(g, "MATURE") \in Int
    BY <2>1 DEF Graph!StageScore, Graph!Least, Graph!Size
  <2>3. Graph!Or(g.returns, 0) \in Int
    BY <2>1 DEF Graph!Or
  <2>4. Graph!StageScore(g, "DECLINE") \in Int
    BY <2>1, <2>3 DEF Graph!StageScore, Graph!Least, Graph!Size
  <2> QED BY <2>2, <2>4
<1>2. \A i \in 1..4 : Graph!Stages[i] \in {"LAUNCH", "GROWTH", "MATURE", "DECLINE"}
  BY DEF Graph!Stages
<1>3. \A i \in 1..4 : a[i] \in Int
  BY <1>1, <1>2
<1> DEFINE best(i) == /\ \A k \in 1..4 : Graph!StageScore(g, Graph!Stages[k]) <= Graph!StageScore(g, Graph!Stages[i])
                      /\ \A k \in 1..(i - 1) : Graph!StageScore(g, Graph!Stages[k]) < Graph!StageScore(g, Graph!Stages[i])
<1>4. \E i \in 1..4 : best(i)
  BY <1>3, FirstOfBest
<1> DEFINE top == CHOOSE i \in 1..4 : best(i)
<1>5. top \in 1..4
  <2> HIDE DEF best
  <2> QED BY <1>4
<1>6. Graph!StageOf(g) \in {Graph!Stages[top], "MATURE"}
  BY DEF Graph!StageOf
<1> HIDE DEF top
<1> QED BY <1>2, <1>5, <1>6 DEF Graded

\* The change has been decided, and the constitution has been asked.
Decided == node \in {"risk", "constitution", "freshness", "execute"} \/ Graph!Done
Judged == node \in {"freshness", "execute"} \/ Graph!Done

GraphInv ==
  /\ given \in GraphRuns /\ Graph!TypeOK
  /\ intent.hint \in 0..1000 
  /\ node \notin {"plan", "end"} => plan = Graph!BidCap(given)
  /\ Decided => ~intent.shadow /\ intent.delta <= Graph!BidCap(given)
  /\ Judged /\ passes => ~(Graph!BelowMinBid \/ Graph!AboveMargin)
  /\ Graph!Done => passes

LEMMA GraphInit == Graph!Init => GraphInv
BY DEF Graph!Init, Graph!FreshRun, GraphInv, Graph!TypeOK, Graph!Done, Decided, Judged

LEMMA BidCaps ==
  ASSUME NEW g \in GraphRuns
  PROVE  /\ Graph!BidCap(g) \in {-5, 0, 12}
         /\ Graph!Or(g.stock, 30) < 14 => Graph!BidCap(g) = -5
BY DEF Graph!BidCap

\* Every agent decides within what the supervisor allows.
LEMMA GraphDecides ==
  ASSUME GraphInv, NEW delta, NEW hint \in {100, 300, 500}, Graph!Decide(delta, hint),
         delta \in -30..15, delta <= plan
  PROVE  GraphInv'
<1>1. given \in GraphRuns /\ plan = Graph!BidCap(given) /\ outcome = "none" /\ Graph!TypeOK
  BY DEF GraphInv, Graph!Decide, Graph!TypeOK
<1>2. /\ node' = "risk" /\ intent'.delta = delta /\ intent'.hint = hint /\ ~intent'.shadow
      /\ UNCHANGED <<given, plan, stage, margin, score, passes, fresh, outcome>>
  BY DEF Graph!Decide
<1> QED BY <1>1, <1>2 DEF GraphInv, Graph!TypeOK, Graph!Done, Decided, Judged, Graph!BidCap, Graph!Or

LEMMA GraphJudges ==
  ASSUME GraphInv, Graph!CheckConstitution
  PROVE  GraphInv'
<1>1. /\ node = "constitution" /\ node' = "freshness" /\ outcome = "none"
      /\ UNCHANGED <<given, plan, stage, margin, intent, score, fresh, outcome>>
      /\ passes' => intent.shadow \/ ~(Graph!BelowMinBid \/ Graph!AboveMargin)
  BY DEF GraphInv, Graph!TypeOK, Graph!CheckConstitution
<1>2. Graph!BelowMinBid' = Graph!BelowMinBid /\ Graph!AboveMargin' = Graph!AboveMargin
  BY <1>1 DEF Graph!BelowMinBid, Graph!AboveMargin
<1>3. ~intent.shadow
  BY <1>1 DEF GraphInv, Decided
<1> QED BY <1>1, <1>2, <1>3 DEF GraphInv, Graph!TypeOK, Graph!Done, Decided, Judged, Graph!BidCap, Graph!Or

LEMMA GraphStep == GraphInv /\ [Graph!Next]_graphVars => GraphInv'
<1> SUFFICES ASSUME GraphInv, [Graph!Next]_graphVars PROVE GraphInv'
  OBVIOUS
<1>1. given \in GraphRuns /\ Graph!TypeOK /\ Graph!BidCap(given) \in {-5, 0, 12}
  BY BidCaps DEF GraphInv
<1> USE DEF GraphInv, Graph!TypeOK, Graph!Done, Decided, Judged
<1>2. CASE Graph!Plan
  BY <1>1, <1>2 DEF Graph!Plan, Graph!BidCap, Graph!Or
<1>3. CASE Graph!Detect
  <2>1. given.listing \in ListingsGiven
    BY <1>1, RunsGiven
  <2>2. Graded(stage')
    BY <1>3, <2>1, StageFound DEF Graph!Detect
  <2> QED BY <1>1, <1>3, <2>2 DEF Graph!Detect, Graded, Graph!BidCap, Graph!Or
<1>4. CASE Graph!Enrich
  BY <1>1, <1>4 DEF Graph!Enrich, Graph!BidCap, Graph!Or
<1>5. CASE Graph!LaunchDecide
  <2>1. PICK x \in {-5, 15, 5} : Graph!Decide(Graph!Within(x, plan), 300)
    BY <1>5 DEF Graph!LaunchDecide
  <2>2. Graph!Within(x, plan) \in -30..15 /\ Graph!Within(x, plan) <= plan
    BY <1>1 DEF Graph!Within, Graph!Most, Graph!Least
  <2> QED BY <2>1, <2>2, GraphDecides
<1>6. CASE Graph!StandardDecide
  <2>1. PICK x \in {10, -10, 0}, h \in {100, 300} : Graph!Decide(Graph!Within(x, plan), h)
    BY <1>6 DEF Graph!StandardDecide
  <2>2. Graph!Within(x, plan) \in -30..15 /\ Graph!Within(x, plan) <= plan
    BY <1>1 DEF Graph!Within, Graph!Most, Graph!Least
  <2> QED BY <2>1, <2>2, GraphDecides
<1>7. CASE Graph!DeclineDecide
  <2>1. PICK x \in {-20, -15, -5} : Graph!Decide(Graph!Within(x, 0), 500)
    BY <1>7 DEF Graph!DeclineDecide
  <2>2. Graph!Within(x, 0) \in -30..15 /\ Graph!Within(x, 0) <= plan
    BY <1>1 DEF Graph!Within, Graph!Most, Graph!Least
  <2> QED BY <2>1, <2>2, GraphDecides
<1>8. CASE Graph!CheckRisk
  <2>1. given.acos \in Nat /\ intent.delta \in -30..15 /\ intent.hint \in 0..1000
    BY <1>1, RunsGiven
  <2>2. score' \in 0..1000
    <3>1. score' = Graph!Most(intent.hint, Graph!Least(1000, 25 * Graph!Size(intent.delta) + 8 * given.acos))
      BY <1>8 DEF Graph!CheckRisk
    <3>2. 25 * Graph!Size(intent.delta) + 8 * given.acos \in Nat
      BY <2>1 DEF Graph!Size
    <3> QED BY <2>1, <3>1, <3>2 DEF Graph!Most, Graph!Least
  <2>3. node = "risk" /\ node' = "constitution" /\ UNCHANGED <<given, plan, stage, margin, intent, passes, fresh, outcome>>
    BY <1>8 DEF Graph!CheckRisk
  <2> QED BY <1>1, <2>2, <2>3 DEF Graph!BidCap, Graph!Or
<1>9. CASE Graph!ValidateFreshness
  <2>1. UNCHANGED <<given, plan, stage, margin, intent, score, passes, outcome>>
    BY <1>9 DEF Graph!ValidateFreshness
  <2> QED BY <1>1, <1>9, <2>1 DEF Graph!ValidateFreshness, Graph!BidCap, Graph!Or, Graph!BelowMinBid, Graph!AboveMargin
<1>10. CASE Graph!Execute
  <2>1. UNCHANGED <<given, plan, stage, margin, intent, score, passes, fresh>>
    BY <1>10 DEF Graph!Execute
  <2>2. node = "execute" /\ node' = "end" /\ outcome' # "none" /\ (Graph!Done' => passes)
    BY <1>10 DEF Graph!Execute
  <2> QED BY <1>1, <2>1, <2>2 DEF Graph!BidCap, Graph!Or, Graph!BelowMinBid, Graph!AboveMargin
<1>11. CASE UNCHANGED graphVars
  BY <1>11 DEF graphVars, Graph!BidCap, Graph!Or, Graph!BelowMinBid, Graph!AboveMargin
<1> QED BY <1>2, <1>3, <1>4, <1>5, <1>6, <1>7, <1>8, <1>9, <1>10, <1>11, GraphJudges DEF Graph!Next

LEMMA GraphKept == GraphInv => Graph!TypeOK /\ Graph!CompletedInBounds
<1> SUFFICES ASSUME GraphInv, Graph!Done PROVE Graph!CompletedInBounds
  BY DEF GraphInv, Graph!CompletedInBounds
<1> DEFINE g == given.listing
<1>1. given \in GraphRuns /\ g \in ListingsGiven /\ intent.delta \in -30..15
  BY RunsGiven DEF GraphInv, Graph!TypeOK
<1>2. ~Graph!BelowMinBid /\ ~Graph!AboveMargin /\ intent.delta <= Graph!BidCap(given)
  BY DEF GraphInv, Decided, Judged
<1>3. Graph!Or(given.stock, 30) < 14 => intent.delta < 0
  BY <1>1, <1>2, BidCaps
<1>4. intent.delta > 0 => given.acos <= Graph!Or(given.margin, given.acos)
  BY <1>1, <1>2, RunsGiven DEF Graph!AboveMargin, Graph!Or
<1>5. g.bid # AbsentKey /\ g.minBid # AbsentKey => g.bid * (100 + intent.delta) >= 100 * g.minBid
  BY <1>1, <1>2, ListingNumbers DEF Graph!BelowMinBid
<1> QED BY <1>2, <1>3, <1>4, <1>5 DEF Graph!CompletedInBounds
-----------------------------------------------------------------------------
(* Constitutions: of a row that is to be ended no other publication knows, and  *)
(* what a publication has not seen is behind it.                            *)

ManifestRow == [version : Nat \ {0}, from : Nat, to : Nat, by : Publishers]
PublicationRow ==
  [pc : {"ready", "load", "end", "ending", "create", "commit", "done", "failed"},
   now : Nat, version : Nat, seen : SUBSET ManifestRow, ended : SUBSET ManifestRow]

ConstitutionTyped ==
  /\ moment \in 0..MaxMoment /\ manifests \subseteq ManifestRow
  /\ behind \subseteq Publishers \X Publishers
  /\ publication \in [Publishers -> PublicationRow]

\* The row m is in force at the moment t.
During(m, t) == m.from <= t /\ t < m.to
InTheWay(m, t) == m.to > t /\ m.from < m.to
IsOpen(m) == m.to = MaxMoment + 1

Reading == {"end", "ending", "create", "commit"}

RowKept(m) ==
  m.from <= moment /\ m.to <= MaxMoment + 1 /\ publication[m.by].pc = "done"

PublicationKept(p) ==
  LET r == publication[p] IN
  /\ r.now <= moment
  /\ r.ended \subseteq manifests /\ \A m \in r.ended : IsOpen(m) /\ m.from <= r.now
  /\ r.ended = {} \/ r.pc \in {"create", "commit"}
  /\ r.pc = "commit" => \A m \in manifests \ r.ended : ~InTheWay(m, r.now)
  /\ r.pc \in Reading =>
       /\ r.version > 0
       /\ \A m \in manifests : IsOpen(m) => m.version < r.version \/ <<p, m.by>> \in behind
  /\ r.pc \in Reading \cup {"done"} =>
       \A q \in Publishers : publication[q].pc # "done" => <<p, q>> \in behind

PublicationsApart(p, q) ==
  /\ publication[p].ended \cap publication[q].ended = {}
  /\ ~(publication[p].pc = "commit" /\ publication[q].pc = "commit")

\* Of any two rows one has ended before the other begins, and they are of
\* different publications.
RowsApart(m, n) ==
  /\ m.by = n.by => m = n
  /\ \A t \in 0..MaxMoment : During(m, t) /\ During(n, t) => m = n

NoneTogether == \A m, n \in manifests : ~Constitution!Together(m, n)

\* The open row is the last one, and has the highest version as long as no two
\* were published together.
LastRow(o) ==
  /\ o \in manifests /\ IsOpen(o)
  /\ \A m \in manifests : m.from <= o.from
  /\ NoneTogether => \A m \in manifests : m = o \/ m.version < o.version

VersionsInOrder ==
  NoneTogether => \A m, n \in manifests : m.from < n.from => m.version < n.version

ConstitutionInv ==
  /\ ConstitutionTyped
  /\ \A m \in manifests : RowKept(m)
  /\ \A m, n \in manifests : RowsApart(m, n)
  /\ \A p \in Publishers : PublicationKept(p)
  /\ \A p, q \in Publishers : p # q => PublicationsApart(p, q)
  /\ manifests = {} \/ \E o \in manifests : LastRow(o)
  /\ VersionsInOrder

LEMMA ConstitutionInit == Constitution!Init => ConstitutionInv
<1> SUFFICES ASSUME Constitution!Init PROVE ConstitutionInv
  OBVIOUS
<1> DEFINE r == Constitution!NotBegun
<1>1. r \in PublicationRow /\ r.pc = "ready" /\ r.now = 0 /\ r.ended = {}
  BY DEF Constitution!NotBegun, PublicationRow
<1>2. moment = 0 /\ manifests = {} /\ behind = {} /\ publication = [p \in Publishers |-> r]
  BY DEF Constitution!Init
<1> HIDE DEF r
<1>3. ConstitutionTyped
  BY <1>1, <1>2, DecisionNumbers DEF ConstitutionTyped
<1> QED BY <1>1, <1>2, <1>3 DEF ConstitutionInv, PublicationKept, PublicationsApart, VersionsInOrder, Reading

\* A publication goes on without committing anything.
LEMMA PublicationMoved ==
  ASSUME ConstitutionInv, NEW p \in Publishers, NEW r \in PublicationRow,
         publication[p].pc # "done", r.pc # "done",
         publication' = [publication EXCEPT ![p] = r], UNCHANGED <<moment, manifests>>,
         behind \subseteq behind', behind' \subseteq Publishers \X Publishers,
         r.now <= moment,
         r.ended \subseteq manifests, \A m \in r.ended : IsOpen(m) /\ m.from <= r.now,
         r.ended = {} \/ r.pc \in {"create", "commit"},
         \A q \in Publishers \ {p} : r.ended \cap publication[q].ended = {},
         r.pc = "commit" => /\ \A q \in Publishers \ {p} : publication[q].pc # "commit"
                            /\ \A m \in manifests \ r.ended : ~InTheWay(m, r.now),
         r.pc \in Reading =>
           /\ r.version > 0
           /\ \A m \in manifests : IsOpen(m) => m.version < r.version \/ <<p, m.by>> \in behind'
           /\ \A q \in Publishers : publication[q].pc # "done" => <<p, q>> \in behind'
  PROVE  ConstitutionInv'
<1>1. /\ publication'[p] = r /\ \A q \in Publishers \ {p} : publication'[q] = publication[q]
      /\ \A q \in Publishers : publication'[q].pc = "done" <=> publication[q].pc = "done"
  BY DEF ConstitutionInv, ConstitutionTyped
<1>2. ConstitutionTyped'
  BY DEF ConstitutionInv, ConstitutionTyped
<1>3. \A m \in manifests : RowKept(m)'
  BY <1>1 DEF ConstitutionInv, ConstitutionTyped, RowKept, ManifestRow
<1>4. \A q \in Publishers : PublicationKept(q)'
  <2>1. PublicationKept(p)'
    BY <1>1 DEF PublicationKept, IsOpen, InTheWay
  <2>2. ASSUME NEW q \in Publishers \ {p}
        PROVE  PublicationKept(q)'
    <3>1. PublicationKept(q)
      BY DEF ConstitutionInv
    <3> QED BY <1>1, <2>2, <3>1 DEF PublicationKept, IsOpen, InTheWay
  <2> QED BY <2>1, <2>2
<1>5. \A q, s \in Publishers : q # s => PublicationsApart(q, s)'
  BY <1>1 DEF ConstitutionInv, PublicationsApart
<1>6. NoneTogether' => NoneTogether
  BY DEF NoneTogether, Constitution!Together
<1>7. manifests' = {} \/ \E o \in manifests' : LastRow(o)'
  BY <1>6 DEF ConstitutionInv, LastRow, IsOpen
<1>8. VersionsInOrder'
  BY <1>6 DEF ConstitutionInv, VersionsInOrder
<1> QED BY <1>2, <1>3, <1>4, <1>5, <1>7, <1>8 DEF ConstitutionInv, RowsApart, During

\* The version in force is that of the open row.
LEMMA VersionInForce ==
  ASSUME ConstitutionInv
  PROVE  /\ Constitution!ActiveVersion \in Nat \ {0}
         /\ \A m \in manifests : IsOpen(m) => m.version = Constitution!ActiveVersion
<1>1. \A m, n \in Constitution!InForce : m = n
  BY DEF ConstitutionInv, ConstitutionTyped, Constitution!InForce, RowsApart, During
<1>2. \A m \in manifests : IsOpen(m) => m \in Constitution!InForce
  <2> SUFFICES ASSUME NEW m \in manifests, IsOpen(m) PROVE m \in Constitution!InForce
    OBVIOUS
  <2>1. m.from <= moment /\ moment \in 0..MaxMoment /\ m.to = MaxMoment + 1
    BY DEF ConstitutionInv, ConstitutionTyped, RowKept, IsOpen
  <2> QED BY <2>1, DecisionNumbers DEF Constitution!InForce
<1>3. CASE Constitution!InForce = {}
  BY <1>2, <1>3 DEF Constitution!ActiveVersion
<1>4. ASSUME NEW m \in Constitution!InForce
      PROVE  Constitution!ActiveVersion = m.version /\ m.version \in Nat \ {0}
  <2> DEFINE latest(n) == \A k \in Constitution!InForce : k.from <= n.from
  <2>1. m \in ManifestRow
    BY DEF ConstitutionInv, ConstitutionTyped, Constitution!InForce
  <2>2. latest(m)
    BY <1>1, <2>1 DEF ManifestRow
  <2>3. (CHOOSE n \in Constitution!InForce : latest(n)) = m
    <3> HIDE DEF latest
    <3> QED BY <1>1, <2>2
  <2> QED BY <2>1, <2>3 DEF Constitution!ActiveVersion, ManifestRow
<1> QED BY <1>1, <1>2, <1>3, <1>4

LEMMA PublicationFails ==
  ASSUME ConstitutionInv, NEW p \in Publishers, publication[p].pc # "done",
         publication' = [publication EXCEPT ![p] = [Constitution!NotBegun EXCEPT !.pc = "failed"]],
         UNCHANGED <<moment, manifests, behind>>
  PROVE  ConstitutionInv'
<1> DEFINE r == [Constitution!NotBegun EXCEPT !.pc = "failed"]
<1>1. r \in PublicationRow /\ r.pc = "failed" /\ r.now = 0 /\ r.ended = {}
  BY DEF Constitution!NotBegun, PublicationRow
<1>2. moment \in Nat /\ behind \subseteq Publishers \X Publishers
  BY DecisionNumbers DEF ConstitutionInv, ConstitutionTyped
<1>3. r.now <= moment
  BY <1>1, <1>2
<1> HIDE DEF r
<1> QED BY <1>1, <1>2, <1>3, PublicationMoved DEF Reading, r

\* A publication takes its time.
LEMMA PublicationBegins ==
  ASSUME ConstitutionInv, NEW p \in Publishers, Constitution!Begin(p)
  PROVE  ConstitutionInv'
<1>1. PICK f \in PublicationRow : f = publication[p]
  BY DEF ConstitutionInv, ConstitutionTyped
<1> DEFINE r == [f EXCEPT !.pc = "load", !.now = moment]
<1>2. moment \in Nat /\ behind \subseteq Publishers \X Publishers
  BY DecisionNumbers DEF ConstitutionInv, ConstitutionTyped
<1>3. r \in PublicationRow /\ r.pc = "load" /\ r.now = moment /\ r.ended = f.ended
  BY <1>2 DEF PublicationRow
<1>4. publication' = [publication EXCEPT ![p] = r]
  BY <1>1 DEF Constitution!Begin, ConstitutionInv, ConstitutionTyped
<1>5. f.pc = "ready" /\ UNCHANGED <<moment, manifests, behind>>
  BY <1>1 DEF Constitution!Begin
<1>6. r.ended = {}
  BY <1>1, <1>3, <1>5 DEF ConstitutionInv, PublicationKept
<1>7. r.now <= moment /\ r.pc # "done" /\ r.pc # "commit" /\ r.pc \notin Reading
  BY <1>2, <1>3 DEF Reading
<1> HIDE DEF r
<1> QED BY <1>1, <1>2, <1>3, <1>4, <1>5, <1>6, <1>7, PublicationMoved

\* It reads the version in force, and everyone who has not committed is behind it.
LEMMA PublicationLoads ==
  ASSUME ConstitutionInv, NEW p \in Publishers, Constitution!Load(p)
  PROVE  ConstitutionInv'
<1>1. PICK f \in PublicationRow : f = publication[p]
  BY DEF ConstitutionInv, ConstitutionTyped
<1> DEFINE v == Constitution!ActiveVersion + 1
<1> DEFINE r == [f EXCEPT !.pc = "end", !.version = v]
<1>2. v \in Nat \ {0} /\ \A m \in manifests : IsOpen(m) => m.version < v
  BY VersionInForce
<1>3. r \in PublicationRow /\ r.pc = "end" /\ r.now = f.now /\ r.ended = f.ended /\ r.version = v
  BY <1>2 DEF PublicationRow
<1>4. publication' = [publication EXCEPT ![p] = r]
  BY <1>1 DEF Constitution!Load, Constitution!NextVersion, ConstitutionInv, ConstitutionTyped
<1>5. f.pc = "load" /\ UNCHANGED <<moment, manifests>>
  BY <1>1 DEF Constitution!Load
<1>6. f.ended = {} /\ f.now <= moment
  BY <1>1, <1>5 DEF ConstitutionInv, PublicationKept
<1>7. /\ behind \subseteq behind' /\ behind' \subseteq Publishers \X Publishers
      /\ \A q \in Publishers : publication[q].pc # "done" => <<p, q>> \in behind'
  BY DEF Constitution!Load, ConstitutionInv, ConstitutionTyped
<1> HIDE DEF r, v
<1>8. r.version > 0
  BY <1>2, <1>3
<1> QED BY <1>1, <1>2, <1>3, <1>4, <1>5, <1>6, <1>7, <1>8, PublicationMoved

\* It sees the rows that it will end, and none of them is lost by that.
LEMMA PublicationSees ==
  ASSUME ConstitutionInv, NEW p \in Publishers, Constitution!SeeOpen(p)
  PROVE  ConstitutionInv'
<1>1. PICK f \in PublicationRow : f = publication[p]
  BY DEF ConstitutionInv, ConstitutionTyped
<1> DEFINE r == [f EXCEPT !.pc = "ending", !.seen = Constitution!OpenRows]
<1>2. Constitution!OpenRows \subseteq ManifestRow
  BY DEF Constitution!OpenRows, ConstitutionInv, ConstitutionTyped
<1>3. r \in PublicationRow /\ r.pc = "ending" /\ r.now = f.now /\ r.ended = f.ended /\ r.version = f.version
  BY <1>2 DEF PublicationRow
<1>4. publication' = [publication EXCEPT ![p] = r]
  BY <1>1 DEF Constitution!SeeOpen, ConstitutionInv, ConstitutionTyped
<1>5. f.pc = "end" /\ UNCHANGED <<moment, manifests, behind>>
  BY <1>1 DEF Constitution!SeeOpen
<1> HIDE DEF r
<1>6. PublicationKept(p) /\ behind \subseteq Publishers \X Publishers
  BY DEF ConstitutionInv, ConstitutionTyped
<1>7. r.ended = {} /\ r.now <= moment
  BY <1>1, <1>3, <1>5, <1>6 DEF PublicationKept
<1>8. /\ r.version > 0
      /\ \A m \in manifests : IsOpen(m) => m.version < r.version \/ <<p, m.by>> \in behind
      /\ \A q \in Publishers : publication[q].pc # "done" => <<p, q>> \in behind
  BY <1>1, <1>3, <1>5, <1>6 DEF PublicationKept, Reading
<1> QED BY <1>1, <1>3, <1>4, <1>5, <1>6, <1>7, <1>8, PublicationMoved

\* It ends rows that nobody else is ending.
LEMMA PublicationEnds ==
  ASSUME ConstitutionInv, NEW p \in Publishers, Constitution!EndOpen(p)
  PROVE  ConstitutionInv'
<1>1. PICK f \in PublicationRow : f = publication[p]
  BY DEF ConstitutionInv, ConstitutionTyped
<1> DEFINE open == publication[p].seen \cap Constitution!OpenRows
<1> DEFINE r == [f EXCEPT !.pc = "create", !.ended = open, !.seen = {}]
<1>2. f.pc = "ending" /\ UNCHANGED <<moment, manifests, behind>>
  BY <1>1 DEF Constitution!EndOpen
<1>3. open \subseteq ManifestRow /\ open \subseteq manifests /\ \A m \in open : IsOpen(m)
  BY DEF Constitution!OpenRows, Constitution!Open, IsOpen, ConstitutionInv, ConstitutionTyped
<1>4. \A q \in Publishers \ {p} : open \cap publication[q].ended = {}
  <2> SUFFICES ASSUME NEW q \in Publishers \ {p}, NEW m \in open, m \in publication[q].ended
               PROVE  FALSE
    OBVIOUS
  <2>1. publication[q].pc \in {"create", "commit"}
    BY DEF ConstitutionInv, PublicationKept
  <2>2. m \in Constitution!Locked(p)
    BY <2>1 DEF Constitution!Locked, Constitution!InTransaction
  <2> QED BY <2>2 DEF Constitution!EndOpen
<1>5. PublicationKept(p) /\ behind \subseteq Publishers \X Publishers
  BY DEF ConstitutionInv, ConstitutionTyped
<1>6. CASE \A m \in open : Constitution!ValidWindow(m, publication[p].now)
  <2>1. r \in PublicationRow /\ r.pc = "create" /\ r.now = f.now /\ r.ended = open /\ r.version = f.version
    BY <1>3 DEF PublicationRow
  <2>2. publication' = [publication EXCEPT ![p] = r]
    BY <1>1, <1>6 DEF Constitution!EndOpen, ConstitutionInv, ConstitutionTyped
  <2>3. r.now <= moment /\ \A m \in open : IsOpen(m) /\ m.from <= r.now
    BY <1>1, <1>3, <1>5, <1>6, <2>1 DEF PublicationKept, Constitution!ValidWindow
  <2>4. /\ r.version > 0
        /\ \A m \in manifests : IsOpen(m) => m.version < r.version \/ <<p, m.by>> \in behind
        /\ \A q \in Publishers : publication[q].pc # "done" => <<p, q>> \in behind
    BY <1>1, <1>2, <1>5, <2>1 DEF PublicationKept, Reading
  <2> HIDE DEF r, open
  <2> QED BY <1>1, <1>2, <1>3, <1>4, <1>5, <2>1, <2>2, <2>3, <2>4, PublicationMoved
<1>7. CASE ~\A m \in open : Constitution!ValidWindow(m, publication[p].now)
  <2>1. publication' = [publication EXCEPT ![p] = [Constitution!NotBegun EXCEPT !.pc = "failed"]]
    BY <1>7 DEF Constitution!EndOpen
  <2> QED BY <1>1, <1>2, <2>1, PublicationFails
<1> QED BY <1>6, <1>7

\* It adds its row when no other is in the way.
LEMMA PublicationInserts ==
  ASSUME ConstitutionInv, NEW p \in Publishers, Constitution!Insert(p)
  PROVE  ConstitutionInv'
<1>1. PICK f \in PublicationRow : f = publication[p]
  BY DEF ConstitutionInv, ConstitutionTyped
<1> DEFINE r == [f EXCEPT !.pc = "commit"]
<1>2. f.pc = "create" /\ UNCHANGED <<moment, manifests, behind>>
  BY <1>1 DEF Constitution!Insert
<1>3. \A q \in Publishers \ {p} : publication[q].pc # "commit"
  BY DEF Constitution!Insert, Constitution!MustWait
<1>4. PublicationKept(p) /\ behind \subseteq Publishers \X Publishers
  BY DEF ConstitutionInv, ConstitutionTyped
<1>5. CASE \E m \in manifests \ publication[p].ended : Constitution!Overlaps(p, m)
  <2>1. publication' = [publication EXCEPT ![p] = [Constitution!NotBegun EXCEPT !.pc = "failed"]]
    BY <1>5 DEF Constitution!Insert
  <2> QED BY <1>1, <1>2, <2>1, PublicationFails
<1>6. CASE ~\E m \in manifests \ publication[p].ended : Constitution!Overlaps(p, m)
  <2>1. r \in PublicationRow /\ r.pc = "commit" /\ r.now = f.now /\ r.ended = f.ended /\ r.version = f.version
    BY DEF PublicationRow
  <2>2. publication' = [publication EXCEPT ![p] = r]
    BY <1>1, <1>6 DEF Constitution!Insert, ConstitutionInv, ConstitutionTyped
  <2>3. /\ r.now <= moment /\ r.ended \subseteq manifests
        /\ \A m \in r.ended : IsOpen(m) /\ m.from <= r.now
    BY <1>1, <1>4, <2>1 DEF PublicationKept
  <2>4. \A m \in manifests \ r.ended : ~InTheWay(m, r.now)
    BY <1>1, <1>6, <2>1 DEF Constitution!Overlaps, InTheWay
  <2>5. \A q \in Publishers \ {p} : r.ended \cap publication[q].ended = {}
    BY <1>1, <2>1 DEF ConstitutionInv, PublicationsApart
  <2>6. /\ r.version > 0
        /\ \A m \in manifests : IsOpen(m) => m.version < r.version \/ <<p, m.by>> \in behind
        /\ \A q \in Publishers : publication[q].pc # "done" => <<p, q>> \in behind
    BY <1>1, <1>2, <1>4, <2>1 DEF PublicationKept, Reading
  <2> HIDE DEF r
  <2> QED BY <1>1, <1>2, <1>3, <1>4, <2>1, <2>2, <2>3, <2>4, <2>5, <2>6, PublicationMoved
<1> QED BY <1>5, <1>6

\* A row after the commitment of p is one that p kept, one that it ended, or its
\* own.
Kept(p, m) == m \in manifests \ publication[p].ended
Ended(p, m, k) ==
  /\ k \in publication[p].ended /\ m \in ManifestRow
  /\ m.version = k.version /\ m.from = k.from /\ m.by = k.by /\ m.to = publication[p].now
Own(p, m) ==
  /\ m \in ManifestRow /\ m.version = publication[p].version /\ m.from = publication[p].now
  /\ IsOpen(m) /\ m.by = p

LEMMA RowsCommitted ==
  ASSUME ConstitutionInv, NEW p \in Publishers, Constitution!Commit(p)
  PROVE  /\ \A m \in manifests' : \/ Kept(p, m) \/ Own(p, m)
                                  \/ \E k \in publication[p].ended : Ended(p, m, k)
         /\ \E m \in manifests' : Own(p, m)
         /\ \A m, n \in manifests' : Own(p, m) /\ Own(p, n) => m = n
         /\ \A m, n \in manifests', k \in publication[p].ended : Ended(p, m, k) /\ Ended(p, n, k) => m = n
         /\ \A m \in manifests : Kept(p, m) => m \in manifests'
         /\ \A k \in publication[p].ended : \E m \in manifests' : Ended(p, m, k)
<1>1. PICK f \in PublicationRow : f = publication[p]
  BY DEF ConstitutionInv, ConstitutionTyped
<1> DEFINE own == [version |-> f.version, from |-> f.now, to |-> MaxMoment + 1, by |-> p]
<1> DEFINE cut(k) == [k EXCEPT !.to = f.now]
<1>2. manifests' = (manifests \ f.ended) \cup {cut(k) : k \in f.ended} \cup {own}
  BY <1>1 DEF Constitution!Commit, Constitution!Open
<1>3. f.pc = "commit" /\ f.version \in Nat /\ f.version > 0 /\ f.now \in Nat /\ f.ended \subseteq ManifestRow
  BY <1>1 DEF Constitution!Commit, ConstitutionInv, PublicationKept, Reading, PublicationRow
<1>4. own \in ManifestRow /\ Own(p, own)
  BY <1>1, <1>3, DecisionNumbers DEF ManifestRow, Own, IsOpen
<1>5. \A k \in f.ended : Ended(p, cut(k), k)
  BY <1>1, <1>3 DEF ManifestRow, Ended
<1>6. \A m, n \in ManifestRow :
        m.version = n.version /\ m.from = n.from /\ m.to = n.to /\ m.by = n.by => m = n
  BY DEF ManifestRow
<1> HIDE DEF own, cut
<1>7. \A m \in manifests' : Kept(p, m) \/ Own(p, m) \/ \E k \in publication[p].ended : Ended(p, m, k)
  BY <1>1, <1>2, <1>4, <1>5 DEF Kept
<1>8. \A m, n : Own(p, m) /\ Own(p, n) => m = n
  BY <1>6 DEF Own, IsOpen
<1>9. \A m, n, k : Ended(p, m, k) /\ Ended(p, n, k) => m = n
  BY <1>6 DEF Ended
<1>10. own \in manifests'
  BY <1>2
<1>11. \A m \in manifests : Kept(p, m) => m \in manifests'
  BY <1>1, <1>2 DEF Kept
<1>12. \E m \in manifests' : Own(p, m)
  BY <1>4, <1>10
<1>13. \A k \in publication[p].ended : \E m \in manifests' : Ended(p, m, k)
  BY <1>1, <1>2, <1>5
<1> HIDE DEF Own, Ended
<1> QED BY <1>7, <1>8, <1>9, <1>11, <1>12, <1>13, Zenon

\* Every row has begun when a publication commits, and the open row has a lower
\* version or was published together with it.
LEMMA LastBegun ==
  ASSUME ConstitutionInv, NEW p \in Publishers, Constitution!Commit(p)
  PROVE  /\ publication[p].pc = "commit"
         /\ publication[p].now \in Nat /\ publication[p].now <= moment /\ publication[p].version \in Nat \ {0}
         /\ publication[p].ended \subseteq manifests
         /\ \A m \in manifests : m.from <= publication[p].now /\ m.by # p
         /\ \A m \in publication[p].ended : IsOpen(m)
         /\ \A m \in manifests : IsOpen(m) => m \in publication[p].ended
<1>1. publication[p] \in PublicationRow
  BY DEF ConstitutionInv, ConstitutionTyped
<1>2. publication[p].pc = "commit" /\ PublicationKept(p)
  BY DEF Constitution!Commit, ConstitutionInv
<1>3. /\ publication[p].now \in Nat /\ publication[p].now <= moment
      /\ publication[p].version \in Nat \ {0} /\ publication[p].ended \subseteq manifests
      /\ \A m \in publication[p].ended : IsOpen(m) /\ m.from <= publication[p].now
      /\ \A m \in manifests \ publication[p].ended : ~InTheWay(m, publication[p].now)
  BY <1>1, <1>2 DEF PublicationKept, PublicationRow, Reading
<1>4. moment \in 0..MaxMoment /\ manifests \subseteq ManifestRow
  BY DEF ConstitutionInv, ConstitutionTyped
<1>5. ASSUME NEW m \in manifests, IsOpen(m)
      PROVE  m \in publication[p].ended
  <2>1. m.from <= moment /\ m.from \in Nat /\ m.to = MaxMoment + 1
    BY <1>4, <1>5 DEF ConstitutionInv, RowKept, IsOpen, ManifestRow
  <2>2. InTheWay(m, publication[p].now)
    BY <1>3, <1>4, <2>1, DecisionNumbers DEF InTheWay
  <2> QED BY <1>3, <2>2
<1>6. \A m \in manifests : m.from <= publication[p].now
  <2>1. CASE manifests = {}
    BY <2>1
  <2>2. ASSUME NEW o \in manifests, LastRow(o)
        PROVE  \A m \in manifests : m.from <= publication[p].now
    <3>1. o.from <= publication[p].now /\ \A m \in manifests : m.from <= o.from
      BY <1>3, <1>5, <2>2 DEF LastRow
    <3>2. \A m \in manifests : m.from \in Nat
      BY <1>4 DEF ManifestRow
    <3> QED BY <1>3, <3>1, <3>2
  <2> QED BY <2>1, <2>2 DEF ConstitutionInv
<1>7. \A m \in manifests : m.by # p
  BY <1>2 DEF ConstitutionInv, RowKept
<1> QED BY <1>2, <1>3, <1>5, <1>6, <1>7

LEMMA PublicationCommits ==
  ASSUME ConstitutionInv, NEW p \in Publishers, Constitution!Commit(p)
  PROVE  ConstitutionInv'
<1> DEFINE instant == publication[p].now
<1> DEFINE closed == publication[p].ended
<1> DEFINE v == publication[p].version
<1>1. /\ publication[p].pc = "commit" /\ instant \in Nat /\ instant <= moment /\ v \in Nat \ {0}
      /\ closed \subseteq manifests /\ \A m \in closed : IsOpen(m)
      /\ \A m \in manifests : m.from <= instant /\ m.by # p
      /\ \A m \in manifests : IsOpen(m) => m \in closed
  BY LastBegun
<1>2. \A m \in manifests' : Kept(p, m) \/ Own(p, m) \/ \E k \in closed : Ended(p, m, k)
  BY RowsCommitted
<1>3. /\ moment \in 0..MaxMoment /\ manifests \subseteq ManifestRow
      /\ publication \in [Publishers -> PublicationRow] /\ behind \subseteq Publishers \X Publishers
      /\ MaxMoment \in Nat
  BY DecisionNumbers DEF ConstitutionInv, ConstitutionTyped
<1>4. UNCHANGED <<moment, behind>>
  BY DEF Constitution!Commit
<1> DEFINE r == [Constitution!NotBegun EXCEPT !.pc = "done"]
<1>5. r \in PublicationRow /\ r.pc = "done" /\ r.now = 0 /\ r.ended = {}
  BY DEF Constitution!NotBegun, PublicationRow
<1>6. /\ publication' = [publication EXCEPT ![p] = r] /\ publication'[p] = r
      /\ \A q \in Publishers \ {p} : publication'[q] = publication[q]
  BY <1>3 DEF Constitution!Commit
<1> HIDE DEF r
<1>7. \A m \in manifests' : m \in ManifestRow
  BY <1>2, <1>3 DEF Kept, Own, Ended
<1>8. ConstitutionTyped'
  BY <1>3, <1>4, <1>5, <1>6, <1>7 DEF ConstitutionTyped
<1>9. ASSUME NEW m \in manifests'
      PROVE  RowKept(m)'
  <2>1. CASE Kept(p, m)
    <3>1. RowKept(m) /\ m.by \in Publishers \ {p}
      BY <1>1, <1>3, <2>1 DEF ConstitutionInv, Kept, ManifestRow
    <3> QED BY <1>4, <1>6, <3>1 DEF RowKept
  <2>2. CASE Own(p, m)
    BY <1>1, <1>3, <1>4, <1>5, <1>6, <2>2 DEF Own, RowKept, IsOpen
  <2>3. ASSUME NEW k \in closed, Ended(p, m, k)
        PROVE  RowKept(m)'
    <3>1. RowKept(k) /\ k.by \in Publishers \ {p}
      BY <1>1, <1>3 DEF ConstitutionInv, ManifestRow
    <3> QED BY <1>1, <1>3, <1>4, <1>6, <2>3, <3>1 DEF RowKept, Ended
  <2> QED BY <1>2, <2>1, <2>2, <2>3
\* What a row was before the commitment of p
<1> DEFINE Was(m, k) == k \in manifests /\ k.version = m.version /\ k.from = m.from /\ k.by = m.by
<1>10. \A m \in manifests' : Own(p, m) \/ \E k \in manifests : Was(m, k) /\ ((k = m /\ Kept(p, m)) \/ Ended(p, m, k))
  BY <1>1, <1>2 DEF Kept, Ended
<1>11. ASSUME NEW m \in manifests', NEW n \in manifests'
       PROVE  RowsApart(m, n)'
  <2> DEFINE came(x, k) == Was(x, k) /\ ((k = x /\ Kept(p, x)) \/ Ended(p, x, k))
  <2>1. CASE Own(p, m) /\ Own(p, n)
    BY <2>1, RowsCommitted DEF RowsApart
  <2>2. ASSUME NEW x \in manifests', NEW y \in manifests', Own(p, x), NEW k \in manifests, came(y, k)
        PROVE  x.by # y.by /\ \A t \in 0..MaxMoment : ~(During(x, t) /\ During(y, t))
    <3>1. x.by = p /\ x.from = instant /\ y.by # p
      BY <1>1, <2>2 DEF Own
    <3>2. CASE Kept(p, y)
      <4>1. ~InTheWay(y, instant)
        BY <1>1, <3>2 DEF ConstitutionInv, PublicationKept, Kept
      <4>2. y.to \in Nat /\ y.from \in Nat
        BY <1>7 DEF ManifestRow
      <4> QED BY <1>1, <3>1, <4>1, <4>2 DEF During, InTheWay
    <3>3. CASE Ended(p, y, k)
      BY <1>1, <3>1, <3>3 DEF Ended, During
    <3> QED BY <2>2, <3>1, <3>2, <3>3
  <2>3. ASSUME NEW k \in manifests, NEW l \in manifests, came(m, k), came(n, l)
        PROVE  RowsApart(m, n)'
    <3>1. RowsApart(k, l)
      BY DEF ConstitutionInv
    <3>2. k = l => m = n
      BY <2>3, RowsCommitted DEF Kept, Ended
    <3>3. \A t \in 0..MaxMoment : (During(m, t) => During(k, t)) /\ (During(n, t) => During(l, t))
      <4>1. \A t \in 0..MaxMoment, x \in manifests', y \in manifests :
              Ended(p, x, y) /\ During(x, t) => During(y, t)
        BY <1>1, <1>3 DEF Ended, During, IsOpen
      <4> QED BY <2>3, <4>1
    <3>4. m.by = n.by => k = l
      BY <2>3, <3>1 DEF RowsApart
    <3>5. \A t \in 0..MaxMoment : During(m, t) /\ During(n, t) => k = l
      BY <3>1, <3>3 DEF RowsApart
    <3> QED BY <3>2, <3>4, <3>5 DEF RowsApart, During
  <2>4. CASE Own(p, m) /\ ~Own(p, n)
    BY <1>10, <2>2, <2>4 DEF RowsApart, During
  <2>5. CASE ~Own(p, m) /\ Own(p, n)
    BY <1>10, <2>2, <2>5 DEF RowsApart, During
  <2>6. CASE ~Own(p, m) /\ ~Own(p, n)
    BY <1>10, <2>3, <2>6
  <2> QED BY <2>1, <2>4, <2>5, <2>6
<1>12. ASSUME NEW q \in Publishers
       PROVE  PublicationKept(q)'
  <2>1. PublicationKept(q) /\ PublicationKept(p)
    BY DEF ConstitutionInv
  <2>2. \A s \in Publishers : publication'[s].pc # "done" => s # p /\ publication[s].pc # "done"
    BY <1>5, <1>6
  <2>3. \A s \in Publishers : publication[s].pc # "done" => <<p, s>> \in behind
    BY <1>1, <2>1 DEF PublicationKept, Reading
  <2>4. CASE q = p
    BY <1>3, <1>4, <1>5, <1>6, <2>2, <2>3, <2>4 DEF PublicationKept, Reading
  <2>5. CASE q # p
    <3> DEFINE f == publication[q]
    <3>1. publication'[q] = f /\ PublicationsApart(p, q)
      BY <1>6, <2>5 DEF ConstitutionInv
    <3>2. f.ended \subseteq manifests'
      BY <2>1, <3>1, RowsCommitted DEF PublicationKept, PublicationsApart, Kept
    <3>3. f.pc # "commit"
      BY <1>1, <3>1 DEF PublicationsApart
    <3>4. ASSUME f.pc \in Reading, NEW m \in manifests', IsOpen(m)
          PROVE  m.version < f.version \/ <<q, m.by>> \in behind
      <4>1. CASE Kept(p, m)
        BY <2>1, <3>4, <4>1 DEF PublicationKept, Kept
      <4>2. CASE Own(p, m)
        BY <1>1, <2>1, <3>4, <4>2 DEF PublicationKept, Own
      <4>3. ASSUME NEW k \in closed, Ended(p, m, k)
            PROVE  FALSE
        BY <1>1, <1>3, <3>4, <4>3 DEF Ended, IsOpen
      <4> QED BY <1>2, <4>1, <4>2, <4>3
    <3>5. \A m : IsOpen(m)' <=> IsOpen(m)
      BY DEF IsOpen
    <3> HIDE DEF f, IsOpen
    <3>6. /\ f.now <= moment /\ \A m \in f.ended : IsOpen(m) /\ m.from <= f.now
          /\ f.ended = {} \/ f.pc \in {"create", "commit"}
          /\ f.pc \in Reading => f.version > 0
          /\ f.pc \in Reading \cup {"done"} =>
               \A s \in Publishers : publication[s].pc # "done" => <<q, s>> \in behind
      BY <2>1 DEF PublicationKept, f
    <3> QED BY <1>4, <2>2, <3>1, <3>2, <3>3, <3>4, <3>5, <3>6 DEF PublicationKept
  <2> QED BY <2>4, <2>5
<1>13. ASSUME NEW q \in Publishers, NEW s \in Publishers, q # s
       PROVE  PublicationsApart(q, s)'
  BY <1>5, <1>6, <1>13 DEF ConstitutionInv, PublicationsApart
<1>14. PICK last \in manifests' : Own(p, last)
  BY RowsCommitted
<1>15. ASSUME NoneTogether'
       PROVE  NoneTogether /\ \A m \in manifests : m.version < v
  <2> DEFINE image(k, m) == m \in manifests' /\ m.by = k.by
  <2>1. \A k \in manifests : \E m : image(k, m)
    BY RowsCommitted DEF Kept, Ended
  <2>2. ASSUME NEW k \in manifests, NEW l \in manifests, Constitution!Together(k, l)
        PROVE  FALSE
    <3>1. PICK m, n : image(k, m) /\ image(l, n)
      BY <2>1
    <3>2. k.by # l.by
      BY <2>2 DEF ConstitutionInv, RowsApart, Constitution!Together
    <3>3. Constitution!Together(m, n)'
      BY <1>4, <2>2, <3>1, <3>2 DEF Constitution!Together
    <3> QED BY <1>15, <3>1, <3>3 DEF NoneTogether
  <2>3. NoneTogether
    BY <2>2 DEF NoneTogether
  <2>4. ASSUME NEW o \in manifests, LastRow(o)
        PROVE  \A m \in manifests : m.version < v
    <3>1. IsOpen(o) /\ o.by \in Publishers /\ o.by # p /\ publication[o.by].pc = "done"
      BY <1>1, <1>3, <2>4 DEF LastRow, ConstitutionInv, RowKept, ManifestRow
    <3>2. <<o.by, p>> \in behind
      BY <1>1, <3>1 DEF ConstitutionInv, PublicationKept
    <3>3. o.version < v \/ <<p, o.by>> \in behind
      BY <1>1, <2>4, <3>1 DEF ConstitutionInv, PublicationKept, Reading
    <3>4. ASSUME <<p, o.by>> \in behind
          PROVE  FALSE
      <4>1. PICK m : image(o, m)
        BY <2>1
      <4>2. PICK n \in manifests' : Own(p, n)
        BY RowsCommitted
      <4>3. Constitution!Together(m, n)'
        BY <1>4, <3>1, <3>2, <3>4, <4>1, <4>2 DEF Constitution!Together, Own
      <4> QED BY <1>15, <4>1, <4>2, <4>3 DEF NoneTogether
    <3>5. \A m \in manifests : m = o \/ m.version < o.version
      BY <2>3, <2>4 DEF LastRow
    <3>6. \A m \in manifests : m.version \in Nat
      BY <1>3 DEF ManifestRow
    <3> QED BY <1>1, <3>3, <3>4, <3>5, <3>6
  <2> QED BY <2>3, <2>4 DEF ConstitutionInv
<1>16. LastRow(last)'
  <2>1. last.from = instant /\ last.version = v /\ IsOpen(last)
    BY <1>14 DEF Own
  <2>2. \A m \in manifests' : m.from <= last.from
    BY <1>1, <1>10, <2>1 DEF Own
  <2>3. ASSUME NoneTogether', NEW m \in manifests'
        PROVE  m = last \/ m.version < last.version
    BY <1>10, <1>14, <1>15, <2>1, <2>3, RowsCommitted
  <2> QED BY <2>1, <2>2, <2>3 DEF LastRow, IsOpen
<1>17. VersionsInOrder'
  <2> SUFFICES ASSUME NoneTogether', NEW m \in manifests', NEW n \in manifests', m.from < n.from
               PROVE  m.version < n.version
    BY DEF VersionsInOrder
  <2>1. CASE Own(p, n)
    <3>1. ~Own(p, m)
      BY <1>1, <2>1 DEF Own
    <3> QED BY <1>10, <1>15, <2>1, <3>1 DEF Own
  <2>2. CASE Own(p, m) /\ ~Own(p, n)
    <3>1. n.from <= instant /\ m.from = instant /\ n.from \in Nat
      BY <1>1, <1>7, <1>10, <2>2 DEF Own, ManifestRow
    <3> QED BY <1>1, <3>1
  <2>3. CASE ~Own(p, m) /\ ~Own(p, n)
    BY <1>10, <1>15, <2>3 DEF ConstitutionInv, VersionsInOrder
  <2> QED BY <2>1, <2>2, <2>3
<1> QED BY <1>8, <1>9, <1>11, <1>12, <1>13, <1>16, <1>17 DEF ConstitutionInv

LEMMA TimePassed ==
  ASSUME ConstitutionInv, Constitution!Pass
  PROVE  ConstitutionInv'
<1>1. /\ moment \in 0..MaxMoment /\ moment' = moment + 1 /\ moment < MaxMoment
      /\ UNCHANGED <<manifests, publication, behind>> /\ MaxMoment \in Nat
  BY DecisionNumbers DEF Constitution!Pass, ConstitutionInv, ConstitutionTyped
<1>2. ConstitutionTyped'
  BY <1>1 DEF ConstitutionInv, ConstitutionTyped
<1>3. \A m \in manifests : RowKept(m)'
  BY <1>1 DEF ConstitutionInv, ConstitutionTyped, RowKept, ManifestRow
<1>4. ASSUME NEW p \in Publishers
      PROVE  PublicationKept(p)'
  <2>1. PublicationKept(p) /\ publication[p].now \in Nat
    BY DEF ConstitutionInv, ConstitutionTyped, PublicationRow
  <2>2. publication[p].now <= moment'
    BY <1>1, <2>1 DEF PublicationKept
  <2> QED BY <1>1, <2>1, <2>2 DEF PublicationKept, IsOpen, InTheWay
<1> QED BY <1>1, <1>2, <1>3, <1>4
        DEF ConstitutionInv, RowsApart, During, PublicationsApart, LastRow, IsOpen, NoneTogether,
            VersionsInOrder, Constitution!Together

LEMMA ConstitutionStep == ConstitutionInv /\ [Constitution!Next]_constitutionVars => ConstitutionInv'
<1> SUFFICES ASSUME ConstitutionInv, [Constitution!Next]_constitutionVars PROVE ConstitutionInv'
  OBVIOUS
<1>1. CASE UNCHANGED constitutionVars
  BY <1>1 DEF constitutionVars, ConstitutionInv, ConstitutionTyped, RowKept, PublicationKept, RowsApart,
      During, PublicationsApart, LastRow, IsOpen, InTheWay, NoneTogether, VersionsInOrder, Constitution!Together
<1>2. ASSUME NEW p \in Publishers, Constitution!Abort(p)
      PROVE  ConstitutionInv'
  BY <1>2, PublicationFails DEF Constitution!Abort
<1> QED BY <1>1, <1>2, TimePassed, PublicationBegins, PublicationLoads, PublicationSees, PublicationEnds,
           PublicationInserts, PublicationCommits DEF Constitution!Next

LEMMA ConstitutionHeld ==
  ASSUME ConstitutionInv
  PROVE  Constitution!TypeOK /\ Constitution!OneAfterAnother
<1>1. manifests \subseteq ManifestRow /\ moment \in 0..MaxMoment /\ behind \subseteq Publishers \X Publishers
  BY DEF ConstitutionInv, ConstitutionTyped
<1>2. Constitution!TypeOK
  BY <1>1 DEF ConstitutionInv, RowKept, PublicationKept, ManifestRow, Constitution!TypeOK, Constitution!Open
<1>3. ASSUME NEW t \in 0..MaxMoment
      PROVE  Constitution!Cardinality({m \in manifests : m.from <= t /\ t < m.to}) <= 1
  <2> DEFINE S == {m \in manifests : m.from <= t /\ t < m.to}
  <2>1. \A m, n \in S : m = n
    BY DEF ConstitutionInv, RowsApart, During
  <2>2. S = {} \/ \E m : S = {m}
    BY <2>1
  <2>3. Cardinality(S) <= 1
    BY <2>2, FS_EmptySet, FS_Singleton
  <2>4. Constitution!Cardinality(S) = Cardinality(S)
    BY DEF Constitution!Cardinality, Cardinality
  <2> QED BY <2>3, <2>4
<1>4. ASSUME NEW p \in Publishers, publication[p].pc = "commit", NEW m \in publication[p].ended
      PROVE  m.version < publication[p].version \/ <<p, m.by>> \in behind
  BY <1>4 DEF ConstitutionInv, PublicationKept, Reading
<1>5. (\A m, n \in manifests : ~Constitution!Together(m, n))
        => \A m, n \in manifests : m.from < n.from => m.version < n.version
  BY DEF ConstitutionInv, VersionsInOrder, NoneTogether
<1> QED BY <1>2, <1>3, <1>4, <1>5 DEF Constitution!OneAfterAnother
-----------------------------------------------------------------------------
(* What a run of MCDecisions keeps                                         *)

\* Whatever the focus, the admission of runs is that of RunAdmission.
LEMMA AdmissionRuns == DecisionsSpec => Spec
<1>1. DecisionsInit => Init
  BY DEF DecisionsInit
<1>2. [DecisionsNext]_allVars => [Next]_vars
  BY DEF DecisionsNext, allVars
<1> QED BY <1>1, <1>2, PTL DEF DecisionsSpec, Spec, allVars

LEMMA RulesFocus == DecisionsSpec => [](focus = "rules" => RulesInv)
<1>1. DecisionsInit => (focus = "rules" => RulesInv)
  BY RulesInit DEF DecisionsInit
<1>2. (focus = "rules" => RulesInv) /\ [DecisionsNext]_allVars => (focus = "rules" => RulesInv)'
  BY RulesStep, FocusStep
<1> QED BY <1>1, <1>2, PTL DEF DecisionsSpec, allVars

LEMMA ConstitutionFocus == DecisionsSpec => [](focus = "constitution" => ConstitutionInv)
<1>1. DecisionsInit => (focus = "constitution" => ConstitutionInv)
  BY ConstitutionInit DEF DecisionsInit
<1>2. (focus = "constitution" => ConstitutionInv) /\ [DecisionsNext]_allVars => (focus = "constitution" => ConstitutionInv)'
  BY ConstitutionStep, FocusStep
<1> QED BY <1>1, <1>2, PTL DEF DecisionsSpec, allVars

LEMMA PipelineFocus == DecisionsSpec => [](focus = "pipeline" => PipelineInv)
<1>1. DecisionsInit => (focus = "pipeline" => PipelineInv)
  BY PipelineInit DEF DecisionsInit
<1>2. (focus = "pipeline" => PipelineInv) /\ [DecisionsNext]_allVars => (focus = "pipeline" => PipelineInv)'
  BY PipelineStep, FocusStep
<1> QED BY <1>1, <1>2, PTL DEF DecisionsSpec, allVars

LEMMA GraphFocus == DecisionsSpec => [](focus = "graph" => GraphInv)
<1>1. DecisionsInit => (focus = "graph" => GraphInv)
  BY GraphInit DEF DecisionsInit
<1>2. (focus = "graph" => GraphInv) /\ [DecisionsNext]_allVars => (focus = "graph" => GraphInv)'
  BY GraphStep, FocusStep
<1> QED BY <1>1, <1>2, PTL DEF DecisionsSpec, allVars

LEMMA LedgerFocus == DecisionsSpec => [](focus = "ledger" => LedgerInv)
<1>1. DecisionsInit => (focus = "ledger" => LedgerInv)
  BY LedgerInit DEF DecisionsInit
<1>2. (focus = "ledger" => LedgerInv) /\ [DecisionsNext]_allVars => (focus = "ledger" => LedgerInv)'
  BY LedgerStep, FocusStep
<1> QED BY <1>1, <1>2, PTL DEF DecisionsSpec, allVars

LEMMA MaturityFocus == DecisionsSpec => [](focus = "maturity" => MaturityInv)
<1>1. DecisionsInit => (focus = "maturity" => MaturityInv)
  BY MaturityInit DEF DecisionsInit
<1>2. (focus = "maturity" => MaturityInv) /\ [DecisionsNext]_allVars => (focus = "maturity" => MaturityInv)'
  BY MaturityStep, FocusStep
<1> QED BY <1>1, <1>2, PTL DEF DecisionsSpec, allVars

LEMMA EvolutionFocus == DecisionsSpec => [](focus = "patterns" => EvolutionInv)
<1>1. DecisionsInit => (focus = "patterns" => EvolutionInv)
  BY EvolutionInit DEF DecisionsInit
<1>2. (focus = "patterns" => EvolutionInv) /\ [DecisionsNext]_allVars => (focus = "patterns" => EvolutionInv)'
  BY EvolutionStep, FocusStep
<1> QED BY <1>1, <1>2, PTL DEF DecisionsSpec, allVars

LEMMA ClientFocus == DecisionsSpec => [](focus = "client" => ClientInv)
<1>1. DecisionsInit => (focus = "client" => ClientInv)
  BY ClientInit DEF DecisionsInit
<1>2. (focus = "client" => ClientInv) /\ [DecisionsNext]_allVars => (focus = "client" => ClientInv)'
  BY ClientStep, FocusStep
<1> QED BY <1>1, <1>2, PTL DEF DecisionsSpec, allVars

Focuses ==
  {"admission", "rules", "constitution", "pipeline", "graph", "ledger", "maturity", "patterns", "client"}

LEMMA OneFocus == DecisionsSpec => [](focus \in Focuses)
<1>1. DecisionsInit => focus \in Focuses
  BY DEF DecisionsInit, Focuses
<1>2. focus \in Focuses /\ [DecisionsNext]_allVars => (focus \in Focuses)'
  BY FocusStep
<1> QED BY <1>1, <1>2, PTL DEF DecisionsSpec, allVars

\* The active rule set is the newest version but for an edit under way or one that
\* was overtaken (server.ts:1784), and constitutions follow one another however
\* their publications overlap (constitution-engine.ts:333).
THEOREM VersionsFollow == DecisionsSpec => []VersionsKept
<1>1. (focus = "rules" => RulesInv) /\ (focus = "constitution" => ConstitutionInv) => VersionsKept
  BY RulesKept, ConstitutionHeld DEF VersionsKept
<1> QED BY <1>1, RulesFocus, ConstitutionFocus, PTL

\* What POST /run queues is never let through unasked when it breaks the bid guard
\* of the constitution, and contradicting rules are shown (rules-engine.ts:207).
THEOREM PipelineHolds == DecisionsSpec => []PipelineKept
<1>1. (focus = "pipeline" => PipelineInv) => PipelineKept
  BY PipelineHeld DEF PipelineKept
<1> QED BY <1>1, PipelineFocus, PTL

\* A request of the platform client never carries a token that expires before the
\* answer, and who waits for a token waits for a refresh (amazon-real.ts:43).
THEOREM TokensOutlive == DecisionsSpec => []ClientKept
<1>1. (focus = "client" => ClientInv) => ClientKept
  BY ClientHeld DEF ClientKept
<1> QED BY <1>1, ClientFocus, PTL

\* A run of the agent service that completes changes the bid inside the bounds of
\* its supervisor, of the stock, of the margin and of the lowest bid (the nodes of agent-py).
THEOREM RunsCompleteInBounds == DecisionsSpec => []CompletedInBounds
<1>1. (focus = "graph" => GraphInv) => CompletedInBounds
  BY GraphKept DEF CompletedInBounds
<1> QED BY <1>1, GraphFocus, PTL

\* Of two requests with the same key the second is written only when the write of the
\* first took the interval between two writes of a tenant, when the key was forgotten
\* since, or when the process ended in between (harness-ledger-service.ts).
THEOREM LedgerWritesOnce == DecisionsSpec => []WrittenTwiceOnlyIfSlow
<1>1. (focus = "ledger" => LedgerInv) => WrittenTwiceOnlyIfSlow
  BY LedgerKept DEF WrittenTwiceOnlyIfSlow
<1> QED BY <1>1, LedgerFocus, PTL

\* A pattern that failed as often in a row as the limit says no longer decides by
\* itself, whichever reports overtake each other (evolution.ts:255).
THEOREM PatternsDemoted == DecisionsSpec => []FailingIsDemoted
<1>1. (focus = "patterns" => EvolutionInv) => FailingIsDemoted
  BY EvolutionKept DEF FailingIsDemoted
<1> QED BY <1>1, EvolutionFocus, PTL

\* Only a recalculation that had read another ceiling raises a tenant above its
\* ceiling (harness-maturity-engine.ts:63).
THEOREM RaisesWithinCeiling == DecisionsSpec => RaisedWithinCeiling
<1>1. (focus = "maturity" => MaturityInv) /\ [DecisionsNext]_allVars
        => [focus = "maturity" => TenantMaturity!RaiseStep]_maturityVars
  BY RaiseKept, FocusStep
<1> QED BY <1>1, MaturityFocus, PTL DEF DecisionsSpec, allVars, RaisedWithinCeiling

\* Every component keeps to its types.
THEOREM DecisionsTyped == DecisionsSpec => []TypesOK
<1>1. /\ focus \in Focuses /\ TypeOK /\ (focus = "rules" => RulesInv)
      /\ (focus = "constitution" => ConstitutionInv) /\ (focus = "pipeline" => PipelineInv)
      /\ (focus = "graph" => GraphInv) /\ (focus = "ledger" => LedgerInv)
      /\ (focus = "maturity" => MaturityInv) /\ (focus = "patterns" => EvolutionInv)
      /\ (focus = "client" => ClientInv)
      => TypesOK
  <2>1. /\ RulesInv => RuleSet!TypeOK
        /\ ConstitutionInv => Constitution!TypeOK
        /\ PipelineInv => Pipeline!TypeOK
        /\ GraphInv => Graph!TypeOK
        /\ LedgerInv => Ledger!TypeOK
        /\ MaturityInv => TenantMaturity!TypeOK
        /\ EvolutionInv => Evolution!TypeOK
        /\ ClientInv => Client!TypeOK
    BY RulesKept, ConstitutionHeld, PipelineHeld, GraphKept, LedgerKept, MaturityKept, EvolutionKept,
       ClientHeld
  <2> QED BY <2>1 DEF TypesOK, Focuses
<1> QED BY <1>1, OneFocus, AdmissionRuns, TypeCorrect, RulesFocus, ConstitutionFocus, PipelineFocus, GraphFocus,
           LedgerFocus, MaturityFocus, EvolutionFocus, ClientFocus, PTL
=============================================================================
