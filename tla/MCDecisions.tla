---------------------------- MODULE MCDecisions ----------------------------
(***************************************************************************)
(* Instances for TLC of what decides a run and what is learned from it: the *)
(* admission of a run, the versions of rule sets and constitutions, a rule *)
(* set on its way to the queue, the graph of the agent service, the client of*)
(* a platform, the writes of the ledger, the maturity of tenants and the   *)
(* evolution of patterns. The components share no state: a run is of one, the*)
(* focus, and the others have a state of no meaning.                         *)
(***************************************************************************)
EXTENDS RunAdmission, Sequences, FiniteSets, TLC

CONSTANTS
  Edits, Texts, MaxVersions,
  Publishers, MaxMoment,
  Caps, MaxBid,
  Interval, KeyTtl, MaxLedgerTime, MaxLives,
  Owners, Daily, Asked, Tiers, NoCeiling,
  Distills, Reports, MinSamples, AutoSamples, FailureLimit, MaxPatterns, MaxStreak, Followed,
  ReportRuns, Slots, Polls, Timeout, Margin, TokenLife, MaxSecond

\* The defaults of the code: two timeouts of 15 s are the margin of 30 s of a
\* token that lives an hour, an interval of 2 s, keys kept for 60 s, three failures.
ASSUME DecisionsAssumption ==
  /\ MaxVersions \in Nat \ {0} /\ MaxMoment \in Nat
  /\ Caps \subseteq Nat /\ MaxBid \in Nat
  /\ Interval \in Nat \ {0} /\ {KeyTtl, MaxLives} \subseteq Nat /\ MaxLedgerTime \in Nat \ {0}
  /\ {Tiers, NoCeiling} \subseteq Nat
  /\ {MinSamples, FailureLimit} \subseteq Nat \ {0}
  /\ {AutoSamples, MaxPatterns, MaxStreak} \subseteq Nat
  /\ {Slots, Polls, Timeout, Margin, TokenLife} \subseteq Nat /\ MaxSecond \in Nat \ {0}
  /\ 2 * Timeout <= Margin /\ 2 * Timeout < TokenLife

VARIABLES
  focus,
  versions, active, edit, passed,
  moment, manifests, publication, behind,
  text, facts, cap, step, intents, jobs, gated,
  given, node, plan, stage, margin, intent, score, passes, fresh, outcome,
  time, stamp, known, post, begun, ended, life, lives,
  earned, row, list, recalc, jobRuns,
  distilled, patterns, distill, report, streak, lost,
  second, cached, refresh, asking, reports
-----------------------------------------------------------------------------
(* What a rule set may say, and what a caller may know *)

\* A sentence of its own, and a pair of which each acts or ignores
Alone ==
  {s \in [stock : BOOLEAN, days : {0, 7, 30}, acos : {FALSE}, bid : {0, -10, 12, 40}, lower : BOOLEAN,
          risk : {FALSE}, cautious : {FALSE}, season : BOOLEAN, stop : BOOLEAN, ignore : BOOLEAN,
          either : BOOLEAN, priority : {55, 95}] :
     s.stop = s.ignore /\ (s.lower => s.bid = 12)}
Paired ==
  {s \in [stock : BOOLEAN, days : {0, 7}, acos : {TRUE}, bid : {0}, lower : {FALSE}, risk : {FALSE},
          cautious : {FALSE}, season : {FALSE}, stop : BOOLEAN, ignore : BOOLEAN, either : {FALSE},
          priority : {65}] :
     s.ignore = ~s.stop}
RuleTexts == {<<s>> : s \in Alone} \cup Paired \X Paired

Fields == {"inventory_days", "new_product_days", "acos", "bid_change_pct", "risk_profile", "season_window"}
Known(value, age) == [f \in Fields \cup {"age"} |-> IF f = "age" THEN age ELSE value]
CallerFacts ==
  {Known("holds", 5), Known("holds", 20), Known("missing", 5),
   [Known("holds", 0) EXCEPT !.inventory_days = "fails"]}

(* What a run of the agent service may be given *)

AbsentKey == -1
Listing ==
  [bid |-> AbsentKey, minBid |-> AbsentKey, price |-> 0, cost |-> 0, days |-> 999, reviews |-> 0,
   slope |-> 0, trend |-> 0, returns |-> AbsentKey]
Falling == [Listing EXCEPT !.slope = -8, !.trend = 8, !.returns = 10]
ListingsGiven ==
  {Listing,
   [Listing EXCEPT !.days = 10, !.slope = 5], [Listing EXCEPT !.reviews = 300],
   [Listing EXCEPT !.days = 60, !.reviews = 60, !.trend = -5],
   Falling, [Falling EXCEPT !.price = 30, !.cost = 5],
   [Listing EXCEPT !.bid = 80, !.minBid = 80], [Listing EXCEPT !.bid = 60, !.minBid = 20]}
GraphRuns ==
  {g \in [listing : ListingsGiven, typed : BOOLEAN, tenant : {"listed", "other"},
          stock : {AbsentKey, 8, 30}, gap : {0, 20}, acos : {20, 60, 90}, margin : {AbsentKey, 20, 40},
          age : {AbsentKey, 60}, resumes : BOOLEAN, shadow : BOOLEAN] :
     (g.typed /\ g.tenant = "listed") <=> g.listing # Listing}
-----------------------------------------------------------------------------
RuleSet == INSTANCE RuleSetVersions
Constitution == INSTANCE ConstitutionVersions
Pipeline == INSTANCE RulePipeline WITH Sentences <- RuleTexts, Facts <- CallerFacts
Graph == INSTANCE AgentGraph WITH Runs <- GraphRuns, Absent <- AbsentKey
Posts == Owners \cup {"other"}
PostOwner == [r \in Posts |-> "tenant"]
PostKey == [r \in Posts |-> IF r = "other" THEN "none" ELSE "key"]
Ledger == INSTANCE LedgerWrites WITH
  Requests <- Posts, Owner <- PostOwner, KeyOf <- PostKey, Ttl <- KeyTtl, MaxTime <- MaxLedgerTime
\* The workers of the daily job never have the same tenant: one of them and a
\* recalculation that was asked for are enough.
TenantMaturity == INSTANCE Maturity
ExperienceGroup == <<"g1", "g1", "g2">>
Evolution == INSTANCE PatternEvolution WITH
  Experiences <- DOMAIN ExperienceGroup, Group <- ExperienceGroup
Client == INSTANCE PlatformClient WITH
  Runs <- ReportRuns, Lifetime <- TokenLife, MaxNow <- MaxSecond,
  now <- second, run <- asking, report <- reports

ruleVars == <<versions, active, edit, passed>>
constitutionVars == <<moment, manifests, publication, behind>>
pipelineVars == <<text, facts, cap, step, intents, jobs, gated>>
graphVars == <<given, node, plan, stage, margin, intent, score, passes, fresh, outcome>>
ledgerVars == <<time, stamp, known, post, begun, ended, life, lives>>
maturityVars == <<earned, row, list, recalc, jobRuns>>
evolutionVars == <<distilled, patterns, distill, report, streak, lost>>
clientVars == <<second, cached, refresh, asking, reports>>

\* The state of a component that is not in focus
Off == "off"

DecisionsInit ==
  /\ focus \in {"admission", "rules", "constitution", "pipeline", "graph", "ledger", "maturity", "patterns",
       "client"}
  /\ Init
  /\ IF focus = "rules" THEN RuleSet!Init
     ELSE /\ versions = Off /\ active = Off /\ edit = Off /\ passed = Off
  /\ IF focus = "constitution" THEN Constitution!Init
     ELSE /\ moment = Off /\ manifests = Off /\ publication = Off /\ behind = Off
  /\ IF focus = "pipeline" THEN Pipeline!Init
     ELSE /\ text = Off /\ facts = Off /\ cap = Off /\ step = Off /\ intents = Off
          /\ jobs = Off /\ gated = Off
  /\ IF focus = "graph" THEN Graph!Init
     ELSE /\ given = Off /\ node = Off /\ plan = Off /\ stage = Off /\ margin = Off
          /\ intent = Off /\ score = Off /\ passes = Off /\ fresh = Off
          /\ outcome = Off
  /\ IF focus = "ledger" THEN Ledger!Init
     ELSE /\ time = Off /\ stamp = Off /\ known = Off /\ post = Off /\ begun = Off
          /\ ended = Off /\ life = Off /\ lives = Off
  /\ IF focus = "maturity" THEN TenantMaturity!Init
     ELSE /\ earned = Off /\ row = Off /\ list = Off /\ recalc = Off /\ jobRuns = Off
  /\ IF focus = "patterns" THEN Evolution!Init
     ELSE /\ distilled = Off /\ patterns = Off /\ distill = Off /\ report = Off
          /\ streak = Off /\ lost = Off
  /\ IF focus = "client" THEN Client!Init
     ELSE /\ second = Off /\ cached = Off /\ refresh = Off /\ asking = Off /\ reports = Off

\* The state of what carries a run out, of what learns from it, and of what governs it
carriedVars == <<graphVars, clientVars>>
learnedVars == <<ledgerVars, maturityVars, evolutionVars>>
governedVars == <<ruleVars, constitutionVars, pipelineVars>>

DecisionsNext ==
  \/ focus = "admission" /\ Next /\ UNCHANGED <<focus, carriedVars, governedVars, learnedVars>>
  \/ focus = "rules" /\ RuleSet!Next /\ UNCHANGED <<focus, vars, carriedVars, constitutionVars, pipelineVars, learnedVars>>
  \/ focus = "constitution" /\ Constitution!Next /\ UNCHANGED <<focus, vars, carriedVars, ruleVars, pipelineVars, learnedVars>>
  \/ focus = "pipeline" /\ Pipeline!Next /\ UNCHANGED <<focus, vars, carriedVars, ruleVars, constitutionVars, learnedVars>>
  \/ focus = "graph" /\ Graph!Next /\ UNCHANGED <<focus, vars, clientVars, governedVars, learnedVars>>
  \/ focus = "ledger" /\ Ledger!Next /\ UNCHANGED <<focus, vars, carriedVars, governedVars, maturityVars, evolutionVars>>
  \/ focus = "maturity" /\ TenantMaturity!Next /\ UNCHANGED <<focus, vars, carriedVars, governedVars, ledgerVars, evolutionVars>>
  \/ focus = "patterns" /\ Evolution!Next /\ UNCHANGED <<focus, vars, carriedVars, governedVars, ledgerVars, maturityVars>>
  \/ focus = "client" /\ Client!Next /\ UNCHANGED <<focus, vars, graphVars, governedVars, learnedVars>>

DecisionsSpec ==
  DecisionsInit /\ [][DecisionsNext]_<<focus, vars, carriedVars, governedVars, learnedVars>>
-----------------------------------------------------------------------------
(* TokenOnce, NonceOnce and TokenRedeemable are those of RunAdmission. *)

\* The types of every component
TypesOK ==
  CASE focus = "admission" -> TypeOK
    [] focus = "rules" -> RuleSet!TypeOK
    [] focus = "constitution" -> Constitution!TypeOK
    [] focus = "pipeline" -> Pipeline!TypeOK
    [] focus = "graph" -> Graph!TypeOK
    [] focus = "ledger" -> Ledger!TypeOK
    [] focus = "maturity" -> TenantMaturity!TypeOK
    [] focus = "patterns" -> Evolution!TypeOK
    [] focus = "client" -> Client!TypeOK

\* The rule set that is active is its newest version, but for an edit under way
\* or overtaken; one constitution is active at a time, and a later one has a
\* higher version.
VersionsKept ==
  /\ focus = "rules" => RuleSet!NewestIsActive
  /\ focus = "constitution" => Constitution!OneAfterAnother

\* What goes through POST /run unasked keeps the constitution's bid guard too, and
\* rules that contradict each other on low stock are shown as a contradiction.
PipelineKept ==
  focus = "pipeline" => Pipeline!RunKeepsConstitution /\ Pipeline!ContradictionFound

\* No request reaches the platform with an access token that has expired there,
\* and who waits for a token waits for a refresh.
ClientKept == focus = "client" => Client!ClientKept

\* A rule that lowers a bid does not raise it.
LoweredNeverRaised == focus = "pipeline" => Pipeline!LoweredNeverRaised

\* A run that completes changes the bid inside its bounds.
CompletedInBounds == focus = "graph" => Graph!CompletedInBounds

\* A request that was answered is written again only if its write was slow.
WrittenTwiceOnlyIfSlow == focus = "ledger" => Ledger!WrittenTwiceOnlyIfSlow

\* A tenant is raised above its ceiling only by a stale recalculation.
RaisedWithinCeiling == [][focus = "maturity" => TenantMaturity!RaiseStep]_maturityVars

\* A pattern that decides by itself has not failed three times in a row.
FailingIsDemoted == focus = "patterns" => Evolution!FailingIsDemoted
-----------------------------------------------------------------------------
\* The sets of calls of the other components have the values of Owners or of
\* Handlers, so that few permutations do for all.
Symmetry == Permutations(Owners) \cup Permutations(Nonces \ Tokens) \cup Permutations(Handlers)
=============================================================================
