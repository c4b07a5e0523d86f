------------------------------ MODULE AgentGraph ------------------------------
(***************************************************************************)
(* One run of the agent service, apps/agent-py: the nodes of build_graph in   *)
(* their order, and what each leaves in the state for the next. The nodes     *)
(* that leave only what no decision reads (tier 2 and 3, memory, cold start,  *)
(* orchestrator, patterns, confidence, evaluation, attribution) are passed    *)
(* over. Percentages are whole numbers, bids are cents, scores are            *)
(* thousandths, and the scores of a stage are in units of 1/9000.             *)
(*                                                                         *)
(* A run is given an intent of the models, as the tests of the service do, or *)
(* the dictionary that main.py makes of it.                                  *)
(***************************************************************************)
EXTENDS Integers

CONSTANTS
  Runs,   \* what a run may be given
  Absent  \* a key that is not in the payload

VARIABLES
  given,
  node,      \* the node that is next
  plan,      \* commodity_plan and listing_context: the cap on the bid change
  stage,     \* signal_context.lifecycleStage
  margin,    \* signal_context.profitMarginPct
  intent,    \* the intent in the state: bid change, hint, and the flags of its payload
  score,     \* risk.score
  passes,    \* constitution.pass
  fresh,     \* freshness.isFresh
  outcome

graphVars == <<given, node, plan, stage, margin, intent, score, passes, fresh, outcome>>

Least(m, n) == IF m < n THEN m ELSE n
Most(m, n) == IF m < n THEN n ELSE m
Size(n) == IF n < 0 THEN -n ELSE n
Or(value, default) == IF value = Absent THEN default ELSE value
-----------------------------------------------------------------------------
\* Mutant: the price gap is looked at before the stock.
BidCapGapFirst(g) ==
  IF g.gap > 10 THEN 0 ELSE IF Or(g.stock, 30) < 14 THEN -5 ELSE 12

BidCap(g) ==
  IF Or(g.stock, 30) < 14 THEN -5 ELSE IF g.gap > 10 THEN 0 ELSE 12

\* commodity_supervisor and listing_agent. A dictionary has no payload.
Plan ==
  /\ node = "plan"
  /\ IF given.typed
     THEN node' = "stage" /\ plan' = BidCap(given) /\ UNCHANGED outcome
     ELSE node' = "end" /\ outcome' = "ERROR" /\ UNCHANGED plan
  /\ UNCHANGED <<given, stage, margin, intent, score, passes, fresh>>

StageScore(g, s) ==
  CASE s = "LAUNCH"  -> (IF g.days < 90 THEN 40 * (90 - g.days) ELSE 0)
                        + (IF g.reviews < 50 THEN 54 * (50 - g.reviews) ELSE 0)
                        + (IF g.slope > 0 THEN 270 * Least(g.slope, 10) ELSE 0)
    [] s = "GROWTH"  -> (IF g.slope > 3 THEN 360 * Least(g.slope, 10) ELSE 0)
                        + (IF g.reviews >= 50 /\ g.days >= 30 THEN 2700 ELSE 0)
                        + (IF g.trend < 0 THEN 540 * Least(-g.trend, 5) ELSE 0)
    [] s = "MATURE"  -> (IF Size(g.slope) < 2 THEN 1800 * (2 - Size(g.slope)) ELSE 0)
                        + (IF g.reviews >= 200 THEN 2700 ELSE 0)
                        + (IF g.days >= 180 THEN 2700 ELSE 0)
    [] s = "DECLINE" -> (IF g.slope < -3 THEN 315 * Least(-g.slope, 10) ELSE 0)
                        + (IF g.trend > 3 THEN 315 * Least(g.trend, 10) ELSE 0)
                        + (IF Or(g.returns, 0) > 8 THEN 180 * Least(Or(g.returns, 0), 15) ELSE 0)

Stages == <<"LAUNCH", "GROWTH", "MATURE", "DECLINE">>

\* The first stage with the highest score
StageOf(g) ==
  LET best(i) == /\ \A k \in 1..4 : StageScore(g, Stages[k]) <= StageScore(g, Stages[i])
                 /\ \A k \in 1..(i - 1) : StageScore(g, Stages[k]) < StageScore(g, Stages[i])
      top == CHOOSE i \in 1..4 : best(i)
  IN IF StageScore(g, Stages[top]) > 0 THEN Stages[top] ELSE "MATURE"

\* lifecycle_detect
Detect ==
  /\ node = "stage" /\ node' = "margin" /\ stage' = StageOf(given.listing)
  /\ UNCHANGED <<given, plan, margin, intent, score, passes, fresh, outcome>>

\* What a sale leaves, with the default fees, in cents over the price; of a hundred
\* items three come back when nothing is known.
PricedMargin(g, acos) ==
  (83 * g.price - 100 * g.cost - 750 - 3 * Or(g.returns, 3) - acos * g.price) \div g.price

\* signal_enrich
Enrich ==
  /\ node = "margin" /\ node' = "decide"
  /\ margin' = IF given.listing.price > 0 THEN PricedMargin(given.listing, given.acos)
               ELSE Or(given.margin, 0)
  /\ UNCHANGED <<given, plan, stage, intent, score, passes, fresh, outcome>>
-----------------------------------------------------------------------------
\* A hundred percent over the ACoS
Roas == 10000 \div given.acos

Within(delta, cap) == Most(-30, Least(delta, cap))

\* The intent in the state is replaced; the payload of the new one has the
\* change, the listing and the strategy, and nothing of the old one.
Decide(delta, hint) ==
  /\ node = "decide" /\ node' = "risk"
  /\ intent' = [delta |-> delta, hint |-> hint, resumes |-> FALSE, age |-> Absent, shadow |-> FALSE]
  /\ UNCHANGED <<given, plan, stage, margin, score, passes, fresh, outcome>>

LaunchDecide ==
  /\ stage = "LAUNCH"
  /\ Decide(Within(IF given.acos > 80 THEN -5 ELSE IF Roas >= 200 THEN 15 ELSE 5, plan), 300)

StandardDecide ==
  LET delta == Within(IF Roas >= 300 THEN 10 ELSE IF Roas <= 150 THEN -10 ELSE 0, plan) IN
  /\ stage \in {"GROWTH", "MATURE"}
  /\ Decide(delta, IF delta > 0 THEN 300 ELSE 100)

DeclineDecide ==
  /\ stage = "DECLINE"
  /\ Decide(Within(IF margin < 5 THEN -20 ELSE IF Roas < 100 THEN -15 ELSE -5, 0), 500)

\* risk_check, before the constitution has been looked at
CheckRisk ==
  /\ node = "risk" /\ node' = "constitution"
  /\ score' = Most(intent.hint, Least(1000, 25 * Size(intent.delta) + 8 * given.acos))
  /\ UNCHANGED <<given, plan, stage, margin, intent, passes, fresh, outcome>>

BelowMinBid ==
  LET g == given.listing IN
  g.bid # Absent /\ g.minBid # Absent /\ g.bid * (100 + intent.delta) < g.minBid * 100
LowStock == given.stock # Absent /\ given.stock < 14 /\ intent.delta > 0
AboveMargin == given.margin # Absent /\ given.acos > given.margin /\ intent.delta > 0

\* constitution_check. Its kill switches are constants, all off.
CheckConstitution ==
  /\ node = "constitution" /\ node' = "freshness"
  /\ passes' = (given.tenant = "listed" /\ (intent.shadow \/ ~(BelowMinBid \/ LowStock \/ AboveMargin)))
  /\ UNCHANGED <<given, plan, stage, margin, intent, score, fresh, outcome>>

\* validate_freshness. No node gives the signals a quality.
ValidateFreshness ==
  /\ node = "freshness" /\ node' = "execute"
  /\ fresh' = (intent.age = Absent \/ intent.age <= 30)
  /\ UNCHANGED <<given, plan, stage, margin, intent, score, passes, outcome>>

\* auto_execute
Execute ==
  /\ node = "execute" /\ node' = "end"
  /\ outcome' = IF ~passes THEN "REJECTED_BY_CONSTITUTION"
                ELSE IF ~fresh THEN "REJECTED_STALE_CONTEXT"
                ELSE IF score >= 700 /\ ~intent.resumes THEN "AWAITING_APPROVAL"
                ELSE IF intent.resumes THEN "RESUMED_COMPLETED" ELSE "COMPLETED"
  /\ UNCHANGED <<given, plan, stage, margin, intent, score, passes, fresh>>
-----------------------------------------------------------------------------
\* The state in which the graph is invoked
FreshRun ==
  /\ intent = [delta |-> 0, hint |-> 0, resumes |-> given.resumes, age |-> given.age,
               shadow |-> given.shadow]
  /\ node = "plan" /\ plan = 12 /\ stage = "MATURE" /\ margin = 0
  /\ score = 0 /\ passes = TRUE /\ fresh = TRUE /\ outcome = "none"

Init == given \in Runs /\ FreshRun

Next ==
  \/ Plan \/ Detect \/ Enrich \/ LaunchDecide \/ StandardDecide \/ DeclineDecide
  \/ CheckRisk \/ CheckConstitution \/ ValidateFreshness \/ Execute

Spec == Init /\ [][Next]_graphVars
-----------------------------------------------------------------------------
(* Properties *)

TypeOK ==
  /\ node \in {"plan", "stage", "margin", "decide", "risk", "constitution", "freshness", "execute", "end"}
  /\ plan \in {-5, 0, 12} /\ stage \in {"LAUNCH", "GROWTH", "MATURE", "DECLINE"}
  /\ intent.delta \in -30..15 /\ score \in 0..1000
  /\ outcome # "none" <=> node = "end"

Done == outcome \in {"COMPLETED", "RESUMED_COMPLETED"}

\* Whatever stage a product is found in, a run that completes changes the bid
\* inside the supervisor's boundary, cuts it while stock is low, does not raise
\* it above what the margin bears, and leaves it no lower than the minimum.
CompletedInBounds ==
  Done =>
    /\ intent.delta <= BidCap(given)
    /\ Or(given.stock, 30) < 14 => intent.delta < 0
    /\ intent.delta > 0 => given.acos <= Or(given.margin, given.acos)
    /\ LET g == given.listing IN
       g.bid # Absent /\ g.minBid # Absent => g.bid * (100 + intent.delta) >= 100 * g.minBid
=============================================================================
