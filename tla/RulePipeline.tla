----------------------------- MODULE RulePipeline -----------------------------
(***************************************************************************)
(* From the words of a rule to a job: rules-engine.ts reads predicates and an *)
(* action out of each sentence, intent-compiler.ts weighs the intent against  *)
(* the facts and the tenant's policy, POST /rules/compile-intents queues what *)
(* is approved or signs a token for it, POST /run holds it to the            *)
(* constitution, and the worker of queue.ts lets a low risk through.         *)
(* A sentence is a record of what the expressions of the source look for in  *)
(* it; risk scores are in hundredths.                                       *)
(***************************************************************************)
EXTENDS Integers, Sequences, FiniteSets

CONSTANTS
  Sentences,  \* texts of a rule set: sequences of sentences
  Facts,      \* what a caller may know: a value, "missing" where it is not given
  Caps,       \* values of the policy maxDailyBudgetChangePct, in percent
  MaxBid      \* maxPct of the constitution's bid guard

VARIABLES
  text, facts, cap,  \* the request
  step,              \* where it is
  intents,           \* what was compiled of each sentence that was understood
  jobs,              \* what was queued: the sentence's number and its score
  gated              \* jobs the worker has seen: the number, and "run" or "ask"

pipelineVars == <<text, facts, cap, step, intents, jobs, gated>>

Magnitude(n) == IF n < 0 THEN -n ELSE n
Higher(m, n) == IF m < n THEN n ELSE m
-----------------------------------------------------------------------------
(* rules-engine.ts *)

\* The first of two or three digits are taken by the .* before them.
DaysRead(s) == s.days % 10

\* A sign is read, a word like "lower by" is not.
BidRead(s) == s.bid

Fields(s) ==
  {f \in {"inventory_days", "new_product_days", "acos", "bid_change_pct", "risk_profile", "season_window"} :
     CASE f = "inventory_days"   -> s.stock
       [] f = "new_product_days" -> s.days > 0
       [] f = "acos"             -> s.acos
       [] f = "bid_change_pct"   -> s.bid # 0
       [] f = "risk_profile"     -> s.risk
       [] f = "season_window"    -> s.season}

Action(s) ==
  IF s.stock /\ s.stop           THEN "PAUSE_ADS"
  ELSE IF s.days > 0 /\ s.ignore THEN "OVERRIDE_INVENTORY_GUARD"
  ELSE IF BidRead(s) > 0         THEN "INCREASE_BID"
  ELSE IF BidRead(s) < 0         THEN "DECREASE_BID"
  ELSE IF s.cautious             THEN "ENABLE_CONSERVATIVE_MODE"
  ELSE IF s.season               THEN "RELAX_CONSTRAINTS"
  ELSE "KEEP_OR_REDUCE_BID"

FieldOrder ==
  <<"inventory_days", "new_product_days", "acos", "bid_change_pct", "risk_profile", "season_window">>

PrimaryField(s) ==
  FieldOrder[CHOOSE i \in 1..6 :
    /\ FieldOrder[i] \in Fields(s)
    /\ \A k \in 1..(i - 1) : FieldOrder[k] \notin Fields(s)]

\* Sentences without a predicate are reported as not understood.
Understood(t) == {i \in DOMAIN t : Fields(t[i]) # {}}

Contradiction(t) ==
  /\ \E i \in Understood(t) : /\ PrimaryField(t[i]) = "inventory_days"
                              /\ Action(t[i]) = "PAUSE_ADS"
  /\ \E i \in Understood(t) : /\ PrimaryField(t[i]) = "new_product_days"
                              /\ Action(t[i]) = "OVERRIDE_INVENTORY_GUARD"
-----------------------------------------------------------------------------
(* intent-compiler.ts *)

Holds(s, f, x) ==
  /\ f[x] # "missing"
  /\ IF x = "new_product_days" THEN f.age <= DaysRead(s) ELSE f[x] = "holds"

Matched(s, f) ==
  IF s.either THEN \E x \in Fields(s) : Holds(s, f, x) ELSE \A x \in Fields(s) : Holds(s, f, x)

BidChange(s) ==
  IF Action(s) \in {"INCREASE_BID", "DECREASE_BID"} THEN Magnitude(BidRead(s)) ELSE 0

Score(s, limit) ==
  IF BidChange(s) > limit THEN Higher(s.priority, 86)
  ELSE IF Action(s) = "OVERRIDE_INVENTORY_GUARD" THEN Higher(s.priority, 78)
  ELSE s.priority

Approved(s, limit) == BidChange(s) <= limit

CompileRule(s) ==
  [rule |-> s, action |-> Action(s), change |-> BidChange(s), score |-> Score(s, cap),
   approved |-> Approved(s, cap) /\ Matched(s, facts)]
-----------------------------------------------------------------------------
(* The routes and the worker *)

Compile ==
  /\ step = "compile"
  /\ intents' = [i \in Understood(text) |-> CompileRule(text[i])]
  /\ \E next \in {"execute", "sign"} : step' = next
  /\ UNCHANGED <<text, facts, cap, jobs, gated>>

ToQueue == {i \in DOMAIN intents : intents[i].approved /\ \A j \in jobs : j.of # i}

\* execute: one job after the other, and the constitution is not asked.
Execute ==
  /\ step = "execute"
  /\ \E i \in ToQueue :
       /\ \A n \in ToQueue : i <= n
       /\ jobs' = jobs \cup {[of |-> i, score |-> intents[i].score, via |-> "execute"]}
  /\ UNCHANGED <<text, facts, cap, step, intents, gated>>

ExecuteDone ==
  /\ step = "execute" /\ ToQueue = {} /\ step' = "sign"
  /\ UNCHANGED <<text, facts, cap, intents, jobs, gated>>

\* Mutant: a structural violation leaves the score as it is.
ScoreAsCompiled(i) == intents[i].score

\* POST /run: a structural violation of the constitution asks for approval.
RunScore(i) == IF intents[i].change > MaxBid THEN Higher(intents[i].score, 70) ELSE intents[i].score

\* A token is signed for what is approved, and its bearer runs it.
Run ==
  /\ step = "sign"
  /\ \E i \in DOMAIN intents :
       /\ intents[i].approved /\ \A j \in jobs : <<j.of, j.via>> # <<i, "run">>
       /\ jobs' = jobs \cup {[of |-> i, score |-> RunScore(i), via |-> "run"]}
  /\ UNCHANGED <<text, facts, cap, step, intents, gated>>

Fails == step \in {"execute", "sign"} /\ step' = "failed"
         /\ UNCHANGED <<text, facts, cap, intents, jobs, gated>>

\* The worker asks for approval from HIGH on.
Gate ==
  /\ \E j \in jobs :
       /\ \A g \in gated : g.job # j
       /\ gated' = gated \cup {[job |-> j, does |-> IF j.score >= 70 THEN "ask" ELSE "run"]}
  /\ UNCHANGED <<text, facts, cap, step, intents, jobs>>

Init ==
  /\ text \in Sentences /\ facts \in Facts /\ cap \in Caps
  /\ step = "compile" /\ intents = <<>> /\ jobs = {} /\ gated = {}

Next == Compile \/ Execute \/ ExecuteDone \/ Run \/ Fails \/ Gate

Spec == Init /\ [][Next]_pipelineVars
-----------------------------------------------------------------------------
(* Properties *)

TypeOK ==
  /\ step \in {"compile", "execute", "sign", "failed"}
  /\ \A i \in DOMAIN intents : intents[i].score \in 5..95 /\ intents[i].change \in 0..99
  /\ \A j \in jobs : j.of \in DOMAIN intents
  /\ {g.job : g \in gated} \subseteq jobs

\* What goes through POST /run unasked keeps the constitution's bid guard too.
RunKeepsConstitution ==
  \A g \in gated : g.job.via = "run" /\ g.does = "run" => intents[g.job.of].change <= MaxBid

\* A set in which one rule pauses the ads when stock is low and another, that
\* does not speak of stock, ignores stock for new products is shown as a
\* contradiction.
ContradictionFound ==
  \A i, k \in DOMAIN intents :
    intents[i].action = "PAUSE_ADS" /\ intents[k].action = "OVERRIDE_INVENTORY_GUARD"
      /\ ~intents[k].rule.stock => Contradiction(text)

\* What the templates say: a rule that lowers a bid does not raise it.
LoweredNeverRaised ==
  \A i \in DOMAIN intents : intents[i].rule.lower => intents[i].action # "INCREASE_BID"
=============================================================================
