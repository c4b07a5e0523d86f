----------------------------- MODULE MCAgentRun -----------------------------
(***************************************************************************)
(* Instances of AgentRun for TLC: every intent has the same circuit target.  *)
(***************************************************************************)
EXTENDS AgentRun, TLC

CONSTANTS target

OneTarget == {target}
AllOneTarget == [i \in Intents |-> target]

\* Four low-risk intents that fail or not, and their circuit.
BreakerNext == HighRisk = {} /\ Next
BreakerSpec == Init /\ [][BreakerNext]_vars

Symmetry == Permutations(Workers) \cup Permutations(Reviewers)
              \cup Permutations(Intents \ HighRisk)

\* Receipts are written and never read: two states that differ in them only
\* have the same runs, for a property that does not speak of receipts.
WithoutReceipts == <<jobs, worker, log, approval, rev, executed, granted, faults>>
=============================================================================
