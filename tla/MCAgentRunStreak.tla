-------------------------- MODULE MCAgentRunStreak --------------------------
(* Instance of AgentRunStreak for TLC: one circuit target for every intent.  *)
EXTENDS AgentRunStreak, TLC

CONSTANTS target

OneTarget == {target}
AllOneTarget == [i \in Intents |-> target]

Symmetry == Permutations(Intents \ HighRisk)
=============================================================================
