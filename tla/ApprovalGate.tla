---------------------------- MODULE ApprovalGate ----------------------------
(***************************************************************************)
(* What the run pipeline promises about an intent, whatever the queue, the *)
(* retries and the reviewers do: a high-risk intent is performed only when *)
(* it was granted, and a success is reported only of what was performed.   *)
(* AgentRun implements this module.                                        *)
(***************************************************************************)
CONSTANTS Intents, HighRisk

VARIABLES
  granted,    \* the intents a reviewer approved at some time
  performed,  \* the intents handed to the platform at least once
  succeeded   \* the intents with a receipt of success

vars == <<granted, performed, succeeded>>

Init == granted = {} /\ performed = {} /\ succeeded = {}

Grant(i) ==
  /\ granted' = granted \cup {i}
  /\ UNCHANGED <<performed, succeeded>>

Perform(i) ==
  /\ i \in HighRisk => i \in granted
  /\ performed' = performed \cup {i}
  /\ UNCHANGED <<granted, succeeded>>

Report(i) ==
  /\ i \in performed
  /\ succeeded' = succeeded \cup {i}
  /\ UNCHANGED <<granted, performed>>

Next == \E i \in Intents : Grant(i) \/ Perform(i) \/ Report(i)

Spec == Init /\ [][Next]_vars
=============================================================================
