------------------------ MODULE MCAgentRunScenarios ------------------------
(***************************************************************************)
(* Instances of AgentRun for TLC. A run of the model is of one scenario:    *)
(*   node     two deliveries and two reviewers on one high-risk intent       *)
(*   service  a low-risk intent that the agent service runs                 *)
(*   limit    three low-risk intents against a limit of one run a day        *)
(* The constants of AgentRun have the values of the first.                 *)
(***************************************************************************)
EXTENDS AgentRun, TLC

CONSTANTS target, ServiceIntents, ServiceReviewers, LimitIntents

ASSUME ScenariosAssumption ==
  IsFiniteSet(ServiceIntents) /\ IsFiniteSet(LimitIntents) /\ target \in Targets

VARIABLE scenario

OneTarget == {target}
AllOneTarget(S) == [i \in S |-> target]
NodeTargetOf == AllOneTarget(Intents)

Service == INSTANCE AgentRun WITH
  Intents <- ServiceIntents, HighRisk <- {}, TargetOf <- AllOneTarget(ServiceIntents),
  Reviewers <- ServiceReviewers,
  Python <- TRUE, MaxRetries <- 1, RetryLimit <- 1, MaxOps <- 9, MaxJobs <- 2, MaxFaults <- 1

Limit == INSTANCE AgentRun WITH
  Intents <- LimitIntents, HighRisk <- {}, TargetOf <- AllOneTarget(LimitIntents), Reviewers <- {},
  Python <- FALSE, MaxRetries <- 0, RetryLimit <- 1, MaxOps <- 1, MaxJobs <- 3, MaxFaults <- 0

ScenariosInit ==
  \/ scenario = "node" /\ Init
  \/ scenario = "service" /\ Service!Init
  \/ scenario = "limit" /\ Limit!Init

ScenariosNext ==
  \/ scenario = "node" /\ Next /\ UNCHANGED scenario
  \/ scenario = "service" /\ Service!Next /\ UNCHANGED scenario
  \/ scenario = "limit" /\ Limit!Next /\ UNCHANGED scenario

ScenariosSpec == ScenariosInit /\ [][ScenariosNext]_<<scenario, vars>>
-----------------------------------------------------------------------------
(* The properties of AgentRun, each in the scenario that is about it.
   HighRiskApproved is that of AgentRun: no other scenario has a high risk. *)

\* The requests and the log rows are two tables that agree: what is pending can
\* be resumed, and what the agent service leaves waiting can be decided.
RequestsMatchRows ==
  /\ scenario = "node" => PendingIsResumable
  /\ scenario = "service" => Service!AwaitingHasRequest

\* A decided request is opened again only by another delivery of its run.
NodeReopenedOnlyByRedelivery == [][scenario = "node" => ReopenStep]_vars

\* Concurrent runs pass the daily limit by fewer than the workers.
LimitOvershootBound == scenario = "limit" => Limit!OvershootBound

-----------------------------------------------------------------------------
Symmetry == Permutations(Workers) \cup Permutations(Reviewers)

\* Receipts are written and never read: two states that differ in them only
\* have the same runs, for a property that does not speak of receipts.
WithoutReceipts == <<scenario, jobs, worker, log, approval, rev, executed, granted, faults>>
=============================================================================
