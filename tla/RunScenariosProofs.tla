------------------------- MODULE RunScenariosProofs -------------------------
(***************************************************************************)
(* Proofs about the scenarios of MCAgentRunScenarios: each is the run       *)
(* pipeline with other constants, so that what AgentRunProofs proves for    *)
(* every value of them holds in each.                                       *)
(***************************************************************************)
EXTENDS MCAgentRunScenarios, AgentRunProofs

\* The theorems of AgentRun with the constants of the other two scenarios.
ServiceProofs == INSTANCE AgentRunProofs WITH
  Intents <- ServiceIntents, HighRisk <- {}, TargetOf <- AllOneTarget(ServiceIntents),
  Reviewers <- ServiceReviewers,
  Python <- TRUE, MaxRetries <- 1, RetryLimit <- 1, MaxOps <- 9, MaxJobs <- 2, MaxFaults <- 1

LimitProofs == INSTANCE AgentRunProofs WITH
  Intents <- LimitIntents, HighRisk <- {}, TargetOf <- AllOneTarget(LimitIntents), Reviewers <- {},
  Python <- FALSE, MaxRetries <- 0, RetryLimit <- 1, MaxOps <- 1, MaxJobs <- 3, MaxFaults <- 0

\* The constants of the scenarios are as AgentRun assumes them.
LEMMA ConstantsFit ==
  /\ ServiceProofs!IsFiniteSet(ServiceIntents) /\ ServiceProofs!IsFiniteSet(Workers)
  /\ LimitProofs!IsFiniteSet(LimitIntents) /\ LimitProofs!IsFiniteSet(Workers)
  /\ AllOneTarget(ServiceIntents) \in [ServiceIntents -> Targets]
  /\ AllOneTarget(LimitIntents) \in [LimitIntents -> Targets]
BY AgentRunAssumption, ScenariosAssumption
   DEF AgentRunAssumption, ScenariosAssumption, AllOneTarget, IsFiniteSet,
       ServiceProofs!IsFiniteSet, LimitProofs!IsFiniteSet
-----------------------------------------------------------------------------
(* The two names of one instance: the scenario runs Service!Next, the theorems
   are about ServiceProofs!Next, and the two are the same formula. *)

LEMMA SameServiceInit == Service!Init <=> ServiceProofs!Init
BY DEF Service!Init, Service!JobIds, Service!NoJob, Service!IdleWork,
  Service!IdleRev, ServiceProofs!Init, ServiceProofs!JobIds,
  ServiceProofs!NoJob, ServiceProofs!IdleWork, ServiceProofs!IdleRev

LEMMA SameServiceNext == Service!Next <=> ServiceProofs!Next
BY DEF Service!JobIds, Service!FailureStatus, Service!SuccessStatus,
  Service!LogStatus, Service!ApprovalStatus, Service!NoJob, Service!IdleWork,
  Service!IdleRev, Service!Rows, Service!Newer, Service!Latest,
  Service!FailureCounts, Service!IsCircuitOpen, Service!WithinLimit,
  Service!UpsertLog, Service!UpsertPending, Service!JobOf, Service!IntentOf,
  Service!Fault, Service!Send, Service!Submit, Service!Fetch,
  Service!Redeliver, Service!Orphan, Service!Expire, Service!Settle,
  Service!CrashWorker, Service!Goto, Service!Finish, Service!MayRetry,
  Service!Retry, Service!CheckRateLimit, Service!NeedsApproval,
  Service!CheckCircuit, Service!WriteCircuitOpenLog, Service!RequestApproval,
  Service!Outcomes, Service!Execute, Service!AskApproval, Service!ReceiptOf,
  Service!Record, Service!WriteReceipt, Service!DbError, Service!Exists,
  Service!ApproveRead, Service!ApproveReadLog, Service!ApproveStale,
  Service!ApproveWrite, Service!ApproveSend, Service!CrashReviewer,
  Service!Reject, Service!Cancel, Service!ExpireApprovals, Service!Handler,
  Service!Reviewer, Service!Next, Service!Cardinality, ServiceProofs!JobIds,
  ServiceProofs!FailureStatus, ServiceProofs!SuccessStatus,
  ServiceProofs!LogStatus, ServiceProofs!ApprovalStatus, ServiceProofs!NoJob,
  ServiceProofs!IdleWork, ServiceProofs!IdleRev, ServiceProofs!Rows,
  ServiceProofs!Newer, ServiceProofs!Latest, ServiceProofs!FailureCounts,
  ServiceProofs!IsCircuitOpen, ServiceProofs!WithinLimit,
  ServiceProofs!UpsertLog, ServiceProofs!UpsertPending, ServiceProofs!JobOf,
  ServiceProofs!IntentOf, ServiceProofs!Fault, ServiceProofs!Send,
  ServiceProofs!Submit, ServiceProofs!Fetch, ServiceProofs!Redeliver,
  ServiceProofs!Orphan, ServiceProofs!Expire, ServiceProofs!Settle,
  ServiceProofs!CrashWorker, ServiceProofs!Goto, ServiceProofs!Finish,
  ServiceProofs!MayRetry, ServiceProofs!Retry, ServiceProofs!CheckRateLimit,
  ServiceProofs!NeedsApproval, ServiceProofs!CheckCircuit,
  ServiceProofs!WriteCircuitOpenLog, ServiceProofs!RequestApproval,
  ServiceProofs!Outcomes, ServiceProofs!Execute, ServiceProofs!AskApproval,
  ServiceProofs!ReceiptOf, ServiceProofs!Record, ServiceProofs!WriteReceipt,
  ServiceProofs!DbError, ServiceProofs!Exists, ServiceProofs!ApproveRead,
  ServiceProofs!ApproveReadLog, ServiceProofs!ApproveStale,
  ServiceProofs!ApproveWrite, ServiceProofs!ApproveSend,
  ServiceProofs!CrashReviewer, ServiceProofs!Reject, ServiceProofs!Cancel,
  ServiceProofs!ExpireApprovals, ServiceProofs!Handler,
  ServiceProofs!Reviewer, ServiceProofs!Next, ServiceProofs!Cardinality

LEMMA SameLimitInit == Limit!Init <=> LimitProofs!Init
BY DEF Limit!Init, Limit!JobIds, Limit!NoJob, Limit!IdleWork, Limit!IdleRev,
  LimitProofs!Init, LimitProofs!JobIds, LimitProofs!NoJob,
  LimitProofs!IdleWork, LimitProofs!IdleRev

LEMMA SameLimitNext == Limit!Next <=> LimitProofs!Next
BY DEF Limit!JobIds, Limit!FailureStatus, Limit!SuccessStatus, Limit!LogStatus,
  Limit!ApprovalStatus, Limit!NoJob, Limit!IdleWork, Limit!IdleRev,
  Limit!Rows, Limit!Newer, Limit!Latest, Limit!FailureCounts,
  Limit!IsCircuitOpen, Limit!WithinLimit, Limit!UpsertLog,
  Limit!UpsertPending, Limit!JobOf, Limit!IntentOf, Limit!Fault, Limit!Send,
  Limit!Submit, Limit!Fetch, Limit!Redeliver, Limit!Orphan, Limit!Expire,
  Limit!Settle, Limit!CrashWorker, Limit!Goto, Limit!Finish, Limit!MayRetry,
  Limit!Retry, Limit!CheckRateLimit, Limit!NeedsApproval, Limit!CheckCircuit,
  Limit!WriteCircuitOpenLog, Limit!RequestApproval, Limit!Outcomes,
  Limit!Execute, Limit!AskApproval, Limit!ReceiptOf, Limit!Record,
  Limit!WriteReceipt, Limit!DbError, Limit!Exists, Limit!ApproveRead,
  Limit!ApproveReadLog, Limit!ApproveStale, Limit!ApproveWrite,
  Limit!ApproveSend, Limit!CrashReviewer, Limit!Reject, Limit!Cancel,
  Limit!ExpireApprovals, Limit!Handler, Limit!Reviewer, Limit!Next,
  Limit!Cardinality, LimitProofs!JobIds, LimitProofs!FailureStatus,
  LimitProofs!SuccessStatus, LimitProofs!LogStatus,
  LimitProofs!ApprovalStatus, LimitProofs!NoJob, LimitProofs!IdleWork,
  LimitProofs!IdleRev, LimitProofs!Rows, LimitProofs!Newer,
  LimitProofs!Latest, LimitProofs!FailureCounts, LimitProofs!IsCircuitOpen,
  LimitProofs!WithinLimit, LimitProofs!UpsertLog, LimitProofs!UpsertPending,
  LimitProofs!JobOf, LimitProofs!IntentOf, LimitProofs!Fault,
  LimitProofs!Send, LimitProofs!Submit, LimitProofs!Fetch,
  LimitProofs!Redeliver, LimitProofs!Orphan, LimitProofs!Expire,
  LimitProofs!Settle, LimitProofs!CrashWorker, LimitProofs!Goto,
  LimitProofs!Finish, LimitProofs!MayRetry, LimitProofs!Retry,
  LimitProofs!CheckRateLimit, LimitProofs!NeedsApproval,
  LimitProofs!CheckCircuit, LimitProofs!WriteCircuitOpenLog,
  LimitProofs!RequestApproval, LimitProofs!Outcomes, LimitProofs!Execute,
  LimitProofs!AskApproval, LimitProofs!ReceiptOf, LimitProofs!Record,
  LimitProofs!WriteReceipt, LimitProofs!DbError, LimitProofs!Exists,
  LimitProofs!ApproveRead, LimitProofs!ApproveReadLog,
  LimitProofs!ApproveStale, LimitProofs!ApproveWrite, LimitProofs!ApproveSend,
  LimitProofs!CrashReviewer, LimitProofs!Reject, LimitProofs!Cancel,
  LimitProofs!ExpireApprovals, LimitProofs!Handler, LimitProofs!Reviewer,
  LimitProofs!Next, LimitProofs!Cardinality

LEMMA SameProperties ==
  /\ Service!AwaitingHasRequest <=> ServiceProofs!AwaitingHasRequest
  /\ Limit!OvershootBound <=> LimitProofs!OvershootBound
BY DEF Service!AwaitingHasRequest, Service!Exists, ServiceProofs!AwaitingHasRequest,
  ServiceProofs!Exists, Limit!OvershootBound, Limit!Rows, Limit!Cardinality,
  LimitProofs!OvershootBound, LimitProofs!Rows, LimitProofs!Cardinality
-----------------------------------------------------------------------------
(* The scenarios *)

\* A behaviour stays in its scenario, where every step is one of the pipeline.
NodeInv == scenario = "node" => ReopenInv
ServiceInv == scenario = "service" => ServiceProofs!RequestInv
LimitedInv == scenario = "limit" => LimitProofs!LimitInv

LEMMA ScenarioStep ==
  ASSUME [ScenariosNext]_<<scenario, vars>>
  PROVE  /\ scenario' = scenario
         /\ scenario = "node" => [Next]_vars
         /\ scenario = "service" => [ServiceProofs!Next]_(ServiceProofs!vars)
         /\ scenario = "limit" => [LimitProofs!Next]_(LimitProofs!vars)
BY SameServiceNext, SameLimitNext DEF ScenariosNext, vars, ServiceProofs!vars, LimitProofs!vars

LEMMA NodeInvariant == ScenariosSpec => []NodeInv
<1>1. ScenariosInit => NodeInv
  BY ReopenInit DEF ScenariosInit, NodeInv
<1>2. NodeInv /\ [ScenariosNext]_<<scenario, vars>> => NodeInv'
  BY ScenarioStep, ReopenStepKept DEF NodeInv
<1> QED BY <1>1, <1>2, PTL DEF ScenariosSpec

LEMMA ServiceInvariant == ScenariosSpec => []ServiceInv
<1>1. ScenariosInit => ServiceInv
  <2>1. ServiceProofs!Init => ServiceProofs!RequestInv
    BY ConstantsFit, ServiceProofs!RequestInit
  <2> QED BY <2>1, SameServiceInit DEF ScenariosInit, ServiceInv
<1>2. ServiceInv /\ [ScenariosNext]_<<scenario, vars>> => ServiceInv'
  <2>1. ServiceProofs!RequestInv /\ [ServiceProofs!Next]_(ServiceProofs!vars)
          => ServiceProofs!RequestInv'
    BY ConstantsFit, ServiceProofs!RequestStep
  <2> QED BY <2>1, ScenarioStep DEF ServiceInv
<1> QED BY <1>1, <1>2, PTL DEF ScenariosSpec

LEMMA LimitedInvariant == ScenariosSpec => []LimitedInv
<1>1. ScenariosInit => LimitedInv
  <2>1. LimitProofs!Init => LimitProofs!LimitInv
    BY ConstantsFit, LimitProofs!LimitInit
  <2> QED BY <2>1, SameLimitInit DEF ScenariosInit, LimitedInv
<1>2. LimitedInv /\ [ScenariosNext]_<<scenario, vars>> => LimitedInv'
  <2>1. LimitProofs!LimitInv /\ [LimitProofs!Next]_(LimitProofs!vars)
          => LimitProofs!LimitInv'
    BY ConstantsFit, LimitProofs!LimitStep
  <2> QED BY <2>1, ScenarioStep DEF LimitedInv
<1> QED BY <1>1, <1>2, PTL DEF ScenariosSpec

\* In the node scenario every pending request has its log row, in the service
\* scenario every waiting run has its request: the two tables agree between
\* the statements of the handlers.
THEOREM TablesAgree == ScenariosSpec => []RequestsMatchRows
<1>1. NodeInv /\ ServiceInv => RequestsMatchRows
  BY SameProperties
     DEF NodeInv, ServiceInv, ReopenInv, RequestInv, ServiceProofs!RequestInv,
         RequestsMatchRows
<1> QED BY <1>1, NodeInvariant, ServiceInvariant, PTL

\* Whatever overtakes whatever between the check of the daily limit and the
\* row: the rows exceed the limit by fewer than the workers.
THEOREM LimitKept == ScenariosSpec => []LimitOvershootBound
<1>1. LimitedInv => LimitOvershootBound
  <2> SUFFICES ASSUME LimitProofs!LimitInv PROVE Limit!OvershootBound
    BY DEF LimitedInv, LimitOvershootBound
  <2>1. LimitProofs!OvershootBound
    BY ConstantsFit, LimitProofs!LimitBound
  <2> QED BY <2>1, SameProperties
<1> QED BY <1>1, LimitedInvariant, PTL

\* A decided request of a high-risk intent is pending again only if the queue
\* has delivered the intent another time.
THEOREM NodeReopened == ScenariosSpec => NodeReopenedOnlyByRedelivery
<1>1. NodeInv /\ [ScenariosNext]_<<scenario, vars>> => [scenario = "node" => ReopenStep]_vars
  BY ScenarioStep, ReopenedTwice DEF NodeInv
<1> QED BY <1>1, NodeInvariant, PTL DEF ScenariosSpec, NodeReopenedOnlyByRedelivery
=============================================================================
