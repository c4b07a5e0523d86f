--------------------------- MODULE AgentRunProofs ---------------------------
(***************************************************************************)
(* Proofs about AgentRun for every number of intents, workers, reviewers,  *)
(* retries and faults: its types, the approval gate and that it implements *)
(* ApprovalGate, that requests and rows agree, by how much the daily limit *)
(* is overshot, that a decided request is asked for again only by a        *)
(* redelivery, and that an open breaker stays open.                        *)
(***************************************************************************)
EXTENDS AgentRun, FiniteSetTheorems, TLAPS

Busy == {"limit", "circuit", "trip", "gate", "execute", "ask", "record"}
-----------------------------------------------------------------------------
(* What the helpers of the actions preserve *)

\* Sending a job fills a free slot: no job of a worker is disturbed.
LEMMA SendTyped ==
  ASSUME JobsTyped, WorkersTyped, NEW i \in Intents, NEW resume \in BOOLEAN,
         Send(i, resume), UNCHANGED worker
  PROVE  JobsTyped' /\ WorkersTyped'
<1>1. PICK j \in JobIds :
        /\ jobs[j].state = "none"
        /\ jobs' = [jobs EXCEPT ![j] = [intent |-> i, resume |-> resume,
                                        state |-> "created", starts |-> 0]]
  BY DEF Send
<1>2. JobsTyped'
  BY <1>1 DEF JobsTyped, Job
<1>3. WorkersTyped'
  BY <1>1 DEF JobsTyped, WorkersTyped, JobOf, Job
<1> QED BY <1>2, <1>3

\* Moving a job that was sent to another state keeps its intent.
LEMMA JobStateTyped ==
  ASSUME JobsTyped, NEW j \in JobIds, jobs[j].state # "none",
         NEW st \in {"retry", "failed", "completed"},
         jobs' = [jobs EXCEPT ![j].state = st]
  PROVE  /\ JobsTyped'
         /\ \A k \in JobIds : jobs[k].state # "none" => jobs'[k].state # "none"
BY DEF JobsTyped, Job

LEMMA RedeliverTyped ==
  ASSUME JobsTyped, NEW j \in JobIds, jobs[j].state # "none", Redeliver(j)
  PROVE  /\ JobsTyped'
         /\ \A k \in JobIds : jobs[k].state # "none" => jobs'[k].state # "none"
<1>1. (IF jobs[j].starts <= RetryLimit THEN "retry" ELSE "failed")
        \in {"retry", "failed", "completed"}
  OBVIOUS
<1> QED BY <1>1, JobStateTyped DEF Redeliver

\* A worker that loses its job only loses the right to settle it.
LEMMA DisownTyped ==
  ASSUME NEW work \in Work
  PROVE  LET lost == [work EXCEPT !.owns = FALSE]
         IN  lost \in Work /\ lost.pc = work.pc /\ lost.job = work.job
BY DEF Work

\* A row that is written keeps or gets a place in creation order.
LEMMA UpsertLogTyped ==
  ASSUME RowsTyped, NEW i \in Intents, NEW st \in LogStatus, UpsertLog(i, st)
  PROVE  log' \in [Intents -> [status : LogStatus, at : Nat]]
<1>1. IsFiniteSet(Rows)
  BY AgentRunAssumption, FS_Subset DEF Rows, AgentRunAssumption
<1>2. Cardinality(Rows) + 1 \in Nat
  BY <1>1, FS_CardinalityType
<1> QED BY <1>2 DEF RowsTyped, UpsertLog

LEMMA GotoTyped ==
  ASSUME WorkersTyped, UNCHANGED jobs, NEW w \in Workers, worker[w].pc \in Busy,
         NEW pc \in Busy, Goto(w, pc)
  PROVE  WorkersTyped'
BY DEF WorkersTyped, Work, JobOf, Goto, Busy

LEMMA FinishTyped ==
  ASSUME WorkersTyped, UNCHANGED jobs, NEW w \in Workers, worker[w].pc \in Busy,
         NEW pc \in {"done", "failed"}, Finish(w, pc)
  PROVE  WorkersTyped'
BY AgentRunAssumption
   DEF WorkersTyped, Work, JobOf, Finish, Busy, LogStatus, AgentRunAssumption

LEMMA RetryTyped ==
  ASSUME WorkersTyped, UNCHANGED jobs, NEW w \in Workers, worker[w].pc \in Busy,
         Retry(w)
  PROVE  WorkersTyped'
<1>1. CASE MayRetry(worker[w].attempt)
  BY <1>1, AgentRunAssumption
     DEF WorkersTyped, Work, JobOf, Retry, MayRetry, Busy, LogStatus, AgentRunAssumption
<1>2. CASE ~MayRetry(worker[w].attempt)
  BY <1>2, FinishTyped DEF Retry
<1> QED BY <1>1, <1>2
-----------------------------------------------------------------------------
(* Type correctness, one lemma per group of actions *)

LEMMA ExpireTyped ==
  ASSUME TypeOK, NEW j \in JobIds, Expire(j)
  PROVE  TypeOK'
<1> USE DEF TypeOK, RowsTyped, ReviewsTyped, HistoryTyped
<1>1. JobsTyped' /\ \A k \in JobIds : jobs[k].state # "none" => jobs'[k].state # "none"
  BY RedeliverTyped DEF Expire
<1>2. WorkersTyped'
  <2>1. \A v \in Workers :
          /\ worker'[v] \in Work
          /\ worker'[v].pc = worker[v].pc
          /\ worker'[v].job = worker[v].job
    <3> TAKE v \in Workers
    <3>1. worker[v] \in Work
      BY DEF WorkersTyped
    <3>2. worker'[v] = IF worker[v].job = j THEN [worker[v] EXCEPT !.owns = FALSE]
                       ELSE worker[v]
      BY DEF Expire
    <3> QED BY <3>1, <3>2, DisownTyped
  <2>2. worker' \in [Workers -> Work]
    BY <2>1 DEF Expire
  <2> QED BY <1>1, <2>1, <2>2 DEF WorkersTyped, JobOf
<1>3. faults' \in Nat
  BY DEF Expire, Fault
<1> QED BY <1>1, <1>2, <1>3 DEF Expire

LEMMA QueueTyped ==
  ASSUME TypeOK, NEW w \in Workers, NEW j \in JobIds,
         Fetch(w, j) \/ Settle(w) \/ CrashWorker(w)
  PROVE  TypeOK'
<1> USE DEF TypeOK, RowsTyped, ReviewsTyped, HistoryTyped
<1>1. CASE Fetch(w, j)
  <2>1. JobsTyped'
    BY <1>1 DEF Fetch, JobsTyped, Job
  <2>2. WorkersTyped'
    BY <1>1, AgentRunAssumption
       DEF Fetch, JobsTyped, WorkersTyped, Work, Job, JobOf, LogStatus,
           AgentRunAssumption
  <2> QED BY <1>1, <2>1, <2>2 DEF Fetch
<1>2. CASE Settle(w)
  <2>1. JobsTyped' /\ \A k \in JobIds : jobs[k].state # "none" => jobs'[k].state # "none"
    <3>1. worker[w].job \in JobIds /\ jobs[worker[w].job].state # "none"
      BY <1>2 DEF Settle, WorkersTyped, JobOf
    <3>2. CASE Redeliver(worker[w].job)
      BY <3>1, <3>2, RedeliverTyped
    <3>3. CASE jobs' = [jobs EXCEPT ![worker[w].job].state = "completed"]
      BY <3>1, <3>3, JobStateTyped
    <3>4. CASE UNCHANGED jobs
      BY <3>4 DEF JobsTyped
    <3> QED BY <1>2, <3>2, <3>3, <3>4 DEF Settle
  <2>2. WorkersTyped'
    BY <1>2, <2>1, AgentRunAssumption
       DEF Settle, WorkersTyped, Work, JobOf, IdleWork, LogStatus, AgentRunAssumption
  <2> QED BY <1>2, <2>1, <2>2 DEF Settle
<1>3. CASE CrashWorker(w)
  <2>1. JobsTyped' /\ faults' \in Nat
    BY <1>3 DEF CrashWorker, Fault, JobsTyped
  <2>2. WorkersTyped'
    BY <1>3, AgentRunAssumption
       DEF CrashWorker, WorkersTyped, Work, JobOf, IdleWork, LogStatus,
           AgentRunAssumption
  <2> QED BY <1>3, <2>1, <2>2 DEF CrashWorker
<1> QED BY <1>1, <1>2, <1>3

LEMMA HandlerTyped ==
  ASSUME TypeOK, NEW w \in Workers, Handler(w) \/ DbError(w)
  PROVE  TypeOK'
<1> USE DEF TypeOK, HistoryTyped
<1>1. worker[w].pc \in Busy => worker[w].job \in JobIds /\ IntentOf(w) \in Intents
  BY DEF Busy, WorkersTyped, JobsTyped, JobOf, IntentOf
<1>2. CASE CheckRateLimit(w)
  <2>1. WorkersTyped'
    BY <1>2, GotoTyped, FinishTyped DEF CheckRateLimit, Busy
  <2> QED BY <1>2, <2>1 DEF CheckRateLimit, JobsTyped, RowsTyped, ReviewsTyped
<1>3. CASE CheckCircuit(w)
  <2>1. WorkersTyped'
    BY <1>3, GotoTyped DEF CheckCircuit, Busy
  <2> QED BY <1>3, <2>1 DEF CheckCircuit, JobsTyped, RowsTyped, ReviewsTyped
<1>4. CASE WriteCircuitOpenLog(w)
  <2>1. WorkersTyped'
    BY <1>4, FinishTyped DEF WriteCircuitOpenLog, Busy
  <2>2. log' \in [Intents -> [status : LogStatus, at : Nat]]
    BY <1>1, <1>4, UpsertLogTyped
       DEF WriteCircuitOpenLog, Busy, LogStatus, FailureStatus
  <2> QED BY <1>4, <2>1, <2>2 DEF WriteCircuitOpenLog, JobsTyped, RowsTyped, ReviewsTyped
<1>5. CASE RequestApproval(w)
  <2>1. WorkersTyped'
    BY <1>5, FinishTyped DEF RequestApproval, Busy
  <2>2. log' \in [Intents -> [status : LogStatus, at : Nat]]
    BY <1>1, <1>5, UpsertLogTyped DEF RequestApproval, Busy, LogStatus
  <2>3. approval' \in [Intents -> ApprovalStatus]
    BY <1>5 DEF RequestApproval, UpsertPending, RowsTyped, ApprovalStatus
  <2> QED BY <1>5, <2>1, <2>2, <2>3 DEF RequestApproval, JobsTyped, RowsTyped, ReviewsTyped
<1>6. CASE Execute(w)
  <2>1. \A st \in Outcomes(JobOf(w).resume) : st \in LogStatus
    BY DEF Outcomes, LogStatus, FailureStatus, SuccessStatus
  <2>2. WorkersTyped'
    BY <1>6, <2>1 DEF Execute, WorkersTyped, Work, JobOf
  <2>3. executed' \subseteq Intents
    BY <1>1, <1>6 DEF Execute, Busy
  <2> QED BY <1>6, <2>2, <2>3 DEF Execute, JobsTyped, RowsTyped, ReviewsTyped
<1>7. CASE AskApproval(w)
  <2>1. WorkersTyped'
    BY <1>7, GotoTyped DEF AskApproval, Busy
  <2>2. approval' \in [Intents -> ApprovalStatus]
    BY <1>7 DEF AskApproval, UpsertPending, RowsTyped, ApprovalStatus
  <2> QED BY <1>7, <2>1, <2>2 DEF AskApproval, JobsTyped, RowsTyped, ReviewsTyped
<1>8. CASE Record(w)
  <2>1. WorkersTyped'
    BY <1>8, FinishTyped, RetryTyped DEF Record, Busy
  <2>2. worker[w].status \in LogStatus
    BY DEF WorkersTyped, Work
  <2>3. log' \in [Intents -> [status : LogStatus, at : Nat]]
    BY <1>1, <1>8, <2>2, UpsertLogTyped DEF Record, Busy
  <2>4. sending' \subseteq Intents \X {"SUCCESS", "FAILED"}
    BY <1>1, <1>8 DEF Record, Busy, ReceiptOf
  <2> QED BY <1>8, <2>1, <2>3, <2>4 DEF Record, JobsTyped, RowsTyped, ReviewsTyped
<1>9. CASE DbError(w)
  <2>1. WorkersTyped'
    <3>1. CASE Retry(w) /\ worker[w].pc \in Busy
      BY <1>9, <3>1, RetryTyped DEF DbError
    <3>2. CASE ~(Retry(w) /\ worker[w].pc \in Busy)
      BY <1>9, <3>2
         DEF DbError, WorkersTyped, Work, JobOf, Busy, LogStatus, FailureStatus
    <3> QED BY <3>1, <3>2
  <2> QED BY <1>9, <2>1 DEF DbError, Fault, JobsTyped, RowsTyped, ReviewsTyped
<1> QED BY <1>2, <1>3, <1>4, <1>5, <1>6, <1>7, <1>8, <1>9 DEF Handler

LEMMA ReviewerTyped ==
  ASSUME TypeOK, NEW r \in Reviewers, Reviewer(r)
  PROVE  TypeOK'
<1> USE DEF TypeOK, HistoryTyped
<1>1. CASE \E i \in Intents : ApproveRead(r, i)
  BY <1>1 DEF ApproveRead, JobsTyped, WorkersTyped, JobOf, RowsTyped, ReviewsTyped, Review
<1>2. CASE ApproveReadLog(r)
  <2>1. ReviewsTyped'
    BY <1>2 DEF ApproveReadLog, ReviewsTyped, Review, IdleRev
  <2> QED BY <1>2, <2>1 DEF ApproveReadLog, JobsTyped, WorkersTyped, JobOf, RowsTyped
<1>3. CASE ApproveStale(r)
  <2>1. ReviewsTyped' /\ RowsTyped'
    BY <1>3 DEF ApproveStale, ReviewsTyped, Review, IdleRev, RowsTyped, ApprovalStatus
  <2> QED BY <1>3, <2>1 DEF ApproveStale, JobsTyped, WorkersTyped, JobOf
<1>4. CASE ApproveWrite(r)
  <2>1. ReviewsTyped' /\ RowsTyped' /\ granted' \subseteq Intents
    BY <1>4 DEF ApproveWrite, ReviewsTyped, Review, RowsTyped, ApprovalStatus
  <2> QED BY <1>4, <2>1 DEF ApproveWrite, JobsTyped, WorkersTyped, JobOf
<1>5. CASE ApproveSend(r)
  <2>1. rev[r].intent \in Intents
    BY <1>5 DEF ApproveSend, ReviewsTyped
  <2>2. JobsTyped' /\ WorkersTyped'
    BY <1>5, <2>1, SendTyped DEF ApproveSend
  <2>3. ReviewsTyped'
    BY <1>5 DEF ApproveSend, ReviewsTyped, Review, IdleRev
  <2> QED BY <1>5, <2>2, <2>3 DEF ApproveSend, RowsTyped
<1>6. CASE CrashReviewer(r)
  <2>1. ReviewsTyped' /\ faults' \in Nat
    BY <1>6 DEF CrashReviewer, Fault, ReviewsTyped, Review, IdleRev
  <2> QED BY <1>6, <2>1 DEF CrashReviewer, JobsTyped, WorkersTyped, JobOf, RowsTyped
<1> QED BY <1>1, <1>2, <1>3, <1>4, <1>5, <1>6 DEF Reviewer

LEMMA CallerTyped ==
  ASSUME TypeOK, NEW i \in Intents, Submit(i) \/ Reject(i) \/ Cancel(i)
  PROVE  TypeOK'
<1> USE DEF TypeOK, ReviewsTyped, HistoryTyped
<1>1. CASE Submit(i)
  BY <1>1, SendTyped DEF Submit, RowsTyped
<1>2. CASE Reject(i) \/ Cancel(i)
  <2>1. approval' \in [Intents -> ApprovalStatus]
    BY <1>2 DEF Reject, Cancel, RowsTyped, ApprovalStatus
  <2> QED BY <1>2, <2>1 DEF Reject, Cancel, JobsTyped, WorkersTyped, JobOf, RowsTyped
<1> QED BY <1>1, <1>2

LEMMA ExpireApprovalsTyped ==
  ASSUME TypeOK, NEW due \in SUBSET Intents, ExpireApprovals(due)
  PROVE  TypeOK'
<1>1. RowsTyped'
  BY DEF ExpireApprovals, TypeOK, RowsTyped, ApprovalStatus
<1> QED BY <1>1 DEF ExpireApprovals, TypeOK, JobsTyped, WorkersTyped, JobOf,
                    ReviewsTyped, HistoryTyped

LEMMA WriteReceiptTyped ==
  ASSUME TypeOK, NEW i \in Intents, NEW st \in {"SUCCESS", "FAILED"}, WriteReceipt(i, st)
  PROVE  TypeOK'
<1>1. HistoryTyped'
  BY DEF WriteReceipt, TypeOK, HistoryTyped
<1> QED BY <1>1 DEF WriteReceipt, TypeOK, JobsTyped, WorkersTyped, JobOf, RowsTyped,
                    ReviewsTyped

LEMMA InitTyped == Init => TypeOK
BY AgentRunAssumption
   DEF Init, TypeOK, JobsTyped, WorkersTyped, RowsTyped, ReviewsTyped, HistoryTyped,
       NoJob, IdleWork, IdleRev, Job, Work, Review, LogStatus, ApprovalStatus,
       AgentRunAssumption

LEMMA StepTyped == TypeOK /\ [Next]_vars => TypeOK'
<1> SUFFICES ASSUME TypeOK, [Next]_vars PROVE TypeOK'
  OBVIOUS
<1>1. CASE \E i \in Intents : Submit(i) \/ Reject(i) \/ Cancel(i)
  BY <1>1, CallerTyped
<1>2. CASE \E w \in Workers : Handler(w) \/ DbError(w)
  BY <1>2, HandlerTyped
<1>3. CASE \E w \in Workers : Settle(w) \/ CrashWorker(w)
  <2>1. PICK w \in Workers : Settle(w) \/ CrashWorker(w)
    BY <1>3
  <2>2. worker[w].job \in JobIds
    BY <2>1 DEF Settle, CrashWorker, TypeOK, WorkersTyped
  <2> QED BY <2>1, <2>2, QueueTyped
<1>4. CASE \E w \in Workers, j \in JobIds : Fetch(w, j)
  BY <1>4, QueueTyped
<1>5. CASE \E j \in JobIds : Expire(j)
  BY <1>5, ExpireTyped
<1>6. CASE \E r \in Reviewers : Reviewer(r)
  BY <1>6, ReviewerTyped
<1>7. CASE \E due \in SUBSET Intents \ {{}} : ExpireApprovals(due)
  BY <1>7, ExpireApprovalsTyped
<1>8. CASE \E i \in Intents, st \in {"SUCCESS", "FAILED"} : WriteReceipt(i, st)
  BY <1>8, WriteReceiptTyped
<1>9. CASE UNCHANGED vars
  BY <1>9 DEF vars, TypeOK, JobsTyped, WorkersTyped, JobOf, RowsTyped, ReviewsTyped,
              HistoryTyped
<1> QED BY <1>1, <1>2, <1>3, <1>4, <1>5, <1>6, <1>7, <1>8, <1>9 DEF Next

\* Every reachable state of the run pipeline has well-formed rows, jobs and
\* handler states, for any number of intents, workers, reviewers and faults.
THEOREM TypeCorrect == Spec => []TypeOK
<1> QED BY InitTyped, StepTyped, PTL DEF Spec
-----------------------------------------------------------------------------
(* The approval gate *)

\* Why the gate holds: an approval is written before its job is sent, a resume
\* job exists only for a granted intent, a handler reaches the execution
\* section with a high-risk intent only from a resume job, and what it reports
\* it has executed.
ResumeGranted ==
  \A j \in JobIds : jobs[j].state # "none" /\ jobs[j].resume => jobs[j].intent \in granted
SendGranted ==
  \A r \in Reviewers : rev[r].pc = "send" => rev[r].intent \in granted
ExecuteGranted ==
  \A w \in Workers : worker[w].pc = "execute" /\ IntentOf(w) \in HighRisk
                       => IntentOf(w) \in granted
ReportExecuted ==
  \A w \in Workers : worker[w].pc \in {"ask", "record"} => IntentOf(w) \in executed
ReceiptExecuted ==
  /\ \A i \in Intents, st \in {"SUCCESS", "FAILED"} : <<i, st>> \in sending => i \in executed
  /\ Succeeded \subseteq executed

GateInv ==
  /\ TypeOK /\ ResumeGranted /\ SendGranted /\ ExecuteGranted /\ ReportExecuted
  /\ HighRiskApproved /\ ReceiptExecuted

\* Grants and executions are never taken back, and a job keeps its intent.
Kept ==
  /\ granted \subseteq granted' /\ executed \subseteq executed'
  /\ \A j \in JobIds : jobs[j].state # "none" =>
       jobs'[j].intent = jobs[j].intent /\ jobs'[j].resume = jobs[j].resume

\* Which steps touch the history variables.
LEMMA HistorySteps ==
  ASSUME [Next]_vars
  PROVE  /\ \/ granted' = granted
            \/ \E r \in Reviewers : ApproveWrite(r)
         /\ \/ executed' = executed
            \/ \E w \in Workers : Execute(w)
         /\ \/ sending' = sending /\ receipts' = receipts
            \/ \E w \in Workers : Record(w)
            \/ \E i \in Intents, st \in {"SUCCESS", "FAILED"} : WriteReceipt(i, st)
BY DEF Next, vars, Handler, Reviewer, Submit, Reject, Cancel, ExpireApprovals, DbError,
       Settle, CrashWorker, Fetch, Expire, ApproveRead, ApproveReadLog, ApproveStale,
       ApproveWrite, ApproveSend, CrashReviewer, CheckRateLimit, CheckCircuit,
       WriteCircuitOpenLog, RequestApproval, Execute, AskApproval, Record, WriteReceipt

\* Which steps touch the queue.
LEMMA JobSteps ==
  ASSUME [Next]_vars
  PROVE  \/ jobs' = jobs
         \/ \E i \in Intents : Send(i, FALSE)
         \/ \E r \in Reviewers : rev[r].pc = "send" /\ Send(rev[r].intent, TRUE)
         \/ \E w \in Workers, j \in JobIds : Fetch(w, j)
         \/ \E j \in JobIds : Expire(j)
         \/ \E w \in Workers : Settle(w)
BY DEF Next, vars, Handler, Reviewer, Submit, Reject, Cancel, ExpireApprovals, DbError,
       CrashWorker, ApproveRead, ApproveReadLog, ApproveStale,
       ApproveWrite, ApproveSend, CrashReviewer, CheckRateLimit, CheckCircuit,
       WriteCircuitOpenLog, RequestApproval, Execute, AskApproval, Record, WriteReceipt

\* Which steps touch the reviewers.
LEMMA ReviewSteps ==
  ASSUME [Next]_vars
  PROVE  \/ rev' = rev
         \/ \E r \in Reviewers : Reviewer(r)
BY DEF Next, vars, Handler, Submit, Reject, Cancel, ExpireApprovals, DbError,
       Settle, CrashWorker, Fetch, Expire, CheckRateLimit, CheckCircuit,
       WriteCircuitOpenLog, RequestApproval, Execute, AskApproval, Record, WriteReceipt

\* Which steps touch the workers.
LEMMA WorkerSteps ==
  ASSUME [Next]_vars
  PROVE  \/ worker' = worker
         \/ \E w \in Workers : \/ Handler(w) \/ DbError(w) \/ Settle(w) \/ CrashWorker(w)
                               \/ \E j \in JobIds : Fetch(w, j)
         \/ \E j \in JobIds : Expire(j)
BY DEF Next, vars, Reviewer, Submit, Reject, Cancel, ExpireApprovals,
       ApproveRead, ApproveReadLog, ApproveStale,
       ApproveWrite, ApproveSend, CrashReviewer, WriteReceipt

LEMMA StepKept ==
  ASSUME TypeOK, [Next]_vars
  PROVE  Kept
<1>1. granted \subseteq granted' /\ executed \subseteq executed'
  BY HistorySteps DEF ApproveWrite, Execute
<1>2. \A j \in JobIds : jobs[j].state # "none" =>
        jobs'[j].intent = jobs[j].intent /\ jobs'[j].resume = jobs[j].resume
  <2>1. jobs \in [JobIds -> Job]
    BY DEF TypeOK, JobsTyped
  <2>2. ASSUME NEW i, NEW resume, Send(i, resume)
        PROVE  \A j \in JobIds : jobs[j].state # "none" => jobs'[j] = jobs[j]
    BY <2>1, <2>2 DEF Send
  <2>3. CASE \E w \in Workers, j \in JobIds : Fetch(w, j)
    BY <2>1, <2>3 DEF Fetch, Job
  <2>4. CASE \E j \in JobIds : Expire(j)
    BY <2>1, <2>4 DEF Expire, Redeliver, Job
  <2>5. CASE \E w \in Workers : Settle(w)
    BY <2>1, <2>5 DEF Settle, Redeliver, Job
  <2> QED BY <2>2, <2>3, <2>4, <2>5, JobSteps
<1> QED BY <1>1, <1>2 DEF Kept

\* A resume job is sent only after the grant was written.
LEMMA ResumeGrantedStep ==
  ASSUME GateInv, [Next]_vars
  PROVE  ResumeGranted'
<1> USE DEF GateInv
<1>1. jobs \in [JobIds -> Job] /\ Kept
  BY StepKept DEF TypeOK, JobsTyped
<1>2. ASSUME NEW j \in JobIds, jobs'[j].state # "none", jobs'[j].resume,
             jobs[j].state # "none"
      PROVE  jobs'[j].intent \in granted'
  BY <1>1, <1>2 DEF ResumeGranted, Kept
<1>3. ASSUME NEW j \in JobIds, jobs'[j].state # "none", jobs'[j].resume,
             jobs[j].state = "none"
      PROVE  jobs'[j].intent \in granted'
  <2>1. CASE \E i \in Intents : Send(i, FALSE)
    BY <1>1, <1>3, <2>1 DEF Send
  <2>2. CASE \E r \in Reviewers : rev[r].pc = "send" /\ Send(rev[r].intent, TRUE)
    BY <1>1, <1>3, <2>2 DEF Send, SendGranted, Kept
  <2>3. CASE \E w \in Workers, k \in JobIds : Fetch(w, k)
    BY <1>1, <1>3, <2>3 DEF Fetch, Job
  <2>4. CASE \E k \in JobIds : Expire(k)
    BY <1>1, <1>3, <2>4 DEF Expire, Redeliver, Job
  <2>5. CASE \E w \in Workers : Settle(w)
    <3>1. PICK w \in Workers : Settle(w)
      BY <2>5
    <3>2. worker[w].job \in JobIds /\ jobs[worker[w].job].state # "none"
      BY <3>1 DEF Settle, TypeOK, WorkersTyped, JobOf
    <3> QED BY <1>1, <1>3, <3>1, <3>2 DEF Settle, Redeliver, Job
  <2> QED BY <1>3, <2>1, <2>2, <2>3, <2>4, <2>5, JobSteps
<1> QED BY <1>2, <1>3 DEF ResumeGranted

\* A reviewer comes to the send only through the write of the grant.
LEMMA SendGrantedStep ==
  ASSUME GateInv, [Next]_vars
  PROVE  SendGranted'
<1> USE DEF GateInv
<1>1. rev \in [Reviewers -> Review] /\ Kept
  BY StepKept DEF TypeOK, ReviewsTyped
<1>2. CASE rev' = rev
  BY <1>1, <1>2 DEF SendGranted, Kept
<1>3. ASSUME NEW r \in Reviewers, Reviewer(r)
      PROVE  SendGranted'
  <2>1. CASE \E i \in Intents : ApproveRead(r, i)
    BY <1>1, <2>1 DEF ApproveRead, SendGranted, Kept
  <2>2. CASE ApproveReadLog(r)
    BY <1>1, <2>2 DEF ApproveReadLog, SendGranted, Kept, Review, IdleRev
  <2>3. CASE ApproveStale(r) \/ ApproveSend(r) \/ CrashReviewer(r)
    <3>1. rev' = [rev EXCEPT ![r] = IdleRev]
      BY <2>3 DEF ApproveStale, ApproveSend, CrashReviewer
    <3> QED BY <1>1, <3>1 DEF SendGranted, Kept, IdleRev
  <2>4. CASE ApproveWrite(r)
    BY <1>1, <2>4 DEF ApproveWrite, SendGranted, Review
  <2> QED BY <1>3, <2>1, <2>2, <2>3, <2>4 DEF Reviewer
<1> QED BY <1>2, <1>3, ReviewSteps

\* A step of one worker leaves the others alone.
LEMMA WorkerLocal ==
  ASSUME TypeOK, NEW w \in Workers, NEW v \in Workers, v # w,
         \/ Handler(w) \/ DbError(w) \/ Settle(w) \/ CrashWorker(w)
         \/ \E j \in JobIds : Fetch(w, j)
  PROVE  worker'[v] = worker[v]
BY DEF TypeOK, WorkersTyped, Handler, DbError, Settle, CrashWorker, Fetch, CheckRateLimit,
       CheckCircuit, WriteCircuitOpenLog, RequestApproval, Execute, AskApproval, Record,
       Goto, Finish, Retry

\* How a handler comes to the sections of the handler that matter to the gate.
Reach(v) ==
  /\ worker'[v].pc = "execute" =>
       /\ worker[v].pc # "idle" /\ worker'[v].job = worker[v].job
       /\ worker[v].pc = "execute" \/ JobOf(v).resume \/ ~NeedsApproval(IntentOf(v))
  /\ worker'[v].pc \in {"ask", "record"} =>
       /\ worker[v].pc # "idle" /\ worker'[v].job = worker[v].job
       /\ worker[v].pc \in {"ask", "record"} \/ Execute(v)

LEMMA StepReach ==
  ASSUME TypeOK, [Next]_vars, NEW v \in Workers
  PROVE  Reach(v)
<1>1. worker \in [Workers -> Work]
  BY DEF TypeOK, WorkersTyped
<1>2. CASE worker'[v] = worker[v]
  BY <1>1, <1>2 DEF Reach
<1>3. CASE Handler(v)
  <2>1. CASE CheckRateLimit(v)
    BY <1>1, <2>1 DEF CheckRateLimit, Goto, Finish, Reach, Work
  <2>2. CASE CheckCircuit(v)
    BY <1>1, <2>2 DEF CheckCircuit, Goto, Reach, Work
  <2>3. CASE WriteCircuitOpenLog(v) \/ RequestApproval(v)
    <3>1. Finish(v, "done")
      BY <2>3 DEF WriteCircuitOpenLog, RequestApproval
    <3> QED BY <1>1, <3>1 DEF Finish, Reach
  <2>4. CASE Execute(v)
    BY <1>1, <2>4 DEF Execute, Reach, Work
  <2>5. CASE AskApproval(v)
    BY <1>1, <2>5 DEF AskApproval, Goto, Reach, Work
  <2>6. CASE Record(v)
    BY <1>1, <2>6 DEF Record, Finish, Retry, Reach, Work
  <2> QED BY <1>3, <2>1, <2>2, <2>3, <2>4, <2>5, <2>6 DEF Handler
<1>4. CASE DbError(v)
  <2>1. CASE Retry(v)
    BY <1>1, <2>1 DEF Retry, Finish, Reach, Work
  <2>2. CASE worker[v].pc = "ask" /\ worker' = [worker EXCEPT ![v].status = "FAILED",
                                                              ![v].pc = "record"]
    BY <1>1, <2>2 DEF Reach, Work
  <2> QED BY <1>4, <2>1, <2>2 DEF DbError
<1>5. CASE Settle(v) \/ CrashWorker(v)
  BY <1>1, <1>5 DEF Settle, CrashWorker, IdleWork, Reach
<1>6. CASE \E j \in JobIds : Fetch(v, j)
  BY <1>1, <1>6 DEF Fetch, Reach
<1>7. CASE \E j \in JobIds : Expire(j)
  <2>1. worker'[v].pc = worker[v].pc /\ worker'[v].job = worker[v].job
    BY <1>1, <1>7, DisownTyped DEF Expire
  <2> QED BY <2>1 DEF Reach
<1> QED BY <1>1, <1>2, <1>3, <1>4, <1>5, <1>6, <1>7, WorkerSteps, WorkerLocal

\* The job of a running handler keeps its intent when the handler keeps the job.
LEMMA IntentKept ==
  ASSUME TypeOK, Kept, NEW v \in Workers, worker[v].pc # "idle",
         worker'[v].job = worker[v].job
  PROVE  IntentOf(v)' = IntentOf(v)
BY DEF TypeOK, WorkersTyped, Kept, IntentOf, JobOf

LEMMA SectionsStep ==
  ASSUME GateInv, [Next]_vars
  PROVE  ExecuteGranted' /\ ReportExecuted'
<1> USE DEF GateInv
<1>1. Kept
  BY StepKept
<1>2. ASSUME NEW v \in Workers, worker'[v].pc = "execute", IntentOf(v)' \in HighRisk
      PROVE  IntentOf(v)' \in granted'
  <2>1. /\ worker[v].pc # "idle" /\ worker'[v].job = worker[v].job
        /\ worker[v].pc = "execute" \/ JobOf(v).resume \/ ~NeedsApproval(IntentOf(v))
    BY <1>2, StepReach DEF Reach
  <2>2. IntentOf(v)' = IntentOf(v)
    BY <1>1, <2>1, IntentKept
  <2>3. worker[v].job \in JobIds /\ JobOf(v).state # "none"
    BY <2>1 DEF TypeOK, WorkersTyped
  <2>4. IntentOf(v) \in granted
    BY <1>2, <2>1, <2>2, <2>3
       DEF NeedsApproval, ResumeGranted, ExecuteGranted, IntentOf, JobOf
  <2> QED BY <1>1, <2>2, <2>4 DEF Kept
<1>3. ASSUME NEW v \in Workers, worker'[v].pc \in {"ask", "record"}
      PROVE  IntentOf(v)' \in executed'
  <2>1. /\ worker[v].pc # "idle" /\ worker'[v].job = worker[v].job
        /\ worker[v].pc \in {"ask", "record"} \/ Execute(v)
    BY <1>3, StepReach DEF Reach
  <2>2. IntentOf(v)' = IntentOf(v)
    BY <1>1, <2>1, IntentKept
  <2> QED BY <1>1, <2>1, <2>2 DEF ReportExecuted, Kept, Execute
<1> QED BY <1>2, <1>3 DEF ExecuteGranted, ReportExecuted

LEMMA ReceiptExecutedStep ==
  ASSUME GateInv, Kept, [Next]_vars
  PROVE  ReceiptExecuted'
<1> USE DEF GateInv, ReceiptExecuted, Succeeded, Kept
<1>1. CASE sending' = sending /\ receipts' = receipts
  BY <1>1
<1>2. CASE \E w \in Workers : Record(w)
  BY <1>2 DEF Record, ReportExecuted, ReceiptOf
<1>3. CASE \E i \in Intents, st \in {"SUCCESS", "FAILED"} : WriteReceipt(i, st)
  BY <1>3 DEF WriteReceipt, TypeOK, HistoryTyped
<1> QED BY <1>1, <1>2, <1>3, HistorySteps

LEMMA GateStep == GateInv /\ [Next]_vars => GateInv'
<1> SUFFICES ASSUME GateInv, [Next]_vars PROVE GateInv'
  OBVIOUS
<1>1. TypeOK' /\ Kept
  BY StepTyped, StepKept DEF GateInv
<1>2. ResumeGranted' /\ SendGranted' /\ ExecuteGranted' /\ ReportExecuted'
  BY ResumeGrantedStep, SendGrantedStep, SectionsStep
<1>3. HighRiskApproved'
  BY <1>1, HistorySteps DEF GateInv, Kept, HighRiskApproved, ExecuteGranted, Execute
<1>4. ReceiptExecuted'
  BY <1>1, ReceiptExecutedStep DEF GateInv
<1> QED BY <1>1, <1>2, <1>3, <1>4 DEF GateInv

LEMMA GateInit == Init => GateInv
<1> SUFFICES ASSUME Init PROVE GateInv
  OBVIOUS
<1>1. TypeOK
  BY InitTyped
<1>2. ResumeGranted /\ SendGranted /\ ExecuteGranted /\ ReportExecuted
  BY DEF Init, NoJob, IdleWork, IdleRev, ResumeGranted, SendGranted, ExecuteGranted,
         ReportExecuted
<1>3. HighRiskApproved /\ ReceiptExecuted
  BY DEF Init, HighRiskApproved, ReceiptExecuted, Succeeded
<1> QED BY <1>1, <1>2, <1>3 DEF GateInv

LEMMA GateInvariant == Spec => []GateInv
<1> QED BY GateInit, GateStep, PTL DEF Spec

\* Whatever the retries, redeliveries, crashes and races of reviewers: a
\* high-risk intent reaches the platform only after an approval was written
\* for it.
THEOREM GateHolds == Spec => []HighRiskApproved
<1>1. GateInv => HighRiskApproved
  BY DEF GateInv
<1> QED BY <1>1, GateInvariant, PTL

\* The run pipeline implements ApprovalGate: each of its steps grants, performs
\* or reports one intent as ApprovalGate allows, or changes nothing of it.
THEOREM ImplementsGate == Spec => GateSpec
<1>1. Init => Gate!Init
  BY DEF Init, Gate!Init, Succeeded
<1>2. GateInv /\ GateInv' /\ [Next]_vars => [Gate!Next]_(Gate!vars)
  <2> SUFFICES ASSUME GateInv, GateInv', [Next]_vars PROVE [Gate!Next]_(Gate!vars)
    OBVIOUS
  <2> USE DEF Gate!Next, Gate!vars
  <2>1. CASE \E r \in Reviewers : ApproveWrite(r)
    <3>1. PICK r \in Reviewers : ApproveWrite(r)
      BY <2>1
    <3>2. rev[r].intent \in Intents
      BY <3>1 DEF ApproveWrite, GateInv, TypeOK, ReviewsTyped
    <3>3. Gate!Grant(rev[r].intent)
      BY <3>1 DEF ApproveWrite, Gate!Grant, Succeeded
    <3> QED BY <3>2, <3>3
  <2>2. CASE \E w \in Workers : Execute(w)
    <3>1. PICK w \in Workers : Execute(w)
      BY <2>2
    <3>2. IntentOf(w) \in Intents
      BY <3>1 DEF Execute, GateInv, TypeOK, WorkersTyped, JobsTyped, IntentOf, JobOf
    <3>3. Gate!Perform(IntentOf(w))
      BY <3>1 DEF Execute, GateInv, ExecuteGranted, Gate!Perform, Succeeded
    <3> QED BY <3>2, <3>3
  <2>3. CASE \E w \in Workers : Record(w)
    BY <2>3 DEF Record, Succeeded
  <2>4. CASE \E i \in Intents, st \in {"SUCCESS", "FAILED"} : WriteReceipt(i, st)
    <3>1. PICK i \in Intents, st \in {"SUCCESS", "FAILED"} : WriteReceipt(i, st)
      BY <2>4
    <3>2. CASE Succeeded' = Succeeded
      BY <3>1, <3>2 DEF WriteReceipt
    <3>3. CASE Succeeded' # Succeeded
      <4>1. Succeeded' = Succeeded \cup {i}
        BY <3>1, <3>3 DEF WriteReceipt, Succeeded, GateInv, TypeOK, HistoryTyped
      <4>2. i \in executed
        BY <3>1 DEF WriteReceipt, GateInv, ReceiptExecuted
      <4>3. Gate!Report(i)
        BY <3>1, <4>1, <4>2 DEF WriteReceipt, Gate!Report
      <4> QED BY <4>3
    <3> QED BY <3>2, <3>3
  <2>5. CASE granted' = granted /\ executed' = executed /\ sending' = sending /\ receipts' = receipts
    BY <2>5 DEF Succeeded
  <2> QED BY <2>1, <2>2, <2>3, <2>4, <2>5, HistorySteps
<1> QED BY <1>1, <1>2, GateInvariant, PTL DEF Spec, GateSpec, Gate!Spec
-----------------------------------------------------------------------------
(* The requests and the log rows *)

\* Which steps write the log rows, and which the requests.
LEMMA RowSteps ==
  ASSUME [Next]_vars
  PROVE  \/ log' = log
         \/ \E w \in Workers : WriteCircuitOpenLog(w) \/ RequestApproval(w) \/ Record(w)
BY DEF Next, vars, Handler, Reviewer, Submit, Reject, Cancel, ExpireApprovals, DbError,
       Settle, CrashWorker, Fetch, Expire, ApproveRead, ApproveReadLog, ApproveStale,
       ApproveWrite, ApproveSend, CrashReviewer, CheckRateLimit, CheckCircuit,
       Execute, AskApproval, WriteReceipt

LEMMA ApprovalSteps ==
  ASSUME [Next]_vars
  PROVE  \/ approval' = approval
         \/ \E w \in Workers : RequestApproval(w) \/ AskApproval(w)
         \/ \E r \in Reviewers : ApproveStale(r) \/ ApproveWrite(r)
         \/ \E i \in Intents : Reject(i) \/ Cancel(i)
         \/ \E due \in SUBSET Intents : ExpireApprovals(due)
BY DEF Next, vars, Handler, Reviewer, Submit, DbError,
       Settle, CrashWorker, Fetch, Expire, ApproveRead, ApproveReadLog,
       ApproveSend, CrashReviewer, CheckRateLimit, CheckCircuit,
       WriteCircuitOpenLog, Execute, Record, WriteReceipt

\* How a handler comes to each of its sections, and with which result.
Moves(v) ==
  /\ worker'[v].pc \in Busy =>
       \/ worker[v].pc \in Busy /\ worker'[v].job = worker[v].job
       \/ \E j \in JobIds : Fetch(v, j)
  /\ worker'[v].pc \in Busy \ {"limit"} =>
       /\ worker[v].pc \in Busy /\ worker'[v].job = worker[v].job
       /\ worker[v].pc = "limit" => WithinLimit(Cardinality(Rows))
  /\ worker'[v].pc \in {"circuit", "trip", "gate"} =>
       worker[v].pc \in {"circuit", worker'[v].pc} \/ ~JobOf(v).resume
  /\ worker'[v].pc = "execute" =>
       \/ worker[v].pc = "execute" \/ JobOf(v).resume
       \/ worker[v].pc = "circuit" /\ ~NeedsApproval(IntentOf(v))
  /\ worker'[v].pc = "ask" =>
       \/ worker[v].pc = "ask" /\ worker'[v].status = worker[v].status
       \/ /\ worker[v].pc = "execute" /\ Python /\ ~JobOf(v).resume
          /\ worker'[v].status = "AWAITING_APPROVAL"
  /\ worker'[v].pc = "record" =>
       \/ worker[v].pc = "record" /\ worker'[v].status = worker[v].status
       \/ worker'[v].status \notin {"none", "AWAITING_APPROVAL"}
       \/ AskApproval(v) /\ worker'[v].status = worker[v].status

LEMMA StepMoves ==
  ASSUME TypeOK, [Next]_vars, NEW v \in Workers
  PROVE  Moves(v)
<1>1. worker \in [Workers -> Work]
  BY DEF TypeOK, WorkersTyped
<1>2. CASE worker'[v] = worker[v]
  BY <1>1, <1>2 DEF Moves, Busy
<1>3. CASE Handler(v)
  <2>1. CASE CheckRateLimit(v)
    BY <1>1, <2>1 DEF CheckRateLimit, Goto, Finish, Moves, Work, Busy
  <2>2. CASE CheckCircuit(v)
    BY <1>1, <2>2 DEF CheckCircuit, Goto, Moves, Work, Busy
  <2>3. CASE WriteCircuitOpenLog(v) \/ RequestApproval(v)
    <3>1. Finish(v, "done")
      BY <2>3 DEF WriteCircuitOpenLog, RequestApproval
    <3> QED BY <1>1, <3>1 DEF Finish, Moves, Busy
  <2>4. CASE Execute(v)
    <3>1. PICK st \in Outcomes(JobOf(v).resume) :
            worker' = [worker EXCEPT ![v].status = st,
                                     ![v].pc = IF st = "AWAITING_APPROVAL"
                                               THEN "ask" ELSE "record"]
      BY <2>4 DEF Execute
    <3>2. worker'[v] = [worker[v] EXCEPT !.status = st,
                                         !.pc = IF st = "AWAITING_APPROVAL"
                                                THEN "ask" ELSE "record"]
      BY <1>1, <3>1
    <3>3. worker[v] \in Work /\ worker[v].pc = "execute"
      BY <1>1, <2>4 DEF Execute
    <3>4. /\ worker'[v].job = worker[v].job /\ worker'[v].status = st
          /\ worker'[v].pc = IF st = "AWAITING_APPROVAL" THEN "ask" ELSE "record"
      BY <3>2, <3>3 DEF Work
    <3>5. st # "none" /\ (st = "AWAITING_APPROVAL" => Python /\ ~JobOf(v).resume)
      BY <3>1 DEF Outcomes
    <3> QED BY <3>3, <3>4, <3>5 DEF Moves, Busy
  <2>5. CASE AskApproval(v)
    BY <1>1, <2>5 DEF AskApproval, Goto, Moves, Work, Busy
  <2>6. CASE Record(v)
    BY <1>1, <2>6 DEF Record, Finish, Retry, Moves, Work, Busy
  <2> QED BY <1>3, <2>1, <2>2, <2>3, <2>4, <2>5, <2>6 DEF Handler
<1>4. CASE DbError(v)
  <2>1. CASE Retry(v)
    BY <1>1, <2>1 DEF Retry, Finish, Moves, Work, Busy
  <2>2. CASE worker[v].pc = "ask" /\ worker' = [worker EXCEPT ![v].status = "FAILED",
                                                              ![v].pc = "record"]
    BY <1>1, <2>2 DEF Moves, Work, Busy
  <2> QED BY <1>4, <2>1, <2>2 DEF DbError
<1>5. CASE Settle(v) \/ CrashWorker(v)
  BY <1>1, <1>5 DEF Settle, CrashWorker, IdleWork, Moves, Busy
<1>6. CASE \E j \in JobIds : Fetch(v, j)
  <2>1. worker'[v].pc = "limit"
    BY <1>1, <1>6 DEF Fetch
  <2> QED BY <1>6, <2>1 DEF Moves
<1>7. CASE \E j \in JobIds : Expire(j)
  <2>1. /\ worker'[v].pc = worker[v].pc /\ worker'[v].job = worker[v].job
        /\ worker'[v].status = worker[v].status
    BY <1>1, <1>7 DEF Expire, Work
  <2> QED BY <2>1 DEF Moves, Busy
<1> QED BY <1>1, <1>2, <1>3, <1>4, <1>5, <1>6, <1>7, WorkerSteps, WorkerLocal

\* Why the two tables agree: only the first delivery of a run asks at the gate,
\* only the agent service asks after the execution, and it asks before the
\* row says that the run waits; a request is never deleted.
Sections ==
  \A w \in Workers :
    /\ worker[w].pc \in {"circuit", "trip", "gate"} => ~JobOf(w).resume
    /\ worker[w].pc = "execute" /\ IntentOf(w) \in HighRisk => JobOf(w).resume
    /\ worker[w].pc = "ask" => /\ worker[w].status = "AWAITING_APPROVAL" /\ Python
                               /\ ~JobOf(w).resume /\ IntentOf(w) \notin HighRisk
    /\ worker[w].pc = "record" => worker[w].status # "none"
WaitingAsked ==
  \A w \in Workers : worker[w].pc = "record" /\ worker[w].status = "AWAITING_APPROVAL"
                       => Exists(IntentOf(w))
ReviewsExist == \A r \in Reviewers : rev[r].pc # "idle" => Exists(rev[r].intent)

RequestInv ==
  /\ TypeOK /\ Sections /\ WaitingAsked /\ ReviewsExist
  /\ PendingIsResumable /\ AwaitingHasRequest

\* Rows and requests are never deleted.
Stays == /\ Rows \subseteq Rows'
         /\ \A i \in Intents : Exists(i) => Exists(i)'

LEMMA StepStays ==
  ASSUME RequestInv, [Next]_vars
  PROVE  Stays
<1> USE DEF RequestInv
<1>1. /\ log \in [Intents -> [status : LogStatus, at : Nat]]
      /\ approval \in [Intents -> ApprovalStatus]
  BY DEF TypeOK, RowsTyped
<1>2. Rows \subseteq Rows'
  <2>1. CASE log' = log
    BY <2>1 DEF Rows
  <2>2. CASE \E w \in Workers : WriteCircuitOpenLog(w) \/ RequestApproval(w) \/ Record(w)
    BY <1>1, <2>2 DEF WriteCircuitOpenLog, RequestApproval, Record, UpsertLog, Rows, Sections
  <2> QED BY <2>1, <2>2, RowSteps
<1>3. ASSUME NEW i \in Intents, Exists(i)
      PROVE  Exists(i)'
  <2>1. CASE \E w \in Workers : RequestApproval(w) \/ AskApproval(w)
    BY <1>1, <1>3, <2>1 DEF RequestApproval, AskApproval, UpsertPending, Exists
  <2>2. CASE \E r \in Reviewers : ApproveStale(r) \/ ApproveWrite(r)
    BY <1>1, <1>3, <2>2 DEF ApproveStale, ApproveWrite, Exists
  <2>3. CASE \E k \in Intents : Reject(k) \/ Cancel(k)
    BY <1>1, <1>3, <2>3 DEF Reject, Cancel, Exists
  <2>4. CASE \E due \in SUBSET Intents : ExpireApprovals(due)
    BY <1>1, <1>3, <2>4 DEF ExpireApprovals, Exists
  <2>5. CASE approval' = approval
    BY <1>3, <2>5 DEF Exists
  <2> QED BY <2>1, <2>2, <2>3, <2>4, <2>5, ApprovalSteps
<1> QED BY <1>2, <1>3 DEF Stays

LEMMA SectionsKept ==
  ASSUME RequestInv, [Next]_vars
  PROVE  Sections'
<1> USE DEF RequestInv
<1>1. TypeOK' /\ Kept /\ \A v \in Workers : Moves(v)
  BY StepTyped, StepKept, StepMoves
<1> SUFFICES ASSUME NEW v \in Workers, worker'[v].pc \in Busy \ {"limit"}
             PROVE  /\ worker'[v].pc \in {"circuit", "trip", "gate"} => ~JobOf(v)'.resume
                    /\ worker'[v].pc = "execute" /\ IntentOf(v)' \in HighRisk => JobOf(v)'.resume
                    /\ worker'[v].pc = "ask" => /\ worker'[v].status = "AWAITING_APPROVAL" /\ Python
                                                /\ ~JobOf(v)'.resume /\ IntentOf(v)' \notin HighRisk
                    /\ worker'[v].pc = "record" => worker'[v].status # "none"
  BY DEF Sections, Busy
<1>2. worker[v].pc # "idle" /\ worker'[v].job = worker[v].job
  BY <1>1 DEF Moves, Busy
<1>3. worker[v].job \in JobIds /\ JobOf(v).state # "none"
  BY <1>2 DEF TypeOK, WorkersTyped
<1>4. IntentOf(v)' = IntentOf(v) /\ JobOf(v)'.resume = JobOf(v).resume
  BY <1>1, <1>2, <1>3 DEF Kept, IntentOf, JobOf
<1>5. JobOf(v).resume \in BOOLEAN
  BY <1>3 DEF TypeOK, JobsTyped, Job, JobOf
<1>6. worker'[v].pc \in {"circuit", "trip", "gate"} => ~JobOf(v).resume
  BY <1>1 DEF Moves, Sections
<1>7. worker'[v].pc = "execute" /\ IntentOf(v) \in HighRisk => JobOf(v).resume
  BY <1>1 DEF Moves, Sections, NeedsApproval
<1>8. worker'[v].pc = "ask" => /\ worker'[v].status = "AWAITING_APPROVAL" /\ Python
                               /\ ~JobOf(v).resume /\ IntentOf(v) \notin HighRisk
  BY <1>1 DEF Moves, Sections
<1>9. worker'[v].pc = "record" => worker'[v].status # "none"
  BY <1>1 DEF Moves, Sections, AskApproval
<1> QED BY <1>4, <1>6, <1>7, <1>8, <1>9

LEMMA RequestStep == RequestInv /\ [Next]_vars => RequestInv'
<1> SUFFICES ASSUME RequestInv, [Next]_vars PROVE RequestInv'
  OBVIOUS
<1> USE DEF RequestInv
<1>1. TypeOK' /\ Sections' /\ Stays /\ Kept /\ \A v \in Workers : Moves(v)
  BY StepTyped, SectionsKept, StepStays, StepKept, StepMoves
<1>2. /\ log \in [Intents -> [status : LogStatus, at : Nat]]
      /\ approval \in [Intents -> ApprovalStatus]
      /\ rev \in [Reviewers -> Review]
  BY DEF TypeOK, RowsTyped, ReviewsTyped
<1>3. ASSUME NEW v \in Workers, worker'[v].pc = "record",
             worker'[v].status = "AWAITING_APPROVAL"
      PROVE  Exists(IntentOf(v))'
  <2>1. /\ worker[v].pc # "idle" /\ worker'[v].job = worker[v].job
        /\ \/ worker[v].pc = "record" /\ worker[v].status = "AWAITING_APPROVAL"
           \/ AskApproval(v)
    BY <1>1, <1>3 DEF Moves, Busy
  <2>2. IntentOf(v)' = IntentOf(v) /\ IntentOf(v) \in Intents
    BY <1>1, <2>1, IntentKept DEF TypeOK, WorkersTyped, JobsTyped, IntentOf, JobOf
  <2>3. CASE worker[v].pc = "record" /\ worker[v].status = "AWAITING_APPROVAL"
    BY <1>1, <2>2, <2>3 DEF WaitingAsked, Stays, Exists
  <2>4. CASE AskApproval(v)
    BY <1>2, <2>2, <2>4 DEF AskApproval, UpsertPending, Exists
  <2> QED BY <2>1, <2>3, <2>4
<1>4. ASSUME NEW r \in Reviewers, rev'[r].pc # "idle"
      PROVE  Exists(rev[r].intent)'
  <2>1. \/ rev'[r] = rev[r]
        \/ rev'[r].intent = rev[r].intent /\ rev[r].pc # "idle"
        \/ \E i \in Intents : ApproveRead(r, i)
    <3>1. CASE rev' = rev
      BY <3>1
    <3>2. ASSUME NEW q \in Reviewers, NEW i \in Intents, ApproveRead(q, i)
          PROVE  rev'[r] = rev[r] \/ ApproveRead(r, i)
      BY <1>2, <3>2 DEF ApproveRead
    <3>3. ASSUME NEW q \in Reviewers,
                 rev' \in {[rev EXCEPT ![q].pc = pc] : pc \in {"expire", "approve", "send"}}
                   \cup {[rev EXCEPT ![q] = IdleRev]},
                 rev[q].pc # "idle"
          PROVE  rev'[r] = rev[r] \/ (rev'[r].intent = rev[r].intent /\ rev[r].pc # "idle")
      BY <1>2, <1>4, <3>3 DEF IdleRev, Review
    <3>4. ASSUME NEW q \in Reviewers, Reviewer(q), \A i \in Intents : ~ApproveRead(q, i)
          PROVE  /\ rev' \in {[rev EXCEPT ![q].pc = pc] : pc \in {"expire", "approve", "send"}}
                             \cup {[rev EXCEPT ![q] = IdleRev]}
                 /\ rev[q].pc # "idle"
      BY <3>4 DEF Reviewer, ApproveReadLog, ApproveStale, ApproveWrite, ApproveSend,
                  CrashReviewer
    <3> QED BY <3>1, <3>2, <3>3, <3>4, ReviewSteps
  <2>2. CASE rev[r].pc # "idle" /\ rev'[r].intent = rev[r].intent
    BY <1>1, <2>2 DEF ReviewsExist, TypeOK, ReviewsTyped, Stays, Exists
  <2>3. CASE \E i \in Intents : ApproveRead(r, i)
    BY <1>2, <2>3 DEF ApproveRead, Exists
  <2> QED BY <1>4, <2>1, <2>2, <2>3
<1>5. ASSUME ~Python, NEW i \in Intents, approval'[i] = "PENDING"
      PROVE  i \in Rows'
  <2>1. CASE approval[i] = "PENDING"
    BY <1>1, <1>5, <2>1 DEF PendingIsResumable, Stays
  <2>2. CASE approval[i] # "PENDING"
    <3>1. PICK w \in Workers : RequestApproval(w) \/ AskApproval(w)
      BY <1>2, <1>5, <2>2, ApprovalSteps
         DEF ApproveStale, ApproveWrite, Reject, Cancel, ExpireApprovals
    <3>2. RequestApproval(w)
      BY <1>5, <3>1 DEF AskApproval, Sections
    <3>3. i = IntentOf(w)
      BY <1>2, <1>5, <2>2, <3>2 DEF RequestApproval, UpsertPending
    <3> QED BY <1>2, <3>2, <3>3 DEF RequestApproval, UpsertLog, Rows
  <2> QED BY <2>1, <2>2
<1>6. ASSUME NEW i \in Intents, log'[i].status = "AWAITING_APPROVAL"
      PROVE  Exists(i)'
  <2>1. CASE log[i].status = "AWAITING_APPROVAL"
    BY <1>1, <2>1 DEF AwaitingHasRequest, Stays
  <2>2. CASE log[i].status # "AWAITING_APPROVAL"
    <3>1. PICK w \in Workers : WriteCircuitOpenLog(w) \/ RequestApproval(w) \/ Record(w)
      BY <1>6, <2>2, RowSteps
    <3>2. CASE WriteCircuitOpenLog(w)
      BY <1>2, <1>6, <2>2, <3>2 DEF WriteCircuitOpenLog, UpsertLog
    <3>3. CASE RequestApproval(w)
      BY <1>2, <1>6, <2>2, <3>3 DEF RequestApproval, UpsertLog, UpsertPending, Exists
    <3>4. CASE Record(w)
      <4>1. i = IntentOf(w) /\ worker[w].pc = "record" /\ worker[w].status = "AWAITING_APPROVAL"
        BY <1>2, <1>6, <2>2, <3>4 DEF Record, UpsertLog
      <4> QED BY <1>1, <4>1 DEF WaitingAsked, Stays
    <3> QED BY <3>1, <3>2, <3>3, <3>4
  <2> QED BY <2>1, <2>2
<1>7. WaitingAsked' /\ ReviewsExist'
  BY <1>3, <1>4 DEF WaitingAsked, ReviewsExist, Exists
<1>8. PendingIsResumable' /\ AwaitingHasRequest'
  BY <1>5, <1>6 DEF PendingIsResumable, AwaitingHasRequest
<1> QED BY <1>1, <1>7, <1>8

LEMMA RequestInit == Init => RequestInv
<1> SUFFICES ASSUME Init PROVE RequestInv
  OBVIOUS
<1>1. TypeOK
  BY InitTyped
<1>2. Sections /\ WaitingAsked /\ ReviewsExist
  BY DEF Init, IdleWork, IdleRev, Sections, WaitingAsked, ReviewsExist
<1>3. PendingIsResumable /\ AwaitingHasRequest
  BY DEF Init, PendingIsResumable, AwaitingHasRequest
<1> QED BY <1>1, <1>2, <1>3 DEF RequestInv

LEMMA RequestInvariant == Spec => []RequestInv
<1> QED BY RequestInit, RequestStep, PTL DEF Spec

\* Under the node runtime every pending request has the log row from which the
\* approve handler resumes it, at every moment of every handler.
THEOREM PendingResumable == Spec => []PendingIsResumable
<1>1. RequestInv => PendingIsResumable
  BY DEF RequestInv
<1> QED BY <1>1, RequestInvariant, PTL

\* Whatever runtime, failure or race: a run that waits for approval has a
\* request that a reviewer finds.
THEOREM AwaitingAsked == Spec => []AwaitingHasRequest
<1>1. RequestInv => AwaitingHasRequest
  BY DEF RequestInv
<1> QED BY <1>1, RequestInvariant, PTL
-----------------------------------------------------------------------------
(* The daily limit *)

\* The handlers past the check of the limit: each can still add one row.
Past == {w \in Workers : worker[w].pc \in Busy \ {"limit"}}
LimitInv ==
  /\ TypeOK
  /\ \/ Cardinality(Rows) < MaxOps
     \/ Cardinality(Rows) + Cardinality(Past) < MaxOps + Cardinality(Workers)

LEMMA SetsFinite ==
  /\ IsFiniteSet(Rows) /\ IsFiniteSet(Past)
  /\ Cardinality(Rows) \in Nat /\ Cardinality(Past) \in Nat /\ Cardinality(Workers) \in Nat
  /\ IsFiniteSet(Rows') /\ IsFiniteSet(Past')
  /\ Cardinality(Rows') \in Nat /\ Cardinality(Past') \in Nat
<1>1. /\ Rows \subseteq Intents /\ Past \subseteq Workers
      /\ Rows' \subseteq Intents /\ Past' \subseteq Workers
  BY DEF Rows, Past
<1> QED BY <1>1, AgentRunAssumption, FS_Subset, FS_CardinalityType DEF AgentRunAssumption

\* A handler that writes its row is done with the section, and its row is the
\* only one that can be new.
LEMMA RowWritten ==
  ASSUME TypeOK, NEW w \in Workers,
         WriteCircuitOpenLog(w) \/ RequestApproval(w) \/ Record(w)
  PROVE  /\ Rows' \subseteq Rows \cup {IntentOf(w)}
         /\ w \in Past /\ Past' \subseteq Past \ {w}
<1>1. worker \in [Workers -> Work] /\ log \in [Intents -> [status : LogStatus, at : Nat]]
  BY DEF TypeOK, WorkersTyped, RowsTyped
<1>2. Rows' \subseteq Rows \cup {IntentOf(w)}
  <2>1. PICK st : UpsertLog(IntentOf(w), st)
    BY DEF WriteCircuitOpenLog, RequestApproval, Record
  <2> QED BY <1>1, <2>1 DEF UpsertLog, Rows
<1>3. w \in Past
  BY DEF WriteCircuitOpenLog, RequestApproval, Record, Past, Busy
<1>4. worker'[w].pc \notin Busy \ {"limit"}
  BY <1>1 DEF WriteCircuitOpenLog, RequestApproval, Record, Finish, Retry, Work, Busy
<1>5. \A v \in Workers : v # w => worker'[v] = worker[v]
  BY WorkerLocal DEF Handler
<1> QED BY <1>2, <1>3, <1>4, <1>5 DEF Past

LEMMA LimitStep == LimitInv /\ [Next]_vars => LimitInv'
<1> SUFFICES ASSUME LimitInv, [Next]_vars PROVE LimitInv'
  OBVIOUS
<1> USE DEF LimitInv
<1>1. TypeOK' /\ \A v \in Workers : Moves(v)
  BY StepTyped, StepMoves
<1>2. /\ IsFiniteSet(Rows) /\ IsFiniteSet(Past) /\ IsFiniteSet(Rows') /\ IsFiniteSet(Past')
      /\ Cardinality(Rows) \in Nat /\ Cardinality(Past) \in Nat /\ Cardinality(Workers) \in Nat
      /\ Cardinality(Rows') \in Nat /\ Cardinality(Past') \in Nat
      /\ MaxOps \in Nat
  BY SetsFinite, AgentRunAssumption DEF AgentRunAssumption
<1>3. CASE log' = log
  <2>1. Rows' = Rows
    BY <1>3 DEF Rows
  <2>2. CASE Past' \subseteq Past
    <3>1. Cardinality(Past') <= Cardinality(Past)
      BY <1>2, <2>2, FS_Subset
    <3> QED BY <1>1, <1>2, <2>1, <3>1
  <2>3. CASE ~(Past' \subseteq Past)
    <3>1. PICK v \in Workers : worker'[v].pc \in Busy \ {"limit"} /\ ~(worker[v].pc \in Busy \ {"limit"})
      BY <2>3 DEF Past
    <3>2. WithinLimit(Cardinality(Rows))
      BY <1>1, <3>1 DEF Moves
    <3> QED BY <1>1, <2>1, <3>2 DEF WithinLimit
  <2> QED BY <2>2, <2>3
<1>4. ASSUME NEW w \in Workers, WriteCircuitOpenLog(w) \/ RequestApproval(w) \/ Record(w)
      PROVE  LimitInv'
  <2>1. /\ Rows' \subseteq Rows \cup {IntentOf(w)}
        /\ w \in Past /\ Past' \subseteq Past \ {w}
    BY <1>4, RowWritten
  <2>2. Cardinality(Rows') <= Cardinality(Rows) + 1
    <3>1. IsFiniteSet(Rows \cup {IntentOf(w)})
          /\ Cardinality(Rows \cup {IntentOf(w)})
               = IF IntentOf(w) \in Rows THEN Cardinality(Rows) ELSE Cardinality(Rows) + 1
      BY <1>2, FS_AddElement
    <3>2. Cardinality(Rows') <= Cardinality(Rows \cup {IntentOf(w)})
      BY <2>1, <3>1, FS_Subset
    <3>3. Cardinality(Rows \cup {IntentOf(w)}) \in Nat
      BY <3>1, FS_CardinalityType
    <3> QED BY <1>2, <3>1, <3>2, <3>3
  <2>3. Cardinality(Past') <= Cardinality(Past) - 1
    <3>1. /\ IsFiniteSet(Past \ {w})
          /\ Cardinality(Past \ {w}) = Cardinality(Past) - 1
      BY <1>2, <2>1, FS_RemoveElement
    <3> QED BY <2>1, <3>1, FS_Subset
  <2>4. Cardinality(Past) <= Cardinality(Workers)
    BY AgentRunAssumption, FS_Subset DEF AgentRunAssumption, Past
  <2> QED BY <1>1, <1>2, <2>2, <2>3, <2>4
<1> QED BY <1>3, <1>4, RowSteps

LEMMA LimitInit == Init => LimitInv
<1> SUFFICES ASSUME Init PROVE LimitInv
  OBVIOUS
<1>1. Rows = {}
  BY DEF Init, Rows
<1>2. Cardinality(Rows) = 0
  BY <1>1, FS_EmptySet
<1> QED BY <1>2, InitTyped, AgentRunAssumption DEF LimitInv, AgentRunAssumption

LEMMA LimitBound == LimitInv => OvershootBound
<1> SUFFICES ASSUME LimitInv PROVE OvershootBound
  OBVIOUS
<1> QED BY SetsFinite, AgentRunAssumption DEF LimitInv, OvershootBound, AgentRunAssumption

\* However many deliveries pass the check of the daily limit before one of
\* them writes its row, the rows pass the limit by fewer than the workers.
THEOREM LimitOvershoot == Spec => []OvershootBound
<1> QED BY LimitBound, LimitInit, LimitStep, PTL DEF Spec
-----------------------------------------------------------------------------
(* Decided requests that are opened again *)

\* The deliveries of an intent that can still ask for its approval, and
\* whether it was asked for already.
Deliveries(i) == {w \in Workers : worker[w].pc \in Busy /\ IntentOf(w) = i /\ ~JobOf(w).resume}
Asked(i) == IF Exists(i) THEN 1 ELSE 0

\* A delivery asks at most once: what was asked and what can still ask are
\* covered by the times the queue has delivered the intent.
StartsCounted ==
  /\ \A j \in JobIds : jobs[j].state \in {"none", "created"} => jobs[j].starts = 0
  /\ \A j \in JobIds : jobs[j].state = "retry" => jobs[j].starts <= RetryLimit
AskedOnce ==
  \A i \in HighRisk :
    Cardinality(Deliveries(i)) + Asked(i) <= Cardinality(FreshStarts(i))

ReopenInv == RequestInv /\ StartsCounted /\ AskedOnce

LEMMA CountsFinite ==
  ASSUME NEW i \in Intents
  PROVE  /\ IsFiniteSet(Deliveries(i)) /\ IsFiniteSet(Deliveries(i)')
         /\ IsFiniteSet(FreshStarts(i)) /\ IsFiniteSet(FreshStarts(i)')
         /\ Cardinality(Deliveries(i)) \in Nat /\ Cardinality(Deliveries(i)') \in Nat
         /\ Cardinality(FreshStarts(i)) \in Nat /\ Cardinality(FreshStarts(i)') \in Nat
<1>1. IsFiniteSet(JobIds \X (1..(RetryLimit + 1)))
  <2>1. MaxJobs \in Int /\ RetryLimit + 1 \in Int /\ 1 \in Int
    BY AgentRunAssumption DEF AgentRunAssumption
  <2>2. IsFiniteSet(JobIds) /\ IsFiniteSet(1..(RetryLimit + 1))
    BY <2>1, FS_Interval DEF JobIds
  <2> QED BY <2>2, FS_Product
<1>2. /\ FreshStarts(i) \subseteq JobIds \X (1..(RetryLimit + 1))
      /\ FreshStarts(i)' \subseteq JobIds \X (1..(RetryLimit + 1))
  BY DEF FreshStarts
<1>3. Deliveries(i) \subseteq Workers /\ Deliveries(i)' \subseteq Workers
  BY DEF Deliveries
<1> QED BY <1>1, <1>2, <1>3, AgentRunAssumption, FS_Subset, FS_CardinalityType
        DEF AgentRunAssumption

LEMMA StartsStep ==
  ASSUME TypeOK, StartsCounted, [Next]_vars
  PROVE  /\ StartsCounted'
         /\ \A j \in JobIds : jobs'[j].starts >= jobs[j].starts
<1> USE DEF StartsCounted
<1>1. jobs \in [JobIds -> Job] /\ RetryLimit \in Nat
  BY AgentRunAssumption DEF TypeOK, JobsTyped, AgentRunAssumption
<1>2. ASSUME NEW i, NEW resume, Send(i, resume)
      PROVE  StartsCounted' /\ \A j \in JobIds : jobs'[j].starts >= jobs[j].starts
  BY <1>1, <1>2 DEF Send, Job
<1>3. CASE \E w \in Workers, j \in JobIds : Fetch(w, j)
  BY <1>1, <1>3 DEF Fetch, Job
<1>4. ASSUME NEW j \in JobIds, Redeliver(j)
      PROVE  StartsCounted' /\ \A k \in JobIds : jobs'[k].starts >= jobs[k].starts
  <2>1. /\ jobs'[j].starts = jobs[j].starts
        /\ jobs'[j].state = IF jobs[j].starts <= RetryLimit THEN "retry" ELSE "failed"
        /\ \A k \in JobIds : k # j => jobs'[k] = jobs[k]
    BY <1>1, <1>4 DEF Redeliver, Job
  <2> QED BY <1>1, <2>1 DEF Job
<1>5. CASE \E j \in JobIds : Expire(j)
  BY <1>4, <1>5 DEF Expire
<1>6. ASSUME NEW w \in Workers, Settle(w)
      PROVE  StartsCounted' /\ \A j \in JobIds : jobs'[j].starts >= jobs[j].starts
  <2>1. worker[w].job \in JobIds
    BY <1>6 DEF Settle, TypeOK, WorkersTyped
  <2>2. CASE jobs' = [jobs EXCEPT ![worker[w].job].state = "completed"]
    BY <1>1, <2>1, <2>2 DEF Job
  <2>3. CASE jobs' = jobs
    BY <1>1, <2>3 DEF Job
  <2> QED BY <1>4, <1>6, <2>1, <2>2, <2>3 DEF Settle
<1>7. CASE jobs' = jobs
  BY <1>1, <1>7 DEF Job
<1> QED BY <1>2, <1>3, <1>5, <1>6, <1>7, JobSteps

\* The deliveries that were counted stay counted; a new one is a pair more.
LEMMA FreshKept ==
  ASSUME TypeOK, StartsCounted, [Next]_vars, NEW i \in Intents
  PROVE  FreshStarts(i) \subseteq FreshStarts(i)'
<1>1. Kept /\ \A j \in JobIds : jobs'[j].starts >= jobs[j].starts
  BY StepKept, StartsStep
<1> SUFFICES ASSUME NEW d \in JobIds \X (1..(RetryLimit + 1)),
                    jobs[d[1]].intent = i, ~jobs[d[1]].resume, d[2] <= jobs[d[1]].starts
             PROVE  jobs'[d[1]].intent = i /\ ~jobs'[d[1]].resume /\ d[2] <= jobs'[d[1]].starts
  BY DEF FreshStarts
<1>2. jobs[d[1]].starts \in Nat /\ jobs'[d[1]].starts \in Nat /\ d[2] \in 1..(RetryLimit + 1)
  BY StepTyped DEF TypeOK, JobsTyped, Job
<1>3. jobs[d[1]].state # "none"
  BY <1>2, AgentRunAssumption DEF StartsCounted, AgentRunAssumption
<1> QED BY <1>1, <1>2, <1>3, AgentRunAssumption DEF Kept, AgentRunAssumption

LEMMA FreshAdded ==
  ASSUME TypeOK, StartsCounted, [Next]_vars, NEW w \in Workers, NEW j \in JobIds,
         Fetch(w, j), ~jobs[j].resume, NEW i \in Intents, jobs[j].intent = i
  PROVE  Cardinality(FreshStarts(i)') >= Cardinality(FreshStarts(i)) + 1
<1> DEFINE new == <<j, jobs[j].starts + 1>>
<1>1. jobs \in [JobIds -> Job] /\ RetryLimit \in Nat
  BY AgentRunAssumption DEF TypeOK, JobsTyped, AgentRunAssumption
<1>2. jobs[j].starts \in Nat /\ jobs[j].starts <= RetryLimit
  BY <1>1 DEF Fetch, StartsCounted, Job
<1>3. /\ jobs'[j].intent = i /\ ~jobs'[j].resume
      /\ jobs'[j].starts = jobs[j].starts + 1
  BY <1>1 DEF Fetch, Job
<1>4. new \in FreshStarts(i)' /\ new \notin FreshStarts(i)
  BY <1>1, <1>2, <1>3 DEF FreshStarts
<1>5. FreshStarts(i) \cup {new} \subseteq FreshStarts(i)'
  BY <1>4, FreshKept
<1>6. /\ IsFiniteSet(FreshStarts(i)) /\ IsFiniteSet(FreshStarts(i)')
      /\ Cardinality(FreshStarts(i)) \in Nat /\ Cardinality(FreshStarts(i)') \in Nat
  BY CountsFinite
<1> HIDE DEF new
<1>7. Cardinality(FreshStarts(i) \cup {new}) = Cardinality(FreshStarts(i)) + 1
  BY <1>4, <1>6, FS_AddElement
<1>8. Cardinality(FreshStarts(i) \cup {new}) <= Cardinality(FreshStarts(i)')
  BY <1>5, <1>6, FS_Subset
<1> QED BY <1>6, <1>7, <1>8

\* A request of a high-risk intent is written at the gate, by a delivery that
\* is counted; or it was there.
LEMMA AskedAtGate ==
  ASSUME RequestInv, [Next]_vars, NEW i \in HighRisk,
         approval'[i] # approval[i], approval'[i] = "PENDING" \/ ~Exists(i)
  PROVE  \E w \in Workers : RequestApproval(w) /\ w \in Deliveries(i)
<1> USE DEF RequestInv
<1>1. i \in Intents /\ approval \in [Intents -> ApprovalStatus]
  BY AgentRunAssumption DEF TypeOK, RowsTyped, AgentRunAssumption
<1>2. PICK w \in Workers : RequestApproval(w) \/ AskApproval(w)
  <2>1. CASE \E r \in Reviewers : ApproveStale(r) \/ ApproveWrite(r)
    BY <1>1, <2>1 DEF ApproveStale, ApproveWrite, ReviewsExist
  <2>2. CASE \E k \in Intents : Reject(k) \/ Cancel(k)
    BY <1>1, <2>2 DEF Reject, Cancel, Exists
  <2>3. CASE \E due \in SUBSET Intents : ExpireApprovals(due)
    BY <1>1, <2>3 DEF ExpireApprovals, Exists
  <2> QED BY <2>1, <2>2, <2>3, ApprovalSteps
<1>3. IntentOf(w) = i
  BY <1>1, <1>2 DEF RequestApproval, AskApproval, UpsertPending
<1>4. RequestApproval(w)
  BY <1>2, <1>3 DEF AskApproval, Sections
<1> QED BY <1>3, <1>4 DEF Deliveries, Sections, RequestApproval, Busy

LEMMA DeliveriesFrom ==
  ASSUME ReopenInv, [Next]_vars, NEW i \in Intents, NEW v \in Deliveries(i)'
  PROVE  v \in Workers /\ \/ v \in Deliveries(i)
                          \/ \E j \in JobIds : /\ Fetch(v, j)
                                               /\ jobs[j].intent = i /\ ~jobs[j].resume
<1> USE DEF ReopenInv, RequestInv
<1>1. /\ v \in Workers /\ worker'[v].pc \in Busy
      /\ jobs'[worker'[v].job].intent = i /\ ~jobs'[worker'[v].job].resume
  BY DEF Deliveries, IntentOf, JobOf
<1>2. Kept /\ Moves(v)
  BY <1>1, StepKept, StepMoves
<1>3. CASE worker[v].pc \in Busy /\ worker'[v].job = worker[v].job
  <2>1. worker[v].job \in JobIds /\ jobs[worker[v].job].state # "none"
    BY <1>1, <1>3 DEF TypeOK, WorkersTyped, JobOf, Busy
  <2> QED BY <1>1, <1>2, <1>3, <2>1 DEF Kept, Deliveries, IntentOf, JobOf
<1>4. ASSUME NEW j \in JobIds, Fetch(v, j)
      PROVE  jobs[j].intent = i /\ ~jobs[j].resume
  BY <1>1, <1>2, <1>4 DEF Fetch, Kept, TypeOK, WorkersTyped
<1> QED BY <1>1, <1>2, <1>3, <1>4 DEF Moves

LEMMA AskedOnceStep ==
  ASSUME ReopenInv, [Next]_vars
  PROVE  AskedOnce'
<1> USE DEF ReopenInv
<1> SUFFICES ASSUME NEW i \in HighRisk
             PROVE  Cardinality(Deliveries(i)') + Asked(i)' <= Cardinality(FreshStarts(i)')
  BY DEF AskedOnce
<1>1. /\ i \in Intents /\ TypeOK /\ RequestInv
      /\ Cardinality(Deliveries(i)) + Asked(i) <= Cardinality(FreshStarts(i))
  BY AgentRunAssumption DEF AskedOnce, AgentRunAssumption, RequestInv
<1>2. /\ IsFiniteSet(Deliveries(i)) /\ IsFiniteSet(Deliveries(i)')
      /\ IsFiniteSet(FreshStarts(i)) /\ IsFiniteSet(FreshStarts(i)')
      /\ Cardinality(Deliveries(i)) \in Nat /\ Cardinality(Deliveries(i)') \in Nat
      /\ Cardinality(FreshStarts(i)) \in Nat /\ Cardinality(FreshStarts(i)') \in Nat
      /\ Asked(i) \in {0, 1} /\ Asked(i)' \in {0, 1}
  BY <1>1, CountsFinite DEF Asked
<1>3. Cardinality(FreshStarts(i)) <= Cardinality(FreshStarts(i)')
  BY <1>1, <1>2, FreshKept, FS_Subset
<1>4. ASSUME NEW w \in Workers, NEW j \in JobIds, Fetch(w, j)
      PROVE  Cardinality(Deliveries(i)') + Asked(i)' <= Cardinality(FreshStarts(i)')
  <2>1. Asked(i)' = Asked(i)
    BY <1>4 DEF Fetch, Asked, Exists
  <2>2. Deliveries(i)' \subseteq Deliveries(i) \cup {w}
    <3> SUFFICES ASSUME NEW v \in Deliveries(i)', v # w PROVE v \in Deliveries(i)
      OBVIOUS
    <3>1. v \in Workers /\ (v \in Deliveries(i) \/ \E k \in JobIds : Fetch(v, k))
      BY <1>1, DeliveriesFrom
    <3>2. worker'[v] = worker[v]
      BY <1>1, <1>4, <3>1, WorkerLocal
    <3>3. worker'[v].pc # "idle" => ~\E k \in JobIds : Fetch(v, k)
      BY <3>2 DEF Fetch
    <3>4. worker'[v].pc # "idle"
      BY DEF Deliveries, Busy
    <3> QED BY <3>1, <3>3, <3>4
  <2>3. CASE jobs[j].intent = i /\ ~jobs[j].resume
    <3>1. Cardinality(FreshStarts(i)') >= Cardinality(FreshStarts(i)) + 1
      BY <1>1, <1>4, <2>3, FreshAdded
    <3>2. /\ IsFiniteSet(Deliveries(i) \cup {w})
          /\ Cardinality(Deliveries(i) \cup {w})
               = IF w \in Deliveries(i) THEN Cardinality(Deliveries(i))
                 ELSE Cardinality(Deliveries(i)) + 1
      BY <1>2, FS_AddElement
    <3>3. Cardinality(Deliveries(i)') <= Cardinality(Deliveries(i) \cup {w})
      BY <2>2, <3>2, FS_Subset
    <3> QED BY <1>1, <1>2, <2>1, <3>1, <3>2, <3>3
  <2>4. CASE ~(jobs[j].intent = i /\ ~jobs[j].resume)
    <3>1. w \notin Deliveries(i)'
      BY <1>1, <1>4, <2>4, StepKept
         DEF Deliveries, IntentOf, JobOf, Fetch, Kept, TypeOK, WorkersTyped
    <3>2. Cardinality(Deliveries(i)') <= Cardinality(Deliveries(i))
      BY <1>2, <2>2, <3>1, FS_Subset
    <3> QED BY <1>1, <1>2, <1>3, <2>1, <3>2
  <2> QED BY <2>3, <2>4
<1>5. CASE ~\E w \in Workers, j \in JobIds : Fetch(w, j)
  <2>1. Deliveries(i)' \subseteq Deliveries(i)
    BY <1>1, <1>5, DeliveriesFrom
  <2>2. Cardinality(Deliveries(i)') <= Cardinality(Deliveries(i))
    BY <1>2, <2>1, FS_Subset
  <2>3. CASE Asked(i)' <= Asked(i)
    BY <1>1, <1>2, <1>3, <2>2, <2>3
  <2>4. CASE ~(Asked(i)' <= Asked(i))
    <3>1. ~Exists(i) /\ approval'[i] # approval[i]
      BY <1>2, <2>4 DEF Asked, Exists
    <3>2. PICK w \in Workers : RequestApproval(w) /\ w \in Deliveries(i)
      BY <1>1, <3>1, AskedAtGate
    <3>3. worker'[w].pc = "done"
      BY <1>1, <3>2 DEF RequestApproval, Finish, TypeOK, WorkersTyped
    <3>4. Deliveries(i)' \subseteq Deliveries(i) \ {w}
      BY <2>1, <3>3 DEF Deliveries, Busy
    <3>5. /\ IsFiniteSet(Deliveries(i) \ {w})
          /\ Cardinality(Deliveries(i) \ {w}) = Cardinality(Deliveries(i)) - 1
      BY <1>2, <3>2, FS_RemoveElement
    <3>6. Cardinality(Deliveries(i)') <= Cardinality(Deliveries(i)) - 1
      BY <3>4, <3>5, FS_Subset
    <3>7. Asked(i) = 0 /\ Asked(i)' = 1
      BY <1>2, <2>4
    <3> QED BY <1>1, <1>2, <1>3, <3>6, <3>7
  <2> QED BY <2>3, <2>4
<1> QED BY <1>4, <1>5

LEMMA ReopenStepKept == ReopenInv /\ [Next]_vars => ReopenInv'
BY RequestStep, StartsStep, AskedOnceStep DEF ReopenInv, RequestInv

LEMMA ReopenInit == Init => ReopenInv
<1> SUFFICES ASSUME Init PROVE ReopenInv
  OBVIOUS
<1>1. RequestInv
  BY RequestInit
<1>2. StartsCounted
  BY DEF Init, NoJob, StartsCounted
<1>3. ASSUME NEW i \in HighRisk
      PROVE  Cardinality(Deliveries(i)) + Asked(i) <= Cardinality(FreshStarts(i))
  <2>1. i \in Intents
    BY AgentRunAssumption DEF AgentRunAssumption
  <2>2. Deliveries(i) = {} /\ Asked(i) = 0
    BY <2>1 DEF Init, IdleWork, Deliveries, Busy, Asked, Exists
  <2>3. Cardinality(Deliveries(i)) = 0 /\ Cardinality(FreshStarts(i)) \in Nat
    BY <2>1, <2>2, FS_EmptySet, CountsFinite
  <2> QED BY <2>2, <2>3
<1> QED BY <1>1, <1>2, <1>3 DEF ReopenInv, AskedOnce

LEMMA ReopenInvariant == Spec => []ReopenInv
<1> QED BY ReopenInit, ReopenStepKept, PTL DEF Spec

LEMMA ReopenedTwice == ReopenInv /\ [Next]_vars => ReopenStep
<1> SUFFICES ASSUME ReopenInv, [Next]_vars, NEW i \in HighRisk,
                    approval[i] \in {"APPROVED", "REJECTED", "EXPIRED"},
                    approval'[i] = "PENDING"
             PROVE  Cardinality(FreshStarts(i)) > 1
  BY DEF ReopenStep
<1>1. i \in Intents /\ RequestInv
  BY AgentRunAssumption DEF AgentRunAssumption, ReopenInv
<1>2. PICK w \in Workers : w \in Deliveries(i)
  BY <1>1, AskedAtGate
<1>3. /\ IsFiniteSet(Deliveries(i)) /\ Cardinality(Deliveries(i)) \in Nat
      /\ Cardinality(FreshStarts(i)) \in Nat
  BY <1>1, CountsFinite
<1>4. Cardinality(Deliveries(i)) >= 1
  BY <1>2, <1>3, FS_EmptySet
<1>5. Cardinality(Deliveries(i)) + 1 <= Cardinality(FreshStarts(i))
  BY DEF ReopenInv, AskedOnce, Asked, Exists
<1> QED BY <1>3, <1>4, <1>5

\* A decision of a reviewer on a high-risk intent is undone only if the queue
\* has delivered the intent more than once: the retries within one delivery,
\* the agent service and the races of reviewers never open it again.
THEOREM ReopenedOnlyByRedelivery == Spec => [][ReopenStep]_vars
<1> QED BY ReopenedTwice, ReopenInvariant, PTL DEF Spec
-----------------------------------------------------------------------------
(* The circuit breaker *)

\* Rows are created one after another: no two have the same place.
RowsApart ==
  \A i, k \in Rows : /\ log[i].at = log[k].at => i = k
                     /\ log[i].at <= Cardinality(Rows)
LatchInv == RequestInv /\ RowsApart

LEMMA RowAdded ==
  ASSUME TypeOK, RowsApart, NEW i \in Intents, NEW st \in LogStatus \ {"none"}, UpsertLog(i, st)
  PROVE  /\ Rows' = Rows \cup {i} /\ log'[i].status = st
         /\ \A k \in Intents : log'[k].at \in Nat
         /\ \A k \in Rows : log'[k].at = log[k].at
         /\ \A k \in Intents \ {i} : log'[k] = log[k]
         /\ i \notin Rows => /\ log'[i].at = Cardinality(Rows) + 1
                             /\ Cardinality(Rows') = Cardinality(Rows) + 1
<1>1. log \in [Intents -> [status : LogStatus, at : Nat]]
  BY DEF TypeOK, RowsTyped
<1>2. log' = [log EXCEPT ![i] =
                [status |-> st,
                 at     |-> IF i \in Rows THEN log[i].at ELSE Cardinality(Rows) + 1]]
  BY DEF UpsertLog
<1>3. /\ log'[i].status = st
      /\ log'[i].at = IF i \in Rows THEN log[i].at ELSE Cardinality(Rows) + 1
      /\ \A k \in Intents \ {i} : log'[k] = log[k]
  BY <1>1, <1>2
<1>4. Rows' = Rows \cup {i}
  BY <1>3 DEF Rows
<1>5. i \notin Rows => Cardinality(Rows') = Cardinality(Rows) + 1
  BY <1>4, SetsFinite, FS_AddElement
<1>6. \A k \in Intents : log'[k].at \in Nat
  BY <1>1, <1>3, SetsFinite
<1>7. \A k \in Rows : log'[k].at = log[k].at
  BY <1>3 DEF Rows
<1> QED BY <1>3, <1>4, <1>5, <1>6, <1>7

LEMMA ApartKept ==
  ASSUME TypeOK, RowsApart, NEW i \in Intents, NEW st \in LogStatus \ {"none"}, UpsertLog(i, st)
  PROVE  RowsApart'
<1>1. /\ Rows' = Rows \cup {i}
      /\ \A k \in Rows : log'[k].at = log[k].at /\ log[k].at \in Nat
      /\ i \notin Rows => /\ log'[i].at = Cardinality(Rows) + 1
                          /\ Cardinality(Rows') = Cardinality(Rows) + 1
  BY RowAdded DEF TypeOK, RowsTyped, Rows
<1>2. Cardinality(Rows) \in Nat
  BY SetsFinite
<1>3. CASE i \in Rows
  <2>1. Rows' = Rows
    BY <1>1, <1>3
  <2> QED BY <1>1, <2>1 DEF RowsApart
<1>4. CASE i \notin Rows
  <2>1. \A k \in Rows : log[k].at <= Cardinality(Rows)
    BY DEF RowsApart
  <2> QED BY <1>1, <1>2, <1>4, <2>1 DEF RowsApart
<1> QED BY <1>3, <1>4

\* A row that is written again keeps its place, and a row of another target is
\* not looked at: the newest rows of the target are the same.
LEMMA LatestSame ==
  ASSUME TypeOK, RowsApart, NEW i \in Intents, NEW st \in LogStatus \ {"none"},
         UpsertLog(i, st), NEW t \in Targets, i \in Rows \/ TargetOf[i] # t
  PROVE  Latest(t)' = Latest(t)
<1>1. /\ Rows' = Rows \cup {i}
      /\ \A k \in Rows : log'[k].at = log[k].at
  BY RowAdded
<1>2. \A k \in Intents : TargetOf[k] = t => (k \in Rows' <=> k \in Rows)
  BY <1>1
<1>3. Rows \subseteq Intents /\ Rows' \subseteq Intents
  BY DEF Rows
<1>4. ASSUME NEW k \in Rows, TargetOf[k] = t
      PROVE  Newer(k)' = Newer(k)
  <2>1. k \in Rows' /\ log'[k].at = log[k].at
    BY <1>1, <1>4
  <2>2. ASSUME NEW m \in Intents, TargetOf[m] = TargetOf[k]
        PROVE  m \in Newer(k)' <=> m \in Newer(k)
    <3>1. m \in Rows' <=> m \in Rows
      BY <1>2, <1>4, <2>2
    <3> QED BY <1>1, <2>1, <2>2, <3>1 DEF Newer
  <2> QED BY <1>3, <2>2 DEF Newer
<1>5. \A k \in Intents : k \in Latest(t)' <=> k \in Latest(t)
  BY <1>2, <1>3, <1>4 DEF Latest
<1> QED BY <1>3, <1>5 DEF Latest

LEMMA NewerCounted ==
  ASSUME NEW i
  PROVE  Newer(i) \subseteq Rows /\ IsFiniteSet(Newer(i)) /\ Cardinality(Newer(i)) \in Nat
<1>1. Newer(i) \subseteq Rows
  BY DEF Newer
<1> QED BY <1>1, SetsFinite, FS_Subset, FS_CardinalityType

\* The rows of a target are a chain: each has its own number of newer ones.
LEMMA NewerLess ==
  ASSUME TypeOK, NEW i \in Rows, NEW k \in Newer(i)
  PROVE  Cardinality(Newer(k)) < Cardinality(Newer(i))
<1>1. \A m \in Rows : log[m].at \in Nat
  BY DEF TypeOK, RowsTyped, Rows
<1>2. k \in Rows /\ TargetOf[k] = TargetOf[i] /\ log[k].at > log[i].at
  BY DEF Newer
<1>3. Newer(k) \subseteq Newer(i) \ {k}
  BY <1>1, <1>2 DEF Newer
<1>4. /\ IsFiniteSet(Newer(i) \ {k})
      /\ Cardinality(Newer(i) \ {k}) = Cardinality(Newer(i)) - 1
  BY NewerCounted, FS_RemoveElement
<1>5. Cardinality(Newer(k)) <= Cardinality(Newer(i)) - 1
  BY <1>3, <1>4, FS_Subset
<1> QED BY <1>5, NewerCounted

LEMMA NewerApart ==
  ASSUME TypeOK, RowsApart, NEW i \in Rows, NEW k \in Rows, TargetOf[i] = TargetOf[k],
         Cardinality(Newer(i)) = Cardinality(Newer(k))
  PROVE  i = k
<1> SUFFICES ASSUME i # k PROVE FALSE
  OBVIOUS
<1>1. log[i].at \in Nat /\ log[k].at \in Nat /\ log[i].at # log[k].at
  BY DEF TypeOK, RowsTyped, Rows, RowsApart
<1>2. k \in Newer(i) \/ i \in Newer(k)
  BY <1>1 DEF Newer
<1>3. Cardinality(Newer(k)) < Cardinality(Newer(i)) \/ Cardinality(Newer(i)) < Cardinality(Newer(k))
  BY <1>2, NewerLess
<1> QED BY <1>3, NewerCounted

\* Of the three newest rows one has two newer ones, and only one.
LEMMA LatestThird ==
  ASSUME TypeOK, RowsApart, NEW t \in Targets, Cardinality(Latest(t)) = 3
  PROVE  \E c \in Latest(t) : /\ Cardinality(Newer(c)) = 2
                              /\ \A m \in Latest(t) \ {c} : Cardinality(Newer(m)) < 2
<1>1. /\ Latest(t) \subseteq Rows
      /\ \A m \in Latest(t) : TargetOf[m] = t /\ Cardinality(Newer(m)) \in 0..2
  BY NewerCounted DEF Latest
<1>2. IsFiniteSet(Latest(t))
  BY <1>1, SetsFinite, FS_Subset
<1>3. \E c \in Latest(t) : Cardinality(Newer(c)) = 2
  <2> SUFFICES ASSUME \A m \in Latest(t) : Cardinality(Newer(m)) # 2
               PROVE  FALSE
    OBVIOUS
  <2> DEFINE f == [m \in Latest(t) |-> Cardinality(Newer(m))]
  <2>1. f \in [Latest(t) -> 0..1]
    BY <1>1
  <2>2. IsFiniteSet(0..1) /\ Cardinality(0..1) = 2
    <3>1. 0 \in Int /\ 1 \in Int
      OBVIOUS
    <3>2. IsFiniteSet(0..1) /\ Cardinality(0..1) = IF 0 > 1 THEN 0 ELSE 1 - 0 + 1
      BY <3>1, FS_Interval, Zenon
    <3> QED BY <3>2
  <2>3. \E x, y \in Latest(t) : x # y /\ f[x] = f[y]
    <3> HIDE DEF f
    <3>1. Cardinality(0..1) < Cardinality(Latest(t))
      BY <2>2
    <3> QED BY <1>2, <2>1, <2>2, <3>1, FS_PigeonHole
  <2> QED BY <1>1, <2>3, NewerApart
<1>4. PICK c \in Latest(t) : Cardinality(Newer(c)) = 2
  BY <1>3
<1>5. \A m \in Latest(t) \ {c} : Cardinality(Newer(m)) # 2
  BY <1>1, <1>4, NewerApart
<1> QED BY <1>1, <1>4, <1>5

\* A new row of the target takes the place of the oldest of the three.
LEMMA LatestNew ==
  ASSUME TypeOK, RowsApart, NEW i \in Intents, NEW st \in LogStatus \ {"none"},
         UpsertLog(i, st), i \notin Rows, Cardinality(Latest(TargetOf[i])) = 3
  PROVE  \E c \in Latest(TargetOf[i]) :
            Latest(TargetOf[i])' = (Latest(TargetOf[i]) \ {c}) \cup {i}
<1> DEFINE t == TargetOf[i]
<1>1. t \in Targets
  BY AgentRunAssumption DEF AgentRunAssumption
<1>2. PICK c \in Latest(t) : /\ Cardinality(Newer(c)) = 2
                             /\ \A m \in Latest(t) \ {c} : Cardinality(Newer(m)) < 2
  BY <1>1, LatestThird
<1>3. /\ Rows' = Rows \cup {i} /\ Rows \subseteq Intents
      /\ log'[i].at = Cardinality(Rows) + 1
      /\ \A k \in Rows : /\ log'[k].at = log[k].at /\ log[k].at \in Nat
                         /\ log[k].at <= Cardinality(Rows)
  BY RowAdded DEF RowsApart, TypeOK, RowsTyped, Rows
<1>4. Cardinality(Rows) \in Nat
  BY SetsFinite
<1>5. Newer(i)' = {}
  BY <1>3, <1>4 DEF Newer
<1>6. ASSUME NEW k \in Rows, TargetOf[k] = t
      PROVE  Newer(k)' = Newer(k) \cup {i}
  BY <1>3, <1>4, <1>6 DEF Newer
<1>7. i \in Latest(t)'
  <2>1. Cardinality(Newer(i)') = 0
    BY <1>5, FS_EmptySet
  <2> QED BY <1>3, <2>1 DEF Latest
<1>8. ASSUME NEW k \in Rows
      PROVE  k \in Latest(t)' <=> k \in Latest(t) \ {c}
  <2>1. CASE TargetOf[k] # t
    BY <2>1 DEF Latest
  <2>2. CASE TargetOf[k] = t
    <3>1. Cardinality(Newer(k)') = Cardinality(Newer(k)) + 1 /\ Cardinality(Newer(k)) \in Nat
      <4>1. i \notin Newer(k)
        BY NewerCounted
      <4> QED BY <1>6, <2>2, <4>1, NewerCounted, FS_AddElement
    <3>2. k \in Latest(t)' <=> Cardinality(Newer(k)') < 3
      BY <1>3, <2>2 DEF Latest
    <3>3. k \in Latest(t) <=> Cardinality(Newer(k)) < 3
      BY <2>2 DEF Latest
    <3> QED BY <1>2, <3>1, <3>2, <3>3
  <2> QED BY <2>1, <2>2
<1>9. Latest(t)' \subseteq Rows' /\ Latest(t) \subseteq Rows
  BY DEF Latest
<1>10. Latest(t)' = (Latest(t) \ {c}) \cup {i}
  BY <1>3, <1>7, <1>8, <1>9
<1> QED BY <1>2, <1>10

LEMMA LatchInvStep == LatchInv /\ [Next]_vars => LatchInv'
<1> SUFFICES ASSUME LatchInv, [Next]_vars PROVE LatchInv'
  OBVIOUS
<1> USE DEF LatchInv
<1>1. RequestInv' /\ TypeOK
  BY RequestStep DEF RequestInv
<1>2. CASE log' = log
  BY <1>1, <1>2 DEF RowsApart, Rows
<1>3. ASSUME NEW w \in Workers, WriteCircuitOpenLog(w) \/ RequestApproval(w) \/ Record(w)
      PROVE  RowsApart'
  <2>1. IntentOf(w) \in Intents
    BY <1>1, <1>3
       DEF WriteCircuitOpenLog, RequestApproval, Record, TypeOK, WorkersTyped, JobsTyped,
           IntentOf, JobOf
  <2>2. PICK st \in LogStatus \ {"none"} : UpsertLog(IntentOf(w), st)
    BY <1>1, <1>3
       DEF WriteCircuitOpenLog, RequestApproval, Record, TypeOK, WorkersTyped, Work,
           RequestInv, Sections, LogStatus, FailureStatus
  <2> QED BY <1>1, <2>1, <2>2, ApartKept
<1> QED BY <1>1, <1>2, <1>3, RowSteps

LEMMA LatchInit == Init => LatchInv
BY RequestInit DEF Init, LatchInv, RowsApart, Rows

\* A refusal adds or repeats a failure.
LEMMA TripLatches ==
  ASSUME LatchInv, NEW w \in Workers, WriteCircuitOpenLog(w), NEW t \in Targets,
         IsCircuitOpen(t)
  PROVE  IsCircuitOpen(t)'
<1> DEFINE i == IntentOf(w)
<1>1. TypeOK /\ RowsApart
  BY DEF LatchInv, RequestInv
<1>2. i \in Intents
  BY <1>1 DEF WriteCircuitOpenLog, TypeOK, WorkersTyped, JobsTyped, IntentOf, JobOf
<1>3. UpsertLog(i, "CIRCUIT_OPEN") /\ "CIRCUIT_OPEN" \in LogStatus \ {"none"}
  BY DEF WriteCircuitOpenLog, LogStatus, FailureStatus
<1> HIDE DEF i
<1>4. log'[i].status = "CIRCUIT_OPEN" /\ \A k \in Intents \ {i} : log'[k] = log[k]
  BY <1>1, <1>2, <1>3, RowAdded
<1>5. \A k \in Latest(t) : k \in Intents /\ FailureCounts(log'[k].status)
  BY <1>4 DEF IsCircuitOpen, Latest, Rows, FailureCounts, FailureStatus
<1>6. FailureCounts(log'[i].status)
  BY <1>4 DEF FailureCounts, FailureStatus
<1>7. CASE i \in Rows \/ TargetOf[i] # t
  <2>1. Latest(t)' = Latest(t)
    BY <1>1, <1>2, <1>3, <1>7, LatestSame
  <2> QED BY <1>5, <2>1 DEF IsCircuitOpen
<1>8. CASE i \notin Rows /\ TargetOf[i] = t
  <2>1. PICK c \in Latest(t) : Latest(t)' = (Latest(t) \ {c}) \cup {i}
    BY <1>1, <1>2, <1>3, <1>8, LatestNew DEF IsCircuitOpen
  <2>2. Latest(t) \subseteq Rows
    BY DEF Latest
  <2>3. IsFiniteSet(Latest(t)) /\ Cardinality(Latest(t)) = 3
    BY <2>2, SetsFinite, FS_Subset DEF IsCircuitOpen
  <2>4. /\ IsFiniteSet(Latest(t) \ {c}) /\ Cardinality(Latest(t) \ {c}) = 3 - 1
    BY <2>1, <2>3, FS_RemoveElement
  <2>5. i \notin Latest(t) \ {c}
    BY <1>8, <2>2
  <2>6. Cardinality((Latest(t) \ {c}) \cup {i}) = Cardinality(Latest(t) \ {c}) + 1
    BY <2>4, <2>5, FS_AddElement
  <2>7. Cardinality(Latest(t)') = 3
    BY <2>1, <2>4, <2>6
  <2> QED BY <1>5, <1>6, <2>1, <2>7 DEF IsCircuitOpen
<1> QED BY <1>7, <1>8

\* A row of another target does not matter to the circuit.
LEMMA OtherTarget ==
  ASSUME LatchInv, NEW w \in Workers, RequestApproval(w) \/ Record(w), NEW t \in Targets,
         IsCircuitOpen(t), TargetOf[IntentOf(w)] # t
  PROVE  IsCircuitOpen(t)'
<1> DEFINE i == IntentOf(w)
<1>1. TypeOK /\ RowsApart
  BY DEF LatchInv, RequestInv
<1>2. i \in Intents
  BY <1>1 DEF RequestApproval, Record, TypeOK, WorkersTyped, JobsTyped, IntentOf, JobOf
<1>3. PICK st \in LogStatus \ {"none"} : UpsertLog(i, st)
  BY <1>1
     DEF RequestApproval, Record, TypeOK, WorkersTyped, Work, LatchInv, RequestInv, Sections,
         LogStatus
<1>4. TargetOf[i] # t
  OBVIOUS
<1> HIDE DEF i
<1>5. Latest(t)' = Latest(t)
  BY <1>1, <1>2, <1>3, <1>4, LatestSame
<1>6. \A k \in Latest(t) : log'[k] = log[k]
  BY <1>1, <1>2, <1>3, <1>4, RowAdded DEF Latest, Rows
<1> QED BY <1>5, <1>6 DEF IsCircuitOpen

\* An open circuit does not close by itself: while no handler of its target is
\* past the check, no step of the system turns it off; the refusals of the
\* breaker, which write rows too, keep it open.
THEOREM BreakerStaysOpen == Spec => BreakerLatches
<1>1. LatchInv /\ [Next]_vars => LatchStep
  <2> SUFFICES ASSUME LatchInv, [Next]_vars, NEW t \in Targets,
                      IsCircuitOpen(t), ~PastCheck(t)
               PROVE  IsCircuitOpen(t)'
    BY DEF LatchStep
  <2>1. CASE log' = log
    BY <2>1 DEF IsCircuitOpen, Latest, Newer, Rows
  <2>2. ASSUME NEW w \in Workers, RequestApproval(w) \/ Record(w)
        PROVE  IsCircuitOpen(t)'
    <3>1. TargetOf[IntentOf(w)] # t
      BY <2>2 DEF PastCheck, RequestApproval, Record
    <3> QED BY <2>2, <3>1, OtherTarget
  <2> QED BY <2>1, <2>2, TripLatches, RowSteps
<1> QED BY <1>1, LatchInit, LatchInvStep, PTL DEF Spec, BreakerLatches
=============================================================================
