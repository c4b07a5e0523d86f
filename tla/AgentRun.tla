------------------------------ MODULE AgentRun ------------------------------
(***************************************************************************)
(* The run pipeline of the API server: a pg-boss queue of agent runs, the  *)
(* workers that execute them (apps/api/src/queue.ts), and the reviewers    *)
(* who approve, reject, cancel and expire the requests the workers raise   *)
(* (apps/api/src/server.ts, the /approvals handlers).                      *)
(*                                                                         *)
(* One action per stretch of code between two awaits: everything a handler *)
(* reads before an await may be stale when it writes after it.             *)
(*                                                                         *)
(* Abstractions: an intent is its id, the risk class of its score and its  *)
(* circuit target; a row keeps its status and its place in creation order; *)
(* there is no clock: whether a run is older than the freshness TTL, and   *)
(* which requests a caller's cutoff selects, is a choice; one day, so that *)
(* the daily count is the number of rows; events, metrics, experience rows *)
(* and the in-memory audit chain are left out.                             *)
(***************************************************************************)
EXTENDS Integers, FiniteSets

CONSTANTS
  Intents,      \* ids of the intents submitted in a run of the model
  HighRisk,     \* the intents with risk.score >= 0.7
  Targets,      \* circuit targets: a productId or a target id
  TargetOf,     \* resolveCircuitTarget
  Workers,      \* handler invocations that can be under way at once
  Reviewers,    \* concurrent calls of POST /approvals/:id/approve
  Python,       \* ADS_AGENT_RUNTIME = 'python' (TRUE) or 'node' (FALSE)
  MaxRetries,   \* in-process retries of one delivery (3 in the code)
  RetryLimit,   \* redeliveries by pg-boss (its default, 2)
  MaxOps,       \* the tenant's maxDailyOps
  MaxJobs,      \* bound of the model: jobs ever sent to the queue
  MaxFaults     \* bound of the model: crashes, lost jobs, failed statements

ASSUME AgentRunAssumption ==
  /\ IsFiniteSet(Intents) /\ IsFiniteSet(Workers)
  /\ HighRisk \subseteq Intents
  /\ TargetOf \in [Intents -> Targets]
  /\ Python \in BOOLEAN
  /\ MaxRetries \in Nat /\ RetryLimit \in Nat
  /\ MaxOps \in Nat \ {0} /\ MaxJobs \in Nat /\ MaxFaults \in Nat

VARIABLES
  jobs,      \* the pg-boss table of ads-agent:run
  worker,    \* the handler invocations
  log,       \* AgentExecutionLog, one row per intentId
  approval,  \* ApprovalQueue, one row per intentId
  rev,       \* the approve calls under way
  sending,   \* receipt writes that nobody awaits: <<intent, status>>
  receipts,  \* ExecutionReceipt, at most one row per log row
  executed,  \* history: the intents whose execution section ran
  granted,   \* history: the intents a reviewer's APPROVED was written for
  faults     \* bound: faults so far

vars == <<jobs, worker, log, approval, rev, sending, receipts, executed, granted, faults>>

JobIds == 1..MaxJobs

FailureStatus == {"FAILED", "REPORT_TIMEOUT", "CIRCUIT_OPEN"}
SuccessStatus == {"COMPLETED", "RESUMED_COMPLETED"}
LogStatus == FailureStatus \cup SuccessStatus
               \cup {"none", "AWAITING_APPROVAL", "REJECTED_BY_AGENT"}
ApprovalStatus == {"none", "PENDING", "APPROVED", "REJECTED", "EXPIRED"}

NoJob    == [intent |-> "none", resume |-> FALSE, state |-> "none", starts |-> 0]
IdleWork == [pc |-> "idle", job |-> 0, attempt |-> 0, status |-> "none",
             owns |-> FALSE]
IdleRev  == [pc |-> "idle", intent |-> "none"]
-----------------------------------------------------------------------------
(* Queries over the rows *)

Rows == {i \in Intents : log[i].status # "none"}

\* The three newest rows of a target by createdAt (the upserts of a run keep
\* the creation time), all of them failures.
Newer(i) == {k \in Rows : TargetOf[k] = TargetOf[i] /\ log[k].at > log[i].at}
Latest(t) == {i \in Rows : TargetOf[i] = t /\ Cardinality(Newer(i)) < 3}
\* Mutant: a refused run does not count as a failure.
FailureCountsExecuted(status) == status \in FailureStatus \ {"CIRCUIT_OPEN"}

FailureCounts(status) == status \in FailureStatus
IsCircuitOpen(t) ==
  /\ Cardinality(Latest(t)) = 3
  /\ \A i \in Latest(t) : FailureCounts(log[i].status)

\* Mutant: off by one at the limit.
WithinLimitInclusive(count) == count <= MaxOps

\* evaluatePolicy on the daily count
WithinLimit(count) == count < MaxOps

UpsertLog(i, st) ==
  log' = [log EXCEPT ![i] =
            [status |-> st,
             at     |-> IF i \in Rows THEN log[i].at ELSE Cardinality(Rows) + 1]]

\* create: a new row; update: the status only, whatever it was
UpsertPending(i) == approval' = [approval EXCEPT ![i] = "PENDING"]

JobOf(w) == jobs[worker[w].job]
IntentOf(w) == JobOf(w).intent
Fault == faults < MaxFaults /\ faults' = faults + 1
-----------------------------------------------------------------------------
(* The queue *)

Send(i, resume) ==
  \E j \in JobIds :
    /\ jobs[j].state = "none"
    /\ \A k \in JobIds : k < j => jobs[k].state # "none"
    /\ jobs' = [jobs EXCEPT ![j] = [intent |-> i, resume |-> resume,
                                    state |-> "created", starts |-> 0]]

\* POST /run, or POST /rules/compile-intents with execute = true: the same
\* intent can come through both.
Submit(i) ==
  /\ Send(i, FALSE)
  /\ UNCHANGED <<worker, log, approval, rev, sending, receipts, executed, granted, faults>>

Fetch(w, j) ==
  /\ worker[w].pc = "idle"
  /\ jobs[j].state \in {"created", "retry"}
  /\ jobs' = [jobs EXCEPT ![j].state = "active", ![j].starts = @ + 1]
  /\ worker' = [worker EXCEPT ![w] =
                  [pc |-> "limit", job |-> j, attempt |-> 0,
                   status |-> "none", owns |-> TRUE]]
  /\ UNCHANGED <<log, approval, rev, sending, receipts, executed, granted, faults>>

\* pg-boss puts a failed or expired job back until its retries are used up.
Redeliver(j) ==
  jobs' = [jobs EXCEPT ![j].state =
             IF jobs[j].starts <= RetryLimit THEN "retry" ELSE "failed"]

Orphan(j) == \A w \in Workers : ~(worker[w].job = j /\ worker[w].owns)

\* A job active for longer than its expiration is taken from its worker,
\* which is gone after a crash or else runs on, no longer the owner.
Expire(j) ==
  /\ jobs[j].state = "active"
  /\ IF Orphan(j) THEN UNCHANGED faults ELSE Fault
  /\ Redeliver(j)
  /\ worker' = [w \in Workers |->
                  IF worker[w].job = j THEN [worker[w] EXCEPT !.owns = FALSE]
                  ELSE worker[w]]
  /\ UNCHANGED <<log, approval, rev, sending, receipts, executed, granted>>

\* The handler returned or threw; pg-boss settles the job of a worker that
\* still owns it and ignores the outcome of one that does not.
Settle(w) ==
  /\ worker[w].pc \in {"done", "failed"}
  /\ worker' = [worker EXCEPT ![w] = IdleWork]
  /\ IF ~worker[w].owns THEN UNCHANGED jobs
     ELSE IF worker[w].pc = "done"
          THEN jobs' = [jobs EXCEPT ![worker[w].job].state = "completed"]
          ELSE Redeliver(worker[w].job)
  /\ UNCHANGED <<log, approval, rev, sending, receipts, executed, granted, faults>>

CrashWorker(w) ==
  /\ Fault
  /\ worker[w].pc # "idle"
  /\ worker' = [worker EXCEPT ![w] = IdleWork]
  /\ UNCHANGED <<jobs, log, approval, rev, sending, receipts, executed, granted>>
-----------------------------------------------------------------------------
(* executeWithRetry and handleAdsJob *)

Goto(w, pc) == worker' = [worker EXCEPT ![w].pc = pc]

\* executeWithRetry ends: pc is "done" or "failed"
Finish(w, pc) ==
  worker' = [worker EXCEPT ![w] =
               [pc |-> pc, job |-> worker[w].job, attempt |-> 0,
                status |-> "none", owns |-> worker[w].owns]]

\* Mutant: one attempt too many.
MayRetryOnceMore(attempt) == attempt <= MaxRetries

MayRetry(attempt) == attempt < MaxRetries

\* executeWithRetry on a retryable error
Retry(w) ==
  IF MayRetry(worker[w].attempt)
  THEN worker' = [worker EXCEPT ![w].pc = "limit", ![w].status = "none",
                                ![w].attempt = @ + 1]
  ELSE Finish(w, "failed")

\* Mutant: a retry goes straight to the execution section.
CheckRateLimitSkipsGate(w) ==
  /\ worker[w].pc = "limit"
  /\ IF WithinLimit(Cardinality(Rows))
     THEN Goto(w, IF JobOf(w).resume \/ worker[w].attempt > 0 THEN "execute"
                  ELSE "circuit")
     ELSE Finish(w, "failed")
  /\ UNCHANGED <<jobs, log, approval, rev, sending, receipts, executed, granted, faults>>

\* RATE_LIMIT_EXCEEDED is not retryable in process.
CheckRateLimit(w) ==
  /\ worker[w].pc = "limit"
  /\ IF WithinLimit(Cardinality(Rows))
     THEN Goto(w, IF JobOf(w).resume THEN "execute" ELSE "circuit")
     ELSE Finish(w, "failed")
  /\ UNCHANGED <<jobs, log, approval, rev, sending, receipts, executed, granted, faults>>

NeedsApproval(i) == i \in HighRisk

CheckCircuit(w) ==
  /\ worker[w].pc = "circuit"
  /\ Goto(w, IF IsCircuitOpen(TargetOf[IntentOf(w)]) THEN "trip"
             ELSE IF NeedsApproval(IntentOf(w)) THEN "gate" ELSE "execute")
  /\ UNCHANGED <<jobs, log, approval, rev, sending, receipts, executed, granted, faults>>

WriteCircuitOpenLog(w) ==
  /\ worker[w].pc = "trip"
  /\ UpsertLog(IntentOf(w), "CIRCUIT_OPEN")
  /\ Finish(w, "done")
  /\ UNCHANGED <<jobs, approval, rev, sending, receipts, executed, granted, faults>>

\* Mutant: the return after the approval request is missing.
RequestApprovalFallsThrough(w) ==
  /\ worker[w].pc = "gate"
  /\ UpsertPending(IntentOf(w))
  /\ UpsertLog(IntentOf(w), "AWAITING_APPROVAL")
  /\ Goto(w, "execute")
  /\ UNCHANGED <<jobs, rev, sending, receipts, executed, granted, faults>>

\* Mutant: no transaction, the request before the log row.
RequestApprovalInTwo(w) ==
  /\ worker[w].pc = "gate"
  /\ UpsertPending(IntentOf(w))
  /\ worker' = [worker EXCEPT ![w].pc = "record", ![w].status = "AWAITING_APPROVAL"]
  /\ UNCHANGED <<jobs, log, rev, sending, receipts, executed, granted, faults>>

\* Mutant: waiting for approval is thrown as an error that is retried.
RequestApprovalRetried(w) ==
  /\ worker[w].pc = "gate"
  /\ UpsertPending(IntentOf(w))
  /\ UpsertLog(IntentOf(w), "AWAITING_APPROVAL")
  /\ Retry(w)
  /\ UNCHANGED <<jobs, rev, sending, receipts, executed, granted, faults>>

\* Mutant: the handler keeps its worker until the request is decided.
RequestApprovalWaits(w) ==
  /\ worker[w].pc = "gate"
  /\ UpsertLog(IntentOf(w), "AWAITING_APPROVAL")
  /\ IF approval[IntentOf(w)] \in {"none", "PENDING"}
     THEN UpsertPending(IntentOf(w)) /\ UNCHANGED worker
     ELSE Finish(w, "done") /\ UNCHANGED approval
  /\ UNCHANGED <<jobs, rev, sending, receipts, executed, granted, faults>>

\* One transaction for the approval request and the log row.
RequestApproval(w) ==
  /\ worker[w].pc = "gate"
  /\ UpsertPending(IntentOf(w))
  /\ UpsertLog(IntentOf(w), "AWAITING_APPROVAL")
  /\ Finish(w, "done")
  /\ UNCHANGED <<jobs, rev, sending, receipts, executed, granted, faults>>

\* What the platform (node) or the agent service (python) can answer.
\* "FAILED" stands for an exception, a refused dispatch included.
Outcomes(resume) ==
  {"FAILED", IF resume THEN "RESUMED_COMPLETED" ELSE "COMPLETED"}
    \cup (IF ~Python THEN {"REPORT_TIMEOUT"}
          ELSE IF resume THEN {"REJECTED_BY_AGENT"}
          ELSE {"REJECTED_BY_AGENT", "AWAITING_APPROVAL"})

Execute(w) ==
  /\ worker[w].pc = "execute"
  /\ \E st \in Outcomes(JobOf(w).resume) :
       worker' = [worker EXCEPT ![w].status = st,
                                ![w].pc = IF st = "AWAITING_APPROVAL"
                                          THEN "ask" ELSE "record"]
  /\ executed' = executed \cup {IntentOf(w)}
  /\ UNCHANGED <<jobs, log, approval, rev, sending, receipts, granted, faults>>

\* python only: the approval request is a statement of its own here
AskApproval(w) ==
  /\ worker[w].pc = "ask"
  /\ UpsertPending(IntentOf(w))
  /\ Goto(w, "record")
  /\ UNCHANGED <<jobs, log, rev, sending, receipts, executed, granted, faults>>

ReceiptOf(status) == IF status \in SuccessStatus THEN "SUCCESS" ELSE "FAILED"

\* The log row, then the receipt, which is not awaited; an exception is
\* rethrown as UNKNOWN, which is retryable.
Record(w) ==
  /\ worker[w].pc = "record"
  /\ UpsertLog(IntentOf(w), worker[w].status)
  /\ sending' = sending \cup {<<IntentOf(w), ReceiptOf(worker[w].status)>>}
  /\ IF worker[w].status = "FAILED" THEN Retry(w) ELSE Finish(w, "done")
  /\ UNCHANGED <<jobs, approval, rev, receipts, executed, granted, faults>>

\* The receipt arrives, or never does. The row refers to its log row under a
\* unique index: a second create fails, and the error is only printed.
WriteReceipt(i, st) ==
  /\ <<i, st>> \in sending
  /\ sending' = sending \ {<<i, st>>}
  /\ receipts' = IF receipts[i] = "none" THEN [receipts EXCEPT ![i] = st] ELSE receipts
  /\ UNCHANGED <<jobs, worker, log, approval, rev, executed, granted, faults>>

\* A statement of the handler fails without effect. Inside the execution
\* section the handler records the failure; elsewhere the error leaves it.
DbError(w) ==
  /\ Fault
  /\ \/ /\ worker[w].pc \in {"limit", "circuit", "trip", "gate", "record"}
        /\ Retry(w)
     \/ /\ worker[w].pc = "ask"
        /\ worker' = [worker EXCEPT ![w].status = "FAILED", ![w].pc = "record"]
  /\ UNCHANGED <<jobs, log, approval, rev, sending, receipts, executed, granted>>
-----------------------------------------------------------------------------
(* The /approvals handlers *)

Exists(i) == approval[i] # "none"

\* POST /approvals/:id/approve, first transaction. Other statuses answer 409.
ApproveRead(r, i) ==
  /\ rev[r].pc = "idle"
  /\ approval[i] = "PENDING"
  /\ rev' = [rev EXCEPT ![r] = [pc |-> "log", intent |-> i]]
  /\ UNCHANGED <<jobs, worker, log, approval, sending, receipts, executed, granted, faults>>

\* Second transaction: the age of the run from its log row, or from the
\* request when there is no row; then a missing snapshot answers 409.
ApproveReadLog(r) ==
  /\ rev[r].pc = "log"
  /\ rev' \in {[rev EXCEPT ![r].pc = "expire"],
               IF rev[r].intent \in Rows THEN [rev EXCEPT ![r].pc = "approve"]
               ELSE [rev EXCEPT ![r] = IdleRev]}
  /\ UNCHANGED <<jobs, worker, log, approval, sending, receipts, executed, granted, faults>>

\* The writes name the row by id only: whatever status it has by now.
ApproveStale(r) ==
  /\ rev[r].pc = "expire"
  /\ approval' = [approval EXCEPT ![rev[r].intent] = "EXPIRED"]
  /\ rev' = [rev EXCEPT ![r] = IdleRev]
  /\ UNCHANGED <<jobs, worker, log, sending, receipts, executed, granted, faults>>

ApproveWrite(r) ==
  /\ rev[r].pc = "approve"
  /\ approval' = [approval EXCEPT ![rev[r].intent] = "APPROVED"]
  /\ granted' = granted \cup {rev[r].intent}
  /\ rev' = [rev EXCEPT ![r].pc = "send"]
  /\ UNCHANGED <<jobs, worker, log, sending, receipts, executed, faults>>

ApproveSend(r) ==
  /\ rev[r].pc = "send"
  /\ Send(rev[r].intent, TRUE)
  /\ rev' = [rev EXCEPT ![r] = IdleRev]
  /\ UNCHANGED <<worker, log, approval, sending, receipts, executed, granted, faults>>

\* The API process dies, or a statement fails, in the middle of an approve.
CrashReviewer(r) ==
  /\ Fault
  /\ rev[r].pc # "idle"
  /\ rev' = [rev EXCEPT ![r] = IdleRev]
  /\ UNCHANGED <<jobs, worker, log, approval, sending, receipts, executed, granted>>

\* POST /approvals/:id/reject: rows are never deleted, so that the lookup and
\* the update are one step; no status is required.
Reject(i) ==
  /\ Exists(i)
  /\ approval' = [approval EXCEPT ![i] = "REJECTED"]
  /\ UNCHANGED <<jobs, worker, log, rev, sending, receipts, executed, granted, faults>>

\* POST /approvals/:id/cancel
Cancel(i) ==
  /\ Exists(i)
  /\ approval' = [approval EXCEPT ![i] = "EXPIRED"]
  /\ UNCHANGED <<jobs, worker, log, rev, sending, receipts, executed, granted, faults>>

\* POST /approvals/expire: one statement for the pending requests that are
\* older than the caller's cutoff.
ExpireApprovals(due) ==
  /\ \A i \in due : approval[i] = "PENDING"
  /\ approval' = [i \in Intents |-> IF i \in due THEN "EXPIRED" ELSE approval[i]]
  /\ UNCHANGED <<jobs, worker, log, rev, sending, receipts, executed, granted, faults>>
-----------------------------------------------------------------------------
Init ==
  /\ jobs = [j \in JobIds |-> NoJob]
  /\ worker = [w \in Workers |-> IdleWork]
  /\ log = [i \in Intents |-> [status |-> "none", at |-> 0]]
  /\ approval = [i \in Intents |-> "none"]
  /\ rev = [r \in Reviewers |-> IdleRev]
  /\ sending = {}
  /\ receipts = [i \in Intents |-> "none"]
  /\ executed = {}
  /\ granted = {}
  /\ faults = 0

Handler(w) ==
  \/ CheckRateLimit(w) \/ CheckCircuit(w) \/ WriteCircuitOpenLog(w)
  \/ RequestApproval(w) \/ Execute(w) \/ AskApproval(w) \/ Record(w)

Reviewer(r) ==
  \/ \E i \in Intents : ApproveRead(r, i)
  \/ ApproveReadLog(r) \/ ApproveStale(r) \/ ApproveWrite(r) \/ ApproveSend(r)
  \/ CrashReviewer(r)

Next ==
  \/ \E i \in Intents : Submit(i) \/ Reject(i) \/ Cancel(i)
  \/ \E w \in Workers : Handler(w) \/ DbError(w) \/ Settle(w) \/ CrashWorker(w)
  \/ \E w \in Workers, j \in JobIds : Fetch(w, j)
  \/ \E j \in JobIds : Expire(j)
  \/ \E r \in Reviewers : Reviewer(r)
  \/ \E i \in Intents, st \in {"SUCCESS", "FAILED"} : WriteReceipt(i, st)
  \/ \E due \in SUBSET Intents \ {{}} : ExpireApprovals(due)

Spec == Init /\ [][Next]_vars

\* The workers poll and run their code; pg-boss expires an active job that
\* no worker owns any more. Nothing is assumed of callers and reviewers.
Fairness ==
  /\ \A w \in Workers : /\ WF_vars(Handler(w) \/ DbError(w) \/ Settle(w))
                        /\ WF_vars(\E j \in JobIds : Fetch(w, j))
  /\ \A j \in JobIds : WF_vars(Orphan(j) /\ Expire(j))

FairSpec == Spec /\ Fairness
-----------------------------------------------------------------------------
(* Properties *)

Job == [intent : Intents \cup {"none"}, resume : BOOLEAN,
        state : {"none", "created", "retry", "active", "completed", "failed"},
        starts : Nat]
Work == [pc : {"idle", "limit", "circuit", "trip", "gate", "execute", "ask",
               "record", "done", "failed"},
         job : {0} \cup JobIds, attempt : 0..MaxRetries,
         status : LogStatus, owns : BOOLEAN]
Review == [pc : {"idle", "log", "expire", "approve", "send"},
           intent : Intents \cup {"none"}]

JobsTyped ==
  /\ jobs \in [JobIds -> Job]
  /\ \A j \in JobIds : jobs[j].state # "none" => jobs[j].intent \in Intents
WorkersTyped ==
  /\ worker \in [Workers -> Work]
  /\ \A w \in Workers : worker[w].pc # "idle" =>
       worker[w].job \in JobIds /\ JobOf(w).state # "none"
RowsTyped ==
  /\ log \in [Intents -> [status : LogStatus, at : Nat]]
  /\ approval \in [Intents -> ApprovalStatus]
ReviewsTyped ==
  /\ rev \in [Reviewers -> Review]
  /\ \A r \in Reviewers : rev[r].pc # "idle" => rev[r].intent \in Intents
HistoryTyped ==
  /\ sending \subseteq Intents \X {"SUCCESS", "FAILED"}
  /\ receipts \in [Intents -> {"none", "SUCCESS", "FAILED"}]
  /\ executed \subseteq Intents
  /\ granted \subseteq Intents /\ faults \in Nat

\* The shape of the rows and of the handlers' local state; a handler that runs
\* has a job with an intent, and so has an approve under way.
TypeOK ==
  JobsTyped /\ WorkersTyped /\ RowsTyped /\ ReviewsTyped /\ HistoryTyped

\* A high-risk intent reaches the platform only if a reviewer's approval was
\* written before, through every retry, redelivery, crash and race of
\* reviewers (the gate of handleAdsJob and the approve handler).
HighRiskApproved == executed \cap HighRisk \subseteq granted

\* A run that waits for approval has a request a reviewer can find, at every
\* moment between the statements of the handler.
AwaitingHasRequest ==
  \A i \in Intents : log[i].status = "AWAITING_APPROVAL" => Exists(i)

\* Under the node runtime whatever request is pending can be resumed: its log
\* row, with the intent snapshot the approve handler needs, is there.
PendingIsResumable ==
  ~Python => \A i \in Intents : approval[i] = "PENDING" => i \in Rows

\* The daily limit is checked before the row is written, so that handlers
\* under way together overshoot it: by less than their number.
OvershootBound == Cardinality(Rows) < MaxOps + Cardinality(Workers)

\* An open circuit does not close by itself: the rows of the runs it refuses
\* are failures too. Only a run past the check, or an approved one, closes it.
PastCheck(t) ==
  \E w \in Workers : /\ worker[w].pc \in {"gate", "execute", "ask", "record"}
                     /\ TargetOf[IntentOf(w)] = t
LatchStep ==
  \A t \in Targets : IsCircuitOpen(t) /\ ~PastCheck(t) => IsCircuitOpen(t)'
BreakerLatches == [][LatchStep]_vars

\* A decision of a reviewer is undone (the request is PENDING again) only when
\* the queue delivers the intent another time, never within one delivery.
FreshStarts(i) ==
  {d \in JobIds \X (1..(RetryLimit + 1)) :
     jobs[d[1]].intent = i /\ ~jobs[d[1]].resume /\ d[2] <= jobs[d[1]].starts}
ReopenStep ==
  \A i \in HighRisk :
    approval[i] \in {"APPROVED", "REJECTED", "EXPIRED"} /\ approval'[i] = "PENDING"
      => Cardinality(FreshStarts(i)) > 1

\* What the queue promises to callers: ApprovalGate, where an execution needs
\* a grant and a receipt of success needs an execution.
Succeeded == {i \in Intents : receipts[i] = "SUCCESS"}
Gate == INSTANCE ApprovalGate WITH
          performed <- executed, succeeded <- Succeeded
GateSpec == Gate!Spec

\* .cursorrules:25 "Platforms MUST emit `ExecutionReceipt` as proof of work":
\* a run that completed has a receipt of its success, once no receipt of the
\* intent is on its way any more.
CompletedHasProof ==
  \A i \in Intents :
    log[i].status \in SuccessStatus /\ (\A st \in {"SUCCESS", "FAILED"} : <<i, st>> \notin sending)
      => receipts[i] = "SUCCESS"

\* Every job sent to the queue is settled in the end, whatever fails.
JobsSettle ==
  \A j \in JobIds :
    jobs[j].state # "none" ~> jobs[j].state \in {"completed", "failed"}
=============================================================================
