--------------------------- MODULE AgentRunStreak ---------------------------
(***************************************************************************)
(* AgentRun with the outcomes of its runs in the order they finished, to   *)
(* compare the circuit breaker, which looks at the rows of the three       *)
(* intents created last, with the streak of failures it is documented by.  *)
(***************************************************************************)
EXTENDS AgentRun, Sequences

VARIABLE finished  \* <<target, status>> of each run that ended

StreakInit == Init /\ finished = <<>>

\* A run is submitted when the one before it is settled: neither concurrency
\* nor the order of the queue plays a part in what this module shows.
OneAtATime ==
  (\E j \in JobIds : jobs[j].state \in {"created", "active"}) =>
    \A j \in JobIds : jobs'[j].state = "created" => jobs[j].state = "created"

\* Record is the step that writes the outcome of an execution.
StreakNext ==
  \/ \E w \in Workers :
       /\ Record(w)
       /\ finished' = Append(finished, <<TargetOf[IntentOf(w)], worker[w].status>>)
  \/ /\ Next
     /\ \A w \in Workers : ~(worker[w].pc = "record" /\ worker'[w].pc # "record")
     /\ OneAtATime
     /\ UNCHANGED finished

StreakSpec == StreakInit /\ [][StreakNext]_<<vars, finished>>

\* The last three executions on a target failed.
FailingStreak(t) ==
  LET seq == SelectSeq(finished, LAMBDA run : run[1] = t)
      n   == Len(seq)
  IN n >= 3 /\ \A k \in (n - 2)..n : seq[k][2] \in {"FAILED", "REPORT_TIMEOUT"}

\* README.md:129 "if same target has 3 consecutive failures, mark next run as
\* CIRCUIT_OPEN and skip execution": no fresh run passes the circuit check of
\* handleAdsJob while the last three executions on its target failed.
BreakerStopsStreak ==
  [][\A w \in Workers :
       /\ worker[w].pc = "circuit"
       /\ worker'[w].pc = "execute"
       => ~FailingStreak(TargetOf[IntentOf(w)])]_<<vars, finished>>
=============================================================================
