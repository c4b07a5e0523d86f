--------------------------- MODULE PlatformClient ---------------------------
(***************************************************************************)
(* The adapter of a platform (packages/platform-adapters/src/amazon-real.ts)  *)
(* under the handlers of jobs that ask it for a report and poll for it          *)
(* (apps/api/src/queue.ts); a handler whose job has expired goes on beside     *)
(* the next one. The requests share one access token: it is taken from the   *)
(* cache while it is good for Margin longer, and else refreshed, once for all   *)
(* that wait. A request that takes longer than Timeout is aborted. What        *)
(* becomes of the run is in AgentRun.                                       *)
(***************************************************************************)
EXTENDS Naturals, FiniteSets

CONSTANTS
  Runs,         \* runs under way at once
  Slots,        \* concurrency of the queue of reports
  Polls,        \* how often a run asks for its report
  Timeout, Margin,
  Lifetime,     \* expires_in
  MaxNow        \* bound of the model

\* Two timeouts fit into the margin: 15 s, unless configured otherwise, and 30 s.

VARIABLES
  now,
  cached,    \* cachedToken: when it was issued, and expiresAt
  refresh,   \* refreshInFlight: when it began and, once it was, when the token was issued
  run,       \* the runs, with the request each has under way
  report     \* the reports at the platform

clientVars == <<now, cached, refresh, run, report>>

NoToken == [issued |-> 0, expires |-> 0]
NoRefresh == [pc |-> "none", since |-> 0, issued |-> 0]
NoRun == [pc |-> "idle", asks |-> "none", polls |-> 0, since |-> 0, token |-> 0]

Go(r, pc) == run' = [run EXCEPT ![r].pc = pc, ![r].since = 0, ![r].token = 0]

\* The mutant trusts a token up to its end.
UsableToTheEnd == now < cached.expires

Usable == now + Margin < cached.expires
-----------------------------------------------------------------------------
(* A run *)

\* requestPerformanceReport; the run is one of the queue's
Begin(r) ==
  /\ run[r].pc = "idle"
  /\ run' = [run EXCEPT ![r] = [NoRun EXCEPT !.pc = "queued", !.asks = "report"]]
  /\ report' = [report EXCEPT ![r] = "none"]
  /\ UNCHANGED <<now, cached, refresh>>

\* withRateLimit: a download keeps no slot.
TakeSlot(r) ==
  /\ run[r].pc = "queued"
  /\ Cardinality({s \in Runs : run[s].pc \in {"start", "wait", "sent"}}) < Slots
  /\ Go(r, "start")
  /\ UNCHANGED <<now, cached, refresh, report>>

Sent(q, issued) == [q EXCEPT !.pc = "sent", !.token = issued, !.since = now]

\* getAccessToken
TakeToken(r) ==
  /\ run[r].pc = "start"
  /\ IF Usable
       THEN run' = [run EXCEPT ![r] = Sent(run[r], cached.issued)] /\ UNCHANGED refresh
       ELSE /\ Go(r, "wait")
            /\ refresh' = IF refresh.pc = "none"
                            THEN [NoRefresh EXCEPT !.pc = "asked", !.since = now] ELSE refresh
  /\ UNCHANGED <<now, cached, report>>

\* The platform answers a request that did not take too long.
Reported(r) ==
  /\ run[r].pc = "sent" /\ run[r].asks = "report"
  /\ report' = [report EXCEPT ![r] = "pending"]
  /\ Go(r, "sleep")
  /\ UNCHANGED <<now, cached, refresh>>

\* getPerformanceReport. Everything but a completed report that has a location is
\* pending.
Polled(r) ==
  /\ run[r].pc = "sent" /\ run[r].asks = "status"
  /\ Go(r, IF report[r] = "completed" THEN "download" ELSE "sleep")
  /\ UNCHANGED <<now, cached, refresh, report>>

Downloaded(r) ==
  /\ run[r].pc = "download"
  /\ run' = [run EXCEPT ![r] = NoRun]
  /\ UNCHANGED <<now, cached, refresh, report>>

\* The loop of the worker: it asks again, or it is over.
Wake(r) ==
  /\ run[r].pc = "sleep"
  /\ run' = [run EXCEPT ![r] =
       IF run[r].polls < Polls
         THEN [run[r] EXCEPT !.pc = "queued", !.asks = "status", !.polls = @ + 1]
         ELSE NoRun]
  /\ UNCHANGED <<now, cached, refresh, report>>

\* An error of the platform, or an abort: the job may come again.
RequestFails(r) ==
  /\ run[r].pc \in {"sent", "download"}
  /\ run' = [run EXCEPT ![r] = NoRun]
  /\ UNCHANGED <<now, cached, refresh, report>>
-----------------------------------------------------------------------------
(* refreshToken *)

TokenIssued ==
  /\ refresh.pc = "asked"
  /\ refresh' = [refresh EXCEPT !.pc = "issued", !.issued = now]
  /\ UNCHANGED <<now, cached, run, report>>

\* What waits goes on with the new token, the one that began the refresh first.
TokenAnswered ==
  /\ refresh.pc = "issued"
  /\ cached' = [issued |-> refresh.issued, expires |-> now + Lifetime]
  /\ run' = [r \in Runs |->
       IF run[r].pc = "wait" THEN Sent(run[r], refresh.issued) ELSE run[r]]
  /\ refresh' = NoRefresh
  /\ UNCHANGED <<now, report>>

\* It fails for all that wait.
RefreshFails ==
  /\ refresh.pc # "none"
  /\ run' = [r \in Runs |->
       IF run[r].pc = "wait" THEN NoRun ELSE run[r]]
  /\ refresh' = NoRefresh
  /\ UNCHANGED <<now, cached, report>>
-----------------------------------------------------------------------------
\* The platform makes the report.
Complete(r) ==
  /\ report[r] = "pending" /\ report' = [report EXCEPT ![r] = "completed"]
  /\ UNCHANGED <<now, cached, refresh, run>>

\* AbortController: nothing is under way longer than its timeout, and what is to
\* be sent goes at once.
Tick ==
  /\ now < MaxNow
  /\ \A r \in Runs : /\ run[r].pc # "start"
                     /\ run[r].pc = "sent" => now < run[r].since + Timeout
  /\ refresh.pc # "none" => now < refresh.since + Timeout
  /\ now' = now + 1
  /\ UNCHANGED <<cached, refresh, run, report>>

Init ==
  /\ now = 1 /\ cached = NoToken /\ refresh = NoRefresh
  /\ run = [r \in Runs |-> NoRun]
  /\ report = [r \in Runs |-> "none"]

Next ==
  \/ \E r \in Runs :
       \/ Begin(r) \/ TakeSlot(r) \/ TakeToken(r)
       \/ Reported(r) \/ Polled(r) \/ Downloaded(r) \/ Wake(r) \/ RequestFails(r)
       \/ Complete(r)
  \/ TokenIssued \/ TokenAnswered \/ RefreshFails
  \/ Tick

Spec == Init /\ [][Next]_clientVars
-----------------------------------------------------------------------------
TypeOK ==
  /\ now \in 1..MaxNow
  /\ cached.issued <= now /\ cached.expires <= MaxNow + Lifetime
  /\ refresh.pc \in {"none", "asked", "issued"}
  /\ \A r \in Runs : run[r].polls \in 0..Polls /\ run[r].token <= now
  /\ report \in [Runs -> {"none", "pending", "completed"}]

\* As long as a request may reach the platform, its token has not expired there,
\* however late the answer with the token came and whoever asked for it.
TokenFresh == \A r \in Runs : run[r].pc = "sent" => now < run[r].token + Lifetime

\* A worker that waits for a token waits for a refresh.
NobodyForgotten == (\E r \in Runs : run[r].pc = "wait") => refresh.pc # "none"

ClientKept == TokenFresh /\ NobodyForgotten
=============================================================================
