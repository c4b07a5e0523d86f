---------------------------- MODULE KnowledgeBase ----------------------------
(***************************************************************************)
(* The knowledge entries of a tenant and what wears them out: the jobs of    *)
(* harness-decay-engine.ts, which page through the entries and write their   *)
(* weights, while the agent reads and uses entries (harness-ledger-service)  *)
(* and people create, cite, edit and archive them (harness-routes.ts).       *)
(*                                                                         *)
(* A weight is a number of steps out of Full, and falls by the decay rate    *)
(* per day without a use, in place of an exponential: what counts is that    *)
(* it is a function of the rate and the last use. One statement or           *)
(* transaction is one step; a job reads the time once, when it starts.       *)
(***************************************************************************)
EXTENDS Naturals, FiniteSets

CONSTANTS
  Entries,      \* numbers: the order of the ids
  Jobs,         \* recalculations under way: the daily one and those asked for
  Votes,        \* votes against a FAQ that can be under way at once
  Full,         \* the weight of an entry used now
  DecayingAt,   \* below it an active entry is DECAYING
  DormantAt,    \* below it a decaying entry is DORMANT
  Sixty,        \* days until an untouched dormant entry is archived
  Page,         \* BATCH_SIZE
  MaxRate,      \* the cap of decayRate
  MaxDay        \* bound of the model: end of time

VARIABLES
  entryStatus,   \* status, "none" before the entry is created
  weight, rate,
  used,          \* lastUsedAt, or createdAt
  touched,       \* updatedAt
  day,
  job,
  vote,          \* the entries a vote has read, with their rates, and has yet to write
  basis, pace    \* history: the used and the rate that the weight was computed from

rows == <<entryStatus, weight, rate, used, touched>>
judged == <<basis, pace>>
baseVars == <<entryStatus, weight, rate, used, touched, day, job, vote, basis, pace>>

\* daysSinceUsed: the entry may have been used since the job began.
Days(e, now) == IF used[e] >= now THEN 0 ELSE now - used[e]

\* Mutant: the weight stored is worn once more.
WornWeight(e, now) ==
  LET worn == rate[e] * Days(e, now) IN IF worn >= weight[e] THEN 0 ELSE weight[e] - worn

\* exp(-decayRate * daysSinceUsed)
Weight(e, now) ==
  LET worn == rate[e] * Days(e, now) IN IF worn >= Full THEN 0 ELSE Full - worn

IdleJob == [pc |-> "idle", now |-> 0, skip |-> 0, read |-> {}]

Eligible == {e \in Entries : entryStatus[e] \in {"ACTIVE", "DECAYING"}}

\* orderBy status, effectiveWeight desc, id
Before(x, e) ==
  \/ entryStatus[x] = "ACTIVE" /\ entryStatus[e] = "DECAYING"
  \/ entryStatus[x] = entryStatus[e] /\ (weight[x] > weight[e] \/ (weight[x] = weight[e] /\ x < e))

\* skip and take
PageAt(skip) ==
  {e \in Eligible : Cardinality({x \in Eligible : Before(x, e)}) \in skip..(skip + Page - 1)}

Touch(S) == touched' = [e \in Entries |-> IF e \in S THEN day ELSE touched[e]]
SetStatus(S, to) == entryStatus' = [e \in Entries |-> IF e \in S THEN to ELSE entryStatus[e]]
-----------------------------------------------------------------------------
(* recalculateWeights, then transitionLifecycle *)

Start(j) ==
  /\ job[j].pc = "idle"
  /\ job' = [job EXCEPT ![j] = [IdleJob EXCEPT !.pc = "page", !.now = day]]
  /\ UNCHANGED <<rows, day, vote, judged>>

\* An entry of a page, with the weight it gets
Found(e, now) ==
  [id |-> e, weight |-> Weight(e, now), used |-> used[e], rate |-> rate[e],
   changed |-> Weight(e, now) # weight[e]]

\* A page is read: the weights it gives rise to, and the last one ends the loop.
ReadPage(j) ==
  /\ job[j].pc = "page"
  /\ LET page == PageAt(job[j].skip) IN
     job' = [job EXCEPT ![j] =
               IF page = {} THEN [@ EXCEPT !.pc = "demote", !.now = day]
               ELSE [@ EXCEPT !.pc = "write", !.read = {Found(e, job[j].now) : e \in page}]]
  /\ UNCHANGED <<rows, day, vote, judged>>

\* The transaction of a page: by id, whatever the rows are by now. A page that
\* is not the last has Page entries.
WritePage(j) ==
  /\ job[j].pc = "write"
  /\ LET changed == {r \in job[j].read : r.changed}
         Of(e) == CHOOSE r \in job[j].read : r.id = e
         ids == {r.id : r \in changed}
     IN /\ weight' = [e \in Entries |-> IF e \in ids THEN Of(e).weight ELSE weight[e]]
        /\ basis' = [e \in Entries |-> IF e \in ids THEN Of(e).used ELSE basis[e]]
        /\ pace' = [e \in Entries |-> IF e \in ids THEN Of(e).rate ELSE pace[e]]
        /\ Touch(ids)
  /\ job' = [job EXCEPT ![j] =
               IF Cardinality(job[j].read) < Page
               THEN [@ EXCEPT !.pc = "demote", !.now = day, !.read = {}]
               ELSE [@ EXCEPT !.pc = "page", !.skip = job[j].skip + Page, !.read = {}]]
  /\ UNCHANGED <<entryStatus, rate, used, day, vote>>

\* updatedAt < sixtyDaysAgo
Untouched(e, now) == touched[e] + Sixty < now

\* The three statements of transitionLifecycle; the daily job comes to them
\* on Mondays only.
Demote(j) ==
  /\ job[j].pc = "demote"
  /\ LET S == {e \in Entries : entryStatus[e] = "ACTIVE" /\ weight[e] < DecayingAt} IN
     SetStatus(S, "DECAYING") /\ Touch(S)
  /\ job' = [job EXCEPT ![j].pc = "retire"]
  /\ UNCHANGED <<weight, rate, used, day, vote, judged>>

Retire(j) ==
  /\ job[j].pc = "retire"
  /\ LET S == {e \in Entries : entryStatus[e] = "DECAYING" /\ weight[e] < DormantAt} IN
     SetStatus(S, "DORMANT") /\ Touch(S)
  /\ job' = [job EXCEPT ![j].pc = "archive"]
  /\ UNCHANGED <<weight, rate, used, day, vote, judged>>

Archive(j) ==
  /\ job[j].pc = "archive"
  /\ LET S == {e \in Entries : entryStatus[e] = "DORMANT" /\ Untouched(e, job[j].now)} IN
     /\ SetStatus(S, "ARCHIVED") /\ Touch(S)
     /\ weight' = [e \in Entries |-> IF e \in S THEN 0 ELSE weight[e]]
  /\ job' = [job EXCEPT ![j] = IdleJob]
  /\ UNCHANGED <<rate, used, day, vote, judged>>

\* Not a Monday, a failed statement, or the end of the process
StopJob(j) ==
  /\ job[j].pc # "idle" /\ job' = [job EXCEPT ![j] = IdleJob]
  /\ UNCHANGED <<rows, day, vote, judged>>
-----------------------------------------------------------------------------
(* Everybody else *)

\* POST /knowledge, and the entries that closing a case leaves
Create(e) ==
  /\ entryStatus[e] = "none"
  /\ entryStatus' = [entryStatus EXCEPT ![e] = "ACTIVE"]
  /\ weight' = [weight EXCEPT ![e] = Full]
  /\ used' = [used EXCEPT ![e] = day] /\ basis' = [basis EXCEPT ![e] = day]
  /\ pace' = [pace EXCEPT ![e] = rate[e]]
  /\ Touch({e})
  /\ UNCHANGED <<rate, day, job, vote>>

\* POST /knowledge/:id/cite, and the update of loadTenantKnowledge: by id,
\* whatever the status is by then
Use(e) ==
  /\ entryStatus[e] # "none"
  /\ used' = [used EXCEPT ![e] = day]
  /\ Touch({e})
  /\ UNCHANGED <<entryStatus, weight, rate, day, job, vote, judged>>

ArchivedWeight(e, to) == IF to = "ARCHIVED" THEN 0 ELSE weight[e]

\* PATCH /knowledge/:id; supersededBy archives too.
Patch(e) ==
  /\ entryStatus[e] # "none"
  /\ \E to \in {"ACTIVE", "DECAYING", "DORMANT", "ARCHIVED"} :
       /\ entryStatus' = [entryStatus EXCEPT ![e] = to]
       /\ weight' = [weight EXCEPT ![e] = ArchivedWeight(e, to)]
  /\ Touch({e})
  /\ UNCHANGED <<rate, used, day, job, vote, judged>>

\* updateKnowledgeImpact: only the impact score, which no step here reads
Impact(e) ==
  /\ entryStatus[e] # "none"
  /\ Touch({e})
  /\ UNCHANGED <<entryStatus, weight, rate, used, day, job, vote, judged>>

\* accelerateFaqDecay, which the vote does not wait for. The rates of the
\* entries of the FAQ that are eligible are read, and a transaction writes by id,
\* whatever the rows are by then: of two votes that read the same rate one is
\* lost, and a slow one takes back what others added.
ReadRates(v) ==
  /\ vote[v] = {}
  /\ \E S \in SUBSET Eligible \ {{}} :
       vote' = [vote EXCEPT ![v] = {[id |-> e, rate |-> rate[e]] : e \in S}]
  /\ UNCHANGED <<rows, day, job, judged>>

Faster(r) == IF r < MaxRate THEN r + 1 ELSE MaxRate

WriteRates(v) ==
  /\ vote[v] # {}
  /\ LET ids == {r.id : r \in vote[v]}
         Of(e) == CHOOSE r \in vote[v] : r.id = e
     IN /\ rate' = [e \in Entries |-> IF e \in ids THEN Faster(Of(e).rate) ELSE rate[e]]
        /\ Touch(ids)
  /\ vote' = [vote EXCEPT ![v] = {}]
  /\ UNCHANGED <<entryStatus, weight, used, day, job, judged>>

\* The transaction fails, or the process ends: a vote is not tried again.
DropVote(v) ==
  /\ vote[v] # {} /\ vote' = [vote EXCEPT ![v] = {}]
  /\ UNCHANGED <<rows, day, job, judged>>

NextDay ==
  /\ day < MaxDay /\ day' = day + 1
  /\ UNCHANGED <<rows, job, vote, judged>>
-----------------------------------------------------------------------------
Init ==
  /\ entryStatus = [e \in Entries |-> "none"]
  /\ weight = [e \in Entries |-> 0] /\ rate = [e \in Entries |-> 1]
  /\ used = [e \in Entries |-> 0] /\ touched = [e \in Entries |-> 0]
  /\ day = 0 /\ job = [j \in Jobs |-> IdleJob]
  /\ vote = [v \in Votes |-> {}]
  /\ basis = [e \in Entries |-> 0] /\ pace = [e \in Entries |-> 1]

Job(j) ==
  \/ Start(j) \/ ReadPage(j) \/ WritePage(j) \/ Demote(j) \/ Retire(j) \/ Archive(j)
  \/ StopJob(j)

Next ==
  \/ NextDay \/ \E j \in Jobs : Job(j)
  \/ \E e \in Entries : Create(e) \/ Use(e) \/ Patch(e) \/ Impact(e)
  \/ \E v \in Votes : ReadRates(v) \/ WriteRates(v) \/ DropVote(v)

Spec == Init /\ [][Next]_baseVars
-----------------------------------------------------------------------------
(* Properties *)

TypeOK ==
  /\ entryStatus \in [Entries -> {"none", "ACTIVE", "DECAYING", "DORMANT", "ARCHIVED"}]
  /\ weight \in [Entries -> 0..Full] /\ rate \in [Entries -> 1..MaxRate]
  /\ used \in [Entries -> 0..day] /\ touched \in [Entries -> 0..day]
  /\ basis \in [Entries -> 0..day] /\ pace \in [Entries -> 1..MaxRate]
  /\ \A j \in Jobs : job[j].now <= day /\ (job[j].read # {} => job[j].pc = "write")
  /\ vote \in [Votes -> SUBSET [id : Entries, rate : 1..MaxRate]]

\* However many jobs run, in whatever order they write, and whatever votes make
\* of the rate meanwhile, an entry has not lost more than the days since the use
\* it was judged by are worth at the rate it was judged by.
NotWornTwice ==
  \A e \in Eligible :
    weight[e] = 0 \/ weight[e] + pace[e] * (day - basis[e]) >= Full
=============================================================================
