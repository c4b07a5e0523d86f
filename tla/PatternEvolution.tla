-------------------------- MODULE PatternEvolution --------------------------
(***************************************************************************)
(* Patterns distilled from the experiences of a tenant's agents, evolution.ts: *)
(* distillPatterns reads the experiences not yet distilled and makes one      *)
(* pattern of each group that is large enough; the outcomes of its use raise   *)
(* or reset its count of failures, which is read in one statement and written  *)
(* in another; a pattern nobody has confirmed for long falls into the shadow.  *)
(***************************************************************************)
EXTENDS Naturals, FiniteSets

CONSTANTS
  Experiences, Group,   \* and the intent, stage and platform of each
  Distills,             \* calls of POST /evolution/distill
  Reports,              \* calls of recordPatternOutcome under way together
  MinSamples, AutoSamples,
  FailureLimit,         \* 3
  MaxPatterns,          \* bound of the model
  MaxStreak,            \* bound of the model: failures, counted or not
  Followed              \* bound of the model: the patterns that reports are about

VARIABLES
  distilled,   \* AgentExperience.distilled
  patterns,    \* sequence numbers -> sample, grade, failures
  distill,     \* each call: not begun, or what it read and has still to do
  report,      \* each report: its pattern and the failures and grade it read
  streak,      \* history: reports of failure since the last success
  lost         \* history: of those, the ones a later report wrote over

evolutionVars == <<distilled, patterns, distill, report, streak, lost>>

Grades == {"SHADOW", "SUGGEST", "AUTO"}     \* AUTO_LOW and AUTO_FULL
NoReport == [pattern |-> 0, failures |-> 0, grade |-> "SHADOW"]
Idle == [reads |-> FALSE, found |-> {}]

Made == DOMAIN patterns
Groups == {Group[e] : e \in Experiences}

\* gradeFromStats; the confidence is one of four ranges, from below 0.3 up.
GradeOf(confidence, n) ==
  IF confidence = 3 /\ n >= AutoSamples THEN "AUTO" ELSE IF confidence >= 2 THEN "SUGGEST" ELSE "SHADOW"
-----------------------------------------------------------------------------
\* distilled: false, and younger than daysBack
Undistilled == Experiences \ distilled

Read(d) ==
  /\ ~distill[d].reads
  /\ distill' = [distill EXCEPT ![d] = [reads |-> TRUE, found |-> Undistilled]]
  /\ UNCHANGED <<distilled, patterns, report, streak, lost>>

\* The next group: too small, too uncertain, or one transaction that makes the
\* pattern and marks its experiences.
Distil(d, g) ==
  LET cluster == {e \in distill[d].found : Group[e] = g} IN
  /\ distill[d].reads /\ cluster # {}
  /\ distill' = [distill EXCEPT ![d].found = @ \ cluster]
  /\ \/ UNCHANGED <<distilled, patterns, streak, lost>>
        \* fewer than minSamples, or a confidence below 0.3
     \/ \E confidence \in 1..3 :
          LET p == Cardinality(Made) + 1 IN
          /\ Cardinality(cluster) >= MinSamples /\ p <= MaxPatterns
          /\ patterns' = [i \in Made \cup {p} |->
               IF i = p THEN [sample |-> cluster, failures |-> 0,
                              grade |-> GradeOf(confidence, Cardinality(cluster))]
                        ELSE patterns[i]]
          /\ distilled' = distilled \cup cluster
          /\ streak' = [i \in Made \cup {p} |-> IF i = p THEN 0 ELSE streak[i]]
          /\ lost' = [i \in Made \cup {p} |-> IF i = p THEN 0 ELSE lost[i]]
  /\ UNCHANGED report

\* The loop is over, or a query failed: groups done before it stay done.
EndDistil(d) ==
  /\ distill[d].reads /\ distill' = [distill EXCEPT ![d] = Idle]
  /\ UNCHANGED <<distilled, patterns, report, streak, lost>>
-----------------------------------------------------------------------------
\* recordPatternOutcome
ReadPattern(r, p) ==
  /\ report[r].pattern = 0 /\ p \in Made \cap Followed
  /\ report' = [report EXCEPT ![r] =
       [pattern |-> p, failures |-> patterns[p].failures, grade |-> patterns[p].grade]]
  /\ UNCHANGED <<distilled, patterns, distill, streak, lost>>

\* Mutant: the limit itself is still allowed.
TooManyLate(n) == n > FailureLimit

TooMany(n) == n >= FailureLimit

ReportFailed(r) ==
  LET p == report[r].pattern
      n == report[r].failures + 1
  IN
  /\ p # 0 /\ streak[p] < MaxStreak /\ n <= MaxStreak
  /\ patterns' = [patterns EXCEPT ![p].failures = n,
       ![p].grade = IF TooMany(n) /\ report[r].grade # "SHADOW" THEN "SUGGEST" ELSE @]
  /\ streak' = [streak EXCEPT ![p] = @ + 1]
  /\ lost' = [lost EXCEPT ![p] = IF patterns[p].failures > report[r].failures
                                 THEN @ + patterns[p].failures - report[r].failures ELSE @]
  /\ report' = [report EXCEPT ![r] = NoReport]
  /\ UNCHANGED <<distilled, distill>>

ReportSucceeded(r) ==
  LET p == report[r].pattern IN
  /\ p # 0
  /\ patterns' = [patterns EXCEPT ![p].failures = 0]
  /\ streak' = [streak EXCEPT ![p] = 0] /\ lost' = [lost EXCEPT ![p] = 0]
  /\ report' = [report EXCEPT ![r] = NoReport]
  /\ UNCHANGED <<distilled, distill>>

\* decayStalePatterns: those whose last confirmation is long ago
Decay ==
  /\ \E S \in SUBSET {p \in Made : patterns[p].grade # "SHADOW"} :
       /\ S # {}
       /\ patterns' = [p \in Made |->
            IF p \in S THEN [patterns[p] EXCEPT !.grade = "SHADOW"] ELSE patterns[p]]
  /\ UNCHANGED <<distilled, distill, report, streak, lost>>

Init ==
  /\ distilled = {} /\ patterns = << >>
  /\ distill = [d \in Distills |-> Idle] /\ report = [r \in Reports |-> NoReport]
  /\ streak = << >> /\ lost = << >>

Next ==
  \/ Decay
  \/ \E d \in Distills : Read(d) \/ EndDistil(d) \/ \E g \in Groups : Distil(d, g)
  \/ \E r \in Reports : ReportFailed(r) \/ ReportSucceeded(r) \/ \E p \in Made : ReadPattern(r, p)

Spec == Init /\ [][Next]_evolutionVars
-----------------------------------------------------------------------------
(* Properties *)

TypeOK ==
  /\ distilled \subseteq Experiences
  /\ \A p \in Made : patterns[p].grade \in Grades /\ patterns[p].failures \in Nat
                     /\ patterns[p].sample \subseteq distilled
  /\ DOMAIN streak = Made /\ DOMAIN lost = Made
  /\ \A r \in Reports : report[r].pattern = 0 \/ report[r].pattern \in Made

\* A pattern that decides by itself has not failed three times in a row, but
\* for the failures that a report running at the same time wrote over.
FailingIsDemoted ==
  \A p \in Made : patterns[p].grade = "AUTO" => streak[p] < FailureLimit + lost[p]
=============================================================================
