------------------------------ MODULE Maturity ------------------------------
(***************************************************************************)
(* The maturity of tenants, harness-maturity-engine.ts: the score computed    *)
(* from what a tenant knows and was told, the autonomy it earns, and the      *)
(* ceiling an administrator may put on it (PATCH /maturity). The daily job    *)
(* has several workers that take tenants off one list; a recalculation       *)
(* asked for is one more. Between the reads of a recalculation and its write  *)
(* everything may change.                                                   *)
(***************************************************************************)
EXTENDS Naturals

CONSTANTS
  Owners,      \* the tenants
  Daily,       \* the workers of the daily job
  Asked,       \* recalculations asked for one tenant
  Tiers,       \* AAL_TIERS: levels 0..Tiers, from guided to autonomous
  NoCeiling    \* autonomyOverride is null: above every level

VARIABLES
  earned,      \* the level that the tenant's counts give
  row,         \* TenantMaturity: exists, level, ceiling
  list,        \* uniqueIds from idx on
  recalc,      \* each worker: where it is, its tenant, and what it has read
  jobRuns      \* the daily job is under way

maturityVars == <<earned, row, list, recalc, jobRuns>>

Workers == Daily \cup Asked
NoRow == [exists |-> FALSE, level |-> 0, ceiling |-> NoCeiling]
Free == [pc |-> "free", owner |-> "none", earned |-> 0, ceiling |-> NoCeiling]

\* Mutant: the indices are compared the wrong way round.
Raised(computed, ceiling) == IF ceiling \in computed..Tiers THEN ceiling ELSE computed

\* The ceiling lowers a level and never raises it.
Effective(computed, ceiling) == IF ceiling < computed THEN ceiling ELSE computed
-----------------------------------------------------------------------------
\* A case is resolved, an entry decays: the counts change.
Learn(t) ==
  /\ \E n \in 0..Tiers : n # earned[t] /\ earned' = [earned EXCEPT ![t] = n]
  /\ UNCHANGED <<row, list, recalc, jobRuns>>

\* PATCH /maturity: sets or lifts the ceiling, and leaves the level alone.
SetCeiling(t) ==
  /\ \E c \in 0..Tiers \cup {NoCeiling} :
       row' = [row EXCEPT ![t].ceiling = c, ![t].exists = TRUE]
  /\ UNCHANGED <<earned, list, recalc, jobRuns>>

\* runDailyMaturityJob: the tenants that there are, in some order
StartJob ==
  /\ ~jobRuns /\ jobRuns' = TRUE
  /\ list' = Owners
  /\ UNCHANGED <<earned, row, recalc>>

\* uniqueIds[idx++]: the test and the increment have no await between them.
Take(w) ==
  /\ jobRuns /\ w \in Daily /\ recalc[w].pc = "free"
  /\ \E t \in list :
       /\ list' = list \ {t}
       /\ recalc' = [recalc EXCEPT ![w] = [Free EXCEPT !.pc = "counts", !.owner = t]]
  /\ UNCHANGED <<earned, row, jobRuns>>

\* POST /maturity/recalculate
Ask(w, t) ==
  /\ w \in Asked /\ recalc[w].pc = "free"
  /\ recalc' = [recalc EXCEPT ![w] = [Free EXCEPT !.pc = "counts", !.owner = t]]
  /\ UNCHANGED <<earned, row, list, jobRuns>>

\* recalculateTMS
Count(w) ==
  /\ recalc[w].pc = "counts"
  /\ recalc' = [recalc EXCEPT ![w].pc = "ceiling", ![w].earned = earned[recalc[w].owner]]
  /\ UNCHANGED <<earned, row, list, jobRuns>>

ReadCeiling(w) ==
  /\ recalc[w].pc = "ceiling"
  /\ recalc' = [recalc EXCEPT ![w].pc = "write", ![w].ceiling = row[recalc[w].owner].ceiling]
  /\ UNCHANGED <<earned, row, list, jobRuns>>

\* The upsert writes the level, never the ceiling.
Write(w) ==
  /\ recalc[w].pc = "write"
  /\ row' = [row EXCEPT ![recalc[w].owner] =
               [exists |-> TRUE, ceiling |-> @.ceiling,
                level |-> Effective(recalc[w].earned, recalc[w].ceiling)]]
  /\ recalc' = [recalc EXCEPT ![w] = Free]
  /\ UNCHANGED <<earned, list, jobRuns>>

\* A query fails: the worker goes on with the next tenant.
Fail(w) ==
  /\ recalc[w].pc # "free"
  /\ recalc' = [recalc EXCEPT ![w] = Free]
  /\ UNCHANGED <<earned, row, list, jobRuns>>

EndJob ==
  /\ jobRuns /\ list = {} /\ \A w \in Daily : recalc[w].pc = "free"
  /\ jobRuns' = FALSE
  /\ UNCHANGED <<earned, row, list, recalc>>

Init ==
  /\ earned = [t \in Owners |-> 0] /\ row = [t \in Owners |-> NoRow]
  /\ list = {} /\ recalc = [w \in Workers |-> Free]
  /\ jobRuns = FALSE

Next ==
  \/ StartJob \/ EndJob
  \/ \E t \in Owners : Learn(t) \/ SetCeiling(t) \/ \E w \in Workers : Ask(w, t)
  \/ \E w \in Workers : Take(w) \/ Count(w) \/ ReadCeiling(w) \/ Write(w) \/ Fail(w)

Spec == Init /\ [][Next]_maturityVars
-----------------------------------------------------------------------------
(* Properties *)

TypeOK ==
  /\ earned \in [Owners -> 0..Tiers] /\ list \subseteq Owners /\ jobRuns \in BOOLEAN
  /\ \A t \in Owners : row[t].level \in 0..Tiers /\ row[t].ceiling \in 0..Tiers \cup {NoCeiling}
  /\ \A w \in Workers : recalc[w].pc # "free" => recalc[w].owner \in Owners

\* A recalculation leaves a level that a ceiling allowed when it was read: no
\* tenant is left above the ceiling except by a recalculation that had read the
\* ceiling before it was lowered, or before its first recalculation after that.
RaiseStep ==
  \A t \in Owners :
    row'[t].level > row[t].level /\ row'[t].level > row[t].ceiling
      => \E w \in Workers : /\ recalc[w].owner = t /\ recalc[w].pc = "write"
                            /\ recalc[w].ceiling # row[t].ceiling
=============================================================================
