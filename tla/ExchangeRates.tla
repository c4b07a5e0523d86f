----------------------------- MODULE ExchangeRates -----------------------------
(***************************************************************************)
(* Exchange rates: the daily snapshots, their monthly averages and the purge, *)
(* exchange-rate-routes.ts, and the timers of startExchangeRateCron in        *)
(* server.ts. Time passes in days; what a day has to do is done in any order  *)
(* before it ends. The timers are lost with the process. A year has Months    *)
(* months of Length days, and the averages are made on the Second of a month. *)
(***************************************************************************)
EXTENDS Integers, FiniteSets

CONSTANTS Months, Length, MaxDay

VARIABLES
  today,      \* days since the start
  up,         \* the process runs
  dailyDue,   \* the daily timer has fired today and its sync is not over
  monthly,    \* the monthly timer: how it was set, and the day it fires
  snapshots,  \* days that have a snapshot
  averages,   \* the averages: month of which year, and the days they are made of
  absent      \* history: late days on which the process did not run
              \* from the first moment to the last, or the run failed

rateVars == <<today, up, dailyDue, monthly, snapshots, averages, absent>>

Second == 1
Year(d) == (d \div Length) \div Months
Month(d) == (d \div Length) % Months
DayOfMonth(d) == d % Length
DaysOf(year, month) == {d \in 0..MaxDay : Year(d) = year /\ Month(d) = month}

\* msUntilNext: the Second of this month if it is still to come, or of the next
NextSecond(d) ==
  LET this == d - DayOfMonth(d) + Second IN IF this > d THEN this ELSE this + Length

Sooner(a, b) == IF a < b THEN a ELSE b

\* scheduleMonthly: no timer is longer than a day, so one that is due later is
\* set again.
Schedule(d) ==
  IF NextSecond(d) - d > 1 THEN [how |-> "again", at |-> d + 1] ELSE [how |-> "run", at |-> NextSecond(d)]

\* The month before, of the year before in the first month.
PreviousMonth(d) ==
  IF Month(d) = 0 THEN [year |-> Year(d) - 1, month |-> Months - 1]
                  ELSE [year |-> Year(d), month |-> Month(d) - 1]
-----------------------------------------------------------------------------
\* syncExchangeRates: a day has one row for each pair of currencies. Old rows
\* are purged after a sync that stored any.
Kept(days) == {d \in days : d >= today - Months * Length}

Sync ==
  /\ up /\ dailyDue /\ dailyDue' = FALSE
  /\ snapshots' = Kept(snapshots \cup {today})
  /\ UNCHANGED <<today, up, monthly, averages, absent>>

\* The provider or the database fails, or no configuration is enabled.
SyncFails ==
  /\ up /\ dailyDue /\ dailyDue' = FALSE
  /\ UNCHANGED <<today, up, monthly, snapshots, averages, absent>>

\* POST /sync of an administrator
SyncByHand ==
  /\ up /\ snapshots' = snapshots \cup {today}
  /\ UNCHANGED <<today, up, dailyDue, monthly, averages, absent>>

\* calculateMonthlyAvg: nothing is stored for a month without a snapshot.
Average(d) ==
  LET p == PreviousMonth(d)
      days == snapshots \cap DaysOf(p.year, p.month) IN
  IF days = {} THEN averages
  ELSE {a \in averages : <<a.year, a.month>> # <<p.year, p.month>>}
         \cup {[year |-> p.year, month |-> p.month, days |-> days]}

MonthlyAgain ==
  /\ up /\ monthly.at = today /\ monthly.how = "again"
  /\ monthly' = Schedule(today)
  /\ UNCHANGED <<today, up, dailyDue, snapshots, averages, absent>>

\* Mutant: the next run is a year of days away.
NextRunLate(d) == d + Months * Length

\* Once it has run, the timer runs again after a day at the latest.
NextRun(d) == Sooner(NextSecond(d), d + 1)

MonthlyRun ==
  /\ up /\ monthly.at = today /\ monthly.how = "run"
  /\ averages' = Average(today)
  /\ monthly' = [how |-> "run", at |-> NextRun(today)]
  /\ UNCHANGED <<today, up, dailyDue, snapshots, absent>>

\* The database fails: the error is logged and the next run is set all the same.
MonthlyFails ==
  /\ up /\ monthly.at = today /\ monthly.how = "run"
  /\ monthly' = [how |-> "run", at |-> NextRun(today)]
  /\ absent' = absent \cup {today}
  /\ UNCHANGED <<today, up, dailyDue, snapshots, averages>>

Stop ==
  /\ up /\ up' = FALSE /\ dailyDue' = FALSE
  /\ absent' = absent \cup {today}
  /\ UNCHANGED <<today, monthly, snapshots, averages>>

Start ==
  /\ ~up /\ up' = TRUE
  /\ monthly' = Schedule(today) /\ absent' = absent \cup {today}
  /\ UNCHANGED <<today, dailyDue, snapshots, averages>>

Midnight ==
  /\ today < MaxDay /\ ~dailyDue /\ ~(up /\ monthly.at = today)
  /\ today' = today + 1 /\ dailyDue' = up
  /\ absent' = {d \in absent \cup (IF up THEN {} ELSE {today}) : d + Length >= today}
  /\ UNCHANGED <<up, monthly, snapshots, averages>>

Init ==
  /\ today = 0 /\ up = TRUE /\ dailyDue = FALSE /\ monthly = Schedule(0)
  /\ snapshots = {} /\ averages = {} /\ absent = {}

Next ==
  \/ Sync \/ SyncFails \/ SyncByHand \/ MonthlyAgain \/ MonthlyRun \/ MonthlyFails
  \/ Stop \/ Start \/ Midnight

Spec == Init /\ [][Next]_rateVars
-----------------------------------------------------------------------------
(* Properties *)

TypeOK ==
  /\ today \in 0..MaxDay /\ snapshots \subseteq 0..today /\ absent \subseteq 0..today
  /\ \A a \in averages : a.month \in 0..(Months - 1) /\ a.days # {}

\* A month with a snapshot has its average once the Second of the next month
\* is over, if the process ran from the first to the last moment of that day; and
\* no snapshot of the month that is still kept is missing from it.
AveragedAfterSecond ==
  \A d \in snapshots :
    LET due == d - DayOfMonth(d) + Length + Second IN
    due + 1 = today /\ due \notin absent =>
      \E a \in averages : a.year = Year(d) /\ a.month = Month(d) /\ d \in a.days
=============================================================================
