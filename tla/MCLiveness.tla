----------------------------- MODULE MCLiveness -----------------------------
(***************************************************************************)
(* Instances for TLC of the three components that retry, under fairness. A  *)
(* run of the model is of one of them, the focus; the others rest in their   *)
(* initial state.                                                          *)
(***************************************************************************)
EXTENDS AgentRun, TLC

CONSTANTS target, Calls, Turns, Clients

ASSUME ClientsAssumption == IsFiniteSet(Clients)

VARIABLES
  focus,
  status, writeback, entries, signals, call, turn, ledger, closes, reopened, caseFaults, crashes,
  pgClient, current, timers, stopping, breaks, late

Case == INSTANCE SupportCase WITH faults <- caseFaults, MaxCloses <- 2, MaxFaults <- 1, MaxCrashes <- 0
Listener == INSTANCE ApprovalListener WITH MaxBreaks <- 2

OneTarget == {target}
AllOneTarget == [i \in Intents |-> target]

caseVars == <<status, writeback, entries, signals, call, turn, ledger, closes, reopened,
              caseFaults, crashes>>
listenerVars == <<pgClient, current, timers, stopping, breaks, late>>
everything == <<focus, vars, caseVars, listenerVars>>

\* The first client is the same one: they differ in nothing.
LiveInit ==
  /\ focus \in {"agent", "case", "listener"}
  /\ Init /\ Case!Init /\ Listener!Init /\ pgClient["k1"] = "connecting"

Agent == focus = "agent" /\ Next /\ UNCHANGED <<focus, caseVars, listenerVars>>
Support == focus = "case" /\ Case!Next /\ UNCHANGED <<focus, vars, listenerVars>>
Listening == focus = "listener" /\ Listener!Next /\ UNCHANGED <<focus, vars, caseVars>>

\* The fairness of each component, while it is the focus
AgentFairness ==
  /\ \A w \in Workers :
       /\ WF_vars(focus = "agent" /\ (Handler(w) \/ DbError(w) \/ Settle(w)))
       /\ WF_vars(focus = "agent" /\ \E j \in JobIds : Fetch(w, j))
  /\ \A j \in JobIds : WF_vars(focus = "agent" /\ Orphan(j) /\ Expire(j))

SupportFairness == \A t \in Turns : WF_caseVars(focus = "case" /\ Case!Turn(t))

ListenerFairness ==
  /\ WF_listenerVars(focus = "listener" /\ Listener!Reconnect)
  /\ \A c \in Clients :
       WF_listenerVars(focus = "listener" /\ (Listener!Listen(c) \/ Listener!ConnectFails(c)))

LiveSpec ==
  /\ LiveInit /\ [][Agent \/ Support \/ Listening]_everything
  /\ AgentFairness /\ SupportFairness /\ ListenerFairness
-----------------------------------------------------------------------------
(* TypeOK, GateSpec and JobsSettle are those of AgentRun. *)

\* A turn that was unsure or failed brings its case to a human.
UnsureReachesHuman == Case!UnsureReachesHuman

\* One client listens, and one more for each end that came late.
ListenersCounted == Listener!ListenersCounted

\* A listener that was lost listens again.
ListenerReturns == []<>(focus # "listener" \/ Listener!Attended)
=============================================================================
