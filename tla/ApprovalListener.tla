-------------------------- MODULE ApprovalListener --------------------------
(***************************************************************************)
(* The LISTEN client that brings the approvals created in the database to   *)
(* the event streams (sse.ts): one client at a time is meant to listen, and *)
(* a client that is lost is replaced after three seconds.                   *)
(*                                                                         *)
(* A client of the pg library (external) that breaks emits "error" and,     *)
(* whenever its socket closes, "end"; one whose connect fails rejects, and  *)
(* may emit "end" too. The payload of a notification is left out.           *)
(***************************************************************************)
EXTENDS Naturals, FiniteSets

CONSTANTS
  Clients,    \* clients ever made: bound of the model
  MaxBreaks   \* bound of the model: failures of a connection

VARIABLES
  pgClient,   \* per client: unused, connecting, listening, broken, ended
  current,    \* listenerClient
  timers,     \* timers that will connect; reconnectTimer is the last of them
  stopping,   \* stopApprovalNotificationListener was called
  breaks,
  late        \* history: "end" events that found no timer pending

listenVars == <<pgClient, current, timers, stopping, breaks, late>>

Nobody == "null"
In(states) == {c \in Clients : pgClient[c] \in states}

\* connect(): a new client, with its three handlers
Connect ==
  \E c \in In({"unused"}) : pgClient' = [pgClient EXCEPT ![c] = "connecting"]

\* Mutant: no look at reconnectTimer.
ScheduledAnyway == timers + 1

\* scheduleReconnect
Scheduled == IF timers > 0 THEN timers ELSE 1
-----------------------------------------------------------------------------
\* The timer fires. Without a client left the model ends here.
Reconnect ==
  /\ timers > 0 /\ timers' = timers - 1
  /\ Connect
  /\ UNCHANGED <<current, stopping, breaks, late>>

\* client.connect() and LISTEN are answered.
Listen(c) ==
  /\ pgClient[c] = "connecting"
  /\ pgClient' = [pgClient EXCEPT ![c] = "listening"]
  /\ current' = c
  /\ UNCHANGED <<timers, stopping, breaks, late>>

\* Mutant: the catch block only prints the error.
GiveUpConnect(c) ==
  /\ pgClient[c] = "connecting" /\ breaks < MaxBreaks
  /\ breaks' = breaks + 1
  /\ pgClient' = [pgClient EXCEPT ![c] = "broken"]
  /\ UNCHANGED <<current, timers, stopping, late>>

\* ... or rejected: the catch block of the caller schedules the next one.
ConnectFails(c) ==
  /\ pgClient[c] = "connecting" /\ breaks < MaxBreaks
  /\ breaks' = breaks + 1
  /\ pgClient' = [pgClient EXCEPT ![c] = "broken"]
  /\ timers' = Scheduled
  /\ UNCHANGED <<current, stopping, late>>

\* "error" of a client that listened
Error(c) ==
  /\ pgClient[c] = "listening" /\ breaks < MaxBreaks
  /\ breaks' = breaks + 1
  /\ pgClient' = [pgClient EXCEPT ![c] = "broken"]
  /\ current' = Nobody
  /\ timers' = Scheduled
  /\ UNCHANGED <<stopping, late>>

\* "end" of a broken client, at any time after, whoever listens by then
End(c) ==
  /\ pgClient[c] = "broken"
  /\ pgClient' = [pgClient EXCEPT ![c] = "ended"]
  /\ current' = Nobody
  /\ timers' = Scheduled
  /\ late' = IF timers = 0 THEN late + 1 ELSE late
  /\ UNCHANGED <<stopping, breaks>>

\* stopApprovalNotificationListener: the client it knows is ended, and the
\* "end" that follows is an End like any other. The process exits soon after.
Stop ==
  /\ ~stopping /\ stopping' = TRUE
  /\ timers' = IF timers > 0 THEN timers - 1 ELSE 0
  /\ pgClient' = IF current = Nobody THEN pgClient ELSE [pgClient EXCEPT ![current] = "broken"]
  /\ current' = Nobody
  /\ UNCHANGED <<breaks, late>>
-----------------------------------------------------------------------------
\* startApprovalNotificationListener
Init ==
  /\ \E c \in Clients : pgClient = [x \in Clients |-> IF x = c THEN "connecting" ELSE "unused"]
  /\ current = Nobody /\ timers = 0 /\ stopping = FALSE
  /\ breaks = 0 /\ late = 0

Next ==
  \/ Reconnect \/ Stop
  \/ \E c \in Clients : Listen(c) \/ ConnectFails(c) \/ Error(c) \/ End(c)

Spec == Init /\ [][Next]_listenVars

\* Timers fire, and a connect is answered or rejected; "end" may never come.
FairSpec ==
  /\ Spec /\ WF_listenVars(Reconnect)
  /\ \A c \in Clients : WF_listenVars(Listen(c) \/ ConnectFails(c))
-----------------------------------------------------------------------------
(* Properties *)

\* listenerClient is a client that listens.
TypeOK ==
  /\ pgClient \in [Clients -> {"unused", "connecting", "listening", "broken", "ended"}]
  /\ current \in Clients \cup {Nobody}
  /\ current # Nobody => pgClient[current] = "listening"
  /\ timers \in Nat /\ breaks \in Nat /\ late \in Nat /\ stopping \in BOOLEAN

\* A notification reaches the streams as often as clients listen: one client,
\* and one more for each "end" that came when the replacement was already on
\* its way. Nothing else doubles the notifications.
ListenersCounted ==
  Cardinality(In({"connecting", "listening"})) + timers <= 1 + late

\* A listener that was lost listens again, as long as the process is not
\* stopped.
Attended == stopping \/ In({"listening"}) # {}
ListenerReturns == []<>Attended
=============================================================================
