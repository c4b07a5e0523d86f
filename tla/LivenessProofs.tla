--------------------------- MODULE LivenessProofs ---------------------------
(***************************************************************************)
(* What is proved of the components that MCLiveness runs under fairness:    *)
(* the number of clients that listen for approvals, whatever the order of   *)
(* errors, ends, timers and the stop of the process. That a lost listener   *)
(* comes back, that jobs settle and that an unsure turn reaches a human are *)
(* liveness, which TLC checks.                                              *)
(***************************************************************************)
EXTENDS MCLiveness, FiniteSetTheorems, TLAPS

\* The clients that are, or are about to be, one more listener.
Live == Listener!In({"connecting", "listening"})
ListenerTyped ==
  /\ pgClient \in [Clients -> {"unused", "connecting", "listening", "broken", "ended"}]
  /\ timers \in Nat /\ late \in Nat

ListenerInv == ListenerTyped /\ Cardinality(Live) + timers <= 1 + late

LEMMA LiveFinite ==
  /\ IsFiniteSet(Live) /\ Cardinality(Live) \in Nat
  /\ IsFiniteSet(Live') /\ Cardinality(Live') \in Nat
<1>1. Live \subseteq Clients /\ Live' \subseteq Clients
  BY DEF Live, Listener!In
<1> QED BY <1>1, ClientsAssumption, FS_Subset, FS_CardinalityType DEF ClientsAssumption

\* A client that breaks or ends is not one listener more.
LEMMA LiveFewer ==
  ASSUME ListenerTyped, NEW c \in Clients, NEW st \in {"broken", "ended"},
         pgClient' = [pgClient EXCEPT ![c] = st]
  PROVE  /\ Cardinality(Live') <= Cardinality(Live)
         /\ c \in Live => Cardinality(Live') <= Cardinality(Live) - 1
<1>1. Live' \subseteq Live \ {c}
  BY DEF ListenerTyped, Live, Listener!In
<1>2. Cardinality(Live') <= Cardinality(Live)
  BY <1>1, LiveFinite, FS_Subset
<1>3. CASE c \in Live
  <2>1. IsFiniteSet(Live \ {c}) /\ Cardinality(Live \ {c}) = Cardinality(Live) - 1
    BY <1>3, LiveFinite, FS_RemoveElement
  <2>2. Cardinality(Live') <= Cardinality(Live \ {c})
    BY <1>1, <2>1, FS_Subset
  <2> QED BY <1>2, <2>1, <2>2
<1> QED BY <1>2, <1>3

LEMMA ListenerStep ==
  ASSUME ListenerInv, Listener!Next
  PROVE  ListenerInv'
<1> USE DEF ListenerInv, ListenerTyped
<1>1. Cardinality(Live) \in Nat /\ Cardinality(Live') \in Nat /\ IsFiniteSet(Live)
  BY LiveFinite
<1>2. CASE Listener!Reconnect
  <2>1. PICK c \in Listener!In({"unused"}) : pgClient' = [pgClient EXCEPT ![c] = "connecting"]
    BY <1>2 DEF Listener!Reconnect, Listener!Connect
  <2>2. c \in Clients /\ c \notin Live /\ Live' = Live \cup {c}
    BY <2>1 DEF Live, Listener!In
  <2>3. Cardinality(Live') = Cardinality(Live) + 1
    BY <1>1, <2>2, FS_AddElement
  <2>4. ListenerTyped'
    BY <1>2, <2>1, <2>2 DEF Listener!Reconnect
  <2> QED BY <1>1, <1>2, <2>3, <2>4 DEF Listener!Reconnect
<1>3. ASSUME NEW c \in Clients, Listener!Listen(c)
      PROVE  ListenerInv'
  <2>1. Live' = Live
    BY <1>3 DEF Listener!Listen, Live, Listener!In
  <2> QED BY <1>3, <2>1 DEF Listener!Listen
<1>4. ASSUME NEW c \in Clients, Listener!ConnectFails(c)
      PROVE  ListenerInv'
  <2>1. c \in Live
    BY <1>4 DEF Listener!ConnectFails, Live, Listener!In
  <2>2. Cardinality(Live') <= Cardinality(Live) - 1
    BY <1>4, <2>1, LiveFewer DEF Listener!ConnectFails
  <2> QED BY <1>1, <1>4, <2>2 DEF Listener!ConnectFails, Listener!Scheduled
<1>5. ASSUME NEW c \in Clients, Listener!Error(c)
      PROVE  ListenerInv'
  <2>1. c \in Live
    BY <1>5 DEF Listener!Error, Live, Listener!In
  <2>2. Cardinality(Live') <= Cardinality(Live) - 1
    BY <1>5, <2>1, LiveFewer DEF Listener!Error
  <2> QED BY <1>1, <1>5, <2>2 DEF Listener!Error, Listener!Scheduled
<1>6. ASSUME NEW c \in Clients, Listener!End(c)
      PROVE  ListenerInv'
  <2>1. Cardinality(Live') <= Cardinality(Live)
    BY <1>6, LiveFewer DEF Listener!End
  <2> QED BY <1>1, <1>6, <2>1 DEF Listener!End, Listener!Scheduled
<1>7. CASE Listener!Stop
  <2>1. timers' \in Nat /\ timers' <= timers /\ late' = late
    BY <1>7 DEF Listener!Stop
  <2>2. CASE pgClient' = pgClient
    <3>1. Live' = Live
      BY <2>2 DEF Live, Listener!In
    <3> QED BY <1>1, <2>1, <2>2, <3>1
  <2>3. ASSUME current \in Clients, pgClient' = [pgClient EXCEPT ![current] = "broken"]
        PROVE  ListenerInv'
    <3>1. Cardinality(Live') <= Cardinality(Live)
      BY <2>3, LiveFewer
    <3> QED BY <1>1, <2>1, <2>3, <3>1
  <2>4. CASE current \notin Clients
    <3>1. pgClient' = pgClient
      BY <1>7, <2>4 DEF Listener!Stop
    <3> QED BY <2>2, <3>1
  <2> QED BY <1>7, <2>2, <2>3, <2>4 DEF Listener!Stop
<1> QED BY <1>2, <1>3, <1>4, <1>5, <1>6, <1>7 DEF Listener!Next

LEMMA ListenerInvariant == LiveSpec => []ListenerInv
<1>1. LiveInit => ListenerInv
  <2> SUFFICES ASSUME LiveInit PROVE ListenerInv
    OBVIOUS
  <2>1. /\ timers = 0 /\ late = 0
        /\ \E c \in Clients :
             pgClient = [x \in Clients |-> IF x = c THEN "connecting" ELSE "unused"]
    BY DEF LiveInit, Listener!Init
  <2>2. PICK c \in Clients :
          pgClient = [x \in Clients |-> IF x = c THEN "connecting" ELSE "unused"]
    BY <2>1
  <2>3. Live = {c}
    BY <2>2 DEF Live, Listener!In
  <2>4. Cardinality(Live) = 1
    BY <2>3, FS_Singleton
  <2> QED BY <2>1, <2>2, <2>4 DEF ListenerInv, ListenerTyped
<1>2. ListenerInv /\ [Agent \/ Support \/ Listening]_everything => ListenerInv'
  <2> SUFFICES ASSUME ListenerInv, [Agent \/ Support \/ Listening]_everything
               PROVE  ListenerInv'
    OBVIOUS
  <2>1. CASE Listener!Next
    BY <2>1, ListenerStep
  <2>2. CASE UNCHANGED listenerVars
    BY <2>2 DEF listenerVars, ListenerInv, ListenerTyped, Live, Listener!In
  <2> QED BY <2>1, <2>2 DEF Agent, Support, Listening, everything
<1> QED BY <1>1, <1>2, PTL DEF LiveSpec

\* As many clients listen as were made by one start of the process and by the
\* ends that came late, and no more: no order of errors, rejected connects,
\* timers, late ends and a stop doubles the notifications otherwise (connect,
\* scheduleReconnect and the handlers of sse.ts).
THEOREM ListenersBounded == LiveSpec => []ListenersCounted
<1>1. ListenerInv => ListenersCounted
  BY DEF ListenerInv, Live, ListenersCounted, Listener!ListenersCounted, Cardinality,
         Listener!Cardinality
<1> QED BY <1>1, ListenerInvariant, PTL
=============================================================================
