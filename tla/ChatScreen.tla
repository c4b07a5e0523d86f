----------------------------- MODULE ChatScreen -----------------------------
(***************************************************************************)
(* The chat page of the consumer portal (screen-chat.tsx, use-chat-sse.ts): *)
(* the events of a case's stream and the bubbles they become. An answer     *)
(* comes in pieces, which are gathered in a buffer and shown at most once    *)
(* in 50 ms.                                                                *)
(*                                                                         *)
(* The pieces are numbered as they arrive, so that the buffer, and what a   *)
(* bubble shows of it, is an interval <<from, to>>: the pieces after from,   *)
(* up to to. Several answers may be under way, and one that fails ends with  *)
(* an escalation in place of "done". An update of the messages is applied    *)
(* when it is issued: React queues the updates in the order of the events.   *)
(***************************************************************************)
EXTENDS Naturals, Sequences

CONSTANTS
  MaxPieces,   \* bound of the model: pieces that arrive
  MaxBubbles   \* bound of the model: bubbles on the page

VARIABLES
  connected,   \* the stream of the case is open
  arrived,     \* pieces that have arrived
  start,       \* the buffer holds the pieces after start
  pending,     \* pendingStreamUpdate
  timer,       \* streamThrottleRef is set
  bubbles,     \* messages: who speaks, the interval shown, still streaming
  typing, escalated

chatVars == <<connected, arrived, start, pending, timer, bubbles, typing, escalated>>

Other == [agent |-> FALSE, from |-> 0, to |-> 0, streaming |-> FALSE]
Piece(from, to) == [agent |-> TRUE, from |-> from, to |-> to, streaming |-> TRUE]

Add(b) == Len(bubbles) < MaxBubbles /\ bubbles' = Append(bubbles, b)

\* Mutant: any last bubble of the agent is written over.
ContinuesAny == bubbles # <<>> /\ bubbles[Len(bubbles)].agent

\* The last bubble is the answer that is being streamed.
Continues == bubbles # <<>> /\ bubbles[Len(bubbles)].streaming

\* flush: the buffer is shown in the last bubble, or in a new one.
Show(to) ==
  IF Continues
  THEN bubbles' = [bubbles EXCEPT ![Len(bubbles)] = Piece(start, to)]
  ELSE Add(Piece(start, to))
-----------------------------------------------------------------------------
\* The stream of the case is opened with a token of its own.
Connect ==
  /\ ~connected /\ connected' = TRUE
  /\ UNCHANGED <<arrived, start, pending, timer, bubbles, typing, escalated>>

Typing ==
  /\ connected /\ typing' = TRUE
  /\ UNCHANGED <<connected, arrived, start, pending, timer, bubbles, escalated>>

\* "message" with a delta: shown at once, or with the timer that is running
Delta ==
  /\ connected /\ arrived < MaxPieces
  /\ arrived' = arrived + 1
  /\ IF timer
     THEN pending' = TRUE /\ UNCHANGED <<timer, bubbles, typing>>
     ELSE pending' = FALSE /\ timer' = TRUE /\ typing' = FALSE /\ Show(arrived + 1)
  /\ UNCHANGED <<connected, start, escalated>>

\* The timer fires: what is pending is shown, or the pause ends.
Timer ==
  /\ timer
  /\ IF pending
     THEN pending' = FALSE /\ typing' = FALSE /\ Show(arrived) /\ UNCHANGED timer
     ELSE timer' = FALSE /\ UNCHANGED <<pending, typing, bubbles>>
  /\ UNCHANGED <<connected, arrived, start, escalated>>

\* "done": the buffer is emptied, whatever is pending, and nothing streams.
Done ==
  /\ connected
  /\ start' = arrived
  /\ bubbles' = [i \in DOMAIN bubbles |-> [bubbles[i] EXCEPT !.streaming = FALSE]]
  /\ typing' = FALSE
  /\ escalated' \in {escalated, TRUE}
  /\ UNCHANGED <<connected, arrived, pending, timer>>

\* "escalation": a line of the system; the buffer stays.
Escalation ==
  /\ connected
  /\ Add(Other) /\ escalated' = TRUE /\ typing' = FALSE
  /\ UNCHANGED <<connected, arrived, start, pending, timer>>

\* A "message" with the analysis of a picture
Media ==
  /\ connected
  /\ Add([Other EXCEPT !.agent = TRUE]) /\ typing' = FALSE
  /\ UNCHANGED <<connected, arrived, start, pending, timer, escalated>>

\* A "message" of the staff has no delta: nothing happens on the page. The
\* consumer's own messages and uploads, and /help, add a line of their own.
Send ==
  /\ Add(Other)
  /\ UNCHANGED <<connected, arrived, start, pending, timer, typing, escalated>>

\* handleEscalate, answered
AskHuman ==
  /\ escalated' = TRUE
  /\ UNCHANGED <<connected, arrived, start, pending, timer, bubbles, typing>>

\* An earlier case is loaded: its stored messages, and a stream of its own.
LoadCase ==
  /\ bubbles' = <<>> /\ connected' = FALSE /\ escalated' \in BOOLEAN
  /\ UNCHANGED <<arrived, start, pending, timer, typing>>
-----------------------------------------------------------------------------
Init ==
  /\ connected = FALSE /\ arrived = 0 /\ start = 0
  /\ pending = FALSE /\ timer = FALSE
  /\ bubbles = <<>> /\ typing = FALSE /\ escalated = FALSE

Next ==
  \/ Connect \/ Typing \/ Delta \/ Timer \/ Done \/ Escalation \/ Media
  \/ Send \/ AskHuman \/ LoadCase

Spec == Init /\ [][Next]_chatVars
-----------------------------------------------------------------------------
(* Properties *)

\* Bubbles show pieces that arrived; what streams is an answer of the agent.
TypeOK ==
  /\ start \in 0..arrived /\ arrived \in 0..MaxPieces
  /\ {connected, pending, timer, typing, escalated} \subseteq BOOLEAN
  /\ \A i \in DOMAIN bubbles :
       /\ bubbles[i].from \in 0..arrived /\ bubbles[i].to \in bubbles[i].from..arrived
       /\ bubbles[i].streaming => bubbles[i].agent
  /\ pending => timer

\* An answer that is finished stays as it is: no later answer, flush or
\* event rewrites its bubble.
FinishedStep ==
  \A i \in DOMAIN bubbles \cap DOMAIN bubbles' :
    ~bubbles[i].streaming /\ bubbles' # <<>> => bubbles'[i] = bubbles[i]
=============================================================================
