---------------------------- MODULE SupportCase ----------------------------
(***************************************************************************)
(* One support case of the consumer portal: the consumer's calls           *)
(* (portal-routes.ts), the agent's turns (portal-agent.ts), which run       *)
(* detached from the call that started them, and the staff's replies and    *)
(* closes (support-routes.ts).                                              *)
(*                                                                         *)
(* Abstractions: texts, confidences (below the threshold or not) and the    *)
(* live notifications are left out; messages are left out, since no step    *)
(* depends on them, but the statements that create them can fail. Rate      *)
(* limits and the loads of a turn only end a handler early. One statement   *)
(* or transaction is one step.                                              *)
(***************************************************************************)
EXTENDS Naturals, FiniteSets

CONSTANTS
  Calls,       \* calls of the API under way at once
  Turns,       \* turns of the agent, none used twice
  MaxCloses,   \* bound of the model: closes that take effect
  MaxFaults,   \* bound of the model: failures of a statement or the model
  MaxCrashes   \* bound of the model: ends of the API process

ASSUME CaseAssumption ==
  MaxCloses \in Nat /\ MaxFaults \in Nat /\ MaxCrashes \in Nat

VARIABLES
  status,      \* SupportCase.status, "none" before the case is opened
  writeback,   \* SupportCase.knowledgeWriteback is set
  entries,     \* knowledge entries made from this case
  signals,     \* FeedbackSignal rows of the consumer
  call,
  turn,
  ledger,      \* the ledger entry of a turn
  closes,      \* history: closes that took effect
  reopened,    \* history: updates that took the case out of "closed"
  faults, crashes

data == <<status, writeback, entries, signals, closes, reopened>>
vars == <<status, writeback, entries, signals, call, turn, ledger, closes,
          reopened, faults, crashes>>

IdleCall == [pc |-> "idle", read |-> "none", flag |-> FALSE]
NewTurn == [pc |-> "none", late |-> FALSE]

Status == {"none", "open", "human_escalated", "closed"}

CallRow == [pc : {"idle", "message", "escalate", "find", "signal", "close"},
            read : Status, flag : BOOLEAN]
TurnRow == [pc : {"none", "load", "stream", "confident", "unsure", "notice", "apology",
                  "giveup", "ended"}, late : BOOLEAN]

Answer(c) == call' = [call EXCEPT ![c] = IdleCall]
\* Mutant: a case that is not there is not refused.
BeginAnyway(c, pc, flag) ==
  /\ call[c].pc = "idle"
  /\ call' = [call EXCEPT ![c] = [pc |-> pc, read |-> status, flag |-> flag]]

Begin(c, pc, flag) ==
  /\ call[c].pc = "idle" /\ status # "none"
  /\ call' = [call EXCEPT ![c] = [pc |-> pc, read |-> status, flag |-> flag]]
Fault == faults < MaxFaults /\ faults' = faults + 1

\* One update by id; the reopening is recorded.
SetEscalated ==
  /\ status' = "human_escalated"
  /\ reopened' = IF status = "closed" THEN reopened + 1 ELSE reopened
  /\ UNCHANGED <<writeback, entries, signals, closes>>

StartTurn(late) ==
  \E t \in Turns :
    /\ turn[t].pc = "none"
    /\ turn' = [turn EXCEPT ![t] = [pc |-> "load", late |-> late]]
-----------------------------------------------------------------------------
(* The consumer's calls *)

\* POST /cases
Open ==
  /\ status = "none" /\ status' = "open"
  /\ StartTurn(FALSE)
  /\ UNCHANGED <<writeback, entries, signals, closes, reopened, call, ledger, faults, crashes>>

\* POST /cases/:id/messages reads the status; a closed case answers 400.
ReadMessage(c) ==
  /\ Begin(c, "message", FALSE)
  /\ status # "closed"
  /\ UNCHANGED <<data, turn, ledger, faults, crashes>>

\* The message is created; then a turn starts if the status read was open.
CreateMessage(c) ==
  /\ call[c].pc = "message"
  /\ IF call[c].read = "human_escalated" THEN UNCHANGED turn
     ELSE StartTurn(call[c].read = "closed")
  /\ Answer(c)
  /\ UNCHANGED <<data, ledger, faults, crashes>>

\* POST /cases/:id/escalate
ReadEscalate(c) ==
  /\ Begin(c, "escalate", FALSE)
  /\ status \notin {"human_escalated", "closed"}
  /\ UNCHANGED <<data, turn, ledger, faults, crashes>>

\* POST /cases/:id/feedback: the case, then an earlier signal.
ReadFeedback(c) ==
  /\ \E resolved \in BOOLEAN : Begin(c, "find", resolved)
  /\ UNCHANGED <<data, turn, ledger, faults, crashes>>

FindSignal(c) ==
  /\ call[c].pc = "find"
  /\ IF signals > 0 THEN Answer(c) ELSE call' = [call EXCEPT ![c].pc = "signal"]
  /\ UNCHANGED <<data, turn, ledger, faults, crashes>>

\* Mutant: only an escalated case is left alone.
NeedsHumanIfNotEscalated(c) == ~call[c].flag /\ call[c].read # "human_escalated"

NeedsHuman(c) ==
  ~call[c].flag /\ call[c].read \notin {"human_escalated", "closed"}

\* The signal, and for an unresolved case an escalation nobody awaits.
CreateSignal(c) ==
  /\ call[c].pc = "signal"
  /\ signals' = signals + 1
  /\ IF NeedsHuman(c) THEN call' = [call EXCEPT ![c].pc = "escalate"] ELSE Answer(c)
  /\ UNCHANGED <<status, writeback, entries, closes, reopened, turn, ledger, faults, crashes>>

\* escalateToHuman of a call; the notice that follows changes no state here.
Escalate(c) ==
  /\ call[c].pc = "escalate"
  /\ SetEscalated /\ Answer(c)
  /\ UNCHANGED <<turn, ledger, faults, crashes>>
-----------------------------------------------------------------------------
(* The staff's calls *)

\* POST /cases/:id/reply: whatever the status; the writeback is optional.
Reply ==
  /\ status # "none"
  /\ writeback' = TRUE
  /\ UNCHANGED <<status, entries, signals, closes, reopened, call, turn, ledger, faults, crashes>>

\* POST /cases/:id/close: the checks, on a status read before the transaction
ReadClose(c) ==
  /\ \E wb \in BOOLEAN : Begin(c, "close", wb) /\ (status = "human_escalated" => wb)
  /\ status # "closed"
  /\ UNCHANGED <<data, turn, ledger, faults, crashes>>

\* Mutant: the update does not ask for the status.
CloseableAnyway == closes < MaxCloses

\* updateMany ... status: { not: 'closed' }
Closeable == closes < MaxCloses /\ status # "closed"

\* The transaction: the case and the knowledge entry, or a 409.
Close(c) ==
  /\ call[c].pc = "close"
  /\ Answer(c)
  /\ IF Closeable
     THEN /\ status' = "closed"
          /\ writeback' = (writeback \/ call[c].flag)
          /\ entries' = IF call[c].flag THEN entries + 1 ELSE entries
          /\ closes' = closes + 1
          /\ UNCHANGED <<signals, reopened>>
     ELSE UNCHANGED data
  /\ UNCHANGED <<turn, ledger, faults, crashes>>
-----------------------------------------------------------------------------
(* handleConsumerMessage *)

Goto(t, pc) == turn' = [turn EXCEPT ![t].pc = pc]
TurnStep(t, from) == turn[t].pc = from /\ UNCHANGED <<call, crashes>>

\* The policy, the context, the knowledge: before the try block.
Load(t) ==
  /\ TurnStep(t, "load")
  /\ Goto(t, "stream")
  /\ UNCHANGED <<data, ledger, faults>>

\* The answer of the model, confident or not, and the two writes of it
Stream(t) ==
  /\ TurnStep(t, "stream")
  /\ Goto(t, "confident") \/ Goto(t, "unsure")
  /\ UNCHANGED <<data, ledger, faults>>

\* The reply and agentConfidence are written; the ledger entry is not awaited.
Finish(t) ==
  /\ TurnStep(t, "confident")
  /\ Goto(t, "ended")
  /\ ledger' \in {ledger, [ledger EXCEPT ![t] = "success"]}
  /\ UNCHANGED <<data, faults>>

\* escalateToHuman after a reply with a low confidence: the update
EscalateTurn(t) ==
  /\ TurnStep(t, "unsure")
  /\ SetEscalated
  /\ Goto(t, "notice")
  /\ UNCHANGED <<ledger, faults>>

\* ... and the notice
Notice(t) ==
  /\ TurnStep(t, "notice")
  /\ Goto(t, "ended")
  /\ ledger' \in {ledger, [ledger EXCEPT ![t] = "escalated"]}
  /\ UNCHANGED <<data, faults>>

\* Mutant: the catch block only apologizes.
ApologizeOnly(t) ==
  /\ TurnStep(t, "apology")
  /\ Goto(t, "ended")
  /\ ledger' \in {ledger, [ledger EXCEPT ![t] = "failed"]}
  /\ UNCHANGED <<data, faults>>

\* The catch block: the apology and the ledger entry, then the escalation
Apologize(t) ==
  /\ TurnStep(t, "apology")
  /\ Goto(t, "giveup")
  /\ ledger' \in {ledger, [ledger EXCEPT ![t] = "failed"]}
  /\ UNCHANGED <<data, faults>>

GiveUp(t) ==
  /\ TurnStep(t, "giveup")
  /\ SetEscalated
  /\ Goto(t, "ended")
  /\ UNCHANGED <<ledger, faults>>

\* A statement or the model fails. Inside the try block the turn goes to the
\* catch block; before it and in the catch block the error ends the turn and
\* is only printed. A call answers 500.
Fails ==
  /\ Fault
  /\ \/ /\ \E t \in Turns :
             \/ turn[t].pc \in {"stream", "confident", "unsure", "notice"} /\ Goto(t, "apology")
             \/ turn[t].pc \in {"load", "apology", "giveup"} /\ Goto(t, "ended")
        /\ UNCHANGED call
     \/ \E c \in Calls : call[c].pc # "idle" /\ Answer(c) /\ UNCHANGED turn
  /\ UNCHANGED <<data, ledger, crashes>>

\* The API process ends: its calls and turns are gone.
Crash ==
  /\ crashes < MaxCrashes /\ crashes' = crashes + 1
  /\ call' = [c \in Calls |-> IdleCall]
  /\ turn' = [t \in Turns |-> IF turn[t].pc = "none" THEN turn[t]
                              ELSE [turn[t] EXCEPT !.pc = "ended"]]
  /\ UNCHANGED <<data, ledger, faults>>
-----------------------------------------------------------------------------
Init ==
  /\ status = "none" /\ writeback = FALSE
  /\ entries = 0 /\ signals = 0 /\ closes = 0 /\ reopened = 0
  /\ call = [c \in Calls |-> IdleCall]
  /\ turn = [t \in Turns |-> NewTurn]
  /\ ledger = [t \in Turns |-> "none"]
  /\ faults = 0 /\ crashes = 0

Call(c) ==
  \/ ReadMessage(c) \/ CreateMessage(c) \/ ReadEscalate(c) \/ ReadFeedback(c)
  \/ FindSignal(c) \/ CreateSignal(c) \/ Escalate(c) \/ ReadClose(c) \/ Close(c)

Turn(t) ==
  \/ Load(t) \/ Stream(t) \/ Finish(t) \/ EscalateTurn(t) \/ Notice(t)
  \/ Apologize(t) \/ GiveUp(t)

Next ==
  \/ Open \/ Reply \/ Fails \/ Crash
  \/ \E c \in Calls : Call(c)
  \/ \E t \in Turns : Turn(t)

Spec == Init /\ [][Next]_vars

\* A turn that was started runs on: it awaits answers that come or fail.
FairSpec == Spec /\ \A t \in Turns : WF_vars(Turn(t))
-----------------------------------------------------------------------------
(* Properties *)

\* The shape of the rows and handlers; a call under way has found the case.
TypeOK ==
  /\ status \in Status /\ writeback \in BOOLEAN
  /\ entries \in Nat /\ signals \in Nat /\ closes \in Nat /\ reopened \in Nat
  /\ call \in [Calls -> CallRow]
  /\ \A c \in Calls : call[c].pc # "idle" => call[c].read # "none"
  /\ turn \in [Turns -> TurnRow]
  /\ ledger \in [Turns -> {"none", "success", "escalated", "failed"}]
  /\ faults \in Nat /\ crashes \in Nat

\* A case gives one knowledge entry: two staff members who close it at once,
\* with any statuses read before, leave one entry, and only an escalation that
\* reopened the case allows another.
WritebackOnce == entries <= 1 + reopened

\* A closed case is reopened only by a handler that began before the close:
\* no call that finds the case closed, and no turn of such a call, takes it
\* out of "closed".
ClosedStaysClosed ==
  [][status = "closed" /\ status' # "closed" =>
       \/ \E c \in Calls : call'[c] # call[c] /\ call[c].read # "closed"
       \/ \E t \in Turns : turn'[t] # turn[t] /\ ~turn[t].late]_vars

\* An answer below the threshold, or a turn that failed, brings the case to a
\* human, when one thing goes wrong on the way and the process lives.
UnsureReachesHuman ==
  \A t \in Turns :
    turn[t].pc \in {"unsure", "apology"} ~> status = "human_escalated"

\* apps/web/app/support/page.tsx:784 "Knowledge writeback required to close
\* escalated cases": an escalated case that is closed has its writeback.
EscalatedNeedsWriteback ==
  [][status = "human_escalated" /\ status' = "closed" => writeback']_vars
=============================================================================
