----------------------------- MODULE SupportDesk -----------------------------
(***************************************************************************)
(* The page of the support desk (web/app/support/page.tsx) over the cases of  *)
(* the portal: the case an operator selects, the one the page shows, and the  *)
(* stream of events that makes it fetch the case again.                     *)
(*                                                                         *)
(* Answers come in any order. The answer to a selection is dropped when       *)
(* another case was selected meanwhile; that to an update is not. Of the      *)
(* events of the chat the page hears the messages and escalations: the end   *)
(* of an agent's answer, after which that answer is stored, it does not hear, *)
(* nor are the messages of consumers announced.                             *)
(***************************************************************************)
EXTENDS Naturals

CONSTANTS
  Cases, None,
  Fetches,      \* requests the page has under way at once
  MaxChanges    \* bound of the model: changes of the cases

VARIABLES
  stored,    \* the number of changes of each case that were written
  selected,  \* selectedId
  shown,     \* selectedTicket: the case, and how much of it was written then
  stream,    \* the case whose events the page listens to
  fetch,     \* the requests of the page
  due,       \* history: how much of the selected case was written when an event told of it;
             \* 0 when the fetch it led to failed
  strayed,   \* history: an update asked for a case that was no longer selected when it came
  passed     \* history: an answer came that was older than one before it

deskVars == <<stored, selected, shown, stream, fetch, due, strayed, passed>>

NoTicket == [case |-> None, upTo |-> 0]
NoFetch == [pc |-> "idle", for |-> "none", case |-> None, upTo |-> 0, dropped |-> FALSE]
-----------------------------------------------------------------------------
(* What the page asks for *)

Ask(k, f) == fetch[k].pc = "idle" /\ fetch' = [fetch EXCEPT ![k] = f]

\* handleTicketUpdated: the list is loaded first, whether that succeeds or not,
\* and the case that is selected then is asked for.
Update == [NoFetch EXCEPT !.pc = "list", !.for = "update"]

\* The two effects of a selection. The stream follows at once when a case is
\* shown already; the answer to the selection before is dropped.
Select(k, c) ==
  /\ c # selected
  /\ fetch[k].pc = "idle"
  /\ selected' = c
  /\ fetch' = [j \in Fetches |->
       IF j = k THEN [NoFetch EXCEPT !.pc = "get", !.for = "select", !.case = c]
       ELSE IF fetch[j].for = "select" THEN [fetch[j] EXCEPT !.dropped = TRUE] ELSE fetch[j]]
  /\ stream' = IF shown.case # None THEN c ELSE None
  /\ due' = 0 /\ strayed' = FALSE /\ passed' = FALSE
  /\ UNCHANGED <<stored, shown>>

ListAnswered(k) ==
  /\ fetch[k].pc = "list"
  /\ fetch' = [fetch EXCEPT ![k] = [@ EXCEPT !.pc = "get", !.case = selected]]
  /\ UNCHANGED <<stored, selected, shown, stream, due, strayed, passed>>

\* GET /support/cases/:id
ReadCase(k) ==
  /\ fetch[k].pc = "get"
  /\ fetch' = [fetch EXCEPT ![k] = [@ EXCEPT !.pc = "answer", !.upTo = stored[fetch[k].case]]]
  /\ UNCHANGED <<stored, selected, shown, stream, due, strayed, passed>>

\* The stream opens with the first case that is shown, and ends when none is.
Show(t) ==
  /\ shown' = t
  /\ stream' = IF t.case = None THEN None ELSE IF shown.case = None THEN selected ELSE stream

Taken(f) == ~f.dropped

\* A case that could not be fetched is shown as none.
CaseAnswered(k) ==
  /\ fetch[k].pc = "answer"
  /\ IF Taken(fetch[k])
       THEN /\ Show([case |-> fetch[k].case, upTo |-> fetch[k].upTo])
            /\ strayed' = (strayed \/ (fetch[k].for = "update" /\ fetch[k].case # selected))
            /\ passed' = (passed \/ (shown.case = fetch[k].case /\ fetch[k].upTo < shown.upTo))
       ELSE UNCHANGED <<shown, stream, strayed, passed>>
  /\ fetch' = [fetch EXCEPT ![k] = NoFetch]
  /\ UNCHANGED <<stored, selected, due>>

FetchFails(k) ==
  /\ fetch[k].pc \in {"get", "answer"}
  /\ IF Taken(fetch[k]) THEN Show(NoTicket) /\ due' = 0 ELSE UNCHANGED <<shown, stream, due>>
  /\ fetch' = [fetch EXCEPT ![k] = NoFetch]
  /\ UNCHANGED <<stored, selected, strayed, passed>>

\* onerror: the stream is closed, and opened again only for another selection.
StreamFails ==
  /\ stream # None /\ stream' = None
  /\ UNCHANGED <<stored, selected, shown, fetch, due, strayed, passed>>
-----------------------------------------------------------------------------
(* What happens to a case *)

Store(c) == /\ stored[c] < MaxChanges
            /\ stored' = [stored EXCEPT ![c] = @ + 1]

Heard == {"message", "escalation"}

\* pushToCase; done and typing are events too, which tell a page nothing.
Push(c, event) ==
  IF stream # c THEN UNCHANGED <<fetch, due>>
  ELSE /\ IF event \in Heard THEN \E k \in Fetches : Ask(k, Update) ELSE UNCHANGED fetch
       /\ due' = IF event = "done" THEN due ELSE stored'[c]

Happened == UNCHANGED <<selected, shown, stream, strayed, passed>>

ConsumerWrites(c) == Store(c) /\ UNCHANGED <<fetch, due>> /\ Happened
AgentStreams(c) == UNCHANGED stored /\ Push(c, "message") /\ Happened
AgentStores(c) == Store(c) /\ Push(c, "done") /\ Happened
Escalated(c) == Store(c) /\ Push(c, "escalation") /\ Happened
ColleagueReplies(c) == Store(c) /\ Push(c, "message") /\ Happened
-----------------------------------------------------------------------------
(* What the operator does with the case that is shown: handleSendReply and     *)
(* handleClose. A reply is pushed, a close is not.                          *)

Act(k, kind) ==
  /\ shown.case # None
  /\ Ask(k, [NoFetch EXCEPT !.pc = "act", !.for = kind, !.case = shown.case])
  /\ UNCHANGED <<stored, due>> /\ Happened

Acted(k) ==
  /\ fetch[k].pc = "act"
  /\ Store(fetch[k].case)
  /\ LET c == fetch[k].case
         done == [fetch EXCEPT ![k] = [@ EXCEPT !.pc = "acted", !.upTo = stored'[c]]] IN
     IF fetch[k].for = "reply" /\ stream = c
       THEN /\ \E j \in Fetches : done[j].pc = "idle" /\ fetch' = [done EXCEPT ![j] = Update]
            /\ due' = stored'[c]
       ELSE fetch' = done /\ UNCHANGED due
  /\ Happened

\* The page updates after what it did itself, for the case it was done to if that
\* is still selected.
ActAnswered(k) ==
  /\ fetch[k].pc = "acted"
  /\ fetch' = [fetch EXCEPT ![k] = Update]
  /\ due' = IF fetch[k].case = selected /\ fetch[k].upTo > due THEN fetch[k].upTo ELSE due
  /\ UNCHANGED stored /\ Happened

ActFails(k) ==
  /\ fetch[k].pc \in {"act", "acted"}
  /\ fetch' = [fetch EXCEPT ![k] = NoFetch]
  /\ UNCHANGED <<stored, due>> /\ Happened

Init ==
  /\ stored = [c \in Cases |-> 0]
  /\ selected = None /\ shown = NoTicket /\ stream = None
  /\ fetch = [k \in Fetches |-> NoFetch]
  /\ due = 0 /\ strayed = FALSE /\ passed = FALSE

Next ==
  \/ StreamFails
  \/ \E k \in Fetches :
       \/ \E c \in Cases : Select(k, c)
       \/ ListAnswered(k) \/ ReadCase(k) \/ CaseAnswered(k) \/ FetchFails(k)
       \/ Act(k, "reply") \/ Act(k, "close") \/ Acted(k) \/ ActAnswered(k) \/ ActFails(k)
  \/ \E c \in Cases :
       \/ ConsumerWrites(c) \/ AgentStreams(c) \/ AgentStores(c)
       \/ Escalated(c) \/ ColleagueReplies(c)

Spec == Init /\ [][Next]_deskVars
-----------------------------------------------------------------------------
TypeOK ==
  /\ stored \in [Cases -> 0..MaxChanges]
  /\ selected \in Cases \cup {None} /\ stream \in {selected, None}
  /\ shown.case \in Cases \cup {None} /\ shown.upTo \in 0..MaxChanges
  /\ \A k \in Fetches : fetch[k].case \in Cases \cup {None}
  /\ due \in 0..MaxChanges /\ strayed \in BOOLEAN /\ passed \in BOOLEAN

Quiet == \A k \in Fetches : fetch[k].pc = "idle"

\* Once all answers have come, a case that is shown is the one selected, unless an
\* update that was asked for one case arrived after another was selected.
SelectedShown == Quiet /\ shown.case # None => shown.case = selected \/ strayed

\* What an event or the page's own action told of the selected case is on the
\* screen once all answers have come, unless they came in another order or a case that
\* is not selected any more was on the screen between them.
ToldIsShown == Quiet /\ shown.case = selected => shown.upTo >= due \/ passed \/ strayed

DeskKept == SelectedShown /\ ToldIsShown
=============================================================================
