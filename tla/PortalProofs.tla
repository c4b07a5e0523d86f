---------------------------- MODULE PortalProofs ----------------------------
(***************************************************************************)
(* Proofs about what people use, for every number of calls, pages, codes and *)
(* connections: each component that MCPortal puts together has an inductive   *)
(* invariant, and what a run of MCPortal does in a focus is what the component *)
(* does.                                                                    *)
(***************************************************************************)
EXTENDS MCPortal, Sequences, FiniteSetTheorems, TLAPS

allVars == <<focus, vars, peopleVars, streamVars, endVars, baseVars>>

\* A step of MCPortal is a step of the component in focus.
LEMMA FocusStep ==
  ASSUME [PortalNext]_allVars
  PROVE  /\ focus' = focus
         /\ focus = "case" => [Next]_vars
         /\ focus = "code" => [SignIn!Next]_codeVars
         /\ focus = "streams" => [Streams!Next]_streamVars
         /\ focus = "screen" => [Screen!Next]_chatVars
         /\ focus = "knowledge" => [Knowledge!Next]_baseVars
         /\ focus = "sessions" => [UserSessions!Next]_userVars
         /\ focus = "desk" => [Desk!Next]_deskVars
         /\ focus # "case" => UNCHANGED vars
         /\ focus # "code" => UNCHANGED codeVars
         /\ focus # "screen" => UNCHANGED chatVars
BY DEF PortalNext, allVars, peopleVars, endVars
-----------------------------------------------------------------------------
(* The support case: its types *)

\* What is written in the rows
LEMMA CaseRows ==
  /\ IdleCall \in CallRow /\ IdleCall.pc = "idle" /\ IdleCall.read = "none"
  /\ NewTurn \in TurnRow /\ NewTurn.pc = "none" /\ ~NewTurn.late
BY DEF CallRow, TurnRow, IdleCall, NewTurn, Status

LEMMA NewRow ==
  ASSUME NEW r \in Status, NEW b \in BOOLEAN,
         NEW pc \in {"message", "escalate", "find", "close"}
  PROVE  /\ [pc |-> pc, read |-> r, flag |-> b] \in CallRow
         /\ [pc |-> "load", late |-> b] \in TurnRow
BY DEF CallRow, TurnRow

LEMMA CaseInitTyped == Init => TypeOK
<1> SUFFICES ASSUME Init PROVE TypeOK
  OBVIOUS
<1>1. call \in [Calls -> CallRow] /\ turn \in [Turns -> TurnRow]
  BY CaseRows DEF Init
<1>2. \A c \in Calls : call[c].pc # "idle" => call[c].read # "none"
  BY CaseRows DEF Init
<1>3. ledger \in [Turns -> {"none", "success", "escalated", "failed"}]
  BY DEF Init
<1> QED BY <1>1, <1>2, <1>3 DEF Init, TypeOK, Status

LEMMA MovedCall ==
  ASSUME TypeOK, NEW c \in Calls, NEW pc \in {"signal", "escalate"}, call[c].read # "none",
         call' = [call EXCEPT ![c].pc = pc]
  PROVE  /\ call' \in [Calls -> CallRow]
         /\ \A d \in Calls : call'[d].pc # "idle" => call'[d].read # "none"
<1>1. [call[c] EXCEPT !.pc = pc] \in CallRow
  BY DEF TypeOK, CallRow
<1> QED BY <1>1 DEF TypeOK

LEMMA BegunCall ==
  ASSUME TypeOK, NEW c \in Calls, NEW b \in BOOLEAN,
         NEW pc \in {"message", "escalate", "find", "close"}, Begin(c, pc, b)
  PROVE  /\ call' \in [Calls -> CallRow]
         /\ \A d \in Calls : call'[d].pc # "idle" => call'[d].read # "none"
<1>1. [pc |-> pc, read |-> status, flag |-> b] \in CallRow
  BY NewRow DEF TypeOK
<1> QED BY <1>1 DEF TypeOK, Begin

LEMMA AnsweredCall ==
  ASSUME TypeOK, NEW c \in Calls, Answer(c)
  PROVE  /\ call' \in [Calls -> CallRow]
         /\ \A d \in Calls : call'[d].pc # "idle" => call'[d].read # "none"
BY CaseRows DEF TypeOK, Answer

LEMMA StartedTurn ==
  ASSUME TypeOK, NEW b \in BOOLEAN, StartTurn(b)
  PROVE  turn' \in [Turns -> TurnRow]
BY NewRow DEF TypeOK, StartTurn, Status

LEMMA CallTyped ==
  ASSUME TypeOK, NEW c \in Calls, Call(c)
  PROVE  TypeOK'
<1> USE CaseAssumption, BegunCall, AnsweredCall DEF TypeOK, Status, CaseAssumption, data
<1>1. CASE ReadMessage(c) BY <1>1 DEF ReadMessage
<1>2. CASE CreateMessage(c)
  <2>1. PICK b \in BOOLEAN : b = (call[c].read = "closed")
    OBVIOUS
  <2>2. turn' \in [Turns -> TurnRow]
    BY <1>2, <2>1, StartedTurn DEF CreateMessage
  <2> QED BY <1>2, <2>2 DEF CreateMessage
<1>3. CASE ReadEscalate(c) BY <1>3 DEF ReadEscalate
<1>4. CASE ReadFeedback(c) BY <1>4 DEF ReadFeedback
<1>5. CASE FindSignal(c) BY <1>5, MovedCall DEF FindSignal
<1>6. CASE CreateSignal(c) BY <1>6, MovedCall DEF CreateSignal
<1>7. CASE Escalate(c) BY <1>7 DEF Escalate, SetEscalated
<1>8. CASE ReadClose(c) BY <1>8 DEF ReadClose
<1>9. CASE Close(c) BY <1>9 DEF Close, Closeable, CallRow
<1> QED BY <1>1, <1>2, <1>3, <1>4, <1>5, <1>6, <1>7, <1>8, <1>9 DEF Call

LEMMA TurnTyped ==
  ASSUME TypeOK, NEW t \in Turns, Turn(t)
  PROVE  TypeOK'
<1> USE DEF TypeOK, Status, data, TurnStep, Goto, TurnRow
<1>1. CASE Load(t) BY <1>1 DEF Load
<1>2. CASE Stream(t) BY <1>2 DEF Stream
<1>3. CASE Finish(t) BY <1>3 DEF Finish
<1>4. CASE EscalateTurn(t) BY <1>4 DEF EscalateTurn, SetEscalated
<1>5. CASE Notice(t) BY <1>5 DEF Notice
<1>6. CASE Apologize(t) BY <1>6 DEF Apologize
<1>7. CASE GiveUp(t) BY <1>7 DEF GiveUp, SetEscalated
<1> QED BY <1>1, <1>2, <1>3, <1>4, <1>5, <1>6, <1>7 DEF Turn

LEMMA CaseStepTyped == TypeOK /\ [Next]_vars => TypeOK'
<1> SUFFICES ASSUME TypeOK, [Next]_vars PROVE TypeOK'
  OBVIOUS
<1> USE DEF TypeOK, Status, data
<1>1. CASE Open BY <1>1, StartedTurn DEF Open
<1>2. CASE Reply BY <1>2 DEF Reply
<1>3. CASE Fails
  <2>1. faults' \in Nat /\ UNCHANGED <<data, ledger, crashes>>
    BY <1>3 DEF Fails, Fault
  <2>2. CASE /\ \E t \in Turns : Goto(t, "apology") \/ Goto(t, "ended")
             /\ UNCHANGED call
    BY <2>1, <2>2 DEF Goto, TurnRow
  <2>3. CASE \E c \in Calls : Answer(c) /\ UNCHANGED turn
    BY <2>1, <2>3, AnsweredCall
  <2> QED BY <1>3, <2>2, <2>3 DEF Fails
<1>4. CASE Crash BY <1>4, CaseRows, CaseAssumption DEF Crash, TurnRow, CaseAssumption
<1>5. CASE UNCHANGED vars BY <1>5 DEF vars
<1> QED BY <1>1, <1>2, <1>3, <1>4, <1>5, CallTyped, TurnTyped DEF Next

LEMMA CaseTyped == Spec => []TypeOK
<1> QED BY CaseInitTyped, CaseStepTyped, PTL DEF Spec
-----------------------------------------------------------------------------
(* The support case: what is counted, and who began before a close *)

\* Every close but the last was undone by an escalation, and each gave at most
\* one entry.
Counts ==
  /\ closes = reopened + (IF status = "closed" THEN 1 ELSE 0)
  /\ entries <= closes

\* A call that may escalate found the case open, and no turn is of a call that
\* found it closed.
BeganOpen ==
  /\ \A c \in Calls : call[c].pc \in {"message", "escalate"} => call[c].read # "closed"
  /\ \A t \in Turns : ~turn[t].late

CaseInv == TypeOK /\ Counts /\ BeganOpen

LEMMA EscalatedCounts ==
  ASSUME TypeOK, Counts, SetEscalated
  PROVE  Counts'
BY DEF TypeOK, Counts, SetEscalated

LEMMA QuietCounts ==
  ASSUME Counts, UNCHANGED data
  PROVE  Counts'
BY DEF Counts, data

LEMMA CallCounts ==
  ASSUME TypeOK, Counts, NEW c \in Calls, Call(c)
  PROVE  Counts'
<1>1. CASE CreateSignal(c) BY <1>1 DEF CreateSignal, Counts
<1>2. CASE Escalate(c) BY <1>2, EscalatedCounts DEF Escalate
<1>3. CASE Close(c)
  <2>1. CASE Closeable BY <1>3, <2>1 DEF Close, Closeable, Counts, TypeOK
  <2>2. CASE ~Closeable BY <1>3, <2>2, QuietCounts DEF Close
  <2> QED BY <2>1, <2>2
<1>4. CASE UNCHANGED data BY <1>4, QuietCounts
<1> QED
  BY <1>1, <1>2, <1>3, <1>4
     DEF Call, ReadMessage, CreateMessage, ReadEscalate, ReadFeedback, FindSignal, ReadClose

LEMMA CallBegan ==
  ASSUME TypeOK, BeganOpen, NEW c \in Calls, Call(c)
  PROVE  BeganOpen'
<1> USE CaseRows DEF BeganOpen, TypeOK, CallRow, TurnRow, Status
<1>1. CASE ReadMessage(c) BY <1>1 DEF ReadMessage, Begin
<1>2. CASE CreateMessage(c)
  <2>1. \A d \in Calls : call'[d].pc \in {"message", "escalate"} => call'[d].read # "closed"
    BY <1>2 DEF CreateMessage, Answer
  <2>2. call[c].read # "closed"
    BY <1>2 DEF CreateMessage
  <2>3. ASSUME NEW b \in BOOLEAN, ~b, StartTurn(b)
        PROVE  \A t \in Turns : ~turn'[t].late
    BY <2>3 DEF StartTurn
  <2>4. PICK b \in BOOLEAN : b = (call[c].read = "closed")
    OBVIOUS
  <2>5. \A t \in Turns : ~turn'[t].late
    BY <1>2, <2>2, <2>3, <2>4 DEF CreateMessage
  <2> QED BY <2>1, <2>5
<1>3. CASE ReadEscalate(c) BY <1>3 DEF ReadEscalate, Begin
<1>4. CASE ReadFeedback(c) BY <1>4 DEF ReadFeedback, Begin
<1>5. CASE FindSignal(c) BY <1>5 DEF FindSignal, Answer
<1>6. CASE CreateSignal(c)
  <2>1. CASE NeedsHuman(c) BY <1>6, <2>1 DEF CreateSignal, NeedsHuman
  <2>2. CASE ~NeedsHuman(c) BY <1>6, <2>2 DEF CreateSignal, Answer
  <2> QED BY <2>1, <2>2
<1>7. CASE Escalate(c) BY <1>7 DEF Escalate, Answer
<1>8. CASE ReadClose(c) BY <1>8 DEF ReadClose, Begin
<1>9. CASE Close(c) BY <1>9 DEF Close, Answer
<1> QED BY <1>1, <1>2, <1>3, <1>4, <1>5, <1>6, <1>7, <1>8, <1>9 DEF Call

LEMMA TurnKept ==
  ASSUME CaseInv, NEW t \in Turns, Turn(t)
  PROVE  Counts' /\ BeganOpen'
<1>1. BeganOpen'
  <2>1. PICK pc : Goto(t, pc) /\ UNCHANGED call
    BY DEF Turn, TurnStep, Load, Stream, Finish, EscalateTurn, Notice, Apologize, GiveUp
  <2> QED BY <2>1 DEF CaseInv, BeganOpen, TypeOK, TurnRow, Goto
<1>2. CASE SetEscalated BY <1>1, <1>2, EscalatedCounts DEF CaseInv
<1>3. CASE UNCHANGED data BY <1>1, <1>3, QuietCounts DEF CaseInv
<1> QED
  BY <1>2, <1>3 DEF Turn, Load, Stream, Finish, EscalateTurn, Notice, Apologize, GiveUp

LEMMA CaseInvInit == Init => CaseInv
BY CaseInitTyped, CaseRows DEF CaseInv, Init, Counts, BeganOpen

LEMMA CaseInvStep == CaseInv /\ [Next]_vars => CaseInv'
<1> SUFFICES ASSUME CaseInv, [Next]_vars PROVE CaseInv'
  OBVIOUS
<1>1. TypeOK'
  BY CaseStepTyped DEF CaseInv
<1>2. Counts' /\ BeganOpen'
  <2> USE DEF CaseInv
  <2>1. CASE Open
    BY <2>1 DEF Open, StartTurn, Counts, BeganOpen, TypeOK, TurnRow
  <2>2. CASE Reply
    BY <2>2 DEF Reply, Counts, BeganOpen
  <2>3. CASE Fails
    <3>1. Counts' BY <2>3, QuietCounts DEF Fails
    <3>2. CASE /\ \E t \in Turns : Goto(t, "apology") \/ Goto(t, "ended")
               /\ UNCHANGED call
      BY <3>1, <3>2 DEF Goto, BeganOpen, TypeOK, TurnRow
    <3>3. CASE \E c \in Calls : Answer(c) /\ UNCHANGED turn
      BY <3>1, <3>3, CaseRows DEF Answer, BeganOpen, TypeOK
    <3> QED BY <2>3, <3>2, <3>3 DEF Fails
  <2>4. CASE Crash
    BY <2>4, QuietCounts, CaseRows DEF Crash, BeganOpen, TypeOK, TurnRow
  <2>5. CASE UNCHANGED vars
    BY <2>5 DEF vars, Counts, BeganOpen
  <2> QED
    BY <2>1, <2>2, <2>3, <2>4, <2>5, CallCounts, CallBegan, TurnKept DEF Next
<1> QED BY <1>1, <1>2 DEF CaseInv

LEMMA CaseInvariant == Spec => []CaseInv
<1> QED BY CaseInvInit, CaseInvStep, PTL DEF Spec

\* However many people close a case at once, it gives one knowledge entry, and one
\* more for each escalation that reopened it (support-routes.ts:150).
THEOREM OneEntryPerClose == Spec => []WritebackOnce
<1>1. CaseInv => WritebackOnce
  BY DEF CaseInv, TypeOK, Counts, WritebackOnce
<1> QED BY <1>1, CaseInvariant, PTL

\* Only a handler that began before the close takes a case out of "closed"
\* (portal-agent.ts:397).
THEOREM ClosedIsKept == Spec => ClosedStaysClosed
<1>1. ASSUME CaseInv, [Next]_vars, status = "closed", status' # "closed"
      PROVE  \/ \E c \in Calls : call'[c] # call[c] /\ call[c].read # "closed"
             \/ \E t \in Turns : turn'[t] # turn[t] /\ ~turn[t].late
  <2> USE DEF CaseInv, BeganOpen, TypeOK
  <2>1. ASSUME NEW c \in Calls, Escalate(c)
        PROVE  call'[c] # call[c] /\ call[c].read # "closed"
    <3>1. call'[c].pc = "idle" /\ call[c].pc = "escalate"
      BY <1>1, <2>1, CaseRows DEF Escalate, Answer
    <3> QED BY <1>1, <3>1
  <2>2. ASSUME NEW t \in Turns, EscalateTurn(t) \/ GiveUp(t)
        PROVE  turn'[t] # turn[t] /\ ~turn[t].late
    <3>1. turn'[t].pc # turn[t].pc
      BY <1>1, <2>2 DEF EscalateTurn, GiveUp, TurnStep, Goto, TurnRow
    <3> QED BY <1>1, <3>1
  <2>3. \/ \E c \in Calls : Escalate(c)
        \/ \E t \in Turns : EscalateTurn(t) \/ GiveUp(t)
    BY <1>1
       DEF Next, vars, data, Open, Reply, Fails, Crash, Call, ReadMessage, CreateMessage,
           ReadEscalate, ReadFeedback, FindSignal, CreateSignal, ReadClose, Close, Turn, Load,
           Stream, Finish, Notice, Apologize
  <2> QED BY <2>1, <2>2, <2>3
<1>2. CaseInv /\ [Next]_vars =>
        [status = "closed" /\ status' # "closed" =>
           \/ \E c \in Calls : call'[c] # call[c] /\ call[c].read # "closed"
           \/ \E t \in Turns : turn'[t] # turn[t] /\ ~turn[t].late]_vars
  BY <1>1
<1> QED BY <1>2, CaseInvariant, PTL DEF Spec, ClosedStaysClosed
-----------------------------------------------------------------------------
(* The code: its types, what was compared and redeemed, and what is young *)

EntryRow == [code : Nat, expiresAt : Nat, attempts : Nat, by : Forms \cup {"nobody"}]
FormRow == [step : {"email", "code"}, code : Nat, seen : Nat, resendAt : Nat,
            pc : {"idle", "send", "look", "sent", "verify", "upsert", "in"}]

CodeTypes ==
  /\ entry \in EntryRow /\ clock \in Nat /\ made \in 0..MaxCodes
  /\ form \in [Forms -> FormRow]
  /\ tries \in [1..MaxCodes -> Nat] /\ logins \in [1..MaxCodes -> Nat]
  /\ entry.code <= made
  /\ \A f \in Forms : form[f].code <= made /\ form[f].seen <= made

\* The comparisons of the stored code are its attempts, and it was not redeemed.
CodeCounts ==
  /\ entry.attempts <= MaxAttempts
  /\ entry.code # 0 => tries[entry.code] = entry.attempts /\ logins[entry.code] = 0
  /\ \A k \in 1..MaxCodes :
       /\ tries[k] <= MaxAttempts /\ logins[k] <= 1
       /\ k > made => tries[k] = 0 /\ logins[k] = 0

\* A form that writes the consumer has a code of its own, which is not stored
\* any more and has not signed in.
CodeRedeemed ==
  /\ \A f \in Forms : form[f].pc = "upsert" =>
       form[f].code # 0 /\ form[f].code # entry.code /\ logins[form[f].code] = 0
  /\ \A f, g \in Forms :
       form[f].pc = "upsert" /\ form[g].pc = "upsert" /\ form[f].code = form[g].code => f = g

\* A send that saw the stored code saw it old enough.
CodeAges ==
  entry.code # 0 =>
    /\ Lifetime <= entry.expiresAt /\ entry.expiresAt <= clock + Lifetime
    /\ \A f \in Forms : form[f].pc = "look" /\ form[f].seen = entry.code =>
         clock >= entry.expiresAt - Lifetime + Cooldown

CodeInv == CodeTypes /\ CodeCounts /\ CodeRedeemed /\ CodeAges

LEMMA CodeNumbers ==
  /\ Cooldown \in Nat /\ Lifetime \in Nat /\ MaxAttempts \in Nat /\ MaxCodes \in Nat
  /\ MaxClock \in Nat /\ Cooldown <= Lifetime
BY PortalAssumption DEF PortalAssumption

LEMMA CodeInvInit == SignIn!Init => CodeInv
BY CodeNumbers
   DEF SignIn!Init, SignIn!NoEntry, SignIn!FreshForm, CodeInv, CodeTypes, CodeCounts,
       CodeRedeemed, CodeAges, EntryRow, FormRow

\* A form moves and nothing else does.
LEMMA FormMoves ==
  ASSUME CodeInv, NEW f \in Forms, NEW r \in FormRow, form' = [form EXCEPT ![f] = r],
         UNCHANGED <<entry, clock, made, tries, logins>>,
         r.code <= made, r.seen <= made, r.pc # "upsert",
         r.pc = "look" /\ r.seen = entry.code /\ entry.code # 0 =>
           clock >= entry.expiresAt - Lifetime + Cooldown
  PROVE  CodeInv'
<1>1. form' \in [Forms -> FormRow] /\ \A g \in Forms : form'[g] = IF g = f THEN r ELSE form[g]
  BY DEF CodeInv, CodeTypes
<1>2. CodeTypes' BY <1>1 DEF CodeInv, CodeTypes
<1>3. CodeCounts' BY DEF CodeInv, CodeCounts
<1>4. CodeRedeemed' BY <1>1 DEF CodeInv, CodeRedeemed
<1>5. CodeAges' BY <1>1 DEF CodeInv, CodeAges
<1> QED BY <1>2, <1>3, <1>4, <1>5 DEF CodeInv

\* A form that goes back waits for nothing.
LEMMA FormBack ==
  ASSUME CodeInv, NEW f \in Forms
  PROVE  /\ SignIn!Back(f) \in FormRow
         /\ SignIn!Back(f).pc = "idle" /\ SignIn!Back(f).code = 0 /\ SignIn!Back(f).seen = 0
<1>1. form[f] \in FormRow
  BY DEF CodeInv, CodeTypes
<1> QED BY <1>1 DEF SignIn!Back, FormRow

LEMMA PageStep ==
  ASSUME CodeInv, NEW f \in Forms, SignIn!Page(f)
  PROVE  CodeInv'
<1>1. /\ form[f] \in FormRow /\ form[f].code <= made /\ form[f].seen <= made
      /\ made \in Nat /\ clock + Cooldown \in Nat
  BY CodeNumbers DEF CodeInv, CodeTypes
<1>0. PICK x \in FormRow : x = form[f]
  BY <1>1
<1>2. UNCHANGED <<entry, clock, made, tries, logins>>
  BY DEF SignIn!Page, SignIn!AskCode, SignIn!AskAgain, SignIn!Submit, SignIn!ChangeEmail,
         SignIn!Sent, SignIn!Lost
<1>3. \E r \in FormRow :
        /\ form' = [form EXCEPT ![f] = r] /\ r.code <= made /\ r.seen <= made
        /\ r.pc \notin {"upsert", "look"}
  <2>1. CASE SignIn!AskCode(f) \/ SignIn!AskAgain(f)
    <3> DEFINE r == [x EXCEPT !.pc = "send"]
    <3>1. form' = [form EXCEPT ![f] = r]
      BY <1>0, <2>1 DEF SignIn!AskCode, SignIn!AskAgain
    <3>2. r \in FormRow /\ r.code = x.code /\ r.seen = x.seen /\ r.pc = "send"
      BY DEF FormRow
    <3> HIDE DEF r
    <3> QED BY <1>1, <1>0, <3>1, <3>2
  <2>2. CASE SignIn!Submit(f)
    <3>1. PICK k \in 0..made :
            form' = [form EXCEPT ![f] = [x EXCEPT !.pc = "verify", !.code = k]]
      BY <1>0, <2>2 DEF SignIn!Submit
    <3> DEFINE r == [x EXCEPT !.pc = "verify", !.code = k]
    <3>4. k \in Nat /\ k <= made
      BY <1>1
    <3>2. r \in FormRow /\ r.code = k /\ r.seen = x.seen /\ r.pc = "verify"
      BY <3>4 DEF FormRow
    <3>3. form' = [form EXCEPT ![f] = r]
      BY <3>1
    <3> HIDE DEF r
    <3> QED BY <1>1, <1>0, <3>2, <3>3, <3>4
  <2>3. CASE SignIn!ChangeEmail(f)
    <3> DEFINE r == [x EXCEPT !.step = "email"]
    <3>1. form' = [form EXCEPT ![f] = r] /\ x.pc = "idle"
      BY <1>0, <2>3 DEF SignIn!ChangeEmail
    <3>2. r \in FormRow /\ r.code = x.code /\ r.seen = x.seen /\ r.pc = x.pc
      BY DEF FormRow
    <3> HIDE DEF r
    <3> QED BY <1>1, <1>0, <3>1, <3>2
  <2>4. CASE SignIn!Sent(f)
    <3>1. PICK b \in FormRow :
            b = SignIn!Back(f) /\ b.pc = "idle" /\ b.code <= made /\ b.seen <= made
      BY <1>1, FormBack
    <3> DEFINE r == [b EXCEPT !.step = "code", !.resendAt = clock + Cooldown]
    <3>2. form' = [form EXCEPT ![f] = r]
      BY <2>4, <3>1 DEF SignIn!Sent
    <3>3. r \in FormRow /\ r.code = b.code /\ r.seen = b.seen /\ r.pc = b.pc
      BY <1>1 DEF FormRow
    <3> HIDE DEF r
    <3> QED BY <1>1, <3>1, <3>2, <3>3
  <2>5. CASE SignIn!Lost(f)
    <3>1. PICK b \in FormRow :
            b = SignIn!Back(f) /\ b.pc = "idle" /\ b.code <= made /\ b.seen <= made
      BY <1>1, FormBack
    <3>2. form' = [form EXCEPT ![f] = b]
      BY <2>5, <3>1 DEF SignIn!Lost
    <3> QED BY <1>1, <3>1, <3>2
  <2> QED BY <2>1, <2>2, <2>3, <2>4, <2>5 DEF SignIn!Page
<1> QED BY <1>2, <1>3, FormMoves

LEMMA CheckCooldownStep ==
  ASSUME CodeInv, NEW f \in Forms, SignIn!CheckCooldown(f) \/ SignIn!NoBrand(f)
  PROVE  CodeInv'
<1>1. /\ form[f] \in FormRow /\ form[f].code <= made /\ form[f].seen <= made
      /\ entry.code \in Nat /\ entry.code <= made /\ made \in Nat
  BY DEF CodeInv, CodeTypes, EntryRow
<1>0. PICK x \in FormRow : x = form[f]
  BY <1>1
<1>2. UNCHANGED <<entry, clock, made, tries, logins>>
  BY DEF SignIn!CheckCooldown, SignIn!NoBrand
<1>3. \E r \in FormRow :
        /\ form' = [form EXCEPT ![f] = r] /\ r.code <= made /\ r.seen <= made /\ r.pc # "upsert"
        /\ r.pc = "look" /\ r.seen = entry.code /\ entry.code # 0 =>
             clock >= entry.expiresAt - Lifetime + Cooldown
  <2>1. CASE SignIn!CheckCooldown(f) /\ SignIn!TooSoon
    <3>1. PICK b \in FormRow :
            b = SignIn!Back(f) /\ b.pc = "idle" /\ b.code <= made /\ b.seen <= made
      BY <1>1, FormBack
    <3>2. form' = [form EXCEPT ![f] = b]
      BY <2>1, <3>1 DEF SignIn!CheckCooldown
    <3> QED BY <1>1, <3>1, <3>2
  <2>2. CASE SignIn!CheckCooldown(f) /\ ~SignIn!TooSoon
    <3> DEFINE r == [x EXCEPT !.pc = "look", !.seen = entry.code]
    <3>1. form' = [form EXCEPT ![f] = r]
      BY <1>0, <2>2 DEF SignIn!CheckCooldown
    <3>3. r \in FormRow /\ r.code = x.code /\ r.seen = entry.code /\ r.pc = "look"
      BY <1>1 DEF FormRow
    <3> HIDE DEF r
    <3>2. entry.code # 0 => clock >= entry.expiresAt - Lifetime + Cooldown
      BY <2>2, CodeNumbers
         DEF SignIn!TooSoon, SignIn!Stored, SignIn!Age, EntryRow, CodeInv, CodeTypes
    <3> QED BY <1>1, <1>0, <3>1, <3>2, <3>3
  <2>3. CASE SignIn!NoBrand(f)
    <3> DEFINE r == [x EXCEPT !.pc = "sent", !.code = 0]
    <3>1. form' = [form EXCEPT ![f] = r]
      BY <1>0, <2>3 DEF SignIn!NoBrand
    <3>2. r \in FormRow /\ r.code = 0 /\ r.seen = x.seen /\ r.pc = "sent"
      BY DEF FormRow
    <3> HIDE DEF r
    <3>3. r.code <= made
      BY <1>1, <3>2
    <3> QED BY <1>1, <1>0, <3>1, <3>2, <3>3
  <2> QED BY <2>1, <2>2, <2>3
<1> QED BY <1>2, <1>3, FormMoves

LEMMA StoreCodeStep ==
  ASSUME CodeInv, NEW f \in Forms, SignIn!StoreCode(f)
  PROVE  CodeInv'
<1> USE CodeNumbers
<1>1. /\ form[f] \in FormRow /\ form[f].seen <= made /\ form \in [Forms -> FormRow]
      /\ entry \in EntryRow /\ made \in Nat /\ clock \in Nat /\ made < MaxCodes
      /\ tries' = tries /\ logins' = logins /\ clock' = clock /\ made' = made + 1
  BY DEF CodeInv, CodeTypes, SignIn!StoreCode
<1>0. PICK x \in FormRow : x = form[f]
  BY <1>1
<1> DEFINE r == [x EXCEPT !.pc = "sent", !.code = made + 1]
<1>y. PICK k \in Nat : k = made + 1
  BY <1>1
<1>2. r \in FormRow /\ r.code = made + 1 /\ r.seen = x.seen /\ r.pc = "sent"
  BY <1>1, <1>y DEF FormRow
<1>3. form' = [form EXCEPT ![f] = r]
  BY <1>0 DEF SignIn!StoreCode
<1> HIDE DEF r
<1>4. /\ form' \in [Forms -> FormRow]
      /\ \A g \in Forms : form'[g] = IF g = f THEN r ELSE form[g]
  BY <1>1, <1>2, <1>3
<1>5. /\ entry' = [code |-> made + 1, expiresAt |-> clock + Lifetime, attempts |-> 0, by |-> f]
      /\ entry' \in EntryRow /\ entry'.code = made + 1 /\ entry'.attempts = 0
      /\ entry'.expiresAt = clock + Lifetime
  BY <1>1 DEF SignIn!StoreCode, EntryRow
<1>6. CodeTypes'
  <2>1. \A g \in Forms : form'[g].code <= made' /\ form'[g].seen <= made'
    <3> SUFFICES ASSUME NEW g \in Forms PROVE form'[g].code <= made' /\ form'[g].seen <= made'
      OBVIOUS
    <3>1. form[g] \in FormRow /\ form[g].code <= made /\ form[g].seen <= made
      BY DEF CodeInv, CodeTypes
    <3> QED BY <1>1, <1>0, <1>2, <1>4, <3>1 DEF FormRow
  <2>2. made' \in 0..MaxCodes BY <1>1
  <2>3. entry'.code <= made' BY <1>1, <1>5
  <2> QED BY <1>1, <1>4, <1>5, <2>1, <2>2, <2>3 DEF CodeInv, CodeTypes
<1>7. CodeCounts' BY <1>1, <1>5 DEF CodeInv, CodeCounts, CodeTypes
<1>8. CodeRedeemed'
  <2>1. \A g \in Forms : form'[g].pc = "upsert" => g # f /\ form'[g] = form[g]
    BY <1>2, <1>4
  <2>2. \A g \in Forms : form[g].code # made + 1
    BY <1>1 DEF CodeInv, CodeTypes, FormRow
  <2> QED BY <1>1, <1>5, <2>1, <2>2 DEF CodeInv, CodeRedeemed
<1>9. CodeAges' BY <1>1, <1>0, <1>2, <1>4, <1>5 DEF CodeInv, CodeAges, CodeTypes
<1> QED BY <1>6, <1>7, <1>8, <1>9 DEF CodeInv

LEMMA VerifyStep ==
  ASSUME CodeInv, NEW f \in Forms, SignIn!Verify(f)
  PROVE  CodeInv'
<1> USE CodeNumbers
<1>1. /\ form[f] \in FormRow /\ form[f].code <= made /\ form[f].seen <= made
      /\ form \in [Forms -> FormRow]
      /\ entry \in EntryRow /\ entry.code <= made /\ made \in Nat /\ made <= MaxCodes /\ clock \in Nat
      /\ logins' = logins /\ clock' = clock /\ made' = made
  BY DEF CodeInv, CodeTypes, SignIn!Verify
<1>2. SignIn!NoEntry \in EntryRow /\ SignIn!NoEntry.code = 0 /\ SignIn!NoEntry.attempts = 0
  BY DEF SignIn!NoEntry, EntryRow
<1>3. CASE ~SignIn!Stored \/ clock > entry.expiresAt \/ SignIn!Exhausted
  <2> DEFINE r == SignIn!Back(f)
  <2>1. entry' = SignIn!NoEntry /\ tries' = tries /\ form' = [form EXCEPT ![f] = r]
    BY <1>3 DEF SignIn!Verify
  <2>2. r \in FormRow /\ r.pc = "idle" /\ r.code = 0 /\ r.seen = 0 BY FormBack
  <2> HIDE DEF r
  <2>3. /\ form' \in [Forms -> FormRow]
        /\ \A g \in Forms : form'[g] = IF g = f THEN r ELSE form[g]
    BY <1>1, <2>1, <2>2
  <2>4. CodeTypes' BY <1>1, <1>2, <2>1, <2>2, <2>3 DEF CodeInv, CodeTypes
  <2>5. CodeCounts' BY <1>1, <1>2, <2>1 DEF CodeInv, CodeCounts
  <2>6. CodeRedeemed' BY <1>1, <1>2, <2>1, <2>2, <2>3 DEF CodeInv, CodeRedeemed
  <2>7. CodeAges' BY <1>1, <1>2, <2>1, <2>2, <2>3 DEF CodeInv, CodeAges
  <2> QED BY <2>4, <2>5, <2>6, <2>7 DEF CodeInv
<1>4. CASE SignIn!Stored /\ ~(clock > entry.expiresAt) /\ ~SignIn!Exhausted
  <2>1. /\ tries' = [tries EXCEPT ![entry.code] = @ + 1] /\ entry' = SignIn!AfterCompare(f)
        /\ entry.code \in 1..MaxCodes /\ entry.attempts < MaxAttempts
    BY <1>1, <1>4 DEF SignIn!Verify, SignIn!Stored, SignIn!Exhausted, EntryRow
  <2>2. /\ tries' \in [1..MaxCodes -> Nat] /\ tries'[entry.code] = entry.attempts + 1
        /\ \A k \in 1..MaxCodes : k # entry.code => tries'[k] = tries[k]
    BY <1>1, <2>1 DEF CodeInv, CodeTypes, CodeCounts, EntryRow
  <2>3. CASE form[f].code = entry.code
    <3>0. PICK x \in FormRow : x = form[f]
      BY <1>1
    <3> DEFINE r == [x EXCEPT !.pc = "upsert"]
    <3>1. entry' = SignIn!NoEntry /\ form' = [form EXCEPT ![f] = r]
      BY <1>4, <2>3, <3>0 DEF SignIn!Verify, SignIn!AfterCompare
    <3>2. r \in FormRow /\ r.code = entry.code /\ r.seen = form[f].seen /\ r.pc = "upsert"
      BY <1>1, <2>3, <3>0 DEF FormRow
    <3> HIDE DEF r
    <3>3. /\ form' \in [Forms -> FormRow]
          /\ \A g \in Forms : form'[g] = IF g = f THEN r ELSE form[g]
      BY <1>1, <3>1, <3>2
    <3>4. CodeTypes'
      <4>1. \A g \in Forms : form'[g].code <= made /\ form'[g].seen <= made
        BY <1>1, <3>2, <3>3 DEF CodeInv, CodeTypes
      <4>2. entry'.code <= made BY <1>1, <1>2, <3>1
      <4> QED BY <1>1, <1>2, <2>2, <3>1, <3>3, <4>1, <4>2 DEF CodeInv, CodeTypes
    <3>5. CodeCounts'
      <4>1. \A k \in 1..MaxCodes : tries'[k] <= MaxAttempts /\ (k > made => tries'[k] = 0)
        BY <1>1, <2>1, <2>2 DEF CodeInv, CodeCounts, EntryRow
      <4>2. entry'.attempts <= MaxAttempts BY <1>2, <3>1
      <4> QED BY <1>1, <1>2, <3>1, <4>1, <4>2 DEF CodeInv, CodeCounts
    <3>6. CodeRedeemed'
      BY <1>1, <1>2, <1>4, <2>1, <3>1, <3>2, <3>3
         DEF CodeInv, CodeRedeemed, CodeCounts, SignIn!Stored
    <3>7. CodeAges' BY <1>1, <1>2, <3>1 DEF CodeInv, CodeAges
    <3> QED BY <3>4, <3>5, <3>6, <3>7 DEF CodeInv
  <2>4. CASE form[f].code # entry.code
    <3> DEFINE r == SignIn!Back(f)
    <3>1. entry' = [entry EXCEPT !.attempts = @ + 1] /\ form' = [form EXCEPT ![f] = r]
      BY <1>4, <2>4 DEF SignIn!Verify, SignIn!AfterCompare
    <3>2. r \in FormRow /\ r.pc = "idle" /\ r.code = 0 /\ r.seen = 0 BY FormBack
    <3> HIDE DEF r
    <3>3. /\ form' \in [Forms -> FormRow]
          /\ \A g \in Forms : form'[g] = IF g = f THEN r ELSE form[g]
      BY <1>1, <3>1, <3>2
    <3>4. /\ entry' \in EntryRow /\ entry'.code = entry.code /\ entry'.attempts = entry.attempts + 1
          /\ entry'.expiresAt = entry.expiresAt
      BY <1>1, <3>1 DEF EntryRow
    <3>5. CodeTypes'
      <4>1. \A g \in Forms : form'[g].code <= made /\ form'[g].seen <= made
        BY <1>1, <3>2, <3>3 DEF CodeInv, CodeTypes
      <4> QED BY <1>1, <2>2, <3>3, <3>4, <4>1 DEF CodeInv, CodeTypes
    <3>6. CodeCounts'
      BY <1>1, <2>1, <2>2, <3>4 DEF CodeInv, CodeCounts, CodeTypes, EntryRow
    <3>7. CodeRedeemed' BY <1>1, <3>2, <3>3, <3>4 DEF CodeInv, CodeRedeemed
    <3>8. CodeAges' BY <1>1, <3>2, <3>3, <3>4 DEF CodeInv, CodeAges
    <3> QED BY <3>5, <3>6, <3>7, <3>8 DEF CodeInv
  <2> QED BY <2>3, <2>4
<1> QED BY <1>3, <1>4

LEMMA SignInStep ==
  ASSUME CodeInv, NEW f \in Forms, SignIn!SignIn(f)
  PROVE  CodeInv'
<1> USE CodeNumbers
<1>1. /\ form[f] \in FormRow /\ form[f].code <= made /\ form[f].seen <= made
      /\ form \in [Forms -> FormRow] /\ made \in Nat /\ made <= MaxCodes /\ entry \in EntryRow
      /\ UNCHANGED <<entry, clock, made, tries>> /\ form[f].pc = "upsert"
  BY DEF CodeInv, CodeTypes, SignIn!SignIn
<1>0. PICK x \in FormRow : x = form[f]
  BY <1>1
<1> DEFINE r == [x EXCEPT !.pc = "in"]
<1>2. r \in FormRow /\ r.code = form[f].code /\ r.seen = form[f].seen /\ r.pc = "in"
  BY <1>1, <1>0 DEF FormRow
<1>3. form' = [form EXCEPT ![f] = r]
  BY <1>0 DEF SignIn!SignIn
<1> HIDE DEF r
<1>4. /\ form' \in [Forms -> FormRow]
      /\ \A g \in Forms : form'[g] = IF g = f THEN r ELSE form[g]
  BY <1>1, <1>2, <1>3
<1>5. form[f].code \in 1..MaxCodes /\ form[f].code # entry.code /\ logins[form[f].code] = 0
  BY <1>1 DEF CodeInv, CodeRedeemed, FormRow
<1>6. /\ logins' \in [1..MaxCodes -> Nat] /\ logins'[form[f].code] = 1
      /\ \A k \in 1..MaxCodes : k # form[f].code => logins'[k] = logins[k]
  BY <1>1, <1>5 DEF CodeInv, CodeTypes, SignIn!SignIn
<1>7. CodeTypes' BY <1>1, <1>2, <1>4, <1>6 DEF CodeInv, CodeTypes
<1>8. CodeCounts'
  <2>1. form[f].code <= made /\ form[f].code \in Nat
    BY <1>1 DEF FormRow
  <2>2. \A k \in 1..MaxCodes : logins'[k] <= 1 /\ (k > made => logins'[k] = 0)
    BY <1>1, <1>5, <1>6, <2>1 DEF CodeInv, CodeCounts
  <2>3. entry.code # 0 => logins'[entry.code] = 0
    <3>1. entry.code # 0 => entry.code \in 1..MaxCodes
      BY <1>1 DEF CodeInv, CodeTypes, EntryRow
    <3> QED BY <1>5, <1>6, <3>1 DEF CodeInv, CodeCounts
  <2> QED BY <1>1, <2>2, <2>3 DEF CodeInv, CodeCounts
<1>9. CodeRedeemed'
  <2>1. \A g \in Forms : form'[g].pc = "upsert" =>
          g # f /\ form'[g] = form[g] /\ form[g].code # form[f].code
    BY <1>1, <1>2, <1>4 DEF CodeInv, CodeRedeemed
  <2>2. ASSUME NEW g \in Forms, form[g].pc = "upsert" PROVE form[g].code \in 1..MaxCodes
    <3>1. form[g] \in FormRow /\ form[g].code <= made /\ form[g].code # 0
      BY <2>2 DEF CodeInv, CodeTypes, CodeRedeemed
    <3>2. form[g].code \in Nat BY <3>1 DEF FormRow
    <3> QED BY <1>1, <3>1, <3>2
  <2> QED BY <1>1, <1>6, <2>1, <2>2 DEF CodeInv, CodeRedeemed
<1>10. CodeAges' BY <1>1, <1>2, <1>4 DEF CodeInv, CodeAges
<1> QED BY <1>7, <1>8, <1>9, <1>10 DEF CodeInv

LEMMA CodeInvStep == CodeInv /\ [SignIn!Next]_codeVars => CodeInv'
<1> SUFFICES ASSUME CodeInv, [SignIn!Next]_codeVars PROVE CodeInv'
  OBVIOUS
<1>1. CASE SignIn!Sweep
  <2>1. /\ SignIn!NoEntry \in EntryRow /\ SignIn!NoEntry.code = 0 /\ SignIn!NoEntry.attempts = 0
        /\ entry' = SignIn!NoEntry /\ UNCHANGED <<clock, made, form, tries, logins>>
    BY <1>1 DEF SignIn!Sweep, SignIn!NoEntry, EntryRow
  <2>2. 0 <= made /\ 0 <= MaxAttempts
    BY CodeNumbers DEF CodeInv, CodeTypes
  <2> QED
    BY <2>1, <2>2 DEF CodeInv, CodeTypes, CodeCounts, CodeRedeemed, CodeAges
<1>2. CASE SignIn!Tick
  <2>1. /\ clock \in Nat /\ clock' = clock + 1 /\ UNCHANGED <<entry, made, form, tries, logins>>
        /\ entry.expiresAt \in Nat
    BY <1>2 DEF SignIn!Tick, CodeInv, CodeTypes, EntryRow
  <2>2. CodeAges'
    BY <2>1, CodeNumbers DEF CodeInv, CodeAges
  <2> QED BY <2>1, <2>2 DEF CodeInv, CodeTypes, CodeCounts, CodeRedeemed
<1>3. CASE UNCHANGED codeVars
  BY <1>3 DEF codeVars, CodeInv, CodeTypes, CodeCounts, CodeRedeemed, CodeAges
<1> QED
  BY <1>1, <1>2, <1>3, PageStep, CheckCooldownStep, StoreCodeStep, VerifyStep, SignInStep
     DEF SignIn!Next, SignIn!Handler

LEMMA CodeFocus == PortalSpec => [](focus = "code" => CodeInv)
<1>1. PortalInit => (focus = "code" => CodeInv)
  BY CodeInvInit DEF PortalInit
<1>2. (focus = "code" => CodeInv) /\ [PortalNext]_allVars => (focus = "code" => CodeInv)'
  BY CodeInvStep, FocusStep
<1> QED BY <1>1, <1>2, PTL DEF PortalSpec, allVars

\* However many forms present a code at the same time, it signs in once, and it is
\* compared no more often than allowed (portal-auth.ts:228).
THEOREM CodesAreUsedUp == PortalSpec => []CodeUsedUp
<1>1. (focus = "code" => CodeInv) => CodeUsedUp
  BY CodeNumbers DEF CodeUsedUp, SignIn!CodeUsedUp, CodeInv, CodeTypes, CodeCounts
<1> QED BY <1>1, CodeFocus, PTL

\* However many forms ask at the same time, a young code is replaced only by a send
\* that had looked before it was there (portal-auth.ts:165).
THEOREM YoungCodesAreKept == PortalSpec => YoungCodeKept
<1>1. ASSUME CodeInv, [SignIn!Next]_codeVars
      PROVE  SignIn!YoungCodeStep
  <2>1. ASSUME entry'.code > entry.code
        PROVE  \E f \in Forms : SignIn!StoreCode(f)
    <3>1. entry \in EntryRow BY <1>1 DEF CodeInv, CodeTypes
    <3>2. entry' # entry /\ entry' # [entry EXCEPT !.attempts = @ + 1] /\ entry' # SignIn!NoEntry
      BY <2>1, <3>1 DEF EntryRow, SignIn!NoEntry
    <3> QED
      BY <1>1, <3>2
         DEF SignIn!Next, SignIn!Page, SignIn!Handler, SignIn!AskCode, SignIn!AskAgain,
             SignIn!Submit, SignIn!ChangeEmail, SignIn!Sent, SignIn!Lost, SignIn!CheckCooldown,
             SignIn!NoBrand, SignIn!Verify, SignIn!AfterCompare, SignIn!SignIn, SignIn!Sweep,
             SignIn!Tick, codeVars
  <2>2. ASSUME NEW f \in Forms, SignIn!StoreCode(f), SignIn!Young
        PROVE  entry'.by = f /\ form[f].seen # entry.code
    <3>1. entry.code # 0 /\ clock < entry.expiresAt - Lifetime + Cooldown /\ form[f].pc = "look"
      BY <2>2 DEF SignIn!Young, SignIn!Stored, SignIn!StoreCode
    <3>2. /\ clock \in Nat /\ entry.expiresAt \in Nat
          /\ form[f].seen = entry.code => clock >= entry.expiresAt - Lifetime + Cooldown
      BY <1>1, <3>1 DEF CodeInv, CodeTypes, CodeAges, EntryRow
    <3> QED BY <2>2, <3>1, <3>2, CodeNumbers DEF SignIn!StoreCode
  <2> QED BY <2>1, <2>2 DEF SignIn!YoungCodeStep
<1>2. (focus = "code" => CodeInv) /\ [PortalNext]_allVars =>
        [focus = "code" => SignIn!YoungCodeStep]_codeVars
  BY <1>1, FocusStep
<1> QED BY <1>2, CodeFocus, PTL DEF PortalSpec, allVars, YoungCodeKept
-----------------------------------------------------------------------------
(* The streams: sequences without duplicates *)

Distinct(s) == \A i, j \in 1..Len(s) : s[i] = s[j] => i = j
Elements(s) == {s[i] : i \in 1..Len(s)}

LEMMA TailOf ==
  ASSUME NEW S, NEW s \in Seq(S), s # <<>>, Distinct(s)
  PROVE  /\ Tail(s) \in Seq(S) /\ Len(Tail(s)) = Len(s) - 1 /\ Distinct(Tail(s))
         /\ Head(s) \in S /\ Elements(Tail(s)) = Elements(s) \ {Head(s)}
<1>1. /\ Len(s) \in Nat /\ Len(s) # 0 /\ Tail(s) \in Seq(S) /\ Len(Tail(s)) = Len(s) - 1
      /\ Head(s) = s[1] /\ \A i \in 1..(Len(s) - 1) : Tail(s)[i] = s[i + 1]
  OBVIOUS
<1>2. Distinct(Tail(s))
  BY <1>1 DEF Distinct
<1>3. ASSUME NEW y \in Elements(Tail(s)) PROVE y \in Elements(s) /\ y # Head(s)
  <2>1. PICK i \in 1..(Len(s) - 1) : y = s[i + 1]
    BY <1>1, <1>3 DEF Elements
  <2> QED BY <1>1, <2>1 DEF Elements, Distinct
<1>4. ASSUME NEW y \in Elements(s), y # Head(s) PROVE y \in Elements(Tail(s))
  <2>1. PICK i \in 1..Len(s) : y = s[i]
    BY <1>4 DEF Elements
  <2>2. i - 1 \in 1..(Len(s) - 1) /\ Tail(s)[i - 1] = y
    BY <1>1, <1>4, <2>1
  <2> QED BY <1>1, <2>2 DEF Elements
<1>5. Head(s) \in S
  BY <1>1
<1> QED BY <1>1, <1>2, <1>3, <1>4, <1>5

LEMMA AppendOf ==
  ASSUME NEW S, NEW s \in Seq(S), NEW x \in S, Distinct(s), x \notin Elements(s)
  PROVE  /\ Append(s, x) \in Seq(S) /\ Len(Append(s, x)) = Len(s) + 1 /\ Distinct(Append(s, x))
         /\ Elements(Append(s, x)) = Elements(s) \cup {x}
<1> DEFINE t == Append(s, x)
<1>1. /\ Len(s) \in Nat /\ t \in Seq(S) /\ Len(t) = Len(s) + 1 /\ t[Len(s) + 1] = x
      /\ \A i \in 1..Len(s) : t[i] = s[i]
  OBVIOUS
<1> HIDE DEF t
<1>2. \A i \in 1..Len(s) : s[i] # x
  BY DEF Elements
<1>3. Distinct(t)
  <2> SUFFICES ASSUME NEW i \in 1..Len(t), NEW j \in 1..Len(t), t[i] = t[j] PROVE i = j
    BY DEF Distinct
  <2>1. CASE i \in 1..Len(s) /\ j \in 1..Len(s)
    BY <1>1, <2>1 DEF Distinct
  <2>2. CASE i = Len(s) + 1 \/ j = Len(s) + 1
    BY <1>1, <1>2, <2>2
  <2> QED BY <1>1, <2>1, <2>2
<1>4. Elements(t) = Elements(s) \cup {x}
  <2>1. ASSUME NEW y \in Elements(t) PROVE y \in Elements(s) \cup {x}
    <3>1. PICK i \in 1..Len(t) : y = t[i]
      BY <2>1 DEF Elements
    <3> QED BY <1>1, <3>1 DEF Elements
  <2>2. ASSUME NEW y \in Elements(s) PROVE y \in Elements(t)
    <3>1. PICK i \in 1..Len(s) : y = s[i]
      BY <2>2 DEF Elements
    <3> QED BY <1>1, <3>1 DEF Elements
  <2>3. x \in Elements(t)
    BY <1>1 DEF Elements
  <2> QED BY <2>1, <2>2, <2>3
<1> QED BY <1>1, <1>3, <1>4 DEF t

\* Taking a connection out of the registry
LEMMA WithoutOf ==
  ASSUME registry \in Seq(Conns), Distinct(registry), NEW x \in Conns
  PROVE  /\ Streams!Without(x) \in Seq(Conns) /\ Distinct(Streams!Without(x))
         /\ Len(Streams!Without(x)) <= Len(registry)
         /\ Elements(Streams!Without(x)) = Elements(registry) \ {x}
<1>1. DOMAIN registry = 1..Len(registry) /\ Len(registry) \in Nat /\ Streams!Registered = Elements(registry)
  BY DEF Streams!Registered, Elements
<1>2. CASE x \notin Elements(registry)
  BY <1>1, <1>2 DEF Streams!Without
<1>3. CASE x \in Elements(registry)
  <2> DEFINE n == Len(registry) - 1
             at == CHOOSE i \in 1..Len(registry) : registry[i] = x
             t == [i \in 1..n |-> IF i < at THEN registry[i] ELSE registry[i + 1]]
  <2>1. Streams!Without(x) = t
    BY <1>1, <1>3 DEF Streams!Without
  <2>2. at \in 1..Len(registry) /\ registry[at] = x
    BY <1>3 DEF Elements
  <2> HIDE DEF at
  <2>3. n \in Nat
    BY <1>1, <2>2
  <2>4. \A i \in 1..n : t[i] \in Conns
    BY <1>1, <2>2
  <2>5. t \in Seq(Conns) /\ Len(t) = n
    BY <2>3, <2>4
  <2>6. \A i \in 1..n : t[i] = IF i < at THEN registry[i] ELSE registry[i + 1]
    OBVIOUS
  <2> HIDE DEF t
  <2>7. Distinct(t)
    <3> SUFFICES ASSUME NEW i \in 1..n, NEW j \in 1..n, t[i] = t[j] PROVE i = j
      BY <2>5 DEF Distinct
    <3> DEFINE p(k) == IF k < at THEN k ELSE k + 1
    <3>1. p(i) \in 1..Len(registry) /\ p(j) \in 1..Len(registry)
      BY <1>1, <2>2
    <3>2. registry[p(i)] = registry[p(j)]
      BY <2>6
    <3>3. p(i) = p(j)
      BY <3>1, <3>2 DEF Distinct
    <3> QED BY <1>1, <2>2, <3>3
  <2>8. ASSUME NEW y \in Elements(t) PROVE y \in Elements(registry) /\ y # x
    <3>1. PICK i \in 1..n : y = t[i]
      BY <2>5, <2>8 DEF Elements
    <3>2. PICK k \in 1..Len(registry) : k # at /\ y = registry[k]
      BY <1>1, <2>2, <2>6, <3>1
    <3> QED BY <2>2, <3>2 DEF Elements, Distinct
  <2>9. ASSUME NEW y \in Elements(registry), y # x PROVE y \in Elements(t)
    <3>1. PICK k \in 1..Len(registry) : y = registry[k] /\ k # at
      BY <2>2, <2>9 DEF Elements
    <3>2. \E i \in 1..n : t[i] = y
      <4>1. CASE k < at
        BY <1>1, <2>2, <2>6, <3>1, <4>1
      <4>2. CASE k > at
        <5>1. k - 1 \in 1..n /\ ~(k - 1 < at) /\ (k - 1) + 1 = k
          BY <1>1, <2>2, <4>2
        <5> QED BY <2>6, <3>1, <5>1
      <4> QED BY <1>1, <2>2, <3>1, <4>1, <4>2
    <3> QED BY <2>5, <3>2 DEF Elements
  <2> QED BY <1>1, <2>1, <2>3, <2>5, <2>7, <2>8, <2>9
<1> QED BY <1>2, <1>3
-----------------------------------------------------------------------------
(* The streams: who holds a place *)

StreamTypes ==
  /\ registry \in Seq(Conns) /\ kind \in {"case", "tenant"}
  /\ stream \in [Conns -> {"new", "greet", "loop", "refused", "closed"}]
  /\ gone \subseteq Conns /\ early \subseteq gone

\* A registered stream is open at this end, an open one is registered, and one
\* that holds its place after its client left did not hear of that.
StreamPlaces ==
  /\ Distinct(registry) /\ Len(registry) <= MaxPerKey
  /\ \A x \in Elements(registry) : stream[x] \in {"greet", "loop"} /\ (x \in gone => x \in early)
  /\ \A x \in Conns \ gone : stream[x] \in {"greet", "loop"} => x \in Elements(registry)

StreamInv == StreamTypes /\ StreamPlaces

LEMMA SomePlaces == MaxPerKey \in Nat /\ MaxPerKey # 0
BY PortalAssumption DEF PortalAssumption

LEMMA StreamInvInit == Streams!Init => StreamInv
<1> SUFFICES ASSUME Streams!Init PROVE StreamInv
  OBVIOUS
<1>1. registry = <<>> /\ Len(registry) = 0 /\ Elements(registry) = {} /\ Distinct(registry)
  BY DEF Streams!Init, Elements, Distinct
<1>2. 0 <= MaxPerKey
  BY PortalAssumption DEF PortalAssumption
<1> QED BY <1>1, <1>2 DEF Streams!Init, StreamInv, StreamTypes, StreamPlaces

\* A new connection takes its place after the others, or after all but the oldest.
LEMMA Registering ==
  ASSUME StreamInv, NEW x \in Conns, stream[x] = "new", x \notin gone,
         Streams!RegisterCase(x) \/ Streams!RegisterTenant(x), UNCHANGED <<kind, gone, early>>
  PROVE  StreamInv'
<1> USE DEF StreamInv, StreamTypes, StreamPlaces
<1>1. Len(registry) \in Nat /\ MaxPerKey \in Nat /\ MaxPerKey # 0 /\ x \notin Elements(registry)
  BY SomePlaces
<1>2. CASE Streams!RegisterCase(x) /\ Streams!Full
  <2> DEFINE t == Tail(registry)
             h == Head(registry)
  <2>1. registry # <<>>
    BY <1>1, <1>2 DEF Streams!Full
  <2>2. /\ t \in Seq(Conns) /\ Len(t) = Len(registry) - 1 /\ Distinct(t)
        /\ h \in Conns /\ Elements(t) = Elements(registry) \ {h}
    BY <2>1, TailOf
  <2>3. /\ registry' = Append(t, x)
        /\ stream' = [y \in Conns |-> IF y = x THEN "greet" ELSE IF y = h THEN "closed" ELSE stream[y]]
    BY <1>2 DEF Streams!RegisterCase
  <2> HIDE DEF t, h
  <2>4. /\ registry' \in Seq(Conns) /\ Len(registry') = Len(t) + 1 /\ Distinct(registry')
        /\ Elements(registry') = Elements(t) \cup {x}
    BY <1>1, <2>2, <2>3, AppendOf
  <2>5. Len(registry') <= MaxPerKey
    BY <1>1, <2>2, <2>4
  <2>6. StreamTypes'
    BY <2>2, <2>3, <2>4
  <2>7. /\ \A y \in Elements(registry') :
             stream'[y] \in {"greet", "loop"} /\ (y \in gone' => y \in early')
        /\ \A y \in Conns \ gone' : stream'[y] \in {"greet", "loop"} => y \in Elements(registry')
    <3>1. Elements(registry') = (Elements(registry) \ {h}) \cup {x}
      BY <2>2, <2>4
    <3>2. \A y \in Elements(registry') : y \in Conns
      BY <2>4 DEF Elements
    <3>3. \A y \in Conns : stream'[y] = IF y = x THEN "greet" ELSE IF y = h THEN "closed" ELSE stream[y]
      BY <2>3
    <3> HIDE DEF StreamTypes
    <3> QED BY <3>1, <3>2, <3>3
  <2> QED BY <2>4, <2>5, <2>6, <2>7
<1>3. CASE (Streams!RegisterCase(x) \/ Streams!RegisterTenant(x)) /\ ~Streams!Full
  <2>1. registry' = Append(registry, x)
    BY <1>3 DEF Streams!RegisterCase, Streams!RegisterTenant
  <2>2. stream' = [stream EXCEPT ![x] = "greet"]
    BY <1>3 DEF Streams!RegisterCase, Streams!RegisterTenant
  <2>3. /\ registry' \in Seq(Conns) /\ Len(registry') = Len(registry) + 1 /\ Distinct(registry')
        /\ Elements(registry') = Elements(registry) \cup {x}
    BY <1>1, <2>1, AppendOf
  <2>4. Len(registry') <= MaxPerKey
    BY <1>1, <1>3, <2>3 DEF Streams!Full
  <2> QED BY <2>2, <2>3, <2>4
<1>4. CASE Streams!RegisterTenant(x) /\ Streams!Full
  <2>1. registry' = registry /\ stream' = [stream EXCEPT ![x] = "refused"]
    BY <1>4 DEF Streams!RegisterTenant
  <2> QED BY <1>1, <2>1
<1> QED BY <1>2, <1>3, <1>4

LEMMA StreamInvStep == StreamInv /\ [Streams!Next]_streamVars => StreamInv'
<1> SUFFICES ASSUME StreamInv, [Streams!Next]_streamVars PROVE StreamInv'
  OBVIOUS
<1>1. ASSUME NEW x \in Conns, Streams!Connect(x) PROVE StreamInv'
  BY <1>1, Registering DEF Streams!Connect
<1> USE DEF StreamInv, StreamTypes, StreamPlaces
<1>2. ASSUME NEW x \in Conns, Streams!Greeted(x) PROVE StreamInv'
  BY <1>2 DEF Streams!Greeted
<1>3. ASSUME NEW x \in Conns, Streams!Leave(x) PROVE StreamInv'
  <2>1. CASE stream[x] = "greet"
    BY <1>3, <2>1 DEF Streams!Leave
  <2>2. CASE stream[x] # "greet"
    <3>1. /\ registry' = Streams!Without(x) /\ gone' = gone \cup {x}
          /\ UNCHANGED <<kind, stream, early>>
      BY <1>3, <2>2 DEF Streams!Leave
    <3>2. /\ registry' \in Seq(Conns) /\ Distinct(registry') /\ Len(registry') <= Len(registry)
          /\ Elements(registry') = Elements(registry) \ {x}
      BY <3>1, WithoutOf
    <3>3. Len(registry') <= MaxPerKey
      <4>1. Len(registry) \in Nat /\ Len(registry') \in Nat /\ MaxPerKey \in Nat
        BY <3>2, SomePlaces
      <4> QED BY <3>2, <4>1
    <3> QED BY <3>1, <3>2, <3>3
  <2> QED BY <2>1, <2>2
<1>4. CASE UNCHANGED streamVars
  BY <1>4 DEF streamVars
<1> QED BY <1>1, <1>2, <1>3, <1>4 DEF Streams!Next

LEMMA StreamFocus == PortalSpec => [](focus = "streams" => StreamInv)
<1>1. PortalInit => (focus = "streams" => StreamInv)
  BY StreamInvInit DEF PortalInit
<1>2. (focus = "streams" => StreamInv) /\ [PortalNext]_allVars => (focus = "streams" => StreamInv)'
  BY StreamInvStep, FocusStep
<1> QED BY <1>1, <1>2, PTL DEF PortalSpec, allVars

\* The registry stays within its limit and holds every stream that is open, and
\* besides them only those whose client left before its callback was set
\* (sse-base.ts:14).
THEOREM PlacesAreAccounted == PortalSpec => []PlacesAccounted
<1>1. StreamInv => Streams!PlacesAccounted
  <2> SUFFICES ASSUME StreamInv PROVE Streams!PlacesAccounted
    OBVIOUS
  <2>1. Streams!Registered = Elements(registry) /\ Elements(registry) \subseteq Conns
    BY DEF Streams!Registered, Elements, StreamInv, StreamTypes
  <2>2. \A x \in Conns : x \in Streams!Open <=> x \notin gone /\ stream[x] \in {"greet", "loop"}
    BY DEF Streams!Open, StreamInv, StreamTypes
  <2>3. Streams!Open \subseteq Conns
    BY DEF Streams!Open
  <2> QED BY <2>1, <2>2, <2>3 DEF Streams!PlacesAccounted, StreamInv, StreamPlaces
<1> QED BY <1>1, StreamFocus, PTL DEF PlacesAccounted
-----------------------------------------------------------------------------
(* The screen of the chat: bubbles, and what is written over *)

Bubble == [agent : BOOLEAN, from : Nat, to : Nat, streaming : BOOLEAN]

\* The interval a bubble shows has arrived; what streams is of the agent.
Shows(b, n) == b.from <= b.to /\ b.to <= n /\ (b.streaming => b.agent)

Switches ==
  /\ connected \in BOOLEAN /\ pending \in BOOLEAN /\ timer \in BOOLEAN
  /\ typing \in BOOLEAN /\ escalated \in BOOLEAN
  /\ pending => timer

ScreenInv ==
  /\ Switches
  /\ bubbles \in Seq(Bubble) /\ arrived \in 0..MaxPieces /\ start \in 0..arrived
  /\ \A i \in 1..Len(bubbles) : Shows(bubbles[i], arrived)

LEMMA ScreenNumbers == MaxPieces \in Nat /\ MaxBubbles \in Nat
BY PortalAssumption DEF PortalAssumption

\* The line that an analysis of a picture adds
MediaLine == [Screen!Other EXCEPT !.agent = TRUE]

LEMMA NewBubbles ==
  ASSUME NEW m \in Nat, NEW n \in Nat, NEW k \in Nat, m <= n, n <= k
  PROVE  /\ Screen!Other \in Bubble /\ Shows(Screen!Other, k)
         /\ MediaLine \in Bubble /\ Shows(MediaLine, k)
         /\ Screen!Piece(m, n) \in Bubble /\ Shows(Screen!Piece(m, n), k)
<1>1. Screen!Other \in Bubble /\ MediaLine \in Bubble
  BY DEF Screen!Other, MediaLine, Bubble
<1>2. Screen!Piece(m, n) \in Bubble
  BY DEF Screen!Piece, Bubble
<1>3. Shows(Screen!Other, k)
  <2>1. Screen!Other.from = 0 /\ Screen!Other.to = 0 /\ ~Screen!Other.streaming
    BY DEF Screen!Other
  <2> QED BY <2>1 DEF Shows
<1>4. Shows(MediaLine, k)
  <2>1. MediaLine.from = 0 /\ MediaLine.to = 0 /\ ~MediaLine.streaming
    BY DEF MediaLine, Screen!Other
  <2> QED BY <2>1 DEF Shows
<1>5. Shows(Screen!Piece(m, n), k)
  <2>1. Screen!Piece(m, n).from = m /\ Screen!Piece(m, n).to = n /\ Screen!Piece(m, n).agent
    BY DEF Screen!Piece
  <2> QED BY <2>1 DEF Shows
<1> QED BY <1>1, <1>2, <1>3, <1>4, <1>5

LEMMA StillShows ==
  ASSUME NEW b \in Bubble, NEW m \in Nat, NEW n \in Nat, m <= n, Shows(b, m)
  PROVE  Shows(b, n)
<1>1. b.from <= n /\ b.to <= n
  BY DEF Shows, Bubble
<1> QED BY <1>1 DEF Shows

\* What is shown is put in the place of the last bubble, if that streams, or
\* comes after it.
LEMMA Showing ==
  ASSUME ScreenInv, NEW to \in Nat, NEW n \in Nat, start <= to, to <= n, arrived <= n,
         Screen!Show(to)
  PROVE  /\ bubbles' \in Seq(Bubble)
         /\ \A i \in 1..Len(bubbles') : Shows(bubbles'[i], n)
         /\ \A i \in 1..Len(bubbles) \cap 1..Len(bubbles') :
              ~bubbles[i].streaming => bubbles'[i] = bubbles[i]
<1> DEFINE b == Screen!Piece(start, to)
<1>1. b \in Bubble /\ Shows(b, n) /\ start \in Nat /\ arrived \in Nat
  BY NewBubbles, ScreenNumbers DEF ScreenInv
<1>2. Len(bubbles) \in Nat /\ bubbles \in Seq(Bubble) /\ \A i \in 1..Len(bubbles) : bubbles[i] \in Bubble
  BY DEF ScreenInv
<1>3. \A i \in 1..Len(bubbles) : Shows(bubbles[i], n)
  BY <1>1, <1>2, StillShows DEF ScreenInv
<1>4. CASE Screen!Continues
  <2>1. Len(bubbles) # 0 /\ bubbles[Len(bubbles)].streaming
    BY <1>2, <1>4 DEF Screen!Continues
  <2>2. bubbles' = [bubbles EXCEPT ![Len(bubbles)] = b]
    BY <1>4 DEF Screen!Show
  <2> HIDE DEF b
  <2>3. /\ bubbles' \in Seq(Bubble) /\ Len(bubbles') = Len(bubbles)
        /\ \A i \in 1..Len(bubbles) :
             bubbles'[i] = IF i = Len(bubbles) THEN b ELSE bubbles[i]
    BY <1>1, <1>2, <2>1, <2>2
  <2> QED BY <1>1, <1>3, <2>1, <2>3
<1>5. CASE ~Screen!Continues
  <2>1. bubbles' = Append(bubbles, b)
    BY <1>5 DEF Screen!Show, Screen!Add
  <2> HIDE DEF b
  <2>2. /\ bubbles' \in Seq(Bubble) /\ Len(bubbles') = Len(bubbles) + 1
        /\ \A i \in 1..Len(bubbles) : bubbles'[i] = bubbles[i]
        /\ bubbles'[Len(bubbles) + 1] = b
    BY <1>1, <1>2, <2>1
  <2> QED BY <1>1, <1>2, <1>3, <2>2
<1> QED BY <1>4, <1>5

\* A line that is added comes after the others.
LEMMA Adding ==
  ASSUME ScreenInv, NEW b \in Bubble, Shows(b, arrived), Screen!Add(b)
  PROVE  /\ bubbles' \in Seq(Bubble)
         /\ \A i \in 1..Len(bubbles') : Shows(bubbles'[i], arrived)
         /\ \A i \in 1..Len(bubbles) \cap 1..Len(bubbles') :
              ~bubbles[i].streaming => bubbles'[i] = bubbles[i]
<1>1. Len(bubbles) \in Nat /\ bubbles \in Seq(Bubble) /\ bubbles' = Append(bubbles, b)
  BY DEF ScreenInv, Screen!Add
<1>2. /\ bubbles' \in Seq(Bubble) /\ Len(bubbles') = Len(bubbles) + 1
      /\ \A i \in 1..Len(bubbles) : bubbles'[i] = bubbles[i]
      /\ bubbles'[Len(bubbles) + 1] = b
  BY <1>1
<1> QED BY <1>1, <1>2 DEF ScreenInv

\* When an answer is done, every bubble is finished and shows what it showed.
LEMMA Finishing ==
  ASSUME ScreenInv,
         bubbles' = [i \in DOMAIN bubbles |-> [bubbles[i] EXCEPT !.streaming = FALSE]]
  PROVE  /\ bubbles' \in Seq(Bubble)
         /\ \A i \in 1..Len(bubbles') : Shows(bubbles'[i], arrived)
         /\ \A i \in 1..Len(bubbles) \cap 1..Len(bubbles') :
              ~bubbles[i].streaming => bubbles'[i] = bubbles[i]
<1>1. Len(bubbles) \in Nat /\ bubbles \in Seq(Bubble) /\ DOMAIN bubbles = 1..Len(bubbles)
  BY DEF ScreenInv
<1>2. ASSUME NEW i \in 1..Len(bubbles)
      PROVE  /\ bubbles'[i] \in Bubble /\ Shows(bubbles'[i], arrived)
             /\ ~bubbles[i].streaming => bubbles'[i] = bubbles[i]
  <2>1. PICK b \in Bubble : b = bubbles[i] /\ Shows(b, arrived)
    BY <1>1 DEF ScreenInv
  <2> DEFINE c == [b EXCEPT !.streaming = FALSE]
  <2>2. bubbles'[i] = c
    BY <1>1, <2>1
  <2>3. c \in Bubble /\ c.from = b.from /\ c.to = b.to /\ ~c.streaming
    BY DEF Bubble
  <2>4. ~b.streaming => c = b
    BY DEF Bubble
  <2> HIDE DEF c
  <2>5. Shows(c, arrived)
    BY <2>1, <2>3 DEF Shows
  <2> QED BY <2>1, <2>2, <2>3, <2>4, <2>5
<1>3. bubbles' \in Seq(Bubble) /\ Len(bubbles') = Len(bubbles)
  BY <1>1, <1>2
<1> QED BY <1>2, <1>3

LEMMA ScreenInvInit == Screen!Init => ScreenInv
<1> SUFFICES ASSUME Screen!Init PROVE ScreenInv
  OBVIOUS
<1>1. Switches
  BY DEF Screen!Init, Switches
<1>2. bubbles = <<>> /\ Len(bubbles) = 0 /\ bubbles \in Seq(Bubble)
  BY DEF Screen!Init
<1>3. arrived \in 0..MaxPieces /\ start \in 0..arrived
  BY ScreenNumbers DEF Screen!Init
<1> QED BY <1>1, <1>2, <1>3 DEF ScreenInv

LEMMA ScreenInvStep ==
  ASSUME ScreenInv, [Screen!Next]_chatVars
  PROVE  ScreenInv' /\ Screen!FinishedStep
<1> USE ScreenNumbers
<1>1. /\ Len(bubbles) \in Nat /\ bubbles \in Seq(Bubble) /\ DOMAIN bubbles = 1..Len(bubbles)
      /\ arrived \in Nat /\ start \in Nat /\ start <= arrived
  BY DEF ScreenInv
<1> DEFINE Kept == /\ bubbles' \in Seq(Bubble)
                   /\ \A i \in 1..Len(bubbles') : Shows(bubbles'[i], arrived')
                   /\ \A i \in 1..Len(bubbles) \cap 1..Len(bubbles') :
                        ~bubbles[i].streaming => bubbles'[i] = bubbles[i]
<1>2. bubbles' = bubbles /\ arrived' = arrived => Kept
  BY DEF ScreenInv
<1>3. Kept => Screen!FinishedStep
  BY <1>1 DEF Screen!FinishedStep
<1> HIDE DEF Kept
<1>0. [Screen!Next]_chatVars => Switches'
  <2> USE DEF ScreenInv, Switches
  <2>1. Screen!Connect => Switches' BY DEF Screen!Connect
  <2>2. Screen!Typing => Switches' BY DEF Screen!Typing
  <2>3. Screen!Delta => Switches' BY DEF Screen!Delta
  <2>4. Screen!Timer => Switches' BY DEF Screen!Timer
  <2>5. Screen!Done => Switches'
    <3>1. Screen!Done => connected' = connected /\ pending' = pending /\ timer' = timer /\ typing' = FALSE
      BY DEF Screen!Done
    <3>2. Screen!Done => escalated' \in BOOLEAN
      BY DEF Screen!Done
    <3> QED BY <3>1, <3>2
  <2>6. Screen!Escalation => Switches'
    <3>1. Screen!Escalation => connected' = connected /\ pending' = pending /\ timer' = timer /\ typing' = FALSE
      BY DEF Screen!Escalation
    <3>2. Screen!Escalation => escalated' \in BOOLEAN
      BY DEF Screen!Escalation
    <3> QED BY <3>1, <3>2
  <2>7. Screen!Media => Switches'
    <3>1. Screen!Media => connected' = connected /\ pending' = pending /\ timer' = timer /\ typing' = FALSE
      BY DEF Screen!Media
    <3>2. Screen!Media => escalated' \in BOOLEAN
      BY DEF Screen!Media
    <3> QED BY <3>1, <3>2
  <2>8. Screen!Send => Switches' BY DEF Screen!Send
  <2>9. Screen!AskHuman => Switches' BY DEF Screen!AskHuman
  <2>10. Screen!LoadCase => Switches'
    <3>1. Screen!LoadCase => pending' = pending /\ timer' = timer /\ typing' = typing
      BY DEF Screen!LoadCase
    <3>2. Screen!LoadCase => connected' \in BOOLEAN /\ escalated' \in BOOLEAN
      BY DEF Screen!LoadCase
    <3> QED BY <3>1, <3>2
  <2>11. UNCHANGED chatVars => Switches' BY DEF chatVars
  <2> HIDE DEF Switches
  <2> QED
    BY <2>1, <2>2, <2>3, <2>4, <2>5, <2>6, <2>7, <2>8, <2>9, <2>10, <2>11 DEF Screen!Next
<1>4. CASE Screen!Connect \/ Screen!Typing \/ Screen!AskHuman \/ UNCHANGED chatVars
  <2>1. bubbles' = bubbles /\ arrived' = arrived /\ start' = start
    BY <1>4 DEF Screen!Connect, Screen!Typing, Screen!AskHuman, chatVars
  <2>2. ScreenInv'
    BY <1>0, <2>1 DEF ScreenInv
  <2> QED BY <1>2, <1>3, <2>1, <2>2
<1>5. CASE Screen!Delta
  <2>1. arrived' = arrived + 1 /\ arrived' \in 0..MaxPieces /\ start' = start /\ start' \in 0..arrived'
    BY <1>1, <1>5 DEF Screen!Delta
  <2>2. Kept
    <3>1. CASE timer
      <4>1. bubbles' = bubbles
        BY <1>5, <3>1 DEF Screen!Delta
      <4>2. \A i \in 1..Len(bubbles) : Shows(bubbles[i], arrived')
        BY <1>1, <2>1, StillShows DEF ScreenInv
      <4> QED BY <1>1, <4>1, <4>2 DEF Kept
    <3>2. CASE ~timer
      <4>1. Screen!Show(arrived + 1)
        BY <1>5, <3>2 DEF Screen!Delta
      <4>2. arrived + 1 \in Nat /\ start <= arrived + 1 /\ arrived <= arrived + 1
        BY <1>1
      <4> QED BY <2>1, <4>1, <4>2, Showing DEF Kept
    <3> QED BY <3>1, <3>2
  <2>3. ScreenInv'
    BY <1>0, <2>1, <2>2 DEF ScreenInv, Kept
  <2> QED BY <1>3, <2>2, <2>3
<1>6. CASE Screen!Timer
  <2>1. arrived' = arrived /\ start' = start
    BY <1>6 DEF Screen!Timer
  <2>2. Kept
    <3>1. CASE pending
      <4>1. Screen!Show(arrived)
        BY <1>6, <3>1 DEF Screen!Timer
      <4> QED BY <1>1, <2>1, <4>1, Showing DEF Kept
    <3>2. CASE ~pending
      BY <1>2, <1>6, <2>1, <3>2 DEF Screen!Timer
    <3> QED BY <3>1, <3>2
  <2>3. ScreenInv'
    BY <1>0, <2>1, <2>2 DEF ScreenInv, Kept
  <2> QED BY <1>3, <2>2, <2>3
<1>7. CASE Screen!Done
  <2>1. arrived' = arrived /\ start' = arrived
    BY <1>7 DEF Screen!Done
  <2>2. Kept
    BY <1>7, <2>1, Finishing DEF Screen!Done, Kept
  <2>3. ScreenInv'
    BY <1>0, <1>1, <2>1, <2>2 DEF ScreenInv, Kept
  <2> QED BY <1>3, <2>2, <2>3
<1>8. CASE Screen!Escalation \/ Screen!Media \/ Screen!Send
  <2>1. arrived' = arrived /\ start' = start
    BY <1>8 DEF Screen!Escalation, Screen!Media, Screen!Send
  <2>4. Screen!Other \in Bubble /\ Shows(Screen!Other, arrived)
    BY <1>1, NewBubbles
  <2>5. MediaLine \in Bubble /\ Shows(MediaLine, arrived)
    BY <1>1, NewBubbles
  <2>7. Screen!Add(Screen!Other) \/ Screen!Add(MediaLine)
    BY <1>8 DEF Screen!Escalation, Screen!Media, Screen!Send, MediaLine
  <2>2. PICK b \in Bubble : Shows(b, arrived) /\ Screen!Add(b)
    BY <2>4, <2>5, <2>7
  <2>3. Kept
    BY <2>1, <2>2, Adding DEF Kept
  <2>6. ScreenInv'
    BY <1>0, <2>1, <2>3 DEF ScreenInv, Kept
  <2> QED BY <1>3, <2>3, <2>6
<1>9. CASE Screen!LoadCase
  <2>1. bubbles' = <<>> /\ arrived' = arrived /\ start' = start
    BY <1>9 DEF Screen!LoadCase
  <2>2. Kept
    BY <2>1 DEF Kept
  <2>3. ScreenInv'
    BY <1>0, <2>1, <2>2 DEF ScreenInv, Kept
  <2> QED BY <1>3, <2>2, <2>3
<1> QED BY <1>4, <1>5, <1>6, <1>7, <1>8, <1>9 DEF Screen!Next

LEMMA ScreenFocus == PortalSpec => [](focus = "screen" => ScreenInv)
<1>1. PortalInit => (focus = "screen" => ScreenInv)
  BY ScreenInvInit DEF PortalInit
<1>2. (focus = "screen" => ScreenInv) /\ [PortalNext]_allVars => (focus = "screen" => ScreenInv)'
  BY ScreenInvStep, FocusStep
<1> QED BY <1>1, <1>2, PTL DEF PortalSpec, allVars

\* However the events of several answers mix, the bubble of a finished answer is
\* not written over (screen-chat.tsx:188).
THEOREM FinishedAnswersAreKept == PortalSpec => FinishedKept
<1>1. (focus = "screen" => ScreenInv) /\ [PortalNext]_allVars =>
        [focus = "screen" => Screen!FinishedStep]_chatVars
  BY ScreenInvStep, FocusStep
<1> QED BY <1>1, ScreenFocus, PTL DEF PortalSpec, allVars, FinishedKept
-----------------------------------------------------------------------------
(* The knowledge: products, and what a weight has lost *)

LEMMA Products ==
  ASSUME NEW a \in Nat, NEW b \in Nat, NEW c \in Nat, NEW d \in Nat, a <= c, b <= d
  PROVE  a * b \in Nat /\ c * d \in Nat /\ a * b <= c * d
<1>1. a * b <= c * b
  OBVIOUS
<1>2. c * b <= c * d
  OBVIOUS
<1> QED BY <1>1, <1>2

FoundRow == [id : KnowledgeEntries, weight : 0..FullWeight, used : Nat, rate : 1..MaxRate,
             changed : BOOLEAN]
VoteRow == [id : KnowledgeEntries, rate : 1..MaxRate]
JobRow == [pc : {"idle", "page", "write", "demote", "retire", "archive"}, now : Nat, skip : Nat,
           read : SUBSET FoundRow]

\* A weight is used up, or has lost no more than r for each day from b to d.
Weighed(w, r, b, d) == w = 0 \/ w + r * (d - b) >= FullWeight

RowTypes ==
  /\ entryStatus \in [KnowledgeEntries -> {"none", "ACTIVE", "DECAYING", "DORMANT", "ARCHIVED"}]
  /\ weight \in [KnowledgeEntries -> 0..FullWeight] /\ rate \in [KnowledgeEntries -> 1..MaxRate]
  /\ used \in [KnowledgeEntries -> 0..day] /\ touched \in [KnowledgeEntries -> 0..day]
  /\ basis \in [KnowledgeEntries -> 0..day] /\ pace \in [KnowledgeEntries -> 1..MaxRate]
  /\ vote \in [Votes -> SUBSET VoteRow]
  /\ day \in Nat

JobTypes ==
  /\ job \in [Jobs -> JobRow]
  /\ \A j \in Jobs : job[j].now <= day /\ (job[j].read # {} => job[j].pc = "write")

\* The entries, and what the jobs found and have yet to write
Weighing ==
  /\ \A e \in KnowledgeEntries : Weighed(weight[e], pace[e], basis[e], day)
  /\ \A j \in Jobs : \A r \in job[j].read :
       r.used <= day /\ Weighed(r.weight, r.rate, r.used, day)

BaseInv == RowTypes /\ JobTypes /\ Weighing

LEMMA KnowledgeNumbers ==
  /\ FullWeight \in Nat /\ MaxRate \in Nat /\ MaxRate # 0 /\ PageSize \in Nat
  /\ \A e \in KnowledgeEntries : e \in Nat
BY PortalAssumption DEF PortalAssumption

\* A weight that was right one day is right the next.
LEMMA WeighedOn ==
  ASSUME NEW w \in Nat, NEW r \in Nat, NEW b \in Nat, NEW d \in Nat,
         b <= d, Weighed(w, r, b, d)
  PROVE  Weighed(w, r, b, d + 1)
<1>1. d - b \in Nat /\ (d + 1) - b \in Nat /\ d - b <= (d + 1) - b /\ r <= r
  OBVIOUS
<1>2. r * (d - b) \in Nat /\ r * ((d + 1) - b) \in Nat /\ r * (d - b) <= r * ((d + 1) - b)
  BY <1>1, Products
<1> QED BY <1>1, <1>2, KnowledgeNumbers DEF Weighed

\* The weight that is worked out is one that may be written.
LEMMA WeightWeighs ==
  ASSUME RowTypes, NEW e \in KnowledgeEntries, NEW now \in Nat, now <= day
  PROVE  /\ Knowledge!Weight(e, now) \in 0..FullWeight
         /\ Weighed(Knowledge!Weight(e, now), rate[e], used[e], day)
<1>1. used[e] \in Nat /\ used[e] <= day /\ rate[e] \in Nat /\ day \in Nat
  BY KnowledgeNumbers DEF RowTypes
<1>2. Knowledge!Days(e, now) \in Nat /\ Knowledge!Days(e, now) <= day - used[e] /\ day - used[e] \in Nat
  BY <1>1 DEF Knowledge!Days
<1> DEFINE worn == rate[e] * Knowledge!Days(e, now)
<1>3. worn \in Nat /\ rate[e] * (day - used[e]) \in Nat /\ worn <= rate[e] * (day - used[e])
  BY <1>1, <1>2, Products
<1>4. Knowledge!Weight(e, now) = IF worn >= FullWeight THEN 0 ELSE FullWeight - worn
  BY DEF Knowledge!Weight
<1> HIDE DEF worn
<1> QED BY <1>3, <1>4, KnowledgeNumbers DEF Weighed

LEMMA BaseInvInit == Knowledge!Init => BaseInv
<1> SUFFICES ASSUME Knowledge!Init PROVE BaseInv
  OBVIOUS
<1> USE KnowledgeNumbers DEF Knowledge!Init
<1>1. RowTypes
  BY DEF RowTypes
<1>2. Knowledge!IdleJob \in JobRow /\ Knowledge!IdleJob.now = 0 /\ Knowledge!IdleJob.read = {}
  BY DEF Knowledge!IdleJob, JobRow
<1>3. JobTypes
  BY <1>2 DEF JobTypes
<1>4. Weighing
  BY <1>2 DEF Weighing, Weighed
<1> QED BY <1>1, <1>3, <1>4 DEF BaseInv

\* A row of a job that may take the place of the one it has
GoodJob(r) ==
  /\ r \in JobRow /\ r.now <= day /\ (r.read # {} => r.pc = "write")
  /\ \A x \in r.read : x.used <= day /\ Weighed(x.weight, x.rate, x.used, day)

LEMMA JobMoves ==
  ASSUME BaseInv, NEW j \in Jobs, NEW r, GoodJob(r), job' = [job EXCEPT ![j] = r],
         UNCHANGED day
  PROVE  /\ JobTypes'
         /\ \A k \in Jobs : \A x \in job'[k].read :
              x.used <= day /\ Weighed(x.weight, x.rate, x.used, day)
<1>1. job' \in [Jobs -> JobRow] /\ \A k \in Jobs : job'[k] = IF k = j THEN r ELSE job[k]
  BY DEF BaseInv, JobTypes, GoodJob
<1> QED BY <1>1 DEF BaseInv, JobTypes, Weighing, GoodJob

LEMMA OneJob ==
  ASSUME BaseInv, NEW j \in Jobs
  PROVE  GoodJob(job[j])
BY DEF BaseInv, JobTypes, Weighing, GoodJob

\* The rows of the entries stay, or what changes in them is not weighed.
LEMMA RowsStay ==
  ASSUME BaseInv, UNCHANGED <<weight, pace, basis, day>>
  PROVE  \A e \in KnowledgeEntries : Weighed(weight'[e], pace'[e], basis'[e], day')
BY DEF BaseInv, Weighing

LEMMA Touching ==
  ASSUME RowTypes, NEW S, Knowledge!Touch(S)
  PROVE  touched' \in [KnowledgeEntries -> 0..day]
BY DEF RowTypes, Knowledge!Touch

LEMMA ResetJob == ASSUME BaseInv PROVE GoodJob(Knowledge!IdleJob)
<1>1. /\ Knowledge!IdleJob \in JobRow /\ Knowledge!IdleJob.now = 0 /\ Knowledge!IdleJob.read = {}
      /\ Knowledge!IdleJob.pc = "idle"
  BY DEF Knowledge!IdleJob, JobRow
<1>2. 0 <= day
  BY DEF BaseInv, RowTypes
<1> QED BY <1>1, <1>2 DEF GoodJob

LEMMA StartStep ==
  ASSUME BaseInv, NEW j \in Jobs, Knowledge!Start(j) \/ Knowledge!StopJob(j)
  PROVE  BaseInv'
<1>0. UNCHANGED <<entryStatus, weight, rate, used, touched, day, vote, basis, pace>>
  BY DEF Knowledge!Start, Knowledge!StopJob, Knowledge!rows, Knowledge!judged
<1>1. \E r : GoodJob(r) /\ job' = [job EXCEPT ![j] = r]
  <2>1. CASE Knowledge!Start(j)
    <3> DEFINE r == [Knowledge!IdleJob EXCEPT !.pc = "page", !.now = day]
    <3>1. job' = [job EXCEPT ![j] = r]
      BY <2>1 DEF Knowledge!Start
    <3>2. day \in Nat
      BY DEF BaseInv, RowTypes
    <3>3. r \in JobRow /\ r.now = day /\ r.read = {}
      BY <3>2 DEF Knowledge!IdleJob, JobRow
    <3> HIDE DEF r
    <3>4. GoodJob(r)
      BY <3>2, <3>3 DEF GoodJob
    <3> QED BY <3>1, <3>4
  <2>2. CASE Knowledge!StopJob(j)
    BY <2>2, ResetJob DEF Knowledge!StopJob
  <2> QED BY <2>1, <2>2
<1>2. RowTypes'
  BY <1>0 DEF BaseInv, RowTypes
<1> QED BY <1>0, <1>1, <1>2, JobMoves, RowsStay DEF BaseInv, Weighing

LEMMA ReadPageStep ==
  ASSUME BaseInv, NEW j \in Jobs, Knowledge!ReadPage(j)
  PROVE  BaseInv'
<1>0. UNCHANGED <<entryStatus, weight, rate, used, touched, day, vote, basis, pace>>
  BY DEF Knowledge!ReadPage, Knowledge!rows, Knowledge!judged
<1>1. day \in Nat /\ GoodJob(job[j])
  BY OneJob DEF BaseInv, RowTypes
<1>2. PICK x \in JobRow : x = job[j] /\ GoodJob(x) /\ x.now \in Nat /\ x.now <= day
  BY <1>1 DEF GoodJob, JobRow
<1> DEFINE seen == Knowledge!PageAt(x.skip)
           found == {Knowledge!Found(e, x.now) : e \in seen}
<1>3. seen \subseteq KnowledgeEntries
  BY DEF Knowledge!PageAt, Knowledge!Eligible
<1>4. job' = [job EXCEPT ![j] = IF seen = {} THEN [x EXCEPT !.pc = "demote", !.now = day]
                                ELSE [x EXCEPT !.pc = "write", !.read = found]]
  BY <1>2 DEF Knowledge!ReadPage
<1>5. ASSUME NEW e \in seen
      PROVE  /\ Knowledge!Found(e, x.now) \in FoundRow
             /\ Knowledge!Found(e, x.now).used <= day
             /\ LET y == Knowledge!Found(e, x.now)
                IN  Weighed(y.weight, y.rate, y.used, day)
  <2> DEFINE y == Knowledge!Found(e, x.now)
  <2>1. e \in KnowledgeEntries
    BY <1>3
  <2>2. used[e] \in Nat /\ used[e] <= day /\ rate[e] \in 1..MaxRate
    BY <1>1, <2>1 DEF BaseInv, RowTypes
  <2>3. y.id = e /\ y.weight = Knowledge!Weight(e, x.now) /\ y.used = used[e] /\ y.rate = rate[e]
    BY DEF Knowledge!Found
  <2>4. /\ Knowledge!Weight(e, x.now) \in 0..FullWeight
        /\ Weighed(Knowledge!Weight(e, x.now), rate[e], used[e], day)
    BY <1>2, <2>1, WeightWeighs DEF BaseInv
  <2>5. PICK b \in BOOLEAN : b = (Knowledge!Weight(e, x.now) # weight[e])
    OBVIOUS
  <2>6. y = [id |-> e, weight |-> Knowledge!Weight(e, x.now), used |-> used[e], rate |-> rate[e],
              changed |-> b]
    BY <2>5 DEF Knowledge!Found
  <2>7. y \in FoundRow
    BY <2>1, <2>2, <2>4, <2>6 DEF FoundRow
  <2> QED BY <2>2, <2>3, <2>4, <2>7
<1> HIDE DEF seen
<1>6. \E r : GoodJob(r) /\ job' = [job EXCEPT ![j] = r]
  <2>1. CASE seen = {}
    <3> DEFINE r == [x EXCEPT !.pc = "demote", !.now = day]
    <3>1. job' = [job EXCEPT ![j] = r]
      BY <1>4, <2>1
    <3>2. r \in JobRow /\ r.now = day /\ r.read = x.read
      BY <1>1 DEF JobRow
    <3>3. x.read = {}
      BY <1>2 DEF GoodJob, Knowledge!ReadPage
    <3> HIDE DEF r
    <3>4. GoodJob(r)
      BY <1>1, <3>2, <3>3 DEF GoodJob
    <3> QED BY <3>1, <3>4
  <2>2. CASE seen # {}
    <3> DEFINE r == [x EXCEPT !.pc = "write", !.read = found]
    <3>1. job' = [job EXCEPT ![j] = r]
      BY <1>4, <2>2
    <3>2. found \in SUBSET FoundRow
      BY <1>5
    <3>3. \A y \in found : y.used <= day /\ Weighed(y.weight, y.rate, y.used, day)
      BY <1>5
    <3> HIDE DEF found
    <3>4. r \in JobRow /\ r.now = x.now /\ r.read = found /\ r.pc = "write"
      BY <3>2 DEF JobRow
    <3> HIDE DEF r
    <3>5. GoodJob(r)
      BY <1>2, <3>3, <3>4 DEF GoodJob
    <3> QED BY <3>1, <3>5
  <2> QED BY <2>1, <2>2
<1>7. RowTypes'
  BY <1>0 DEF BaseInv, RowTypes
<1> QED BY <1>0, <1>6, <1>7, JobMoves, RowsStay DEF BaseInv, Weighing

\* What a page wrote was found for the entry, with the use it was judged by.
LEMMA WritePageStep ==
  ASSUME BaseInv, NEW j \in Jobs, Knowledge!WritePage(j)
  PROVE  BaseInv'
<1>1. day \in Nat /\ GoodJob(job[j])
  BY OneJob DEF BaseInv, RowTypes
<1>2. PICK x \in JobRow : x = job[j] /\ GoodJob(x)
  BY <1>1 DEF GoodJob
<1>3. UNCHANGED <<entryStatus, rate, used, day, vote>>
  BY DEF Knowledge!WritePage
<1> DEFINE ids == {r.id : r \in {q \in x.read : q.changed}}
           Of(e) == CHOOSE r \in x.read : r.id = e
<1>4. /\ weight' = [e \in KnowledgeEntries |-> IF e \in ids THEN Of(e).weight ELSE weight[e]]
      /\ basis' = [e \in KnowledgeEntries |-> IF e \in ids THEN Of(e).used ELSE basis[e]]
      /\ pace' = [e \in KnowledgeEntries |-> IF e \in ids THEN Of(e).rate ELSE pace[e]]
      /\ Knowledge!Touch(ids)
  BY <1>2 DEF Knowledge!WritePage
<1>5. ASSUME NEW e \in KnowledgeEntries, e \in ids
      PROVE  Of(e) \in x.read /\ Of(e).id = e
  <2>1. \E r \in x.read : r.id = e
    BY <1>5
  <2> QED BY <2>1
<1> HIDE DEF ids, Of
<1>6. ASSUME NEW e \in KnowledgeEntries
      PROVE  /\ weight'[e] \in 0..FullWeight /\ basis'[e] \in 0..day /\ pace'[e] \in 1..MaxRate
             /\ Weighed(weight'[e], pace'[e], basis'[e], day)
  <2>1. CASE e \in ids
    <3>1. PICK r \in x.read : r = Of(e) /\ r.id = e
      BY <1>5, <2>1
    <3>2. r \in FoundRow /\ r.used <= day /\ Weighed(r.weight, r.rate, r.used, day)
      BY <1>2, <3>1 DEF GoodJob, JobRow
    <3>3. r.weight \in 0..FullWeight /\ r.used \in Nat /\ r.rate \in 1..MaxRate
      BY <3>2 DEF FoundRow
    <3>4. weight'[e] = r.weight /\ basis'[e] = r.used /\ pace'[e] = r.rate
      BY <1>4, <2>1, <3>1
    <3> QED BY <1>1, <3>2, <3>3, <3>4
  <2>2. CASE e \notin ids
    BY <1>4, <2>2 DEF BaseInv, RowTypes, Weighing
  <2> QED BY <2>1, <2>2
<1>7. RowTypes'
  <2>1. /\ weight' \in [KnowledgeEntries -> 0..FullWeight] /\ basis' \in [KnowledgeEntries -> 0..day]
        /\ pace' \in [KnowledgeEntries -> 1..MaxRate]
    BY <1>4, <1>6
  <2>2. touched' \in [KnowledgeEntries -> 0..day]
    BY <1>4, Touching DEF BaseInv
  <2> QED BY <1>3, <2>1, <2>2 DEF BaseInv, RowTypes
<1>8. \E r : GoodJob(r) /\ job' = [job EXCEPT ![j] = r]
  <2> DEFINE last == [x EXCEPT !.pc = "demote", !.now = day, !.read = {}]
             next == [x EXCEPT !.pc = "page", !.skip = x.skip + PageSize, !.read = {}]
  <2>1. job' = [job EXCEPT ![j] = last] \/ job' = [job EXCEPT ![j] = next]
    BY <1>2 DEF Knowledge!WritePage
  <2>2. last \in JobRow /\ last.now = day /\ last.read = {}
    BY <1>1 DEF JobRow
  <2>3. x.skip + PageSize \in Nat
    BY KnowledgeNumbers DEF JobRow
  <2>4. next \in JobRow /\ next.now = x.now /\ next.read = {}
    BY <2>3 DEF JobRow
  <2> HIDE DEF last, next
  <2>5. GoodJob(last) /\ GoodJob(next)
    BY <1>1, <1>2, <2>2, <2>4 DEF GoodJob
  <2> QED BY <2>1, <2>5
<1> QED BY <1>3, <1>6, <1>7, <1>8, JobMoves DEF BaseInv, Weighing

\* transitionLifecycle writes statuses, and the weight of what it archives.
LEMMA TransitionStep ==
  ASSUME BaseInv, NEW j \in Jobs,
         Knowledge!Demote(j) \/ Knowledge!Retire(j) \/ Knowledge!Archive(j)
  PROVE  BaseInv'
<1>1. day \in Nat /\ GoodJob(job[j]) /\ RowTypes
  BY OneJob DEF BaseInv, RowTypes
<1>2. PICK x \in JobRow : x = job[j] /\ GoodJob(x)
  BY <1>1 DEF GoodJob
<1>3. UNCHANGED <<rate, used, day, vote, basis, pace>>
  BY DEF Knowledge!Demote, Knowledge!Retire, Knowledge!Archive, Knowledge!judged
<1>4. \E S : Knowledge!Touch(S) /\ (Knowledge!SetStatus(S, "DECAYING") \/ Knowledge!SetStatus(S, "DORMANT")
                                     \/ Knowledge!SetStatus(S, "ARCHIVED"))
  BY DEF Knowledge!Demote, Knowledge!Retire, Knowledge!Archive
<1>5. /\ touched' \in [KnowledgeEntries -> 0..day]
      /\ entryStatus' \in [KnowledgeEntries -> {"none", "ACTIVE", "DECAYING", "DORMANT", "ARCHIVED"}]
  BY <1>1, <1>4, Touching DEF Knowledge!SetStatus, RowTypes
<1>6. /\ weight' \in [KnowledgeEntries -> 0..FullWeight]
      /\ \A e \in KnowledgeEntries : weight'[e] = 0 \/ weight'[e] = weight[e]
  BY <1>1, KnowledgeNumbers DEF Knowledge!Demote, Knowledge!Retire, Knowledge!Archive, RowTypes
<1>7. RowTypes'
  BY <1>1, <1>3, <1>5, <1>6 DEF RowTypes
<1>8. \A e \in KnowledgeEntries : Weighed(weight'[e], pace'[e], basis'[e], day')
  BY <1>3, <1>6 DEF BaseInv, Weighing, Weighed
<1>9. \E r : GoodJob(r) /\ job' = [job EXCEPT ![j] = r]
  <2>1. CASE Knowledge!Demote(j)
    <3> DEFINE r == [x EXCEPT !.pc = "retire"]
    <3>1. job' = [job EXCEPT ![j] = r] /\ x.pc = "demote"
      BY <1>2, <2>1 DEF Knowledge!Demote
    <3>2. r \in JobRow /\ r.now = x.now /\ r.read = x.read
      BY DEF JobRow
    <3> HIDE DEF r
    <3> QED BY <1>2, <3>1, <3>2 DEF GoodJob
  <2>2. CASE Knowledge!Retire(j)
    <3> DEFINE r == [x EXCEPT !.pc = "archive"]
    <3>1. job' = [job EXCEPT ![j] = r] /\ x.pc = "retire"
      BY <1>2, <2>2 DEF Knowledge!Retire
    <3>2. r \in JobRow /\ r.now = x.now /\ r.read = x.read
      BY DEF JobRow
    <3> HIDE DEF r
    <3> QED BY <1>2, <3>1, <3>2 DEF GoodJob
  <2>3. CASE Knowledge!Archive(j)
    BY <2>3, ResetJob DEF Knowledge!Archive
  <2> QED BY <2>1, <2>2, <2>3
<1> QED BY <1>3, <1>7, <1>8, <1>9, JobMoves DEF BaseInv, Weighing

\* What people and the agent do to an entry, whatever the jobs have found
LEMMA EntryStep ==
  ASSUME BaseInv, NEW e \in KnowledgeEntries,
         Knowledge!Create(e) \/ Knowledge!Use(e) \/ Knowledge!Patch(e) \/ Knowledge!Impact(e)
  PROVE  BaseInv'
<1>1. /\ UNCHANGED <<day, job, rate, vote>> /\ Knowledge!Touch({e}) /\ RowTypes /\ day \in Nat
      /\ \A d \in KnowledgeEntries : Weighed(weight[d], pace[d], basis[d], day)
  BY DEF Knowledge!Create, Knowledge!Use, Knowledge!Patch, Knowledge!Impact,
         BaseInv, RowTypes, Weighing
<1>2. touched' \in [KnowledgeEntries -> 0..day]
  BY <1>1, Touching
<1>3. /\ RowTypes'
      /\ \A d \in KnowledgeEntries : Weighed(weight'[d], pace'[d], basis'[d], day)
  <2>1. CASE Knowledge!Create(e)
    <3>1. /\ weight' = [weight EXCEPT ![e] = FullWeight] /\ basis' = [basis EXCEPT ![e] = day]
          /\ pace' = [pace EXCEPT ![e] = rate[e]] /\ used' = [used EXCEPT ![e] = day]
          /\ entryStatus' = [entryStatus EXCEPT ![e] = "ACTIVE"]
      BY <2>1 DEF Knowledge!Create
    <3>2. RowTypes' BY <1>1, <1>2, <3>1, KnowledgeNumbers DEF RowTypes
    <3>3. rate[e] \in Nat /\ rate[e] * (day - day) = 0
      BY <1>1 DEF RowTypes
    <3>4. Weighed(weight'[e], pace'[e], basis'[e], day)
      BY <1>1, <3>1, <3>3, KnowledgeNumbers DEF RowTypes, Weighed
    <3>5. \A d \in KnowledgeEntries \ {e} :
            weight'[d] = weight[d] /\ basis'[d] = basis[d] /\ pace'[d] = pace[d]
      BY <1>1, <3>1 DEF RowTypes
    <3> QED BY <1>1, <3>2, <3>4, <3>5
  <2>2. CASE Knowledge!Use(e)
    BY <1>1, <1>2, <2>2 DEF Knowledge!Use, Knowledge!judged, RowTypes
  <2>3. CASE Knowledge!Patch(e)
    <3>1. /\ UNCHANGED <<used, basis, pace>>
          /\ entryStatus' \in [KnowledgeEntries -> {"none", "ACTIVE", "DECAYING", "DORMANT", "ARCHIVED"}]
      BY <1>1, <2>3 DEF Knowledge!Patch, Knowledge!judged, RowTypes
    <3>2. /\ weight' \in [KnowledgeEntries -> 0..FullWeight]
          /\ \A d \in KnowledgeEntries : weight'[d] = 0 \/ weight'[d] = weight[d]
      BY <1>1, <2>3, KnowledgeNumbers DEF Knowledge!Patch, Knowledge!ArchivedWeight, RowTypes
    <3> QED BY <1>1, <1>2, <3>1, <3>2 DEF RowTypes, Weighed
  <2>4. CASE Knowledge!Impact(e)
    BY <1>1, <1>2, <2>4 DEF Knowledge!Impact, Knowledge!judged, RowTypes
  <2> QED BY <2>1, <2>2, <2>3, <2>4
<1> QED BY <1>1, <1>3 DEF BaseInv, JobTypes, Weighing

\* What a vote reads and writes is no weight, and what a weight was judged by is
\* not what the rate is by then.
LEMMA VoteStep ==
  ASSUME BaseInv, NEW v \in Votes,
         Knowledge!ReadRates(v) \/ Knowledge!WriteRates(v) \/ Knowledge!DropVote(v)
  PROVE  BaseInv'
<1>1. UNCHANGED <<entryStatus, weight, used, day, job, basis, pace>> /\ RowTypes
  BY DEF Knowledge!ReadRates, Knowledge!WriteRates, Knowledge!DropVote, Knowledge!rows,
         Knowledge!judged, BaseInv
<1>2. vote' \in [Votes -> SUBSET VoteRow]
  <2>1. CASE Knowledge!ReadRates(v)
    <3>1. PICK S \in SUBSET Knowledge!Eligible :
            vote' = [vote EXCEPT ![v] = {[id |-> e, rate |-> rate[e]] : e \in S}]
      BY <2>1 DEF Knowledge!ReadRates
    <3>2. \A e \in S : [id |-> e, rate |-> rate[e]] \in VoteRow
      BY <1>1, <3>1 DEF Knowledge!Eligible, RowTypes, VoteRow
    <3> QED BY <1>1, <3>1, <3>2 DEF RowTypes
  <2>2. CASE Knowledge!WriteRates(v) \/ Knowledge!DropVote(v)
    BY <1>1, <2>2 DEF Knowledge!WriteRates, Knowledge!DropVote, RowTypes
  <2> QED BY <2>1, <2>2
<1>3. rate' \in [KnowledgeEntries -> 1..MaxRate] /\ touched' \in [KnowledgeEntries -> 0..day]
  <2>1. CASE Knowledge!WriteRates(v)
    <3> DEFINE ids == {r.id : r \in vote[v]}
               Of(e) == CHOOSE r \in vote[v] : r.id = e
    <3>1. rate' = [e \in KnowledgeEntries |->
                     IF e \in ids THEN Knowledge!Faster(Of(e).rate) ELSE rate[e]]
      BY <2>1 DEF Knowledge!WriteRates
    <3>2. ASSUME NEW e \in KnowledgeEntries, e \in ids
          PROVE  Knowledge!Faster(Of(e).rate) \in 1..MaxRate
      <4>1. \E r \in vote[v] : r.id = e
        BY <3>2
      <4>2. Of(e) \in vote[v]
        BY <4>1
      <4>3. Of(e) \in VoteRow
        BY <1>1, <4>2 DEF RowTypes
      <4>4. Of(e).rate \in 1..MaxRate
        BY <4>3 DEF VoteRow
      <4> HIDE DEF Of
      <4> QED BY <4>4, KnowledgeNumbers DEF Knowledge!Faster
    <3> HIDE DEF ids, Of
    <3>3. rate' \in [KnowledgeEntries -> 1..MaxRate]
      BY <1>1, <3>1, <3>2 DEF RowTypes
    <3>4. \E S : Knowledge!Touch(S)
      BY <2>1 DEF Knowledge!WriteRates
    <3> QED BY <1>1, <3>3, <3>4, Touching
  <2>2. CASE Knowledge!ReadRates(v) \/ Knowledge!DropVote(v)
    BY <1>1, <2>2 DEF Knowledge!ReadRates, Knowledge!DropVote, Knowledge!rows, RowTypes
  <2> QED BY <2>1, <2>2
<1>4. RowTypes'
  BY <1>1, <1>2, <1>3 DEF RowTypes
<1> QED BY <1>1, <1>4 DEF BaseInv, JobTypes, Weighing

LEMMA NextDayStep ==
  ASSUME BaseInv, Knowledge!NextDay
  PROVE  BaseInv'
<1>1. day' = day + 1 /\ UNCHANGED <<entryStatus, weight, rate, used, touched, job, vote, basis, pace>> /\ day \in Nat
  BY DEF Knowledge!NextDay, Knowledge!rows, Knowledge!judged, BaseInv, RowTypes
<1>2. RowTypes'
  BY <1>1 DEF BaseInv, RowTypes
<1>3. JobTypes'
  <2>1. \A j \in Jobs : job[j].now \in Nat /\ job[j].now <= day
    BY DEF BaseInv, JobTypes, JobRow
  <2> QED BY <1>1, <2>1 DEF BaseInv, JobTypes
<1>4. ASSUME NEW e \in KnowledgeEntries PROVE Weighed(weight[e], pace[e], basis[e], day + 1)
  <2>1. weight[e] \in Nat /\ pace[e] \in Nat /\ basis[e] \in Nat /\ basis[e] <= day
    BY DEF BaseInv, RowTypes
  <2>2. Weighed(weight[e], pace[e], basis[e], day)
    BY DEF BaseInv, Weighing
  <2> QED BY <1>1, <2>1, <2>2, WeighedOn
<1>5. ASSUME NEW j \in Jobs, NEW r \in job[j].read
      PROVE  r.used <= day + 1 /\ Weighed(r.weight, r.rate, r.used, day + 1)
  <2>1. r \in FoundRow /\ r.used <= day /\ Weighed(r.weight, r.rate, r.used, day)
    BY DEF BaseInv, Weighing, JobTypes, JobRow
  <2>2. r.weight \in Nat /\ r.used \in Nat /\ r.rate \in Nat
    BY <2>1 DEF FoundRow
  <2>3. r.used <= day + 1
    BY <1>1, <2>1, <2>2
  <2> QED BY <1>1, <2>1, <2>2, <2>3, WeighedOn
<1> QED BY <1>1, <1>2, <1>3, <1>4, <1>5 DEF BaseInv, Weighing

LEMMA BaseInvStep == BaseInv /\ [Knowledge!Next]_baseVars => BaseInv'
<1> SUFFICES ASSUME BaseInv, [Knowledge!Next]_baseVars PROVE BaseInv'
  OBVIOUS
<1>1. CASE UNCHANGED baseVars
  BY <1>1 DEF baseVars, BaseInv, RowTypes, JobTypes, Weighing
<1> QED
  BY <1>1, StartStep, ReadPageStep, WritePageStep, TransitionStep, EntryStep, VoteStep, NextDayStep
     DEF Knowledge!Next, Knowledge!Job

LEMMA KnowledgeFocus == PortalSpec => [](focus = "knowledge" => BaseInv)
<1>1. PortalInit => (focus = "knowledge" => BaseInv)
  BY BaseInvInit DEF PortalInit
<1>2. (focus = "knowledge" => BaseInv) /\ [PortalNext]_allVars => (focus = "knowledge" => BaseInv)'
  BY BaseInvStep, FocusStep
<1> QED BY <1>1, <1>2, PTL DEF PortalSpec, allVars

\* However many recalculations overlap with each other, with uses of an entry and
\* with votes that write a rate they read before (portal-routes.ts:987), it has
\* not lost more weight than the days since the use it was judged by are worth
\* at the rate it was judged by (harness-decay-engine.ts:45).
THEOREM WornOnce == PortalSpec => []NotWornTwice
<1>1. BaseInv => Knowledge!NotWornTwice
  BY DEF BaseInv, Weighing, Weighed, Knowledge!NotWornTwice, Knowledge!Eligible
<1> QED BY <1>1, KnowledgeFocus, PTL DEF NotWornTwice
-----------------------------------------------------------------------------
(* The sessions: rows *)

Persons == Turns \cup {"nobody"}
TokenRow == [who : Turns, family : Nat, revoked : BOOLEAN]
PageRow == [open : BOOLEAN, loading : BOOLEAN, access : Persons, user : Persons, timer : BOOLEAN,
            leaving : BOOLEAN, shared : BOOLEAN]
RequestRow == [pc : {"idle", "read", "compromised", "create", "revoke", "end", "answer", "me"},
               kind : {"none", "refresh", "login", "logout"}, tab : Tabs \cup {"none"},
               who : Persons, token : Nat, child : Nat, sound : BOOLEAN, left : BOOLEAN,
               answer : {"none", "no cookie", "refused", "token", "out"}]

LEMMA Nobodies == "nobody" \notin Turns /\ "none" \notin Tabs
BY PortalAssumption DEF PortalAssumption

LEMMA FirstRows ==
  /\ UserSessions!ClosedPage \in PageRow /\ UserSessions!ClosedPage.access = "nobody"
  /\ UserSessions!ClosedPage.user = "nobody"
  /\ ~UserSessions!ClosedPage.open /\ ~UserSessions!ClosedPage.timer
  /\ UserSessions!NoRequest \in RequestRow
  /\ UserSessions!NoRequest.pc = "idle" /\ UserSessions!NoRequest.kind = "none"
  /\ UserSessions!NoRequest.token = 0 /\ UserSessions!NoRequest.child = 0
  /\ UserSessions!NoRequest.answer = "none" /\ ~UserSessions!NoRequest.left
BY DEF UserSessions!ClosedPage, UserSessions!NoRequest, UserSessions!Nobody, PageRow, RequestRow,
       Persons

\* What the pages become, apart from who they show
LEMMA SettledPage ==
  ASSUME NEW p \in PageRow
  PROVE  /\ UserSessions!Settled(p) \in PageRow
         /\ UserSessions!Settled(p).open = p.open /\ UserSessions!Settled(p).shared = p.shared
         /\ UserSessions!Settled(p).timer = p.timer
         /\ UserSessions!Settled(p).access = p.access
         /\ UserSessions!Settled(p).user \in {p.user, "nobody"}
BY DEF UserSessions!Settled, UserSessions!Nobody, PageRow, Persons

LEMMA SignedOutPage ==
  ASSUME NEW p \in PageRow
  PROVE  /\ UserSessions!SignedOut(p) \in PageRow
         /\ UserSessions!SignedOut(p).open = p.open /\ UserSessions!SignedOut(p).shared = p.shared
         /\ UserSessions!SignedOut(p).timer = p.timer
         /\ UserSessions!SignedOut(p).access = "nobody" /\ UserSessions!SignedOut(p).user = "nobody"
BY DEF UserSessions!SignedOut, UserSessions!Nobody, PageRow, Persons

LEMMA AfterLogoutPage ==
  ASSUME NEW p \in PageRow
  PROVE  /\ UserSessions!AfterLogout(p) \in PageRow
         /\ UserSessions!AfterLogout(p).open = p.open
         /\ UserSessions!AfterLogout(p).shared = p.shared /\ ~UserSessions!AfterLogout(p).timer
         /\ UserSessions!AfterLogout(p).access = "nobody"
         /\ UserSessions!AfterLogout(p).user = "nobody"
<1> DEFINE s == UserSessions!SignedOut(p)
           a == [s EXCEPT !.loading = p.loading, !.timer = FALSE]
<1>1. s \in PageRow /\ s.open = p.open /\ s.shared = p.shared
  BY SignedOutPage
<1>2. s.access = "nobody" /\ s.user = "nobody"
  BY SignedOutPage
<1>3. UserSessions!AfterLogout(p) = a
  BY DEF UserSessions!AfterLogout
<1> HIDE DEF s
<1>4. p.loading \in BOOLEAN
  BY DEF PageRow
<1>5. a \in PageRow /\ a.open = s.open /\ a.shared = s.shared /\ ~a.timer
  BY <1>1, <1>4 DEF PageRow
<1>6. a.access = s.access /\ a.user = s.user
  BY <1>1 DEF PageRow
<1> HIDE DEF a
<1> QED BY <1>1, <1>2, <1>3, <1>5, <1>6
-----------------------------------------------------------------------------
(* The sessions: the inductive invariant *)

Owner(t) == tokens[t].who

SessionTypes ==
  /\ tokens \in Seq(TokenRow) /\ cookie \in 0..Len(tokens)
  /\ page \in [Tabs -> PageRow] /\ request \in [Calls -> RequestRow]
  /\ endings \subseteq 1..Len(tokens) /\ escaped \subseteq 1..Len(tokens) /\ losses \in Nat

\* A family is of one person, and began with a token of its own number.
Families ==
  /\ \A t \in 1..Len(tokens) : tokens[t].family \in 1..t
  /\ \A t, u \in 1..Len(tokens) : tokens[t].family = tokens[u].family => Owner(t) = Owner(u)
  /\ \A t \in 1..Len(tokens) : ~tokens[t].revoked /\ tokens[t].family \in endings => t \in escaped

\* What a call has, at each place of its way
GoodRequest(q) ==
  /\ q.pc # "idle" => q.tab \in Tabs
  /\ q.pc = "idle" => q.kind = "none"
  /\ q.pc \in {"compromised", "revoke", "read", "me"} => q.kind = "refresh"
  /\ q.pc = "create" => q.kind \in {"login", "refresh"}
  /\ q.pc = "end" => q.kind = "logout"
  /\ q.kind = "login" => q.who # "nobody"
  /\ q.kind = "login" /\ q.pc = "answer" => q.child # 0
  /\ q.kind = "refresh" /\ q.token = 0 => q.pc \in {"read", "answer"} /\ q.answer # "token"
  /\ q.kind = "refresh" /\ q.pc = "create" => q.sound
  /\ q.pc = "answer" /\ q.answer = "token" => q.child # 0
  /\ q.pc \in {"revoke", "me"} => q.child # 0 /\ q.answer = "token"
  /\ q.child # 0 => /\ q.kind \in {"login", "refresh"} /\ q.answer = "token"
                    /\ q.pc \in {"revoke", "answer", "me"}

\* The tokens it names are those of whom it is for.
OwnTokens(q, all) ==
  /\ q.token <= Len(all) /\ q.child <= Len(all)
  /\ q.child # 0 => all[q.child].who = q.who
  /\ q.kind = "refresh" /\ q.token # 0 /\ (q.pc \in {"create", "revoke", "me"} \/ q.answer = "token")
       => all[q.token].who = q.who

Awaited(q) == ~q.left /\ q.pc # "idle" => page[q.tab].open

GoodRequests ==
  \A r \in Calls : /\ GoodRequest(request[r]) /\ OwnTokens(request[r], tokens)
                   /\ Awaited(request[r])

\* A refresh under way with a token
Refreshing(q) == q.kind = "refresh" /\ q.token # 0

\* Nobody but x can come out of the cookie and the refreshes under way.
AgreesOn(x) ==
  /\ cookie # 0 => Owner(cookie) = x
  /\ \A r \in Calls : Refreshing(request[r]) => Owner(request[r].token) = x

ShowsNobody(p) == p.access = "nobody" /\ p.user = "nobody" /\ ~p.timer

\* A page on which nobody can appear without signing in
Blank(k) ==
  /\ ShowsNobody(page[k])
  /\ \A r \in Calls : Refreshing(request[r]) /\ request[r].tab = k => request[r].left

Agreed(k) ==
  \E x \in Persons : {page[k].access, page[k].user} \subseteq {x, "nobody"} /\ AgreesOn(x)

GoodPage(k) ==
  /\ ~page[k].open => ShowsNobody(page[k])
  /\ page[k].open /\ ~page[k].shared => Agreed(k) \/ Blank(k)

SessionInv ==
  SessionTypes /\ Families /\ GoodRequests /\ \A k \in Tabs : GoodPage(k)

LEMMA SessionInvInit == UserSessions!Init => SessionInv
<1> SUFFICES ASSUME UserSessions!Init PROVE SessionInv
  OBVIOUS
<1>1. /\ tokens = <<>> /\ cookie = 0 /\ endings = {} /\ escaped = {} /\ losses = 0
      /\ page \in [Tabs -> PageRow] /\ request \in [Calls -> RequestRow]
      /\ \A k \in Tabs : page[k] = UserSessions!ClosedPage
      /\ \A r \in Calls : request[r] = UserSessions!NoRequest
  BY FirstRows DEF UserSessions!Init
<1>2. SessionTypes /\ Families
  BY <1>1 DEF SessionTypes, Families
<1>3. GoodRequests
  BY <1>1, FirstRows DEF GoodRequests, GoodRequest, OwnTokens, Awaited
<1>4. \A k \in Tabs : GoodPage(k)
  BY <1>1, FirstRows DEF GoodPage, ShowsNobody
<1> QED BY <1>2, <1>3, <1>4 DEF SessionInv

\* Tokens are made and revoked, but never given to somebody else.
Grown ==
  /\ tokens' \in Seq(TokenRow) /\ Len(tokens) <= Len(tokens')
  /\ \A t \in 1..Len(tokens) : tokens'[t].who = tokens[t].who

LEMMA SameTokens ==
  ASSUME SessionTypes, UNCHANGED tokens
  PROVE  Grown
BY DEF SessionTypes, Grown

LEMMA TokenCount ==
  ASSUME SessionTypes
  PROVE  /\ Len(tokens) \in Nat /\ DOMAIN tokens = 1..Len(tokens)
         /\ \A t \in 1..Len(tokens) : tokens[t] \in TokenRow
<1>1. tokens \in Seq(TokenRow)
  BY DEF SessionTypes
<1> QED BY <1>1

LEMMA OwnTokensLater ==
  ASSUME SessionTypes, Grown, NEW q \in RequestRow, OwnTokens(q, tokens)
  PROVE  OwnTokens(q, tokens')
<1>0. q.token \in Nat /\ q.child \in Nat
  BY DEF RequestRow
<1>1. q.token \in Nat /\ q.child \in Nat /\ Len(tokens) \in Nat /\ Len(tokens') \in Nat
  BY <1>0, TokenCount DEF Grown
<1>2. q.token <= Len(tokens') /\ q.child <= Len(tokens')
  BY <1>1 DEF OwnTokens, Grown
<1>3. q.child # 0 => tokens'[q.child].who = tokens[q.child].who
  BY <1>1 DEF OwnTokens, Grown
<1>4. q.token # 0 => tokens'[q.token].who = tokens[q.token].who
  BY <1>1 DEF OwnTokens, Grown
<1> QED BY <1>2, <1>3, <1>4 DEF OwnTokens

LEMMA RequestMoves ==
  ASSUME SessionTypes, GoodRequests, Grown, NEW r \in Calls, NEW q \in RequestRow,
         request' = [request EXCEPT ![r] = q],
         GoodRequest(q), OwnTokens(q, tokens'), Awaited(q)',
         \A k \in Tabs : page[k].open => page'[k].open
  PROVE  GoodRequests' /\ request' \in [Calls -> RequestRow]
<1>1. request' \in [Calls -> RequestRow]
  BY DEF SessionTypes
<1>2. request'[r] = q
  BY DEF SessionTypes
<1>3. ASSUME NEW s \in Calls, s # r
      PROVE  /\ GoodRequest(request'[s]) /\ OwnTokens(request'[s], tokens')
             /\ Awaited(request[s])'
  <2>1. request'[s] = request[s] /\ request[s] \in RequestRow
    BY <1>3 DEF SessionTypes
  <2>2. GoodRequest(request[s]) /\ OwnTokens(request[s], tokens) /\ Awaited(request[s])
    BY DEF GoodRequests
  <2>3. Awaited(request[s])'
    BY <2>1, <2>2 DEF Awaited, GoodRequest
  <2> QED BY <2>1, <2>2, <2>3, OwnTokensLater
<1>4. Awaited(request[r])'
  BY <1>2 DEF Awaited
<1> QED BY <1>1, <1>2, <1>3, <1>4 DEF GoodRequests

LEMMA AgreeStays ==
  ASSUME SessionTypes, GoodRequests, Grown, NEW r \in Calls, NEW q \in RequestRow, NEW x, AgreesOn(x),
         request' = [request EXCEPT ![r] = q],
         cookie' # 0 => tokens'[cookie'].who = x,
         Refreshing(q) => tokens'[q.token].who = x
  PROVE  AgreesOn(x)'
<1>1. ASSUME NEW s \in Calls, Refreshing(request'[s])
      PROVE  tokens'[request'[s].token].who = x
  <2>1. CASE s = r
    BY <1>1, <2>1 DEF SessionTypes
  <2>2. CASE s # r
    <3>1. request'[s] = request[s] /\ request[s] \in RequestRow
      BY <2>2 DEF SessionTypes
    <3>2. tokens[request[s].token].who = x
      BY <1>1, <3>1 DEF AgreesOn, Owner
    <3>3. request[s].token \in Nat
      BY <3>1 DEF RequestRow
    <3>4. request[s].token <= Len(tokens) /\ request[s].token # 0
      BY <1>1, <3>1 DEF GoodRequests, OwnTokens, Refreshing
    <3>5. request[s].token \in 1..Len(tokens)
      BY <3>3, <3>4, TokenCount
    <3> QED BY <3>1, <3>2, <3>5 DEF Grown
  <2> QED BY <2>1, <2>2
<1> QED BY <1>1 DEF AgreesOn, Owner

\* A page that only loses whom it shows stays good while the cookie and the
\* refreshes agree on whom they agreed on.
LEMMA PageStays ==
  ASSUME SessionTypes, NEW k \in Tabs, GoodPage(k), NEW p \in PageRow, page'[k] = p,
         p.open = page[k].open, ~p.shared => ~page[k].shared,
         p.access \in {page[k].access, "nobody"}, p.user \in {page[k].user, "nobody"},
         p.timer => page[k].timer,
         \A x \in Persons : AgreesOn(x) => AgreesOn(x)',
         \A s \in Calls : Refreshing(request'[s]) /\ request'[s].tab = k /\ ~request'[s].left
           => Refreshing(request[s]) /\ request[s].tab = k /\ ~request[s].left
  PROVE  GoodPage(k)'
<1>1. CASE ~p.open
  BY <1>1 DEF GoodPage, ShowsNobody
<1>2. CASE p.open /\ ~p.shared /\ Agreed(k)
  BY <1>2 DEF GoodPage, Agreed
<1>3. CASE p.open /\ ~p.shared /\ Blank(k)
  BY <1>3 DEF GoodPage, Blank, ShowsNobody
<1>4. CASE p.open /\ p.shared
  BY <1>4 DEF GoodPage
<1> QED BY <1>1, <1>2, <1>3, <1>4 DEF GoodPage

\* The pages that only lose whom they show
PagesLose ==
  /\ page' \in [Tabs -> PageRow]
  /\ \A k \in Tabs : /\ page'[k].open = page[k].open /\ (page[k].shared => page'[k].shared)
                     /\ page'[k].access \in {page[k].access, "nobody"}
                     /\ page'[k].user \in {page[k].user, "nobody"}
                     /\ page'[k].timer => page[k].timer

\* Nobody comes in: the cookie stays, goes, or is what a refresh made of it.
CookieStays(r) ==
  \/ cookie' \in {cookie, 0}
  \/ /\ Refreshing(request[r]) /\ cookie' \in 1..Len(tokens)
     /\ tokens[cookie'].who = Owner(request[r].token)

\* The call goes on with the token it has, or ends.
GoesOn(r, q) ==
  Refreshing(q) => /\ Refreshing(request[r]) /\ request[r].tab = q.tab
                   /\ request[r].token = q.token /\ request[r].left = q.left

LEMMA AgreeingGoesOn ==
  ASSUME SessionInv, Grown, NEW r \in Calls, NEW q \in RequestRow,
         request' = [request EXCEPT ![r] = q], GoesOn(r, q), CookieStays(r),
         NEW x \in Persons, AgreesOn(x)
  PROVE  AgreesOn(x)'
<1>1. SessionTypes /\ GoodRequests /\ request[r] \in RequestRow
  BY DEF SessionInv, SessionTypes
<1>2. Refreshing(request[r]) => /\ tokens[request[r].token].who = x
                                /\ tokens'[request[r].token].who = x
  <2>1. request[r].token \in Nat
    BY <1>1 DEF RequestRow
  <2>2. request[r].token <= Len(tokens)
    BY <1>1 DEF GoodRequests, OwnTokens
  <2>3. Refreshing(request[r]) => request[r].token \in 1..Len(tokens)
    BY <1>1, <2>1, <2>2, TokenCount DEF Refreshing
  <2> QED BY <2>3 DEF Grown, AgreesOn, Owner
<1>3. Refreshing(q) => tokens'[q.token].who = x
  BY <1>2 DEF GoesOn
<1>4. cookie' # 0 => tokens'[cookie'].who = x
  <2>1. CASE cookie' \in {cookie, 0}
    <3>1. cookie \in 0..Len(tokens)
      BY <1>1 DEF SessionTypes
    <3> QED BY <1>1, <2>1, <3>1, TokenCount DEF AgreesOn, Owner, Grown
  <2>2. CASE /\ Refreshing(request[r]) /\ cookie' \in 1..Len(tokens)
             /\ tokens[cookie'].who = Owner(request[r].token)
    BY <1>2, <2>2 DEF Owner, Grown
  <2> QED BY <2>1, <2>2 DEF CookieStays
<1> QED BY <1>1, <1>3, <1>4, AgreeStays

LEMMA CalmStep ==
  ASSUME SessionInv, Grown, NEW r \in Calls, NEW q \in RequestRow,
         request' = [request EXCEPT ![r] = q],
         GoodRequest(q), OwnTokens(q, tokens'), Awaited(q), GoesOn(r, q), CookieStays(r), PagesLose
  PROVE  GoodRequests' /\ request' \in [Calls -> RequestRow] /\ \A k \in Tabs : GoodPage(k)'
<1>1. SessionTypes /\ GoodRequests
  BY DEF SessionInv
<1>2. GoodRequests' /\ request' \in [Calls -> RequestRow]
  <2>1. Awaited(q)'
    BY DEF Awaited, PagesLose, GoodRequest
  <2> QED BY <1>1, <2>1, RequestMoves DEF PagesLose
<1>3. ASSUME NEW k \in Tabs PROVE GoodPage(k)'
  <2>1. PICK p \in PageRow : page'[k] = p
    BY DEF PagesLose
  <2>2. \A x \in Persons : AgreesOn(x) => AgreesOn(x)'
    BY AgreeingGoesOn
  <2>3. ASSUME NEW s \in Calls, Refreshing(request'[s]), request'[s].tab = k, ~request'[s].left
        PROVE  Refreshing(request[s]) /\ request[s].tab = k /\ ~request[s].left
    BY <1>1, <2>3 DEF GoesOn, SessionTypes
  <2>4. /\ p.open = page[k].open /\ (~p.shared => ~page[k].shared)
        /\ p.access \in {page[k].access, "nobody"} /\ p.user \in {page[k].user, "nobody"}
        /\ p.timer => page[k].timer
    BY <2>1 DEF PagesLose
  <2>5. GoodPage(k)
    BY DEF SessionInv
  <2> QED BY <1>1, <2>1, <2>2, <2>3, <2>4, <2>5, PageStays
<1> QED BY <1>2, <1>3

LEMMA SamePages ==
  ASSUME SessionTypes, UNCHANGED page
  PROVE  PagesLose
BY DEF SessionTypes, PagesLose

LEMMA OnePageLoses ==
  ASSUME SessionTypes, NEW k \in Tabs, NEW p \in PageRow, page' = [page EXCEPT ![k] = p],
         p.open = page[k].open, page[k].shared => p.shared,
         p.access \in {page[k].access, "nobody"}, p.user \in {page[k].user, "nobody"},
         p.timer => page[k].timer
  PROVE  PagesLose
BY DEF SessionTypes, PagesLose

\* The row a call starts from and ends with
LEMMA NoRequestGood ==
  ASSUME SessionInv
  PROVE  LET q == UserSessions!NoRequest
         IN  q \in RequestRow /\ GoodRequest(q) /\ OwnTokens(q, tokens) /\ Awaited(q) /\ ~Refreshing(q)
<1>1. Len(tokens) \in Nat
  BY TokenCount DEF SessionInv
<1> QED BY <1>1, FirstRows DEF GoodRequest, OwnTokens, Awaited, Refreshing

\* What is known of the call that moves
LEMMA OneRequest ==
  ASSUME SessionInv, NEW r \in Calls
  PROVE  /\ request[r] \in RequestRow /\ GoodRequest(request[r])
         /\ OwnTokens(request[r], tokens) /\ Awaited(request[r])
         /\ SessionTypes /\ Families /\ GoodRequests
         /\ Refreshing(request[r]) => request[r].token \in 1..Len(tokens)
<1>1. /\ request[r] \in RequestRow /\ GoodRequest(request[r]) /\ OwnTokens(request[r], tokens)
      /\ Awaited(request[r]) /\ SessionTypes /\ Families /\ GoodRequests
  BY DEF SessionInv, SessionTypes, GoodRequests
<1>2. request[r].token \in Nat
  BY <1>1 DEF RequestRow
<1>3. request[r].token <= Len(tokens)
  BY <1>1 DEF OwnTokens
<1> QED BY <1>1, <1>2, <1>3, TokenCount DEF Refreshing
-----------------------------------------------------------------------------
(* The sessions: the handlers *)

\* What a call may become in a step in which nobody comes in
MayBecome(r, q) ==
  /\ q \in RequestRow /\ request' = [request EXCEPT ![r] = q]
  /\ GoodRequest(q) /\ OwnTokens(q, tokens) /\ Awaited(q) /\ GoesOn(r, q)

LEMMA OnlyCalls ==
  ASSUME SessionInv, NEW r \in Calls, NEW q, MayBecome(r, q), CookieStays(r), PagesLose,
         Grown, Families', SessionTypes' \/ UNCHANGED <<tokens, endings, escaped, losses>>,
         cookie' \in 0..Len(tokens)
  PROVE  SessionInv'
<1>1. q \in RequestRow /\ request' = [request EXCEPT ![r] = q] /\ SessionTypes
  BY DEF MayBecome, SessionInv
<1>2. OwnTokens(q, tokens')
  BY <1>1, OwnTokensLater DEF MayBecome
<1>3. GoodRequests' /\ request' \in [Calls -> RequestRow] /\ \A k \in Tabs : GoodPage(k)'
  BY <1>1, <1>2, CalmStep DEF MayBecome
<1>4. SessionTypes'
  BY <1>1, <1>3 DEF SessionTypes, PagesLose
<1> QED BY <1>3, <1>4 DEF SessionInv

LEMMA AnswerMoves ==
  ASSUME SessionInv, NEW r \in Calls, request[r].pc \in {"read", "compromised", "end"},
         NEW a \in {"no cookie", "refused", "out"}, UserSessions!Answer(r, a)
  PROVE  \E q : MayBecome(r, q)
<1>1. PICK x \in RequestRow : x = request[r] /\ GoodRequest(x) /\ OwnTokens(x, tokens) /\ Awaited(x)
  BY OneRequest
<1> DEFINE q == [x EXCEPT !.pc = "answer", !.answer = a]
<1>2. request' = [request EXCEPT ![r] = q]
  BY <1>1 DEF UserSessions!Answer
<1>3. q \in RequestRow /\ q.pc = "answer" /\ q.answer = a /\ q.kind = x.kind /\ q.tab = x.tab
  BY DEF RequestRow
<1>4. q.token = x.token /\ q.child = x.child /\ q.who = x.who /\ q.left = x.left
  BY DEF RequestRow
<1> HIDE DEF q
<1>5. x.child = 0 /\ x.pc # "idle"
  BY <1>1 DEF GoodRequest
<1>6. GoodRequest(q)
  BY <1>1, <1>3, <1>4, <1>5 DEF GoodRequest
<1>7. OwnTokens(q, tokens)
  BY <1>1, <1>3, <1>4, <1>5 DEF OwnTokens
<1>8. Awaited(q) /\ GoesOn(r, q)
  BY <1>1, <1>3, <1>4, <1>5 DEF Awaited, GoesOn, Refreshing
<1> QED BY <1>2, <1>3, <1>6, <1>7, <1>8 DEF MayBecome

LEMMA TokensStay ==
  ASSUME SessionInv, UNCHANGED <<tokens, endings, escaped>>
  PROVE  Grown /\ Families'
BY SameTokens DEF SessionInv, Families, Owner

\* A live token of a family that was ended was made by a rotation that had begun.
LEMMA ReadTokenStep ==
  ASSUME SessionInv, NEW r \in Calls, UserSessions!ReadToken(r)
  PROVE  SessionInv'
<1>1. PICK x \in RequestRow : x = request[r] /\ GoodRequest(x) /\ OwnTokens(x, tokens) /\ Awaited(x)
  BY OneRequest
<1>2. SessionTypes /\ Families /\ (Refreshing(x) => x.token \in 1..Len(tokens))
  BY <1>1, OneRequest
<1>3. UNCHANGED <<tokens, cookie, page, endings, escaped, losses>> /\ x.pc = "read"
  BY <1>1 DEF UserSessions!ReadToken
<1>4. x.kind = "refresh" /\ x.child = 0 /\ (x.token = 0 \/ x.token \in 1..Len(tokens))
  BY <1>1, <1>2, <1>3 DEF GoodRequest, Refreshing
<1>5. Grown /\ Families' /\ PagesLose /\ CookieStays(r) /\ cookie' \in 0..Len(tokens)
  BY <1>2, <1>3, TokensStay, SamePages DEF CookieStays, SessionTypes
<1>6. \E q : MayBecome(r, q)
  <2>1. CASE UserSessions!Answer(r, "no cookie") \/ UserSessions!Answer(r, "refused")
    BY <1>1, <1>3, <2>1, AnswerMoves
  <2>2. CASE x.token # 0 /\ UserSessions!Go(r, "compromised")
    <3> DEFINE q == [x EXCEPT !.pc = "compromised"]
    <3>1. request' = [request EXCEPT ![r] = q]
      BY <1>1, <2>2 DEF UserSessions!Go
    <3>2. q \in RequestRow /\ q.pc = "compromised" /\ q.answer = x.answer /\ q.kind = x.kind
      BY DEF RequestRow
    <3>3. q.token = x.token /\ q.child = x.child /\ q.who = x.who /\ q.left = x.left /\ q.tab = x.tab
      BY DEF RequestRow
    <3> HIDE DEF q
    <3>4. GoodRequest(q)
      BY <1>1, <1>3, <1>4, <2>2, <3>2, <3>3 DEF GoodRequest
    <3>5. OwnTokens(q, tokens) /\ Awaited(q) /\ GoesOn(r, q)
      BY <1>1, <1>3, <3>2, <3>3 DEF OwnTokens, Awaited, GoesOn, Refreshing
    <3> QED BY <3>1, <3>2, <3>4, <3>5 DEF MayBecome
  <2>3. CASE /\ x.token # 0 /\ UserSessions!Accepted(x.token)
             /\ request' = [request EXCEPT ![r] = [@ EXCEPT
                  !.pc = "create", !.who = tokens[x.token].who,
                  !.sound = UserSessions!FamilyOf(x.token) \notin endings \/ x.token \in escaped]]
    <3>1. tokens[x.token] \in TokenRow /\ ~tokens[x.token].revoked /\ x.token \in 1..Len(tokens)
      BY <1>2, <1>4, <2>3, TokenCount DEF UserSessions!Accepted, UserSessions!Live
    <3>2. UserSessions!FamilyOf(x.token) \notin endings \/ x.token \in escaped
      BY <1>2, <3>1 DEF Families, UserSessions!FamilyOf
    <3>3. PICK who \in Turns : who = tokens[x.token].who
      BY <3>1 DEF TokenRow
    <3> DEFINE q == [x EXCEPT !.pc = "create", !.who = who, !.sound = TRUE]
    <3>4. request' = [request EXCEPT ![r] = q]
      BY <1>1, <2>3, <3>2, <3>3
    <3>5. q \in RequestRow /\ q.pc = "create" /\ q.who = who /\ q.sound
      BY DEF RequestRow, Persons
    <3>6. q.token = x.token /\ q.child = x.child /\ q.left = x.left /\ q.tab = x.tab
      BY DEF RequestRow
    <3>7. q.kind = x.kind /\ q.answer = x.answer
      BY DEF RequestRow
    <3> HIDE DEF q
    <3>8. GoodRequest(q)
      BY <1>1, <1>3, <1>4, <2>3, <3>5, <3>6, <3>7, Nobodies DEF GoodRequest
    <3>9. OwnTokens(q, tokens) /\ Awaited(q) /\ GoesOn(r, q)
      BY <1>1, <1>3, <1>4, <3>3, <3>5, <3>6, <3>7 DEF OwnTokens, Awaited, GoesOn, Refreshing
    <3> QED BY <3>4, <3>5, <3>8, <3>9 DEF MayBecome
  <2> QED BY <1>1, <2>1, <2>2, <2>3 DEF UserSessions!ReadToken
<1> QED BY <1>3, <1>5, <1>6, OnlyCalls

\* What revocation leaves of the tokens
LEMMA Revoking ==
  ASSUME SessionTypes, NEW S, tokens' = UserSessions!RevokeWhere(S)
  PROVE  /\ Grown /\ Len(tokens') = Len(tokens)
         /\ \A t \in 1..Len(tokens) :
              /\ tokens'[t].family = tokens[t].family /\ tokens'[t].who = tokens[t].who
              /\ tokens'[t].revoked = (tokens[t].revoked \/ t \in S)
<1>1. /\ Len(tokens) \in Nat /\ DOMAIN tokens = 1..Len(tokens)
      /\ \A t \in 1..Len(tokens) : tokens[t] \in TokenRow
  BY TokenCount
<1> DEFINE n == Len(tokens)
           Row(t) == IF t \in S THEN [tokens[t] EXCEPT !.revoked = TRUE] ELSE tokens[t]
<1>2. ASSUME NEW t \in 1..n
      PROVE  /\ Row(t) \in TokenRow /\ Row(t).family = tokens[t].family
             /\ Row(t).who = tokens[t].who /\ Row(t).revoked = (tokens[t].revoked \/ t \in S)
  <2>1. PICK x \in TokenRow : x = tokens[t]
    BY <1>1
  <2> DEFINE y == [x EXCEPT !.revoked = TRUE]
  <2>2. y \in TokenRow /\ y.family = x.family /\ y.who = x.who /\ y.revoked = TRUE
    BY DEF TokenRow
  <2>3. x.revoked \in BOOLEAN
    BY DEF TokenRow
  <2>4. Row(t) = IF t \in S THEN y ELSE x
    BY <2>1
  <2> HIDE DEF y, Row
  <2> QED BY <2>1, <2>2, <2>3, <2>4
<1>3. tokens' = [t \in 1..n |-> Row(t)]
  BY <1>1 DEF UserSessions!RevokeWhere, UserSessions!Made
<1> HIDE DEF Row
<1>4. tokens' \in [1..n -> TokenRow]
  BY <1>2, <1>3
<1>5. tokens' \in Seq(TokenRow) /\ Len(tokens') = n
  BY <1>1, <1>4
<1>6. \A t \in 1..n : tokens'[t] = Row(t)
  BY <1>3
<1> QED BY <1>1, <1>2, <1>5, <1>6 DEF Grown

\* Whoever revokes gives up only live tokens, and ends only families it revokes.
LEMMA EndsWhole ==
  ASSUME SessionInv, NEW S, tokens' = UserSessions!RevokeWhere(S), escaped' = escaped,
         endings \subseteq endings',
         \A t \in 1..Len(tokens) : tokens[t].family \in endings' => tokens[t].family \in endings \/ t \in S
  PROVE  Families'
<1>1. SessionTypes /\ Families
  BY DEF SessionInv
<1>2. /\ Len(tokens') = Len(tokens)
      /\ \A t \in 1..Len(tokens) :
           /\ tokens'[t].family = tokens[t].family /\ tokens'[t].who = tokens[t].who
           /\ tokens'[t].revoked = (tokens[t].revoked \/ t \in S)
  BY <1>1, Revoking
<1>3. \A t \in 1..Len(tokens') : tokens'[t].family \in 1..t
  BY <1>1, <1>2 DEF Families
<1>4. \A t, u \in 1..Len(tokens') : tokens'[t].family = tokens'[u].family => Owner(t)' = Owner(u)'
  BY <1>1, <1>2 DEF Families, Owner
<1>5. \A t \in 1..Len(tokens') : ~tokens'[t].revoked /\ tokens'[t].family \in endings' => t \in escaped'
  BY <1>1, <1>2 DEF Families
<1> QED BY <1>3, <1>4, <1>5 DEF Families

LEMMA TypesStay ==
  ASSUME SessionInv, NEW r \in Calls, NEW q, MayBecome(r, q), Grown, UNCHANGED <<cookie, page, escaped, losses>>,
         endings' \subseteq 1..Len(tokens)
  PROVE  SessionTypes'
<1>1. SessionTypes /\ q \in RequestRow /\ request' = [request EXCEPT ![r] = q]
  BY DEF SessionInv, MayBecome
<1>2. Len(tokens) \in Nat /\ Len(tokens') \in Nat /\ Len(tokens) <= Len(tokens')
  BY <1>1, TokenCount DEF Grown
<1>3. 1..Len(tokens) \subseteq 1..Len(tokens') /\ 0..Len(tokens) \subseteq 0..Len(tokens')
  BY <1>2
<1>4. request' \in [Calls -> RequestRow]
  BY <1>1 DEF SessionTypes
<1> QED BY <1>1, <1>3, <1>4 DEF SessionTypes, Grown

LEMMA EndFamilyStep ==
  ASSUME SessionInv, NEW r \in Calls, UserSessions!EndFamily(r)
  PROVE  SessionInv'
<1>1. PICK x \in RequestRow : x = request[r] /\ GoodRequest(x) /\ OwnTokens(x, tokens)
  BY OneRequest
<1>2. SessionTypes /\ Families /\ (Refreshing(x) => x.token \in 1..Len(tokens))
  BY <1>1, OneRequest
<1> DEFINE f == tokens[x.token].family
           S == {t \in DOMAIN tokens : tokens[t].family = f}
<1>3. /\ UNCHANGED <<cookie, page, escaped, losses>> /\ x.pc = "compromised"
      /\ tokens' = UserSessions!RevokeWhere(S) /\ endings' = endings \cup {f}
      /\ UserSessions!Answer(r, "refused")
  BY <1>1 DEF UserSessions!EndFamily, UserSessions!FamilyOf, UserSessions!Made
<1>4. PICK q : MayBecome(r, q)
  BY <1>1, <1>3, AnswerMoves
<1>5. x.token \in 1..Len(tokens)
  BY <1>1, <1>2, <1>3 DEF GoodRequest, Refreshing
<1>6. f \in 1..Len(tokens)
  BY <1>2, <1>5, TokenCount DEF Families
<1>7. Grown /\ PagesLose /\ CookieStays(r) /\ cookie' \in 0..Len(tokens)
  BY <1>2, <1>3, Revoking, SamePages DEF CookieStays, SessionTypes
<1>8. Families'
  BY <1>2, <1>3, EndsWhole, TokenCount
<1>9. endings' \subseteq 1..Len(tokens)
  BY <1>2, <1>3, <1>6 DEF SessionTypes
<1> QED BY <1>3, <1>4, <1>7, <1>8, <1>9, OnlyCalls, TypesStay

LEMMA RevokeOldStep ==
  ASSUME SessionInv, NEW r \in Calls, UserSessions!RevokeOld(r)
  PROVE  SessionInv'
<1>1. PICK x \in RequestRow : x = request[r] /\ GoodRequest(x) /\ OwnTokens(x, tokens) /\ Awaited(x)
  BY OneRequest
<1>2. SessionTypes /\ Families
  BY OneRequest
<1>3. /\ UNCHANGED <<cookie, page, endings, escaped, losses>> /\ x.pc = "revoke"
      /\ tokens' = UserSessions!RevokeWhere({x.token}) /\ UserSessions!Answer(r, "token")
  BY <1>1 DEF UserSessions!RevokeOld
<1> DEFINE q == [x EXCEPT !.pc = "answer", !.answer = "token"]
<1>4. MayBecome(r, q)
  <2>1. request' = [request EXCEPT ![r] = q]
    BY <1>1, <1>3 DEF UserSessions!Answer
  <2>2. q \in RequestRow /\ q.pc = "answer" /\ q.answer = "token" /\ q.kind = x.kind /\ q.tab = x.tab
    BY DEF RequestRow
  <2>3. q.token = x.token /\ q.child = x.child /\ q.who = x.who /\ q.left = x.left
    BY DEF RequestRow
  <2> HIDE DEF q
  <2>4. x.kind = "refresh" /\ x.token # 0 /\ x.child # 0
    BY <1>1, <1>3 DEF GoodRequest
  <2>5. GoodRequest(q)
    BY <1>1, <1>3, <2>2, <2>3, <2>4 DEF GoodRequest
  <2>6. OwnTokens(q, tokens) /\ Awaited(q) /\ GoesOn(r, q)
    BY <1>1, <1>3, <2>2, <2>3, <2>4 DEF OwnTokens, Awaited, GoesOn, Refreshing
  <2> QED BY <2>1, <2>2, <2>5, <2>6 DEF MayBecome
<1>5. Grown /\ PagesLose /\ CookieStays(r) /\ cookie' \in 0..Len(tokens)
  BY <1>2, <1>3, Revoking, SamePages DEF CookieStays, SessionTypes
<1>6. Families'
  BY <1>3, EndsWhole
<1>7. endings' \subseteq 1..Len(tokens)
  BY <1>2, <1>3 DEF SessionTypes
<1> QED BY <1>3, <1>4, <1>5, <1>6, <1>7, OnlyCalls, TypesStay

\* A person's families are all of that person.
LEMMA EndSessionStep ==
  ASSUME SessionInv, NEW r \in Calls, UserSessions!EndSession(r)
  PROVE  SessionInv'
<1>1. PICK x \in RequestRow : x = request[r]
  BY OneRequest
<1>2. SessionTypes /\ Families
  BY OneRequest
<1> DEFINE S == {t \in DOMAIN tokens : tokens[t].who = x.who}
<1>3. /\ UNCHANGED <<cookie, page, escaped, losses>> /\ x.pc = "end"
      /\ UserSessions!Answer(r, "out")
      /\ \/ /\ tokens' = UserSessions!RevokeWhere(S)
            /\ endings' = endings \cup {tokens[t].family : t \in S}
         \/ UNCHANGED <<tokens, endings>>
  BY <1>1 DEF UserSessions!EndSession, UserSessions!FamilyOf, UserSessions!Made
<1>4. PICK q : MayBecome(r, q)
  BY <1>1, <1>3, AnswerMoves
<1>5. Grown /\ PagesLose /\ CookieStays(r) /\ cookie' \in 0..Len(tokens)
  BY <1>2, <1>3, Revoking, SameTokens, SamePages DEF CookieStays, SessionTypes
<1>6. Families' /\ endings' \subseteq 1..Len(tokens)
  <2>1. CASE UNCHANGED <<tokens, endings>>
    BY <1>2, <1>3, <2>1, TokensStay DEF SessionTypes
  <2>2. CASE /\ tokens' = UserSessions!RevokeWhere(S)
             /\ endings' = endings \cup {tokens[t].family : t \in S}
    <3>1. S \subseteq 1..Len(tokens) /\ Len(tokens) \in Nat
      BY <1>2, TokenCount
    <3>2. \A t \in 1..Len(tokens) : tokens[t].family \in 1..Len(tokens)
      BY <1>2, <3>1 DEF Families
    <3>3. endings' \subseteq 1..Len(tokens)
      BY <1>2, <2>2, <3>1, <3>2 DEF SessionTypes
    <3>4. \A t \in 1..Len(tokens) : tokens[t].family \in endings' => tokens[t].family \in endings \/ t \in S
      BY <1>2, <2>2, TokenCount DEF Families, Owner
    <3> QED BY <1>3, <2>2, <3>3, <3>4, EndsWhole
  <2> QED BY <1>3, <2>1, <2>2
<1> QED BY <1>3, <1>4, <1>5, <1>6, OnlyCalls, TypesStay

LEMMA Appending ==
  ASSUME SessionTypes, NEW row \in TokenRow, tokens' = Append(tokens, row)
  PROVE  /\ Grown /\ Len(tokens') = Len(tokens) + 1 /\ tokens'[Len(tokens) + 1] = row
         /\ \A t \in 1..Len(tokens) : tokens'[t] = tokens[t]
<1>1. tokens \in Seq(TokenRow) /\ Len(tokens) \in Nat
  BY TokenCount DEF SessionTypes
<1>2. tokens' \in Seq(TokenRow) /\ Len(tokens') = Len(tokens) + 1
  BY <1>1
<1>3. tokens'[Len(tokens) + 1] = row /\ \A t \in 1..Len(tokens) : tokens'[t] = tokens[t]
  BY <1>1
<1> QED BY <1>1, <1>2, <1>3 DEF Grown

\* The new token is in the family of the old one, and lives on only if its rotation
\* was sound.
LEMMA CreateTokenStep ==
  ASSUME SessionInv, NEW r \in Calls, UserSessions!CreateToken(r)
  PROVE  SessionInv'
<1>1. PICK x \in RequestRow : x = request[r] /\ GoodRequest(x) /\ OwnTokens(x, tokens) /\ Awaited(x)
  BY OneRequest
<1>2. /\ SessionTypes /\ Families /\ GoodRequests /\ (Refreshing(x) => x.token \in 1..Len(tokens))
      /\ Len(tokens) \in Nat
  BY <1>1, OneRequest, TokenCount
<1> DEFINE new == Len(tokens) + 1
           family == IF x.kind = "login" THEN new ELSE tokens[x.token].family
           row == [who |-> x.who, family |-> family, revoked |-> FALSE]
           pc == IF x.kind = "login" THEN "answer" ELSE "revoke"
           q == [x EXCEPT !.child = new, !.answer = "token", !.pc = pc]
<1>3. /\ UNCHANGED <<cookie, page, endings, losses>> /\ x.pc = "create"
      /\ tokens' = Append(tokens, row)
      /\ escaped' = IF family \in endings /\ x.sound THEN escaped \cup {new} ELSE escaped
      /\ request' = [request EXCEPT ![r] = q]
  BY <1>1 DEF UserSessions!CreateToken, UserSessions!MakeToken, UserSessions!FamilyOf
<1>4. /\ x.kind \in {"login", "refresh"}
      /\ x.kind = "refresh" => x.token \in 1..Len(tokens) /\ x.who = tokens[x.token].who /\ x.sound
  BY <1>1, <1>2, <1>3 DEF GoodRequest, Refreshing, OwnTokens
<1>5. x.who \in Turns
  <2>1. x.kind = "refresh" => x.who \in Turns
    BY <1>2, <1>4, TokenCount DEF TokenRow
  <2>2. x.kind = "login" => x.who \in Turns
    BY <1>1 DEF GoodRequest, RequestRow, Persons
  <2> QED BY <1>4, <2>1, <2>2
<1>6. /\ family \in 1..new
      /\ \A u \in 1..Len(tokens) : tokens[u].family = family => tokens[u].who = x.who
  <2>1. CASE x.kind = "login"
    BY <1>2, <2>1 DEF Families
  <2>2. CASE x.kind = "refresh"
    <3>1. family = tokens[x.token].family
      BY <2>2
    <3>2. family \in 1..x.token /\ x.token \in 1..Len(tokens)
      BY <1>2, <1>4, <2>2, <3>1 DEF Families
    <3>3. family \in 1..new
      BY <1>2, <3>2
    <3> QED BY <1>2, <1>4, <2>2, <3>1, <3>3 DEF Families, Owner
  <2> QED BY <1>4, <2>1, <2>2
<1>7. family \in endings => x.sound
  BY <1>2, <1>4 DEF SessionTypes
<1> HIDE DEF family
<1>8. row \in TokenRow /\ row.who = x.who /\ row.family = family /\ ~row.revoked
  <2>1. family \in Nat
    BY <1>2, <1>6
  <2> QED BY <1>5, <2>1 DEF TokenRow
<1> HIDE DEF row
<1>9. /\ Grown /\ Len(tokens') = new /\ tokens'[new] = row
      /\ \A t \in 1..Len(tokens) : tokens'[t] = tokens[t]
  BY <1>2, <1>3, <1>8, Appending
<1>10. /\ q \in RequestRow /\ q.pc = pc /\ q.answer = "token" /\ q.child = new
       /\ q.kind = x.kind /\ q.tab = x.tab /\ q.token = x.token /\ q.who = x.who
       /\ q.left = x.left /\ q.sound = x.sound
  <2>1. new \in Nat /\ pc \in {"answer", "revoke"}
    BY <1>2
  <2> QED BY <2>1 DEF RequestRow
<1>11. \/ pc = "answer" /\ x.kind = "login"
       \/ pc = "revoke" /\ x.kind = "refresh"
  <2>1. x.kind = "login" \/ x.kind = "refresh"
    BY <1>4
  <2>2. ASSUME x.kind = "login" PROVE pc = "answer"
    BY <2>2
  <2>3. ASSUME x.kind = "refresh" PROVE pc = "revoke"
    BY <2>3
  <2> HIDE DEF pc
  <2> QED BY <2>1, <2>2, <2>3
<1>12. new # 0 /\ 1..new = 1..Len(tokens) \cup {new} /\ 0..Len(tokens) \subseteq 0..new
  BY <1>2
<1> HIDE DEF q, pc
<1>13. GoodRequest(q)
  BY <1>1, <1>3, <1>4, <1>10, <1>11, <1>12 DEF GoodRequest
<1>14. OwnTokens(q, tokens')
  <2>1. q.token <= Len(tokens') /\ q.child <= Len(tokens')
    <3>1. x.token <= Len(tokens) /\ x.token \in Nat
      BY <1>1 DEF OwnTokens, RequestRow
    <3> QED BY <1>2, <1>9, <1>10, <3>1
  <2>2. tokens'[q.child].who = q.who
    BY <1>8, <1>9, <1>10
  <2>3. q.kind = "refresh" => tokens'[q.token].who = q.who
    BY <1>4, <1>9, <1>10
  <2> QED BY <2>1, <2>2, <2>3 DEF OwnTokens
<1>15. Awaited(q) /\ GoesOn(r, q) /\ CookieStays(r) /\ PagesLose
  BY <1>1, <1>2, <1>3, <1>10, SamePages DEF Awaited, GoesOn, Refreshing, CookieStays
<1>16. GoodRequests' /\ request' \in [Calls -> RequestRow] /\ \A k \in Tabs : GoodPage(k)'
  BY <1>3, <1>9, <1>10, <1>13, <1>14, <1>15, CalmStep
<1> HIDE DEF new
<1>17. Families'
  <2>1. \A t \in 1..new : tokens'[t].family \in 1..t
    BY <1>2, <1>6, <1>8, <1>9, <1>12 DEF Families
  <2>2. \A t, u \in 1..new : tokens'[t].family = tokens'[u].family => tokens'[t].who = tokens'[u].who
    BY <1>2, <1>6, <1>8, <1>9, <1>12 DEF Families, Owner
  <2>3. \A t \in 1..new : ~tokens'[t].revoked /\ tokens'[t].family \in endings => t \in escaped'
    BY <1>2, <1>3, <1>7, <1>8, <1>9, <1>12 DEF Families
  <2> QED BY <1>3, <1>9, <2>1, <2>2, <2>3 DEF Families, Owner
<1>18. SessionTypes'
  BY <1>2, <1>3, <1>9, <1>12, <1>16 DEF SessionTypes, Grown
<1> QED BY <1>16, <1>17, <1>18 DEF SessionInv
-----------------------------------------------------------------------------
(* The sessions: the pages *)

LEMMA BeginMoves ==
  ASSUME SessionInv, NEW r \in Calls, NEW kd \in {"refresh", "login", "logout"}, NEW k \in Tabs,
         NEW who \in Persons, NEW pc \in {"read", "create", "end"},
         UserSessions!Begin(r, kd, k, who, pc)
  PROVE  \E q \in RequestRow :
           /\ request' = [request EXCEPT ![r] = q] /\ request[r].pc = "idle"
           /\ q.kind = kd /\ q.tab = k /\ q.who = who /\ q.token = cookie /\ q.pc = pc
           /\ q.child = 0 /\ q.answer = "none" /\ ~q.left
<1>1. cookie \in Nat
  BY TokenCount DEF SessionInv, SessionTypes
<1> DEFINE q == [UserSessions!NoRequest EXCEPT
                   !.pc = pc, !.kind = kd, !.tab = k, !.who = who, !.token = cookie]
<1>2. q \in RequestRow
  BY <1>1, FirstRows DEF RequestRow
<1>3. /\ q.kind = kd /\ q.tab = k /\ q.who = who /\ q.token = cookie /\ q.pc = pc
      /\ q.child = 0 /\ q.answer = "none" /\ ~q.left
  BY FirstRows DEF RequestRow
<1>4. request' = [request EXCEPT ![r] = q] /\ request[r].pc = "idle"
  BY DEF UserSessions!Begin
<1> QED BY <1>2, <1>3, <1>4

\* Nothing comes of the page but a call that refreshes nothing.
LEMMA SignStep ==
  ASSUME SessionInv, NEW r \in Calls, NEW k \in Tabs, NEW who \in Persons,
         \/ UserSessions!BeginLogin(r, k, who) /\ who # "nobody"
         \/ UserSessions!SignOut(r, k)
  PROVE  SessionInv'
<1>1. SessionTypes /\ GoodPage(k) /\ page[k] \in PageRow
  BY DEF SessionInv, SessionTypes
<1>2. UNCHANGED <<tokens, cookie, endings, escaped, losses>>
  BY DEF UserSessions!BeginLogin, UserSessions!SignOut
<1>3. PagesLose /\ page[k].open
  <2>1. CASE UserSessions!BeginLogin(r, k, who)
    BY <1>1, <2>1, SamePages DEF UserSessions!BeginLogin
  <2>2. CASE UserSessions!SignOut(r, k)
    <3>1. PICK x \in PageRow : x = page[k]
      BY <1>1
    <3> DEFINE p == [x EXCEPT !.leaving = TRUE]
    <3>2. p \in PageRow /\ p.open = x.open /\ p.shared = x.shared /\ p.timer = x.timer
      BY DEF PageRow
    <3>3. p.access = x.access /\ p.user = x.user
      BY DEF PageRow
    <3>4. page' = [page EXCEPT ![k] = p] /\ x.user # "nobody"
      BY <2>2, <3>1 DEF UserSessions!SignOut, UserSessions!Nobody
    <3> HIDE DEF p
    <3>5. PagesLose
      BY <1>1, <3>1, <3>2, <3>3, <3>4, OnePageLoses
    <3> QED BY <1>1, <3>1, <3>4, <3>5 DEF GoodPage, ShowsNobody
  <2> QED BY <2>1, <2>2
<1>4. \E q \in RequestRow :
        /\ request' = [request EXCEPT ![r] = q]
        /\ q.kind \in {"login", "logout"} /\ q.tab = k /\ q.token = cookie
        /\ q.pc \in {"create", "end"} /\ (q.pc = "create" <=> q.kind = "login")
        /\ (q.kind = "login" => q.who # "nobody") /\ q.child = 0 /\ q.answer = "none"
  <2>1. CASE UserSessions!BeginLogin(r, k, who) /\ who # "nobody"
    <3>1. UserSessions!Begin(r, "login", k, who, "create")
      BY <2>1 DEF UserSessions!BeginLogin
    <3> QED BY <2>1, <3>1, BeginMoves
  <2>2. CASE UserSessions!SignOut(r, k)
    <3>1. UserSessions!Begin(r, "logout", k, page[k].access, "end") /\ page[k].access \in Persons
      BY <1>1, <2>2 DEF UserSessions!SignOut, PageRow
    <3> QED BY <3>1, BeginMoves
  <2> QED BY <2>1, <2>2
<1>5. PICK q \in RequestRow :
        /\ request' = [request EXCEPT ![r] = q]
        /\ q.kind \in {"login", "logout"} /\ q.tab = k /\ q.token = cookie
        /\ q.pc \in {"create", "end"} /\ (q.pc = "create" <=> q.kind = "login")
        /\ (q.kind = "login" => q.who # "nobody") /\ q.child = 0 /\ q.answer = "none"
  BY <1>4
<1>6. cookie \in 0..Len(tokens) /\ Len(tokens) \in Nat
  BY <1>1, TokenCount DEF SessionTypes
<1>7. MayBecome(r, q)
  BY <1>3, <1>5, <1>6 DEF MayBecome, GoodRequest, OwnTokens, Awaited, GoesOn, Refreshing
<1> QED BY <1>2, <1>3, <1>6, <1>7, TokensStay, OnlyCalls DEF CookieStays

\* A refresh begins with the cookie: it brings nobody in but whom the cookie is for.
LEMMA RefreshBegins ==
  ASSUME SessionInv, NEW r \in Calls, NEW k \in Tabs, NEW p \in PageRow, p.open,
         UserSessions!Begin(r, "refresh", k, "nobody", "read"),
         page' = [page EXCEPT ![k] = p],
         UNCHANGED <<tokens, cookie, endings, escaped, losses>>
  PROVE  /\ GoodRequests' /\ SessionTypes' /\ Families'
         /\ \A x \in Persons : AgreesOn(x) => AgreesOn(x)'
         /\ \A j \in Tabs \ {k} : GoodPage(j)'
         /\ \E q \in RequestRow : /\ request' = [request EXCEPT ![r] = q] /\ q.kind = "refresh"
                                  /\ q.tab = k /\ q.token = cookie
<1>1. PICK q \in RequestRow :
        /\ request' = [request EXCEPT ![r] = q] /\ request[r].pc = "idle"
        /\ q.kind = "refresh" /\ q.tab = k /\ q.who = "nobody" /\ q.token = cookie /\ q.pc = "read"
        /\ q.child = 0 /\ q.answer = "none" /\ ~q.left
  BY BeginMoves DEF Persons
<1>2. /\ SessionTypes /\ GoodRequests /\ Grown /\ Families'
      /\ cookie \in 0..Len(tokens) /\ Len(tokens) \in Nat
  BY TokensStay, TokenCount DEF SessionInv, SessionTypes
<1>3. /\ page' \in [Tabs -> PageRow] /\ page'[k] = p
      /\ \A j \in Tabs : page[j].open => page'[j].open
      /\ \A j \in Tabs \ {k} : page'[j] = page[j]
  BY <1>2 DEF SessionTypes
<1>4. GoodRequest(q) /\ OwnTokens(q, tokens') /\ Awaited(q)'
  BY <1>1, <1>2, <1>3 DEF GoodRequest, OwnTokens, Awaited
<1>5. GoodRequests' /\ request' \in [Calls -> RequestRow]
  BY <1>1, <1>2, <1>3, <1>4, RequestMoves
<1>6. SessionTypes'
  BY <1>2, <1>3, <1>5 DEF SessionTypes
<1>7. ASSUME NEW x \in Persons, AgreesOn(x) PROVE AgreesOn(x)'
  <2>1. cookie # 0 => tokens[cookie].who = x
    BY <1>7 DEF AgreesOn, Owner
  <2>2. Refreshing(q) => tokens'[q.token].who = x
    BY <1>1, <2>1 DEF Refreshing
  <2> QED BY <1>1, <1>2, <1>7, <2>1, <2>2, AgreeStays
<1>8. ASSUME NEW j \in Tabs \ {k} PROVE GoodPage(j)'
  <2>1. GoodPage(j) /\ page[j] \in PageRow /\ page'[j] = page[j]
    BY <1>2, <1>3 DEF SessionInv, SessionTypes
  <2>2. ASSUME NEW s \in Calls, Refreshing(request'[s]), request'[s].tab = j, ~request'[s].left
        PROVE  Refreshing(request[s]) /\ request[s].tab = j /\ ~request[s].left
    BY <1>1, <1>2, <2>2 DEF SessionTypes
  <2> QED BY <1>2, <1>7, <2>1, <2>2, PageStays
<1> QED BY <1>1, <1>2, <1>5, <1>6, <1>7, <1>8

\* A refresh that is waited for has its page open.
LEMMA WaitedFor ==
  ASSUME SessionInv, NEW s \in Calls, Refreshing(request[s]), ~request[s].left
  PROVE  request[s].tab \in Tabs /\ page[request[s].tab].open
BY OneRequest DEF Refreshing, GoodRequest, Awaited

LEMMA OpenPageStep ==
  ASSUME SessionInv, NEW r \in Calls, NEW k \in Tabs, UserSessions!OpenPage(r, k)
  PROVE  SessionInv'
<1> DEFINE sh == cookie # 0 /\ UserSessions!OthersRefresh(Calls, tokens[cookie].who)
           p == [UserSessions!ClosedPage EXCEPT !.open = TRUE, !.loading = TRUE, !.shared = sh]
<1>1. /\ page' = [page EXCEPT ![k] = p] /\ ~page[k].open
      /\ UserSessions!Begin(r, "refresh", k, "nobody", "read")
      /\ UNCHANGED <<tokens, cookie, endings, escaped, losses>>
  BY DEF UserSessions!OpenPage, UserSessions!Nobody
<1>2. /\ p \in PageRow /\ p.open /\ p.access = "nobody" /\ p.user = "nobody" /\ ~p.timer
      /\ p.shared = sh
  <2>1. sh \in BOOLEAN
    OBVIOUS
  <2> HIDE DEF sh
  <2> QED BY <2>1, FirstRows DEF PageRow, UserSessions!ClosedPage
<1> HIDE DEF p
<1>3. /\ GoodRequests' /\ SessionTypes' /\ Families' /\ \A j \in Tabs \ {k} : GoodPage(j)'
      /\ \E q \in RequestRow : /\ request' = [request EXCEPT ![r] = q] /\ q.kind = "refresh"
                               /\ q.tab = k /\ q.token = cookie
  BY <1>1, <1>2, RefreshBegins
<1>4. PICK q \in RequestRow : /\ request' = [request EXCEPT ![r] = q] /\ q.kind = "refresh"
                              /\ q.tab = k /\ q.token = cookie
  BY <1>3
<1>5. SessionTypes /\ page'[k] = p /\ cookie \in 0..Len(tokens)
  BY <1>1 DEF SessionInv, SessionTypes
<1>6. CASE cookie = 0
  <2>1. \A s \in Calls : Refreshing(request'[s]) /\ request'[s].tab = k => request'[s].left
    BY <1>1, <1>4, <1>5, <1>6, WaitedFor DEF Refreshing, SessionTypes
  <2> QED BY <1>2, <1>3, <1>5, <2>1 DEF SessionInv, GoodPage, Blank, ShowsNobody
<1>7. CASE cookie # 0 /\ ~sh
  <2>1. \A s \in Calls : Refreshing(request[s]) => tokens[request[s].token].who = tokens[cookie].who
    BY <1>7 DEF UserSessions!OthersRefresh, Refreshing
  <2>2. \A s \in Calls : Refreshing(request'[s]) => tokens[request'[s].token].who = tokens[cookie].who
    BY <1>4, <1>5, <2>1 DEF SessionTypes
  <2>3. PICK x \in Persons : x = tokens[cookie].who
    BY <1>5, <1>7, TokenCount DEF TokenRow, Persons
  <2>4. AgreesOn(x)'
    BY <1>1, <2>2, <2>3 DEF AgreesOn, Owner
  <2>5. Agreed(k)'
    BY <1>2, <1>5, <2>4 DEF Agreed
  <2> QED BY <1>2, <1>3, <1>5, <2>5 DEF SessionInv, GoodPage
<1>8. CASE sh
  BY <1>2, <1>3, <1>5, <1>8 DEF SessionInv, GoodPage
<1> QED BY <1>6, <1>7, <1>8

LEMMA TimerStep ==
  ASSUME SessionInv, NEW r \in Calls, NEW k \in Tabs, UserSessions!TimerFires(r, k)
  PROVE  SessionInv'
<1>1. PICK x \in PageRow : x = page[k]
  BY DEF SessionInv, SessionTypes
<1> DEFINE p == [x EXCEPT !.timer = FALSE]
<1>2. /\ page' = [page EXCEPT ![k] = p] /\ x.timer
      /\ UserSessions!Begin(r, "refresh", k, "nobody", "read")
      /\ UNCHANGED <<tokens, cookie, endings, escaped, losses>>
  BY <1>1 DEF UserSessions!TimerFires, UserSessions!Nobody
<1>3. GoodPage(k) /\ page'[k] = p
  BY <1>1, <1>2 DEF SessionInv, SessionTypes
<1>4. /\ p \in PageRow /\ p.open = x.open /\ p.access = x.access /\ p.user = x.user
      /\ p.shared = x.shared
  BY DEF PageRow
<1> HIDE DEF p
<1>5. x.open
  BY <1>1, <1>2, <1>3 DEF GoodPage, ShowsNobody
<1>6. /\ GoodRequests' /\ SessionTypes' /\ Families' /\ \A j \in Tabs \ {k} : GoodPage(j)'
      /\ \A y \in Persons : AgreesOn(y) => AgreesOn(y)'
  BY <1>2, <1>4, <1>5, RefreshBegins
<1>7. ~x.shared => Agreed(k)
  BY <1>1, <1>2, <1>3, <1>5 DEF GoodPage, Blank, ShowsNobody
<1>8. ~x.shared => Agreed(k)'
  BY <1>1, <1>3, <1>4, <1>6, <1>7 DEF Agreed
<1> QED BY <1>3, <1>4, <1>5, <1>6, <1>8 DEF SessionInv, GoodPage

\* The calls of a page that is gone are not waited for.
LEMMA UnloadStep ==
  ASSUME SessionInv, NEW k \in Tabs, UserSessions!Unload(k)
  PROVE  SessionInv'
<1> DEFINE Left(s) == [request[s] EXCEPT !.left = request[s].left \/ request[s].tab = k]
<1>1. /\ page' = [page EXCEPT ![k] = UserSessions!ClosedPage] /\ request' = [s \in Calls |-> Left(s)]
      /\ UNCHANGED <<tokens, cookie, endings, escaped, losses>>
  BY DEF UserSessions!Unload
<1>2. SessionTypes /\ GoodRequests /\ Grown /\ Families'
  BY <1>1, TokensStay DEF SessionInv
<1>3. ASSUME NEW s \in Calls
      PROVE  LET q == request'[s]  x == request[s] IN
             /\ q \in RequestRow /\ q.pc = x.pc /\ q.kind = x.kind /\ q.tab = x.tab /\ q.who = x.who
             /\ q.token = x.token /\ q.child = x.child /\ q.sound = x.sound /\ q.answer = x.answer
             /\ q.left = (x.left \/ x.tab = k)
  <2>1. PICK x \in RequestRow : x = request[s]
    BY <1>2 DEF SessionTypes
  <2>2. PICK b \in BOOLEAN : b = (x.left \/ x.tab = k)
    OBVIOUS
  <2> DEFINE q == [x EXCEPT !.left = b]
  <2>3. request'[s] = q
    BY <1>1, <2>1, <2>2
  <2>4. /\ q \in RequestRow /\ q.pc = x.pc /\ q.kind = x.kind /\ q.tab = x.tab /\ q.who = x.who
        /\ q.token = x.token /\ q.child = x.child /\ q.sound = x.sound /\ q.answer = x.answer
        /\ q.left = b
    BY DEF RequestRow
  <2> HIDE DEF q
  <2> QED BY <2>1, <2>2, <2>3, <2>4
<1> HIDE DEF Left
<1>4. /\ page' \in [Tabs -> PageRow] /\ page'[k] = UserSessions!ClosedPage
      /\ \A j \in Tabs \ {k} : page'[j] = page[j]
  BY <1>1, <1>2, FirstRows DEF SessionTypes
<1>5. SessionTypes'
  <2>1. request' \in [Calls -> RequestRow]
    BY <1>1, <1>3
  <2> QED BY <1>1, <1>2, <1>4, <2>1 DEF SessionTypes
<1>6. GoodRequests'
  <2>1. ASSUME NEW s \in Calls
        PROVE  GoodRequest(request'[s]) /\ OwnTokens(request'[s], tokens') /\ Awaited(request[s])'
    <3>1. GoodRequest(request[s]) /\ OwnTokens(request[s], tokens) /\ Awaited(request[s])
      BY <1>2 DEF GoodRequests
    <3>2. GoodRequest(request'[s]) /\ OwnTokens(request'[s], tokens')
      BY <1>1, <1>3, <3>1 DEF GoodRequest, OwnTokens
    <3>3. ASSUME ~request'[s].left, request'[s].pc # "idle" PROVE page'[request'[s].tab].open
      <4>1. ~request[s].left /\ request[s].tab # k /\ request[s].pc # "idle"
        BY <1>3, <3>3
      <4>2. request[s].tab \in Tabs /\ page[request[s].tab].open
        BY <3>1, <4>1 DEF Awaited, GoodRequest
      <4> QED BY <1>3, <1>4, <4>1, <4>2
    <3> QED BY <3>2, <3>3 DEF Awaited
  <2> QED BY <2>1 DEF GoodRequests
<1>7. ASSUME NEW x \in Persons, AgreesOn(x) PROVE AgreesOn(x)'
  <2>1. ASSUME NEW s \in Calls, Refreshing(request'[s]) PROVE tokens[request'[s].token].who = x
    <3>1. Refreshing(request[s]) /\ request'[s].token = request[s].token
      BY <1>3, <2>1 DEF Refreshing
    <3> QED BY <1>7, <3>1 DEF AgreesOn, Owner
  <2>2. cookie # 0 => tokens[cookie].who = x
    BY <1>7 DEF AgreesOn, Owner
  <2> QED BY <1>1, <2>1, <2>2 DEF AgreesOn, Owner
<1>8. ASSUME NEW j \in Tabs PROVE GoodPage(j)'
  <2>1. CASE j = k
    BY <1>4, <2>1, FirstRows DEF GoodPage, ShowsNobody
  <2>2. CASE j # k
    <3>1. GoodPage(j) /\ page[j] \in PageRow /\ page'[j] = page[j]
      BY <1>2, <1>4, <2>2 DEF SessionInv, SessionTypes
    <3>2. ASSUME NEW s \in Calls, Refreshing(request'[s]), request'[s].tab = j, ~request'[s].left
          PROVE  Refreshing(request[s]) /\ request[s].tab = j /\ ~request[s].left
      BY <1>3, <3>2 DEF Refreshing
    <3> QED BY <1>2, <1>7, <3>1, <3>2, PageStays
  <2> QED BY <2>1, <2>2
<1> QED BY <1>2, <1>5, <1>6, <1>8 DEF SessionInv
-----------------------------------------------------------------------------
(* The sessions: the answers *)

\* The call is over.
LEMMA Over ==
  ASSUME SessionInv, NEW r \in Calls,
         request' = [request EXCEPT ![r] = UserSessions!NoRequest]
  PROVE  MayBecome(r, UserSessions!NoRequest)
BY NoRequestGood DEF MayBecome, GoesOn

\* A page takes up the person whose token its own refresh had, and nobody else.
LEMMA TakesUp ==
  ASSUME SessionInv, NEW r \in Calls, NEW q, MayBecome(r, q), Refreshing(request[r]), ~request[r].left,
         request[r].who = Owner(request[r].token),
         NEW p \in PageRow, page' = [page EXCEPT ![request[r].tab] = p],
         p.open = page[request[r].tab].open, p.shared = page[request[r].tab].shared,
         p.access \in {page[request[r].tab].access, request[r].who, "nobody"},
         p.user \in {page[request[r].tab].user, request[r].who, "nobody"},
         CookieStays(r), cookie' \in 0..Len(tokens), UNCHANGED <<tokens, endings, escaped, losses>>
  PROVE  SessionInv'
<1>1. PICK x \in RequestRow : x = request[r]
  BY OneRequest
<1>2. PICK k \in Tabs : k = x.tab
  BY <1>1, WaitedFor
<1>3. /\ SessionTypes /\ GoodRequests /\ Grown /\ Families' /\ q \in RequestRow
      /\ request' = [request EXCEPT ![r] = q] /\ GoodRequest(q) /\ OwnTokens(q, tokens')
      /\ Awaited(q) /\ GoesOn(r, q)
  BY TokensStay DEF SessionInv, MayBecome
<1>4. /\ page' \in [Tabs -> PageRow] /\ page'[k] = p /\ page[k].open
      /\ \A j \in Tabs : page'[j].open = page[j].open
      /\ \A j \in Tabs \ {k} : page'[j] = page[j]
  BY <1>1, <1>2, <1>3, WaitedFor DEF SessionTypes
<1>5. GoodRequests' /\ request' \in [Calls -> RequestRow]
  <2>1. Awaited(q)'
    BY <1>3, <1>4 DEF Awaited, GoodRequest
  <2> QED BY <1>3, <1>4, <2>1, RequestMoves
<1>6. SessionTypes'
  BY <1>3, <1>4, <1>5 DEF SessionTypes
<1>7. \A y \in Persons : AgreesOn(y) => AgreesOn(y)'
  BY <1>3, AgreeingGoesOn
<1>8. ASSUME NEW j \in Tabs \ {k} PROVE GoodPage(j)'
  <2>1. GoodPage(j) /\ page[j] \in PageRow /\ page'[j] = page[j]
    BY <1>3, <1>4 DEF SessionInv, SessionTypes
  <2>2. ASSUME NEW s \in Calls, Refreshing(request'[s]), request'[s].tab = j, ~request'[s].left
        PROVE  Refreshing(request[s]) /\ request[s].tab = j /\ ~request[s].left
    BY <1>3, <2>2 DEF GoesOn, SessionTypes
  <2> QED BY <1>3, <1>7, <2>1, <2>2, PageStays
<1>9. ASSUME ~page[k].shared PROVE Agreed(k)'
  <2>1. ~Blank(k)
    BY <1>1, <1>2 DEF Blank
  <2>2. PICK y \in Persons : {page[k].access, page[k].user} \subseteq {y, "nobody"} /\ AgreesOn(y)
    BY <1>4, <1>9, <2>1 DEF SessionInv, GoodPage, Agreed
  <2>3. x.who = y
    BY <1>1, <2>2 DEF AgreesOn
  <2>4. {p.access, p.user} \subseteq {y, "nobody"}
    BY <1>1, <1>2, <2>2, <2>3
  <2> QED BY <1>4, <1>7, <2>2, <2>4 DEF Agreed
<1>10. GoodPage(k)'
  BY <1>1, <1>2, <1>4, <1>9 DEF GoodPage
<1> QED BY <1>3, <1>5, <1>6, <1>8, <1>10 DEF SessionInv

LEMMA RefreshAnsweredStep ==
  ASSUME SessionInv, NEW r \in Calls, UserSessions!RefreshAnswered(r)
  PROVE  SessionInv'
<1>1. PICK x \in RequestRow : x = request[r] /\ GoodRequest(x) /\ OwnTokens(x, tokens) /\ Awaited(x)
  BY OneRequest
<1>2. /\ SessionTypes /\ (Refreshing(x) => x.token \in 1..Len(tokens)) /\ Len(tokens) \in Nat
      /\ cookie \in 0..Len(tokens)
  BY <1>1, OneRequest, TokenCount DEF SessionTypes
<1>3. /\ x.pc = "answer" /\ x.kind = "refresh" /\ ~x.left
      /\ UNCHANGED <<tokens, endings, escaped, losses>>
  BY <1>1 DEF UserSessions!RefreshAnswered, UserSessions!Answered
<1>4. PICK k \in Tabs : k = x.tab
  BY <1>1, <1>3 DEF GoodRequest
<1>5. PICK o \in PageRow : o = page[k]
  BY <1>2 DEF SessionTypes
<1>6. Families' /\ Grown
  BY <1>3, TokensStay
<1>7. CASE x.answer = "token"
  <2>1. x.token # 0 /\ x.who = tokens[x.token].who /\ x.child # 0 /\ tokens[x.child].who = x.who
    BY <1>1, <1>3, <1>7 DEF GoodRequest, OwnTokens
  <2>2. x.child \in 1..Len(tokens)
    <3>1. x.child \in Nat /\ x.child <= Len(tokens)
      BY <1>1 DEF OwnTokens, RequestRow
    <3> QED BY <1>2, <2>1, <3>1
  <2>3. Refreshing(x) /\ CookieStays(r) /\ cookie' \in 0..Len(tokens)
    BY <1>1, <1>3, <1>7, <2>1, <2>2 DEF UserSessions!RefreshAnswered, Refreshing, CookieStays, Owner
  <2> DEFINE n == [o EXCEPT !.access = x.who, !.timer = TRUE]
             p == UserSessions!Settled(n)
  <2>4. n \in PageRow /\ n.access = x.who /\ n.user = o.user /\ n.open = o.open /\ n.shared = o.shared
    BY DEF PageRow, RequestRow
  <2>5. page' = [page EXCEPT ![k] = p]
    BY <1>1, <1>4, <1>5, <1>7 DEF UserSessions!RefreshAnswered, UserSessions!SetPage
  <2> HIDE DEF n
  <2>6. /\ p \in PageRow /\ p.open = o.open /\ p.shared = o.shared
        /\ p.access = x.who /\ p.user \in {o.user, "nobody"}
    BY <2>4, SettledPage
  <2> HIDE DEF p
  <2>7. \E q : MayBecome(r, q)
    <3>1. CASE request' = [request EXCEPT ![r] = UserSessions!NoRequest]
      BY <3>1, Over
    <3>2. CASE request' = [request EXCEPT ![r] = [@ EXCEPT !.pc = "me"]]
      <4> DEFINE q == [x EXCEPT !.pc = "me"]
      <4>1. request' = [request EXCEPT ![r] = q]
        BY <1>1, <3>2
      <4>2. q \in RequestRow /\ q.pc = "me" /\ q.answer = x.answer /\ q.kind = x.kind /\ q.tab = x.tab
        BY DEF RequestRow
      <4>3. q.token = x.token /\ q.child = x.child /\ q.who = x.who /\ q.left = x.left
        BY DEF RequestRow
      <4> HIDE DEF q
      <4>4. GoodRequest(q)
        BY <1>1, <1>3, <1>7, <2>1, <4>2, <4>3 DEF GoodRequest
      <4>5. OwnTokens(q, tokens) /\ Awaited(q) /\ GoesOn(r, q)
        BY <1>1, <1>3, <2>1, <4>2, <4>3 DEF OwnTokens, Awaited, GoesOn, Refreshing
      <4> QED BY <4>1, <4>2, <4>4, <4>5 DEF MayBecome
    <3> QED BY <1>1, <1>7, <3>1, <3>2 DEF UserSessions!RefreshAnswered
  <2> QED BY <1>1, <1>3, <1>4, <1>5, <2>1, <2>3, <2>5, <2>6, <2>7, TakesUp DEF Owner
<1>8. CASE x.answer # "token"
  <2> DEFINE s == UserSessions!SignedOut(o)
             p == UserSessions!Settled(s)
  <2>1. /\ page' = [page EXCEPT ![k] = p] /\ cookie' \in {cookie, 0}
        /\ request' = [request EXCEPT ![r] = UserSessions!NoRequest]
    BY <1>1, <1>4, <1>5, <1>8 DEF UserSessions!RefreshAnswered, UserSessions!SetPage
  <2>2. /\ s \in PageRow /\ s.open = o.open /\ s.shared = o.shared /\ s.timer = o.timer
        /\ s.access = "nobody" /\ s.user = "nobody"
    BY SignedOutPage
  <2> HIDE DEF s
  <2>3. /\ p \in PageRow /\ p.open = o.open /\ p.shared = o.shared /\ p.timer = o.timer
        /\ p.access = "nobody" /\ p.user = "nobody"
    BY <2>2, SettledPage
  <2> HIDE DEF p
  <2>4. PagesLose
    BY <1>2, <1>5, <2>1, <2>3, OnePageLoses
  <2>5. MayBecome(r, UserSessions!NoRequest)
    BY <2>1, Over
  <2>6. CookieStays(r) /\ cookie' \in 0..Len(tokens)
    BY <1>2, <2>1 DEF CookieStays
  <2> QED BY <1>3, <1>6, <2>4, <2>5, <2>6, OnlyCalls
<1> QED BY <1>7, <1>8

LEMMA MeAnsweredStep ==
  ASSUME SessionInv, NEW r \in Calls, UserSessions!MeAnswered(r)
  PROVE  SessionInv'
<1>1. PICK x \in RequestRow : x = request[r] /\ GoodRequest(x) /\ OwnTokens(x, tokens)
  BY OneRequest
<1>2. /\ x.pc = "me" /\ ~x.left /\ UNCHANGED <<tokens, cookie, endings, escaped, losses>>
      /\ request' = [request EXCEPT ![r] = UserSessions!NoRequest]
  BY <1>1 DEF UserSessions!MeAnswered
<1>3. /\ Refreshing(x) /\ x.who = tokens[x.token].who /\ x.tab \in Tabs
  BY <1>1, <1>2 DEF GoodRequest, OwnTokens, Refreshing
<1>4. SessionTypes /\ cookie \in 0..Len(tokens)
  BY DEF SessionInv, SessionTypes
<1>5. PICK o \in PageRow : o = page[x.tab]
  BY <1>3, <1>4 DEF SessionTypes
<1>6. PICK who \in {x.who, o.user} :
        page' = [page EXCEPT ![x.tab] = UserSessions!Settled([o EXCEPT !.user = who, !.loading = FALSE])]
  BY <1>1, <1>5 DEF UserSessions!MeAnswered, UserSessions!SetPage
<1> DEFINE n == [o EXCEPT !.user = who, !.loading = FALSE]
           p == UserSessions!Settled(n)
<1>7. n \in PageRow /\ n.access = o.access /\ n.user = who /\ n.open = o.open /\ n.shared = o.shared
  BY DEF PageRow, RequestRow
<1> HIDE DEF n
<1>8. /\ p \in PageRow /\ p.open = o.open /\ p.shared = o.shared
      /\ p.access = o.access /\ p.user \in {who, "nobody"}
  BY <1>7, SettledPage
<1>9. page' = [page EXCEPT ![x.tab] = p]
  BY <1>6 DEF n
<1> HIDE DEF p
<1>10. MayBecome(r, UserSessions!NoRequest) /\ CookieStays(r)
  BY <1>2, Over DEF CookieStays
<1> QED BY <1>1, <1>2, <1>3, <1>4, <1>5, <1>8, <1>9, <1>10, TakesUp DEF Owner

\* What the others show does not count any more once somebody has signed in.
LEMMA LoginAnsweredStep ==
  ASSUME SessionInv, NEW r \in Calls, UserSessions!LoginAnswered(r)
  PROVE  SessionInv'
<1>1. PICK x \in RequestRow : x = request[r] /\ GoodRequest(x) /\ OwnTokens(x, tokens) /\ Awaited(x)
  BY OneRequest
<1>2. x.kind = "login" /\ x.pc = "answer" /\ ~x.left
  BY <1>1 DEF UserSessions!LoginAnswered, UserSessions!Answered
<1>3. PICK k \in Tabs : k = x.tab
  BY <1>1, <1>2 DEF GoodRequest
<1>4. SessionTypes /\ GoodRequests /\ cookie \in 0..Len(tokens) /\ Len(tokens) \in Nat
  BY TokenCount DEF SessionInv, SessionTypes
<1>5. PICK o \in PageRow : o = page[k]
  BY <1>4 DEF SessionTypes
<1> DEFINE sh == UserSessions!OthersRefresh(Calls, x.who)
           p == [o EXCEPT !.access = x.who, !.user = x.who, !.timer = TRUE, !.shared = sh]
           Marked(j) == [page[j] EXCEPT !.shared = TRUE]
<1>6. /\ cookie' = x.child /\ page' = [UserSessions!SharedBut(k) EXCEPT ![k] = p]
      /\ request' = [request EXCEPT ![r] = UserSessions!NoRequest]
      /\ UNCHANGED <<tokens, endings, escaped, losses>>
  BY <1>1, <1>3, <1>5 DEF UserSessions!LoginAnswered
<1>7. /\ p \in PageRow /\ p.open = o.open /\ p.access = x.who /\ p.user = x.who /\ p.shared = sh
  <2>1. sh \in BOOLEAN /\ x.who \in Persons
    BY DEF UserSessions!OthersRefresh, RequestRow
  <2> HIDE DEF sh
  <2> QED BY <2>1 DEF PageRow
<1> HIDE DEF p
<1>8. page'[k] = p /\ \A j \in Tabs \ {k} : page'[j] = Marked(j)
  BY <1>6 DEF UserSessions!SharedBut
<1>9. ASSUME NEW j \in Tabs
      PROVE  LET m == Marked(j)  y == page[j] IN
             /\ m \in PageRow /\ m.open = y.open /\ m.shared
             /\ m.access = y.access /\ m.user = y.user /\ m.timer = y.timer
  <2>1. PICK y \in PageRow : y = page[j]
    BY <1>4 DEF SessionTypes
  <2> DEFINE m == [y EXCEPT !.shared = TRUE]
  <2>2. m \in PageRow /\ m.open = y.open /\ m.shared = TRUE /\ m.access = y.access
    BY DEF PageRow
  <2>3. m.user = y.user /\ m.timer = y.timer
    BY DEF PageRow
  <2> HIDE DEF m
  <2> QED BY <2>1, <2>2, <2>3 DEF m
<1> HIDE DEF Marked
<1>10. /\ page' \in [Tabs -> PageRow] /\ \A j \in Tabs : page'[j].open = page[j].open
  <2>1. \A j \in Tabs : page'[j] \in PageRow /\ page'[j].open = page[j].open
    BY <1>5, <1>7, <1>8, <1>9
  <2>2. page' = [j \in Tabs |-> page'[j]]
    BY <1>6 DEF UserSessions!SharedBut
  <2> QED BY <2>1, <2>2
<1>11. x.child \in 1..Len(tokens) /\ tokens[x.child].who = x.who
  <2>1. x.child \in Nat /\ x.child <= Len(tokens)
    BY <1>1 DEF OwnTokens, RequestRow
  <2>2. x.child # 0
    BY <1>1, <1>2 DEF GoodRequest
  <2> QED BY <1>1, <1>4, <2>1, <2>2 DEF OwnTokens
<1>12. Families' /\ Grown
  BY <1>6, TokensStay
<1>13. GoodRequests' /\ request' \in [Calls -> RequestRow]
  <2>1. LET q == UserSessions!NoRequest IN
        /\ q \in RequestRow /\ GoodRequest(q) /\ OwnTokens(q, tokens') /\ Awaited(q)'
    BY <1>6, NoRequestGood, FirstRows DEF Awaited
  <2> QED BY <1>4, <1>6, <1>10, <1>12, <2>1, RequestMoves
<1>14. SessionTypes'
  BY <1>4, <1>6, <1>10, <1>11, <1>13 DEF SessionTypes
<1>15. ASSUME ~sh PROVE Agreed(k)'
  <2>1. \A s \in Calls : Refreshing(request[s]) => tokens[request[s].token].who = x.who
    BY <1>15 DEF UserSessions!OthersRefresh, Refreshing
  <2>2. \A s \in Calls : Refreshing(request'[s]) => tokens[request'[s].token].who = x.who
    BY <1>4, <1>6, <2>1, FirstRows DEF SessionTypes, Refreshing
  <2>3. AgreesOn(x.who)'
    BY <1>6, <1>11, <2>2 DEF AgreesOn, Owner
  <2> QED BY <1>7, <1>8, <2>3 DEF Agreed, RequestRow
<1>16. ASSUME NEW j \in Tabs PROVE GoodPage(j)'
  <2>1. CASE j = k
    <3>1. x.tab \in Tabs /\ page[x.tab].open
      BY <1>1, <1>2, <1>3 DEF Awaited
    <3> QED BY <1>3, <1>5, <1>7, <1>8, <1>15, <2>1, <3>1 DEF GoodPage
  <2>2. CASE j # k
    BY <1>8, <1>9, <2>2 DEF SessionInv, GoodPage, ShowsNobody
  <2> QED BY <2>1, <2>2
<1> QED BY <1>12, <1>13, <1>14, <1>16 DEF SessionInv

\* A page that gives up loses its person.
LEMMA GivesUp ==
  ASSUME SessionInv, NEW k \in Tabs,
         \/ UserSessions!SetPage(k, UserSessions!AfterLogout(page[k]))
         \/ UserSessions!SetPage(k, UserSessions!SignedOut(page[k]))
  PROVE  PagesLose
<1>1. SessionTypes
  BY DEF SessionInv
<1>2. PICK o \in PageRow : o = page[k]
  BY <1>1 DEF SessionTypes
<1>3. \E s \in PageRow :
        /\ s.open = o.open /\ s.shared = o.shared /\ (s.timer => o.timer)
        /\ s.access = "nobody" /\ s.user = "nobody"
        /\ page' = [page EXCEPT ![k] = UserSessions!Settled(s)]
  BY <1>2, AfterLogoutPage, SignedOutPage DEF UserSessions!SetPage
<1>4. PICK s \in PageRow :
        /\ s.open = o.open /\ s.shared = o.shared /\ (s.timer => o.timer)
        /\ s.access = "nobody" /\ s.user = "nobody"
        /\ page' = [page EXCEPT ![k] = UserSessions!Settled(s)]
  BY <1>3
<1> DEFINE p == UserSessions!Settled(s)
<1>5. /\ p \in PageRow /\ p.open = s.open /\ p.shared = s.shared /\ p.timer = s.timer
      /\ p.access = "nobody" /\ p.user = "nobody"
  BY <1>4, SettledPage
<1>6. page' = [page EXCEPT ![k] = p]
  BY <1>4
<1> HIDE DEF p
<1>7. /\ p.open = page[k].open /\ (page[k].shared => p.shared) /\ (p.timer => page[k].timer)
      /\ p.access \in {page[k].access, "nobody"} /\ p.user \in {page[k].user, "nobody"}
  BY <1>2, <1>4, <1>5
<1> QED BY <1>1, <1>5, <1>6, <1>7, OnePageLoses

LEMMA LogoutAnsweredStep ==
  ASSUME SessionInv, NEW r \in Calls, UserSessions!LogoutAnswered(r)
  PROVE  SessionInv'
<1>1. request[r].tab \in Tabs
  BY OneRequest DEF UserSessions!LogoutAnswered, UserSessions!Answered, GoodRequest
<1>2. /\ cookie' = 0 /\ UNCHANGED <<tokens, endings, escaped, losses>>
      /\ UserSessions!SetPage(request[r].tab, UserSessions!AfterLogout(page[request[r].tab]))
      /\ request' = [request EXCEPT ![r] = UserSessions!NoRequest]
  BY DEF UserSessions!LogoutAnswered
<1>3. PagesLose
  BY <1>1, <1>2, GivesUp
<1>4. CookieStays(r) /\ cookie' \in 0..Len(tokens)
  BY <1>2, TokenCount DEF CookieStays, SessionInv
<1> QED BY <1>2, <1>3, <1>4, Over, TokensStay, OnlyCalls

LEMMA LoseStep ==
  ASSUME SessionInv, NEW r \in Calls, UserSessions!Lose(r)
  PROVE  SessionInv'
<1>1. request[r].tab \in Tabs /\ SessionTypes /\ cookie \in 0..Len(tokens)
  BY OneRequest DEF UserSessions!Lose, GoodRequest, SessionTypes
<1>2. /\ losses' = losses + 1 /\ UNCHANGED <<tokens, cookie, endings, escaped>>
      /\ request' = [request EXCEPT ![r] = UserSessions!NoRequest]
  BY DEF UserSessions!Lose
<1>3. PagesLose
  BY <1>1, GivesUp, SamePages DEF UserSessions!Lose
<1>4. MayBecome(r, UserSessions!NoRequest) /\ CookieStays(r) /\ Grown /\ Families'
  BY <1>2, Over, TokensStay DEF CookieStays
<1>5. SessionTypes'
  <2>1. request' \in [Calls -> RequestRow] /\ losses' \in Nat
    BY <1>1, <1>2, FirstRows DEF SessionTypes
  <2> QED BY <1>1, <1>2, <1>3, <2>1 DEF SessionTypes, PagesLose
<1> QED BY <1>1, <1>2, <1>3, <1>4, <1>5, OnlyCalls

\* Only a sign-in that is answered too late brings somebody in, and it marks every page.
LEMMA AnsweredTooLateStep ==
  ASSUME SessionInv, NEW r \in Calls, UserSessions!AnsweredTooLate(r)
  PROVE  SessionInv'
<1>1. PICK x \in RequestRow : x = request[r] /\ GoodRequest(x) /\ OwnTokens(x, tokens)
  BY OneRequest
<1>2. /\ x.left /\ x.pc \in {"answer", "me"} /\ UNCHANGED <<tokens, endings, escaped, losses>>
      /\ request' = [request EXCEPT ![r] = UserSessions!NoRequest]
  BY <1>1 DEF UserSessions!AnsweredTooLate
<1>3. /\ SessionTypes /\ GoodRequests /\ Grown /\ Families' /\ MayBecome(r, UserSessions!NoRequest)
      /\ cookie \in 0..Len(tokens) /\ Len(tokens) \in Nat
  BY <1>2, TokensStay, Over, TokenCount DEF SessionInv, SessionTypes
<1>4. CASE UNCHANGED <<cookie, page>>
  BY <1>2, <1>3, <1>4, SamePages, OnlyCalls DEF CookieStays
<1>5. x.child \in 0..Len(tokens)
  <2>1. x.child \in Nat /\ x.child <= Len(tokens)
    BY <1>1 DEF OwnTokens, RequestRow
  <2> QED BY <1>3, <2>1
<1>6. CASE x.kind # "login" /\ cookie' = x.child /\ UNCHANGED page
  <2>1. CookieStays(r)
    <3>1. CASE x.child = 0
      BY <1>6, <3>1 DEF CookieStays
    <3>2. CASE x.child # 0
      <4>1. x.kind = "refresh" /\ x.answer = "token"
        BY <1>1, <1>6, <3>2 DEF GoodRequest
      <4>2. Refreshing(x)
        BY <1>1, <4>1 DEF GoodRequest, Refreshing
      <4>3. tokens[x.child].who = tokens[x.token].who
        BY <1>1, <3>2, <4>1, <4>2 DEF OwnTokens, Refreshing
      <4>4. x.child \in 1..Len(tokens)
        BY <1>3, <1>5, <3>2
      <4> QED BY <1>1, <1>6, <4>2, <4>3, <4>4 DEF CookieStays, Owner
    <3> QED BY <3>1, <3>2
  <2> QED BY <1>2, <1>3, <1>5, <1>6, <2>1, SamePages, OnlyCalls
<1>7. CASE cookie' = x.child /\ page' = UserSessions!SharedBut("none")
  <2>1. ASSUME NEW j \in Tabs
        PROVE  LET m == page'[j]  y == page[j] IN
               /\ m \in PageRow /\ m.open = y.open /\ m.shared
               /\ m.access = y.access /\ m.user = y.user /\ m.timer = y.timer
    <3>1. PICK y \in PageRow : y = page[j]
      BY <1>3 DEF SessionTypes
    <3> DEFINE m == [y EXCEPT !.shared = TRUE]
    <3>2. m \in PageRow /\ m.open = y.open /\ m.shared = TRUE /\ m.access = y.access
      BY DEF PageRow
    <3>3. m.user = y.user /\ m.timer = y.timer
      BY DEF PageRow
    <3>4. page'[j] = m
      BY <1>7, <3>1, Nobodies DEF UserSessions!SharedBut
    <3> HIDE DEF m
    <3> QED BY <3>1, <3>2, <3>3, <3>4
  <2>2. page' \in [Tabs -> PageRow]
    <3>1. page' = [j \in Tabs |-> page'[j]]
      BY <1>7 DEF UserSessions!SharedBut
    <3> QED BY <2>1, <3>1
  <2>3. GoodRequests' /\ request' \in [Calls -> RequestRow]
    <3>1. LET q == UserSessions!NoRequest IN
          /\ q \in RequestRow /\ GoodRequest(q) /\ OwnTokens(q, tokens') /\ Awaited(q)'
      BY <1>2, NoRequestGood, FirstRows DEF Awaited
    <3> QED BY <1>2, <1>3, <2>1, <3>1, RequestMoves
  <2>4. SessionTypes'
    BY <1>2, <1>3, <1>5, <1>7, <2>2, <2>3 DEF SessionTypes
  <2>5. \A j \in Tabs : GoodPage(j)'
    BY <2>1 DEF SessionInv, GoodPage, ShowsNobody
  <2> QED BY <1>3, <2>3, <2>4, <2>5 DEF SessionInv
<1> QED BY <1>1, <1>4, <1>6, <1>7 DEF UserSessions!AnsweredTooLate

LEMMA SessionInvStep == SessionInv /\ [UserSessions!Next]_userVars => SessionInv'
<1> SUFFICES ASSUME SessionInv, [UserSessions!Next]_userVars PROVE SessionInv'
  OBVIOUS
<1>1. CASE UNCHANGED userVars
  BY <1>1 DEF userVars, SessionInv, SessionTypes, Families, Owner, GoodRequests, Awaited, GoodPage,
              ShowsNobody, Agreed, Blank, AgreesOn
<1>2. ASSUME NEW r \in Calls, NEW k \in Tabs, UserSessions!Page(r, k) PROVE SessionInv'
  BY <1>2, OpenPageStep, TimerStep, SignStep, Nobodies DEF UserSessions!Page, Persons
<1>3. ASSUME NEW r \in Calls, UserSessions!Handler(r) PROVE SessionInv'
  BY <1>3, ReadTokenStep, EndFamilyStep, CreateTokenStep, RevokeOldStep, EndSessionStep
     DEF UserSessions!Handler
<1>4. ASSUME NEW r \in Calls, UserSessions!Browser(r) PROVE SessionInv'
  BY <1>4, RefreshAnsweredStep, MeAnsweredStep, LoginAnsweredStep, LogoutAnsweredStep,
     AnsweredTooLateStep, LoseStep DEF UserSessions!Browser
<1> QED BY <1>1, <1>2, <1>3, <1>4, UnloadStep DEF UserSessions!Next

LEMMA SessionFocus == PortalSpec => [](focus = "sessions" => SessionInv)
<1>1. PortalInit => (focus = "sessions" => SessionInv)
  BY SessionInvInit DEF PortalInit
<1>2. (focus = "sessions" => SessionInv) /\ [PortalNext]_allVars => (focus = "sessions" => SessionInv)'
  BY SessionInvStep, FocusStep
<1> QED BY <1>1, <1>2, PTL DEF PortalSpec, allVars

\* What the invariant says of the sessions
LEMMA SessionsAreKept == SessionInv => UserSessions!SessionsKept
<1> SUFFICES ASSUME SessionInv PROVE UserSessions!SessionsKept
  OBVIOUS
<1>1. UserSessions!EndedIsOver
  BY TokenCount DEF SessionInv, Families, UserSessions!EndedIsOver, UserSessions!Made,
                    UserSessions!Live, UserSessions!FamilyOf
<1>2. ASSUME NEW k \in Tabs, page[k].access # "nobody", page[k].user # "nobody", ~page[k].shared
      PROVE  page[k].access = page[k].user
  BY <1>2 DEF SessionInv, GoodPage, Agreed, Blank, ShowsNobody
<1> QED BY <1>1, <1>2 DEF UserSessions!SessionsKept, UserSessions!SamePerson, UserSessions!Nobody
-----------------------------------------------------------------------------
(* The support desk: the inductive invariant *)

DeskRow == [pc : {"idle", "list", "get", "answer", "act", "acted"},
            for : {"none", "update", "select", "reply", "close"},
            case : Turns \cup {"none"}, upTo : 0..MaxChanges, dropped : BOOLEAN]
ShownRow == [case : Turns \cup {"none"}, upTo : 0..MaxChanges]

DeskTypes ==
  /\ stored \in [Turns -> 0..MaxChanges] /\ selected \in Turns \cup {"none"}
  /\ shown \in ShownRow /\ deskStream \in {selected, "none"} /\ fetch \in [Calls -> DeskRow]
  /\ due \in 0..MaxChanges /\ strayed \in BOOLEAN /\ passed \in BOOLEAN

\* What a fetch is of, at each place of its way
GoodFetch(q) ==
  /\ q.dropped => q.for = "select"
  /\ q.pc = "list" => q.for = "update"
  /\ q.pc \in {"get", "answer"} => q.for \in {"update", "select"}
  /\ q.for = "select" => q.pc \in {"get", "answer"}
  /\ q.for = "select" /\ ~q.dropped => q.case = selected
  /\ q.pc \in {"get", "answer", "act", "acted"} => q.case \in Turns
  /\ q.pc \in {"answer", "acted"} => q.upTo <= stored[q.case]
  /\ q.pc # "idle" => selected # "none"

\* A fetch that will show the selected case as far as was told
Brings(q) ==
  \/ q.pc = "list"
  \/ q.pc = "get" /\ q.case = selected /\ ~q.dropped
  \/ q.pc = "answer" /\ q.case = selected /\ ~q.dropped /\ q.upTo >= due

Selects(q) == q.for = "select" /\ ~q.dropped

Told ==
  /\ shown.case # "none" => selected # "none"
  /\ due > 0 => selected \in Turns /\ due <= stored[selected]

\* What was told is shown or on its way.
Coming ==
  due > 0 /\ ~passed /\ ~strayed
    => (shown.case = selected /\ shown.upTo >= due) \/ \E k \in Calls : Brings(fetch[k])

\* While another case is shown, the selected one is on its way.
Choosing ==
  shown.case \notin {"none", selected} => strayed \/ \E k \in Calls : Selects(fetch[k])

DeskInv ==
  DeskTypes /\ (\A k \in Calls : GoodFetch(fetch[k])) /\ Told /\ Coming /\ Choosing

LEMMA DeskNumbers == MaxChanges \in Nat /\ "none" \notin Turns
BY PortalAssumption DEF PortalAssumption

LEMMA DeskRows ==
  /\ Desk!NoFetch \in DeskRow /\ Desk!NoFetch.pc = "idle" /\ Desk!NoFetch.for = "none"
  /\ Desk!NoFetch.case = "none" /\ ~Desk!NoFetch.dropped
  /\ Desk!Update \in DeskRow /\ Desk!Update.pc = "list" /\ Desk!Update.for = "update"
  /\ Desk!Update.case = "none" /\ ~Desk!Update.dropped
  /\ Desk!NoTicket \in ShownRow /\ Desk!NoTicket.case = "none"
<1>1. 0 \in 0..MaxChanges
  BY DeskNumbers
<1>2. /\ Desk!NoFetch \in DeskRow /\ Desk!NoFetch.pc = "idle" /\ Desk!NoFetch.for = "none"
      /\ Desk!NoFetch.case = "none" /\ Desk!NoFetch.dropped = FALSE
  BY <1>1 DEF Desk!NoFetch, DeskRow
<1>3. /\ Desk!Update \in DeskRow /\ Desk!Update.pc = "list" /\ Desk!Update.for = "update"
      /\ Desk!Update.case = "none" /\ Desk!Update.dropped = FALSE
  BY <1>2 DEF Desk!Update, DeskRow
<1>4. Desk!NoTicket \in ShownRow /\ Desk!NoTicket.case = "none"
  BY <1>1 DEF Desk!NoTicket, ShownRow
<1> QED BY <1>2, <1>3, <1>4

LEMMA DeskInvInit == Desk!Init => DeskInv
<1> SUFFICES ASSUME Desk!Init PROVE DeskInv
  OBVIOUS
<1>1. /\ stored = [c \in Turns |-> 0] /\ selected = "none" /\ shown = Desk!NoTicket
      /\ deskStream = "none" /\ due = 0 /\ strayed = FALSE /\ passed = FALSE
      /\ \A k \in Calls : fetch[k] = Desk!NoFetch
      /\ fetch \in [Calls -> DeskRow]
  BY DeskRows DEF Desk!Init
<1>2. DeskTypes
  <2>1. 0 \in 0..MaxChanges
    BY DeskNumbers
  <2>2. stored \in [Turns -> 0..MaxChanges] /\ shown \in ShownRow
    BY <1>1, <2>1, DeskRows
  <2> QED BY <1>1, <2>1, <2>2 DEF DeskTypes
<1>3. \A k \in Calls : GoodFetch(fetch[k])
  BY <1>1, DeskRows, DeskNumbers DEF GoodFetch
<1> QED BY <1>1, <1>2, <1>3, DeskRows DEF DeskInv, Told, Coming, Choosing

\* A fetch goes on as it should, with the case it is of.
StepsOn(s) ==
  \/ fetch'[s] = fetch[s]
  \/ /\ GoodFetch(fetch[s])' /\ (Brings(fetch[s]) => Brings(fetch[s])')
     /\ (Selects(fetch[s]) => Selects(fetch[s])')

\* Everything that leaves what is shown as it is
LEMMA DeskMoves ==
  ASSUME DeskInv, fetch' \in [Calls -> DeskRow], \A s \in Calls : StepsOn(s),
         UNCHANGED <<selected, shown, strayed, passed>>, deskStream' \in {selected, "none"},
         stored' \in [Turns -> 0..MaxChanges], \A c \in Turns : stored[c] <= stored'[c],
         due' \in 0..MaxChanges, due' > 0 => selected \in Turns /\ due' <= stored'[selected],
         due' = due \/ \E s \in Calls : fetch'[s].pc = "list"
  PROVE  DeskInv'
<1>1. DeskTypes /\ DeskTypes'
  BY DEF DeskInv, DeskTypes
<1>2. ASSUME NEW s \in Calls PROVE GoodFetch(fetch[s])'
  <2>1. CASE fetch'[s] = fetch[s]
    <3>1. GoodFetch(fetch[s])
      BY DEF DeskInv
    <3>2. fetch[s].pc \in {"answer", "acted"} => fetch[s].upTo <= stored'[fetch[s].case]
      <4>1. fetch[s].upTo \in Nat
        BY <1>1, DeskNumbers DEF DeskTypes, DeskRow
      <4>2. \A c \in Turns : stored[c] \in Nat /\ stored'[c] \in Nat
        BY <1>1, DeskNumbers DEF DeskTypes
      <4> QED BY <3>1, <4>1, <4>2 DEF GoodFetch
    <3> QED BY <2>1, <3>1, <3>2 DEF GoodFetch
  <2> QED BY <2>1 DEF StepsOn
<1>3. Told'
  BY DEF DeskInv, Told
<1>4. Coming'
  <2>1. ASSUME due' = due, NEW s \in Calls, Brings(fetch[s]) PROVE Brings(fetch[s])'
    BY <2>1 DEF StepsOn, Brings
  <2>2. ASSUME NEW s \in Calls, fetch'[s].pc = "list" PROVE Brings(fetch[s])'
    BY <2>2 DEF Brings
  <2> QED BY <2>1, <2>2 DEF DeskInv, Coming
<1>5. Choosing'
  <2>1. ASSUME NEW s \in Calls, Selects(fetch[s]) PROVE Selects(fetch[s])'
    BY <2>1 DEF StepsOn, Selects
  <2> QED BY <2>1 DEF DeskInv, Choosing
<1> QED BY <1>1, <1>2, <1>3, <1>4, <1>5 DEF DeskInv

\* One fetch moves.
LEMMA OneFetch ==
  ASSUME DeskTypes, NEW k \in Calls, NEW q \in DeskRow, fetch' = [fetch EXCEPT ![k] = q],
         GoodFetch(q)', Brings(fetch[k]) => Brings(q)', Selects(fetch[k]) => Selects(q)
  PROVE  fetch' \in [Calls -> DeskRow] /\ (\A s \in Calls : StepsOn(s)) /\ fetch'[k] = q
<1>1. fetch' \in [Calls -> DeskRow] /\ fetch'[k] = q /\ \A s \in Calls \ {k} : fetch'[s] = fetch[s]
  BY DEF DeskTypes
<1>2. StepsOn(k)
  BY <1>1 DEF StepsOn, GoodFetch, Brings, Selects
<1> QED BY <1>1, <1>2 DEF StepsOn
-----------------------------------------------------------------------------
(* The support desk: the steps *)

LEMMA OneDeskFetch ==
  ASSUME DeskInv, NEW k \in Calls
  PROVE  \E x \in DeskRow : x = fetch[k] /\ GoodFetch(x)
BY DEF DeskInv, DeskTypes

\* An event, or an action of the page itself, leads to a new list.
LEMMA Asked ==
  ASSUME DeskInv, NEW k \in Calls, Desk!Ask(k, Desk!Update), selected' = selected, selected # "none"
  PROVE  /\ fetch' \in [Calls -> DeskRow] /\ (\A s \in Calls : StepsOn(s))
         /\ \E s \in Calls : fetch'[s].pc = "list"
<1>1. PICK x \in DeskRow : x = fetch[k] /\ GoodFetch(x)
  BY OneDeskFetch
<1>2. x.pc = "idle" /\ fetch' = [fetch EXCEPT ![k] = Desk!Update] /\ DeskTypes
  BY <1>1 DEF Desk!Ask, DeskInv
<1>3. GoodFetch(Desk!Update)'
  BY DeskRows, DeskNumbers DEF GoodFetch
<1>4. ~Brings(x) /\ ~Selects(x)
  BY <1>1, <1>2 DEF Brings, Selects, GoodFetch
<1>5. /\ fetch' \in [Calls -> DeskRow] /\ (\A s \in Calls : StepsOn(s))
      /\ fetch'[k] = Desk!Update
  BY <1>1, <1>2, <1>3, <1>4, DeskRows, OneFetch
<1> QED BY <1>5, DeskRows

\* Only one fetch goes on.
LEMMA OnlyFetch ==
  ASSUME DeskInv, NEW k \in Calls, NEW q \in DeskRow, fetch' = [fetch EXCEPT ![k] = q],
         UNCHANGED <<stored, selected, shown, deskStream, due, strayed, passed>>,
         GoodFetch(q), Brings(fetch[k]) => Brings(q), Selects(fetch[k]) => Selects(q)
  PROVE  DeskInv'
<1>1. DeskTypes /\ Told
  BY DEF DeskInv
<1>2. GoodFetch(q)' /\ (Brings(fetch[k]) => Brings(q)')
  BY DEF GoodFetch, Brings
<1>3. fetch' \in [Calls -> DeskRow] /\ \A s \in Calls : StepsOn(s)
  BY <1>1, <1>2, OneFetch
<1>4. \A c \in Turns : stored[c] <= stored[c]
  BY <1>1, DeskNumbers DEF DeskTypes
<1> QED BY <1>1, <1>3, <1>4, DeskMoves DEF DeskTypes, Told

LEMMA ListAnsweredStep ==
  ASSUME DeskInv, NEW k \in Calls, Desk!ListAnswered(k)
  PROVE  DeskInv'
<1>1. PICK x \in DeskRow : x = fetch[k] /\ GoodFetch(x)
  BY OneDeskFetch
<1> DEFINE q == [x EXCEPT !.pc = "get", !.case = selected]
<1>2. /\ x.pc = "list" /\ fetch' = [fetch EXCEPT ![k] = q]
      /\ UNCHANGED <<stored, selected, shown, deskStream, due, strayed, passed>>
  BY <1>1 DEF Desk!ListAnswered
<1>3. q \in DeskRow /\ q.pc = "get" /\ q.case = selected /\ q.for = x.for /\ q.dropped = x.dropped
  BY DEF DeskRow, DeskInv, DeskTypes
<1> HIDE DEF q
<1>4. x.for = "update" /\ ~x.dropped /\ selected \in Turns /\ selected # "none"
  BY <1>1, <1>2 DEF GoodFetch, DeskInv, DeskTypes
<1>5. GoodFetch(q) /\ Brings(q) /\ ~Selects(x)
  BY <1>1, <1>3, <1>4 DEF GoodFetch, Brings, Selects
<1> QED BY <1>1, <1>2, <1>3, <1>5, OnlyFetch

LEMMA ReadCaseStep ==
  ASSUME DeskInv, NEW k \in Calls, Desk!ReadCase(k)
  PROVE  DeskInv'
<1>1. PICK x \in DeskRow : x = fetch[k] /\ GoodFetch(x)
  BY OneDeskFetch
<1> DEFINE q == [x EXCEPT !.pc = "answer", !.upTo = stored[x.case]]
<1>2. /\ x.pc = "get" /\ fetch' = [fetch EXCEPT ![k] = q]
      /\ UNCHANGED <<stored, selected, shown, deskStream, due, strayed, passed>>
  BY <1>1 DEF Desk!ReadCase
<1>3. x.case \in Turns /\ stored[x.case] \in 0..MaxChanges
  BY <1>1, <1>2 DEF GoodFetch, DeskInv, DeskTypes
<1>4. /\ q \in DeskRow /\ q.pc = "answer" /\ q.case = x.case /\ q.for = x.for
      /\ q.dropped = x.dropped /\ q.upTo = stored[x.case]
  BY <1>3 DEF DeskRow
<1> HIDE DEF q
<1>5. stored[x.case] \in Nat /\ due \in Nat
  BY <1>3, DeskNumbers DEF DeskInv, DeskTypes
<1>6. GoodFetch(q)
  BY <1>1, <1>2, <1>3, <1>4, <1>5 DEF GoodFetch
<1>7. Brings(x) => Brings(q)
  <2>1. x.case = selected => stored[x.case] >= due
    BY <1>5 DEF DeskInv, Told
  <2> QED BY <1>2, <1>4, <2>1 DEF Brings
<1>8. Selects(x) => Selects(q)
  BY <1>4 DEF Selects
<1> QED BY <1>1, <1>2, <1>4, <1>6, <1>7, <1>8, OnlyFetch

\* An answer that is taken shows its case; what it hides was older or another's.
LEMMA CaseAnsweredStep ==
  ASSUME DeskInv, NEW k \in Calls, Desk!CaseAnswered(k)
  PROVE  DeskInv'
<1>1. PICK x \in DeskRow : x = fetch[k] /\ GoodFetch(x)
  BY OneDeskFetch
<1>2. /\ x.pc = "answer" /\ fetch' = [fetch EXCEPT ![k] = Desk!NoFetch]
      /\ UNCHANGED <<stored, selected, due>> /\ DeskTypes
  BY <1>1 DEF Desk!CaseAnswered, DeskInv
<1>3. GoodFetch(Desk!NoFetch)'
  BY DeskRows DEF GoodFetch
<1>4. fetch' \in [Calls -> DeskRow] /\ \A s \in Calls \ {k} : fetch'[s] = fetch[s]
  BY <1>2, DeskRows DEF DeskTypes
<1>5. \A s \in Calls : GoodFetch(fetch[s])'
  <2>1. \A s \in Calls \ {k} : GoodFetch(fetch[s])'
    BY <1>2, <1>4 DEF DeskInv, GoodFetch
  <2>2. fetch'[k] = Desk!NoFetch
    BY <1>2 DEF DeskTypes
  <2> QED BY <1>3, <2>1, <2>2 DEF GoodFetch
<1>6. x.case \in Turns /\ x.upTo \in 0..MaxChanges /\ x.upTo \in Nat /\ due \in Nat
  BY <1>1, <1>2, DeskNumbers DEF GoodFetch, DeskRow, DeskTypes
<1>7. ASSUME NEW s \in Calls \ {k} PROVE (Brings(fetch[s]) => Brings(fetch[s])') /\ (Selects(fetch[s]) => Selects(fetch[s])')
  BY <1>2, <1>4 DEF Brings, Selects
<1>8. CASE x.dropped
  <2>1. UNCHANGED <<shown, deskStream, strayed, passed>>
    BY <1>1, <1>8 DEF Desk!CaseAnswered, Desk!Taken
  <2>2. ~Brings(x) /\ ~Selects(x)
    BY <1>2, <1>8 DEF Brings, Selects
  <2>3. Coming' /\ Choosing'
    BY <1>1, <1>2, <1>7, <2>1, <2>2 DEF DeskInv, Coming, Choosing
  <2>4. DeskTypes' /\ Told'
    BY <1>2, <1>4, <2>1 DEF DeskTypes, DeskInv, Told
  <2> QED BY <1>5, <2>3, <2>4 DEF DeskInv
<1>9. CASE ~x.dropped
  <2> DEFINE t == [case |-> x.case, upTo |-> x.upTo]
  <2>1. /\ shown' = t
        /\ deskStream' = IF t.case = "none" THEN "none" ELSE IF shown.case = "none" THEN selected ELSE deskStream
        /\ strayed' = (strayed \/ (x.for = "update" /\ x.case # selected))
        /\ passed' = (passed \/ (shown.case = x.case /\ x.upTo < shown.upTo))
    BY <1>1, <1>9 DEF Desk!CaseAnswered, Desk!Taken, Desk!Show
  <2>2. t \in ShownRow /\ t.case = x.case /\ t.upTo = x.upTo
    BY <1>6 DEF ShownRow
  <2> HIDE DEF t
  <2>3. selected # "none" /\ x.for \in {"update", "select"} /\ (x.for = "select" => x.case = selected)
    BY <1>1, <1>2, <1>9 DEF GoodFetch
  <2>4. strayed' \in BOOLEAN /\ passed' \in BOOLEAN
    BY <2>1
  <2>5. DeskTypes'
    BY <1>2, <1>4, <2>1, <2>2, <2>4 DEF DeskTypes
  <2>6. Told'
    BY <1>2, <2>3 DEF DeskInv, Told
  <2>7. Choosing'
    BY <1>2, <2>1, <2>2, <2>3 DEF Choosing
  <2>8. ASSUME due > 0, ~passed', ~strayed'
        PROVE  (t.case = selected /\ t.upTo >= due) \/ \E s \in Calls : Brings(fetch[s])'
    <3>1. ~passed /\ ~strayed /\ x.case = selected
      BY <2>1, <2>3, <2>8
    <3>2. CASE shown.case = selected /\ shown.upTo >= due
      <4>1. ~(x.upTo < shown.upTo)
        BY <2>1, <2>8, <3>1, <3>2
      <4>2. shown.upTo \in Nat
        BY <1>2, DeskNumbers DEF DeskTypes, ShownRow
      <4>3. x.upTo >= due
        BY <1>6, <3>2, <4>1, <4>2
      <4> QED BY <2>2, <3>1, <4>3
    <3>3. CASE \E s \in Calls : Brings(fetch[s])
      <4>1. PICK s \in Calls : Brings(fetch[s])
        BY <3>3
      <4>2. CASE s = k
        BY <1>1, <1>2, <2>2, <3>1, <4>1, <4>2 DEF Brings
      <4>3. CASE s # k
        BY <1>7, <4>1, <4>3
      <4> QED BY <4>2, <4>3
    <3> QED BY <2>8, <3>1, <3>2, <3>3 DEF DeskInv, Coming
  <2>9. Coming'
    BY <1>2, <2>1, <2>8 DEF Coming
  <2> QED BY <1>5, <2>5, <2>6, <2>7, <2>9 DEF DeskInv
<1> QED BY <1>8, <1>9

\* A fetch that fails hides the case, and takes what was told with it.
LEMMA FetchFailsStep ==
  ASSUME DeskInv, NEW k \in Calls, Desk!FetchFails(k)
  PROVE  DeskInv'
<1>1. PICK x \in DeskRow : x = fetch[k] /\ GoodFetch(x)
  BY OneDeskFetch
<1>2. /\ fetch' = [fetch EXCEPT ![k] = Desk!NoFetch] /\ x.pc \in {"get", "answer"}
      /\ UNCHANGED <<stored, selected, strayed, passed>> /\ DeskTypes
  BY <1>1 DEF Desk!FetchFails, DeskInv
<1>3. /\ fetch' \in [Calls -> DeskRow] /\ fetch'[k] = Desk!NoFetch
      /\ \A s \in Calls \ {k} : fetch'[s] = fetch[s]
  BY <1>2, DeskRows DEF DeskTypes
<1>4. \A s \in Calls : GoodFetch(fetch[s])'
  <2>1. \A s \in Calls \ {k} : GoodFetch(fetch[s])'
    BY <1>2, <1>3 DEF DeskInv, GoodFetch
  <2>2. GoodFetch(fetch[k])'
    BY <1>3, DeskRows DEF GoodFetch
  <2> QED BY <2>1, <2>2
<1>5. CASE ~x.dropped
  <2>1. shown' = Desk!NoTicket /\ deskStream' = "none" /\ due' = 0
    BY <1>1, <1>5, DeskRows DEF Desk!FetchFails, Desk!Taken, Desk!Show
  <2>2. due' \in 0..MaxChanges /\ ~(due' > 0)
    BY <2>1, DeskNumbers
  <2>3. DeskTypes'
    BY <1>2, <1>3, <2>1, <2>2, DeskRows DEF DeskTypes
  <2> QED BY <1>2, <1>4, <2>1, <2>2, <2>3, DeskRows DEF DeskInv, Told, Coming, Choosing
<1>6. CASE x.dropped
  <2>1. UNCHANGED <<shown, deskStream, due>>
    BY <1>1, <1>6 DEF Desk!FetchFails, Desk!Taken
  <2>2. ~Brings(x) /\ ~Selects(x)
    BY <1>2, <1>6 DEF Brings, Selects
  <2>3. \A s \in Calls \ {k} : /\ Brings(fetch[s]) => Brings(fetch[s])'
                               /\ Selects(fetch[s]) => Selects(fetch[s])'
    BY <1>2, <1>3, <2>1 DEF Brings, Selects
  <2>4. Coming' /\ Choosing'
    BY <1>1, <1>2, <2>1, <2>2, <2>3 DEF DeskInv, Coming, Choosing
  <2>5. DeskTypes' /\ Told'
    BY <1>2, <1>3, <2>1 DEF DeskTypes, DeskInv, Told
  <2> QED BY <1>4, <2>4, <2>5 DEF DeskInv
<1> QED BY <1>5, <1>6

\* A selection begins anew: its own fetch is the one that counts.
LEMMA SelectStep ==
  ASSUME DeskInv, NEW k \in Calls, NEW c \in Turns, Desk!Select(k, c)
  PROVE  DeskInv'
<1> DEFINE first == [Desk!NoFetch EXCEPT !.pc = "get", !.for = "select", !.case = c]
           Dropped(j) == [fetch[j] EXCEPT !.dropped = TRUE]
<1>1. /\ selected' = c /\ due' = 0 /\ strayed' = FALSE /\ passed' = FALSE
      /\ UNCHANGED <<stored, shown>> /\ deskStream' \in {c, "none"} /\ DeskTypes
      /\ fetch' = [j \in Calls |-> IF j = k THEN first
                     ELSE IF fetch[j].for = "select" THEN Dropped(j) ELSE fetch[j]]
  BY DEF Desk!Select, DeskInv
<1>2. /\ first \in DeskRow /\ first.pc = "get" /\ first.for = "select" /\ first.case = c
      /\ first.dropped = FALSE
  BY DeskRows DEF DeskRow
<1> HIDE DEF first
<1>3. ASSUME NEW j \in Calls
      PROVE  LET d == Dropped(j)  x == fetch[j] IN
             /\ d \in DeskRow /\ d.pc = x.pc /\ d.for = x.for /\ d.case = x.case /\ d.upTo = x.upTo
             /\ d.dropped = TRUE
  <2>1. PICK x \in DeskRow : x = fetch[j]
    BY OneDeskFetch
  <2> DEFINE d == [x EXCEPT !.dropped = TRUE]
  <2>2. d \in DeskRow /\ d.pc = x.pc /\ d.for = x.for
    BY DEF DeskRow
  <2>3. d.case = x.case /\ d.upTo = x.upTo /\ d.dropped = TRUE
    BY DEF DeskRow
  <2> HIDE DEF d
  <2> QED BY <2>1, <2>2, <2>3 DEF d
<1> HIDE DEF Dropped
<1>4. ASSUME NEW j \in Calls
      PROVE  fetch'[j] \in DeskRow /\ GoodFetch(fetch[j])'
  <2>1. fetch[j] \in DeskRow /\ GoodFetch(fetch[j])
    BY DEF DeskInv, DeskTypes
  <2>2. CASE j = k
    BY <1>1, <1>2, <2>2, DeskNumbers DEF GoodFetch
  <2>3. CASE j # k /\ fetch[j].for = "select"
    <3>1. fetch'[j] = Dropped(j)
      BY <1>1, <2>3
    <3> QED BY <1>1, <1>3, <2>1, <2>3, <3>1, DeskNumbers DEF GoodFetch
  <2>4. CASE j # k /\ fetch[j].for # "select"
    <3>1. fetch'[j] = fetch[j]
      BY <1>1, <2>4
    <3> QED BY <1>1, <2>1, <2>4, <3>1, DeskNumbers DEF GoodFetch
  <2> QED BY <2>2, <2>3, <2>4
<1>5. due' \in 0..MaxChanges /\ ~(due' > 0)
  BY <1>1, DeskNumbers
<1>6. DeskTypes'
  <2>1. fetch' \in [Calls -> DeskRow]
    BY <1>1, <1>4
  <2> QED BY <1>1, <1>5, <2>1 DEF DeskTypes
<1>7. Choosing'
  <2>1. Selects(fetch[k])'
    BY <1>1, <1>2 DEF Selects
  <2> QED BY <2>1 DEF Choosing
<1> QED BY <1>1, <1>4, <1>5, <1>6, <1>7, DeskNumbers DEF DeskInv, Told, Coming
-----------------------------------------------------------------------------
(* The support desk: what happens to a case *)

LEMMA Storing ==
  ASSUME DeskTypes, NEW c \in Turns, Desk!Store(c) \/ UNCHANGED stored
  PROVE  /\ stored' \in [Turns -> 0..MaxChanges] /\ \A d \in Turns : stored[d] <= stored'[d]
         /\ stored'[c] \in 0..MaxChanges
<1>1. stored \in [Turns -> 0..MaxChanges] /\ MaxChanges \in Nat
  BY DeskNumbers DEF DeskTypes
<1>2. CASE Desk!Store(c)
  <2>1. stored[c] < MaxChanges /\ stored' = [stored EXCEPT ![c] = stored[c] + 1] /\ stored[c] \in Nat
    BY <1>1, <1>2 DEF Desk!Store
  <2>2. stored[c] + 1 \in 0..MaxChanges
    BY <1>1, <2>1
  <2>3. stored' \in [Turns -> 0..MaxChanges]
    BY <1>1, <2>1, <2>2
  <2>4. ASSUME NEW d \in Turns PROVE stored[d] <= stored'[d]
    BY <1>1, <2>1
  <2> QED BY <2>3, <2>4
<1>3. CASE UNCHANGED stored
  BY <1>1, <1>3
<1> QED BY <1>2, <1>3

\* Whatever is written, what was told of the selected case stays told.
LEMMA StillTold ==
  ASSUME DeskInv, stored' \in [Turns -> 0..MaxChanges], \A d \in Turns : stored[d] <= stored'[d]
  PROVE  due \in 0..MaxChanges /\ (due > 0 => selected \in Turns /\ due <= stored'[selected])
<1>1. due \in 0..MaxChanges /\ due \in Nat
  BY DeskNumbers DEF DeskInv, DeskTypes
<1>2. ASSUME due > 0 PROVE selected \in Turns /\ due <= stored'[selected]
  <2>1. selected \in Turns /\ due <= stored[selected]
    BY <1>2 DEF DeskInv, Told
  <2>2. stored[selected] \in Nat /\ stored'[selected] \in Nat
    BY <2>1, DeskNumbers DEF DeskInv, DeskTypes
  <2> QED BY <1>1, <2>1, <2>2
<1> QED BY <1>1, <1>2

LEMMA HappenedStep ==
  ASSUME DeskInv, NEW c \in Turns,
         \/ Desk!ConsumerWrites(c) \/ Desk!AgentStreams(c) \/ Desk!AgentStores(c)
         \/ Desk!Escalated(c) \/ Desk!ColleagueReplies(c)
  PROVE  DeskInv'
<1>1. /\ UNCHANGED <<selected, shown, deskStream, strayed, passed>> /\ DeskTypes
      /\ Desk!Store(c) \/ UNCHANGED stored
      /\ \/ UNCHANGED <<fetch, due>>
         \/ \E event \in {"message", "done", "escalation"} : Desk!Push(c, event)
  BY DEF Desk!ConsumerWrites, Desk!AgentStreams, Desk!AgentStores, Desk!Escalated,
         Desk!ColleagueReplies, Desk!Happened, DeskInv
<1>2. /\ stored' \in [Turns -> 0..MaxChanges] /\ \A d \in Turns : stored[d] <= stored'[d]
      /\ stored'[c] \in 0..MaxChanges
  BY <1>1, Storing
<1>3. due \in 0..MaxChanges /\ (due > 0 => selected \in Turns /\ due <= stored'[selected])
  BY <1>2, StillTold
<1>4. deskStream' \in {selected, "none"}
  BY <1>1 DEF DeskTypes
<1>5. CASE UNCHANGED <<fetch, due>>
  <2>1. fetch' \in [Calls -> DeskRow] /\ \A s \in Calls : StepsOn(s)
    BY <1>1, <1>5 DEF DeskTypes, StepsOn
  <2> QED BY <1>1, <1>2, <1>3, <1>4, <1>5, <2>1, DeskMoves
<1>6. CASE /\ deskStream = c /\ due' = stored'[c]
           /\ \E k \in Calls : Desk!Ask(k, Desk!Update)
  <2>1. selected = c /\ selected # "none"
    BY <1>1, <1>6, DeskNumbers DEF DeskTypes
  <2>2. /\ fetch' \in [Calls -> DeskRow] /\ (\A s \in Calls : StepsOn(s))
        /\ \E s \in Calls : fetch'[s].pc = "list"
    BY <1>1, <1>6, <2>1, Asked
  <2>3. due' \in 0..MaxChanges /\ due' <= stored'[selected]
    BY <1>2, <1>6, <2>1, DeskNumbers
  <2> QED BY <1>1, <1>2, <1>4, <2>1, <2>2, <2>3, DeskMoves
<1> QED BY <1>1, <1>5, <1>6 DEF Desk!Push, Desk!Heard

LEMMA StreamFailsStep ==
  ASSUME DeskInv, Desk!StreamFails
  PROVE  DeskInv'
<1>1. /\ UNCHANGED <<stored, selected, shown, fetch, due, strayed, passed>> /\ deskStream' = "none"
      /\ DeskTypes
  BY DEF Desk!StreamFails, DeskInv
<1>2. \A d \in Turns : stored[d] <= stored'[d]
  BY <1>1, DeskNumbers DEF DeskTypes
<1>3. fetch' \in [Calls -> DeskRow] /\ \A s \in Calls : StepsOn(s)
  BY <1>1 DEF DeskTypes, StepsOn
<1>4. due \in 0..MaxChanges /\ (due > 0 => selected \in Turns /\ due <= stored'[selected])
  BY <1>1, <1>2, StillTold DEF DeskTypes
<1> QED BY <1>1, <1>2, <1>3, <1>4, DeskMoves DEF DeskTypes

LEMMA ActStep ==
  ASSUME DeskInv, NEW k \in Calls, Desk!Act(k, "reply") \/ Desk!Act(k, "close")
  PROVE  DeskInv'
<1>1. PICK x \in DeskRow : x = fetch[k] /\ GoodFetch(x)
  BY OneDeskFetch
<1>2. PICK kd \in {"reply", "close"} : Desk!Act(k, kd)
  OBVIOUS
<1> DEFINE q == [Desk!NoFetch EXCEPT !.pc = "act", !.for = kd, !.case = shown.case]
<1>3. /\ x.pc = "idle" /\ fetch' = [fetch EXCEPT ![k] = q] /\ shown.case # "none"
      /\ UNCHANGED <<stored, selected, shown, deskStream, due, strayed, passed>>
  BY <1>1, <1>2 DEF Desk!Act, Desk!Ask, Desk!Happened
<1>4. shown.case \in Turns /\ selected # "none"
  BY <1>3 DEF DeskInv, DeskTypes, ShownRow, Told
<1>5. /\ q \in DeskRow /\ q.pc = "act" /\ q.for = kd /\ q.case = shown.case /\ q.dropped = FALSE
  BY <1>4, DeskRows DEF DeskRow
<1> HIDE DEF q
<1>6. GoodFetch(q) /\ ~Brings(x) /\ ~Selects(x)
  BY <1>1, <1>3, <1>4, <1>5 DEF GoodFetch, Brings, Selects
<1> QED BY <1>1, <1>3, <1>5, <1>6, OnlyFetch

LEMMA ActFailsStep ==
  ASSUME DeskInv, NEW k \in Calls, Desk!ActFails(k)
  PROVE  DeskInv'
<1>1. PICK x \in DeskRow : x = fetch[k] /\ GoodFetch(x)
  BY OneDeskFetch
<1>2. /\ x.pc \in {"act", "acted"} /\ fetch' = [fetch EXCEPT ![k] = Desk!NoFetch]
      /\ UNCHANGED <<stored, selected, shown, deskStream, due, strayed, passed>>
  BY <1>1 DEF Desk!ActFails, Desk!Happened
<1>3. GoodFetch(Desk!NoFetch) /\ ~Brings(x) /\ ~Selects(x)
  BY <1>1, <1>2, DeskRows DEF GoodFetch, Brings, Selects
<1> QED BY <1>1, <1>2, <1>3, DeskRows, OnlyFetch

\* The page asks for the list after what it did itself.
LEMMA ActAnsweredStep ==
  ASSUME DeskInv, NEW k \in Calls, Desk!ActAnswered(k)
  PROVE  DeskInv'
<1>1. PICK x \in DeskRow : x = fetch[k] /\ GoodFetch(x)
  BY OneDeskFetch
<1>2. /\ x.pc = "acted" /\ fetch' = [fetch EXCEPT ![k] = Desk!Update] /\ UNCHANGED stored
      /\ UNCHANGED <<selected, shown, deskStream, strayed, passed>> /\ DeskTypes
      /\ (due' = due \/ (due' = x.upTo /\ x.case = selected))
  BY <1>1 DEF Desk!ActAnswered, Desk!Happened, DeskInv
<1>3. x.case \in Turns /\ x.upTo <= stored[x.case] /\ selected # "none" /\ ~Selects(x)
  BY <1>1, <1>2 DEF GoodFetch, Selects
<1>4. GoodFetch(Desk!Update)' /\ Brings(Desk!Update)'
  BY <1>2, <1>3, DeskRows DEF GoodFetch, Brings
<1>5. /\ fetch' \in [Calls -> DeskRow] /\ (\A s \in Calls : StepsOn(s))
      /\ fetch'[k] = Desk!Update
  BY <1>1, <1>2, <1>3, <1>4, DeskRows, OneFetch
<1>6. \A d \in Turns : stored[d] <= stored'[d]
  BY <1>2, DeskNumbers DEF DeskTypes
<1>7. due' \in 0..MaxChanges /\ (due' > 0 => selected \in Turns /\ due' <= stored'[selected])
  <2>1. x.upTo \in 0..MaxChanges
    BY DEF DeskRow
  <2>2. due \in 0..MaxChanges /\ (due > 0 => selected \in Turns /\ due <= stored'[selected])
    BY <1>2, <1>6, StillTold DEF DeskTypes
  <2> QED BY <1>2, <1>3, <2>1, <2>2
<1>8. stored' \in [Turns -> 0..MaxChanges] /\ deskStream' \in {selected, "none"}
  BY <1>2 DEF DeskTypes
<1> QED BY <1>2, <1>5, <1>6, <1>7, <1>8, DeskRows, DeskMoves

\* A reply is written and announced to the page itself, a close only written.
LEMMA ActedStep ==
  ASSUME DeskInv, NEW k \in Calls, Desk!Acted(k)
  PROVE  DeskInv'
<1>1. PICK x \in DeskRow : x = fetch[k] /\ GoodFetch(x)
  BY OneDeskFetch
<1>2. /\ x.pc = "act" /\ Desk!Store(x.case) /\ DeskTypes
      /\ UNCHANGED <<selected, shown, deskStream, strayed, passed>>
  BY <1>1 DEF Desk!Acted, Desk!Happened, DeskInv
<1>3. x.case \in Turns /\ selected # "none" /\ ~Brings(x) /\ ~Selects(x) /\ ~x.dropped
  BY <1>1, <1>2 DEF GoodFetch, Brings, Selects
<1>4. /\ stored' \in [Turns -> 0..MaxChanges] /\ \A d \in Turns : stored[d] <= stored'[d]
      /\ stored'[x.case] \in 0..MaxChanges /\ stored'[x.case] \in Nat
  BY <1>2, <1>3, Storing, DeskNumbers
<1>5. PICK q \in DeskRow : q = [x EXCEPT !.pc = "acted", !.upTo = stored'[x.case]]
  BY <1>4 DEF DeskRow
<1>6. /\ q.pc = "acted" /\ q.case = x.case /\ q.upTo = stored'[x.case]
       /\ q.for = x.for /\ q.dropped = x.dropped
  BY <1>5 DEF DeskRow
<1> DEFINE done == [fetch EXCEPT ![k] = q]
<1>7. \/ fetch' = done /\ due' = due
      \/ /\ \E j \in Calls : done[j].pc = "idle" /\ fetch' = [done EXCEPT ![j] = Desk!Update]
         /\ deskStream = x.case /\ due' = stored'[x.case]
  BY <1>1, <1>5 DEF Desk!Acted
<1>8. GoodFetch(q)'
  BY <1>1, <1>2, <1>3, <1>4, <1>6 DEF GoodFetch
<1>9. done \in [Calls -> DeskRow] /\ done[k] = q /\ \A s \in Calls \ {k} : done[s] = fetch[s]
  BY <1>2, <1>5 DEF DeskTypes
<1> HIDE DEF done
<1>10. deskStream' \in {selected, "none"}
  BY <1>2 DEF DeskTypes
<1>11. due \in 0..MaxChanges /\ (due > 0 => selected \in Turns /\ due <= stored'[selected])
  BY <1>4, StillTold
<1>12. CASE fetch' = done /\ due' = due
  <2>1. ASSUME NEW s \in Calls PROVE StepsOn(s)
    <3>1. CASE s = k
      BY <1>1, <1>3, <1>8, <1>9, <1>12, <3>1 DEF StepsOn, GoodFetch
    <3>2. CASE s # k
      BY <1>9, <1>12, <3>2 DEF StepsOn
    <3> QED BY <3>1, <3>2
  <2> QED BY <1>2, <1>4, <1>9, <1>10, <1>11, <1>12, <2>1, DeskMoves
<1>13. CASE /\ \E j \in Calls : done[j].pc = "idle" /\ fetch' = [done EXCEPT ![j] = Desk!Update]
            /\ deskStream = x.case /\ due' = stored'[x.case]
  <2>1. PICK j \in Calls : done[j].pc = "idle" /\ fetch' = [done EXCEPT ![j] = Desk!Update]
    BY <1>13
  <2>2. j # k /\ fetch[j].pc = "idle"
    BY <1>9, <1>6, <2>1
  <2>3. /\ fetch' \in [Calls -> DeskRow] /\ fetch'[j] = Desk!Update /\ fetch'[k] = q
        /\ \A s \in Calls \ {j, k} : fetch'[s] = fetch[s]
    BY <1>9, <2>1, <2>2, DeskRows
  <2>4. ASSUME NEW s \in Calls PROVE StepsOn(s)
    <3>1. CASE s = k
      BY <1>1, <1>3, <1>8, <2>3, <3>1 DEF StepsOn, GoodFetch
    <3>2. CASE s = j
      <4>1. GoodFetch(fetch[j])'
        BY <1>2, <1>3, <2>3, DeskRows DEF GoodFetch
      <4>2. ~Brings(fetch[j]) /\ ~Selects(fetch[j])
        <5>1. GoodFetch(fetch[j])
          BY DEF DeskInv
        <5> QED BY <2>2, <5>1 DEF Brings, Selects, GoodFetch
      <4> QED BY <3>2, <4>1, <4>2 DEF StepsOn
    <3>3. CASE s \notin {j, k}
      BY <2>3, <3>3 DEF StepsOn
    <3> QED BY <3>1, <3>2, <3>3
  <2>5. selected = x.case
    BY <1>2, <1>3, <1>13, DeskNumbers DEF DeskTypes
  <2>6. due' \in 0..MaxChanges /\ selected \in Turns /\ due' <= stored'[selected]
    BY <1>3, <1>4, <1>13, <2>5
  <2>7. \E s \in Calls : fetch'[s].pc = "list"
    BY <2>3, DeskRows
  <2> QED BY <1>2, <1>4, <1>10, <2>3, <2>4, <2>6, <2>7, DeskMoves
<1> QED BY <1>7, <1>12, <1>13

LEMMA DeskInvStep == DeskInv /\ [Desk!Next]_deskVars => DeskInv'
<1> SUFFICES ASSUME DeskInv, [Desk!Next]_deskVars PROVE DeskInv'
  OBVIOUS
<1>1. CASE UNCHANGED deskVars
  BY <1>1 DEF deskVars, DeskInv, DeskTypes, GoodFetch, Told, Coming, Choosing, Brings
<1> QED BY <1>1, SelectStep, ListAnsweredStep, ReadCaseStep, CaseAnsweredStep, FetchFailsStep, ActStep,
           ActedStep, ActAnsweredStep, ActFailsStep, StreamFailsStep, HappenedStep DEF Desk!Next

LEMMA DeskFocus == PortalSpec => [](focus = "desk" => DeskInv)
<1>1. PortalInit => (focus = "desk" => DeskInv)
  BY DeskInvInit DEF PortalInit
<1>2. (focus = "desk" => DeskInv) /\ [PortalNext]_allVars => (focus = "desk" => DeskInv)'
  BY DeskInvStep, FocusStep
<1> QED BY <1>1, <1>2, PTL DEF PortalSpec, allVars

\* When nothing is on its way any more, the page shows what it should.
LEMMA DeskIsKept == DeskInv => Desk!DeskKept
<1> SUFFICES ASSUME DeskInv PROVE Desk!DeskKept
  OBVIOUS
<1>1. SUFFICES ASSUME Desk!Quiet
               PROVE  /\ shown.case # "none" => shown.case = selected \/ strayed
                      /\ shown.case = selected => shown.upTo >= due \/ passed \/ strayed
  BY DEF Desk!DeskKept, Desk!SelectedShown, Desk!ToldIsShown
<1>2. ASSUME NEW k \in Calls PROVE ~Brings(fetch[k]) /\ ~Selects(fetch[k])
  BY <1>1 DEF DeskInv, Desk!Quiet, Brings, Selects, GoodFetch
<1>3. shown.case # "none" => shown.case = selected \/ strayed
  BY <1>2 DEF DeskInv, Choosing
<1>4. ASSUME ~(due > 0) PROVE shown.upTo >= due
  <2>1. shown.upTo \in Nat /\ due \in Nat
    BY DeskNumbers DEF DeskInv, DeskTypes, ShownRow
  <2> QED BY <1>4, <2>1
<1> QED BY <1>2, <1>3, <1>4 DEF DeskInv, Coming

\* However the calls of two pages and a sign-out interleave, no token of a family that
\* was ended is live but one a rotation made meanwhile, and a page acts for the person
\* it shows (jwt-auth.ts:107, auth-context.tsx); the desk shows the case that is
\* selected, as far as its events told (support/page.tsx:978).
THEOREM SessionsAndDeskKept == PortalSpec => []PagesKept
<1> QED BY SessionFocus, DeskFocus, SessionsAreKept, DeskIsKept, PTL DEF PagesKept
-----------------------------------------------------------------------------
(* The types of every component *)

LEMMA CodeTyped == CodeInv => SignIn!TypeOK
<1> SUFFICES ASSUME CodeInv PROVE SignIn!TypeOK
  OBVIOUS
<1>1. made \in Nat
  BY CodeNumbers DEF CodeInv, CodeTypes
<1>2. entry.code \in 0..made /\ entry.attempts \in Nat
  BY <1>1 DEF CodeInv, CodeTypes, EntryRow
<1>3. ASSUME NEW f \in Forms
      PROVE  form[f] \in [step : {"email", "code"}, code : 0..made, seen : 0..made,
                          pc : {"idle", "send", "look", "sent", "verify", "upsert", "in"},
                          resendAt : Nat]
  <2>1. PICK x \in FormRow : x = form[f]
    BY DEF CodeInv, CodeTypes
  <2>2. x.code \in 0..made /\ x.seen \in 0..made
    BY <1>1, <2>1 DEF CodeInv, CodeTypes, FormRow
  <2> QED BY <2>1, <2>2 DEF FormRow
<1> QED BY <1>2, <1>3 DEF CodeInv, CodeTypes, SignIn!TypeOK

LEMMA StreamTyped == StreamInv => Streams!TypeOK
<1> SUFFICES ASSUME StreamInv PROVE Streams!TypeOK
  OBVIOUS
<1>1. registry \in Seq(Conns) /\ DOMAIN registry = 1..Len(registry)
  BY DEF StreamInv, StreamTypes
<1> QED BY <1>1 DEF StreamInv, StreamTypes, StreamPlaces, Distinct, Streams!TypeOK

LEMMA ScreenTyped == ScreenInv => Screen!TypeOK
<1> SUFFICES ASSUME ScreenInv PROVE Screen!TypeOK
  OBVIOUS
<1>1. DOMAIN bubbles = 1..Len(bubbles) /\ arrived \in Nat /\ \A i \in 1..Len(bubbles) : bubbles[i] \in Bubble
  BY ScreenNumbers DEF ScreenInv
<1>2. ASSUME NEW i \in 1..Len(bubbles)
      PROVE  /\ bubbles[i].from \in 0..arrived /\ bubbles[i].to \in bubbles[i].from..arrived
             /\ bubbles[i].streaming => bubbles[i].agent
  <2>1. bubbles[i].from \in Nat /\ bubbles[i].to \in Nat
    BY <1>1 DEF Bubble
  <2>2. Shows(bubbles[i], arrived)
    BY DEF ScreenInv
  <2> QED BY <1>1, <2>1, <2>2 DEF Shows
<1>3. {connected, pending, timer, typing, escalated} \subseteq BOOLEAN /\ (pending => timer)
  BY DEF ScreenInv, Switches
<1> QED BY <1>1, <1>2, <1>3 DEF ScreenInv, Screen!TypeOK

LEMMA KnowledgeTyped == BaseInv => Knowledge!TypeOK
BY DEF BaseInv, RowTypes, JobTypes, VoteRow, Knowledge!TypeOK

LEMMA SessionsTyped == SessionInv => UserSessions!TypeOK
<1> SUFFICES ASSUME SessionInv PROVE UserSessions!TypeOK
  OBVIOUS
<1>1. /\ UserSessions!Made = 1..Len(tokens) /\ Len(tokens) \in Nat
      /\ \A t \in 1..Len(tokens) : tokens[t] \in TokenRow
  BY TokenCount DEF SessionInv, UserSessions!Made
<1>2. \A t \in UserSessions!Made : tokens[t].who \in Turns /\ UserSessions!FamilyOf(t) \in 1..t
  BY <1>1 DEF SessionInv, Families, TokenRow, UserSessions!FamilyOf
<1>3. cookie \in {0} \cup UserSessions!Made /\ escaped \subseteq UserSessions!Made
  BY <1>1 DEF SessionInv, SessionTypes
<1>4. \A t \in Tabs : /\ {page[t].access, page[t].user} \subseteq Turns \cup {"nobody"}
                      /\ page[t].timer => page[t].open
  BY DEF SessionInv, SessionTypes, PageRow, Persons, GoodPage, ShowsNobody
<1>5. \A r \in Calls : request[r].pc # "idle" => request[r].tab \in Tabs
  BY DEF SessionInv, GoodRequests, GoodRequest
<1> QED BY <1>2, <1>3, <1>4, <1>5 DEF UserSessions!TypeOK, UserSessions!Nobody

LEMMA DeskTyped == DeskInv => Desk!TypeOK
BY DEF DeskInv, DeskTypes, DeskRow, ShownRow, Desk!TypeOK

LEMMA CaseFocus == PortalSpec => [](focus = "case" => TypeOK)
<1>1. PortalInit => (focus = "case" => TypeOK)
  BY CaseInitTyped DEF PortalInit
<1>2. (focus = "case" => TypeOK) /\ [PortalNext]_allVars => (focus = "case" => TypeOK)'
  BY CaseStepTyped, FocusStep
<1> QED BY <1>1, <1>2, PTL DEF PortalSpec, allVars

Focuses == {"case", "code", "streams", "screen", "knowledge", "sessions", "desk"}

LEMMA OneFocus == PortalSpec => [](focus \in Focuses)
<1>1. PortalInit => focus \in Focuses
  BY DEF PortalInit, Focuses
<1>2. focus \in Focuses /\ [PortalNext]_allVars => (focus \in Focuses)'
  BY FocusStep
<1> QED BY <1>1, <1>2, PTL DEF PortalSpec, allVars

\* Every component keeps to its types: the rows of case, code, knowledge, sessions and
\* desk, the registry of the streams, the bubbles of the chat.
THEOREM PortalTyped == PortalSpec => []TypesOK
<1>1. /\ focus \in Focuses /\ (focus = "case" => TypeOK) /\ (focus = "code" => SignIn!TypeOK)
      /\ (focus = "streams" => Streams!TypeOK) /\ (focus = "screen" => Screen!TypeOK)
      /\ (focus = "knowledge" => Knowledge!TypeOK) /\ (focus = "sessions" => UserSessions!TypeOK)
      /\ (focus = "desk" => Desk!TypeOK)
      => TypesOK
  <2> SUFFICES ASSUME focus \in Focuses, focus = "case" => TypeOK, focus = "code" => SignIn!TypeOK,
                      focus = "streams" => Streams!TypeOK, focus = "screen" => Screen!TypeOK,
                      focus = "knowledge" => Knowledge!TypeOK,
                      focus = "sessions" => UserSessions!TypeOK, focus = "desk" => Desk!TypeOK
               PROVE  TypesOK
    OBVIOUS
  <2> QED BY DEF TypesOK, Focuses
<1> QED BY <1>1, OneFocus, CaseFocus, CodeFocus, StreamFocus, ScreenFocus, KnowledgeFocus, SessionFocus,
           DeskFocus, CodeTyped, StreamTyped, ScreenTyped, KnowledgeTyped, SessionsTyped, DeskTyped, PTL
=============================================================================
