------------------------- MODULE RunAdmissionProofs -------------------------
(***************************************************************************)
(* Proofs about RunAdmission for every number of tokens, nonces and        *)
(* handlers, whether or not a nonce names the row of a token, and every    *)
(* setting of the limits that AdmissionAssumption allows.                  *)
(***************************************************************************)
EXTENDS RunAdmission, FiniteSetTheorems, TLAPS

LEMMA InitTyped == Init => TypeOK
BY AdmissionAssumption DEF Init, TypeOK, CallRecords, UnderWay, Idle, AdmissionAssumption

\* A sweep only takes rows away.
LEMMA SweptTyped ==
  ASSUME NEW table \in [Rows -> 0..MaxTime]
  PROVE  Swept(table) \in [Rows -> 0..MaxTime]
BY AdmissionAssumption DEF Swept, AdmissionAssumption

\* A step of a handler leaves the others alone; it brings its handler to where
\* it has a token and nothing else, or to where it was before.
LEMMA CallMoves ==
  ASSUME TypeOK, NEW h \in Handlers,
         Claim(h) \/ Evaluate(h) \/ Consume(h) \/ Enqueue(h) \/ Abort(h)
  PROVE  /\ \A g \in Handlers : g # h => call'[g] = call[g]
         /\ call[h].pc # "idle" /\ call[h] \in CallRecords
         /\ call' \in [Handlers -> CallRecords]
         /\ call'[h].pc \in {"idle", "evaluate", "consume", "enqueue"}
         /\ call'[h].pc # "idle" => call'[h].token = call[h].token
         /\ call'[h].pc = "enqueue" =>
              ~Answer(h) /\ call[h].pc = "consume" /\ rows[call[h].token] # 0
<1>1. /\ call \in [Handlers -> CallRecords] /\ call[h] \in CallRecords
      /\ call[h].pc # "idle"
  BY DEF Claim, Evaluate, Consume, Enqueue, Abort, TypeOK
<1>2. ASSUME NEW c \in CallRecords, call' = [call EXCEPT ![h] = c]
      PROVE  /\ \A g \in Handlers : g # h => call'[g] = call[g]
             /\ call' \in [Handlers -> CallRecords] /\ call'[h] = c
  BY <1>1, <1>2
<1>3. Idle \in CallRecords /\ Idle.pc = "idle"
  BY DEF Idle, CallRecords
<1>4. CASE Answer(h)
  BY <1>1, <1>2, <1>3, <1>4 DEF Answer
<1>5. CASE Claim(h) /\ ~Answer(h)
  <2> DEFINE c == [pc |-> "evaluate", nonce |-> "none", token |-> call[h].token, ts |-> 0]
  <2>1. call' = [call EXCEPT ![h] = c]
    BY <1>5 DEF Claim, Idle
  <2>2. c \in CallRecords
    BY <1>1 DEF CallRecords
  <2>3. call'[h] = c
    BY <1>2, <2>1, <2>2
  <2> QED BY <1>1, <1>2, <2>1, <2>2, <2>3
<1>6. ASSUME NEW pc \in {"consume", "enqueue"}, Goto(h, pc)
      PROVE  /\ \A g \in Handlers : g # h => call'[g] = call[g]
             /\ call' \in [Handlers -> CallRecords] /\ call'[h].pc = pc
             /\ call'[h].token = call[h].token
  <2> DEFINE c == [call[h] EXCEPT !.pc = pc]
  <2>1. call' = [call EXCEPT ![h] = c]
    BY <1>6 DEF Goto
  <2>2. c \in CallRecords /\ c.pc = pc /\ c.token = call[h].token
    BY <1>1 DEF CallRecords
  <2> QED BY <1>2, <2>1, <2>2
<1>7. CASE Evaluate(h) /\ ~Answer(h)
  BY <1>1, <1>6, <1>7 DEF Evaluate
<1>8. CASE Consume(h) /\ ~Answer(h)
  BY <1>1, <1>6, <1>8 DEF Consume
<1>9. CASE Enqueue(h) \/ Abort(h)
  BY <1>4, <1>9 DEF Enqueue, Abort
<1> QED BY <1>4, <1>5, <1>7, <1>8, <1>9

LEMMA HandlerTyped ==
  ASSUME TypeOK, NEW h \in Handlers,
         Claim(h) \/ Evaluate(h) \/ Consume(h) \/ Enqueue(h) \/ Abort(h)
  PROVE  TypeOK'
<1>1. call[h].pc # "idle"
  BY CallMoves
<1>2. UNCHANGED <<now, expires>>
  BY DEF Claim, Evaluate, Consume, Enqueue, Abort
<1>3. /\ call' \in [Handlers -> CallRecords]
      /\ \A g \in Handlers : UnderWay(call'[g])
  <2>1. UnderWay(call'[h])
    BY CallMoves DEF TypeOK, UnderWay
  <2> QED BY <2>1, CallMoves DEF TypeOK
<1>4. /\ call[h].token \in Tokens
      /\ call[h].pc = "claim" => call[h].nonce \in Nonces /\ call[h].ts \in Stamps
  BY <1>1 DEF TypeOK, UnderWay
<1>5. rows' \in [Rows -> 0..MaxTime]
  <2>1. CASE Claim(h)
    <3> DEFINE table == [rows EXCEPT ![call[h].nonce] = now]
    <3>1. table \in [Rows -> 0..MaxTime]
      BY <1>4, <2>1 DEF TypeOK, Claim, Rows
    <3>2. Swept(table) \in [Rows -> 0..MaxTime]
      BY <3>1, SweptTyped
    <3>3. rows' = rows \/ rows' = Swept(table)
      BY <2>1 DEF Claim
    <3> QED BY <3>2, <3>3 DEF TypeOK
  <2>2. CASE Consume(h)
    <3>1. rows' = [rows EXCEPT ![call[h].token] = 0] /\ 0 \in 0..MaxTime
      BY <2>2, AdmissionAssumption DEF Consume, AdmissionAssumption
    <3> QED BY <3>1 DEF TypeOK
  <2>3. CASE Evaluate(h) \/ Enqueue(h) \/ Abort(h)
    BY <2>3 DEF Evaluate, Enqueue, Abort, TypeOK
  <2> QED BY <2>1, <2>2, <2>3
<1>6. claims' \in [Nonces \ Tokens -> [Stamps -> Nat]] /\ named' \in [Tokens -> Nat]
  <2>1. CASE Claim(h)
    <3>1. call[h].nonce \in Nonces /\ call[h].ts \in Stamps
      BY <1>4, <2>1 DEF Claim
    <3> QED BY <2>1, <3>1 DEF Claim, CountClaim, TypeOK
  <2>2. CASE Evaluate(h) \/ Consume(h) \/ Enqueue(h) \/ Abort(h)
    BY <2>2 DEF Evaluate, Consume, Enqueue, Abort, histories, TypeOK
  <2> QED BY <2>1, <2>2
<1>7. consumed' \subseteq Tokens
  BY <1>4 DEF Claim, Evaluate, Consume, Enqueue, Abort, histories, TypeOK
<1>8. enqueued' \in [Tokens -> Nat]
  BY <1>4 DEF Claim, Evaluate, Consume, Enqueue, Abort, histories, TypeOK
<1>9. \A g \in Handlers : UnderWay(call[g])'
  BY <1>2, <1>3 DEF UnderWay
<1> QED BY <1>2, <1>3, <1>5, <1>6, <1>7, <1>8, <1>9 DEF TypeOK

LEMMA StepTyped == TypeOK /\ [Next]_vars => TypeOK'
<1> SUFFICES ASSUME TypeOK, [Next]_vars PROVE TypeOK'
  OBVIOUS
<1>1. CASE Tick
  BY <1>1, AdmissionAssumption DEF Tick, histories, TypeOK, UnderWay, AdmissionAssumption
<1>2. CASE Cleanup
  BY <1>2, SweptTyped DEF Cleanup, histories, TypeOK, UnderWay
<1>3. CASE \E t \in Tokens : Compile(t)
  <2>1. PICK t \in Tokens : Compile(t)
    BY <1>3
  <2>2. rows' \in [Rows -> 0..MaxTime]
    BY <2>1, AdmissionAssumption DEF Compile, TypeOK, Rows, AdmissionAssumption
  <2>3. /\ expires' \in [Tokens -> Nat]
        /\ \A u \in Tokens : expires[u] # 0 => expires'[u] # 0
    BY <2>1, AdmissionAssumption DEF Compile, TypeOK, AdmissionAssumption
  <2>4. \A g \in Handlers : UnderWay(call[g])'
    BY <2>1, <2>3 DEF Compile, TypeOK, UnderWay
  <2> QED BY <2>1, <2>2, <2>3, <2>4 DEF Compile, histories, TypeOK
<1>4. CASE \E h \in Handlers, n \in Nonces, t \in Tokens, ts \in Stamps : Receive(h, n, t, ts)
  <2>1. PICK h \in Handlers, n \in Nonces, t \in Tokens, ts \in Stamps : Receive(h, n, t, ts)
    BY <1>4
  <2> DEFINE c == [pc |-> "claim", nonce |-> n, token |-> t, ts |-> ts]
  <2>2. ts \in Int
    BY AdmissionAssumption DEF AdmissionAssumption, Stamps
  <2>3. expires[t] # 0
    BY <2>1 DEF Receive, TypeOK
  <2>4. c \in CallRecords /\ UnderWay(c)
    BY <2>2, <2>3 DEF CallRecords, UnderWay
  <2>5. call' = [call EXCEPT ![h] = c] /\ UNCHANGED <<now, rows, expires, histories>>
    BY <2>1 DEF Receive
  <2>6. call' \in [Handlers -> CallRecords] /\ \A g \in Handlers : UnderWay(call'[g])
    BY <2>4, <2>5 DEF TypeOK
  <2> QED BY <2>5, <2>6 DEF histories, TypeOK, UnderWay
<1>5. CASE \E h \in Handlers :
             Claim(h) \/ Evaluate(h) \/ Consume(h) \/ Enqueue(h) \/ Abort(h)
  BY <1>5, HandlerTyped
<1>6. CASE UNCHANGED vars
  BY <1>6 DEF vars, histories, TypeOK, UnderWay
<1> QED BY <1>1, <1>2, <1>3, <1>4, <1>5, <1>6 DEF Next

\* The rows, tokens, claims and calls are well formed, for any number of them.
THEOREM TypeCorrect == Spec => []TypeOK
<1> QED BY InitTyped, StepTyped, PTL DEF Spec
-----------------------------------------------------------------------------
(* One run for each creation of a token's row *)

Senders(t) == {h \in Handlers : call[h].pc = "enqueue" /\ call[h].token = t}
Present(t) == IF rows[t] # 0 THEN 1 ELSE 0
Issued(t) == IF expires[t] # 0 THEN 1 ELSE 0

\* The jobs sent for a token, the handlers about to send one, and its row, if
\* it is there, are paid for by the creations of the row: each creation pays
\* for one, and the handler that deletes the row takes its place.
Paid(t) ==
  enqueued[t] + Cardinality(Senders(t)) + Present(t) <= Issued(t) + named[t]
OnceInv == TypeOK /\ \A t \in Tokens : Paid(t)

LEMMA SendersFinite ==
  ASSUME NEW t
  PROVE  IsFiniteSet(Senders(t)) /\ Cardinality(Senders(t)) \in Nat
BY AdmissionAssumption, FS_Subset, FS_CardinalityType DEF Senders, AdmissionAssumption

LEMMA OnceInit == Init => OnceInv
<1> SUFFICES ASSUME Init PROVE OnceInv
  OBVIOUS
<1>1. ASSUME NEW t \in Tokens PROVE Paid(t)
  <2>1. Senders(t) = {}
    BY DEF Init, Senders, Idle
  <2>2. Present(t) = 0 /\ Issued(t) = 0 /\ enqueued[t] = 0 /\ named[t] = 0
    BY DEF Init, Present, Issued, Rows
  <2> QED BY <2>1, <2>2, FS_EmptySet DEF Paid
<1> QED BY <1>1, InitTyped DEF OnceInv

\* Only the steps that consume and send change what is paid for; a row appears
\* with the creation that pays for it.
LEMMA OnceQuiet ==
  ASSUME OnceInv, TypeOK', NEW t \in Tokens,
         enqueued'[t] = enqueued[t], Senders(t)' \subseteq Senders(t),
         Present(t)' + Issued(t) + named[t] <= Present(t) + Issued(t)' + named'[t]
  PROVE  Paid(t)'
<1>1. Cardinality(Senders(t)') <= Cardinality(Senders(t))
  BY SendersFinite, FS_Subset
<1>2. Cardinality(Senders(t)') \in Nat
  BY SendersFinite, FS_Subset, FS_CardinalityType
<1>3. Cardinality(Senders(t)) \in Nat
  BY SendersFinite
<1>4. /\ enqueued[t] \in Nat /\ named[t] \in Nat /\ named'[t] \in Nat
      /\ {Present(t), Present(t)', Issued(t), Issued(t)'} \subseteq Nat
  BY DEF OnceInv, TypeOK, Present, Issued
<1>5. Paid(t)
  BY DEF OnceInv
<1>6. enqueued'[t] + Cardinality(Senders(t)') + Present(t)' <= Issued(t)' + named'[t]
  BY <1>1, <1>2, <1>3, <1>4, <1>5 DEF Paid
<1> QED BY <1>6 DEF Paid

\* A handler that does not come to send is not among the senders of a token.
LEMMA SendersLeave ==
  ASSUME NEW t,
         \A h \in Handlers : call'[h].pc = "enqueue" => call'[h] = call[h]
  PROVE  Senders(t)' \subseteq Senders(t)
BY DEF Senders

LEMMA OnceStep == OnceInv /\ [Next]_vars => OnceInv'
<1> SUFFICES ASSUME OnceInv, [Next]_vars PROVE OnceInv'
  OBVIOUS
<1>1. TypeOK /\ TypeOK'
  BY StepTyped DEF OnceInv
<1>2. \A t \in Tokens : /\ named[t] \in Nat /\ named'[t] \in Nat /\ t \in Rows
                        /\ Present(t) \in 0..1 /\ Issued(t) \in 0..1
                        /\ Present(t)' \in 0..1 /\ Issued(t)' \in 0..1
  BY <1>1 DEF TypeOK, Present, Issued, Rows
<1>3. CASE Tick \/ UNCHANGED vars
  <2>1. UNCHANGED <<rows, expires, call, named, enqueued>>
    BY <1>3 DEF Tick, vars, histories
  <2>2. ASSUME NEW t \in Tokens PROVE Paid(t)'
    BY <2>1 DEF OnceInv, Paid, Senders, Present, Issued
  <2> QED BY <1>1, <2>2 DEF OnceInv
<1>4. CASE Cleanup
  <2>1. UNCHANGED <<expires, call, named, enqueued>> /\ rows' = Swept(rows)
    BY <1>4 DEF Cleanup, histories
  <2>2. ASSUME NEW t \in Tokens PROVE Paid(t)'
    <3>1. Senders(t)' \subseteq Senders(t)
      BY <2>1 DEF Senders
    <3>2. Present(t)' <= Present(t) /\ Issued(t)' = Issued(t)
      BY <1>2, <2>1 DEF Present, Issued, Swept
    <3> QED BY <1>1, <1>2, <2>1, <3>1, <3>2, OnceQuiet
  <2> QED BY <1>1, <2>2 DEF OnceInv
<1>5. ASSUME NEW u \in Tokens, Compile(u) PROVE OnceInv'
  <2>1. UNCHANGED <<call, named, enqueued>>
    BY <1>5 DEF Compile, histories
  <2>2. ASSUME NEW t \in Tokens PROVE Paid(t)'
    <3>1. Senders(t)' \subseteq Senders(t)
      BY <2>1 DEF Senders
    <3>2. CASE t # u
      <4>1. Present(t)' = Present(t) /\ Issued(t)' = Issued(t)
        BY <1>1, <1>2, <1>5, <3>2 DEF Compile, TypeOK, Present, Issued
      <4> QED BY <1>1, <1>2, <2>1, <3>1, <4>1, OnceQuiet
    <3>3. CASE t = u
      <4>1. Issued(t) = 0 /\ Issued(t)' = 1
        BY <1>1, <1>5, <3>3, AdmissionAssumption
           DEF Compile, TypeOK, Issued, AdmissionAssumption
      <4> QED BY <1>1, <1>2, <2>1, <3>1, <4>1, OnceQuiet
    <3> QED BY <3>2, <3>3
  <2> QED BY <1>1, <2>2 DEF OnceInv
<1>6. ASSUME NEW h \in Handlers, NEW n \in Nonces, NEW u \in Tokens, NEW ts \in Stamps,
             Receive(h, n, u, ts)
      PROVE  OnceInv'
  <2>1. UNCHANGED <<rows, expires, named, enqueued>>
    BY <1>6 DEF Receive, histories
  <2>2. \A g \in Handlers : call'[g].pc = "enqueue" => call'[g] = call[g]
    BY <1>1, <1>6 DEF Receive, TypeOK
  <2>3. ASSUME NEW t \in Tokens PROVE Paid(t)'
    <3>1. Present(t)' = Present(t) /\ Issued(t)' = Issued(t)
      BY <2>1 DEF Present, Issued
    <3> QED BY <1>1, <1>2, <2>1, <2>2, <3>1, SendersLeave, OnceQuiet
  <2> QED BY <1>1, <2>3 DEF OnceInv
<1>7. ASSUME NEW h \in Handlers, Evaluate(h) \/ Abort(h)
      PROVE  OnceInv'
  <2>1. UNCHANGED <<rows, expires, named, enqueued>>
    BY <1>7 DEF Evaluate, Abort, histories
  <2>2. \A g \in Handlers : call'[g].pc = "enqueue" => call'[g] = call[g]
    <3>1. call'[h].pc # "enqueue"
      BY <1>1, <1>7, CallMoves DEF Evaluate, Abort
    <3> QED BY <1>1, <1>7, <3>1, CallMoves
  <2>3. ASSUME NEW t \in Tokens PROVE Paid(t)'
    <3>1. Present(t)' = Present(t) /\ Issued(t)' = Issued(t)
      BY <2>1 DEF Present, Issued
    <3> QED BY <1>1, <1>2, <2>1, <2>2, <3>1, SendersLeave, OnceQuiet
  <2> QED BY <1>1, <2>3 DEF OnceInv
<1>8. ASSUME NEW h \in Handlers, Claim(h)
      PROVE  OnceInv'
  <2>1. PICK n \in Nonces : n = call[h].nonce /\ UNCHANGED <<expires, enqueued>>
    BY <1>1, <1>8 DEF Claim, TypeOK, UnderWay
  <2> DEFINE table == [rows EXCEPT ![n] = now]
  <2>2. \A g \in Handlers : call'[g].pc = "enqueue" => call'[g] = call[g]
    <3>1. call'[h].pc # "enqueue"
      BY <1>1, <1>8, CallMoves DEF Claim
    <3> QED BY <1>1, <1>8, <3>1, CallMoves
  <2>3. ASSUME NEW t \in Tokens PROVE Paid(t)'
    <3>1. Issued(t)' = Issued(t)
      BY <2>1 DEF Issued
    <3>2. CASE rows[n] # 0
      <4>1. Present(t)' = Present(t) /\ named'[t] = named[t]
        BY <1>8, <2>1, <3>2 DEF Claim, Present
      <4> QED BY <1>1, <1>2, <2>1, <2>2, <3>1, <4>1, SendersLeave, OnceQuiet
    <3>3. CASE rows[n] = 0 /\ t # n
      <4>1. rows' = Swept(table) /\ table[t] = rows[t]
        BY <1>1, <1>2, <1>8, <2>1, <3>3 DEF Claim, TypeOK
      <4>2. named'[t] = named[t]
        BY <1>1, <1>8, <2>1, <3>3 DEF Claim, CountClaim, TypeOK
      <4>3. Present(t)' <= Present(t)
        BY <1>2, <4>1 DEF Present, Swept
      <4> QED BY <1>1, <1>2, <2>1, <2>2, <3>1, <4>2, <4>3, SendersLeave, OnceQuiet
    <3>4. CASE rows[n] = 0 /\ t = n
      <4>1. named'[t] = named[t] + 1
        BY <1>1, <1>8, <2>1, <3>4 DEF Claim, CountClaim, TypeOK
      <4> QED BY <1>1, <1>2, <2>1, <2>2, <3>1, <4>1, SendersLeave, OnceQuiet
    <3> QED BY <3>2, <3>3, <3>4
  <2> QED BY <1>1, <2>3 DEF OnceInv
<1>9. ASSUME NEW h \in Handlers, Consume(h)
      PROVE  OnceInv'
  <2>1. PICK u \in Tokens :
        u = call[h].token /\ UNCHANGED <<expires, named, enqueued>> /\ rows' = [rows EXCEPT ![u] = 0]
    BY <1>1, <1>9 DEF Consume, TypeOK, UnderWay
  <2>2. \A t \in Tokens : rows'[t] = IF t = u THEN 0 ELSE rows[t]
    BY <1>1, <1>2, <2>1 DEF TypeOK
  <2>3. \A g \in Handlers : g # h => call'[g] = call[g]
    BY <1>1, <1>9, CallMoves
  <2>4. ASSUME NEW t \in Tokens, t # u \/ rows[u] = 0 PROVE Paid(t)'
    <3>1. Senders(t)' \subseteq Senders(t)
      <4>1. call'[h].pc = "enqueue" => rows[u] # 0 /\ call'[h].token = u
        BY <1>1, <1>9, <2>1, CallMoves
      <4> QED BY <2>3, <2>4, <4>1 DEF Senders
    <3>2. Present(t)' <= Present(t) /\ Issued(t)' = Issued(t)
      BY <1>2, <2>1, <2>2 DEF Present, Issued
    <3> QED BY <1>1, <1>2, <2>1, <3>1, <3>2, OnceQuiet
  <2>5. ASSUME rows[u] # 0 PROVE Paid(u)'
    <3>1. /\ call'[h].pc = "enqueue" /\ call'[h].token = u
          /\ call[h].pc = "consume"
      <4>1. call' = [call EXCEPT ![h] = [call[h] EXCEPT !.pc = "enqueue"]] /\ call[h].pc = "consume"
        BY <1>9, <2>1, <2>5 DEF Consume, Goto
      <4>2. call'[h] = [call[h] EXCEPT !.pc = "enqueue"] /\ call[h] \in CallRecords
        BY <1>1, <4>1 DEF TypeOK
      <4> QED BY <2>1, <4>1, <4>2 DEF CallRecords
    <3>2. Senders(u)' = Senders(u) \cup {h} /\ h \notin Senders(u)
      BY <2>3, <3>1 DEF Senders
    <3>3. Cardinality(Senders(u)') = Cardinality(Senders(u)) + 1
      BY <3>2, SendersFinite, FS_AddElement
    <3>4. Present(u) = 1 /\ Present(u)' = 0 /\ Issued(u)' = Issued(u)
      BY <2>1, <2>2, <2>5 DEF Present, Issued
    <3>5. enqueued[u] \in Nat /\ Cardinality(Senders(u)) \in Nat
      BY <1>1, <2>1, SendersFinite DEF TypeOK
    <3>6. Paid(u)
      BY <2>1 DEF OnceInv
    <3> QED BY <1>2, <2>1, <3>3, <3>4, <3>5, <3>6 DEF Paid
  <2> QED BY <1>1, <2>4, <2>5 DEF OnceInv
<1>10. ASSUME NEW h \in Handlers, Enqueue(h)
       PROVE  OnceInv'
  <2>1. PICK u \in Tokens :
        /\ u = call[h].token /\ UNCHANGED <<rows, expires, named>> /\ call[h].pc = "enqueue"
        /\ enqueued' = [enqueued EXCEPT ![u] = @ + 1]
    BY <1>1, <1>10 DEF Enqueue, TypeOK, UnderWay
  <2>2. \A g \in Handlers : call'[g].pc = "enqueue" => g # h /\ call'[g] = call[g]
    BY <1>1, <1>10, CallMoves DEF Enqueue
  <2>3. \A g \in Handlers : g # h => call'[g] = call[g]
    BY <1>1, <1>10, CallMoves
  <2>4. \A t \in Tokens : Present(t)' = Present(t) /\ Issued(t)' = Issued(t)
    BY <2>1 DEF Present, Issued
  <2>5. ASSUME NEW t \in Tokens, t # u PROVE Paid(t)'
    <3>1. enqueued'[t] = enqueued[t]
      BY <1>1, <2>1, <2>5 DEF TypeOK
    <3> QED BY <1>1, <1>2, <2>1, <2>2, <2>4, <3>1, SendersLeave, OnceQuiet
  <2>6. Paid(u)'
    <3>1. Senders(u)' = Senders(u) \ {h} /\ h \in Senders(u)
      BY <2>1, <2>2, <2>3 DEF Senders
    <3>2. Cardinality(Senders(u)') = Cardinality(Senders(u)) - 1
      BY <3>1, SendersFinite, FS_RemoveElement
    <3>3. /\ enqueued'[u] = enqueued[u] + 1 /\ enqueued[u] \in Nat
          /\ Cardinality(Senders(u)) \in Nat
      BY <1>1, <2>1, SendersFinite DEF TypeOK
    <3>4. Paid(u)
      BY <2>1 DEF OnceInv
    <3> QED BY <1>2, <2>1, <2>4, <3>2, <3>3, <3>4 DEF Paid
  <2> QED BY <1>1, <2>5, <2>6 DEF OnceInv
<1> QED BY <1>3, <1>4, <1>5, <1>6, <1>7, <1>8, <1>9, <1>10 DEF Next

\* A decision token admits at most one run for each creation of its row: of all
\* the deliveries that carry it, to however many handlers, the count of one
\* deleteMany lets one through; a token whose row no nonce names admits one run.
THEOREM OneRunPerToken == Spec => []TokenOnce
<1>1. ASSUME OnceInv PROVE TokenOnce
  <2>1. ASSUME NEW t \in Tokens PROVE enqueued[t] <= 1 + named[t]
    <3>1. Paid(t) /\ enqueued[t] \in Nat /\ named[t] \in Nat
      BY <1>1 DEF OnceInv, TypeOK
    <3>2. Cardinality(Senders(t)) \in Nat /\ Present(t) \in 0..1 /\ Issued(t) \in 0..1
      BY SendersFinite DEF Present, Issued
    <3> QED BY <3>1, <3>2 DEF Paid
  <2> QED BY <2>1 DEF TokenOnce
<1> QED BY <1>1, OnceInit, OnceStep, PTL DEF Spec
-----------------------------------------------------------------------------
(* The ages of the rows *)

\* A handler that is about to claim holds a delivery that is accepted now; the
\* row of a claimed nonce is young enough to stay for as long as the timestamp
\* is accepted; a live token has the row it was issued with.
ClaimFresh ==
  \A h \in Handlers : call[h].pc = "claim" => now <= call[h].ts + Skew
                                            /\ now >= call[h].ts - Skew
Held(n, ts) == rows[n] # 0 /\ rows[n] >= ts - Skew
Claimed ==
  \A n \in Nonces \ Tokens, ts \in Stamps :
    \/ claims[n][ts] = 0
    \/ claims[n][ts] = 1 /\ (Held(n, ts) \/ now > ts + Skew)
LiveRow ==
  \A t \in Tokens : expires[t] # 0 /\ t \notin consumed =>
    now > expires[t] \/ (rows[t] # 0 /\ rows[t] + Ttl = expires[t])

AgeInv == TypeOK /\ ClaimFresh /\ Claimed /\ LiveRow

LEMMA AgeInit == Init => AgeInv
BY InitTyped DEF Init, AgeInv, ClaimFresh, Claimed, LiveRow, Idle

\* A sweep takes a nonce only after its acceptance and a jti only after the
\* expiry of its token.
LEMMA SweptAge ==
  ASSUME TypeOK, NEW table \in [Rows -> 0..MaxTime],
         NEW x \in Rows, table[x] = rows[x]
  PROVE  /\ \A ts \in Stamps : Held(x, ts) => Swept(table)[x] = rows[x] \/ now > ts + Skew
         /\ x \in Tokens /\ rows[x] + Ttl = expires[x] =>
              now > expires[x] \/ Swept(table)[x] = rows[x]
<1>1. Swept(table)[x] = IF table[x] < now - Retention THEN 0 ELSE table[x]
  BY DEF Swept
<1>2. now \in Nat /\ rows[x] \in Nat /\ Skew \in Nat /\ Ttl \in Nat /\ Retention \in Nat
      /\ 2 * Skew <= Retention /\ Ttl <= Retention
  BY AdmissionAssumption DEF TypeOK, AdmissionAssumption
<1>3. \A ts \in Stamps : ts \in Int
  BY AdmissionAssumption DEF AdmissionAssumption, Stamps
<1>4. \A ts \in Stamps : Held(x, ts) => Swept(table)[x] = rows[x] \/ now > ts + Skew
  BY <1>1, <1>2, <1>3 DEF Held
<1>5. x \in Tokens /\ rows[x] + Ttl = expires[x] => now > expires[x] \/ Swept(table)[x] = rows[x]
  BY <1>1, <1>2 DEF TypeOK
<1> QED BY <1>4, <1>5

LEMMA AgeStep == AgeInv /\ [Next]_vars => AgeInv'
<1> SUFFICES ASSUME AgeInv, [Next]_vars PROVE AgeInv'
  OBVIOUS
<1>1. TypeOK /\ TypeOK'
  BY StepTyped DEF AgeInv
<1>2. /\ Skew \in Nat /\ Ttl \in Nat /\ Retention \in Nat
      /\ \A ts \in Stamps : ts \in Int
  BY AdmissionAssumption DEF AdmissionAssumption, Stamps
<1>3. CASE Tick
  <2>1. ClaimFresh'
    BY <1>3 DEF Tick, AgeInv, ClaimFresh
  <2>2. now' = now + 1 /\ now \in Nat /\ UNCHANGED <<rows, expires, claims, consumed>>
    BY <1>1, <1>3 DEF Tick, histories, TypeOK
  <2>3. Claimed'
    BY <1>2, <2>2 DEF AgeInv, Claimed, Held
  <2>4. LiveRow'
    BY <1>1, <2>2 DEF AgeInv, LiveRow, TypeOK
  <2> QED BY <1>1, <2>1, <2>3, <2>4 DEF AgeInv
<1>4. CASE Cleanup
  <2>1. /\ rows \in [Rows -> 0..MaxTime] /\ rows' = Swept(rows)
        /\ UNCHANGED <<now, expires, call, claims, consumed>>
    BY <1>1, <1>4 DEF Cleanup, histories, TypeOK
  <2>2. ASSUME NEW n \in Nonces \ Tokens, NEW ts \in Stamps, Held(n, ts)
        PROVE  rows'[n] = rows[n] \/ now > ts + Skew
    BY <1>1, <2>1, <2>2, SweptAge DEF Rows
  <2>3. ASSUME NEW t \in Tokens, rows[t] + Ttl = expires[t]
        PROVE  now > expires[t] \/ rows'[t] = rows[t]
    BY <1>1, <2>1, <2>3, SweptAge DEF Rows
  <2>4. ClaimFresh'
    BY <2>1 DEF AgeInv, ClaimFresh
  <2>5. Claimed'
    BY <2>1, <2>2 DEF AgeInv, Claimed, Held
  <2>6. LiveRow'
    BY <2>1, <2>3 DEF AgeInv, LiveRow
  <2> QED BY <1>1, <2>4, <2>5, <2>6 DEF AgeInv
<1>5. CASE \E t \in Tokens : Compile(t)
  <2>1. PICK t \in Tokens : Compile(t)
    BY <1>5
  <2>2. \A x \in Rows : rows'[x] = IF x = t THEN now ELSE rows[x]
    BY <1>1, <2>1 DEF Compile, TypeOK
  <2>3. \A u \in Tokens : expires'[u] = IF u = t THEN now + Ttl ELSE expires[u]
    BY <1>1, <2>1 DEF Compile, TypeOK
  <2>4. UNCHANGED <<now, call, claims, consumed>>
    BY <2>1 DEF Compile, histories
  <2>5. \A n \in Nonces \ Tokens : rows'[n] = rows[n]
    BY <2>2 DEF Rows
  <2>6. ClaimFresh' /\ Claimed'
    BY <2>4, <2>5 DEF AgeInv, ClaimFresh, Claimed, Held
  <2>7. LiveRow'
    BY <1>1, <1>2, <2>2, <2>3, <2>4 DEF AgeInv, LiveRow, TypeOK, Rows
  <2> QED BY <1>1, <2>6, <2>7 DEF AgeInv
<1>6. ASSUME NEW h \in Handlers, NEW n \in Nonces, NEW t \in Tokens, NEW ts \in Stamps,
             Receive(h, n, t, ts)
      PROVE  AgeInv'
  <2>1. now <= ts + Skew /\ now >= ts - Skew
    BY <1>1, <1>2, <1>6 DEF Receive, TypeOK
  <2>2. /\ call' = [call EXCEPT ![h] = [pc |-> "claim", nonce |-> n, token |-> t, ts |-> ts]]
        /\ UNCHANGED <<now, rows, expires, claims, consumed>>
    BY <1>6 DEF Receive, histories
  <2>3. ClaimFresh'
    BY <1>1, <2>1, <2>2 DEF AgeInv, ClaimFresh, TypeOK
  <2>4. Claimed' /\ LiveRow'
    BY <2>2 DEF AgeInv, Claimed, Held, LiveRow
  <2> QED BY <1>1, <2>3, <2>4 DEF AgeInv
<1>7. ASSUME NEW h \in Handlers, Claim(h)
      PROVE  AgeInv'
  <2>1. PICK n \in Nonces, stamp \in Stamps :
        /\ n = call[h].nonce /\ stamp = call[h].ts /\ n \in Rows
        /\ now <= stamp + Skew /\ now >= stamp - Skew
        /\ UNCHANGED <<now, expires, consumed>>
    BY <1>1, <1>7 DEF Claim, AgeInv, ClaimFresh, TypeOK, UnderWay, Rows
  <2> DEFINE table == [rows EXCEPT ![n] = now]
  <2>2. ClaimFresh'
    <3>1. \A g \in Handlers : call'[g].pc = "claim" => call'[g] = call[g]
      BY <1>1, <1>7, CallMoves
    <3> QED BY <2>1, <3>1 DEF AgeInv, ClaimFresh
  <2>3. CASE rows[n] # 0
    <3>1. UNCHANGED <<rows, claims>>
      BY <1>7, <2>1, <2>3 DEF Claim
    <3>2. Claimed' /\ LiveRow'
      BY <2>1, <3>1 DEF AgeInv, Claimed, Held, LiveRow
    <3> QED BY <1>1, <2>2, <3>2 DEF AgeInv
  <2>4. CASE rows[n] = 0
    <3>1. rows' = Swept(table) /\ CountClaim(n, stamp)
      BY <1>7, <2>1, <2>4 DEF Claim
    <3>2. /\ table \in [Rows -> 0..MaxTime]
          /\ table[n] = now /\ \A x \in Rows : x # n => table[x] = rows[x]
      BY <1>1, <2>1 DEF TypeOK
    <3>3. rows'[n] = now /\ now # 0
      BY <1>1, <1>2, <2>1, <3>1, <3>2 DEF Swept, TypeOK
    <3>4. LiveRow'
      <4>1. ASSUME NEW t \in Tokens, t # n, rows[t] + Ttl = expires[t]
            PROVE  now > expires[t] \/ rows'[t] = rows[t]
        BY <1>1, <3>1, <3>2, <4>1, SweptAge DEF Rows
      <4> QED BY <2>1, <2>4, <4>1 DEF AgeInv, LiveRow
    <3>5. ASSUME NEW m \in Nonces \ Tokens, NEW ts \in Stamps, m # n
          PROVE  claims'[m][ts] = claims[m][ts]
      BY <1>1, <3>1, <3>5 DEF CountClaim, TypeOK
    <3>6. ASSUME NEW m \in Nonces \ Tokens, NEW ts \in Stamps, m # n, Held(m, ts)
          PROVE  rows'[m] = rows[m] \/ now > ts + Skew
      BY <1>1, <3>1, <3>2, <3>6, SweptAge DEF Rows
    <3>7. ASSUME n \notin Tokens, NEW ts \in Stamps
          PROVE  \/ claims'[n][ts] = 0
                 \/ claims'[n][ts] = 1 /\ (Held(n, ts)' \/ now > ts + Skew)
      <4>1. n \in Nonces \ Tokens /\ claims[n] \in [Stamps -> Nat]
        BY <1>1, <2>1, <3>7 DEF TypeOK
      <4>2. claims[n][ts] = 0 \/ (claims[n][ts] = 1 /\ now > ts + Skew)
        BY <2>1, <2>4, <3>7 DEF AgeInv, Claimed, Held
      <4>3. CASE ts = stamp
        <5>1. now \in Int /\ stamp \in Int
          BY <1>1, <1>2, <2>1 DEF TypeOK
        <5>2. claims[n][ts] = 0
          BY <1>2, <2>1, <4>2, <4>3, <5>1
        <5>3. claims'[n][ts] = 1
          BY <1>1, <3>1, <3>7, <4>1, <4>3, <5>2 DEF CountClaim, TypeOK
        <5>4. Held(n, ts)'
          BY <2>1, <3>3, <4>3 DEF Held
        <5> QED BY <5>3, <5>4
      <4>4. CASE ts # stamp
        <5>1. claims'[n][ts] = claims[n][ts]
          BY <1>1, <3>1, <3>7, <4>1, <4>4 DEF CountClaim, TypeOK
        <5> QED BY <4>2, <5>1
      <4> QED BY <4>3, <4>4
    <3>8. Claimed'
      BY <2>1, <3>5, <3>6, <3>7 DEF AgeInv, Claimed, Held
    <3> QED BY <1>1, <2>2, <3>4, <3>8 DEF AgeInv
  <2> QED BY <2>3, <2>4
<1>8. ASSUME NEW h \in Handlers, Consume(h)
      PROVE  AgeInv'
  <2>1. PICK u \in Tokens :
        u = call[h].token /\ UNCHANGED <<now, expires, claims>> /\ rows' = [rows EXCEPT ![u] = 0]
    BY <1>1, <1>8 DEF Consume, TypeOK, UnderWay
  <2>2. \A x \in Rows : x # u => rows'[x] = rows[x]
    BY <1>1, <2>1 DEF TypeOK
  <2>3. ClaimFresh'
    <3>1. \A g \in Handlers : call'[g].pc = "claim" => call'[g] = call[g]
      BY <1>1, <1>8, CallMoves
    <3> QED BY <2>1, <3>1 DEF AgeInv, ClaimFresh
  <2>4. Claimed'
    BY <2>1, <2>2 DEF AgeInv, Claimed, Held, Rows
  <2>5. LiveRow'
    <3>1. consumed \subseteq consumed'
      BY <1>8 DEF Consume
    <3>2. CASE rows[u] = 0
      <4>1. rows' = rows
        BY <1>1, <2>1, <3>2 DEF TypeOK, Rows
      <4> QED BY <2>1, <3>1, <4>1 DEF AgeInv, LiveRow
    <3>3. CASE rows[u] # 0
      <4>1. u \in consumed'
        BY <1>8, <2>1, <3>3 DEF Consume
      <4> QED BY <2>1, <2>2, <3>1, <4>1 DEF AgeInv, LiveRow, Rows
    <3> QED BY <3>2, <3>3
  <2> QED BY <1>1, <2>3, <2>4, <2>5 DEF AgeInv
<1>9. ASSUME NEW h \in Handlers, Evaluate(h) \/ Enqueue(h) \/ Abort(h)
      PROVE  AgeInv'
  <2>1. \A g \in Handlers : call'[g].pc = "claim" => call'[g] = call[g]
    BY <1>1, <1>9, CallMoves
  <2>2. UNCHANGED <<now, rows, expires, claims, consumed>>
    BY <1>9 DEF Evaluate, Enqueue, Abort, histories
  <2> QED BY <1>1, <2>1, <2>2 DEF AgeInv, ClaimFresh, Claimed, Held, LiveRow
<1>10. CASE UNCHANGED vars
  BY <1>1, <1>10 DEF vars, histories, AgeInv, ClaimFresh, Claimed, Held, LiveRow
<1> QED BY <1>3, <1>4, <1>5, <1>6, <1>7, <1>8, <1>9, <1>10 DEF Next

\* One nonce with one timestamp is claimed at most once, whatever tokens and
\* bodies come with it: while the timestamp is accepted the row of the nonce
\* stays, since the retention is at least twice the skew.
THEOREM OneClaimPerNonce == Spec => []NonceOnce
<1>1. AgeInv => NonceOnce
  BY DEF AgeInv, Claimed, NonceOnce
<1> QED BY <1>1, AgeInit, AgeStep, PTL DEF Spec

\* A token that nobody consumed works until it expires, since the retention is
\* not shorter than the life of a token and its row is there to refuse a claim
\* of its name.
THEOREM LiveTokenRedeemable == Spec => []TokenRedeemable
<1>1. AgeInv => TokenRedeemable
  BY DEF AgeInv, LiveRow, TokenRedeemable, TypeOK
<1> QED BY <1>1, AgeInit, AgeStep, PTL DEF Spec
=============================================================================
