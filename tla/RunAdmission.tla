---------------------------- MODULE RunAdmission ----------------------------
(***************************************************************************)
(* POST /run of apps/api/src/server.ts: what stands between a compiled     *)
(* intent and the job queue. POST /rules/compile-intents issues a decision *)
(* token for an approved intent and registers its jti; a caller signs      *)
(* bodies, and sends each with a nonce and the token as headers, which the *)
(* signature does not cover: a signed body may be delivered any number of  *)
(* times, to several handlers at once, under any nonce. jtis and nonces    *)
(* are rows of one table, swept by age, and a nonce may spell the name of  *)
(* a token's row.                                                          *)
(*                                                                         *)
(* Abstractions: time is a counter, with ages that are small numbers; the  *)
(* HMACs and the fingerprint are what they promise, so that a delivery is  *)
(* a timestamp, the token that fits its body, and a nonce; sanitizeIntent  *)
(* and the constitution pass or reject an intent by choice; one tenant. A  *)
(* jti is random: a nonce spells its row only after the token was issued.  *)
(* The wait for a connection is short against the unit of time: no tick    *)
(* between the receipt of a request and the claim of its nonce.            *)
(***************************************************************************)
EXTENDS Integers, FiniteSets

CONSTANTS
  Tokens,     \* the jtis of decision tokens, which name their rows
  Nonces,     \* what callers send as a nonce; a member of Tokens is the name of its row
  Handlers,   \* calls of POST /run that can be under way at once
  Skew,       \* RUN_INTENT_MAX_SKEW_SECONDS
  Ttl,        \* DECISION_TOKEN_TTL_SECONDS
  Retention,  \* NONCE_RETENTION_HOURS
  MaxTime,    \* bound of the model
  MaxNamed    \* bound of the model: claims that name a token's row

\* The defaults of env.ts: 300 s, 300 s, 24 h.
ASSUME AdmissionAssumption ==
  /\ IsFiniteSet(Handlers)
  /\ Skew \in Nat /\ Ttl \in Nat /\ Retention \in Nat
  /\ 2 * Skew <= Retention /\ Ttl <= Retention
  /\ MaxTime \in Nat \ {0} /\ MaxNamed \in Nat

VARIABLES
  now,
  rows,      \* RequestNonce: the creation time of a row, 0 without a row
  expires,   \* exp of the tokens, 0 for one that was not issued
  call,      \* the handlers, with what they still need of their delivery
  claims,    \* history: how often a nonce was claimed with a timestamp
  named,     \* history: how often a claim created the row of a token
  consumed,  \* history: the tokens whose jti a handler consumed
  enqueued   \* history: the jobs sent for a token

histories == <<claims, named, consumed, enqueued>>
vars == <<now, rows, expires, call, histories>>

\* The timestamps that are accepted at some time
Stamps == (1 - Skew)..(MaxTime + Skew)
Rows == Tokens \cup Nonces
Idle == [pc |-> "idle", nonce |-> "none", token |-> "none", ts |-> 0]

Goto(h, pc) == call' = [call EXCEPT ![h].pc = pc]
Answer(h) == call' = [call EXCEPT ![h] = Idle]
-----------------------------------------------------------------------------
Tick ==
  /\ now < MaxTime
  /\ \A h \in Handlers : call[h].pc # "claim"
  /\ now' = now + 1
  /\ UNCHANGED <<rows, expires, call, histories>>

\* compile-intents: the jti row, then the token.
Compile(t) ==
  /\ expires[t] = 0
  /\ rows' = [rows EXCEPT ![t] = now]
  /\ expires' = [expires EXCEPT ![t] = now + Ttl]
  /\ UNCHANGED <<now, call, histories>>

\* A nonce that callers can know; those that name a row up to a bound
Spelled(n) == n \in Tokens => expires[n] # 0 /\ named[n] < MaxNamed

\* Mutant: the token is not verified.
ReceiveUnverified(h, n, t, ts) ==
  /\ call[h].pc = "idle"
  /\ now - ts \in -Skew..Skew
  /\ Spelled(n)
  /\ call' = [call EXCEPT ![h] = [pc |-> "claim", nonce |-> n, token |-> t, ts |-> ts]]
  /\ UNCHANGED <<now, rows, expires, histories>>

\* verifyRunSignature and verifyDecisionToken: all before the first await. A
\* request that fails a check is answered with an error.
Receive(h, n, t, ts) ==
  /\ call[h].pc = "idle"
  /\ now - ts \in -Skew..Skew
  /\ expires[t] >= now
  /\ Spelled(n)
  /\ call' = [call EXCEPT ![h] = [pc |-> "claim", nonce |-> n, token |-> t, ts |-> ts]]
  /\ UNCHANGED <<now, rows, expires, histories>>

\* Mutant: the cutoff itself is swept too.
SweptInclusive(table) ==
  [x \in Rows |-> IF table[x] <= now - Retention THEN 0 ELSE table[x]]

\* Mutant: the cutoff of another limit.
SweptBySkew(table) ==
  [x \in Rows |-> IF table[x] < now - Skew THEN 0 ELSE table[x]]

\* deleteMany of the rows created before the cutoff
Swept(table) ==
  [x \in Rows |-> IF table[x] < now - Retention THEN 0 ELSE table[x]]

CountClaim(n, ts) ==
  IF n \in Tokens
  THEN named' = [named EXCEPT ![n] = @ + 1] /\ UNCHANGED claims
  ELSE claims' = [claims EXCEPT ![n][ts] = @ + 1] /\ UNCHANGED named

\* claimRunNonce: the create fails on a row that is there (REPLAYED_NONCE),
\* whatever it was created for, and the transaction with it.
Claim(h) ==
  LET n == call[h].nonce IN
  /\ call[h].pc = "claim"
  /\ IF rows[n] # 0
     THEN Answer(h) /\ UNCHANGED <<rows, claims, named>>
     ELSE /\ rows' = Swept([rows EXCEPT ![n] = now])
          /\ CountClaim(n, call[h].ts)
          /\ call' = [call EXCEPT ![h] = [Idle EXCEPT !.pc = "evaluate", !.token = call[h].token]]
  /\ UNCHANGED <<now, expires, consumed, enqueued>>

\* sanitizeIntent, evaluateConstitution and the policy snapshot
Evaluate(h) ==
  /\ call[h].pc = "evaluate"
  /\ Goto(h, "consume") \/ Answer(h)
  /\ UNCHANGED <<now, rows, expires, histories>>

\* Mutant: the count of deleted rows is not looked at.
ConsumeUncounted(h) ==
  /\ call[h].pc = "consume"
  /\ rows' = [rows EXCEPT ![call[h].token] = 0]
  /\ consumed' = consumed \cup {call[h].token}
  /\ Goto(h, "enqueue")
  /\ UNCHANGED <<now, expires, claims, named, enqueued>>

\* consumeDecisionTokenJti: one deleteMany, and its count.
Consume(h) ==
  LET t == call[h].token IN
  /\ call[h].pc = "consume"
  /\ rows' = [rows EXCEPT ![t] = 0]
  /\ IF rows[t] = 0
     THEN Answer(h) /\ UNCHANGED consumed
     ELSE Goto(h, "enqueue") /\ consumed' = consumed \cup {t}
  /\ UNCHANGED <<now, expires, claims, named, enqueued>>

Enqueue(h) ==
  /\ call[h].pc = "enqueue"
  /\ enqueued' = [enqueued EXCEPT ![call[h].token] = @ + 1]
  /\ Answer(h)
  /\ UNCHANGED <<now, rows, expires, claims, named, consumed>>

\* The process ends, or a statement fails: between the claim and the send
\* nothing is undone.
Abort(h) ==
  /\ call[h].pc # "idle"
  /\ Answer(h)
  /\ UNCHANGED <<now, rows, expires, histories>>

\* startNonceCleanupScheduler
Cleanup ==
  /\ rows' = Swept(rows)
  /\ UNCHANGED <<now, expires, call, histories>>
-----------------------------------------------------------------------------
Init ==
  /\ now = 1
  /\ rows = [x \in Rows |-> 0]
  /\ expires = [t \in Tokens |-> 0]
  /\ call = [h \in Handlers |-> Idle]
  /\ claims = [n \in Nonces \ Tokens |-> [ts \in Stamps |-> 0]]
  /\ named = [t \in Tokens |-> 0]
  /\ consumed = {}
  /\ enqueued = [t \in Tokens |-> 0]

Next ==
  \/ Tick \/ Cleanup
  \/ \E t \in Tokens : Compile(t)
  \/ \E h \in Handlers, n \in Nonces, t \in Tokens, ts \in Stamps : Receive(h, n, t, ts)
  \/ \E h \in Handlers :
       Claim(h) \/ Evaluate(h) \/ Consume(h) \/ Enqueue(h) \/ Abort(h)

Spec == Init /\ [][Next]_vars
-----------------------------------------------------------------------------
(* Properties *)

\* The shape of the rows and calls; a call under way has an issued token.
CallRecords ==
  [pc : {"idle", "claim", "evaluate", "consume", "enqueue"},
   nonce : Nonces \cup {"none"}, token : Tokens \cup {"none"}, ts : Int]
UnderWay(c) ==
  /\ c.pc # "idle" => c.token \in Tokens /\ expires[c.token] # 0
  /\ c.pc = "claim" => c.nonce \in Nonces /\ c.ts \in Stamps
TypeOK ==
  /\ now \in 1..MaxTime
  /\ rows \in [Rows -> 0..MaxTime]
  /\ expires \in [Tokens -> Nat]
  /\ call \in [Handlers -> CallRecords]
  /\ \A h \in Handlers : UnderWay(call[h])
  /\ claims \in [Nonces \ Tokens -> [Stamps -> Nat]]
  /\ named \in [Tokens -> Nat]
  /\ consumed \subseteq Tokens
  /\ enqueued \in [Tokens -> Nat]

\* A decision token admits one run for each time its row was created: the one
\* of compile-intents, and one for each claim of a nonce that names the row,
\* however many deliveries carry the token, at once or one after another. A
\* token whose row no nonce names admits one run.
TokenOnce == \A t \in Tokens : enqueued[t] <= 1 + named[t]

\* A delivery passes the nonce claim once, for as long as its timestamp is
\* accepted: the row of its nonce is not swept before. (The signed body does,
\* under another nonce; what then stops it is the row of its token.) A nonce
\* that names a token's row is consumed with it, and is left out.
NonceOnce ==
  \A n \in Nonces \ Tokens, ts \in Stamps : claims[n][ts] <= 1

\* A token that nobody consumed works until it expires: the sweep of old
\* nonces does not take the jti of a live token, and no claim can take its name.
TokenRedeemable ==
  \A t \in Tokens :
    expires[t] # 0 /\ t \notin consumed /\ now <= expires[t] => rows[t] # 0
=============================================================================
