---------------------------- MODULE LedgerWrites ----------------------------
(***************************************************************************)
(* POST /ledger of harness-routes.ts: the confidence ledger, its minimum      *)
(* interval per tenant and its idempotency keys, both kept in maps of the     *)
(* process. A request stamps the interval and looks its key up in one go,     *)
(* then awaits the write, then stores the key.                               *)
(***************************************************************************)
EXTENDS Naturals, FiniteSets

CONSTANTS
  Requests,    \* the requests that are sent, each with a tenant and a key
  Owner, KeyOf,  \* of each request; "none" is no key
  Interval,    \* LEDGER_RATE_LIMIT_MS
  Ttl,         \* IDEMPOTENCY_TTL_MS
  MaxTime, MaxLives  \* bounds of the model

VARIABLES
  time,
  stamp,       \* ledgerRateLimit: tenant -> time, 0 when absent
  known,       \* ledgerIdempotency: entries with a key, a request (id) and a time
  post,        \* each request: not sent, writing, or answered
  begun,       \* history: when a request passed the interval
  ended,       \* history: when its row was written; 0: no row
  life,        \* history: the life of the process it was accepted in
  lives        \* how many times the process was started

ledgerVars == <<time, stamp, known, post, begun, ended, life, lives>>

Tenants == {Owner[r] : r \in Requests}
CacheKey(r) == <<Owner[r], KeyOf[r]>>

\* Mutant: a key is forgotten with the interval.
FreshKeysShort == {k \in known : time - k.ts <= Interval}

\* evictLedgerMaps
FreshStamps(st) == [t \in Tenants |-> IF time - st[t] > Interval THEN 0 ELSE st[t]]
FreshKeys == {k \in known : time - k.ts <= Ttl}

TooSoon(r) == stamp[Owner[r]] # 0 /\ time - stamp[Owner[r]] < Interval

\* 429
Refused(r) ==
  /\ post[r] = "new" /\ TooSoon(r)
  /\ post' = [post EXCEPT ![r] = "refused"]
  /\ UNCHANGED <<time, stamp, known, begun, ended, life, lives>>

Accepted(r) ==
  /\ post[r] = "new" /\ ~TooSoon(r)
  /\ stamp' = FreshStamps([stamp EXCEPT ![Owner[r]] = time])
  /\ known' = FreshKeys
  /\ IF KeyOf[r] # "none" /\ \E k \in FreshKeys : k.key = CacheKey(r)
     THEN post' = [post EXCEPT ![r] = "repeated"] /\ UNCHANGED begun
     ELSE post' = [post EXCEPT ![r] = "writing"] /\ begun' = [begun EXCEPT ![r] = time]
  /\ life' = [life EXCEPT ![r] = lives]
  /\ UNCHANGED <<time, ended, lives>>

\* writeConfidenceLedger, then the key
Written(r) ==
  /\ post[r] = "writing"
  /\ post' = [post EXCEPT ![r] = "written"]
  /\ ended' = [ended EXCEPT ![r] = time]
  /\ known' = IF KeyOf[r] = "none" THEN known
              ELSE {k \in known : k.key # CacheKey(r)} \cup {[key |-> CacheKey(r), ts |-> time]}
  /\ UNCHANGED <<time, stamp, begun, life, lives>>

\* 500, or no answer: whether the row was written is not known.
Failed(r) ==
  /\ post[r] = "writing"
  /\ post' = [post EXCEPT ![r] = "failed"]
  /\ ended' \in {ended, [ended EXCEPT ![r] = time]}
  /\ UNCHANGED <<time, stamp, known, begun, life, lives>>

\* The maps are the process's: a restart empties them.
Restart ==
  /\ lives < MaxLives /\ lives' = lives + 1
  /\ known' = {} /\ stamp' = [t \in Tenants |-> 0]
  /\ post' = [r \in Requests |-> IF post[r] = "writing" THEN "failed" ELSE post[r]]
  /\ UNCHANGED <<time, begun, ended, life>>

Tick ==
  /\ time < MaxTime /\ time' = time + 1
  /\ UNCHANGED <<stamp, known, post, begun, ended, life, lives>>

Init ==
  /\ time = 1 /\ stamp = [t \in Tenants |-> 0] /\ known = {}
  /\ post = [r \in Requests |-> "new"]
  /\ begun = [r \in Requests |-> 0] /\ ended = [r \in Requests |-> 0]
  /\ life = [r \in Requests |-> 0] /\ lives = 0

Next == Tick \/ Restart \/ \E r \in Requests : Refused(r) \/ Accepted(r) \/ Written(r) \/ Failed(r)

Spec == Init /\ [][Next]_ledgerVars
-----------------------------------------------------------------------------
(* Properties *)

TypeOK ==
  /\ time \in 1..MaxTime /\ stamp \in [Tenants -> 0..time] /\ lives \in 0..MaxLives
  /\ known \subseteq [key : {CacheKey(r) : r \in Requests}, ts : 1..time]
  /\ post \in [Requests -> {"new", "refused", "repeated", "writing", "written", "failed"}]
  /\ begun \in [Requests -> 0..time] /\ ended \in [Requests -> 0..time]
  /\ life \in [Requests -> 0..lives]

\* The key is looked up before the write and stored after it, and it is the
\* interval that keeps a repetition apart: within a life of the process and
\* the time a key is kept, a request that was answered is written a second time
\* only if its first write took the whole interval.
WrittenTwiceOnlyIfSlow ==
  \A a, b \in Requests :
    /\ a # b /\ CacheKey(a) = CacheKey(b) /\ KeyOf[a] # "none"
    /\ post[a] = "written" /\ ended[b] # 0
    /\ life[a] = life[b] /\ begun[a] <= begun[b]
    => ended[a] - begun[a] >= Interval \/ begun[b] - ended[a] > Ttl
=============================================================================
