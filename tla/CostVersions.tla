----------------------------- MODULE CostVersions -----------------------------
(***************************************************************************)
(* The cost versions of one product, mdm-asset-routes.ts: PUT                *)
(* /products/:id, which derives a version from a changed price, POST         *)
(* .../cost-versions, which takes any window, and POST .../revoke. A version *)
(* is created in two statements of a READ COMMITTED transaction: one ends    *)
(* the open versions, the other inserts. A statement sees what was committed *)
(* when it began, waits for rows another transaction has changed, and looks  *)
(* at them again.                                                          *)
(***************************************************************************)
EXTENDS Naturals, FiniteSets

CONSTANTS
  Changes,   \* calls of PUT and POST
  Prices,    \* costs; 0 is the one the product has at first, without a version
  MaxClock   \* bound of the model

VARIABLES
  clock,
  price,     \* costPrice of the product
  costs,     \* committed versions: who made it, cost, from, to, active, and who it had seen
  change,    \* each call: where it is and what its transaction has done
  stale,     \* history: a PUT compared with a price that had changed since
  manual     \* history: a version came or went by hand

costVars == <<clock, price, costs, change, stale, manual>>

Never == MaxClock + 2
Idle == [pc |-> "ready", kind |-> "put", cost |-> 0, old |-> 0, from |-> 0, to |-> Never,
         seen |-> {}, ended |-> {}, known |-> {}]

OpenVersions == {v \in costs : v.active /\ v.to = Never}
InForce == {v \in costs : v.active /\ v.from <= clock /\ clock < v.to}
Makers == {v.by : v \in costs}
Locked(c) == UNION {change[d].ended : d \in Changes \ {c}}
-----------------------------------------------------------------------------
\* PUT reads the product in a transaction of its own.
BeginPut(c) ==
  /\ change[c].pc = "ready"
  /\ \E p \in Prices :
       change' = [change EXCEPT ![c] = [Idle EXCEPT !.pc = "update", !.cost = p, !.old = price]]
  /\ UNCHANGED <<clock, price, costs, stale, manual>>

CostChanged(c) == change[c].cost # change[c].old

\* product.update: the row is locked until the transaction ends.
HoldsProduct(d) == change[d].kind = "put" /\ change[d].pc \in {"see", "end", "insert"}

UpdateProduct(c) ==
  /\ change[c].pc = "update" /\ \A d \in Changes : ~HoldsProduct(d)
  /\ IF CostChanged(c)
     THEN /\ change' = [change EXCEPT ![c].pc = "see", ![c].from = clock]
          /\ UNCHANGED price
     ELSE /\ change' = [change EXCEPT ![c] = [Idle EXCEPT !.pc = "done"]]
          /\ price' = change[c].cost
  /\ stale' = (stale \/ change[c].old # price)
  /\ UNCHANGED <<clock, costs, manual>>

\* A window of one's own: one that began before now needs an end.
BeginManual(c) ==
  /\ change[c].pc = "ready"
  /\ \E p \in Prices, from \in 0..MaxClock, to \in (1..MaxClock) \cup {Never} :
       /\ from < to /\ ~(from < clock /\ to = Never)
       /\ change' = [change EXCEPT ![c] =
            [Idle EXCEPT !.pc = "see", !.kind = "manual", !.cost = p, !.from = from, !.to = to]]
  /\ UNCHANGED <<clock, price, costs, stale, manual>>

\* Mutant: the open versions that start later are looked for.
ToEndLater(v, from) == v.from > from

ToEnd(v, from) == v.from <= from

\* updateMany sees the open versions that start no later.
See(c) ==
  /\ change[c].pc = "see"
  /\ change' = [change EXCEPT ![c].pc = "end", ![c].known = Makers,
                              ![c].seen = {v \in OpenVersions : ToEnd(v, change[c].from)}]
  /\ UNCHANGED <<clock, price, costs, stale, manual>>

\* It waits for them and ends those still open. A version that would end when
\* it starts is refused by CostVersion_effective_window_chk.
End(c) ==
  /\ change[c].pc = "end" /\ change[c].seen \cap Locked(c) = {}
  /\ LET rows == change[c].seen \cap OpenVersions IN
     change' = IF \A v \in rows : v.from < change[c].from
               THEN [change EXCEPT ![c].pc = "insert", ![c].ended = rows, ![c].seen = {}]
               ELSE [change EXCEPT ![c] = [Idle EXCEPT !.pc = "failed"]]
  /\ UNCHANGED <<clock, price, costs, stale, manual>>

Insert(c) ==
  LET own == change[c] IN
  /\ own.pc = "insert"
  /\ costs' = (costs \ own.ended) \cup {[v EXCEPT !.to = own.from] : v \in own.ended}
       \cup {[by |-> c, cost |-> own.cost, from |-> own.from, to |-> own.to, active |-> TRUE,
              known |-> own.known]}
  /\ price' = IF own.kind = "put" THEN own.cost ELSE price
  /\ manual' = (manual \/ own.kind = "manual")
  /\ change' = [change EXCEPT ![c] = [Idle EXCEPT !.pc = "done"]]
  /\ UNCHANGED <<clock, stale>>

Abort(c) ==
  /\ change[c].pc \in {"update", "see", "end", "insert"}
  /\ change' = [change EXCEPT ![c] = [Idle EXCEPT !.pc = "failed"]]
  /\ UNCHANGED <<clock, price, costs, stale, manual>>

\* The end of a revoked version is the earlier of its own and the given one.
Revoke ==
  /\ \E v \in costs \ UNION {change[d].ended : d \in Changes}, at \in 0..MaxClock :
       /\ v.from < at \/ v.to < at
       /\ costs' = (costs \ {v}) \cup {[v EXCEPT !.active = FALSE, !.to = IF v.to < at THEN v.to ELSE at]}
  /\ manual' = TRUE
  /\ UNCHANGED <<clock, price, change, stale>>

Tick ==
  /\ clock < MaxClock /\ clock' = clock + 1
  /\ UNCHANGED <<price, costs, change, stale, manual>>

Init ==
  /\ clock = 0 /\ price = 0 /\ costs = {} /\ stale = FALSE /\ manual = FALSE
  /\ change = [c \in Changes |-> Idle]

Next ==
  \/ Tick \/ Revoke
  \/ \E c \in Changes : \/ BeginPut(c) \/ UpdateProduct(c) \/ BeginManual(c)
                        \/ See(c) \/ End(c) \/ Insert(c) \/ Abort(c)

Spec == Init /\ [][Next]_costVars
-----------------------------------------------------------------------------
(* Properties *)

TypeOK ==
  /\ clock \in 0..MaxClock /\ price \in Prices \cup {0}
  /\ \A v \in costs : v.from < v.to /\ v.by \in Changes
  /\ \A c \in Changes : change[c].ended \subseteq costs

\* A version that has no end ends every earlier one that has none: two are
\* open together only if neither knew of the other, or the one that did know
\* starts first.
LaterEndsEarlier ==
  \A v, w \in OpenVersions : v # w /\ v.by \in w.known => w.from < v.from

\* Where prices change by PUT alone, the product's price is the cost in force,
\* unless a PUT compared its price with one that was no longer there.
PriceInForce ==
  ~manual /\ ~stale /\ costs # {} => {v.cost : v \in InForce} = {price}
=============================================================================
