------------------------------ MODULE ProductTree ------------------------------
(***************************************************************************)
(* A product with its commodities and their listings: the stages that        *)
(* lifecycle.ts rolls up, the routes of server.ts and mdm-asset-routes.ts     *)
(* that change listings, and DELETE /products/:id. A status is written in     *)
(* one transaction and the stages in a second one, READ COMMITTED: each       *)
(* level is read, and written in the statement after.                        *)
(***************************************************************************)
EXTENDS FiniteSets

CONSTANTS
  Listings, Commodities,
  Requests   \* calls that change a listing or delete the product

VARIABLES
  tree,      \* the product, commodities and listings that exist
  listed,    \* each listing: its commodity and status
  stage,     \* lifecycleStage of each commodity, and of the product
  bound,     \* ERP or WMS records are mapped to the product
  request,   \* each call: where it is and what it has read or written
  together,  \* history: two calls were under way at once
  unsynced   \* history: a change was not followed by a roll-up

treeVars == <<tree, listed, stage, bound, request, together, unsynced>>

Product == "product"
None == "none"
Statuses == {"DRAFT", "ACTIVE", "PAUSED", "ARCHIVED"}
Waiting == [pc |-> "ready", of |-> None, stage |-> "NEW", product |-> "NEW", seen |-> {}]

Live == tree \cap Listings
Of(c) == {l \in Live : listed[l].of = c}

\* aggregateListingStatuses and aggregateCommodityStages
RollUp(stages, live, halted, over) ==
  IF live \in stages THEN "GROWTH"
  ELSE IF halted \in stages THEN "STABLE"
  ELSE IF stages = {over} THEN "SUNSET"
  ELSE "NEW"

CommodityStage(c) == RollUp({listed[l].status : l \in Of(c)}, "ACTIVE", "PAUSED", "ARCHIVED")
ProductStage(stages) == RollUp({stages[c] : c \in Commodities \cap tree}, "GROWTH", "STABLE", "SUNSET")

Busy == {r \in Requests : request[r].pc \notin {"ready", "done"}}

\* A call begins, at the step it has to take first.
Enter(r, step, c) ==
  /\ request[r].pc = "ready" /\ Product \in tree
  /\ request' = [request EXCEPT ![r] = [Waiting EXCEPT !.pc = step, !.of = c, !.seen = Commodities \cap tree]]
  /\ together' = (together \/ Busy # {})
-----------------------------------------------------------------------------
\* POST /listings and PATCH /listings/:id/status of server.ts. A listing
\* without a commodity has nothing to roll up.
CreateListing(r) ==
  \E l \in Listings \ tree, c \in Commodities \cap tree, s \in Statuses :
    /\ Enter(r, "listings", c)
    /\ tree' = tree \cup {l} /\ listed' = [listed EXCEPT ![l] = [of |-> c, status |-> s]]
    /\ UNCHANGED <<stage, bound, unsynced>>

SetStatus(r) ==
  \E l \in Live, s \in Statuses :
    /\ Enter(r, IF listed[l].of = None THEN "done" ELSE "listings", listed[l].of)
    /\ listed' = [listed EXCEPT ![l].status = s]
    /\ UNCHANGED <<tree, stage, bound, unsynced>>

\* The routes under /mdm import a listing, change it, map it to a commodity,
\* and create commodities, and nothing is rolled up.
ImportListing ==
  \E l \in Listings \ tree :
    /\ tree' = tree \cup {l} /\ listed' = [listed EXCEPT ![l] = [of |-> None, status |-> "DRAFT"]]
    /\ UNCHANGED <<stage, bound, request, together, unsynced>>

PutListing ==
  \E l \in Live, c \in Commodities \cap tree, s \in Statuses :
    /\ listed' = [listed EXCEPT ![l] = [of |-> c, status |-> s]] /\ unsynced' = TRUE
    /\ UNCHANGED <<tree, stage, bound, request, together>>

CreateCommodity ==
  \E c \in Commodities \ tree :
    /\ Product \in tree /\ tree' = tree \cup {c}
    /\ stage' = [stage EXCEPT ![c] = "NEW"] /\ unsynced' = TRUE
    /\ UNCHANGED <<listed, bound, request, together>>

Bind ==
  /\ Product \in tree /\ ~bound /\ bound' = TRUE
  /\ UNCHANGED <<tree, listed, stage, request, together, unsynced>>
-----------------------------------------------------------------------------
(* lifecycle.ts. POST /lifecycle/sync enters at the level it is asked for. *)

Sync(r) ==
  /\ \/ \E c \in Commodities \cap tree : Enter(r, "listings", c)
     \/ Enter(r, "commodities", None)
  /\ UNCHANGED <<tree, listed, stage, bound, unsynced>>

ReadListings(r) ==
  LET c == request[r].of IN
  /\ request[r].pc = "listings" /\ c \in tree
  /\ request' = [request EXCEPT ![r].pc = "commodity", ![r].stage = CommodityStage(c)]
  /\ UNCHANGED <<tree, listed, stage, bound, together, unsynced>>

\* The commodity's row stays locked until the transaction ends.
Holds(r, c) == request[r].of = c /\ request[r].pc \in {"commodities", "product"}

WriteCommodity(r) ==
  /\ request[r].pc = "commodity" /\ request[r].of \in tree /\ \A q \in Requests : ~Holds(q, request[r].of)
  /\ request' = [request EXCEPT ![r].pc = "commodities"]
  /\ UNCHANGED <<tree, listed, stage, bound, together, unsynced>>

\* Mutant: the product is rolled up from what was there before.
SeesCommitted(r) == stage

\* Every stage that is committed, and its own
Sees(r) == IF request[r].of = None THEN stage ELSE [stage EXCEPT ![request[r].of] = request[r].stage]

ReadCommodities(r) ==
  /\ request[r].pc = "commodities"
  /\ request' = [request EXCEPT ![r].pc = "product", ![r].product = ProductStage(Sees(r))]
  /\ UNCHANGED <<tree, listed, stage, bound, together, unsynced>>

WriteProduct(r) ==
  /\ request[r].pc = "product" /\ Product \in tree
  /\ request' = [request EXCEPT ![r] = [Waiting EXCEPT !.pc = "done"]]
  /\ stage' = [Sees(r) EXCEPT ![Product] = request[r].product]
  /\ UNCHANGED <<tree, listed, bound, together, unsynced>>

\* The roll-up fails, or the process ends: the status stays.
Abort(r) ==
  /\ request[r].pc \in {"listings", "commodity", "commodities", "product", "delete"}
  /\ request' = [request EXCEPT ![r] = [Waiting EXCEPT !.pc = "done"]]
  /\ unsynced' = TRUE
  /\ UNCHANGED <<tree, listed, stage, bound, together>>
-----------------------------------------------------------------------------
\* DELETE /products/:id: the check has a transaction of its own.
CheckDelete(r) ==
  /\ Enter(r, IF bound /\ \E l \in Live : listed[l].of # None THEN "done" ELSE "delete", None)
  /\ UNCHANGED <<tree, listed, stage, bound, unsynced>>

\* Rows a roll-up has written are waited for, and a listing that refers to a
\* commodity created since the check makes the transaction fail.
Deletable(r) ==
  /\ \A q \in Requests : request[q].pc \notin {"commodities", "product"}
  /\ \A l \in Live : listed[l].of \in request[r].seen \cup {None}

Delete(r) ==
  /\ request[r].pc = "delete" /\ Product \in tree /\ Deletable(r)
  /\ tree' = {l \in Live : listed[l].of \notin request[r].seen}
  /\ bound' = FALSE
  /\ request' = [request EXCEPT ![r] = [Waiting EXCEPT !.pc = "done"]]
  /\ UNCHANGED <<listed, stage, together, unsynced>>

Init ==
  /\ \E known \in SUBSET Commodities : tree = {Product} \cup known
  /\ bound = FALSE
  /\ listed = [l \in Listings |-> [of |-> None, status |-> "DRAFT"]]
  /\ stage = [x \in Commodities \cup {Product} |-> "NEW"]
  /\ request = [r \in Requests |-> Waiting] /\ together = FALSE /\ unsynced = FALSE

Next ==
  \/ ImportListing \/ PutListing \/ CreateCommodity \/ Bind
  \/ \E r \in Requests :
       \/ CreateListing(r) \/ SetStatus(r) \/ Sync(r) \/ ReadListings(r) \/ WriteCommodity(r)
       \/ ReadCommodities(r) \/ WriteProduct(r) \/ Abort(r) \/ CheckDelete(r) \/ Delete(r)

Spec == Init /\ [][Next]_treeVars
-----------------------------------------------------------------------------
(* Properties *)

TypeOK ==
  /\ tree \subseteq {Product} \cup Commodities \cup Listings
  /\ \A l \in Live : listed[l].of \in (Commodities \cap tree) \cup {None}
  /\ \A x \in DOMAIN stage : stage[x] \in {"NEW", "GROWTH", "STABLE", "SUNSET"}

\* Once a change has been rolled up, every stage is that of the listings below
\* it, unless two calls ran together, or one of the routes that roll nothing up
\* changed something.
StagesRolledUp ==
  Busy = {} /\ ~together /\ ~unsynced /\ Product \in tree =>
    /\ \A c \in Commodities \cap tree : stage[c] = CommodityStage(c)
    /\ stage[Product] = ProductStage(stage)
=============================================================================
