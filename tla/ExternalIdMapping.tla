------------------------- MODULE ExternalIdMapping -------------------------
(***************************************************************************)
(* The mapping of external ids to products and listings: the handlers of   *)
(* apps/api/src/mdm-mapping-routes.ts, the dual write of the older mapping *)
(* routes (mdm-asset-routes.ts), and the isolation handler that freezes    *)
(* the product of a revoked mapping (mdm-isolation-handler.ts).            *)
(*                                                                         *)
(* A handler is one transaction under READ COMMITTED: it reads, then       *)
(* writes by row id and commits, then publishes. The writes of a           *)
(* transaction and its commit are one step: from the first write on, the   *)
(* row locks and the unique index make others wait.                        *)
(*                                                                         *)
(* Abstractions: a key is a tenant, entity type, source system, external   *)
(* id and sub id; of the expected_version check only its outcome counts,   *)
(* and a call that fails it changes nothing; events nobody subscribes to   *)
(* (entity.mapping.approved, sku-mapping.mapped) are left out.             *)
(***************************************************************************)
EXTENDS Integers, Sequences

CONSTANTS
  Keys,         \* external keys
  ProductKeys,  \* the keys of entity type PRODUCT
  Products,     \* global ids
  Handlers,     \* calls that can be under way at once
  DualWrite,    \* MAPPING_WRITE_MODE: 'dual' (TRUE) or 'new_only' (FALSE)
  MaxRows,      \* bound of the model: mappings
  MaxVersion    \* bound of the model: the version of a mapping

ASSUME MappingAssumption ==
  /\ ProductKeys \subseteq Keys /\ DualWrite \in BOOLEAN
  /\ MaxRows \in Nat /\ MaxVersion \in Nat

VARIABLES
  rows,    \* ExternalIdMapping with its MappingHistory, in order of creation
  call,    \* the handlers
  frozen,  \* the products with featureFrozen
  lost     \* history: the mappings with a revocation that was not delivered

vars == <<rows, call, frozen, lost>>

NoTransaction(pc, events) ==
  [pc |-> pc, op |-> "none", key |-> "none", todo |-> {}, saw |-> <<>>,
   product |-> "none", events |-> events]
Idle == NoTransaction("idle", {})

Ids == DOMAIN rows
OfKey(k) == {n \in Ids : rows[n].key = k}
ApprovedOf(k) == {n \in OfKey(k) : rows[n].status = "APPROVED"}
Answer(h) == call' = [call EXCEPT ![h] = Idle]
-----------------------------------------------------------------------------
(* Rows *)

NewRow(k, p, st) == [key |-> k, status |-> st, product |-> p, version |-> 1,
                     history |-> <<[old |-> "none", new |-> st]>>]

\* update and appendHistory: the history has the status that was read
Moved(row, p, old, st) ==
  [key |-> row.key, status |-> st, product |-> p, version |-> row.version + 1,
   history |-> Append(row.history, [old |-> old, new |-> st])]

\* The mappings S move to st, the mappings T are soft-revoked.
Updated(h, S, st, p, T) ==
  [n \in Ids |->
     IF n \in S THEN Moved(rows[n], p, call[h].saw[n], st)
     ELSE IF n \in T THEN Moved(rows[n], rows[n].product, "APPROVED", "SOFT_REVOKED")
     ELSE rows[n]]

\* Mutant: the migration does not create the index.
RefusedNever(S) == FALSE

\* ExternalIdMapping_approved_unique_idx: one APPROVED mapping of a key. An
\* update that would make a second one fails, and its transaction with it.
Refused(S) ==
  \/ \E n \in S : ApprovedOf(rows[n].key) \ {n} # {}
  \/ \E n, m \in S : n # m /\ rows[n].key = rows[m].key

Rivals(S) == UNION {ApprovedOf(rows[n].key) : n \in S} \ S
-----------------------------------------------------------------------------
(* What a handler reads *)

Read(h, op, k, S, p) ==
  /\ call[h].pc = "idle"
  /\ \A n \in S : rows[n].version < MaxVersion
  /\ call' = [call EXCEPT ![h] =
                [pc |-> "write", op |-> op, key |-> k, todo |-> S,
                 saw |-> [n \in IF op = "map" THEN OfKey(k) ELSE S |-> rows[n].status],
                 product |-> p, events |-> {}]]
  /\ UNCHANGED <<rows, frozen, lost>>

Undecided(n) == rows[n].status \in {"PENDING", "REVOKED", "SOFT_REVOKED"}

ReadApprove(h, n, p) == Undecided(n) /\ Read(h, "approve", rows[n].key, {n}, p)

\* create-and-approve: p is the product it creates
ReadCreateApprove(h, n, p) ==
  /\ rows[n].key \in ProductKeys
  /\ Undecided(n)
  /\ Read(h, "create", rows[n].key, {n}, p)

\* batch-approve filters the rows it was given
ReadBatch(h, S, p) ==
  /\ \A n \in S : Undecided(n)
  /\ Read(h, "batch", "none", S, p)

ReadReject(h, n) == Undecided(n) /\ Read(h, "reject", rows[n].key, {n}, rows[n].product)

ReadRevoke(h, n) ==
  rows[n].status = "APPROVED" /\ Read(h, "revoke", rows[n].key, {n}, rows[n].product)

\* The rollback wants a history entry that left APPROVED.
ReadRollback(h, n) ==
  /\ \E e \in 1..Len(rows[n].history) : rows[n].history[e].old = "APPROVED"
  /\ Read(h, "rollback", rows[n].key, {n}, rows[n].product)

\* The dual write of /sku-mappings and /listings. In 'dual' mode the handler
\* has updated the row of the older table before, and holds its lock.
Free(k) == DualWrite =>
  \A h \in Handlers : ~(call[h].op \in {"map", "drop"} /\ call[h].key = k
                          /\ call[h].pc = "write")
Newest(S) == {n \in S : \A m \in S : m <= n}

\* The newest mapping of the key to the product, or else the newest of the key.
MapTarget(k, p) ==
  LET same == {n \in OfKey(k) : rows[n].product = p}
  IN Newest(IF same # {} THEN same ELSE OfKey(k))
ReadMap(h, k, p) == Free(k) /\ Read(h, "map", k, MapTarget(k, p), p)
ReadDrop(h, k, p) == Free(k) /\ Read(h, "drop", k, Newest(OfKey(k)), p)
-----------------------------------------------------------------------------
(* What a handler writes *)

Writing(h, ops) == call[h].pc = "write" /\ call[h].op \in ops
Publishing(h, events) ==
  call' = [call EXCEPT ![h] =
             IF events = {} THEN Idle
             ELSE NoTransaction("publish", events)]

\* POST /mappings
Create(k, p) ==
  /\ Len(rows) < MaxRows
  /\ rows' = Append(rows, NewRow(k, p, "PENDING"))
  /\ UNCHANGED <<call, frozen, lost>>

\* approve, batch-approve and create-and-approve; the last one has no soft
\* revocation, and those of the first two find nothing to revoke: the index
\* has refused before.
Approve(h) ==
  LET S == call[h].todo
      T == IF call[h].op = "create" THEN {} ELSE Rivals(S)
  IN /\ Writing(h, {"approve", "batch", "create"})
     /\ IF Refused(S) THEN Answer(h) /\ UNCHANGED rows
        ELSE /\ rows' = Updated(h, S, "APPROVED", call[h].product, T)
             /\ Publishing(h, {[id |-> n, product |-> rows[n].product] : n \in T})
     /\ UNCHANGED <<frozen, lost>>

Reject(h) ==
  /\ Writing(h, {"reject"})
  /\ \E n \in call[h].todo :
       rows' = Updated(h, {n}, "REJECTED", rows[n].product, {})
  /\ Answer(h)
  /\ UNCHANGED <<frozen, lost>>

\* Mutant: the event names the product that was read.
RevokeReportsRead(h) ==
  /\ Writing(h, {"revoke", "rollback"})
  /\ \E n \in call[h].todo :
       /\ rows' = Updated(h, {n}, "REVOKED", rows[n].product, {})
       /\ Publishing(h, {[id |-> n, product |-> call[h].product]})
  /\ UNCHANGED <<frozen, lost>>

\* revoke and rollback; the event names the product of the updated row.
Revoke(h) ==
  /\ Writing(h, {"revoke", "rollback"})
  /\ \E n \in call[h].todo :
       /\ rows' = Updated(h, {n}, "REVOKED", rows[n].product, {})
       /\ Publishing(h, {[id |-> n, product |-> rows[n].product]})
  /\ UNCHANGED <<frozen, lost>>

\* Mutant: the update without its history.
MapUnrecorded(h) ==
  /\ Writing(h, {"map"})
  /\ IF call[h].todo = {}
     THEN /\ Len(rows) < MaxRows
          /\ rows' = IF ApprovedOf(call[h].key) # {} THEN rows
                     ELSE Append(rows, NewRow(call[h].key, call[h].product, "APPROVED"))
     ELSE rows' = IF Refused(call[h].todo) THEN rows
                  ELSE [n \in Ids |-> IF n \in call[h].todo
                                      THEN [rows[n] EXCEPT !.status = "APPROVED"]
                                      ELSE rows[n]]
  /\ Answer(h)
  /\ UNCHANGED <<frozen, lost>>

\* upsertApprovedExternalIdMapping: its rivals are those it read, and nothing
\* is published.
Map(h) ==
  LET k == call[h].key
      S == call[h].todo
      T == {n \in DOMAIN call[h].saw : call[h].saw[n] = "APPROVED"} \ S
  IN /\ Writing(h, {"map"})
     /\ IF S = {}
        THEN /\ Len(rows) < MaxRows
             /\ rows' = IF ApprovedOf(k) # {} THEN rows
                        ELSE Append(rows, NewRow(k, call[h].product, "APPROVED"))
        ELSE rows' = IF Refused(S) THEN rows
                     ELSE Updated(h, S, "APPROVED", call[h].product, T)
     /\ Answer(h)
     /\ UNCHANGED <<frozen, lost>>

\* Mutant: a rejection that creates the mapping leaves the global id out.
DropUnnamed(h) ==
  /\ Writing(h, {"drop"})
  /\ call[h].todo = {} /\ Len(rows) < MaxRows
  /\ rows' = Append(rows, NewRow(call[h].key, "none", "REJECTED"))
  /\ Answer(h)
  /\ UNCHANGED <<frozen, lost>>

\* upsertRejectedExternalIdMapping: from any status
Drop(h) ==
  /\ Writing(h, {"drop"})
  /\ IF call[h].todo = {}
     THEN /\ Len(rows) < MaxRows
          /\ rows' = Append(rows, NewRow(call[h].key, call[h].product, "REJECTED"))
     ELSE \E n \in call[h].todo :
            rows' = Updated(h, {n}, "REJECTED", rows[n].product, {})
  /\ Answer(h)
  /\ UNCHANGED <<frozen, lost>>

\* emitMdmEvent awaits onMappingRevoked, whose own transaction freezes the
\* product; its error is logged and dropped.
Freeze(h) ==
  /\ call[h].pc = "publish"
  /\ frozen' = frozen \cup {e.product : e \in {x \in call[h].events :
                                                 rows[x.id].key \in ProductKeys}}
  /\ Answer(h)
  /\ UNCHANGED <<rows, lost>>

\* The process ends, or a statement fails: a transaction leaves nothing, and
\* events that were not delivered are gone.
Abort(h) ==
  /\ call[h].pc # "idle"
  /\ lost' = lost \cup {e.id : e \in call[h].events}
  /\ Answer(h)
  /\ UNCHANGED <<rows, frozen>>
-----------------------------------------------------------------------------
Init ==
  /\ rows = <<>>
  /\ call = [h \in Handlers |-> Idle]
  /\ frozen = {}
  /\ lost = {}

Reading(h) ==
  \/ \E n \in Ids : ReadReject(h, n) \/ ReadRevoke(h, n) \/ ReadRollback(h, n)
  \/ \E n \in Ids, p \in Products : ReadApprove(h, n, p) \/ ReadCreateApprove(h, n, p)
  \/ \E S \in SUBSET Ids \ {{}}, p \in Products : ReadBatch(h, S, p)
  \/ \E k \in Keys, p \in Products : ReadMap(h, k, p) \/ ReadDrop(h, k, p)

Next ==
  \/ \E k \in Keys, p \in Products : Create(k, p)
  \/ \E h \in Handlers :
       \/ Reading(h)
       \/ Approve(h) \/ Reject(h) \/ Revoke(h) \/ Map(h) \/ Drop(h)
       \/ Freeze(h) \/ Abort(h)

Spec == Init /\ [][Next]_vars
-----------------------------------------------------------------------------
(* Properties *)

Status == {"PENDING", "APPROVED", "REJECTED", "REVOKED", "SOFT_REVOKED"}
Entry == [old : Status \cup {"none"}, new : Status]
Row == [key : Keys, status : Status, product : Products, version : Nat, history : Seq(Entry)]

RowsTyped == rows \in Seq(Row)

CallsTyped ==
  /\ call = [h \in Handlers |-> call[h]]
  /\ \A h \in Handlers :
       /\ call[h].pc \in {"idle", "write", "publish"}
       /\ call[h].saw \in [DOMAIN call[h].saw -> Status]
       /\ call[h].todo \subseteq DOMAIN call[h].saw /\ DOMAIN call[h].saw \subseteq Ids
       /\ call[h].pc = "write" => call[h].product \in Products
       /\ call[h].op \in {"map", "drop"} => call[h].key \in Keys
       /\ \A e \in call[h].events : e.id \in Ids /\ e.product \in Products

\* The shape of the rows and the calls; a handler that writes has read every
\* mapping it is going to write, and they are still there.
TypeOK ==
  RowsTyped /\ CallsTyped /\ frozen \subseteq Products /\ lost \subseteq Ids

\* mdm-mapping-concurrency.test.ts "no double-APPROVED": whatever approves,
\* maps, rolls back and batches run together, a key has one approved mapping.
OneApprovedPerKey ==
  \A n, m \in Ids :
    rows[n].status = "APPROVED" /\ rows[m].status = "APPROVED"
      /\ rows[n].key = rows[m].key => n = m

\* The audit trail is complete through all races: an entry for each version,
\* the last one ends in the status the mapping has, and nothing is revoked, by
\* a rollback or by a revocation that read a status long gone, that the trail
\* does not show approved.
HistoryComplete ==
  \A n \in Ids :
    /\ Len(rows[n].history) = rows[n].version
    /\ rows[n].history[rows[n].version].new = rows[n].status
    /\ rows[n].status = "REVOKED" =>
         \E e \in 1..Len(rows[n].history) : rows[n].history[e].new = "APPROVED"

\* The product a revoked mapping had, and not one it had before, is frozen
\* once the revocations of the mapping are delivered, if none was lost.
RevokedFrozen ==
  \A n \in Ids \ lost :
    /\ rows[n].status = "REVOKED" /\ rows[n].key \in ProductKeys
    /\ \A h \in Handlers : \A e \in call[h].events : e.id # n
    => rows[n].product \in frozen

\* mdm-mapping-concurrency.test.ts:133 "approving second mapping with same key
\* auto-soft-revokes the first".
ApproveTakesOver ==
  [][\A h \in Handlers :
       Approve(h) /\ call[h].op = "approve"
         => \A m \in Rivals(call[h].todo) : rows'[m].status = "SOFT_REVOKED"]_vars

\* mdm-mapping-concurrency.test.ts:101 "invalid status transition: REJECTED ->
\* APPROVED returns 409": an approve leaves a rejected mapping rejected.
RejectedNotApproved ==
  [][\A h \in Handlers :
       Approve(h) => \A n \in call[h].todo :
                       rows[n].status = "REJECTED" => rows'[n].status = "REJECTED"]_vars
=============================================================================
