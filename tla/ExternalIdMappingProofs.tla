---------------------- MODULE ExternalIdMappingProofs ----------------------
(***************************************************************************)
(* Proofs about ExternalIdMapping for every set of keys, products and      *)
(* handlers, in both write modes: the types, that no key ever has two      *)
(* approved mappings, that the trail of every mapping is complete, and     *)
(* that the product of a revoked mapping is frozen.                        *)
(***************************************************************************)
EXTENDS ExternalIdMapping, SequenceTheorems, TLAPS

LEMMA RowTyped ==
  ASSUME RowsTyped
  PROVE  /\ Ids = 1..Len(rows) /\ Len(rows) \in Nat
         /\ \A n \in Ids : /\ rows[n] \in Row
                           /\ rows[n].key \in Keys /\ rows[n].status \in Status
                           /\ rows[n].product \in Products
<1>1. Ids = 1..Len(rows) /\ Len(rows) \in Nat /\ \A n \in Ids : rows[n] \in Row
  BY DEF RowsTyped, Ids
<1>2. \A row \in Row : row.key \in Keys /\ row.status \in Status /\ row.product \in Products
  BY DEF Row
<1> QED BY <1>1, <1>2

LEMMA NewRowTyped ==
  ASSUME NEW k \in Keys, NEW p \in Products, NEW st \in Status
  PROVE  /\ NewRow(k, p, st) \in Row
         /\ NewRow(k, p, st).key = k /\ NewRow(k, p, st).status = st
<1>1. <<[old |-> "none", new |-> st]>> \in Seq(Entry)
  BY DEF Entry
<1> QED BY <1>1 DEF NewRow, Row

LEMMA MovedTyped ==
  \A row \in Row, p \in Products, old \in Status, st \in Status :
    /\ Moved(row, p, old, st) \in Row
    /\ Moved(row, p, old, st).key = row.key
    /\ Moved(row, p, old, st).status = st
<1> SUFFICES ASSUME NEW row \in Row, NEW p \in Products, NEW old \in Status, NEW st \in Status
             PROVE  /\ Moved(row, p, old, st) \in Row
                    /\ Moved(row, p, old, st).key = row.key
                    /\ Moved(row, p, old, st).status = st
  OBVIOUS
<1>1. row.history \in Seq(Entry) /\ [old |-> old, new |-> st] \in Entry
  BY DEF Row, Entry
<1>2. Append(row.history, [old |-> old, new |-> st]) \in Seq(Entry)
  BY <1>1
<1>3. row.key \in Keys /\ row.version + 1 \in Nat
  BY DEF Row
<1> QED BY <1>2, <1>3 DEF Moved, Row

\* A mapping is added at the end.
LEMMA AppendTyped ==
  ASSUME RowsTyped, NEW row \in Row, rows' = Append(rows, row)
  PROVE  /\ RowsTyped'
         /\ Len(rows') = Len(rows) + 1 /\ Ids = 1..Len(rows) /\ Ids' = 1..Len(rows')
         /\ \A n \in Ids : rows'[n] = rows[n]
         /\ rows'[Len(rows')] = row
BY AppendProperties DEF RowsTyped, Ids

\* What an update of the rows does, for any choice of S and T.
LEMMA UpdatedTyped ==
  ASSUME TypeOK, NEW h \in Handlers, NEW S \in SUBSET DOMAIN call[h].saw,
         NEW st \in Status, NEW p \in Products, NEW T \in SUBSET Ids,
         rows' = Updated(h, S, st, p, T)
  PROVE  /\ RowsTyped'
         /\ Ids' = Ids
         /\ \A n \in Ids :
              /\ rows'[n].key = rows[n].key
              /\ rows'[n].status = IF n \in S THEN st
                                   ELSE IF n \in T THEN "SOFT_REVOKED"
                                   ELSE rows[n].status
<1>1. /\ Ids = 1..Len(rows) /\ Len(rows) \in Nat
      /\ \A n \in Ids : rows[n] \in Row /\ rows[n].product \in Products
  BY RowTyped DEF TypeOK
<1>2. \A n \in S : n \in Ids /\ call[h].saw[n] \in Status
  BY DEF TypeOK, CallsTyped
<1>3. ASSUME NEW n \in Ids
      PROVE  /\ rows'[n] \in Row /\ rows'[n].key = rows[n].key
             /\ rows'[n].status = IF n \in S THEN st
                                  ELSE IF n \in T THEN "SOFT_REVOKED"
                                  ELSE rows[n].status
  <2>1. CASE n \in S
    <3>1. rows'[n] = Moved(rows[n], p, call[h].saw[n], st)
      BY <2>1 DEF Updated
    <3>2. rows[n] \in Row /\ call[h].saw[n] \in Status
      BY <2>1, <1>1, <1>2
    <3>3. /\ Moved(rows[n], p, call[h].saw[n], st) \in Row
          /\ Moved(rows[n], p, call[h].saw[n], st).key = rows[n].key
          /\ Moved(rows[n], p, call[h].saw[n], st).status = st
      BY <3>2, MovedTyped, Zenon
    <3>4. rows'[n] \in Row /\ rows'[n].key = rows[n].key /\ rows'[n].status = st
      BY <3>1, <3>3, Zenon
    <3> QED BY <3>4, <2>1
  <2>2. CASE n \in T \ S
    <3>1. PICK old \in Status : old = "APPROVED"
      BY DEF Status
    <3>2. PICK soft \in Status : soft = "SOFT_REVOKED"
      BY DEF Status
    <3>3. PICK row \in Row, q \in Products : row = rows[n] /\ q = rows[n].product
      BY <1>1
    <3>4. /\ Moved(row, q, old, soft) \in Row
          /\ Moved(row, q, old, soft).key = row.key
          /\ Moved(row, q, old, soft).status = soft
      BY MovedTyped, Zenon
    <3>5. rows'[n] = Moved(row, q, old, soft)
      BY <2>2, <3>1, <3>2, <3>3 DEF Updated
    <3>6. rows'[n] \in Row /\ rows'[n].key = row.key /\ rows'[n].status = soft
      BY <3>4, <3>5, Zenon
    <3> QED BY <3>6, <3>2, <3>3, <2>2
  <2>3. CASE n \notin S \cup T
    BY <2>3, <1>1 DEF Updated
  <2> QED BY <2>1, <2>2, <2>3
<1>4. Ids' = Ids
  BY DEF Updated, Ids
<1>5. rows' \in [1..Len(rows) -> Row]
  BY <1>1, <1>3 DEF Updated
<1>6. rows' \in Seq(Row)
  BY <1>1, <1>5, SeqDef
<1> QED BY <1>3, <1>4, <1>6 DEF RowsTyped

-----------------------------------------------------------------------------
(* The types *)

\* A call that is answered, or goes on to publish, keeps the calls typed when
\* no mapping goes away.
LEMMA EndTyped ==
  ASSUME TypeOK, NEW h \in Handlers, Ids \subseteq Ids',
         NEW events \in SUBSET [id : Ids, product : Products],
         Answer(h) \/ Publishing(h, events)
  PROVE  CallsTyped'
<1>1. \/ call' = [call EXCEPT ![h] = NoTransaction("idle", {})]
      \/ call' = [call EXCEPT ![h] = NoTransaction("publish", events)]
  BY DEF Answer, Publishing, Idle
<1>2. PICK pc \in {"idle", "publish"}, es \in SUBSET events :
        call' = [call EXCEPT ![h] = NoTransaction(pc, es)]
  BY <1>1, Zenon
<1>3. call' = [g \in Handlers |-> call'[g]]
  BY <1>2 DEF TypeOK, CallsTyped
<1>4. /\ call'[h] = NoTransaction(pc, es)
      /\ \A g \in Handlers \ {h} : call'[g] = call[g]
  BY <1>2 DEF TypeOK, CallsTyped
<1>5. /\ call'[h].pc \in {"idle", "publish"} /\ call'[h].op = "none"
      /\ call'[h].saw = <<>> /\ call'[h].todo = {} /\ call'[h].events = es
  BY <1>4 DEF NoTransaction
<1>6. DOMAIN call'[h].saw = {} /\ call'[h].saw \in [DOMAIN call'[h].saw -> Status]
  BY <1>5
<1> QED BY <1>2, <1>3, <1>4, <1>5, <1>6 DEF TypeOK, CallsTyped

LEMMA ReadTyped ==
  ASSUME TypeOK, NEW h \in Handlers, NEW op, NEW k, NEW S \in SUBSET Ids,
         NEW p \in Products, op \in {"map", "drop"} => k \in Keys,
         op = "map" => S \subseteq OfKey(k), Read(h, op, k, S, p)
  PROVE  TypeOK'
<1> DEFINE V == IF op = "map" THEN OfKey(k) ELSE S
           c == [pc |-> "write", op |-> op, key |-> k, todo |-> S,
                 saw |-> [n \in V |-> rows[n].status], product |-> p, events |-> {}]
<1>1. call' = [call EXCEPT ![h] = c] /\ UNCHANGED <<rows, frozen, lost>>
  BY DEF Read
<1>2. /\ call' = [g \in Handlers |-> call'[g]]
      /\ call'[h] = c /\ \A g \in Handlers \ {h} : call'[g] = call[g]
  BY <1>1 DEF TypeOK, CallsTyped
<1>3. Ids' = Ids /\ RowsTyped'
  BY <1>1 DEF Ids, TypeOK, RowsTyped
<1>4. \A n \in Ids : rows[n].status \in Status
  BY RowTyped DEF TypeOK
<1>5. V \subseteq Ids
  BY DEF OfKey
<1>6. S \subseteq V
  OBVIOUS
<1>7. /\ DOMAIN c.saw = V /\ c.saw \in [V -> Status] /\ c.todo = S
      /\ c.pc = "write" /\ c.op = op /\ c.key = k /\ c.product = p /\ c.events = {}
  BY <1>4, <1>5
<1> HIDE DEF c, V
<1>8. CallsTyped'
  BY <1>2, <1>3, <1>5, <1>6, <1>7 DEF TypeOK, CallsTyped
<1> QED BY <1>1, <1>3, <1>8 DEF TypeOK

\* The handlers that read: each of them is a Read of mappings that exist.
LEMMA ReadingTyped ==
  ASSUME TypeOK, NEW h \in Handlers, Reading(h)
  PROVE  TypeOK' /\ UNCHANGED rows
<1> SUFFICES ASSUME TypeOK, Reading(h) PROVE TypeOK' /\ UNCHANGED rows
  OBVIOUS
<1>1. \A n \in Ids : rows[n].product \in Products /\ rows[n].key \in Keys
  BY RowTyped DEF TypeOK
<1>2. \A k \in Keys, p \in Products : /\ MapTarget(k, p) \subseteq OfKey(k)
                                      /\ Newest(OfKey(k)) \subseteq OfKey(k)
                                      /\ OfKey(k) \subseteq Ids
  BY DEF MapTarget, Newest, OfKey
<1>3. CASE \E n \in Ids : ReadReject(h, n) \/ ReadRevoke(h, n) \/ ReadRollback(h, n)
  <2>1. PICK n \in Ids, op \in {"reject", "revoke", "rollback"} :
          Read(h, op, rows[n].key, {n}, rows[n].product)
    BY <1>3 DEF ReadReject, ReadRevoke, ReadRollback
  <2>2. PICK k \in Keys, S \in SUBSET Ids, p \in Products : Read(h, op, k, S, p)
    BY <2>1, <1>1
  <2> QED BY <2>2, ReadTyped DEF Read
<1>4. CASE \E n \in Ids, p \in Products : ReadApprove(h, n, p) \/ ReadCreateApprove(h, n, p)
  <2>1. PICK n \in Ids, p \in Products, op \in {"approve", "create"} :
          Read(h, op, rows[n].key, {n}, p)
    BY <1>4 DEF ReadApprove, ReadCreateApprove
  <2>2. PICK k \in Keys, S \in SUBSET Ids : Read(h, op, k, S, p)
    BY <2>1, <1>1
  <2> QED BY <2>2, ReadTyped DEF Read
<1>5. CASE \E S \in SUBSET Ids \ {{}}, p \in Products : ReadBatch(h, S, p)
  <2>1. PICK S \in SUBSET Ids, p \in Products : Read(h, "batch", "none", S, p)
    BY <1>5 DEF ReadBatch
  <2> QED BY <2>1, ReadTyped DEF Read
<1>6. CASE \E k \in Keys, p \in Products : ReadMap(h, k, p) \/ ReadDrop(h, k, p)
  <2>1. PICK k \in Keys, p \in Products, op \in {"map", "drop"}, S \in SUBSET Ids :
          S \subseteq OfKey(k) /\ Read(h, op, k, S, p)
    BY <1>6, <1>2 DEF ReadMap, ReadDrop
  <2> QED BY <2>1, <1>2, ReadTyped DEF Read
<1> QED BY <1>3, <1>4, <1>5, <1>6 DEF Reading
-----------------------------------------------------------------------------
(* The writes: each of them leaves the rows alone, adds a row, or updates   *)
(* rows; what it does to the approved mappings of a key is said here once.  *)

Left == rows' = rows
Added(k, p, st) ==
  /\ rows' = Append(rows, NewRow(k, p, st))
  /\ st # "REVOKED" /\ (st = "APPROVED" => ApprovedOf(k) = {})
Changed(h, S, st, p, T) ==
  /\ rows' = Updated(h, S, st, p, T)
  /\ st = "APPROVED" => ~Refused(S)
  /\ st = "REVOKED" => call[h].op \in {"revoke", "rollback"} /\ S \subseteq call[h].todo
  /\ \A n \in T : rows[n].status = "APPROVED" \/ (n \in DOMAIN call[h].saw /\ call[h].saw[n] = "APPROVED")

LEMMA LeftTyped ==
  ASSUME TypeOK, Left
  PROVE  RowsTyped' /\ Ids' = Ids /\ (OneApprovedPerKey => OneApprovedPerKey')
BY DEF TypeOK, RowsTyped, Left, Ids, OneApprovedPerKey

LEMMA AddedTyped ==
  ASSUME TypeOK, NEW k \in Keys, NEW p \in Products, NEW st \in Status, Added(k, p, st)
  PROVE  RowsTyped' /\ Ids \subseteq Ids' /\ (OneApprovedPerKey => OneApprovedPerKey')
<1> DEFINE row == NewRow(k, p, st)
<1>1. row \in Row /\ row.key = k /\ row.status = st
  BY NewRowTyped
<1>2. rows' = Append(rows, row)
  BY DEF Added
<1> HIDE DEF row
<1>3. /\ RowsTyped'
      /\ Len(rows') = Len(rows) + 1 /\ Ids = 1..Len(rows) /\ Ids' = 1..Len(rows')
      /\ \A n \in Ids : rows'[n] = rows[n]
      /\ rows'[Len(rows')] = row
  BY <1>1, <1>2, AppendTyped DEF TypeOK
<1>4. Len(rows) \in Nat
  BY RowTyped DEF TypeOK
<1>5. ASSUME OneApprovedPerKey, NEW n \in Ids', NEW m \in Ids',
             rows'[n].status = "APPROVED", rows'[m].status = "APPROVED",
             rows'[n].key = rows'[m].key
      PROVE  n = m
  <2>1. /\ n \in Ids \/ n = Len(rows') 
        /\ m \in Ids \/ m = Len(rows')
    BY <1>3, <1>4
  <2>2. CASE n \in Ids /\ m \in Ids
    BY <2>2, <1>3, <1>5 DEF OneApprovedPerKey
  <2>3. ASSUME NEW i \in Ids, rows'[i].status = "APPROVED",
               rows'[Len(rows')].status = "APPROVED", rows'[i].key = rows'[Len(rows')].key
        PROVE  FALSE
    <3>1. i \in ApprovedOf(k) /\ st = "APPROVED"
      BY <2>3, <1>1, <1>3 DEF ApprovedOf, OfKey
    <3> QED BY <3>1 DEF Added
  <2> QED BY <2>1, <2>2, <2>3, <1>5
<1> QED BY <1>3, <1>4, <1>5 DEF OneApprovedPerKey

LEMMA ChangedTyped ==
  ASSUME TypeOK, NEW h \in Handlers, NEW S \in SUBSET DOMAIN call[h].saw,
         NEW st \in Status, NEW p \in Products, NEW T \in SUBSET Ids,
         Changed(h, S, st, p, T)
  PROVE  RowsTyped' /\ Ids' = Ids /\ (OneApprovedPerKey => OneApprovedPerKey')
<1>1. /\ RowsTyped' /\ Ids' = Ids
      /\ \A n \in Ids :
           /\ rows'[n].key = rows[n].key
           /\ rows'[n].status = IF n \in S THEN st
                                ELSE IF n \in T THEN "SOFT_REVOKED"
                                ELSE rows[n].status
  BY UpdatedTyped DEF Changed
<1>2. ASSUME OneApprovedPerKey, NEW n \in Ids, NEW m \in Ids,
             rows'[n].status = "APPROVED", rows'[m].status = "APPROVED",
             rows'[n].key = rows'[m].key
      PROVE  n = m
  <2>1. rows[n].key = rows[m].key
    BY <1>1, <1>2
  <2>2. CASE st # "APPROVED"
    BY <2>2, <2>1, <1>1, <1>2 DEF OneApprovedPerKey
  <2>3. CASE st = "APPROVED"
    <3>1. ~Refused(S)
      BY <2>3 DEF Changed
    <3>2. CASE n \notin S /\ m \notin S
      BY <3>2, <2>1, <1>1, <1>2 DEF OneApprovedPerKey
    <3>3. CASE n \in S /\ m \in S
      BY <3>1, <3>3, <2>1 DEF Refused
    <3>4. ASSUME NEW i \in Ids \cap S, NEW j \in Ids \ S,
                 rows'[j].status = "APPROVED", rows[i].key = rows[j].key
          PROVE  FALSE
      <4>1. j \in ApprovedOf(rows[i].key) \ {i}
        BY <3>4, <1>1 DEF ApprovedOf, OfKey
      <4> QED BY <4>1, <3>1 DEF Refused
    <3> QED BY <3>2, <3>3, <3>4, <2>1, <1>2
  <2> QED BY <2>2, <2>3
<1> QED BY <1>1, <1>2 DEF OneApprovedPerKey

Writes(h) ==
  \/ Left
  \/ \E k \in Keys, p \in Products, st \in Status : Added(k, p, st)
  \/ \E S \in SUBSET DOMAIN call[h].saw, st \in Status, p \in Products, T \in SUBSET Ids :
       Changed(h, S, st, p, T)

Ends(h) ==
  \E events \in SUBSET [id : Ids, product : Products] :
    Answer(h) \/ Publishing(h, events)

LEMMA WritesTyped ==
  ASSUME TypeOK, NEW h \in Handlers, Writes(h)
  PROVE  RowsTyped' /\ Ids \subseteq Ids' /\ (OneApprovedPerKey => OneApprovedPerKey')
BY LeftTyped, AddedTyped, ChangedTyped DEF Writes

LEMMA ApproveWrites ==
  ASSUME TypeOK, NEW h \in Handlers, Approve(h)
  PROVE  Writes(h) /\ Ends(h) /\ UNCHANGED <<frozen, lost>>
<1> DEFINE S == call[h].todo
           T == IF call[h].op = "create" THEN {} ELSE Rivals(S)
           events == {[id |-> n, product |-> rows[n].product] : n \in T}
<1>1. /\ S \in SUBSET DOMAIN call[h].saw /\ call[h].product \in Products
      /\ S \subseteq Ids
  BY DEF TypeOK, CallsTyped, Approve, Writing
<1>2. T \in SUBSET Ids
  BY DEF Rivals, ApprovedOf, OfKey
<1>3. events \in SUBSET [id : Ids, product : Products]
  BY <1>2, RowTyped DEF TypeOK
<1>4. CASE Refused(S)
  <2>1. Left /\ Answer(h)
    BY <1>4 DEF Approve, Left
  <2> QED BY <2>1, <1>3 DEF Writes, Ends, Approve
<1>5. CASE ~Refused(S)
  <2>1. Changed(h, S, "APPROVED", call[h].product, T) /\ Publishing(h, events)
    BY <1>5 DEF Approve, Changed, Rivals, ApprovedOf
  <2>2. "APPROVED" \in Status
    BY DEF Status
  <2>3. Writes(h)
    BY <2>1, <2>2, <1>1, <1>2 DEF Writes
  <2> QED BY <2>1, <2>3, <1>3 DEF Ends, Approve
<1> QED BY <1>4, <1>5

LEMMA RejectWrites ==
  ASSUME TypeOK, NEW h \in Handlers, Reject(h)
  PROVE  Writes(h) /\ Ends(h) /\ UNCHANGED <<frozen, lost>>
<1>1. PICK n \in call[h].todo : rows' = Updated(h, {n}, "REJECTED", rows[n].product, {})
  BY DEF Reject
<1>2. {n} \in SUBSET DOMAIN call[h].saw /\ n \in Ids
  BY DEF TypeOK, CallsTyped
<1>3. rows[n].product \in Products /\ "REJECTED" \in Status
  BY <1>2, RowTyped DEF TypeOK, Status
<1>4. Changed(h, {n}, "REJECTED", rows[n].product, {})
  BY <1>1 DEF Changed
<1>5. Writes(h)
  BY <1>2, <1>3, <1>4 DEF Writes
<1> QED BY <1>5 DEF Reject, Ends

LEMMA RevokeWrites ==
  ASSUME TypeOK, NEW h \in Handlers, Revoke(h)
  PROVE  Writes(h) /\ Ends(h) /\ UNCHANGED <<frozen, lost>>
<1>1. PICK n \in call[h].todo :
        /\ rows' = Updated(h, {n}, "REVOKED", rows[n].product, {})
        /\ Publishing(h, {[id |-> n, product |-> rows[n].product]})
  BY DEF Revoke
<1>2. {n} \in SUBSET DOMAIN call[h].saw /\ n \in Ids
  BY DEF TypeOK, CallsTyped
<1>3. rows[n].product \in Products /\ "REVOKED" \in Status
  BY <1>2, RowTyped DEF TypeOK, Status
<1>4. Changed(h, {n}, "REVOKED", rows[n].product, {})
  BY <1>1 DEF Changed, Revoke, Writing
<1>5. Writes(h)
  BY <1>2, <1>3, <1>4 DEF Writes
<1>6. Ends(h)
  BY <1>1, <1>2, <1>3 DEF Ends
<1> QED BY <1>5, <1>6 DEF Revoke

LEMMA MapWrites ==
  ASSUME TypeOK, NEW h \in Handlers, Map(h)
  PROVE  Writes(h) /\ Ends(h) /\ UNCHANGED <<frozen, lost>>
<1> DEFINE k == call[h].key
           S == call[h].todo
           T == {n \in DOMAIN call[h].saw : call[h].saw[n] = "APPROVED"} \ S
<1>1. /\ S \in SUBSET DOMAIN call[h].saw /\ T \in SUBSET Ids
      /\ call[h].product \in Products /\ k \in Keys /\ "APPROVED" \in Status
  BY DEF TypeOK, CallsTyped, Map, Writing, Status
<1>2. \/ Left
      \/ Added(k, call[h].product, "APPROVED")
      \/ Changed(h, S, "APPROVED", call[h].product, T)
  BY DEF Map, Left, Added, Changed
<1>3. Writes(h)
  BY <1>1, <1>2 DEF Writes
<1> QED BY <1>3 DEF Map, Ends

LEMMA DropWrites ==
  ASSUME TypeOK, NEW h \in Handlers, Drop(h)
  PROVE  Writes(h) /\ Ends(h) /\ UNCHANGED <<frozen, lost>>
<1>1. call[h].product \in Products /\ call[h].key \in Keys /\ "REJECTED" \in Status
  BY DEF TypeOK, CallsTyped, Drop, Writing, Status
<1>2. CASE call[h].todo = {}
  <2>1. Added(call[h].key, call[h].product, "REJECTED")
    BY <1>2 DEF Drop, Added
  <2>2. Writes(h)
    BY <2>1, <1>1 DEF Writes
  <2> QED BY <2>2 DEF Drop, Ends
<1>3. CASE call[h].todo # {}
  <2>1. PICK n \in call[h].todo : rows' = Updated(h, {n}, "REJECTED", rows[n].product, {})
    BY <1>3 DEF Drop
  <2>2. {n} \in SUBSET DOMAIN call[h].saw /\ n \in Ids
    BY DEF TypeOK, CallsTyped
  <2>3. rows[n].product \in Products
    BY <2>2, RowTyped DEF TypeOK
  <2>4. Changed(h, {n}, "REJECTED", rows[n].product, {})
    BY <2>1 DEF Changed
  <2>5. Writes(h)
    BY <1>1, <2>2, <2>3, <2>4 DEF Writes
  <2> QED BY <2>5 DEF Drop, Ends
<1> QED BY <1>2, <1>3

LEMMA InitTyped == Init => TypeOK /\ OneApprovedPerKey
<1> SUFFICES ASSUME Init PROVE TypeOK /\ OneApprovedPerKey
  OBVIOUS
<1>1. RowsTyped /\ Ids = {}
  BY DEF Init, RowsTyped, Ids
<1>2. CallsTyped
  <2>1. \A h \in Handlers : call[h] = Idle
    BY DEF Init
  <2>2. /\ Idle.pc = "idle" /\ Idle.op = "none" /\ Idle.saw = <<>>
        /\ Idle.todo = {} /\ Idle.events = {}
    BY DEF Idle, NoTransaction
  <2>3. DOMAIN Idle.saw = {} /\ Idle.saw \in [DOMAIN Idle.saw -> Status]
    BY <2>2
  <2>4. call = [h \in Handlers |-> call[h]]
    BY DEF Init
  <2> QED BY <2>1, <2>2, <2>3, <2>4 DEF CallsTyped
<1> QED BY <1>1, <1>2 DEF Init, TypeOK, OneApprovedPerKey

LEMMA StepTyped ==
  TypeOK /\ [Next]_vars => TypeOK' /\ (OneApprovedPerKey => OneApprovedPerKey')
<1> SUFFICES ASSUME TypeOK, [Next]_vars
             PROVE  TypeOK' /\ (OneApprovedPerKey => OneApprovedPerKey')
  OBVIOUS
<1>1. CASE \E k \in Keys, p \in Products : Create(k, p)
  <2>1. PICK k \in Keys, p \in Products : Create(k, p)
    BY <1>1
  <2>2. Added(k, p, "PENDING") /\ "PENDING" \in Status
    BY <2>1 DEF Create, Added, Status
  <2>3. RowsTyped' /\ Ids \subseteq Ids' /\ (OneApprovedPerKey => OneApprovedPerKey')
    BY <2>2, AddedTyped
  <2>4. UNCHANGED <<call, frozen, lost>>
    BY <2>1 DEF Create
  <2>5. CallsTyped'
    BY <2>3, <2>4 DEF TypeOK, CallsTyped
  <2> QED BY <2>3, <2>4, <2>5 DEF TypeOK
<1>2. ASSUME NEW h \in Handlers, Reading(h)
      PROVE  TypeOK' /\ (OneApprovedPerKey => OneApprovedPerKey')
  <2>1. TypeOK' /\ Left
    BY <1>2, ReadingTyped DEF Left
  <2> QED BY <2>1, LeftTyped
<1>3. ASSUME NEW h \in Handlers,
             Approve(h) \/ Reject(h) \/ Revoke(h) \/ Map(h) \/ Drop(h)
      PROVE  TypeOK' /\ (OneApprovedPerKey => OneApprovedPerKey')
  <2>1. Writes(h) /\ Ends(h) /\ UNCHANGED <<frozen, lost>>
    BY <1>3, ApproveWrites, RejectWrites, RevokeWrites, MapWrites, DropWrites
  <2>2. RowsTyped' /\ Ids \subseteq Ids' /\ (OneApprovedPerKey => OneApprovedPerKey')
    BY <2>1, WritesTyped
  <2>3. CallsTyped'
    BY <2>1, <2>2, EndTyped DEF Ends
  <2> QED BY <2>1, <2>2, <2>3 DEF TypeOK
<1>4. ASSUME NEW h \in Handlers, Freeze(h) \/ Abort(h)
      PROVE  TypeOK' /\ (OneApprovedPerKey => OneApprovedPerKey')
  <2>1. Left /\ Answer(h)
    BY <1>4 DEF Freeze, Abort, Left
  <2>2. RowsTyped' /\ Ids' = Ids /\ (OneApprovedPerKey => OneApprovedPerKey')
    BY <2>1, LeftTyped
  <2>3. CallsTyped'
    BY <2>1, <2>2, EndTyped
  <2>4. \A e \in call[h].events : e.id \in Ids /\ e.product \in Products
    BY DEF TypeOK, CallsTyped
  <2>5. frozen' \subseteq Products /\ lost' \subseteq Ids
    BY <1>4, <2>4 DEF Freeze, Abort, TypeOK
  <2> QED BY <2>2, <2>3, <2>5 DEF TypeOK
<1>5. CASE UNCHANGED vars
  <2>1. Left /\ UNCHANGED <<call, frozen, lost>>
    BY <1>5 DEF vars, Left
  <2>2. RowsTyped' /\ Ids' = Ids /\ (OneApprovedPerKey => OneApprovedPerKey')
    BY <2>1, LeftTyped
  <2> QED BY <2>1, <2>2 DEF TypeOK, CallsTyped
<1> QED BY <1>1, <1>2, <1>3, <1>4, <1>5 DEF Next

\* The rows and the calls have their types in every reachable state: no
\* handler writes to a mapping that is not there.
THEOREM TypeCorrect == Spec => []TypeOK
<1>1. TypeOK /\ [Next]_vars => TypeOK'
  BY StepTyped
<1> QED BY <1>1, InitTyped, PTL DEF Spec

\* No key has two approved mappings, whatever approves, maps, drops, revokes
\* and rolls back together, in both write modes and through every abort.
THEOREM KeyApprovedOnce == Spec => []OneApprovedPerKey
<1> DEFINE Inv == TypeOK /\ OneApprovedPerKey
<1>1. Init => Inv
  BY InitTyped
<1>2. Inv /\ [Next]_vars => Inv'
  BY StepTyped
<1>3. Inv => OneApprovedPerKey
  OBVIOUS
<1> QED BY <1>1, <1>2, <1>3, PTL DEF Spec
-----------------------------------------------------------------------------
(* The audit trail: what a handler read long ago, the trail has.            *)

WasApproved(row) == \E e \in 1..Len(row.history) : row.history[e].new = "APPROVED"

RowTrail(row) ==
  /\ row.version \in Nat \ {0} /\ Len(row.history) = row.version
  /\ row.history[row.version].new = row.status
  /\ row.status = "REVOKED" => WasApproved(row)
  /\ \A e \in 1..Len(row.history) : row.history[e].old = "APPROVED" => WasApproved(row)

CallTrail(h) ==
  /\ \A n \in DOMAIN call[h].saw : call[h].saw[n] = "APPROVED" => WasApproved(rows[n])
  /\ call[h].op \in {"revoke", "rollback"} => \A n \in call[h].todo : WasApproved(rows[n])

TrailInv ==
  /\ TypeOK
  /\ \A n \in Ids : RowTrail(rows[n])
  /\ \A h \in Handlers : CallTrail(h)

LEMMA NewRowTrail ==
  ASSUME NEW k, NEW p, NEW st \in Status, st # "REVOKED"
  PROVE  RowTrail(NewRow(k, p, st))
<1> DEFINE e == [old |-> "none", new |-> st]
<1>1. /\ NewRow(k, p, st).history = <<e>> /\ NewRow(k, p, st).version = 1
      /\ NewRow(k, p, st).status = st
  BY DEF NewRow
<1>2. Len(<<e>>) = 1 /\ <<e>>[1] = e /\ e.new = st /\ e.old = "none"
  OBVIOUS
<1> HIDE DEF e
<1> QED BY <1>1, <1>2 DEF RowTrail, WasApproved

\* An entry is added, and the trail has what it says was before.
LEMMA MovedTrail ==
  ASSUME NEW row \in Row, NEW p, NEW old, NEW st, RowTrail(row),
         old = "APPROVED" \/ st = "REVOKED" => WasApproved(row)
  PROVE  /\ RowTrail(Moved(row, p, old, st))
         /\ WasApproved(row) => WasApproved(Moved(row, p, old, st))
<1> DEFINE e == [old |-> old, new |-> st]
<1> DEFINE m == Moved(row, p, old, st)
<1>1. /\ m.history = Append(row.history, e) /\ m.version = row.version + 1 /\ m.status = st
  BY DEF Moved
<1>2. row.history \in Seq(Entry) /\ row.version \in Nat \ {0} /\ Len(row.history) = row.version
  BY DEF Row, RowTrail
<1>3. /\ Len(m.history) = row.version + 1 /\ m.history[row.version + 1] = e
      /\ \A i \in 1..row.version : m.history[i] = row.history[i]
  BY <1>1, <1>2, AppendProperties
<1>4. e.new = st /\ e.old = old
  OBVIOUS
<1> HIDE DEF e, m
<1>5. ASSUME WasApproved(row)
      PROVE  WasApproved(m)
  <2>1. PICK i \in 1..row.version : row.history[i].new = "APPROVED"
    BY <1>2, <1>5 DEF WasApproved
  <2>2. i \in 1..Len(m.history) /\ m.history[i].new = "APPROVED"
    BY <1>2, <1>3, <2>1
  <2> QED BY <2>2 DEF WasApproved
<1>6. \A i \in 1..(row.version + 1) : m.history[i].old = "APPROVED" => WasApproved(row)
  BY <1>2, <1>3, <1>4 DEF RowTrail
<1>7. RowTrail(m)
  BY <1>1, <1>2, <1>3, <1>4, <1>5, <1>6 DEF RowTrail
<1> QED BY <1>5, <1>7 DEF m

LEMMA WritesTrail ==
  ASSUME TrailInv, NEW h \in Handlers, Writes(h)
  PROVE  /\ \A n \in Ids' : RowTrail(rows'[n])
         /\ \A n \in Ids : WasApproved(rows[n]) => WasApproved(rows'[n])
<1>0. TypeOK /\ RowsTyped /\ \A n \in Ids : RowTrail(rows[n])
  BY DEF TrailInv, TypeOK
<1>1. CASE Left
  BY <1>0, <1>1 DEF Left, Ids
<1>2. ASSUME NEW k \in Keys, NEW p \in Products, NEW st \in Status, Added(k, p, st)
      PROVE  /\ \A n \in Ids' : RowTrail(rows'[n])
             /\ \A n \in Ids : WasApproved(rows[n]) => WasApproved(rows'[n])
  <2> DEFINE row == NewRow(k, p, st)
  <2>1. row \in Row /\ RowTrail(row)
    BY <1>2, NewRowTyped, NewRowTrail DEF Added
  <2>2. rows' = Append(rows, row)
    BY <1>2 DEF Added
  <2> HIDE DEF row
  <2>3. /\ Len(rows') = Len(rows) + 1 /\ Ids = 1..Len(rows) /\ Ids' = 1..Len(rows')
        /\ \A n \in Ids : rows'[n] = rows[n]
        /\ rows'[Len(rows')] = row
    BY <1>0, <2>1, <2>2, AppendTyped
  <2>4. Len(rows) \in Nat
    BY <1>0, RowTyped
  <2>5. \A n \in Ids' : n \in Ids \/ n = Len(rows')
    BY <2>3, <2>4
  <2> QED BY <1>0, <2>1, <2>3, <2>5
<1>3. ASSUME NEW S \in SUBSET DOMAIN call[h].saw, NEW st \in Status, NEW p \in Products,
             NEW T \in SUBSET Ids, Changed(h, S, st, p, T), NEW n \in Ids
      PROVE  RowTrail(rows'[n]) /\ (WasApproved(rows[n]) => WasApproved(rows'[n]))
  <2>1. rows[n] \in Row /\ RowTrail(rows[n]) /\ CallTrail(h)
    BY <1>0, RowTyped DEF TrailInv
  <2>2. CASE n \in S
    <3>1. rows'[n] = Moved(rows[n], p, call[h].saw[n], st)
      BY <1>3, <2>2 DEF Changed, Updated
    <3>2. call[h].saw[n] = "APPROVED" \/ st = "REVOKED" => WasApproved(rows[n])
      BY <1>3, <2>1, <2>2 DEF Changed, CallTrail
    <3> QED BY <2>1, <3>1, <3>2, MovedTrail
  <2>3. CASE n \in T \ S
    <3>1. rows'[n] = Moved(rows[n], rows[n].product, "APPROVED", "SOFT_REVOKED")
      BY <1>3, <2>3 DEF Changed, Updated
    <3>2. rows[n].status = "APPROVED" => WasApproved(rows[n])
      BY <2>1 DEF RowTrail, WasApproved
    <3>3. WasApproved(rows[n])
      BY <1>3, <2>1, <2>3, <3>2 DEF Changed, CallTrail
    <3> QED BY <2>1, <3>1, <3>3, MovedTrail
  <2>4. CASE n \notin S \cup T
    <3>1. rows'[n] = rows[n]
      BY <1>3, <2>4 DEF Changed, Updated
    <3> QED BY <2>1, <3>1
  <2> QED BY <2>2, <2>3, <2>4
<1>4. ASSUME NEW S \in SUBSET DOMAIN call[h].saw, NEW st \in Status, NEW p \in Products,
             NEW T \in SUBSET Ids, Changed(h, S, st, p, T)
      PROVE  Ids' = Ids
  BY <1>0, <1>4, ChangedTyped
<1> QED BY <1>1, <1>2, <1>3, <1>4 DEF Writes

\* What is approved now, and what has left APPROVED, the trail shows approved.
LEMMA ReadTrail ==
  ASSUME TrailInv, NEW h \in Handlers, NEW op, NEW k, NEW S \in SUBSET Ids,
         NEW p, Read(h, op, k, S, p),
         op \in {"revoke", "rollback"} => \A n \in S : WasApproved(rows[n])
  PROVE  (\A g \in Handlers : CallTrail(g)') /\ UNCHANGED <<rows, frozen, lost>>
<1> DEFINE V == IF op = "map" THEN OfKey(k) ELSE S
           c == [pc |-> "write", op |-> op, key |-> k, todo |-> S,
                 saw |-> [n \in V |-> rows[n].status], product |-> p, events |-> {}]
<1>1. call' = [call EXCEPT ![h] = c] /\ UNCHANGED <<rows, frozen, lost>>
  BY DEF Read
<1>2. call'[h] = c /\ \A g \in Handlers \ {h} : call'[g] = call[g]
  BY <1>1 DEF TrailInv, TypeOK, CallsTyped
<1>3. V \subseteq Ids
  BY DEF OfKey
<1>4. \A n \in V : rows[n].status = "APPROVED" => WasApproved(rows[n])
  BY <1>3 DEF TrailInv, RowTrail, WasApproved
<1>5. c.saw = [n \in V |-> rows[n].status] /\ c.todo = S /\ c.op = op
  OBVIOUS
<1> HIDE DEF c, V
<1>6. CallTrail(h)'
  BY <1>1, <1>2, <1>4, <1>5 DEF CallTrail
<1>7. \A g \in Handlers \ {h} : CallTrail(g)'
  BY <1>1, <1>2 DEF TrailInv, CallTrail
<1> QED BY <1>1, <1>6, <1>7

LEMMA ReadingTrail ==
  ASSUME TrailInv, NEW h \in Handlers, Reading(h)
  PROVE  \A g \in Handlers : CallTrail(g)'
<1>1. ASSUME NEW n \in Ids, ReadReject(h, n) \/ ReadRevoke(h, n) \/ ReadRollback(h, n)
      PROVE  \A g \in Handlers : CallTrail(g)'
  <2>1. CASE ReadReject(h, n)
    BY <2>1, ReadTrail DEF ReadReject
  <2>2. CASE ReadRevoke(h, n)
    <3>1. \A i \in {n} : WasApproved(rows[i])
      BY <2>2 DEF ReadRevoke, TrailInv, RowTrail, WasApproved
    <3> QED BY <2>2, <3>1, ReadTrail DEF ReadRevoke
  <2>3. CASE ReadRollback(h, n)
    <3>1. \A i \in {n} : WasApproved(rows[i])
      BY <2>3 DEF ReadRollback, TrailInv, RowTrail
    <3> QED BY <2>3, <3>1, ReadTrail DEF ReadRollback
  <2> QED BY <1>1, <2>1, <2>2, <2>3
<1>2. ASSUME NEW n \in Ids, NEW p \in Products, ReadApprove(h, n, p) \/ ReadCreateApprove(h, n, p)
      PROVE  \A g \in Handlers : CallTrail(g)'
  BY <1>2, ReadTrail DEF ReadApprove, ReadCreateApprove
<1>3. ASSUME NEW S \in SUBSET Ids, NEW p \in Products, ReadBatch(h, S, p)
      PROVE  \A g \in Handlers : CallTrail(g)'
  BY <1>3, ReadTrail DEF ReadBatch
<1>4. ASSUME NEW k \in Keys, NEW p \in Products, ReadMap(h, k, p) \/ ReadDrop(h, k, p)
      PROVE  \A g \in Handlers : CallTrail(g)'
  <2>1. MapTarget(k, p) \in SUBSET Ids /\ Newest(OfKey(k)) \in SUBSET Ids
    BY DEF MapTarget, Newest, OfKey
  <2> QED BY <1>4, <2>1, ReadTrail DEF ReadMap, ReadDrop
<1> QED BY <1>1, <1>2, <1>3, <1>4 DEF Reading

\* A handler that has written forgets what it read.
LEMMA EndTrail ==
  ASSUME TrailInv, NEW h \in Handlers, Ends(h) \/ Answer(h),
         \A n \in Ids : WasApproved(rows[n]) => WasApproved(rows'[n])
  PROVE  \A g \in Handlers : CallTrail(g)'
<1>1. PICK pc, es : call' = [call EXCEPT ![h] = NoTransaction(pc, es)]
  BY DEF Ends, Answer, Publishing, Idle
<1>2. /\ call'[h] = NoTransaction(pc, es)
      /\ \A g \in Handlers \ {h} : call'[g] = call[g]
  BY <1>1 DEF TrailInv, TypeOK, CallsTyped
<1>3. call'[h].op = "none" /\ call'[h].saw = <<>> /\ DOMAIN call'[h].saw = {}
  BY <1>2 DEF NoTransaction
<1>4. ASSUME NEW g \in Handlers \ {h}
      PROVE  CallTrail(g)'
  <2>1. call[g].todo \subseteq Ids /\ DOMAIN call[g].saw \subseteq Ids
    BY DEF TrailInv, TypeOK, CallsTyped
  <2> QED BY <1>2, <2>1 DEF TrailInv, CallTrail
<1> QED BY <1>3, <1>4 DEF CallTrail

LEMMA TrailStep == TrailInv /\ [Next]_vars => TrailInv'
<1> SUFFICES ASSUME TrailInv, [Next]_vars PROVE TrailInv'
  OBVIOUS
<1>0. TypeOK' /\ TypeOK
  BY StepTyped DEF TrailInv
<1>1. ASSUME NEW k \in Keys, NEW p \in Products, Create(k, p)
      PROVE  TrailInv'
  <2>1. Added(k, p, "PENDING") /\ "PENDING" \in Status /\ UNCHANGED call
    BY <1>1 DEF Create, Added, Status
  <2>2. /\ \A n \in Ids' : RowTrail(rows'[n])
        /\ \A n \in Ids : WasApproved(rows[n]) => WasApproved(rows'[n])
    <3> DEFINE row == NewRow(k, p, "PENDING")
    <3>1. row \in Row /\ RowTrail(row)
      BY <2>1, NewRowTyped, NewRowTrail
    <3>2. rows' = Append(rows, row)
      BY <2>1 DEF Added
    <3> HIDE DEF row
    <3>3. /\ Len(rows') = Len(rows) + 1 /\ Ids = 1..Len(rows) /\ Ids' = 1..Len(rows')
          /\ \A n \in Ids : rows'[n] = rows[n]
          /\ rows'[Len(rows')] = row
      BY <1>0, <3>1, <3>2, AppendTyped DEF TypeOK
    <3>4. Len(rows) \in Nat
      BY <1>0, RowTyped DEF TypeOK
    <3>5. \A n \in Ids' : n \in Ids \/ n = Len(rows')
      BY <3>3, <3>4
    <3> QED BY <3>1, <3>3, <3>5 DEF TrailInv
  <2>3. ASSUME NEW h \in Handlers
        PROVE  CallTrail(h)'
    <3>1. call[h].todo \subseteq Ids /\ DOMAIN call[h].saw \subseteq Ids
      BY <1>0 DEF TypeOK, CallsTyped
    <3> QED BY <2>1, <2>2, <3>1 DEF TrailInv, CallTrail
  <2> QED BY <1>0, <2>2, <2>3 DEF TrailInv
<1>2. ASSUME NEW h \in Handlers, Reading(h)
      PROVE  TrailInv'
  <2>1. UNCHANGED rows
    BY <1>0, <1>2, ReadingTyped
  <2> QED BY <1>0, <1>2, <2>1, ReadingTrail DEF TrailInv, Ids
<1>3. ASSUME NEW h \in Handlers, Approve(h) \/ Reject(h) \/ Revoke(h) \/ Map(h) \/ Drop(h)
      PROVE  TrailInv'
  <2>1. Writes(h) /\ Ends(h)
    BY <1>0, <1>3, ApproveWrites, RejectWrites, RevokeWrites, MapWrites, DropWrites
  <2>2. /\ \A n \in Ids' : RowTrail(rows'[n])
        /\ \A n \in Ids : WasApproved(rows[n]) => WasApproved(rows'[n])
    BY <2>1, WritesTrail
  <2> QED BY <1>0, <2>1, <2>2, EndTrail DEF TrailInv
<1>4. ASSUME NEW h \in Handlers, Freeze(h) \/ Abort(h)
      PROVE  TrailInv'
  <2>1. Answer(h) /\ UNCHANGED rows
    BY <1>4 DEF Freeze, Abort
  <2> QED BY <1>0, <2>1, EndTrail DEF TrailInv, Ids
<1>5. CASE UNCHANGED vars
  BY <1>0, <1>5 DEF vars, TrailInv, CallTrail, Ids
<1> QED BY <1>1, <1>2, <1>3, <1>4, <1>5 DEF Next

\* The trail of a mapping is complete through all races: an entry of each version, the
\* last one in the status it has, and nothing revoked that was never approved, by a
\* rollback or a revocation that read a status long gone (mdm-mapping-routes.ts).
THEOREM TrailComplete == Spec => []HistoryComplete
<1>1. Init => TrailInv
  <2> SUFFICES ASSUME Init PROVE TrailInv
    OBVIOUS
  <2>1. TypeOK /\ Ids = {} /\ \A h \in Handlers : call[h] = Idle
    BY InitTyped DEF Init, Ids
  <2>2. Idle.op = "none" /\ DOMAIN Idle.saw = {}
    BY DEF Idle, NoTransaction
  <2> QED BY <2>1, <2>2 DEF TrailInv, CallTrail
<1>2. TrailInv => HistoryComplete
  BY DEF TrailInv, RowTrail, WasApproved, HistoryComplete
<1> QED BY <1>1, <1>2, TrailStep, PTL DEF Spec
-----------------------------------------------------------------------------
(* The products of revoked mappings                                        *)

\* The revocation of n that took its product is still to be delivered.
OnItsWay(n) ==
  \E h \in Handlers : \E e \in call[h].events : e.id = n /\ e.product = rows[n].product
Delivered(n) ==
  rows[n].status = "REVOKED" /\ rows[n].key \in ProductKeys /\ n \notin lost
    => rows[n].product \in frozen \/ OnItsWay(n)
FrozenInv ==
  /\ TypeOK
  /\ \A h \in Handlers : call[h].pc # "publish" => call[h].events = {}
  /\ \A n \in Ids : Delivered(n)

\* Only a revocation or a rollback leaves a mapping revoked.
LEMMA RevokedByThose ==
  ASSUME TypeOK, NEW h \in Handlers, Writes(h), call[h].op \notin {"revoke", "rollback"},
         NEW n \in Ids', rows'[n].status = "REVOKED"
  PROVE  n \in Ids /\ rows'[n] = rows[n]
<1>1. CASE Left
  BY <1>1 DEF Left, Ids
<1>2. ASSUME NEW k \in Keys, NEW p \in Products, NEW st \in Status, Added(k, p, st)
      PROVE  n \in Ids /\ rows'[n] = rows[n]
  <2> DEFINE row == NewRow(k, p, st)
  <2>1. row \in Row /\ row.status # "REVOKED"
    BY <1>2, NewRowTyped DEF Added
  <2>2. rows' = Append(rows, row)
    BY <1>2 DEF Added
  <2> HIDE DEF row
  <2>3. /\ Len(rows') = Len(rows) + 1 /\ Ids = 1..Len(rows) /\ Ids' = 1..Len(rows')
        /\ \A i \in Ids : rows'[i] = rows[i]
        /\ rows'[Len(rows')] = row
    BY <2>1, <2>2, AppendTyped DEF TypeOK
  <2>4. Len(rows) \in Nat
    BY RowTyped DEF TypeOK
  <2>5. n \in Ids \/ n = Len(rows')
    BY <2>3, <2>4
  <2> QED BY <2>1, <2>3, <2>5
<1>3. ASSUME NEW S \in SUBSET DOMAIN call[h].saw, NEW st \in Status, NEW p \in Products,
             NEW T \in SUBSET Ids, Changed(h, S, st, p, T)
      PROVE  n \in Ids /\ rows'[n] = rows[n]
  <2>1. n \in Ids /\ rows'[n].status = IF n \in S THEN st ELSE IF n \in T THEN "SOFT_REVOKED"
                                        ELSE rows[n].status
    BY <1>3, UpdatedTyped DEF Changed
  <2>2. n \notin S \cup T
    BY <1>3, <2>1 DEF Changed
  <2> QED BY <1>3, <2>1, <2>2 DEF Changed, Updated
<1> QED BY <1>1, <1>2, <1>3 DEF Writes

\* A handler ends that had nothing to deliver.
LEMMA StillOnItsWay ==
  ASSUME FrozenInv, NEW h \in Handlers, NEW c, c.pc # "publish" => c.events = {},
         call' = [call EXCEPT ![h] = c], call[h].events = {}
  PROVE  /\ \A g \in Handlers : call'[g].pc # "publish" => call'[g].events = {}
         /\ \A n \in Ids : OnItsWay(n) /\ rows'[n].product = rows[n].product => OnItsWay(n)'
<1>1. call'[h] = c /\ \A g \in Handlers \ {h} : call'[g] = call[g]
  BY DEF FrozenInv, TypeOK, CallsTyped
<1> QED BY <1>1 DEF FrozenInv, OnItsWay

LEMMA NoTransactionEvents ==
  ASSUME NEW pc, NEW es
  PROVE  NoTransaction(pc, es).pc = pc /\ NoTransaction(pc, es).events = es
BY DEF NoTransaction

\* What a handler does that revokes nothing
LEMMA NothingRevoked ==
  ASSUME FrozenInv, TypeOK', NEW h \in Handlers, Ends(h), call[h].events = {}, UNCHANGED <<frozen, lost>>,
         \A n \in Ids' : rows'[n].status = "REVOKED" => n \in Ids /\ rows'[n] = rows[n]
  PROVE  FrozenInv'
<1>1. PICK events : Answer(h) \/ Publishing(h, events)
  BY DEF Ends
<1>2. PICK pc, es : call' = [call EXCEPT ![h] = NoTransaction(pc, es)] /\ (pc # "publish" => es = {})
  BY <1>1 DEF Answer, Publishing, Idle
<1>3. /\ \A g \in Handlers : call'[g].pc # "publish" => call'[g].events = {}
      /\ \A n \in Ids : OnItsWay(n) /\ rows'[n].product = rows[n].product => OnItsWay(n)'
  <2> DEFINE c == NoTransaction(pc, es)
  <2>1. c.pc # "publish" => c.events = {}
    BY <1>2, NoTransactionEvents
  <2>2. call' = [call EXCEPT ![h] = c]
    BY <1>2
  <2> HIDE DEF c
  <2> QED BY <2>1, <2>2, StillOnItsWay
<1>4. \A n \in Ids' : Delivered(n)'
  BY <1>3 DEF FrozenInv, Delivered
<1> QED BY <1>3, <1>4 DEF FrozenInv

\* The event of a revocation names the product of the row that is revoked.
LEMMA RevokeDelivers ==
  ASSUME FrozenInv, TypeOK', NEW h \in Handlers, Revoke(h)
  PROVE  FrozenInv'
<1>0. TypeOK
  BY DEF FrozenInv
<1>1. PICK n \in call[h].todo :
        /\ rows' = Updated(h, {n}, "REVOKED", rows[n].product, {})
        /\ Publishing(h, {[id |-> n, product |-> rows[n].product]})
  BY DEF Revoke
<1> DEFINE event == [id |-> n, product |-> rows[n].product]
<1>2. call' = [call EXCEPT ![h] = NoTransaction("publish", {event})]
  BY <1>1 DEF Publishing
<1>3. call[h].events = {} /\ UNCHANGED <<frozen, lost>>
  BY DEF Revoke, Writing, FrozenInv
<1>4. /\ \A g \in Handlers : call'[g].pc # "publish" => call'[g].events = {}
      /\ \A m \in Ids : OnItsWay(m) /\ rows'[m].product = rows[m].product => OnItsWay(m)'
  <2> DEFINE c == NoTransaction("publish", {event})
  <2>1. c.pc # "publish" => c.events = {}
    BY NoTransactionEvents
  <2>2. call' = [call EXCEPT ![h] = c]
    BY <1>2
  <2> HIDE DEF c
  <2> QED BY <1>3, <2>1, <2>2, StillOnItsWay
<1>5. n \in Ids /\ Ids' = Ids /\ \A m \in Ids \ {n} : rows'[m] = rows[m]
  BY <1>0, <1>1 DEF TypeOK, CallsTyped, Updated, Ids
<1>6. rows'[n].product = rows[n].product
  BY <1>1, <1>5 DEF Updated, Moved
<1>7. call'[h].events = {event}
  BY <1>0, <1>2, NoTransactionEvents DEF TypeOK, CallsTyped
<1>8. OnItsWay(n)'
  <2>1. event.id = n /\ event.product = rows[n].product
    OBVIOUS
  <2> HIDE DEF event
  <2> QED BY <1>6, <1>7, <2>1 DEF OnItsWay
<1>9. \A m \in Ids : Delivered(m)'
  BY <1>3, <1>4, <1>5, <1>8 DEF FrozenInv, Delivered
<1> QED BY <1>4, <1>5, <1>9 DEF FrozenInv

LEMMA FrozenStep == FrozenInv /\ [Next]_vars => FrozenInv'
<1> SUFFICES ASSUME FrozenInv, [Next]_vars PROVE FrozenInv'
  OBVIOUS
<1>0. TypeOK' /\ TypeOK
  BY StepTyped DEF FrozenInv
<1>1. ASSUME NEW k \in Keys, NEW p \in Products, Create(k, p)
      PROVE  FrozenInv'
  <2> DEFINE row == NewRow(k, p, "PENDING")
  <2>1. row \in Row /\ row.status = "PENDING"
    BY NewRowTyped DEF Status
  <2>2. rows' = Append(rows, row) /\ UNCHANGED <<call, frozen, lost>>
    BY <1>1 DEF Create
  <2> HIDE DEF row
  <2>3. /\ Len(rows') = Len(rows) + 1 /\ Ids = 1..Len(rows) /\ Ids' = 1..Len(rows')
        /\ \A n \in Ids : rows'[n] = rows[n]
        /\ rows'[Len(rows')] = row
    BY <1>0, <2>1, <2>2, AppendTyped DEF TypeOK
  <2>4. Len(rows) \in Nat
    BY <1>0, RowTyped DEF TypeOK
  <2>5. \A n \in Ids' : n \in Ids \/ n = Len(rows')
    BY <2>3, <2>4
  <2>6. \A n \in Ids' : Delivered(n)'
    BY <2>1, <2>2, <2>3, <2>5 DEF FrozenInv, Delivered, OnItsWay
  <2> QED BY <1>0, <2>2, <2>6 DEF FrozenInv
<1>2. ASSUME NEW h \in Handlers, Reading(h)
      PROVE  FrozenInv'
  <2>1. PICK c : /\ call' = [call EXCEPT ![h] = c] /\ c.events = {} /\ call[h].pc = "idle"
                 /\ UNCHANGED <<rows, frozen, lost>>
    <3>1. PICK op, k, S, p : Read(h, op, k, S, p)
      BY <1>2 DEF Reading, ReadReject, ReadRevoke, ReadRollback, ReadApprove, ReadCreateApprove,
                  ReadBatch, ReadMap, ReadDrop
    <3> DEFINE c == [pc |-> "write", op |-> op, key |-> k, todo |-> S,
                     saw |-> [n \in IF op = "map" THEN OfKey(k) ELSE S |-> rows[n].status],
                     product |-> p, events |-> {}]
    <3>2. /\ call' = [call EXCEPT ![h] = c] /\ c.events = {} /\ call[h].pc = "idle"
          /\ UNCHANGED <<rows, frozen, lost>>
      BY <3>1 DEF Read
    <3> QED BY <3>2
  <2>2. call[h].events = {}
    BY <2>1 DEF FrozenInv
  <2>3. /\ \A g \in Handlers : call'[g].pc # "publish" => call'[g].events = {}
        /\ \A n \in Ids : OnItsWay(n) /\ rows'[n].product = rows[n].product => OnItsWay(n)'
    BY <2>1, <2>2, StillOnItsWay
  <2>4. Ids' = Ids /\ \A n \in Ids : Delivered(n)'
    BY <2>1, <2>3 DEF FrozenInv, Delivered, Ids
  <2> QED BY <1>0, <2>3, <2>4 DEF FrozenInv
<1>3. ASSUME NEW h \in Handlers, Approve(h) \/ Reject(h) \/ Map(h) \/ Drop(h)
      PROVE  FrozenInv'
  <2>1. Writes(h) /\ Ends(h) /\ UNCHANGED <<frozen, lost>>
    BY <1>0, <1>3, ApproveWrites, RejectWrites, MapWrites, DropWrites
  <2>2. call[h].pc = "write" /\ call[h].op \notin {"revoke", "rollback"}
    BY <1>3 DEF Approve, Reject, Map, Drop, Writing
  <2>3. call[h].events = {}
    BY <2>2 DEF FrozenInv
  <2> QED BY <1>0, <2>1, <2>2, <2>3, RevokedByThose, NothingRevoked
<1>4. ASSUME NEW h \in Handlers, Freeze(h)
      PROVE  FrozenInv'
  <2>1. call' = [call EXCEPT ![h] = Idle] /\ UNCHANGED <<rows, lost>>
    BY <1>4 DEF Freeze, Answer
  <2>2. /\ call'[h] = Idle /\ \A g \in Handlers \ {h} : call'[g] = call[g]
    BY <1>0, <2>1 DEF TypeOK, CallsTyped
  <2>3. \A n \in Ids : OnItsWay(n) /\ rows[n].key \in ProductKeys => OnItsWay(n)' \/ rows[n].product \in frozen'
    BY <1>4, <2>1, <2>2 DEF OnItsWay, Freeze
  <2>4. frozen \subseteq frozen'
    BY <1>4 DEF Freeze
  <2>5. Ids' = Ids /\ \A n \in Ids : Delivered(n)'
    BY <2>1, <2>3, <2>4 DEF FrozenInv, Delivered, Ids
  <2>6. Idle.events = {}
    BY NoTransactionEvents DEF Idle
  <2> QED BY <1>0, <2>2, <2>5, <2>6 DEF FrozenInv
<1>5. ASSUME NEW h \in Handlers, Abort(h)
      PROVE  FrozenInv'
  <2>1. /\ call' = [call EXCEPT ![h] = Idle] /\ UNCHANGED <<rows, frozen>>
        /\ lost' = lost \cup {e.id : e \in call[h].events}
    BY <1>5 DEF Abort, Answer
  <2>2. /\ call'[h] = Idle /\ \A g \in Handlers \ {h} : call'[g] = call[g]
    BY <1>0, <2>1 DEF TypeOK, CallsTyped
  <2>3. \A n \in Ids : OnItsWay(n) => OnItsWay(n)' \/ n \in lost'
    BY <2>1, <2>2 DEF OnItsWay
  <2>4. Ids' = Ids /\ \A n \in Ids : Delivered(n)'
    BY <2>1, <2>3 DEF FrozenInv, Delivered, Ids
  <2>5. Idle.events = {}
    BY NoTransactionEvents DEF Idle
  <2> QED BY <1>0, <2>2, <2>4, <2>5 DEF FrozenInv
<1>6. CASE UNCHANGED vars
  BY <1>0, <1>6 DEF vars, FrozenInv, Delivered, OnItsWay, Ids
<1> QED BY <1>0, <1>1, <1>2, <1>3, <1>4, <1>5, <1>6, RevokeDelivers DEF Next

\* The product that a revoked mapping had when it was revoked, and not one it had been
\* read with, is frozen once its revocations are delivered and none was lost
\* (mdm-isolation-handler.ts).
THEOREM RevokedAreFrozen == Spec => []RevokedFrozen
<1>1. Init => FrozenInv
  <2> SUFFICES ASSUME Init PROVE FrozenInv
    OBVIOUS
  <2>1. TypeOK /\ Ids = {} /\ \A h \in Handlers : call[h] = Idle
    BY InitTyped DEF Init, Ids
  <2> QED BY <2>1, NoTransactionEvents DEF FrozenInv, Idle
<1>2. FrozenInv => RevokedFrozen
  BY DEF FrozenInv, Delivered, OnItsWay, RevokedFrozen
<1> QED BY <1>1, <1>2, FrozenStep, PTL DEF Spec
-----------------------------------------------------------------------------
(* All of them together, for the modules that put this one beside others     *)

MappingInv == OneApprovedPerKey /\ TrailInv /\ FrozenInv

LEMMA MappingInit == Init => MappingInv
<1> SUFFICES ASSUME Init PROVE MappingInv
  OBVIOUS
<1>1. TypeOK /\ OneApprovedPerKey /\ Ids = {} /\ \A h \in Handlers : call[h] = Idle
  BY InitTyped DEF Init, Ids
<1>2. /\ Idle.op = "none" /\ DOMAIN Idle.saw = {} /\ Idle.events = {}
  BY DEF Idle, NoTransaction
<1>3. TrailInv
  BY <1>1, <1>2 DEF TrailInv, CallTrail
<1>4. FrozenInv
  BY <1>1, <1>2 DEF FrozenInv
<1> QED BY <1>1, <1>3, <1>4 DEF MappingInv

LEMMA MappingStep == MappingInv /\ [Next]_vars => MappingInv'
BY StepTyped, TrailStep, FrozenStep DEF MappingInv, TrailInv

LEMMA MappingHolds ==
  MappingInv => TypeOK /\ OneApprovedPerKey /\ HistoryComplete /\ RevokedFrozen
<1>1. TrailInv => TypeOK /\ HistoryComplete
  BY DEF TrailInv, RowTrail, WasApproved, HistoryComplete
<1>2. FrozenInv => RevokedFrozen
  BY DEF FrozenInv, Delivered, OnItsWay, RevokedFrozen
<1> QED BY <1>1, <1>2 DEF MappingInv
=============================================================================
