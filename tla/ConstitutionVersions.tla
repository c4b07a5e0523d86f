------------------------- MODULE ConstitutionVersions -------------------------
(***************************************************************************)
(* Publishing a tenant's constitution, constitution-engine.ts: the rows of    *)
(* PolicyConfig that hold its versions, each with the time from which and to  *)
(* which it is in force. A publication takes its time, then in one            *)
(* transaction reads the version in force, ends the rows that have no end,    *)
(* and adds its own.                                                        *)
(*                                                                         *)
(* The transaction is READ COMMITTED, the default of the database: each       *)
(* statement sees what was committed when it began, an update waits for the   *)
(* rows another transaction has changed and looks at them again, and the      *)
(* exclusion constraint of 0001_week1_hardening.sql refuses a window that     *)
(* overlaps another, waiting for one that is not committed yet.              *)
(***************************************************************************)
EXTENDS Naturals, FiniteSets

CONSTANTS
  Publishers,  \* calls of POST /constitution
  MaxMoment    \* bound of the model

VARIABLES
  moment,      \* the clock
  manifests,   \* committed rows: version, from, to (Open: no end), by
  publication, \* each call: where it is and what it has done in its transaction
  behind       \* history: pairs <<p, q>>: p read before q committed

constitutionVars == <<moment, manifests, publication, behind>>

Open == MaxMoment + 1
NotBegun == [pc |-> "ready", now |-> 0, version |-> 0, seen |-> {}, ended |-> {}]

OpenRows == {m \in manifests : m.to = Open}
InForce == {m \in manifests : m.from <= moment /\ moment < m.to}

\* loadActiveConstitution: the default one has version 1 and no row.
ActiveVersion ==
  IF InForce = {} THEN 1
  ELSE (CHOOSE m \in InForce : \A n \in InForce : n.from <= m.from).version

NextVersion == ActiveVersion + 1

InTransaction(q) == publication[q].pc \in {"ending", "create", "commit"}

\* Rows that another transaction has ended and not yet committed
Locked(p) == UNION {publication[q].ended : q \in {q \in Publishers \ {p} : InTransaction(q)}}
-----------------------------------------------------------------------------
Begin(p) ==
  /\ publication[p].pc = "ready"
  /\ publication' = [publication EXCEPT ![p].pc = "load", ![p].now = moment]
  /\ UNCHANGED <<moment, manifests, behind>>

Load(p) ==
  /\ publication[p].pc = "load"
  /\ publication' = [publication EXCEPT ![p].pc = "end", ![p].version = NextVersion]
  /\ behind' = behind \cup {<<p, q>> : q \in {q \in Publishers : publication[q].pc # "done"}}
  /\ UNCHANGED <<moment, manifests>>

\* updateMany: the rows it will end are those it sees now.
SeeOpen(p) ==
  /\ publication[p].pc = "end"
  /\ publication' = [publication EXCEPT ![p].pc = "ending", ![p].seen = OpenRows]
  /\ UNCHANGED <<moment, manifests, behind>>

\* A range has its bounds in order.
ValidWindow(m, now) == m.from <= now

\* It waits for those rows, and ends the ones that are still open.
EndOpen(p) ==
  /\ publication[p].pc = "ending" /\ publication[p].seen \cap Locked(p) = {}
  /\ LET rows == publication[p].seen \cap OpenRows IN
     publication' =
       IF \A m \in rows : ValidWindow(m, publication[p].now)
       THEN [publication EXCEPT ![p].pc = "create", ![p].ended = rows, ![p].seen = {}]
       ELSE [publication EXCEPT ![p] = [NotBegun EXCEPT !.pc = "failed"]]
  /\ UNCHANGED <<moment, manifests, behind>>

\* A window that starts now and never ends, against one this transaction left
Overlaps(p, m) == m.to > publication[p].now /\ m.from < m.to

\* A row of another transaction that would be in the way, or is no longer
\* once that one commits, is waited for.
MustWait(p) ==
  \/ \E q \in Publishers \ {p} : publication[q].pc = "commit"
  \/ \E m \in (manifests \ publication[p].ended) \cap Locked(p) : Overlaps(p, m)

Insert(p) ==
  /\ publication[p].pc = "create" /\ ~MustWait(p)
  /\ publication' =
       IF \E m \in manifests \ publication[p].ended : Overlaps(p, m)
       THEN [publication EXCEPT ![p] = [NotBegun EXCEPT !.pc = "failed"]]
       ELSE [publication EXCEPT ![p].pc = "commit"]
  /\ UNCHANGED <<moment, manifests, behind>>

Commit(p) ==
  LET own == publication[p] IN
  /\ own.pc = "commit"
  /\ manifests' = (manifests \ own.ended)
       \cup {[m EXCEPT !.to = own.now] : m \in own.ended}
       \cup {[version |-> own.version, from |-> own.now, to |-> Open, by |-> p]}
  /\ publication' = [publication EXCEPT ![p] = [NotBegun EXCEPT !.pc = "done"]]
  /\ UNCHANGED <<moment, behind>>

\* A deadlock that the database breaks, a lost connection, the end of the process
Abort(p) ==
  /\ publication[p].pc \in {"load", "end", "ending", "create", "commit"}
  /\ publication' = [publication EXCEPT ![p] = [NotBegun EXCEPT !.pc = "failed"]]
  /\ UNCHANGED <<moment, manifests, behind>>

Pass == moment < MaxMoment /\ moment' = moment + 1 /\ UNCHANGED <<manifests, publication, behind>>

Init ==
  /\ moment = 0 /\ manifests = {} /\ behind = {}
  /\ publication = [p \in Publishers |-> NotBegun]

Next ==
  \/ Pass
  \/ \E p \in Publishers :
       Begin(p) \/ Load(p) \/ SeeOpen(p) \/ EndOpen(p) \/ Insert(p) \/ Commit(p) \/ Abort(p)

Spec == Init /\ [][Next]_constitutionVars
-----------------------------------------------------------------------------
(* Properties *)

TypeOK ==
  /\ moment \in 0..MaxMoment
  /\ \A m \in manifests : m.version \in Nat \ {0} /\ m.from <= moment /\ m.to <= Open
  /\ \A p \in Publishers : publication[p].ended \subseteq manifests /\ publication[p].now <= moment
  /\ behind \subseteq Publishers \X Publishers

\* Two publications that each read the version before the other committed
Together(m, n) == m # n /\ <<m.by, n.by>> \in behind /\ <<n.by, m.by>> \in behind

\* Whoever publishes when, constitutions follow one another: one at most is in
\* force at a time; one has a higher version than the one it ends, unless its
\* publication had read the version before that one committed; and as long as
\* no two were published together, a later one has a higher version.
OneAfterAnother ==
  /\ \A t \in 0..MaxMoment : Cardinality({m \in manifests : m.from <= t /\ t < m.to}) <= 1
  /\ \A p \in Publishers : publication[p].pc = "commit" =>
       \A m \in publication[p].ended :
         m.version < publication[p].version \/ <<p, m.by>> \in behind
  /\ (\A m, n \in manifests : ~Together(m, n))
       => \A m, n \in manifests : m.from < n.from => m.version < n.version
=============================================================================
