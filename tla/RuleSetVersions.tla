--------------------------- MODULE RuleSetVersions ---------------------------
(***************************************************************************)
(* The versions of one rule set: PUT /rulesets/:id and POST .../rollback of   *)
(* server.ts. Each statement has a transaction of its own (withTenant), so an *)
(* edit reads the latest number, creates the next, and makes it the active    *)
(* one in three steps. A unique key on the number is all that two edits meet. *)
(***************************************************************************)
EXTENDS Naturals, FiniteSets

CONSTANTS
  Edits,       \* calls of PUT and rollback
  Texts,       \* rule texts
  MaxVersions  \* bound of the model

VARIABLES
  versions,    \* the rows of RuleVersion: number, text, the edit that made it
  active,      \* activeVersion
  edit,        \* each call: where it is, the latest number it read, what it writes
  passed       \* history: numbers created while a lower one was still to be activated

ruleVars == <<versions, active, edit, passed>>

Ready == [pc |-> "ready", latest |-> 0, text |-> CHOOSE t \in Texts : TRUE]

Numbers == {v.number : v \in versions}
Latest == CHOOSE n \in Numbers : \A k \in Numbers : k <= n
Text(n) == (CHOOSE v \in versions : v.number = n).text

\* A rollback reads its target, an earlier version, before the latest number.
BeginUpdate(e) ==
  /\ edit[e].pc = "ready"
  /\ \E t \in Texts : edit' = [edit EXCEPT ![e] = [Ready EXCEPT !.pc = "latest", !.text = t]]
  /\ UNCHANGED <<versions, active, passed>>

BeginRollback(e) ==
  /\ edit[e].pc = "ready"
  /\ \E n \in Numbers :
       edit' = [edit EXCEPT ![e] = [Ready EXCEPT !.pc = "latest", !.text = Text(n)]]
  /\ UNCHANGED <<versions, active, passed>>

ReadLatest(e) ==
  /\ edit[e].pc = "latest"
  /\ edit' = [edit EXCEPT ![e].pc = "create", ![e].latest = Latest]
  /\ UNCHANGED <<versions, active, passed>>

\* The unique key on (ruleSetId, version)
NumberTaken(n) == n \in Numbers

Create(e) ==
  LET n == edit[e].latest + 1 IN
  /\ edit[e].pc = "create" /\ ~NumberTaken(n) /\ n <= MaxVersions
  /\ versions' = versions \cup {[number |-> n, text |-> edit[e].text, by |-> e]}
  /\ edit' = [edit EXCEPT ![e].pc = "activate"]
  /\ passed' = IF \E d \in Edits \ {e} : edit[d].pc = "activate" THEN passed \cup {n} ELSE passed
  /\ UNCHANGED active

\* 500: the other edit took the number, or the database did not answer.
CreateFails(e) ==
  /\ edit[e].pc = "create"
  /\ edit' = [edit EXCEPT ![e] = [Ready EXCEPT !.pc = "failed"]]
  /\ UNCHANGED <<versions, active, passed>>

\* Mutant: the number that was read is made active.
ReadNumber(e) == edit[e].latest

CreatedNumber(e) == edit[e].latest + 1

Activate(e) ==
  /\ edit[e].pc = "activate"
  /\ active' = CreatedNumber(e)
  /\ edit' = [edit EXCEPT ![e] = [Ready EXCEPT !.pc = "done"]]
  /\ UNCHANGED <<versions, passed>>

\* The version is there and the one before it stays active.
ActivateFails(e) ==
  /\ edit[e].pc = "activate"
  /\ edit' = [edit EXCEPT ![e] = [Ready EXCEPT !.pc = "failed"]]
  /\ passed' = passed \cup {edit[e].latest + 1}
  /\ UNCHANGED <<versions, active>>

\* The rule set is created with its first version and its number in one go.
Init ==
  /\ \E t \in Texts : versions = {[number |-> 1, text |-> t, by |-> "create"]}
  /\ active = 1 /\ edit = [e \in Edits |-> Ready] /\ passed = {}

Next ==
  \E e \in Edits :
    \/ BeginUpdate(e) \/ BeginRollback(e) \/ ReadLatest(e)
    \/ Create(e) \/ CreateFails(e) \/ Activate(e) \/ ActivateFails(e)

Spec == Init /\ [][Next]_ruleVars
-----------------------------------------------------------------------------
(* Properties *)

TypeOK ==
  /\ versions \subseteq [number : 1..MaxVersions, text : Texts, by : Edits \cup {"create"}]
  /\ active \in Numbers /\ passed \subseteq Numbers
  /\ \A e \in Edits : /\ edit[e].pc \in {"ready", "latest", "create", "activate", "done", "failed"}
                      /\ edit[e].latest \in 0..MaxVersions /\ edit[e].text \in Texts

\* What is active is the newest version, unless that one is still to be made
\* active, or its edit failed, or overtook an edit that had not finished.
NewestIsActive ==
  \/ active = Latest \/ Latest \in passed
  \/ \E e \in Edits : edit[e].pc = "activate" /\ edit[e].latest + 1 = Latest
=============================================================================
