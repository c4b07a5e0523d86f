----------------------------- MODULE CategoryTree -----------------------------
(***************************************************************************)
(* The tree of global categories and their mappings to platforms            *)
(* (system-registry-routes.ts), as the pages of the registry change them      *)
(* (category-tree.tsx, category-detail.tsx).                                *)
(*                                                                         *)
(* A category carries its path, the names from the root down to it, and the   *)
(* number of its mappings: both are copies that several statements, in no      *)
(* transaction, keep in step. The slug path is a second copy, kept the same    *)
(* way as the path. Names are not unique, so paths are not either.            *)
(***************************************************************************)
EXTENDS Integers, SequencesExt

CONSTANTS
  N,           \* bound of the model: categories, those deleted included
  Names,
  Maps,        \* ids of mappings
  MaxDepth,    \* 4 in the code
  Admins,      \* each has one call under way at a time
  MaxWrites,   \* bound of the model: calls begun
  MaxFaults    \* bound of the model: calls that break off

VARIABLES
  cat,       \* the categories
  maps,      \* the category of each mapping
  call,      \* the call of each admin
  odd,       \* history: what was written by a call that met another, or that a renaming
             \* took for its own since its path begins alike, and what lies below those
  strayed,   \* history: categories whose counter missed a step or was taken for another's
  writes, faults

treeVars == <<cat, maps, call, odd, strayed, writes, faults>>

Ids == 1..N
Root == 0
None == [parent |-> Root, name |-> "", path |-> <<>>, level |-> 0, mapped |-> 0]
Gone == [None EXCEPT !.name = "-"]     \* ids are not used again
Live == {c \in Ids : cat[c] \notin {None, Gone}}
Idle == [pc |-> "idle", id |-> Root, name |-> "", from |-> <<>>, level |-> 0,
         todo |-> {}, found |-> {}, met |-> FALSE]

Children(c) == {d \in Live : cat[d].parent = c}

\* c and what hangs below it: what is in every set that c is in and children follow
Closed(S) == \A c \in S : Children(c) \subseteq S
Below(c) == {d \in Live : \A S \in SUBSET Ids : c \in S /\ Closed(S) => d \in S}
Branches(C) == UNION {Below(c) : c \in C}

-----------------------------------------------------------------------------
(* A call is begun, and what it writes is met by the calls under way. *)

Begin(a, record) ==
  /\ call[a].pc = "idle" /\ writes < MaxWrites
  /\ call' = [call EXCEPT ![a] = record]
  /\ writes' = writes + 1

Wrote(a, record) ==
  call' = [b \in Admins |->
    IF b = a THEN record
    ELSE IF call[b].pc = "idle" THEN Idle ELSE [call[b] EXCEPT !.met = TRUE]]

Return(a) == call' = [call EXCEPT ![a] = Idle]

-----------------------------------------------------------------------------
(* POST /categories *)

\* computeCategoryFields
ReadParent(a, p, n) ==
  /\ p \in Live => cat[p].level < MaxDepth
  /\ Begin(a, [Idle EXCEPT !.pc = "create", !.id = p, !.name = n,
       !.from = IF p = Root THEN <<n>> ELSE Append(cat[p].path, n),
       !.level = IF p = Root THEN 1 ELSE cat[p].level + 1])
  /\ UNCHANGED <<cat, maps, odd, strayed, faults>>

\* It fails when the parent is gone.
Create(a, c) ==
  /\ call[a].pc = "create"
  /\ cat[c] = None /\ \A d \in 1..(c - 1) : cat[d] # None
  /\ IF call[a].id \in Live \cup {Root}
       THEN /\ cat' = [cat EXCEPT ![c] = [parent |-> call[a].id, name |-> call[a].name,
                 path |-> call[a].from, level |-> call[a].level, mapped |-> 0]]
            /\ Wrote(a, Idle)
            /\ odd' = IF call[a].met \/ call[a].id \in odd THEN odd \cup {c} ELSE odd
       ELSE Return(a) /\ UNCHANGED <<cat, odd>>
  /\ UNCHANGED <<maps, strayed, writes, faults>>

-----------------------------------------------------------------------------
(* PUT /categories/:id with another name *)

ReadCategory(a, c, n) ==
  /\ cat[c].name # n
  /\ Begin(a, [Idle EXCEPT !.pc = "find", !.id = c, !.name = n,
       !.from = cat[c].path,
       !.level = IF cat[c].parent = Root THEN 1 ELSE Len(cat[c].path)])
  /\ UNCHANGED <<cat, maps, odd, strayed, faults>>

\* The path a renamed category gets: that of a root, or its own with the last
\* name replaced.
NewPath(a) ==
  IF call[a].level = 1 THEN <<call[a].name>>
  ELSE Append(Front(call[a].from), call[a].name)

Descendants(c, path) == {d \in Live : IsStrictPrefix(path, cat[d].path)}

\* Descendants are found by their path. Paths are not unique: what hangs below
\* another category of the same path is found too and gets the new path although
\* its parent keeps the old one, with or without another call under way.
Namesakes(c, path) == Branches(Descendants(c, path) \ Below(c))

FindDescendants(a) ==
  /\ call[a].pc = "find"
  /\ LET all == Descendants(call[a].id, call[a].from) IN
     /\ call' = [call EXCEPT ![a].pc = "rewrite", ![a].found = all,
          ![a].todo = {<<d, cat[d].path>> : d \in all}]
     /\ odd' = odd \cup Namesakes(call[a].id, call[a].from)
  /\ UNCHANGED <<cat, maps, strayed, writes, faults>>

\* Whatever a rename found or has below it
Reach(a) == call[a].found \cup Below(call[a].id)

\* One of them is written; a call whose row is gone ends there.
RewriteOne(a, d) ==
  /\ call[a].pc = "rewrite" /\ d \in call[a].todo
  /\ IF d[1] \in Live
       THEN /\ cat' = [cat EXCEPT ![d[1]].path =
                 NewPath(a) \o SubSeq(d[2], Len(call[a].from) + 1, Len(d[2]))]
            /\ Wrote(a, [call[a] EXCEPT !.todo = @ \ {d}])
            /\ UNCHANGED odd
       ELSE Return(a) /\ odd' = odd \cup Reach(a) /\ UNCHANGED cat
  /\ UNCHANGED <<maps, strayed, writes, faults>>

Rename(a) ==
  /\ call[a].pc = "rewrite" /\ call[a].todo = {}
  /\ IF call[a].id \in Live
       THEN /\ cat' = [cat EXCEPT ![call[a].id].name = call[a].name,
                                  ![call[a].id].path = NewPath(a)]
            /\ Wrote(a, Idle)
       ELSE Return(a) /\ UNCHANGED cat
  /\ odd' = IF call[a].met THEN odd \cup Reach(a) ELSE odd
  /\ UNCHANGED <<maps, strayed, writes, faults>>

-----------------------------------------------------------------------------
(* DELETE /categories/:id *)

CountChildren(a, c) ==
  /\ Children(c) = {}
  /\ Begin(a, [Idle EXCEPT !.pc = "delete", !.id = c])
  /\ UNCHANGED <<cat, maps, odd, strayed, faults>>

\* A child created since becomes a root; mappings go with their category.
Delete(a) ==
  /\ call[a].pc = "delete"
  /\ LET c == call[a].id IN
     IF c \in Live
       THEN /\ cat' = [d \in Ids |->
                 IF d = c THEN Gone
                 ELSE IF d \in Children(c) THEN [cat[d] EXCEPT !.parent = Root] ELSE cat[d]]
            /\ maps' = [m \in Maps |-> IF maps[m] = c THEN Root ELSE maps[m]]
            /\ odd' = odd \cup Branches(Children(c))
            /\ Wrote(a, Idle)
       ELSE Return(a) /\ UNCHANGED <<cat, maps, odd>>
  /\ UNCHANGED <<strayed, writes, faults>>

-----------------------------------------------------------------------------
(* The mappings of a category and their number *)

AddMapping(a, m, c) ==
  /\ maps[m] = Root
  /\ call[a].pc = "idle" /\ writes < MaxWrites
  /\ maps' = [maps EXCEPT ![m] = c]
  /\ writes' = writes + 1
  /\ Wrote(a, [Idle EXCEPT !.pc = "up", !.id = c])
  /\ UNCHANGED <<cat, odd, strayed, faults>>

\* Mutant: a row that is gone is deleted without an error.
DeletableAgain(m) == m \in Maps

\* prisma's delete throws when the row is gone.
Deletable(m) == maps[m] # Root

\* The page deletes below the category that is selected, a mapping from the
\* list it last got: the list of another, when that answer came late.
DeleteMapping(a, m, c) ==
  /\ Deletable(m)
  /\ call[a].pc = "idle" /\ writes < MaxWrites
  /\ maps' = [maps EXCEPT ![m] = Root]
  /\ writes' = writes + 1
  /\ Wrote(a, [Idle EXCEPT !.pc = "down", !.id = c])
  /\ strayed' = IF maps[m] \in {c, Root} THEN strayed ELSE strayed \cup {c, maps[m]}
  /\ UNCHANGED <<cat, odd, faults>>

\* A category that is gone is not counted for: the call fails.
CountMapping(a) ==
  /\ call[a].pc \in {"up", "down"}
  /\ IF call[a].id \in Live
       THEN /\ cat' = [cat EXCEPT ![call[a].id].mapped =
                 IF call[a].pc = "up" THEN @ + 1 ELSE @ - 1]
            /\ Wrote(a, Idle)
       ELSE Return(a) /\ UNCHANGED cat
  /\ UNCHANGED <<maps, odd, strayed, writes, faults>>

-----------------------------------------------------------------------------
\* A statement fails, or the process ends: the rest of the call is not done.
BreakOff(a) ==
  /\ call[a].pc # "idle" /\ faults < MaxFaults
  /\ odd' = IF call[a].pc = "rewrite" THEN odd \cup Reach(a) ELSE odd
  /\ strayed' = IF call[a].pc \in {"up", "down"} THEN strayed \cup {call[a].id} ELSE strayed
  /\ Return(a)
  /\ faults' = faults + 1
  /\ UNCHANGED <<cat, maps, writes>>

\* A branch at most as deep as it may be, imported before
Init ==
  /\ \E n \in Names, k \in 0..N :
       /\ k <= MaxDepth
       /\ cat = [c \in Ids |->
            IF c > k THEN None
            ELSE [parent |-> c - 1, name |-> n, path |-> [i \in 1..c |-> n], level |-> c, mapped |-> 0]]
  /\ maps = [m \in Maps |-> Root]
  /\ call = [a \in Admins |-> Idle]
  /\ odd = {} /\ strayed = {}
  /\ writes = 0 /\ faults = 0

Next ==
  \E a \in Admins :
    \/ \E p \in Live \cup {Root}, n \in Names : ReadParent(a, p, n)
    \/ \E c \in Ids : Create(a, c)
    \/ \E c \in Live, n \in Names : ReadCategory(a, c, n)
    \/ FindDescendants(a)
    \/ \E d \in call[a].todo : RewriteOne(a, d)
    \/ Rename(a)
    \/ \E c \in Live : CountChildren(a, c)
    \/ Delete(a)
    \/ \E m \in Maps, c \in Live : AddMapping(a, m, c) \/ DeleteMapping(a, m, c)
    \/ CountMapping(a)
    \/ BreakOff(a)

Spec == Init /\ [][Next]_treeVars
-----------------------------------------------------------------------------
TypeOK ==
  /\ \A c \in Ids : /\ cat[c].parent \in Ids \cup {Root}
                    /\ cat[c].name \in Names \cup {"", "-"}
                    /\ cat[c].level \in 0..MaxDepth
                    /\ cat[c].mapped \in Int
                    /\ cat[c].path \in Seq(Names)
  /\ maps \in [Maps -> Ids \cup {Root}]
  /\ \A a \in Admins : call[a].id \in Ids \cup {Root} /\ call[a].met \in BOOLEAN
  /\ odd \subseteq Ids /\ strayed \subseteq Ids

Renaming == UNION {Reach(a) : a \in {b \in Admins : call[b].pc = "rewrite"}}

\* Below the categories being renamed everything is in motion. Elsewhere the path
\* of a category is that of its parent and its name, and as long as its level,
\* with two exceptions, and what lies below them: what a call wrote that met
\* another's writing or broke off (or that lost its parent to a delete), and the
\* namesakes of a renamed branch, which a renaming corrupts even when no other
\* call is under way. Where no path occurs twice, calls one after another leave
\* every path right.
PathsFollow ==
  \A c \in Live \ (odd \cup Renaming) :
    /\ cat[c].path = IF cat[c].parent = Root THEN <<cat[c].name>>
                     ELSE Append(cat[cat[c].parent].path, cat[c].name)
    /\ cat[c].level = Len(cat[c].path)

\* The number a category carries is that of its mappings once the calls under way
\* are counted, however many delete the same one, unless a call broke off before
\* its count or a page took a mapping for one of the selected category.
CountsMapped ==
  \A c \in Live \ strayed :
    cat[c].mapped
      + Cardinality({a \in Admins : call[a].pc = "up" /\ call[a].id = c})
      - Cardinality({a \in Admins : call[a].pc = "down" /\ call[a].id = c})
    = Cardinality({m \in Maps : maps[m] = c})

CategoriesKept == PathsFollow /\ CountsMapped
=============================================================================
