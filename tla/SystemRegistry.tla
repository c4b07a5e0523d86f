---------------------------- MODULE SystemRegistry ----------------------------
(***************************************************************************)
(* The registry of what the system offers (system-registry-routes.ts), the    *)
(* page that switches its entries on and off (system-registry.tsx), and the   *)
(* tenants that take an entry into use (mdm-primitives-routes.ts).           *)
(*                                                                         *)
(* One entry, of any kind: entries do not depend on each other. A switch is   *)
(* a toggle: the server writes the opposite of what it has just read, and     *)
(* asks for a confirmation before it switches off what tenants use, as far   *)
(* as it can count them. The rows of warehouses never carry the code they    *)
(* would be counted by.                                                     *)
(***************************************************************************)
EXTENDS Naturals, FiniteSets

CONSTANTS
  Admins,      \* each with a page
  Tenants,
  MaxCalls,    \* bound of the model: calls under way, of all pages
  MaxWrites    \* bound of the model: switches written

VARIABLES
  kind, enabled,   \* the entry
  rows,            \* the tenants with a row of it
  sold,            \* tenants whose market has commodities
  shown,           \* what each page shows
  warning,         \* whether a page asks to confirm the switching off
  toggling,        \* whether the switch of a page waits for an answer
  call,            \* the calls of the pages
  seen,            \* tenants that found the entry on, and have not created a row yet
  current,         \* history: the entry was not written since the page was loaded
  late,            \* history: tenants with a row since a call that will write counted
  writes

registryVars ==
  <<kind, enabled, rows, sold, shown, warning, toggling, call, seen, current, late, writes>>

Kinds == {"market", "platform", "erp", "warehouse", "tool"}
Counted == {"market", "platform", "erp"}   \* kinds whose rows carry the code
Calls == Admins \X (1..MaxCalls)
\* sure, history: nobody wrote the entry since the page, or the question, came
\* that the call answers
NoCall == [pc |-> "idle", confirmed |-> FALSE, wants |-> FALSE, enable |-> FALSE, sure |-> TRUE]
NoWarning == [open |-> FALSE, sure |-> TRUE]
-----------------------------------------------------------------------------
(* The page *)

\* A page sends its next call, with those it has under way or without.
Send(c, row) ==
  LET a == c[1] IN
  /\ Cardinality({d \in Calls : call[d] # NoCall}) < MaxCalls
  /\ call[c] = NoCall /\ \A i \in 1..(c[2] - 1) : call[<<a, i>>] # NoCall
  /\ call' = [call EXCEPT ![c] = row]
  /\ toggling' = [toggling EXCEPT ![a] = TRUE]
  /\ UNCHANGED <<kind, enabled, rows, sold, shown, warning, seen, current, late, writes>>

\* handleToggle: a click on the switch, to change what is shown; the switch is
\* off until an answer comes.
Click(c) ==
  LET a == c[1] IN
  /\ ~toggling[a]
  /\ Send(c, [NoCall EXCEPT !.pc = "read", !.wants = ~shown[a], !.sure = current[a]])

\* handleConfirmToggle, the button that is called Confirm Disable: the question
\* stays until the answer comes, and the button with it, so that a second click
\* sends a second call.
ConfirmDisable(c) ==
  LET a == c[1] IN
  /\ warning[a].open
  /\ Send(c, [NoCall EXCEPT !.pc = "read", !.confirmed = TRUE, !.sure = warning[a].sure])

Cancel(a) ==
  /\ warning[a].open
  /\ warning' = [warning EXCEPT ![a] = NoWarning]
  /\ UNCHANGED <<kind, enabled, rows, sold, shown, toggling, call, seen, current, late, writes>>

\* The answer to a call that wrote: one that was confirmed closes the question.
Answered(c) ==
  LET a == c[1] IN
  /\ call[c].pc = "answer"
  /\ call' = [call EXCEPT ![c] = NoCall]
  /\ toggling' = [toggling EXCEPT ![a] = FALSE]
  /\ warning' = IF call[c].confirmed THEN [warning EXCEPT ![a] = NoWarning] ELSE warning
  /\ UNCHANGED <<kind, enabled, rows, sold, shown, seen, current, late, writes>>

\* loadData; when it fails the page shows what it showed.
Load(a) ==
  /\ shown' = [shown EXCEPT ![a] = enabled]
  /\ current' = [current EXCEPT ![a] = TRUE]
  /\ UNCHANGED <<kind, enabled, rows, sold, warning, toggling, call, seen, late, writes>>
-----------------------------------------------------------------------------
(* PATCH /<kind>/:id/toggle *)

Opposite(on) == ~on

\* A call that asks is sure of what it read.
ReadEntry(c) ==
  /\ call[c].pc = "read"
  /\ call' = [call EXCEPT ![c].enable = Opposite(enabled),
       ![c].pc = IF Opposite(enabled) \/ call[c].confirmed \/ kind = "tool" THEN "write" ELSE "count"]
  /\ UNCHANGED <<kind, enabled, rows, sold, shown, warning, toggling, seen, current, late, writes>>

\* checkImpact
Impact == IF kind \in Counted THEN rows ELSE {}

CountTenants(c) ==
  LET a == c[1] IN
  /\ call[c].pc = "count"
  /\ IF Impact # {}
     THEN /\ call' = [call EXCEPT ![c] = NoCall]
          /\ toggling' = [toggling EXCEPT ![a] = FALSE]
          /\ warning' = [warning EXCEPT ![a] = [open |-> TRUE, sure |-> enabled]]
          /\ UNCHANGED late
     ELSE /\ call' = [call EXCEPT ![c].pc = "write"]
          /\ late' = [late EXCEPT ![c] = {}]
          /\ UNCHANGED <<toggling, warning>>
  /\ UNCHANGED <<kind, enabled, rows, sold, shown, seen, current, writes>>

\* The entry is not what a call, or a question, took it for any longer.
Doubted(row, none) == IF row = none THEN none ELSE [row EXCEPT !.sure = FALSE]

WriteEntry(c) ==
  /\ call[c].pc = "write" /\ writes < MaxWrites
  /\ enabled' = call[c].enable
  /\ current' = [a \in Admins |-> FALSE]
  /\ call' = [d \in Calls |-> IF d # c THEN Doubted(call[d], NoCall)
                              ELSE [NoCall EXCEPT !.pc = "answer", !.confirmed = call[c].confirmed]]
  /\ warning' = [a \in Admins |-> Doubted(warning[a], NoWarning)]
  /\ late' = [late EXCEPT ![c] = {}]
  /\ writes' = writes + 1
  /\ UNCHANGED <<kind, rows, sold, shown, toggling, seen>>

Toggle(c) == ReadEntry(c) \/ CountTenants(c) \/ WriteEntry(c)
MarketToggle(c) == kind = "market" /\ Toggle(c)
PlatformToggle(c) == kind = "platform" /\ Toggle(c)
WarehouseToggle(c) == kind = "warehouse" /\ Toggle(c)
ErpToggle(c) == kind = "erp" /\ Toggle(c)
ToolToggle(c) == kind = "tool" /\ (ReadEntry(c) \/ WriteEntry(c))
-----------------------------------------------------------------------------
(* The tenants: an entry must be on when it is looked up. *)

Seek(t) ==
  /\ t \notin rows \cup seen /\ enabled
  /\ seen' = seen \cup {t}
  /\ UNCHANGED <<kind, enabled, rows, sold, shown, warning, toggling, call, current, late, writes>>

Create(t) ==
  /\ rows' = rows \cup {t}
  /\ late' = [c \in Calls |-> IF call[c].pc = "write" THEN late[c] \cup {t} ELSE {}]
  /\ seen' = seen \ {t}
  /\ UNCHANGED <<kind, enabled, sold, shown, warning, toggling, call, current, writes>>

AdoptMarket(t) == kind = "market" /\ (Seek(t) \/ (t \in seen /\ Create(t)))
AdoptPlatform(t) == kind = "platform" /\ (Seek(t) \/ (t \in seen /\ Create(t)))
AdoptErp(t) == kind = "erp" /\ (Seek(t) \/ (t \in seen /\ Create(t)))

\* POST /warehouses looks nothing up.
AddWarehouse(t) == kind = "warehouse" /\ t \notin rows /\ Create(t)

Sell(t) ==
  /\ kind = "market" /\ t \in rows /\ sold' = sold \cup {t}
  /\ UNCHANGED <<kind, enabled, rows, shown, warning, toggling, call, seen, current, late, writes>>

Remove(t) ==
  /\ t \in rows /\ rows' = rows \ {t}
  /\ late' = [c \in Calls |-> late[c] \ {t}]
  /\ UNCHANGED <<kind, enabled, sold, shown, warning, toggling, call, seen, current, writes>>

\* A market with commodities stays, by the count or by the foreign key.
DeleteMarket(t) == kind = "market" /\ t \notin sold /\ Remove(t)
DeletePlatform(t) == kind = "platform" /\ Remove(t)
DeleteWarehouse(t) == kind = "warehouse" /\ Remove(t)
-----------------------------------------------------------------------------
Init ==
  /\ kind \in Kinds /\ enabled = TRUE /\ rows = {} /\ sold = {} /\ seen = {}
  /\ shown = [a \in Admins |-> TRUE] /\ warning = [a \in Admins |-> NoWarning]
  /\ toggling = [a \in Admins |-> FALSE] /\ call = [c \in Calls |-> NoCall]
  /\ current = [a \in Admins |-> TRUE] /\ late = [c \in Calls |-> {}] /\ writes = 0

Next ==
  \/ \E a \in Admins : Cancel(a) \/ Load(a)
  \/ \E c \in Calls :
       \/ Click(c) \/ ConfirmDisable(c) \/ Answered(c)
       \/ MarketToggle(c) \/ PlatformToggle(c) \/ WarehouseToggle(c) \/ ErpToggle(c) \/ ToolToggle(c)
  \/ \E t \in Tenants :
       \/ AdoptMarket(t) \/ AdoptPlatform(t) \/ AdoptErp(t) \/ AddWarehouse(t)
       \/ Sell(t) \/ DeleteMarket(t) \/ DeletePlatform(t) \/ DeleteWarehouse(t)

Spec == Init /\ [][Next]_registryVars
-----------------------------------------------------------------------------
(* Properties *)

TypeOK ==
  /\ kind \in Kinds /\ enabled \in BOOLEAN
  /\ rows \subseteq Tenants /\ sold \subseteq rows /\ seen \cap rows = {}
  /\ \A c \in Calls : late[c] \subseteq rows

\* A switch does what the page said it would, unless the entry was written after
\* the page was loaded or had asked: a confirmed disable may then enable, also
\* when it is the second click of one question.
SwitchAsShown ==
  \A c \in Calls :
    call[c].pc \in {"count", "write"} /\ call[c].sure => call[c].enable = call[c].wants

\* What is switched off without a confirmation is used by no tenant but those
\* that came after the count.
UnaskedCutsNobody ==
  \A c \in Calls :
    call[c].pc = "write" /\ ~call[c].enable /\ ~call[c].confirmed /\ kind \in Counted
      => rows \subseteq late[c]

RegistryKept == SwitchAsShown /\ UnaskedCutsNobody
=============================================================================
