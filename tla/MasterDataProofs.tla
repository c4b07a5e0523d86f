-------------------------- MODULE MasterDataProofs --------------------------
(***************************************************************************)
(* Proofs about what administrators maintain, for every number of rows and   *)
(* of calls under way: each component that MCMasterData puts together has     *)
(* an inductive invariant.                                                  *)
(***************************************************************************)
EXTENDS MCMasterData, FiniteSetTheorems, SequenceTheorems, TLAPS

allVars == <<focus, recordVars, consoleVars>>

\* A step of MCMasterData is a step of the component in focus.
LEMMA FocusStep ==
  ASSUME [MasterNext]_allVars
  PROVE  /\ focus' = focus
         /\ focus = "costs" => [Costs!Next]_costVars
         /\ focus = "tree" => [Tree!Next]_treeVars
         /\ focus = "rates" => [Rates!Next]_rateVars
         /\ focus = "policy" => [ModelUse!Next]_policyVars
         /\ focus = "registry" => [Registry!Next]_registryVars
         /\ focus = "categories" => [Categories!Next]_categoryVars
BY DEF MasterNext, allVars, recordVars, consoleVars
-----------------------------------------------------------------------------
(* The registry of the system *)

ToggleRow ==
  [pc : {"idle", "read", "count", "write", "answer"}, confirmed : BOOLEAN, wants : BOOLEAN,
   enable : BOOLEAN, sure : BOOLEAN]
WarningRow == [open : BOOLEAN, sure : BOOLEAN]

RegistryTypes ==
  /\ kind \in Registry!Kinds /\ enabled \in BOOLEAN
  /\ rowsOf \subseteq Tenants /\ sold \subseteq rowsOf /\ seen \cap rowsOf = {}
  /\ kind # "market" => sold = {}
  /\ shown \in [Handlers -> BOOLEAN] /\ current \in [Handlers -> BOOLEAN]
  /\ warning \in [Handlers -> WarningRow]
  /\ toggle \in [Registry!Calls -> ToggleRow] /\ late \in [Registry!Calls -> SUBSET rowsOf]

\* What a page shows and a warning asks is how the entry is.
Current(a) ==
  /\ current[a] => shown[a] = enabled
  /\ warning[a].open /\ warning[a].sure => enabled

\* What a call is sure of is how the entry is, or was when the call read it.
Certain(c) ==
  /\ toggle[c].pc = "read" /\ toggle[c].sure => toggle[c].wants = ~enabled
  /\ toggle[c].pc \in {"count", "write"} /\ toggle[c].sure => toggle[c].enable = toggle[c].wants

\* A call that switches off without a question has every row after its count.
Counting(c) ==
  /\ toggle[c].pc = "write" /\ ~toggle[c].enable /\ ~toggle[c].confirmed /\ kind \in Registry!Counted
       => rowsOf \subseteq late[c]

RegistryInv ==
  /\ RegistryTypes
  /\ \A a \in Handlers : Current(a)
  /\ \A c \in Registry!Calls : Certain(c) /\ Counting(c)

LEMMA ToggleRows ==
  /\ Registry!NoCall \in ToggleRow /\ Registry!NoCall.pc = "idle"
  /\ Registry!NoWarning \in WarningRow /\ ~Registry!NoWarning.open
BY DEF ToggleRow, WarningRow, Registry!NoCall, Registry!NoWarning

\* A call is one of a page.
LEMMA PageOfCall == \A c \in Registry!Calls : c[1] \in Handlers
BY DEF Registry!Calls

LEMMA RegistryInvInit == Registry!Init => RegistryInv
<1> SUFFICES ASSUME Registry!Init PROVE RegistryInv
  OBVIOUS
<1>1. RegistryTypes
  BY ToggleRows DEF Registry!Init, RegistryTypes, Registry!Kinds
<1>2. \A a \in Handlers : Current(a)
  BY ToggleRows DEF Registry!Init, Current
<1>3. \A c \in Registry!Calls : Certain(c) /\ Counting(c)
  BY ToggleRows DEF Registry!Init, Certain, Counting
<1> QED BY <1>1, <1>2, <1>3 DEF RegistryInv

\* A call that a page sends: the others stay.
LEMMA SendStep ==
  ASSUME RegistryInv, NEW c \in Registry!Calls, NEW row \in ToggleRow, Registry!Send(c, row),
         row.pc = "read", row.sure => row.wants = ~enabled
  PROVE  RegistryInv'
<1>1. /\ toggle' = [toggle EXCEPT ![c] = row]
      /\ UNCHANGED <<kind, enabled, rowsOf, sold, shown, warning, seen, current, late>>
  BY DEF Registry!Send
<1>2. RegistryTypes'
  BY <1>1 DEF RegistryInv, RegistryTypes
<1>3. ASSUME NEW a \in Handlers PROVE Current(a)'
  BY <1>1 DEF RegistryInv, Current
<1>4. ASSUME NEW d \in Registry!Calls PROVE Certain(d)' /\ Counting(d)'
  BY <1>1 DEF RegistryInv, RegistryTypes, Certain, Counting
<1> QED BY <1>2, <1>3, <1>4 DEF RegistryInv

\* The page: a click and a confirmation
LEMMA ClickStep ==
  ASSUME RegistryInv, NEW c \in Registry!Calls, Registry!Click(c) \/ Registry!ConfirmDisable(c)
  PROVE  RegistryInv'
<1> DEFINE a == c[1]
<1>1. a \in Handlers
  BY PageOfCall
<1>2. CASE Registry!Click(c)
  <2> DEFINE new == [Registry!NoCall EXCEPT !.pc = "read", !.wants = ~shown[a], !.sure = current[a]]
  <2>1. shown[a] \in BOOLEAN /\ current[a] \in BOOLEAN /\ (current[a] => shown[a] = enabled)
    BY <1>1 DEF RegistryInv, RegistryTypes, Current
  <2>2. new \in ToggleRow /\ new.pc = "read" /\ new.wants = ~shown[a] /\ new.sure = current[a]
    BY <2>1 DEF ToggleRow, Registry!NoCall
  <2>3. Registry!Send(c, new)
    BY <1>2 DEF Registry!Click
  <2> HIDE DEF new
  <2> QED BY <2>1, <2>2, <2>3, SendStep
<1>3. CASE Registry!ConfirmDisable(c)
  <2> DEFINE new == [Registry!NoCall EXCEPT !.pc = "read", !.confirmed = TRUE, !.sure = warning[a].sure]
  <2>1. warning[a].sure \in BOOLEAN /\ (warning[a].sure => enabled) /\ enabled \in BOOLEAN
    BY <1>1, <1>3 DEF RegistryInv, RegistryTypes, WarningRow, Current, Registry!ConfirmDisable
  <2>2. new \in ToggleRow /\ new.pc = "read" /\ new.wants = FALSE /\ new.sure = warning[a].sure
    BY <2>1 DEF ToggleRow, Registry!NoCall
  <2>3. Registry!Send(c, new)
    BY <1>3 DEF Registry!ConfirmDisable
  <2> HIDE DEF new
  <2> QED BY <2>1, <2>2, <2>3, SendStep
<1> QED BY <1>2, <1>3

\* The page: the question withdrawn, a load
LEMMA PageStep ==
  ASSUME RegistryInv, NEW a \in Handlers, Registry!Cancel(a) \/ Registry!Load(a)
  PROVE  RegistryInv'
<1>1. CASE Registry!Cancel(a)
  <2>1. RegistryTypes'
    BY <1>1, ToggleRows DEF Registry!Cancel, RegistryInv, RegistryTypes
  <2>2. ASSUME NEW b \in Handlers PROVE Current(b)'
    BY <1>1, ToggleRows DEF Registry!Cancel, RegistryInv, RegistryTypes, Current
  <2>3. ASSUME NEW d \in Registry!Calls PROVE Certain(d)' /\ Counting(d)'
    BY <1>1 DEF Registry!Cancel, RegistryInv, Certain, Counting
  <2> QED BY <2>1, <2>2, <2>3 DEF RegistryInv
<1>2. CASE Registry!Load(a)
  <2>1. RegistryTypes'
    BY <1>2 DEF Registry!Load, RegistryInv, RegistryTypes
  <2>2. ASSUME NEW b \in Handlers PROVE Current(b)'
    BY <1>2 DEF Registry!Load, RegistryInv, RegistryTypes, Current
  <2>3. ASSUME NEW d \in Registry!Calls PROVE Certain(d)' /\ Counting(d)'
    BY <1>2 DEF Registry!Load, RegistryInv, Certain, Counting
  <2> QED BY <2>1, <2>2, <2>3 DEF RegistryInv
<1> QED BY <1>1, <1>2

\* A confirmed call that is answered closes the question.
LEMMA AnsweredStep ==
  ASSUME RegistryInv, NEW c \in Registry!Calls, Registry!Answered(c)
  PROVE  RegistryInv'
<1>1. /\ toggle' = [toggle EXCEPT ![c] = Registry!NoCall]
      /\ warning' = warning \/ warning' = [warning EXCEPT ![c[1]] = Registry!NoWarning]
      /\ UNCHANGED <<kind, enabled, rowsOf, sold, shown, seen, current, late>>
  BY DEF Registry!Answered
<1>2. RegistryTypes'
  BY <1>1, ToggleRows DEF RegistryInv, RegistryTypes
<1>3. ASSUME NEW b \in Handlers PROVE Current(b)'
  BY <1>1, ToggleRows DEF RegistryInv, RegistryTypes, Current
<1>4. ASSUME NEW d \in Registry!Calls PROVE Certain(d)' /\ Counting(d)'
  BY <1>1, ToggleRows DEF RegistryInv, RegistryTypes, Certain, Counting
<1> QED BY <1>2, <1>3, <1>4 DEF RegistryInv

\* The handler of a toggle: it reads, counts and writes.
LEMMA ReadEntryStep ==
  ASSUME RegistryInv, NEW c \in Registry!Calls, Registry!ReadEntry(c)
  PROVE  RegistryInv'
<1> DEFINE pc == IF Registry!Opposite(enabled) \/ toggle[c].confirmed \/ kind = "tool"
                 THEN "write" ELSE "count"
           new == [toggle[c] EXCEPT !.enable = ~enabled, !.pc = pc]
<1>1. toggle[c] \in ToggleRow /\ enabled \in BOOLEAN /\ toggle[c].pc = "read"
  BY DEF RegistryInv, RegistryTypes, Registry!ReadEntry
<1>2. /\ new \in ToggleRow /\ new.pc \in {"count", "write"} /\ new.enable = ~enabled
      /\ new.wants = toggle[c].wants /\ new.sure = toggle[c].sure
      /\ new.confirmed = toggle[c].confirmed
      /\ new.pc = "write" => ~enabled \/ new.confirmed \/ kind = "tool"
  BY <1>1 DEF ToggleRow, Registry!Opposite
<1>3. /\ toggle' = [toggle EXCEPT ![c] = new]
      /\ UNCHANGED <<kind, enabled, rowsOf, sold, shown, warning, seen, current, late>>
  BY <1>1 DEF Registry!ReadEntry, Registry!Opposite
<1> HIDE DEF new
<1>4. RegistryTypes'
  BY <1>2, <1>3 DEF RegistryInv, RegistryTypes
<1>5. ASSUME NEW b \in Handlers PROVE Current(b)'
  BY <1>3 DEF RegistryInv, Current
<1>6. Certain(c)' /\ Counting(c)'
  <2>1. toggle'[c] = new
    BY <1>3 DEF RegistryInv, RegistryTypes
  <2>2. Certain(c)'
    BY <1>1, <1>2, <1>3, <2>1 DEF RegistryInv, Certain
  <2>3. Counting(c)'
    BY <1>2, <1>3, <2>1 DEF Counting, Registry!Counted
  <2> QED BY <2>2, <2>3
<1>7. ASSUME NEW d \in Registry!Calls, d # c PROVE Certain(d)' /\ Counting(d)'
  BY <1>3, <1>7 DEF RegistryInv, RegistryTypes, Certain, Counting
<1> QED BY <1>4, <1>5, <1>6, <1>7 DEF RegistryInv

LEMMA CountTenantsStep ==
  ASSUME RegistryInv, NEW c \in Registry!Calls, Registry!CountTenants(c)
  PROVE  RegistryInv'
<1>1. CASE Registry!Impact # {}
  <2> DEFINE asks == [open |-> TRUE, sure |-> enabled]
  <2>1. asks \in WarningRow /\ asks.sure = enabled
    BY DEF RegistryInv, RegistryTypes, WarningRow
  <2> HIDE DEF asks
  <2>2. /\ toggle' = [toggle EXCEPT ![c] = Registry!NoCall]
        /\ warning' = [warning EXCEPT ![c[1]] = asks]
        /\ UNCHANGED <<kind, enabled, rowsOf, sold, shown, seen, current, late>>
    BY <1>1 DEF Registry!CountTenants, asks
  <2>3. RegistryTypes'
    BY <2>1, <2>2, ToggleRows DEF RegistryInv, RegistryTypes
  <2>4. ASSUME NEW b \in Handlers PROVE Current(b)'
    BY <2>1, <2>2 DEF RegistryInv, RegistryTypes, Current
  <2>5. ASSUME NEW d \in Registry!Calls PROVE Certain(d)' /\ Counting(d)'
    BY <2>2, ToggleRows DEF RegistryInv, RegistryTypes, Certain, Counting
  <2> QED BY <2>3, <2>4, <2>5 DEF RegistryInv
<1>2. CASE Registry!Impact = {}
  <2> DEFINE new == [toggle[c] EXCEPT !.pc = "write"]
  <2>1. /\ new \in ToggleRow /\ new.pc = "write" /\ new.sure = toggle[c].sure
        /\ new.enable = toggle[c].enable /\ new.wants = toggle[c].wants
        /\ toggle[c].pc = "count"
    BY DEF RegistryInv, RegistryTypes, ToggleRow, Registry!CountTenants
  <2> HIDE DEF new
  <2>2. /\ toggle' = [toggle EXCEPT ![c] = new] /\ late' = [late EXCEPT ![c] = {}]
        /\ UNCHANGED <<kind, enabled, rowsOf, sold, shown, warning, seen, current>>
    BY <1>2 DEF Registry!CountTenants, new
  <2>3. kind \in Registry!Counted => rowsOf = {}
    BY <1>2 DEF Registry!Impact
  <2>4. RegistryTypes'
    BY <2>1, <2>2 DEF RegistryInv, RegistryTypes
  <2>5. ASSUME NEW b \in Handlers PROVE Current(b)'
    BY <2>2 DEF RegistryInv, Current
  <2>6. ASSUME NEW d \in Registry!Calls PROVE Certain(d)' /\ Counting(d)'
    BY <2>1, <2>2, <2>3 DEF RegistryInv, RegistryTypes, Certain, Counting
  <2> QED BY <2>4, <2>5, <2>6 DEF RegistryInv
<1> QED BY <1>1, <1>2

\* What a write leaves of the other calls and of the questions
LEMMA DoubtedRows ==
  /\ \A row \in ToggleRow : LET d == Registry!Doubted(row, Registry!NoCall) IN
       /\ d \in ToggleRow /\ d.pc = row.pc /\ d.enable = row.enable /\ d.confirmed = row.confirmed
       /\ d.pc = "idle" \/ ~d.sure
  /\ \A row \in WarningRow : LET d == Registry!Doubted(row, Registry!NoWarning) IN
       d \in WarningRow /\ (~d.open \/ ~d.sure)
<1>1. ASSUME NEW row \in ToggleRow
      PROVE  LET d == [row EXCEPT !.sure = FALSE] IN
             /\ d \in ToggleRow /\ d.pc = row.pc /\ d.enable = row.enable
             /\ d.confirmed = row.confirmed /\ ~d.sure
  BY Zenon DEF ToggleRow
<1>2. ASSUME NEW row \in WarningRow
      PROVE  [row EXCEPT !.sure = FALSE] \in WarningRow /\ ~[row EXCEPT !.sure = FALSE].sure
  BY Zenon DEF WarningRow
<1> HIDE DEF ToggleRow, WarningRow
<1> QED BY <1>1, <1>2, ToggleRows, Zenon DEF Registry!Doubted

LEMMA WriteEntryStep ==
  ASSUME RegistryInv, NEW c \in Registry!Calls, Registry!WriteEntry(c)
  PROVE  RegistryInv'
<1> DEFINE own == [Registry!NoCall EXCEPT !.pc = "answer", !.confirmed = toggle[c].confirmed]
<1>1. toggle \in [Registry!Calls -> ToggleRow] /\ warning \in [Handlers -> WarningRow]
  BY DEF RegistryInv, RegistryTypes
<1>2. toggle[c].confirmed \in BOOLEAN /\ toggle[c].enable \in BOOLEAN
  BY <1>1 DEF ToggleRow
<1>3. own \in ToggleRow /\ own.pc = "answer"
  BY <1>2 DEF ToggleRow, Registry!NoCall
<1> HIDE DEF own
<1>4. /\ enabled' \in BOOLEAN /\ current' = [b \in Handlers |-> FALSE]
      /\ toggle' = [d \in Registry!Calls |-> IF d # c THEN Registry!Doubted(toggle[d], Registry!NoCall)
                                             ELSE own]
      /\ warning' = [b \in Handlers |-> Registry!Doubted(warning[b], Registry!NoWarning)]
      /\ late' = [late EXCEPT ![c] = {}]
      /\ UNCHANGED <<kind, rowsOf, sold, shown, seen>>
  BY <1>2 DEF Registry!WriteEntry, own
<1>5. RegistryTypes'
  BY <1>1, <1>3, <1>4, DoubtedRows DEF RegistryInv, RegistryTypes
<1>6. ASSUME NEW b \in Handlers PROVE Current(b)'
  BY <1>1, <1>4, DoubtedRows DEF Current
<1>7. ASSUME NEW d \in Registry!Calls PROVE Certain(d)' /\ Counting(d)'
  <2>1. CASE d = c
    BY <1>3, <1>4, <2>1 DEF Certain, Counting
  <2>2. CASE d # c
    <3>1. /\ toggle'[d].pc = toggle[d].pc /\ toggle'[d].enable = toggle[d].enable
          /\ toggle'[d].confirmed = toggle[d].confirmed
          /\ toggle'[d].pc = "idle" \/ ~toggle'[d].sure
      BY <1>1, <1>4, <2>2, DoubtedRows
    <3>2. late'[d] = late[d] /\ rowsOf' = rowsOf /\ kind' = kind
      BY <1>4, <2>2 DEF RegistryInv, RegistryTypes
    <3> QED BY <3>1, <3>2 DEF RegistryInv, Certain, Counting
  <2> QED BY <2>1, <2>2
<1> QED BY <1>5, <1>6, <1>7 DEF RegistryInv

\* The tenants: they find the entry, create, sell and delete.
LEMMA TenantStep ==
  ASSUME RegistryInv, NEW t \in Tenants,
         \/ Registry!AdoptMarket(t) \/ Registry!AdoptPlatform(t) \/ Registry!AdoptErp(t)
         \/ Registry!AddWarehouse(t) \/ Registry!Sell(t)
         \/ Registry!DeleteMarket(t) \/ Registry!DeletePlatform(t) \/ Registry!DeleteWarehouse(t)
  PROVE  RegistryInv'
<1> USE DEF RegistryInv, RegistryTypes
<1>0. ASSUME UNCHANGED <<enabled, shown, warning, current>>, NEW b \in Handlers PROVE Current(b)'
  BY <1>0 DEF Current
<1>1. CASE Registry!Seek(t)
  <2>1. /\ seen' = seen \cup {t} /\ t \notin rowsOf
        /\ UNCHANGED <<kind, enabled, rowsOf, sold, shown, warning, toggle, current, late>>
    BY <1>1 DEF Registry!Seek
  <2>2. RegistryTypes'
    BY <2>1
  <2>3. ASSUME NEW d \in Registry!Calls PROVE Certain(d)' /\ Counting(d)'
    BY <2>1 DEF Certain, Counting
  <2> QED BY <1>0, <2>1, <2>2, <2>3
<1>2. CASE Registry!Create(t) /\ (t \in seen \/ t \notin rowsOf)
  <2>1. /\ rowsOf' = rowsOf \cup {t}
        /\ late' = [d \in Registry!Calls |-> IF toggle[d].pc = "write" THEN late[d] \cup {t} ELSE {}]
        /\ seen' = seen \ {t}
        /\ UNCHANGED <<kind, enabled, sold, shown, warning, toggle, current>>
    BY <1>2 DEF Registry!Create
  <2>2. RegistryTypes'
    BY <2>1
  <2>3. ASSUME NEW d \in Registry!Calls PROVE Certain(d)' /\ Counting(d)'
    BY <2>1 DEF Certain, Counting
  <2> QED BY <1>0, <2>1, <2>2, <2>3
<1>3. CASE Registry!Sell(t)
  <2>1. /\ UNCHANGED <<kind, enabled, rowsOf, shown, warning, toggle, current, late, seen>>
        /\ kind = "market" /\ sold' = sold \cup {t} /\ t \in rowsOf
    BY <1>3 DEF Registry!Sell
  <2>2. RegistryTypes'
    BY <2>1
  <2>3. ASSUME NEW d \in Registry!Calls PROVE Certain(d)' /\ Counting(d)'
    BY <2>1 DEF Certain, Counting
  <2> QED BY <1>0, <2>1, <2>2, <2>3
<1>4. CASE Registry!Remove(t) /\ t \notin sold
  <2>1. /\ rowsOf' = rowsOf \ {t} /\ late' = [d \in Registry!Calls |-> late[d] \ {t}]
        /\ UNCHANGED <<kind, enabled, sold, shown, warning, toggle, seen, current>>
    BY <1>4 DEF Registry!Remove
  <2>2. RegistryTypes'
    BY <1>4, <2>1
  <2>3. ASSUME NEW d \in Registry!Calls PROVE Certain(d)' /\ Counting(d)'
    BY <2>1 DEF Certain, Counting
  <2> QED BY <1>0, <2>1, <2>2, <2>3
<1>5. kind # "market" => t \notin sold
  OBVIOUS
<1> QED
  BY <1>1, <1>2, <1>3, <1>4, <1>5
     DEF Registry!AdoptMarket, Registry!AdoptPlatform, Registry!AdoptErp, Registry!AddWarehouse,
         Registry!DeleteMarket, Registry!DeletePlatform, Registry!DeleteWarehouse

LEMMA RegistryInvStep == RegistryInv /\ [Registry!Next]_registryVars => RegistryInv'
<1>1. ASSUME RegistryInv, UNCHANGED registryVars PROVE RegistryInv'
  BY <1>1 DEF registryVars, RegistryInv, RegistryTypes, Current, Certain, Counting
<1> QED
  BY <1>1, ClickStep, PageStep, AnsweredStep, ReadEntryStep, CountTenantsStep, WriteEntryStep,
     TenantStep
     DEF Registry!Next, Registry!MarketToggle, Registry!PlatformToggle, Registry!WarehouseToggle,
         Registry!ErpToggle, Registry!ToolToggle, Registry!Toggle

LEMMA RegistryFocus == MasterSpec => [](focus = "registry" => RegistryInv)
<1>1. MasterInit => (focus = "registry" => RegistryInv)
  BY RegistryInvInit DEF MasterInit
<1>2. (focus = "registry" => RegistryInv) /\ [MasterNext]_allVars => (focus = "registry" => RegistryInv)'
  BY RegistryInvStep, FocusStep
<1> QED BY <1>1, <1>2, PTL DEF MasterSpec, allVars

LEMMA RegistryIsKept == RegistryInv => Registry!RegistryKept
BY DEF RegistryInv, Certain, Counting, Registry!RegistryKept, Registry!SwitchAsShown,
       Registry!UnaskedCutsNobody
-----------------------------------------------------------------------------
(* The policy of the models *)

Stored == {ModelUse!Sanitized(form) : form \in ModelUse!Forms} \cup {ModelUse!NoPolicy}
Names == Models \cup {ModelUse!Absent}
ConfigRow == [key : ApiKeys \cup {ModelUse!Absent}, model : Names, routed : Names]
BodyRow ==
  [key : ApiKeys \cup {ModelUse!Absent}, model : Names, routed : Names \cup {ModelUse!Emptied}]
CallRow ==
  [pc : {"idle", "check", "read", "write", "audit"},
   kind : {"none", "policy", "config", "platform"}, policy : Stored, config : BodyRow,
   row : Nat, old : Stored, read : ConfigRow, alone : BOOLEAN]

\* Rows are never deleted from the sequences, and a stored configuration has a model.
PolicyTypes ==
  /\ policies \in Seq(Stored) /\ configs \in Seq(ConfigRow) /\ platform \in ConfigRow
  /\ \A i \in DOMAIN configs : configs[i].model \in Models
  /\ saving \in [Savers -> CallRow] /\ plain \in BOOLEAN
  /\ \A a \in Savers :
       /\ saving[a].kind = "policy" => saving[a].row \in {0} \cup DOMAIN policies
       /\ saving[a].kind = "config" => /\ saving[a].row \in {0} \cup DOMAIN configs
                                       /\ saving[a].config.model \in Models
       /\ saving[a].kind = "platform" => saving[a].config \in ConfigRow

\* A save alone since it looked replaces what is in force, and is the last one
\* that wrote.
Alone ==
  \A a \in ModelUse!PolicySavers : saving[a].alone =>
    /\ ModelUse!PolicySavers = {a}
    /\ saving[a].pc = "write" => saving[a].old \in ModelUse!OneOf(ModelUse!InForce)
    /\ saving[a].pc = "audit" =>
         /\ saving[a].old \in ModelUse!OneOf(before)
         /\ IF saving[a].policy = ModelUse!NoPolicy THEN ModelUse!Rows = {}
            ELSE \E i \in ModelUse!Rows : policies[i] = saving[a].policy

PolicyInv == PolicyTypes /\ Alone /\ ModelUse!AuditExplains

LEMMA PolicyRows ==
  /\ ModelUse!NoPolicy \in Stored /\ ModelUse!NoConfig \in ConfigRow /\ ConfigRow \subseteq BodyRow
  /\ ModelUse!NoConfig.model = ModelUse!Absent
  /\ ModelUse!NoCall \in CallRow /\ ModelUse!NoCall.kind = "none" /\ ModelUse!NoCall.pc = "idle"
<1>1. ModelUse!NoPolicy \in Stored /\ ModelUse!NoConfig \in ConfigRow
  BY DEF Stored, ConfigRow, Names, ModelUse!NoConfig
<1>2. ModelUse!NoConfig.model = ModelUse!Absent
  BY DEF ModelUse!NoConfig
<1>3. ConfigRow \subseteq BodyRow
  BY DEF ConfigRow, BodyRow
<1> HIDE DEF Stored, ConfigRow, BodyRow
<1>4. ModelUse!NoCall \in CallRow /\ ModelUse!NoCall.kind = "none" /\ ModelUse!NoCall.pc = "idle"
  BY <1>1, <1>3 DEF CallRow, ModelUse!NoCall
<1> QED BY <1>1, <1>2, <1>3, <1>4

\* What a page says of older models is stored as it was said.
LEMMA SanitizedSays ==
  ASSUME NEW form \in ModelUse!Forms
  PROVE  ModelUse!Sanitized(form).legacy \in {"yes", "no"}
<1>1. /\ form = [part \in DOMAIN form |-> form[part]]
      /\ DOMAIN form = {"legacy", "allowed", "blocked", "over"}
      /\ form.legacy \in {"yes", "no"}
  <2>1. CASE form \in Drafts
    BY <2>1, MasterAssumption
  <2>2. CASE form = ModelUse!Hydrated(ModelUse!NoPolicy)
    BY <2>2 DEF ModelUse!Hydrated, ModelUse!NoPolicy
  <2> QED BY <2>1, <2>2 DEF ModelUse!Forms
<1> DEFINE clean == ModelUse!CleanLists(form)
<1>2. clean.legacy = form.legacy /\ clean = [part \in DOMAIN form |-> clean[part]]
  BY <1>1 DEF ModelUse!CleanLists
<1> HIDE DEF clean
<1>3. ModelUse!Sanitized(form) =
        [clean EXCEPT !.over = [r \in ModelUse!Overridden |-> ModelUse!CleanLists(form.over[r])]]
  BY DEF ModelUse!Sanitized, clean
<1>4. ModelUse!Sanitized(form).legacy = clean.legacy
  BY <1>1, <1>2, <1>3
<1> QED BY <1>1, <1>2, <1>4

LEMMA PolicyInvInit == ModelUse!Init => PolicyInv
<1> SUFFICES ASSUME ModelUse!Init PROVE PolicyInv
  OBVIOUS
<1>1. policies = <<>> /\ configs = <<>> /\ ModelUse!PolicySavers = {} /\ ModelUse!Rows = {}
  BY PolicyRows DEF ModelUse!Init, ModelUse!PolicySavers, ModelUse!Rows
<1>2. PolicyTypes
  BY <1>1, PolicyRows DEF ModelUse!Init, PolicyTypes
<1>3. ModelUse!AuditExplains
  BY <1>1 DEF ModelUse!Init, ModelUse!AuditExplains, ModelUse!InForce, ModelUse!OneOf
<1> QED BY <1>1, <1>2, <1>3 DEF PolicyInv, Alone

\* A step of one administrator who writes no policy: the others stay, and no
\* other save of a policy is met.
LEMMA OneSaver ==
  ASSUME PolicyInv, NEW a \in Savers, NEW row \in CallRow,
         row.kind # "policy" \/ row.pc \notin {"write", "audit"},
         row.kind = "policy" => row.row \in {0} \cup DOMAIN policies,
         row.kind = "config" => row.row \in {0} \cup DOMAIN configs /\ row.config.model \in Models,
         row.kind = "platform" => row.config \in ConfigRow,
         saving' = [saving EXCEPT ![a] = row],
         UNCHANGED <<policies, trail, before, plain, configs>>, platform' \in ConfigRow
  PROVE  PolicyInv'
<1>1. PolicyTypes'
  BY DEF PolicyInv, PolicyTypes
<1>2. ModelUse!PolicySavers' = ModelUse!PolicySavers \ {a} /\ ModelUse!Rows' = ModelUse!Rows
  BY DEF PolicyInv, PolicyTypes, ModelUse!PolicySavers, ModelUse!Rows
<1>3. \A b \in ModelUse!PolicySavers' : b \in Savers /\ saving'[b] = saving[b]
  BY <1>2 DEF PolicyInv, PolicyTypes, ModelUse!PolicySavers
<1>4. Alone'
  <2>1. /\ ModelUse!OneOf(ModelUse!InForce)' = ModelUse!OneOf(ModelUse!InForce)
        /\ ModelUse!OneOf(before)' = ModelUse!OneOf(before)
    BY <1>2 DEF ModelUse!OneOf, ModelUse!InForce
  <2> QED BY <1>2, <1>3, <2>1 DEF PolicyInv, Alone
<1>5. ModelUse!AuditExplains'
  BY <1>2 DEF PolicyInv, ModelUse!AuditExplains, ModelUse!InForce, ModelUse!OneOf
<1> QED BY <1>1, <1>4, <1>5 DEF PolicyInv

LEMMA BeginStep ==
  ASSUME PolicyInv, NEW a \in Savers,
         NEW k \in {"policy", "config", "platform"}, NEW pc \in {"read", "check"},
         NEW p \in Stored, NEW c \in BodyRow, k = "config" => c.model \in Models,
         k = "platform" => c \in ConfigRow,
         ModelUse!Begin(a, k, pc, p, c), UNCHANGED <<policies, trail, configs, platform, before, plain>>
  PROVE  PolicyInv'
<1> DEFINE row == [ModelUse!NoCall EXCEPT !.pc = pc, !.kind = k, !.policy = p, !.config = c]
<1>1. row \in CallRow /\ row.kind = k /\ row.pc = pc /\ row.row = 0 /\ row.config = c
  BY PolicyRows DEF CallRow, ModelUse!NoCall
<1>2. saving' = [saving EXCEPT ![a] = row]
  BY DEF ModelUse!Begin
<1> HIDE DEF row
<1>3. platform' \in ConfigRow
  BY DEF PolicyInv, PolicyTypes
<1> QED BY <1>1, <1>2, <1>3, OneSaver

LEMMA PagesStep ==
  ASSUME PolicyInv, NEW a \in Savers, ModelUse!Pages(a)
  PROVE  PolicyInv'
<1>1. CASE ModelUse!SavePolicy(a)
  BY <1>1, BeginStep, PolicyRows DEF ModelUse!SavePolicy, Stored
<1>2. CASE ModelUse!ResetPolicy(a)
  BY <1>2, BeginStep, PolicyRows DEF ModelUse!ResetPolicy
<1>3. CASE ModelUse!SaveConfig(a)
  <2>1. PICK field \in ModelUse!Fields, m \in Models :
          ModelUse!Begin(a, "config", "check", ModelUse!NoPolicy,
            [key |-> ModelUse!SentKey(field), model |-> m, routed |-> ModelUse!Absent])
    BY <1>3 DEF ModelUse!SaveConfig
  <2>2. ModelUse!SentKey(field) \in ApiKeys \cup {ModelUse!Absent}
    BY DEF ModelUse!SentKey, ModelUse!Fields, ModelUse!Masked
  <2> DEFINE c == [key |-> ModelUse!SentKey(field), model |-> m, routed |-> ModelUse!Absent]
  <2>3. c \in BodyRow /\ c.model \in Models
    BY <2>2 DEF BodyRow, Names
  <2> QED BY <1>3, <2>1, <2>3, BeginStep, PolicyRows DEF ModelUse!SaveConfig
<1>4. CASE ModelUse!SaveRouting(a)
  <2>1. PICK i \in ModelUse!FoundConfig, m \in Models \cup {ModelUse!Emptied} :
          ModelUse!Begin(a, "config", "check", ModelUse!NoPolicy,
            [key |-> ModelUse!Absent, model |-> ModelUse!Or(ModelUse!ConfigAt(i).model, Default),
             routed |-> m])
    BY <1>4 DEF ModelUse!SaveRouting
  <2> DEFINE model == ModelUse!Or(ModelUse!ConfigAt(i).model, Default)
             c == [key |-> ModelUse!Absent, model |-> model, routed |-> m]
  <2>2. model \in Models
    <3>1. ModelUse!ConfigAt(i).model \in Models \cup {ModelUse!Absent}
      BY PolicyRows DEF ModelUse!FoundConfig, ModelUse!ConfigAt, PolicyInv, PolicyTypes
    <3> QED BY <3>1, MasterAssumption DEF ModelUse!Or
  <2> HIDE DEF model
  <2>3. c \in BodyRow /\ c.model \in Models
    BY <2>2 DEF BodyRow, Names
  <2> QED BY <1>4, <2>1, <2>3, BeginStep, PolicyRows DEF ModelUse!SaveRouting, model
<1>5. CASE ModelUse!SavePlatform(a)
  <2>1. PICK m \in Models \cup {ModelUse!Absent} :
          ModelUse!Begin(a, "platform", "read", ModelUse!NoPolicy,
            [ModelUse!NoConfig EXCEPT !.routed = m])
    BY <1>5 DEF ModelUse!SavePlatform
  <2>2. [ModelUse!NoConfig EXCEPT !.routed = m] \in ConfigRow
    BY PolicyRows DEF ConfigRow, Names
  <2> QED BY <1>5, <2>1, <2>2, BeginStep, PolicyRows DEF ModelUse!SavePlatform
<1> QED BY <1>1, <1>2, <1>3, <1>4, <1>5 DEF ModelUse!Pages

\* A save of a policy that looks takes the others their being alone.
LEMMA ReadPolicyStep ==
  ASSUME PolicyInv, NEW a \in Savers, ModelUse!ReadPolicy(a)
  PROVE  PolicyInv'
<1>1. PICK i \in ModelUse!FoundPolicy :
        saving' = [b \in Savers |->
          IF b = a THEN [saving[a] EXCEPT !.pc = "write", !.row = i, !.old = ModelUse!PolicyAt(i),
                                          !.alone = ModelUse!PolicySavers = {}]
          ELSE [saving[b] EXCEPT !.alone = FALSE]]
  BY DEF ModelUse!ReadPolicy
<1>2. i \in {0} \cup DOMAIN policies /\ i \in Nat /\ ModelUse!PolicyAt(i) \in Stored
  BY PolicyRows DEF ModelUse!FoundPolicy, ModelUse!Rows, ModelUse!PolicyAt, PolicyInv, PolicyTypes
<1> DEFINE alone == ModelUse!PolicySavers = {}
           old == ModelUse!PolicyAt(i)
           own == [saving[a] EXCEPT !.pc = "write", !.row = i, !.old = old, !.alone = alone]
           other(b) == [saving[b] EXCEPT !.alone = FALSE]
<1>3. alone \in BOOLEAN /\ old \in Stored
  BY <1>2
<1> HIDE DEF alone, old
<1>4. saving[a] \in CallRow /\ saving[a].kind = "policy"
  BY DEF PolicyInv, PolicyTypes, ModelUse!ReadPolicy
<1>5. /\ own \in CallRow /\ own.kind = "policy" /\ own.pc = "write" /\ own.row = i
      /\ own.alone = alone /\ own.old = old
  BY <1>2, <1>3, <1>4 DEF CallRow
<1>6. ASSUME NEW b \in Savers
      PROVE  /\ other(b) \in CallRow /\ other(b).kind = saving[b].kind /\ ~other(b).alone
             /\ other(b).row = saving[b].row /\ other(b).config = saving[b].config
             /\ other(b).pc = saving[b].pc
  BY DEF PolicyInv, PolicyTypes, CallRow
<1>7. saving' = [b \in Savers |-> IF b = a THEN own ELSE other(b)]
  BY <1>1 DEF alone, old
<1>0. old \in ModelUse!OneOf(ModelUse!InForce)
  BY DEF old, ModelUse!FoundPolicy, ModelUse!PolicyAt, ModelUse!OneOf, ModelUse!InForce, ModelUse!Rows,
         PolicyInv, PolicyTypes
<1> HIDE DEF own, other
<1>8. UNCHANGED <<policies, trail, configs, platform, before, plain>>
  BY DEF ModelUse!ReadPolicy
<1>9. PolicyTypes'
  BY <1>2, <1>5, <1>6, <1>7, <1>8 DEF PolicyInv, PolicyTypes
<1>10. ModelUse!PolicySavers' = ModelUse!PolicySavers \cup {a}
  BY <1>5, <1>6, <1>7 DEF ModelUse!PolicySavers
<1>11. Alone'
  <2> SUFFICES ASSUME NEW b \in ModelUse!PolicySavers', saving'[b].alone
               PROVE  /\ ModelUse!PolicySavers' = {b} /\ saving'[b].pc # "audit"
                      /\ saving'[b].old \in ModelUse!OneOf(ModelUse!InForce)'
    BY DEF Alone
  <2>1. b = a
    BY <1>6, <1>7 DEF ModelUse!PolicySavers
  <2>2. alone
    BY <1>5, <1>7, <2>1
  <2>3. ModelUse!OneOf(ModelUse!InForce)' = ModelUse!OneOf(ModelUse!InForce)
    BY <1>8 DEF ModelUse!OneOf, ModelUse!InForce, ModelUse!Rows
  <2> QED BY <1>0, <1>5, <1>7, <1>10, <2>1, <2>2, <2>3 DEF alone
<1>12. ModelUse!AuditExplains'
  BY <1>8 DEF PolicyInv, ModelUse!AuditExplains, ModelUse!InForce, ModelUse!Rows, ModelUse!OneOf
<1> QED BY <1>9, <1>11, <1>12 DEF PolicyInv

\* The write: a row is added or updated, or every row is deleted.
LEMMA WritePolicyStep ==
  ASSUME PolicyInv, NEW a \in Savers, ModelUse!WritePolicy(a)
  PROVE  PolicyInv'
<1> DEFINE new == saving[a].policy
           row == saving[a].row
           own == [saving[a] EXCEPT !.pc = "audit"]
<1>1. /\ saving[a] \in CallRow /\ saving[a].kind = "policy" /\ saving[a].pc = "write"
      /\ new \in Stored /\ row \in {0} \cup DOMAIN policies
  BY DEF PolicyInv, PolicyTypes, ModelUse!WritePolicy, CallRow
<1>2. CASE new # ModelUse!NoPolicy /\ row # 0 /\ policies[row] = ModelUse!NoPolicy
  <2>1. /\ saving' = [saving EXCEPT ![a] = ModelUse!NoCall]
        /\ UNCHANGED <<policies, trail, before, plain, configs, platform>>
    BY <1>2 DEF ModelUse!WritePolicy, ModelUse!Answer
  <2>2. platform' \in ConfigRow
    BY <2>1 DEF PolicyInv, PolicyTypes
  <2> QED BY <2>1, <2>2, PolicyRows, OneSaver
<1>3. CASE ~(new # ModelUse!NoPolicy /\ row # 0 /\ policies[row] = ModelUse!NoPolicy)
  <2>1. own \in CallRow /\ own.kind = "policy" /\ own.pc = "audit" /\ own.row = row
        /\ own.policy = new /\ own.old = saving[a].old /\ own.alone = saving[a].alone
    BY <1>1 DEF CallRow
  <2>2. /\ saving' = [saving EXCEPT ![a] = own] /\ before' = ModelUse!InForce /\ plain' = FALSE
        /\ UNCHANGED <<trail, configs, platform>>
        /\ policies' = IF new = ModelUse!NoPolicy THEN ModelUse!Cleared(row)
                       ELSE IF row = 0 THEN Append(policies, new)
                       ELSE [policies EXCEPT ![row] = new]
    BY <1>3 DEF ModelUse!WritePolicy
  <2> HIDE DEF own
  <2> DEFINE i == IF row = 0 THEN Len(policies) + 1 ELSE row
  <2>3. policies \in Seq(Stored) /\ Len(policies) \in Nat /\ DOMAIN policies = 1..Len(policies)
    BY DEF PolicyInv, PolicyTypes
  <2>4. /\ policies' \in Seq(Stored) /\ DOMAIN policies \subseteq DOMAIN policies'
        /\ new = ModelUse!NoPolicy => \A k \in DOMAIN policies' : policies'[k] = ModelUse!NoPolicy
        /\ new # ModelUse!NoPolicy => i \in DOMAIN policies' /\ policies'[i] = new
    <3>1. CASE new = ModelUse!NoPolicy
      <4>1. policies' = [k \in 1..Len(policies) |-> ModelUse!NoPolicy]
        BY <2>2, <2>3, <3>1 DEF ModelUse!Cleared
      <4> QED BY <2>3, <3>1, <4>1, PolicyRows
    <3>2. CASE new # ModelUse!NoPolicy /\ row = 0
      BY <1>1, <2>2, <2>3, <3>2
    <3>3. CASE new # ModelUse!NoPolicy /\ row # 0
      BY <1>1, <2>2, <2>3, <3>3
    <3> QED BY <3>1, <3>2, <3>3
  <2>5. PolicyTypes'
    BY <1>1, <2>1, <2>2, <2>4 DEF PolicyInv, PolicyTypes
  <2>6. ModelUse!PolicySavers' = ModelUse!PolicySavers /\ a \in ModelUse!PolicySavers
    BY <1>1, <2>1, <2>2 DEF PolicyInv, PolicyTypes, ModelUse!PolicySavers
  <2>7. saving'[a] = own /\ \A b \in Savers \ {a} : saving'[b] = saving[b]
    BY <2>2 DEF PolicyInv, PolicyTypes
  <2>8. Alone'
    <3> SUFFICES ASSUME NEW b \in ModelUse!PolicySavers, saving'[b].alone
                 PROVE  /\ ModelUse!PolicySavers = {b}
                        /\ saving'[b].pc = "audit"
                        /\ saving'[b].pc = "audit" =>
                             /\ saving'[b].old \in ModelUse!OneOf(before')
                             /\ IF saving'[b].policy = ModelUse!NoPolicy THEN ModelUse!Rows' = {}
                                ELSE \E k \in ModelUse!Rows' : policies'[k] = saving'[b].policy
      BY <2>6 DEF Alone, ModelUse!OneOf
    <3>1. saving[b].alone /\ b \in Savers
      BY <2>1, <2>7 DEF ModelUse!PolicySavers
    <3>2. ModelUse!PolicySavers = {b} /\ b = a
      BY <2>6, <3>1 DEF PolicyInv, Alone
    <3>3. /\ saving'[a].old \in ModelUse!OneOf(before') /\ saving'[a].policy = new
          /\ saving'[a].pc = "audit"
      BY <1>1, <2>1, <2>2, <2>6, <2>7, <3>1, <3>2 DEF PolicyInv, Alone
    <3>4. new = ModelUse!NoPolicy => ModelUse!Rows' = {}
      BY <2>4 DEF ModelUse!Rows
    <3>5. new # ModelUse!NoPolicy => i \in ModelUse!Rows' /\ policies'[i] = new
      BY <2>4 DEF ModelUse!Rows
    <3> HIDE DEF new, i
    <3> QED BY <3>2, <3>3, <3>4, <3>5
  <2>9. ModelUse!AuditExplains'
    BY <2>2 DEF ModelUse!AuditExplains
  <2> QED BY <2>5, <2>8, <2>9 DEF PolicyInv
<1> QED BY <1>2, <1>3

\* The audit event tells the policy in force when the save was alone.
LEMMA AuditPolicyStep ==
  ASSUME PolicyInv, NEW a \in Savers, ModelUse!AuditPolicy(a)
  PROVE  PolicyInv'
<1> DEFINE new == saving[a].policy
<1>1. /\ saving[a] \in CallRow /\ saving[a].kind = "policy" /\ saving[a].pc = "audit"
      /\ a \in ModelUse!PolicySavers /\ saving[a].alone \in BOOLEAN
  BY DEF PolicyInv, PolicyTypes, ModelUse!AuditPolicy, CallRow, ModelUse!PolicySavers
<1>2. /\ saving' = [saving EXCEPT ![a] = ModelUse!NoCall]
      /\ UNCHANGED <<policies, configs, platform, before>>
      /\ \/ /\ trail' = [previous |-> saving[a].old, new |-> new]
            /\ plain' = (saving[a].alone /\ (new = ModelUse!NoPolicy \/ Cardinality(ModelUse!Rows) = 1))
         \/ UNCHANGED <<trail, plain>>
  BY DEF ModelUse!AuditPolicy, ModelUse!Answer, ModelUse!Cardinality, Cardinality
<1>3. PolicyTypes'
  <2>1. plain' \in BOOLEAN
    BY <1>1, <1>2 DEF PolicyInv, PolicyTypes
  <2> QED BY <1>2, <2>1, PolicyRows DEF PolicyInv, PolicyTypes
<1>4. Alone'
  <2>1. ModelUse!PolicySavers' = ModelUse!PolicySavers \ {a}
    BY <1>2, PolicyRows DEF PolicyInv, PolicyTypes, ModelUse!PolicySavers
  <2>2. \A b \in ModelUse!PolicySavers : ~saving[b].alone \/ b = a
    BY <1>1 DEF PolicyInv, Alone
  <2>3. \A b \in ModelUse!PolicySavers' : saving'[b] = saving[b]
    BY <1>2, <2>1 DEF PolicyInv, PolicyTypes, ModelUse!PolicySavers
  <2> QED BY <2>1, <2>2, <2>3 DEF Alone
<1>5. ModelUse!AuditExplains'
  <2>1. CASE UNCHANGED <<trail, plain>>
    BY <1>2, <2>1 DEF PolicyInv, ModelUse!AuditExplains, ModelUse!InForce, ModelUse!Rows, ModelUse!OneOf
  <2>2. CASE /\ trail' = [previous |-> saving[a].old, new |-> new]
             /\ plain' = (saving[a].alone /\ (new = ModelUse!NoPolicy \/ Cardinality(ModelUse!Rows) = 1))
    <3> SUFFICES ASSUME plain'
                 PROVE  /\ ModelUse!InForce = {new} \ {ModelUse!NoPolicy}
                        /\ saving[a].old \in ModelUse!OneOf(before)
      BY <1>2, <2>2 DEF ModelUse!AuditExplains, ModelUse!InForce, ModelUse!Rows, ModelUse!OneOf
    <3>1. /\ saving[a].old \in ModelUse!OneOf(before)
          /\ new = ModelUse!NoPolicy => ModelUse!Rows = {}
          /\ new # ModelUse!NoPolicy => \E i \in ModelUse!Rows : policies[i] = new
      BY <1>1, <2>2 DEF PolicyInv, Alone
    <3>2. CASE new = ModelUse!NoPolicy
      BY <3>1, <3>2 DEF ModelUse!InForce
    <3>3. CASE new # ModelUse!NoPolicy
      <4>1. PICK i \in ModelUse!Rows : policies[i] = new
        BY <3>1, <3>3
      <4>2. IsFiniteSet(ModelUse!Rows)
        <5>1. Len(policies) \in Nat /\ ModelUse!Rows \subseteq 1..Len(policies)
          BY DEF PolicyInv, PolicyTypes, ModelUse!Rows
        <5>2. IsFiniteSet(1..Len(policies))
          <6>1. 1 \in Int /\ Len(policies) \in Int
            BY <5>1
          <6> QED BY <6>1, FS_Interval, Zenon
        <5> QED BY <5>1, <5>2, FS_Subset
      <4>3. Cardinality(ModelUse!Rows) = 1
        BY <2>2, <3>3
      <4>4. \E x : ModelUse!Rows = {x}
        BY <4>2, <4>3, FS_Singleton
      <4>5. ModelUse!Rows = {i}
        BY <4>1, <4>4
      <4> QED BY <3>1, <3>3, <4>1, <4>5 DEF ModelUse!InForce
    <3> QED BY <3>2, <3>3
  <2> QED BY <1>2, <2>1, <2>2
<1> QED BY <1>3, <1>4, <1>5 DEF PolicyInv

\* The saves of configurations
LEMMA ConfigStep ==
  ASSUME PolicyInv, NEW a \in Savers,
         \/ ModelUse!CheckModel(a) \/ ModelUse!ReadConfig(a)
         \/ ModelUse!ReadPlatform(a) \/ ModelUse!WritePlatform(a)
  PROVE  PolicyInv'
<1>0. saving[a] \in CallRow /\ platform \in ConfigRow
  BY DEF PolicyInv, PolicyTypes
<1>1. CASE ModelUse!CheckModel(a)
  <2> DEFINE row == [saving[a] EXCEPT !.pc = "read"]
  <2>1. /\ row \in CallRow /\ row.kind = "config" /\ row.row = saving[a].row
        /\ row.config = saving[a].config
    BY <1>0, <1>1 DEF CallRow, ModelUse!CheckModel
  <2>2. row.row \in {0} \cup DOMAIN configs /\ row.config.model \in Models
    BY <1>1, <2>1 DEF PolicyInv, PolicyTypes, ModelUse!CheckModel
  <2>3. saving' = [saving EXCEPT ![a] = row] \/ saving' = [saving EXCEPT ![a] = ModelUse!NoCall]
    BY <1>1 DEF ModelUse!CheckModel, ModelUse!Answer
  <2>4. UNCHANGED <<policies, trail, configs, platform, before, plain>>
    BY <1>1 DEF ModelUse!CheckModel
  <2> HIDE DEF row
  <2> QED BY <1>0, <2>1, <2>2, <2>3, <2>4, OneSaver, PolicyRows
<1>2. CASE ModelUse!ReadConfig(a)
  <2>1. PICK i \in ModelUse!FoundConfig :
          saving' = [saving EXCEPT ![a].pc = "write", ![a].row = i, ![a].read = ModelUse!ConfigAt(i)]
    BY <1>2 DEF ModelUse!ReadConfig
  <2>2. i \in {0} \cup DOMAIN configs /\ i \in Nat /\ ModelUse!ConfigAt(i) \in ConfigRow
    BY PolicyRows DEF ModelUse!FoundConfig, ModelUse!ConfigAt, PolicyInv, PolicyTypes
  <2> DEFINE c == ModelUse!ConfigAt(i)
             row == [saving[a] EXCEPT !.pc = "write", !.row = i, !.read = c]
  <2>3. saving' = [saving EXCEPT ![a] = row]
    BY <2>1 DEF PolicyInv, PolicyTypes
  <2> HIDE DEF c
  <2>4. row \in CallRow /\ row.kind = "config" /\ row.row = i /\ row.config = saving[a].config
    BY <1>0, <1>2, <2>2 DEF CallRow, ModelUse!ReadConfig, c
  <2>5. row.config.model \in Models
    BY <1>2, <2>4 DEF PolicyInv, PolicyTypes, ModelUse!ReadConfig
  <2>6. UNCHANGED <<policies, trail, configs, platform, before, plain>>
    BY <1>2 DEF ModelUse!ReadConfig
  <2> HIDE DEF row
  <2> QED BY <1>0, <2>2, <2>3, <2>4, <2>5, <2>6, OneSaver
<1>3. CASE ModelUse!ReadPlatform(a)
  <2> DEFINE row == [saving[a] EXCEPT !.pc = "write", !.read = platform]
  <2>1. row \in CallRow /\ row.kind = "platform" /\ row.config = saving[a].config
    BY <1>0, <1>3 DEF CallRow, ModelUse!ReadPlatform
  <2>4. saving[a].config \in ConfigRow
    BY <1>3 DEF PolicyInv, PolicyTypes, ModelUse!ReadPlatform
  <2>2. saving' = [saving EXCEPT ![a] = row]
    BY <1>3 DEF ModelUse!ReadPlatform, PolicyInv, PolicyTypes
  <2>3. UNCHANGED <<policies, trail, configs, platform, before, plain>>
    BY <1>3 DEF ModelUse!ReadPlatform
  <2> HIDE DEF row
  <2> QED BY <1>0, <2>1, <2>2, <2>3, <2>4, OneSaver
<1>4. CASE ModelUse!WritePlatform(a)
  <2>1. saving[a].read \in ConfigRow /\ saving[a].config \in ConfigRow
    BY <1>0, <1>4 DEF CallRow, PolicyInv, PolicyTypes, ModelUse!WritePlatform
  <2>2. platform' \in ConfigRow
    BY <1>4, <2>1 DEF ConfigRow, ModelUse!WritePlatform
  <2>3. /\ saving' = [saving EXCEPT ![a] = ModelUse!NoCall]
        /\ UNCHANGED <<policies, trail, configs, before, plain>>
    BY <1>4 DEF ModelUse!WritePlatform, ModelUse!Answer
  <2> QED BY <2>2, <2>3, OneSaver, PolicyRows
<1> QED BY <1>1, <1>2, <1>3, <1>4

\* What was not sent is written back: a key, or none.
LEMMA WriteConfigStep ==
  ASSUME PolicyInv, NEW a \in Savers, ModelUse!WriteConfig(a)
  PROVE  PolicyInv'
<1> DEFINE body == saving[a].config
           read == saving[a].read
           new == [body EXCEPT !.key = ModelUse!Or(@, read.key),
                               !.routed = IF @ = ModelUse!Emptied THEN ModelUse!Absent
                                          ELSE ModelUse!Or(@, read.routed)]
           row == saving[a].row
<1>1. /\ body \in BodyRow /\ read \in ConfigRow /\ body.model \in Models
      /\ row \in {0} \cup DOMAIN configs
  BY DEF PolicyInv, PolicyTypes, CallRow, ModelUse!WriteConfig
<1>2. new \in ConfigRow /\ new.model \in Models
  BY <1>1 DEF ConfigRow, BodyRow, Names, ModelUse!Or
<1>3. /\ saving' = [saving EXCEPT ![a] = ModelUse!NoCall]
      /\ configs' = IF row = 0 THEN Append(configs, new) ELSE [configs EXCEPT ![row] = new]
      /\ UNCHANGED <<policies, trail, platform, before, plain>>
  BY DEF ModelUse!WriteConfig, ModelUse!Answer
<1> HIDE DEF new
<1>4. /\ configs' \in Seq(ConfigRow) /\ DOMAIN configs \subseteq DOMAIN configs'
      /\ \A i \in DOMAIN configs' : configs'[i].model \in Models
  <2>1. configs \in Seq(ConfigRow) /\ Len(configs) \in Nat /\ DOMAIN configs = 1..Len(configs)
    BY DEF PolicyInv, PolicyTypes
  <2>2. CASE row = 0
    BY <1>2, <1>3, <2>1, <2>2 DEF PolicyInv, PolicyTypes
  <2>3. CASE row # 0
    BY <1>1, <1>2, <1>3, <2>1, <2>3 DEF PolicyInv, PolicyTypes
  <2> QED BY <2>2, <2>3
<1>5. PolicyTypes'
  BY <1>3, <1>4, PolicyRows DEF PolicyInv, PolicyTypes
<1>6. ModelUse!PolicySavers' = ModelUse!PolicySavers /\ ModelUse!Rows' = ModelUse!Rows
  BY <1>3, PolicyRows DEF PolicyInv, PolicyTypes, ModelUse!PolicySavers, ModelUse!Rows, ModelUse!WriteConfig
<1>7. \A b \in ModelUse!PolicySavers' : saving'[b] = saving[b]
  BY <1>3, <1>6 DEF PolicyInv, PolicyTypes, ModelUse!PolicySavers, ModelUse!WriteConfig
<1>8. Alone'
  <2>1. /\ ModelUse!OneOf(ModelUse!InForce)' = ModelUse!OneOf(ModelUse!InForce)
        /\ ModelUse!OneOf(before)' = ModelUse!OneOf(before)
    BY <1>3, <1>6 DEF ModelUse!OneOf, ModelUse!InForce
  <2> QED BY <1>3, <1>6, <1>7, <2>1 DEF PolicyInv, Alone
<1>9. ModelUse!AuditExplains'
  BY <1>3, <1>6 DEF PolicyInv, ModelUse!AuditExplains, ModelUse!InForce, ModelUse!OneOf
<1> QED BY <1>5, <1>8, <1>9 DEF PolicyInv

LEMMA PolicyInvStep == PolicyInv /\ [ModelUse!Next]_policyVars => PolicyInv'
<1>1. ASSUME PolicyInv, UNCHANGED policyVars PROVE PolicyInv'
  <2>1. PolicyTypes'
    BY <1>1 DEF policyVars, PolicyInv, PolicyTypes
  <2>2. Alone'
    BY <1>1 DEF policyVars, PolicyInv, Alone, ModelUse!Rows, ModelUse!PolicySavers,
                 ModelUse!OneOf, ModelUse!InForce
  <2>3. ModelUse!AuditExplains'
    BY <1>1 DEF policyVars, PolicyInv, ModelUse!AuditExplains, ModelUse!InForce, ModelUse!Rows,
                 ModelUse!OneOf
  <2> QED BY <2>1, <2>2, <2>3 DEF PolicyInv
<1> QED
  BY <1>1, PagesStep, ReadPolicyStep, WritePolicyStep, AuditPolicyStep, ConfigStep, WriteConfigStep
     DEF ModelUse!Next, ModelUse!Calls

LEMMA PolicyFocus == MasterSpec => [](focus = "policy" => PolicyInv)
<1>1. MasterInit => (focus = "policy" => PolicyInv)
  BY PolicyInvInit DEF MasterInit
<1>2. (focus = "policy" => PolicyInv) /\ [MasterNext]_allVars => (focus = "policy" => PolicyInv)'
  BY PolicyInvStep, FocusStep
<1> QED BY <1>1, <1>2, PTL DEF MasterSpec, allVars

LEMMA PolicyIsKept == PolicyInv => ModelUse!PolicyKept
<1> SUFFICES ASSUME PolicyInv PROVE ModelUse!PolicyKept
  OBVIOUS
<1>1. ModelUse!KeyNeverMasked
  <2>1. \A i \in DOMAIN configs : configs[i] \in ConfigRow
    BY DEF PolicyInv, PolicyTypes
  <2> QED BY <2>1 DEF ConfigRow, ModelUse!KeyNeverMasked
<1>2. ModelUse!ShownIsUsed
  BY DEF ModelUse!ShownIsUsed, ModelUse!Shown, ModelUse!Used, ModelUse!Or
<1> QED BY <1>1, <1>2 DEF PolicyInv, ModelUse!PolicyKept

\* The last audit event of a policy saved alone tells what is in force and what was
\* before, a stored key is a key, and the page shows the model the router uses
\* (mdm-primitives-routes.ts:954); a click does what the page said, and nobody's
\* entry is switched off unasked but of those that came after the count
\* (system-registry-routes.ts:111).
THEOREM ConsolesAreKept == MasterSpec => []ConsoleKept
<1>1. (focus = "policy" => PolicyInv) /\ (focus = "registry" => RegistryInv) => ConsoleKept
  BY PolicyIsKept, RegistryIsKept DEF ConsoleKept
<1> QED BY <1>1, PolicyFocus, RegistryFocus, PTL
-----------------------------------------------------------------------------
(* The tree of products and its stages *)

Stages == {"NEW", "GROWTH", "STABLE", "SUNSET"}
Placed == [of : Commodities \cup {Tree!None}, status : Tree!Statuses]
RequestRow ==
  [pc : {"ready", "listings", "commodity", "commodities", "product", "delete", "done"},
   of : Commodities \cup {Tree!None}, stage : Stages, product : Stages, seen : SUBSET Commodities]
Known == Commodities \cap tree

TreeTypes ==
  /\ tree \subseteq {Tree!Product} \cup Commodities \cup Listings
  /\ listed \in [Listings -> Placed]
  /\ stage \in [Commodities \cup {Tree!Product} -> Stages]
  /\ request \in [Requests -> RequestRow]
  /\ together \in BOOLEAN /\ unsynced \in BOOLEAN
  /\ \A l \in Tree!Live : listed[l].of \in Known \cup {Tree!None}
  /\ \A r \in Requests : request[r].pc \in {"listings", "commodity"} => request[r].of \in Commodities

\* How far the one roll-up is: what it has not come to is rolled up.
Rolling(r) ==
  LET c == request[r].of IN
  /\ request[r].pc \in {"listings", "commodity"}
       => \A d \in Known \ {c} : stage[d] = Tree!CommodityStage(d)
  /\ request[r].pc = "commodity" => request[r].stage = Tree!CommodityStage(c)
  /\ request[r].pc \in {"commodities", "product"}
       => \A d \in Known : Tree!Sees(r)[d] = Tree!CommodityStage(d)
  /\ request[r].pc = "product" => request[r].product = Tree!ProductStage(Tree!Sees(r))

AllRolledUp ==
  /\ \A d \in Known : stage[d] = Tree!CommodityStage(d)
  /\ stage[Tree!Product] = Tree!ProductStage(stage)

OneAtATime ==
  ~together /\ ~unsynced =>
    /\ \A r, q \in Tree!Busy : r = q
    /\ \A r \in Tree!Busy : Rolling(r)
    /\ Tree!Busy = {} /\ Tree!Product \in tree => AllRolledUp

TreeInv == TreeTypes /\ OneAtATime

LEMMA TreeRows ==
  /\ Tree!Waiting \in RequestRow /\ Tree!Waiting.pc = "ready"
  /\ \A r \in RequestRow : r.of \in Commodities \cup {Tree!None}
  /\ Tree!Product \notin Commodities \cup Listings /\ Tree!None \notin Commodities \cup Listings
  /\ Commodities \cap Listings = {}
BY MasterAssumption DEF RequestRow, Tree!Waiting, Tree!None, Tree!Product, Stages

LEMMA RolledTyped ==
  /\ \A x, a, b, z : Tree!RollUp(x, a, b, z) \in Stages
  /\ \A c : Tree!CommodityStage(c) \in Stages
  /\ \A s : Tree!ProductStage(s) \in Stages
BY DEF Tree!RollUp, Tree!CommodityStage, Tree!ProductStage, Stages

LEMMA TreeInvInit == Tree!Init => TreeInv
<1> SUFFICES ASSUME Tree!Init PROVE TreeInv
  OBVIOUS
<1>1. Tree!Live = {} /\ Tree!Busy = {}
  BY TreeRows DEF Tree!Init, Tree!Live, Tree!Busy
<1>2. TreeTypes
  <2>1. [of |-> Tree!None, status |-> "DRAFT"] \in Placed
    BY DEF Placed, Tree!Statuses
  <2> QED BY <1>1, <2>1, TreeRows DEF Tree!Init, TreeTypes, Stages
<1>3. AllRolledUp
  <2>1. \A d \in Known : stage[d] = Tree!CommodityStage(d)
    BY <1>1 DEF Tree!Init, Known, Tree!CommodityStage, Tree!Of, Tree!RollUp
  <2>2. stage[Tree!Product] = Tree!ProductStage(stage)
    BY DEF Tree!Init, Known, Tree!ProductStage, Tree!RollUp
  <2> QED BY <2>1, <2>2 DEF AllRolledUp
<1> QED BY <1>1, <1>2, <1>3 DEF TreeInv, OneAtATime

\* A commodity has the stage it had where its listings are as they were.
LEMMA SameListings ==
  ASSUME NEW c, Tree!Of(c)' = Tree!Of(c), \A l \in Tree!Of(c) : listed'[l].status = listed[l].status
  PROVE  Tree!CommodityStage(c)' = Tree!CommodityStage(c)
<1>1. {listed'[l].status : l \in Tree!Of(c)'} = {listed[l].status : l \in Tree!Of(c)}
  OBVIOUS
<1> QED BY <1>1 DEF Tree!CommodityStage

\* A call that begins while none is under way is the one.
LEMMA Entered ==
  ASSUME TreeInv, NEW r \in Requests, NEW step \in {"listings", "commodities", "delete", "done"},
         NEW c \in Commodities \cup {Tree!None}, step = "listings" => c \in Commodities,
         Tree!Enter(r, step, c)
  PROVE  /\ request' \in [Requests -> RequestRow]
         /\ together' \in BOOLEAN
         /\ \A q \in Requests :
              request'[q].pc \in {"listings", "commodity"} => request'[q].of \in Commodities
         /\ ~together' => ~together /\ Tree!Busy = {}
         /\ ~together' /\ step = "done" => Tree!Busy' = {}
         /\ ~together' /\ step # "done" => Tree!Busy' = {r}
         /\ request'[r].pc = step /\ request'[r].of = c
         /\ Tree!Product \in tree
<1> DEFINE row == [Tree!Waiting EXCEPT !.pc = step, !.of = c, !.seen = Commodities \cap tree]
<1>1. row \in RequestRow /\ row.pc = step /\ row.of = c
  BY DEF RequestRow, Tree!Waiting, Stages, Tree!None
<1>2. /\ request' = [request EXCEPT ![r] = row] /\ together' = (together \/ Tree!Busy # {})
      /\ request[r].pc = "ready" /\ Tree!Product \in tree
  BY DEF Tree!Enter
<1> HIDE DEF row
<1>3. request' \in [Requests -> RequestRow] /\ request'[r] = row
  BY <1>1, <1>2 DEF TreeInv, TreeTypes
<1>4. \A q \in Requests : q # r => request'[q] = request[q]
  BY <1>2 DEF TreeInv, TreeTypes
<1>5. ASSUME Tree!Busy = {}
      PROVE  Tree!Busy' = IF step = "done" THEN {} ELSE {r}
  BY <1>1, <1>3, <1>4, <1>5 DEF Tree!Busy
<1> QED BY <1>1, <1>2, <1>3, <1>4, <1>5 DEF TreeInv, TreeTypes

\* Changes of listings that are followed by a roll-up
LEMMA ChangeStep ==
  ASSUME TreeInv, NEW r \in Requests, NEW l \in Listings, NEW c \in Commodities \cup {Tree!None},
         NEW s \in Tree!Statuses, c \in Known \cup {Tree!None},
         \/ l \notin tree /\ c # Tree!None
         \/ l \in tree /\ listed[l].of = c,
         Tree!Enter(r, IF c = Tree!None THEN "done" ELSE "listings", c),
         tree' = tree \cup {l}, listed' = [listed EXCEPT ![l] = [of |-> c, status |-> s]],
         UNCHANGED <<stage, unsynced>>
  PROVE  TreeInv'
<1> DEFINE step == IF c = Tree!None THEN "done" ELSE "listings"
<1>1. step \in {"listings", "commodities", "delete", "done"} /\ (step = "listings" => c \in Commodities)
  OBVIOUS
<1>2. /\ request' \in [Requests -> RequestRow] /\ together' \in BOOLEAN
      /\ \A q \in Requests :
           request'[q].pc \in {"listings", "commodity"} => request'[q].of \in Commodities
      /\ ~together' => ~together /\ Tree!Busy = {}
      /\ ~together' /\ step = "done" => Tree!Busy' = {}
      /\ ~together' /\ step # "done" => Tree!Busy' = {r}
      /\ request'[r].pc = step /\ request'[r].of = c
      /\ Tree!Product \in tree
  BY <1>1, Entered
<1>3. [of |-> c, status |-> s] \in Placed
  BY DEF Placed
<1>4. Tree!Live' = Tree!Live \cup {l} /\ Known' = Known
  BY TreeRows DEF Tree!Live, Known
<1>5. /\ listed' \in [Listings -> Placed] /\ listed'[l].of = c
      /\ \A k \in Listings : k # l => listed'[k] = listed[k]
  BY <1>3 DEF TreeInv, TreeTypes
<1>6. TreeTypes'
  BY <1>2, <1>4, <1>5 DEF TreeInv, TreeTypes
<1>7. ASSUME NEW d \in Commodities, d # c
      PROVE  Tree!CommodityStage(d)' = Tree!CommodityStage(d)
  <2>1. Tree!Of(d)' = Tree!Of(d)
    BY <1>4, <1>5, <1>7 DEF Tree!Of, Tree!Live
  <2>2. \A k \in Tree!Of(d) : listed'[k].status = listed[k].status
    BY <1>5, <1>7 DEF Tree!Of, Tree!Live, TreeInv, TreeTypes
  <2> QED BY <2>1, <2>2, SameListings
<1>8. OneAtATime'
  <2> SUFFICES ASSUME ~together', ~unsynced'
               PROVE  /\ \A q, p \in Tree!Busy' : q = p
                      /\ \A q \in Tree!Busy' : Rolling(q)'
                      /\ Tree!Busy' = {} /\ Tree!Product \in tree' => AllRolledUp'
    BY DEF OneAtATime
  <2>1. AllRolledUp
    BY <1>2 DEF TreeInv, OneAtATime
  <2>2. CASE c = Tree!None
    <3>1. \A d \in Known' : stage'[d] = Tree!CommodityStage(d)'
      BY <1>4, <1>7, <2>1, <2>2, TreeRows DEF AllRolledUp, Known
    <3>2. Tree!ProductStage(stage)' = Tree!ProductStage(stage)
      BY <1>4 DEF Tree!ProductStage, Known
    <3>3. AllRolledUp'
      BY <2>1, <3>1, <3>2 DEF AllRolledUp
    <3> QED BY <1>2, <2>2, <3>3
  <2>3. CASE c # Tree!None
    <3>1. Tree!Busy' = {r} /\ request'[r].pc = "listings" /\ request'[r].of = c
      BY <1>2, <2>3
    <3>2. Rolling(r)'
      BY <1>4, <1>7, <2>1, <3>1 DEF Rolling, AllRolledUp, Known
    <3> QED BY <3>1, <3>2
  <2> QED BY <2>2, <2>3
<1> QED BY <1>6, <1>8 DEF TreeInv

LEMMA SameTree ==
  ASSUME UNCHANGED <<tree, listed>>
  PROVE  /\ Known' = Known /\ Tree!Live' = Tree!Live
         /\ \A c \in Commodities : Tree!CommodityStage(c)' = Tree!CommodityStage(c)
         /\ UNCHANGED stage => Tree!ProductStage(stage)' = Tree!ProductStage(stage)
<1>1. Known' = Known /\ Tree!Live' = Tree!Live
  BY DEF Known, Tree!Live
<1>2. ASSUME NEW c \in Commodities PROVE Tree!CommodityStage(c)' = Tree!CommodityStage(c)
  <2>1. Tree!Of(c)' = Tree!Of(c)
    BY <1>1 DEF Tree!Of
  <2> QED BY <2>1, SameListings
<1>3. UNCHANGED stage => Tree!ProductStage(stage)' = Tree!ProductStage(stage)
  BY DEF Tree!ProductStage
<1> QED BY <1>1, <1>2, <1>3

\* A call that goes on, with nothing changed but what it has read
LEMMA Advances ==
  ASSUME TreeInv, NEW r \in Tree!Busy, NEW row \in RequestRow, row.pc \notin {"ready", "done"},
         row.pc \in {"listings", "commodity"} => row.of \in Commodities,
         request' = [request EXCEPT ![r] = row],
         UNCHANGED <<tree, listed, stage, together, unsynced>>,
         ~together /\ ~unsynced => Rolling(r)'
  PROVE  TreeInv'
<1>1. r \in Requests
  BY DEF Tree!Busy
<1>2. TreeTypes'
  BY <1>1, SameTree DEF TreeInv, TreeTypes
<1>3. Tree!Busy' = Tree!Busy
  BY <1>1 DEF Tree!Busy, TreeInv, TreeTypes
<1>4. OneAtATime'
  BY <1>3 DEF TreeInv, OneAtATime
<1> QED BY <1>2, <1>4 DEF TreeInv

LEMMA ReadListingsStep ==
  ASSUME TreeInv, NEW r \in Requests, Tree!ReadListings(r)
  PROVE  TreeInv'
<1> DEFINE c == request[r].of
           own == Tree!CommodityStage(c)
           row == [request[r] EXCEPT !.pc = "commodity", !.stage = own]
<1>1. request[r] \in RequestRow /\ request[r].pc = "listings" /\ c \in Commodities /\ r \in Tree!Busy
  BY DEF TreeInv, TreeTypes, Tree!ReadListings, Tree!Busy
<1>2. own \in Stages
  BY RolledTyped
<1>3. request' = [request EXCEPT ![r] = row] /\ UNCHANGED <<tree, listed, stage, together, unsynced>>
  BY DEF Tree!ReadListings, TreeInv, TreeTypes
<1>4. Tree!CommodityStage(c)' = own
  <2> HIDE DEF own
  <2>1. \A d \in Commodities : Tree!CommodityStage(d)' = Tree!CommodityStage(d)
    BY <1>3, SameTree
  <2>2. request'[r].of = c
    BY <1>1, <1>3 DEF RequestRow, TreeInv, TreeTypes
  <2> QED BY <1>1, <2>1, <2>2 DEF own
<1> HIDE DEF own
<1>5. row \in RequestRow /\ row.pc = "commodity" /\ row.of = c /\ row.stage = own
  BY <1>1, <1>2 DEF RequestRow
<1> HIDE DEF row
<1>6. ASSUME ~together, ~unsynced PROVE Rolling(r)'
  <2>1. request'[r] = row
    BY <1>3 DEF TreeInv, TreeTypes
  <2>2. \A d \in Known \ {c} : stage[d] = Tree!CommodityStage(d)
    BY <1>1, <1>6 DEF TreeInv, OneAtATime, Rolling
  <2>3. \A d \in Known' \ {c} : stage'[d] = Tree!CommodityStage(d)'
    BY <1>3, <2>2, SameTree DEF Known
  <2>4. own = Tree!CommodityStage(c)
    BY DEF own
  <2>5. \A d \in Commodities : Tree!CommodityStage(d)' = Tree!CommodityStage(d)
    BY <1>3, SameTree
  <2> HIDE DEF c
  <2> QED BY <1>1, <1>5, <2>1, <2>3, <2>4, <2>5 DEF Rolling
<1> QED BY <1>1, <1>3, <1>5, <1>6, Advances

LEMMA WriteCommodityStep ==
  ASSUME TreeInv, NEW r \in Requests, Tree!WriteCommodity(r)
  PROVE  TreeInv'
<1> DEFINE row == [request[r] EXCEPT !.pc = "commodities"]
<1>1. request[r] \in RequestRow /\ request[r].pc = "commodity" /\ r \in Tree!Busy
      /\ request[r].of \in Commodities
  BY DEF TreeInv, TreeTypes, Tree!WriteCommodity, Tree!Busy
<1>2. row \in RequestRow /\ row.pc = "commodities" /\ row.of = request[r].of /\ row.stage = request[r].stage
  BY <1>1 DEF RequestRow
<1>3. request' = [request EXCEPT ![r] = row] /\ UNCHANGED <<tree, listed, stage, together, unsynced>>
  BY DEF Tree!WriteCommodity
<1> HIDE DEF row
<1>4. ASSUME ~together, ~unsynced PROVE Rolling(r)'
  <2>1. request'[r] = row
    BY <1>3 DEF TreeInv, TreeTypes
  <2>2. Rolling(r)
    BY <1>1, <1>4 DEF TreeInv, OneAtATime
  <2>3. ASSUME NEW d \in Known' PROVE Tree!Sees(r)'[d] = Tree!CommodityStage(d)'
    <3>1. d \in Known /\ d \in Commodities /\ Tree!CommodityStage(d)' = Tree!CommodityStage(d)
      BY <1>3, <2>3, SameTree DEF Known
    <3>2. Tree!Sees(r)' = [stage EXCEPT ![request[r].of] = request[r].stage]
      BY <1>1, <1>2, <1>3, <2>1, TreeRows DEF Tree!Sees
    <3>3. CASE d = request[r].of
      BY <1>1, <2>2, <3>1, <3>2, <3>3 DEF Rolling, TreeInv, TreeTypes
    <3>4. CASE d # request[r].of
      BY <1>1, <2>2, <3>1, <3>2, <3>4 DEF Rolling, TreeInv, TreeTypes
    <3> QED BY <3>3, <3>4
  <2> QED BY <1>2, <2>1, <2>3 DEF Rolling
<1> QED BY <1>1, <1>2, <1>3, <1>4, Advances

LEMMA ReadCommoditiesStep ==
  ASSUME TreeInv, NEW r \in Requests, Tree!ReadCommodities(r)
  PROVE  TreeInv'
<1> DEFINE top == Tree!ProductStage(Tree!Sees(r))
           row == [request[r] EXCEPT !.pc = "product", !.product = top]
<1>1. request[r] \in RequestRow /\ request[r].pc = "commodities" /\ r \in Tree!Busy
  BY DEF TreeInv, TreeTypes, Tree!ReadCommodities, Tree!Busy
<1>2. top \in Stages
  BY RolledTyped
<1>3. request' = [request EXCEPT ![r] = row] /\ UNCHANGED <<tree, listed, stage, together, unsynced>>
  BY DEF Tree!ReadCommodities, TreeInv, TreeTypes
<1> HIDE DEF top
<1>4. /\ row \in RequestRow /\ row.pc = "product" /\ row.of = request[r].of
      /\ row.stage = request[r].stage /\ row.product = top
  BY <1>1, <1>2 DEF RequestRow
<1> HIDE DEF row
<1>5. ASSUME ~together, ~unsynced PROVE Rolling(r)'
  <2>1. request'[r] = row
    BY <1>3 DEF TreeInv, TreeTypes
  <2>2. Rolling(r)
    BY <1>1, <1>5 DEF TreeInv, OneAtATime
  <2>3. Tree!Sees(r)' = Tree!Sees(r)
    BY <1>3, <1>4, <2>1 DEF Tree!Sees
  <2>4. \A d \in Known' : Tree!Sees(r)'[d] = Tree!CommodityStage(d)'
    BY <1>1, <1>3, <2>2, <2>3, SameTree DEF Rolling, Known
  <2>5. Tree!ProductStage(Tree!Sees(r))' = top
    BY <1>3, <2>3 DEF top, Tree!ProductStage
  <2> QED BY <1>4, <2>1, <2>4, <2>5 DEF Rolling
<1> QED BY <1>1, <1>3, <1>4, <1>5, Advances

\* The roll-up is over: every stage is what it saw.
LEMMA WriteProductStep ==
  ASSUME TreeInv, NEW r \in Requests, Tree!WriteProduct(r)
  PROVE  TreeInv'
<1> DEFINE row == [Tree!Waiting EXCEPT !.pc = "done"]
<1>1. request[r] \in RequestRow /\ request[r].pc = "product" /\ r \in Tree!Busy
  BY DEF TreeInv, TreeTypes, Tree!WriteProduct, Tree!Busy
<1>2. row \in RequestRow /\ row.pc = "done"
  BY DEF RequestRow, Tree!Waiting, Stages, Tree!None
<1>3. /\ request' = [request EXCEPT ![r] = row] /\ UNCHANGED <<tree, listed, together, unsynced>>
      /\ stage' = [Tree!Sees(r) EXCEPT ![Tree!Product] = request[r].product]
  BY DEF Tree!WriteProduct
<1> HIDE DEF row
<1>4. Tree!Sees(r) \in [Commodities \cup {Tree!Product} -> Stages] /\ request[r].product \in Stages
  BY <1>1, TreeRows DEF Tree!Sees, TreeInv, TreeTypes, RequestRow
<1>5. /\ stage' \in [Commodities \cup {Tree!Product} -> Stages]
      /\ \A d \in Commodities : stage'[d] = Tree!Sees(r)[d]
      /\ stage'[Tree!Product] = request[r].product
  BY <1>3, <1>4, TreeRows
<1>6. TreeTypes'
  BY <1>2, <1>3, <1>5, SameTree DEF TreeInv, TreeTypes
<1>7. Tree!Busy' = Tree!Busy \ {r}
  BY <1>2, <1>3 DEF Tree!Busy, TreeInv, TreeTypes
<1>8. ASSUME ~together, ~unsynced PROVE Tree!Busy' = {} /\ AllRolledUp'
  <2>1. Tree!Busy' = {}
    BY <1>1, <1>7, <1>8 DEF TreeInv, OneAtATime
  <2>2. Rolling(r)
    BY <1>1, <1>8 DEF TreeInv, OneAtATime
  <2>3. \A d \in Known' : stage'[d] = Tree!CommodityStage(d)'
    BY <1>1, <1>3, <1>5, <2>2, SameTree DEF Rolling, Known
  <2>4. Tree!ProductStage(stage)' = Tree!ProductStage(Tree!Sees(r))
    <3>1. {stage'[d] : d \in Commodities \cap tree'} = {Tree!Sees(r)[d] : d \in Commodities \cap tree}
      BY <1>3, <1>5
    <3> QED BY <3>1 DEF Tree!ProductStage
  <2>5. AllRolledUp'
    BY <1>1, <1>5, <2>2, <2>3, <2>4 DEF AllRolledUp, Rolling
  <2> QED BY <2>1, <2>5
<1>9. OneAtATime'
  BY <1>3, <1>8 DEF OneAtATime
<1> QED BY <1>6, <1>9 DEF TreeInv

\* A call that fails leaves its mark, and what is deleted has no stage.
LEMMA EndStep ==
  ASSUME TreeInv, NEW r \in Requests, Tree!Abort(r) \/ Tree!Delete(r)
  PROVE  TreeInv'
<1> DEFINE row == [Tree!Waiting EXCEPT !.pc = "done"]
<1>1. row \in RequestRow /\ row.pc = "done"
  BY DEF RequestRow, Tree!Waiting, Stages, Tree!None
<1>2. request' = [request EXCEPT ![r] = row] /\ UNCHANGED <<listed, stage, together>>
  BY DEF Tree!Abort, Tree!Delete
<1> HIDE DEF row
<1>3. CASE Tree!Abort(r)
  <2>1. unsynced' = TRUE /\ UNCHANGED tree
    BY <1>3 DEF Tree!Abort
  <2>2. TreeTypes'
    BY <1>1, <1>2, <2>1, SameTree DEF TreeInv, TreeTypes
  <2> QED BY <2>1, <2>2 DEF TreeInv, OneAtATime
<1>4. CASE Tree!Delete(r)
  <2>1. /\ tree' = {l \in Tree!Live : listed[l].of \notin request[r].seen} /\ UNCHANGED unsynced
        /\ \A l \in Tree!Live : listed[l].of \in request[r].seen \cup {Tree!None}
        /\ request[r].pc = "delete"
    BY <1>4 DEF Tree!Delete, Tree!Deletable
  <2>2. /\ tree' \subseteq Listings /\ Tree!Live' \subseteq Tree!Live
        /\ \A l \in Tree!Live' : listed'[l].of = Tree!None
    BY <1>2, <2>1 DEF Tree!Live
  <2>3. TreeTypes'
    BY <1>1, <1>2, <2>1, <2>2 DEF TreeInv, TreeTypes
  <2>4. Tree!Product \notin tree'
    BY <2>2, TreeRows
  <2>5. Tree!Busy' = Tree!Busy \ {r} /\ r \in Tree!Busy
    BY <1>1, <1>2, <2>1 DEF Tree!Busy, TreeInv, TreeTypes
  <2>6. OneAtATime'
    BY <1>2, <2>1, <2>4, <2>5 DEF TreeInv, OneAtATime
  <2> QED BY <2>3, <2>6 DEF TreeInv
<1> QED BY <1>3, <1>4

\* A roll-up or a deletion begins.
LEMMA BeginsStep ==
  ASSUME TreeInv, NEW r \in Requests, Tree!Sync(r) \/ Tree!CheckDelete(r)
  PROVE  TreeInv'
<1>1. PICK step \in {"listings", "commodities", "delete", "done"}, c \in Known \cup {Tree!None} :
        /\ Tree!Enter(r, step, c) /\ (step = "listings" => c \in Commodities)
        /\ step = "commodities" => c = Tree!None
  BY DEF Tree!Sync, Tree!CheckDelete, Known
<1>2. UNCHANGED <<tree, listed, stage, unsynced>>
  BY DEF Tree!Sync, Tree!CheckDelete
<1>3. c \in Commodities \cup {Tree!None}
  BY DEF Known
<1>4. /\ request' \in [Requests -> RequestRow] /\ together' \in BOOLEAN
      /\ \A q \in Requests :
           request'[q].pc \in {"listings", "commodity"} => request'[q].of \in Commodities
      /\ ~together' => ~together /\ Tree!Busy = {}
      /\ ~together' /\ step = "done" => Tree!Busy' = {}
      /\ ~together' /\ step # "done" => Tree!Busy' = {r}
      /\ request'[r].pc = step /\ request'[r].of = c
      /\ Tree!Product \in tree
  BY <1>1, <1>3, Entered
<1>5. TreeTypes'
  BY <1>2, <1>4, SameTree DEF TreeInv, TreeTypes
<1>6. ASSUME ~together', ~unsynced'
      PROVE  AllRolledUp' /\ Rolling(r)'
  <2>1. AllRolledUp
    BY <1>2, <1>4, <1>6 DEF TreeInv, OneAtATime
  <2>2. \A d \in Known' : stage'[d] = Tree!CommodityStage(d)'
    BY <1>2, <2>1, SameTree DEF AllRolledUp, Known
  <2>3. AllRolledUp'
    BY <1>2, <2>1, <2>2, SameTree DEF AllRolledUp
  <2>4. step = "commodities" => Tree!Sees(r)' = stage'
    BY <1>1, <1>4 DEF Tree!Sees
  <2>5. Rolling(r)'
    BY <1>4, <2>2, <2>4 DEF Rolling
  <2> QED BY <2>3, <2>5
<1>7. OneAtATime'
  BY <1>2, <1>4, <1>6 DEF OneAtATime
<1> QED BY <1>5, <1>7 DEF TreeInv

LEMMA TreeStays ==
  ASSUME TreeInv, UNCHANGED <<tree, listed, stage, request, together, unsynced>>
  PROVE  TreeInv'
<1>1. TreeTypes'
  BY DEF TreeInv, TreeTypes, Tree!Live, Known
<1>2. /\ Known' = Known /\ Tree!Busy' = Tree!Busy
      /\ \A c : Tree!Of(c)' = Tree!Of(c)
      /\ \A r : Tree!Sees(r)' = Tree!Sees(r)
  BY DEF Known, Tree!Busy, Tree!Of, Tree!Live, Tree!Sees
<1>3. ASSUME NEW r \in Requests PROVE Rolling(r) => Rolling(r)'
  <2>1. \A c \in Commodities : Tree!CommodityStage(c)' = Tree!CommodityStage(c)
    BY SameTree
  <2>2. Tree!CommodityStage(request[r].of)' = Tree!CommodityStage(request[r].of)
    BY <1>2 DEF Tree!CommodityStage, Tree!Of, Tree!Live
  <2>3. Tree!ProductStage(Tree!Sees(r))' = Tree!ProductStage(Tree!Sees(r))
    BY <1>2 DEF Tree!ProductStage
  <2> QED BY <1>2, <2>1, <2>2, <2>3 DEF Rolling, Known
<1>4. AllRolledUp => AllRolledUp'
  BY SameTree DEF AllRolledUp, Known
<1>5. OneAtATime'
  BY <1>2, <1>3, <1>4 DEF TreeInv, OneAtATime, Tree!Busy
<1> QED BY <1>1, <1>5 DEF TreeInv

\* The routes that roll nothing up
LEMMA UnsyncedStep ==
  ASSUME TreeInv,
         Tree!ImportListing \/ Tree!PutListing \/ Tree!CreateCommodity \/ Tree!Bind
  PROVE  TreeInv'
<1>1. CASE Tree!ImportListing
  <2>1. PICK l \in Listings \ tree :
          /\ tree' = tree \cup {l} /\ listed' = [listed EXCEPT ![l] = [of |-> Tree!None, status |-> "DRAFT"]]
          /\ UNCHANGED <<stage, request, together, unsynced>>
    BY <1>1 DEF Tree!ImportListing
  <2>2. [of |-> Tree!None, status |-> "DRAFT"] \in Placed
    BY DEF Placed, Tree!Statuses
  <2>3. /\ listed' \in [Listings -> Placed] /\ listed'[l].of = Tree!None
        /\ \A k \in Listings : k # l => listed'[k] = listed[k]
    BY <2>1, <2>2 DEF TreeInv, TreeTypes
  <2>4. Tree!Live' = Tree!Live \cup {l} /\ Known' = Known
    BY <2>1, TreeRows DEF Tree!Live, Known
  <2>5. TreeTypes'
    BY <2>1, <2>3, <2>4 DEF TreeInv, TreeTypes
  <2>6. ASSUME NEW d \in Commodities PROVE Tree!CommodityStage(d)' = Tree!CommodityStage(d)
    <3>1. Tree!Of(d)' = Tree!Of(d)
      BY <2>1, <2>3, <2>4, TreeRows DEF Tree!Of, Tree!Live
    <3>2. \A k \in Tree!Of(d) : listed'[k].status = listed[k].status
      BY <2>1, <2>3 DEF Tree!Of, Tree!Live
    <3> QED BY <3>1, <3>2, SameListings
  <2>7. Tree!Busy' = Tree!Busy /\ (Tree!Product \in tree' => Tree!Product \in tree)
    BY <2>1, TreeRows DEF Tree!Busy
  <2>8. ASSUME NEW r \in Requests PROVE Rolling(r) => Rolling(r)'
    <3>1. Tree!Sees(r)' = Tree!Sees(r) /\ UNCHANGED request /\ UNCHANGED stage
      BY <2>1 DEF Tree!Sees
    <3>2. Tree!ProductStage(Tree!Sees(r))' = Tree!ProductStage(Tree!Sees(r))
      BY <2>4, <3>1 DEF Tree!ProductStage, Known
    <3>3. request[r].pc = "commodity" => Tree!CommodityStage(request[r].of)' = Tree!CommodityStage(request[r].of)
      <4> DEFINE c == request[r].of
      <4>1. request[r].pc = "commodity" => c \in Commodities
        BY DEF TreeInv, TreeTypes
      <4>2. c' = c
        BY <3>1
      <4> HIDE DEF c
      <4>3. c \in Commodities => Tree!CommodityStage(c)' = Tree!CommodityStage(c)
        <5>1. ASSUME NEW e, e = c, e \in Commodities PROVE Tree!CommodityStage(e)' = Tree!CommodityStage(e)
          BY <2>6, <5>1
        <5> QED BY <4>2, <5>1 DEF Tree!CommodityStage, Tree!Of
      <4> QED BY <4>1, <4>3 DEF c
    <3> QED BY <2>4, <2>6, <3>1, <3>2, <3>3 DEF Rolling, Known
  <2>9. AllRolledUp => AllRolledUp'
    <3>1. Tree!ProductStage(stage)' = Tree!ProductStage(stage)
      BY <2>1, <2>4 DEF Tree!ProductStage, Known
    <3> QED BY <2>1, <2>4, <2>6, <3>1 DEF AllRolledUp, Known
  <2>10. OneAtATime'
    BY <2>1, <2>7, <2>8, <2>9 DEF TreeInv, OneAtATime, Tree!Busy
  <2> QED BY <2>5, <2>10 DEF TreeInv
<1>2. CASE Tree!PutListing
  <2>1. PICK l \in Tree!Live, c \in Known, s \in Tree!Statuses :
          listed' = [listed EXCEPT ![l] = [of |-> c, status |-> s]]
    BY <1>2 DEF Tree!PutListing, Known
  <2>2. unsynced' = TRUE /\ UNCHANGED <<tree, stage, request, together>>
    BY <1>2 DEF Tree!PutListing
  <2>3. [of |-> c, status |-> s] \in Placed /\ l \in Listings
    BY DEF Placed, Known, Tree!Live
  <2>4. Tree!Live' = Tree!Live /\ Known' = Known
    BY <2>2 DEF Tree!Live, Known
  <2>5. listed' \in [Listings -> Placed] /\ listed'[l].of = c
        /\ \A k \in Listings : k # l => listed'[k] = listed[k]
    BY <2>1, <2>3 DEF TreeInv, TreeTypes
  <2>6. TreeTypes'
    BY <2>2, <2>4, <2>5 DEF TreeInv, TreeTypes, Tree!Live
  <2> QED BY <2>2, <2>6 DEF TreeInv, OneAtATime
<1>3. CASE Tree!CreateCommodity
  <2>1. PICK c \in Commodities \ tree :
          tree' = tree \cup {c} /\ stage' = [stage EXCEPT ![c] = "NEW"]
    BY <1>3 DEF Tree!CreateCommodity
  <2>2. unsynced' = TRUE /\ UNCHANGED <<listed, request, together>>
    BY <1>3 DEF Tree!CreateCommodity
  <2>3. Tree!Live' = Tree!Live /\ Known' = Known \cup {c}
    BY <2>1, TreeRows DEF Tree!Live, Known
  <2>4. TreeTypes'
    BY <2>1, <2>2, <2>3 DEF TreeInv, TreeTypes, Stages
  <2> QED BY <2>2, <2>4 DEF TreeInv, OneAtATime
<1>4. CASE Tree!Bind
  <2>1. UNCHANGED <<tree, listed, stage, request, together, unsynced>>
    BY <1>4 DEF Tree!Bind
  <2> QED BY <2>1, TreeStays
<1> QED BY <1>1, <1>2, <1>3, <1>4

LEMMA TreeInvStep == TreeInv /\ [Tree!Next]_treeVars => TreeInv'
<1>1. ASSUME TreeInv, UNCHANGED treeVars PROVE TreeInv'
  <2>1. UNCHANGED <<tree, listed, stage, request, together, unsynced>>
    BY <1>1 DEF treeVars
  <2> QED BY <1>1, <2>1, TreeStays
<1>2. ASSUME TreeInv, NEW r \in Requests, Tree!CreateListing(r) PROVE TreeInv'
  <2>1. PICK l \in Listings \ tree, c \in Commodities \cap tree, s \in Tree!Statuses :
          /\ Tree!Enter(r, "listings", c)
          /\ tree' = tree \cup {l} /\ listed' = [listed EXCEPT ![l] = [of |-> c, status |-> s]]
          /\ UNCHANGED <<stage, unsynced>>
    BY <1>2 DEF Tree!CreateListing
  <2>2. c \in Known /\ c # Tree!None
    BY TreeRows DEF Known
  <2> QED BY <1>2, <2>1, <2>2, ChangeStep
<1>3. ASSUME TreeInv, NEW r \in Requests, Tree!SetStatus(r) PROVE TreeInv'
  <2>1. PICK l \in Tree!Live, s \in Tree!Statuses :
          /\ Tree!Enter(r, IF listed[l].of = Tree!None THEN "done" ELSE "listings", listed[l].of)
          /\ listed' = [listed EXCEPT ![l].status = s]
          /\ UNCHANGED <<tree, stage, unsynced>>
    BY <1>3 DEF Tree!SetStatus
  <2> DEFINE c == listed[l].of
  <2>2. l \in Listings /\ l \in tree /\ c \in Known \cup {Tree!None} /\ listed[l] \in Placed
    BY <1>3 DEF TreeInv, TreeTypes, Tree!Live
  <2>3. [listed[l] EXCEPT !.status = s] = [of |-> c, status |-> s]
    BY <2>2 DEF Placed
  <2>4. listed' = [listed EXCEPT ![l] = [of |-> c, status |-> s]]
    BY <2>1, <2>3
  <2>5. tree' = tree \cup {l} /\ c \in Commodities \cup {Tree!None}
    BY <2>1, <2>2 DEF Known
  <2>6. Tree!Enter(r, IF c = Tree!None THEN "done" ELSE "listings", c)
    BY <2>1
  <2>7. l \in tree /\ listed[l].of = c
    BY <2>2
  <2> HIDE DEF c
  <2> QED BY <1>3, <2>1, <2>2, <2>4, <2>5, <2>6, <2>7, ChangeStep
<1> QED
  BY <1>1, <1>2, <1>3, BeginsStep, ReadListingsStep, WriteCommodityStep, ReadCommoditiesStep,
     WriteProductStep, EndStep, UnsyncedStep DEF Tree!Next

LEMMA TreeFocus == MasterSpec => [](focus = "tree" => TreeInv)
<1>1. MasterInit => (focus = "tree" => TreeInv)
  BY TreeInvInit DEF MasterInit
<1>2. (focus = "tree" => TreeInv) /\ [MasterNext]_allVars => (focus = "tree" => TreeInv)'
  BY TreeInvStep, FocusStep
<1> QED BY <1>1, <1>2, PTL DEF MasterSpec, allVars

\* Once a change of a listing is rolled up, the stages of its commodity and of the
\* product are those of what is below them, when no two calls ran together
\* and no route that rolls nothing up was called (lifecycle.ts).
THEOREM StagesAreRolledUp == MasterSpec => []StagesRolledUp
<1>1. (focus = "tree" => TreeInv) => StagesRolledUp
  BY DEF StagesRolledUp, Tree!StagesRolledUp, TreeInv, OneAtATime, AllRolledUp, Known
<1> QED BY <1>1, TreeFocus, PTL
-----------------------------------------------------------------------------
(* The versions of costs *)

CostRow == [by : Changes, cost : Prices, from : 0..MaxClock, to : Nat, active : BOOLEAN,
            known : SUBSET Changes]
ChangeRow ==
  [pc : {"ready", "update", "see", "end", "insert", "done", "failed"}, kind : {"put", "manual"},
   cost : Prices \cup {0}, old : Prices \cup {0}, from : 0..MaxClock, to : Nat,
   seen : SUBSET CostRow, ended : SUBSET CostRow, known : SUBSET Changes]

CostTypes ==
  /\ clock \in 0..MaxClock /\ price \in Prices \cup {0} /\ stale \in BOOLEAN /\ manual \in BOOLEAN
  /\ costs \subseteq CostRow /\ change \in [Changes -> ChangeRow]

\* A call ends open versions alone that start before its own, all it knows of
\* among them, and a PUT without others by hand knows of all.
GoodCall(c) ==
  LET own == change[c] IN
  /\ own.pc \in {"update", "see", "end", "insert"} => own.cost \in Prices
  /\ own.pc = "update" => own.kind = "put"
  /\ own.pc \in {"see", "end", "insert"} => own.from < own.to
  /\ own.kind = "put" => own.to = Costs!Never /\ own.from <= clock
  /\ own.known \subseteq Costs!Makers
  /\ own.ended \subseteq Costs!OpenVersions /\ (own.pc # "insert" => own.ended = {})
  /\ \A v \in own.ended : v.from < own.from
  /\ \A v \in Costs!OpenVersions : v.by \in own.known /\ v.from <= own.from =>
       (own.pc = "end" => v \in own.seen) /\ (own.pc = "insert" => v \in own.ended)
  /\ ~manual /\ Costs!HoldsProduct(c) =>
       /\ \A v \in costs : v.from <= own.from
       /\ own.pc \in {"end", "insert"} => Costs!Makers \subseteq own.known

\* No version is ended by two calls, and one PUT holds the product.
CallsApart ==
  \A c, d \in Changes : c # d =>
    /\ change[c].ended \cap change[d].ended = {}
    /\ ~(Costs!HoldsProduct(c) /\ Costs!HoldsProduct(d))

\* A call makes one version; by PUT alone, one is open and the others are over.
GoodRows ==
  /\ \A v \in costs : v.from < v.to /\ v.known \subseteq Costs!Makers /\ change[v.by].pc = "done"
  /\ \A v, w \in costs : v.by = w.by => v = w
  /\ ~manual =>
       /\ \A v \in costs : /\ v.active /\ v.from <= clock
                           /\ v.to = Costs!Never \/ v.to <= clock
       /\ \A v, w \in Costs!OpenVersions : v = w
       /\ costs # {} => \E v \in Costs!OpenVersions : ~stale => v.cost = price

CostInv ==
  /\ CostTypes /\ (\A c \in Changes : GoodCall(c)) /\ CallsApart /\ GoodRows
  /\ Costs!LaterEndsEarlier

LEMMA CostNumbers ==
  /\ MaxClock \in Nat /\ Costs!Never = MaxClock + 2 /\ Costs!Never \in Nat
  /\ \A t \in 0..MaxClock : t \in Nat /\ t < Costs!Never
BY MasterAssumption DEF Costs!Never

LEMMA IdleRow ==
  ASSUME NEW pc \in {"ready", "done", "failed"}, NEW row, row = [Costs!Idle EXCEPT !.pc = pc]
  PROVE  /\ row \in ChangeRow /\ row.pc = pc /\ row.kind = "put" /\ row.from = 0
         /\ row.to = Costs!Never /\ row.known = {} /\ row.ended = {}
BY CostNumbers DEF ChangeRow, Costs!Idle

LEMMA CostInvInit == Costs!Init => CostInv
<1> SUFFICES ASSUME Costs!Init PROVE CostInv
  OBVIOUS
<1>1. /\ clock = 0 /\ costs = {} /\ change = [c \in Changes |-> Costs!Idle] /\ manual = FALSE
      /\ stale = FALSE /\ price = 0
  BY DEF Costs!Init
<1>2. Costs!Idle = [Costs!Idle EXCEPT !.pc = "ready"]
  BY DEF Costs!Idle
<1>3. /\ Costs!Idle \in ChangeRow /\ Costs!Idle.pc = "ready" /\ Costs!Idle.kind = "put"
      /\ Costs!Idle.from = 0 /\ Costs!Idle.to = Costs!Never /\ Costs!Idle.known = {}
      /\ Costs!Idle.ended = {}
  BY <1>2, IdleRow
<1>4. CostTypes
  <2>1. change \in [Changes -> ChangeRow]
    BY <1>1, <1>3
  <2>2. clock \in 0..MaxClock /\ price \in Prices \cup {0}
    BY <1>1, CostNumbers
  <2>3. costs \subseteq CostRow /\ stale \in BOOLEAN /\ manual \in BOOLEAN
    BY <1>1
  <2> QED BY <2>1, <2>2, <2>3 DEF CostTypes
<1>5. Costs!OpenVersions = {} /\ \A c \in Changes : ~Costs!HoldsProduct(c) /\ change[c] = Costs!Idle
  BY <1>1, <1>3 DEF Costs!OpenVersions, Costs!HoldsProduct
<1>6. \A c \in Changes : GoodCall(c)
  BY <1>1, <1>3, <1>5 DEF GoodCall
<1> QED BY <1>1, <1>3, <1>4, <1>5, <1>6 DEF CostInv, CallsApart, GoodRows, Costs!LaterEndsEarlier

\* A call that moves changes no version.
LEMMA CallMoves ==
  ASSUME CostInv, NEW c \in Changes, NEW row \in ChangeRow, change[c].pc # "done",
         change' = [change EXCEPT ![c] = row],
         UNCHANGED <<clock, costs, manual>>, price' \in Prices \cup {0}, stale' \in BOOLEAN,
         ~stale' => ~stale /\ price' = price,
         GoodCall(c)',
         \A d \in Changes : d # c =>
           /\ change[d].ended \cap row.ended = {}
           /\ ~(Costs!HoldsProduct(d) /\ row.kind = "put" /\ row.pc \in {"see", "end", "insert"})
  PROVE  CostInv'
<1>1. CostTypes' /\ change'[c] = row /\ \A d \in Changes : d # c => change'[d] = change[d]
  BY DEF CostInv, CostTypes
<1>2. Costs!OpenVersions' = Costs!OpenVersions /\ Costs!Makers' = Costs!Makers
  BY DEF Costs!OpenVersions, Costs!Makers
<1>3. ASSUME NEW d \in Changes, d # c
      PROVE  (Costs!HoldsProduct(d)' <=> Costs!HoldsProduct(d)) /\ GoodCall(d)'
  <2>1. Costs!HoldsProduct(d)' <=> Costs!HoldsProduct(d)
    BY <1>1, <1>3 DEF Costs!HoldsProduct
  <2>2. GoodCall(d)
    BY DEF CostInv
  <2> QED BY <1>1, <1>2, <1>3, <2>1, <2>2 DEF GoodCall
<1>4. CallsApart'
  BY <1>1, <1>3 DEF CostInv, CallsApart, Costs!HoldsProduct
<1>5. GoodRows'
  <2>1. \A v \in costs : v.by # c
    BY DEF CostInv, GoodRows
  <2>2. \A v \in costs : v.by \in Changes
    BY DEF CostInv, CostTypes, CostRow
  <2> QED BY <1>1, <1>2, <2>1, <2>2 DEF CostInv, GoodRows
<1>6. Costs!LaterEndsEarlier'
  BY <1>2 DEF CostInv, Costs!LaterEndsEarlier
<1> QED BY <1>1, <1>3, <1>4, <1>5, <1>6 DEF CostInv

LEMMA BeginCostStep ==
  ASSUME CostInv, NEW c \in Changes, Costs!BeginPut(c) \/ Costs!BeginManual(c)
  PROVE  CostInv'
<1>0. /\ UNCHANGED <<clock, price, costs, stale, manual>> /\ change[c].pc = "ready"
      /\ price' \in Prices \cup {0} /\ stale' \in BOOLEAN /\ (~stale' => ~stale /\ price' = price)
  BY DEF Costs!BeginPut, Costs!BeginManual, CostInv, CostTypes
<1>1. CASE Costs!BeginPut(c)
  <2>1. PICK p \in Prices :
          change' = [change EXCEPT ![c] = [Costs!Idle EXCEPT !.pc = "update", !.cost = p, !.old = price]]
    BY <1>1 DEF Costs!BeginPut
  <2> DEFINE row == [Costs!Idle EXCEPT !.pc = "update", !.cost = p, !.old = price]
  <2>2. /\ row \in ChangeRow /\ row.pc = "update" /\ row.kind = "put" /\ row.from = 0 /\ row.cost = p
        /\ row.to = Costs!Never /\ row.known = {} /\ row.ended = {}
    <3>1. price \in Prices \cup {0} /\ p \in Prices \cup {0} /\ 0 \in 0..MaxClock
      BY CostNumbers DEF CostInv, CostTypes
    <3> QED BY <3>1, CostNumbers DEF ChangeRow, Costs!Idle
  <2>3. change' = [change EXCEPT ![c] = row]
    BY <2>1
  <2> HIDE DEF row
  <2>4. change'[c] = row
    BY <2>3 DEF CostInv, CostTypes
  <2>5. GoodCall(c)'
    BY <1>0, <2>2, <2>4, CostNumbers DEF GoodCall, Costs!HoldsProduct, CostInv, CostTypes
  <2> QED BY <1>0, <2>2, <2>3, <2>5, CallMoves
<1>2. CASE Costs!BeginManual(c)
  <2>1. PICK p \in Prices, from \in 0..MaxClock, to \in (1..MaxClock) \cup {Costs!Never} :
          /\ from < to
          /\ change' = [change EXCEPT ![c] =
               [Costs!Idle EXCEPT !.pc = "see", !.kind = "manual", !.cost = p, !.from = from, !.to = to]]
    BY <1>2 DEF Costs!BeginManual
  <2> DEFINE row == [Costs!Idle EXCEPT !.pc = "see", !.kind = "manual", !.cost = p, !.from = from, !.to = to]
  <2>2. to \in Nat
    BY CostNumbers
  <2>3. /\ row \in ChangeRow /\ row.pc = "see" /\ row.kind = "manual" /\ row.from = from /\ row.cost = p
        /\ row.to = to /\ row.known = {} /\ row.ended = {}
    BY <2>2 DEF ChangeRow, Costs!Idle
  <2>4. change' = [change EXCEPT ![c] = row]
    BY <2>1
  <2> HIDE DEF row
  <2>5. change'[c] = row
    BY <2>4 DEF CostInv, CostTypes
  <2>6. GoodCall(c)'
    BY <1>0, <2>1, <2>3, <2>5 DEF GoodCall, Costs!HoldsProduct
  <2> QED BY <1>0, <2>3, <2>4, <2>6, CallMoves
<1> QED BY <1>1, <1>2

LEMMA AbortCostStep ==
  ASSUME CostInv, NEW c \in Changes, NEW pc \in {"done", "failed"}, change[c].pc # "done",
         change' = [change EXCEPT ![c] = [Costs!Idle EXCEPT !.pc = pc]],
         UNCHANGED <<clock, costs, manual>>, price' \in Prices \cup {0}, stale' \in BOOLEAN,
         ~stale' => ~stale /\ price' = price
  PROVE  CostInv'
<1> DEFINE row == [Costs!Idle EXCEPT !.pc = pc]
<1>1. /\ row \in ChangeRow /\ row.pc = pc /\ row.kind = "put" /\ row.from = 0
      /\ row.to = Costs!Never /\ row.known = {} /\ row.ended = {}
  BY IdleRow
<1>2. change' = [change EXCEPT ![c] = row]
  OBVIOUS
<1> HIDE DEF row
<1>3. change'[c] = row
  BY <1>2 DEF CostInv, CostTypes
<1>4. clock' = clock /\ 0 <= clock
  BY CostNumbers DEF CostInv, CostTypes
<1>5. GoodCall(c)'
  BY <1>1, <1>3, <1>4 DEF GoodCall, Costs!HoldsProduct
<1> QED BY <1>1, <1>2, <1>5, CallMoves

\* The PUT takes the product; every version there is starts no later than now.
LEMMA UpdateProductStep ==
  ASSUME CostInv, NEW c \in Changes, Costs!UpdateProduct(c)
  PROVE  CostInv'
<1>1. /\ change[c] \in ChangeRow /\ change[c].pc = "update" /\ \A d \in Changes : ~Costs!HoldsProduct(d)
      /\ UNCHANGED <<clock, costs, manual>> /\ stale' = (stale \/ change[c].old # price)
      /\ stale' \in BOOLEAN /\ GoodCall(c)
  BY DEF Costs!UpdateProduct, CostInv, CostTypes
<1>2. CASE Costs!CostChanged(c)
  <2> DEFINE row == [change[c] EXCEPT !.pc = "see", !.from = clock]
  <2>1. change' = [change EXCEPT ![c] = row] /\ price' = price /\ price' \in Prices \cup {0}
    BY <1>2 DEF Costs!UpdateProduct, CostInv, CostTypes
  <2>2. /\ row \in ChangeRow /\ row.pc = "see" /\ row.from = clock /\ row.kind = change[c].kind
        /\ row.to = change[c].to /\ row.known = change[c].known /\ row.ended = change[c].ended
        /\ row.cost = change[c].cost
    BY <1>1 DEF ChangeRow, CostInv, CostTypes
  <2> HIDE DEF row
  <2>3. change'[c] = row
    BY <2>1 DEF CostInv, CostTypes
  <2>4. change[c].ended = {} /\ change[c].kind \in {"put", "manual"}
    BY <1>1 DEF GoodCall, ChangeRow
  <2>5. row.kind = "put"
    BY <1>1, <2>2 DEF GoodCall
  <2>6. GoodCall(c)'
    <3>1. clock < Costs!Never /\ clock \in Nat
      BY CostNumbers DEF CostInv, CostTypes
    <3>2. ~manual => \A v \in costs : v.from <= clock
      BY DEF CostInv, GoodRows
    <3> QED BY <1>1, <2>2, <2>3, <2>4, <2>5, <3>1, <3>2
            DEF GoodCall, Costs!HoldsProduct, Costs!Makers, Costs!OpenVersions
  <2> QED BY <1>1, <2>1, <2>2, <2>4, <2>6, CallMoves
<1>3. CASE ~Costs!CostChanged(c)
  <2>1. change' = [change EXCEPT ![c] = [Costs!Idle EXCEPT !.pc = "done"]] /\ price' = change[c].cost
    BY <1>3 DEF Costs!UpdateProduct
  <2>2. price' \in Prices \cup {0} /\ (~stale' => ~stale /\ price' = price)
    BY <1>1, <1>3, <2>1 DEF Costs!CostChanged, GoodCall
  <2> QED BY <1>1, <2>1, <2>2, AbortCostStep
<1> QED BY <1>2, <1>3

LEMMA SeeStep ==
  ASSUME CostInv, NEW c \in Changes, Costs!See(c)
  PROVE  CostInv'
<1> DEFINE sees == {v \in Costs!OpenVersions : Costs!ToEnd(v, change[c].from)}
           row == [change[c] EXCEPT !.pc = "end", !.known = Costs!Makers, !.seen = sees]
<1>1. /\ change[c] \in ChangeRow /\ change[c].pc = "see" /\ GoodCall(c)
      /\ UNCHANGED <<clock, price, costs, stale, manual>>
      /\ price' \in Prices \cup {0} /\ stale' \in BOOLEAN /\ (~stale' => ~stale /\ price' = price)
  BY DEF Costs!See, CostInv, CostTypes
<1>2. change' = [change EXCEPT ![c] = row]
  BY DEF Costs!See, CostInv, CostTypes
<1>3. sees \subseteq CostRow /\ Costs!Makers \subseteq Changes
  BY DEF CostInv, CostTypes, Costs!OpenVersions, Costs!Makers, CostRow
<1>4. \A v \in Costs!OpenVersions : v.from <= change[c].from => v \in sees
  BY DEF Costs!ToEnd
<1> HIDE DEF sees
<1>5. /\ row \in ChangeRow /\ row.pc = "end" /\ row.known = Costs!Makers /\ row.seen = sees
      /\ row.kind = change[c].kind /\ row.from = change[c].from /\ row.to = change[c].to
      /\ row.cost = change[c].cost /\ row.ended = change[c].ended
  BY <1>1, <1>3 DEF ChangeRow
<1> HIDE DEF row
<1>6. change'[c] = row
  BY <1>2 DEF CostInv, CostTypes
<1>7. change[c].ended = {}
  BY <1>1 DEF GoodCall
<1>8. Costs!OpenVersions' = Costs!OpenVersions /\ Costs!Makers' = Costs!Makers
  BY <1>1 DEF Costs!OpenVersions, Costs!Makers
<1>9. GoodCall(c)'
  BY <1>1, <1>4, <1>5, <1>6, <1>7, <1>8 DEF GoodCall, Costs!HoldsProduct
<1>10. \A d \in Changes : d # c => ~(Costs!HoldsProduct(d) /\ row.kind = "put")
  BY <1>1, <1>5 DEF CostInv, CallsApart, Costs!HoldsProduct
<1> QED BY <1>1, <1>2, <1>5, <1>7, <1>9, <1>10, CallMoves

\* Nobody else has ended what a call ends.
LEMMA EndVersionsStep ==
  ASSUME CostInv, NEW c \in Changes, Costs!End(c)
  PROVE  CostInv'
<1> DEFINE ends == change[c].seen \cap Costs!OpenVersions
           row == [change[c] EXCEPT !.pc = "insert", !.ended = ends, !.seen = {}]
<1>1. /\ change[c] \in ChangeRow /\ change[c].pc = "end" /\ GoodCall(c)
      /\ UNCHANGED <<clock, price, costs, stale, manual>>
      /\ price' \in Prices \cup {0} /\ stale' \in BOOLEAN /\ (~stale' => ~stale /\ price' = price)
  BY DEF Costs!End, CostInv, CostTypes
<1>2. CASE \A v \in ends : v.from < change[c].from
  <2>1. change' = [change EXCEPT ![c] = row]
    BY <1>2 DEF Costs!End, CostInv, CostTypes
  <2>2. ends \subseteq CostRow /\ ends \subseteq Costs!OpenVersions
    BY DEF CostInv, CostTypes, Costs!OpenVersions
  <2>3. \A d \in Changes : d # c => change[d].ended \cap ends = {}
    BY DEF Costs!End, Costs!Locked
  <2>4. \A v \in Costs!OpenVersions : v \in change[c].seen => v \in ends
    OBVIOUS
  <2> HIDE DEF ends
  <2>5. /\ row \in ChangeRow /\ row.pc = "insert" /\ row.ended = ends /\ row.known = change[c].known
        /\ row.kind = change[c].kind /\ row.from = change[c].from /\ row.to = change[c].to
        /\ row.cost = change[c].cost
    BY <1>1, <2>2 DEF ChangeRow
  <2> HIDE DEF row
  <2>6. change'[c] = row
    BY <2>1 DEF CostInv, CostTypes
  <2>7. Costs!OpenVersions' = Costs!OpenVersions /\ Costs!Makers' = Costs!Makers
    BY <1>1 DEF Costs!OpenVersions, Costs!Makers
  <2>8. GoodCall(c)'
    BY <1>1, <1>2, <2>2, <2>4, <2>5, <2>6, <2>7 DEF GoodCall, Costs!HoldsProduct
  <2>9. \A d \in Changes : d # c => ~(Costs!HoldsProduct(d) /\ row.kind = "put")
    BY <1>1, <2>5 DEF CostInv, CallsApart, Costs!HoldsProduct
  <2> QED BY <1>1, <2>1, <2>3, <2>5, <2>8, <2>9, CallMoves
<1>3. CASE ~(\A v \in ends : v.from < change[c].from)
  <2>1. change' = [change EXCEPT ![c] = [Costs!Idle EXCEPT !.pc = "failed"]]
    BY <1>3 DEF Costs!End
  <2> QED BY <1>1, <2>1, AbortCostStep
<1> QED BY <1>2, <1>3

\* What is inserted, and what it ends
LEMMA Inserted ==
  ASSUME CostInv, NEW c \in Changes, Costs!Insert(c)
  PROVE  \E new \in CostRow :
           /\ new.by = c /\ new.cost = change[c].cost /\ new.from = change[c].from
           /\ new.to = change[c].to /\ new.active /\ new.known = change[c].known
           /\ new \in costs' /\ costs' \subseteq CostRow
           /\ Costs!Makers' = Costs!Makers \cup {c}
           /\ Costs!OpenVersions' = (Costs!OpenVersions \ change[c].ended)
                \cup (IF change[c].to = Costs!Never THEN {new} ELSE {})
           /\ \A v \in costs' :
                \/ v \in costs \ change[c].ended
                \/ v = new
                \/ \E w \in change[c].ended :
                     /\ w \in costs /\ v.by = w.by /\ v.from = w.from /\ v.known = w.known
                     /\ v.active = w.active /\ v.to = change[c].from
                     /\ v = [w EXCEPT !.to = change[c].from]
<1> DEFINE own == change[c]
           new == [by |-> c, cost |-> own.cost, from |-> own.from, to |-> own.to, active |-> TRUE,
                   known |-> own.known]
           cut(v) == [v EXCEPT !.to = own.from]
           cuts == {cut(v) : v \in own.ended}
<1>1. own \in ChangeRow /\ own.pc = "insert" /\ GoodCall(c) /\ own.cost \in Prices
  BY DEF Costs!Insert, CostInv, CostTypes, GoodCall
<1>2. /\ new \in CostRow /\ new.by = c /\ new.cost = own.cost /\ new.from = own.from
      /\ new.to = own.to /\ new.active /\ new.known = own.known
  BY <1>1 DEF ChangeRow, CostRow
<1>3. costs' = ((costs \ own.ended) \cup cuts) \cup {new}
  BY DEF Costs!Insert
<1>4. /\ own.ended \subseteq costs /\ costs \subseteq CostRow /\ own.from \in 0..MaxClock
      /\ own.from \in Nat /\ own.from < Costs!Never
  BY <1>1, CostNumbers DEF GoodCall, Costs!OpenVersions, CostInv, CostTypes, ChangeRow
<1> HIDE DEF new
<1>5. ASSUME NEW v \in own.ended
      PROVE  /\ cut(v) \in CostRow /\ cut(v).by = v.by /\ cut(v).from = v.from
             /\ cut(v).known = v.known /\ cut(v).active = v.active /\ cut(v).to = own.from
  BY <1>4, <1>5 DEF CostRow
<1> HIDE DEF cut
<1>6. costs' \subseteq CostRow /\ new \in costs'
  BY <1>2, <1>3, <1>4, <1>5
<1>7. ASSUME NEW v \in costs'
      PROVE  \/ v \in costs \ own.ended
             \/ v = new
             \/ \E w \in own.ended : v = cut(w)
  BY <1>3, <1>7
<1>8. Costs!Makers' = Costs!Makers \cup {c}
  <2>1. ASSUME NEW x \in Costs!Makers' PROVE x \in Costs!Makers \cup {c}
    <3>1. PICK v \in costs' : x = v.by
      BY <2>1 DEF Costs!Makers
    <3> QED BY <1>2, <1>4, <1>5, <1>7, <3>1 DEF Costs!Makers
  <2>2. ASSUME NEW v \in costs PROVE v.by \in Costs!Makers'
    <3>1. CASE v \in own.ended
      <4>1. cut(v) \in costs' /\ cut(v).by = v.by
        BY <1>3, <1>5, <3>1
      <4> QED BY <4>1 DEF Costs!Makers
    <3>2. CASE v \notin own.ended
      BY <1>3, <3>2 DEF Costs!Makers
    <3> QED BY <3>1, <3>2
  <2>3. c \in Costs!Makers'
    BY <1>2, <1>6 DEF Costs!Makers
  <2> QED BY <2>1, <2>2, <2>3 DEF Costs!Makers
<1>9. Costs!OpenVersions' = (Costs!OpenVersions \ own.ended)
        \cup (IF own.to = Costs!Never THEN {new} ELSE {})
  <2>1. ASSUME NEW v \in Costs!OpenVersions'
        PROVE  v \in (Costs!OpenVersions \ own.ended) \cup (IF own.to = Costs!Never THEN {new} ELSE {})
    <3>1. v \in costs' /\ v.active /\ v.to = Costs!Never
      BY <2>1 DEF Costs!OpenVersions
    <3>2. CASE v \in costs \ own.ended
      BY <3>1, <3>2 DEF Costs!OpenVersions
    <3>3. CASE v = new
      BY <1>2, <3>1, <3>3
    <3>4. CASE \E w \in own.ended : v = cut(w)
      BY <1>4, <1>5, <3>1, <3>4
    <3> QED BY <1>7, <3>1, <3>2, <3>3, <3>4
  <2>2. ASSUME NEW v \in Costs!OpenVersions \ own.ended PROVE v \in Costs!OpenVersions'
    BY <1>3, <2>2 DEF Costs!OpenVersions
  <2>3. own.to = Costs!Never => new \in Costs!OpenVersions'
    BY <1>2, <1>6 DEF Costs!OpenVersions
  <2> QED BY <2>1, <2>2, <2>3
<1>10. \A v \in costs' :
         \/ v \in costs \ own.ended
         \/ v = new
         \/ \E w \in own.ended :
              /\ w \in costs /\ v.by = w.by /\ v.from = w.from /\ v.known = w.known
              /\ v.active = w.active /\ v.to = own.from
              /\ v = [w EXCEPT !.to = own.from]
  <2>1. \A w \in own.ended : w \in costs
    BY <1>4
  <2>2. \A w \in own.ended : cut(w) = [w EXCEPT !.to = own.from]
    BY DEF cut
  <2>3. ASSUME NEW v \in costs', NEW w \in own.ended, v = cut(w)
        PROVE  /\ w \in costs /\ v.by = w.by /\ v.from = w.from /\ v.known = w.known
               /\ v.active = w.active /\ v.to = own.from
               /\ v = [w EXCEPT !.to = own.from]
    <3>1. w \in costs
      BY <2>1
    <3>2. v = [w EXCEPT !.to = own.from]
      BY <2>2, <2>3
    <3>3. /\ cut(w).by = w.by /\ cut(w).from = w.from /\ cut(w).known = w.known
          /\ cut(w).active = w.active /\ cut(w).to = own.from
      BY <1>5
    <3> QED BY <2>3, <3>1, <3>2, <3>3, Zenon
  <2> QED BY <1>7, <2>3, Zenon
<1> HIDE DEF own
<1> QED BY <1>2, <1>6, <1>8, <1>9, <1>10 DEF own

\* The version of a call is the only one it makes, later than all it knew of that
\* are still open.
LEMMA InsertStep ==
  ASSUME CostInv, NEW c \in Changes, Costs!Insert(c)
  PROVE  CostInv'
<1> DEFINE own == change[c]
<1>1. PICK new \in CostRow :
        /\ new.by = c /\ new.cost = own.cost /\ new.from = own.from
        /\ new.to = own.to /\ new.active /\ new.known = own.known
        /\ new \in costs' /\ costs' \subseteq CostRow
        /\ Costs!Makers' = Costs!Makers \cup {c}
        /\ Costs!OpenVersions' = (Costs!OpenVersions \ own.ended)
             \cup (IF own.to = Costs!Never THEN {new} ELSE {})
        /\ \A v \in costs' :
             \/ v \in costs \ own.ended
             \/ v = new
             \/ \E w \in own.ended :
                  /\ w \in costs /\ v.by = w.by /\ v.from = w.from /\ v.known = w.known
                  /\ v.active = w.active /\ v.to = own.from
                  /\ v = [w EXCEPT !.to = own.from]
  BY Inserted
<1>2. /\ own \in ChangeRow /\ own.pc = "insert" /\ GoodCall(c) /\ own.cost \in Prices
      /\ own.from < own.to /\ own.from \in Nat /\ own.to \in Nat
  BY DEF Costs!Insert, CostInv, CostTypes, GoodCall, ChangeRow
<1> DEFINE row == [Costs!Idle EXCEPT !.pc = "done"]
<1>3. /\ row \in ChangeRow /\ row.pc = "done" /\ row.kind = "put" /\ row.from = 0
      /\ row.to = Costs!Never /\ row.known = {} /\ row.ended = {}
  BY IdleRow
<1>4. /\ change' = [change EXCEPT ![c] = row] /\ UNCHANGED <<clock, stale>>
      /\ price' = IF own.kind = "put" THEN own.cost ELSE price
      /\ manual' = (manual \/ own.kind = "manual")
  BY DEF Costs!Insert
<1> HIDE DEF own, row
<1>5. change'[c] = row /\ \A d \in Changes : d # c => change'[d] = change[d]
  BY <1>4 DEF CostInv, CostTypes
<1>6. c \notin Costs!Makers
  BY <1>2 DEF CostInv, GoodRows, Costs!Makers, own
<1>7. CostTypes'
  <2>1. price' \in Prices \cup {0}
    BY <1>2, <1>4 DEF CostInv, CostTypes
  <2>2. manual' \in BOOLEAN
    BY <1>4 DEF CostInv, CostTypes
  <2>3. change' \in [Changes -> ChangeRow]
    BY <1>3, <1>4 DEF CostInv, CostTypes
  <2> QED BY <1>1, <1>4, <2>1, <2>2, <2>3 DEF CostInv, CostTypes
<1>8. ~manual' => ~manual /\ own.kind = "put" /\ Costs!HoldsProduct(c)
  BY <1>2, <1>4 DEF Costs!HoldsProduct, ChangeRow, own
<1>9. GoodCall(c)'
  <2>1. clock' = clock /\ 0 <= clock
    BY <1>4, CostNumbers DEF CostInv, CostTypes
  <2> QED BY <1>3, <1>5, <2>1 DEF GoodCall, Costs!HoldsProduct
<1>10. ASSUME NEW d \in Changes, d # c
       PROVE  GoodCall(d)' /\ (Costs!HoldsProduct(d)' <=> Costs!HoldsProduct(d))
  <2>1. GoodCall(d) /\ change'[d] = change[d] /\ own.ended \cap change[d].ended = {}
    BY <1>5, <1>10 DEF CostInv, CallsApart, own
  <2>2. Costs!HoldsProduct(d)' <=> Costs!HoldsProduct(d)
    BY <2>1 DEF Costs!HoldsProduct
  <2>3. ~manual' => ~Costs!HoldsProduct(d)
    BY <1>8, <1>10 DEF CostInv, CallsApart
  <2>4. \A v \in Costs!OpenVersions' : v \in Costs!OpenVersions \/ v.by \notin change[d].known
    BY <1>1, <1>6, <2>1 DEF GoodCall
  <2>5. change[d].ended \subseteq Costs!OpenVersions'
    BY <1>1, <2>1 DEF GoodCall
  <2> QED BY <1>1, <1>4, <2>1, <2>2, <2>3, <2>4, <2>5 DEF GoodCall
<1>11. CallsApart'
  <2>1. ~Costs!HoldsProduct(c)'
    BY <1>3, <1>5 DEF Costs!HoldsProduct
  <2> QED BY <1>3, <1>5, <1>10, <2>1 DEF CostInv, CallsApart
<1>12. \A v \in Costs!OpenVersions : v.by \in own.known => v \in own.ended \/ own.from < v.from
  <2>1. \A v \in Costs!OpenVersions : v.from \in Nat
    BY CostNumbers DEF CostInv, CostTypes, CostRow, Costs!OpenVersions
  <2> QED BY <1>2, <2>1 DEF GoodCall, own
<1>13. \A v \in Costs!OpenVersions : v \in costs /\ v.known \subseteq Costs!Makers
  BY DEF Costs!OpenVersions, CostInv, GoodRows
<1>14. Costs!LaterEndsEarlier'
  <2> SUFFICES ASSUME NEW v \in Costs!OpenVersions', NEW w \in Costs!OpenVersions',
                      v # w, v.by \in w.known
               PROVE  w.from < v.from
    BY DEF Costs!LaterEndsEarlier
  <2>1. CASE v \in Costs!OpenVersions /\ w \in Costs!OpenVersions
    BY <2>1 DEF CostInv, Costs!LaterEndsEarlier
  <2>2. CASE w = new /\ v \in Costs!OpenVersions \ own.ended
    BY <1>1, <1>12, <2>2
  <2>3. CASE v = new /\ w \in Costs!OpenVersions
    BY <1>1, <1>6, <1>13, <2>3
  <2> QED BY <1>1, <2>1, <2>2, <2>3
<1>15. \A v \in costs' : v.from < v.to /\ v.known \subseteq Costs!Makers' /\ change'[v.by].pc = "done"
  <2> SUFFICES ASSUME NEW v \in costs'
               PROVE  v.from < v.to /\ v.known \subseteq Costs!Makers' /\ change'[v.by].pc = "done"
    OBVIOUS
  <2>1. \A o \in costs : /\ o.from < o.to /\ o.known \subseteq Costs!Makers /\ change[o.by].pc = "done"
                         /\ o.by \in Changes
    BY DEF CostInv, GoodRows, CostTypes, CostRow
  <2>2. \A o \in costs : change'[o.by].pc = "done"
    BY <1>3, <1>5, <2>1
  <2>3. \A o \in own.ended : o.from < own.from
    BY <1>2 DEF GoodCall, own
  <2>4. new.known \subseteq Costs!Makers
    BY <1>1, <1>2 DEF GoodCall, own
  <2> QED BY <1>1, <1>2, <1>3, <1>5, <2>1, <2>2, <2>3, <2>4
<1>16. \A v, w \in costs' : v.by = w.by => v = w
  <2>1. \A v \in costs' : v = new \/ \E o \in costs :
           v.by = o.by /\ v = IF o \in own.ended THEN [o EXCEPT !.to = own.from] ELSE o
    BY <1>1
  <2>2. \A v, w \in costs : v.by = w.by => v = w
    BY DEF CostInv, GoodRows
  <2>3. \A o \in costs : o.by # new.by
    BY <1>1, <1>6 DEF Costs!Makers
  <2> SUFFICES ASSUME NEW v \in costs', NEW w \in costs', v.by = w.by PROVE v = w
    OBVIOUS
  <2>4. CASE v = new \/ w = new
    BY <2>1, <2>3, <2>4
  <2>5. CASE v # new /\ w # new
    <3>1. PICK o \in costs : v.by = o.by /\ v = IF o \in own.ended THEN [o EXCEPT !.to = own.from] ELSE o
      BY <2>1, <2>5
    <3>2. PICK p \in costs : w.by = p.by /\ w = IF p \in own.ended THEN [p EXCEPT !.to = own.from] ELSE p
      BY <2>1, <2>5
    <3>3. o = p
      BY <2>2, <3>1, <3>2
    <3> QED BY <3>1, <3>2, <3>3
  <2> QED BY <2>4, <2>5
<1>17. ASSUME ~manual'
       PROVE  /\ \A v \in costs' : /\ v.active /\ v.from <= clock'
                                   /\ v.to = Costs!Never \/ v.to <= clock'
              /\ \A v, w \in Costs!OpenVersions' : v = w
              /\ \E v \in Costs!OpenVersions' : ~stale' => v.cost = price'
  <2>1. /\ ~manual /\ own.kind = "put" /\ Costs!HoldsProduct(c) /\ own.to = Costs!Never
        /\ own.from <= clock /\ Costs!Makers \subseteq own.known
        /\ \A v \in costs : v.from <= own.from
    BY <1>2, <1>8, <1>17 DEF GoodCall, own
  <2>2. \A v \in costs : v.active /\ v.from <= clock /\ (v.to = Costs!Never \/ v.to <= clock)
    BY <2>1 DEF CostInv, GoodRows
  <2>3. ASSUME NEW v \in costs'
        PROVE  v.active /\ v.from <= clock' /\ (v.to = Costs!Never \/ v.to <= clock')
    BY <1>1, <1>4, <2>1, <2>2, <2>3
  <2>4. \A v \in Costs!OpenVersions : v \in own.ended
    BY <1>2, <2>1 DEF GoodCall, own, Costs!OpenVersions, Costs!Makers
  <2>5. Costs!OpenVersions' = {new}
    BY <1>1, <2>1, <2>4
  <2> QED BY <1>1, <1>4, <2>1, <2>3, <2>5
<1>18. GoodRows'
  BY <1>15, <1>16, <1>17 DEF GoodRows
<1> QED BY <1>7, <1>9, <1>10, <1>11, <1>14, <1>18 DEF CostInv

\* A version is revoked by hand, and none that a call is ending.
LEMMA RevokeStep ==
  ASSUME CostInv, Costs!Revoke
  PROVE  CostInv'
<1>1. PICK v \in costs \ UNION {change[d].ended : d \in Changes}, at \in 0..MaxClock :
        /\ v.from < at \/ v.to < at
        /\ costs' = (costs \ {v}) \cup {[v EXCEPT !.active = FALSE, !.to = IF v.to < at THEN v.to ELSE at]}
  BY DEF Costs!Revoke
<1> DEFINE to == IF v.to < at THEN v.to ELSE at
           cut == [v EXCEPT !.active = FALSE, !.to = to]
<1>2. /\ v \in CostRow /\ v.from \in Nat /\ v.to \in Nat /\ at \in Nat /\ v.from < v.to
      /\ v.by \in Changes
  BY CostNumbers DEF CostInv, CostTypes, CostRow, GoodRows
<1>3. to \in Nat /\ v.from < to
  BY <1>1, <1>2
<1> HIDE DEF to
<1>4. /\ cut \in CostRow /\ cut.by = v.by /\ cut.from = v.from /\ cut.known = v.known
      /\ ~cut.active /\ cut.to = to
  BY <1>2, <1>3 DEF CostRow
<1> HIDE DEF cut
<1>5. costs' = (costs \ {v}) \cup {cut}
  BY <1>1 DEF cut, to
<1>6. manual' = TRUE /\ UNCHANGED <<clock, price, change, stale>>
  BY DEF Costs!Revoke
<1>7. Costs!OpenVersions' = Costs!OpenVersions \ {v}
  BY <1>4, <1>5 DEF Costs!OpenVersions
<1>8. Costs!Makers' = Costs!Makers
  BY <1>4, <1>5 DEF Costs!Makers
<1>9. CostTypes'
  BY <1>4, <1>5, <1>6 DEF CostInv, CostTypes
<1>10. ASSUME NEW d \in Changes
       PROVE  GoodCall(d)' /\ (Costs!HoldsProduct(d)' <=> Costs!HoldsProduct(d))
  <2>1. GoodCall(d) /\ change' = change
    BY <1>6 DEF CostInv
  <2>2. Costs!HoldsProduct(d)' <=> Costs!HoldsProduct(d)
    BY <2>1 DEF Costs!HoldsProduct
  <2>3. change[d].ended \subseteq Costs!OpenVersions'
    BY <1>7, <2>1 DEF GoodCall
  <2> QED BY <1>6, <1>7, <1>8, <2>1, <2>2, <2>3 DEF GoodCall
<1>11. CallsApart'
  BY <1>6, <1>10 DEF CostInv, CallsApart
<1>12. GoodRows'
  BY <1>3, <1>4, <1>5, <1>6, <1>8 DEF CostInv, GoodRows
<1>13. Costs!LaterEndsEarlier'
  BY <1>7 DEF CostInv, Costs!LaterEndsEarlier
<1> QED BY <1>9, <1>10, <1>11, <1>12, <1>13 DEF CostInv

\* The clock ticks, and what has started has.
LEMMA TickStep ==
  ASSUME CostInv, Costs!Tick
  PROVE  CostInv'
<1>1. /\ clock \in Nat /\ clock' = clock + 1 /\ clock' \in 0..MaxClock
      /\ UNCHANGED <<price, costs, change, stale, manual>>
  BY CostNumbers DEF Costs!Tick, CostInv, CostTypes
<1>2. CostTypes'
  BY <1>1 DEF CostInv, CostTypes
<1>3. Costs!OpenVersions' = Costs!OpenVersions /\ Costs!Makers' = Costs!Makers
  BY <1>1 DEF Costs!OpenVersions, Costs!Makers
<1>4. ASSUME NEW d \in Changes
      PROVE  GoodCall(d)' /\ (Costs!HoldsProduct(d)' <=> Costs!HoldsProduct(d))
  <2>1. GoodCall(d) /\ change' = change /\ change[d].from \in Nat
    BY <1>1, CostNumbers DEF CostInv, CostTypes, ChangeRow
  <2>2. Costs!HoldsProduct(d)' <=> Costs!HoldsProduct(d)
    BY <2>1 DEF Costs!HoldsProduct
  <2>3. change[d].from <= clock => change[d].from <= clock'
    BY <1>1, <2>1
  <2> QED BY <1>1, <1>3, <2>1, <2>2, <2>3 DEF GoodCall
<1>5. CallsApart'
  BY <1>1, <1>4 DEF CostInv, CallsApart
<1>6. GoodRows'
  <2>1. \A v \in costs : /\ v.from <= clock => v.from <= clock'
                         /\ v.to <= clock => v.to <= clock'
    <3>1. \A v \in costs : v.from \in Nat /\ v.to \in Nat
      BY CostNumbers DEF CostInv, CostTypes, CostRow
    <3> QED BY <1>1, <3>1
  <2> QED BY <1>1, <1>3, <2>1 DEF CostInv, GoodRows
<1>7. Costs!LaterEndsEarlier'
  BY <1>3 DEF CostInv, Costs!LaterEndsEarlier
<1> QED BY <1>2, <1>4, <1>5, <1>6, <1>7 DEF CostInv

LEMMA CostInvStep == CostInv /\ [Costs!Next]_costVars => CostInv'
<1>1. ASSUME CostInv, UNCHANGED costVars PROVE CostInv'
  <2>1. UNCHANGED <<clock, price, costs, change, stale, manual>>
    BY <1>1 DEF costVars
  <2>2. Costs!OpenVersions' = Costs!OpenVersions /\ Costs!Makers' = Costs!Makers
    BY <2>1 DEF Costs!OpenVersions, Costs!Makers
  <2>3. CostTypes'
    BY <1>1, <2>1 DEF CostInv, CostTypes
  <2>4. ASSUME NEW d \in Changes
        PROVE  GoodCall(d)' /\ (Costs!HoldsProduct(d)' <=> Costs!HoldsProduct(d))
    BY <1>1, <2>1, <2>2 DEF CostInv, GoodCall, Costs!HoldsProduct
  <2>5. CallsApart'
    BY <1>1, <2>1, <2>4 DEF CostInv, CallsApart
  <2>6. GoodRows'
    BY <1>1, <2>1, <2>2 DEF CostInv, GoodRows
  <2>7. Costs!LaterEndsEarlier'
    BY <1>1, <2>2 DEF CostInv, Costs!LaterEndsEarlier
  <2> QED BY <2>3, <2>4, <2>5, <2>6, <2>7 DEF CostInv
<1>2. ASSUME CostInv, NEW c \in Changes, Costs!Abort(c) PROVE CostInv'
  BY <1>2, AbortCostStep DEF Costs!Abort, CostInv, CostTypes
<1> QED
  BY <1>1, <1>2, BeginCostStep, UpdateProductStep, SeeStep, EndVersionsStep, InsertStep, RevokeStep,
     TickStep DEF Costs!Next

LEMMA CostFocus == MasterSpec => [](focus = "costs" => CostInv)
<1>1. MasterInit => (focus = "costs" => CostInv)
  BY CostInvInit DEF MasterInit
<1>2. (focus = "costs" => CostInv) /\ [MasterNext]_allVars => (focus = "costs" => CostInv)'
  BY CostInvStep, FocusStep
<1> QED BY <1>1, <1>2, PTL DEF MasterSpec, allVars

LEMMA PriceIsInForce == CostInv => Costs!PriceInForce
<1> SUFFICES ASSUME CostInv, ~manual, ~stale, costs # {}
             PROVE  {v.cost : v \in Costs!InForce} = {price}
  BY DEF Costs!PriceInForce
<1>1. PICK u \in Costs!OpenVersions : u.cost = price
  BY DEF CostInv, GoodRows
<1>2. u \in costs /\ u.active /\ u.to = Costs!Never /\ u.from <= clock /\ clock \in 0..MaxClock
  BY DEF CostInv, GoodRows, CostTypes, Costs!OpenVersions
<1>3. u \in Costs!InForce
  BY <1>2, CostNumbers DEF Costs!InForce
<1>4. ASSUME NEW v \in Costs!InForce PROVE v = u
  <2>1. v \in costs /\ v.active /\ clock < v.to /\ (v.to = Costs!Never \/ v.to <= clock) /\ v.to \in Nat
    BY DEF CostInv, GoodRows, CostTypes, CostRow, Costs!InForce
  <2>2. v.to = Costs!Never
    BY <1>2, <2>1, CostNumbers
  <2> QED BY <2>1, <2>2 DEF CostInv, GoodRows, Costs!OpenVersions
<1> QED BY <1>1, <1>3, <1>4

\* Whatever calls overlap: an open version ends every earlier one its call knew of,
\* and by PUT alone the price is the cost in force (amazon-service.ts).
THEOREM CostsAreKept == MasterSpec => []CostsKept
<1>1. (focus = "costs" => CostInv) => CostsKept
  BY PriceIsInForce DEF CostsKept, CostInv
<1> QED BY <1>1, CostFocus, PTL
-----------------------------------------------------------------------------
(* The exchange rates: the calendar *)

LEMMA DivMod ==
  ASSUME NEW n \in Nat, NEW m \in Nat \ {0}
  PROVE  n \div m \in Nat /\ n % m \in 0..(m - 1) /\ n = (m * (n \div m)) + (n % m)
OBVIOUS

LEMMA DivModIs ==
  ASSUME NEW n \in Nat, NEW m \in Nat \ {0}, NEW q \in Nat, NEW r \in 0..(m - 1), n = (m * q) + r
  PROVE  n \div m = q /\ n % m = r
<1> DEFINE p == n \div m
           s == n % m
<1>1. p \in Nat /\ s \in 0..(m - 1) /\ (m * q) + r = (m * p) + s
  BY DivMod
<1> HIDE DEF p, s
<1>2. ASSUME NEW a \in Nat, NEW b \in Nat, a < b PROVE (m * a) + m <= m * b
  <2>1. m * (a + 1) <= m * b
    BY <1>2
  <2>2. m * (a + 1) = (m * a) + m /\ m * a \in Nat /\ m * b \in Nat
    OBVIOUS
  <2> QED BY <2>1, <2>2
<1>3. m * q \in Nat /\ m * p \in Nat
  BY <1>1
<1>4. ~(q < p) /\ ~(p < q)
  BY <1>1, <1>2, <1>3
<1>5. q = p
  BY <1>1, <1>4
<1> QED BY <1>1, <1>3, <1>5 DEF p, s

LEMMA RateNumbers ==
  /\ Months \in Nat \ {0} /\ Length \in Nat \ {0} /\ Length > 1 /\ MaxDay \in Nat
  /\ Rates!Second = 1
BY MasterAssumption DEF Rates!Second

\* The day after is a second when the day is the first of a month.
LEMMA FirstOfMonth ==
  ASSUME NEW d \in Nat
  PROVE  /\ Rates!DayOfMonth(d) \in 0..(Length - 1)
         /\ Rates!DayOfMonth(d + 1) = Rates!Second => Rates!DayOfMonth(d) = 0
<1> DEFINE q == d \div Length
           r == d % Length
<1>1. q \in Nat /\ r \in 0..(Length - 1) /\ d = (Length * q) + r
  BY DivMod, RateNumbers
<1>2. Length * q \in Nat /\ d + 1 \in Nat
  BY <1>1, RateNumbers
<1> HIDE DEF q, r
<1>3. CASE r = Length - 1
  <2>1. d + 1 = (Length * (q + 1)) + 0
    <3>1. Length * (q + 1) = (Length * q) + Length
      BY <1>1, RateNumbers
    <3> QED BY <1>1, <1>2, <1>3, <3>1, RateNumbers
  <2>2. (d + 1) % Length = 0
    BY <1>1, <1>2, <2>1, DivModIs, RateNumbers
  <2> QED BY <1>1, <2>2, RateNumbers DEF Rates!DayOfMonth, r
<1>4. CASE r # Length - 1
  <2>1. d + 1 = (Length * q) + (r + 1) /\ r + 1 \in 0..(Length - 1)
    BY <1>1, <1>2, <1>4, RateNumbers
  <2>2. (d + 1) % Length = r + 1
    BY <1>1, <1>2, <2>1, DivModIs, RateNumbers
  <2> QED BY <1>1, <2>2, RateNumbers DEF Rates!DayOfMonth, r
<1> QED BY <1>3, <1>4

\* However it is set, the timer fires the next day, and runs when that is a second.
LEMMA NextAlarm ==
  ASSUME NEW d \in Nat
  PROVE  /\ Rates!Schedule(d) \in [how : {"again", "run"}, at : Nat]
         /\ Rates!Schedule(d).at = d + 1
         /\ Rates!DayOfMonth(d + 1) = Rates!Second => Rates!Schedule(d).how = "run"
         /\ Rates!NextRun(d) = d + 1
<1> DEFINE r == Rates!DayOfMonth(d)
           next == Rates!NextSecond(d)
<1>1. r \in 0..(Length - 1) /\ (Rates!DayOfMonth(d + 1) = Rates!Second => r = 0)
  BY FirstOfMonth
<1>2. next = IF d - r + 1 > d THEN d - r + 1 ELSE d - r + 1 + Length
  BY RateNumbers DEF Rates!NextSecond
<1> HIDE DEF r, next
<1>3. next \in Nat /\ next >= d + 1 /\ (r = 0 => next = d + 1)
  BY <1>1, <1>2, RateNumbers
<1>4. Rates!Schedule(d) = IF next - d > 1 THEN [how |-> "again", at |-> d + 1]
                          ELSE [how |-> "run", at |-> next]
  BY DEF Rates!Schedule, next
<1>5. Rates!NextRun(d) = IF next < d + 1 THEN next ELSE d + 1
  BY DEF Rates!NextRun, Rates!Sooner, next
<1>6. CASE next - d > 1
  <2>1. Rates!Schedule(d) = [how |-> "again", at |-> d + 1]
    BY <1>4, <1>6
  <2> QED BY <1>1, <1>3, <1>5, <1>6, <2>1
<1>7. CASE ~(next - d > 1)
  <2>1. Rates!Schedule(d) = [how |-> "run", at |-> next] /\ next = d + 1
    BY <1>3, <1>4, <1>7
  <2> QED BY <1>3, <1>5, <2>1
<1> QED BY <1>6, <1>7

\* The day on which the average of the month of a day is due
Due(d) == d - Rates!DayOfMonth(d) + Length + Rates!Second

LEMMA DueDay ==
  ASSUME NEW d \in Nat
  PROVE  /\ Due(d) \in Nat /\ Due(d) > d + 1
         /\ Rates!DayOfMonth(Due(d)) = Rates!Second
         /\ Rates!PreviousMonth(Due(d)) = [year |-> Rates!Year(d), month |-> Rates!Month(d)]
         /\ Rates!Month(d) \in 0..(Months - 1)
<1> DEFINE q == d \div Length
           r == d % Length
           t == Due(d)
           y == q \div Months
           m == q % Months
<1>1. q \in Nat /\ r \in 0..(Length - 1) /\ d = (Length * q) + r
  BY DivMod, RateNumbers
<1>2. Rates!DayOfMonth(d) = r /\ Rates!Year(d) = y /\ Rates!Month(d) = m
  BY DEF Rates!DayOfMonth, Rates!Year, Rates!Month
<1>3. y \in Nat /\ m \in 0..(Months - 1) /\ q = (Months * y) + m
  BY <1>1, DivMod, RateNumbers
<1> HIDE DEF q, r, y, m
<1>4. Length * q \in Nat /\ Length * (q + 1) = (Length * q) + Length
  BY <1>1, RateNumbers
<1>5. t = (Length * (q + 1)) + 1 /\ t \in Nat /\ t > d + 1
  BY <1>1, <1>2, <1>4, RateNumbers DEF Due
<1> HIDE DEF t
<1>6. t \div Length = q + 1 /\ t % Length = 1
  <2>1. q + 1 \in Nat /\ 1 \in 0..(Length - 1)
    BY <1>1, RateNumbers
  <2> QED BY <1>5, <2>1, DivModIs, RateNumbers
<1>7. Rates!Month(t) = (q + 1) % Months /\ Rates!Year(t) = (q + 1) \div Months
  BY <1>6 DEF Rates!Month, Rates!Year
<1>8. Months * y \in Nat /\ Months * (y + 1) = (Months * y) + Months /\ q + 1 \in Nat /\ y + 1 \in Nat
  BY <1>1, <1>3, RateNumbers
<1>9. Rates!PreviousMonth(t) = [year |-> y, month |-> m]
  <2>1. CASE m = Months - 1
    <3>1. q + 1 = (Months * (y + 1)) + 0 /\ 0 \in 0..(Months - 1)
      BY <1>3, <1>8, <2>1, RateNumbers
    <3>2. (q + 1) % Months = 0 /\ (q + 1) \div Months = y + 1
      BY <1>8, <3>1, DivModIs, RateNumbers
    <3> QED BY <1>3, <1>7, <2>1, <3>2 DEF Rates!PreviousMonth
  <2>2. CASE m # Months - 1
    <3>1. q + 1 = (Months * y) + (m + 1) /\ m + 1 \in 0..(Months - 1)
      BY <1>3, <1>8, <2>2, RateNumbers
    <3>2. (q + 1) % Months = m + 1 /\ (q + 1) \div Months = y
      BY <1>3, <1>8, <3>1, DivModIs, RateNumbers
    <3> QED BY <1>3, <1>7, <3>2, RateNumbers DEF Rates!PreviousMonth
  <2> QED BY <2>1, <2>2
<1>10. Rates!DayOfMonth(t) = Rates!Second
  BY <1>6, RateNumbers DEF Rates!DayOfMonth
<1> QED BY <1>2, <1>3, <1>5, <1>9, <1>10 DEF t

LEMMA MonthBefore ==
  ASSUME NEW d \in Nat
  PROVE  Rates!PreviousMonth(d).month \in 0..(Months - 1)
<1> DEFINE q == d \div Length
           m == q % Months
<1>1. q \in Nat
  BY DivMod, RateNumbers
<1>2. m \in 0..(Months - 1)
  BY <1>1, DivMod, RateNumbers
<1>3. Rates!Month(d) = m
  BY DEF Rates!Month
<1> HIDE DEF m, q
<1> QED BY <1>2, <1>3, RateNumbers DEF Rates!PreviousMonth
-----------------------------------------------------------------------------
(* The exchange rates: the averages *)

RateTypes ==
  /\ today \in 0..MaxDay /\ up \in BOOLEAN
  /\ snapshots \subseteq 0..today /\ absent \subseteq 0..today
  /\ \A a \in averages : a.month \in 0..(Months - 1) /\ a.days # {}

\* While the process runs, its timer fires today or tomorrow, and runs if that is
\* a second.
Armed ==
  up => /\ monthly.at \in {today, today + 1}
        /\ Rates!DayOfMonth(monthly.at) = Rates!Second => monthly.how = "run"

\* The month of a day has its average, and the day is in it.
Averaged(d) ==
  \E a \in averages : a.year = Rates!Year(d) /\ a.month = Rates!Month(d) /\ d \in a.days

\* A month whose average is due today has it once the timer has fired.
Fired ==
  up /\ today \notin absent /\ monthly.at # today =>
    \A d \in snapshots : Due(d) = today => Averaged(d)

\* What AveragedAfterSecond says
Late == \A d \in snapshots : Due(d) + 1 = today /\ Due(d) \notin absent => Averaged(d)

RateInv == RateTypes /\ Armed /\ Fired /\ Late

LEMMA RateInvInit == Rates!Init => RateInv
<1> SUFFICES ASSUME Rates!Init PROVE RateInv
  OBVIOUS
<1>1. today = 0 /\ up = TRUE /\ monthly = Rates!Schedule(0) /\ snapshots = {} /\ averages = {}
      /\ absent = {}
  BY DEF Rates!Init
<1>2. /\ Rates!Schedule(0).at = 0 + 1
      /\ Rates!DayOfMonth(0 + 1) = Rates!Second => Rates!Schedule(0).how = "run"
  BY NextAlarm
<1>3. RateTypes
  <2>1. 0 \in 0..MaxDay
    BY RateNumbers
  <2> QED BY <1>1, <2>1 DEF RateTypes
<1>4. Armed
  <2>1. monthly.at = 0 + 1
    BY <1>1, <1>2
  <2> QED BY <1>1, <1>2, <2>1 DEF Armed
<1> QED BY <1>1, <1>3, <1>4 DEF RateInv, Fired, Late

\* A snapshot of today or of an earlier day: no average of it is due before the
\* second day from now.
LEMMA SnapshotStep ==
  ASSUME RateInv, NEW days, days \subseteq snapshots \cup {today}, snapshots' = days,
         UNCHANGED <<today, up, monthly, averages, absent>>
  PROVE  RateInv'
<1>1. today \in Nat /\ Due(today) > today + 1
  <2>1. today \in Nat
    BY RateNumbers DEF RateInv, RateTypes
  <2> QED BY <2>1, DueDay
<1>2. RateTypes'
  <2>1. today \in 0..today
    BY <1>1
  <2> QED BY <2>1 DEF RateInv, RateTypes
<1>3. Armed'
  BY DEF RateInv, Armed
<1>4. \A d : Averaged(d)' = Averaged(d)
  BY DEF Averaged
<1>5. Due(today) # today /\ Due(today) + 1 # today
  <2>1. Due(today) \in Nat
    BY <1>1, DueDay
  <2> QED BY <1>1, <2>1
<1>6. Fired' /\ Late'
  <2>1. ASSUME NEW d \in snapshots', Due(d) = today \/ Due(d) + 1 = today PROVE d \in snapshots
    BY <1>5, <2>1
  <2> QED BY <1>4, <2>1 DEF RateInv, Fired, Late
<1> QED BY <1>2, <1>3, <1>6 DEF RateInv

\* calculateMonthlyAvg keeps every average there is with the days that have a
\* snapshot, and makes that of a month which has one.
LEMMA AveragesStep ==
  ASSUME RateInv, Rates!MonthlyRun
  PROVE  /\ \A d \in snapshots : Averaged(d) => Averaged(d)'
         /\ \A d \in snapshots : Due(d) = today => Averaged(d)'
         /\ \A a \in averages' : a.month \in 0..(Months - 1) /\ a.days # {}
<1> DEFINE p == Rates!PreviousMonth(today)
           days == snapshots \cap Rates!DaysOf(p.year, p.month)
           new == [year |-> p.year, month |-> p.month, days |-> days]
<1>1. averages' = IF days = {} THEN averages
                  ELSE {a \in averages : <<a.year, a.month>> # <<p.year, p.month>>} \cup {new}
  BY DEF Rates!MonthlyRun, Rates!Average
<1>2. today \in Nat /\ today \in 0..MaxDay
  BY RateNumbers DEF RateInv, RateTypes
<1>3. p.month \in 0..(Months - 1)
  BY <1>2, MonthBefore
<1>4. new.year = p.year /\ new.month = p.month /\ new.days = days
  OBVIOUS
<1>5. ASSUME NEW d \in snapshots, Due(d) = today
      PROVE  d \in days /\ p.year = Rates!Year(d) /\ p.month = Rates!Month(d)
  <2>1. d \in Nat /\ d \in 0..MaxDay
    <3>1. d \in 0..today
      BY DEF RateInv, RateTypes
    <3> QED BY <1>2, <3>1, RateNumbers
  <2>2. p = [year |-> Rates!Year(d), month |-> Rates!Month(d)]
    BY <1>5, <2>1, DueDay
  <2>3. p.year = Rates!Year(d) /\ p.month = Rates!Month(d)
    BY <2>2
  <2> QED BY <2>1, <2>3 DEF Rates!DaysOf
<1> HIDE DEF p, new, days
<1>6. ASSUME NEW d \in snapshots, Averaged(d) PROVE Averaged(d)'
  <2>1. PICK a \in averages : a.year = Rates!Year(d) /\ a.month = Rates!Month(d) /\ d \in a.days
    BY <1>6 DEF Averaged
  <2>2. CASE days = {} \/ <<a.year, a.month>> # <<p.year, p.month>>
    <3>1. a \in averages'
      BY <1>1, <2>2
    <3> QED BY <2>1, <3>1 DEF Averaged
  <2>3. CASE days # {} /\ <<a.year, a.month>> = <<p.year, p.month>>
    <3>1. new \in averages'
      BY <1>1, <2>3
    <3>2. new.year = a.year /\ new.month = a.month
      BY <1>4, <2>3
    <3>3. d \in Rates!DaysOf(p.year, p.month)
      <4>1. d \in 0..MaxDay
        BY <1>2, RateNumbers DEF RateInv, RateTypes
      <4> QED BY <2>1, <2>3, <4>1 DEF Rates!DaysOf
    <3>4. d \in new.days
      BY <1>4, <3>3 DEF days
    <3> QED BY <2>1, <3>1, <3>2, <3>4 DEF Averaged
  <2> QED BY <2>2, <2>3
<1>7. ASSUME NEW d \in snapshots, Due(d) = today PROVE Averaged(d)'
  <2>1. days # {} /\ new.year = Rates!Year(d) /\ new.month = Rates!Month(d) /\ d \in new.days
    BY <1>4, <1>5, <1>7
  <2>2. new \in averages'
    BY <1>1, <2>1
  <2> QED BY <2>1, <2>2 DEF Averaged
<1>8. ASSUME NEW a \in averages' PROVE a.month \in 0..(Months - 1) /\ a.days # {}
  <2>1. a \in averages \/ (days # {} /\ a = new)
    BY <1>1, <1>8
  <2> QED BY <1>3, <1>4, <2>1 DEF RateInv, RateTypes
<1> QED BY <1>6, <1>7, <1>8

LEMMA MonthlyStep ==
  ASSUME RateInv, Rates!MonthlyRun \/ Rates!MonthlyAgain
  PROVE  RateInv'
<1>1. /\ up /\ monthly.at = today
      /\ UNCHANGED <<today, up, snapshots, absent>>
  BY DEF Rates!MonthlyRun, Rates!MonthlyAgain
<1>2. today \in Nat
  BY RateNumbers DEF RateInv, RateTypes
<1>3. /\ monthly'.at = today + 1
      /\ Rates!DayOfMonth(today + 1) = Rates!Second => monthly'.how = "run"
  BY <1>2, NextAlarm DEF Rates!MonthlyRun, Rates!MonthlyAgain
<1>4. Armed'
  BY <1>1, <1>3 DEF Armed
<1>5. CASE Rates!MonthlyRun
  <2>1. RateTypes'
    BY <1>1, <1>5, AveragesStep DEF RateInv, RateTypes
  <2>2. Fired' /\ Late'
    BY <1>1, <1>5, AveragesStep DEF RateInv, Fired, Late
  <2> QED BY <1>4, <2>1, <2>2 DEF RateInv
<1>6. CASE Rates!MonthlyAgain
  <2>1. averages' = averages /\ monthly.how = "again"
    BY <1>6 DEF Rates!MonthlyAgain
  <2>2. Rates!DayOfMonth(today) # Rates!Second
    BY <1>1, <2>1 DEF RateInv, Armed
  <2>3. \A d : Averaged(d)' = Averaged(d)
    BY <2>1 DEF Averaged
  <2>4. RateTypes' /\ Late'
    BY <1>1, <2>1, <2>3 DEF RateInv, RateTypes, Late
  <2>5. ASSUME NEW d \in snapshots PROVE Due(d) # today
    <3>1. d \in Nat
      <4>1. d \in 0..today
        BY DEF RateInv, RateTypes
      <4> QED BY <1>2, <4>1
    <3> QED BY <2>2, <3>1, DueDay
  <2>6. Fired'
    BY <1>1, <2>5 DEF Fired
  <2> QED BY <1>4, <2>4, <2>6 DEF RateInv
<1> QED BY <1>5, <1>6

\* The run fails, or the process stops or starts: the day is one of absence.
LEMMA AbsentStep ==
  ASSUME RateInv, Rates!MonthlyFails \/ Rates!Stop \/ Rates!Start
  PROVE  RateInv'
<1>1. /\ absent' = absent \cup {today}
      /\ UNCHANGED <<today, snapshots, averages>>
  BY DEF Rates!MonthlyFails, Rates!Stop, Rates!Start
<1>2. today \in Nat
  BY RateNumbers DEF RateInv, RateTypes
<1>3. up' \in BOOLEAN
  BY DEF RateInv, RateTypes, Rates!MonthlyFails, Rates!Stop, Rates!Start
<1>4. RateTypes'
  <2>1. today \in 0..today
    BY <1>2
  <2> QED BY <1>1, <1>3, <2>1 DEF RateInv, RateTypes
<1>5. Armed'
  <2>1. CASE Rates!Stop
    BY <2>1 DEF Rates!Stop, Armed
  <2>2. CASE Rates!Start
    <3>1. monthly' = Rates!Schedule(today)
      BY <2>2 DEF Rates!Start
    <3>2. /\ Rates!Schedule(today).at = today + 1
          /\ Rates!DayOfMonth(today + 1) = Rates!Second => Rates!Schedule(today).how = "run"
      BY <1>2, NextAlarm
    <3> QED BY <1>1, <3>1, <3>2 DEF Armed
  <2>3. CASE Rates!MonthlyFails
    <3>1. monthly' = [how |-> "run", at |-> today + 1]
      BY <1>2, <2>3, NextAlarm DEF Rates!MonthlyFails
    <3> QED BY <1>1, <3>1 DEF Armed
  <2> QED BY <2>1, <2>2, <2>3
<1>6. Fired'
  BY <1>1 DEF Fired
<1>7. Late'
  <2>1. \A d : Averaged(d)' = Averaged(d)
    BY <1>1 DEF Averaged
  <2> QED BY <1>1, <2>1 DEF RateInv, Late
<1> QED BY <1>4, <1>5, <1>6, <1>7 DEF RateInv

LEMMA MidnightStep ==
  ASSUME RateInv, Rates!Midnight
  PROVE  RateInv'
<1>1. /\ today < MaxDay /\ ~(up /\ monthly.at = today)
      /\ today' = today + 1
      /\ absent' = {d \in absent \cup (IF up THEN {} ELSE {today}) : d + Length >= today}
      /\ UNCHANGED <<up, monthly, snapshots, averages>>
  BY DEF Rates!Midnight
<1>2. today \in Nat /\ MaxDay \in Nat /\ Length \in Nat
  BY RateNumbers DEF RateInv, RateTypes
<1>3. today + 1 \in 0..MaxDay /\ today \in 0..today + 1 /\ \A d \in 0..today : d \in 0..today + 1
  BY <1>1, <1>2
<1>4. RateTypes'
  <2>1. absent' \subseteq absent \cup {today}
    BY <1>1
  <2> QED BY <1>1, <1>3, <2>1 DEF RateInv, RateTypes
<1>5. up => monthly.at = today + 1
  BY <1>1 DEF RateInv, Armed
<1>6. Armed'
  BY <1>1, <1>5 DEF RateInv, Armed
<1>7. Fired'
  BY <1>1, <1>5 DEF Fired
<1>8. \A d : Averaged(d)' = Averaged(d)
  BY <1>1 DEF Averaged
<1>9. Late'
  <2> SUFFICES ASSUME NEW d \in snapshots, Due(d) + 1 = today + 1, Due(d) \notin absent'
               PROVE  Averaged(d)
    BY <1>1, <1>8 DEF Late
  <2>1. d \in Nat
    BY <1>2 DEF RateInv, RateTypes
  <2>2. Due(d) = today
    <3>1. Due(d) \in Nat
      BY <2>1, DueDay
    <3> QED BY <1>2, <3>1
  <2>3. today + Length >= today
    BY <1>2
  <2>4. today \notin absent /\ up
    BY <1>1, <2>2, <2>3
  <2>5. monthly.at # today
    BY <1>1, <2>4
  <2> QED BY <2>2, <2>4, <2>5 DEF RateInv, Fired
<1> QED BY <1>4, <1>6, <1>7, <1>9 DEF RateInv

LEMMA RateInvStep == RateInv /\ [Rates!Next]_rateVars => RateInv'
<1> SUFFICES ASSUME RateInv, [Rates!Next]_rateVars PROVE RateInv'
  OBVIOUS
<1>1. CASE Rates!Sync
  <2>1. snapshots' \subseteq snapshots \cup {today}
    BY <1>1 DEF Rates!Sync, Rates!Kept
  <2>2. UNCHANGED <<today, up, monthly, averages, absent>>
    BY <1>1 DEF Rates!Sync
  <2> QED BY <2>1, <2>2, SnapshotStep
<1>2. CASE Rates!SyncByHand
  <2>1. snapshots' \subseteq snapshots \cup {today}
    BY <1>2 DEF Rates!SyncByHand
  <2>2. UNCHANGED <<today, up, monthly, averages, absent>>
    BY <1>2 DEF Rates!SyncByHand
  <2> QED BY <2>1, <2>2, SnapshotStep
<1>3. CASE Rates!SyncFails \/ UNCHANGED rateVars
  <2>1. snapshots' \subseteq snapshots \cup {today}
    BY <1>3 DEF Rates!SyncFails, rateVars
  <2>2. UNCHANGED <<today, up, monthly, averages, absent>>
    BY <1>3 DEF Rates!SyncFails, rateVars
  <2> QED BY <2>1, <2>2, SnapshotStep
<1> QED BY <1>1, <1>2, <1>3, MonthlyStep, AbsentStep, MidnightStep DEF Rates!Next

LEMMA RateFocus == MasterSpec => [](focus = "rates" => RateInv)
<1>1. MasterInit => (focus = "rates" => RateInv)
  BY RateInvInit DEF MasterInit
<1>2. (focus = "rates" => RateInv) /\ [MasterNext]_allVars => (focus = "rates" => RateInv)'
  BY RateInvStep, FocusStep
<1> QED BY <1>1, <1>2, PTL DEF MasterSpec, allVars

\* A month with a snapshot has its average once the second of the next month is
\* over, and no snapshot of it that is still kept is missing from that average, for
\* every calendar, if the process ran through that day (exchange-rate-routes.ts).
THEOREM MonthsAreAveraged == MasterSpec => []AveragedAfterSecond
<1>1. (focus = "rates" => RateInv) => AveragedAfterSecond
  BY DEF AveragedAfterSecond, Rates!AveragedAfterSecond, RateInv, Late, Averaged, Due
<1> QED BY <1>1, RateFocus, PTL
-----------------------------------------------------------------------------
(* The tree of categories: paths *)

\* What is below a path is below all that the path is below.
LEMMA PathBelow ==
  ASSUME NEW S, NEW f \in Seq(S), NEW p \in Seq(S), NEW n \in S,
         p = f \/ Categories!IsStrictPrefix(f, p)
  PROVE  Categories!IsStrictPrefix(f, Append(p, n)) /\ Len(f) <= Len(p)
<1> DEFINE t == Append(p, n)
<1>1. /\ Len(f) \in Nat /\ Len(p) \in Nat /\ t \in Seq(S) /\ Len(t) = Len(p) + 1
      /\ \A i \in 1..Len(p) : t[i] = p[i]
  BY AppendProperties, LenProperties
<1>2. Len(f) <= Len(p) /\ SubSeq(f, 1, Len(f)) = SubSeq(p, 1, Len(f))
  BY <1>1 DEF Categories!IsStrictPrefix, Categories!IsPrefix
<1> HIDE DEF t
<1>3. /\ \A i \in 1..Len(f) : p[i] \in S /\ t[i] \in S
      /\ \A i \in 1..Len(f) : p[i] = t[i]
  BY <1>1, <1>2, ElementOfSeq
<1>4. SubSeq(p, 1, Len(f)) = SubSeq(t, 1, Len(f))
  <2> DEFINE u == SubSeq(p, 1, Len(f))
             v == SubSeq(t, 1, Len(f))
  <2>1. /\ u \in Seq(S) /\ Len(u) = IF 1 <= Len(f) THEN Len(f) - 1 + 1 ELSE 0
        /\ \A i \in 1..(Len(f) - 1 + 1) : u[i] = p[1 + i - 1]
    BY <1>1, <1>3, SubSeqProperties
  <2>2. /\ v \in Seq(S) /\ Len(v) = IF 1 <= Len(f) THEN Len(f) - 1 + 1 ELSE 0
        /\ \A i \in 1..(Len(f) - 1 + 1) : v[i] = t[1 + i - 1]
    BY <1>1, <1>3, SubSeqProperties
  <2> HIDE DEF u, v
  <2>3. Len(u) = Len(f) /\ Len(v) = Len(f) /\ \A i \in 1..Len(f) : u[i] = p[i] /\ v[i] = t[i]
    BY <1>1, <2>1, <2>2
  <2>4. u = v
    BY <1>3, <2>1, <2>2, <2>3, SeqEqual
  <2> QED BY <2>4 DEF u, v
<1>5. Len(f) # Len(t)
  BY <1>1, <1>2
<1>6. Categories!IsStrictPrefix(f, t)
  BY <1>1, <1>2, <1>4, <1>5 DEF Categories!IsStrictPrefix, Categories!IsPrefix
<1> QED BY <1>2, <1>6 DEF t

\* A path that another one begins is the shorter one.
LEMMA PathShorter ==
  ASSUME NEW S, NEW f \in Seq(S), NEW p \in Seq(S), Categories!IsStrictPrefix(f, p)
  PROVE  Len(f) < Len(p)
<1>1. Len(f) \in Nat /\ Len(p) \in Nat /\ Len(f) <= Len(p)
  BY LenProperties DEF Categories!IsStrictPrefix, Categories!IsPrefix
<1>2. ASSUME Len(f) = Len(p) PROVE f = p
  <2>1. SubSeq(f, 1, Len(f)) = f /\ SubSeq(p, 1, Len(p)) = p
    BY SubSeqFull
  <2> QED BY <1>2, <2>1 DEF Categories!IsStrictPrefix, Categories!IsPrefix
<1> QED BY <1>1, <1>2 DEF Categories!IsStrictPrefix

\* A path that takes another beginning
Shifted(q, p, k) == q \o SubSeq(p, k + 1, Len(p))

LEMMA PathMoved ==
  ASSUME NEW S, NEW q \in Seq(S), NEW p \in Seq(S), NEW k \in 0..Len(p)
  PROVE  Shifted(q, p, k) \in Seq(S) /\ Len(Shifted(q, p, k)) = Len(q) + (Len(p) - k)
<1> DEFINE u == SubSeq(p, k + 1, Len(p))
<1>1. Len(p) \in Nat /\ Len(q) \in Nat /\ k \in Nat /\ k <= Len(p)
  BY LenProperties
<1>2. \A i \in (k + 1)..Len(p) : p[i] \in S
  BY <1>1, ElementOfSeq
<1>3. u \in Seq(S) /\ Len(u) = IF k + 1 <= Len(p) THEN Len(p) - (k + 1) + 1 ELSE 0
  BY <1>1, <1>2, SubSeqProperties
<1> HIDE DEF u
<1>4. Len(u) = Len(p) - k
  BY <1>1, <1>3
<1>5. q \o u \in Seq(S) /\ Len(q \o u) = Len(q) + Len(u)
  BY <1>3, ConcatProperties
<1> QED BY <1>4, <1>5 DEF u, Shifted

LEMMA PathMovedOn ==
  ASSUME NEW S, NEW q \in Seq(S), NEW p \in Seq(S), NEW n \in S, NEW k \in 0..Len(p)
  PROVE  Shifted(q, Append(p, n), k) = Append(Shifted(q, p, k), n)
<1> DEFINE t == Append(p, n)
           u == SubSeq(p, k + 1, Len(p))
           v == SubSeq(t, k + 1, Len(t))
<1>1. /\ Len(p) \in Nat /\ k \in Nat /\ k <= Len(p)
      /\ t \in Seq(S) /\ Len(t) = Len(p) + 1
      /\ \A i \in 1..Len(p) : t[i] = p[i]
      /\ t[Len(p) + 1] = n
  BY AppendProperties, LenProperties
<1> HIDE DEF t
<1>2. (\A i \in (k + 1)..Len(p) : p[i] \in S) /\ (\A i \in (k + 1)..Len(t) : t[i] \in S)
  BY <1>1, ElementOfSeq
<1>3. /\ u \in Seq(S) /\ Len(u) = IF k + 1 <= Len(p) THEN Len(p) - (k + 1) + 1 ELSE 0
      /\ \A i \in 1..(Len(p) - (k + 1) + 1) : u[i] = p[(k + 1) + i - 1]
  BY <1>1, <1>2, SubSeqProperties
<1>4. /\ v \in Seq(S) /\ Len(v) = IF k + 1 <= Len(t) THEN Len(t) - (k + 1) + 1 ELSE 0
      /\ \A i \in 1..(Len(t) - (k + 1) + 1) : v[i] = t[(k + 1) + i - 1]
  BY <1>1, <1>2, SubSeqProperties
<1> HIDE DEF u, v
<1>5. v = Append(u, n)
  <2>1. /\ Len(u) = Len(p) - k /\ Len(v) = Len(p) - k + 1
        /\ \A i \in 1..(Len(p) - k) : u[i] = p[k + i]
        /\ \A i \in 1..(Len(p) - k + 1) : v[i] = t[k + i]
    BY <1>1, <1>3, <1>4
  <2> DEFINE w == Append(u, n)
  <2>2. /\ w \in Seq(S) /\ Len(w) = Len(u) + 1
        /\ \A i \in 1..Len(u) : w[i] = u[i]
        /\ w[Len(u) + 1] = n
    BY <1>3, AppendProperties
  <2> HIDE DEF w
  <2>3. \A i \in 1..Len(v) : v[i] = w[i]
    <3> SUFFICES ASSUME NEW i \in 1..Len(v) PROVE v[i] = w[i]
      OBVIOUS
    <3>1. CASE i \in 1..(Len(p) - k)
      <4>1. v[i] = t[k + i] /\ w[i] = p[k + i] /\ k + i \in 1..Len(p)
        BY <1>1, <2>1, <2>2, <3>1
      <4> QED BY <1>1, <4>1
    <3>2. CASE i = Len(p) - k + 1
      <4>1. v[i] = t[k + i] /\ k + i = Len(p) + 1
        BY <1>1, <2>1, <3>2
      <4>2. w[i] = n
        BY <1>1, <2>1, <2>2, <3>2
      <4> QED BY <1>1, <4>1, <4>2
    <3> QED BY <1>1, <2>1, <3>1, <3>2
  <2>4. Len(v) = Len(w)
    BY <2>1, <2>2
  <2>5. v = w
    BY <1>4, <2>2, <2>3, <2>4, SeqEqual
  <2> QED BY <2>5 DEF w
<1>6. q \o v = Append(q \o u, n)
  <2> DEFINE a == q \o u
             b == q \o v
             c == Append(a, n)
  <2>1. /\ v \in Seq(S) /\ Len(v) = Len(u) + 1 /\ v[Len(u) + 1] = n
        /\ \A i \in 1..Len(u) : v[i] = u[i]
    BY <1>3, <1>5, AppendProperties
  <2>2. /\ a \in Seq(S) /\ Len(a) = Len(q) + Len(u)
        /\ \A i \in 1..(Len(q) + Len(u)) : a[i] = IF i <= Len(q) THEN q[i] ELSE u[i - Len(q)]
    BY <1>3, ConcatProperties
  <2>3. /\ b \in Seq(S) /\ Len(b) = Len(q) + Len(v)
        /\ \A i \in 1..(Len(q) + Len(v)) : b[i] = IF i <= Len(q) THEN q[i] ELSE v[i - Len(q)]
    BY <2>1, ConcatProperties
  <2> HIDE DEF a, b
  <2>4. /\ c \in Seq(S) /\ Len(c) = Len(a) + 1 /\ c[Len(a) + 1] = n
        /\ \A i \in 1..Len(a) : c[i] = a[i]
    <3>1. a \in Seq(S)
      BY <2>2
    <3> QED BY <3>1, AppendProperties
  <2> HIDE DEF c
  <2>5. Len(q) \in Nat /\ Len(u) \in Nat
    BY <1>3, LenProperties
  <2>6. Len(b) = Len(c) /\ Len(b) = Len(q) + Len(u) + 1
    BY <2>1, <2>2, <2>3, <2>4, <2>5
  <2>7. ASSUME NEW i \in 1..Len(b) PROVE b[i] = c[i]
    <3>1. CASE i = Len(q) + Len(u) + 1
      <4>1. b[i] = v[i - Len(q)] /\ i - Len(q) = Len(u) + 1
        BY <2>1, <2>3, <2>5, <3>1
      <4>2. c[i] = n
        BY <2>2, <2>4, <3>1
      <4> QED BY <2>1, <4>1, <4>2
    <3>2. CASE i \in 1..Len(q)
      <4>1. b[i] = q[i]
        BY <2>1, <2>3, <2>5, <3>2
      <4>2. c[i] = q[i]
        BY <2>2, <2>4, <2>5, <3>2
      <4> QED BY <4>1, <4>2
    <3>3. CASE i \in (Len(q) + 1)..(Len(q) + Len(u))
      <4>1. b[i] = v[i - Len(q)] /\ i - Len(q) \in 1..Len(u)
        BY <2>1, <2>3, <2>5, <3>3
      <4>2. c[i] = u[i - Len(q)]
        BY <2>2, <2>4, <2>5, <3>3
      <4> QED BY <2>1, <4>1, <4>2
    <3> QED BY <2>5, <2>6, <3>1, <3>2, <3>3
  <2>8. b = c
    BY <2>3, <2>4, <2>6, <2>7, SeqEqual
  <2> QED BY <2>8 DEF a, b, c
<1> QED BY <1>6 DEF t, u, v, Shifted

LEMMA PathMovedAll ==
  ASSUME NEW S, NEW q \in Seq(S), NEW p \in Seq(S)
  PROVE  Shifted(q, p, Len(p)) = q
<1> DEFINE u == SubSeq(p, Len(p) + 1, Len(p))
           v == q \o u
<1>1. Len(p) \in Nat /\ Len(q) \in Nat
  BY LenProperties
<1>2. u = <<>>
  BY <1>1, SubSeqEmpty
<1> HIDE DEF u
<1>3. u \in Seq(S) /\ Len(u) = 0
  BY <1>2, EmptySeq
<1>4. /\ v \in Seq(S) /\ Len(v) = Len(q) + Len(u)
      /\ \A i \in 1..(Len(q) + Len(u)) : v[i] = IF i <= Len(q) THEN q[i] ELSE u[i - Len(q)]
  BY <1>3, ConcatProperties
<1> HIDE DEF v
<1>5. Len(v) = Len(q) /\ \A i \in 1..Len(v) : v[i] = q[i]
  BY <1>1, <1>3, <1>4
<1>6. v = q
  BY <1>4, <1>5, SeqEqual
<1> QED BY <1>6 DEF Shifted, u, v

\* The names before the last
LEMMA PathFront ==
  ASSUME NEW S, NEW s \in Seq(S), NEW n \in S
  PROVE  Categories!Front(Append(s, n)) = s
<1> DEFINE t == Append(s, n)
           u == SubSeq(t, 1, Len(s))
<1>1. /\ Len(s) \in Nat /\ t \in Seq(S) /\ Len(t) = Len(s) + 1
      /\ \A i \in 1..Len(s) : t[i] = s[i]
  BY AppendProperties, LenProperties
<1> HIDE DEF t
<1>2. \A i \in 1..Len(s) : t[i] \in S
  BY <1>1, ElementOfSeq
<1>3. /\ u \in Seq(S) /\ Len(u) = IF 1 <= Len(s) THEN Len(s) - 1 + 1 ELSE 0
      /\ \A i \in 1..(Len(s) - 1 + 1) : u[i] = t[1 + i - 1]
  BY <1>1, <1>2, SubSeqProperties
<1> HIDE DEF u
<1>4. Len(u) = Len(s) /\ \A i \in 1..Len(u) : u[i] = s[i]
  BY <1>1, <1>3
<1>5. u = s
  BY <1>3, <1>4, SeqEqual
<1>6. Len(t) - 1 = Len(s)
  BY <1>1
<1>7. Categories!Front(t) = u
  BY <1>6 DEF Categories!Front, u
<1> QED BY <1>5, <1>7 DEF t

\* The path of a category by its new name: as long as it was, or that of a root
LEMMA PathNew ==
  ASSUME NEW S, NEW f \in Seq(S), f # <<>>, NEW n \in S
  PROVE  /\ Append(Categories!Front(f), n) \in Seq(S)
         /\ Len(Append(Categories!Front(f), n)) = Len(f)
         /\ <<n>> \in Seq(S) /\ Len(<<n>>) = 1
<1> DEFINE u == SubSeq(f, 1, Len(f) - 1)
<1>1. Len(f) \in Nat /\ Len(f) # 0
  BY LenProperties, EmptySeq
<1>2. \A i \in 1..(Len(f) - 1) : f[i] \in S
  BY <1>1, ElementOfSeq
<1>3. u \in Seq(S) /\ Len(u) = Len(f) - 1
  <2>1. u \in Seq(S) /\ Len(u) = IF 1 <= Len(f) - 1 THEN Len(f) - 1 - 1 + 1 ELSE 0
    BY <1>1, <1>2, SubSeqProperties
  <2>2. \A k \in Nat : k # 0 => (IF 1 <= k - 1 THEN k - 1 - 1 + 1 ELSE 0) = k - 1
    OBVIOUS
  <2> QED BY <1>1, <2>1, <2>2
<1> HIDE DEF u
<1>4. Append(u, n) \in Seq(S) /\ Len(Append(u, n)) = Len(u) + 1
  BY <1>3, AppendProperties
<1>5. Append(u, n) \in Seq(S) /\ Len(Append(u, n)) = Len(f)
  BY <1>1, <1>3, <1>4
<1>6. Categories!Front(f) = u
  BY DEF Categories!Front, u
<1> QED BY <1>5, <1>6
-----------------------------------------------------------------------------
(* The tree of categories: types *)

Nodes == Categories!Ids
Nameless == ""
NodeRow ==
  [parent : Nodes \cup {0}, name : TwoProducts \cup {Nameless, "-"}, path : Seq(TwoProducts),
   level : 0..MaxDepth, mapped : Int]
EditRow ==
  [pc : {"idle", "create", "find", "rewrite", "delete", "up", "down"}, id : Nodes \cup {0},
   name : TwoProducts \cup {Nameless}, from : Seq(TwoProducts), level : Nat,
   todo : SUBSET (Nodes \X Seq(TwoProducts)), found : SUBSET Nodes, met : BOOLEAN]

\* The id was given out.
Used(c) == c \in Nodes /\ cat[c] # Categories!None

GoodNode(c) ==
  \/ cat[c] \in {Categories!None, Categories!Gone}
  \/ /\ cat[c].name \in TwoProducts /\ cat[c].path # <<>> /\ cat[c].level # 0
     /\ cat[c].parent # 0 => cat[c].parent \in Categories!Live

\* What a call knows of its category and of those it found
GoodEdit(e) ==
  /\ e.pc = "idle" => e = Categories!Idle
  /\ e.pc \notin {"idle", "create"} => e.id # 0
  /\ e.id # 0 => Used(e.id)
  /\ e.pc \in {"create", "find", "rewrite"} => e.name \in TwoProducts /\ e.from # <<>>
  /\ e.pc = "create" => e.level \in 1..MaxDepth
  /\ \A d \in e.todo : d[1] \in e.found /\ Len(e.from) < Len(d[2])
  /\ \A d \in e.found : Used(d)

CategoryTypes ==
  /\ cat \in [Nodes -> NodeRow] /\ maps \in [Maps -> Nodes \cup {0}] /\ edit \in [Handlers -> EditRow]
  /\ odd \subseteq Nodes /\ strayed \subseteq Nodes
  /\ \A c \in Nodes : GoodNode(c)
  /\ \A a \in Handlers : GoodEdit(edit[a])
  /\ \A m \in Maps : maps[m] # 0 => Used(maps[m])

LEMMA CategoryNumbers ==
  /\ Nodes = 1..Size /\ Size \in Nat /\ MaxDepth \in Nat /\ MaxDepth # 0 /\ 0 \notin Nodes
  /\ Nodes \subseteq Nat /\ 0 \in 0..MaxDepth /\ Categories!Root = 0
<1>1. Nodes = 1..Size /\ Categories!Root = 0
  BY DEF Nodes, Categories!Ids, Categories!Root
<1>2. Size \in Nat /\ MaxDepth \in Nat \ {0}
  BY CatalogueAssumption
<1>3. 0 \notin 1..Size /\ 1..Size \subseteq Nat
  BY <1>2
<1>4. 0 \in 0..MaxDepth
  BY <1>2
<1> QED BY <1>1, <1>2, <1>3, <1>4

LEMMA CategoryNames == Nameless \notin TwoProducts /\ "-" \notin TwoProducts /\ Nameless # "-"
<1>1. "" \notin TwoProducts /\ "-" \notin TwoProducts
  BY CatalogueAssumption, Zenon
<1> QED BY <1>1, Zenon DEF Nameless

LEMMA CategoryRows ==
  /\ Categories!None \in NodeRow /\ Categories!Gone \in NodeRow
  /\ Categories!None # Categories!Gone
  /\ Categories!None.name \notin TwoProducts /\ Categories!Gone.name \notin TwoProducts
  /\ Categories!None.mapped = 0
  /\ Categories!Idle =
       [pc |-> "idle", id |-> 0, name |-> Nameless, from |-> <<>>, level |-> 0,
        todo |-> {}, found |-> {}, met |-> FALSE]
  /\ Categories!Idle \in EditRow
<1>1. 0 \in Nodes \cup {0} /\ 0 \in 0..MaxDepth /\ 0 \in Int /\ 0 \in Nat /\ Categories!Root = 0
  BY CategoryNumbers
<1>2. <<>> \in Seq(TwoProducts)
  BY EmptySeq
<1>3. Categories!None = [parent |-> 0, name |-> Nameless, path |-> <<>>, level |-> 0, mapped |-> 0]
  BY <1>1, Zenon DEF Categories!None, Nameless
<1>4. Categories!Gone = [parent |-> 0, name |-> "-", path |-> <<>>, level |-> 0, mapped |-> 0]
  <2>1. Categories!Gone = [Categories!None EXCEPT !.name = "-"]
    BY Zenon DEF Categories!Gone
  <2> QED BY <1>3, <2>1
<1>5. Categories!None \in NodeRow
  BY <1>1, <1>2, <1>3 DEF NodeRow
<1>6. Categories!Gone \in NodeRow
  BY <1>1, <1>2, <1>4 DEF NodeRow
<1>7. Categories!None.name = Nameless /\ Categories!Gone.name = "-" /\ Categories!None.mapped = 0
  BY <1>3, <1>4
<1>8. Categories!Idle =
        [pc |-> "idle", id |-> 0, name |-> Nameless, from |-> <<>>, level |-> 0,
         todo |-> {}, found |-> {}, met |-> FALSE]
  BY <1>1, Zenon DEF Categories!Idle, Nameless
<1>9. Categories!Idle \in EditRow
  BY <1>1, <1>2, <1>8 DEF EditRow
<1>10. Categories!None # Categories!Gone
  BY <1>7, CategoryNames
<1> QED BY <1>5, <1>6, <1>7, <1>8, <1>9, <1>10, CategoryNames

\* A category that is live has a name.
LEMMA LiveNodes ==
  ASSUME CategoryTypes
  PROVE  /\ Categories!Live = {c \in Nodes : cat[c].name \in TwoProducts}
         /\ Categories!Live \subseteq Nodes
         /\ \A c \in Categories!Live :
              /\ cat[c] \in NodeRow /\ cat[c].path \in Seq(TwoProducts) /\ cat[c].path # <<>>
              /\ cat[c].level # 0 /\ Used(c)
              /\ cat[c].parent # 0 => cat[c].parent \in Categories!Live
<1>1. \A c \in Nodes : cat[c] \in NodeRow /\ GoodNode(c)
  BY DEF CategoryTypes
<1>2. ASSUME NEW c \in Nodes
      PROVE  cat[c] \notin {Categories!None, Categories!Gone} <=> cat[c].name \in TwoProducts
  BY <1>1, CategoryRows DEF GoodNode
<1>3. Categories!Live = {c \in Nodes : cat[c].name \in TwoProducts}
  BY <1>2 DEF Categories!Live, Nodes
<1>4. ASSUME NEW c \in Categories!Live
      PROVE  /\ cat[c] \in NodeRow /\ cat[c].path \in Seq(TwoProducts) /\ cat[c].path # <<>>
             /\ cat[c].level # 0 /\ Used(c)
             /\ cat[c].parent # 0 => cat[c].parent \in Categories!Live
  <2>1. c \in Nodes /\ cat[c] \notin {Categories!None, Categories!Gone}
    BY <1>4 DEF Categories!Live, Nodes
  <2> QED BY <1>1, <2>1 DEF GoodNode, NodeRow, Used
<1> QED BY <1>3, <1>4

LEMMA CategoryTypesInit == Categories!Init => CategoryTypes
<1> SUFFICES ASSUME Categories!Init PROVE CategoryTypes
  OBVIOUS
<1>1. PICK n \in TwoProducts, k \in 0..Size :
        /\ k <= MaxDepth
        /\ cat = [c \in Nodes |->
             IF c > k THEN Categories!None
             ELSE [parent |-> c - 1, name |-> n, path |-> [i \in 1..c |-> n], level |-> c, mapped |-> 0]]
  BY DEF Categories!Init, Nodes
<1>2. /\ maps = [m \in Maps |-> 0] /\ edit = [a \in Handlers |-> Categories!Idle]
      /\ odd = {} /\ strayed = {}
  BY CategoryNumbers DEF Categories!Init
<1>3. ASSUME NEW c \in Nodes, c <= k
      PROVE  /\ cat[c] \in NodeRow /\ cat[c].name \in TwoProducts /\ cat[c].path # <<>>
             /\ cat[c].level # 0 /\ (cat[c].parent # 0 => cat[c].parent \in Nodes /\ cat[c].parent <= k)
  <2> DEFINE p == [i \in 1..c |-> n]
  <2>1. c \in Nat /\ c # 0 /\ c \in 0..MaxDepth /\ c - 1 \in Nodes \cup {0} /\ c - 1 <= k
    BY <1>1, <1>3, CategoryNumbers
  <2>2. p \in Seq(TwoProducts) /\ p # <<>>
    <3>1. p \in [1..c -> TwoProducts] /\ p \in Seq(TwoProducts)
      BY <2>1
    <3>2. DOMAIN p = 1..c /\ 1 \in 1..c
      BY <2>1
    <3>3. DOMAIN <<>> = {}
      OBVIOUS
    <3> QED BY <3>1, <3>2, <3>3
  <2> HIDE DEF p
  <2>3. cat[c] = [parent |-> c - 1, name |-> n, path |-> p, level |-> c, mapped |-> 0]
    <3>1. ~(c > k)
      BY <1>1, <1>3, <2>1
    <3> QED BY <1>1, <3>1 DEF p
  <2>4. cat[c] \in NodeRow
    BY <2>1, <2>2, <2>3 DEF NodeRow
  <2> QED BY <2>1, <2>2, <2>3, <2>4
<1>4. \A c \in Nodes : c > k => cat[c] = Categories!None
  BY <1>1
<1>5. \A c \in Nodes : c <= k \/ c > k
  BY <1>1, CategoryNumbers
<1>6. \A c \in Nodes : c <= k => c \in Categories!Live
  <2>1. \A c \in Nodes : c <= k => cat[c] # Categories!None /\ cat[c] # Categories!Gone
    BY <1>3, CategoryRows
  <2> QED BY <2>1 DEF Categories!Live, Nodes
<1>7. cat \in [Nodes -> NodeRow]
  <2>1. \A c \in Nodes : cat[c] \in NodeRow
    BY <1>3, <1>4, <1>5, CategoryRows
  <2>2. cat = [c \in Nodes |-> cat[c]]
    BY <1>1
  <2> QED BY <2>1, <2>2
<1>8. \A c \in Nodes : GoodNode(c)
  BY <1>3, <1>4, <1>5, <1>6 DEF GoodNode
<1>9. GoodEdit(Categories!Idle)
  BY CategoryRows DEF GoodEdit
<1>10. /\ maps \in [Maps -> Nodes \cup {0}] /\ edit \in [Handlers -> EditRow]
       /\ \A a \in Handlers : edit[a] = Categories!Idle
       /\ \A m \in Maps : maps[m] = 0
  BY <1>2, CategoryRows, CategoryNumbers
<1> QED BY <1>2, <1>7, <1>8, <1>9, <1>10 DEF CategoryTypes

\* What another's step does to a call: it may be met.
SameCall(b) ==
  /\ edit'[b].pc = edit[b].pc /\ edit'[b].id = edit[b].id /\ edit'[b].name = edit[b].name
  /\ edit'[b].from = edit[b].from /\ edit'[b].level = edit[b].level
  /\ edit'[b].todo = edit[b].todo /\ edit'[b].found = edit[b].found
  /\ edit[b].met => edit'[b].met
  /\ edit[b].pc = "idle" => edit'[b] = edit[b]

CallIs(a, e) ==
  /\ edit' \in [Handlers -> EditRow] /\ edit'[a] = e
  /\ \A b \in Handlers \ {a} : SameCall(b)

LEMMA CallBegun ==
  ASSUME CategoryTypes, NEW a \in Handlers, NEW e \in EditRow, edit' = [edit EXCEPT ![a] = e]
  PROVE  CallIs(a, e)
BY DEF CategoryTypes, CallIs, SameCall

LEMMA CallEnded ==
  ASSUME CategoryTypes, NEW a \in Handlers, Categories!Return(a)
  PROVE  CallIs(a, Categories!Idle)
BY CallBegun, CategoryRows DEF Categories!Return

LEMMA CallWrote ==
  ASSUME CategoryTypes, NEW a \in Handlers, NEW e \in EditRow, Categories!Wrote(a, e)
  PROVE  CallIs(a, e) /\ \A b \in Handlers \ {a} : edit[b].pc # "idle" => edit'[b].met
<1>1. edit \in [Handlers -> EditRow] /\ \A b \in Handlers : GoodEdit(edit[b])
  BY DEF CategoryTypes
<1>2. \A b \in Handlers \ {a} : edit[b].pc = "idle" => edit[b] = Categories!Idle
  BY <1>1 DEF GoodEdit
<1>3. edit' = [b \in Handlers |->
        IF b = a THEN e
        ELSE IF edit[b].pc = "idle" THEN Categories!Idle ELSE [edit[b] EXCEPT !.met = TRUE]]
  BY DEF Categories!Wrote
<1>4. edit'[a] = e
  BY <1>3
<1>5. ASSUME NEW b \in Handlers \ {a}
      PROVE  edit'[b] \in EditRow /\ SameCall(b) /\ (edit[b].pc # "idle" => edit'[b].met)
  <2>1. CASE edit[b].pc = "idle"
    <3>1. edit'[b] = Categories!Idle /\ edit[b] = Categories!Idle
      BY <1>2, <1>3, <2>1
    <3> QED BY <2>1, <3>1, CategoryRows DEF SameCall
  <2>2. CASE edit[b].pc # "idle"
    <3>1. edit'[b] = [edit[b] EXCEPT !.met = TRUE] /\ edit[b] \in EditRow
      BY <1>1, <1>3, <2>2
    <3> QED BY <2>2, <3>1 DEF SameCall, EditRow
  <2> QED BY <2>1, <2>2
<1>6. edit' \in [Handlers -> EditRow]
  BY <1>3, <1>4, <1>5
<1> QED BY <1>4, <1>5, <1>6 DEF CallIs

\* Ids stay used, and what calls know stays good.
LEMMA GoodEditKept ==
  ASSUME CategoryTypes, NEW b \in Handlers, SameCall(b), \A c \in Nodes : Used(c) => Used(c)'
  PROVE  GoodEdit(edit[b])'
<1> PICK e : e = edit[b]
  OBVIOUS
<1> PICK r : r = edit'[b]
  OBVIOUS
<1>1. GoodEdit(e)
  BY DEF CategoryTypes
<1>2. /\ r.pc = e.pc /\ r.id = e.id /\ r.name = e.name /\ r.from = e.from /\ r.level = e.level
      /\ r.todo = e.todo /\ r.found = e.found /\ (e.pc = "idle" => r = e)
  BY DEF SameCall
<1>3. \A c : Used(c) => Used(c)'
  BY DEF Used
<1>4. (r.pc = "idle" => r = Categories!Idle)
  BY <1>1, <1>2 DEF GoodEdit
<1>5. /\ r.pc \notin {"idle", "create"} => r.id # 0
      /\ r.pc \in {"create", "find", "rewrite"} => r.name \in TwoProducts /\ r.from # <<>>
      /\ r.pc = "create" => r.level \in 1..MaxDepth
      /\ \A d \in r.todo : d[1] \in r.found /\ Len(r.from) < Len(d[2])
  BY <1>1, <1>2 DEF GoodEdit
<1>6. r.id # 0 => Used(r.id)'
  BY <1>1, <1>2, <1>3 DEF GoodEdit
<1>7. \A d \in r.found : Used(d)'
  BY <1>1, <1>2, <1>3 DEF GoodEdit
<1> QED BY <1>4, <1>5, <1>6, <1>7 DEF GoodEdit, Categories!Idle

LEMMA CategoryTypesKept ==
  ASSUME CategoryTypes, NEW a \in Handlers, NEW e \in EditRow, CallIs(a, e), GoodEdit(e)',
         \A c \in Nodes : Used(c) => Used(c)',
         cat' \in [Nodes -> NodeRow], maps' \in [Maps -> Nodes \cup {0}],
         odd' \subseteq Nodes, strayed' \subseteq Nodes,
         \A c \in Nodes : GoodNode(c)',
         \A m \in Maps : (maps[m] # 0 => Used(maps[m]))'
  PROVE  CategoryTypes'
<1>1. \A b \in Handlers : GoodEdit(edit[b])'
  <2> SUFFICES ASSUME NEW b \in Handlers PROVE GoodEdit(edit[b])'
    OBVIOUS
  <2>1. CASE b = a
    BY <2>1 DEF CallIs, GoodEdit
  <2>2. CASE b # a
    BY <2>2, GoodEditKept DEF CallIs
  <2> QED BY <2>1, <2>2
<1> QED BY <1>1 DEF CategoryTypes, CallIs

\* A step that leaves the categories alone
LEMMA SameCategories ==
  ASSUME CategoryTypes, cat' = cat
  PROVE  /\ cat' \in [Nodes -> NodeRow]
         /\ \A c \in Nodes : GoodNode(c)'
         /\ \A c \in Nodes : Used(c) => Used(c)'
         /\ Categories!Live' = Categories!Live
<1>1. Categories!Live' = Categories!Live
  BY DEF Categories!Live
<1>2. \A c \in Nodes : GoodNode(c)'
  BY <1>1 DEF GoodNode, CategoryTypes
<1> QED BY <1>1, <1>2 DEF CategoryTypes, Used

\* A step that writes one category that is there: it stays where it is.
LEMMA WrittenCategory ==
  ASSUME CategoryTypes, NEW x \in Categories!Live, NEW r \in NodeRow,
         r.name \in TwoProducts, r.path # <<>>, r.level # 0, r.parent = cat[x].parent,
         cat' = [cat EXCEPT ![x] = r]
  PROVE  /\ cat' \in [Nodes -> NodeRow]
         /\ \A c \in Nodes : GoodNode(c)'
         /\ \A c \in Nodes : Used(c) => Used(c)'
         /\ Categories!Live' = Categories!Live
<1>1. /\ x \in Nodes /\ cat \in [Nodes -> NodeRow] /\ cat' \in [Nodes -> NodeRow]
      /\ cat'[x] = r /\ (\A c \in Nodes \ {x} : cat'[c] = cat[c])
  BY LiveNodes DEF CategoryTypes
<1>2. r \notin {Categories!None, Categories!Gone}
  BY CategoryRows
<1>3. Categories!Live' = Categories!Live
  <2>1. x \in Categories!Live' 
    BY <1>1, <1>2 DEF Categories!Live, Nodes
  <2>2. \A c \in Nodes \ {x} : c \in Categories!Live' <=> c \in Categories!Live
    BY <1>1 DEF Categories!Live, Nodes
  <2>3. Categories!Live \subseteq Nodes /\ Categories!Live' \subseteq Nodes
    BY DEF Categories!Live, Nodes
  <2> QED BY <2>1, <2>2, <2>3
<1>4. \A c \in Nodes : GoodNode(c)'
  <2> SUFFICES ASSUME NEW c \in Nodes PROVE GoodNode(c)'
    OBVIOUS
  <2>1. GoodNode(c)
    BY DEF CategoryTypes
  <2>2. CASE c = x
    <3>1. cat[x].parent # 0 => cat[x].parent \in Categories!Live
      BY LiveNodes
    <3> QED BY <1>1, <1>3, <2>2, <3>1 DEF GoodNode
  <2>3. CASE c # x
    BY <1>1, <1>3, <2>1, <2>3 DEF GoodNode, Categories!None, Categories!Gone
  <2> QED BY <2>2, <2>3
<1>5. \A c \in Nodes : Used(c) => Used(c)'
  BY <1>1, <1>2 DEF Used
<1> QED BY <1>1, <1>3, <1>4, <1>5

\* A step that leaves the categories and the mappings alone
LEMMA QuietTypes ==
  ASSUME CategoryTypes, cat' = cat, NEW a \in Handlers, NEW e \in EditRow, CallIs(a, e),
         GoodEdit(e), odd' \subseteq Nodes, strayed' \subseteq Nodes,
         maps' = maps \/ \E m \in Maps, c \in Categories!Live \cup {0} : maps' = [maps EXCEPT ![m] = c]
  PROVE  CategoryTypes'
<1>1. GoodEdit(e)'
  BY DEF GoodEdit, Used, Categories!Idle
<1>2. /\ maps' \in [Maps -> Nodes \cup {0}]
      /\ \A m \in Maps : (maps[m] # 0 => Used(maps[m]))'
  <2>1. /\ maps \in [Maps -> Nodes \cup {0}]
        /\ \A m \in Maps : maps[m] # 0 => Used(maps[m])
    BY DEF CategoryTypes
  <2>2. CASE maps' = maps
    BY <2>1, <2>2, SameCategories DEF Used
  <2>3. ASSUME NEW m \in Maps, NEW c \in Categories!Live \cup {0}, maps' = [maps EXCEPT ![m] = c]
        PROVE  /\ maps' \in [Maps -> Nodes \cup {0}]
               /\ \A k \in Maps : (maps[k] # 0 => Used(maps[k]))'
    <3>1. c # 0 => Used(c) /\ c \in Nodes
      BY LiveNodes
    <3> QED BY <2>1, <2>3, <3>1, SameCategories DEF Used
  <2> QED BY <2>2, <2>3
<1> QED BY <1>1, <1>2, SameCategories, CategoryTypesKept

LEMMA IdleGood ==
  ASSUME CategoryTypes
  PROVE  Categories!Idle \in EditRow /\ GoodEdit(Categories!Idle) /\ Categories!Idle.pc = "idle"
BY CategoryRows DEF GoodEdit

\* A call that ends without writing a category
LEMMA ReturnTypes ==
  ASSUME CategoryTypes, NEW a \in Handlers, Categories!Return(a), cat' = cat, maps' = maps,
         odd' \subseteq Nodes, strayed' \subseteq Nodes
  PROVE  CategoryTypes'
BY CallEnded, IdleGood, QuietTypes

\* A branch is of categories.
LEMMA BranchNodes ==
  /\ \A C : Categories!Branches(C) \subseteq Nodes
  /\ \A c : Categories!Below(c) \subseteq Nodes
  /\ Categories!Live \subseteq Nodes
BY DEF Categories!Branches, Categories!Below, Categories!Live, Nodes

\* What a call read before it writes is still so.
AsRead(e) ==
  /\ e.pc = "create" =>
       IF e.id = 0 THEN e.from = <<e.name>> /\ e.level = 1
       ELSE /\ e.id \in Categories!Live
            /\ e.from = Append(cat[e.id].path, e.name) /\ e.level = cat[e.id].level + 1
  /\ e.pc \in {"find", "rewrite"} =>
       /\ e.id \in Categories!Live /\ e.from = cat[e.id].path
       /\ e.level = IF cat[e.id].parent = 0 THEN 1 ELSE Len(e.from)

\* One category is written, and it stays where it is in the tree.
WrittenIn(x) ==
  /\ x \in Categories!Live /\ x \in Nodes
  /\ cat'[x].parent = cat[x].parent /\ cat'[x].level = cat[x].level
  /\ cat'[x].mapped = cat[x].mapped
  /\ \A y \in Nodes \ {x} : cat'[y] = cat[y]
  /\ Categories!Live' = Categories!Live

\* Every category hangs and is called as before.
TreeSame ==
  /\ Categories!Live' = Categories!Live
  /\ \A x \in Categories!Live :
       /\ cat'[x].parent = cat[x].parent /\ cat'[x].name = cat[x].name
       /\ cat'[x].path = cat[x].path /\ cat'[x].level = cat[x].level

OthersMet(a) == \A b \in Handlers \ {a} : edit[b].pc # "idle" => edit'[b].met

EditAt(k, x, n, f, l) ==
  [Categories!Idle EXCEPT !.pc = k, !.id = x, !.name = n, !.from = f, !.level = l]

LEMMA EditBegun ==
  ASSUME NEW k \in {"create", "find"}, NEW x \in Nodes \cup {0}, NEW n \in TwoProducts,
         NEW f \in Seq(TwoProducts), NEW l \in Nat, NEW e, e = EditAt(k, x, n, f, l)
  PROVE  /\ e \in EditRow
         /\ e.pc = k /\ e.id = x /\ e.name = n /\ e.from = f /\ e.level = l
         /\ e.todo = {} /\ e.found = {} /\ ~e.met
<1>1. /\ Categories!Idle \in EditRow /\ Categories!Idle.todo = {} /\ Categories!Idle.found = {}
      /\ ~Categories!Idle.met
  BY CategoryRows
<1>2. e \in EditRow
  BY <1>1 DEF EditRow, EditAt
<1> QED BY <1>1, <1>2 DEF EditRow, EditAt

LEMMA ReadParentTypes ==
  ASSUME CategoryTypes, NEW a \in Handlers, NEW p \in Categories!Live \cup {Categories!Root},
         NEW n \in TwoProducts, Categories!ReadParent(a, p, n)
  PROVE  /\ CategoryTypes'
         /\ \E e : CallIs(a, e) /\ e.pc = "create" /\ AsRead(e)
<1>f. PICK f : f = IF p = 0 THEN <<n>> ELSE Append(cat[p].path, n)
  OBVIOUS
<1>l. PICK l : l = IF p = 0 THEN 1 ELSE cat[p].level + 1
  OBVIOUS
<1>e. PICK e : e = EditAt("create", p, n, f, l)
  OBVIOUS
<1>1. (p = 0 \/ (p \in Categories!Live /\ p # 0)) /\ p \in Nodes \cup {0}
  BY LiveNodes, CategoryNumbers
<1>2. f \in Seq(TwoProducts) /\ f # <<>>
  <2>1. CASE p = 0
    BY <1>f, <2>1
  <2>2. CASE p # 0
    <3>1. cat[p].path \in Seq(TwoProducts)
      BY <1>1, <2>2, LiveNodes
    <3>2. f = Append(cat[p].path, n)
      BY <1>f, <2>2
    <3>3. f \in Seq(TwoProducts) /\ Len(f) = Len(cat[p].path) + 1 /\ Len(cat[p].path) \in Nat
      BY <3>1, <3>2, AppendProperties, LenProperties
    <3>4. Len(f) # 0
      BY <3>3
    <3> QED BY <3>3, <3>4, EmptySeq
  <2> QED BY <2>1, <2>2
<1>3. l \in 1..MaxDepth /\ l \in Nat
  <2>1. CASE p = 0
    BY <1>l, <2>1, CategoryNumbers
  <2>2. CASE p # 0
    <3>1. cat[p].level < MaxDepth
      BY <1>1, <2>2 DEF Categories!ReadParent
    <3>2. cat[p] \in NodeRow
      BY <1>1, <2>2, LiveNodes
    <3>3. cat[p].level \in 0..MaxDepth
      BY <3>2 DEF NodeRow
    <3> QED BY <1>l, <2>2, <3>1, <3>3, CategoryNumbers
  <2> QED BY <2>1, <2>2
<1>4. /\ e \in EditRow /\ e.pc = "create" /\ e.id = p /\ e.name = n /\ e.from = f /\ e.level = l
      /\ e.todo = {} /\ e.found = {}
  BY <1>1, <1>2, <1>3, <1>e, EditBegun
<1>5. edit' = [edit EXCEPT ![a] = e]
  BY <1>f, <1>l, <1>e, CategoryNumbers DEF Categories!ReadParent, Categories!Begin, EditAt
<1>6. GoodEdit(e)
  <2>1. p # 0 => Used(p)
    BY <1>1, LiveNodes
  <2> QED BY <1>2, <1>3, <1>4, <2>1 DEF GoodEdit
<1>7. CallIs(a, e)
  BY <1>4, <1>5, CallBegun
<1>8. cat' = cat /\ maps' = maps /\ odd' \subseteq Nodes /\ strayed' \subseteq Nodes
  BY DEF Categories!ReadParent, CategoryTypes
<1>9. AsRead(e)
  <2>1. p # 0 => p \in Categories!Live
    BY <1>1
  <2> QED BY <1>f, <1>l, <1>4, <2>1 DEF AsRead
<1> QED BY <1>4, <1>6, <1>7, <1>8, <1>9, QuietTypes

LEMMA ReadCategoryTypes ==
  ASSUME CategoryTypes, NEW a \in Handlers, NEW c \in Categories!Live,
         NEW n \in TwoProducts, Categories!ReadCategory(a, c, n)
  PROVE  /\ CategoryTypes'
         /\ \E e : CallIs(a, e) /\ e.pc = "find" /\ AsRead(e)
<1> PICK f : f = cat[c].path
  OBVIOUS
<1> PICK l : l = IF cat[c].parent = 0 THEN 1 ELSE Len(f)
  OBVIOUS
<1> PICK e : e = EditAt("find", c, n, f, l)
  OBVIOUS
<1>1. f \in Seq(TwoProducts) /\ f # <<>> /\ c \in Nodes /\ c # 0 /\ Used(c)
  BY LiveNodes, CategoryNumbers
<1>2. l \in Nat
  BY <1>1, LenProperties
<1>3. /\ e \in EditRow /\ e.pc = "find" /\ e.id = c /\ e.name = n /\ e.from = f
      /\ e.todo = {} /\ e.found = {} /\ e.level = l
  BY <1>1, <1>2, EditBegun
<1>4. edit' = [edit EXCEPT ![a] = e]
  BY CategoryNumbers DEF Categories!ReadCategory, Categories!Begin, EditAt
<1>5. GoodEdit(e)
  BY <1>1, <1>3 DEF GoodEdit
<1>6. CallIs(a, e)
  BY <1>3, <1>4, CallBegun
<1>7. cat' = cat /\ maps' = maps /\ odd' \subseteq Nodes /\ strayed' \subseteq Nodes
  BY DEF Categories!ReadCategory, CategoryTypes
<1>8. AsRead(e)
  BY <1>3 DEF AsRead
<1> QED BY <1>3, <1>5, <1>6, <1>7, <1>8, QuietTypes

LEMMA CountChildrenTypes ==
  ASSUME CategoryTypes, NEW a \in Handlers, NEW c \in Categories!Live,
         Categories!CountChildren(a, c)
  PROVE  CategoryTypes' /\ \E e : CallIs(a, e) /\ e.pc = "delete"
<1> PICK e : e = [Categories!Idle EXCEPT !.pc = "delete", !.id = c]
  OBVIOUS
<1>1. c \in Nodes /\ c # 0 /\ Used(c)
  BY LiveNodes, CategoryNumbers
<1>2. e \in EditRow /\ e.pc = "delete" /\ e.id = c /\ e.todo = {} /\ e.found = {}
  BY <1>1, CategoryRows DEF EditRow
<1>3. GoodEdit(e)
  BY <1>1, <1>2 DEF GoodEdit
<1>4. CallIs(a, e)
  BY <1>2, CallBegun DEF Categories!CountChildren, Categories!Begin
<1>5. cat' = cat /\ maps' = maps /\ odd' \subseteq Nodes /\ strayed' \subseteq Nodes
  BY DEF Categories!CountChildren, CategoryTypes
<1> QED BY <1>2, <1>3, <1>4, <1>5, QuietTypes

LEMMA MappingTypes ==
  ASSUME CategoryTypes, NEW a \in Handlers, NEW m \in Maps, NEW c \in Categories!Live,
         Categories!AddMapping(a, m, c) \/ Categories!DeleteMapping(a, m, c)
  PROVE  /\ CategoryTypes'
         /\ \E e : /\ CallIs(a, e) /\ e.pc \in {"up", "down"} /\ e.id = c
                   /\ Categories!AddMapping(a, m, c) => e.pc = "up"
                   /\ ~Categories!AddMapping(a, m, c) => e.pc = "down"
         /\ OthersMet(a)
<1> PICK e : e = [Categories!Idle EXCEPT
      !.pc = IF Categories!AddMapping(a, m, c) THEN "up" ELSE "down", !.id = c]
  OBVIOUS
<1>1. c \in Nodes /\ c # 0 /\ Used(c)
  BY LiveNodes, CategoryNumbers
<1>2. /\ e \in EditRow /\ e.pc \in {"up", "down"} /\ e.id = c /\ e.todo = {} /\ e.found = {}
      /\ Categories!AddMapping(a, m, c) => e.pc = "up"
      /\ ~Categories!AddMapping(a, m, c) => e.pc = "down"
  <2>1. PICK k \in {"up", "down"} : k = IF Categories!AddMapping(a, m, c) THEN "up" ELSE "down"
    OBVIOUS
  <2>2. e = [Categories!Idle EXCEPT !.pc = k, !.id = c]
    BY <2>1
  <2>3. e \in EditRow /\ e.pc = k /\ e.id = c /\ e.todo = {} /\ e.found = {}
    BY <1>1, <2>2, CategoryRows, Zenon DEF EditRow
  <2> QED BY <2>1, <2>3
<1>3. GoodEdit(e)
  BY <1>1, <1>2 DEF GoodEdit
<1>4. Categories!Wrote(a, e)
  BY DEF Categories!AddMapping, Categories!DeleteMapping
<1>5. CallIs(a, e) /\ OthersMet(a)
  BY <1>2, <1>4, CallWrote DEF OthersMet
<1>6. cat' = cat /\ odd' \subseteq Nodes
  BY DEF Categories!AddMapping, Categories!DeleteMapping, CategoryTypes
<1>7. \E z \in Categories!Live \cup {0} : maps' = [maps EXCEPT ![m] = z]
  BY CategoryNumbers DEF Categories!AddMapping, Categories!DeleteMapping
<1>8. strayed' \subseteq Nodes
  <2>1. CASE strayed' = strayed
    BY <2>1 DEF CategoryTypes
  <2>2. CASE Categories!DeleteMapping(a, m, c) /\ strayed' # strayed
    <3>1. maps[m] \in Nodes
      BY <2>2, CategoryNumbers DEF Categories!DeleteMapping, CategoryTypes
    <3> QED BY <1>1, <2>2, <3>1 DEF Categories!DeleteMapping, CategoryTypes
  <2> QED BY <2>1, <2>2 DEF Categories!AddMapping
<1> QED BY <1>2, <1>3, <1>5, <1>6, <1>7, <1>8, QuietTypes

LEMMA FindTypes ==
  ASSUME CategoryTypes, NEW a \in Handlers, Categories!FindDescendants(a)
  PROVE  /\ CategoryTypes'
         /\ \E e : /\ CallIs(a, e) /\ e.pc = "rewrite" /\ e.id = edit[a].id /\ e.name = edit[a].name
                   /\ e.from = edit[a].from /\ e.level = edit[a].level /\ e.met = edit[a].met
                   /\ e.found = Categories!Descendants(edit[a].id, edit[a].from)
                   /\ e.todo = {<<d, cat[d].path>> : d \in e.found}
<1>1. PICK all : all = Categories!Descendants(edit[a].id, edit[a].from)
  OBVIOUS
<1>2. PICK e : e = [edit[a] EXCEPT !.pc = "rewrite", !.found = all,
                                  !.todo = {<<d, cat[d].path>> : d \in all}]
  OBVIOUS
<1>3. /\ edit \in [Handlers -> EditRow] /\ edit[a] \in EditRow /\ GoodEdit(edit[a])
      /\ edit[a].pc = "find" /\ edit[a].from \in Seq(TwoProducts)
  BY DEF CategoryTypes, EditRow, Categories!FindDescendants
<1>4. all \subseteq Categories!Live /\ all \subseteq Nodes
  BY <1>1, LiveNodes DEF Categories!Descendants
<1>5. \A d \in all : cat[d].path \in Seq(TwoProducts) /\ Len(edit[a].from) < Len(cat[d].path)
  <2>1. \A d \in all : d \in Categories!Live /\ Categories!IsStrictPrefix(edit[a].from, cat[d].path)
    BY <1>1 DEF Categories!Descendants
  <2>2. \A d \in all : cat[d].path \in Seq(TwoProducts)
    BY <1>4, LiveNodes
  <2> QED BY <1>3, <2>1, <2>2, PathShorter
<1>6. {<<d, cat[d].path>> : d \in all} \subseteq Nodes \X Seq(TwoProducts)
  BY <1>4, <1>5
<1>7. /\ e \in EditRow /\ e.pc = "rewrite" /\ e.id = edit[a].id /\ e.name = edit[a].name
      /\ e.from = edit[a].from /\ e.level = edit[a].level /\ e.met = edit[a].met /\ e.found = all
      /\ e.todo = {<<d, cat[d].path>> : d \in all}
  BY <1>2, <1>3, <1>4, <1>6 DEF EditRow
<1>8. GoodEdit(e)
  <2>1. \A d \in e.todo : d[1] \in e.found /\ Len(e.from) < Len(d[2])
    BY <1>5, <1>7
  <2>2. \A d \in e.found : Used(d)
    BY <1>4, <1>7, LiveNodes
  <2> QED BY <1>3, <1>7, <2>1, <2>2 DEF GoodEdit
<1>9. edit' = [edit EXCEPT ![a] = e]
  BY <1>1, <1>2, <1>3 DEF Categories!FindDescendants
<1>10. CallIs(a, e)
  BY <1>7, <1>9, CallBegun
<1>11. cat' = cat /\ maps' = maps /\ odd' \subseteq Nodes /\ strayed' \subseteq Nodes
  BY BranchNodes DEF Categories!FindDescendants, Categories!Namesakes, CategoryTypes
<1>12. CategoryTypes'
  BY <1>7, <1>8, <1>10, <1>11, QuietTypes
<1> QED BY <1>1, <1>7, <1>10, <1>12

\* A call that writes a category
LEMMA WrittenTypes ==
  ASSUME CategoryTypes, NEW a \in Handlers, NEW e \in EditRow, GoodEdit(e), Categories!Wrote(a, e),
         NEW x \in Categories!Live, NEW r \in NodeRow,
         r.name \in TwoProducts, r.path # <<>>, r.level # 0, r.parent = cat[x].parent,
         cat' = [cat EXCEPT ![x] = r], maps' = maps, odd' \subseteq Nodes, strayed' \subseteq Nodes
  PROVE  CategoryTypes'
<1>1. /\ cat' \in [Nodes -> NodeRow]
      /\ \A c \in Nodes : GoodNode(c)'
      /\ \A c \in Nodes : Used(c) => Used(c)'
  BY WrittenCategory
<1>2. CallIs(a, e)
  BY CallWrote
<1>3. GoodEdit(e)'
  <2>1. \A c : Used(c) => Used(c)'
    BY <1>1 DEF Used
  <2> QED BY <2>1 DEF GoodEdit, Categories!Idle
<1>4. /\ maps' \in [Maps -> Nodes \cup {0}]
      /\ \A m \in Maps : (maps[m] # 0 => Used(maps[m]))'
  BY <1>1 DEF CategoryTypes, Used
<1> QED BY <1>1, <1>2, <1>3, <1>4, CategoryTypesKept

LEMMA ReachNodes ==
  ASSUME CategoryTypes, NEW a \in Handlers
  PROVE  Categories!Reach(a) \subseteq Nodes
BY BranchNodes DEF Categories!Reach, CategoryTypes, EditRow

LEMMA NewPathTyped ==
  ASSUME CategoryTypes, NEW a \in Handlers, edit[a].pc \in {"find", "rewrite"}
  PROVE  /\ Categories!NewPath(a) \in Seq(TwoProducts) /\ Categories!NewPath(a) # <<>>
         /\ edit[a].name \in TwoProducts /\ edit[a].from \in Seq(TwoProducts) /\ edit[a].from # <<>>
         /\ Len(Categories!NewPath(a)) = IF edit[a].level = 1 THEN 1 ELSE Len(edit[a].from)
<1>1. /\ edit[a].name \in TwoProducts /\ edit[a].from \in Seq(TwoProducts)
      /\ edit[a].from # <<>>
  BY DEF CategoryTypes, GoodEdit, EditRow
<1> PICK f \in Seq(TwoProducts), n \in TwoProducts : f = edit[a].from /\ n = edit[a].name
  BY <1>1
<1>2. /\ Append(Categories!Front(f), n) \in Seq(TwoProducts)
      /\ Len(Append(Categories!Front(f), n)) = Len(f)
      /\ <<n>> \in Seq(TwoProducts) /\ Len(<<n>>) = 1
  BY <1>1, PathNew
<1>3. Len(f) \in Nat /\ Len(f) # 0
  BY <1>1, LenProperties, EmptySeq
<1>4. Categories!NewPath(a) = IF edit[a].level = 1 THEN <<n>> ELSE Append(Categories!Front(f), n)
  BY DEF Categories!NewPath
<1>5. /\ Categories!NewPath(a) \in Seq(TwoProducts)
      /\ Len(Categories!NewPath(a)) = IF edit[a].level = 1 THEN 1 ELSE Len(f)
  BY <1>2, <1>4
<1>6. Len(Categories!NewPath(a)) # 0
  BY <1>3, <1>5
<1>7. Categories!NewPath(a) # <<>>
  <2>1. Len(<<>>) = 0
    OBVIOUS
  <2> QED BY <1>6, <2>1, Zenon
<1> QED BY <1>1, <1>5, <1>7

LEMMA RewriteTypes ==
  ASSUME CategoryTypes, NEW a \in Handlers, NEW d \in edit[a].todo, Categories!RewriteOne(a, d)
  PROVE  /\ CategoryTypes'
         /\ d[1] \in Categories!Live =>
              /\ WrittenIn(d[1]) /\ OthersMet(a)
              /\ cat'[d[1]].name = cat[d[1]].name
              /\ cat'[d[1]].path = Shifted(Categories!NewPath(a), d[2], Len(edit[a].from))
              /\ \E e : /\ CallIs(a, e) /\ e.pc = "rewrite" /\ e.id = edit[a].id
                        /\ e.name = edit[a].name /\ e.from = edit[a].from
                        /\ e.level = edit[a].level /\ e.met = edit[a].met
                        /\ e.found = edit[a].found /\ e.todo = edit[a].todo \ {d}
<1>1. /\ edit[a] \in EditRow /\ GoodEdit(edit[a]) /\ edit[a].pc = "rewrite"
      /\ d \in Nodes \X Seq(TwoProducts)
  BY DEF CategoryTypes, EditRow, Categories!RewriteOne
<1>2. CASE d[1] \in Categories!Live
  <2>1. PICK p : p = Shifted(Categories!NewPath(a), d[2], Len(edit[a].from))
    OBVIOUS
  <2>2. p \in Seq(TwoProducts) /\ p # <<>>
    <3>a. PICK q \in Seq(TwoProducts), u \in Seq(TwoProducts), k \in Nat :
          q = Categories!NewPath(a) /\ u = d[2] /\ k = Len(edit[a].from)
      BY <1>1, NewPathTyped, LenProperties
    <3>1. k < Len(u) /\ Len(u) \in Nat /\ Len(q) \in Nat
      BY <1>1, <3>a, LenProperties DEF GoodEdit
    <3>2. k \in 0..Len(u)
      BY <3>1
    <3>3. p = Shifted(q, u, k)
      BY <2>1, <3>a
    <3>4. p \in Seq(TwoProducts) /\ Len(p) = Len(q) + (Len(u) - k)
      BY <3>2, <3>3, PathMoved
    <3>5. Len(p) # 0
      BY <3>1, <3>4
    <3> QED BY <3>4, <3>5, EmptySeq
  <2>3. PICK x : x = d[1]
    OBVIOUS
  <2>4. PICK r : r = [cat[x] EXCEPT !.path = p]
    OBVIOUS
  <2>5. x \in Categories!Live /\ cat[x] \in NodeRow /\ cat[x].name \in TwoProducts /\ cat[x].level # 0
    BY <1>2, <2>3, LiveNodes
  <2>6. /\ r \in NodeRow /\ r.name = cat[x].name /\ r.path = p /\ r.level = cat[x].level
        /\ r.parent = cat[x].parent /\ r.mapped = cat[x].mapped
    BY <2>2, <2>4, <2>5 DEF NodeRow
  <2>7. cat' = [cat EXCEPT ![x] = r]
    BY <1>2, <2>1, <2>3, <2>4, <2>5, LiveNodes
       DEF Categories!RewriteOne, CategoryTypes, Shifted
  <2>8. PICK e : e = [edit[a] EXCEPT !.todo = @ \ {d}]
    OBVIOUS
  <2>9. /\ e \in EditRow /\ e.pc = "rewrite" /\ e.id = edit[a].id /\ e.name = edit[a].name
        /\ e.from = edit[a].from /\ e.found = edit[a].found /\ e.todo = edit[a].todo \ {d}
        /\ e.level = edit[a].level /\ e.met = edit[a].met
    BY <1>1, <2>8 DEF EditRow
  <2>10. GoodEdit(e)
    BY <1>1, <2>9 DEF GoodEdit
  <2>11. Categories!Wrote(a, e) /\ maps' = maps /\ odd' = odd /\ strayed' = strayed
    BY <1>2, <2>8 DEF Categories!RewriteOne
  <2>12. CategoryTypes'
    BY <2>2, <2>5, <2>6, <2>7, <2>9, <2>10, <2>11, WrittenTypes DEF CategoryTypes
  <2>13. WrittenIn(x) /\ cat'[x].name = cat[x].name /\ cat'[x].path = p
    <3>1. x \in Nodes /\ cat'[x] = r /\ \A y \in Nodes \ {x} : cat'[y] = cat[y]
      BY <2>5, <2>7, LiveNodes DEF CategoryTypes
    <3>2. Categories!Live' = Categories!Live
      BY <2>2, <2>5, <2>6, <2>7, WrittenCategory
    <3> QED BY <2>5, <2>6, <3>1, <3>2 DEF WrittenIn
  <2>14. CallIs(a, e) /\ OthersMet(a)
    BY <2>9, <2>11, CallWrote DEF OthersMet
  <2> QED BY <2>1, <2>3, <2>9, <2>12, <2>13, <2>14
<1>3. CASE d[1] \notin Categories!Live
  <2>1. Categories!Return(a) /\ cat' = cat /\ maps' = maps /\ strayed' = strayed
    BY <1>3 DEF Categories!RewriteOne
  <2>2. odd' \subseteq Nodes
    BY <1>3, ReachNodes DEF Categories!RewriteOne, CategoryTypes
  <2>3. CategoryTypes'
    BY <2>1, <2>2, ReturnTypes DEF CategoryTypes
  <2> QED BY <1>3, <2>3
<1> QED BY <1>2, <1>3

LEMMA RenameTypes ==
  ASSUME CategoryTypes, NEW a \in Handlers, Categories!Rename(a)
  PROVE  /\ CategoryTypes'
         /\ edit[a].id \in Categories!Live =>
              /\ WrittenIn(edit[a].id) /\ OthersMet(a) /\ CallIs(a, Categories!Idle)
              /\ cat'[edit[a].id].name = edit[a].name
              /\ cat'[edit[a].id].path = Categories!NewPath(a)
<1>1. odd' \subseteq Nodes /\ maps' = maps /\ strayed' = strayed
  BY ReachNodes DEF Categories!Rename, CategoryTypes
<1>2. CASE edit[a].id \in Categories!Live
  <2>1. PICK x : x = edit[a].id
    OBVIOUS
  <2>2. PICK n : n = edit[a].name
    OBVIOUS
  <2>3. PICK p : p = Categories!NewPath(a)
    OBVIOUS
  <2>4. PICK r : r = [cat[x] EXCEPT !.name = n, !.path = p]
    OBVIOUS
  <2>5. edit[a].pc = "rewrite"
    BY DEF Categories!Rename
  <2>6. p \in Seq(TwoProducts) /\ p # <<>> /\ n \in TwoProducts
    BY <2>2, <2>3, <2>5, NewPathTyped
  <2>7. x \in Categories!Live /\ cat[x] \in NodeRow /\ cat[x].level # 0
    BY <1>2, <2>1, LiveNodes
  <2>8. /\ r \in NodeRow /\ r.name = n /\ r.path = p /\ r.level = cat[x].level
        /\ r.parent = cat[x].parent /\ r.mapped = cat[x].mapped
    BY <2>4, <2>6, <2>7 DEF NodeRow
  <2>9. cat' = [cat EXCEPT ![x] = r]
    BY <1>2, <2>1, <2>2, <2>3, <2>4, <2>7, LiveNodes DEF Categories!Rename, CategoryTypes
  <2>10. Categories!Wrote(a, Categories!Idle)
    BY <1>2 DEF Categories!Rename
  <2>11. CategoryTypes'
    BY <1>1, <2>6, <2>7, <2>8, <2>9, <2>10, IdleGood, WrittenTypes DEF CategoryTypes
  <2>12. WrittenIn(x) /\ cat'[x].name = n /\ cat'[x].path = p
    <3>1. x \in Nodes /\ cat'[x] = r /\ \A y \in Nodes \ {x} : cat'[y] = cat[y]
      BY <2>7, <2>9, LiveNodes DEF CategoryTypes
    <3>2. Categories!Live' = Categories!Live
      BY <2>6, <2>7, <2>8, <2>9, WrittenCategory
    <3> QED BY <2>7, <2>8, <3>1, <3>2 DEF WrittenIn
  <2>13. CallIs(a, Categories!Idle) /\ OthersMet(a)
    BY <2>10, IdleGood, CallWrote DEF OthersMet
  <2> QED BY <2>1, <2>2, <2>3, <2>11, <2>12, <2>13
<1>3. CASE edit[a].id \notin Categories!Live
  <2>1. Categories!Return(a) /\ cat' = cat
    BY <1>3 DEF Categories!Rename
  <2>2. CategoryTypes'
    BY <1>1, <2>1, ReturnTypes DEF CategoryTypes
  <2> QED BY <1>3, <2>2
<1> QED BY <1>2, <1>3

LEMMA CountTypes ==
  ASSUME CategoryTypes, NEW a \in Handlers, Categories!CountMapping(a)
  PROVE  CategoryTypes' /\ TreeSame
<1>1. odd' \subseteq Nodes /\ maps' = maps /\ strayed' \subseteq Nodes
  BY DEF Categories!CountMapping, CategoryTypes
<1>2. CASE edit[a].id \in Categories!Live
  <2>1. PICK x : x = edit[a].id
    OBVIOUS
  <2>2. PICK k : k = IF edit[a].pc = "up" THEN cat[x].mapped + 1 ELSE cat[x].mapped - 1
    OBVIOUS
  <2>3. PICK r : r = [cat[x] EXCEPT !.mapped = k]
    OBVIOUS
  <2>4. /\ x \in Categories!Live /\ cat[x] \in NodeRow /\ cat[x].name \in TwoProducts
        /\ cat[x].path # <<>> /\ cat[x].level # 0
    BY <1>2, <2>1, LiveNodes
  <2>5. k \in Int
    BY <2>2, <2>4 DEF NodeRow
  <2>6. /\ r \in NodeRow /\ r.name = cat[x].name /\ r.path = cat[x].path /\ r.path # <<>>
        /\ r.level = cat[x].level /\ r.parent = cat[x].parent
    BY <2>3, <2>4, <2>5 DEF NodeRow
  <2>7. cat' = [cat EXCEPT ![x] = r]
    BY <1>2, <2>1, <2>2, <2>3, <2>4, LiveNodes DEF Categories!CountMapping, CategoryTypes
  <2>8. Categories!Wrote(a, Categories!Idle)
    BY <1>2 DEF Categories!CountMapping
  <2>9. CategoryTypes'
    BY <1>1, <2>4, <2>6, <2>7, <2>8, IdleGood, WrittenTypes
  <2>10. Categories!Live' = Categories!Live
    BY <2>4, <2>6, <2>7, WrittenCategory
  <2>11. \A y \in Categories!Live : cat'[y] = IF y = x THEN r ELSE cat[y]
    BY <2>4, <2>7, LiveNodes DEF CategoryTypes
  <2>12. TreeSame
    BY <2>6, <2>10, <2>11 DEF TreeSame
  <2> QED BY <2>9, <2>12
<1>3. CASE edit[a].id \notin Categories!Live
  <2>1. Categories!Return(a) /\ cat' = cat
    BY <1>3 DEF Categories!CountMapping
  <2>2. TreeSame
    BY <2>1, SameCategories DEF TreeSame
  <2> QED BY <1>1, <2>1, <2>2, ReturnTypes
<1> QED BY <1>2, <1>3

LEMMA BreakOffTypes ==
  ASSUME CategoryTypes, NEW a \in Handlers, Categories!BreakOff(a)
  PROVE  CategoryTypes'
<1>1. odd' \subseteq Nodes
  BY ReachNodes DEF Categories!BreakOff, CategoryTypes
<1>2. strayed' \subseteq Nodes
  <2>1. edit[a].pc \in {"up", "down"} => edit[a].id \in Nodes
    BY DEF CategoryTypes, GoodEdit, Used
  <2> QED BY <2>1 DEF Categories!BreakOff, CategoryTypes
<1>3. Categories!Return(a) /\ cat' = cat /\ maps' = maps
  BY DEF Categories!BreakOff
<1> QED BY <1>1, <1>2, <1>3, ReturnTypes

\* What a category is created with
LEMMA Creation ==
  ASSUME CategoryTypes, NEW a \in Handlers, NEW c \in Nodes, Categories!Create(a, c),
         edit[a].id \in Categories!Live \cup {0}
  PROVE  \E r \in NodeRow :
           /\ r.parent = edit[a].id /\ r.name = edit[a].name /\ r.path = edit[a].from
           /\ r.level = edit[a].level /\ r.mapped = 0
           /\ r.name \in TwoProducts /\ r.path # <<>> /\ r.level # 0
           /\ cat' = [cat EXCEPT ![c] = r] /\ cat[c] = Categories!None /\ c \notin Categories!Live
           /\ Categories!Live' = Categories!Live \cup {c}
           /\ \A x \in Nodes \ {c} : cat'[x] = cat[x]
           /\ cat'[c] = r /\ cat' \in [Nodes -> NodeRow]
<1>1. PICK r : r = [parent |-> edit[a].id, name |-> edit[a].name, path |-> edit[a].from,
                    level |-> edit[a].level, mapped |-> 0]
  OBVIOUS
<1>2. /\ edit[a].pc = "create" /\ edit[a] \in EditRow /\ GoodEdit(edit[a])
      /\ cat \in [Nodes -> NodeRow]
  BY DEF Categories!Create, CategoryTypes
<1>3. /\ edit[a].id \in Nodes \cup {0} /\ edit[a].name \in TwoProducts
      /\ edit[a].from \in Seq(TwoProducts) /\ edit[a].from # <<>>
      /\ edit[a].level \in 1..MaxDepth
  BY <1>2 DEF GoodEdit, EditRow
<1>4. edit[a].level # 0 /\ edit[a].level \in 0..MaxDepth
  BY <1>3, CategoryNumbers
<1>5. /\ r.parent = edit[a].id /\ r.name = edit[a].name /\ r.path = edit[a].from
      /\ r.level = edit[a].level /\ r.mapped = 0
  BY <1>1
<1>6. r \in NodeRow
  BY <1>1, <1>3, <1>4 DEF NodeRow
<1>7. cat' = [cat EXCEPT ![c] = r] /\ cat[c] = Categories!None
  BY <1>1, CategoryNumbers DEF Categories!Create
<1>8. cat'[c] = r /\ (\A x \in Nodes \ {c} : cat'[x] = cat[x]) /\ cat' \in [Nodes -> NodeRow]
  BY <1>2, <1>6, <1>7
<1>9. c \notin Categories!Live
  BY <1>7 DEF Categories!Live
<1>10. r \notin {Categories!None, Categories!Gone}
  BY <1>3, <1>5, CategoryRows
<1>11. Categories!Live' = Categories!Live \cup {c}
  <2>1. c \in Categories!Live'
    BY <1>8, <1>10 DEF Categories!Live, Nodes
  <2>2. \A x \in Nodes \ {c} : x \in Categories!Live' <=> x \in Categories!Live
    BY <1>8 DEF Categories!Live, Nodes
  <2>3. Categories!Live \subseteq Nodes /\ Categories!Live' \subseteq Nodes
    BY DEF Categories!Live, Nodes
  <2> QED BY <2>1, <2>2, <2>3
<1> QED BY <1>3, <1>4, <1>5, <1>6, <1>7, <1>8, <1>9, <1>11

LEMMA CreateTypes ==
  ASSUME CategoryTypes, NEW a \in Handlers, NEW c \in Nodes, Categories!Create(a, c)
  PROVE  CategoryTypes'
<1>1. maps' = maps /\ strayed' = strayed /\ odd' \subseteq Nodes
  BY DEF Categories!Create, CategoryTypes
<1>2. CASE edit[a].id \in Categories!Live \cup {0}
  <2>1. PICK r \in NodeRow :
           /\ r.parent = edit[a].id /\ r.name = edit[a].name /\ r.path = edit[a].from
           /\ r.level = edit[a].level /\ r.mapped = 0
           /\ r.name \in TwoProducts /\ r.path # <<>> /\ r.level # 0
           /\ cat' = [cat EXCEPT ![c] = r] /\ cat[c] = Categories!None /\ c \notin Categories!Live
           /\ Categories!Live' = Categories!Live \cup {c}
           /\ \A x \in Nodes \ {c} : cat'[x] = cat[x]
           /\ cat'[c] = r /\ cat' \in [Nodes -> NodeRow]
    BY <1>2, Creation
  <2>2. \A x \in Nodes : GoodNode(x)'
    <3> SUFFICES ASSUME NEW x \in Nodes PROVE GoodNode(x)'
      OBVIOUS
    <3>1. CASE x = c
      <4>1. r.parent # 0 => r.parent \in Categories!Live
        BY <1>2, <2>1
      <4> QED BY <2>1, <3>1, <4>1 DEF GoodNode
    <3>2. CASE x # c
      <4>1. GoodNode(x) /\ cat'[x] = cat[x]
        BY <2>1, <3>2 DEF CategoryTypes
      <4> QED BY <2>1, <4>1 DEF GoodNode, Categories!None, Categories!Gone
    <3> QED BY <3>1, <3>2
  <2>3. r # Categories!None
    BY <2>1, CategoryRows
  <2>4. \A x \in Nodes : Used(x) => Used(x)'
    <3>1. \A x \in Nodes : cat[x] # Categories!None => cat'[x] # Categories!None
      BY <2>1, <2>3
    <3> QED BY <3>1 DEF Used, Categories!None
  <2>5. Categories!Wrote(a, Categories!Idle)
    BY <1>2, CategoryNumbers DEF Categories!Create
  <2>6. CallIs(a, Categories!Idle) /\ Categories!Idle \in EditRow /\ GoodEdit(Categories!Idle)'
    <3>1. CallIs(a, Categories!Idle)
      BY <2>5, CallWrote, IdleGood
    <3>2. GoodEdit(Categories!Idle)'
      <4>1. Categories!Idle.id = 0 /\ Categories!Idle.todo = {} /\ Categories!Idle.found = {}
            /\ Categories!Idle.pc = "idle"
        BY CategoryRows
      <4> QED BY <4>1 DEF GoodEdit, Categories!Idle
    <3> QED BY <3>1, <3>2, CategoryRows
  <2>7. /\ maps' \in [Maps -> Nodes \cup {0}]
        /\ \A m \in Maps : (maps[m] # 0 => Used(maps[m]))'
    BY <1>1, <2>4 DEF CategoryTypes, Used
  <2> QED
    BY <1>1, <2>1, <2>2, <2>4, <2>6, <2>7, CategoryTypesKept DEF CategoryTypes
<1>3. CASE edit[a].id \notin Categories!Live \cup {0}
  <2>1. Categories!Return(a) /\ cat' = cat
    BY <1>3, CategoryNumbers DEF Categories!Create
  <2> QED BY <1>1, <2>1, ReturnTypes DEF CategoryTypes
<1> QED BY <1>2, <1>3

\* What a category that is deleted leaves: its children are roots.
LEMMA Deletion ==
  ASSUME CategoryTypes, NEW a \in Handlers, Categories!Delete(a), edit[a].id \in Categories!Live,
         NEW c, c = edit[a].id
  PROVE  /\ c \in Nodes /\ cat' \in [Nodes -> NodeRow] /\ cat'[c] = Categories!Gone
         /\ \A x \in Nodes \ {c} :
              /\ cat'[x].name = cat[x].name /\ cat'[x].path = cat[x].path
              /\ cat'[x].level = cat[x].level /\ cat'[x].mapped = cat[x].mapped
              /\ cat'[x].parent =
                   IF x \in Categories!Live /\ cat[x].parent = c THEN 0 ELSE cat[x].parent
              /\ x \notin Categories!Live => cat'[x] = cat[x]
              /\ x \in Categories!Live' <=> x \in Categories!Live
         /\ Categories!Live' = Categories!Live \ {c}
         /\ maps' = [m \in Maps |-> IF maps[m] = c THEN 0 ELSE maps[m]]
         /\ Categories!Wrote(a, Categories!Idle)
<1>1. /\ c \in Nodes /\ c \in Categories!Live /\ cat \in [Nodes -> NodeRow]
  BY LiveNodes DEF CategoryTypes
<1>2. /\ cat' = [d \in Nodes |->
             IF d = c THEN Categories!Gone
             ELSE IF d \in Categories!Children(c) THEN [cat[d] EXCEPT !.parent = 0] ELSE cat[d]]
      /\ maps' = [m \in Maps |-> IF maps[m] = c THEN 0 ELSE maps[m]]
      /\ Categories!Wrote(a, Categories!Idle)
  BY CategoryNumbers DEF Categories!Delete, Nodes
<1>3. cat'[c] = Categories!Gone
  BY <1>1, <1>2
<1>4. ASSUME NEW x \in Nodes \ {c}
      PROVE  /\ cat'[x].name = cat[x].name /\ cat'[x].path = cat[x].path
             /\ cat'[x].level = cat[x].level /\ cat'[x].mapped = cat[x].mapped
             /\ cat'[x].parent =
                   IF x \in Categories!Live /\ cat[x].parent = c THEN 0 ELSE cat[x].parent
             /\ x \notin Categories!Live => cat'[x] = cat[x]
             /\ x \in Categories!Live' <=> x \in Categories!Live
             /\ cat'[x] \in NodeRow
  <2>1. cat[x] \in NodeRow
    BY <1>1
  <2>2. CASE x \in Categories!Live /\ cat[x].parent = c
    <3>1. cat'[x] = [cat[x] EXCEPT !.parent = 0]
      BY <1>2, <2>2 DEF Categories!Children
    <3>2. /\ cat'[x].name = cat[x].name /\ cat'[x].path = cat[x].path
          /\ cat'[x].level = cat[x].level /\ cat'[x].mapped = cat[x].mapped
          /\ cat'[x].parent = 0 /\ cat'[x] \in NodeRow
      BY <2>1, <3>1 DEF NodeRow
    <3>3. cat[x].name \in TwoProducts
      BY <2>2, LiveNodes
    <3>4. cat'[x] \notin {Categories!None, Categories!Gone}
      BY <3>2, <3>3, CategoryRows
    <3>5. x \in Categories!Live'
      BY <3>4 DEF Categories!Live, Nodes, Categories!None, Categories!Gone
    <3> QED BY <2>2, <3>2, <3>5
  <2>3. CASE ~(x \in Categories!Live /\ cat[x].parent = c)
    <3>1. cat'[x] = cat[x]
      BY <1>2, <2>3 DEF Categories!Children
    <3>2. x \in Categories!Live' <=> x \in Categories!Live
      BY <3>1 DEF Categories!Live, Nodes, Categories!None, Categories!Gone
    <3> QED BY <2>1, <2>3, <3>1, <3>2
  <2> QED BY <2>2, <2>3
<1>5. c \notin Categories!Live'
  BY <1>3 DEF Categories!Live, Categories!None, Categories!Gone
<1>6. Categories!Live' = Categories!Live \ {c}
  <2>1. Categories!Live \subseteq Nodes /\ Categories!Live' \subseteq Nodes
    BY DEF Categories!Live, Nodes
  <2> QED BY <1>4, <1>5, <2>1
<1>7. cat' \in [Nodes -> NodeRow]
  <2>1. \A x \in Nodes : cat'[x] \in NodeRow
    BY <1>3, <1>4, CategoryRows
  <2> QED BY <1>2, <2>1
<1> QED BY <1>1, <1>2, <1>3, <1>4, <1>6, <1>7

LEMMA DeleteTypes ==
  ASSUME CategoryTypes, NEW a \in Handlers, Categories!Delete(a)
  PROVE  CategoryTypes'
<1>1. CASE edit[a].id \in Categories!Live
  <2>1. PICK c : c = edit[a].id
    OBVIOUS
  <2>2. /\ c \in Nodes /\ cat' \in [Nodes -> NodeRow] /\ cat'[c] = Categories!Gone
        /\ \A x \in Nodes \ {c} :
              /\ cat'[x].name = cat[x].name /\ cat'[x].path = cat[x].path
              /\ cat'[x].level = cat[x].level /\ cat'[x].mapped = cat[x].mapped
              /\ cat'[x].parent =
                   IF x \in Categories!Live /\ cat[x].parent = c THEN 0 ELSE cat[x].parent
              /\ x \notin Categories!Live => cat'[x] = cat[x]
              /\ x \in Categories!Live' <=> x \in Categories!Live
        /\ Categories!Live' = Categories!Live \ {c}
        /\ maps' = [m \in Maps |-> IF maps[m] = c THEN 0 ELSE maps[m]]
        /\ Categories!Wrote(a, Categories!Idle)
    BY <1>1, <2>1, Deletion
  <2>3. \A x \in Nodes : GoodNode(x)'
    <3> SUFFICES ASSUME NEW x \in Nodes PROVE GoodNode(x)'
      OBVIOUS
    <3>1. CASE x = c
      BY <2>2, <3>1 DEF GoodNode, Categories!None, Categories!Gone
    <3>2. CASE x # c /\ x \notin Categories!Live
      <4>1. cat'[x] = cat[x] /\ cat[x] \in {Categories!None, Categories!Gone}
        BY <2>2, <3>2 DEF Categories!Live, Nodes
      <4> QED BY <4>1 DEF GoodNode, Categories!None, Categories!Gone
    <3>3. CASE x # c /\ x \in Categories!Live
      <4>1. /\ cat[x].name \in TwoProducts /\ cat[x].path # <<>> /\ cat[x].level # 0
            /\ cat[x].parent # 0 => cat[x].parent \in Categories!Live
        BY <3>3, LiveNodes
      <4>2. (cat'[x].parent # 0) => cat'[x].parent \in Categories!Live'
        BY <2>2, <3>3, <4>1
      <4>3. cat'[x].name \in TwoProducts /\ cat'[x].path # <<>> /\ cat'[x].level # 0
        BY <2>2, <3>3, <4>1
      <4> QED BY <4>2, <4>3 DEF GoodNode
    <3> QED BY <3>1, <3>2, <3>3
  <2>4. \A x \in Nodes : Used(x) => Used(x)'
    <3> SUFFICES ASSUME NEW x \in Nodes, Used(x) PROVE Used(x)'
      OBVIOUS
    <3>1. CASE x = c
      <4>1. cat'[x] # Categories!None
        BY <2>2, <3>1, CategoryRows
      <4> QED BY <4>1 DEF Used, Categories!None
    <3>2. CASE x # c /\ x \notin Categories!Live
      BY <2>2, <3>2 DEF Used, Categories!None
    <3>3. CASE x # c /\ x \in Categories!Live
      <4>1. x \in Categories!Live'
        BY <2>2, <3>3
      <4> QED BY <4>1 DEF Categories!Live, Used, Categories!None
    <3> QED BY <3>1, <3>2, <3>3
  <2>5. /\ maps' \in [Maps -> Nodes \cup {0}]
        /\ \A m \in Maps : (maps[m] # 0 => Used(maps[m]))'
    <3>1. /\ maps \in [Maps -> Nodes \cup {0}]
          /\ \A m \in Maps : maps[m] # 0 => Used(maps[m])
      BY DEF CategoryTypes
    <3>2. \A m \in Maps : maps'[m] = maps[m] \/ maps'[m] = 0
      BY <2>2
    <3>3. maps' \in [Maps -> Nodes \cup {0}]
      BY <2>2, <3>1
    <3>4. ASSUME NEW m \in Maps, maps'[m] # 0 PROVE Used(maps[m])'
      <4>1. maps'[m] = maps[m] /\ maps[m] \in Nodes /\ Used(maps[m])
        BY <3>1, <3>2, <3>4
      <4>2. PICK x \in Nodes : x = maps[m] /\ x = maps'[m]
        BY <4>1
      <4>3. Used(x)'
        BY <2>4, <4>1, <4>2
      <4> QED BY <4>2, <4>3 DEF Used
    <3> QED BY <3>3, <3>4
  <2>6. CallIs(a, Categories!Idle) /\ Categories!Idle \in EditRow /\ GoodEdit(Categories!Idle)'
    <3>1. CallIs(a, Categories!Idle)
      BY <2>2, CallWrote, IdleGood
    <3>2. GoodEdit(Categories!Idle)'
      <4>1. Categories!Idle.id = 0 /\ Categories!Idle.todo = {} /\ Categories!Idle.found = {}
            /\ Categories!Idle.pc = "idle"
        BY CategoryRows
      <4> QED BY <4>1 DEF GoodEdit, Categories!Idle
    <3> QED BY <3>1, <3>2, CategoryRows
  <2>7. odd' \subseteq Nodes /\ strayed' = strayed
    BY <1>1, BranchNodes DEF Categories!Delete, CategoryTypes
  <2> QED
    BY <2>2, <2>3, <2>4, <2>5, <2>6, <2>7, CategoryTypesKept DEF CategoryTypes
<1>2. CASE edit[a].id \notin Categories!Live
  <2>1. /\ Categories!Return(a) /\ cat' = cat /\ maps' = maps /\ odd' = odd
        /\ strayed' = strayed
    BY <1>2 DEF Categories!Delete
  <2> QED BY <2>1, ReturnTypes DEF CategoryTypes
<1> QED BY <1>1, <1>2

LEMMA CategoryTypesStep ==
  ASSUME CategoryTypes, [Categories!Next]_categoryVars
  PROVE  CategoryTypes'
<1>1. ASSUME NEW a \in Handlers, NEW p \in Categories!Live \cup {Categories!Root},
             NEW n \in TwoProducts, Categories!ReadParent(a, p, n)
      PROVE  CategoryTypes'
  BY <1>1, ReadParentTypes
<1>2. ASSUME NEW a \in Handlers, NEW c \in Nodes, Categories!Create(a, c)
      PROVE  CategoryTypes'
  BY <1>2, CreateTypes
<1>3. ASSUME NEW a \in Handlers, NEW c \in Categories!Live, NEW n \in TwoProducts,
             Categories!ReadCategory(a, c, n)
      PROVE  CategoryTypes'
  BY <1>3, ReadCategoryTypes
<1>4. ASSUME NEW a \in Handlers, Categories!FindDescendants(a) PROVE CategoryTypes'
  BY <1>4, FindTypes
<1>5. ASSUME NEW a \in Handlers, NEW d \in edit[a].todo, Categories!RewriteOne(a, d)
      PROVE  CategoryTypes'
  BY <1>5, RewriteTypes
<1>6. ASSUME NEW a \in Handlers, Categories!Rename(a) PROVE CategoryTypes'
  BY <1>6, RenameTypes
<1>7. ASSUME NEW a \in Handlers, NEW c \in Categories!Live, Categories!CountChildren(a, c)
      PROVE  CategoryTypes'
  BY <1>7, CountChildrenTypes
<1>8. ASSUME NEW a \in Handlers, Categories!Delete(a) PROVE CategoryTypes'
  BY <1>8, DeleteTypes
<1>9. ASSUME NEW a \in Handlers, NEW m \in Maps, NEW c \in Categories!Live,
             Categories!AddMapping(a, m, c) \/ Categories!DeleteMapping(a, m, c)
      PROVE  CategoryTypes'
  BY <1>9, MappingTypes
<1>10. ASSUME NEW a \in Handlers, Categories!CountMapping(a) PROVE CategoryTypes'
  BY <1>10, CountTypes
<1>11. ASSUME NEW a \in Handlers, Categories!BreakOff(a) PROVE CategoryTypes'
  BY <1>11, BreakOffTypes
<1>12. CASE UNCHANGED categoryVars
  <2>1. /\ cat' = cat /\ maps' = maps /\ edit' = edit /\ odd' = odd /\ strayed' = strayed
    BY <1>12 DEF categoryVars
  <2>2. \A c \in Nodes : GoodNode(c)'
    BY <2>1, SameCategories
  <2>3. \A a \in Handlers : GoodEdit(edit[a])'
    BY <2>1 DEF CategoryTypes, GoodEdit, Used, Categories!Idle
  <2> QED BY <2>1, <2>2, <2>3 DEF CategoryTypes, Used, Nodes, NodeRow, EditRow
<1> QED
  BY <1>1, <1>2, <1>3, <1>4, <1>5, <1>6, <1>7, <1>8, <1>9, <1>10, <1>11, <1>12
  DEF Categories!Next, Nodes
-----------------------------------------------------------------------------
(* The tree of categories: the numbers of mappings *)

LEMMA SameCardinality == \A S : Categories!Cardinality(S) = Cardinality(S)
BY DEF Categories!Cardinality, Cardinality

Calling(k, c) == {a \in Handlers : edit[a].pc = k /\ edit[a].id = c}
MappedTo(c) == {m \in Maps : maps[m] = c}
Counted(c) ==
  cat[c].mapped + Cardinality(Calling("up", c)) - Cardinality(Calling("down", c))
    = Cardinality(MappedTo(c))

LEMMA CountsAre ==
  /\ Categories!CountsMapped <=> \A c \in Categories!Live \ strayed : Counted(c)
  /\ Categories!CountsMapped' <=> \A c \in Categories!Live' \ strayed' : Counted(c)'
BY SameCardinality DEF Categories!CountsMapped, Counted, Calling, MappedTo, Categories!Live,
   Categories!None, Categories!Gone

\* Administrators and mappings are finitely many, and so are those of a category.
LEMMA CountTypesOf ==
  \A c : /\ IsFiniteSet(Calling("up", c)) /\ IsFiniteSet(Calling("down", c))
         /\ IsFiniteSet(MappedTo(c))
         /\ Cardinality(Calling("up", c)) \in Nat /\ Cardinality(Calling("down", c)) \in Nat
         /\ Cardinality(MappedTo(c)) \in Nat
<1> TAKE c
<1>1. IsFiniteSet(Handlers) /\ IsFiniteSet(Maps)
  BY CatalogueAssumption, Zenon
<1>2. /\ Calling("up", c) \subseteq Handlers /\ Calling("down", c) \subseteq Handlers
      /\ MappedTo(c) \subseteq Maps
  BY DEF Calling, MappedTo
<1>3. /\ IsFiniteSet(Calling("up", c)) /\ IsFiniteSet(Calling("down", c))
      /\ IsFiniteSet(MappedTo(c))
  BY <1>1, <1>2, FS_Subset
<1> QED BY <1>3, FS_CardinalityType

\* The call of an administrator that counts for no category, before or after
LEMMA CallingKept ==
  ASSUME NEW a \in Handlers, NEW e, CallIs(a, e), NEW k, NEW c,
         ~(edit[a].pc = k /\ edit[a].id = c), ~(e.pc = k /\ e.id = c)
  PROVE  Calling(k, c)' = Calling(k, c)
<1>1. \A b \in Handlers : (edit'[b].pc = k /\ edit'[b].id = c) <=> (edit[b].pc = k /\ edit[b].id = c)
  BY DEF CallIs, SameCall
<1> QED BY <1>1 DEF Calling

LEMMA CallingBegun ==
  ASSUME NEW a \in Handlers, NEW e, CallIs(a, e), NEW k, NEW c,
         ~(edit[a].pc = k /\ edit[a].id = c), e.pc = k, e.id = c
  PROVE  Calling(k, c)' = Calling(k, c) \cup {a} /\ a \notin Calling(k, c)
<1>1. \A b \in Handlers \ {a} :
        (edit'[b].pc = k /\ edit'[b].id = c) <=> (edit[b].pc = k /\ edit[b].id = c)
  BY DEF CallIs, SameCall
<1>2. edit'[a].pc = k /\ edit'[a].id = c
  BY DEF CallIs
<1> QED BY <1>1, <1>2 DEF Calling

LEMMA CallingEnded ==
  ASSUME NEW a \in Handlers, NEW e, CallIs(a, e), NEW k, NEW c,
         edit[a].pc = k, edit[a].id = c, e.pc # k
  PROVE  Calling(k, c)' = Calling(k, c) \ {a} /\ a \in Calling(k, c)
<1>1. \A b \in Handlers \ {a} :
        (edit'[b].pc = k /\ edit'[b].id = c) <=> (edit[b].pc = k /\ edit[b].id = c)
  BY DEF CallIs, SameCall
<1>2. edit'[a].pc # k
  BY DEF CallIs
<1> QED BY <1>1, <1>2 DEF Calling

\* A category whose counter, calls and mappings a step leaves alone
LEMMA CountedKept ==
  ASSUME NEW c, Counted(c), cat'[c].mapped = cat[c].mapped,
         Calling("up", c)' = Calling("up", c), Calling("down", c)' = Calling("down", c),
         MappedTo(c)' = MappedTo(c)
  PROVE  Counted(c)'
BY DEF Counted

\* A category whose counter moves as its calls and mappings do
LEMMA CountedMoved ==
  ASSUME NEW c, Counted(c), cat[c].mapped \in Int,
         NEW dm \in Int, NEW du \in Int, NEW dd \in Int, NEW dk \in Int, dm + du - dd = dk,
         cat'[c].mapped = cat[c].mapped + dm,
         Cardinality(Calling("up", c)') = Cardinality(Calling("up", c)) + du,
         Cardinality(Calling("down", c)') = Cardinality(Calling("down", c)) + dd,
         Cardinality(MappedTo(c)') = Cardinality(MappedTo(c)) + dk
  PROVE  Counted(c)'
<1>1. PICK n \in Int, u \in Nat, d \in Nat, k \in Nat :
        /\ n = cat[c].mapped /\ u = Cardinality(Calling("up", c))
        /\ d = Cardinality(Calling("down", c)) /\ k = Cardinality(MappedTo(c))
  BY CountTypesOf
<1>2. n + u - d = k
  BY <1>1 DEF Counted
<1>3. (n + dm) + (u + du) - (d + dd) = k + dk
  BY <1>2
<1> QED BY <1>1, <1>3 DEF Counted

\* A step of a call that neither counts nor is about to, and changes no mapping
LEMMA OtherCallsCount ==
  ASSUME CategoryTypes, Categories!CountsMapped, NEW a \in Handlers, NEW e, CallIs(a, e),
         edit[a].pc \notin {"up", "down"}, e.pc \notin {"up", "down"},
         maps' = maps, strayed \subseteq strayed',
         Categories!Live' \subseteq Categories!Live,
         \A c \in Categories!Live' : cat'[c].mapped = cat[c].mapped
  PROVE  Categories!CountsMapped'
<1> SUFFICES ASSUME NEW c \in Categories!Live' \ strayed' PROVE Counted(c)'
  BY CountsAre
<1>1. Counted(c) /\ cat'[c].mapped = cat[c].mapped
  BY CountsAre
<1>2. Calling("up", c)' = Calling("up", c) /\ Calling("down", c)' = Calling("down", c)
  BY CallingKept
<1>3. MappedTo(c)' = MappedTo(c)
  BY DEF MappedTo
<1> QED BY <1>1, <1>2, <1>3, CountedKept

LEMMA CreateCounts ==
  ASSUME CategoryTypes, Categories!CountsMapped, NEW a \in Handlers, NEW c \in Nodes,
         Categories!Create(a, c)
  PROVE  Categories!CountsMapped'
<1>1. edit[a].pc = "create" /\ Categories!Idle.pc = "idle" /\ Categories!Idle \in EditRow
  BY IdleGood DEF Categories!Create
<1>2. maps' = maps /\ strayed' = strayed
  BY DEF Categories!Create
<1>3. CASE edit[a].id \in Categories!Live \cup {0}
  <2>1. CallIs(a, Categories!Idle)
    BY <1>1, <1>3, CategoryNumbers, CallWrote DEF Categories!Create
  <2>2. /\ cat[c] = Categories!None
        /\ Categories!Live' = Categories!Live \cup {c} /\ cat'[c].mapped = 0
        /\ \A x \in Nodes \ {c} : cat'[x] = cat[x]
    BY <1>3, Creation
  <2>3. ASSUME NEW x \in Categories!Live' \ strayed' PROVE Counted(x)'
    <3>1. Calling("up", x)' = Calling("up", x) /\ Calling("down", x)' = Calling("down", x)
      BY <1>1, <2>1, CallingKept
    <3>2. MappedTo(x)' = MappedTo(x)
      BY <1>2 DEF MappedTo
    <3>3. CASE x = c
      <4>1. ~Used(c) /\ c # 0
        BY <2>2, CategoryNumbers DEF Used
      <4>2. Calling("up", c) = {} /\ Calling("down", c) = {} /\ MappedTo(c) = {}
        BY <4>1 DEF CategoryTypes, GoodEdit, Calling, MappedTo
      <4>3. Cardinality({}) = 0
        BY FS_EmptySet
      <4> QED BY <2>2, <3>1, <3>2, <3>3, <4>2, <4>3 DEF Counted
    <3>4. CASE x # c
      <4>1. Counted(x) /\ x \in Nodes
        BY <1>2, <2>2, <2>3, <3>4, CountsAre, LiveNodes
      <4> QED BY <2>2, <3>1, <3>2, <3>4, <4>1, CountedKept
    <3> QED BY <3>3, <3>4
  <2> QED BY <2>3, CountsAre
<1>4. CASE edit[a].id \notin Categories!Live \cup {0}
  <2>1. Categories!Return(a) /\ cat' = cat
    BY <1>4, CategoryNumbers DEF Categories!Create
  <2>2. CallIs(a, Categories!Idle) /\ Categories!Live' = Categories!Live
    BY <2>1, CallEnded, SameCategories
  <2> QED BY <1>1, <1>2, <2>1, <2>2, OtherCallsCount
<1> QED BY <1>3, <1>4

LEMMA DeleteCounts ==
  ASSUME CategoryTypes, Categories!CountsMapped, NEW a \in Handlers, Categories!Delete(a)
  PROVE  Categories!CountsMapped'
<1>1. edit[a].pc = "delete" /\ Categories!Idle.pc = "idle" /\ Categories!Idle \in EditRow
      /\ strayed' = strayed
  BY IdleGood DEF Categories!Delete
<1>2. CASE edit[a].id \in Categories!Live
  <2>1. PICK c : c = edit[a].id
    OBVIOUS
  <2>2. /\ Categories!Live' = Categories!Live \ {c}
        /\ \A x \in Nodes \ {c} : cat'[x].mapped = cat[x].mapped
        /\ maps' = [m \in Maps |-> IF maps[m] = c THEN 0 ELSE maps[m]]
        /\ Categories!Wrote(a, Categories!Idle)
    BY <1>2, <2>1, Deletion
  <2>3. CallIs(a, Categories!Idle)
    BY <1>1, <2>2, CallWrote
  <2>4. ASSUME NEW x \in Categories!Live' \ strayed' PROVE Counted(x)'
    <3>1. x \in Categories!Live \ strayed /\ x # c /\ x \in Nodes /\ x # 0
      BY <1>1, <2>2, LiveNodes, CategoryNumbers
    <3>2. Calling("up", x)' = Calling("up", x) /\ Calling("down", x)' = Calling("down", x)
      BY <1>1, <2>3, CallingKept
    <3>3. MappedTo(x)' = MappedTo(x)
      BY <2>2, <3>1 DEF MappedTo
    <3> QED BY <2>2, <3>1, <3>2, <3>3, CountsAre, CountedKept
  <2> QED BY <2>4, CountsAre
<1>3. CASE edit[a].id \notin Categories!Live
  <2>1. Categories!Return(a) /\ cat' = cat /\ maps' = maps
    BY <1>3 DEF Categories!Delete
  <2>2. CallIs(a, Categories!Idle) /\ Categories!Live' = Categories!Live
    BY <2>1, CallEnded, SameCategories
  <2> QED BY <1>1, <2>1, <2>2, OtherCallsCount
<1> QED BY <1>2, <1>3

LEMMA AddMappingCounts ==
  ASSUME CategoryTypes, Categories!CountsMapped, NEW a \in Handlers, NEW m \in Maps,
         NEW c \in Categories!Live, Categories!AddMapping(a, m, c)
  PROVE  Categories!CountsMapped'
<1>1. PICK e : CallIs(a, e) /\ e.pc = "up" /\ e.id = c
  BY MappingTypes
<1>2. /\ edit[a].pc = "idle" /\ maps[m] = 0 /\ maps' = [maps EXCEPT ![m] = c]
      /\ cat' = cat /\ strayed' = strayed /\ maps \in [Maps -> Nodes \cup {0}]
      /\ Categories!Live' = Categories!Live /\ c # 0
  BY SameCategories, LiveNodes, CategoryNumbers DEF Categories!AddMapping, CategoryTypes
<1>3. ASSUME NEW x \in Categories!Live \ strayed PROVE Counted(x)'
  <2>1. Calling("down", x)' = Calling("down", x) /\ Counted(x) /\ cat'[x].mapped = cat[x].mapped
    BY <1>1, <1>2, CallingKept, CountsAre
  <2>2. CASE x = c
    <3>1. Calling("up", c)' = Calling("up", c) \cup {a} /\ a \notin Calling("up", c)
      BY <1>1, <1>2, CallingBegun
    <3>2. MappedTo(c)' = MappedTo(c) \cup {m} /\ m \notin MappedTo(c)
      BY <1>2 DEF MappedTo
    <3>3. Cardinality(Calling("up", c) \cup {a}) = Cardinality(Calling("up", c)) + 1
      BY <3>1, CountTypesOf, FS_AddElement
    <3>4. Cardinality(MappedTo(c) \cup {m}) = Cardinality(MappedTo(c)) + 1
      BY <3>2, CountTypesOf, FS_AddElement
    <3>5. cat[c].mapped \in Int
      BY LiveNodes DEF NodeRow
    <3>6. /\ cat'[c].mapped = cat[c].mapped + 0
          /\ Cardinality(Calling("up", c)') = Cardinality(Calling("up", c)) + 1
          /\ Cardinality(Calling("down", c)') = Cardinality(Calling("down", c)) + 0
          /\ Cardinality(MappedTo(c)') = Cardinality(MappedTo(c)) + 1
      BY <2>1, <2>2, <3>1, <3>2, <3>3, <3>4, <3>5, CountTypesOf
    <3>7. 0 + 1 - 0 = 1
      OBVIOUS
    <3> QED BY <2>1, <2>2, <3>5, <3>6, <3>7, CountedMoved
  <2>3. CASE x # c
    <3>1. Calling("up", x)' = Calling("up", x)
      BY <1>1, <1>2, <2>3, CallingKept
    <3>2. MappedTo(x)' = MappedTo(x)
      <4>1. x # 0
        BY LiveNodes, CategoryNumbers
      <4> QED BY <1>2, <2>3, <4>1 DEF MappedTo
    <3> QED BY <2>1, <3>1, <3>2, CountedKept
  <2> QED BY <2>2, <2>3
<1> QED BY <1>2, <1>3, CountsAre

LEMMA DeleteMappingCounts ==
  ASSUME CategoryTypes, Categories!CountsMapped, NEW a \in Handlers, NEW m \in Maps,
         NEW c \in Categories!Live, Categories!DeleteMapping(a, m, c)
  PROVE  Categories!CountsMapped'
<1>1. /\ edit[a].pc = "idle" /\ maps[m] # 0 /\ maps' = [maps EXCEPT ![m] = 0]
      /\ cat' = cat /\ maps \in [Maps -> Nodes \cup {0}]
      /\ strayed' = IF maps[m] = c THEN strayed ELSE strayed \cup {c, maps[m]}
      /\ Categories!Live' = Categories!Live /\ c # 0
  BY SameCategories, LiveNodes, CategoryNumbers
  DEF Categories!DeleteMapping, Categories!Deletable, CategoryTypes
<1>2. PICK e : CallIs(a, e) /\ e.pc = "down" /\ e.id = c
  <2>1. ~Categories!AddMapping(a, m, c)
    BY <1>1, CategoryNumbers DEF Categories!AddMapping
  <2> QED BY <2>1, MappingTypes
<1>3. ASSUME NEW x \in Categories!Live' \ strayed' PROVE Counted(x)'
  <2>1. x \in Categories!Live \ strayed /\ x # 0
    BY <1>1, LiveNodes, CategoryNumbers
  <2>2. Calling("up", x)' = Calling("up", x) /\ Counted(x) /\ cat'[x].mapped = cat[x].mapped
    BY <1>1, <1>2, <2>1, CallingKept, CountsAre
  <2>3. CASE x = c
    <3>1. maps[m] = c
      BY <1>1, <1>3, <2>3
    <3>2. Calling("down", c)' = Calling("down", c) \cup {a} /\ a \notin Calling("down", c)
      BY <1>1, <1>2, CallingBegun
    <3>3. MappedTo(c)' = MappedTo(c) \ {m} /\ m \in MappedTo(c)
      BY <1>1, <3>1 DEF MappedTo
    <3>4. Cardinality(Calling("down", c) \cup {a}) = Cardinality(Calling("down", c)) + 1
      BY <3>2, CountTypesOf, FS_AddElement
    <3>5. Cardinality(MappedTo(c) \ {m}) = Cardinality(MappedTo(c)) - 1
      BY <3>3, CountTypesOf, FS_RemoveElement
    <3>6. cat[c].mapped \in Int
      BY LiveNodes DEF NodeRow
    <3>7. /\ cat'[c].mapped = cat[c].mapped + 0
          /\ Cardinality(Calling("up", c)') = Cardinality(Calling("up", c)) + 0
          /\ Cardinality(Calling("down", c)') = Cardinality(Calling("down", c)) + 1
          /\ Cardinality(MappedTo(c)') = Cardinality(MappedTo(c)) + (-1)
      <4>1. Cardinality(Calling("up", c)') = Cardinality(Calling("up", c)) + 0
        BY <2>2, <2>3, CountTypesOf
      <4>2. Cardinality(Calling("down", c)') = Cardinality(Calling("down", c)) + 1
        BY <3>2, <3>4
      <4>3. Cardinality(MappedTo(c)') = Cardinality(MappedTo(c)) + (-1)
        <5>1. Cardinality(MappedTo(c)') = Cardinality(MappedTo(c)) - 1
          BY <3>3, <3>5
        <5> QED BY <5>1, CountTypesOf
      <4>4. cat'[c].mapped = cat[c].mapped + 0
        BY <2>2, <2>3, <3>6
      <4> QED BY <4>1, <4>2, <4>3, <4>4
    <3>8. 0 + 0 - 1 = -1
      OBVIOUS
    <3> QED BY <2>2, <2>3, <3>6, <3>7, <3>8, CountedMoved
  <2>4. CASE x # c
    <3>1. Calling("down", x)' = Calling("down", x)
      BY <1>1, <1>2, <2>4, CallingKept
    <3>2. x # maps[m]
      BY <1>1, <1>3, <2>4
    <3>3. MappedTo(x)' = MappedTo(x)
      BY <1>1, <2>1, <3>2 DEF MappedTo
    <3> QED BY <2>2, <3>1, <3>3, CountedKept
  <2> QED BY <2>3, <2>4
<1> QED BY <1>3, CountsAre

LEMMA CountMappingCounts ==
  ASSUME CategoryTypes, Categories!CountsMapped, NEW a \in Handlers, Categories!CountMapping(a)
  PROVE  Categories!CountsMapped'
<1>1. PICK c : c = edit[a].id
  OBVIOUS
<1>2. PICK k : k = edit[a].pc
  OBVIOUS
<1>3. /\ k \in {"up", "down"} /\ maps' = maps /\ strayed' = strayed
      /\ Categories!Idle.pc = "idle" /\ Categories!Idle \in EditRow
  BY <1>2, IdleGood DEF Categories!CountMapping
<1>4. CallIs(a, Categories!Idle)
  BY <1>3, CallWrote, CallEnded DEF Categories!CountMapping
<1>5. ASSUME NEW x, x # c, cat'[x].mapped = cat[x].mapped, Counted(x) PROVE Counted(x)'
  <2>1. Calling("up", x)' = Calling("up", x) /\ Calling("down", x)' = Calling("down", x)
    BY <1>1, <1>3, <1>4, <1>5, CallingKept
  <2>2. MappedTo(x)' = MappedTo(x)
    BY <1>3 DEF MappedTo
  <2> QED BY <1>5, <2>1, <2>2, CountedKept
<1>6. CASE c \in Categories!Live
  <2>1. /\ cat' = [cat EXCEPT ![c].mapped = IF k = "up" THEN @ + 1 ELSE @ - 1]
        /\ cat \in [Nodes -> NodeRow] /\ c \in Nodes
    BY <1>1, <1>2, <1>6, LiveNodes DEF Categories!CountMapping, CategoryTypes
  <2>2. cat[c].mapped \in Int
    BY <1>6, LiveNodes DEF NodeRow
  <2>3. cat'[c].mapped = IF k = "up" THEN cat[c].mapped + 1 ELSE cat[c].mapped - 1
    BY <2>1 DEF NodeRow
  <2>4. \A x \in Nodes \ {c} : cat'[x] = cat[x]
    BY <2>1
  <2>5. Categories!Live' = Categories!Live
    <3>1. \A x \in Nodes \ {c} : x \in Categories!Live' <=> x \in Categories!Live
      BY <2>4 DEF Categories!Live, Nodes, Categories!None, Categories!Gone
    <3>2. c \in Categories!Live'
      <4>1. cat'[c].name = cat[c].name /\ cat[c].name \in TwoProducts
        BY <1>6, <2>1, LiveNodes DEF NodeRow
      <4>2. cat'[c] \notin {Categories!None, Categories!Gone}
        BY <4>1, CategoryRows
      <4> QED BY <2>1, <4>2 DEF Categories!Live, Nodes, Categories!None, Categories!Gone
    <3>3. Categories!Live \subseteq Nodes /\ Categories!Live' \subseteq Nodes
      BY DEF Categories!Live, Nodes
    <3> QED BY <1>6, <3>1, <3>2, <3>3
  <2>6. ASSUME Counted(c) PROVE Counted(c)'
    <3>1. MappedTo(c)' = MappedTo(c)
      BY <1>3 DEF MappedTo
    <3>2. edit[a].pc = k /\ edit[a].id = c /\ Categories!Idle.pc # k
      BY <1>1, <1>2, <1>3
    <3>3. Calling(k, c)' = Calling(k, c) \ {a} /\ a \in Calling(k, c)
      BY <1>4, <3>2, CallingEnded
    <3>4. \A o \in {"up", "down"} \ {k} : Calling(o, c)' = Calling(o, c)
      <4> TAKE o \in {"up", "down"} \ {k}
      <4>1. ~(edit[a].pc = o /\ edit[a].id = c) /\ ~(Categories!Idle.pc = o /\ Categories!Idle.id = c)
        BY <1>3, <3>2
      <4> QED BY <1>4, <4>1, CallingKept
    <3>5. Cardinality(Calling(k, c) \ {a}) = Cardinality(Calling(k, c)) - 1
      BY <1>3, <3>3, CountTypesOf, FS_RemoveElement
    <3>6. CASE k = "up"
      <4>a. PICK dm \in Int, du \in Int, n \in Int : dm = 1 /\ du = -1 /\ n = 0
        OBVIOUS
      <4>1. /\ Cardinality(Calling("up", c)') = Cardinality(Calling("up", c)) + du
            /\ Cardinality(Calling("down", c)') = Cardinality(Calling("down", c)) + n
            /\ Cardinality(MappedTo(c)') = Cardinality(MappedTo(c)) + n
        <5>1. Calling("down", c)' = Calling("down", c)
          BY <3>4, <3>6
        <5>2. Cardinality(Calling("up", c)') = Cardinality(Calling("up", c)) - 1
          BY <3>3, <3>5, <3>6
        <5> QED BY <3>1, <4>a, <5>1, <5>2, CountTypesOf
      <4>2. cat'[c].mapped = cat[c].mapped + dm /\ dm + du - n = n
        BY <2>3, <3>6, <4>a
      <4> QED BY <2>2, <2>6, <4>1, <4>2, CountedMoved
    <3>7. CASE k = "down"
      <4>a. PICK dm \in Int, n \in Int : dm = -1 /\ n = 0
        OBVIOUS
      <4>1. /\ Cardinality(Calling("up", c)') = Cardinality(Calling("up", c)) + n
            /\ Cardinality(Calling("down", c)') = Cardinality(Calling("down", c)) + dm
            /\ Cardinality(MappedTo(c)') = Cardinality(MappedTo(c)) + n
        <5>1. Calling("up", c)' = Calling("up", c)
          BY <3>4, <3>7
        <5>2. Cardinality(Calling("down", c)') = Cardinality(Calling("down", c)) - 1
          BY <3>3, <3>5, <3>7
        <5> QED BY <3>1, <4>a, <5>1, <5>2, CountTypesOf
      <4>2. cat'[c].mapped = cat[c].mapped + dm /\ dm + n - dm = n
        BY <2>2, <2>3, <3>7, <4>a
      <4> QED BY <2>2, <2>6, <4>1, <4>2, CountedMoved
    <3> QED BY <1>3, <3>6, <3>7
  <2>7. ASSUME NEW x \in Categories!Live' \ strayed' PROVE Counted(x)'
    <3>1. Counted(x) /\ x \in Nodes
      BY <1>3, <2>5, CountsAre, LiveNodes
    <3> QED BY <1>5, <2>4, <2>6, <3>1
  <2> QED BY <2>7, CountsAre
<1>7. CASE c \notin Categories!Live
  <2>1. cat' = cat
    BY <1>1, <1>7 DEF Categories!CountMapping
  <2>2. Categories!Live' = Categories!Live
    BY <2>1, SameCategories
  <2>3. \A x \in Categories!Live' \ strayed' : Counted(x) /\ x # c /\ cat'[x].mapped = cat[x].mapped
    BY <1>3, <1>7, <2>1, <2>2, CountsAre
  <2> QED BY <1>5, <2>3, CountsAre
<1> QED BY <1>6, <1>7

LEMMA BreakOffCounts ==
  ASSUME CategoryTypes, Categories!CountsMapped, NEW a \in Handlers, Categories!BreakOff(a)
  PROVE  Categories!CountsMapped'
<1>1. /\ cat' = cat /\ maps' = maps /\ Categories!Live' = Categories!Live
      /\ CallIs(a, Categories!Idle) /\ Categories!Idle.pc = "idle"
      /\ strayed' = IF edit[a].pc \in {"up", "down"} THEN strayed \cup {edit[a].id} ELSE strayed
  BY SameCategories, CallEnded, IdleGood DEF Categories!BreakOff
<1>2. ASSUME NEW x \in Categories!Live' \ strayed' PROVE Counted(x)'
  <2>1. Counted(x) /\ cat'[x].mapped = cat[x].mapped
    BY <1>1, CountsAre
  <2>2. Calling("up", x)' = Calling("up", x) /\ Calling("down", x)' = Calling("down", x)
    BY <1>1, <1>2, CallingKept
  <2>3. MappedTo(x)' = MappedTo(x)
    BY <1>1 DEF MappedTo
  <2> QED BY <2>1, <2>2, <2>3, CountedKept
<1> QED BY <1>2, CountsAre

LEMMA RenamingCounts ==
  ASSUME CategoryTypes, Categories!CountsMapped, NEW a \in Handlers,
         Categories!Rename(a) \/ \E d \in edit[a].todo : Categories!RewriteOne(a, d)
  PROVE  Categories!CountsMapped'
<1>1. edit[a].pc = "rewrite" /\ maps' = maps /\ strayed' = strayed
  BY DEF Categories!Rename, Categories!RewriteOne
<1>2. ASSUME NEW x, WrittenIn(x), NEW e, CallIs(a, e), e.pc \in {"idle", "rewrite"}
      PROVE  Categories!CountsMapped'
  <2>1. /\ Categories!Live' = Categories!Live
        /\ \A c \in Categories!Live' : cat'[c].mapped = cat[c].mapped
    BY <1>2, LiveNodes DEF WrittenIn
  <2> QED BY <1>1, <1>2, <2>1, OtherCallsCount
<1>3. ASSUME Categories!Return(a), cat' = cat PROVE Categories!CountsMapped'
  <2>1. CallIs(a, Categories!Idle) /\ Categories!Idle.pc = "idle"
    BY <1>3, CallEnded, IdleGood
  <2>2. Categories!Live' = Categories!Live
    BY <1>3, SameCategories
  <2> QED BY <1>1, <1>3, <2>1, <2>2, OtherCallsCount
<1>4. CASE Categories!Rename(a)
  BY <1>2, <1>3, <1>4, RenameTypes, IdleGood DEF Categories!Rename
<1>5. ASSUME NEW d \in edit[a].todo, Categories!RewriteOne(a, d) PROVE Categories!CountsMapped'
  BY <1>2, <1>3, <1>5, RewriteTypes DEF Categories!RewriteOne
<1> QED BY <1>4, <1>5

LEMMA ReadingCounts ==
  ASSUME CategoryTypes, Categories!CountsMapped, NEW a \in Handlers,
         \/ \E p \in Categories!Live \cup {Categories!Root}, n \in TwoProducts :
              Categories!ReadParent(a, p, n)
         \/ \E c \in Categories!Live, n \in TwoProducts : Categories!ReadCategory(a, c, n)
         \/ Categories!FindDescendants(a)
         \/ \E c \in Categories!Live : Categories!CountChildren(a, c)
  PROVE  Categories!CountsMapped'
<1>1. /\ edit[a].pc \in {"idle", "find"} /\ cat' = cat /\ maps' = maps /\ strayed' = strayed
  BY DEF Categories!ReadParent, Categories!ReadCategory, Categories!FindDescendants,
         Categories!CountChildren, Categories!Begin
<1>2. PICK e : CallIs(a, e) /\ e.pc \in {"create", "find", "rewrite", "delete"}
  BY ReadParentTypes, ReadCategoryTypes, FindTypes, CountChildrenTypes
<1>3. Categories!Live' = Categories!Live
  BY <1>1, SameCategories
<1> QED BY <1>1, <1>2, <1>3, OtherCallsCount

LEMMA CountsStep ==
  ASSUME CategoryTypes, Categories!CountsMapped, [Categories!Next]_categoryVars
  PROVE  Categories!CountsMapped'
<1>1. ASSUME NEW a \in Handlers,
         \/ \E p \in Categories!Live \cup {Categories!Root}, n \in TwoProducts :
              Categories!ReadParent(a, p, n)
         \/ \E c \in Categories!Live, n \in TwoProducts : Categories!ReadCategory(a, c, n)
         \/ Categories!FindDescendants(a)
         \/ \E c \in Categories!Live : Categories!CountChildren(a, c)
      PROVE  Categories!CountsMapped'
  BY <1>1, ReadingCounts
<1>2. ASSUME NEW a \in Handlers, NEW c \in Nodes, Categories!Create(a, c)
      PROVE  Categories!CountsMapped'
  BY <1>2, CreateCounts
<1>3. ASSUME NEW a \in Handlers,
             Categories!Rename(a) \/ \E d \in edit[a].todo : Categories!RewriteOne(a, d)
      PROVE  Categories!CountsMapped'
  BY <1>3, RenamingCounts
<1>4. ASSUME NEW a \in Handlers, Categories!Delete(a) PROVE Categories!CountsMapped'
  BY <1>4, DeleteCounts
<1>5. ASSUME NEW a \in Handlers, NEW m \in Maps, NEW c \in Categories!Live,
             Categories!AddMapping(a, m, c)
      PROVE  Categories!CountsMapped'
  BY <1>5, AddMappingCounts
<1>6. ASSUME NEW a \in Handlers, NEW m \in Maps, NEW c \in Categories!Live,
             Categories!DeleteMapping(a, m, c)
      PROVE  Categories!CountsMapped'
  BY <1>6, DeleteMappingCounts
<1>7. ASSUME NEW a \in Handlers, Categories!CountMapping(a) PROVE Categories!CountsMapped'
  BY <1>7, CountMappingCounts
<1>8. ASSUME NEW a \in Handlers, Categories!BreakOff(a) PROVE Categories!CountsMapped'
  BY <1>8, BreakOffCounts
<1>9. CASE UNCHANGED categoryVars
  <2>1. \A c : Counted(c) => Counted(c)'
    BY <1>9 DEF Counted, Calling, MappedTo, categoryVars
  <2>2. Categories!Live' = Categories!Live /\ strayed' = strayed
    BY <1>9 DEF categoryVars, Categories!Live, Categories!None, Categories!Gone
  <2> QED BY <2>1, <2>2, CountsAre
<1> QED
  BY <1>1, <1>2, <1>3, <1>4, <1>5, <1>6, <1>7, <1>8, <1>9 DEF Categories!Next, Nodes

LEMMA CountsInit == Categories!Init => Categories!CountsMapped
<1> SUFFICES ASSUME Categories!Init, NEW c \in Categories!Live \ strayed PROVE Counted(c)
  BY CountsAre
<1>1. /\ maps = [m \in Maps |-> 0] /\ edit = [a \in Handlers |-> Categories!Idle]
      /\ Categories!Idle.pc = "idle" /\ c \in Nodes /\ c # 0
  BY CategoryNumbers, CategoryRows, BranchNodes DEF Categories!Init
<1>2. Calling("up", c) = {} /\ Calling("down", c) = {} /\ MappedTo(c) = {}
  BY <1>1 DEF Calling, MappedTo
<1>3. cat[c].mapped = 0
  <2>1. PICK n \in TwoProducts, k \in 0..Size :
          cat = [x \in Nodes |->
            IF x > k THEN Categories!None
            ELSE [parent |-> x - 1, name |-> n, path |-> [i \in 1..x |-> n], level |-> x, mapped |-> 0]]
    BY DEF Categories!Init, Nodes
  <2> QED BY <1>1, <2>1, CategoryRows
<1>4. Cardinality({}) = 0
  BY FS_EmptySet
<1> QED BY <1>2, <1>3, <1>4 DEF Counted
-----------------------------------------------------------------------------
(* The tree of categories: what is below a category *)

LEMMA BelowSelf == \A c \in Categories!Live : c \in Categories!Below(c)
BY DEF Categories!Below

\* What is below a category is closed under children, and so is a set of branches.
LEMMA BelowClosed ==
  /\ \A c : Categories!Closed(Categories!Below(c))
  /\ \A c : Categories!Children(c) \subseteq Categories!Below(c)
  /\ \A C : Categories!Closed(Categories!Branches(C))
<1>1. \A c, d : d \in Categories!Children(c) => d \in Categories!Live
  BY DEF Categories!Children
<1>2. ASSUME NEW c, NEW x \in Categories!Below(c), NEW d \in Categories!Children(x)
      PROVE  d \in Categories!Below(c)
  BY <1>1, <1>2 DEF Categories!Below, Categories!Closed
<1>3. ASSUME NEW c, NEW d \in Categories!Children(c)
      PROVE  d \in Categories!Below(c)
  BY <1>1, <1>3 DEF Categories!Below, Categories!Closed
<1>4. \A c : Categories!Closed(Categories!Below(c))
  BY <1>2 DEF Categories!Closed
<1>5. ASSUME NEW C PROVE Categories!Closed(Categories!Branches(C))
  BY <1>2 DEF Categories!Closed, Categories!Branches
<1> QED BY <1>3, <1>4, <1>5

\* A set of categories with it and their children has all that is below it.
LEMMA BelowLeast ==
  ASSUME NEW c, NEW S \in SUBSET Nodes, c \in S, Categories!Closed(S)
  PROVE  Categories!Below(c) \subseteq S
BY DEF Categories!Below, Nodes

\* The parent of what is below a category is the category or below it too.
LEMMA BelowParent ==
  ASSUME CategoryTypes, NEW c \in Nodes, NEW x \in Categories!Below(c), x # c
  PROVE  cat[x].parent \in Categories!Below(c) \cup {c}
<1> DEFINE S == {c} \cup {z \in Categories!Below(c) : cat[z].parent \in Categories!Below(c) \cup {c}}
<1>1. S \subseteq Nodes
  BY BranchNodes
<1>2. ASSUME NEW z \in S, NEW d \in Categories!Children(z) PROVE d \in S
  <2>1. cat[d].parent = z /\ z \in Categories!Below(c) \cup {c}
    BY <1>2 DEF Categories!Children
  <2>2. d \in Categories!Below(c)
    BY <2>1, BelowClosed DEF Categories!Closed
  <2> QED BY <2>1, <2>2
<1>3. Categories!Closed(S)
  BY <1>2 DEF Categories!Closed
<1>4. Categories!Below(c) \subseteq S
  BY <1>1, <1>3, BelowLeast
<1> QED BY <1>4

\* No category hangs below one that is gone.
LEMMA NoChildren ==
  ASSUME CategoryTypes, NEW c \in Nodes \ Categories!Live
  PROVE  Categories!Children(c) = {}
<1>1. c # 0
  BY CategoryNumbers
<1> QED BY <1>1, LiveNodes DEF Categories!Children
-----------------------------------------------------------------------------
(* The tree of categories: paths follow their parents *)

Follows(x) ==
  /\ cat[x].path = IF cat[x].parent = 0 THEN <<cat[x].name>>
                   ELSE Append(cat[cat[x].parent].path, cat[x].name)
  /\ cat[x].level = Len(cat[x].path)

\* What is in motion but for one call, and for all of them
MovingFor(a) ==
  odd \cup UNION {Categories!Reach(b) : b \in {h \in Handlers \ {a} : edit[h].pc = "rewrite"}}
Moving == odd \cup Categories!Renaming

\* The path a category has once a renaming is done
Will(a, x) ==
  IF x = edit[a].id THEN Categories!NewPath(a)
  ELSE IF <<x, cat[x].path>> \in edit[a].todo
    THEN Shifted(Categories!NewPath(a), cat[x].path, Len(edit[a].from))
  ELSE cat[x].path

\* A renaming that met no other will leave every path below the category right.
WillFollow(a, x) ==
  /\ Will(a, x) = Append(Will(a, cat[x].parent), cat[x].name)
  /\ cat[x].level = Len(Will(a, x))

RenamesAll(a) ==
  /\ \A d \in edit[a].todo : d[1] \in Categories!Live /\ d[2] = cat[d[1]].path
  /\ edit[a].id \notin MovingFor(a) => Follows(edit[a].id)
  /\ \A x \in Categories!Below(edit[a].id) \ (MovingFor(a) \cup {edit[a].id}) : WillFollow(a, x)

FoundBelow(a) ==
  edit[a].pc = "rewrite" =>
    edit[a].found \cap Categories!Live \subseteq Categories!Below(edit[a].id) \cup odd

SureCall(a) ==
  /\ FoundBelow(a)
  /\ ~edit[a].met => AsRead(edit[a]) /\ (edit[a].pc = "rewrite" => RenamesAll(a))

PathInv ==
  /\ Categories!Closed(odd)
  /\ \A a \in Handlers : SureCall(a)
  /\ \A x \in Categories!Live \ Moving : Follows(x)

LEMMA PathsFollowEvery == PathInv => Categories!PathsFollow
BY CategoryNumbers DEF PathInv, Follows, Categories!PathsFollow, Moving

\* What is in motion is closed under children.
LEMMA MovingClosed ==
  ASSUME CategoryTypes, PathInv
  PROVE  /\ Moving \subseteq Nodes /\ Categories!Closed(Moving)
         /\ \A a \in Handlers : Categories!Closed(odd \cup Categories!Reach(a)) \/ edit[a].pc # "rewrite"
<1>1. ASSUME NEW a \in Handlers, edit[a].pc = "rewrite", NEW x \in Categories!Reach(a),
             NEW d \in Categories!Children(x)
      PROVE  d \in Categories!Reach(a) \cup odd
  <2>1. CASE x \in Categories!Below(edit[a].id)
    BY <1>1, <2>1, BelowClosed DEF Categories!Closed, Categories!Reach
  <2>2. CASE x \in edit[a].found /\ x \in Categories!Live
    <3>1. x \in Categories!Below(edit[a].id) \cup odd
      BY <1>1, <2>2 DEF PathInv, SureCall, FoundBelow
    <3> QED BY <1>1, <2>1, <3>1 DEF PathInv, Categories!Closed
  <2>3. CASE x \in edit[a].found /\ x \notin Categories!Live
    <3>1. x \in Nodes
      BY <1>1, ReachNodes
    <3> QED BY <1>1, <2>3, <3>1, NoChildren
  <2> QED BY <1>1, <2>1, <2>2, <2>3 DEF Categories!Reach
<1>2. Categories!Closed(Moving)
  BY <1>1 DEF Categories!Closed, Moving, Categories!Renaming, PathInv
<1>3. Moving \subseteq Nodes
  BY ReachNodes DEF Moving, Categories!Renaming, CategoryTypes
<1>4. \A a \in Handlers : Categories!Closed(odd \cup Categories!Reach(a)) \/ edit[a].pc # "rewrite"
  BY <1>1 DEF Categories!Closed, PathInv
<1> QED BY <1>2, <1>3, <1>4

\* Where every category hangs as it did, the same are below each.
LEMMA SameBelow ==
  ASSUME Categories!Live' = Categories!Live,
         \A x \in Categories!Live : cat'[x].parent = cat[x].parent
  PROVE  /\ \A c : Categories!Children(c)' = Categories!Children(c)
         /\ \A c : Categories!Below(c)' = Categories!Below(c)
         /\ \A S : Categories!Closed(S)' <=> Categories!Closed(S)
<1>1. ASSUME NEW c PROVE Categories!Children(c)' = Categories!Children(c)
  BY DEF Categories!Children
<1>2. ASSUME NEW S PROVE Categories!Closed(S)' <=> Categories!Closed(S)
  BY <1>1 DEF Categories!Closed
<1>3. ASSUME NEW c PROVE Categories!Below(c)' = Categories!Below(c)
  BY <1>2 DEF Categories!Below, Categories!Ids
<1> QED BY <1>1, <1>2, <1>3

LEMMA FollowsSame ==
  ASSUME CategoryTypes, TreeSame, NEW x \in Categories!Live, Follows(x)
  PROVE  Follows(x)'
<1>1. cat[x].parent # 0 => cat[x].parent \in Categories!Live
  BY LiveNodes
<1>2. PICK p : p = cat[x].parent
  OBVIOUS
<1>3. p # 0 => cat'[p].path = cat[p].path
  BY <1>1, <1>2 DEF TreeSame
<1>4. /\ cat'[x].parent = p /\ cat'[x].name = cat[x].name /\ cat'[x].path = cat[x].path
      /\ cat'[x].level = cat[x].level
  BY <1>2 DEF TreeSame
<1>5. /\ cat[x].path = IF p = 0 THEN <<cat[x].name>> ELSE Append(cat[p].path, cat[x].name)
      /\ cat[x].level = Len(cat[x].path)
  BY <1>2 DEF Follows
<1>6. /\ cat'[x].path = IF p = 0 THEN <<cat'[x].name>> ELSE Append(cat'[p].path, cat'[x].name)
      /\ cat'[x].level = Len(cat'[x].path)
  BY <1>3, <1>4, <1>5
<1> QED BY <1>4, <1>6 DEF Follows

LEMMA NewPathSame ==
  ASSUME NEW b \in Handlers, SameCall(b)
  PROVE  Categories!NewPath(b)' = Categories!NewPath(b)
BY DEF SameCall, Categories!NewPath

LEMMA WillSame ==
  ASSUME TreeSame, NEW b \in Handlers, SameCall(b), NEW x \in Categories!Live
  PROVE  Will(b, x)' = Will(b, x)
<1>1. /\ cat'[x].path = cat[x].path /\ edit'[b].id = edit[b].id /\ edit'[b].todo = edit[b].todo
      /\ edit'[b].from = edit[b].from
  BY DEF TreeSame, SameCall
<1> QED BY <1>1, NewPathSame DEF Will

LEMMA AsReadSame ==
  ASSUME CategoryTypes, TreeSame, NEW b \in Handlers, SameCall(b), AsRead(edit[b])
  PROVE  AsRead(edit[b])'
<1>1. PICK c : c = edit[b].id
  OBVIOUS
<1>2. PICK p : p = cat[c].path
  OBVIOUS
<1>3. PICK l : l = cat[c].level
  OBVIOUS
<1>4. PICK q : q = cat[c].parent
  OBVIOUS
<1>5. /\ edit'[b].pc = edit[b].pc /\ edit'[b].id = c /\ edit'[b].name = edit[b].name
      /\ edit'[b].from = edit[b].from /\ edit'[b].level = edit[b].level
  BY <1>1 DEF SameCall
<1>6. c \in Categories!Live => cat'[c].path = p /\ cat'[c].level = l /\ cat'[c].parent = q
  BY <1>2, <1>3, <1>4 DEF TreeSame
<1>7. Categories!Live' = Categories!Live
  BY DEF TreeSame
<1>8. edit[b].pc = "create" =>
        IF c = 0 THEN edit[b].from = <<edit[b].name>> /\ edit[b].level = 1
        ELSE c \in Categories!Live /\ edit[b].from = Append(p, edit[b].name) /\ edit[b].level = l + 1
  BY <1>1, <1>2, <1>3 DEF AsRead
<1>9. edit[b].pc \in {"find", "rewrite"} =>
        /\ c \in Categories!Live /\ edit[b].from = p
        /\ edit[b].level = IF q = 0 THEN 1 ELSE Len(edit[b].from)
  BY <1>1, <1>2, <1>4 DEF AsRead
<1>10. edit'[b].pc = "create" =>
        IF c = 0 THEN edit'[b].from = <<edit'[b].name>> /\ edit'[b].level = 1
        ELSE /\ c \in Categories!Live' /\ edit'[b].from = Append(cat'[c].path, edit'[b].name)
             /\ edit'[b].level = cat'[c].level + 1
  BY <1>5, <1>6, <1>7, <1>8
<1>11. edit'[b].pc \in {"find", "rewrite"} =>
        /\ c \in Categories!Live' /\ edit'[b].from = cat'[c].path
        /\ edit'[b].level = IF cat'[c].parent = 0 THEN 1 ELSE Len(edit'[b].from)
  BY <1>5, <1>6, <1>7, <1>9
<1> QED BY <1>5, <1>10, <1>11 DEF AsRead

\* Another's step, with the tree as it was and no less in motion
LEMMA RenamesAllSame ==
  ASSUME CategoryTypes, TreeSame, NEW b \in Handlers, SameCall(b), RenamesAll(b),
         AsRead(edit[b]), edit[b].pc = "rewrite",
         MovingFor(b) \cap Categories!Live \subseteq MovingFor(b)'
  PROVE  RenamesAll(b)'
<1>1. PICK c : c = edit[b].id
  OBVIOUS
<1>2. /\ edit'[b].id = c /\ edit'[b].todo = edit[b].todo /\ c \in Categories!Live /\ c \in Nodes
      /\ Categories!Live' = Categories!Live
  BY <1>1, LiveNodes DEF SameCall, AsRead, TreeSame
<1>3. \A d \in edit'[b].todo : d[1] \in Categories!Live' /\ d[2] = cat'[d[1]].path
  BY <1>2 DEF RenamesAll, TreeSame
<1>4. ASSUME c \notin MovingFor(b)' PROVE Follows(c)'
  <2>1. c \notin MovingFor(b)
    BY <1>2, <1>4
  <2>2. Follows(c)
    BY <1>1, <2>1 DEF RenamesAll
  <2> QED BY <1>2, <2>2, FollowsSame
<1>5. Categories!Below(c)' = Categories!Below(c)
  BY SameBelow DEF TreeSame
<1>6. ASSUME NEW x \in Categories!Below(c) \ (MovingFor(b)' \cup {c}) PROVE WillFollow(b, x)'
  <2>1. x \in Categories!Live
    BY <1>6 DEF Categories!Below
  <2>2. x \in Categories!Below(edit[b].id) \ (MovingFor(b) \cup {edit[b].id})
    BY <1>1, <1>6, <2>1
  <2>3. WillFollow(b, x)
    BY <2>2 DEF RenamesAll
  <2>4. PICK p : p = cat[x].parent
    OBVIOUS
  <2>5. p \in Categories!Live
    <3>1. p \in Categories!Below(c) \cup {c}
      BY <1>2, <1>6, <2>4, BelowParent
    <3> QED BY <1>2, <3>1 DEF Categories!Below
  <2>6. Will(b, x)' = Will(b, x) /\ Will(b, p)' = Will(b, p)
    BY <2>1, <2>5, WillSame
  <2>7. cat'[x].parent = p /\ cat'[x].name = cat[x].name /\ cat'[x].level = cat[x].level
    BY <2>1, <2>4 DEF TreeSame
  <2>8. Will(b, x) = Append(Will(b, p), cat[x].name) /\ cat[x].level = Len(Will(b, x))
    BY <2>3, <2>4 DEF WillFollow
  <2>9. Will(b, x)' = Append(Will(b, p)', cat'[x].name) /\ cat'[x].level = Len(Will(b, x)')
    BY <2>6, <2>7, <2>8
  <2>10. Will(b, cat[x].parent)' = Will(b, p)'
    BY <2>7 DEF Will
  <2> QED BY <2>9, <2>10 DEF WillFollow
<1> QED BY <1>2, <1>3, <1>4, <1>5, <1>6 DEF RenamesAll

\* A step that leaves the tree as it was, and what was in motion in motion or odd
LEMMA StillTree ==
  ASSUME CategoryTypes, PathInv, NEW a \in Handlers, NEW e, CallIs(a, e), TreeSame,
         Categories!Closed(odd'), odd \subseteq odd', 
         edit[a].pc = "rewrite" =>
           e.pc # "rewrite" /\ Categories!Reach(a) \cap Categories!Live \subseteq odd',
         SureCall(a)'
  PROVE  PathInv'
<1>1. \A b \in Handlers \ {a} : SameCall(b)
  BY DEF CallIs
<1>2. \A c : Categories!Below(c)' = Categories!Below(c)
  BY SameBelow DEF TreeSame
<1>3. ASSUME NEW b \in Handlers \ {a} PROVE Categories!Reach(b)' = Categories!Reach(b)
  <2>1. edit'[b].found = edit[b].found /\ edit'[b].id = edit[b].id
    BY <1>1 DEF SameCall
  <2>2. PICK c : c = edit[b].id
    OBVIOUS
  <2>3. Categories!Below(edit[b].id)' = Categories!Below(c)'
    BY <2>1, <2>2 DEF Categories!Below
  <2> QED BY <1>2, <2>1, <2>2, <2>3 DEF Categories!Reach
<1>4. ASSUME NEW b \in Handlers, NEW x \in Categories!Live, x \in MovingFor(b), b # a
      PROVE  x \in MovingFor(b)'
  <2>1. CASE x \in odd
    BY <2>1 DEF MovingFor
  <2>2. ASSUME NEW h \in Handlers \ {b}, edit[h].pc = "rewrite", x \in Categories!Reach(h)
        PROVE  x \in MovingFor(b)'
    <3>1. CASE h = a
      BY <2>2, <3>1 DEF MovingFor
    <3>2. CASE h # a
      <4>1. edit'[h].pc = "rewrite" /\ x \in Categories!Reach(h)'
        BY <1>1, <1>3, <2>2, <3>2 DEF SameCall
      <4> QED BY <2>2, <4>1 DEF MovingFor
    <3> QED BY <3>1, <3>2
  <2> QED BY <1>4, <2>1, <2>2 DEF MovingFor
<1>5. ASSUME NEW x \in Categories!Live, x \in Moving PROVE x \in Moving'
  <2>1. CASE x \in odd
    BY <2>1 DEF Moving
  <2>2. ASSUME NEW h \in Handlers, edit[h].pc = "rewrite", x \in Categories!Reach(h)
        PROVE  x \in Moving'
    <3>1. CASE h = a
      BY <2>2, <3>1 DEF Moving
    <3>2. CASE h # a
      <4>1. edit'[h].pc = "rewrite" /\ x \in Categories!Reach(h)'
        BY <1>1, <1>3, <2>2, <3>2 DEF SameCall
      <4> QED BY <4>1 DEF Moving, Categories!Renaming
    <3> QED BY <3>1, <3>2
  <2> QED BY <1>5, <2>1, <2>2 DEF Moving, Categories!Renaming
<1>6. ASSUME NEW b \in Handlers \ {a} PROVE SureCall(b)'
  <2>1. SureCall(b) /\ SameCall(b)
    BY <1>1 DEF PathInv
  <2>2. FoundBelow(b)'
    <3>1. edit'[b].pc = "rewrite" =>
            edit[b].found \cap Categories!Live \subseteq Categories!Below(edit[b].id) \cup odd
      BY <2>1 DEF SureCall, FoundBelow, SameCall
    <3>2. PICK c : c = edit[b].id
      OBVIOUS
    <3>3. edit'[b].id = c /\ edit'[b].found = edit[b].found
      BY <2>1, <3>2 DEF SameCall
    <3>4. Categories!Below(edit[b].id)' = Categories!Below(c)'
      BY <3>3 DEF Categories!Below
    <3>5. Categories!Live' = Categories!Live
      BY DEF TreeSame
    <3> QED BY <1>2, <3>1, <3>2, <3>3, <3>4, <3>5 DEF FoundBelow
  <2>3. ASSUME ~edit'[b].met
        PROVE  AsRead(edit[b])' /\ (edit'[b].pc = "rewrite" => RenamesAll(b)')
    <3>1. AsRead(edit[b]) /\ (edit[b].pc = "rewrite" => RenamesAll(b))
      BY <2>1, <2>3 DEF SureCall, SameCall
    <3>2. AsRead(edit[b])'
      BY <2>1, <3>1, AsReadSame
    <3>3. ASSUME edit'[b].pc = "rewrite" PROVE RenamesAll(b)'
      <4>1. edit[b].pc = "rewrite"
        BY <2>1, <3>3 DEF SameCall
      <4>2. MovingFor(b) \cap Categories!Live \subseteq MovingFor(b)'
        BY <1>4
      <4> QED BY <2>1, <3>1, <4>1, <4>2, RenamesAllSame
    <3> QED BY <3>2, <3>3
  <2> QED BY <2>2, <2>3 DEF SureCall
<1>7. \A b \in Handlers : SureCall(b)'
  BY <1>6
<1>8. ASSUME NEW x \in Categories!Live' \ Moving' PROVE Follows(x)'
  <2>1. x \in Categories!Live \ Moving
    BY <1>5, <1>8 DEF TreeSame
  <2>2. Follows(x)
    BY <2>1 DEF PathInv
  <2> QED BY <2>1, <2>2, FollowsSame
<1>9. Categories!Closed(odd)'
  <2>1. \A c : Categories!Children(c)' = Categories!Children(c)
    BY SameBelow DEF TreeSame
  <2> QED BY <2>1 DEF Categories!Closed
<1> QED BY <1>7, <1>8, <1>9 DEF PathInv

\* A call that begins or ends, the tree as it was
LEMMA QuietPath ==
  ASSUME CategoryTypes, PathInv, NEW a \in Handlers, NEW e, CallIs(a, e), TreeSame,
         e.pc # "rewrite", AsRead(e)', Categories!Closed(odd'), odd \subseteq odd',
         edit[a].pc = "rewrite" => Categories!Reach(a) \cap Categories!Live \subseteq odd'
  PROVE  PathInv'
<1>1. edit'[a] = e
  BY DEF CallIs
<1>2. SureCall(a)'
  BY <1>1 DEF SureCall, FoundBelow, AsRead
<1> QED BY <1>2, StillTree

LEMMA AsReadOther ==
  ASSUME NEW e, e.pc \notin {"create", "find", "rewrite"}
  PROVE  AsRead(e) /\ AsRead(e)'
BY DEF AsRead

LEMMA BeginPath ==
  ASSUME CategoryTypes, PathInv, NEW a \in Handlers,
         \/ \E p \in Categories!Live \cup {Categories!Root}, n \in TwoProducts :
              Categories!ReadParent(a, p, n)
         \/ \E c \in Categories!Live, n \in TwoProducts : Categories!ReadCategory(a, c, n)
         \/ \E c \in Categories!Live : Categories!CountChildren(a, c)
         \/ \E m \in Maps, c \in Categories!Live :
              Categories!AddMapping(a, m, c) \/ Categories!DeleteMapping(a, m, c)
  PROVE  PathInv'
<1>1. edit[a].pc = "idle" /\ cat' = cat /\ odd' = odd
  BY DEF Categories!ReadParent, Categories!ReadCategory, Categories!CountChildren,
         Categories!AddMapping, Categories!DeleteMapping, Categories!Begin
<1>2. PICK e : /\ CallIs(a, e) /\ e.pc \in {"create", "find", "delete", "up", "down"}
               /\ e.pc \in {"create", "find"} => AsRead(e)
  BY ReadParentTypes, ReadCategoryTypes, CountChildrenTypes, MappingTypes
<1>3. AsRead(e)
  BY <1>2, AsReadOther
<1>4. TreeSame
  BY <1>1, SameCategories DEF TreeSame
<1>5. AsRead(e)'
  BY <1>1, <1>3, <1>4 DEF AsRead, TreeSame
<1>6. Categories!Closed(odd')
  BY <1>1 DEF PathInv
<1> QED BY <1>1, <1>2, <1>4, <1>5, <1>6, QuietPath

\* A call that ends and writes nothing
LEMMA EndPath ==
  ASSUME CategoryTypes, PathInv, NEW a \in Handlers, CallIs(a, Categories!Idle), TreeSame,
         odd' = IF edit[a].pc = "rewrite" THEN odd \cup Categories!Reach(a) ELSE odd
  PROVE  PathInv'
<1>1. Categories!Idle.pc = "idle"
  BY IdleGood
<1>2. PICK e : e = Categories!Idle
  OBVIOUS
<1>3. AsRead(e)'
  BY <1>1, <1>2, AsReadOther
<1>4. Categories!Closed(odd')
  BY MovingClosed DEF PathInv
<1> QED BY <1>1, <1>2, <1>3, <1>4, QuietPath

LEMMA BreakOffPath ==
  ASSUME CategoryTypes, PathInv, NEW a \in Handlers, Categories!BreakOff(a)
  PROVE  PathInv'
<1>1. /\ cat' = cat /\ CallIs(a, Categories!Idle)
      /\ odd' = IF edit[a].pc = "rewrite" THEN odd \cup Categories!Reach(a) ELSE odd
  BY CallEnded DEF Categories!BreakOff
<1>2. TreeSame
  BY <1>1, SameCategories DEF TreeSame
<1> QED BY <1>1, <1>2, EndPath

LEMMA CountPath ==
  ASSUME CategoryTypes, PathInv, NEW a \in Handlers, Categories!CountMapping(a)
  PROVE  PathInv'
<1>1. edit[a].pc # "rewrite" /\ odd' = odd
  BY DEF Categories!CountMapping
<1>2. CallIs(a, Categories!Idle)
  BY IdleGood, CallWrote, CallEnded DEF Categories!CountMapping
<1> QED BY <1>1, <1>2, CountTypes, EndPath

\* Where nothing but the call's own renaming moves, all below its category is found.
LEMMA AllFound ==
  ASSUME CategoryTypes, PathInv, NEW c \in Categories!Live,
         NEW x \in Categories!Below(c) \ Moving
  PROVE  /\ Follows(x) /\ Follows(c) /\ x \in Categories!Live
         /\ x # c => Categories!IsStrictPrefix(cat[c].path, cat[x].path)
<1>1. Moving \subseteq Nodes /\ Categories!Closed(Moving)
  BY MovingClosed
<1>2. c \in Nodes /\ Categories!Live \subseteq Nodes
  BY LiveNodes
<1>3. x \in Categories!Live /\ x \in Nodes
  BY LiveNodes DEF Categories!Below
<1>4. c \notin Moving
  BY <1>1, BelowLeast
<1>5. Follows(x) /\ Follows(c)
  BY <1>3, <1>4 DEF PathInv
<1> DEFINE S == Moving \cup {c}
                \cup {z \in Categories!Live : Categories!IsStrictPrefix(cat[c].path, cat[z].path)}
<1>6. ASSUME NEW z \in S, NEW w \in Categories!Children(z), w \notin Moving
      PROVE  w \in S
  <2>1. w \in Categories!Live /\ cat[w].parent = z
    BY <1>6 DEF Categories!Children
  <2>2. z \notin Moving
    BY <1>1, <1>6 DEF Categories!Closed
  <2>3. z \in Categories!Live /\ z # 0
    BY <1>2, <1>6, <2>2, CategoryNumbers
  <2>4. z = c \/ Categories!IsStrictPrefix(cat[c].path, cat[z].path)
    BY <1>6, <2>2
  <2>5. cat[w].path = Append(cat[z].path, cat[w].name)
    BY <1>6, <2>1, <2>3 DEF PathInv, Follows
  <2>6. PICK f \in Seq(TwoProducts), s \in Seq(TwoProducts), n \in TwoProducts :
          f = cat[c].path /\ s = cat[z].path /\ n = cat[w].name
    BY <2>1, <2>3, LiveNodes
  <2>7. s = f \/ Categories!IsStrictPrefix(f, s)
    BY <2>4, <2>6
  <2>8. Categories!IsStrictPrefix(f, Append(s, n))
    BY <2>7, PathBelow
  <2> QED BY <2>1, <2>5, <2>6, <2>8
<1>7. Categories!Closed(S)
  BY <1>6 DEF Categories!Closed
<1>8. S \subseteq Nodes
  BY <1>1, <1>2
<1>9. Categories!Below(c) \subseteq S
  BY <1>7, <1>8, BelowLeast
<1> QED BY <1>3, <1>5, <1>9

\* The new path of a category that follows its parent is as long as the old.
LEMMA NewPathLong ==
  ASSUME CategoryTypes, NEW a \in Handlers, edit[a].pc \in {"find", "rewrite"},
         AsRead(edit[a]), Follows(edit[a].id)
  PROVE  /\ Len(Categories!NewPath(a)) = Len(edit[a].from)
         /\ Categories!NewPath(a) =
              IF cat[edit[a].id].parent = 0 THEN <<edit[a].name>>
              ELSE Append(cat[cat[edit[a].id].parent].path, edit[a].name)
<1>1. PICK c \in Categories!Live, f \in Seq(TwoProducts), n \in TwoProducts :
        /\ c = edit[a].id /\ f = cat[c].path /\ n = edit[a].name /\ f = edit[a].from
        /\ edit[a].level = IF cat[c].parent = 0 THEN 1 ELSE Len(f)
  BY NewPathTyped DEF AsRead
<1>2. Len(Categories!NewPath(a)) = IF edit[a].level = 1 THEN 1 ELSE Len(f)
  BY <1>1, NewPathTyped
<1>3. Categories!NewPath(a) = IF edit[a].level = 1 THEN <<n>> ELSE Append(Categories!Front(f), n)
  BY <1>1 DEF Categories!NewPath
<1>4. CASE cat[c].parent = 0
  <2>1. f = <<cat[c].name>>
    BY <1>1, <1>4 DEF Follows
  <2>2. Len(f) = 1
    BY <2>1
  <2> QED BY <1>1, <1>2, <1>3, <1>4, <2>2
<1>5. CASE cat[c].parent # 0
  <2>1. PICK p \in Categories!Live : p = cat[c].parent
    BY <1>5, LiveNodes
  <2>2. PICK s \in Seq(TwoProducts), o \in TwoProducts : s = cat[p].path /\ o = cat[c].name /\ s # <<>>
    BY LiveNodes
  <2>3. f = Append(s, o)
    BY <1>1, <1>5, <2>1, <2>2 DEF Follows
  <2>4. Len(s) \in Nat /\ Len(s) # 0
    BY <2>2, EmptySeq, LenProperties
  <2>5. Len(f) = Len(s) + 1
    BY <2>3, AppendProperties
  <2>6. edit[a].level # 1
    BY <1>1, <1>5, <2>4, <2>5
  <2>7. Categories!Front(f) = s
    BY <2>3, PathFront
  <2> QED BY <1>1, <1>2, <1>3, <1>5, <2>1, <2>2, <2>6, <2>7
<1> QED BY <1>4, <1>5

\* What another's call moves still moves, where the tree is as it was.
LEMMA StillMoving ==
  ASSUME CategoryTypes, NEW a \in Handlers, NEW e, CallIs(a, e), TreeSame, odd \subseteq odd',
         edit[a].pc # "rewrite"
  PROVE  Moving \cap Categories!Live \subseteq MovingFor(a)'
<1> SUFFICES ASSUME NEW x \in Categories!Live, x \in Moving PROVE x \in MovingFor(a)'
  OBVIOUS
<1>1. CASE x \in odd
  BY <1>1 DEF MovingFor
<1>2. ASSUME NEW h \in Handlers, edit[h].pc = "rewrite", x \in Categories!Reach(h)
      PROVE  x \in MovingFor(a)'
  <2>1. h # a /\ SameCall(h)
    BY <1>2 DEF CallIs
  <2>2. PICK c : c = edit[h].id
    OBVIOUS
  <2>3. edit'[h].pc = "rewrite" /\ edit'[h].id = c /\ edit'[h].found = edit[h].found
    BY <1>2, <2>1, <2>2 DEF SameCall
  <2>4. Categories!Below(edit[h].id)' = Categories!Below(c)'
    BY <2>3 DEF Categories!Below
  <2>5. Categories!Below(c)' = Categories!Below(c)
    BY SameBelow DEF TreeSame
  <2>6. x \in Categories!Reach(h)'
    BY <1>2, <2>2, <2>3, <2>4, <2>5 DEF Categories!Reach
  <2> QED BY <2>1, <2>3, <2>6 DEF MovingFor
<1> QED BY <1>1, <1>2 DEF Moving, Categories!Renaming

LEMMA FindPath ==
  ASSUME CategoryTypes, PathInv, NEW a \in Handlers, Categories!FindDescendants(a)
  PROVE  PathInv'
<1>1. PICK e : /\ CallIs(a, e) /\ e.pc = "rewrite" /\ e.id = edit[a].id /\ e.name = edit[a].name
               /\ e.from = edit[a].from /\ e.level = edit[a].level /\ e.met = edit[a].met
               /\ e.found = Categories!Descendants(edit[a].id, edit[a].from)
               /\ e.todo = {<<d, cat[d].path>> : d \in e.found}
  BY FindTypes
<1>2. PICK c : c = edit[a].id
  OBVIOUS
<1>3. /\ edit[a].pc = "find" /\ cat' = cat
      /\ odd' = odd \cup Categories!Branches(e.found \ Categories!Below(c))
  BY <1>1, <1>2 DEF Categories!FindDescendants, Categories!Namesakes
<1>4. TreeSame /\ Categories!Live' = Categories!Live
  BY <1>3, SameCategories DEF TreeSame
<1>5. Categories!Closed(odd') /\ odd \subseteq odd'
  BY <1>3, BelowClosed DEF PathInv, Categories!Closed
<1>6. edit'[a] = e
  BY <1>1 DEF CallIs
<1>7. \A x : Categories!Below(x)' = Categories!Below(x)
  BY <1>4, SameBelow DEF TreeSame
<1>8. Categories!Below(edit[a].id)' = Categories!Below(c)
  <2>1. Categories!Below(edit[a].id)' = Categories!Below(c)'
    BY <1>1, <1>2, <1>6 DEF Categories!Below
  <2> QED BY <1>7, <2>1
<1>9. e.found \subseteq Categories!Live
  BY <1>1 DEF Categories!Descendants
<1>10. FoundBelow(a)'
  <2>1. ASSUME NEW x \in e.found, x \notin Categories!Below(c) PROVE x \in odd'
    <3>1. x \in Categories!Below(x)
      BY <1>9, BelowSelf
    <3> QED BY <1>3, <2>1, <3>1 DEF Categories!Branches
  <2> QED BY <1>6, <1>8, <2>1 DEF FoundBelow
<1>11. ASSUME ~e.met PROVE AsRead(edit[a])' /\ RenamesAll(a)'
  <2>1. AsRead(edit[a])
    BY <1>1, <1>11 DEF PathInv, SureCall
  <2>2. c \in Categories!Live /\ e.from = cat[c].path /\ c \in Nodes
    BY <1>1, <1>2, <1>3, <2>1, LiveNodes DEF AsRead
  <2>3. AsRead(e)
    BY <1>1, <1>3, <2>1 DEF AsRead
  <2>4. AsRead(edit[a])'
    BY <1>3, <1>4, <1>6, <2>3 DEF AsRead
  <2>5. Moving \cap Categories!Live \subseteq MovingFor(a)'
    BY <1>1, <1>3, <1>4, <1>5, StillMoving
  <2>6. \A d \in e.todo : d[1] \in Categories!Live /\ d[2] = cat[d[1]].path
    BY <1>1, <1>9
  <2>7. c \notin MovingFor(a)' => Follows(c)'
    <3>1. c \notin MovingFor(a)' => Follows(c)
      BY <2>2, <2>5 DEF PathInv
    <3> QED BY <1>4, <2>2, <3>1, FollowsSame
  <2>8. ASSUME NEW x \in Categories!Below(c), x \notin MovingFor(a)', x # c
        PROVE  WillFollow(a, x)'
    <3>1. x \in Categories!Live /\ x \notin Moving
      BY <2>5, <2>8 DEF Categories!Below
    <3>2. /\ Follows(x) /\ Follows(c)
          /\ Categories!IsStrictPrefix(cat[c].path, cat[x].path)
      BY <2>2, <2>8, <3>1, AllFound
    <3>3. PICK p : p = cat[x].parent
      OBVIOUS
    <3>4. p \in Categories!Below(c) /\ p \in Categories!Live /\ p # 0
      <4>1. p \in Categories!Below(c) \cup {c} /\ c \in Categories!Below(c)
        BY <2>2, <2>8, <3>3, BelowParent, BelowSelf
      <4> QED BY <4>1, CategoryNumbers, LiveNodes DEF Categories!Below
    <3>5. p \notin Moving
      BY <3>1, <3>3, <3>4, MovingClosed DEF Categories!Closed, Categories!Children
    <3>6. p # c => Categories!IsStrictPrefix(cat[c].path, cat[p].path)
      BY <2>2, <3>4, <3>5, AllFound
    <3>7. PICK f \in Seq(TwoProducts), s \in Seq(TwoProducts), u \in Seq(TwoProducts),
               n \in TwoProducts :
            f = cat[c].path /\ s = cat[p].path /\ u = cat[x].path /\ n = cat[x].name
      BY <2>2, <3>1, <3>4, LiveNodes
    <3>8. PICK q \in Seq(TwoProducts) : q = Categories!NewPath(a) /\ Len(q) = Len(f)
      BY <1>2, <1>3, <2>1, <2>2, <3>2, <3>7, <1>1, NewPathTyped, NewPathLong
    <3>9. Categories!NewPath(a)' = q
      BY <1>1, <1>6, <3>8 DEF Categories!NewPath
    <3>10. u = Append(s, n) /\ cat[x].level = Len(u)
      BY <3>2, <3>3, <3>4, <3>7 DEF Follows
    <3>11. PICK k \in Nat : k = Len(f)
      BY LenProperties
    <3>12. k \in 0..Len(s) /\ k \in 0..Len(u) /\ Len(u) \in Nat
      <4>1. p = c \/ k < Len(s)
        BY <3>6, <3>7, <3>11, PathShorter
      <4>2. Len(s) \in Nat /\ k <= Len(s)
        BY <3>7, <3>11, <4>1, LenProperties
      <4>3. Len(u) = Len(s) + 1
        BY <3>10, AppendProperties
      <4> QED BY <4>2, <4>3
    <3>13. Will(a, x)' = Shifted(q, u, k)
      <4>1. x \in e.found
        BY <1>1, <1>2, <2>2, <3>1, <3>2 DEF Categories!Descendants
      <4>2. <<x, cat[x].path>> \in e.todo
        BY <1>1, <4>1
      <4>3. cat'[x].path = u /\ x # edit'[a].id /\ <<x, cat'[x].path>> \in edit'[a].todo
        BY <1>1, <1>2, <1>3, <1>6, <2>8, <3>7, <4>2
      <4>4. Len(edit'[a].from) = k
        BY <1>6, <2>2, <3>7, <3>11
      <4> QED BY <3>9, <4>3, <4>4 DEF Will
    <3>14. Will(a, p)' = Shifted(q, s, k)
      <4>1. CASE p = c
        <5>1. Will(a, p)' = q
          BY <1>1, <1>2, <1>6, <3>9, <4>1 DEF Will
        <5>2. s = f
          BY <3>7, <4>1
        <5> QED BY <3>11, <5>1, <5>2, PathMovedAll
      <4>2. CASE p # c
        <5>1. p \in e.found
          BY <1>1, <1>2, <2>2, <3>4, <3>6, <4>2 DEF Categories!Descendants
        <5>2. <<p, cat[p].path>> \in e.todo
          BY <1>1, <5>1
        <5>3. cat'[p].path = s /\ p # edit'[a].id /\ <<p, cat'[p].path>> \in edit'[a].todo
          BY <1>1, <1>2, <1>3, <1>6, <3>7, <4>2, <5>2
        <5>4. Len(edit'[a].from) = k
          BY <1>6, <2>2, <3>7, <3>11
        <5> QED BY <3>9, <5>3, <5>4 DEF Will
      <4> QED BY <4>1, <4>2
    <3>15. Shifted(q, u, k) = Append(Shifted(q, s, k), n)
      BY <3>10, <3>12, PathMovedOn
    <3>16. cat[x].level = Len(Shifted(q, u, k))
      <4>1. Len(Shifted(q, u, k)) = Len(q) + (Len(u) - k)
        BY <3>12, PathMoved
      <4> QED BY <3>8, <3>10, <3>11, <3>12, <4>1
    <3>17. cat'[x].parent = p /\ cat'[x].name = n /\ cat'[x].level = cat[x].level
      BY <1>3, <3>3, <3>7
    <3>18. Will(a, cat[x].parent)' = Will(a, p)'
      BY <3>17 DEF Will
    <3> QED BY <3>13, <3>14, <3>15, <3>16, <3>17, <3>18 DEF WillFollow
  <2>9. RenamesAll(a)'
    BY <1>1, <1>2, <1>3, <1>4, <1>6, <1>8, <2>6, <2>7, <2>8 DEF RenamesAll
  <2> QED BY <2>4, <2>9
<1>12. SureCall(a)'
  BY <1>6, <1>10, <1>11 DEF SureCall
<1> QED BY <1>1, <1>3, <1>4, <1>5, <1>12, StillTree

\* A category that is not below the one written follows its parent as before.
LEMMA FollowsOn ==
  ASSUME CategoryTypes, NEW w, WrittenIn(w), NEW x \in Categories!Live, x # w,
         cat[x].parent # w, Follows(x)
  PROVE  Follows(x)'
<1>1. cat[x].parent # 0 => cat[x].parent \in Categories!Live /\ cat[x].parent \in Nodes
  BY LiveNodes
<1>2. PICK p : p = cat[x].parent
  OBVIOUS
<1>3. x \in Nodes /\ cat'[x] = cat[x]
  BY LiveNodes DEF WrittenIn
<1>4. p # 0 => cat'[p].path = cat[p].path
  BY <1>1, <1>2 DEF WrittenIn
<1>5. /\ cat[x].path = IF p = 0 THEN <<cat[x].name>> ELSE Append(cat[p].path, cat[x].name)
      /\ cat[x].level = Len(cat[x].path)
  BY <1>2 DEF Follows
<1>6. /\ cat'[x].path = IF p = 0 THEN <<cat'[x].name>> ELSE Append(cat'[p].path, cat'[x].name)
      /\ cat'[x].level = Len(cat'[x].path) /\ cat'[x].parent = p
  BY <1>2, <1>3, <1>4, <1>5
<1> QED BY <1>6 DEF Follows

\* Where the tree keeps its shape, a call that goes on reaches what it did.
LEMMA SameReach ==
  ASSUME NEW b \in Handlers, edit'[b].id = edit[b].id, edit'[b].found = edit[b].found,
         edit'[b].pc = edit[b].pc, Categories!Live' = Categories!Live,
         \A x \in Categories!Live : cat'[x].parent = cat[x].parent, odd \subseteq odd'
  PROVE  /\ Categories!Reach(b)' = Categories!Reach(b)
         /\ Categories!Below(edit[b].id)' = Categories!Below(edit[b].id)
         /\ FoundBelow(b) => FoundBelow(b)'
<1>1. PICK c : c = edit[b].id
  OBVIOUS
<1>2. Categories!Below(edit[b].id)' = Categories!Below(c)'
  BY <1>1 DEF Categories!Below
<1>3. Categories!Below(c)' = Categories!Below(c)
  BY SameBelow
<1> QED BY <1>1, <1>2, <1>3 DEF Categories!Reach, FoundBelow

\* What a call that was met still owes
LEMMA MetCall ==
  ASSUME CategoryTypes, NEW a \in Handlers, OthersMet(a), NEW b \in Handlers \ {a}, SameCall(b),
         FoundBelow(b)'
  PROVE  SureCall(b)'
<1>1. CASE edit[b].pc = "idle"
  <2>1. edit'[b].pc = "idle"
    BY <1>1 DEF SameCall
  <2> QED BY <2>1 DEF SureCall, AsRead
<1>2. CASE edit[b].pc # "idle"
  BY <1>2 DEF OthersMet, SureCall
<1> QED BY <1>1, <1>2

LEMMA RewritePath ==
  ASSUME CategoryTypes, PathInv, NEW a \in Handlers, NEW d \in edit[a].todo,
         Categories!RewriteOne(a, d)
  PROVE  PathInv'
<1>1. CASE d[1] \notin Categories!Live
  <2>1. cat' = cat /\ odd' = odd \cup Categories!Reach(a) /\ CallIs(a, Categories!Idle)
        /\ edit[a].pc = "rewrite"
    BY <1>1, CallEnded DEF Categories!RewriteOne
  <2>2. TreeSame
    BY <2>1, SameCategories DEF TreeSame
  <2> QED BY <2>1, <2>2, EndPath
<1>2. CASE d[1] \in Categories!Live
  <2>1. PICK w : w = d[1]
    OBVIOUS
  <2>2. PICK c : c = edit[a].id
    OBVIOUS
  <2>3. PICK e : /\ CallIs(a, e) /\ e.pc = "rewrite" /\ e.id = edit[a].id
                 /\ e.name = edit[a].name /\ e.from = edit[a].from
                 /\ e.level = edit[a].level /\ e.met = edit[a].met
                 /\ e.found = edit[a].found /\ e.todo = edit[a].todo \ {d}
    BY <1>2, RewriteTypes
  <2>4. /\ WrittenIn(w) /\ OthersMet(a) /\ cat'[w].name = cat[w].name
        /\ cat'[w].path = Shifted(Categories!NewPath(a), d[2], Len(edit[a].from))
    BY <1>2, <2>1, RewriteTypes
  <2>5. edit[a].pc = "rewrite" /\ odd' = odd /\ edit'[a] = e
    BY <1>2, <2>3 DEF Categories!RewriteOne, CallIs
  <2>6. \A x \in Categories!Live : cat'[x].parent = cat[x].parent /\ cat'[x].name = cat[x].name
                                   /\ cat'[x].level = cat[x].level
    BY <2>4, LiveNodes DEF WrittenIn
  <2>7. Categories!Live' = Categories!Live
    BY <2>4 DEF WrittenIn
  <2>8. \A b \in Handlers : /\ edit'[b].id = edit[b].id /\ edit'[b].found = edit[b].found
                            /\ edit'[b].pc = edit[b].pc
    BY <2>3, <2>5 DEF CallIs, SameCall
  <2>9. \A b \in Handlers : Categories!Reach(b)' = Categories!Reach(b) /\ FoundBelow(b)'
    BY <2>5, <2>6, <2>7, <2>8, SameReach DEF PathInv, SureCall
  <2>10. Moving' = Moving /\ MovingFor(a)' = MovingFor(a)
    BY <2>5, <2>8, <2>9 DEF Moving, MovingFor, Categories!Renaming
  <2>11. Categories!Closed(odd)'
    <3>1. Categories!Closed(odd)
      BY DEF PathInv
    <3>2. \A S : Categories!Closed(S)' <=> Categories!Closed(S)
      BY <2>6, <2>7, SameBelow
    <3>3. \A x : Categories!Children(x)' = Categories!Children(x)
      BY <2>6, <2>7, SameBelow
    <3> QED BY <2>5, <3>1, <3>3 DEF Categories!Closed
  <2>12. ASSUME ~e.met PROVE AsRead(edit[a])' /\ RenamesAll(a)'
    <3>1. AsRead(edit[a]) /\ RenamesAll(a)
      BY <2>3, <2>5, <2>12 DEF PathInv, SureCall
    <3>2. /\ c \in Categories!Live /\ c \in Nodes /\ edit[a].from = cat[c].path
          /\ edit[a].level = IF cat[c].parent = 0 THEN 1 ELSE Len(edit[a].from)
      BY <2>2, <2>5, <3>1, LiveNodes DEF AsRead
    <3>3. /\ d[2] = cat[w].path /\ Len(edit[a].from) < Len(d[2])
          /\ d \in Nodes \X Seq(TwoProducts) /\ d = <<w, cat[w].path>>
      BY <2>1, <3>1 DEF RenamesAll, CategoryTypes, GoodEdit, EditRow
    <3>4. PICK k \in Nat : k = Len(edit[a].from)
      BY <3>2, LiveNodes, LenProperties
    <3>5. w # c
      BY <3>2, <3>3, <3>4
    <3>6. cat'[c] = cat[c]
      BY <2>4, <3>2, <3>5 DEF WrittenIn
    <3>7. AsRead(edit[a])'
      <4>1. e.id = c /\ c \in Categories!Live' /\ e.from = cat'[c].path
            /\ e.level = IF cat'[c].parent = 0 THEN 1 ELSE Len(e.from)
        BY <2>2, <2>3, <2>7, <3>2, <3>6
      <4> QED BY <2>3, <2>5, <4>1 DEF AsRead
    <3>8. ASSUME NEW t \in e.todo
          PROVE  t[1] \in Categories!Live /\ t[1] # w /\ t[2] = cat'[t[1]].path
      <4>1. t \in Nodes \X Seq(TwoProducts) /\ t \in edit[a].todo /\ t # d
        BY <2>3, <3>8 DEF CategoryTypes, EditRow
      <4>2. t[1] \in Categories!Live /\ t[2] = cat[t[1]].path /\ t = <<t[1], t[2]>>
        BY <3>1, <4>1 DEF RenamesAll
      <4>3. t[1] # w
        BY <3>3, <4>1, <4>2
      <4>4. cat'[t[1]] = cat[t[1]]
        BY <2>4, <4>2, <4>3, LiveNodes DEF WrittenIn
      <4> QED BY <4>2, <4>3, <4>4
    <3>9. ASSUME c \notin MovingFor(a) PROVE Follows(c)'
      <4>1. Follows(c)
        BY <2>2, <3>1, <3>9 DEF RenamesAll
      <4>2. ASSUME cat[c].parent = w PROVE FALSE
        <5>1. w # 0 /\ w \in Categories!Live
          BY <1>2, <2>1, LiveNodes, CategoryNumbers
        <5>2. cat[c].path = Append(cat[w].path, cat[c].name)
          BY <4>1, <4>2, <5>1 DEF Follows
        <5>3. PICK s \in Seq(TwoProducts), n \in TwoProducts : s = cat[w].path /\ n = cat[c].name
          BY <3>2, <5>1, LiveNodes
        <5>4. Len(Append(s, n)) = Len(s) + 1 /\ Len(s) \in Nat
          BY AppendProperties, LenProperties
        <5> QED BY <3>2, <3>3, <3>4, <5>2, <5>3, <5>4
      <4> QED BY <2>4, <3>2, <3>5, <4>1, <4>2, FollowsOn
    <3>10. Categories!NewPath(a)' = Categories!NewPath(a)
      BY <2>3, <2>5 DEF Categories!NewPath
    <3>11. ASSUME NEW x \in Categories!Live PROVE Will(a, x)' = Will(a, x)
      <4>1. CASE x = c
        BY <2>2, <2>3, <2>5, <3>10, <4>1 DEF Will
      <4>2. CASE x = w
        <5>1. Will(a, x) = Shifted(Categories!NewPath(a), d[2], Len(edit[a].from))
          BY <2>2, <3>3, <3>5, <4>2 DEF Will
        <5>2. <<w, cat'[w].path>> \notin e.todo
          BY <3>8
        <5>3. Will(a, x)' = cat'[x].path
          BY <2>2, <2>3, <2>5, <3>5, <4>2, <5>2 DEF Will
        <5> QED BY <2>4, <4>2, <5>1, <5>3
      <4>3. CASE x # c /\ x # w
        <5>1. cat'[x] = cat[x]
          BY <2>4, <4>3, LiveNodes DEF WrittenIn
        <5>2. <<x, cat[x].path>> \in e.todo <=> <<x, cat[x].path>> \in edit[a].todo
          BY <2>3, <3>3, <4>3
        <5>3. edit'[a].id = edit[a].id /\ edit'[a].from = edit[a].from /\ edit'[a].todo = e.todo
          BY <2>3, <2>5
        <5> QED BY <3>10, <5>1, <5>2, <5>3 DEF Will
      <4> QED BY <4>1, <4>2, <4>3
    <3>12. ASSUME NEW x \in Categories!Below(c), x \notin MovingFor(a), x # c
           PROVE  WillFollow(a, x)'
      <4>1. WillFollow(a, x) /\ x \in Categories!Live
        BY <2>2, <3>1, <3>12 DEF RenamesAll, Categories!Below
      <4>2. PICK p : p = cat[x].parent
        OBVIOUS
      <4>3. p \in Categories!Live
        <5>1. p \in Categories!Below(c) \cup {c}
          BY <3>2, <3>12, <4>2, BelowParent
        <5> QED BY <3>2, <5>1 DEF Categories!Below
      <4>4. Will(a, x)' = Will(a, x) /\ Will(a, p)' = Will(a, p)
        BY <3>11, <4>1, <4>3
      <4>5. cat'[x].parent = p /\ cat'[x].name = cat[x].name /\ cat'[x].level = cat[x].level
        BY <2>6, <4>1, <4>2
      <4>6. Will(a, x) = Append(Will(a, p), cat[x].name) /\ cat[x].level = Len(Will(a, x))
        BY <4>1, <4>2 DEF WillFollow
      <4>7. Will(a, cat[x].parent)' = Will(a, p)'
        BY <4>5 DEF Will
      <4> QED BY <4>4, <4>5, <4>6, <4>7 DEF WillFollow
    <3>13. Categories!Below(edit[a].id)' = Categories!Below(c) /\ edit'[a].id = c
      BY <2>2, <2>5, <2>6, <2>7, <2>8, SameReach
    <3>14. \A t \in edit'[a].todo : t[1] \in Categories!Live' /\ t[2] = cat'[t[1]].path
      BY <2>5, <2>7, <3>8
    <3>15. RenamesAll(a)'
      BY <2>10, <3>9, <3>12, <3>13, <3>14 DEF RenamesAll
    <3> QED BY <3>7, <3>15
  <2>13. \A b \in Handlers : SureCall(b)'
    <3>1. SureCall(a)'
      BY <2>5, <2>9, <2>12 DEF SureCall
    <3>2. ASSUME NEW b \in Handlers \ {a} PROVE SureCall(b)'
      BY <2>3, <2>4, <2>9, MetCall DEF CallIs
    <3> QED BY <3>1, <3>2
  <2>14. ASSUME NEW x \in Categories!Live \ Moving PROVE Follows(x)'
    <3>1. w \in Moving
      <4>1. w \in edit[a].found
        BY <2>1 DEF CategoryTypes, GoodEdit
      <4> QED BY <2>5, <4>1 DEF Moving, Categories!Renaming, Categories!Reach
    <3>2. x # w
      BY <2>14, <3>1
    <3>3. cat[x].parent # w
      BY <2>14, <3>1, MovingClosed DEF Categories!Closed, Categories!Children
    <3> QED BY <2>4, <2>14, <3>2, <3>3, FollowsOn DEF PathInv
  <2> QED BY <2>7, <2>10, <2>11, <2>13, <2>14 DEF PathInv
<1> QED BY <1>1, <1>2

LEMMA RenamePath ==
  ASSUME CategoryTypes, PathInv, NEW a \in Handlers, Categories!Rename(a)
  PROVE  PathInv'
<1>1. PICK w : w = edit[a].id
  OBVIOUS
<1>2. /\ edit[a].pc = "rewrite" /\ edit[a].todo = {}
      /\ odd' = IF edit[a].met THEN odd \cup Categories!Reach(a) ELSE odd
  BY DEF Categories!Rename
<1>3. CASE w \notin Categories!Live
  <2>1. cat' = cat /\ CallIs(a, Categories!Idle)
    BY <1>1, <1>3, CallEnded DEF Categories!Rename
  <2>2. TreeSame
    BY <2>1, SameCategories DEF TreeSame
  <2>3. edit[a].met
    BY <1>1, <1>2, <1>3 DEF PathInv, SureCall, AsRead
  <2> QED BY <1>2, <2>1, <2>2, <2>3, EndPath
<1>4. CASE w \in Categories!Live
  <2>1. /\ WrittenIn(w) /\ OthersMet(a) /\ CallIs(a, Categories!Idle)
        /\ cat'[w].name = edit[a].name /\ cat'[w].path = Categories!NewPath(a)
    BY <1>1, <1>4, RenameTypes
  <2>2. edit'[a].pc = "idle" /\ w \in Nodes /\ odd \subseteq odd'
    BY <1>2, <1>4, <2>1, IdleGood, LiveNodes DEF CallIs
  <2>3. /\ Categories!Live' = Categories!Live
        /\ \A x \in Categories!Live : cat'[x].parent = cat[x].parent
    BY <2>1, LiveNodes DEF WrittenIn
  <2>4. ASSUME NEW b \in Handlers \ {a}
        PROVE  /\ Categories!Reach(b)' = Categories!Reach(b) /\ FoundBelow(b)'
               /\ edit'[b].pc = edit[b].pc
    <3>1. SameCall(b) /\ FoundBelow(b)
      BY <2>1 DEF CallIs, PathInv, SureCall
    <3> QED BY <2>2, <2>3, <3>1, SameReach DEF SameCall
  <2>5. \A b \in Handlers : SureCall(b)'
    <3>1. SureCall(a)'
      BY <2>2 DEF SureCall, FoundBelow, AsRead
    <3>2. ASSUME NEW b \in Handlers \ {a} PROVE SureCall(b)'
      BY <2>1, <2>4, MetCall DEF CallIs
    <3> QED BY <3>1, <3>2
  <2>6. Categories!Closed(odd)'
    <3>1. Categories!Closed(odd')
      BY <1>2, MovingClosed DEF PathInv
    <3>2. \A x : Categories!Children(x)' = Categories!Children(x)
      BY <2>3, SameBelow
    <3> QED BY <3>1, <3>2 DEF Categories!Closed
  <2>7. w \in Categories!Below(w) /\ w \in Categories!Reach(a) /\ Categories!Children(w) \subseteq Categories!Below(w)
    BY <1>1, <1>4, BelowSelf, BelowClosed DEF Categories!Reach
  <2>8. MovingFor(a) \subseteq Moving' /\ (edit[a].met => Moving \subseteq Moving')
    <3>1. MovingFor(a) \subseteq Moving'
      BY <2>2, <2>4 DEF MovingFor, Moving, Categories!Renaming
    <3>2. Moving \subseteq MovingFor(a) \cup Categories!Reach(a)
      BY DEF MovingFor, Moving, Categories!Renaming
    <3>3. edit[a].met => Categories!Reach(a) \subseteq Moving'
      BY <1>2 DEF Moving
    <3> QED BY <3>1, <3>2, <3>3
  <2>9. ASSUME NEW x \in Categories!Live, x \notin Categories!Below(w), x \notin MovingFor(a)
        PROVE  Follows(x)'
    <3>1. x \notin Categories!Reach(a)
      BY <1>1, <1>2, <2>9 DEF Categories!Reach, PathInv, SureCall, FoundBelow, MovingFor
    <3>2. x \notin Moving
      BY <2>9, <3>1 DEF Moving, MovingFor, Categories!Renaming
    <3>3. x # w /\ cat[x].parent # w
      BY <2>7, <2>9 DEF Categories!Children
    <3> QED BY <2>1, <2>9, <3>2, <3>3, FollowsOn DEF PathInv
  <2>10. ASSUME NEW x \in Categories!Live, x \notin Moving'
         PROVE  Follows(x)'
    <3>1. CASE edit[a].met
      <4>1. x \notin Moving
        BY <2>8, <2>10, <3>1
      <4>2. x \notin Categories!Reach(a)
        BY <1>2, <4>1 DEF Moving, Categories!Renaming
      <4>3. x \notin Categories!Below(w) /\ x \notin MovingFor(a)
        BY <1>1, <2>8, <2>10, <4>2 DEF Categories!Reach
      <4> QED BY <2>9, <4>3
    <3>2. CASE ~edit[a].met
      <4>1. x \notin MovingFor(a)
        BY <2>8, <2>10
      <4>2. AsRead(edit[a]) /\ RenamesAll(a)
        BY <1>2, <3>2 DEF PathInv, SureCall
      <4>3. CASE x \notin Categories!Below(w)
        BY <2>9, <4>1, <4>3
      <4>4. CASE x = w
        <5>1. Follows(w) /\ edit[a].from = cat[w].path
          BY <1>1, <1>2, <4>1, <4>2, <4>4 DEF RenamesAll, AsRead
        <5>2. /\ Len(Categories!NewPath(a)) = Len(edit[a].from)
              /\ Categories!NewPath(a) =
                   IF cat[w].parent = 0 THEN <<edit[a].name>>
                   ELSE Append(cat[cat[w].parent].path, edit[a].name)
          BY <1>1, <1>2, <4>2, <5>1, NewPathLong
        <5>3. PICK p : p = cat[w].parent
          OBVIOUS
        <5>4. p # 0 => cat'[p].path = cat[p].path
          <6>1. p # 0 => p \in Categories!Live /\ p \in Nodes
            BY <1>4, <5>3, LiveNodes
          <6>2. ASSUME p = w PROVE p = 0
            <7>1. PICK s \in Seq(TwoProducts), n \in TwoProducts : s = cat[w].path /\ n = cat[w].name
              BY <1>4, LiveNodes
            <7>2. Len(Append(s, n)) = Len(s) + 1 /\ Len(s) \in Nat
              BY AppendProperties, LenProperties
            <7>3. p = 0 \/ s = Append(s, n)
              BY <5>1, <5>3, <6>2, <7>1 DEF Follows
            <7> QED BY <7>2, <7>3
          <6> QED BY <2>1, <6>1, <6>2 DEF WrittenIn
        <5>5. cat'[w].level = Len(cat'[w].path)
          BY <2>1, <5>1, <5>2 DEF Follows, WrittenIn
        <5>6. cat'[w].parent = p
          BY <2>1, <5>3 DEF WrittenIn
        <5>7. cat'[w].path = IF p = 0 THEN <<cat'[w].name>> ELSE Append(cat'[p].path, cat'[w].name)
          BY <2>1, <5>2, <5>3, <5>4
        <5> QED BY <4>4, <5>5, <5>6, <5>7 DEF Follows
      <4>5. CASE x \in Categories!Below(w) /\ x # w
        <5>1. WillFollow(a, x)
          BY <1>1, <4>1, <4>2, <4>5 DEF RenamesAll
        <5>2. PICK p : p = cat[x].parent
          OBVIOUS
        <5>3. p \in Categories!Live /\ p \in Nodes /\ p # 0 /\ x \in Nodes
          <6>1. p \in Categories!Below(w) \cup {w}
            BY <2>2, <4>5, <5>2, BelowParent
          <6>2. p \in Categories!Live
            BY <1>4, <6>1 DEF Categories!Below
          <6> QED BY <2>10, <6>2, LiveNodes, CategoryNumbers
        <5>4. Will(a, x) = cat[x].path
          BY <1>1, <1>2, <4>5 DEF Will
        <5>5. Will(a, p) = cat'[p].path
          BY <1>1, <1>2, <2>1, <5>3 DEF Will, WrittenIn
        <5>6. cat'[x] = cat[x]
          BY <2>1, <4>5, <5>3 DEF WrittenIn
        <5>7. cat[x].path = Append(cat'[p].path, cat[x].name) /\ cat[x].level = Len(cat[x].path)
          BY <5>1, <5>2, <5>4, <5>5 DEF WillFollow
        <5>8. /\ cat'[x].path = Append(cat'[p].path, cat'[x].name)
              /\ cat'[x].level = Len(cat'[x].path) /\ cat'[x].parent = p
          BY <5>2, <5>6, <5>7
        <5> QED BY <5>3, <5>8 DEF Follows
      <4> QED BY <4>3, <4>4, <4>5
    <3> QED BY <3>1, <3>2
  <2> QED BY <2>3, <2>5, <2>6, <2>10 DEF PathInv
<1> QED BY <1>3, <1>4

LEMMA CreatePath ==
  ASSUME CategoryTypes, PathInv, NEW a \in Handlers, NEW c \in Nodes, Categories!Create(a, c)
  PROVE  PathInv'
<1>1. PICK p : p = edit[a].id
  OBVIOUS
<1>2. edit[a].pc = "create"
  BY DEF Categories!Create
<1>3. CASE p \notin Categories!Live \cup {0}
  <2>1. cat' = cat /\ CallIs(a, Categories!Idle) /\ odd' = odd
    BY <1>1, <1>3, CallEnded, CategoryNumbers DEF Categories!Create
  <2>2. TreeSame
    BY <2>1, SameCategories DEF TreeSame
  <2> QED BY <1>2, <2>1, <2>2, EndPath
<1>4. CASE p \in Categories!Live \cup {0}
  <2>1. PICK r \in NodeRow :
           /\ r.parent = p /\ r.name = edit[a].name /\ r.path = edit[a].from
           /\ r.level = edit[a].level /\ cat[c] = Categories!None /\ c \notin Categories!Live
           /\ Categories!Live' = Categories!Live \cup {c}
           /\ \A x \in Nodes \ {c} : cat'[x] = cat[x]
           /\ cat'[c] = r
    BY <1>1, <1>4, Creation
  <2>2. /\ odd' = IF edit[a].met \/ p \in odd THEN odd \cup {c} ELSE odd
        /\ Categories!Wrote(a, Categories!Idle)
    BY <1>1, <1>4, CategoryNumbers DEF Categories!Create
  <2>3. CallIs(a, Categories!Idle) /\ OthersMet(a) /\ edit'[a].pc = "idle"
    BY <2>2, IdleGood, CallWrote DEF OthersMet, CallIs
  <2>4. /\ p # c /\ \A x \in Categories!Live : x # c /\ cat[x].parent # c /\ cat'[x] = cat[x]
    BY <1>4, <2>1, LiveNodes, CategoryNumbers
  <2>5. /\ \A x : Categories!Children(x) \subseteq Categories!Children(x)'
        /\ \A x : Categories!Children(x)' \subseteq Categories!Children(x) \cup {c}
        /\ c \in Categories!Children(p)'
        /\ \A x : x # p => c \notin Categories!Children(x)'
    BY <2>1, <2>4 DEF Categories!Children
  <2>6. \A S : Categories!Closed(S)' => Categories!Closed(S)
    BY <2>5 DEF Categories!Closed
  <2>7. \A x : Categories!Below(x) \subseteq Categories!Below(x)'
    BY <2>1, <2>6 DEF Categories!Below, Categories!Ids
  <2>8. ASSUME NEW x, p \in Categories!Below(x) PROVE c \in Categories!Below(x)'
    <3>1. ASSUME NEW S \in SUBSET Nodes, x \in S, Categories!Closed(S)' PROVE c \in S
      <4>1. p \in S
        BY <2>6, <2>8, <3>1 DEF Categories!Below, Nodes
      <4> QED BY <2>5, <3>1, <4>1 DEF Categories!Closed
    <3> QED BY <2>1, <3>1 DEF Categories!Below, Nodes, Categories!Ids
  <2>9. ASSUME NEW b \in Handlers \ {a}
        PROVE  /\ SameCall(b) /\ FoundBelow(b)' /\ Categories!Reach(b) \subseteq Categories!Reach(b)'
    <3>1. SameCall(b) /\ FoundBelow(b)
      BY <2>3 DEF CallIs, PathInv, SureCall
    <3>2. PICK x : x = edit[b].id
      OBVIOUS
    <3>3. edit'[b].id = x /\ edit'[b].found = edit[b].found /\ edit'[b].pc = edit[b].pc
      BY <3>1, <3>2 DEF SameCall
    <3>4. Categories!Below(edit[b].id)' = Categories!Below(x)'
      BY <3>3 DEF Categories!Below
    <3>5. c \notin edit[b].found
      BY <2>1 DEF CategoryTypes, GoodEdit, Used
    <3>6. FoundBelow(b)'
      BY <2>1, <2>2, <2>7, <3>1, <3>2, <3>3, <3>4, <3>5 DEF FoundBelow
    <3>7. Categories!Reach(b) \subseteq Categories!Reach(b)'
      BY <2>7, <3>2, <3>3, <3>4 DEF Categories!Reach
    <3> QED BY <3>1, <3>6, <3>7
  <2>10. \A b \in Handlers : SureCall(b)'
    <3>1. SureCall(a)'
      BY <2>3 DEF SureCall, FoundBelow, AsRead
    <3>2. ASSUME NEW b \in Handlers \ {a} PROVE SureCall(b)'
      BY <2>3, <2>9, MetCall
    <3> QED BY <3>1, <3>2
  <2>11. Categories!Closed(odd)'
    <3>1. ASSUME NEW y \in odd', NEW z \in Categories!Children(y)' PROVE z \in odd'
      <4>1. CASE y \in odd /\ z \in Categories!Children(y)
        BY <2>2, <4>1 DEF PathInv, Categories!Closed
      <4>2. CASE y \notin odd /\ z \in Categories!Children(y)
        <5>1. y = c
          BY <2>2, <4>2
        <5> QED BY <2>1, <4>2, <5>1, NoChildren
      <4>3. CASE z \notin Categories!Children(y)
        <5>1. z = c /\ y = p
          BY <2>5, <3>1, <4>3
        <5>2. p \in odd
          BY <2>2, <2>4, <3>1, <5>1
        <5> QED BY <2>2, <5>1, <5>2
      <4> QED BY <4>1, <4>2, <4>3
    <3> QED BY <3>1 DEF Categories!Closed
  <2>12. Moving \subseteq Moving'
    <3>1. \A b \in Handlers : edit[b].pc = "rewrite" =>
            b # a /\ edit'[b].pc = "rewrite" /\ Categories!Reach(b) \subseteq Categories!Reach(b)'
      BY <1>2, <2>9 DEF SameCall
    <3> QED BY <2>2, <3>1 DEF Moving, Categories!Renaming
  <2>13. ASSUME NEW x \in Categories!Live', x \notin Moving' PROVE Follows(x)'
    <3>1. CASE x # c
      <4>1. x \in Categories!Live /\ Follows(x) /\ cat'[x] = cat[x]
        BY <2>1, <2>4, <2>12, <2>13, <3>1 DEF PathInv
      <4>2. PICK q : q = cat[x].parent
        OBVIOUS
      <4>3. q # 0 => cat'[q] = cat[q]
        BY <2>4, <4>1, <4>2, LiveNodes
      <4>4. /\ cat[x].path = IF q = 0 THEN <<cat[x].name>> ELSE Append(cat[q].path, cat[x].name)
            /\ cat[x].level = Len(cat[x].path)
        BY <4>1, <4>2 DEF Follows
      <4>5. /\ cat'[x].path = IF q = 0 THEN <<cat'[x].name>> ELSE Append(cat'[q].path, cat'[x].name)
            /\ cat'[x].level = Len(cat'[x].path) /\ cat'[x].parent = q
        BY <4>1, <4>2, <4>3, <4>4
      <4> QED BY <4>5 DEF Follows
    <3>2. CASE x = c
      <4>1. ~edit[a].met /\ p \notin odd
        BY <2>2, <2>13, <3>2 DEF Moving
      <4>2. AsRead(edit[a])
        BY <4>1 DEF PathInv, SureCall
      <4>3. CASE p = 0
        <5>1. r.path = <<r.name>> /\ r.level = 1
          BY <1>1, <1>2, <2>1, <4>2, <4>3 DEF AsRead
        <5>2. Len(<<r.name>>) = 1
          OBVIOUS
        <5>3. cat'[x].path = <<cat'[x].name>> /\ cat'[x].level = Len(cat'[x].path) /\ cat'[x].parent = 0
          BY <2>1, <3>2, <4>3, <5>1, <5>2
        <5> QED BY <5>3 DEF Follows
      <4>4. CASE p # 0
        <5>1. /\ p \in Categories!Live /\ r.path = Append(cat[p].path, r.name)
              /\ r.level = cat[p].level + 1
          BY <1>1, <1>2, <2>1, <4>2, <4>4 DEF AsRead
        <5>2. ASSUME NEW b \in Handlers, edit[b].pc = "rewrite", p \in Categories!Reach(b)
              PROVE  FALSE
          <6>1. PICK y : y = edit[b].id
            OBVIOUS
          <6>2. b # a /\ edit'[b].pc = "rewrite" /\ edit'[b].id = y
            BY <1>2, <2>9, <5>2, <6>1 DEF SameCall
          <6>3. p \in Categories!Below(y)
            BY <4>1, <5>1, <5>2, <6>1 DEF Categories!Reach, PathInv, SureCall, FoundBelow
          <6>4. c \in Categories!Below(y)'
            BY <2>8, <6>3
          <6>5. Categories!Below(edit[b].id)' = Categories!Below(y)'
            BY <6>2 DEF Categories!Below
          <6>6. c \in Categories!Reach(b)'
            BY <6>4, <6>5 DEF Categories!Reach
          <6> QED BY <2>13, <3>2, <6>2, <6>6 DEF Moving, Categories!Renaming
        <5>3. p \notin Moving
          BY <4>1, <5>2 DEF Moving, Categories!Renaming
        <5>4. cat[p].level = Len(cat[p].path)
          BY <5>1, <5>3 DEF PathInv, Follows
        <5>5. PICK s \in Seq(TwoProducts), n \in TwoProducts : s = cat[p].path /\ n = r.name
          BY <1>1, <1>2, <2>1, <5>1, LiveNodes DEF CategoryTypes, GoodEdit
        <5>6. Len(Append(s, n)) = Len(s) + 1
          BY AppendProperties
        <5>7. cat'[p] = cat[p]
          BY <2>4, <5>1
        <5>8. /\ cat'[x].parent = p /\ cat'[x].path = Append(cat'[p].path, cat'[x].name)
              /\ cat'[x].level = Len(cat'[x].path)
          BY <2>1, <3>2, <5>1, <5>4, <5>5, <5>6, <5>7
        <5> QED BY <4>4, <5>8 DEF Follows
      <4> QED BY <4>3, <4>4
    <3> QED BY <3>1, <3>2
  <2> QED BY <2>10, <2>11, <2>13 DEF PathInv
<1> QED BY <1>3, <1>4

LEMMA DeletePath ==
  ASSUME CategoryTypes, PathInv, NEW a \in Handlers, Categories!Delete(a)
  PROVE  PathInv'
<1>1. PICK c : c = edit[a].id
  OBVIOUS
<1>2. edit[a].pc = "delete"
  BY DEF Categories!Delete
<1>3. CASE c \notin Categories!Live
  <2>1. cat' = cat /\ CallIs(a, Categories!Idle) /\ odd' = odd
    BY <1>1, <1>3, CallEnded DEF Categories!Delete
  <2>2. TreeSame
    BY <2>1, SameCategories DEF TreeSame
  <2> QED BY <1>2, <2>1, <2>2, EndPath
<1>4. CASE c \in Categories!Live
  <2> DEFINE left == Categories!Branches(Categories!Children(c))
  <2>1. /\ c \in Nodes /\ Categories!Live' = Categories!Live \ {c}
        /\ \A x \in Nodes \ {c} :
             /\ cat'[x].name = cat[x].name /\ cat'[x].path = cat[x].path
             /\ cat'[x].level = cat[x].level
             /\ cat'[x].parent =
                  IF x \in Categories!Live /\ cat[x].parent = c THEN 0 ELSE cat[x].parent
        /\ Categories!Wrote(a, Categories!Idle)
    BY <1>1, <1>4, Deletion
  <2>2. odd' = odd \cup left
    BY <1>1, <1>4 DEF Categories!Delete
  <2>3. CallIs(a, Categories!Idle) /\ OthersMet(a) /\ edit'[a].pc = "idle"
    BY <2>1, IdleGood, CallWrote DEF OthersMet, CallIs
  <2>4. \A x \in Categories!Children(c) : x \in left
    BY BelowSelf DEF Categories!Branches, Categories!Children
  <2>5. /\ \A x \in Nodes : Categories!Children(x)' \subseteq Categories!Children(x)
        /\ \A x \in Nodes \ {c} : Categories!Children(x) \subseteq Categories!Children(x)' \cup {c}
    <3>1. ASSUME NEW x \in Nodes, NEW y \in Categories!Children(x)' PROVE y \in Categories!Children(x)
      <4>1. y \in Categories!Live /\ y \in Nodes \ {c} /\ cat'[y].parent = x /\ x # 0
        BY <2>1, <3>1, LiveNodes, CategoryNumbers DEF Categories!Children
      <4>2. cat[y].parent = x
        BY <2>1, <4>1
      <4> QED BY <4>1, <4>2 DEF Categories!Children
    <3>2. ASSUME NEW x \in Nodes \ {c}, NEW y \in Categories!Children(x), y # c
          PROVE  y \in Categories!Children(x)'
      <4>1. y \in Categories!Live' /\ y \in Nodes \ {c} /\ cat[y].parent = x
        BY <2>1, <3>2, LiveNodes DEF Categories!Children
      <4>2. cat'[y].parent = x
        BY <2>1, <3>2, <4>1
      <4> QED BY <4>1, <4>2 DEF Categories!Children
    <3> QED BY <3>1, <3>2
  <2>6. Categories!Closed(odd)' /\ left \subseteq Nodes
    <3>1. Categories!Closed(odd')
      BY <2>2, BelowClosed DEF PathInv, Categories!Closed
    <3>2. odd' \subseteq Nodes /\ left \subseteq Nodes
      BY <2>2, BranchNodes DEF CategoryTypes
    <3> QED BY <2>5, <3>1, <3>2 DEF Categories!Closed
  <2>7. ASSUME NEW x \in Nodes, NEW y \in Categories!Below(x), y # c
        PROVE  y \in Categories!Below(x)' \cup odd'
    <3> DEFINE S == Categories!Below(x)' \cup {x, c} \cup left
    <3>1. S \subseteq Nodes
      BY <2>1, <2>6 DEF Categories!Below, Categories!Live, Nodes
    <3>2. ASSUME NEW z \in S, NEW w \in Categories!Children(z), w # c PROVE w \in S
      <4>1. CASE z = c
        BY <2>4, <3>2, <4>1
      <4>2. CASE z \in left
        BY <3>2, <4>2, BelowClosed DEF Categories!Closed
      <4>3. CASE z # c /\ z \in Categories!Below(x)' \cup {x}
        <5>1. w \in Categories!Children(z)'
          BY <2>5, <3>1, <3>2, <4>3
        <5>2. w \in Categories!Live'
          BY <5>1 DEF Categories!Children
        <5>3. w \in Categories!Below(x)'
          BY <4>3, <5>1, <5>2 DEF Categories!Below, Categories!Closed
        <5> QED BY <5>3
      <4> QED BY <4>1, <4>2, <4>3
    <3>3. Categories!Closed(S)
      BY <3>2 DEF Categories!Closed
    <3> HIDE DEF S
    <3>4. y \in S
      <4>1. x \in S
        BY DEF S
      <4> QED BY <3>1, <3>3, <4>1, BelowLeast
    <3>5. y = x => y \in Categories!Below(x)'
      <4>1. y \in Categories!Live'
        BY <2>1, <2>7 DEF Categories!Below
      <4> QED BY <4>1 DEF Categories!Below
    <3> QED BY <2>2, <2>7, <3>4, <3>5 DEF S
  <2>8. ASSUME NEW b \in Handlers \ {a}, edit[b].pc = "rewrite"
        PROVE  /\ edit'[b].pc = "rewrite" /\ FoundBelow(b)'
               /\ Categories!Reach(b) \cap Categories!Live' \subseteq Categories!Reach(b)' \cup odd'
    <3>1. SameCall(b) /\ FoundBelow(b)
      BY <2>3 DEF CallIs, PathInv, SureCall
    <3>2. PICK x \in Nodes : x = edit[b].id
      BY <2>8 DEF CategoryTypes, GoodEdit, EditRow
    <3>3. edit'[b].id = x /\ edit'[b].found = edit[b].found /\ edit'[b].pc = "rewrite"
      BY <2>8, <3>1, <3>2 DEF SameCall
    <3>4. Categories!Below(edit[b].id)' = Categories!Below(x)'
      BY <3>3 DEF Categories!Below
    <3>5. Categories!Below(x) \cap Categories!Live' \subseteq Categories!Below(x)' \cup odd'
      BY <2>1, <2>7
    <3>6. FoundBelow(b)'
      BY <2>1, <2>2, <2>8, <3>1, <3>2, <3>3, <3>4, <3>5 DEF FoundBelow
    <3>7. Categories!Reach(b) \cap Categories!Live' \subseteq Categories!Reach(b)' \cup odd'
      BY <3>2, <3>3, <3>4, <3>5 DEF Categories!Reach
    <3> QED BY <3>3, <3>6, <3>7
  <2>9. \A b \in Handlers : SureCall(b)'
    <3>1. SureCall(a)'
      BY <2>3 DEF SureCall, FoundBelow, AsRead
    <3>2. ASSUME NEW b \in Handlers \ {a} PROVE SureCall(b)'
      <4>1. SameCall(b)
        BY <2>3 DEF CallIs
      <4>2. FoundBelow(b)'
        BY <2>8, <4>1 DEF FoundBelow, SameCall
      <4> QED BY <2>3, <4>1, <4>2, MetCall
    <3> QED BY <3>1, <3>2
  <2>10. Moving \cap Categories!Live' \subseteq Moving'
    <3>1. \A b \in Handlers : edit[b].pc = "rewrite" =>
            /\ b \in Handlers \ {a} /\ edit'[b].pc = "rewrite"
            /\ Categories!Reach(b) \cap Categories!Live' \subseteq Categories!Reach(b)' \cup odd'
      BY <1>2, <2>8
    <3> QED BY <2>2, <3>1 DEF Moving, Categories!Renaming
  <2>11. ASSUME NEW x \in Categories!Live', x \notin Moving' PROVE Follows(x)'
    <3>1. x \in Categories!Live /\ x \in Nodes \ {c} /\ Follows(x)
      BY <2>1, <2>10, <2>11, LiveNodes DEF PathInv
    <3>2. cat[x].parent # c
      BY <2>2, <2>4, <2>11, <3>1 DEF Moving, Categories!Children
    <3>3. PICK q : q = cat[x].parent
      OBVIOUS
    <3>4. q # 0 => cat'[q].path = cat[q].path
      BY <2>1, <3>1, <3>2, <3>3, LiveNodes
    <3>5. /\ cat[x].path = IF q = 0 THEN <<cat[x].name>> ELSE Append(cat[q].path, cat[x].name)
          /\ cat[x].level = Len(cat[x].path)
      BY <3>1, <3>3 DEF Follows
    <3>6. /\ cat'[x].name = cat[x].name /\ cat'[x].path = cat[x].path
          /\ cat'[x].level = cat[x].level /\ cat'[x].parent = q
      BY <2>1, <3>1, <3>2, <3>3
    <3>7. /\ cat'[x].path = IF q = 0 THEN <<cat'[x].name>> ELSE Append(cat'[q].path, cat'[x].name)
          /\ cat'[x].level = Len(cat'[x].path)
      BY <3>4, <3>5, <3>6
    <3> QED BY <3>6, <3>7 DEF Follows
  <2> QED BY <2>6, <2>9, <2>11 DEF PathInv
<1> QED BY <1>3, <1>4

\* A chain of categories of one name
LEMMA ChainPath ==
  ASSUME NEW S, NEW n \in S, NEW c \in Nat
  PROVE  /\ [i \in 1..c |-> n] \in Seq(S) /\ Len([i \in 1..c |-> n]) = c
         /\ [i \in 1..(c + 1) |-> n] = Append([i \in 1..c |-> n], n)
<1> DEFINE p(k) == [i \in 1..k |-> n]
<1>1. ASSUME NEW k \in Nat PROVE p(k) \in Seq(S) /\ Len(p(k)) = k /\ \A i \in 1..k : p(k)[i] = n
  <2>1. p(k) \in [1..k -> S]
    OBVIOUS
  <2>2. p(k) \in Seq(S) /\ Len(p(k)) = k
    BY <2>1
  <2> QED BY <2>2
<1>2. c + 1 \in Nat
  OBVIOUS
<1>3. PICK s \in Seq(S), t \in Seq(S) : s = p(c) /\ t = p(c + 1)
  BY <1>1, <1>2
<1>4. /\ Len(s) = c /\ Len(t) = c + 1
      /\ (\A i \in 1..c : s[i] = n) /\ \A i \in 1..(c + 1) : t[i] = n
  BY <1>1, <1>2, <1>3
<1> HIDE DEF p
<1> DEFINE u == Append(s, n)
<1>5. /\ u \in Seq(S) /\ Len(u) = Len(s) + 1 /\ (\A i \in 1..Len(s) : u[i] = s[i])
      /\ u[Len(s) + 1] = n
  BY AppendProperties
<1> HIDE DEF u
<1>6. \A i \in 1..Len(t) : t[i] = u[i]
  BY <1>4, <1>5
<1>7. t = u
  BY <1>4, <1>5, <1>6, SeqEqual
<1> QED BY <1>3, <1>4, <1>7 DEF p, u

LEMMA PathInit == Categories!Init => PathInv
<1> SUFFICES ASSUME Categories!Init PROVE PathInv
  OBVIOUS
<1>1. PICK n \in TwoProducts, k \in 0..Size :
        cat = [c \in Nodes |->
             IF c > k THEN Categories!None
             ELSE [parent |-> c - 1, name |-> n, path |-> [i \in 1..c |-> n], level |-> c, mapped |-> 0]]
  BY DEF Categories!Init, Nodes
<1>2. odd = {} /\ \A a \in Handlers : edit[a].pc = "idle"
  BY CategoryRows DEF Categories!Init
<1>3. ASSUME NEW c \in Nodes, c <= k
      PROVE  /\ cat[c].parent = c - 1 /\ cat[c].name = n /\ cat[c].level = c
             /\ cat[c].path = [i \in 1..c |-> n]
  <2>1. ~(c > k)
    BY <1>1, <1>3, CategoryNumbers
  <2> QED BY <1>1, <1>3, <2>1
<1>4. ASSUME NEW c \in Categories!Live PROVE Follows(c)
  <2>1. c \in Nodes /\ c \in Nat /\ c # 0 /\ c <= k
    <3>1. c \in Nodes /\ cat[c] # Categories!None
      BY <1>4 DEF Categories!Live, Nodes
    <3>2. ~(c > k) /\ c \in Nat /\ c # 0
      BY <1>1, <3>1, CategoryNumbers
    <3> QED BY <1>1, <3>1, <3>2, CategoryNumbers
  <2>2. PICK m \in Nat : m = c - 1 /\ c = m + 1
    BY <2>1
  <2>3. /\ Len([i \in 1..c |-> n]) = c
        /\ [i \in 1..c |-> n] = Append([i \in 1..m |-> n], n)
    BY <2>1, <2>2, ChainPath
  <2>4. /\ cat[c].parent = m /\ cat[c].name = n /\ cat[c].level = c
        /\ cat[c].path = [i \in 1..c |-> n]
    BY <1>3, <2>1, <2>2
  <2>5. CASE m = 0
    <3>1. [i \in 1..m |-> n] = <<>>
      BY <2>5
    <3>2. Append(<<>>, n) = <<n>>
      OBVIOUS
    <3> QED BY <2>3, <2>4, <2>5, <3>1, <3>2 DEF Follows
  <2>6. CASE m # 0
    <3>1. m \in Nodes /\ m <= k
      <4>1. m \in Nat /\ m >= 1 /\ m <= c
        BY <2>2, <2>6
      <4> QED BY <1>1, <2>1, <4>1, CategoryNumbers
    <3>2. cat[m].path = [i \in 1..m |-> n]
      BY <1>3, <3>1
    <3> QED BY <2>3, <2>4, <2>6, <3>2 DEF Follows
  <2> QED BY <2>5, <2>6
<1>5. Categories!Closed(odd)
  BY <1>2 DEF Categories!Closed
<1>6. \A a \in Handlers : SureCall(a)
  BY <1>2 DEF SureCall, FoundBelow, AsRead
<1> QED BY <1>4, <1>5, <1>6 DEF PathInv

LEMMA PathStep ==
  ASSUME CategoryTypes, PathInv, [Categories!Next]_categoryVars
  PROVE  PathInv'
<1>1. ASSUME NEW a \in Handlers,
         \/ \E p \in Categories!Live \cup {Categories!Root}, n \in TwoProducts :
              Categories!ReadParent(a, p, n)
         \/ \E c \in Categories!Live, n \in TwoProducts : Categories!ReadCategory(a, c, n)
         \/ \E c \in Categories!Live : Categories!CountChildren(a, c)
         \/ \E m \in Maps, c \in Categories!Live :
              Categories!AddMapping(a, m, c) \/ Categories!DeleteMapping(a, m, c)
      PROVE  PathInv'
  BY <1>1, BeginPath
<1>2. ASSUME NEW a \in Handlers, NEW c \in Nodes, Categories!Create(a, c) PROVE PathInv'
  BY <1>2, CreatePath
<1>3. ASSUME NEW a \in Handlers, Categories!FindDescendants(a) PROVE PathInv'
  BY <1>3, FindPath
<1>4. ASSUME NEW a \in Handlers, NEW d \in edit[a].todo, Categories!RewriteOne(a, d) PROVE PathInv'
  BY <1>4, RewritePath
<1>5. ASSUME NEW a \in Handlers, Categories!Rename(a) PROVE PathInv'
  BY <1>5, RenamePath
<1>6. ASSUME NEW a \in Handlers, Categories!Delete(a) PROVE PathInv'
  BY <1>6, DeletePath
<1>7. ASSUME NEW a \in Handlers, Categories!CountMapping(a) PROVE PathInv'
  BY <1>7, CountPath
<1>8. ASSUME NEW a \in Handlers, Categories!BreakOff(a) PROVE PathInv'
  BY <1>8, BreakOffPath
<1>9. CASE UNCHANGED categoryVars
  <2>1. /\ cat' = cat /\ edit' = edit /\ odd' = odd /\ TreeSame /\ Categories!Live' = Categories!Live
        /\ \A a \in Handlers : SameCall(a)
    BY <1>9, SameCategories DEF categoryVars, TreeSame, SameCall
  <2>2. \A a \in Handlers : Categories!Reach(a)' = Categories!Reach(a) /\ FoundBelow(a)'
    BY <2>1, SameReach DEF TreeSame, PathInv, SureCall
  <2>3. Moving' = Moving /\ \A a \in Handlers : MovingFor(a)' = MovingFor(a)
    BY <2>1, <2>2 DEF Moving, MovingFor, Categories!Renaming
  <2>4. ASSUME NEW a \in Handlers PROVE SureCall(a)'
    <3>1. SureCall(a)
      BY DEF PathInv
    <3>2. AsRead(edit[a]) => AsRead(edit[a])'
      BY <2>1, AsReadSame
    <3>3. AsRead(edit[a]) /\ edit[a].pc = "rewrite" /\ RenamesAll(a) => RenamesAll(a)'
      BY <2>1, <2>3, RenamesAllSame
    <3> QED BY <2>1, <2>2, <3>1, <3>2, <3>3 DEF SureCall
  <2>5. \A x \in Categories!Live \ Moving : Follows(x)'
    BY <2>1, FollowsSame DEF PathInv
  <2>6. Categories!Closed(odd)'
    <3>1. \A x : Categories!Children(x)' = Categories!Children(x)
      BY <2>1, SameBelow DEF TreeSame
    <3> QED BY <2>1, <3>1 DEF PathInv, Categories!Closed
  <2> QED BY <2>1, <2>3, <2>4, <2>5, <2>6 DEF PathInv
<1> QED
  BY <1>1, <1>2, <1>3, <1>4, <1>5, <1>6, <1>7, <1>8, <1>9 DEF Categories!Next, Nodes

CategoryInv == CategoryTypes /\ Categories!CountsMapped /\ PathInv

LEMMA CategoryFocus == MasterSpec => [](focus = "categories" => CategoryInv)
<1>1. MasterInit => (focus = "categories" => CategoryInv)
  BY CategoryTypesInit, CountsInit, PathInit DEF MasterInit, CategoryInv
<1>2. CategoryInv /\ [Categories!Next]_categoryVars => CategoryInv'
  BY CategoryTypesStep, CountsStep, PathStep DEF CategoryInv
<1>3. (focus = "categories" => CategoryInv) /\ [MasterNext]_allVars => (focus = "categories" => CategoryInv)'
  BY <1>2, FocusStep
<1> QED BY <1>1, <1>3, PTL DEF MasterSpec, allVars

\* However many administrators rename, create and delete, in steps that interleave
\* and break off: the path of a category is that of its parent and its name, and
\* as long as its level, but for what a call wrote that met another or broke off,
\* for the branch of the same path that a renaming takes for its own even when it
\* is alone (system-registry-routes.ts:346), and for what lies below those; and the
\* number it carries is that of its mappings once the calls under way are counted.
THEOREM CatalogueIsKept == MasterSpec => []CatalogueKept
<1>1. (focus = "categories" => CategoryInv) => CatalogueKept
  BY PathsFollowEvery DEF CatalogueKept, CategoryInv, Categories!CategoriesKept
<1> QED BY <1>1, CategoryFocus, PTL
-----------------------------------------------------------------------------
(* The external id mapping in both of its write modes: ExternalIdMappingProofs  *)
(* holds for every value of the constants, those of the dual mode among them.   *)

MappingProofs == INSTANCE ExternalIdMappingProofs
DualProofs == INSTANCE ExternalIdMappingProofs WITH
  Products <- TwoProducts, DualWrite <- TRUE, MaxRows <- 1, MaxVersion <- 5

\* Two names of one formula: the model steps by Next and Dual!Next.
LEMMA SameMappingInit == (Init <=> MappingProofs!Init) /\ (Init <=> DualProofs!Init)
BY DEF
  Init, Idle, NoTransaction, MappingProofs!Init, MappingProofs!Idle,
  MappingProofs!NoTransaction, DualProofs!Init, DualProofs!Idle, DualProofs!NoTransaction

LEMMA SameMappingNext == [Next]_vars <=> [MappingProofs!Next]_(MappingProofs!vars)
BY DEF
  NoTransaction, Idle, Ids, OfKey, ApprovedOf, Answer, NewRow, Moved, Updated, Refused,
  Rivals, Read, Undecided, ReadApprove, ReadCreateApprove, ReadBatch, ReadReject,
  ReadRevoke, ReadRollback, Free, Newest, MapTarget, ReadMap, ReadDrop, Writing, Publishing,
  Create, Approve, Reject, Revoke, Map, Drop, Freeze, Abort, Reading, Next, vars,
  MappingProofs!NoTransaction, MappingProofs!Idle, MappingProofs!Ids, MappingProofs!OfKey,
  MappingProofs!ApprovedOf, MappingProofs!Answer, MappingProofs!NewRow, MappingProofs!Moved,
  MappingProofs!Updated, MappingProofs!Refused, MappingProofs!Rivals, MappingProofs!Read,
  MappingProofs!Undecided, MappingProofs!ReadApprove, MappingProofs!ReadCreateApprove,
  MappingProofs!ReadBatch, MappingProofs!ReadReject, MappingProofs!ReadRevoke,
  MappingProofs!ReadRollback, MappingProofs!Free, MappingProofs!Newest,
  MappingProofs!MapTarget, MappingProofs!ReadMap, MappingProofs!ReadDrop,
  MappingProofs!Writing, MappingProofs!Publishing, MappingProofs!Create,
  MappingProofs!Approve, MappingProofs!Reject, MappingProofs!Revoke, MappingProofs!Map,
  MappingProofs!Drop, MappingProofs!Freeze, MappingProofs!Abort, MappingProofs!Reading,
  MappingProofs!Next, MappingProofs!vars

LEMMA SameDualNext == [Dual!Next]_vars <=> [DualProofs!Next]_(DualProofs!vars)
BY DEF
  vars, Dual!NoTransaction, Dual!Idle, Dual!Ids, Dual!OfKey, Dual!ApprovedOf, Dual!Answer,
  Dual!NewRow, Dual!Moved, Dual!Updated, Dual!Refused, Dual!Rivals, Dual!Read,
  Dual!Undecided, Dual!ReadApprove, Dual!ReadCreateApprove, Dual!ReadBatch, Dual!ReadReject,
  Dual!ReadRevoke, Dual!ReadRollback, Dual!Free, Dual!Newest, Dual!MapTarget, Dual!ReadMap,
  Dual!ReadDrop, Dual!Writing, Dual!Publishing, Dual!Create, Dual!Approve, Dual!Reject,
  Dual!Revoke, Dual!Map, Dual!Drop, Dual!Freeze, Dual!Abort, Dual!Reading, Dual!Next,
  DualProofs!NoTransaction, DualProofs!Idle, DualProofs!Ids, DualProofs!OfKey,
  DualProofs!ApprovedOf, DualProofs!Answer, DualProofs!NewRow, DualProofs!Moved,
  DualProofs!Updated, DualProofs!Refused, DualProofs!Rivals, DualProofs!Read,
  DualProofs!Undecided, DualProofs!ReadApprove, DualProofs!ReadCreateApprove,
  DualProofs!ReadBatch, DualProofs!ReadReject, DualProofs!ReadRevoke,
  DualProofs!ReadRollback, DualProofs!Free, DualProofs!Newest, DualProofs!MapTarget,
  DualProofs!ReadMap, DualProofs!ReadDrop, DualProofs!Writing, DualProofs!Publishing,
  DualProofs!Create, DualProofs!Approve, DualProofs!Reject, DualProofs!Revoke,
  DualProofs!Map, DualProofs!Drop, DualProofs!Freeze, DualProofs!Abort, DualProofs!Reading,
  DualProofs!Next, DualProofs!vars

LEMMA SameTypes == (MappingProofs!TypeOK => TypeOK) /\ (DualProofs!TypeOK => Dual!TypeOK)
<1>1. MappingProofs!TypeOK => TypeOK
  BY DEF
    Status, Entry, Row, RowsTyped, CallsTyped, Ids, TypeOK, MappingProofs!Status,
    MappingProofs!Entry, MappingProofs!Row, MappingProofs!RowsTyped, MappingProofs!CallsTyped,
    MappingProofs!Ids, MappingProofs!TypeOK
<1>2. DualProofs!TypeOK => Dual!TypeOK
  BY DEF
    Dual!Status, Dual!Entry, Dual!Row, Dual!RowsTyped, Dual!CallsTyped, Dual!Ids, Dual!TypeOK,
    DualProofs!Status, DualProofs!Entry, DualProofs!Row, DualProofs!RowsTyped,
    DualProofs!CallsTyped, DualProofs!Ids, DualProofs!TypeOK
<1> QED BY <1>1, <1>2

\* The properties speak of no constant in which the two modes differ.
LEMMA SameMappingProperties ==
  \/ MappingProofs!OneApprovedPerKey /\ MappingProofs!HistoryComplete /\ MappingProofs!RevokedFrozen
  \/ DualProofs!OneApprovedPerKey /\ DualProofs!HistoryComplete /\ DualProofs!RevokedFrozen
  => OneApprovedPerKey /\ HistoryComplete /\ RevokedFrozen
BY DEF
  OneApprovedPerKey, HistoryComplete, RevokedFrozen, Ids, MappingProofs!OneApprovedPerKey,
  MappingProofs!HistoryComplete, MappingProofs!RevokedFrozen, MappingProofs!Ids,
  DualProofs!OneApprovedPerKey, DualProofs!HistoryComplete, DualProofs!RevokedFrozen,
  DualProofs!Ids

LEMMA ModesFit ==
  /\ ProductKeys \subseteq Keys /\ DualWrite \in BOOLEAN /\ MaxRows \in Nat /\ MaxVersion \in Nat
  /\ TRUE \in BOOLEAN /\ 1 \in Nat /\ 5 \in Nat
BY MappingAssumption

\* In the other components' focus the mapping stays as it begins.
RowsInv == IF focus = "dual" THEN DualProofs!MappingInv ELSE MappingProofs!MappingInv

LEMMA RowsKept == MasterSpec => []RowsInv
<1>1. MasterInit => RowsInv
  <2>1. MappingProofs!Init => MappingProofs!MappingInv
    BY ModesFit, MappingProofs!MappingInit
  <2>2. DualProofs!Init => DualProofs!MappingInv
    BY ModesFit, DualProofs!MappingInit
  <2> QED BY <2>1, <2>2, SameMappingInit DEF MasterInit, RowsInv
<1>2. RowsInv /\ [MasterNext]_allVars => RowsInv'
  <2> SUFFICES ASSUME RowsInv, [MasterNext]_allVars PROVE RowsInv'
    OBVIOUS
  <2>1. focus' = focus
    BY FocusStep
  <2>2. CASE focus = "dual"
    <3>1. [Dual!Next]_vars
      BY <2>2 DEF MasterNext, allVars, recordVars
    <3>2. DualProofs!MappingInv /\ [DualProofs!Next]_(DualProofs!vars) => DualProofs!MappingInv'
      BY ModesFit, DualProofs!MappingStep
    <3> QED BY <2>1, <2>2, <3>1, <3>2, SameDualNext DEF RowsInv
  <2>3. CASE focus # "dual"
    <3>1. [Next]_vars
      BY <2>3 DEF MasterNext, allVars, recordVars
    <3>2. MappingProofs!MappingInv /\ [MappingProofs!Next]_(MappingProofs!vars)
            => MappingProofs!MappingInv'
      BY ModesFit, MappingProofs!MappingStep
    <3> QED BY <2>1, <2>3, <3>1, <3>2, SameMappingNext DEF RowsInv
  <2> QED BY <2>2, <2>3
<1> QED BY <1>1, <1>2, PTL DEF MasterSpec, allVars

LEMMA RowsHold ==
  RowsInv => /\ OneApprovedPerKey /\ HistoryComplete /\ RevokedFrozen
             /\ focus = "dual" => Dual!TypeOK
             /\ focus = "mapping" => TypeOK
<1>1. MappingProofs!MappingInv =>
        /\ MappingProofs!TypeOK /\ MappingProofs!OneApprovedPerKey
        /\ MappingProofs!HistoryComplete /\ MappingProofs!RevokedFrozen
  BY ModesFit, MappingProofs!MappingHolds
<1>2. DualProofs!MappingInv =>
        /\ DualProofs!TypeOK /\ DualProofs!OneApprovedPerKey
        /\ DualProofs!HistoryComplete /\ DualProofs!RevokedFrozen
  BY ModesFit, DualProofs!MappingHolds
<1> QED BY <1>1, <1>2, SameTypes, SameMappingProperties DEF RowsInv

\* What holds of the mapping of external ids holds in both write modes: one approved
\* mapping of a key, a complete trail, and revoked products frozen
\* (mdm-mapping-routes.ts with and without the older routes of mdm-asset-routes.ts).
THEOREM MappingsAreKept == MasterSpec => [](OneApprovedPerKey /\ HistoryComplete /\ RevokedFrozen)
<1>1. RowsInv => OneApprovedPerKey /\ HistoryComplete /\ RevokedFrozen
  BY RowsHold
<1> QED BY <1>1, RowsKept, PTL
-----------------------------------------------------------------------------
(* The types of every component, from its invariant                         *)

LEMMA RecordsTyped ==
  /\ CostInv => Costs!TypeOK
  /\ TreeInv => Tree!TypeOK
  /\ RateInv => Rates!TypeOK
<1>1. CostInv => Costs!TypeOK
  BY DEF CostInv, CostTypes, CostRow, GoodRows, GoodCall, Costs!OpenVersions, Costs!TypeOK
<1>2. TreeInv => Tree!TypeOK
  BY DEF TreeInv, TreeTypes, Known, Stages, Tree!TypeOK
<1>3. RateInv => Rates!TypeOK
  BY DEF RateInv, RateTypes, Rates!TypeOK
<1> QED BY <1>1, <1>2, <1>3

LEMMA ConsolesTyped ==
  /\ PolicyInv => ModelUse!TypeOK
  /\ RegistryInv => Registry!TypeOK
<1>1. PolicyInv => ModelUse!TypeOK
  <2> SUFFICES ASSUME PolicyInv PROVE ModelUse!TypeOK
    OBVIOUS
  <2>1. ASSUME NEW i \in ModelUse!Rows PROVE policies[i].legacy \in {"yes", "no"}
    <3>1. policies[i] \in Stored /\ policies[i] # ModelUse!NoPolicy
      BY <2>1 DEF ModelUse!Rows, PolicyInv, PolicyTypes
    <3>2. PICK form \in ModelUse!Forms : policies[i] = ModelUse!Sanitized(form)
      BY <3>1 DEF Stored
    <3> QED BY <3>2, SanitizedSays
  <2> QED BY <2>1 DEF PolicyInv, PolicyTypes, ModelUse!TypeOK
<1>2. RegistryInv => Registry!TypeOK
  BY DEF RegistryInv, RegistryTypes, Registry!TypeOK
<1> QED BY <1>1, <1>2

LEMMA CatalogueTyped == CategoryInv => Categories!TypeOK
<1> SUFFICES ASSUME CategoryInv PROVE Categories!TypeOK
  OBVIOUS
<1>1. CategoryTypes /\ Nodes = Categories!Ids /\ Categories!Root = 0
  BY CategoryNumbers DEF CategoryInv, Nodes
<1>2. ASSUME NEW c \in Nodes
      PROVE  /\ cat[c].parent \in Nodes \cup {0} /\ cat[c].name \in TwoProducts \cup {"", "-"}
             /\ cat[c].level \in 0..MaxDepth /\ cat[c].mapped \in Int /\ cat[c].path \in Seq(TwoProducts)
  <2>1. cat[c] \in NodeRow
    BY <1>1 DEF CategoryTypes
  <2> QED BY <2>1 DEF NodeRow, Nameless
<1>3. ASSUME NEW a \in Handlers PROVE edit[a].id \in Nodes \cup {0} /\ edit[a].met \in BOOLEAN
  BY <1>1 DEF CategoryTypes, EditRow
<1> QED BY <1>1, <1>2, <1>3 DEF CategoryTypes, Categories!TypeOK

LEMMA EveryFocus == MasterSpec => [](focus \in {"mapping", "dual", "costs", "tree", "rates", "policy",
                                                "registry", "categories"})
<1> DEFINE Among == focus \in {"mapping", "dual", "costs", "tree", "rates", "policy", "registry", "categories"}
<1>1. MasterInit => Among
  BY DEF MasterInit
<1>2. Among /\ [MasterNext]_allVars => Among'
  BY FocusStep
<1> QED BY <1>1, <1>2, PTL DEF MasterSpec, allVars

\* The rows and calls of each component have their shape: no call writes a row that is not
\* there, and what is stored refers to what exists.
THEOREM MasterTyped == MasterSpec => []TypesOK
<1>1. /\ focus \in {"mapping", "dual", "costs", "tree", "rates", "policy", "registry", "categories"}
      /\ RowsInv /\ (focus = "costs" => CostInv) /\ (focus = "tree" => TreeInv)
      /\ (focus = "rates" => RateInv) /\ (focus = "policy" => PolicyInv)
      /\ (focus = "registry" => RegistryInv) /\ (focus = "categories" => CategoryInv)
      => TypesOK
  BY RowsHold, RecordsTyped, ConsolesTyped, CatalogueTyped DEF TypesOK
<1> QED BY <1>1, EveryFocus, RowsKept, CostFocus, TreeFocus, RateFocus, PolicyFocus, RegistryFocus,
           CategoryFocus, PTL
=============================================================================
