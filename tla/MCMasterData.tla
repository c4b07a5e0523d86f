---------------------------- MODULE MCMasterData ----------------------------
(***************************************************************************)
(* Instances for TLC of what administrators maintain: the external id         *)
(* mapping in both of its write modes, the versions of costs, the tree of      *)
(* products, the exchange rates, the policy of the models, the registry of    *)
(* the system and its tree of categories. The components share no state: a     *)
(* run of the model is of one of them, the focus, and the others have          *)
(* a state of no meaning.                                                   *)
(***************************************************************************)
EXTENDS ExternalIdMapping, FiniteSets, TLC

CONSTANTS
  TwoProducts,
  Changes, Prices, MaxClock,                      \* the costs
  Listings, Commodities, Requests,                \* the tree of products
  Months, Length, MaxDay,                         \* the calendar of the rates
  Models, Legacy, Default, Savers, RoleOf, Drafts, ApiKeys, MaxSaves,
  Tenants, MaxCalls, MaxToggles,                  \* the registry
  Size, Maps, MaxDepth, MaxEdits, MaxFaults       \* the tree of categories

ASSUME MasterAssumption ==
  \* the catalogue has the default, and what is typed into the form of the policy
  \* says yes or no of older models
  /\ Default \in Models
  /\ \A form \in Drafts : /\ form = [part \in DOMAIN form |-> form[part]]
                           /\ DOMAIN form = {"legacy", "allowed", "blocked", "over"}
                           /\ form.legacy \in {"yes", "no"}
  /\ MaxClock \in Nat
  \* a month has a second and a year a month
  /\ Months \in Nat \ {0} /\ Length \in Nat \ {0, 1} /\ MaxDay \in Nat
  \* ids are of one kind
  /\ Commodities \cap Listings = {} /\ {"product", "none"} \cap (Commodities \cup Listings) = {}

\* Administrators and mappings are finitely many, and a category has a name.
ASSUME CatalogueAssumption ==
  /\ IsFiniteSet(Handlers) /\ IsFiniteSet(Maps)
  /\ Size \in Nat /\ MaxDepth \in Nat \ {0} /\ {"", "-"} \cap TwoProducts = {}

VARIABLES
  focus,
  clock, price, costs, change, stale, manual,
  tree, listed, stage, bound, request, together, unsynced,
  today, up, dailyDue, monthly, snapshots, averages, absent,
  policies, trail, configs, platform, saving, saves, before, plain,
  kind, enabled, rowsOf, sold, shown, warning, toggling, toggle, seen, current, late, toggles,
  cat, maps, edit, odd, strayed, edits, faults
-----------------------------------------------------------------------------
(* A form of the model policy: an id nobody knows, and a section of each role *)

Section == [legacy |-> "absent", allowed |-> {}, blocked |-> {"flash"}]
PolicyForm ==
  [legacy |-> "yes", allowed |-> {"typo"}, blocked |-> {},
   over |-> [r \in {"tenant_admin", "operator"} |-> Section]]
OneForm == {PolicyForm}
RoleOfSaver == [a \in Savers |-> IF a = "a1" THEN "system_admin" ELSE "tenant_admin"]
-----------------------------------------------------------------------------

\* The older routes write too, and a mapping can change its product.
Dual == INSTANCE ExternalIdMapping WITH
  Products <- TwoProducts, DualWrite <- TRUE, MaxRows <- 1, MaxVersion <- 5
Costs == INSTANCE CostVersions
Tree == INSTANCE ProductTree
Rates == INSTANCE ExchangeRates
ModelUse == INSTANCE ModelPolicy WITH
  Admins <- Savers, Keys <- ApiKeys, call <- saving
Registry == INSTANCE SystemRegistry WITH
  Admins <- Handlers, MaxWrites <- MaxToggles,
  rows <- rowsOf, call <- toggle, writes <- toggles
Categories == INSTANCE CategoryTree WITH
  N <- Size, Names <- TwoProducts, Admins <- Handlers,
  MaxWrites <- MaxEdits, call <- edit, writes <- edits

costVars == <<clock, price, costs, change, stale, manual>>
treeVars == <<tree, listed, stage, bound, request, together, unsynced>>
rateVars == <<today, up, dailyDue, monthly, snapshots, averages, absent>>
policyVars == <<policies, trail, configs, platform, saving, saves, before, plain>>
registryVars ==
  <<kind, enabled, rowsOf, sold, shown, warning, toggling, toggle, seen, current, late, toggles>>
categoryVars == <<cat, maps, edit, odd, strayed, edits, faults>>

\* The state of a component that is not in focus
Off == "off"

MasterInit ==
  /\ focus \in {"mapping", "dual", "costs", "tree", "rates", "policy", "registry", "categories"}
  /\ Init
  /\ IF focus = "costs" THEN Costs!Init
     ELSE /\ clock = Off /\ price = Off /\ costs = Off /\ change = Off /\ stale = Off
          /\ manual = Off
  /\ IF focus = "tree" THEN Tree!Init
     ELSE /\ tree = Off /\ listed = Off /\ stage = Off /\ bound = Off /\ request = Off
          /\ together = Off /\ unsynced = Off
  /\ IF focus = "rates" THEN Rates!Init
     ELSE /\ today = Off /\ up = Off /\ dailyDue = Off /\ monthly = Off
          /\ snapshots = Off /\ averages = Off /\ absent = Off
  /\ IF focus = "policy" THEN ModelUse!Init
     ELSE /\ policies = Off /\ trail = Off /\ configs = Off /\ platform = Off
          /\ saving = Off /\ saves = Off /\ before = Off /\ plain = Off
  /\ IF focus = "registry" THEN Registry!Init
     ELSE /\ kind = Off /\ enabled = Off /\ rowsOf = Off /\ sold = Off /\ shown = Off
          /\ warning = Off /\ toggling = Off /\ toggle = Off /\ seen = Off /\ current = Off /\ late = Off
          /\ toggles = Off
  /\ IF focus = "categories" THEN Categories!Init
     ELSE /\ cat = Off /\ maps = Off /\ edit = Off /\ odd = Off /\ strayed = Off
          /\ edits = Off /\ faults = Off

\* The state of the records of tenants, and that of the consoles
recordVars == <<vars, costVars, treeVars, rateVars>>
consoleVars == <<policyVars, registryVars, categoryVars>>

MasterNext ==
  \/ focus = "mapping" /\ Next /\ UNCHANGED <<focus, costVars, treeVars, rateVars, consoleVars>>
  \/ focus = "dual" /\ Dual!Next /\ UNCHANGED <<focus, costVars, treeVars, rateVars, consoleVars>>
  \/ focus = "costs" /\ Costs!Next /\ UNCHANGED <<focus, vars, treeVars, rateVars, consoleVars>>
  \/ focus = "tree" /\ Tree!Next /\ UNCHANGED <<focus, vars, costVars, rateVars, consoleVars>>
  \/ focus = "rates" /\ Rates!Next /\ UNCHANGED <<focus, vars, costVars, treeVars, consoleVars>>
  \/ focus = "policy" /\ ModelUse!Next /\ UNCHANGED <<focus, recordVars, registryVars, categoryVars>>
  \/ focus = "registry" /\ Registry!Next /\ UNCHANGED <<focus, recordVars, policyVars, categoryVars>>
  \/ focus = "categories" /\ Categories!Next /\ UNCHANGED <<focus, recordVars, policyVars, registryVars>>

MasterSpec == MasterInit /\ [][MasterNext]_<<focus, recordVars, consoleVars>>
-----------------------------------------------------------------------------
\* The types of every component
TypesOK ==
  CASE focus = "mapping" -> TypeOK
    [] focus = "dual" -> Dual!TypeOK
    [] focus = "costs" -> Costs!TypeOK
    [] focus = "tree" -> Tree!TypeOK
    [] focus = "rates" -> Rates!TypeOK
    [] focus = "policy" -> ModelUse!TypeOK
    [] focus = "registry" -> Registry!TypeOK
    [] focus = "categories" -> Categories!TypeOK

(* OneApprovedPerKey, HistoryComplete and RevokedFrozen are those of
   ExternalIdMapping: they speak of no constant in which the two differ. *)

\* A version without an end ends every earlier one it knew of, and where prices
\* change by PUT alone, the price is the cost in force.
CostsKept == focus = "costs" => Costs!LaterEndsEarlier /\ Costs!PriceInForce

\* Every stage is that of the listings below it once changes are rolled up.
StagesRolledUp == focus = "tree" => Tree!StagesRolledUp

\* A month has its average, of all its days, after the second of the next month.
AveragedAfterSecond == focus = "rates" => Rates!AveragedAfterSecond

\* A policy saved alone is audited with what was in force, no key is lost to its
\* mask, and a model that a page shows is one that the router would use; a click
\* changes an entry of the registry to what it was meant to, and none that
\* tenants use is switched off without asking.
ConsoleKept ==
  /\ focus = "policy" => ModelUse!PolicyKept
  /\ focus = "registry" => Registry!RegistryKept

\* The path of a category is that of its parent and its name, except where a call
\* met another's writing or a rename took another branch of the same path for its
\* own; the numbers of mappings are those of their rows.
CatalogueKept == focus = "categories" => Categories!CategoriesKept
-----------------------------------------------------------------------------
\* The sets of the components have the values of Handlers or of TwoProducts, so
\* that few permutations do for all.
Symmetry == 
  Permutations(TwoProducts) \cup Permutations(Handlers) \cup Permutations(Commodities)
=============================================================================
