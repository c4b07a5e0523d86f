----------------------------- MODULE ModelPolicy -----------------------------
(***************************************************************************)
(* The models and the keys of a tenant's calls to the AI provider: the model  *)
(* policy with its audit events, the configuration of the tenant and of the  *)
(* platform (mdm-primitives-routes.ts, platform-ai-routes.ts), what the       *)
(* router makes of them (model-router.ts), and the pages that write them     *)
(* (access-policy, provider-config, model-routing, platform-provider).       *)
(*                                                                         *)
(* A row is found by findFirst and then updated, or created when none was     *)
(* found; no unique key stops two saves from creating one each, and which    *)
(* of two rows is found is a choice. An administrator has one save under way *)
(* at a time, on the page it is at.                                         *)
(***************************************************************************)
EXTENDS Naturals, Sequences, FiniteSets

CONSTANTS
  Models, Legacy,   \* MODEL_CATALOG
  Default,          \* DEFAULT_MODEL_ID
  Admins, RoleOf,   \* who saves, and the role of each
  Drafts,           \* what may be typed into the form of the policy
  Keys,
  MaxSaves          \* bound of the model: saves of all pages

VARIABLES
  policies,   \* rows of ai_model_policy, in the order of creation; NoPolicy: deleted
  trail,      \* the last audit event
  configs,    \* rows of ai_integrations, in the order of creation
  platform,   \* platform_ai_config
  call,       \* the save under way of each administrator
  saves,
  before,     \* history: what was in force before the last write
  plain       \* history: the last write had no other save beside it, and is in the trail

policyVars == <<policies, trail, configs, platform, call, saves, before, plain>>

Overridden == {"tenant_admin", "operator"}   \* roles with a section in the form
Absent == "absent"
Emptied == "emptied"   \* a routing that is sent with nothing in it
Masked == "masked"
EmptySection == [legacy |-> Absent, allowed |-> {}, blocked |-> {}]
\* A policy that is stored says yes or no of legacy models.
NoPolicy == [legacy |-> Absent, allowed |-> {}, blocked |-> {}, over |-> [r \in Overridden |-> EmptySection]]
NoConfig == [key |-> Absent, model |-> Absent, routed |-> Absent]
NoCall == [pc |-> "idle", kind |-> "none", policy |-> NoPolicy, config |-> NoConfig, row |-> 0,
           old |-> NoPolicy, read |-> NoConfig, alone |-> TRUE]

Rows == {i \in DOMAIN policies : policies[i] # NoPolicy}
PolicyAt(i) == IF i = 0 THEN NoPolicy ELSE policies[i]
ConfigAt(i) == IF i = 0 THEN NoConfig ELSE configs[i]
\* What findFirst may return: 0 when there is no row
FoundPolicy == IF Rows = {} THEN {0} ELSE Rows
FoundConfig == IF configs = <<>> THEN {0} ELSE DOMAIN configs
\* What may be found when these are the policies in force
OneOf(inforce) == IF inforce = {} THEN {NoPolicy} ELSE inforce
Or(x, y) == IF x # Absent THEN x ELSE y
InForce == {policies[i] : i \in Rows}

-----------------------------------------------------------------------------
(* filterModelsByPolicy and sanitizePolicy *)

Visible(role, p) ==
  LET section == IF p # NoPolicy /\ role \in Overridden THEN p.over[role] ELSE p
      legacy == Or(section.legacy, Or(p.legacy, IF role = "system_admin" THEN "yes" ELSE "no"))
  IN {m \in Models : /\ m \in Legacy => legacy = "yes"
                     /\ section.allowed = {} \/ m \in section.allowed
                     /\ m \notin section.blocked}

\* Unknown models are left out.
CleanLists(lists) ==
  [lists EXCEPT !.allowed = @ \cap Models, !.blocked = @ \cap Models]
Sanitized(p) ==
  [CleanLists(p) EXCEPT !.over = [r \in Overridden |-> CleanLists(p.over[r])]]

\* The box of the form says no when there is no policy.
Hydrated(p) == [p EXCEPT !.legacy = IF @ = "yes" THEN "yes" ELSE "no"]
-----------------------------------------------------------------------------
(* The model of a call, as the router finds it and as it is shown *)

Used(c, p) ==
  IF c.routed # Absent THEN c.routed
  ELSE IF c.model # Absent THEN c.model
  ELSE IF p.routed # Absent THEN p.routed
  ELSE IF p.model # Absent THEN p.model ELSE Default

Shown(c, p) == Or(c.routed, Or(c.model, Or(p.routed, Or(p.model, Default))))
-----------------------------------------------------------------------------
(* The page of the policy *)

Begin(a, kind, pc, policy, config) ==
  /\ call[a].pc = "idle" /\ saves < MaxSaves /\ saves' = saves + 1
  /\ call' = [call EXCEPT ![a] = [NoCall EXCEPT
       !.pc = pc, !.kind = kind, !.policy = policy, !.config = config]]

\* The form holds what was loaded or typed, the empty one after a failed load;
\* all of what was stored was typed once.
Forms == Drafts \cup {Hydrated(NoPolicy)}

SavePolicy(a) ==
  /\ \E form \in Forms : Begin(a, "policy", "read", Sanitized(form), NoConfig)
  /\ UNCHANGED <<policies, trail, configs, platform, before, plain>>

ResetPolicy(a) ==
  /\ Begin(a, "policy", "read", NoPolicy, NoConfig)
  /\ UNCHANGED <<policies, trail, configs, platform, before, plain>>
-----------------------------------------------------------------------------
(* POST /ai-config/model-policy *)

Answer(a) == call' = [call EXCEPT ![a] = NoCall]
PolicySavers == {a \in Admins : call[a].kind = "policy" /\ call[a].pc \in {"write", "audit"}}

ReadPolicy(a) ==
  /\ call[a].kind = "policy" /\ call[a].pc = "read"
  /\ \E i \in FoundPolicy :
       call' = [b \in Admins |->
         IF b = a THEN [call[a] EXCEPT !.pc = "write", !.row = i, !.old = PolicyAt(i),
                                       !.alone = PolicySavers = {}]
         ELSE [call[b] EXCEPT !.alone = FALSE]]
  /\ UNCHANGED <<policies, trail, configs, platform, saves, before, plain>>

\* Mutant: the row that was found is deleted, and no other one.
OneCleared(row) == [i \in DOMAIN policies |-> IF i = row THEN NoPolicy ELSE policies[i]]

Cleared(row) == [i \in DOMAIN policies |-> NoPolicy]

\* The update of a row that is gone fails.
WritePolicy(a) ==
  LET new == call[a].policy
      row == call[a].row
  IN
  /\ call[a].kind = "policy" /\ call[a].pc = "write"
  /\ IF new # NoPolicy /\ row # 0 /\ policies[row] = NoPolicy
     THEN Answer(a) /\ UNCHANGED <<policies, before, plain>>
     ELSE /\ policies' = IF new = NoPolicy THEN Cleared(row)
                         ELSE IF row = 0 THEN Append(policies, new)
                         ELSE [policies EXCEPT ![row] = new]
          /\ before' = InForce
          /\ plain' = FALSE
          /\ call' = [call EXCEPT ![a].pc = "audit"]
  /\ UNCHANGED <<trail, configs, platform, saves>>

\* createPolicyAuditEvent
AuditPolicy(a) ==
  LET new == call[a].policy IN
  /\ call[a].kind = "policy" /\ call[a].pc = "audit"
  /\ \/ /\ trail' = [previous |-> call[a].old, new |-> new]
        /\ plain' = (call[a].alone /\ (new = NoPolicy \/ Cardinality(Rows) = 1))
     \/ UNCHANGED <<trail, plain>>   \* the event is not written, the policy is
  /\ Answer(a)
  /\ UNCHANGED <<policies, configs, platform, saves, before>>
-----------------------------------------------------------------------------
(* The pages of the configuration. A key is shown masked; a masked or an     *)
(* empty one is not sent.                                                    *)

\* What the field of the key may hold
Fields == Keys \cup {Absent}
  \cup (IF \E i \in DOMAIN configs : configs[i].key # Absent THEN {Masked} ELSE {})

SentKey(key) == IF key = Masked THEN Absent ELSE key

\* The pages send the model they loaded, other callers any one.
SaveConfig(a) ==
  /\ \E field \in Fields, m \in Models :
       Begin(a, "config", "check", NoPolicy, [key |-> SentKey(field), model |-> m, routed |-> Absent])
  /\ UNCHANGED <<policies, trail, configs, platform, before, plain>>

\* The page of the routing asks for the tenant's model first and sends it along,
\* with what is routed, or with nothing when every choice was taken back.
SaveRouting(a) ==
  /\ \E i \in FoundConfig, m \in Models \cup {Emptied} :
       Begin(a, "config", "check", NoPolicy,
             [key |-> Absent, model |-> Or(ConfigAt(i).model, Default), routed |-> m])
  /\ UNCHANGED <<policies, trail, configs, platform, before, plain>>

\* POST /ai-config: the model must be visible to the role; what is routed by the
\* type of work is not looked at.
CheckModel(a) ==
  /\ call[a].kind = "config" /\ call[a].pc = "check"
  /\ \E i \in FoundPolicy :
       IF call[a].config.model \in Visible(RoleOf[a], PolicyAt(i))
       THEN call' = [call EXCEPT ![a].pc = "read"]
       ELSE Answer(a)
  /\ UNCHANGED <<policies, trail, configs, platform, saves, before, plain>>

ReadConfig(a) ==
  /\ call[a].kind = "config" /\ call[a].pc = "read"
  /\ \E i \in FoundConfig :
       call' = [call EXCEPT ![a].pc = "write", ![a].row = i, ![a].read = ConfigAt(i)]
  /\ UNCHANGED <<policies, trail, configs, platform, saves, before, plain>>

\* What was not sent is written back as it was read.
WriteConfig(a) ==
  LET body == call[a].config
      read == call[a].read
      new == [body EXCEPT !.key = Or(@, read.key),
                          !.routed = IF @ = Emptied THEN Absent ELSE Or(@, read.routed)]
  IN
  /\ call[a].kind = "config" /\ call[a].pc = "write"
  /\ configs' = IF call[a].row = 0 THEN Append(configs, new)
                ELSE [configs EXCEPT ![call[a].row] = new]
  /\ Answer(a)
  /\ UNCHANGED <<policies, trail, platform, saves, before, plain>>

\* The administrator of the platform: the page sends its routing with every save.
\* The key of the platform makes no difference to the model.
SavePlatform(a) ==
  /\ RoleOf[a] = "system_admin"
  /\ \E m \in Models \cup {Absent} :
       Begin(a, "platform", "read", NoPolicy, [NoConfig EXCEPT !.routed = m])
  /\ UNCHANGED <<policies, trail, configs, platform, before, plain>>

ReadPlatform(a) ==
  /\ call[a].kind = "platform" /\ call[a].pc = "read"
  /\ call' = [call EXCEPT ![a].pc = "write", ![a].read = platform]
  /\ UNCHANGED <<policies, trail, configs, platform, saves, before, plain>>

WritePlatform(a) ==
  /\ call[a].kind = "platform" /\ call[a].pc = "write"
  /\ platform' = [call[a].read EXCEPT !.routed = call[a].config.routed]
  /\ Answer(a)
  /\ UNCHANGED <<policies, trail, configs, saves, before, plain>>
-----------------------------------------------------------------------------
Init ==
  /\ policies = <<>> /\ configs = <<>>
  /\ platform = NoConfig
  /\ trail = [previous |-> NoPolicy, new |-> NoPolicy]
  /\ call = [a \in Admins |-> NoCall]
  /\ saves = 0 /\ before = {} /\ plain = TRUE

Pages(a) ==
  SavePolicy(a) \/ ResetPolicy(a)
    \/ SaveConfig(a) \/ SaveRouting(a) \/ SavePlatform(a)

Calls(a) ==
  ReadPolicy(a) \/ WritePolicy(a) \/ AuditPolicy(a) \/ CheckModel(a)
    \/ ReadConfig(a) \/ WriteConfig(a) \/ ReadPlatform(a) \/ WritePlatform(a)

Next == \E a \in Admins : Pages(a) \/ Calls(a)

Spec == Init /\ [][Next]_policyVars
-----------------------------------------------------------------------------
(* Properties *)

TypeOK ==
  /\ \A i \in Rows : policies[i].legacy \in {"yes", "no"}
  /\ \A i \in DOMAIN configs : configs[i].model \in Models
  /\ \A a \in Admins :
       /\ call[a].kind = "policy" => call[a].row \in {0} \cup DOMAIN policies
       /\ call[a].kind = "config" => call[a].row \in {0} \cup DOMAIN configs
  /\ plain \in BOOLEAN

\* The last audit event tells the policy in force and one that was in force when
\* it was written, if any was, when the last save of a policy met no other one.
AuditExplains ==
  plain => /\ InForce = {trail.new} \ {NoPolicy}
           /\ trail.previous \in OneOf(before)

\* What is stored as a key is a key, never what is shown instead of it.
KeyNeverMasked == \A i \in DOMAIN configs : configs[i].key \in Keys \cup {Absent}

\* The page of the routing shows the model that the router uses.
ShownIsUsed == \A i \in FoundConfig : Shown(ConfigAt(i), platform) = Used(ConfigAt(i), platform)

PolicyKept == AuditExplains /\ KeyNeverMasked /\ ShownIsUsed
=============================================================================
