----------------------------- MODULE AuthZProofs ----------------------------
(***************************************************************************)
(* Proofs about AuthZRegistry and, on top of it, the decisions of           *)
(* AuthZService: for all roles, resources, definitions and options a caller *)
(* may use, and for every configuration, context and object.                *)
(***************************************************************************)
EXTENDS AuthZDecisions, SequenceTheorems, TLAPS

(* The entry a forFeature loop works on is an entry of its list, and the     *)
(* prefix it leaves behind is such a list.                                   *)
LEMMA FeatureTyped ==
  ASSUME TypeOK, ~Idle
  PROVE  /\ feature.resources[feature.next] \in FeatureEntry
         /\ SubSeq(feature.resources, 1, feature.next - 1) \in Seq(FeatureEntry)
<1>1. /\ feature.resources \in Seq(FeatureEntry)
      /\ feature.next \in Nat \ {0}
  BY DEF TypeOK
<1>2. feature.next \in 1..Len(feature.resources)
  BY <1>1, LenProperties DEF Idle
<1>3. feature.resources[feature.next] \in FeatureEntry
  BY <1>1, <1>2, ElementOfSeq
<1>4. SubSeq(feature.resources, 1, feature.next - 1) \in Seq(FeatureEntry)
  <2>1. feature.next - 1 \in 0..Len(feature.resources)
    BY <1>1, <1>2, LenProperties
  <2> QED BY <2>1, <1>1, <1>2, SubSeqProperties, LenProperties
<1> QED BY <1>3, <1>4

(* addResource keeps the types of the two tables it writes. *)
LEMMA AddResourceTyped ==
  ASSUME TypeOK,
         NEW resource \in Resources \cup {Blank}, NEW definition \in Definitions \cup {Null},
         NEW error, AddResourceBody(resource, definition, error)
  PROVE  /\ resourcesDefinitions' \in [Resources -> Definitions \cup {Null, Absent}]
         /\ resourcesByRole' \in [Roles -> SUBSET Resources]
<1> USE DEF TypeOK
<1>1. CASE UNCHANGED <<resourcesDefinitions, resourcesByRole>>
  BY <1>1
<1>2. CASE /\ resourcesDefinitions' = [resourcesDefinitions EXCEPT ![resource] = Null]
           /\ UNCHANGED resourcesByRole
  BY <1>2
<1>3. CASE /\ resource \in RegisteredResources /\ definition # Null
           /\ ValidateAndRegister(resource, definition, error)
  <2>1. resource \in Resources /\ definition \in Definitions
    BY <1>3 DEF RegisteredResources
  <2>2. \A handled : Indexed(handled, resource) \in [Roles -> SUBSET Resources]
    BY <2>1 DEF Indexed
  <2> QED BY <1>3, <2>1, <2>2 DEF ValidateAndRegister
<1> QED BY <1>1, <1>2, <1>3 DEF AddResourceBody

(* forRoot keeps the types of everything it writes, wherever it stops. *)
LEMMA RootOptionsTyped ==
  ASSUME TypeOK, NEW o \in RootOptions, ValidRootOptions(o), NEW stop \in 1..9,
         ApplyRootOptions(o, stop),
         \A step \in FailingSteps(o) : stop <= step
  PROVE  /\ rolesDefinitions' \in [Roles -> RoleDefinitions \cup {Absent}]
         /\ resourcesDefinitions' \in [Resources -> Definitions \cup {Null, Absent}]
         /\ resourcesByRole' \in [Roles -> SUBSET Resources]
         /\ defaultRole' \in Roles \cup {Null}
         /\ globalChecks' \subseteq Checks
         /\ settings' \in Settings
<1> USE DEF TypeOK
<1>1. IsRootOption(o)
  BY InputsTyped
<1>2. \A keys \in SUBSET GoodRoles(o) :
        WithRoles(o.roles, keys) \in [Roles -> RoleDefinitions \cup {Absent}]
  BY <1>1 DEF WithRoles, GoodRoles, IsRootOption, IsPartialMap, ValidRootOptions
<1>3. rolesDefinitions' \in [Roles -> RoleDefinitions \cup {Absent}]
  BY <1>2 DEF ApplyRootOptions
<1>4. resourcesDefinitions' \in [Resources -> Definitions \cup {Null, Absent}]
  BY DEF ApplyRootOptions
<1>8. resourcesByRole' \in [Roles -> SUBSET Resources]
  BY DEF ApplyRootOptions, WithEmptyIndex
<1>5. defaultRole' \in Roles \cup {Null}
  BY <1>1 DEF ApplyRootOptions, IsRootOption
<1>6. globalChecks' \subseteq Checks
  <2>1. CASE stop > 4
    <3>1. 4 \notin FailingSteps(o)
      BY <2>1
    <3>2. Invalid \notin o.globalChecks
      BY <3>1 DEF FailingSteps
    <3>3. o.globalChecks \subseteq Checks \cup {Invalid}
      BY <1>1 DEF IsRootOption, ValidRootOptions
    <3> QED BY <2>1, <3>2, <3>3 DEF ApplyRootOptions
  <2>2. CASE ~(stop > 4)
    BY <2>2 DEF ApplyRootOptions
  <2> QED BY <2>1, <2>2
<1>7. settings' \in Settings
  <2>1. stop > 5 => Given(o.log, settings.log) \in BOOLEAN
    <3>1. SUFFICES ASSUME stop > 5 PROVE Given(o.log, settings.log) \in BOOLEAN
      OBVIOUS
    <3>2. 5 \notin FailingSteps(o)
      BY <3>1
    <3>3. o.log # Invalid
      BY <3>2 DEF FailingSteps
    <3>4. o.log \in BOOLEAN \cup {Invalid, Absent}
      BY <1>1 DEF IsRootOption
    <3>5. settings.log \in BOOLEAN
      BY DEF Settings
    <3> QED BY <3>3, <3>4, <3>5 DEF Given
  <2>2. stop > 6 => Given(o.authNException, settings.authNException) \in Callbacks
    <3>1. SUFFICES ASSUME stop > 6
                   PROVE  Given(o.authNException, settings.authNException) \in Callbacks
      OBVIOUS
    <3>2. 6 \notin FailingSteps(o)
      BY <3>1
    <3> QED BY <1>1, <3>2 DEF FailingSteps, IsRootOption, Given, Settings
  <2>3. stop > 7 => Given(o.authZException, settings.authZException) \in Callbacks
    <3>1. SUFFICES ASSUME stop > 7
                   PROVE  Given(o.authZException, settings.authZException) \in Callbacks
      OBVIOUS
    <3>2. 7 \notin FailingSteps(o)
      BY <3>1
    <3> QED BY <1>1, <3>2 DEF FailingSteps, IsRootOption, Given, Settings
  <2>4. stop > 8 => Given(o.logger, settings.logger) \in Callbacks
    <3>1. SUFFICES ASSUME stop > 8
                   PROVE  Given(o.logger, settings.logger) \in Callbacks
      OBVIOUS
    <3>2. 8 \notin FailingSteps(o)
      BY <3>1
    <3> QED BY <1>1, <3>2 DEF FailingSteps, IsRootOption, Given, Settings
  <2> QED BY <2>1, <2>2, <2>3, <2>4 DEF ApplyRootOptions, Settings
<1> QED BY <1>3, <1>4, <1>5, <1>6, <1>7, <1>8

(* The tables keep their shape in every reachable state. *)
LEMMA TypeStep == TypeOK /\ [Next]_vars => TypeOK'
<1> SUFFICES ASSUME TypeOK, [Next]_vars PROVE TypeOK'
  OBVIOUS
<1>1. ASSUME NEW role \in Roles \cup {Blank}, NEW definition \in RoleDefinitions \cup {Invalid},
             AddRole(role, definition)
      PROVE  TypeOK'
  <2>1. /\ UNCHANGED <<resourcesDefinitions, config, feature>>
        /\ outcome' \in Outcomes
    BY <1>1 DEF AddRole, Threw, Returned, Calls, Errors, TypeOK, Outcomes
  <2>3. resourcesByRole' \in [Roles -> SUBSET Resources]
    BY <1>1 DEF AddRole, WithEmptyIndex, TypeOK
  <2>2. rolesDefinitions' \in [Roles -> RoleDefinitions \cup {Absent}]
    BY <1>1 DEF AddRole, WithRoles, TypeOK
  <2> QED BY <2>1, <2>2, <2>3 DEF TypeOK, config
<1>2. ASSUME NEW role \in Roles \cup {Blank}, NEW force \in BOOLEAN,
             SetDefaultRole(role, force)
      PROVE  TypeOK'
  BY <1>2 DEF SetDefaultRole, RegisteredRoles, TypeOK, Outcomes, Threw, Returned, Calls, Errors, tables
<1>3. ASSUME NEW checks \in (SUBSET (Checks \cup {Invalid})) \cup {Invalid},
             SetGlobalChecks(checks)
      PROVE  TypeOK'
  BY <1>3 DEF SetGlobalChecks, TypeOK, Outcomes, Threw, Returned, Calls, Errors, tables
<1>4. ASSUME NEW value \in BOOLEAN \cup {Invalid}, SetSetting("log", value)
      PROVE  TypeOK'
  <2>1. outcome' \in Outcomes
    BY <1>4 DEF SetSetting, TypeOK, Outcomes, Threw, Returned, Calls, Errors
  <2>2. settings' \in Settings
    BY <1>4 DEF SetSetting, TypeOK, Settings
  <2> QED BY <1>4, <2>1, <2>2 DEF SetSetting, TypeOK, tables
<1>5. ASSUME NEW name \in {"logger", "authNException", "authZException"},
             NEW value \in Callbacks \cup {Invalid}, SetSetting(name, value)
      PROVE  TypeOK'
  <2>1. outcome' \in Outcomes
    BY <1>5 DEF SetSetting, TypeOK, Outcomes, Threw, Returned, Calls, Errors
  <2>2. settings' \in Settings
    BY <1>5 DEF SetSetting, TypeOK, Settings
  <2> QED BY <1>5, <2>1, <2>2 DEF SetSetting, TypeOK, tables
<1>6. ASSUME NEW resource \in Resources \cup {Blank},
             NEW definition \in Definitions \cup {Null},
             AddResource(resource, definition)
      PROVE  TypeOK'
  <2>1. PICK error \in Errors : /\ AddResourceBody(resource, definition, error)
                                /\ Threw("addResource", error)
    BY <1>6 DEF AddResource
  <2>2. UNCHANGED <<rolesDefinitions, defaultRole, globalChecks, settings, feature>>
    BY <1>6 DEF AddResource, config
  <2> QED BY <2>1, <2>2, AddResourceTyped DEF TypeOK, Outcomes, Threw, Calls
<1>7. ASSUME NEW o \in RootOptions, InitRegistry(o)
      PROVE  TypeOK'
  <2>1. /\ UNCHANGED feature
        /\ outcome' \in Outcomes
    BY <1>7 DEF InitRegistry, Threw, Returned, Calls, Errors, TypeOK, Outcomes
  <2>2. CASE UNCHANGED <<tables, config>>
    BY <2>1, <2>2 DEF TypeOK, tables, config
  <2>3. CASE ValidRootOptions(o) /\ FailingSteps(o) = {} /\ ApplyRootOptions(o, 9)
    BY <2>1, <2>3, RootOptionsTyped DEF TypeOK
  <2>4. CASE /\ ValidRootOptions(o)
             /\ \E stop \in FailingSteps(o) :
                  /\ \A step \in FailingSteps(o) : stop <= step
                  /\ ApplyRootOptions(o, stop)
    <3>1. FailingSteps(o) \subseteq 1..9
      BY DEF FailingSteps
    <3> QED BY <2>1, <2>4, <3>1, RootOptionsTyped DEF TypeOK
  <2> QED BY <1>7, <2>2, <2>3, <2>4 DEF InitRegistry
<1>8. ASSUME NEW options \in FeatureOptions, InitResources(options)
      PROVE  TypeOK'
  <2>1. /\ UNCHANGED <<tables, config>>
        /\ outcome' \in Outcomes
    BY <1>8 DEF InitResources, Threw, Returned, Calls, Errors, TypeOK, Outcomes
  <2>2. feature' \in [resources: Seq(FeatureEntry), next: Nat \ {0}]
    <3>1. CASE feature' = [resources |-> <<>>, next |-> 1]
      BY <3>1
    <3>2. CASE options # Invalid /\ feature' = [resources |-> options, next |-> 1]
      <4>1. options \in Seq(FeatureEntry)
        BY <3>2, InputsTyped
      <4> QED BY <3>2, <4>1
    <3> QED BY <1>8, <3>1, <3>2 DEF InitResources
  <2> QED BY <2>1, <2>2 DEF TypeOK, tables, config
<1>9. ASSUME InitResourcesStep
      PROVE  TypeOK'
  <2> DEFINE entry == feature.resources[feature.next]
  <2>1. PICK error \in Errors :
          /\ AddResourceBody(entry.name, entry.definition, error)
          /\ outcome' = [outcome EXCEPT !.error = error]
          /\ feature' = IF error = "none"
                        THEN [feature EXCEPT !.next = @ + 1]
                        ELSE [feature EXCEPT !.resources = SubSeq(@, 1, feature.next - 1)]
    BY <1>9 DEF InitResourcesStep
  <2>2. entry.name \in Resources \cup {Blank} /\ entry.definition \in Definitions \cup {Null}
    BY <1>9, FeatureTyped DEF InitResourcesStep, FeatureEntry
  <2>3. feature' \in [resources: Seq(FeatureEntry), next: Nat \ {0}]
    <3>1. SubSeq(feature.resources, 1, feature.next - 1) \in Seq(FeatureEntry)
      BY <1>9, FeatureTyped DEF InitResourcesStep
    <3>2. feature \in [resources: Seq(FeatureEntry), next: Nat \ {0}]
      BY DEF TypeOK
    <3>3. CASE error = "none"
      <4>1. feature' = [feature EXCEPT !.next = feature.next + 1]
        BY <2>1, <3>3
      <4>2. feature.next + 1 \in Nat \ {0}
        BY <3>2
      <4> QED BY <3>2, <4>1, <4>2
    <3>4. CASE error # "none"
      BY <2>1, <3>1, <3>2, <3>4
    <3> QED BY <3>3, <3>4
  <2>4. UNCHANGED <<rolesDefinitions, defaultRole, globalChecks, settings>>
    BY <1>9 DEF InitResourcesStep, config
  <2>5. /\ resourcesDefinitions' \in [Resources -> Definitions \cup {Null, Absent}]
        /\ resourcesByRole' \in [Roles -> SUBSET Resources]
    BY <2>1, <2>2, AddResourceTyped
  <2>6. outcome' \in Outcomes
    BY <2>1 DEF TypeOK, Outcomes
  <2> QED BY <2>3, <2>4, <2>5, <2>6 DEF TypeOK
<1>10. CASE UNCHANGED vars
  BY <1>10 DEF vars, tables, config, TypeOK
<1> QED BY <1>1, <1>2, <1>3, <1>4, <1>5, <1>6, <1>7, <1>8, <1>9, <1>10 DEF Next

(* The tables keep their shape, whichever calls are made and wherever they    *)
(* throw.                                                                    *)
THEOREM TypeCorrect == Spec => []TypeOK
<1>1. Init => TypeOK
  BY DefaultCallback DEF Init, TypeOK, Outcomes, Settings, Calls, Errors
<1> QED BY <1>1, TypeStep, PTL DEF Spec

-----------------------------------------------------------------------------
(* The stored definitions, the index of every known role and the set of known *)
(* resources stay as they are.                                               *)
SameDefinitions ==
  /\ \A role \in RegisteredRoles : resourcesByRole'[role] = resourcesByRole[role]
  /\ RegisteredResources \subseteq RegisteredResources'
  /\ DefinedResources' = DefinedResources
  /\ \A r \in DefinedResources : resourcesDefinitions'[r] = resourcesDefinitions[r]

(* addResource: either no definition changes, or the definition it was given *)
(* goes through ValidateAndRegister.                                         *)
LEMMA AddResourceStep ==
  ASSUME TypeOK,
         NEW resource \in Resources \cup {Blank}, NEW definition \in Definitions \cup {Null},
         NEW error, AddResourceBody(resource, definition, error)
  PROVE  \/ SameDefinitions
         \/ /\ resource \in RegisteredResources /\ definition \in Definitions
            /\ definition # Null
            /\ ValidateAndRegister(resource, definition, error)
<1>1. CASE UNCHANGED <<resourcesDefinitions, resourcesByRole>>
  BY <1>1 DEF SameDefinitions, RegisteredResources, DefinedResources
<1>2. CASE /\ resource \in Resources \ RegisteredResources
           /\ resourcesDefinitions' = [resourcesDefinitions EXCEPT ![resource] = Null]
           /\ UNCHANGED resourcesByRole
  <2>1. \A r \in Resources : resourcesDefinitions'[r] =
                               IF r = resource THEN Null ELSE resourcesDefinitions[r]
    BY <1>2 DEF TypeOK
  <2>2. resourcesDefinitions[resource] = Absent
    BY <1>2 DEF RegisteredResources
  <2>3. \A r \in DefinedResources : r # resource
    BY <2>2 DEF DefinedResources
  <2> QED BY <1>2, <2>1, <2>2, <2>3 DEF SameDefinitions, RegisteredResources, DefinedResources
<1> QED BY <1>1, <1>2 DEF AddResourceBody

(* forRoot declares unknown resources and touches no other. *)
LEMMA RootKeepsDefinitions ==
  ASSUME TypeOK, NEW o, NEW stop, ApplyRootOptions(o, stop)
  PROVE  SameDefinitions
<1>7. \A role \in RegisteredRoles : resourcesByRole'[role] = resourcesByRole[role]
  BY DEF ApplyRootOptions, WithEmptyIndex, RegisteredRoles
<1>1. PICK names \in SUBSET GoodResources(o) :
        resourcesDefinitions' =
          [r \in Resources |-> IF r \in names THEN Null ELSE resourcesDefinitions[r]]
  BY DEF ApplyRootOptions
<1>2. \A r \in names : r \notin RegisteredResources
  BY <1>1 DEF GoodResources
<1>3. \A r \in DefinedResources : r \in RegisteredResources
  BY DEF DefinedResources, RegisteredResources
<1>4. \A r \in RegisteredResources : resourcesDefinitions'[r] = resourcesDefinitions[r]
  BY <1>1, <1>2 DEF RegisteredResources
<1>5. RegisteredResources \subseteq RegisteredResources'
  BY <1>4 DEF RegisteredResources
<1>6. DefinedResources' = DefinedResources
  BY <1>1, <1>2, <1>3, <1>4 DEF DefinedResources
<1> QED BY <1>3, <1>4, <1>5, <1>6, <1>7 DEF SameDefinitions

(* What any step does to the resource tables. *)
LEMMA ResourceStep ==
  ASSUME TypeOK, [Next]_vars
  PROVE  \/ SameDefinitions
         \/ \E resource \in RegisteredResources, definition \in Definitions, error \in Errors :
              /\ definition # Null
              /\ ValidateAndRegister(resource, definition, error)
              /\ outcome'.error = error
              /\ UNCHANGED rolesDefinitions
<1>1. CASE UNCHANGED <<resourcesDefinitions, resourcesByRole>>
  BY <1>1 DEF SameDefinitions, RegisteredResources, DefinedResources
<1>2. ASSUME NEW resource \in Resources \cup {Blank},
             NEW definition \in Definitions \cup {Null},
             AddResource(resource, definition)
      PROVE  \/ SameDefinitions
             \/ \E error \in Errors : /\ resource \in RegisteredResources
                                      /\ definition \in Definitions /\ definition # Null
                                      /\ ValidateAndRegister(resource, definition, error)
                                      /\ outcome'.error = error
                                      /\ UNCHANGED rolesDefinitions
  BY <1>2, AddResourceStep DEF AddResource, Threw
<1>3. ASSUME NEW o \in RootOptions, InitRegistry(o)
      PROVE  SameDefinitions
  <2>1. CASE UNCHANGED <<tables, config>>
    BY <2>1 DEF SameDefinitions, RegisteredResources, DefinedResources, tables
  <2>2. CASE \E stop \in FailingSteps(o) \cup {9} : ApplyRootOptions(o, stop)
    BY <2>2, RootKeepsDefinitions
  <2> QED BY <1>3, <2>1, <2>2 DEF InitRegistry
<1>7. ASSUME NEW role, NEW definition, AddRole(role, definition)
      PROVE  SameDefinitions
  <2>1. UNCHANGED resourcesDefinitions
    BY <1>7 DEF AddRole
  <2>2. UNCHANGED resourcesByRole \/ resourcesByRole' = WithEmptyIndex({role})
    BY <1>7 DEF AddRole
  <2>3. \A other \in RegisteredRoles : resourcesByRole'[other] = resourcesByRole[other]
    BY <2>2 DEF WithEmptyIndex, RegisteredRoles
  <2> QED BY <2>1, <2>3 DEF SameDefinitions, RegisteredResources, DefinedResources
<1>4. ASSUME InitResourcesStep
      PROVE  \/ SameDefinitions
             \/ \E resource \in RegisteredResources, definition \in Definitions,
                   error \in Errors :
                  /\ definition # Null
                  /\ ValidateAndRegister(resource, definition, error)
                  /\ outcome'.error = error
                  /\ UNCHANGED rolesDefinitions
  <2> DEFINE entry == feature.resources[feature.next]
  <2>1. entry.name \in Resources \cup {Blank} /\ entry.definition \in Definitions \cup {Null}
    BY <1>4, FeatureTyped DEF InitResourcesStep, FeatureEntry
  <2>2. PICK error \in Errors : /\ AddResourceBody(entry.name, entry.definition, error)
                                /\ outcome'.error = error
                                /\ UNCHANGED rolesDefinitions
    BY <1>4 DEF InitResourcesStep, TypeOK, Outcomes
  <2>3. \/ SameDefinitions
        \/ /\ entry.name \in RegisteredResources /\ entry.definition \in Definitions
           /\ entry.definition # Null
           /\ ValidateAndRegister(entry.name, entry.definition, error)
    BY <2>1, <2>2, AddResourceStep
  <2> QED BY <2>2, <2>3
<1>5. UNCHANGED vars => UNCHANGED <<resourcesDefinitions, resourcesByRole>>
  BY DEF vars, tables
<1>6. ASSUME Next PROVE
        \/ UNCHANGED <<resourcesDefinitions, resourcesByRole>>
        \/ \E role, definition : AddRole(role, definition)
        \/ \E resource \in Resources \cup {Blank}, definition \in Definitions \cup {Null} :
             AddResource(resource, definition)
        \/ \E o \in RootOptions : InitRegistry(o)
        \/ InitResourcesStep
  BY <1>6 DEF Next, SetDefaultRole, SetGlobalChecks, SetSetting, InitResources, tables
<1> QED BY <1>1, <1>2, <1>3, <1>4, <1>5, <1>6, <1>7

(* A role keeps the definition it first got. *)
LEMMA RolesStep ==
  ASSUME TypeOK, [Next]_vars
  PROVE  \A role \in RegisteredRoles : rolesDefinitions'[role] = rolesDefinitions[role]
<1>1. CASE UNCHANGED rolesDefinitions
  BY <1>1
<1>2. \A given, keys : rolesDefinitions' = WithRoles(given, keys) =>
        \A role \in RegisteredRoles : rolesDefinitions'[role] = rolesDefinitions[role]
  BY DEF WithRoles, RegisteredRoles
<1>3. ASSUME NEW o \in RootOptions, InitRegistry(o)
      PROVE  \/ UNCHANGED rolesDefinitions
             \/ \E keys : rolesDefinitions' = WithRoles(o.roles, keys)
  BY <1>3 DEF InitRegistry, ApplyRootOptions, tables
<1>4. ASSUME NEW role, NEW definition, AddRole(role, definition)
      PROVE  \/ UNCHANGED rolesDefinitions
             \/ \E given, keys : rolesDefinitions' = WithRoles(given, keys)
  BY <1>4 DEF AddRole
<1>5. UNCHANGED vars => UNCHANGED rolesDefinitions
  BY DEF vars, tables
<1>6. ASSUME Next PROVE
        \/ UNCHANGED rolesDefinitions
        \/ \E role, definition : AddRole(role, definition)
        \/ \E o \in RootOptions : InitRegistry(o)
  BY <1>6 DEF Next, SetDefaultRole, SetGlobalChecks, SetSetting, AddResource,
              InitResources, InitResourcesStep, tables
<1> QED BY <1>1, <1>2, <1>3, <1>4, <1>5, <1>6

-----------------------------------------------------------------------------
(* Every stored definition is closed: registered roles, declared actions,    *)
(* callable levels, declared relationships.                                  *)
LEMMA ClosedStep == TypeOK /\ DefinitionsClosed /\ [Next]_vars => DefinitionsClosed'
<1> SUFFICES ASSUME TypeOK, DefinitionsClosed, [Next]_vars PROVE DefinitionsClosed'
  OBVIOUS
<1>1. RegisteredRoles \subseteq RegisteredRoles'
  BY RolesStep DEF RegisteredRoles
<1>2. CASE SameDefinitions
  BY <1>1, <1>2 DEF SameDefinitions, DefinitionsClosed
<1>3. ASSUME NEW resource \in RegisteredResources, NEW definition \in Definitions,
             NEW error, ValidateAndRegister(resource, definition, error)
      PROVE  DefinitionsClosed'
  <2>1. CASE UNCHANGED resourcesDefinitions
    BY <1>1, <2>1 DEF DefinitionsClosed, DefinedResources
  <2>2. CASE /\ ValidComponents(definition)
             /\ DOMAIN definition.roles = AcceptedRoles(definition)
             /\ resourcesDefinitions' = [resourcesDefinitions EXCEPT ![resource] = definition]
    <3>1. ASSUME NEW r \in DefinedResources'
          PROVE  /\ ValidComponents(resourcesDefinitions'[r])
                 /\ \A role \in DOMAIN resourcesDefinitions'[r].roles :
                      role \in RegisteredRoles /\ ValidPermissions(resourcesDefinitions'[r], role)
      <4>1. CASE r = resource
        <5>1. resourcesDefinitions'[r] = definition
          BY <2>2, <4>1 DEF TypeOK, RegisteredResources
        <5> QED BY <2>2, <5>1 DEF AcceptedRoles
      <4>2. CASE r # resource
        <5>1. r \in Resources /\ resourcesDefinitions'[r] = resourcesDefinitions[r]
          BY <2>2, <4>2 DEF TypeOK, DefinedResources
        <5>2. r \in DefinedResources
          BY <5>1 DEF DefinedResources
        <5> QED BY <5>1, <5>2 DEF DefinitionsClosed
      <4> QED BY <4>1, <4>2
    <3> QED BY <1>1, <3>1 DEF DefinitionsClosed
  <2> QED BY <1>3, <2>1, <2>2 DEF ValidateAndRegister
<1> QED BY <1>2, <1>3, ResourceStep

(* No lookup of a decision method can miss, however many registrations failed *)
(* before: every stored definition is closed.                                *)
THEOREM DefinitionsClosedCorrect == Spec => []DefinitionsClosed
<1>1. Init => DefinitionsClosed
  BY DEF Init, DefinitionsClosed, DefinedResources
<1> QED BY <1>1, ClosedStep, TypeCorrect, PTL DEF Spec

(* The index lists every resource whose stored definition mentions the role. *)
IndexComplete ==
  \A r \in DefinedResources :
    \A role \in DOMAIN resourcesDefinitions[r].roles : r \in resourcesByRole[role]

LEMMA IndexStep ==
  TypeOK /\ DefinitionsClosed /\ IndexComplete /\ [Next]_vars => IndexComplete'
<1> SUFFICES ASSUME TypeOK, DefinitionsClosed, IndexComplete, [Next]_vars
             PROVE  IndexComplete'
  OBVIOUS
<1>1. CASE SameDefinitions
  BY <1>1 DEF SameDefinitions, IndexComplete, DefinitionsClosed
<1>2. ASSUME NEW resource \in RegisteredResources, NEW definition \in Definitions,
             NEW error, ValidateAndRegister(resource, definition, error)
      PROVE  IndexComplete'
  <2>1. resource \in Resources
    BY DEF RegisteredResources
  <2>2. \A handled : \A role \in Roles :
          /\ resourcesByRole[role] \subseteq Indexed(handled, resource)[role]
          /\ role \in handled => resource \in Indexed(handled, resource)[role]
    BY DEF Indexed
  <2>3. \A r \in DefinedResources : DOMAIN resourcesDefinitions[r].roles \subseteq Roles
    BY InputsTyped DEF TypeOK, DefinedResources, IsResourceDefinition
  <2>4. DOMAIN definition.roles \subseteq Roles
    BY InputsTyped DEF IsResourceDefinition
  <2>5. CASE UNCHANGED resourcesDefinitions
    <3>1. UNCHANGED resourcesByRole \/ \E handled : resourcesByRole' = Indexed(handled, resource)
      BY <1>2, <2>5 DEF ValidateAndRegister
    <3>2. DefinedResources' = DefinedResources
      BY <2>5 DEF DefinedResources
    <3> QED BY <2>2, <2>3, <2>5, <3>1, <3>2 DEF IndexComplete
  <2>6. CASE /\ resourcesByRole' = Indexed(DOMAIN definition.roles, resource)
             /\ resourcesDefinitions' = [resourcesDefinitions EXCEPT ![resource] = definition]
    <3>1. ASSUME NEW r \in DefinedResources', NEW role \in DOMAIN resourcesDefinitions'[r].roles
          PROVE  r \in resourcesByRole'[role]
      <4>1. CASE r = resource
        <5>1. resourcesDefinitions'[r] = definition
          BY <2>1, <2>6, <4>1 DEF TypeOK
        <5> QED BY <2>2, <2>4, <2>6, <3>1, <4>1, <5>1
      <4>2. CASE r # resource
        <5>1. r \in Resources /\ resourcesDefinitions'[r] = resourcesDefinitions[r]
          BY <2>6, <4>2 DEF TypeOK, DefinedResources
        <5>2. r \in DefinedResources
          BY <5>1 DEF DefinedResources
        <5>3. r \in resourcesByRole[role] /\ role \in Roles
          BY <2>3, <3>1, <5>1, <5>2 DEF IndexComplete
        <5> QED BY <2>2, <2>6, <5>3
      <4> QED BY <4>1, <4>2
    <3> QED BY <3>1 DEF IndexComplete
  <2> QED BY <1>2, <2>5, <2>6 DEF ValidateAndRegister
<1> QED BY <1>1, <1>2, ResourceStep

(* getRoleInfo loses nothing: for every role the index leads to exactly the  *)
(* resources whose stored definition grants that role something.             *)
THEOREM RoleInfoCorrect == Spec => []RoleInfoComplete
<1>1. Init => IndexComplete
  BY DEF Init, IndexComplete, DefinedResources
<1>2. TypeOK /\ IndexComplete => RoleInfoComplete
  <2> SUFFICES ASSUME TypeOK, IndexComplete, NEW role \in RegisteredRoles
               PROVE  {r \in resourcesByRole[role] :
                         r \in DefinedResources /\ role \in DOMAIN resourcesDefinitions[r].roles}
                      = {r \in DefinedResources : role \in DOMAIN resourcesDefinitions[r].roles}
    BY DEF RoleInfoComplete, RoleInfo
  <2> QED BY DEF IndexComplete
<1>3. Spec => []IndexComplete
  BY <1>1, IndexStep, TypeCorrect, DefinitionsClosedCorrect, PTL DEF Spec
<1> QED BY <1>2, <1>3, TypeCorrect, PTL

(* The default role can always be looked up. *)
LEMMA DefaultRoleStep == TypeOK /\ DefaultRoleRegistered /\ [Next]_vars => DefaultRoleRegistered'
<1> SUFFICES ASSUME TypeOK, DefaultRoleRegistered, [Next]_vars PROVE DefaultRoleRegistered'
  OBVIOUS
<1>1. RegisteredRoles \subseteq RegisteredRoles'
  BY RolesStep DEF RegisteredRoles
<1>2. CASE UNCHANGED defaultRole
  BY <1>1, <1>2 DEF DefaultRoleRegistered
<1>3. ASSUME NEW role, NEW force, SetDefaultRole(role, force)
      PROVE  DefaultRoleRegistered'
  BY <1>1, <1>3 DEF SetDefaultRole, DefaultRoleRegistered
<1>4. ASSUME NEW o \in RootOptions, InitRegistry(o)
      PROVE  DefaultRoleRegistered'
  <2>1. CASE ValidRootOptions(o) /\ \E stop \in 1..9 :
               /\ ApplyRootOptions(o, stop)
               /\ \A step \in FailingSteps(o) : stop <= step
    <3>1. PICK stop \in 1..9 : /\ ApplyRootOptions(o, stop)
                               /\ \A step \in FailingSteps(o) : stop <= step
      BY <2>1
    <3>2. CASE stop > 3 /\ defaultRole = Null
      <4>1. 1 \notin FailingSteps(o) /\ 3 \notin FailingSteps(o)
        BY <3>1, <3>2
      <4>2. GoodRoles(o) = DOMAIN o.roles
        BY <4>1 DEF FailingSteps
      <4>3. o.default \in RegisteredRoles \cup GoodRoles(o)
        BY <3>2, <4>1 DEF FailingSteps
      <4>4. IsRootOption(o)
        BY InputsTyped
      <4>5. GoodRoles(o) \subseteq Roles
        BY <2>1, <4>4 DEF GoodRoles, IsRootOption, IsPartialMap, ValidRootOptions
      <4>6. \A role \in GoodRoles(o) : o.roles[role] # Absent
        BY <2>1, <4>4, MarkersDistinct
        DEF GoodRoles, IsRootOption, IsPartialMap, ValidRootOptions
      <4>7. rolesDefinitions' = WithRoles(o.roles, GoodRoles(o))
        BY <3>1, <3>2, <4>2 DEF ApplyRootOptions
      <4>8. GoodRoles(o) \subseteq RegisteredRoles'
        BY <4>5, <4>6, <4>7 DEF WithRoles, RegisteredRoles
      <4>9. defaultRole' = o.default
        BY <3>1, <3>2 DEF ApplyRootOptions
      <4> QED BY <1>1, <4>3, <4>8, <4>9 DEF DefaultRoleRegistered
    <3>3. CASE ~(stop > 3 /\ defaultRole = Null)
      <4>1. UNCHANGED defaultRole
        BY <3>1, <3>3 DEF ApplyRootOptions
      <4> QED BY <1>2, <4>1
    <3> QED BY <3>2, <3>3
  <2>2. FailingSteps(o) \subseteq 1..9 /\ 9 \in 1..9
    BY DEF FailingSteps
  <2> QED BY <1>2, <1>4, <2>1, <2>2 DEF InitRegistry, config
<1>5. UNCHANGED vars => UNCHANGED defaultRole
  BY DEF vars, config
<1>6. ASSUME Next PROVE
        \/ UNCHANGED defaultRole
        \/ \E role, force : SetDefaultRole(role, force)
        \/ \E o \in RootOptions : InitRegistry(o)
  BY <1>6 DEF Next, AddRole, SetGlobalChecks, SetSetting, AddResource,
              InitResources, InitResourcesStep, config
<1> QED BY <1>2, <1>3, <1>4, <1>5, <1>6

(* Failing or repeated calls never leave a default role without definition.  *)
THEOREM DefaultRoleCorrect == Spec => []DefaultRoleRegistered
<1>1. Init => DefaultRoleRegistered
  BY DEF Init, DefaultRoleRegistered
<1> QED BY <1>1, DefaultRoleStep, TypeCorrect, PTL DEF Spec

(* Registration never goes back. *)
THEOREM ForwardOnlyCorrect == Spec => ForwardOnly
<1> DEFINE Forward == /\ \A role \in RegisteredRoles : rolesDefinitions'[role] = rolesDefinitions[role]
                      /\ RegisteredResources \subseteq RegisteredResources'
                      /\ DefinedResources \subseteq DefinedResources'
<1>1. ASSUME TypeOK, [Next]_vars
      PROVE  Forward
  <2>1. CASE SameDefinitions
    BY <1>1, <2>1, RolesStep DEF SameDefinitions
  <2>2. ASSUME NEW resource \in RegisteredResources, NEW definition \in Definitions,
               NEW error, definition # Null, ValidateAndRegister(resource, definition, error)
        PROVE  Forward
    <3>1. CASE UNCHANGED resourcesDefinitions
      BY <1>1, <3>1, RolesStep DEF RegisteredResources, DefinedResources
    <3>2. CASE resourcesDefinitions' = [resourcesDefinitions EXCEPT ![resource] = definition]
      <4>1. definition \notin {Absent, Null}
        BY <2>2, MarkersDistinct
      <4> QED BY <1>1, <3>2, <4>1, RolesStep DEF RegisteredResources, DefinedResources, TypeOK
    <3> QED BY <2>2, <3>1, <3>2 DEF ValidateAndRegister
  <2> QED BY <1>1, <2>1, <2>2, ResourceStep
<1> QED BY <1>1, TypeCorrect, PTL DEF Spec, ForwardOnly

(* A call that throws replaces no stored definition. *)
THEOREM FailureKeepsDefinitionsCorrect == Spec => FailureKeepsDefinitions
<1>1. ASSUME TypeOK, [Next]_vars
      PROVE  outcome'.error # "none" =>
               \A r \in DefinedResources : resourcesDefinitions'[r] = resourcesDefinitions[r]
  <2>1. CASE SameDefinitions
    BY <2>1 DEF SameDefinitions
  <2>2. ASSUME NEW resource \in RegisteredResources, NEW definition \in Definitions,
               NEW error, ValidateAndRegister(resource, definition, error),
               outcome'.error = error
        PROVE  outcome'.error # "none" => UNCHANGED resourcesDefinitions
    BY <2>2 DEF ValidateAndRegister
  <2> QED BY <1>1, <2>1, <2>2, ResourceStep
<1> QED BY <1>1, TypeCorrect, PTL DEF Spec, FailureKeepsDefinitions

-----------------------------------------------------------------------------
(* The entries that were applied name resources, and while there are entries   *)
(* left nothing else is called.                                                *)
PrefixInv ==
  /\ FeaturePrefixApplied
  /\ \A i \in 1..(feature.next - 1) : feature.resources[i].name \in Resources
  /\ ~Idle => outcome.call = "InitResources"

(* The entry after which the loop stands names the only definition it changes. *)
LEMMA PrefixStep ==
  ASSUME TypeOK, PrefixInv, InitResourcesStep
  PROVE  PrefixInv'
<1> DEFINE entry == feature.resources[feature.next]
           given(r) == {i \in 1..(feature.next - 1) : feature.resources[i].name = r}
<1>1. /\ feature.next \in Nat \ {0} /\ feature.resources \in Seq(FeatureEntry)
      /\ feature.next \in 1..Len(feature.resources)
      /\ feature = [resources |-> feature.resources, next |-> feature.next]
  BY DEF TypeOK, InitResourcesStep, Idle
<1>2. PICK error \in Errors :
        /\ AddResourceBody(entry.name, entry.definition, error)
        /\ outcome' = [outcome EXCEPT !.error = error]
        /\ feature' = IF error = "none"
                      THEN [feature EXCEPT !.next = @ + 1]
                      ELSE [feature EXCEPT !.resources = SubSeq(@, 1, feature.next - 1)]
  BY DEF InitResourcesStep
<1>3. ASSUME NEW r \in Resources
      PROVE  /\ given(r) = {} => resourcesDefinitions[r] = outcome.found[r]
             /\ \A i \in given(r) : (\A j \in given(r) : j <= i) =>
                  resourcesDefinitions[r] = feature.resources[i].definition
  BY DEF PrefixInv, FeaturePrefixApplied, InitResourcesStep
<1>0. /\ outcome'.call = "InitResources" /\ outcome'.found = outcome.found
      /\ \A i \in 1..(feature.next - 1) : feature.resources[i].name \in Resources
  BY <1>2 DEF PrefixInv, InitResourcesStep, TypeOK, Outcomes
<1>4. CASE error = "none"
  <2>1. feature'.resources = feature.resources /\ feature'.next = feature.next + 1
    BY <1>1, <1>2, <1>4
  <2>2. /\ entry.name \in Resources
        /\ resourcesDefinitions' =
             [resourcesDefinitions EXCEPT ![entry.name] = entry.definition]
    <3>1. CASE entry.definition = Null
      BY <1>2, <1>4, <3>1 DEF AddResourceBody
    <3>2. CASE entry.definition # Null
      <4>1. /\ entry.name \in RegisteredResources
            /\ ValidateAndRegister(entry.name, entry.definition, "none")
        BY <1>2, <1>4, <3>2 DEF AddResourceBody
      <4> QED BY <4>1 DEF ValidateAndRegister, RoleError, RegisteredResources
    <3> QED BY <3>1, <3>2
  <2>3. ASSUME NEW r \in Resources
        PROVE  LET given2 == {i \in 1..feature.next : feature.resources[i].name = r}
               IN  /\ given2 = {} => resourcesDefinitions'[r] = outcome.found[r]
                   /\ \A i \in given2 : (\A j \in given2 : j <= i) =>
                        resourcesDefinitions'[r] = feature.resources[i].definition
    <3> DEFINE given2 == {i \in 1..feature.next : feature.resources[i].name = r}
    <3>0. \A i \in 1..feature.next : i = feature.next \/ i \in 1..(feature.next - 1)
      BY <1>1
    <3>1. CASE r = entry.name
      <4>1. feature.next \in given2
        BY <1>1, <3>1
      <4>2. ASSUME NEW i \in given2, \A j \in given2 : j <= i
            PROVE  i = feature.next
        BY <1>1, <4>1, <4>2
      <4>3. resourcesDefinitions'[r] = feature.resources[feature.next].definition
        BY <2>2, <3>1 DEF TypeOK
      <4> QED BY <4>1, <4>2, <4>3
    <3>2. CASE r # entry.name
      <4>1. given2 = given(r)
        <5>1. 1..(feature.next - 1) \subseteq 1..feature.next
          BY <1>1
        <5> QED BY <3>0, <3>2, <5>1
      <4>2. resourcesDefinitions'[r] = resourcesDefinitions[r]
        BY <2>2, <3>2 DEF TypeOK
      <4> QED BY <1>3, <4>1, <4>2
    <3> QED BY <3>1, <3>2
  <2>4. feature'.next - 1 = feature.next
    BY <1>1, <2>1
  <2>5. FeaturePrefixApplied'
    BY <1>0, <2>1, <2>3, <2>4 DEF FeaturePrefixApplied
  <2>6. \A i \in 1..(feature'.next - 1) : feature'.resources[i].name \in Resources
    <3>1. \A i \in 1..feature.next : i = feature.next \/ i \in 1..(feature.next - 1)
      BY <1>1
    <3> QED BY <1>0, <2>1, <2>2, <2>4, <3>1
  <2> QED BY <1>0, <2>5, <2>6 DEF PrefixInv
<1>5. CASE error # "none"
  <2>1. UNCHANGED resourcesDefinitions
    BY <1>2, <1>5 DEF AddResourceBody, ValidateAndRegister
  <2>2. /\ feature'.next = feature.next
        /\ \A i \in 1..(feature.next - 1) : feature'.resources[i] = feature.resources[i]
    <3>1. feature' = [feature EXCEPT !.resources = SubSeq(@, 1, feature.next - 1)]
      BY <1>2, <1>5
    <3>2. feature'.next = feature.next
          /\ feature'.resources = SubSeq(feature.resources, 1, feature.next - 1)
      BY <1>1, <3>1
    <3> QED BY <1>1, <3>2
  <2>3. ASSUME NEW r \in Resources
        PROVE  /\ {i \in 1..(feature'.next - 1) : feature'.resources[i].name = r} = given(r)
               /\ \A i \in given(r) :
                    feature'.resources[i].definition = feature.resources[i].definition
    BY <2>2
  <2>4. FeaturePrefixApplied'
    <3> SUFFICES ASSUME NEW r \in Resources
                 PROVE  /\ given(r) = {} => resourcesDefinitions'[r] = outcome'.found[r]
                        /\ \A i \in given(r) : (\A j \in given(r) : j <= i) =>
                             resourcesDefinitions'[r] = feature'.resources[i].definition
      BY <2>3 DEF FeaturePrefixApplied
    <3> HIDE DEF given
    <3> QED BY <1>0, <1>3, <2>1, <2>3
  <2> QED BY <1>0, <2>2, <2>4 DEF PrefixInv
<1> QED BY <1>4, <1>5

LEMMA PrefixOthers ==
  ASSUME TypeOK, PrefixInv, [Next]_vars, ~InitResourcesStep
  PROVE  PrefixInv'
<1>1. CASE UNCHANGED vars
  BY <1>1 DEF PrefixInv, FeaturePrefixApplied, vars, tables, Idle
<1>2. CASE \E options \in FeatureOptions : InitResources(options)
  <2>1. /\ feature'.next = 1 /\ outcome'.call = "InitResources"
        /\ outcome'.found = resourcesDefinitions /\ UNCHANGED resourcesDefinitions
    BY <1>2 DEF InitResources, Threw, Returned, tables
  <2>2. 1..(feature'.next - 1) = {}
    BY <2>1
  <2> QED BY <2>1, <2>2 DEF PrefixInv, FeaturePrefixApplied
<1>3. CASE ~UNCHANGED vars /\ ~(\E options \in FeatureOptions : InitResources(options))
  <2>1. Idle /\ feature' = feature /\ outcome'.call # "InitResources"
    <3>1. ASSUME NEW role, NEW definition, AddRole(role, definition)
          PROVE  Idle /\ feature' = feature /\ outcome'.call = "addRole"
      BY <3>1 DEF AddRole, Threw, Returned
    <3>2. ASSUME NEW role, NEW force, SetDefaultRole(role, force)
          PROVE  Idle /\ feature' = feature /\ outcome'.call = "setDefaultRole"
      BY <3>2 DEF SetDefaultRole, Threw, Returned
    <3>3. ASSUME NEW checks, SetGlobalChecks(checks)
          PROVE  Idle /\ feature' = feature /\ outcome'.call = "setGlobalChecks"
      BY <3>3 DEF SetGlobalChecks, Threw, Returned
    <3>4. ASSUME NEW name, NEW value, SetSetting(name, value)
          PROVE  Idle /\ feature' = feature /\ outcome'.call = "setSetting"
      BY <3>4 DEF SetSetting, Threw, Returned
    <3>5. ASSUME NEW resource, NEW definition, AddResource(resource, definition)
          PROVE  Idle /\ feature' = feature /\ outcome'.call = "addResource"
      BY <3>5 DEF AddResource, Threw
    <3>6. ASSUME NEW options, InitRegistry(options)
          PROVE  Idle /\ feature' = feature /\ outcome'.call = "InitRegistry"
      BY <3>6 DEF InitRegistry, Threw, Returned
    <3> QED BY <1>3, <3>1, <3>2, <3>3, <3>4, <3>5, <3>6 DEF Next
  <2> QED BY <2>1 DEF PrefixInv, FeaturePrefixApplied, Idle
<1> QED BY <1>1, <1>2, <1>3

(* While a forFeature list is applied, and after it ended or broke off, its      *)
(* entries before the stopping point are in force and nothing else has changed   *)
(* (InitResources of AuthZRegistry calls addResource for one entry after the     *)
(* other and stops at an error).                                                 *)
THEOREM FeaturePrefixCorrect == Spec => []FeaturePrefixApplied
<1>1. Init => PrefixInv
  <2> SUFFICES ASSUME Init PROVE PrefixInv
    OBVIOUS
  <2>1. feature.next = 1 /\ Len(feature.resources) = 0
    BY DEF Init
  <2>2. Idle /\ 1..(feature.next - 1) = {}
    BY <2>1 DEF Idle
  <2>3. outcome.call = "none"
    BY DEF Init
  <2> QED BY <2>2, <2>3 DEF PrefixInv, FeaturePrefixApplied
<1>2. TypeOK /\ PrefixInv /\ [Next]_vars => PrefixInv'
  BY PrefixStep, PrefixOthers
<1>3. PrefixInv => FeaturePrefixApplied
  BY DEF PrefixInv
<1> QED BY <1>1, <1>2, <1>3, TypeCorrect, PTL DEF Spec

-----------------------------------------------------------------------------
(* The decisions. *)

(* A position of a list exists only if the list is not empty. *)
LEMMA PositionNotEmpty == ASSUME NEW list, NEW i \in DOMAIN list PROVE list # <<>>
OBVIOUS

(* Whatever "can" grants, it grants through a level that holds, that           *)
(* getAccessLevel reports and that hasPermission accepts by name               *)
(* (authz.service.ts can, getAccessLevel, hasPermission).                      *)
THEOREM CanWithinCorrect == Spec => []CanWithinHasPermission
<1>1. CanWithinHasPermission
  <2> SUFFICES ASSUME NEW ctx \in Contexts, NEW r \in Resources, NEW a \in Actions,
                      NEW o \in Objects, Can(Registry, ctx, r, a, o)
               PROVE  \E level \in Elements(GetAccessLevel(Registry, ctx, r, a).levels) :
                        /\ LevelHolds(Registry, ctx, r, level, o)
                        /\ HasPermission(Registry, ctx, r, a, {level})
    BY DEF CanWithinHasPermission
  <2> DEFINE list == GrantedList(Registry, ctx, r, a)
  <2>1. PICK i \in DOMAIN list : LevelHolds(Registry, ctx, r, list[i], o)
    BY DEF Can, HoldingPositions
  <2>2. ValidContext(Registry, ctx) /\ HasAction(Registry, ctx, r, a)
    BY DEF Can
  <2>3. GetAccessLevel(Registry, ctx, r, a).levels = list
    BY <2>2 DEF GetAccessLevel
  <2>4. list[i] \in DOMAIN Registry.definitions[r].accessLevels
    BY <2>1 DEF LevelHolds
  <2>5. HasPermission(Registry, ctx, r, a, {list[i]})
    BY <2>1, <2>2, <2>4, PositionNotEmpty DEF HasPermission
  <2>6. list[i] \in Elements(GetAccessLevel(Registry, ctx, r, a).levels)
    BY <2>1, <2>3 DEF Elements
  <2> QED BY <2>1, <2>5, <2>6
<1> QED BY <1>1, PTL

(* A granted action or relationship is declared by the resource and granted    *)
(* to a registered role: what registration refused is never granted.           *)
THEOREM GrantsAreDeclaredCorrect == Spec => []GrantsAreDeclared
<1>1. DefinitionsClosed => GrantsAreDeclared
  <2> SUFFICES ASSUME DefinitionsClosed, NEW ctx \in Contexts, NEW r \in Resources,
                      HasRolePermissions(Registry, ctx, r)
               PROVE  /\ ctx.role \in RegisteredRoles
                      /\ \A a \in Actions :
                           HasAction(Registry, ctx, r, a) => a \in resourcesDefinitions[r].actions
                      /\ \A rel \in Relationships :
                           rel \in RolePermissionsOf(Registry, ctx, r).relationships
                             => rel \in resourcesDefinitions[r].relationships
    BY DEF GrantsAreDeclared, HasPermission, HasAction, CanBe
  <2>1. /\ r \in DefinedResources
        /\ ctx.role \in DOMAIN resourcesDefinitions[r].roles
        /\ RolePermissionsOf(Registry, ctx, r) = resourcesDefinitions[r].roles[ctx.role]
    BY DEF HasRolePermissions, Registry, RolePermissionsOf
  <2>2. /\ ctx.role \in RegisteredRoles
        /\ ValidPermissions(resourcesDefinitions[r], ctx.role)
    BY <2>1 DEF DefinitionsClosed
  <2> QED BY <2>1, <2>2 DEF ValidPermissions, HasAction
<1> QED BY <1>1, DefinitionsClosedCorrect, PTL

(* What getRoleInfo reports of a role, found through the index, and what       *)
(* hasPermission grants it, found through the definitions, are the same        *)
(* (authz.registry.ts buildRoleInfo, authz.service.ts hasPermission).          *)
THEOREM ReportCorrect == Spec => []ReportMatchesDecisions
<1>1. TypeOK /\ DefinitionsClosed /\ IndexComplete => ReportMatchesDecisions
  <2> SUFFICES ASSUME TypeOK, DefinitionsClosed, IndexComplete,
                      NEW ctx \in Contexts, NEW r \in Resources, NEW a \in Actions,
                      ValidContext(Registry, ctx)
               PROVE  LET info == RoleInfo(ctx.role)
                      IN  HasPermission(Registry, ctx, r, a, {}) <=>
                            /\ r \in DOMAIN info
                            /\ a \in DOMAIN info[r].permissions
                            /\ info[r].permissions[a] # <<>>
    BY DEF ReportMatchesDecisions
  <2> DEFINE granted == r \in DefinedResources /\ ctx.role \in DOMAIN resourcesDefinitions[r].roles
  <2>1. HasRolePermissions(Registry, ctx, r) <=> granted
    BY DEF HasRolePermissions, Registry
  <2>2. granted => RolePermissionsOf(Registry, ctx, r) = resourcesDefinitions[r].roles[ctx.role]
    BY DEF RolePermissionsOf, Registry
  <2>3. granted <=> r \in DOMAIN RoleInfo(ctx.role)
    BY DEF IndexComplete, RoleInfo
  <2>4. granted => RoleInfo(ctx.role)[r] = resourcesDefinitions[r].roles[ctx.role]
    BY <2>3 DEF RoleInfo
  <2> HIDE DEF granted
  <2> QED BY <2>1, <2>2, <2>3, <2>4 DEF HasPermission, HasAction, GrantedList
<1>2. Spec => []IndexComplete
  <2>1. Init => IndexComplete
    BY DEF Init, IndexComplete, DefinedResources
  <2> QED BY <2>1, IndexStep, TypeCorrect, DefinitionsClosedCorrect, PTL DEF Spec
<1> QED BY <1>1, <1>2, TypeCorrect, DefinitionsClosedCorrect, PTL
=============================================================================
