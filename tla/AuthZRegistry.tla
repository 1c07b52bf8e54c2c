--------------------------- MODULE AuthZRegistry ---------------------------
(***************************************************************************)
(* The static AuthZRegistry class (Packages/AuthZModule/authz.registry.ts): *)
(* the process-wide tables of roles, resources and settings that every      *)
(* authorization decision reads.  JavaScript runs each method to its end,   *)
(* so a method is one action; InitResources is a loop of addResource calls  *)
(* and takes one step per entry, during which nothing else runs.            *)
(*                                                                          *)
(* The keys of an object arrive in an order that is part of the input.  The *)
(* model does not fix it: where a loop over keys stops at the first bad     *)
(* one, any subset of the good keys may have been handled before it.        *)
(***************************************************************************)
EXTENDS Naturals, Sequences

CONSTANTS
  Roles, RoleDefinitions,       \* role identifiers and the objects that define them
  Resources, Actions,           \* resource identifiers and action names
  AccessLevels, AccessLevelFns, \* access level keys and their resolver functions
  Priorities,                   \* access level priorities: numbers >= 0
  Relationships, Identifiers,   \* relationship names; names of identifier fields
  Checks, Callbacks,            \* global checks; loggers and exception factories
  RootOptions,                  \* the options forRoot may be called with
  Definitions,                  \* the resource definitions a feature may bring
  FeatureOptions,               \* the resource lists forFeature may be called with
  Blank,                        \* a string that validateString refuses
  Invalid,                      \* a value of the wrong JavaScript type
  Null, Absent                  \* null; no entry in a Map, or undefined

VARIABLES
  rolesDefinitions,     \* Map: role -> its definition
  resourcesDefinitions, \* Map: resource -> null, or its validated metadata
  resourcesByRole,      \* Map: role -> Set of resources (a missing key reads as {})
  defaultRole,
  globalChecks,
  settings,             \* log, logger and the two exception factories
  feature,              \* the forFeature list being applied and the next entry
  outcome               \* the last call, the error it threw, and what it found:
                        \* resourcesDefinitions when it began, kept for the properties

tables == <<rolesDefinitions, resourcesDefinitions, resourcesByRole>>
config == <<defaultRole, globalChecks, settings>>
vars == <<tables, config, feature, outcome>>

-----------------------------------------------------------------------------
IsPartialMap(m, Keys, Values) ==
  DOMAIN m \subseteq Keys /\ \A key \in DOMAIN m : m[key] \in Values

Elements(list) == {list[i] : i \in DOMAIN list}

IsRolePermissions(given) ==
  /\ IsPartialMap(given.permissions, Actions, Seq(AccessLevels))
  /\ given.relationships \subseteq Relationships

(* What a feature passes to addResource: nothing in it is validated yet. The *)
(* fields themselves are there, as the TypeScript type demands: a definition *)
(* without actions or permissions, whose TypeError addResource wraps into an *)
(* AuthZRegistryError, is not an input of the model.                        *)
IsResourceDefinition(d) ==
  /\ d.identifier \in Identifiers \cup {Invalid}
  /\ d.actions \subseteq Actions
  /\ d.relationships \subseteq Relationships
  /\ IsPartialMap(d.accessLevels, AccessLevels,
       [fn: AccessLevelFns \cup {Invalid}, priority: Priorities \cup {Invalid}])
  /\ DOMAIN d.roles \subseteq Roles
  /\ \A role \in DOMAIN d.roles : IsRolePermissions(d.roles[role])

(* What forRoot is given.  An option that was left out is Absent. *)
IsRootOption(o) ==
  /\ o.roles # Invalid =>
       IsPartialMap(o.roles, Roles \cup {Blank}, RoleDefinitions \cup {Invalid})
  /\ o.default \in Roles \cup {Null}
  /\ o.resources # Invalid => o.resources \subseteq Resources \cup {Blank}
  /\ o.contextResolver \in Callbacks \cup {Invalid}
  /\ o.globalChecks # Invalid => o.globalChecks \subseteq Checks \cup {Invalid}
  /\ o.log \in BOOLEAN \cup {Invalid, Absent}
  /\ {o.authNException, o.authZException, o.logger} \subseteq Callbacks \cup {Invalid, Absent}

FeatureEntry == [name: Resources \cup {Blank}, definition: Definitions \cup {Null}]

Settings ==
  [log: BOOLEAN, logger: Callbacks, authNException: Callbacks, authZException: Callbacks]

Errors ==
  {"none", "ConfigValidationError", "RoleNotFoundError", "ResourceNotFoundError",
   "InvalidResourceDefinitionError", "Error"}

Calls ==
  {"none", "addRole", "addResource", "setDefaultRole", "setGlobalChecks", "setSetting",
   "InitRegistry", "InitResources"}

ASSUME MarkersDistinct ==
  /\ Absent \notin RoleDefinitions \cup Definitions
  /\ Null \notin Roles
  /\ Blank \notin Roles
  /\ Blank \notin Resources

ASSUME InputsTyped ==
  /\ \A d \in Definitions : IsResourceDefinition(d)
  /\ \A o \in RootOptions : IsRootOption(o)
  /\ FeatureOptions \subseteq Seq(FeatureEntry) \cup {Invalid}

ASSUME DefaultCallback == "default" \in Callbacks

Outcomes ==
  [call: Calls, error: Errors, found: [Resources -> Definitions \cup {Null, Absent}]]

Init ==
  /\ rolesDefinitions = [role \in Roles |-> Absent]
  /\ resourcesDefinitions = [resource \in Resources |-> Absent]
  /\ resourcesByRole = [role \in Roles |-> {}]
  /\ defaultRole = Null
  /\ globalChecks = {}
  /\ settings = [log |-> FALSE, logger |-> "default",
                 authNException |-> "default", authZException |-> "default"]
  /\ feature = [resources |-> <<>>, next |-> 1]
  /\ outcome = [call |-> "none", error |-> "none", found |-> resourcesDefinitions]

RegisteredRoles == {role \in Roles : rolesDefinitions[role] # Absent}
RegisteredResources == {r \in Resources : resourcesDefinitions[r] # Absent}
DefinedResources == {r \in Resources : resourcesDefinitions[r] \notin {Absent, Null}}

Threw(call, error) ==
  outcome' = [call |-> call, error |-> error, found |-> resourcesDefinitions]
Returned(call) == Threw(call, "none")

(* No forFeature call is under way. *)
Idle == feature.next > Len(feature.resources)

-----------------------------------------------------------------------------
(* Role management. *)

WithRoles(given, keys) ==
  [role \in Roles |-> IF role \in keys /\ rolesDefinitions[role] = Absent
                      THEN given[role] ELSE rolesDefinitions[role]]

(* Faulty variant: a role that is known already loses its index entry. *)
WithEmptyIndexAgain(keys) ==
  [role \in Roles |-> IF role \in keys THEN {} ELSE resourcesByRole[role]]

(* A new role starts with an empty set of resources. *)
WithEmptyIndex(keys) ==
  [role \in Roles |-> IF role \in keys \ RegisteredRoles THEN {} ELSE resourcesByRole[role]]

AddRole(role, definition) ==
  /\ Idle
  /\ UNCHANGED <<resourcesDefinitions, config, feature>>
  /\ \/ /\ role = Blank \/ definition = Invalid
        /\ Threw("addRole", "ConfigValidationError")
        /\ UNCHANGED <<rolesDefinitions, resourcesByRole>>
     \/ /\ role # Blank /\ definition # Invalid
        /\ Returned("addRole")
        /\ rolesDefinitions' = WithRoles([r \in {role} |-> definition], {role})
        /\ resourcesByRole' = WithEmptyIndex({role})

(* Faulty variant: the role is stored without looking it up. *)
SetDefaultRoleUnchecked(role, force) ==
  /\ Idle
  /\ UNCHANGED <<tables, globalChecks, settings, feature>>
  /\ role # Blank /\ (defaultRole = Null \/ force)
  /\ Returned("setDefaultRole") /\ defaultRole' = role

SetDefaultRole(role, force) ==
  /\ Idle
  /\ UNCHANGED <<tables, globalChecks, settings, feature>>
  /\ \/ /\ role = Blank
        /\ Threw("setDefaultRole", "ConfigValidationError")
        /\ UNCHANGED defaultRole
     \/ /\ role # Blank /\ defaultRole # Null /\ ~force
        /\ Returned("setDefaultRole")
        /\ UNCHANGED defaultRole
     \/ /\ role # Blank /\ (defaultRole = Null \/ force)
        /\ IF role \in RegisteredRoles
           THEN Returned("setDefaultRole") /\ defaultRole' = role
           ELSE Threw("setDefaultRole", "RoleNotFoundError") /\ UNCHANGED defaultRole

(* Faulty variant: the list is replaced without validating its checks. *)
SetGlobalChecksUnchecked(checks) ==
  /\ Idle
  /\ UNCHANGED <<tables, defaultRole, settings, feature>>
  /\ checks # Invalid
  /\ Returned("setGlobalChecks")
  /\ globalChecks' = checks

(* Every check is validated before the list is replaced. *)
SetGlobalChecks(checks) ==
  /\ Idle
  /\ UNCHANGED <<tables, defaultRole, settings, feature>>
  /\ \/ /\ checks = Invalid \/ (checks # Invalid /\ Invalid \in checks)
        /\ Threw("setGlobalChecks", "ConfigValidationError")
        /\ UNCHANGED globalChecks
     \/ /\ checks # Invalid /\ Invalid \notin checks
        /\ Returned("setGlobalChecks")
        /\ globalChecks' = checks

(* setLogging, setLogger, setAuthNExceptionFunction, setAuthZExceptionFunction. *)
SetSetting(name, value) ==
  /\ Idle
  /\ UNCHANGED <<tables, defaultRole, globalChecks, feature>>
  /\ \/ /\ value = Invalid
        /\ Threw("setSetting", "ConfigValidationError")
        /\ UNCHANGED settings
     \/ /\ value # Invalid
        /\ Returned("setSetting")
        /\ settings' = [settings EXCEPT ![name] = value]

-----------------------------------------------------------------------------
(* Resource management. *)

ValidComponents(definition) ==
  /\ definition.identifier # Invalid
  /\ \A level \in DOMAIN definition.accessLevels :
       /\ definition.accessLevels[level].fn # Invalid
       /\ definition.accessLevels[level].priority # Invalid

(* validateActionsAndAccessLevels and validateRelationships for one role. *)
ValidPermissions(definition, role) ==
  LET given == definition.roles[role]
  IN  /\ DOMAIN given.permissions \subseteq definition.actions
      /\ \A action \in DOMAIN given.permissions :
           Elements(given.permissions[action]) \subseteq DOMAIN definition.accessLevels
      /\ given.relationships \subseteq definition.relationships

AcceptedRoles(definition) ==
  {role \in DOMAIN definition.roles :
     role \in RegisteredRoles /\ ValidPermissions(definition, role)}

RoleError(role) ==
  IF role \in RegisteredRoles THEN "InvalidResourceDefinitionError" ELSE "RoleNotFoundError"

(* Faulty variant: the set of a role is replaced instead of extended. *)
IndexedAfresh(handled, resource) ==
  [role \in Roles |-> IF role \in handled THEN {resource} ELSE resourcesByRole[role]]

(* updateResourceRoleIndex for each role of "handled". *)
Indexed(handled, resource) ==
  [role \in Roles |-> IF role \in handled
                      THEN resourcesByRole[role] \cup {resource} ELSE resourcesByRole[role]]

(* Faulty variant: the definition is stored before its roles are validated. *)
RegisterThenValidate(resource, definition, error) ==
  /\ error = IF DOMAIN definition.roles = AcceptedRoles(definition)
             THEN "none" ELSE "InvalidResourceDefinitionError"
  /\ resourcesByRole' = Indexed(AcceptedRoles(definition), resource)
  /\ resourcesDefinitions' = [resourcesDefinitions EXCEPT ![resource] = definition]

(* The loop over roles indexes each accepted role at once; a role that is   *)
(* refused later leaves those entries behind and the definition unstored.   *)
ValidateAndRegister(resource, definition, error) ==
  \/ /\ ~ValidComponents(definition)
     /\ error = "InvalidResourceDefinitionError"
     /\ UNCHANGED <<resourcesDefinitions, resourcesByRole>>
  \/ /\ ValidComponents(definition)
     /\ \E refused \in DOMAIN definition.roles \ AcceptedRoles(definition),
           handled \in SUBSET AcceptedRoles(definition) :
          /\ error = RoleError(refused)
          /\ resourcesByRole' = Indexed(handled, resource)
     /\ UNCHANGED resourcesDefinitions
  \/ /\ ValidComponents(definition)
     /\ DOMAIN definition.roles = AcceptedRoles(definition)
     /\ error = "none"
     /\ resourcesByRole' = Indexed(DOMAIN definition.roles, resource)
     /\ resourcesDefinitions' = [resourcesDefinitions EXCEPT ![resource] = definition]

(* The body of addResource, for a caller that reports "error" itself. *)
AddResourceBody(resource, definition, error) ==
  \/ /\ resource = Blank
     /\ error = "ConfigValidationError"
     /\ UNCHANGED <<resourcesDefinitions, resourcesByRole>>
  \/ /\ resource \in Resources \ RegisteredResources /\ definition = Null
     /\ error = "none"
     /\ resourcesDefinitions' = [resourcesDefinitions EXCEPT ![resource] = Null]
     /\ UNCHANGED resourcesByRole
  \/ /\ resource \in Resources \ RegisteredResources /\ definition # Null
     /\ error = "ResourceNotFoundError"
     /\ UNCHANGED <<resourcesDefinitions, resourcesByRole>>
  \/ /\ resource \in RegisteredResources /\ definition = Null
     /\ error = "InvalidResourceDefinitionError"
     /\ UNCHANGED <<resourcesDefinitions, resourcesByRole>>
  \/ /\ resource \in RegisteredResources /\ definition # Null
     /\ ValidateAndRegister(resource, definition, error)

AddResource(resource, definition) ==
  /\ Idle
  /\ \E error \in Errors : /\ AddResourceBody(resource, definition, error)
                           /\ Threw("addResource", error)
  /\ UNCHANGED <<rolesDefinitions, config, feature>>

-----------------------------------------------------------------------------
(* InitRegistry, called by AuthZModule.forRoot.                             *)

ValidRootOptions(o) ==
  /\ o.roles # Invalid
  /\ o.default # Null
  /\ o.resources # Invalid
  /\ o.contextResolver # Invalid
  /\ o.globalChecks # Invalid

GoodRoles(o) == {role \in DOMAIN o.roles : role # Blank /\ o.roles[role] # Invalid}
(* Faulty variant: a resource that is already registered is declared again. *)
GoodResourcesAgain(o) == o.resources \ {Blank}

GoodResources(o) == o.resources \ (RegisteredResources \cup {Blank})

(* The steps of InitRegistry in their order; a step fails on its own input. *)
FailingSteps(o) ==
  {step \in 1..8 :
     \/ step = 1 /\ GoodRoles(o) # DOMAIN o.roles
     \/ step = 2 /\ GoodResources(o) # o.resources
     \/ step = 3 /\ defaultRole = Null /\ o.default \notin RegisteredRoles \cup GoodRoles(o)
     \/ step = 4 /\ Invalid \in o.globalChecks
     \/ step = 5 /\ o.log = Invalid
     \/ step = 6 /\ o.authNException = Invalid
     \/ step = 7 /\ o.authZException = Invalid
     \/ step = 8 /\ o.logger = Invalid}

Given(value, current) == IF value = Absent THEN current ELSE value

(* Every step before "stop" has run; the step "stop", if there is one, has  *)
(* thrown, a loop over keys after handling some of its good keys.           *)
ApplyRootOptions(o, stop) ==
  /\ \E keys \in SUBSET GoodRoles(o), names \in SUBSET GoodResources(o) :
       /\ stop > 1 => keys = DOMAIN o.roles
       /\ stop > 2 => names = o.resources
       /\ stop < 2 => names = {}
       /\ rolesDefinitions' = WithRoles(o.roles, keys)
       /\ resourcesByRole' = WithEmptyIndex(keys)
       /\ resourcesDefinitions' =
            [r \in Resources |-> IF r \in names THEN Null ELSE resourcesDefinitions[r]]
  /\ defaultRole' = IF stop > 3 /\ defaultRole = Null THEN o.default ELSE defaultRole
  /\ globalChecks' = IF stop > 4 THEN o.globalChecks ELSE globalChecks
  /\ settings' =
       [log |-> IF stop > 5 THEN Given(o.log, settings.log) ELSE settings.log,
        authNException |-> IF stop > 6 THEN Given(o.authNException, settings.authNException)
                           ELSE settings.authNException,
        authZException |-> IF stop > 7 THEN Given(o.authZException, settings.authZException)
                           ELSE settings.authZException,
        logger |-> IF stop > 8 THEN Given(o.logger, settings.logger) ELSE settings.logger]

InitRegistry(o) ==
  /\ Idle
  /\ UNCHANGED feature
  /\ \/ /\ ~ValidRootOptions(o)
        /\ Threw("InitRegistry", "Error")
        /\ UNCHANGED <<tables, config>>
     \/ /\ ValidRootOptions(o)
        /\ FailingSteps(o) = {}
        /\ Returned("InitRegistry")
        /\ ApplyRootOptions(o, 9)
     \/ /\ ValidRootOptions(o)
        /\ \E stop \in FailingSteps(o) :
             /\ \A step \in FailingSteps(o) : stop <= step
             /\ ApplyRootOptions(o, stop)
        /\ Threw("InitRegistry", "Error")

-----------------------------------------------------------------------------
(* InitResources, called by AuthZModule.forFeature.                         *)

InitResources(options) ==
  /\ Idle
  /\ UNCHANGED <<tables, config>>
  /\ \/ /\ options = Invalid
        /\ Threw("InitResources", "ConfigValidationError")
        /\ feature' = [resources |-> <<>>, next |-> 1]
     \/ /\ options # Invalid
        /\ Returned("InitResources")
        /\ feature' = [resources |-> options, next |-> 1]

(* Faulty variant: an error is reported and the loop goes on. *)
InitResourcesStepOn ==
  /\ ~Idle
  /\ LET entry == feature.resources[feature.next]
     IN  \E error \in Errors : /\ AddResourceBody(entry.name, entry.definition, error)
                               /\ outcome' = [outcome EXCEPT !.error = error]
  /\ feature' = [feature EXCEPT !.next = @ + 1]
  /\ UNCHANGED <<rolesDefinitions, config>>

(* One iteration of the forEach.  An error leaves the loop: what was applied *)
(* so far stays, and "feature" keeps that prefix of the list.                *)
InitResourcesStep ==
  /\ ~Idle
  /\ LET entry == feature.resources[feature.next]
     IN  \E error \in Errors :
           /\ AddResourceBody(entry.name, entry.definition, error)
           /\ outcome' = [outcome EXCEPT !.error = error]
           /\ feature' = IF error = "none"
                         THEN [feature EXCEPT !.next = @ + 1]
                         ELSE [feature EXCEPT !.resources = SubSeq(@, 1, feature.next - 1)]
  /\ UNCHANGED <<rolesDefinitions, config>>

-----------------------------------------------------------------------------
(* getRoleInfo / buildRoleInfo: the role's permissions, found by the index. *)
RoleInfo(role) ==
  LET indexed == {r \in resourcesByRole[role] :
                    r \in DefinedResources /\ role \in DOMAIN resourcesDefinitions[r].roles}
  IN  [r \in indexed |-> resourcesDefinitions[r].roles[role]]

Next ==
  \/ \E role \in Roles \cup {Blank}, definition \in RoleDefinitions \cup {Invalid} :
       AddRole(role, definition)
  \/ \E role \in Roles \cup {Blank}, force \in BOOLEAN : SetDefaultRole(role, force)
  \/ \E checks \in (SUBSET (Checks \cup {Invalid})) \cup {Invalid} : SetGlobalChecks(checks)
  \/ \E value \in BOOLEAN \cup {Invalid} : SetSetting("log", value)
  \/ \E name \in {"logger", "authNException", "authZException"},
        value \in Callbacks \cup {Invalid} : SetSetting(name, value)
  \/ \E resource \in Resources \cup {Blank}, definition \in Definitions \cup {Null} :
       AddResource(resource, definition)
  \/ \E options \in RootOptions : InitRegistry(options)
  \/ \E options \in FeatureOptions : InitResources(options)
  \/ InitResourcesStep

Spec == Init /\ [][Next]_vars

-----------------------------------------------------------------------------
(* The tables keep their shape: every stored definition has the fields the  *)
(* decision methods read.                                                   *)
TypeOK ==
  /\ rolesDefinitions \in [Roles -> RoleDefinitions \cup {Absent}]
  /\ resourcesDefinitions \in [Resources -> Definitions \cup {Null, Absent}]
  /\ resourcesByRole \in [Roles -> SUBSET Resources]
  /\ defaultRole \in Roles \cup {Null}
  /\ globalChecks \subseteq Checks
  /\ settings \in Settings
  /\ feature \in [resources: Seq(FeatureEntry), next: Nat \ {0}]
  /\ outcome \in Outcomes

(* getRoleInfo answers what a scan of every stored definition would answer,  *)
(* although failed and replaced registrations leave stale index entries.    *)
RoleInfoComplete ==
  \A role \in RegisteredRoles :
    LET granted == {r \in DefinedResources : role \in DOMAIN resourcesDefinitions[r].roles}
    IN  RoleInfo(role) = [r \in granted |-> resourcesDefinitions[r].roles[role]]

(* A stored definition names registered roles only, and grants only actions, *)
(* access levels (each with a callable resolver) and relationships that the  *)
(* same definition declares: the lookups of the decision methods never miss. *)
DefinitionsClosed ==
  \A r \in DefinedResources :
    /\ ValidComponents(resourcesDefinitions[r])
    /\ \A role \in DOMAIN resourcesDefinitions[r].roles :
         /\ role \in RegisteredRoles
         /\ ValidPermissions(resourcesDefinitions[r], role)

(* Whatever calls failed before, the role given to a new account is one the  *)
(* registry can look up (register() refuses to work without its definition). *)
DefaultRoleRegistered == defaultRole # Null => defaultRole \in RegisteredRoles

(* While a forFeature list is applied, and after it ended or broke off, its    *)
(* entries before the stopping point are in force and nothing else has changed: *)
(* the last one given for a name is the stored definition, and a resource named *)
(* by none of them, the refused entry's and the later ones' included, is what   *)
(* the call found.                                                              *)
FeaturePrefixApplied ==
  outcome.call = "InitResources" =>
    \A r \in Resources :
      LET given == {i \in 1..(feature.next - 1) : feature.resources[i].name = r}
      IN  /\ given = {} => resourcesDefinitions[r] = outcome.found[r]
          /\ \A i \in given : (\A j \in given : j <= i) =>
                resourcesDefinitions[r] = feature.resources[i].definition

(* Registration only goes forward: a role keeps the definition it first got,  *)
(* and a resource goes from unknown to declared to defined, never back.       *)
ForwardOnly ==
  [][/\ \A role \in RegisteredRoles : rolesDefinitions'[role] = rolesDefinitions[role]
     /\ RegisteredResources \subseteq RegisteredResources'
     /\ DefinedResources \subseteq DefinedResources']_vars

(* A call that throws leaves every stored resource definition as it was, even *)
(* when it has already changed the index, the roles or the settings.          *)
FailureKeepsDefinitions ==
  [][outcome'.error # "none" =>
       \A r \in DefinedResources : resourcesDefinitions'[r] = resourcesDefinitions[r]]_vars

=============================================================================
