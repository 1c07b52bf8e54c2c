--------------------------- MODULE AuthZService ----------------------------
(***************************************************************************)
(* The decision methods of AuthZService (Services/authz.service.ts) as pure *)
(* operators.  A decision reads the registry and the context of the current *)
(* request and either allows or throws: a method whose audit entry says     *)
(* "deny" never returns to its caller.                                      *)
(*                                                                          *)
(* "registry" is what the methods can see of AuthZRegistry:                 *)
(*   definitions  resource -> validated metadata, for the resources that    *)
(*                have one                                                  *)
(*   checks       the global checks                                         *)
(* A resolver function is the set of <<context, object>> pairs it answers   *)
(* true on, a global check the set of contexts that pass it.                *)
(***************************************************************************)
EXTENDS Naturals, Sequences

CONSTANTS NoContext, NoRole

(* validateContext: the context that executeAuthZOperation works with. *)
ValidContext(registry, ctx) ==
  /\ ctx # NoContext
  /\ ctx.role # NoRole
  /\ \A check \in registry.checks : ctx \in check

HasRolePermissions(registry, ctx, resource) ==
  /\ resource \in DOMAIN registry.definitions
  /\ ctx.role \in DOMAIN registry.definitions[resource].roles

RolePermissionsOf(registry, ctx, resource) == registry.definitions[resource].roles[ctx.role]

(* rolePermissions.permissions.get(action): a list, or nothing. *)
HasAction(registry, ctx, resource, action) ==
  /\ HasRolePermissions(registry, ctx, resource)
  /\ action \in DOMAIN RolePermissionsOf(registry, ctx, resource).permissions

GrantedList(registry, ctx, resource, action) ==
  RolePermissionsOf(registry, ctx, resource).permissions[action]

HasPermission(registry, ctx, resource, action, requested) ==
  /\ ValidContext(registry, ctx)
  /\ HasAction(registry, ctx, resource, action)
  /\ GrantedList(registry, ctx, resource, action) # <<>>
  /\ requested \subseteq DOMAIN registry.definitions[resource].accessLevels
  /\ \A level \in requested :
       \E i \in DOMAIN GrantedList(registry, ctx, resource, action) :
         GrantedList(registry, ctx, resource, action)[i] = level

(* accessLevelFn && accessLevelFn(context, resource) *)
LevelHolds(registry, ctx, resource, level, object) ==
  LET levels == registry.definitions[resource].accessLevels
  IN  level \in DOMAIN levels /\ <<ctx, object>> \in levels[level].fn

HoldingPositions(registry, ctx, resource, action, object) ==
  {i \in DOMAIN GrantedList(registry, ctx, resource, action) :
     LevelHolds(registry, ctx, resource,
                GrantedList(registry, ctx, resource, action)[i], object)}

(* Faulty variant: any level of the resource may grant, listed or not. *)
CanByAnyLevel(registry, ctx, resource, action, object) ==
  /\ ValidContext(registry, ctx)
  /\ HasRolePermissions(registry, ctx, resource)
  /\ \E level \in DOMAIN registry.definitions[resource].accessLevels :
       LevelHolds(registry, ctx, resource, level, object)

Can(registry, ctx, resource, action, object) ==
  /\ ValidContext(registry, ctx)
  /\ HasAction(registry, ctx, resource, action)
  /\ HoldingPositions(registry, ctx, resource, action, object) # {}

CanBe(registry, ctx, resource, relationship) ==
  /\ ValidContext(registry, ctx)
  /\ HasRolePermissions(registry, ctx, resource)
  /\ relationship \in RolePermissionsOf(registry, ctx, resource).relationships

(* An action that is listed with no levels is an empty array, which is       *)
(* truthy: getAccessLevel then allows and returns [].                        *)
GetAccessLevel(registry, ctx, resource, action) ==
  IF ValidContext(registry, ctx) /\ HasAction(registry, ctx, resource, action)
  THEN [thrown |-> FALSE, levels |-> GrantedList(registry, ctx, resource, action)]
  ELSE [thrown |-> TRUE, levels |-> <<>>]

(* executeAuthZOperation, createResultWithAudit: the entry handed to the logger. *)
AuditEntry(method, allowed) ==
  [method |-> method, result |-> IF allowed THEN "allow" ELSE "deny"]
=============================================================================
