-------------------------- MODULE AuthZDecisions ---------------------------
(***************************************************************************)
(* AuthZService working on AuthZRegistry: what the decision methods answer   *)
(* in every state that registration calls, failed ones included, can leave   *)
(* the registry in.                                                          *)
(***************************************************************************)
EXTENDS AuthZRegistry, AuthZService

CONSTANTS Contexts,   \* the contexts the interceptor may put in local storage
          Objects     \* the entities "can" is asked about

(* What the service sees of the registry: getResourceDefinition answers null  *)
(* for a resource without definition, and the methods then deny.             *)
Registry ==
  [definitions |-> [r \in DefinedResources |-> resourcesDefinitions[r]],
   checks |-> globalChecks]

-----------------------------------------------------------------------------
(* The coarse check of the interceptor and the fine check of the handler are  *)
(* consistent: an object-level "can" is never granted where hasPermission     *)
(* would have refused the request, and it rests on a level that holds, that   *)
(* hasPermission accepts by name and that getAccessLevel reports.             *)
CanWithinHasPermission ==
  \A ctx \in Contexts, r \in Resources, a \in Actions, o \in Objects :
    Can(Registry, ctx, r, a, o) =>
      \E level \in Elements(GetAccessLevel(Registry, ctx, r, a).levels) :
        /\ LevelHolds(Registry, ctx, r, level, o)
        /\ HasPermission(Registry, ctx, r, a, {level})

(* The report of a role's permissions (getRoleInfo, found through the index)  *)
(* and the decisions (found through the definitions) tell the same story.     *)
ReportMatchesDecisions ==
  \A ctx \in Contexts, r \in Resources, a \in Actions :
    ValidContext(Registry, ctx) =>
      LET info == RoleInfo(ctx.role)
      IN  HasPermission(Registry, ctx, r, a, {}) <=>
            /\ r \in DOMAIN info
            /\ a \in DOMAIN info[r].permissions
            /\ info[r].permissions[a] # <<>>

(* Every decision that is granted is granted to a registered role, on a       *)
(* resource whose definition declares the action or the relationship.         *)
GrantsAreDeclared ==
  \A ctx \in Contexts, r \in Resources :
    /\ \A a \in Actions :
         HasPermission(Registry, ctx, r, a, {}) =>
           ctx.role \in RegisteredRoles /\ a \in resourcesDefinitions[r].actions
    /\ \A rel \in Relationships :
         CanBe(Registry, ctx, r, rel) =>
           ctx.role \in RegisteredRoles /\ rel \in resourcesDefinitions[r].relationships

=============================================================================
