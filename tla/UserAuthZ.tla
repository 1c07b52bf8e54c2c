----------------------------- MODULE UserAuthZ -----------------------------
(***************************************************************************)
(* The authorization configuration of the application: the roles and their  *)
(* ranks (Modules/AuthZ/Definitions), the USER resource definition          *)
(* (Modules/Identity/Users/user.authz.config.ts) and the registry that      *)
(* AuthZModule.forRoot and forFeature build from them before the server     *)
(* listens (Modules/AuthZ/index.module.ts, Users/index.module.ts).          *)
(***************************************************************************)
EXTENDS AuthZService

CONSTANT UserIds

UserRoles == {"SUPER_ADMIN", "ADMIN", "MANAGER", "AGENT", "SELLER"}

(* Faulty variant: room is left between the ranks. *)
RankOfApart ==
  [role \in UserRoles |-> CASE role = "SUPER_ADMIN" -> 0
                            [] role = "ADMIN" -> 5
                            [] role = "MANAGER" -> 10
                            [] OTHER -> 15]

(* RoleDefinition.rank: the smaller the number, the higher the rank. *)
RankOf ==
  [role \in UserRoles |-> CASE role = "SUPER_ADMIN" -> 0
                            [] role = "ADMIN" -> 1
                            [] role = "MANAGER" -> 2
                            [] OTHER -> 3]

Ranks == {RankOf[role] : role \in UserRoles}
DefaultRole == "SELLER"

(* What the JWT middleware builds: assignedUsers is always the empty list.  *)
UserContexts ==
  [userId: UserIds, role: UserRoles, rank: Ranks, isActive: BOOLEAN, assignedUsers: {{}}]

(* What the resolver functions read of a user. *)
UserObjects == [userId: UserIds, rank: Ranks]

Resolver(Holds(_, _)) ==
  {pair \in UserContexts \X UserObjects : Holds(pair[1], pair[2])}

All(ctx, user) == TRUE

(* Faulty variant: an equal rank is not enough. *)
AllLowerRank(ctx, user) == ctx.rank < user.rank

(* The column is numeric, which the driver hands over as text: <= compares    *)
(* character by character.  A rank has one digit or two.                      *)
RankText(rank) == IF rank < 10 THEN <<rank>> ELSE <<rank \div 10, rank % 10>>

TextAtMost(s, t) ==
  \/ Len(s) <= Len(t) /\ s = SubSeq(t, 1, Len(s))
  \/ \E i \in DOMAIN s \cap DOMAIN t : SubSeq(s, 1, i - 1) = SubSeq(t, 1, i - 1) /\ s[i] < t[i]

AllRank(ctx, user) == TextAtMost(RankText(ctx.rank), RankText(user.rank))
Own(ctx, user) == ctx.userId = user.userId
Assigned(ctx, user) == user.userId \in ctx.assignedUsers

UserAccessLevels ==
  [level \in {"ALL", "ALL_RANK", "OWN", "ASSIGNED"} |->
     CASE level = "ALL"      -> [fn |-> Resolver(All), priority |-> 0]
       [] level = "ALL_RANK" -> [fn |-> Resolver(AllRank), priority |-> 1]
       [] level = "OWN"      -> [fn |-> Resolver(Own), priority |-> 2]
       [] level = "ASSIGNED" -> [fn |-> Resolver(Assigned), priority |-> 3]]

UserActions == {"CREATE", "READ", "UPDATE", "DELETE", "LIST"}

UserPermissions(role) ==
  CASE role = "SUPER_ADMIN" -> [action \in UserActions |-> <<"ALL">>]
    [] role = "ADMIN" -> [action \in UserActions |-> <<"ALL_RANK">>]
    [] role = "MANAGER" -> [action \in {"READ", "LIST", "UPDATE"} |->
                              IF action = "LIST" THEN <<"ASSIGNED">>
                              ELSE <<"ASSIGNED", "OWN">>]
    [] OTHER -> [action \in {"READ", "UPDATE"} |-> <<"OWN">>]

UserDefinition ==
  [identifier |-> "userId",
   actions |-> UserActions,
   relationships |-> {"OWNER"},
   accessLevels |-> UserAccessLevels,
   roles |-> [role \in UserRoles |->
                [permissions |-> UserPermissions(role), relationships |-> {"OWNER"}]]]

ActiveAccount == {ctx \in UserContexts : ctx.isActive}

(* The registry while the server runs: forRoot, then forFeature. *)
UserRegistry ==
  [definitions |-> [resource \in {"USER"} |-> UserDefinition],
   checks |-> {ActiveAccount}]
=============================================================================
