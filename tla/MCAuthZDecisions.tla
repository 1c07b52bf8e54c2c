-------------------------- MODULE MCAuthZDecisions -------------------------
(* AuthZRegistry and AuthZDecisions for two roles and two resources: options,  *)
(* definitions and feature lists of which some are refused, the bad entry      *)
(* first or last.  The definitions use two levels: ALL always holds, OWN holds *)
(* for one's own object; one role lists them as MANAGER lists its levels, the  *)
(* narrower one first.  Who asks is always alice, what is asked about is hers  *)
(* or bob's.                                                                   *)
EXTENDS AuthZDecisions, TLC

CONSTANTS r1, r2, u1, u2, d1, d2, alice, bob

Users == {alice, bob}
MCContexts ==
  {NoContext} \cup [userId: {alice}, role: {r1, r2, NoRole}, isActive: BOOLEAN]
MCObjects == [userId: Users]

Active == {ctx \in MCContexts \ {NoContext} : ctx.isActive}
Everything == (MCContexts \ {NoContext}) \X MCObjects
Owned == {pair \in Everything : pair[1].userId = pair[2].userId}

Levels == "ALL" :> [fn |-> Everything, priority |-> 0] @@
          "OWN" :> [fn |-> Owned, priority |-> 1]

Grant(levels, rels) == [permissions |-> "READ" :> levels, relationships |-> rels]

Definition(levels, rels, roles) ==
  [identifier |-> "userId", actions |-> {"READ"}, accessLevels |-> levels,
   relationships |-> rels, roles |-> roles]

Mixed == Definition(Levels, {"OWNER"},
           r1 :> Grant(<<"OWN", "ALL">>, {"OWNER"}) @@ r2 :> Grant(<<"OWN">>, {}))
Narrow == Definition(Levels, {"OWNER"}, r1 :> Grant(<<"OWN">>, {}) @@ r2 :> Grant(<<>>, {}))
(* r1 is fine, r2 names a relationship that is not declared. *)
BadRel == Definition(Levels, {}, r1 :> Grant(<<"ALL">>, {}) @@ r2 :> Grant(<<"ALL">>, {"OWNER"}))
(* r2 names a level that is not declared. *)
BadLevel == Definition("OWN" :> [fn |-> Owned, priority |-> 1], {},
              r1 :> Grant(<<"OWN">>, {}) @@ r2 :> Grant(<<"ALL">>, {}))

MCFns == {Everything, Owned}
MCChecks == {Active}

(* The resolver of the level is not a function. *)
NoResolver == Definition("OWN" :> [fn |-> Invalid, priority |-> 0], {}, r1 :> Grant(<<>>, {}))

MCDefinitions == {Mixed, Narrow, BadRel, BadLevel, NoResolver}

Root(roles, default, resources, checks, callback) ==
  [roles |-> roles, default |-> default, resources |-> resources,
   contextResolver |-> "default", globalChecks |-> checks, log |-> TRUE,
   authNException |-> Absent, authZException |-> callback, logger |-> Absent]

MCRootOptions ==
  {Root(r1 :> d1 @@ r2 :> d1, r2, {u1, u2}, {Active}, Absent),
   Root(r1 :> d2 @@ r2 :> Invalid, r1, {u1}, {}, Absent),
   Root(r1 :> d2, r2, {u1}, {}, Absent),
   Root(r2 :> d2, r2, {u2}, {Invalid}, Absent),
   Root(r1 :> d2, r1, {}, {}, Invalid),
   Root(r1 :> d2, Null, {u1}, {}, Absent)}

Entry(name, definition) == [name |-> name, definition |-> definition]

MCFeatureOptions ==
  {<<Entry(u1, Mixed), Entry(u2, Narrow)>>,
   <<Entry(u1, Narrow), Entry(u1, BadRel)>>,
   <<Entry(u2, BadLevel), Entry(u1, Narrow)>>,
   <<Entry(u2, Narrow), Entry(Blank, Narrow)>>,
   Invalid}
=============================================================================
