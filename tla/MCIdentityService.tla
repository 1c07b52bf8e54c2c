------------------------- MODULE MCIdentityService -------------------------
(* Small instances of IdentityService; each configuration picks the calls     *)
(* that raise its question.                                                   *)
EXTENDS IdentityService, TLC

CONSTANTS q1, q2, root, boss, e1, e2, p1, p2

Row(email, status, role) ==
  [email |-> email, password |-> p1, status |-> status, role |-> role, rank |-> RankOf[role]]

Call(route, token, email, password, valid) ==
  [route |-> route, token |-> token, email |-> email, password |-> password, valid |-> valid]

Register(email, password) == Call("register", NoToken, email, password, TRUE)
Login(email, password) == Call("login", NoToken, email, password, TRUE)
Hello(route, token) == Call(route, token, Absent, Absent, FALSE)

BossAlone == boss :> Row(e1, "ACTIVE", "ADMIN")
BossAndRoot == BossAlone @@ root :> Row(e2, "PENDING", "SUPER_ADMIN")

(* The requests play the same part in every safety property. *)
Interchangeable == Permutations(Requests)

(* Every route with and without a token; logins right and wrong, also to an     *)
(* account that is registered, activated by others and used; registrations of a *)
(* free and of a taken address, and one without a body.                         *)
LifeCalls ==
  {Hello(route, token) : route \in {"hello", "helloPost"}, token \in {boss, NoToken}}
    \cup {Hello("hello", BadToken), Login(e1, p1), Login(e1, p2), Login(e2, p1), Login(e2, p2),
          Register(e2, p1), Register(e1, p2), Call("register", NoToken, Absent, Absent, FALSE)}

(* Logins that are refused: a wrong password, an account that is not active. *)
RefusedCalls == {Login(e1, p2), Login(e2, p1)}
=============================================================================
