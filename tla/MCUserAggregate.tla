-------------------------- MODULE MCUserAggregate --------------------------
(* Two addresses, passwords, names and tokens, and rows of older accounts.    *)
EXTENDS UserAggregate

CONSTANTS e1, e2, p1, p2, n1, t1, t2

FieldNames == [f \in Fields |-> n1]

Foreign(verification, deleted) ==
  [email |-> e1, password |-> p1, status |-> "ACTIVE", names |-> FieldNames,
   emailVerification |-> verification, passwordReset |-> Null,
   updateAt |-> [user |-> TRUE, profile |-> FALSE],
   deleteAt |-> [user |-> deleted, profile |-> deleted]]

Verified == [token |-> t1, status |-> "VERIFIED"]
OldRows == {Foreign(Verified, FALSE), Foreign(Verified, TRUE), Foreign(Null, FALSE)}
=============================================================================
