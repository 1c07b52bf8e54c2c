-------------------------- MODULE AccountDirectory -------------------------
(***************************************************************************)
(* What registration promises, without saying how: an e-mail address has at *)
(* most one owner, it is taken in one indivisible step by the client that   *)
(* asked for it and only while it is free, a client takes it at most once,  *)
(* and "created" is answered only to a client that took it.  A client that  *)
(* is told "failed", or nothing, may or may not have taken the address.     *)
(***************************************************************************)
EXTENDS Naturals

CONSTANTS Clients, Emails, Nothing, InitialOwner

VARIABLES
  owner,    \* email -> the account that holds it, or Nothing
  asked,    \* client -> the email it asked for, or Nothing
  claimed,  \* the clients that took their email
  answer    \* client -> what it was told

directoryVars == <<owner, asked, claimed, answer>>

Init ==
  /\ owner = InitialOwner
  /\ asked = [c \in Clients |-> Nothing]
  /\ claimed = {}
  /\ answer = [c \in Clients |-> "none"]

Ask(c, e) ==
  /\ asked[c] = Nothing
  /\ asked' = [asked EXCEPT ![c] = e]
  /\ UNCHANGED <<owner, claimed, answer>>

(* The answer of a claim may be lost on the way: the client is told "failed". *)
Claim(c, told) ==
  /\ asked[c] \in Emails
  /\ owner[asked[c]] = Nothing
  /\ c \notin claimed
  /\ answer[c] = "none"
  /\ owner' = [owner EXCEPT ![asked[c]] = c]
  /\ claimed' = claimed \cup {c}
  /\ answer' = [answer EXCEPT ![c] = told]
  /\ UNCHANGED asked

Confirm(c) ==
  /\ c \in claimed
  /\ answer[c] = "none"
  /\ answer' = [answer EXCEPT ![c] = "created"]
  /\ UNCHANGED <<owner, asked, claimed>>

(* Several clients fail at once when the server goes down. *)
Fail(cs) ==
  /\ cs # {}
  /\ \A c \in cs : asked[c] # Nothing /\ answer[c] = "none"
  /\ answer' = [c \in Clients |-> IF c \in cs THEN "failed" ELSE answer[c]]
  /\ UNCHANGED <<owner, asked, claimed>>

(* An account is removed and its address becomes free. *)
Release(e) ==
  /\ owner[e] # Nothing
  /\ owner' = [owner EXCEPT ![e] = Nothing]
  /\ UNCHANGED <<asked, claimed, answer>>

Next ==
  \/ \E c \in Clients, e \in Emails : Ask(c, e)
  \/ \E c \in Clients, told \in {"none", "failed"} : Claim(c, told)
  \/ \E c \in Clients : Confirm(c)
  \/ \E cs \in SUBSET Clients : Fail(cs)
  \/ \E e \in Emails : Release(e)

Spec == Init /\ [][Next]_directoryVars
=============================================================================
