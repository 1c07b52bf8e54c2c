--------------------------- MODULE UserAggregate ---------------------------
(***************************************************************************)
(* The User aggregate (Users/Domain/Aggregates/user.ts) with its Profile,   *)
(* EmailVerification and PasswordReset, and UserMapper, which writes it to  *)
(* and reads it back from a row.  One object lives in memory at a time; a   *)
(* method runs to its end, but one that throws half-way keeps what it did.  *)
(*                                                                          *)
(* Times are abstracted to "set or not"; currency, settings, role and rank  *)
(* are never changed by a method and are left out.                          *)
(***************************************************************************)
CONSTANTS
  Emails, Passwords, Names,
  Tokens,       \* the tokens that callers pass in: may contain Blank
  ForeignRows,  \* rows that may be in the table without toJSON having written them
  Blank,        \* the empty string
  Null

VARIABLES
  user,        \* the object in memory, or Null
  row,         \* the stored row, or Null
  outcome,     \* the last method called, and whether it threw
  confirmed    \* history: the addresses validateEmail was called for

vars == <<user, row, outcome, confirmed>>

Fields == {"firstName", "lastName", "phoneNumber"}
Statuses == {"ACTIVE", "PENDING", "BLOCK"}

Profile == [names: [Fields -> Names \cup {Blank}], updated: BOOLEAN, deleted: BOOLEAN]
Verification == [token: Tokens, status: {"PENDING", "VERIFIED", "EXPIRED"}]
Reset == [token: Tokens, status: {"ACTIVE", "EXPIRED", "USED"}]

User ==
  [email: Emails, password: Passwords, status: Statuses, profile: Profile,
   verification: Verification, reset: Reset \cup {Null},
   updated: BOOLEAN, deleted: BOOLEAN]

(* The row has nullable columns where the object has optional parts, and keeps *)
(* the deletion mark of the profile in the profile's own table.                *)
Row ==
  [email: Emails, password: Passwords, status: Statuses, names: [Fields -> Names \cup {Blank}],
   emailVerification: Verification \cup {Null}, passwordReset: Reset \cup {Null},
   updateAt: [user: BOOLEAN, profile: BOOLEAN], deleteAt: [user: BOOLEAN, profile: BOOLEAN]]

Methods ==
  {"none", "create", "changeEmail", "validateEmail", "resetPassword", "changePassword",
   "changeProfile", "transitionStatus", "delete", "toJSON", "FromDatabaseToDomain"}

(* Rows written by others: deleted with their profile or not at all, and       *)
(* possibly without e-mail verification.                                       *)
ASSUME ForeignRowsTyped ==
  ForeignRows \subseteq {r \in Row : r.deleteAt.user = r.deleteAt.profile}
ASSUME MarkersOutside == Null \notin Row \cup User \cup Verification \cup Reset

Init ==
  /\ user = Null
  /\ row \in ForeignRows \cup {Null}
  /\ outcome = [method |-> "none", threw |-> FALSE]
  /\ confirmed = IF row # Null THEN {row.email} ELSE {}

Returns(method) == outcome' = [method |-> method, threw |-> FALSE]
Throws(method) == outcome' = [method |-> method, threw |-> TRUE]

-----------------------------------------------------------------------------
(* Profile.validate: the constructor refuses a profile without names. *)
ValidNames(names) == names["firstName"] # Blank /\ names["lastName"] # Blank

(* EmailVerification.validate: the constructor refuses an empty token. *)
ValidToken(token) == token # Blank

(* Faulty variant: verification is left for later. *)
CreateUnverified(email, password, names, token) ==
  /\ user = Null /\ row = Null
  /\ user' = [email |-> email, password |-> password, status |-> "PENDING",
              profile |-> [names |-> names, updated |-> FALSE, deleted |-> FALSE],
              verification |-> Null, reset |-> Null, updated |-> FALSE, deleted |-> FALSE]
  /\ Returns("create")
  /\ confirmed' = {}
  /\ UNCHANGED row

Create(email, password, names, token) ==
  /\ user = Null /\ row = Null
  /\ UNCHANGED row
  /\ IF ValidNames(names) /\ ValidToken(token)
     THEN /\ user' = [email |-> email, password |-> password, status |-> "PENDING",
                      profile |-> [names |-> names, updated |-> FALSE, deleted |-> FALSE],
                      verification |-> [token |-> token, status |-> "PENDING"],
                      reset |-> Null, updated |-> FALSE, deleted |-> FALSE]
          /\ Returns("create")
          /\ confirmed' = {}
     ELSE /\ Throws("create")
          /\ UNCHANGED <<user, confirmed>>

(* update(callback): refused on a deleted user; a callback that throws leaves  *)
(* "partial" behind, and updateAt is set only after it returned.               *)
Update(method, callbackThrows, partial, complete) ==
  /\ user # Null
  /\ UNCHANGED row
  /\ \/ /\ user.deleted
        /\ Throws(method)
        /\ UNCHANGED user
     \/ /\ ~user.deleted /\ callbackThrows
        /\ Throws(method)
        /\ user' = partial
     \/ /\ ~user.deleted /\ ~callbackThrows
        /\ Returns(method)
        /\ user' = [complete EXCEPT !.updated = TRUE]

(* Faulty variant: the verification of the old address is kept. *)
ChangeEmailOnly(email, token) ==
  /\ Update("changeEmail", FALSE, user, [user EXCEPT !.email = email])
  /\ UNCHANGED confirmed

(* The address is assigned before the token is validated. *)
ChangeEmail(email, token) ==
  /\ Update("changeEmail", ~ValidToken(token),
            [user EXCEPT !.email = email],
            [user EXCEPT !.email = email,
                         !.verification = [token |-> token, status |-> "PENDING"]])
  /\ UNCHANGED confirmed

ValidateEmail ==
  /\ Update("validateEmail", FALSE, user, [user EXCEPT !.verification.status = "VERIFIED"])
  /\ confirmed' = IF user.deleted THEN confirmed ELSE confirmed \cup {user.email}

(* Faulty variant: a second reset is refused after the first was overwritten. *)
ResetPasswordInPlace(token) ==
  /\ Update("resetPassword", user.reset # Null,
            [user EXCEPT !.reset = [token |-> token, status |-> "ACTIVE"]],
            [user EXCEPT !.reset = [token |-> token, status |-> "ACTIVE"]])
  /\ UNCHANGED confirmed

(* PasswordReset.create validates nothing. *)
ResetPassword(token) ==
  /\ Update("resetPassword", FALSE, user,
            [user EXCEPT !.reset = [token |-> token, status |-> "ACTIVE"]])
  /\ UNCHANGED confirmed

ChangePassword(password) ==
  /\ Update("changePassword", FALSE, user, [user EXCEPT !.password = password])
  /\ UNCHANGED confirmed

(* Profile.updateProfile: an empty or missing property is not applied. *)
ChangeProfile(given) ==
  /\ Update("changeProfile", user.profile.deleted, user,
            [user EXCEPT !.profile.names =
                           [f \in Fields |-> IF given[f] = Blank THEN @[f] ELSE given[f]],
                         !.profile.updated = TRUE])
  /\ UNCHANGED confirmed

AllowedTransitions ==
  [status \in Statuses |-> CASE status = "ACTIVE"  -> {"BLOCK", "PENDING"}
                             [] status = "PENDING" -> {"ACTIVE", "BLOCK"}
                             [] status = "BLOCK"   -> {"PENDING"}]

(* Faulty variant: the status is assigned without going through update. *)
TransitionStatusDirectly(newStatus) ==
  /\ user # Null
  /\ newStatus \in AllowedTransitions[user.status]
  /\ user' = [user EXCEPT !.status = newStatus, !.updated = TRUE]
  /\ Returns("transitionStatus")
  /\ UNCHANGED <<row, confirmed>>

(* The transition is checked first, then whether the user may be updated. *)
TransitionStatus(newStatus) ==
  /\ user # Null
  /\ \/ /\ newStatus \notin AllowedTransitions[user.status]
        /\ Throws("transitionStatus")
        /\ UNCHANGED <<user, row>>
     \/ /\ newStatus \in AllowedTransitions[user.status]
        /\ Update("transitionStatus", FALSE, user, [user EXCEPT !.status = newStatus])
  /\ UNCHANGED confirmed

(* Faulty variant: the profile is left alone. *)
DeleteUserOnly ==
  /\ Update("delete", FALSE, user, [user EXCEPT !.deleted = TRUE])
  /\ UNCHANGED confirmed

(* User.delete marks the user, then Profile.delete its profile. *)
Delete ==
  /\ Update("delete", user.profile.deleted,
            [user EXCEPT !.deleted = TRUE],
            [user EXCEPT !.deleted = TRUE, !.profile.deleted = TRUE,
                         !.profile.updated = TRUE])
  /\ UNCHANGED confirmed

-----------------------------------------------------------------------------
(* UserMapper *)

FromDomainToDatabase(u) ==
  [email |-> u.email, password |-> u.password, status |-> u.status,
   names |-> u.profile.names,
   emailVerification |-> u.verification, passwordReset |-> u.reset,
   updateAt |-> [user |-> u.updated, profile |-> u.profile.updated],
   deleteAt |-> [user |-> u.deleted, profile |-> u.profile.deleted]]

(* The constructors run again.  The fallback for a row without verification    *)
(* builds one with an empty token, which its constructor refuses.              *)
Reconstructs(r) ==
  /\ ValidNames(r.names)
  /\ r.emailVerification # Null
  /\ ValidToken(r.emailVerification.token)

(* Faulty variant: the password reset is not read back. *)
FromDatabaseWithoutReset(r) ==
  [email |-> r.email, password |-> r.password, status |-> r.status,
   profile |-> [names |-> r.names, updated |-> r.updateAt.profile,
                deleted |-> r.deleteAt.profile],
   verification |-> r.emailVerification, reset |-> Null,
   updated |-> r.updateAt.user, deleted |-> r.deleteAt.user]

FromDatabaseToDomain(r) ==
  [email |-> r.email, password |-> r.password, status |-> r.status,
   profile |-> [names |-> r.names, updated |-> r.updateAt.profile,
                deleted |-> r.deleteAt.profile],
   verification |-> r.emailVerification, reset |-> r.passwordReset,
   updated |-> r.updateAt.user, deleted |-> r.deleteAt.user]

Store ==
  /\ user # Null
  /\ row' = FromDomainToDatabase(user)
  /\ Returns("toJSON")
  /\ UNCHANGED <<user, confirmed>>

Load ==
  /\ row # Null
  /\ IF Reconstructs(row)
     THEN Returns("FromDatabaseToDomain") /\ user' = FromDatabaseToDomain(row)
     ELSE Throws("FromDatabaseToDomain") /\ UNCHANGED user
  /\ UNCHANGED <<row, confirmed>>

Next ==
  \/ \E email \in Emails, password \in Passwords, token \in Tokens,
        names \in [Fields -> Names \cup {Blank}] : Create(email, password, names, token)
  \/ \E email \in Emails, token \in Tokens : ChangeEmail(email, token)
  \/ ValidateEmail
  \/ \E token \in Tokens : ResetPassword(token)
  \/ \E password \in Passwords : ChangePassword(password)
  \/ \E given \in [Fields -> Names \cup {Blank}] : ChangeProfile(given)
  \/ \E status \in Statuses : TransitionStatus(status)
  \/ Delete
  \/ Store
  \/ Load

Spec == Init /\ [][Next]_vars

-----------------------------------------------------------------------------
(* The object and the stored row keep their shape. *)
TypeOK ==
  /\ user \in User \cup {Null}
  /\ row \in Row \cup {Null}
  /\ outcome \in [method: Methods, threw: BOOLEAN]
  /\ confirmed \subseteq Emails

(* A user and its profile are deleted together, in memory and in the tables,  *)
(* although each has a deletion mark and a check of its own.                  *)
DeletedTogether ==
  /\ user # Null => (user.deleted <=> user.profile.deleted)
  /\ row # Null => (row.deleteAt.user <=> row.deleteAt.profile)

(* An address counts as verified only if validateEmail was called while the    *)
(* account had it: no change of address carries the mark over.                 *)
VerifiedEmailWasConfirmed ==
  user # Null /\ user.verification.status = "VERIFIED" => user.email \in confirmed

(* Reading back what toJSON gave yields the same object: none of the optional  *)
(* parts is lost, and the constructors accept what the methods left.           *)
RoundTrip ==
  outcome.method = "toJSON" =>
    Reconstructs(row) /\ FromDatabaseToDomain(row) = user

(* A deleted account is final: no later method changes the object, and no       *)
(* later write changes its row.                                                 *)
DeletionIsFinal ==
  [][/\ user # Null /\ user.deleted /\ outcome'.method # "FromDatabaseToDomain" => user' = user
     /\ row # Null /\ row.deleteAt.user => row' = row]_vars

(* A method that throws leaves the object as it was, although methods assign   *)
(* fields before they call what may throw.                                     *)
FailureKeepsUser == [][outcome'.threw => user' = user]_vars
=============================================================================
