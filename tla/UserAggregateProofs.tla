------------------------ MODULE UserAggregateProofs ------------------------
(***************************************************************************)
(* What holds of the User aggregate for every set of addresses, passwords,  *)
(* names, tokens and older rows.                                            *)
(***************************************************************************)
EXTENDS UserAggregate, TLAPS

(* The object that a deleted row belongs to is the row read back. *)
DeletedRowIsCurrent ==
  row # Null /\ row.deleteAt.user =>
    \/ user = Null
    \/ row.emailVerification # Null /\ user = FromDatabaseToDomain(row)

(* The stored verification counts for the stored address. *)
StoredEmailWasConfirmed ==
  row # Null /\ row.emailVerification # Null /\ row.emailVerification.status = "VERIFIED"
    => row.email \in confirmed

DeletionInv == TypeOK /\ DeletedTogether /\ DeletedRowIsCurrent
VerifiedInv == DeletionInv /\ VerifiedEmailWasConfirmed /\ StoredEmailWasConfirmed

USE DEF Statuses, Profile, Verification, Reset

-----------------------------------------------------------------------------
(* The record of the last call is well formed. *)
LEMMA OutcomeTyped ==
  ASSUME NEW method \in Methods, Returns(method) \/ Throws(method)
  PROVE  outcome' \in [method: Methods, threw: BOOLEAN]
<1>1. CASE outcome' = [method |-> method, threw |-> FALSE]
  BY <1>1
<1>2. CASE outcome' = [method |-> method, threw |-> TRUE]
  BY <1>2
<1> QED BY <1>1, <1>2 DEF Returns, Throws

(* Null is told apart from every object and row. *)
LEMMA NotNull == Null \notin User /\ Null \notin Row
BY MarkersOutside

(* A method that goes through update keeps the types and the deletion marks   *)
(* together if its callback does.                                             *)
LEMMA UpdateKeepsDeletion ==
  ASSUME DeletionInv, NEW method \in Methods, NEW callbackThrows,
         NEW partial, NEW complete,
         user # Null /\ ~user.deleted /\ callbackThrows =>
           partial \in User /\ (partial.deleted <=> partial.profile.deleted),
         user # Null /\ ~user.deleted /\ ~callbackThrows =>
           complete \in User /\ (complete.deleted <=> complete.profile.deleted),
         Update(method, callbackThrows, partial, complete), confirmed' \subseteq Emails
  PROVE  DeletionInv'
<1>1. user \in User /\ row' = row
  BY DEF DeletionInv, TypeOK, Update
<1>2. CASE user.deleted /\ Throws(method) /\ UNCHANGED user
  BY <1>1, <1>2 DEF DeletionInv, TypeOK, DeletedTogether, DeletedRowIsCurrent, Throws,
                    FromDatabaseToDomain
<1>3. CASE ~user.deleted /\ callbackThrows /\ Throws(method) /\ user' = partial
  <2>1. user' \in User /\ (user'.deleted <=> user'.profile.deleted)
    BY <1>3, <1>1, MarkersOutside DEF Update
  <2>2. ~(row # Null /\ row.deleteAt.user)
    BY <1>3, <1>1, MarkersOutside
       DEF DeletionInv, DeletedRowIsCurrent, FromDatabaseToDomain, User, Row
  <2> QED BY <1>1, <1>3, <2>1, <2>2
       DEF DeletionInv, TypeOK, DeletedTogether, DeletedRowIsCurrent, Throws
<1>4. CASE ~user.deleted /\ ~callbackThrows /\ Returns(method)
             /\ user' = [complete EXCEPT !.updated = TRUE]
  <2>1. user' \in User /\ (user'.deleted <=> user'.profile.deleted)
    BY <1>4, <1>1, MarkersOutside DEF User, Update
  <2>2. ~(row # Null /\ row.deleteAt.user)
    BY <1>4, <1>1, MarkersOutside
       DEF DeletionInv, DeletedRowIsCurrent, FromDatabaseToDomain, User, Row
  <2> QED BY <1>1, <1>4, <2>1, <2>2
       DEF DeletionInv, TypeOK, DeletedTogether, DeletedRowIsCurrent, Returns
<1> QED BY <1>2, <1>3, <1>4 DEF Update

(* The two parts of the inductive argument. *)
LEMMA DeletionInit == Init => DeletionInv
<1> SUFFICES ASSUME Init PROVE DeletionInv
  OBVIOUS
<1>1. row = Null \/ (row \in Row /\ row.deleteAt.user = row.deleteAt.profile)
  BY ForeignRowsTyped DEF Init
<1>2. confirmed \subseteq Emails
  BY <1>1 DEF Init, Row
<1>3. outcome \in [method: Methods, threw: BOOLEAN]
  BY DEF Init, Methods
<1> QED BY <1>1, <1>2, <1>3
     DEF Init, DeletionInv, TypeOK, DeletedTogether, DeletedRowIsCurrent

(* Every method keeps the invariant. *)
LEMMA DeletionStep == DeletionInv /\ [Next]_vars => DeletionInv'
<1> SUFFICES ASSUME DeletionInv, [Next]_vars PROVE DeletionInv'
  OBVIOUS
<1>0. user \in User \cup {Null} /\ row \in Row \cup {Null} /\ confirmed \subseteq Emails
  BY DEF DeletionInv, TypeOK
<1>1. ASSUME NEW email \in Emails, NEW password \in Passwords, NEW token \in Tokens,
             NEW names \in [Fields -> Names \cup {Blank}],
             Create(email, password, names, token)
      PROVE  DeletionInv'
  <2>1. user = Null /\ row = Null /\ row' = Null
    BY <1>1 DEF Create
  <2> DEFINE created ==
        [email |-> email, password |-> password, status |-> "PENDING",
         profile |-> [names |-> names, updated |-> FALSE, deleted |-> FALSE],
         verification |-> [token |-> token, status |-> "PENDING"],
         reset |-> Null, updated |-> FALSE, deleted |-> FALSE]
  <2>0. created \in User /\ ~created.deleted /\ ~created.profile.deleted
    BY DEF User
  <2>r. \/ user' = created /\ Returns("create") /\ confirmed' = {}
        \/ Throws("create") /\ UNCHANGED <<user, confirmed>>
    BY <1>1, Zenon DEF Create
  <2> HIDE DEF created
  <2>2. user' = Null \/ (user' \in User /\ ~user'.deleted /\ ~user'.profile.deleted)
    BY <2>0, <2>r, <2>1
  <2>3. outcome' \in [method: Methods, threw: BOOLEAN] /\ confirmed' \subseteq Emails
    <3>1. outcome' \in [method: Methods, threw: BOOLEAN]
      BY <2>r, OutcomeTyped DEF Methods
    <3>2. confirmed' \subseteq Emails
      BY <1>0, <2>r
    <3> QED BY <3>1, <3>2
  <2> QED BY <2>1, <2>2, <2>3 DEF DeletionInv, TypeOK, DeletedTogether, DeletedRowIsCurrent
<1>2. ASSUME NEW email \in Emails, NEW token \in Tokens, ChangeEmail(email, token)
      PROVE  DeletionInv'
  <2> DEFINE partial == [user EXCEPT !.email = email]
             complete == [user EXCEPT !.email = email,
                            !.verification = [token |-> token, status |-> "PENDING"]]
  <2>1. user # Null =>
          /\ partial \in User /\ partial.deleted = user.deleted
          /\ partial.profile = user.profile
          /\ complete \in User /\ complete.deleted = user.deleted
          /\ complete.profile = user.profile
    BY <1>0 DEF User
  <2>2. Update("changeEmail", ~ValidToken(token), partial, complete) /\ confirmed' = confirmed
    BY <1>2 DEF ChangeEmail
  <2> HIDE DEF partial, complete
  <2> QED BY <1>0, <2>1, <2>2, UpdateKeepsDeletion DEF DeletionInv, DeletedTogether, Methods
<1>3. CASE ValidateEmail
  <2> DEFINE complete == [user EXCEPT !.verification.status = "VERIFIED"]
  <2>1. user # Null => complete \in User /\ complete.deleted = user.deleted
                         /\ complete.profile = user.profile
    BY <1>0 DEF User
  <2>2. user # Null => user.email \in Emails
    BY <1>0 DEF User
  <2>3. Update("validateEmail", FALSE, user, complete) /\ confirmed' \subseteq Emails
    BY <1>0, <1>3, <2>2 DEF ValidateEmail, Update
  <2> HIDE DEF complete
  <2> QED BY <1>0, <2>1, <2>3, UpdateKeepsDeletion DEF DeletionInv, DeletedTogether, Methods
<1>4. ASSUME NEW token \in Tokens, ResetPassword(token) PROVE DeletionInv'
  <2> DEFINE complete == [user EXCEPT !.reset = [token |-> token, status |-> "ACTIVE"]]
  <2>1. user # Null => complete \in User /\ complete.deleted = user.deleted
                         /\ complete.profile = user.profile
    BY <1>0 DEF User
  <2>2. Update("resetPassword", FALSE, user, complete) /\ confirmed' = confirmed
    BY <1>4 DEF ResetPassword
  <2> HIDE DEF complete
  <2> QED BY <1>0, <2>1, <2>2, UpdateKeepsDeletion DEF DeletionInv, DeletedTogether, Methods
<1>5. ASSUME NEW password \in Passwords, ChangePassword(password) PROVE DeletionInv'
  <2> DEFINE complete == [user EXCEPT !.password = password]
  <2>1. user # Null => complete \in User /\ complete.deleted = user.deleted
                         /\ complete.profile = user.profile
    BY <1>0 DEF User
  <2>2. Update("changePassword", FALSE, user, complete) /\ confirmed' = confirmed
    BY <1>5 DEF ChangePassword
  <2> HIDE DEF complete
  <2> QED BY <1>0, <2>1, <2>2, UpdateKeepsDeletion DEF DeletionInv, DeletedTogether, Methods
<1>6. ASSUME NEW given \in [Fields -> Names \cup {Blank}], ChangeProfile(given)
      PROVE  DeletionInv'
  <2> DEFINE complete ==
        [user EXCEPT !.profile.names =
                       [f \in Fields |-> IF given[f] = Blank THEN @[f] ELSE given[f]],
                     !.profile.updated = TRUE]
  <2>1. user # Null => complete \in User /\ complete.deleted = user.deleted
                         /\ complete.profile.deleted = user.profile.deleted
    BY <1>0 DEF User
  <2>2. Update("changeProfile", user.profile.deleted, user, complete) /\ confirmed' = confirmed
    BY <1>6 DEF ChangeProfile
  <2> HIDE DEF complete
  <2> QED BY <1>0, <2>1, <2>2, UpdateKeepsDeletion DEF DeletionInv, DeletedTogether, Methods
<1>7. ASSUME NEW status \in Statuses, TransitionStatus(status) PROVE DeletionInv'
  <2>1. CASE Throws("transitionStatus") /\ UNCHANGED <<user, row, confirmed>>
    <3>1. outcome' \in [method: Methods, threw: BOOLEAN]
      BY <2>1, OutcomeTyped DEF Methods
    <3> QED BY <1>0, <2>1, <3>1 DEF DeletionInv, TypeOK, DeletedTogether, DeletedRowIsCurrent
  <2>2. CASE Update("transitionStatus", FALSE, user, [user EXCEPT !.status = status])
             /\ confirmed' = confirmed
    <3> DEFINE complete == [user EXCEPT !.status = status]
    <3>1. user # Null => complete \in User /\ complete.deleted = user.deleted
                           /\ complete.profile = user.profile
      BY <1>0 DEF User
    <3>2. Update("transitionStatus", FALSE, user, complete) /\ confirmed' = confirmed
      BY <2>2
    <3> HIDE DEF complete
    <3> QED BY <1>0, <3>1, <3>2, UpdateKeepsDeletion DEF DeletionInv, DeletedTogether, Methods
  <2> QED BY <1>7, <2>1, <2>2 DEF TransitionStatus
<1>8. CASE Delete
  <2> DEFINE partial == [user EXCEPT !.deleted = TRUE]
             complete == [user EXCEPT !.deleted = TRUE, !.profile.deleted = TRUE,
                                      !.profile.updated = TRUE]
  <2>1. user # Null =>
          /\ partial \in User
          /\ complete \in User /\ complete.deleted /\ complete.profile.deleted
    BY <1>0 DEF User
  <2>2. user # Null /\ ~user.deleted => ~user.profile.deleted
    BY <1>0 DEF DeletionInv, DeletedTogether, User
  <2>3. Update("delete", user.profile.deleted, partial, complete) /\ confirmed' = confirmed
    BY <1>8 DEF Delete
  <2> HIDE DEF partial, complete
  <2> QED BY <1>0, <2>1, <2>2, <2>3, UpdateKeepsDeletion DEF DeletionInv, Methods
<1>9. CASE Store
  <2>1. user \in User /\ user' = user /\ row' = FromDomainToDatabase(user)
    BY <1>0, <1>9 DEF Store
  <2>2. row' \in Row /\ row'.deleteAt.user = user.deleted
          /\ row'.deleteAt.profile = user.profile.deleted
    BY <2>1 DEF FromDomainToDatabase, User, Row
  <2>3. user.deleted <=> user.profile.deleted
    BY <2>1, NotNull DEF DeletionInv, DeletedTogether
  <2>4. user = FromDatabaseToDomain(row') /\ row'.emailVerification # Null
    <3>1. user.verification # Null
      BY <2>1, MarkersOutside DEF User
    <3> QED BY <2>1, <3>1 DEF FromDomainToDatabase, FromDatabaseToDomain, User
  <2>5. outcome' \in [method: Methods, threw: BOOLEAN] /\ confirmed' \subseteq Emails
    BY <1>0, <1>9, OutcomeTyped DEF Store, Methods
  <2> QED BY <2>1, <2>2, <2>3, <2>4, <2>5
       DEF DeletionInv, TypeOK, DeletedTogether, DeletedRowIsCurrent
<1>10. CASE Load
  <2>1. row \in Row /\ row' = row /\ confirmed' = confirmed
          /\ outcome' \in [method: Methods, threw: BOOLEAN]
    <3>1. row # Null /\ row' = row /\ confirmed' = confirmed
            /\ (Returns("FromDatabaseToDomain") \/ Throws("FromDatabaseToDomain"))
      BY <1>10, Zenon DEF Load
    <3>2. outcome' \in [method: Methods, threw: BOOLEAN]
      BY <3>1, OutcomeTyped DEF Methods
    <3> QED BY <1>0, <3>1, <3>2
  <2>2. CASE Reconstructs(row)
    <3>1. row.emailVerification # Null /\ user' = FromDatabaseToDomain(row)
      BY <1>10, <2>2 DEF Load, Reconstructs
    <3>2. user' \in User /\ user'.deleted = row.deleteAt.user
            /\ user'.profile.deleted = row.deleteAt.profile
      BY <2>1, <3>1 DEF FromDatabaseToDomain, User, Row
    <3> QED BY <1>0, <2>1, <3>1, <3>2, NotNull
         DEF DeletionInv, TypeOK, DeletedTogether, DeletedRowIsCurrent
  <2>3. CASE ~Reconstructs(row)
    <3>1. user' = user
      BY <1>10, <2>3 DEF Load
    <3> QED BY <1>0, <2>1, <3>1 DEF DeletionInv, TypeOK, DeletedTogether, DeletedRowIsCurrent
  <2> QED BY <2>2, <2>3
<1>11. CASE UNCHANGED vars
  BY <1>11 DEF vars, DeletionInv, TypeOK, DeletedTogether, DeletedRowIsCurrent
<1> QED BY <1>1, <1>2, <1>3, <1>4, <1>5, <1>6, <1>7, <1>8, <1>9, <1>10, <1>11 DEF Next

(* The object, its profile and the row agree on deletion in every state. *)
LEMMA DeletionInvariant == Spec => []DeletionInv
BY DeletionInit, DeletionStep, PTL DEF Spec

(* The object in memory and the stored row keep their shape, also where a       *)
(* method of user.ts throws half-way.                                          *)
THEOREM TypeCorrect == Spec => []TypeOK
<1>1. DeletionInv => TypeOK
  BY DEF DeletionInv
<1> QED BY <1>1, DeletionInvariant, PTL

(* A user and its profile carry the deletion mark together, in memory (user.ts *)
(* delete) and in the tables.                                                  *)
THEOREM DeletedTogetherCorrect == Spec => []DeletedTogether
<1>1. DeletionInv => DeletedTogether
  BY DEF DeletionInv
<1> QED BY <1>1, DeletionInvariant, PTL

-----------------------------------------------------------------------------
(* A deleted account is final: methods throw, and a write repeats the row.     *)
LEMMA FinalStep ==
  ASSUME DeletionInv, [Next]_vars
  PROVE  /\ user # Null /\ user.deleted /\ outcome'.method # "FromDatabaseToDomain"
             => user' = user
         /\ row # Null /\ row.deleteAt.user => row' = row
<1>0. user \in User \cup {Null} /\ row \in Row \cup {Null}
  BY DEF DeletionInv, TypeOK
<1>1. ASSUME NEW method \in Methods, NEW throws, NEW partial, NEW complete,
             Update(method, throws, partial, complete)
      PROVE  row' = row /\ (user.deleted => user' = user)
  BY <1>1 DEF Update
<1>2. CASE \/ \E email \in Emails, token \in Tokens : ChangeEmail(email, token)
           \/ ValidateEmail
           \/ \E token \in Tokens : ResetPassword(token)
           \/ \E password \in Passwords : ChangePassword(password)
           \/ \E given \in [Fields -> Names \cup {Blank}] : ChangeProfile(given)
           \/ Delete
  <2> USE DEF Update
  <2>1. row' = row /\ (user.deleted => user' = user)
    BY <1>2 DEF ChangeEmail, ValidateEmail, ResetPassword, ChangePassword, ChangeProfile,
                Delete
  <2> QED BY <2>1
<1>3. CASE \E status \in Statuses : TransitionStatus(status)
  BY <1>3 DEF TransitionStatus, Update
<1>4. CASE \E email \in Emails, password \in Passwords, token \in Tokens,
              names \in [Fields -> Names \cup {Blank}] : Create(email, password, names, token)
  BY <1>4 DEF Create
<1>5. CASE Store
  <2>1. user \in User /\ user' = user /\ row' = FromDomainToDatabase(user)
    BY <1>0, <1>5 DEF Store
  <2>2. row # Null /\ row.deleteAt.user => user = FromDatabaseToDomain(row)
    BY <2>1, NotNull DEF DeletionInv, DeletedRowIsCurrent
  <2>3. row # Null => FromDomainToDatabase(FromDatabaseToDomain(row)) = row
    BY <1>0 DEF FromDomainToDatabase, FromDatabaseToDomain, Row
  <2> QED BY <2>1, <2>2, <2>3
<1>6. CASE Load
  BY <1>6 DEF Load, Returns, Throws
<1>7. CASE UNCHANGED vars
  BY <1>7 DEF vars
<1> QED BY <1>2, <1>3, <1>4, <1>5, <1>6, <1>7 DEF Next

(* No method changes a deleted User and no write changes its row               *)
(* (user.ts canUpdate, profile.ts canUpdate, user.mapper.ts).                  *)
THEOREM DeletionIsFinalCorrect == Spec => DeletionIsFinal
<1>1. DeletionInv /\ [Next]_vars =>
        [/\ user # Null /\ user.deleted /\ outcome'.method # "FromDatabaseToDomain"
              => user' = user
         /\ row # Null /\ row.deleteAt.user => row' = row]_vars
  BY FinalStep
<1> QED BY <1>1, DeletionInvariant, PTL DEF Spec, DeletionIsFinal

-----------------------------------------------------------------------------
(* The verification of an address.  Callers must not pass an empty token: a    *)
(* changeEmail that throws keeps the new address with the old verification.    *)
LEMMA VerifiedStep ==
  ASSUME Blank \notin Tokens, VerifiedInv, [Next]_vars
  PROVE  (VerifiedEmailWasConfirmed /\ StoredEmailWasConfirmed)'
<1> USE DEF VerifiedEmailWasConfirmed, StoredEmailWasConfirmed
<1>0. /\ user \in User \cup {Null} /\ row \in Row \cup {Null}
      /\ VerifiedEmailWasConfirmed /\ StoredEmailWasConfirmed
  BY DEF VerifiedInv, DeletionInv, TypeOK
<1>1. CASE \E email \in Emails, password \in Passwords, token \in Tokens,
              names \in [Fields -> Names \cup {Blank}] : Create(email, password, names, token)
  BY <1>0, <1>1 DEF Create
<1>2. ASSUME NEW email \in Emails, NEW token \in Tokens, ChangeEmail(email, token)
      PROVE  (VerifiedEmailWasConfirmed /\ StoredEmailWasConfirmed)'
  <2>1. user \in User /\ row' = row /\ confirmed' = confirmed
    BY <1>0, <1>2 DEF ChangeEmail, Update
  <2>2. user' = user \/ user'.verification.status = "PENDING"
    <3>1. CASE user.deleted
      BY <1>2, <3>1 DEF ChangeEmail, Update
    <3>2. CASE ~user.deleted
      <4>1. ValidToken(token)
        BY DEF ValidToken
      <4>2. user' = [[user EXCEPT !.email = email,
                         !.verification = [token |-> token, status |-> "PENDING"]]
                       EXCEPT !.updated = TRUE]
        BY <1>2, <3>2, <4>1 DEF ChangeEmail, Update
      <4> QED BY <2>1, <4>2 DEF User
    <3> QED BY <3>1, <3>2
  <2> QED BY <1>0, <2>1, <2>2
<1>3. CASE ValidateEmail
  <2>1. user \in User /\ row' = row /\ confirmed \subseteq confirmed'
    BY <1>0, <1>3 DEF ValidateEmail, Update
  <2>2. user.deleted => user' = user
    BY <1>3 DEF ValidateEmail, Update
  <2>3. ~user.deleted => user'.email = user.email /\ user.email \in confirmed'
    BY <2>1, <1>3 DEF ValidateEmail, Update, User
  <2> QED BY <1>0, <2>1, <2>2, <2>3
<1>4. CASE \/ \E token \in Tokens : ResetPassword(token)
           \/ \E password \in Passwords : ChangePassword(password)
           \/ \E given \in [Fields -> Names \cup {Blank}] : ChangeProfile(given)
           \/ \E status \in Statuses : TransitionStatus(status)
           \/ Delete
  <2>1. user \in User /\ row' = row /\ confirmed' = confirmed
    BY <1>0, <1>4 DEF ResetPassword, ChangePassword, ChangeProfile, TransitionStatus,
                      Delete, Update
  <2>2. user'.email = user.email /\ user'.verification = user.verification
    <3>1. ASSUME NEW token \in Tokens, ResetPassword(token)
          PROVE  user'.email = user.email /\ user'.verification = user.verification
      BY <2>1, <3>1 DEF ResetPassword, Update, User
    <3>2. ASSUME NEW password \in Passwords, ChangePassword(password)
          PROVE  user'.email = user.email /\ user'.verification = user.verification
      BY <2>1, <3>2 DEF ChangePassword, Update, User
    <3>3. ASSUME NEW given \in [Fields -> Names \cup {Blank}], ChangeProfile(given)
          PROVE  user'.email = user.email /\ user'.verification = user.verification
      BY <2>1, <3>3 DEF ChangeProfile, Update, User
    <3>4. ASSUME NEW status \in Statuses, TransitionStatus(status)
          PROVE  user'.email = user.email /\ user'.verification = user.verification
      BY <2>1, <3>4 DEF TransitionStatus, Update, User
    <3>5. CASE Delete
      BY <2>1, <3>5 DEF Delete, Update, User
    <3> QED BY <1>4, <3>1, <3>2, <3>3, <3>4, <3>5
  <2> QED BY <1>0, <2>1, <2>2, NotNull
<1>5. CASE Store
  BY <1>0, <1>5 DEF Store, FromDomainToDatabase
<1>6. CASE Load
  BY <1>0, <1>6 DEF Load, Reconstructs, FromDatabaseToDomain
<1>7. CASE UNCHANGED vars
  BY <1>0, <1>7 DEF vars
<1> QED BY <1>1, <1>2, <1>3, <1>4, <1>5, <1>6, <1>7 DEF Next

(* An address counts as verified only if validateEmail was called while the    *)
(* account had it (user.ts changeEmail, validateEmail), provided that callers  *)
(* pass a token.                                                               *)
THEOREM VerifiedEmailCorrect ==
  ASSUME Blank \notin Tokens
  PROVE  Spec => []VerifiedEmailWasConfirmed
<1>1. Init => VerifiedInv
  <2>1. Init => StoredEmailWasConfirmed /\ VerifiedEmailWasConfirmed
    BY DEF Init, StoredEmailWasConfirmed, VerifiedEmailWasConfirmed
  <2> QED BY <2>1, DeletionInit DEF VerifiedInv
<1>2. VerifiedInv /\ [Next]_vars => VerifiedInv'
  BY VerifiedStep, DeletionStep DEF VerifiedInv
<1>3. VerifiedInv => VerifiedEmailWasConfirmed
  BY DEF VerifiedInv
<1> QED BY <1>1, <1>2, <1>3, PTL DEF Spec

-----------------------------------------------------------------------------
(* What the constructors check holds of every object the methods leave, the    *)
(* ones that threw half-way included, so the row can be read again.            *)
Acceptable(u) == ValidNames(u.profile.names) /\ ValidToken(u.verification.token)

AcceptedInv ==
  /\ DeletionInv
  /\ user # Null => Acceptable(user)
  /\ outcome.method = "toJSON" => user # Null /\ row = FromDomainToDatabase(user)

LEMMA UpdateAcceptable ==
  ASSUME AcceptedInv, NEW method \in Methods \ {"toJSON"}, NEW callbackThrows,
         NEW partial, NEW complete,
         user # Null => partial.profile.names = user.profile.names
                        /\ partial.verification = user.verification,
         user # Null /\ ~callbackThrows => complete \in User /\ Acceptable(complete),
         Update(method, callbackThrows, partial, complete)
  PROVE  user' # Null => Acceptable(user') /\ outcome'.method # "toJSON"
<1>1. user # Null /\ Acceptable(user)
  BY DEF Update, AcceptedInv
<1>2. outcome'.method = method
  BY DEF Update, Returns, Throws
<1>3. CASE user' = user \/ user' = partial
  BY <1>1, <1>2, <1>3 DEF Acceptable
<1>4. CASE ~callbackThrows /\ user' = [complete EXCEPT !.updated = TRUE]
  <2>1. complete \in User /\ Acceptable(complete)
    BY <1>1, <1>4
  <2>2. user'.profile = complete.profile /\ user'.verification = complete.verification
    BY <1>4, <2>1 DEF User
  <2> QED BY <1>2, <2>1, <2>2 DEF Acceptable
<1> QED BY <1>3, <1>4 DEF Update

LEMMA AcceptedStep ==
  ASSUME AcceptedInv, [Next]_vars
  PROVE  /\ user' # Null => Acceptable(user')
         /\ outcome'.method = "toJSON" => user' # Null /\ row' = FromDomainToDatabase(user')
<1>0. /\ DeletionInv /\ user \in User \cup {Null} /\ row \in Row \cup {Null}
      /\ user # Null => Acceptable(user)
      /\ outcome.method = "toJSON" => user # Null /\ row = FromDomainToDatabase(user)
  BY DEF AcceptedInv, DeletionInv, TypeOK
<1> DEFINE Goal == /\ user' # Null => Acceptable(user')
                   /\ outcome'.method = "toJSON" =>
                        user' # Null /\ row' = FromDomainToDatabase(user')
<1> SUFFICES Goal
  OBVIOUS
<1>1. ASSUME NEW email \in Emails, NEW password \in Passwords, NEW token \in Tokens,
             NEW names \in [Fields -> Names \cup {Blank}],
             Create(email, password, names, token)
      PROVE  Goal
  <2>1. outcome'.method = "create"
    BY <1>1 DEF Create, Returns, Throws
  <2>2. CASE ValidNames(names) /\ ValidToken(token)
    <3>1. user'.profile.names = names /\ user'.verification.token = token
      BY <1>1, <2>2 DEF Create
    <3> QED BY <2>1, <2>2, <3>1 DEF Acceptable
  <2>3. CASE ~(ValidNames(names) /\ ValidToken(token))
    BY <1>0, <1>1, <2>1, <2>3 DEF Create
  <2> QED BY <2>2, <2>3
<1>m. ASSUME NEW method \in Methods \ {"toJSON"}, NEW callbackThrows,
             NEW partial, NEW complete,
             user # Null => partial.profile.names = user.profile.names
                            /\ partial.verification = user.verification,
             user # Null /\ ~callbackThrows => complete \in User /\ Acceptable(complete),
             Update(method, callbackThrows, partial, complete)
      PROVE  Goal
  <2>1. outcome'.method = method
    BY <1>m DEF Update, Returns, Throws
  <2>2. user' # Null => Acceptable(user')
    BY <1>m, UpdateAcceptable
  <2> QED BY <2>1, <2>2
<1>2. ASSUME NEW email \in Emails, NEW token \in Tokens, ChangeEmail(email, token)
      PROVE  Goal
  <2> DEFINE partial == [user EXCEPT !.email = email]
             complete == [user EXCEPT !.email = email,
                            !.verification = [token |-> token, status |-> "PENDING"]]
  <2>1. user # Null =>
          /\ partial.profile.names = user.profile.names
          /\ partial.verification = user.verification
          /\ complete \in User /\ complete.profile = user.profile
          /\ complete.verification.token = token
    BY <1>0 DEF User
  <2>2. Update("changeEmail", ~ValidToken(token), partial, complete)
    BY <1>2 DEF ChangeEmail
  <2> HIDE DEF partial, complete
  <2>3. user # Null /\ ValidToken(token) => complete \in User /\ Acceptable(complete)
    BY <1>0, <2>1 DEF Acceptable
  <2> HIDE DEF Goal
  <2> QED BY <1>m, <2>1, <2>2, <2>3 DEF Methods
<1>3. CASE ValidateEmail
  <2> DEFINE complete == [user EXCEPT !.verification.status = "VERIFIED"]
  <2>1. user # Null => complete \in User /\ complete.profile = user.profile
                         /\ complete.verification.token = user.verification.token
    BY <1>0 DEF User
  <2>2. Update("validateEmail", FALSE, user, complete)
    BY <1>3 DEF ValidateEmail
  <2> HIDE DEF complete
  <2>3. user # Null => complete \in User /\ Acceptable(complete)
    BY <1>0, <2>1 DEF Acceptable
  <2> HIDE DEF Goal
  <2> QED BY <1>m, <2>2, <2>3 DEF Methods
<1>4. ASSUME NEW token \in Tokens, ResetPassword(token) PROVE Goal
  <2> DEFINE complete == [user EXCEPT !.reset = [token |-> token, status |-> "ACTIVE"]]
  <2>1. user # Null => complete \in User /\ complete.profile = user.profile
                         /\ complete.verification = user.verification
    BY <1>0 DEF User
  <2>2. Update("resetPassword", FALSE, user, complete)
    BY <1>4 DEF ResetPassword
  <2> HIDE DEF complete
  <2>3. user # Null => complete \in User /\ Acceptable(complete)
    BY <1>0, <2>1 DEF Acceptable
  <2> HIDE DEF Goal
  <2> QED BY <1>m, <2>2, <2>3 DEF Methods
<1>5. ASSUME NEW password \in Passwords, ChangePassword(password) PROVE Goal
  <2> DEFINE complete == [user EXCEPT !.password = password]
  <2>1. user # Null => complete \in User /\ complete.profile = user.profile
                         /\ complete.verification = user.verification
    BY <1>0 DEF User
  <2>2. Update("changePassword", FALSE, user, complete)
    BY <1>5 DEF ChangePassword
  <2> HIDE DEF complete
  <2>3. user # Null => complete \in User /\ Acceptable(complete)
    BY <1>0, <2>1 DEF Acceptable
  <2> HIDE DEF Goal
  <2> QED BY <1>m, <2>2, <2>3 DEF Methods
<1>6. ASSUME NEW given \in [Fields -> Names \cup {Blank}], ChangeProfile(given)
      PROVE  Goal
  <2> DEFINE names == [f \in Fields |-> IF given[f] = Blank THEN user.profile.names[f]
                                        ELSE given[f]]
             complete == [user EXCEPT
                            !.profile.names =
                              [f \in Fields |-> IF given[f] = Blank THEN @[f] ELSE given[f]],
                            !.profile.updated = TRUE]
  <2>1. user # Null => complete \in User /\ complete.profile.names = names
                         /\ complete.verification = user.verification
    BY <1>0 DEF User
  <2>2. user # Null => ValidNames(names)
    BY <1>0 DEF Acceptable, ValidNames, Fields
  <2>3. Update("changeProfile", user.profile.deleted, user, complete)
    BY <1>6 DEF ChangeProfile
  <2> HIDE DEF complete
  <2>4. user # Null => complete \in User /\ Acceptable(complete)
    BY <1>0, <2>1, <2>2 DEF Acceptable
  <2> HIDE DEF Goal
  <2> QED BY <1>m, <2>3, <2>4 DEF Methods
<1>7. ASSUME NEW status \in Statuses, TransitionStatus(status) PROVE Goal
  <2>1. CASE Throws("transitionStatus") /\ UNCHANGED <<user, row>>
    BY <1>0, <2>1 DEF Throws
  <2>2. CASE Update("transitionStatus", FALSE, user, [user EXCEPT !.status = status])
    <3> DEFINE complete == [user EXCEPT !.status = status]
    <3>1. user # Null => complete \in User /\ complete.profile = user.profile
                           /\ complete.verification = user.verification
      BY <1>0 DEF User
    <3>2. Update("transitionStatus", FALSE, user, complete)
      BY <2>2
    <3> HIDE DEF complete
    <3>3. user # Null => complete \in User /\ Acceptable(complete)
      BY <1>0, <3>1 DEF Acceptable
    <3> HIDE DEF Goal
    <3> QED BY <1>m, <3>2, <3>3 DEF Methods
  <2> QED BY <1>7, <2>1, <2>2 DEF TransitionStatus
<1>8. CASE Delete
  <2> DEFINE partial == [user EXCEPT !.deleted = TRUE]
             complete == [user EXCEPT !.deleted = TRUE, !.profile.deleted = TRUE,
                                      !.profile.updated = TRUE]
  <2>1. user # Null =>
          /\ partial.profile.names = user.profile.names
          /\ partial.verification = user.verification
          /\ complete \in User /\ complete.profile.names = user.profile.names
          /\ complete.verification = user.verification
    BY <1>0 DEF User
  <2>2. Update("delete", user.profile.deleted, partial, complete)
    BY <1>8 DEF Delete
  <2> HIDE DEF partial, complete
  <2>3. user # Null => complete \in User /\ Acceptable(complete)
    BY <1>0, <2>1 DEF Acceptable
  <2> HIDE DEF Goal
  <2> QED BY <1>m, <2>1, <2>2, <2>3 DEF Methods
<1>9. CASE Store
  BY <1>0, <1>9 DEF Store
<1>10. CASE Load
  <2>1. outcome'.method = "FromDatabaseToDomain"
    BY <1>10 DEF Load, Returns, Throws
  <2>2. CASE Reconstructs(row)
    <3>1. user' = FromDatabaseToDomain(row)
      BY <1>10, <2>2 DEF Load
    <3> QED BY <2>1, <2>2, <3>1 DEF Reconstructs, FromDatabaseToDomain, Acceptable
  <2>3. CASE ~Reconstructs(row)
    BY <1>0, <1>10, <2>1, <2>3 DEF Load
  <2> QED BY <2>2, <2>3
<1>11. CASE UNCHANGED vars
  BY <1>0, <1>11 DEF vars
<1> HIDE DEF Goal
<1> QED BY <1>1, <1>2, <1>3, <1>4, <1>5, <1>6, <1>7, <1>8, <1>9, <1>10, <1>11 DEF Next

(* Whatever sequence of methods, failed ones too, led to an object, what       *)
(* toJSON writes of it can be read back and is the same object (user.mapper).  *)
THEOREM RoundTripCorrect == Spec => []RoundTrip
<1>1. Init => AcceptedInv
  BY DeletionInit DEF AcceptedInv, Init
<1>2. AcceptedInv /\ [Next]_vars => AcceptedInv'
  BY AcceptedStep, DeletionStep DEF AcceptedInv
<1>3. AcceptedInv => RoundTrip
  <2> SUFFICES ASSUME AcceptedInv, outcome.method = "toJSON"
               PROVE  Reconstructs(row) /\ FromDatabaseToDomain(row) = user
    BY DEF RoundTrip
  <2>1. user \in User /\ Acceptable(user) /\ row = FromDomainToDatabase(user)
    BY DEF AcceptedInv, DeletionInv, TypeOK
  <2>2. user.verification # Null
    BY <2>1, MarkersOutside DEF User
  <2> QED BY <2>1, <2>2
       DEF Acceptable, Reconstructs, FromDomainToDatabase, FromDatabaseToDomain, User
<1> QED BY <1>1, <1>2, <1>3, PTL DEF Spec

-----------------------------------------------------------------------------
(* A method that throws leaves the object as it was (user.ts update, delete),  *)
(* provided that callers pass a token.                                         *)
THEOREM FailureKeepsUserCorrect ==
  ASSUME Blank \notin Tokens
  PROVE  Spec => FailureKeepsUser
<1>1. ASSUME DeletionInv, [Next]_vars, outcome'.threw PROVE user' = user \/ UNCHANGED vars
  <2>0. user \in User \cup {Null} /\ DeletedTogether
    BY <1>1 DEF DeletionInv, TypeOK
  <2>1. ASSUME NEW method, NEW throws, NEW partial, NEW complete,
               Update(method, throws, partial, complete),
               ~user.deleted => ~throws \/ partial = user
        PROVE  user' = user
    BY <1>1, <2>1 DEF Update, Returns, Throws
  <2>2. ASSUME NEW email \in Emails, NEW token \in Tokens, ChangeEmail(email, token)
        PROVE  user' = user
    BY <2>1, <2>2 DEF ChangeEmail, ValidToken
  <2>3. CASE Delete
    <3>1. user # Null
      BY <2>3 DEF Delete, Update
    <3>2. ~user.deleted => ~user.profile.deleted
      BY <2>0, <3>1 DEF DeletedTogether, User
    <3> QED BY <2>1, <2>3, <3>2 DEF Delete
  <2>4. CASE \/ ValidateEmail
             \/ \E token \in Tokens : ResetPassword(token)
             \/ \E password \in Passwords : ChangePassword(password)
             \/ \E given \in [Fields -> Names \cup {Blank}] : ChangeProfile(given)
             \/ \E status \in Statuses : TransitionStatus(status)
    <3>1. CASE ValidateEmail
      BY <2>1, <3>1 DEF ValidateEmail
    <3>2. ASSUME NEW token \in Tokens, ResetPassword(token) PROVE user' = user
      BY <2>1, <3>2 DEF ResetPassword
    <3>3. ASSUME NEW password \in Passwords, ChangePassword(password) PROVE user' = user
      BY <2>1, <3>3 DEF ChangePassword
    <3>4. ASSUME NEW given \in [Fields -> Names \cup {Blank}], ChangeProfile(given)
          PROVE  user' = user
      BY <2>1, <3>4 DEF ChangeProfile
    <3>5. ASSUME NEW status \in Statuses, TransitionStatus(status) PROVE user' = user
      BY <2>1, <3>5 DEF TransitionStatus
    <3> QED BY <2>4, <3>1, <3>2, <3>3, <3>4, <3>5
  <2>5. CASE \E email \in Emails, password \in Passwords, token \in Tokens,
                names \in [Fields -> Names \cup {Blank}] : Create(email, password, names, token)
    BY <1>1, <2>5 DEF Create, Returns
  <2>6. CASE Store
    BY <2>6 DEF Store
  <2>7. CASE Load
    BY <1>1, <2>7 DEF Load, Returns
  <2> QED BY <1>1, <2>2, <2>3, <2>4, <2>5, <2>6, <2>7 DEF Next
<1>2. DeletionInv /\ [Next]_vars => [outcome'.threw => user' = user]_vars
  BY <1>1 DEF vars
<1> QED BY <1>2, DeletionInvariant, PTL DEF Spec, FailureKeepsUser
=============================================================================
