---------------------------- MODULE IdentityProofs --------------------------
(***************************************************************************)
(* What holds of the requests and the users table for any number of         *)
(* requests, whatever they ask for, however queries fail, however often the *)
(* process stops and whatever others do to the table meanwhile: types and   *)
(* unique addresses first; then that what a request is answered is          *)
(* justified by the account it acted for, and that registering is an atomic *)
(* claim of an address.                                                     *)
(***************************************************************************)
EXTENDS IdentityService, SequenceTheorems, TLAPS

(* A request that goes on to a query has passed the validation pipe, and one   *)
(* that goes on with an account or a context has found it.                     *)
Prepared(state) ==
  /\ state.step \in {"find", "save"} => state.call \in Calls /\ state.call.valid
  /\ state.step = "signIn" => state.found.userId \in UserIds

TypeInv == TypeOK /\ \A r \in Requests : Prepared(request[r])

Inv == TypeInv /\ UniqueEmail

USE DEF Statuses, Steps, Ended

-----------------------------------------------------------------------------
(* handleException answers one of four statuses. *)
LEMMA HandleExceptionTyped ==
  \A exception \in Thrown, logWorks \in BOOLEAN :
    HandleException(exception, logWorks) \in {400, 401, 403, 500}
BY DEF HandleException, OwnStatus, OwnExceptions, UnknownExceptionStatus, Thrown

(* RoleDefinition.rank is defined for every role. *)
LEMMA RankTyped == \A role \in UserRoles : RankOf[role] \in Ranks
BY DEF RankOf, Ranks, UserRoles

(* An accepted registration makes a complete row. *)
LEMMA NewAccountTyped ==
  ASSUME NEW call \in Calls, call.valid PROVE NewAccount(call) \in Account
BY CallsTyped, RankTyped DEF NewAccount, Account, DefaultRole, UserRoles

(* The context is built from a row of the table. *)
LEMMA ContextTyped ==
  ASSUME TypeOK, NEW id \in Present PROVE ContextOf(id) \in UserContexts
<1>1. id \in UserIds /\ users[id] \in Account
  BY DEF TypeOK, Present
<1> QED BY <1>1 DEF ContextOf, UserContexts, Account

(* RequestState, field by field, with nothing known of the fields. *)
LEMMA RecordUpdates ==
  ASSUME NEW A, NEW B, NEW C, NEW D, NEW E, NEW F,
         NEW state \in [step: A, call: B, ctx: C, found: D, audit: E, status: F],
         NEW a \in A, NEW b \in B, NEW c \in C, NEW d \in D, NEW e \in E, NEW f \in F
  PROVE  /\ [state EXCEPT !.step = a]
              \in [step: A, call: B, ctx: C, found: D, audit: E, status: F]
         /\ [state EXCEPT !.step = a, !.status = f]
              \in [step: A, call: B, ctx: C, found: D, audit: E, status: F]
         /\ [state EXCEPT !.step = a, !.found = d]
              \in [step: A, call: B, ctx: C, found: D, audit: E, status: F]
         /\ [state EXCEPT !.step = a, !.ctx = c]
              \in [step: A, call: B, ctx: C, found: D, audit: E, status: F]
         /\ [state EXCEPT !.call = b, !.step = a]
              \in [step: A, call: B, ctx: C, found: D, audit: E, status: F]
         /\ [state EXCEPT !.audit = e]
              \in [step: A, call: B, ctx: C, found: D, audit: E, status: F]
OBVIOUS

Replies == {0, 200, 201, 400, 401, 403, 500}
Entries == [method: {"hasPermission", "can"}, result: {"allow", "deny"}]
Finds == [userId: UserIds \cup {Absent}, password: Passwords \cup {Absent}]

(* The updates that the steps make keep a request what it is. *)
LEMMA StateUpdates ==
  ASSUME NEW state \in RequestState, NEW step \in Steps
  PROVE  /\ [state EXCEPT !.step = step] \in RequestState
         /\ \A status \in Replies :
              [state EXCEPT !.step = step, !.status = status] \in RequestState
         /\ \A found \in Finds : [state EXCEPT !.step = step, !.found = found] \in RequestState
         /\ \A ctx \in UserContexts : [state EXCEPT !.step = step, !.ctx = ctx] \in RequestState
         /\ \A call \in Calls : [state EXCEPT !.call = call, !.step = step] \in RequestState
         /\ \A audit \in Seq(Entries) : [state EXCEPT !.audit = audit] \in RequestState
<1> DEFINE S == Steps
           B == Calls \cup {NoCall}
           C == UserContexts \cup {NoContext}
           G == Seq(Entries)
<1>1. RequestState = [step: S, call: B, ctx: C, found: Finds, audit: G, status: Replies]
  BY DEF RequestState, Finds, Entries, Replies
<1>2. /\ UserContexts \subseteq C
      /\ Calls \subseteq B
      /\ step \in S
  OBVIOUS
<1> HIDE DEF S, B, C, G
<1>3. /\ state.call \in B /\ state.ctx \in C /\ state.found \in Finds
      /\ state.audit \in G /\ state.status \in Replies
  BY <1>1
<1>4. [state EXCEPT !.step = step] \in RequestState
  BY <1>1, <1>2, <1>3, RecordUpdates
<1>5. \A status \in Replies : [state EXCEPT !.step = step, !.status = status] \in RequestState
  BY <1>1, <1>2, <1>3, RecordUpdates
<1>6. \A found \in Finds : [state EXCEPT !.step = step, !.found = found] \in RequestState
  BY <1>1, <1>2, <1>3, RecordUpdates
<1>7. \A ctx \in UserContexts : [state EXCEPT !.step = step, !.ctx = ctx] \in RequestState
  BY <1>1, <1>2, <1>3, RecordUpdates
<1>8. \A call \in Calls : [state EXCEPT !.call = call, !.step = step] \in RequestState
  BY <1>1, <1>2, <1>3, RecordUpdates
<1>9. \A audit \in G : [state EXCEPT !.audit = audit] \in RequestState
  BY <1>1, <1>2, <1>3, RecordUpdates
<1> QED BY <1>4, <1>5, <1>6, <1>7, <1>8, <1>9 DEF G

-----------------------------------------------------------------------------
(* How a step ends, whatever the step. *)
Moved ==
  /\ request' \in [Requests -> RequestState]
  /\ \A q \in Requests : Prepared(request[q])'

(* A request that moves to a prepared state keeps every request prepared. *)
LEMMA BecomesMoves ==
  ASSUME TypeInv, NEW r \in Requests, NEW state \in RequestState, Prepared(state),
         Becomes(r, state)
  PROVE  Moved
<1>1. request \in [Requests -> RequestState]
  BY DEF TypeInv, TypeOK
<1>2. request' = [request EXCEPT ![r] = state]
  BY DEF Becomes
<1>3. request' \in [Requests -> RequestState]
  BY <1>1, <1>2
<1>4. ASSUME NEW q \in Requests PROVE Prepared(request[q])'
  <2>1. request'[q] = IF q = r THEN state ELSE request[q]
    BY <1>1, <1>2
  <2> QED BY <2>1 DEF Prepared, TypeInv
<1> QED BY <1>3, <1>4 DEF Moved

(* A request that throws, and one that is answered, is done. *)
LEMMA AnswersMoves ==
  ASSUME TypeInv, NEW r \in Requests, NEW state \in RequestState, NEW status \in Replies,
         Answers(r, state, status)
  PROVE  Moved
<1> DEFINE new == [state EXCEPT !.step = "done", !.status = status]
<1>1. new \in RequestState
  BY StateUpdates
<1>2. new.step = "done"
  BY DEF RequestState
<1>3. Prepared(new)
  <2> HIDE DEF new
  <2> QED BY <1>2 DEF Prepared
<1>4. Becomes(r, new)
  BY DEF Answers
<1> HIDE DEF new
<1> QED BY <1>1, <1>3, <1>4, BecomesMoves

LEMMA ThrowsAsMoves ==
  ASSUME TypeInv, NEW r \in Requests, NEW state \in RequestState, NEW exception \in Thrown,
         ThrowsAs(r, state, exception)
  PROVE  Moved
<1>1. PICK logWorks \in LogWorks : Answers(r, state, HandleException(exception, logWorks))
  BY DEF ThrowsAs
<1>2. logWorks \in BOOLEAN
  BY BoundsTyped
<1>3. HandleException(exception, logWorks) \in Replies
  BY <1>2, HandleExceptionTyped DEF Replies
<1> QED BY <1>1, <1>3, AnswersMoves

LEMMA ThrowsMoves ==
  ASSUME TypeInv, NEW r \in Requests, NEW exception \in Thrown, Throws(r, exception)
  PROVE  Moved
<1>1. request[r] \in RequestState
  BY DEF TypeInv, TypeOK
<1> QED BY <1>1, ThrowsAsMoves DEF Throws

LEMMA CallFailsMoves ==
  ASSUME TypeInv, NEW r \in Requests, CallFails(r) PROVE Moved
BY ThrowsMoves DEF CallFails, Thrown, OtherErrors

-----------------------------------------------------------------------------
(* The steps that touch nothing but the request keep the invariant. *)
LEMMA MovedAlone ==
  ASSUME Inv, Moved, UNCHANGED <<up, table, history>> PROVE Inv'
BY DEF Inv, TypeInv, TypeOK, Moved, table, history, UniqueEmail, Present

LEMMA GoesMoves ==
  ASSUME TypeInv, NEW r \in Requests, NEW step \in Steps, Goes(r, step),
         step \in {"find", "save"} => request[r].call \in Calls /\ request[r].call.valid,
         step # "signIn"
  PROVE  Moved
<1> DEFINE new == [request[r] EXCEPT !.step = step]
<1>1. request[r] \in RequestState
  BY DEF TypeInv, TypeOK
<1>2. new \in RequestState
  BY <1>1, StateUpdates
<1>3. new.step = step /\ new.call = request[r].call
  BY <1>1 DEF RequestState
<1>4. Becomes(r, new)
  BY DEF Goes
<1> HIDE DEF new
<1>5. Prepared(new)
  BY <1>3 DEF Prepared
<1> QED BY <1>2, <1>4, <1>5, BecomesMoves

LEMMA AuditedMoves ==
  ASSUME Inv, NEW r \in Requests, NEW method \in {"hasPermission", "can"}, NEW allowed,
         NEW next \in RequestState, next.step \in {"read", "done"},
         Audited(r, method, allowed, next)
  PROVE  Moved
<1> DEFINE entry == AuditEntry(method, allowed)
           logged(new) == [new EXCEPT !.audit = Append(@, entry)]
<1>1. entry \in Entries
  BY DEF AuditEntry, Entries
<1>2. request[r] \in RequestState /\ TypeInv
  BY DEF Inv, TypeInv, TypeOK
<1>3. ASSUME NEW new \in RequestState PROVE logged(new) \in RequestState
  <2>1. new.audit \in Seq(Entries)
    BY DEF RequestState, Entries
  <2> HIDE DEF entry
  <2>2. Append(new.audit, entry) \in Seq(Entries)
    BY <1>1, <2>1
  <2>3. logged(new) = [new EXCEPT !.audit = Append(new.audit, entry)]
    BY DEF RequestState
  <2> QED BY <2>2, <2>3, StateUpdates DEF Steps
<1>4. logged(next).step = next.step
  BY DEF RequestState
<1>5. \/ Throws(r, "Error")
      \/ Becomes(r, logged(next))
      \/ ThrowsAs(r, logged(request[r]), "AuthZException")
  BY DEF Audited
<1> HIDE DEF logged
<1>6. Prepared(logged(next))
  BY <1>4 DEF Prepared
<1>7. {"Error", "AuthZException"} \subseteq Thrown
  BY DEF Thrown, OtherErrors, OwnExceptions
<1>a. CASE Throws(r, "Error")
  BY <1>a, <1>2, <1>7, ThrowsMoves
<1>b. CASE Becomes(r, logged(next))
  BY <1>b, <1>2, <1>3, <1>6, BecomesMoves
<1>c. CASE ThrowsAs(r, logged(request[r]), "AuthZException")
  BY <1>c, <1>2, <1>3, <1>7, ThrowsAsMoves
<1> QED BY <1>5, <1>a, <1>b, <1>c

-----------------------------------------------------------------------------
(* One lemma per action. *)
LEMMA ArriveKeeps ==
  ASSUME Inv, NEW r \in Requests, NEW call \in Calls, Arrive(r, call) PROVE Inv'
<1> DEFINE step == IF call.token = NoToken THEN "enter" ELSE "verify"
           new == [request[r] EXCEPT !.call = call, !.step = step]
<1>1. request[r] \in RequestState /\ TypeInv
  BY DEF Inv, TypeInv, TypeOK
<1>2. step \in Steps /\ step \in {"enter", "verify"}
  OBVIOUS
<1>3. Becomes(r, new)
  BY DEF Arrive
<1>4. new.step = step
  BY <1>1 DEF RequestState
<1> HIDE DEF step
<1>5. new \in RequestState
  BY <1>1, <1>2, StateUpdates
<1> HIDE DEF new
<1>6. Prepared(new)
  BY <1>2, <1>4 DEF Prepared
<1>7. Moved
  BY <1>1, <1>3, <1>5, <1>6, BecomesMoves
<1>8. [active |-> ActiveAccounts, changed |-> {}] \in [active: SUBSET UserIds, changed: SUBSET UserIds]
  BY DEF ActiveAccounts, Present
<1>9. seen' \in [Requests -> [active: SUBSET UserIds, changed: SUBSET UserIds]]
  BY <1>8 DEF Arrive, Inv, TypeInv, TypeOK
<1>10. UNCHANGED <<up, users, tokens, changes, committed>>
  BY DEF Arrive, table
<1> QED BY <1>7, <1>9, <1>10 DEF Inv, TypeInv, TypeOK, Moved, UniqueEmail, Present

LEMMA VerifyKeeps ==
  ASSUME Inv, NEW r \in Requests, Verify(r) PROVE Inv'
<1>1. TypeInv
  BY DEF Inv
<1>2. Goes(r, "loadUser") \/ Throws(r, "JsonWebTokenError")
  BY DEF Verify
<1>3. Moved
  BY <1>1, <1>2, GoesMoves, ThrowsMoves DEF Thrown, OtherErrors
<1> QED BY <1>3, MovedAlone DEF Verify

LEMMA LoadUserKeeps ==
  ASSUME Inv, NEW r \in Requests, LoadUser(r) PROVE Inv'
<1> DEFINE id == request[r].call.token
           new == [request[r] EXCEPT !.step = "enter", !.ctx = ContextOf(id)]
<1> SUFFICES Moved
  BY MovedAlone DEF LoadUser
<1>1. TypeInv /\ TypeOK /\ request[r] \in RequestState
  BY DEF Inv, TypeInv, TypeOK
<1>2. CASE id \in Present /\ Becomes(r, new)
  <2>1. ContextOf(id) \in UserContexts
    BY <1>1, <1>2, ContextTyped
  <2>2. new \in RequestState
    BY <1>1, <2>1, StateUpdates
  <2>3. new.step = "enter"
    BY <1>1 DEF RequestState
  <2>4. Becomes(r, new)
    BY <1>2
  <2> HIDE DEF new
  <2>5. Prepared(new)
    BY <2>3 DEF Prepared
  <2> QED BY <1>1, <2>2, <2>4, <2>5, BecomesMoves
<1>3. CASE Goes(r, "enter")
  BY <1>1, <1>3, GoesMoves
<1>4. CASE CallFails(r)
  BY <1>1, <1>4, CallFailsMoves
<1> QED BY <1>2, <1>3, <1>4 DEF LoadUser

LEMMA EnterKeeps ==
  ASSUME Inv, NEW r \in Requests,
         RefuseAnonymous(r) \/ EnterHelloPost(r) \/ ValidateBody(r)
  PROVE  Inv'
<1>1. TypeInv /\ request[r] \in RequestState
  BY DEF Inv, TypeInv, TypeOK
<1>2. {"AuthNException", "Error", "ValidationException"} \subseteq Thrown
  BY DEF Thrown, OwnExceptions, OtherErrors
<1>3. CASE RefuseAnonymous(r)
  <2>1. Moved
    BY <1>1, <1>2, <1>3, ThrowsMoves DEF RefuseAnonymous
  <2> QED BY <1>3, <2>1, MovedAlone DEF RefuseAnonymous
<1>4. CASE EnterHelloPost(r)
  <2>1. Throws(r, "Error") \/ Goes(r, "read")
    BY <1>4 DEF EnterHelloPost
  <2>2. Moved
    BY <1>1, <1>2, <2>1, ThrowsMoves, GoesMoves
  <2> QED BY <1>4, <2>2, MovedAlone DEF EnterHelloPost
<1>5. CASE ValidateBody(r)
  <2>1. \/ request[r].call.valid /\ Goes(r, "find")
        \/ Throws(r, "ValidationException")
    BY <1>5 DEF ValidateBody
  <2>2. request[r].call.route # Absent => request[r].call \in Calls
    BY <1>1 DEF RequestState, NoCall
  <2>3. request[r].call.valid => request[r].call \in Calls
    <3>1. request[r].call \in Calls \cup {NoCall}
      BY <1>1 DEF RequestState
    <3>2. NoCall.valid = FALSE
      BY DEF NoCall
    <3> QED BY <3>1, <3>2
  <2>4. Moved
    BY <1>1, <1>2, <2>1, <2>3, ThrowsMoves, GoesMoves
  <2> QED BY <1>5, <2>4, MovedAlone DEF ValidateBody
<1> QED BY <1>3, <1>4, <1>5

LEMMA CheckPermissionKeeps ==
  ASSUME Inv, NEW r \in Requests, CheckPermission(r) PROVE Inv'
<1> DEFINE next == [request[r] EXCEPT !.step = "read"]
           allowed == HasPermission(UserRegistry, request[r].ctx, "USER", "READ", {})
<1>1. request[r] \in RequestState
  BY DEF Inv, TypeInv, TypeOK
<1>2. next \in RequestState
  BY <1>1, StateUpdates
<1>3. next.step = "read"
  BY <1>1 DEF RequestState
<1>4. Audited(r, "hasPermission", allowed, next)
  BY DEF CheckPermission
<1> HIDE DEF next, allowed
<1>5. Moved
  BY <1>2, <1>3, <1>4, AuditedMoves
<1> QED BY <1>5, MovedAlone DEF CheckPermission

LEMMA FindExistingKeeps ==
  ASSUME Inv, NEW r \in Requests, FindExisting(r) PROVE Inv'
<1>1. TypeInv /\ Prepared(request[r])
  BY DEF Inv, TypeInv
<1>2. request[r].call \in Calls /\ request[r].call.valid
  BY <1>1 DEF Prepared, FindExisting, At
<1>3. Throws(r, "HttpException") \/ Goes(r, "save") \/ CallFails(r)
  BY DEF FindExisting
<1>4. Moved
  BY <1>1, <1>2, <1>3, ThrowsMoves, GoesMoves, CallFailsMoves DEF Thrown, OtherErrors
<1> QED BY <1>4, MovedAlone DEF FindExisting

(* The unique index: a row is inserted only while nobody holds its address. *)
LEMMA SaveKeeps ==
  ASSUME Inv, NEW r \in Requests, Save(r) PROVE Inv'
<1>1. TypeInv /\ TypeOK /\ Prepared(request[r])
  BY DEF Inv, TypeInv
<1>2. request[r].call \in Calls /\ request[r].call.valid
  BY <1>1 DEF Prepared, Save, At
<1>3. Moved
  <2>1. Throws(r, "QueryFailedError") \/ Goes(r, "respond") \/ CallFails(r)
    BY DEF Save
  <2> QED BY <1>1, <2>1, ThrowsMoves, GoesMoves, CallFailsMoves DEF Thrown, OtherErrors
<1>4. UNCHANGED <<up, tokens, changes, seen>>
  BY DEF Save
<1>5. CASE UNCHANGED <<users, committed>>
  <2>1. UNCHANGED <<up, table, history>>
    BY <1>4, <1>5 DEF table, history
  <2> QED BY <1>3, <2>1, MovedAlone
<1>6. CASE Holders(request[r].call.email) = {} /\ Inserts(r)
  <2> DEFINE row == NewAccount(request[r].call)
  <2>1. row \in Account /\ row.email = request[r].call.email
    BY <1>2, NewAccountTyped DEF NewAccount
  <2> HIDE DEF row
  <2>2. users' = [users EXCEPT ![r] = row] /\ committed' = committed \cup {r}
    BY <1>6 DEF Inserts, row
  <2>3. r \in UserIds
    BY RequestsAreIds
  <2>4. TypeOK'
    BY <1>1, <1>3, <1>4, <2>1, <2>2, <2>3 DEF TypeOK, Moved
  <2>5. \A id \in Present' : id = r \/ (id \in Present /\ users'[id] = users[id])
    BY <1>1, <2>2, <2>3 DEF Present, TypeOK
  <2>6. users'[r] = row
    BY <1>1, <2>2, <2>3 DEF TypeOK
  <2>7. \A id \in Present : users[id].email # row.email
    BY <1>6, <2>1 DEF Holders
  <2>8. UniqueEmail'
    BY <2>5, <2>6, <2>7 DEF Inv, UniqueEmail
  <2> QED BY <1>3, <2>4, <2>8 DEF Inv, TypeInv, Moved
<1> QED BY <1>5, <1>6 DEF Save

LEMMA RespondKeeps ==
  ASSUME Inv, NEW r \in Requests, Respond(r) PROVE Inv'
<1>1. TypeInv /\ request[r] \in RequestState
  BY DEF Inv, TypeInv, TypeOK
<1>2. Moved
  BY <1>1, AnswersMoves DEF Respond, Replies
<1> QED BY <1>2, MovedAlone DEF Respond

LEMMA FindAccountKeeps ==
  ASSUME Inv, NEW r \in Requests, FindAccount(r) PROVE Inv'
<1> DEFINE found(id) == [userId |-> id, password |-> users[id].password]
           new(id) == [request[r] EXCEPT !.step = "signIn", !.found = found(id)]
<1> SUFFICES Moved
  BY MovedAlone DEF FindAccount
<1>1. TypeInv /\ TypeOK /\ request[r] \in RequestState
  BY DEF Inv, TypeInv, TypeOK
<1>2. ASSUME NEW id \in Holders(request[r].call.email) \cap ActiveAccounts,
             Becomes(r, new(id))
      PROVE  Moved
  <2>1. id \in UserIds /\ users[id] \in Account
    BY <1>1 DEF ActiveAccounts, Present, TypeOK
  <2>2. found(id) \in Finds
    BY <2>1 DEF Finds, Account
  <2>3. new(id) \in RequestState
    BY <1>1, <2>2, StateUpdates
  <2>4. new(id).step = "signIn" /\ new(id).found.userId = id
    BY <1>1 DEF RequestState
  <2> HIDE DEF new
  <2>5. Prepared(new(id))
    BY <2>1, <2>4 DEF Prepared
  <2> QED BY <1>1, <1>2, <2>3, <2>5, BecomesMoves
<1>3. CASE Throws(r, "HttpException")
  BY <1>1, <1>3, ThrowsMoves DEF Thrown, OtherErrors
<1>4. CASE CallFails(r)
  BY <1>1, <1>4, CallFailsMoves
<1> QED BY <1>2, <1>3, <1>4 DEF FindAccount

(* What a granted request may still be answered when others made the row. *)
LEMMA GrantedTyped ==
  /\ \A id, status : status \in GrantedStatuses(id) => status \in {200, 400, 401, 500}
  /\ \A id, status : status \in GrantedStatuses(id) /\ id \notin Seeds => status = 200
<1>1. \A logWorks \in BOOLEAN : HandleException("Error", logWorks) \in {400, 401, 500}
  BY DEF HandleException, OwnStatus, OwnExceptions, OtherErrors, UnknownExceptionStatus, IsLogged
<1>2. ASSUME NEW logWorks \in LogWorks
      PROVE  HandleException("Error", logWorks) \in {400, 401, 500}
  <2>1. logWorks \in BOOLEAN
    BY BoundsTyped
  <2> QED BY <1>1, <2>1
<1> QED BY <1>2 DEF GrantedStatuses

LEMMA SignInKeeps ==
  ASSUME Inv, NEW r \in Requests, SignIn(r) PROVE Inv'
<1>1. TypeInv /\ TypeOK /\ request[r] \in RequestState /\ Prepared(request[r])
  BY DEF Inv, TypeInv, TypeOK
<1>2. \/ \E status \in GrantedStatuses(request[r].found.userId) : Answers(r, request[r], status)
      \/ Throws(r, "HttpException") \/ CallFails(r)
  BY DEF SignIn
<1>3. Moved
  <2>1. ASSUME NEW status \in GrantedStatuses(request[r].found.userId),
               Answers(r, request[r], status)
        PROVE  Moved
    <3>1. status \in Replies
      BY GrantedTyped DEF Replies
    <3> QED BY <1>1, <2>1, <3>1, AnswersMoves
  <2>2. CASE Throws(r, "HttpException") \/ CallFails(r)
    BY <1>1, <2>2, ThrowsMoves, CallFailsMoves DEF Thrown, OtherErrors
  <2> QED BY <1>2, <2>1, <2>2
<1>4. request[r].found.userId \in UserIds
  BY <1>1 DEF Prepared, SignIn, At
<1>5. tokens' \subseteq UserIds
  BY <1>1, <1>4 DEF SignIn, TypeOK
<1>6. UNCHANGED <<up, users, changes, committed, seen>>
  BY DEF SignIn, history
<1> QED BY <1>1, <1>3, <1>5, <1>6 DEF Inv, TypeInv, TypeOK, Moved, UniqueEmail, Present

LEMMA ReadUserKeeps ==
  ASSUME Inv, NEW r \in Requests, ReadUser(r) PROVE Inv'
<1> DEFINE next(status) == [request[r] EXCEPT !.step = "done", !.status = status]
           id == request[r].ctx.userId
           object == [userId |-> id, rank |-> users[id].rank]
           allowed == Can(UserRegistry, request[r].ctx, "USER", "READ", object)
<1>1. TypeInv /\ request[r] \in RequestState
  BY DEF Inv, TypeInv, TypeOK
<1>2. \A status \in Replies : next(status) \in RequestState
  BY <1>1, StateUpdates DEF Steps
<1>3. \A status : next(status).step = "done"
  BY <1>1 DEF RequestState
<1>4. \/ Throws(r, "Error")
      \/ \E status \in GrantedStatuses(id) : Audited(r, "can", allowed, next(status))
      \/ CallFails(r)
  BY DEF ReadUser
<1> HIDE DEF next, allowed, id
<1>5. Moved
  <2>1. CASE Throws(r, "Error")
    BY <1>1, <2>1, ThrowsMoves DEF Thrown, OtherErrors
  <2>2. ASSUME NEW status \in GrantedStatuses(id), Audited(r, "can", allowed, next(status))
        PROVE  Moved
    <3>1. status \in Replies
      BY GrantedTyped DEF Replies
    <3> QED BY <1>2, <1>3, <2>2, <3>1, AuditedMoves
  <2>3. CASE CallFails(r)
    BY <1>1, <2>3, CallFailsMoves
  <2> QED BY <1>4, <2>1, <2>2, <2>3
<1> QED BY <1>5, MovedAlone DEF ReadUser

-----------------------------------------------------------------------------
(* What others do to a row leaves its address alone, or frees it. *)
LEMMA ChangeKeeps ==
  ASSUME Inv, NEW id \in UserIds, NEW row, Change(id, row),
         row = Absent \/ (row \in Account /\ row.email = users[id].email)
  PROVE  Inv'
<1>1. /\ TypeInv /\ TypeOK
      /\ users' = [users EXCEPT ![id] = row]
      /\ changes' = changes + 1 /\ changes < MaxChanges
      /\ UNCHANGED <<up, request, tokens, committed>>
      /\ id \in Present
  BY DEF Change, Inv, TypeInv
<1>2. users' \in [UserIds -> Account \cup {Absent}]
  BY <1>1 DEF TypeOK
<1>3. changes' \in 0..MaxChanges
  BY <1>1, BoundsTyped DEF TypeOK
<1>4. ActiveAccounts' \subseteq UserIds
  BY DEF ActiveAccounts, Present
<1>5. seen' \in [Requests -> [active: SUBSET UserIds, changed: SUBSET UserIds]]
  <2>1. seen \in [Requests -> [active: SUBSET UserIds, changed: SUBSET UserIds]]
    BY <1>1 DEF TypeOK
  <2>2. \A r \in Requests :
          [active |-> seen[r].active \cup ActiveAccounts', changed |-> seen[r].changed \cup {id}]
            \in [active: SUBSET UserIds, changed: SUBSET UserIds]
    BY <1>4, <2>1
  <2>3. seen' = [r \in Requests |->
          IF InFlight(r) THEN [active |-> seen[r].active \cup ActiveAccounts',
                               changed |-> seen[r].changed \cup {id}]
          ELSE seen[r]]
    BY DEF Change
  <2> QED BY <2>1, <2>2, <2>3
<1>6. TypeInv'
  BY <1>1, <1>2, <1>3, <1>5 DEF TypeInv, TypeOK, Prepared
<1>7. UniqueEmail'
  <2>1. \A a \in Present' : a \in Present /\ users'[a].email = users[a].email
    BY <1>1 DEF Present, TypeOK
  <2> QED BY <2>1 DEF Inv, UniqueEmail
<1> QED BY <1>6, <1>7 DEF Inv

LEMMA EnvironmentKeeps ==
  ASSUME Inv, Environment PROVE Inv'
<1>1. TypeInv /\ TypeOK
  BY DEF Inv, TypeInv
<1>2. \A id \in Present : id \in UserIds /\ users[id] \in Account
  BY <1>1 DEF Present, TypeOK
<1>3. ASSUME NEW id \in UserIds, NEW status \in Statuses, SetStatus(id, status) PROVE Inv'
  <2> DEFINE row == [users[id] EXCEPT !.status = status]
  <2>1. users[id] \in Account /\ Change(id, row)
    BY <1>2, <1>3 DEF SetStatus
  <2>2. row \in Account /\ row.email = users[id].email
    BY <2>1 DEF Account
  <2> HIDE DEF row
  <2> QED BY <2>1, <2>2, ChangeKeeps
<1>4. ASSUME NEW id \in UserIds, NEW role \in UserRoles, SetRole(id, role) PROVE Inv'
  <2> DEFINE row == [users[id] EXCEPT !.role = role, !.rank = RankOf[role]]
  <2>1. users[id] \in Account /\ Change(id, row)
    BY <1>2, <1>4 DEF SetRole
  <2>2. row \in Account /\ row.email = users[id].email
    BY <2>1, RankTyped DEF Account
  <2> HIDE DEF row
  <2> QED BY <2>1, <2>2, ChangeKeeps
<1>5. ASSUME NEW id \in UserIds, RemoveUser(id) PROVE Inv'
  BY <1>5, ChangeKeeps DEF RemoveUser
<1>6. CASE Crash
  <2> DEFINE lost(r) == [request[r] EXCEPT !.step = "lost"]
  <2>1. \A r \in Requests : request[r] \in RequestState /\ Prepared(request[r])
    BY <1>1 DEF TypeInv, TypeOK
  <2>2. \A r \in Requests : lost(r) \in RequestState
    BY <2>1, StateUpdates
  <2>3. \A r \in Requests : lost(r).step = "lost"
    BY <2>1 DEF RequestState
  <2>4. request' = [r \in Requests |-> IF InFlight(r) THEN lost(r) ELSE request[r]]
    BY <1>6 DEF Crash
  <2> HIDE DEF lost
  <2>5. \A r \in Requests : Prepared(lost(r))
    BY <2>3 DEF Prepared
  <2>6. \A r \in Requests : request'[r] = lost(r) \/ request'[r] = request[r]
    BY <2>4
  <2>7. request' \in [Requests -> RequestState]
    BY <2>1, <2>2, <2>4
  <2>8. \A r \in Requests : Prepared(request[r])'
    BY <2>1, <2>5, <2>6 DEF Prepared
  <2>9. up' = FALSE /\ UNCHANGED <<table, history>>
    BY <1>6 DEF Crash
  <2> QED BY <2>7, <2>8, <2>9 DEF Inv, TypeInv, TypeOK, table, history, UniqueEmail, Present
<1>7. CASE Restart
  BY <1>7 DEF Restart, Inv, TypeInv, TypeOK, table, history, UniqueEmail, Present, Prepared
<1> QED BY <1>3, <1>4, <1>5, <1>6, <1>7 DEF Environment

LEMMA InitKeeps == Init => Inv
<1> SUFFICES ASSUME Init PROVE Inv
  OBVIOUS
<1> DEFINE start == [step |-> "idle", call |-> NoCall, ctx |-> NoContext, found |-> NotFound,
                     audit |-> <<>>, status |-> 0]
<1>1. start \in RequestState
  BY DEF RequestState, NotFound
<1>2. start.step = "idle"
  OBVIOUS
<1>3. request = [r \in Requests |-> start]
  BY DEF Init
<1> HIDE DEF start
<1>4. request \in [Requests -> RequestState] /\ \A r \in Requests : Prepared(request[r])
  BY <1>1, <1>2, <1>3 DEF Prepared
<1>5. users = [id \in UserIds |-> IF id \in Seeds THEN SeedAccounts[id] ELSE Absent]
  BY DEF Init
<1>6. users \in [UserIds -> Account \cup {Absent}]
  BY <1>5, SeedsTyped
<1>7. UniqueEmail
  <2>1. \A id \in Present : id \in Seeds /\ users[id] = SeedAccounts[id]
    BY <1>5 DEF Present
  <2> QED BY <2>1, SeedsUnique DEF UniqueEmail
<1>8. /\ up = TRUE /\ tokens = Seeds /\ changes = 0 /\ committed = {}
      /\ seen = [r \in Requests |-> [active |-> {}, changed |-> {}]]
  BY DEF Init
<1>9. changes \in 0..MaxChanges
  BY <1>8, BoundsTyped
<1> QED BY <1>4, <1>6, <1>7, <1>8, <1>9 DEF Inv, TypeInv, TypeOK, Seeds

LEMMA NextKeeps == Inv /\ [Next]_vars => Inv'
<1> SUFFICES ASSUME Inv, [Next]_vars PROVE Inv'
  OBVIOUS
<1>1. ASSUME NEW r \in Requests, NEW call \in Calls, Arrive(r, call) PROVE Inv'
  BY <1>1, ArriveKeeps
<1>2. ASSUME NEW r \in Requests, Step(r) PROVE Inv'
  BY <1>2, VerifyKeeps, LoadUserKeeps, EnterKeeps, CheckPermissionKeeps, FindExistingKeeps,
     SaveKeeps, RespondKeeps, FindAccountKeeps, SignInKeeps, ReadUserKeeps DEF Step
<1>3. CASE Environment
  BY <1>3, EnvironmentKeeps
<1>4. CASE UNCHANGED vars
  BY <1>4 DEF vars, Inv, TypeInv, TypeOK, UniqueEmail, Present, Prepared
<1> QED BY <1>1, <1>2, <1>3, <1>4 DEF Next

(* Every request carries what its step reads, and the table holds accounts,    *)
(* however many requests interleave.                                           *)
THEOREM TypeCorrect == Spec => []TypeOK
<1>1. Inv => TypeOK
  BY DEF Inv, TypeInv
<1> QED BY <1>1, InitKeeps, NextKeeps, PTL DEF Spec

(* Two accounts never share an address, however many registrations race and    *)
(* however their queries fail.                                                 *)
THEOREM UniqueEmailCorrect == Spec => []UniqueEmail
<1>1. Inv => UniqueEmail
  BY DEF Inv
<1> QED BY <1>1, InitKeeps, NextKeeps, PTL DEF Spec

-----------------------------------------------------------------------------
(* Every step of a request ends in one of eleven ways, told by the fields of   *)
(* the request and by the table (Outcome).  The invariants are then shown    *)
(* to survive each way, and each thing that others do.                      *)

Alone(r) == \A q \in Requests \ {r} : request'[q] = request[q]

Advances(r, step) ==
  /\ Alone(r)
  /\ request'[r].step = step
  /\ request'[r].call = request[r].call
  /\ request'[r].ctx = request[r].ctx
  /\ request'[r].found = request[r].found
  /\ request'[r].audit = request[r].audit
  /\ request'[r].status = request[r].status

Ends(r, audit, statuses) ==
  /\ Alone(r)
  /\ request'[r].step = "done"
  /\ request'[r].call = request[r].call
  /\ request'[r].ctx = request[r].ctx
  /\ request'[r].found = request[r].found
  /\ request'[r].audit = audit
  /\ request'[r].status \in statuses

Fails(r) == Ends(r, request[r].audit, {400, 401, 500})
Denies(r, method) == Ends(r, Append(request[r].audit, AuditEntry(method, FALSE)), {403})

Quiet == UNCHANGED <<users, tokens, committed>>

(* An error that is not the authorization service's, before anything is stored. *)
Failing(r) == Quiet /\ Fails(r)

Moving(r) ==
  /\ Quiet
  /\ \/ /\ request[r].step \in {"verify", "loadUser", "enter"}
        /\ \E step \in {"loadUser", "enter", "find"} : Advances(r, step)
     \/ /\ request[r].step = "find" /\ request[r].call.route = "register"
        /\ Advances(r, "save")

Loading(r) ==
  /\ Quiet /\ Alone(r)
  /\ request[r].step = "loadUser"
  /\ \E id \in Present : request'[r].ctx = ContextOf(id)
  /\ request'[r].step = "enter"
  /\ request'[r].call = request[r].call
  /\ request'[r].found = request[r].found
  /\ request'[r].audit = request[r].audit
  /\ request'[r].status = request[r].status

Passing(r) ==
  /\ Quiet /\ Alone(r)
  /\ request[r].step = "enter"
  /\ request[r].ctx # NoContext
  /\ request'[r].step = "read"
  /\ request'[r].call = request[r].call
  /\ request'[r].ctx = request[r].ctx
  /\ request'[r].found = request[r].found
  /\ \/ /\ request[r].call.route = "helloPost"
        /\ request'[r].audit = request[r].audit
     \/ /\ request[r].call.route \notin Public
        /\ request'[r].audit = Append(request[r].audit, AuditEntry("hasPermission", TRUE))
  /\ request'[r].status = request[r].status

Refusing(r) ==
  /\ Quiet
  /\ request[r].step = "enter"
  /\ request[r].ctx # NoContext
  /\ ~HasPermission(UserRegistry, request[r].ctx, "USER", "READ", {})
  /\ Denies(r, "hasPermission")

(* The acknowledgement of a commit may be lost. *)
Storing(r) ==
  /\ request[r].step = "save"
  /\ Holders(request[r].call.email) = {}
  /\ Inserts(r)
  /\ UNCHANGED tokens
  /\ Advances(r, "respond") \/ Fails(r)

Confirming(r) ==
  /\ Quiet
  /\ request[r].step = "respond"
  /\ Ends(r, request[r].audit, {201})

Finding(r) ==
  /\ Quiet /\ Alone(r)
  /\ request[r].step = "find"
  /\ request[r].call.route = "login"
  /\ \E id \in Holders(request[r].call.email) \cap ActiveAccounts :
       request'[r].found = [userId |-> id, password |-> users[id].password]
  /\ request'[r].step = "signIn"
  /\ request'[r].call = request[r].call
  /\ request'[r].ctx = request[r].ctx
  /\ request'[r].audit = request[r].audit
  /\ request'[r].status = request[r].status

SigningIn(r) ==
  /\ request[r].step = "signIn"
  /\ request[r].found.password = request[r].call.password
  /\ tokens' = tokens \cup {request[r].found.userId}
  /\ UNCHANGED <<users, committed>>
  /\ Ends(r, request[r].audit, {200, 400, 401, 500})
  /\ request[r].found.userId \notin Seeds => request'[r].status = 200

OwnRecord(r) == [userId |-> request[r].ctx.userId, rank |-> users[request[r].ctx.userId].rank]
MayRead(r) == Can(UserRegistry, request[r].ctx, "USER", "READ", OwnRecord(r))

Serving(r) ==
  /\ Quiet
  /\ request[r].step = "read"
  /\ MayRead(r)
  /\ Ends(r, Append(request[r].audit, AuditEntry("can", TRUE)), {200, 400, 401, 500})

Denying(r) ==
  /\ Quiet
  /\ request[r].step = "read"
  /\ ~MayRead(r)
  /\ Denies(r, "can")

Outcome(r) ==
  /\ InFlight(r)
  /\ UNCHANGED <<up, changes, seen>>
  /\ \/ Failing(r) \/ Moving(r) \/ Loading(r) \/ Passing(r) \/ Refusing(r) \/ Storing(r)
     \/ Confirming(r) \/ Finding(r) \/ SigningIn(r) \/ Serving(r) \/ Denying(r)

-----------------------------------------------------------------------------
(* Only the authorization service's exception is answered 403. *)
LEMMA OnlyAuthZForbids ==
  /\ \A exception \in Thrown \ {"AuthZException"}, logWorks \in BOOLEAN :
       HandleException(exception, logWorks) \in {400, 401, 500}
  /\ \A logWorks \in BOOLEAN : HandleException("AuthZException", logWorks) = 403
BY DEF HandleException, OwnStatus, OwnExceptions, OtherErrors, UnknownExceptionStatus, Thrown, IsLogged

(* What the ways to end a step do to the fields. *)
LEMMA BecomesFields ==
  ASSUME TypeOK, NEW r \in Requests, NEW state, Becomes(r, state)
  PROVE  request'[r] = state /\ Alone(r)
BY DEF TypeOK, Becomes, Alone

LEMMA GoesFields ==
  ASSUME TypeOK, NEW r \in Requests, NEW step, Goes(r, step) PROVE Advances(r, step)
<1>1. request[r] \in RequestState
  BY DEF TypeOK
<1>2. request'[r] = [request[r] EXCEPT !.step = step] /\ Alone(r)
  BY BecomesFields DEF Goes
<1> QED BY <1>1, <1>2 DEF RequestState, Advances

LEMMA AnswersFields ==
  ASSUME TypeOK, NEW r \in Requests, NEW status, Answers(r, request[r], status)
  PROVE  Ends(r, request[r].audit, {status})
<1>1. request[r] \in RequestState
  BY DEF TypeOK
<1>2. request'[r] = [request[r] EXCEPT !.step = "done", !.status = status] /\ Alone(r)
  BY BecomesFields DEF Answers
<1> QED BY <1>1, <1>2 DEF RequestState, Ends

LEMMA ThrowsFields ==
  ASSUME TypeOK, NEW r \in Requests, NEW exception \in Thrown \ {"AuthZException"},
         Throws(r, exception)
  PROVE  Fails(r)
<1>1. PICK logWorks \in LogWorks : Answers(r, request[r], HandleException(exception, logWorks))
  BY DEF Throws, ThrowsAs
<1>2. logWorks \in BOOLEAN
  BY BoundsTyped
<1>3. HandleException(exception, logWorks) \in {400, 401, 500}
  BY <1>2, OnlyAuthZForbids
<1>4. Ends(r, request[r].audit, {HandleException(exception, logWorks)})
  BY <1>1, AnswersFields
<1> QED BY <1>3, <1>4 DEF Ends, Fails

LEMMA CallFailsFields ==
  ASSUME TypeOK, NEW r \in Requests, CallFails(r) PROVE Fails(r)
BY ThrowsFields DEF CallFails, Thrown, OtherErrors

(* An entry added to the audit trail, and nothing else. *)
LEMMA LoggedFields ==
  ASSUME NEW state \in RequestState, NEW entry
  PROVE  LET logged == [state EXCEPT !.audit = Append(state.audit, entry)]
         IN  /\ logged.step = state.step /\ logged.status = state.status
             /\ logged.call = state.call /\ logged.ctx = state.ctx
             /\ logged.found = state.found
             /\ logged.audit = Append(state.audit, entry)
<1> DEFINE trail == Append(state.audit, entry)
<1> HIDE DEF trail
<1> DEFINE logged == [state EXCEPT !.audit = trail]
<1>1. /\ logged.step = state.step /\ logged.status = state.status
      /\ logged.call = state.call /\ logged.ctx = state.ctx
      /\ logged.found = state.found
      /\ logged.audit = trail
  BY DEF RequestState
<1> QED BY <1>1 DEF trail

(* A request whose denial was written down, and that is answered 403. *)
LEMMA DeniedFields ==
  ASSUME NEW state \in RequestState, NEW trail
  PROVE  LET denied == [state EXCEPT !.audit = trail]
             final == [denied EXCEPT !.step = "done", !.status = 403]
         IN  /\ final.step = "done" /\ final.status = 403
             /\ final.call = state.call /\ final.ctx = state.ctx
             /\ final.found = state.found
             /\ final.audit = trail
BY DEF RequestState

(* An audited operation fails to log, goes on with its entry, or denies with it. *)
LEMMA AuditedFields ==
  ASSUME TypeOK, NEW r \in Requests, NEW method, NEW allowed, NEW next \in RequestState,
         Audited(r, method, allowed, next)
  PROVE  \/ Fails(r)
         \/ /\ allowed /\ Alone(r)
            /\ request'[r] = [next EXCEPT !.audit = Append(next.audit, AuditEntry(method, TRUE))]
         \/ ~allowed /\ Denies(r, method)
<1> DEFINE entry == AuditEntry(method, allowed)
           logged(new) == [new EXCEPT !.audit = Append(@, entry)]
<1>1. request[r] \in RequestState
  BY DEF TypeOK
<1>2. CASE Throws(r, "Error")
  BY <1>2, ThrowsFields DEF Thrown, OtherErrors
<1>3. CASE allowed /\ Becomes(r, logged(next))
  <2>1. request'[r] = logged(next) /\ Alone(r)
    BY <1>3, BecomesFields
  <2>2. entry = AuditEntry(method, TRUE)
    BY <1>3 DEF AuditEntry
  <2> HIDE DEF entry
  <2>3. logged(next) = [next EXCEPT !.audit = Append(next.audit, AuditEntry(method, TRUE))]
    BY <2>2 DEF RequestState
  <2> QED BY <1>3, <2>1, <2>3
<1>4. CASE ~allowed /\ ThrowsAs(r, logged(request[r]), "AuthZException")
  <2> DEFINE trail == Append(request[r].audit, AuditEntry(method, FALSE))
  <2> DEFINE denied == [request[r] EXCEPT !.audit = trail]
  <2>1. entry = AuditEntry(method, FALSE)
    BY <1>4 DEF AuditEntry
  <2> HIDE DEF entry
  <2>2. logged(request[r]) = denied
    BY <1>1, <2>1 DEF RequestState
  <2> HIDE DEF logged
  <2>3. ThrowsAs(r, denied, "AuthZException")
    BY <1>4, <2>2
  <2>4. PICK logWorks \in LogWorks :
          Answers(r, denied, HandleException("AuthZException", logWorks))
    BY <2>3 DEF ThrowsAs
  <2>5. logWorks \in BOOLEAN
    BY BoundsTyped
  <2>6. HandleException("AuthZException", logWorks) = 403
    BY <2>5, OnlyAuthZForbids
  <2> DEFINE final == [denied EXCEPT !.step = "done", !.status = 403]
  <2>7. Becomes(r, final)
    BY <2>4, <2>6 DEF Answers
  <2>8. /\ final.step = "done" /\ final.status = 403
        /\ final.call = request[r].call /\ final.ctx = request[r].ctx
        /\ final.found = request[r].found
        /\ final.audit = trail
    <3> HIDE DEF trail
    <3> QED BY <1>1, DeniedFields
  <2> HIDE DEF denied, final
  <2>9. request'[r] = final /\ Alone(r)
    BY <2>7, BecomesFields
  <2>10. Denies(r, method)
    BY <2>8, <2>9 DEF Denies, Ends
  <2> QED BY <1>4, <2>10
<1> QED BY <1>2, <1>3, <1>4 DEF Audited

-----------------------------------------------------------------------------
(* Every step of a request has one of the outcomes. *)
LEMMA ArrivalOutcome ==
  ASSUME TypeOK, NEW r \in Requests, Verify(r) \/ LoadUser(r) PROVE Outcome(r)
<1>1. request[r] \in RequestState
  BY DEF TypeOK
<1>2. InFlight(r) /\ UNCHANGED <<up, changes, seen>> /\ Quiet
  BY DEF Verify, LoadUser, At, InFlight, Ended, Quiet, table, history
<1>3. CASE Verify(r)
  <2>1. Goes(r, "loadUser") \/ Throws(r, "JsonWebTokenError")
    BY <1>3 DEF Verify
  <2>2. Advances(r, "loadUser") \/ Fails(r)
    BY <2>1, GoesFields, ThrowsFields DEF Thrown, OtherErrors
  <2> QED BY <1>2, <1>3, <2>2 DEF Outcome, Moving, Failing, Verify, At
<1>4. CASE LoadUser(r)
  <2> DEFINE id == request[r].call.token
             new == [request[r] EXCEPT !.step = "enter", !.ctx = ContextOf(id)]
  <2>1. CASE id \in Present /\ Becomes(r, new)
    <3>1. /\ new.step = "enter" /\ new.ctx = ContextOf(id)
          /\ new.call = request[r].call /\ new.found = request[r].found
          /\ new.audit = request[r].audit /\ new.status = request[r].status
      BY <1>1 DEF RequestState
    <3>2. Becomes(r, new)
      BY <2>1
    <3> HIDE DEF new
    <3>3. request'[r] = new /\ Alone(r)
      BY <3>2, BecomesFields
    <3>4. Loading(r)
      BY <1>2, <1>4, <2>1, <3>1, <3>3 DEF Loading, LoadUser, At
    <3> QED BY <1>2, <3>4 DEF Outcome
  <2>2. CASE Goes(r, "enter")
    <3>1. Advances(r, "enter")
      BY <2>2, GoesFields
    <3> QED BY <1>2, <1>4, <3>1 DEF Outcome, Moving, LoadUser, At
  <2>3. CASE CallFails(r)
    BY <1>2, <2>3, CallFailsFields DEF Outcome, Failing
  <2> QED BY <1>4, <2>1, <2>2, <2>3 DEF LoadUser
<1> QED BY <1>3, <1>4

LEMMA EnterOutcome ==
  ASSUME TypeOK, NEW r \in Requests,
         RefuseAnonymous(r) \/ EnterHelloPost(r) \/ ValidateBody(r)
  PROVE  Outcome(r)
<1>1. InFlight(r) /\ UNCHANGED <<up, changes, seen>> /\ Quiet /\ request[r].step = "enter"
  BY DEF RefuseAnonymous, EnterHelloPost, ValidateBody, At, InFlight, Ended, Quiet, table, history
<1>2. {"AuthNException", "Error", "ValidationException"} \subseteq Thrown \ {"AuthZException"}
  BY DEF Thrown, OwnExceptions, OtherErrors
<1>3. CASE RefuseAnonymous(r)
  BY <1>1, <1>2, <1>3, ThrowsFields DEF RefuseAnonymous, Outcome, Failing
<1>4. CASE EnterHelloPost(r)
  <2>1. CASE Throws(r, "Error")
    BY <1>1, <1>2, <2>1, ThrowsFields DEF Outcome, Failing
  <2>2. CASE request[r].ctx # NoContext /\ Goes(r, "read")
    <3>1. Advances(r, "read")
      BY <2>2, GoesFields
    <3>2. Passing(r)
      BY <1>1, <1>4, <2>2, <3>1 DEF Passing, Advances, EnterHelloPost
    <3> QED BY <1>1, <3>2 DEF Outcome
  <2> QED BY <1>4, <2>1, <2>2 DEF EnterHelloPost
<1>5. CASE ValidateBody(r)
  <2>1. Goes(r, "find") \/ Throws(r, "ValidationException")
    BY <1>5 DEF ValidateBody
  <2>2. Advances(r, "find") \/ Fails(r)
    BY <1>2, <2>1, GoesFields, ThrowsFields
  <2> QED BY <1>1, <2>2 DEF Outcome, Moving, Failing
<1> QED BY <1>3, <1>4, <1>5

LEMMA PermissionOutcome ==
  ASSUME TypeOK, NEW r \in Requests, CheckPermission(r) PROVE Outcome(r)
<1> DEFINE next == [request[r] EXCEPT !.step = "read"]
           allowed == HasPermission(UserRegistry, request[r].ctx, "USER", "READ", {})
<1>1. request[r] \in RequestState
  BY DEF TypeOK
<1>2. /\ InFlight(r) /\ UNCHANGED <<up, changes, seen>> /\ Quiet
      /\ request[r].step = "enter" /\ request[r].ctx # NoContext
      /\ request[r].call.route \notin Public
  BY DEF CheckPermission, At, InFlight, Ended, Quiet, table, history
<1>3. /\ next \in RequestState /\ next.step = "read"
      /\ next.call = request[r].call /\ next.ctx = request[r].ctx
      /\ next.found = request[r].found
      /\ next.audit = request[r].audit /\ next.status = request[r].status
  <2>1. "read" \in Steps
    BY DEF Steps
  <2>2. next \in RequestState
    BY <1>1, <2>1, StateUpdates
  <2> QED BY <1>1, <2>2 DEF RequestState
<1>4. Audited(r, "hasPermission", allowed, next)
  BY DEF CheckPermission
<1> HIDE DEF next
<1> DEFINE logged == [next EXCEPT !.audit = Append(next.audit, AuditEntry("hasPermission", TRUE))]
<1>5. /\ logged.step = "read" /\ logged.call = request[r].call /\ logged.ctx = request[r].ctx
      /\ logged.found = request[r].found /\ logged.status = request[r].status
      /\ logged.audit = Append(request[r].audit, AuditEntry("hasPermission", TRUE))
  <2>1. next \in RequestState
    BY <1>3
  <2>2. /\ logged.step = next.step /\ logged.status = next.status
        /\ logged.call = next.call /\ logged.ctx = next.ctx
        /\ logged.found = next.found
        /\ logged.audit = Append(next.audit, AuditEntry("hasPermission", TRUE))
    BY <2>1, LoggedFields, Zenon
  <2> HIDE DEF logged
  <2> QED BY <1>3, <2>2
<1> HIDE DEF logged
<1>6. \/ Fails(r)
      \/ Alone(r) /\ request'[r] = logged
      \/ ~allowed /\ Denies(r, "hasPermission")
  BY <1>3, <1>4, AuditedFields DEF logged
<1>7. Failing(r) \/ Passing(r) \/ Refusing(r)
  BY <1>2, <1>5, <1>6 DEF Failing, Passing, Refusing
<1> QED BY <1>2, <1>7 DEF Outcome

LEMMA RegisterOutcome ==
  ASSUME TypeOK, NEW r \in Requests, FindExisting(r) \/ Save(r) \/ Respond(r)
  PROVE  Outcome(r)
<1>1. InFlight(r) /\ UNCHANGED <<up, changes, seen>>
  BY DEF FindExisting, Save, Respond, At, InFlight, Ended, table, history
<1>2. CASE FindExisting(r)
  <2>1. Quiet /\ request[r].step = "find" /\ request[r].call.route = "register"
    BY <1>2 DEF FindExisting, Quiet, table, history, At
  <2>2. Throws(r, "HttpException") \/ Goes(r, "save") \/ CallFails(r)
    BY <1>2 DEF FindExisting
  <2>3. Fails(r) \/ Advances(r, "save")
    BY <2>2, ThrowsFields, GoesFields, CallFailsFields DEF Thrown, OtherErrors
  <2> QED BY <1>1, <2>1, <2>3 DEF Outcome, Failing, Moving
<1>3. CASE Save(r)
  <2>1. request[r].step = "save" /\ UNCHANGED tokens
    BY <1>3 DEF Save, At
  <2>2. CASE (Throws(r, "QueryFailedError") \/ CallFails(r)) /\ UNCHANGED <<users, committed>>
    <3>1. Fails(r)
      BY <2>2, ThrowsFields, CallFailsFields DEF Thrown, OtherErrors
    <3> QED BY <1>1, <2>1, <2>2, <3>1 DEF Outcome, Failing, Quiet
  <2>3. CASE /\ Holders(request[r].call.email) = {} /\ Inserts(r)
             /\ Goes(r, "respond") \/ CallFails(r)
    <3>1. Advances(r, "respond") \/ Fails(r)
      BY <2>3, GoesFields, CallFailsFields
    <3>2. Storing(r)
      BY <2>1, <2>3, <3>1 DEF Storing
    <3> QED BY <1>1, <3>2 DEF Outcome
  <2> QED BY <1>3, <2>2, <2>3 DEF Save
<1>4. CASE Respond(r)
  <2>1. Ends(r, request[r].audit, {201})
    BY <1>4, AnswersFields DEF Respond
  <2>2. Confirming(r)
    BY <1>4, <2>1 DEF Confirming, Respond, At, Quiet, table, history
  <2> QED BY <1>1, <2>2 DEF Outcome
<1> QED BY <1>2, <1>3, <1>4

LEMMA LoginOutcome ==
  ASSUME TypeOK, NEW r \in Requests, FindAccount(r) \/ SignIn(r) PROVE Outcome(r)
<1>1. InFlight(r) /\ UNCHANGED <<up, changes, seen>>
  BY DEF FindAccount, SignIn, At, InFlight, Ended, table, history
<1>2. request[r] \in RequestState
  BY DEF TypeOK
<1>3. CASE FindAccount(r)
  <2> DEFINE found(id) == [userId |-> id, password |-> users[id].password]
             new(id) == [request[r] EXCEPT !.step = "signIn", !.found = found(id)]
  <2>1. Quiet /\ request[r].step = "find" /\ request[r].call.route = "login"
    BY <1>3 DEF FindAccount, Quiet, table, history, At
  <2>2. ASSUME NEW id \in Holders(request[r].call.email) \cap ActiveAccounts,
               Becomes(r, new(id))
        PROVE  Finding(r)
    <3>1. /\ new(id).step = "signIn" /\ new(id).found = found(id)
          /\ new(id).call = request[r].call /\ new(id).ctx = request[r].ctx
          /\ new(id).audit = request[r].audit /\ new(id).status = request[r].status
      BY <1>2 DEF RequestState
    <3> HIDE DEF new
    <3>2. request'[r] = new(id) /\ Alone(r)
      BY <2>2, BecomesFields
    <3> QED BY <2>1, <3>1, <3>2 DEF Finding
  <2>3. CASE Throws(r, "HttpException") \/ CallFails(r)
    <3>1. Fails(r)
      BY <2>3, ThrowsFields, CallFailsFields DEF Thrown, OtherErrors
    <3> QED BY <1>1, <2>1, <3>1 DEF Outcome, Failing
  <2> QED BY <1>1, <1>3, <2>2, <2>3 DEF FindAccount, Outcome
<1>4. CASE SignIn(r)
  <2>1. request[r].step = "signIn" /\ UNCHANGED <<users, committed>>
    BY <1>4 DEF SignIn, At, history
  <2>2. CASE /\ request[r].found.password = request[r].call.password
             /\ tokens' = tokens \cup {request[r].found.userId}
             /\ \E status \in GrantedStatuses(request[r].found.userId) :
                  Answers(r, request[r], status)
    <3>1. PICK status \in GrantedStatuses(request[r].found.userId) :
                 Answers(r, request[r], status)
      BY <2>2
    <3>2. /\ status \in {200, 400, 401, 500}
          /\ request[r].found.userId \notin Seeds => status = 200
      BY GrantedTyped
    <3>3. Ends(r, request[r].audit, {status})
      BY <3>1, AnswersFields
    <3>4. SigningIn(r)
      BY <2>1, <2>2, <3>2, <3>3 DEF SigningIn, Ends
    <3> QED BY <1>1, <3>4 DEF Outcome
  <2>3. CASE (Throws(r, "HttpException") \/ CallFails(r)) /\ UNCHANGED tokens
    <3>1. Fails(r)
      BY <2>3, ThrowsFields, CallFailsFields DEF Thrown, OtherErrors
    <3> QED BY <1>1, <2>1, <2>3, <3>1 DEF Outcome, Failing, Quiet
  <2> QED BY <1>4, <2>2, <2>3 DEF SignIn
<1> QED BY <1>3, <1>4

LEMMA ReadOutcome ==
  ASSUME TypeOK, NEW r \in Requests, ReadUser(r) PROVE Outcome(r)
<1> DEFINE new(status) == [request[r] EXCEPT !.step = "done", !.status = status]
<1>1. request[r] \in RequestState
  BY DEF TypeOK
<1>2. /\ InFlight(r) /\ UNCHANGED <<up, changes, seen>> /\ Quiet
      /\ request[r].step = "read"
  BY DEF ReadUser, At, InFlight, Ended, Quiet, table, history
<1>3. \/ Throws(r, "Error") \/ CallFails(r)
      \/ \E status \in GrantedStatuses(request[r].ctx.userId) :
           Audited(r, "can", MayRead(r), new(status))
  BY DEF ReadUser, MayRead, OwnRecord
<1>4. CASE Throws(r, "Error") \/ CallFails(r)
  <2>1. Fails(r)
    BY <1>4, ThrowsFields, CallFailsFields DEF Thrown, OtherErrors
  <2> QED BY <1>2, <2>1 DEF Outcome, Failing
<1>5. ASSUME NEW status \in GrantedStatuses(request[r].ctx.userId),
             Audited(r, "can", MayRead(r), new(status))
      PROVE  Outcome(r)
  <2> DEFINE next == new(status)
             logged == [next EXCEPT !.audit = Append(next.audit, AuditEntry("can", TRUE))]
  <2>1. status \in {200, 400, 401, 500} /\ status \in Replies
    BY GrantedTyped DEF Replies
  <2>2. next \in RequestState
    <3>1. "done" \in Steps
      BY DEF Steps
    <3>2. \A answer \in Replies :
            [request[r] EXCEPT !.step = "done", !.status = answer] \in RequestState
      BY <1>1, <3>1, StateUpdates
    <3> QED BY <2>1, <3>2
  <2>3. /\ next.step = "done" /\ next.status = status
        /\ next.call = request[r].call /\ next.ctx = request[r].ctx
        /\ next.found = request[r].found /\ next.audit = request[r].audit
    BY <1>1 DEF RequestState
  <2>4. Audited(r, "can", MayRead(r), next)
    BY <1>5
  <2> HIDE DEF next
  <2>5. /\ logged.step = next.step /\ logged.status = next.status
        /\ logged.call = next.call /\ logged.ctx = next.ctx
        /\ logged.found = next.found
        /\ logged.audit = Append(next.audit, AuditEntry("can", TRUE))
    BY <2>2, LoggedFields, Zenon
  <2>6. \/ Fails(r)
        \/ MayRead(r) /\ Alone(r) /\ request'[r] = logged
        \/ ~MayRead(r) /\ Denies(r, "can")
    BY <2>2, <2>3, <2>4, AuditedFields
  <2> HIDE DEF logged
  <2>7. Failing(r) \/ Serving(r) \/ Denying(r)
    <3>1. CASE Fails(r)
      BY <1>2, <3>1 DEF Failing
    <3>2. CASE MayRead(r) /\ Alone(r) /\ request'[r] = logged
      <4>1. /\ logged.step = "done" /\ logged.status \in {200, 400, 401, 500}
            /\ logged.call = request[r].call /\ logged.ctx = request[r].ctx
            /\ logged.found = request[r].found
            /\ logged.audit = Append(request[r].audit, AuditEntry("can", TRUE))
        BY <2>1, <2>3, <2>5
      <4> QED BY <1>2, <3>2, <4>1, ZenonT(60) DEF Serving, Ends
    <3>3. CASE ~MayRead(r) /\ Denies(r, "can")
      BY <1>2, <3>3 DEF Denying
    <3> QED BY <2>6, <3>1, <3>2, <3>3
  <2> QED BY <1>2, <2>7 DEF Outcome
<1> QED BY <1>3, <1>4, <1>5

LEMMA StepOutcome ==
  ASSUME TypeOK, NEW r \in Requests, Step(r) PROVE Outcome(r)
BY ArrivalOutcome, EnterOutcome, PermissionOutcome, RegisterOutcome, LoginOutcome,
   ReadOutcome DEF Step

(* Where the ways of going on lead, and what they leave alone. *)
LeadsOn(r) ==
  /\ Alone(r)
  /\ request'[r].step # "idle"
  /\ committed \subseteq committed'
  /\ request[r].step = "respond" => request'[r].step = "done"
  /\ request'[r].step = "respond" => Storing(r)
  /\ request'[r].step = "save" => request[r].call.route = "register"
  /\ request'[r].step = "signIn" => Finding(r)

LEMMA OutcomeLeads ==
  ASSUME NEW r \in Requests, Outcome(r) PROVE LeadsOn(r)
<1>1. CASE Failing(r)
  BY <1>1 DEF LeadsOn, Failing, Fails, Ends, Quiet
<1>2. CASE Moving(r)
  BY <1>2 DEF LeadsOn, Moving, Advances, Quiet
<1>3. CASE Loading(r)
  BY <1>3 DEF LeadsOn, Loading, Quiet
<1>4. CASE Passing(r)
  BY <1>4 DEF LeadsOn, Passing, Quiet
<1>5. CASE Refusing(r)
  BY <1>5 DEF LeadsOn, Refusing, Denies, Ends, Quiet
<1>6. CASE Storing(r)
  BY <1>6 DEF LeadsOn, Storing, Inserts, Fails, Ends, Advances
<1>7. CASE Confirming(r)
  BY <1>7 DEF LeadsOn, Confirming, Ends, Quiet
<1>8. CASE Finding(r)
  BY <1>8 DEF LeadsOn, Finding, Quiet
<1>9. CASE SigningIn(r)
  BY <1>9 DEF LeadsOn, SigningIn, Ends
<1>10. CASE Serving(r)
  BY <1>10 DEF LeadsOn, Serving, Ends, Quiet
<1>11. CASE Denying(r)
  BY <1>11 DEF LeadsOn, Denying, Denies, Ends, Quiet
<1> QED BY <1>1, <1>2, <1>3, <1>4, <1>5, <1>6, <1>7, <1>8, <1>9, <1>10, <1>11 DEF Outcome

-----------------------------------------------------------------------------
(* What arriving, and what others do, changes of the requests. *)
Arrives(r, call) ==
  /\ Alone(r)
  /\ request[r].step = "idle"
  /\ request'[r].step \in {"enter", "verify"}
  /\ request'[r].call = call
  /\ request'[r].ctx = request[r].ctx
  /\ request'[r].found = request[r].found
  /\ request'[r].audit = request[r].audit
  /\ request'[r].status = request[r].status

LEMMA ArriveFields ==
  ASSUME TypeOK, NEW r \in Requests, NEW call \in Calls, Arrive(r, call)
  PROVE  Arrives(r, call)
<1> DEFINE step == IF call.token = NoToken THEN "enter" ELSE "verify"
           new == [request[r] EXCEPT !.call = call, !.step = step]
<1>1. request[r] \in RequestState
  BY DEF TypeOK
<1>2. Becomes(r, new) /\ request[r].step = "idle"
  BY DEF Arrive, At
<1>3. step \in {"enter", "verify"}
  OBVIOUS
<1> HIDE DEF step
<1>4. /\ new.step = step /\ new.call = call /\ new.ctx = request[r].ctx
      /\ new.found = request[r].found /\ new.audit = request[r].audit
      /\ new.status = request[r].status
  BY <1>1 DEF RequestState
<1> HIDE DEF new
<1>5. request'[r] = new /\ Alone(r)
  BY <1>2, BecomesFields
<1> QED BY <1>2, <1>3, <1>4, <1>5 DEF Arrives

Dropped(r) ==
  /\ InFlight(r)
  /\ request'[r].step = "lost"
  /\ request'[r].call = request[r].call
  /\ request'[r].ctx = request[r].ctx
  /\ request'[r].found = request[r].found
  /\ request'[r].audit = request[r].audit
  /\ request'[r].status = request[r].status

LEMMA EnvironmentFields ==
  ASSUME TypeOK, Environment, NEW r \in Requests
  PROVE  request'[r] = request[r] \/ Dropped(r)
<1>1. request[r] \in RequestState
  BY DEF TypeOK
<1>2. CASE Crash
  <2>1. request'[r] = IF InFlight(r) THEN [request[r] EXCEPT !.step = "lost"] ELSE request[r]
    BY <1>2 DEF Crash
  <2>2. /\ [request[r] EXCEPT !.step = "lost"].step = "lost"
        /\ [request[r] EXCEPT !.step = "lost"].call = request[r].call
        /\ [request[r] EXCEPT !.step = "lost"].ctx = request[r].ctx
        /\ [request[r] EXCEPT !.step = "lost"].found = request[r].found
        /\ [request[r] EXCEPT !.step = "lost"].audit = request[r].audit
        /\ [request[r] EXCEPT !.step = "lost"].status = request[r].status
    BY <1>1 DEF RequestState
  <2> QED BY <2>1, <2>2 DEF Dropped
<1>3. CASE ~Crash
  BY <1>3 DEF Environment, SetStatus, SetRole, RemoveUser, Change, Restart
<1> QED BY <1>2, <1>3

-----------------------------------------------------------------------------
(* The audit trail of a request, step by step. *)
Denied(audit) == audit # <<>> /\ audit[Len(audit)].result = "deny"

Passed == AuditEntry("hasPermission", TRUE)
Granted == AuditEntry("can", TRUE)

TrailAt(step, route, audit, status) ==
  /\ step \notin Ended =>
       /\ status = 0
       /\ audit = IF step = "read" /\ route # "helloPost" THEN <<Passed>> ELSE <<>>
  /\ step = "signIn" => route = "login"
  /\ step = "lost" => status = 0 /\ ~Denied(audit)
  /\ step = "done" =>
       /\ status = 200 /\ route = "hello" => audit = <<Passed, Granted>>
       /\ status = 200 /\ route = "helloPost" => audit = <<Granted>>
       /\ Denied(audit) <=> status = 403

Trail(r) ==
  TrailAt(request[r].step, request[r].call.route, request[r].audit, request[r].status)

TrailInv == \A r \in Requests : Trail(r)

(* Appending to a sequence of one entry. *)
LEMMA AppendToOne ==
  ASSUME NEW first, NEW second PROVE Append(<<first>>, second) = <<first, second>>
<1> DEFINE S == {first, second}
<1>1. <<first>> \in Seq(S) /\ second \in S
  OBVIOUS
<1>2. /\ Append(<<first>>, second) \in Seq(S) /\ Len(Append(<<first>>, second)) = 2
      /\ Append(<<first>>, second)[1] = first /\ Append(<<first>>, second)[2] = second
  BY <1>1
<1>3. /\ <<first, second>> \in Seq(S) /\ Len(<<first, second>>) = 2
      /\ <<first, second>>[1] = first /\ <<first, second>>[2] = second
  OBVIOUS
<1>4. \A i \in 1..2 : Append(<<first>>, second)[i] = <<first, second>>[i]
  BY <1>2, <1>3
<1> HIDE DEF S
<1> QED BY <1>2, <1>3, <1>4, SeqEqual

(* What one entry more or less means for the end of a trail. *)
LEMMA TrailEnds ==
  /\ ~Denied(<<>>) /\ ~Denied(<<Passed>>) /\ ~Denied(<<Granted>>) /\ ~Denied(<<Passed, Granted>>)
  /\ \A method \in {"hasPermission", "can"}, audit \in {<<>>, <<Passed>>} :
       Denied(Append(audit, AuditEntry(method, FALSE)))
  /\ Append(<<>>, Granted) = <<Granted>>
  /\ Append(<<>>, Passed) = <<Passed>>
  /\ Append(<<Passed>>, Granted) = <<Passed, Granted>>
<1>1. Passed.result = "allow" /\ Granted.result = "allow"
  BY DEF Passed, Granted, AuditEntry
<1>2. \A method \in {"hasPermission", "can"} : AuditEntry(method, FALSE).result = "deny"
  BY DEF AuditEntry
<1>3. ~Denied(<<>>) /\ ~Denied(<<Passed>>) /\ ~Denied(<<Granted>>) /\ ~Denied(<<Passed, Granted>>)
  BY <1>1 DEF Denied
<1>4. ASSUME NEW method \in {"hasPermission", "can"}
      PROVE  /\ Denied(Append(<<>>, AuditEntry(method, FALSE)))
             /\ Denied(Append(<<Passed>>, AuditEntry(method, FALSE)))
  <2> DEFINE entry == AuditEntry(method, FALSE)
  <2>1. entry.result = "deny"
    BY <1>2
  <2> HIDE DEF entry
  <2>2. Append(<<>>, entry) = <<entry>> /\ Append(<<Passed>>, entry) = <<Passed, entry>>
    BY AppendToOne
  <2>3. Denied(<<entry>>) /\ Denied(<<Passed, entry>>)
    BY <2>1 DEF Denied
  <2> QED BY <2>2, <2>3 DEF entry
<1>5. /\ Append(<<>>, Granted) = <<Granted>>
      /\ Append(<<>>, Passed) = <<Passed>>
      /\ Append(<<Passed>>, Granted) = <<Passed, Granted>>
  BY AppendToOne
<1> QED BY <1>3, <1>4, <1>5

LEMMA OutcomeKeepsTrail ==
  ASSUME TypeOK, NEW r \in Requests, Trail(r), Outcome(r) PROVE Trail(r)'
<1> DEFINE step == request[r].step
           route == request[r].call.route
<1>1. /\ request[r].status = 0 /\ step \notin Ended
      /\ request[r].audit = IF step = "read" /\ route # "helloPost" THEN <<Passed>> ELSE <<>>
      /\ step = "signIn" => route = "login"
  BY DEF Trail, TrailAt, Outcome, InFlight
<1>2. ~Denied(request[r].audit)
  BY <1>1, TrailEnds
<1>3. CASE Failing(r)
  BY <1>2, <1>3 DEF Failing, Fails, Ends, Trail, TrailAt, Ended
<1>4. CASE Moving(r)
  BY <1>1, <1>4 DEF Moving, Advances, Trail, TrailAt, Ended
<1>5. CASE Loading(r)
  BY <1>1, <1>5 DEF Loading, Trail, TrailAt, Ended
<1>6. CASE Passing(r)
  <2>1. request[r].audit = <<>>
    BY <1>1, <1>6 DEF Passing
  <2>2. request'[r].audit = IF route # "helloPost" THEN <<Passed>> ELSE <<>>
    BY <1>6, <2>1, TrailEnds DEF Passing, Passed, Public
  <2> QED BY <1>1, <1>6, <2>2 DEF Passing, Trail, TrailAt, Ended
<1>7. CASE Refusing(r)
  <2>1. request[r].audit = <<>>
    BY <1>1, <1>7 DEF Refusing
  <2>2. Denied(request'[r].audit) /\ request'[r].status = 403 /\ request'[r].step = "done"
    BY <1>7, <2>1, TrailEnds DEF Refusing, Denies, Ends
  <2> QED BY <2>2 DEF Trail, TrailAt, Ended
<1>8. CASE Storing(r)
  BY <1>1, <1>2, <1>8 DEF Storing, Advances, Fails, Ends, Trail, TrailAt, Ended
<1>9. CASE Confirming(r)
  BY <1>1, <1>2, <1>9 DEF Confirming, Ends, Trail, TrailAt, Ended
<1>10. CASE Finding(r)
  BY <1>1, <1>10 DEF Finding, Trail, TrailAt, Ended
<1>11. CASE SigningIn(r)
  BY <1>1, <1>2, <1>11 DEF SigningIn, Ends, Trail, TrailAt, Ended
<1>12. CASE Serving(r)
  <2>1. /\ request[r].audit = IF route # "helloPost" THEN <<Passed>> ELSE <<>>
        /\ request'[r].audit = Append(request[r].audit, Granted)
        /\ request'[r].step = "done" /\ request'[r].status # 403
        /\ request'[r].call.route = route
    <3>1. /\ step = "read" /\ request'[r].audit = Append(request[r].audit, Granted)
          /\ request'[r].step = "done" /\ request'[r].status \in {200, 400, 401, 500}
          /\ request'[r].call = request[r].call
      BY <1>12, Zenon DEF Serving, Ends, Granted
    <3> QED BY <1>1, <3>1
  <2>2. CASE route = "helloPost"
    <3>1. request'[r].audit = <<Granted>> /\ ~Denied(request'[r].audit)
      BY <2>1, <2>2, TrailEnds
    <3> QED BY <2>1, <2>2, <3>1 DEF Trail, TrailAt, Ended
  <2>3. CASE route # "helloPost"
    <3>1. request[r].audit = <<Passed>>
      BY <2>1, <2>3
    <3>2. request'[r].audit = <<Passed, Granted>>
      BY <2>1, <3>1, TrailEnds, Zenon
    <3>3. ~Denied(request'[r].audit)
      BY <3>2, TrailEnds, Zenon
    <3>4. /\ request'[r].step = "done" /\ request'[r].status # 403
          /\ request'[r].call.route # "helloPost"
      BY <2>1, <2>3
    <3> QED BY <3>2, <3>3, <3>4 DEF Trail, TrailAt, Ended
  <2> QED BY <2>2, <2>3
<1>13. CASE Denying(r)
  <2>1. request[r].audit = <<>> \/ request[r].audit = <<Passed>>
    BY <1>1
  <2>2. request'[r].audit = Append(request[r].audit, AuditEntry("can", FALSE))
    BY <1>13 DEF Denying, Denies, Ends
  <2>3. request'[r].step = "done" /\ request'[r].status = 403
    BY <1>13 DEF Denying, Denies, Ends
  <2>4. Denied(request'[r].audit)
    BY <2>1, <2>2, TrailEnds, Zenon
  <2> QED BY <2>3, <2>4 DEF Trail, TrailAt, Ended
<1> QED BY <1>3, <1>4, <1>5, <1>6, <1>7, <1>8, <1>9, <1>10, <1>11, <1>12, <1>13 DEF Outcome

LEMMA TrailStart == Init => TrailInv
<1> SUFFICES ASSUME Init, NEW r \in Requests PROVE Trail(r)
  BY DEF TrailInv
<1>1. request[r].step = "idle" /\ request[r].audit = <<>> /\ request[r].status = 0
  BY DEF Init
<1> QED BY <1>1 DEF Trail, TrailAt, Ended

LEMMA TrailKeeps == Inv /\ TrailInv /\ [Next]_vars => TrailInv'
<1> SUFFICES ASSUME Inv, TrailInv, [Next]_vars, NEW q \in Requests PROVE Trail(q)'
  BY DEF TrailInv
<1>1. TypeOK /\ Trail(q)
  BY DEF Inv, TypeInv, TrailInv
<1>2. CASE request'[q] = request[q]
  BY <1>1, <1>2 DEF Trail
<1>3. ASSUME NEW r \in Requests, NEW call \in Calls, Arrive(r, call) PROVE Trail(q)'
  <2>1. Arrives(r, call)
    BY <1>1, <1>3, ArriveFields
  <2> QED BY <1>1, <1>2, <2>1 DEF Arrives, Alone, Trail, TrailAt, Ended
<1>4. ASSUME NEW r \in Requests, Step(r) PROVE Trail(q)'
  <2>1. Outcome(r)
    BY <1>1, <1>4, StepOutcome
  <2>2. Alone(r)
    BY <2>1, OutcomeLeads DEF LeadsOn
  <2> QED BY <1>1, <1>2, <2>1, <2>2, OutcomeKeepsTrail DEF Alone
<1>5. CASE Environment
  <2>1. CASE Dropped(q)
    <3>1. ~Denied(request[q].audit)
      BY <1>1, <2>1, TrailEnds DEF Dropped, InFlight, Trail, TrailAt
    <3> QED BY <1>1, <2>1, <3>1 DEF Dropped, InFlight, Trail, TrailAt, Ended
  <2> QED BY <1>1, <1>2, <1>5, <2>1, EnvironmentFields
<1>6. CASE UNCHANGED vars
  BY <1>2, <1>6 DEF vars
<1> QED BY <1>3, <1>4, <1>5, <1>6 DEF Next

(* The audit trail tells the replies apart, for any number of requests: a      *)
(* user's data leaves only after every decision on the way was logged as       *)
(* allowed, and "not authorized" is the reply if and only if the last decision *)
(* was logged as denied (executeAuthZOperation, GlobalExceptionFilter).        *)
THEOREM AuditCorrect == Spec => []AuditMatchesReply
<1>1. Init => Inv /\ TrailInv
  BY InitKeeps, TrailStart
<1>2. Inv /\ TrailInv /\ [Next]_vars => (Inv /\ TrailInv)'
  BY NextKeeps, TrailKeeps
<1>3. Inv /\ TrailInv => AuditMatchesReply
  <2> SUFFICES ASSUME TrailInv, NEW r \in Requests
               PROVE  /\ request[r].status = 200 /\ request[r].call.route = "hello" =>
                           request[r].audit = <<Passed, Granted>>
                      /\ request[r].status = 200 /\ request[r].call.route = "helloPost" =>
                           request[r].audit = <<Granted>>
                      /\ Denied(request[r].audit) <=> request[r].status = 403
    BY DEF AuditMatchesReply, Passed, Granted, Denied
  <2>1. Trail(r)
    BY DEF TrailInv
  <2>2. CASE request[r].step = "done"
    BY <2>1, <2>2 DEF Trail, TrailAt, Ended
  <2>3. CASE request[r].step # "done"
    <3>1. request[r].status = 0 /\ ~Denied(request[r].audit)
      BY <2>1, <2>3, TrailEnds DEF Trail, TrailAt, Ended
    <3> QED BY <3>1
  <2> QED BY <2>2, <2>3
<1> QED BY <1>1, <1>2, <1>3, PTL DEF Spec

-----------------------------------------------------------------------------
(* The kinds of steps of the whole system. *)
ArrivalStep ==
  /\ \E r \in Requests, call \in Calls :
       /\ Arrives(r, call)
       /\ seen' = [seen EXCEPT ![r] = [active |-> ActiveAccounts, changed |-> {}]]
  /\ Quiet

RequestStep == \E r \in Requests : Outcome(r)

(* Others leave the address and the password of a row alone, or remove it. *)
ChangeStep ==
  \E id \in Present, row \in Account \cup {Absent} :
    /\ Change(id, row)
    /\ row # Absent => row.email = users[id].email /\ row.password = users[id].password

CrashStep ==
  /\ \A r \in Requests : request'[r] = request[r] \/ Dropped(r)
  /\ Quiet /\ UNCHANGED seen

IdleStep == UNCHANGED <<request, users, tokens, committed, seen>>

LEMMA NextKinds ==
  ASSUME Inv, [Next]_vars
  PROVE  ArrivalStep \/ RequestStep \/ ChangeStep \/ CrashStep \/ IdleStep
<1>1. TypeOK /\ \A id \in Present : id \in UserIds /\ users[id] \in Account
  BY DEF Inv, TypeInv, TypeOK, Present
<1>2. ASSUME NEW r \in Requests, NEW call \in Calls, Arrive(r, call) PROVE ArrivalStep
  <2>1. Arrives(r, call)
    BY <1>1, <1>2, ArriveFields
  <2>2. seen' = [seen EXCEPT ![r] = [active |-> ActiveAccounts, changed |-> {}]] /\ Quiet
    BY <1>2 DEF Arrive, Quiet, table
  <2> QED BY <2>1, <2>2 DEF ArrivalStep
<1>3. ASSUME NEW r \in Requests, Step(r) PROVE RequestStep
  BY <1>1, <1>3, StepOutcome DEF RequestStep
<1>4. ASSUME NEW id \in UserIds, NEW status \in Statuses, SetStatus(id, status) PROVE ChangeStep
  <2> DEFINE row == [users[id] EXCEPT !.status = status]
  <2>1. Change(id, row) /\ id \in Present /\ users[id] \in Account
    BY <1>1, <1>4 DEF SetStatus
  <2>2. row \in Account /\ row.email = users[id].email /\ row.password = users[id].password
    BY <2>1 DEF Account
  <2> HIDE DEF row
  <2> QED BY <2>1, <2>2 DEF ChangeStep
<1>5. ASSUME NEW id \in UserIds, NEW role \in UserRoles, SetRole(id, role) PROVE ChangeStep
  <2> DEFINE row == [users[id] EXCEPT !.role = role, !.rank = RankOf[role]]
  <2>1. Change(id, row) /\ id \in Present /\ users[id] \in Account
    BY <1>1, <1>5 DEF SetRole
  <2>2. row \in Account /\ row.email = users[id].email /\ row.password = users[id].password
    BY <2>1, RankTyped DEF Account
  <2> HIDE DEF row
  <2> QED BY <2>1, <2>2 DEF ChangeStep
<1>6. ASSUME NEW id \in UserIds, RemoveUser(id) PROVE ChangeStep
  BY <1>6 DEF RemoveUser, ChangeStep, Change
<1>7. CASE Crash
  <2>1. Environment
    BY <1>7 DEF Environment
  <2>2. \A r \in Requests : request'[r] = request[r] \/ Dropped(r)
    BY <1>1, <2>1, EnvironmentFields
  <2> QED BY <1>7, <2>2 DEF CrashStep, Crash, Quiet, table, history
<1>8. CASE Restart
  BY <1>8 DEF IdleStep, Restart, table, history
<1>9. CASE UNCHANGED vars
  BY <1>9 DEF IdleStep, vars
<1> QED BY <1>2, <1>3, <1>4, <1>5, <1>6, <1>7, <1>8, <1>9 DEF Next, Environment

LEMMA OutcomeAlone ==
  ASSUME NEW r \in Requests, Outcome(r)
  PROVE  /\ Alone(r)
         /\ request'[r].call = request[r].call
         /\ request[r].step \notin {"idle", "done", "lost"}
         /\ UNCHANGED seen
<1>1. InFlight(r) /\ UNCHANGED seen
  BY DEF Outcome
<1>2. CASE Failing(r) \/ Moving(r) \/ Loading(r) \/ Passing(r)
  BY <1>1, <1>2 DEF InFlight, Ended, Failing, Moving, Loading, Passing, Fails, Ends, Advances
<1>3. CASE Refusing(r) \/ Storing(r) \/ Confirming(r) \/ Finding(r)
  BY <1>1, <1>3 DEF InFlight, Ended, Refusing, Storing, Confirming, Finding,
                    Fails, Denies, Ends, Advances
<1>4. CASE SigningIn(r) \/ Serving(r)
  BY <1>1, <1>4 DEF InFlight, Ended, SigningIn, Serving, Ends
<1>5. CASE Denying(r)
  BY <1>1, <1>5 DEF InFlight, Ended, Denying, Denies, Ends
<1> QED BY <1>2, <1>3, <1>4, <1>5 DEF Outcome

(* A request keeps what it asked for, and what it was answered. *)
LEMMA RequestsKeep ==
  ASSUME Inv, [Next]_vars, NEW q \in Requests, request[q].step # "idle"
  PROVE  /\ request'[q].call = request[q].call
         /\ request'[q].step # "idle"
         /\ request[q].step \in Ended => request'[q] = request[q]
<1>1. CASE ArrivalStep
  BY <1>1 DEF ArrivalStep, Arrives, Alone
<1>2. CASE RequestStep
  <2>1. PICK r \in Requests : Outcome(r)
    BY <1>2 DEF RequestStep
  <2>2. request'[r].step # "idle"
    BY <2>1, OutcomeLeads DEF LeadsOn
  <2> QED BY <2>1, <2>2, OutcomeAlone DEF Alone, Ended
<1>3. CASE ChangeStep
  BY <1>3 DEF ChangeStep, Change
<1>4. CASE CrashStep
  BY <1>4 DEF CrashStep, Dropped, InFlight
<1>5. CASE IdleStep
  BY <1>5 DEF IdleStep
<1> QED BY <1>1, <1>2, <1>3, <1>4, <1>5, NextKinds

-----------------------------------------------------------------------------
(* A row that a request inserted names what the request asked for. *)
RowsClaimed ==
  \A id \in Requests :
    id \in Present =>
      /\ id \in committed
      /\ users[id].email = request[id].call.email
      /\ users[id].password = request[id].call.password

(* An INSERT is committed by a registration that has come as far. *)
CommitsAsked ==
  \A r \in committed :
    /\ request[r].step \in {"respond", "done", "lost"}
    /\ request[r].call.route = "register"
    /\ request[r].call \in Calls /\ request[r].call.valid

SavesRegister ==
  \A r \in Requests :
    /\ request[r].step = "save" => request[r].call.route = "register"
    /\ request[r].step = "respond" => r \in committed

ClaimInv == RowsClaimed /\ CommitsAsked /\ SavesRegister

LEMMA ClaimStart == Init => ClaimInv
BY DEF Init, ClaimInv, RowsClaimed, CommitsAsked, SavesRegister, Present, Seeds

(* What a request's step does to the table of claims. *)
LEMMA ClaimKeeps == Inv /\ ClaimInv /\ [Next]_vars => ClaimInv'
<1> SUFFICES ASSUME Inv, ClaimInv, [Next]_vars PROVE ClaimInv'
  OBVIOUS
<1>1. /\ TypeOK /\ committed \subseteq Requests /\ Requests \subseteq UserIds
      /\ users \in [UserIds -> Account \cup {Absent}]
      /\ \A r \in Requests : Prepared(request[r])
  BY RequestsAreIds DEF Inv, TypeInv, TypeOK
<1>2. CASE ArrivalStep
  BY <1>1, <1>2 DEF ArrivalStep, Arrives, Alone, Quiet, ClaimInv, RowsClaimed, CommitsAsked,
     SavesRegister, Present
<1>3. CASE RequestStep
  <2>1. PICK r \in Requests : Outcome(r)
    BY <1>3 DEF RequestStep
  <2>2. /\ Alone(r) /\ request'[r].call = request[r].call
        /\ request[r].step \notin {"idle", "done", "lost"}
    BY <2>1, OutcomeAlone
  <2>3. \A q \in Requests : request'[q].call = request[q].call
    BY <2>2 DEF Alone
  <2>4. CASE Storing(r)
    <3> DEFINE row == NewAccount(request[r].call)
    <3>1. request[r].call \in Calls /\ request[r].call.valid
      BY <1>1, <2>4 DEF Storing, Prepared
    <3>2. row.email = request[r].call.email /\ row.password = request[r].call.password
      BY DEF NewAccount
    <3> HIDE DEF row
    <3>3. users' = [users EXCEPT ![r] = row] /\ committed' = committed \cup {r}
      BY <2>4 DEF Storing, Inserts, row
    <3>4. users'[r] = row /\ \A id \in UserIds \ {r} : users'[id] = users[id]
      BY <1>1, <3>3
    <3>5. request'[r].step \in {"respond", "done"} /\ request[r].step = "save"
      BY <2>4 DEF Storing, Advances, Fails, Ends
    <3>6. RowsClaimed'
      BY <1>1, <2>3, <3>2, <3>3, <3>4 DEF ClaimInv, RowsClaimed, Present
    <3>7. CommitsAsked'
      BY <1>1, <2>2, <2>3, <3>1, <3>3, <3>5 DEF ClaimInv, CommitsAsked, SavesRegister, Alone
    <3>8. SavesRegister'
      BY <1>1, <2>2, <2>3, <3>3, <3>5 DEF ClaimInv, SavesRegister, Alone
    <3> QED BY <3>6, <3>7, <3>8 DEF ClaimInv
  <2>5. CASE ~Storing(r)
    <3>1. UNCHANGED <<users, committed>>
      BY <2>1, <2>5 DEF Outcome, Failing, Moving, Loading, Passing, Refusing, Confirming, Finding,
         SigningIn, Serving, Denying, Quiet
    <3>2. /\ request'[r].step # "respond"
          /\ request'[r].step = "save" => request[r].call.route = "register"
          /\ request[r].step = "respond" => request'[r].step = "done"
      BY <2>1, <2>5, OutcomeLeads DEF LeadsOn
    <3>3. RowsClaimed'
      BY <2>3, <3>1 DEF ClaimInv, RowsClaimed, Present
    <3>4. CommitsAsked'
      BY <1>1, <2>2, <2>3, <3>1, <3>2 DEF ClaimInv, CommitsAsked, Alone
    <3>5. SavesRegister'
      BY <1>1, <2>2, <2>3, <3>1, <3>2 DEF ClaimInv, SavesRegister, Alone
    <3> QED BY <3>3, <3>4, <3>5 DEF ClaimInv
  <2> QED BY <2>4, <2>5
<1>4. CASE ChangeStep
  <2>1. PICK id \in Present, row \in Account \cup {Absent} :
          /\ Change(id, row)
          /\ row # Absent => row.email = users[id].email /\ row.password = users[id].password
    BY <1>4 DEF ChangeStep
  <2>2. users' = [users EXCEPT ![id] = row] /\ UNCHANGED <<request, committed>>
    BY <2>1 DEF Change
  <2>3. \A a \in Present' : /\ a \in Present
                            /\ users'[a].email = users[a].email
                            /\ users'[a].password = users[a].password
    BY <1>1, <2>1, <2>2 DEF Present
  <2> QED BY <2>2, <2>3 DEF ClaimInv, RowsClaimed, CommitsAsked, SavesRegister
<1>5. CASE CrashStep
  <2>1. UNCHANGED <<users, committed>>
    BY <1>5 DEF CrashStep, Quiet
  <2>2. \A q \in Requests : /\ request'[q].call = request[q].call
                            /\ request'[q].step \in {request[q].step, "lost"}
    BY <1>5 DEF CrashStep, Dropped
  <2> QED BY <1>1, <2>1, <2>2 DEF ClaimInv, RowsClaimed, CommitsAsked, SavesRegister, Present
<1>6. CASE IdleStep
  BY <1>6 DEF IdleStep, ClaimInv, RowsClaimed, CommitsAsked, SavesRegister, Present
<1> QED BY <1>2, <1>3, <1>4, <1>5, <1>6, NextKinds

-----------------------------------------------------------------------------
(* The account that a login found, if a request registered it, is the one whose *)
(* address the login names.                                                     *)
FoundRegistered ==
  \A r \in Requests :
    request[r].step = "signIn" /\ request[r].found.userId \in Requests =>
      LET id == request[r].found.userId
      IN  /\ id \in committed
          /\ request[id].call.email = request[r].call.email
          /\ request[id].call.password = request[r].found.password

TokenInv == TokensEarned /\ FoundRegistered

LEMMA TokenStart == Init => TokenInv
BY DEF Init, TokenInv, TokensEarned, FoundRegistered

(* What was true of an answered request and of a registration stays true. *)
LEMMA EarnedStays ==
  ASSUME Inv, TrailInv, ClaimInv, [Next]_vars, TokensEarned, NEW id \in tokens \ Seeds,
         committed \subseteq committed'
  PROVE  \E r \in Requests :
           /\ request'[r].call.route = "login" /\ request'[r].status = 200
           /\ request'[id].call.route = "register" /\ id \in committed'
           /\ request'[r].call.email = request'[id].call.email
           /\ request'[r].call.password = request'[id].call.password
<1>1. PICK r \in Requests :
        /\ request[r].call.route = "login" /\ request[r].status = 200
        /\ request[id].call.route = "register" /\ id \in committed
        /\ request[r].call.email = request[id].call.email
        /\ request[r].call.password = request[id].call.password
  BY DEF TokensEarned
<1>2. request[r].step = "done"
  BY <1>1 DEF TrailInv, Trail, TrailAt, Ended
<1>3. request'[r] = request[r]
  BY <1>2, RequestsKeep DEF Ended
<1>4. id \in Requests /\ request[id].step # "idle"
  BY <1>1 DEF ClaimInv, CommitsAsked, Inv, TypeInv, TypeOK
<1>5. request'[id].call = request[id].call
  BY <1>4, RequestsKeep
<1> QED BY <1>1, <1>3, <1>5

LEMMA TokenKeeps == Inv /\ TrailInv /\ ClaimInv /\ TokenInv /\ [Next]_vars => TokenInv'
<1> SUFFICES ASSUME Inv, TrailInv, ClaimInv, TokenInv, [Next]_vars PROVE TokenInv'
  OBVIOUS
<1>1. /\ TypeOK /\ committed \subseteq Requests
      /\ \A r \in Requests : Prepared(request[r])
      /\ tokens \subseteq UserIds
  BY DEF Inv, TypeInv, TypeOK
<1>2. committed \subseteq committed'
  BY NextKinds, OutcomeLeads DEF ArrivalStep, RequestStep, LeadsOn, Quiet, ChangeStep, Change,
     CrashStep, IdleStep
<1>3. \A id \in committed : /\ request[id].step # "idle"
                            /\ request'[id].call = request[id].call
  BY <1>1, RequestsKeep DEF ClaimInv, CommitsAsked
<1>4. ASSUME tokens' = tokens PROVE TokensEarned'
  BY <1>2, <1>4, EarnedStays DEF TokenInv, TokensEarned
<1>5. ASSUME \A q \in Requests :
               request'[q].step = "signIn" =>
                 /\ request[q].step = "signIn"
                 /\ request'[q].found = request[q].found
                 /\ request'[q].call = request[q].call
      PROVE  FoundRegistered'
  BY <1>2, <1>3, <1>5, SMTT(30) DEF TokenInv, FoundRegistered
<1>6. CASE ArrivalStep
  BY <1>4, <1>5, <1>6 DEF ArrivalStep, Arrives, Alone, Quiet, TokenInv
<1>7. CASE RequestStep
  <2>1. PICK r \in Requests : Outcome(r)
    BY <1>7 DEF RequestStep
  <2>2. Alone(r) /\ request'[r].call = request[r].call
    BY <2>1, OutcomeAlone
  <2>3. CASE Finding(r)
    <3>1. PICK found \in Holders(request[r].call.email) \cap ActiveAccounts :
            request'[r].found = [userId |-> found, password |-> users[found].password]
      BY <2>3 DEF Finding
    <3>2. found \in Present /\ users[found].email = request[r].call.email
      BY <3>1 DEF Holders
    <3>3. found \in Requests => /\ found \in committed
                                /\ request[found].call.email = request[r].call.email
                                /\ request[found].call.password = users[found].password
      BY <3>2 DEF ClaimInv, RowsClaimed
    <3>4. request'[r].found.userId = found /\ request'[r].found.password = users[found].password
      BY <3>1
    <3>5. tokens' = tokens
      BY <2>3 DEF Finding, Quiet
    <3>6. FoundRegistered'
      BY <1>2, <1>3, <2>2, <3>3, <3>4, SMTT(30) DEF TokenInv, FoundRegistered, Alone
    <3> QED BY <1>4, <3>5, <3>6 DEF TokenInv
  <2>4. CASE SigningIn(r)
    <3> DEFINE found == request[r].found.userId
    <3>1. /\ tokens' = tokens \cup {found}
          /\ request[r].step = "signIn" /\ request'[r].step = "done"
          /\ found \notin Seeds => request'[r].status = 200
          /\ request[r].found.password = request[r].call.password
      BY <2>4 DEF SigningIn, Ends
    <3>2. request[r].call.route = "login"
      BY <3>1 DEF TrailInv, Trail, TrailAt
    <3>3. found \in UserIds
      BY <1>1, <3>1 DEF Prepared
    <3>4. FoundRegistered'
      BY <1>5, <2>2, <3>1 DEF Alone
    <3>5. ASSUME NEW id \in tokens' \ Seeds, id = found
          PROVE  \E q \in Requests :
                   /\ request'[q].call.route = "login" /\ request'[q].status = 200
                   /\ request'[id].call.route = "register" /\ id \in committed'
                   /\ request'[q].call.email = request'[id].call.email
                   /\ request'[q].call.password = request'[id].call.password
      <4>1. id \in Requests
        BY <3>3, <3>5 DEF Seeds
      <4>2. /\ id \in committed /\ request[id].call.email = request[r].call.email
            /\ request[id].call.password = request[r].call.password
        BY <3>1, <3>5, <4>1 DEF TokenInv, FoundRegistered
      <4>3. request[id].call.route = "register"
        BY <4>2 DEF ClaimInv, CommitsAsked
      <4>4. request'[r].status = 200
        BY <3>1, <3>5
      <4> WITNESS r \in Requests
      <4> QED BY <1>2, <1>3, <2>2, <3>1, <3>2, <4>2, <4>3, <4>4
    <3>6. TokensEarned'
      BY <1>2, <3>1, <3>5, EarnedStays DEF TokenInv, TokensEarned
    <3> QED BY <3>4, <3>6 DEF TokenInv
  <2>5. CASE ~Finding(r) /\ ~SigningIn(r)
    <3>1. tokens' = tokens
      BY <2>1, <2>5 DEF Outcome, Failing, Moving, Loading, Passing, Refusing, Storing, Confirming,
         Serving, Denying, Quiet
    <3>2. request'[r].step # "signIn"
      BY <2>1, <2>5, OutcomeLeads DEF LeadsOn
    <3> QED BY <1>4, <1>5, <2>2, <3>1, <3>2 DEF TokenInv, Alone
  <2> QED BY <2>3, <2>4, <2>5
<1>8. CASE ChangeStep
  BY <1>4, <1>5, <1>8 DEF ChangeStep, Change, TokenInv
<1>9. CASE CrashStep
  BY <1>4, <1>5, <1>9 DEF CrashStep, Dropped, Quiet, TokenInv
<1>10. CASE IdleStep
  BY <1>4, <1>5, <1>10 DEF IdleStep, TokenInv
<1> QED BY <1>6, <1>7, <1>8, <1>9, <1>10, NextKinds

(* A token signed here was earned: some login named the address and password    *)
(* that the account was registered with, whatever happened to the account and   *)
(* however many requests ran meanwhile (AuthNService.login).                    *)
THEOREM TokensCorrect == Spec => []TokensEarned
<1> DEFINE Strong == Inv /\ TrailInv /\ ClaimInv /\ TokenInv
<1>1. Init => Strong
  BY InitKeeps, TrailStart, ClaimStart, TokenStart
<1>2. Strong /\ [Next]_vars => Strong'
  BY NextKeeps, TrailKeeps, ClaimKeeps, TokenKeeps
<1>3. Strong => TokensEarned
  BY DEF TokenInv
<1> QED BY <1>1, <1>2, <1>3, PTL DEF Spec

-----------------------------------------------------------------------------
(* The application's configuration: an active account may read its own record, *)
(* whatever its role, and no decision is positive for an account that is not.  *)
LEMMA ReadPermissions ==
  ASSUME NEW role \in UserRoles
  PROVE  /\ "READ" \in DOMAIN UserPermissions(role)
         /\ UserPermissions(role)["READ"] \in {<<"ALL">>, <<"ALL_RANK">>, <<"ASSIGNED", "OWN">>, <<"OWN">>}
<1>1. "READ" \in UserActions
  BY DEF UserActions
<1>2. CASE role = "SUPER_ADMIN"
  BY <1>1, <1>2 DEF UserPermissions
<1>3. CASE role = "ADMIN"
  BY <1>1, <1>3 DEF UserPermissions
<1>4. CASE role = "MANAGER"
  BY <1>4 DEF UserPermissions
<1>5. CASE role \in {"AGENT", "SELLER"}
  BY <1>5 DEF UserPermissions
<1> QED BY <1>2, <1>3, <1>4, <1>5 DEF UserRoles

LEMMA RankTextReflexive ==
  ASSUME NEW rank \in Ranks PROVE TextAtMost(RankText(rank), RankText(rank))
<1>1. rank \in {0, 1, 2, 3}
  BY DEF Ranks, RankOf, UserRoles
<1>2. RankText(rank) = <<rank>>
  BY <1>1 DEF RankText
<1>3. <<rank>> = SubSeq(<<rank>>, 1, Len(<<rank>>))
  OBVIOUS
<1> QED BY <1>2, <1>3 DEF TextAtMost

LEMMA OwnLevels ==
  ASSUME NEW ctx \in UserContexts,
         NEW object, object = [userId |-> ctx.userId, rank |-> ctx.rank]
  PROVE  \A level \in {"ALL", "ALL_RANK", "OWN"} :
           LevelHolds(UserRegistry, ctx, "USER", level, object)
<1>1. object \in UserObjects /\ object.userId = ctx.userId /\ object.rank = ctx.rank
      /\ ctx.rank \in Ranks
  BY DEF UserObjects, UserContexts
<1>2. All(ctx, object) /\ Own(ctx, object)
  BY <1>1 DEF All, Own
<1>3. AllRank(ctx, object)
  BY <1>1, RankTextReflexive DEF AllRank
<1>4. <<ctx, object>> \in Resolver(All) /\ <<ctx, object>> \in Resolver(Own)
      /\ <<ctx, object>> \in Resolver(AllRank)
  BY <1>1, <1>2, <1>3 DEF Resolver
<1>5. /\ DOMAIN UserAccessLevels = {"ALL", "ALL_RANK", "OWN", "ASSIGNED"}
      /\ UserAccessLevels["ALL"].fn = Resolver(All)
      /\ UserAccessLevels["ALL_RANK"].fn = Resolver(AllRank)
      /\ UserAccessLevels["OWN"].fn = Resolver(Own)
  BY DEF UserAccessLevels
<1>6. UserRegistry.definitions["USER"].accessLevels = UserAccessLevels
  BY DEF UserRegistry, UserDefinition
<1> QED BY <1>4, <1>5, <1>6 DEF LevelHolds

LEMMA UserRolePermissions ==
  ASSUME NEW ctx \in UserContexts
  PROVE  /\ HasRolePermissions(UserRegistry, ctx, "USER")
         /\ RolePermissionsOf(UserRegistry, ctx, "USER").permissions = UserPermissions(ctx.role)
<1>1. ctx.role \in UserRoles
  BY DEF UserContexts
<1>2. /\ DOMAIN UserRegistry.definitions = {"USER"}
      /\ UserRegistry.definitions["USER"] = UserDefinition
  BY DEF UserRegistry
<1>3. /\ DOMAIN UserDefinition.roles = UserRoles
      /\ UserDefinition.roles[ctx.role].permissions = UserPermissions(ctx.role)
  BY <1>1 DEF UserDefinition
<1> QED BY <1>1, <1>2, <1>3 DEF HasRolePermissions, RolePermissionsOf

LEMMA ValidMeansActive ==
  ASSUME NEW ctx \in UserContexts PROVE ValidContext(UserRegistry, ctx) <=> ctx.isActive
<1>1. ctx # NoContext /\ ctx.role # NoRole
  BY MarkersOutside DEF UserContexts
<1>2. UserRegistry.checks = {ActiveAccount}
  BY DEF UserRegistry
<1> QED BY <1>1, <1>2 DEF ValidContext, ActiveAccount

LEMMA OwnRecordReadable ==
  ASSUME NEW ctx \in UserContexts, ctx.isActive
  PROVE  /\ HasPermission(UserRegistry, ctx, "USER", "READ", {})
         /\ Can(UserRegistry, ctx, "USER", "READ", [userId |-> ctx.userId, rank |-> ctx.rank])
<1> DEFINE object == [userId |-> ctx.userId, rank |-> ctx.rank]
           granted == GrantedList(UserRegistry, ctx, "USER", "READ")
<1>1. ctx.role \in UserRoles
  BY DEF UserContexts
<1>2. /\ HasAction(UserRegistry, ctx, "USER", "READ")
      /\ granted \in {<<"ALL">>, <<"ALL_RANK">>, <<"ASSIGNED", "OWN">>, <<"OWN">>}
  BY <1>1, ReadPermissions, UserRolePermissions DEF HasAction, GrantedList
<1>3. granted # <<>>
  BY <1>2
<1>4. \E i \in DOMAIN granted : granted[i] \in {"ALL", "ALL_RANK", "OWN"}
  <2>1. CASE granted = <<"ASSIGNED", "OWN">>
    <3>1. 2 \in DOMAIN granted /\ granted[2] = "OWN"
      BY <2>1
    <3> QED BY <3>1
  <2>2. CASE granted \in {<<"ALL">>, <<"ALL_RANK">>, <<"OWN">>}
    <3>1. 1 \in DOMAIN granted /\ granted[1] \in {"ALL", "ALL_RANK", "OWN"}
      BY <2>2
    <3> QED BY <3>1
  <2> QED BY <1>2, <2>1, <2>2
<1>5. HoldingPositions(UserRegistry, ctx, "USER", "READ", object) # {}
  BY <1>4, OwnLevels DEF HoldingPositions
<1>6. ValidContext(UserRegistry, ctx)
  BY ValidMeansActive
<1> HIDE DEF object
<1>7. HasPermission(UserRegistry, ctx, "USER", "READ", {})
  BY <1>2, <1>3, <1>6 DEF HasPermission
<1>8. Can(UserRegistry, ctx, "USER", "READ", object)
  BY <1>2, <1>5, <1>6 DEF Can
<1> QED BY <1>7, <1>8 DEF object

-----------------------------------------------------------------------------
(* While a request is in flight, "seen" holds what is active now, and what it   *)
(* holds unchanged is still active.                                             *)
Watched ==
  \A r \in Requests :
    InFlight(r) =>
      /\ ActiveAccounts \subseteq seen[r].active
      /\ seen[r].active \ seen[r].changed \subseteq ActiveAccounts

(* From one state to the next: what was seen stays, and a row that nobody changed *)
(* is what it was.                                                               *)
SeenGrows(q) ==
  /\ InFlight(q) =>
       /\ seen[q].active \subseteq seen'[q].active
       /\ \A id \in seen'[q].active \ seen'[q].changed :
            id \in seen[q].active \ seen[q].changed /\ users'[id] = users[id]
  /\ request[q].step \in Ended => seen'[q] = seen[q]

LEMMA WatchedStart == Init => Watched
BY DEF Init, Watched, InFlight

(* The rows of active accounts, when a request's own step is all that happens. *)
LEMMA OutcomeKeepsActive ==
  ASSUME Inv, ClaimInv, NEW r \in Requests, Outcome(r)
  PROVE  /\ ActiveAccounts' = ActiveAccounts
         /\ \A id \in ActiveAccounts : users'[id] = users[id]
<1>1. users \in [UserIds -> Account \cup {Absent}] /\ Requests \subseteq UserIds
  BY RequestsAreIds DEF Inv, TypeInv, TypeOK
<1>2. CASE Storing(r)
  <2> DEFINE row == NewAccount(request[r].call)
  <2>1. row.status = "PENDING"
    BY DEF NewAccount
  <2> HIDE DEF row
  <2>2. users' = [users EXCEPT ![r] = row] /\ request[r].step = "save"
    BY <1>2 DEF Storing, Inserts, row
  <2>3. r \notin Present
    BY <2>2 DEF ClaimInv, RowsClaimed, CommitsAsked
  <2>4. users'[r] = row /\ \A id \in UserIds \ {r} : users'[id] = users[id]
    BY <1>1, <2>2
  <2>5. \A id \in UserIds : id \in ActiveAccounts' <=> id \in ActiveAccounts
    BY <2>1, <2>3, <2>4 DEF ActiveAccounts, Present
  <2>6. \A id \in ActiveAccounts : users'[id] = users[id]
    BY <2>3, <2>4 DEF ActiveAccounts, Present
  <2> QED BY <2>5, <2>6 DEF ActiveAccounts, Present
<1>3. CASE ~Storing(r)
  <2>1. UNCHANGED users
    BY <1>3 DEF Outcome, Failing, Moving, Loading, Passing, Refusing, Confirming, Finding,
       SigningIn, Serving, Denying, Quiet
  <2> QED BY <2>1 DEF ActiveAccounts, Present
<1> QED BY <1>2, <1>3

LEMMA WatchedKeeps ==
  ASSUME Inv, ClaimInv, Watched, [Next]_vars
  PROVE  Watched' /\ \A q \in Requests : SeenGrows(q)
<1>1. /\ users \in [UserIds -> Account \cup {Absent}]
      /\ seen \in [Requests -> [active: SUBSET UserIds, changed: SUBSET UserIds]]
  BY DEF Inv, TypeInv, TypeOK
<1>2. ActiveAccounts \subseteq UserIds
  BY DEF ActiveAccounts, Present
<1>3. CASE ArrivalStep
  <2>1. PICK r \in Requests, call \in Calls :
          /\ Arrives(r, call)
          /\ seen' = [seen EXCEPT ![r] = [active |-> ActiveAccounts, changed |-> {}]]
    BY <1>3 DEF ArrivalStep
  <2>2. UNCHANGED users /\ ActiveAccounts' = ActiveAccounts
    BY <1>3 DEF ArrivalStep, Quiet, ActiveAccounts, Present
  <2>3. /\ seen'[r].active = ActiveAccounts /\ seen'[r].changed = {}
        /\ \A q \in Requests \ {r} : seen'[q] = seen[q] /\ request'[q] = request[q]
        /\ request[r].step = "idle"
    BY <1>1, <2>1 DEF Arrives, Alone
  <2>4. Watched'
    BY <2>2, <2>3 DEF Watched, InFlight
  <2>5. \A q \in Requests : SeenGrows(q)
    BY <2>2, <2>3 DEF SeenGrows, InFlight, Ended, Watched
  <2> QED BY <2>4, <2>5
<1>4. CASE RequestStep
  <2>1. PICK r \in Requests : Outcome(r)
    BY <1>4 DEF RequestStep
  <2>2. /\ ActiveAccounts' = ActiveAccounts
        /\ \A id \in ActiveAccounts : users'[id] = users[id]
    BY <2>1, OutcomeKeepsActive
  <2>3. /\ seen' = seen /\ Alone(r) /\ InFlight(r)
    BY <2>1, OutcomeAlone DEF Outcome
  <2>4. \A q \in Requests : InFlight(q)' => InFlight(q)
    BY <2>3 DEF InFlight, Alone
  <2>5. Watched'
    BY <2>2, <2>3, <2>4 DEF Watched
  <2>6. \A q \in Requests : SeenGrows(q)
    BY <2>2, <2>3 DEF SeenGrows, Watched
  <2> QED BY <2>5, <2>6
<1>5. CASE ChangeStep
  <2>1. PICK id \in Present, row \in Account \cup {Absent} : Change(id, row)
    BY <1>5 DEF ChangeStep
  <2>2. /\ users' = [users EXCEPT ![id] = row] /\ UNCHANGED request
        /\ seen' = [r \in Requests |->
             IF InFlight(r) THEN [active |-> seen[r].active \cup ActiveAccounts',
                                  changed |-> seen[r].changed \cup {id}]
             ELSE seen[r]]
    BY <2>1 DEF Change
  <2>3. \A a \in UserIds \ {id} : users'[a] = users[a]
    BY <1>1, <2>2
  <2>4. \A a \in UserIds \ {id} : a \in ActiveAccounts' <=> a \in ActiveAccounts
    BY <2>3 DEF ActiveAccounts, Present
  <2>5. ActiveAccounts' \subseteq UserIds
    BY DEF ActiveAccounts, Present
  <2>6. ASSUME NEW q \in Requests, InFlight(q)
        PROVE  /\ seen'[q].active = seen[q].active \cup ActiveAccounts'
               /\ seen'[q].changed = seen[q].changed \cup {id}
    BY <2>2, <2>6
  <2>7. \A q \in Requests : InFlight(q)' <=> InFlight(q)
    BY <2>2 DEF InFlight
  <2>8. Watched'
    <3> SUFFICES ASSUME NEW q \in Requests, InFlight(q)
                 PROVE  /\ ActiveAccounts' \subseteq seen'[q].active
                        /\ seen'[q].active \ seen'[q].changed \subseteq ActiveAccounts'
      BY <2>7 DEF Watched
    <3>1. seen[q].active \ seen[q].changed \subseteq ActiveAccounts
      BY DEF Watched
    <3> QED BY <1>2, <2>4, <2>6, <3>1
  <2>9. ASSUME NEW q \in Requests PROVE SeenGrows(q)
    <3>1. CASE InFlight(q)
      <4>1. /\ ActiveAccounts \subseteq seen[q].active
            /\ seen[q].active \ seen[q].changed \subseteq ActiveAccounts
        BY <3>1 DEF Watched
      <4>2. ASSUME NEW a \in seen'[q].active \ seen'[q].changed
            PROVE  a \in seen[q].active \ seen[q].changed /\ users'[a] = users[a]
        <5>1. a # id /\ a \notin seen[q].changed
          BY <2>6, <3>1
        <5>2. a \in seen[q].active
          BY <2>4, <2>5, <2>6, <3>1, <4>1, <5>1
        <5>3. a \in UserIds
          BY <1>2, <4>1, <5>1, <5>2
        <5> QED BY <2>3, <5>1, <5>2, <5>3
      <4> QED BY <2>6, <3>1, <4>2 DEF SeenGrows, InFlight
    <3>2. CASE ~InFlight(q)
      BY <2>2, <3>2 DEF SeenGrows
    <3>3. request[q].step \in Ended => ~InFlight(q)
      BY DEF InFlight
    <3> QED BY <3>1, <3>2
  <2> QED BY <2>8, <2>9
<1>6. CASE CrashStep \/ IdleStep
  <2>1. UNCHANGED <<users, seen>> /\ ActiveAccounts' = ActiveAccounts
    BY <1>6 DEF CrashStep, IdleStep, Quiet, ActiveAccounts, Present
  <2>2. \A q \in Requests : InFlight(q)' => InFlight(q)
    BY <1>6 DEF CrashStep, IdleStep, Dropped, InFlight, Ended
  <2> QED BY <2>1, <2>2 DEF Watched, SeenGrows
<1> QED BY <1>3, <1>4, <1>5, <1>6, NextKinds

-----------------------------------------------------------------------------
(* What a request in flight relies on: a context that says "active" was active,  *)
(* and one of an account that nobody changed still tells the truth.              *)
Trusts(r) ==
  /\ request[r].step = "idle" => request[r].ctx = NoContext
  /\ InFlight(r) =>
       /\ request[r].ctx # NoContext =>
            /\ request[r].ctx.isActive => request[r].ctx.userId \in seen[r].active
            /\ request[r].ctx.userId \in seen[r].active \ seen[r].changed =>
                 /\ request[r].ctx.isActive
                 /\ request[r].ctx.rank = users[request[r].ctx.userId].rank
       /\ request[r].step = "read" =>
            request[r].ctx # NoContext /\ request[r].call.route # "login"
       /\ request[r].step = "signIn" => request[r].found.userId \in seen[r].active

(* What the answer of a request says of the account it acted for. *)
Answered(r) ==
  /\ request[r].status = 200 =>
       (IF request[r].call.route = "login" THEN request[r].found.userId
        ELSE request[r].ctx.userId) \in seen[r].active
  /\ request[r].status = 403 =>
       \/ request[r].ctx.userId \notin seen[r].active
       \/ request[r].ctx.userId \in seen[r].changed

TrustInv == \A r \in Requests : Trusts(r) /\ Answered(r)

LEMMA TrustStart == Init => TrustInv
BY DEF Init, TrustInv, Trusts, Answered, InFlight

(* A request that stays as it is, while others act. *)
LEMMA StillTrusts ==
  ASSUME NEW r \in Requests, Trusts(r), SeenGrows(r),
         request'[r].ctx = request[r].ctx, request'[r].call = request[r].call,
         request'[r].found = request[r].found, InFlight(r),
         request'[r].step # "idle",
         request'[r].step = "read" => request[r].ctx # NoContext /\ request[r].call.route # "login",
         request'[r].step = "signIn" => request[r].step = "signIn"
  PROVE  Trusts(r)'
BY DEF Trusts, SeenGrows, InFlight

LEMMA OutcomeTrusts ==
  ASSUME Inv, TrailInv, ClaimInv, Watched, [Next]_vars, NEW r \in Requests, Outcome(r), Trusts(r),
         SeenGrows(r)
  PROVE  Trusts(r)' /\ Answered(r)'
<1>1. /\ UNCHANGED seen /\ InFlight(r)
      /\ request[r].step \notin {"idle", "done", "lost"}
      /\ request'[r].call = request[r].call
  BY OutcomeAlone DEF Outcome
<1>2. request[r].status = 0 /\ (request[r].step = "signIn" => request[r].call.route = "login")
  BY <1>1 DEF TrailInv, Trail, TrailAt, Ended
<1>3. request[r].ctx # NoContext => request[r].ctx \in UserContexts
  BY DEF Inv, TypeInv, TypeOK, RequestState
<1>4. ASSUME request'[r].step = "done" PROVE Trusts(r)'
  BY <1>4 DEF Trusts, InFlight, Ended
<1>5. CASE Failing(r)
  BY <1>4, <1>5 DEF Failing, Fails, Ends, Answered
<1>6. CASE Moving(r)
  <2>1. /\ request'[r].ctx = request[r].ctx /\ request'[r].found = request[r].found
        /\ request'[r].step \notin {"idle", "read", "signIn"} /\ request'[r].status = 0
    BY <1>2, <1>6 DEF Moving, Advances
  <2>2. Trusts(r)'
    BY <1>1, <2>1, StillTrusts
  <2> QED BY <2>1, <2>2 DEF Answered
<1>7. CASE Loading(r)
  <2>1. PICK id \in Present : request'[r].ctx = ContextOf(id)
    BY <1>7 DEF Loading
  <2>2. /\ request'[r].step = "enter" /\ request'[r].status = 0
        /\ UNCHANGED users
    BY <1>2, <1>7 DEF Loading, Quiet
  <2>3. /\ request'[r].ctx.userId = id
        /\ request'[r].ctx.isActive <=> users[id].status = "ACTIVE"
        /\ request'[r].ctx.rank = users[id].rank
    <3>1. /\ ContextOf(id).userId = id
          /\ ContextOf(id).isActive = (users[id].status = "ACTIVE")
          /\ ContextOf(id).rank = users[id].rank
      BY Zenon DEF ContextOf
    <3> QED BY <2>1, <3>1
  <2>4. users[id].status = "ACTIVE" <=> id \in ActiveAccounts
    BY DEF ActiveAccounts
  <2>5. /\ ActiveAccounts \subseteq seen[r].active
        /\ seen[r].active \ seen[r].changed \subseteq ActiveAccounts
    BY <1>1 DEF Watched
  <2>6. Trusts(r)'
    BY <1>1, <2>2, <2>3, <2>4, <2>5 DEF Trusts
  <2> QED BY <2>2, <2>6 DEF Answered
<1>8. CASE Passing(r)
  <2>1. /\ request'[r].ctx = request[r].ctx /\ request'[r].found = request[r].found
        /\ request'[r].step = "read" /\ request'[r].status = 0
        /\ request[r].ctx # NoContext /\ request[r].call.route # "login"
    BY <1>2, <1>8 DEF Passing, Public
  <2>2. Trusts(r)'
    BY <1>1, <2>1, StillTrusts
  <2> QED BY <2>1, <2>2 DEF Answered
<1>9. CASE Refusing(r)
  <2>1. /\ request[r].ctx \in UserContexts
        /\ ~HasPermission(UserRegistry, request[r].ctx, "USER", "READ", {})
        /\ request'[r].ctx = request[r].ctx /\ request'[r].status = 403
        /\ request'[r].step = "done"
    BY <1>3, <1>9 DEF Refusing, Denies, Ends
  <2>2. ~request[r].ctx.isActive
    BY <2>1, OwnRecordReadable
  <2>3. request[r].ctx.userId \notin seen[r].active \ seen[r].changed
    BY <1>1, <1>9, <2>2 DEF Trusts, Refusing
  <2> QED BY <1>1, <1>4, <2>1, <2>3 DEF Answered
<1>10. CASE Storing(r)
  <2>1. CASE Advances(r, "respond")
    <3>1. /\ request'[r].ctx = request[r].ctx /\ request'[r].found = request[r].found
          /\ request'[r].step = "respond" /\ request'[r].status = 0
      BY <1>2, <2>1 DEF Advances
    <3>2. Trusts(r)'
      BY <1>1, <3>1, StillTrusts
    <3> QED BY <3>1, <3>2 DEF Answered
  <2>2. CASE Fails(r)
    BY <1>4, <2>2 DEF Fails, Ends, Answered
  <2> QED BY <1>10, <2>1, <2>2 DEF Storing
<1>11. CASE Confirming(r)
  BY <1>4, <1>11 DEF Confirming, Ends, Answered
<1>12. CASE Finding(r)
  <2>1. PICK id \in Holders(request[r].call.email) \cap ActiveAccounts :
          request'[r].found = [userId |-> id, password |-> users[id].password]
    BY <1>12 DEF Finding
  <2>2. request'[r].found.userId = id /\ id \in seen[r].active
    BY <1>1, <2>1 DEF Watched
  <2>3. /\ request'[r].ctx = request[r].ctx /\ request'[r].step = "signIn"
        /\ request'[r].status = 0 /\ UNCHANGED users
    BY <1>2, <1>12 DEF Finding, Quiet
  <2>4. Trusts(r)'
    BY <1>1, <2>2, <2>3 DEF Trusts
  <2> QED BY <2>3, <2>4 DEF Answered
<1>13. CASE SigningIn(r)
  <2>1. /\ request[r].call.route = "login" /\ request[r].found.userId \in seen[r].active
        /\ request'[r].found = request[r].found /\ request'[r].status # 403
        /\ request'[r].call.route = "login" /\ request'[r].step = "done"
    BY <1>1, <1>2, <1>13 DEF SigningIn, Ends, Trusts
  <2> QED BY <1>1, <1>4, <2>1 DEF Answered
<1>14. CASE Serving(r)
  <2>1. /\ request[r].ctx \in UserContexts /\ request[r].call.route # "login"
        /\ ValidContext(UserRegistry, request[r].ctx)
        /\ request'[r].ctx = request[r].ctx /\ request'[r].status # 403
        /\ request'[r].step = "done"
    BY <1>1, <1>3, <1>14 DEF Serving, Ends, Trusts, MayRead, Can
  <2>2. request[r].ctx.userId \in seen[r].active
    BY <1>1, <2>1, ValidMeansActive, MarkersOutside DEF Trusts
  <2> QED BY <1>1, <1>4, <2>1, <2>2 DEF Answered
<1>15. CASE Denying(r)
  <2>1. /\ request[r].ctx \in UserContexts /\ request[r].ctx # NoContext
        /\ ~Can(UserRegistry, request[r].ctx, "USER", "READ", OwnRecord(r))
        /\ request'[r].ctx = request[r].ctx /\ request'[r].status = 403
        /\ request'[r].step = "done"
    BY <1>1, <1>3, <1>15 DEF Denying, Denies, Ends, Trusts, MayRead
  <2>2. ASSUME request[r].ctx.userId \in seen[r].active \ seen[r].changed PROVE FALSE
    <3>1. /\ request[r].ctx.isActive
          /\ request[r].ctx.rank = users[request[r].ctx.userId].rank
      BY <1>1, <2>1, <2>2 DEF Trusts
    <3>2. OwnRecord(r) = [userId |-> request[r].ctx.userId, rank |-> request[r].ctx.rank]
      BY <3>1 DEF OwnRecord
    <3> QED BY <2>1, <3>1, <3>2, OwnRecordReadable
  <2> QED BY <1>1, <1>4, <2>1, <2>2 DEF Answered
<1> QED BY <1>5, <1>6, <1>7, <1>8, <1>9, <1>10, <1>11, <1>12, <1>13, <1>14, <1>15 DEF Outcome

LEMMA TrustKeeps ==
  Inv /\ TrailInv /\ ClaimInv /\ Watched /\ TrustInv /\ [Next]_vars => (Watched /\ TrustInv)'
<1> SUFFICES ASSUME Inv, TrailInv, ClaimInv, Watched, TrustInv, [Next]_vars
             PROVE  Watched' /\ TrustInv'
  OBVIOUS
<1>0. Watched'
  BY WatchedKeeps
<1> SUFFICES ASSUME NEW q \in Requests PROVE Trusts(q)' /\ Answered(q)'
  BY <1>0 DEF TrustInv
<1>1. SeenGrows(q) /\ Trusts(q) /\ Answered(q)
  BY WatchedKeeps DEF TrustInv
<1>2. request[q].status # 0 => request[q].step = "done"
  BY DEF TrailInv, Trail, TrailAt, Ended
<1>3. CASE request[q].step \in Ended
  <2>1. request'[q] = request[q] /\ seen'[q] = seen[q]
    BY <1>1, <1>3, RequestsKeep DEF SeenGrows, Ended
  <2> QED BY <1>1, <1>3, <2>1 DEF Trusts, Answered, InFlight, Ended
<1>4. CASE InFlight(q) /\ (request'[q] = request[q] \/ Dropped(q))
  <2>1. request'[q].status = 0
    BY <1>2, <1>4 DEF Dropped, InFlight, Ended
  <2>2. Trusts(q)'
    <3>1. CASE Dropped(q)
      BY <3>1 DEF Dropped, Trusts, InFlight, Ended
    <3>2. CASE request'[q] = request[q]
      BY <1>1, <1>4, <3>2 DEF Trusts, SeenGrows, InFlight
    <3> QED BY <1>4, <3>1, <3>2
  <2> QED BY <1>1, <2>1, <2>2 DEF Answered
<1>5. CASE request[q].step = "idle" /\ request'[q] = request[q]
  BY <1>1, <1>2, <1>5 DEF Trusts, Answered, InFlight
<1>6. CASE \E call \in Calls : Arrives(q, call)
  BY <1>1, <1>2, <1>6 DEF Arrives, Trusts, Answered, InFlight
<1>7. CASE Outcome(q)
  BY <1>1, <1>7, OutcomeTrusts
<1>8. \/ request'[q] = request[q] \/ Dropped(q)
      \/ \E call \in Calls : Arrives(q, call)
      \/ Outcome(q)
  <2>1. CASE ArrivalStep
    BY <2>1 DEF ArrivalStep, Arrives, Alone
  <2>2. CASE RequestStep
    BY <2>2, OutcomeAlone DEF RequestStep, Alone
  <2>3. CASE ChangeStep \/ CrashStep \/ IdleStep
    BY <2>3 DEF ChangeStep, Change, CrashStep, IdleStep
  <2> QED BY <2>1, <2>2, <2>3, NextKinds
<1> QED BY <1>1, <1>3, <1>4, <1>5, <1>6, <1>7, <1>8 DEF InFlight, Dropped

AccessInv == Inv /\ TrailInv /\ ClaimInv /\ Watched /\ TrustInv

LEMMA AccessInvariant == Spec => []AccessInv
<1>1. Init => AccessInv
  BY InitKeeps, TrailStart, ClaimStart, WatchedStart, TrustStart DEF AccessInv
<1>2. AccessInv /\ [Next]_vars => AccessInv'
  BY NextKeeps, TrailKeeps, ClaimKeeps, TrustKeeps DEF AccessInv
<1> QED BY <1>1, <1>2, PTL DEF Spec

(* However accounts change while requests run, and however many run: a request   *)
(* that is served belongs to an account that was active at some instant between  *)
(* the request's arrival and its reply (the context of JwtAuthNMiddleware, the    *)
(* row of AuthNService.login).                                                   *)
THEOREM ServedWhileActiveCorrect == Spec => []ServedWhileActive
<1>1. AccessInv => ServedWhileActive
  BY DEF AccessInv, TrustInv, Answered, ServedWhileActive
<1> QED BY <1>1, AccessInvariant, PTL

(* "Not authorized" is never answered to an account that was active, and left     *)
(* alone, for as long as the request took: whatever its role, the configuration   *)
(* lets it read its own record (UserAuthZDefinition of user.authz.config.ts).     *)
THEOREM ForbiddenOnlyWithCauseCorrect == Spec => []ForbiddenOnlyWithCause
<1>1. AccessInv => ForbiddenOnlyWithCause
  BY DEF AccessInv, TrustInv, Answered, ForbiddenOnlyWithCause
<1> QED BY <1>1, AccessInvariant, PTL

-----------------------------------------------------------------------------
(* Registration implements AccountDirectory. *)
ToldMeans(r) ==
  /\ ~Registers(r) \/ (request[r].step \notin Ended /\ request[r].status = 0) => Told[r] = "none"
  /\ Registers(r) /\ request[r].step \in Ended /\ request[r].status = 201 => Told[r] = "created"
  /\ Registers(r) /\ request[r].step \in Ended /\ request[r].status # 201 => Told[r] = "failed"

LEMMA ToldCases == ASSUME NEW r \in Requests PROVE ToldMeans(r) /\ ToldMeans(r)'
<1>1. ToldMeans(r)
  BY DEF ToldMeans, Told
<1>2. ToldMeans(r)'
  BY DEF ToldMeans, Told
<1> QED BY <1>1, <1>2

LEMMA ToldFunction ==
  /\ Told = [r \in Requests |-> Told[r]]
  /\ Told' = [r \in Requests |-> Told'[r]]
<1>1. Told = [r \in Requests |-> Told[r]]
  BY DEF Told
<1>2. Told' = [r \in Requests |-> Told'[r]]
  BY DEF Told
<1> QED BY <1>1, <1>2

(* The only holder of an address is its owner. *)
OwnerMeans(email) ==
  /\ Holders(email) = {} => EmailOwner[email] = Absent
  /\ \A id \in Holders(email) : EmailOwner[email] = id

LEMMA OwnerCases ==
  ASSUME UniqueEmail, NEW email \in Emails PROVE OwnerMeans(email)
<1>1. \A a, b \in Holders(email) : a = b
  BY DEF UniqueEmail, Holders
<1> QED BY <1>1 DEF OwnerMeans, EmailOwner

LEMMA OwnerCasesNext ==
  ASSUME UniqueEmail', NEW email \in Emails PROVE OwnerMeans(email)'
<1>1. \A a, b \in Holders(email)' : a = b
  BY DEF UniqueEmail, Holders
<1> QED BY <1>1 DEF OwnerMeans, EmailOwner

(* An address that keeps its holders keeps its owner. *)
LEMMA SameHolders ==
  ASSUME UniqueEmail, UniqueEmail', NEW email \in Emails,
         \A id : id \in Holders(email)' <=> id \in Holders(email)
  PROVE  EmailOwner'[email] = EmailOwner[email]
<1>1. OwnerMeans(email) /\ OwnerMeans(email)'
  BY OwnerCases, OwnerCasesNext
<1>2. CASE \E id : id \in Holders(email)
  BY <1>1, <1>2 DEF OwnerMeans
<1>3. CASE ~\E id : id \in Holders(email)
  <2>1. Holders(email) = {} /\ Holders(email)' = {}
    BY <1>3
  <2> QED BY <1>1, <2>1 DEF OwnerMeans
<1> QED BY <1>2, <1>3

LEMMA OwnerFunction ==
  /\ EmailOwner = [e \in Emails |-> EmailOwner[e]]
  /\ EmailOwner' = [e \in Emails |-> EmailOwner'[e]]
<1>1. EmailOwner = [e \in Emails |-> EmailOwner[e]]
  BY DEF EmailOwner
<1>2. EmailOwner' = [e \in Emails |-> EmailOwner'[e]]
  BY DEF EmailOwner
<1> QED BY <1>1, <1>2

(* A request that has not arrived asked for nothing. *)
FreshCalls == \A r \in Requests : request[r].step = "idle" => request[r].call = NoCall

LEMMA FreshKeeps == Inv /\ FreshCalls /\ [Next]_vars => FreshCalls'
<1> SUFFICES ASSUME Inv, FreshCalls, [Next]_vars, NEW q \in Requests, request'[q].step = "idle"
             PROVE  request'[q].call = NoCall
  BY DEF FreshCalls
<1>1. request[q].step = "idle"
  BY RequestsKeep
<1>2. CASE ArrivalStep
  BY <1>1, <1>2 DEF ArrivalStep, Arrives, Alone, FreshCalls
<1>3. CASE RequestStep
  BY <1>1, <1>3, OutcomeAlone DEF RequestStep, Alone, FreshCalls
<1>4. CASE ChangeStep \/ CrashStep \/ IdleStep
  BY <1>1, <1>4 DEF ChangeStep, Change, CrashStep, Dropped, IdleStep, FreshCalls
<1> QED BY <1>2, <1>3, <1>4, NextKinds

ClaimsInv == Inv /\ TrailInv /\ ClaimInv /\ FreshCalls

LEMMA StartsAsDirectory == Init => Directory!Init
<1> SUFFICES ASSUME Init PROVE Directory!Init
  OBVIOUS
<1>1. UniqueEmail
  BY InitKeeps DEF Inv
<1>2. /\ \A r \in Requests : ~Registers(r)
      /\ committed = {}
  BY DEF Init, Registers, NoCall
<1>3. Asked = [r \in Requests |-> Absent] /\ Told = [r \in Requests |-> "none"]
  BY <1>2 DEF Asked, Told
<1>4. users = [id \in UserIds |-> IF id \in Seeds THEN SeedAccounts[id] ELSE Absent]
  BY DEF Init
<1>5. ASSUME NEW email \in Emails PROVE EmailOwner[email] = SeedOwner[email]
  <2>1. \A id : id \in Holders(email) <=> id \in Seeds /\ SeedAccounts[id].email = email
    BY <1>4, SeedsTyped, MarkersOutside DEF Holders, Present, Seeds
  <2>2. \A a, b \in Seeds : SeedAccounts[a].email = email /\ SeedAccounts[b].email = email => a = b
    BY SeedsUnique
  <2>3. OwnerMeans(email)
    BY <1>1, OwnerCases
  <2>4. CASE Holders(email) = {}
    BY <2>1, <2>3, <2>4 DEF SeedOwner, OwnerMeans
  <2>5. ASSUME NEW id \in Holders(email) PROVE EmailOwner[email] = SeedOwner[email]
    <3>1. SeedOwner[email] = id
      BY <2>1, <2>2 DEF SeedOwner
    <3> QED BY <2>3, <3>1 DEF OwnerMeans
  <2> QED BY <2>4, <2>5
<1>6. EmailOwner = SeedOwner
  BY <1>5 DEF EmailOwner, SeedOwner
<1> QED BY <1>2, <1>3, <1>6 DEF Directory!Init

(* Steps that leave the rows alone leave the owners alone. *)
LEMMA SameOwners ==
  ASSUME UNCHANGED users PROVE UNCHANGED EmailOwner
BY DEF EmailOwner, Holders, Present

LEMMA SameAsked ==
  ASSUME \A q \in Requests : request'[q].call = request[q].call
  PROVE  UNCHANGED Asked /\ \A q \in Requests : Registers(q)' <=> Registers(q)
BY DEF Asked, Registers

(* The requests that are told "failed" in one step. *)
LEMMA FailsOrStutters ==
  ASSUME UNCHANGED <<users, committed>>, NEW cs \in SUBSET Requests,
         \A q \in Requests : request'[q].call = request[q].call,
         \A q \in cs : Registers(q) /\ Told[q] = "none" /\ Told'[q] = "failed",
         \A q \in Requests \ cs : Told'[q] = Told[q]
  PROVE  [Directory!Next]_(Directory!directoryVars)
<1>1. UNCHANGED EmailOwner /\ UNCHANGED Asked
  BY SameOwners, SameAsked
<1>2. Told' = [q \in Requests |-> IF q \in cs THEN "failed" ELSE Told[q]]
  <2>1. Told' = [q \in Requests |-> Told'[q]]
    BY ToldFunction
  <2>2. \A q \in Requests : Told'[q] = IF q \in cs THEN "failed" ELSE Told[q]
    OBVIOUS
  <2> QED BY <2>1, <2>2
<1>3. CASE cs = {}
  <2>1. Told' = Told
    BY <1>2, <1>3, ToldFunction
  <2> QED BY <1>1, <2>1 DEF Directory!directoryVars
<1>4. CASE cs # {}
  <2>1. \A q \in cs : Asked[q] # Absent
    BY DEF Asked, Registers
  <2>2. Directory!Fail(cs)
    BY <1>1, <1>2, <1>4, <2>1 DEF Directory!Fail
  <2> QED BY <2>2 DEF Directory!Next
<1> QED BY <1>3, <1>4

(* A step of one request is a claim, a confirmation, a failure or nothing. *)
LEMMA ConfirmingRefines ==
  ASSUME ClaimsInv, NEW r \in Requests, Outcome(r), Confirming(r)
  PROVE  Directory!Confirm(r)
<1>1. /\ r \in committed /\ Registers(r)
  <2>1. r \in committed /\ request[r].call.route = "register" /\ request[r].call.email \in Emails
    BY CallsTyped DEF ClaimsInv, ClaimInv, SavesRegister, CommitsAsked, Confirming
  <2> QED BY <2>1, MarkersOutside DEF Registers
<1>2. Alone(r) /\ request'[r].call = request[r].call
  BY OutcomeAlone
<1>3. UNCHANGED EmailOwner /\ UNCHANGED Asked /\ UNCHANGED committed
      /\ \A q \in Requests : Registers(q)' <=> Registers(q)
  BY <1>2, SameOwners, SameAsked DEF Confirming, Quiet, Alone
<1>4. request[r].step \notin Ended /\ request[r].status = 0
  BY DEF ClaimsInv, TrailInv, Trail, TrailAt, Confirming, Ended
<1>5. request'[r].step \in Ended /\ request'[r].status = 201
  BY DEF Confirming, Ends, Ended
<1>6. Told[r] = "none" /\ Told'[r] = "created"
  BY <1>1, <1>3, <1>4, <1>5, ToldCases DEF ToldMeans
<1>7. \A q \in Requests \ {r} : Told'[q] = Told[q]
  BY <1>2, <1>3 DEF Told, Alone, Registers
<1>8. Told' = [Told EXCEPT ![r] = "created"]
  BY <1>6, <1>7, ToldFunction
<1> QED BY <1>1, <1>3, <1>6, <1>8 DEF Directory!Confirm

LEMMA StoringRefines ==
  ASSUME ClaimsInv, UniqueEmail', NEW r \in Requests, Outcome(r), Storing(r)
  PROVE  \E told \in {"none", "failed"} : Directory!Claim(r, told)
<1> DEFINE row == NewAccount(request[r].call)
<1>1. /\ users \in [UserIds -> Account \cup {Absent}] /\ r \in UserIds
      /\ UniqueEmail /\ Prepared(request[r]) /\ request[r].step = "save"
  BY RequestsAreIds DEF ClaimsInv, Inv, TypeInv, TypeOK, Storing
<1>a. request[r].call.email \in Emails /\ row \in Account
  <2>1. request[r].call \in Calls /\ request[r].call.valid
    BY <1>1 DEF Prepared
  <2> QED BY <2>1, CallsTyped, NewAccountTyped
<1>b. PICK email \in Emails : email = request[r].call.email
  BY <1>a
<1>2. /\ email # Absent /\ row \in Account /\ row # Absent /\ row.email = email
      /\ r # Absent
  BY <1>1, <1>a, <1>b, MarkersOutside DEF NewAccount
<1>3. Registers(r) /\ r \notin committed /\ r \notin Present
  BY <1>1, <1>2, <1>b DEF ClaimsInv, ClaimInv, SavesRegister, CommitsAsked, RowsClaimed, Registers
<1>4. Alone(r) /\ request'[r].call = request[r].call
  BY OutcomeAlone
<1>5. UNCHANGED Asked /\ (\A q \in Requests : Registers(q)' <=> Registers(q)) /\ Asked[r] = email
  BY <1>3, <1>4, <1>b, SameAsked DEF Alone, Asked
<1> HIDE DEF row
<1>6. /\ users' = [users EXCEPT ![r] = row] /\ committed' = committed \cup {r}
      /\ Holders(email) = {}
  BY <1>b DEF Storing, Inserts, row
<1>7. users'[r] = row /\ \A id \in UserIds \ {r} : users'[id] = users[id]
  BY <1>1, <1>6
<1>8. /\ r \in Holders(email)'
      /\ \A id : \A e \in Emails \ {email} : id \in Holders(e)' <=> id \in Holders(e)
  <2>1. \A id, e : id \in Holders(e)' <=> (id = r /\ e = email) \/ (id # r /\ id \in Holders(e))
    BY <1>1, <1>2, <1>7 DEF Holders, Present
  <2>2. \A e : r \notin Holders(e)
    BY <1>3 DEF Holders
  <2> QED BY <2>1, <2>2
<1>9. EmailOwner[email] = Absent /\ EmailOwner'[email] = r
  BY <1>1, <1>2, <1>6, <1>8, OwnerCases, OwnerCasesNext DEF OwnerMeans
<1>10. \A e \in Emails \ {email} : EmailOwner'[e] = EmailOwner[e]
  BY <1>1, <1>8, SameHolders
<1>11. EmailOwner' = [EmailOwner EXCEPT ![email] = r]
  BY <1>9, <1>10, OwnerFunction
<1>12. request[r].step \notin Ended /\ request[r].status = 0
  BY <1>1 DEF ClaimsInv, TrailInv, Trail, TrailAt, Ended
<1>13. Told[r] = "none"
  BY <1>12, ToldCases DEF ToldMeans
<1>14. PICK told \in {"none", "failed"} : Told'[r] = told
  <2>1. CASE Advances(r, "respond")
    <3>1. request'[r].step \notin Ended /\ request'[r].status = 0
      BY <1>12, <2>1 DEF Advances, Ended
    <3> QED BY <3>1, ToldCases DEF ToldMeans
  <2>2. CASE Fails(r)
    <3>1. request'[r].step \in Ended /\ request'[r].status # 201
      BY <2>2 DEF Fails, Ends, Ended
    <3> QED BY <1>3, <1>5, <3>1, ToldCases DEF ToldMeans
  <2> QED BY <2>1, <2>2 DEF Storing
<1>15. \A q \in Requests \ {r} : Told'[q] = Told[q]
  BY <1>4, <1>5 DEF Told, Alone
<1>16. Told' = [Told EXCEPT ![r] = told]
  BY <1>14, <1>15, ToldFunction
<1>17. Directory!Claim(r, told)
  BY <1>2, <1>3, <1>5, <1>6, <1>9, <1>11, <1>13, <1>16 DEF Directory!Claim
<1> QED BY <1>17

LEMMA OtherOutcomesRefine ==
  ASSUME ClaimsInv, NEW r \in Requests, Outcome(r), ~Confirming(r), ~Storing(r)
  PROVE  [Directory!Next]_(Directory!directoryVars)
<1> DEFINE cs == IF Registers(r) /\ request'[r].step = "done" THEN {r} ELSE {}
<1>1. /\ Alone(r) /\ request'[r].call = request[r].call
      /\ request[r].step \notin {"idle", "done", "lost"}
  BY OutcomeAlone
<1>2. request[r].step \notin Ended /\ request[r].status = 0
  BY <1>1 DEF ClaimsInv, TrailInv, Trail, TrailAt, Ended
<1>3. UNCHANGED <<users, committed>>
  BY DEF Outcome, Failing, Moving, Loading, Passing, Refusing, Finding, SigningIn, Serving,
     Denying, Quiet
<1>4. \/ request'[r].step \notin Ended /\ request'[r].status = 0
      \/ request'[r].step = "done" /\ request'[r].status # 201
  <2>1. CASE Moving(r) \/ Loading(r) \/ Passing(r) \/ Finding(r)
    BY <1>2, <2>1 DEF Moving, Loading, Passing, Finding, Advances, Ended
  <2>2. CASE Failing(r)
    BY <2>2 DEF Failing, Fails, Ends
  <2>3. CASE Refusing(r) \/ Denying(r)
    <3>1. request'[r].step = "done" /\ request'[r].status \in {403}
      BY <2>3, Zenon DEF Refusing, Denying, Denies, Ends
    <3> QED BY <3>1
  <2>4. CASE SigningIn(r) \/ Serving(r)
    <3>1. request'[r].step = "done" /\ request'[r].status \in {200, 400, 401, 500}
      BY <2>4, ZenonT(60) DEF SigningIn, Serving, Ends
    <3> QED BY <3>1
  <2> QED BY <2>1, <2>2, <2>3, <2>4 DEF Outcome
<1>5. \A q \in Requests : request'[q].call = request[q].call
  BY <1>1 DEF Alone
<1>6. \A q \in Requests : Registers(q)' <=> Registers(q)
  BY <1>5, SameAsked
<1>7. Told[r] = "none"
  BY <1>2, ToldCases DEF ToldMeans
<1>8. Told'[r] = IF r \in cs THEN "failed" ELSE "none"
  BY <1>4, <1>6, ToldCases DEF ToldMeans, Ended
<1>9. \A q \in Requests \ {r} : Told'[q] = Told[q]
  BY <1>1, <1>6 DEF Told, Alone
<1>10. cs \in SUBSET Requests /\ \A q \in cs : q = r /\ Registers(q)
  OBVIOUS
<1> HIDE DEF cs
<1>11. /\ \A q \in cs : Registers(q) /\ Told[q] = "none" /\ Told'[q] = "failed"
       /\ \A q \in Requests \ cs : Told'[q] = Told[q]
  BY <1>7, <1>8, <1>9, <1>10
<1> QED BY <1>3, <1>5, <1>10, <1>11, FailsOrStutters

(* An arriving registration asks; what others do releases an address or nothing. *)
LEMMA ArrivalRefines ==
  ASSUME ClaimsInv, ArrivalStep PROVE [Directory!Next]_(Directory!directoryVars)
<1>1. PICK r \in Requests, call \in Calls : Arrives(r, call)
  BY DEF ArrivalStep
<1>2. UNCHANGED committed /\ UNCHANGED EmailOwner
  BY SameOwners DEF ArrivalStep, Quiet
<1>3. /\ request[r].call = NoCall /\ request[r].status = 0 /\ request[r].step \notin Ended
      /\ request'[r].step \notin Ended /\ request'[r].status = 0 /\ request'[r].call = call
  BY <1>1 DEF Arrives, ClaimsInv, FreshCalls, TrailInv, Trail, TrailAt, Ended
<1>4. Told[r] = "none" /\ Told'[r] = "none"
  BY <1>3, ToldCases DEF ToldMeans
<1>5. \A q \in Requests \ {r} : request'[q] = request[q]
  BY <1>1 DEF Arrives, Alone
<1>6. \A q \in Requests \ {r} : Told'[q] = Told[q]
  BY <1>5 DEF Told, Registers
<1>7. Told' = Told
  BY <1>4, <1>6, ToldFunction
<1>8. ~Registers(r)
  BY <1>3 DEF Registers, NoCall
<1>9. Asked[r] = Absent
  BY <1>8 DEF Asked
<1>10. CASE call.route = "register" /\ call.email # Absent
  <2>1. call.email \in Emails
    BY <1>10, CallsTyped
  <2>2. Registers(r)'
    BY <1>3, <1>10 DEF Registers
  <2>3. Asked' = [Asked EXCEPT ![r] = call.email]
    BY <1>3, <1>5, <2>2 DEF Asked, Registers
  <2>4. Directory!Ask(r, call.email)
    BY <1>2, <1>7, <1>9, <2>3 DEF Directory!Ask
  <2> QED BY <2>1, <2>4 DEF Directory!Next
<1>11. CASE ~(call.route = "register" /\ call.email # Absent)
  <2>1. ~Registers(r)'
    BY <1>3, <1>11 DEF Registers
  <2>2. Asked' = Asked
    BY <1>5, <1>8, <2>1 DEF Asked, Registers
  <2> QED BY <1>2, <1>7, <2>2 DEF Directory!directoryVars
<1> QED BY <1>10, <1>11

LEMMA ChangeRefines ==
  ASSUME ClaimsInv, UniqueEmail', ChangeStep PROVE [Directory!Next]_(Directory!directoryVars)
<1>1. PICK id \in Present, row \in Account \cup {Absent} :
        /\ Change(id, row)
        /\ row # Absent => row.email = users[id].email /\ row.password = users[id].password
  BY DEF ChangeStep
<1>2. users' = [users EXCEPT ![id] = row] /\ UNCHANGED <<request, committed>>
  BY <1>1 DEF Change
<1>3. /\ users \in [UserIds -> Account \cup {Absent}] /\ id \in UserIds /\ UniqueEmail
      /\ users[id] \in Account
  BY DEF ClaimsInv, Inv, TypeInv, TypeOK, Present
<1>4. UNCHANGED Asked /\ UNCHANGED Told
  BY <1>2 DEF Asked, Told, Registers
<1>5. users'[id] = row /\ \A a \in UserIds \ {id} : users'[a] = users[a]
  BY <1>2, <1>3
<1>6. CASE row # Absent
  <2>1. \A e, a : a \in Holders(e)' <=> a \in Holders(e)
    BY <1>1, <1>3, <1>5, <1>6 DEF Holders, Present
  <2>2. EmailOwner' = EmailOwner
    BY <1>3, <2>1, SameHolders, OwnerFunction
  <2> QED BY <1>2, <1>4, <2>2 DEF Directory!directoryVars
<1>7. CASE row = Absent
  <2>0. PICK email \in Emails : email = users[id].email
    BY <1>3 DEF Account
  <2>1. id \in Holders(email) /\ id # Absent
    BY <1>3, <2>0, MarkersOutside DEF Holders
  <2>2. \A e, a : a \in Holders(e)' <=> a \in Holders(e) /\ a # id
    BY <1>3, <1>5, <1>7 DEF Holders, Present
  <2>3. \A a \in Holders(email) : a = id
    BY <1>3, <2>1 DEF UniqueEmail, Holders
  <2>4. Holders(email)' = {}
    BY <2>2, <2>3
  <2>5. \A a : \A e \in Emails \ {email} : a \in Holders(e)' <=> a \in Holders(e)
    <3>1. \A e \in Emails \ {email} : id \notin Holders(e)
      BY <2>0 DEF Holders
    <3> QED BY <2>2, <3>1
  <2>6. EmailOwner[email] = id /\ EmailOwner'[email] = Absent
    BY <1>3, <2>1, <2>4, OwnerCases, OwnerCasesNext DEF OwnerMeans
  <2>7. \A e \in Emails \ {email} : EmailOwner'[e] = EmailOwner[e]
    BY <1>3, <2>5, SameHolders
  <2>8. EmailOwner' = [EmailOwner EXCEPT ![email] = Absent]
    BY <2>6, <2>7, OwnerFunction
  <2>9. Directory!Release(email)
    BY <1>2, <1>4, <2>1, <2>6, <2>8 DEF Directory!Release
  <2> QED BY <2>1, <2>9 DEF Directory!Next
<1> QED BY <1>6, <1>7

LEMMA CrashRefines ==
  ASSUME ClaimsInv, CrashStep PROVE [Directory!Next]_(Directory!directoryVars)
<1> DEFINE cs == {q \in Requests : Dropped(q) /\ Registers(q)}
<1>1. UNCHANGED <<users, committed>> /\ cs \in SUBSET Requests
  BY DEF CrashStep, Quiet
<1>2. \A q \in Requests : request'[q] = request[q] \/ Dropped(q)
  BY DEF CrashStep
<1>3. \A q \in Requests : request'[q].call = request[q].call
  BY <1>2 DEF Dropped
<1>4. \A q \in Requests : Registers(q)' <=> Registers(q)
  BY <1>3, SameAsked
<1>5. ASSUME NEW q \in Requests, Dropped(q)
      PROVE  /\ Told[q] = "none"
             /\ Registers(q) => Told'[q] = "failed"
             /\ ~Registers(q) => Told'[q] = "none"
  <2>1. request[q].step \notin Ended /\ request[q].status = 0
    BY <1>5 DEF Dropped, InFlight, ClaimsInv, TrailInv, Trail, TrailAt
  <2>2. request'[q].step \in Ended /\ request'[q].status # 201
    BY <1>5, <2>1 DEF Dropped, Ended
  <2> QED BY <1>4, <2>1, <2>2, ToldCases DEF ToldMeans
<1>6. ASSUME NEW q \in Requests, request'[q] = request[q] PROVE Told'[q] = Told[q]
  BY <1>6 DEF Told, Registers
<1>7. \A q \in cs : Registers(q) /\ Told[q] = "none" /\ Told'[q] = "failed"
  BY <1>5
<1>8. \A q \in Requests \ cs : Told'[q] = Told[q]
  BY <1>2, <1>5, <1>6
<1> HIDE DEF cs
<1> QED BY <1>1, <1>3, <1>7, <1>8, FailsOrStutters

LEMMA StepsAsDirectory ==
  ClaimsInv /\ ClaimsInv' /\ [Next]_vars => [Directory!Next]_(Directory!directoryVars)
<1> SUFFICES ASSUME ClaimsInv, ClaimsInv', [Next]_vars
             PROVE  [Directory!Next]_(Directory!directoryVars)
  OBVIOUS
<1>1. Inv /\ UniqueEmail'
  BY DEF ClaimsInv, Inv
<1>2. CASE RequestStep
  <2>1. PICK r \in Requests : Outcome(r)
    BY <1>2 DEF RequestStep
  <2>2. CASE Confirming(r)
    BY <2>1, <2>2, ConfirmingRefines DEF Directory!Next
  <2>3. CASE Storing(r)
    BY <1>1, <2>1, <2>3, StoringRefines DEF Directory!Next
  <2> QED BY <2>1, <2>2, <2>3, OtherOutcomesRefine
<1>3. CASE IdleStep
  BY <1>3 DEF IdleStep, Directory!directoryVars, EmailOwner, Holders, Present, Asked, Told, Registers
<1> QED BY <1>1, <1>2, <1>3, NextKinds, ArrivalRefines, ChangeRefines, CrashRefines

(* Registering implements one indivisible claim of an address: every step of     *)
(* the requests and of others is one step of AccountDirectory or none, whatever  *)
(* interleaving, failing query, lost acknowledgement or crash they run into      *)
(* (AuthNService.register and the unique index of UserSchema).                   *)
THEOREM RegistrationCorrect == Spec => RegistrationIsAtomicClaim
<1>1. Init => ClaimsInv
  BY InitKeeps, TrailStart, ClaimStart DEF ClaimsInv, FreshCalls, Init
<1>2. ClaimsInv /\ [Next]_vars => ClaimsInv'
  BY NextKeeps, TrailKeeps, ClaimKeeps, FreshKeeps DEF ClaimsInv
<1> QED BY <1>1, <1>2, StartsAsDirectory, StepsAsDirectory, PTL
        DEF Spec, RegistrationIsAtomicClaim, Directory!Spec
=============================================================================
