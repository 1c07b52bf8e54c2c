-------------------------- MODULE IdentityService --------------------------
(***************************************************************************)
(* The requests of the application from the JWT middleware to the reply:    *)
(* JwtAuthNMiddleware, ContextInterceptor, CustomValidationPipe,            *)
(* AuthNService.register and login, AppService.getHello and                 *)
(* GlobalExceptionFilter, working concurrently on one users table.          *)
(*                                                                          *)
(* A request runs alone between two awaits, so a step is what happens from  *)
(* one await on the database or the token service to the next.  bcrypt,     *)
(* class-validator and RS256 signing are awaited too, but read nothing that *)
(* is shared: they are part of the step around them, which they may fail.   *)
(***************************************************************************)
EXTENDS UserAuthZ, ErrorHandler, FiniteSets

CONSTANTS
  Requests,            \* each request is used once; an account that a request
                       \* registers has the request's name as userId
  Emails, Passwords,
  SeedAccounts,        \* the rows of the other userIds before the first request
  Calls,               \* what clients may ask for
  NoToken, BadToken,   \* no x-auth-token header; one that does not verify
  Absent,
  MaxChanges,          \* bound on changes made to the table by others
  LogWorks,            \* the outcomes of writing a log line: {TRUE} or BOOLEAN
  CallsMayFail         \* whether queries, hashing and signing may fail

Statuses == {"ACTIVE", "PENDING", "BLOCK"}
Seeds == UserIds \ Requests
Public == {"register", "login", "helloPost"}
Routes == Public \cup {"hello"}

Account ==
  [email: Emails, password: Passwords, status: Statuses, role: UserRoles, rank: Ranks]

ASSUME RequestsAreIds == Requests \subseteq UserIds
ASSUME SeedsTyped == SeedAccounts \in [Seeds -> Account]
(* A body that the validation pipe accepts names an address and a password. *)
ASSUME CallsTyped ==
  /\ Calls \subseteq [route: Routes, token: UserIds \cup {NoToken, BadToken},
                      email: Emails \cup {Absent}, password: Passwords \cup {Absent},
                      valid: BOOLEAN]
  /\ \A call \in Calls : call.valid => call.email \in Emails /\ call.password \in Passwords
ASSUME SeedsUnique ==
  \A a, b \in Seeds : SeedAccounts[a].email = SeedAccounts[b].email => a = b
ASSUME BoundsTyped ==
  MaxChanges \in Nat /\ CallsMayFail \in BOOLEAN /\ LogWorks \in {{TRUE}, BOOLEAN}
ASSUME MarkersOutside ==
  /\ {NoToken, BadToken, Absent} \cap UserIds = {}
  /\ Absent \notin Account \cup Emails \cup Passwords
  /\ NoContext \notin UserContexts /\ NoRole \notin UserRoles

VARIABLES
  up,         \* the process is running
  request,    \* request -> where it stands and what it has read so far
  users,      \* the users table: userId -> row, or Absent
  tokens,     \* the accounts for which an access token has been signed
  changes,    \* how many changes others have made to the table
  committed,  \* history: the requests whose INSERT was committed
  seen        \* history: request -> accounts that were active at some instant
              \* while it was in flight, and accounts that others changed

vars == <<up, request, users, tokens, changes, committed, seen>>
history == <<committed, seen>>
table == <<users, tokens, changes>>

NoCall == [route |-> Absent, token |-> NoToken, email |-> Absent,
           password |-> Absent, valid |-> FALSE]
NotFound == [userId |-> Absent, password |-> Absent]

Steps ==
  {"idle", "verify", "loadUser", "enter", "find", "save", "respond", "signIn", "read",
   "done", "lost"}
Ended == {"done", "lost"}

RequestState ==
  [step: Steps, call: Calls \cup {NoCall}, ctx: UserContexts \cup {NoContext},
   found: [userId: UserIds \cup {Absent}, password: Passwords \cup {Absent}],
   audit: Seq([method: {"hasPermission", "can"}, result: {"allow", "deny"}]),
   status: {0, 200, 201, 400, 401, 403, 500}]

InFlight(r) == request[r].step \notin {"idle"} \cup Ended

Init ==
  /\ up = TRUE
  /\ request = [r \in Requests |->
       [step |-> "idle", call |-> NoCall, ctx |-> NoContext, found |-> NotFound,
        audit |-> <<>>, status |-> 0]]
  /\ users = [id \in UserIds |-> IF id \in Seeds THEN SeedAccounts[id] ELSE Absent]
  /\ tokens = Seeds
  /\ changes = 0
  /\ committed = {}
  /\ seen = [r \in Requests |-> [active |-> {}, changed |-> {}]]

Present == {id \in UserIds : users[id] # Absent}
ActiveAccounts == {id \in Present : users[id].status = "ACTIVE"}
Holders(email) == {id \in Present : users[id].email = email}

-----------------------------------------------------------------------------
(* How a step ends. *)
Becomes(r, new) == request' = [request EXCEPT ![r] = new]
Goes(r, step) == Becomes(r, [request[r] EXCEPT !.step = step])
Answers(r, new, status) == Becomes(r, [new EXCEPT !.step = "done", !.status = status])

(* An error reaches the filter, which logs it and replies. *)
ThrowsAs(r, new, exception) ==
  \E logWorks \in LogWorks : Answers(r, new, HandleException(exception, logWorks))
Throws(r, exception) == ThrowsAs(r, request[r], exception)

(* The query, the hash or the signature that the request awaits is rejected. *)
CallFails(r) ==
  CallsMayFail /\ \E error \in {"QueryFailedError", "Error"} : Throws(r, error)

(* Faulty variant: the operation goes on before its audit entry is written. *)
AuditedLate(r, method, allowed, next) ==
  IF allowed THEN Becomes(r, next)
  ELSE ThrowsAs(r, [request[r] EXCEPT !.audit = Append(@, AuditEntry(method, FALSE))],
                "AuthZException")

(* executeAuthZOperation: the audit entry goes to the logger, and if that    *)
(* worked an allowed operation returns and a denied one throws.              *)
Audited(r, method, allowed, next) ==
  LET entry == AuditEntry(method, allowed)
      logged(new) == [new EXCEPT !.audit = Append(@, entry)]
  IN  \/ /\ FALSE \in LogWorks
         /\ Throws(r, "Error")
      \/ /\ allowed
         /\ Becomes(r, logged(next))
      \/ /\ ~allowed
         /\ ThrowsAs(r, logged(request[r]), "AuthZException")

(* The replies to a request that was granted and is told of the account "id". *)
(* A row that others made may lack the profile that login reads, or what the   *)
(* UserMapper of getHello reads: then an Error is thrown instead.              *)
GrantedStatuses(id) ==
  {200} \cup {HandleException("Error", logWorks) :
              logWorks \in IF id \in Seeds THEN LogWorks ELSE {}}

At(r, step) == up /\ request[r].step = step

-----------------------------------------------------------------------------
(* JwtAuthNMiddleware.use *)
Arrive(r, call) ==
  /\ At(r, "idle")
  /\ Becomes(r, [request[r] EXCEPT
       !.call = call, !.step = IF call.token = NoToken THEN "enter" ELSE "verify"])
  /\ seen' = [seen EXCEPT ![r] = [active |-> ActiveAccounts, changed |-> {}]]
  /\ UNCHANGED <<up, table, committed>>

(* verifyAccessToken: a token that was signed may have expired since. *)
Verify(r) ==
  /\ At(r, "verify")
  /\ \/ /\ request[r].call.token \in tokens
        /\ Goes(r, "loadUser")
     \/ Throws(r, "JsonWebTokenError")
  /\ UNCHANGED <<up, table, history>>

(* Faulty variant: isActive is not taken from the row. *)
ContextOfAny(id) ==
  [userId |-> id, role |-> users[id].role, rank |-> users[id].rank,
   isActive |-> TRUE, assignedUsers |-> {}]

ContextOf(id) ==
  [userId |-> id, role |-> users[id].role, rank |-> users[id].rank,
   isActive |-> users[id].status = "ACTIVE", assignedUsers |-> {}]

(* Faulty variant: next() is called only when the account was found. *)
LoadUserOrWait(r) ==
  /\ At(r, "loadUser")
  /\ LET id == request[r].call.token
     IN  \/ /\ id \in Present
            /\ Becomes(r, [request[r] EXCEPT !.step = "enter", !.ctx = ContextOf(id)])
         \/ CallFails(r)
  /\ UNCHANGED <<up, table, history>>

LoadUser(r) ==
  /\ At(r, "loadUser")
  /\ LET id == request[r].call.token
     IN  \/ /\ id \in Present
            /\ Becomes(r, [request[r] EXCEPT !.step = "enter", !.ctx = ContextOf(id)])
         \/ /\ id \notin Present
            /\ Goes(r, "enter")
         \/ CallFails(r)
  /\ UNCHANGED <<up, table, history>>

-----------------------------------------------------------------------------
(* ContextInterceptor.intercept, then the validation pipe and the controller *)
(* up to the first query.                                                    *)
RefuseAnonymous(r) ==
  /\ At(r, "enter")
  /\ request[r].call.route \notin Public
  /\ request[r].ctx = NoContext
  /\ Throws(r, "AuthNException")
  /\ UNCHANGED <<up, table, history>>

(* @HasPermission(USER, READ) names no access levels. *)
CheckPermission(r) ==
  /\ At(r, "enter")
  /\ request[r].call.route \notin Public
  /\ request[r].ctx # NoContext
  /\ Audited(r, "hasPermission",
             HasPermission(UserRegistry, request[r].ctx, "USER", "READ", {}),
             [request[r] EXCEPT !.step = "read"])
  /\ UNCHANGED <<up, table, history>>

(* getHelloPost is public: getHello itself asks for a context. *)
EnterHelloPost(r) ==
  /\ At(r, "enter")
  /\ request[r].call.route = "helloPost"
  /\ IF request[r].ctx = NoContext THEN Throws(r, "Error") ELSE Goes(r, "read")
  /\ UNCHANGED <<up, table, history>>

ValidateBody(r) ==
  /\ At(r, "enter")
  /\ request[r].call.route \in {"register", "login"}
  /\ IF request[r].call.valid THEN Goes(r, "find") ELSE Throws(r, "ValidationException")
  /\ UNCHANGED <<up, table, history>>

-----------------------------------------------------------------------------
(* AuthNService.register.  The default role is known: forRoot succeeded.    *)
FindExisting(r) ==
  /\ At(r, "find")
  /\ request[r].call.route = "register"
  /\ \/ /\ Holders(request[r].call.email) # {}
        /\ Throws(r, "HttpException")
     \/ /\ Holders(request[r].call.email) = {}
        /\ Goes(r, "save")
     \/ CallFails(r)
  /\ UNCHANGED <<up, table, history>>

(* Faulty variant: the rank of the role is not copied to the account. *)
NewAccountUnranked(call) ==
  [email |-> call.email, password |-> call.password, status |-> "PENDING",
   role |-> DefaultRole, rank |-> Absent]

NewAccount(call) ==
  [email |-> call.email, password |-> call.password, status |-> "PENDING",
   role |-> DefaultRole, rank |-> RankOf[DefaultRole]]

Inserts(r) ==
  /\ users' = [users EXCEPT ![r] = NewAccount(request[r].call)]
  /\ committed' = committed \cup {r}

(* Faulty variant: the table has no unique index on the email. *)
SaveUnindexed(r) ==
  /\ At(r, "save")
  /\ Inserts(r)
  /\ Goes(r, "respond")
  /\ UNCHANGED <<up, tokens, changes, seen>>

(* Faulty variant: a conflict on the email is taken for success. *)
SaveOrIgnore(r) ==
  /\ At(r, "save")
  /\ Goes(r, "respond")
  /\ IF Holders(request[r].call.email) = {} THEN Inserts(r) ELSE UNCHANGED <<users, committed>>
  /\ UNCHANGED <<up, tokens, changes, seen>>

(* userRepository.save: one transaction under the unique index.  A commit    *)
(* whose acknowledgement is lost is an error to the caller.                  *)
Save(r) ==
  /\ At(r, "save")
  /\ \/ /\ Holders(request[r].call.email) # {}
        /\ Throws(r, "QueryFailedError")
        /\ UNCHANGED <<users, committed>>
     \/ /\ Holders(request[r].call.email) = {}
        /\ Inserts(r)
        /\ \/ Goes(r, "respond")
           \/ CallFails(r)
     \/ /\ CallFails(r)
        /\ UNCHANGED <<users, committed>>
  /\ UNCHANGED <<up, tokens, changes, seen>>

Respond(r) ==
  /\ At(r, "respond")
  /\ Answers(r, request[r], 201)
  /\ UNCHANGED <<up, table, history>>

-----------------------------------------------------------------------------
(* AuthNService.login *)

FindAccount(r) ==
  /\ At(r, "find")
  /\ request[r].call.route = "login"
  /\ \/ /\ Holders(request[r].call.email) \cap ActiveAccounts = {}
        /\ Throws(r, "HttpException")
     \/ \E id \in Holders(request[r].call.email) \cap ActiveAccounts :
          Becomes(r, [request[r] EXCEPT !.step = "signIn",
                        !.found = [userId |-> id, password |-> users[id].password]])
     \/ CallFails(r)
  /\ UNCHANGED <<up, table, history>>

(* Faulty variant: the token is signed before the password is compared. *)
SignInFirst(r) ==
  /\ At(r, "signIn")
  /\ IF request[r].found.password = request[r].call.password
     THEN Answers(r, request[r], 200) ELSE Throws(r, "HttpException")
  /\ tokens' = tokens \cup {request[r].found.userId}
  /\ UNCHANGED <<up, users, changes, history>>

SignIn(r) ==
  /\ At(r, "signIn")
  /\ \/ /\ request[r].found.password = request[r].call.password
        /\ tokens' = tokens \cup {request[r].found.userId}
        /\ \E status \in GrantedStatuses(request[r].found.userId) :
             Answers(r, request[r], status)
     \/ /\ request[r].found.password # request[r].call.password
        /\ Throws(r, "HttpException")
        /\ UNCHANGED tokens
     \/ /\ CallFails(r)
        /\ UNCHANGED tokens
  /\ UNCHANGED <<up, users, changes, history>>

-----------------------------------------------------------------------------
(* AppService.getHello: the row is read again, the context is not. *)
ReadUser(r) ==
  /\ At(r, "read")
  /\ LET id == request[r].ctx.userId
     IN  \/ /\ id \notin Present
            /\ Throws(r, "Error")
         \/ /\ id \in Present
            /\ LET object == [userId |-> id, rank |-> users[id].rank]
               IN  \E status \in GrantedStatuses(id) :
                     Audited(r, "can",
                             Can(UserRegistry, request[r].ctx, "USER", "READ", object),
                             [request[r] EXCEPT !.step = "done", !.status = status])
         \/ CallFails(r)
  /\ UNCHANGED <<up, table, history>>

-----------------------------------------------------------------------------
(* The environment: accounts are activated, blocked, promoted and removed by  *)
(* others (no route of the application does it), and the process may stop.    *)
Change(id, row) ==
  /\ id \in Present
  /\ changes < MaxChanges
  /\ users' = [users EXCEPT ![id] = row]
  /\ changes' = changes + 1
  /\ seen' = [r \in Requests |->
       IF InFlight(r) THEN [active |-> seen[r].active \cup ActiveAccounts',
                            changed |-> seen[r].changed \cup {id}]
       ELSE seen[r]]
  /\ UNCHANGED <<up, request, tokens, committed>>

SetStatus(id, status) ==
  /\ id \in Present
  /\ users[id].status # status
  /\ Change(id, [users[id] EXCEPT !.status = status])

SetRole(id, role) ==
  /\ id \in Present
  /\ users[id].role # role
  /\ Change(id, [users[id] EXCEPT !.role = role, !.rank = RankOf[role]])

RemoveUser(id) == Change(id, Absent)

(* A request in flight is lost: its client sees the connection close. *)
Crash ==
  /\ up
  /\ up' = FALSE
  /\ request' = [r \in Requests |-> IF InFlight(r) THEN [request[r] EXCEPT !.step = "lost"]
                                    ELSE request[r]]
  /\ UNCHANGED <<table, history>>

Restart ==
  /\ ~up
  /\ up' = TRUE
  /\ UNCHANGED <<request, table, history>>

-----------------------------------------------------------------------------
Step(r) ==
  \/ Verify(r) \/ LoadUser(r)
  \/ RefuseAnonymous(r) \/ CheckPermission(r) \/ EnterHelloPost(r) \/ ValidateBody(r)
  \/ FindExisting(r) \/ Save(r) \/ Respond(r)
  \/ FindAccount(r) \/ SignIn(r)
  \/ ReadUser(r)

Environment ==
  \/ \E id \in UserIds, status \in Statuses : SetStatus(id, status)
  \/ \E id \in UserIds, role \in UserRoles : SetRole(id, role)
  \/ \E id \in UserIds : RemoveUser(id)
  \/ Crash
  \/ Restart

Next ==
  \/ \E r \in Requests, call \in Calls : Arrive(r, call)
  \/ \E r \in Requests : Step(r)
  \/ Environment

Spec == Init /\ [][Next]_vars

(* Every await settles: queries answer or fail, promises of the token and hash *)
(* services resolve or reject, and the event loop runs what is ready.          *)
FairSpec == Spec /\ \A r \in Requests : WF_vars(Step(r))

-----------------------------------------------------------------------------
(* Every request carries what its step reads, and the table holds accounts. *)
TypeOK ==
  /\ up \in BOOLEAN
  /\ request \in [Requests -> RequestState]
  /\ users \in [UserIds -> Account \cup {Absent}]
  /\ tokens \subseteq UserIds
  /\ changes \in 0..MaxChanges
  /\ committed \subseteq Requests
  /\ seen \in [Requests -> [active: SUBSET UserIds, changed: SUBSET UserIds]]

(* Two accounts never share an address, although register checks for an       *)
(* existing account in one query and stores the new one in another.           *)
UniqueEmail ==
  \A a, b \in Present : users[a].email = users[b].email => a = b

(* The decisions are made on a context read before the handler runs.  However *)
(* the account changes meanwhile, a request that is served (a token for login, *)
(* the user's data for the two "hello" routes) belongs to an account that was  *)
(* active at some instant between the request's arrival and its reply.         *)
ServedWhileActive ==
  \A r \in Requests :
    request[r].status = 200 =>
      LET id == IF request[r].call.route = "login" THEN request[r].found.userId
                ELSE request[r].ctx.userId
      IN  id \in seen[r].active

(* "Not authorized" is never answered to an account that was active, and left  *)
(* alone, for as long as the request took: its own record is always readable.  *)
ForbiddenOnlyWithCause ==
  \A r \in Requests :
    request[r].status = 403 =>
      \/ request[r].ctx.userId \notin seen[r].active
      \/ request[r].ctx.userId \in seen[r].changed

(* The audit trail tells the replies apart: a user's data leaves only after    *)
(* every decision on the way was logged as allowed, and "not authorized" is    *)
(* the reply if and only if the last decision was logged as denied.            *)
AuditMatchesReply ==
  \A r \in Requests :
    LET audit == request[r].audit
        denied == audit # <<>> /\ audit[Len(audit)].result = "deny"
    IN  /\ request[r].status = 200 /\ request[r].call.route = "hello" =>
             audit = <<AuditEntry("hasPermission", TRUE), AuditEntry("can", TRUE)>>
        /\ request[r].status = 200 /\ request[r].call.route = "helloPost" =>
             audit = <<AuditEntry("can", TRUE)>>
        /\ denied <=> request[r].status = 403

(* A token signed here was earned: some login named the address and password   *)
(* the account has (or had until others removed it) and was answered 200.      *)
TokensEarned ==
  \A id \in tokens \ Seeds :
    \E r \in Requests :
      /\ request[r].call.route = "login" /\ request[r].status = 200
      /\ request[id].call.route = "register" /\ id \in committed
      /\ request[r].call.email = request[id].call.email
      /\ request[r].call.password = request[id].call.password

(* Every request that arrives is answered, unless the process stops first.     *)
EveryRequestEnds ==
  \A r \in Requests : InFlight(r) ~> request[r].step \in Ended

(* Logging in with the wrong credentials is refused with the status of the     *)
(* UnauthorizedException that login throws for it.                             *)
LoginRefusalIs401 ==
  \A r \in Requests :
    /\ request[r].call.route = "login" /\ request[r].call.valid
    /\ request[r].call.token = NoToken
    /\ request[r].step = "done" /\ request[r].status # 200
    => request[r].status = 401

-----------------------------------------------------------------------------
(* Registration implements AccountDirectory. *)
Registers(r) == request[r].call.route = "register" /\ request[r].call.email # Absent

EmailOwner ==
  [email \in Emails |-> IF Holders(email) = {} THEN Absent
                        ELSE CHOOSE id \in Holders(email) : TRUE]
Asked == [r \in Requests |-> IF Registers(r) THEN request[r].call.email ELSE Absent]
Told ==
  [r \in Requests |->
     CASE ~Registers(r) \/ request[r].step \notin Ended -> "none"
       [] Registers(r) /\ request[r].status = 201 -> "created"
       [] OTHER -> "failed"]
SeedOwner ==
  [email \in Emails |->
     IF \E id \in Seeds : SeedAccounts[id].email = email
     THEN CHOOSE id \in Seeds : SeedAccounts[id].email = email ELSE Absent]

Directory ==
  INSTANCE AccountDirectory WITH
    Clients <- Requests, Nothing <- Absent, InitialOwner <- SeedOwner,
    owner <- EmailOwner, asked <- Asked, claimed <- committed, answer <- Told

(* Registering is one indivisible claim of an address, whatever interleaving,  *)
(* failing query, lost acknowledgement or crash the requests run into.         *)
RegistrationIsAtomicClaim == Directory!Spec
=============================================================================
