# Verification of nest-error-handling-example

TLA+ models of the parts of this NestJS server that decide or coordinate something:
who may do what (the `AuthZModule` package and its configuration), what registering,
logging in and asking for one's own record do when requests run concurrently and calls
fail, how an error becomes a reply, how the `User` aggregate changes and is stored, how
the server starts and its database is migrated, and what its log says. TLC checks them on
small instances; TLAPS proves all their safety properties for every value of the
constants.

Source paths below are relative to `src/src/`.

## 1. Inventory

| Component | State | Operations | Hard parts |
|---|---|---|---|
| **AuthZRegistry** `Packages/AuthZModule/authz.registry.ts` | static maps: roles, resources (null or validated definition), role -> resources index; default role, global checks, log flag, logger, two exception factories | `addRole`, `setDefaultRole`, `addResource`, `setGlobalChecks`, four setters, `InitRegistry` (forRoot), `InitResources` (forFeature), `getRoleInfo` | methods validate and store in one loop, so a call that throws keeps what it did; definitions may be replaced; the index is updated before the definition is stored |
| **AuthZService** `Services/authz.service.ts` | none (reads the registry and the request's context) | `hasPermission`, `can`, `canBe`, `getAccessLevel` | three readings of the same tables; audit entry before the effect; a denied decision throws |
| **ContextInterceptor**, decorators | `AsyncLocalStorage` per request | `intercept` | runs the handler inside the context that was current at arrival |
| **Authorization configuration** `Modules/AuthZ`, `Identity/Users/user.authz.config.ts` | constants | the options of forRoot and forFeature | list order of levels; ranks that come back from the database as text |
| **JwtAuthNMiddleware**, **JwtTokenService** | none | `use`: verify token, load user, build context | awaits; an account that changes after it was read; must always call `next` or reject |
| **AuthNService** | users table | `register`, `login` | check-then-insert across awaits; lost acknowledgements; crash between commit and reply |
| **AppService** (Test module) | none | `getHello` for GET / and POST / | reads the row again with an old context |
| **ErrorHandler**, **CustomValidationPipe** | none | `handleException`, `catch`, `transform` | logs before it answers; foreign exceptions |
| **User aggregate** `Identity/Users/Domain`, `UserMapper` | one object in memory, one stored row | `create`, `changeEmail`, `validateEmail`, `resetPassword`, `changePassword`, `changeProfile`, `transitionStatus`, `delete`, both directions of the mapper | fields assigned before something throws; two deletion marks; nullable parts |
| **Bootstrap, environment, data source** `main.ts`, `Modules/Global`, the `index.module.ts` files | `process.env`, the cache of `require`, the registry | importing, `forRoot`, `forFeature`, validating, connecting, listening | the order of import lines decides what a call finds; `process.env` is read before it is validated; attempts are limited |
| **Migrations** `Database/Migrations`, `scripts/migration-runner.js` | the schema, TypeORM's ledger | `up`, `down`; a server's start, `run`, `revert` | several processes migrate one database; each decides on a ledger it read before; crashes and lost acknowledgements |
| **HttpMiddleware**, request context, **TransformInterceptor**, **Health** | correlation id per request in `AsyncLocalStorage` | `use`, the override of `send`, `intercept`, `check` | the id has to survive awaits of overlapping requests; a line about a reply that was already sent |
| **Logger** `Packages/Logger` | the transport's level | `setLogLevels`, the level methods, `normalizeArgs`, `writeLog` | the level whose number is 0; arguments told apart by their shape only |
| **Line format** `Packages/Logger/Helpers` | the objects one walk has met | `safeStringify`, `redactionFormat` | shared and cyclic objects; text cut off in the middle; secrets at any depth |
| Shared values and services `Shared` | - | identifiers, dates, encryption, `createJob` | - |

How they interact: importing `main.ts` evaluates the modules depth first;
`Modules/AuthZ/index.module.ts` calls `forRoot` and `Users/index.module.ts` calls
`forFeature`. Both write the registry and nothing writes it afterwards. `bootstrap()` then
connects, migrates when told to, and listens. A request passes HttpMiddleware (which opens
its context and logs it), JwtAuthNMiddleware (token service, users table),
ContextInterceptor (registry, through `hasPermission`), the validation pipe, a controller
and its service (users table, `can`). Whatever throws on the way ends in
`GlobalExceptionFilter`. Requests share the users table and the log; servers share the
database.

What makes each component correct: section 3 has the properties, `PROJECT.json` the
list of hazards they are aimed at, each at its line.

## 2. Modules

| Module | Models | Correspondence |
|---|---|---|
| `AuthZRegistry` | the registry | one variable per static map; one action per method. JavaScript runs a method to its end, so a method is one step; `InitResources` is a `forEach` of `addResource` calls and takes one step per entry (`InitResourcesStep`), during which no other call is made (`Idle`). The order of an object's keys is part of the input and is not fixed: a loop that throws may have handled any subset of the good keys (`ValidateAndRegister`, `ApplyRootOptions`). `outcome` records the last call, its error and the definitions it found. A definition has the fields its TypeScript type demands; one without actions or permissions, whose TypeError `addResource` wraps, is no input. |
| `AuthZService` | the decision methods | pure operators on what they see of the registry and on a context. A resolver is the set of pairs it answers true on, a global check the set of contexts that pass. |
| `AuthZDecisions` | composition of the two | the service reads the registry's variables in every state registration can leave. |
| `UserAuthZ` | the application's options | `UserRegistry` is what forRoot and forFeature build from them. A rank is compared as the text the driver hands over (`TextAtMost`). |
| `Boot` | starting the server | `stack` and `required` are the evaluation of the import graph, one `require()` per step; the registry is an INSTANCE of `AuthZRegistry` with the application's options, called where the files call it; then validation, connection attempts, `listen`. A number in the environment is its plain decimal text; texts like `1e1`, which validation and the data source read differently, are left out. |
| `Migrations` | schema, ledger and the processes that migrate | `Up` and `Down` are the migration's statements in their order; one action per query a process waits for: is there a ledger, make it, read it, one statement, commit. What TypeORM and PostgreSQL do is modelled from what the code relies on: one transaction for statements and ledger entry, a statement waits for a transaction that changes the same object. |
| `ErrorHandler` | the filter | what is thrown -> HTTP status, with a log line that may fail. |
| `AccountDirectory` | abstract specification of registering | an address is claimed in one indivisible step. |
| `IdentityService` | middleware, interceptor, pipe, register, login, getHello, filter | one action from one await on the database or the token service to the next; `request[r]` holds where a request stands and what it has read. bcrypt, class-validator and signing read nothing shared and are part of the step around them, which they may fail (`CallFails`). A row that others made may lack the profile that `login` reads, or the verification without which `UserMapper` throws; the request is then answered an error after it was granted (`GrantedStatuses`). The environment changes the table (status and role changes, removals: no route of the application makes them) and stops and starts the process. |
| `UserAggregate` | User, Profile, EmailVerification, PasswordReset, UserMapper | one action per method; `Update` is the private `update(callback)`: refused on a deleted user, and a callback that throws keeps what it assigned. |
| `HttpLogging` | HttpMiddleware, the request context, interceptor, filter and health check as writers of lines and replies | `request[r].store` is the store the continuation of `r` runs with; a line's correlation id is the store at the time of writing. |
| `Logger` | levels and arguments | `SetLogLevels` and `Log`; `NormalizeArgs` has the patterns of `normalizeArgs` in their order, with `limitPayloadSize` for a payload of several values (`Limited`). The level a Logger starts with is LOG_LEVEL, which nothing validates (`EnvLevels`). |
| `LogFormat` | safeStringify and redactionFormat | `JSON.stringify` as a walk with a stack, one property per step, with the replacer's memory (`seen`); the text is the list of printed fields with their depth. `Fallback` is the payload of a line that could not be parsed: one plain leaf stands for the message of the `JSON.parse` error (redact.logger.ts:121), which may quote a snippet of the text. |
| `MC*` | small instances | values for the constants |
| `*Proofs` | theorems | section 5 |

Operators commented *Faulty variant* are no part of a specification. Each is one of the
mistakes a change of the code could make, and the entry under "mutants" in `PROJECT.json` that
names it says which property notices it.

Some variables are history and guard nothing: in `IdentityService` `committed` (the requests
whose INSERT was committed) and `seen` (which accounts were active, and which were changed by
others, while a request was in flight); in `AuthZRegistry` `outcome`; in `UserAggregate` `confirmed`; in `Logger` `named`;
in `Migrations` `reverted`, with each process's `read` and `since`.

## 3. Runs

| Run | Instance | Shows |
|---|---|---|
| `decisions` | 2 roles, 2 resources; six root options of which four are refused at different steps; five definitions, three of them bad in different places; five feature lists; contexts with each role, without role, without context, active or not | the tables stay consistent under every sequence of calls: `RoleInfoComplete` (index against definitions), `DefinitionsClosed`, `DefaultRoleRegistered`, `FeaturePrefixApplied`, `ForwardOnly`, `FailureKeepsDefinitions`; and in every state they leave, the three readings agree: `CanWithinHasPermission`, `ReportMatchesDecisions` |
| `access` | 2 requests of any kind (one may register the account the other uses, or both claim one address), an administrator, 2 changes by others, failing queries and log lines, crashes | `UniqueEmail`, `ServedWhileActive`, `ForbiddenOnlyWithCause`, `AuditMatchesReply`, `TokensEarned`, and `RegistrationIsAtomicClaim`: the service implements `AccountDirectory` |
| `answers` | the same requests, one change by others, crashes, fairness; queries, hashing and signing succeed | `EveryRequestEnds` |
| `user_aggregate` | 2 addresses, 2 tokens, rows of older accounts (verified, deleted, without verification) | `DeletedTogether`, `VerifiedEmailWasConfirmed`, `RoundTrip`, `DeletionIsFinal`, `FailureKeepsUser` |
| `boot` | thirteen environments, good ones and ones that differ in one variable; refused connections, a taken port, kills; fairness | `ListensWithRegistry` (a server that listens has exactly the registry the models of requests use), `AcceptedAttemptsMade` (the attempts that are made are those validation accepted), `NeverStopsOverRegistry`, `RanksKeepTheirOrder`, `StartEnds` |
| `migrations` | two servers, a run and a revert on one database, three attempts, two crashes, broken connections or lost acknowledgements; fairness | `LedgerMatchesSchema`, `LostRacesCostTwoAttempts`, `ReadyWithTables`, `RefusedOnlyWhenStale`, `EveryServerReady` |
| `logger` | up to three parameters, texts, objects and other values, truthy and falsy, too long for a line or refused by JSON; error and log calls; LOG_LEVEL known, FATAL or unknown; lists of up to two names, known or not | `FatalLinesWritten`, `NestCallsUnderstood` (what Nest's Logger adds is told apart with at most one value, and becomes part of the payload with more) |
| `log_format` | a line, its payload and two objects below it, referring to each other in every way; text cut off after six fields; fairness | `EveryObjectOnce`, `SensitiveValuesReplaced`, `FormattingEnds` |
| `http_logging` | 2 overlapping requests of every kind, up to two awaits each, both HTTP adapters | `LinesCarryTheirRequest`, `ResponseLinesTrue` |
| `login_refused`, `reply_lines`, `log_levels` | one property each | the code disagrees with its own documentation or comment (section 4) |

**Bounds.** The registry's state is finite without a bound: two roles and two resources
are the least at which one can be refused after another was accepted, and a feature list of
two entries the least with a prefix. `MaxChanges` bounds the changes others make to the
table (one is enough to free an address under a waiting registration; two let an account be
activated and blocked, or promoted and removed, between two steps of one request). A
request is used once; two of them are two competitors, or a client and its retry, and the
theorems of section 5 hold for any number. `access` treats the requests as interchangeable
(`SYMMETRY`); the liveness runs do not use symmetry. In `UserAggregate` times are "set" or
"not set" and one password is enough, as no method looks at it. `RetryAttempts` is 3 in
`migrations`, the data source's default, which is exactly what losing both races leaves
room for; two servers and a run are three competitors for the ledger, and two faults let one
follow another in one process. `MaxSize` lies below the longest text of the graphs and above
the shortest, so both outcomes occur. `MaxParams` is the least that reaches every
pattern of `normalizeArgs`, `MaxNames` the least at which an order of levels exists. `Methods` has the one method whose
arguments Nest arranges differently (`error`) and one of the others, which share their code.
`MaxAwaits` lets each request be interrupted twice between its first line and its reply.

Deadlock checking is off where the system may be over: all requests used, a server stopped
or listening, all processes through, a line written. It is on for the registry, the
aggregate and the logger, which can always be called again.

**Fairness.** `IdentityService`: weak fairness of each request's own steps, since queries and
the promises of the token and hash services settle, one way or the other, and Node's event
loop runs what is ready. `Boot`: weak fairness of `ServerStep`, for the same reason.
`Migrations`: weak fairness of each process's steps; a statement that waits for another
transaction is not enabled, so what ends the wait is that transaction's own progress.
`LogFormat`: weak fairness of `Next`, a synchronous function. Nothing is assumed of
clients, of others that change the table, of operators, or of a process being up: a crash
answers every request in flight by closing its connection (`lost`), and may come at
any time. In `answers` no query fails: a call that could always fail would be a way out of
every step, and weak fairness would force it, so a step that forgot to go on would not
show. `EveryServerReady` allows a server to stop short only if a fault or a revert came
between; `FormattingEnds` counts the walk of a finite graph, not Node's speed.

**Assumptions on inputs.** `user_aggregate` uses non-empty tokens, as every caller in the
repository does; `FailureKeepsUser` and `VerifiedEmailWasConfirmed` hold only under it (section 4 says
what happens otherwise: put `Blank` into `Tokens`). `ForeignRows` (rows the aggregate did not
write) have both deletion marks or none. A log line may fail in `access` although the
package's own Logger catches its failures, because the filter and `executeAuthZOperation`
accept any logger; `answers` lets it succeed. `FatalLinesWritten` speaks of a Logger that was
told a level below FATAL: before that, an unknown LOG_LEVEL silences every line. `Boot` lets the database be empty or migrated when the process starts.

## 4. Where the code and its own words disagree

* **`login_refused`** - `login` throws Nest's UnauthorizedException (401); handleException.ts:14
  turns every Error that is not the package's Exception into UnknownException, status 500.
  All of Nest's HTTP exceptions meet the same fate, the BadRequestException of `register`
  and Nest's own 404 included.
* **`reply_lines`** - HttpMiddleware.ts:135 overrides `send` "to capture response data"; under
  the Fastify adapter that `main.ts` starts, middleware is handed the raw response, replies
  do not go through it, and no RESPONSE line is written. Under Express it is, and
  `ResponseLinesTrue` says what can be relied on then.

* **`log_levels`** - Logger.service.ts:368 says the highest level of a list wins;
  `logLevels[x] || 999` (:371) reads FATAL's 0 as missing, so a list with FATAL and another
  level selects the other one, and error lines meant to be silenced are written.

Seen while reading, with no run of their own:

* authz.registry.ts:260 says an unknown role is skipped; line 262 throws.
* The package's readme.md:438 says `getAccessLevel` returns null without access;
  authz.service.ts:314 throws on every denied entry. readme.md:633 says access level
  functions run in priority order; `can` (authz.service.ts:157) uses the order in which a
  role lists them, and priorities are validated, stored and never read. readme.md:436 gives
  `canBe` its arguments in another order than the code.
* The Dockerfile sets NODE_ENV to `production`, which validation refuses: it knows
  `PRODUCTION`. `@Transform` of the flags runs after implicit conversion has made any
  text a boolean, so no text of a flag is refused. `PORT` is validated and never used; the server
  listens on 3000.
* LOG_LEVEL (Logger.service.ts:44) is not validated: an unknown name there silences every line,
  fatal ones included, and `setLogLevels` with unknown names only does the same.
* A call through Nest's Logger with two values or more loses its context: pattern 5
  (Logger.service.ts:230) takes what Nest appended for one more value. `NestCallsUnderstood` says so.
* The data source reads an empty DB_RETRY_ATTEMPTS as three, validation as zero, which it refuses;
  `AcceptedAttemptsMade` shows that the three never decides.
* An object that occurs twice in a line without a cycle is printed as
  "[Circular Reference]" the second time. If the first time is below a sensitive key, it is
  redacted there and the line has it nowhere: `EveryObjectOnce` speaks of the text before
  redaction.
* `changeEmail` (user.ts:95) assigns the address before the verification's constructor refuses an
  empty token, so with a caller that passes one a verified mark ends on an address nobody
  confirmed. No caller does.
* The fallback in user.mapper.ts:39 for a row without verification always throws (the
  constructor refuses its empty token).
* `test/app.e2e-spec.ts` expects `Hello World!` from GET /, which answers 401 without a
  token.

## 5. Proofs

Every theorem is about the specifications TLC runs, for all values of the constants. Every
invariant, action property and refinement that a passing run checks is proved; only the
liveness properties are not.

| Module | Theorem | Argument |
|---|---|---|
| `AuthZProofs` | `TypeCorrect` | `TypeOK` is inductive; one lemma per action. |
| | `DefinitionsClosedCorrect` | inductive together with `TypeOK`: roles are never removed, and what is stored was validated. |
| | `RoleInfoCorrect` | `RoleInfoComplete` is not inductive: the strengthening `IndexComplete` says every role of every stored definition is in the index (the converse is false, and `RoleInfo` filters). It needs `DefinitionsClosed`: `addRole` empties the index entry of a *new* role, which no stored definition can name yet. |
| | `DefaultRoleCorrect`, `ForwardOnlyCorrect`, `FailureKeepsDefinitionsCorrect` | from `TypeOK`, action by action. |
| | `FeaturePrefixCorrect` | `PrefixInv` says of a list that is being applied what `FeaturePrefixApplied` says of one that is over: the last entry before the next one decides a resource's definition, and what no such entry names is as the call found it. |
| | `CanWithinCorrect` | from the definitions of the methods alone: it holds in every state. |
| | `GrantsAreDeclaredCorrect` | from `DefinitionsClosedCorrect`; a consequence that no run checks on its own. |
| | `ReportCorrect` | from `IndexComplete`: what the index leads to is what a scan finds. |
| `IdentityProofs` | `TypeCorrect`, `UniqueEmailCorrect` | one inductive invariant, `TypeOK` with `Prepared` (what a request must have read by the step it stands at: a call with an address before the look-up, a context before `read`, a found account before `signIn`) and `UniqueEmail`. The look-up of `register` plays no part in the proof: the unique index, that is the guard of `Save`, carries it. |
| | (the next four) | every step of a request is shown once to be one of eleven field-level ways to go on (`Outcome`); the invariants below are carried through those ways and through what others do. |
| | `AuditCorrect` | `TrailInv`: the audit trail at every step a request can stand at. |
| | `TokensCorrect` | `ClaimInv` (a row of a request is the one it asked for, committed by a registration that came as far) and `FoundRegistered`, which says the account a login found still is what was registered, although the row may be gone. |
| | `ServedWhileActiveCorrect`, `ForbiddenOnlyWithCauseCorrect` | `Watched` (the history variable tells the truth about the table) and `TrustInv` (a context that says "active" was active while the request was in flight, and one of an account nobody changed is still true of it); then one lemma on the five roles: `UserDefinition` grants each of them READ of an own record. |
| | `RegistrationCorrect` | refinement mapping: the owner of an address is the userId of its row, what a request asks for and was told are read off its step and status. The INSERT is `Claim`; a removal is `Release`; a reply is `Confirm` or `Fail`; everything else stutters. Rests on `UniqueEmail`. |
| `UserAggregateProofs` | `TypeCorrect`, `DeletedTogetherCorrect`, `DeletionIsFinalCorrect` | `DeletionInv` ties the two marks in memory and in the row; it makes `Profile.delete` unable to throw inside `User.delete`. |
| | `VerifiedEmailCorrect` | extends it to the stored row; assumes that no caller passes an empty token. |
| | `RoundTripCorrect` | `AcceptedInv`: the constructors' own checks hold of every object the methods leave, half-finished ones included, so a row that was written can be read. |
| | `FailureKeepsUserCorrect` | method by method, with `AcceptedInv`; assumes no empty token. |
| `MigrationsProofs` | `TypeCorrect`, `LedgerCorrect`, `RefusedOnlyWhenStaleCorrect` | `MigrationInv`: at most one process has uncommitted changes, and it works on the full or the empty schema. Each of the twelve statements of `Up` and `Down` is executable after the ones before it. |
| | `LostRacesCorrect`, `ReadyWithTablesCorrect` | `RacesInv` bounds failures by what a process can still lose at its state: the ledger's table once, the migration once for each change of the ledger. |
| `LogFormatProofs` | `EveryObjectOnceCorrect` | `WalkInv`: an object that was met is on the stack or done, and what is done has led only to objects that were met. |
| | `SensitiveValuesCorrect` | `RedactSolves`: `Redact` extends its result entry by entry, which needs an induction over the text. `KeptNeighbours`: between a sensitive entry and the next one that is kept, the text has come back to the depth of the sensitive one or higher, so entries that become neighbours in the output have nothing of the secret between them. |
| `LoggerProofs` | `FatalLinesCorrect` | `LowestOfList`: `reduce` ends with a name of the list, and none ranks lower. An unknown name ranks 999, so a level below FATAL in the list wins against it, and a fatal line passes every level. The level before plays no part. |
| | `NestCallsCorrect` | from `NormalizeArgs` alone, pattern by pattern, for lists of any length; the parameters Nest adds are told apart by their number and kind, and `Fits` carries a long list past `Limited`. |
| `BootProofs` | `ListensWithRegistryCorrect`, `NeverStopsCorrect` | `BootInv` lists the 21 places of the walk through the import graph, each with what is in the cache of `require` and what the registry holds there (`Fresh` before forRoot, `Rooted` after it, `Applying` and `Ready` around forFeature's one entry). `RequireStep` and one lemma per body show that each place leads to the next; `ForRoot`, `ForFeatureCalled` and `ForFeatureApplied` that the application's options pass every check of the registry. |
| | `AcceptedAttemptsCorrect` | `AttemptsInv`: after validation both readers of DB_RETRY_ATTEMPTS have the same number (`ReadersAgree`), and fewer attempts have failed. |
| | `RanksCorrect` | from `BootInv` and `DigitsCompare`: texts of one digit are ordered as numbers are. |
| | `RegistryImplemented`, `ApplicationDecidesCorrect` | every behaviour of the process is one of `AuthZRegistry` with the application's options; the theorems of `AuthZProofs`, instantiated, then hold of its registry at every moment, a start that was killed half-way included. |
| `HttpLoggingProofs` | `LinesCorrect`, `ResponseLinesCorrect` | `LogInv`: what the log holds of a request at each of its stages. |

Assumptions are those named in the modules (types of the constants, markers that are no
value, seed rows with distinct addresses, request names that are user names, at least one
attempt); TLC evaluates each on the runs' constants. `MarkersApart` of `Boot` is the longest:
the model values for "null", "left out", "wrong type" and "blank" are none of the values the
application hands over. `VerifiedEmailCorrect` and `FailureKeepsUserCorrect` have the one
assumption of their own. `AcceptedAttemptsCorrect` takes the text of
DB_RETRY_ATTEMPTS for a number, missing, blank or no number; its neighbours assume nothing of the
environments. The import graph is the application's own and no constant.

What the recursion of `Redact` and the loop of `reduce` compute for every input is shown with
a set in place of an induction rule: a set of numbers that holds 0, and with each number the
next one, holds all of them (`InductionSet`). It is proved by the pigeonhole principle: below
a missing number, counting on by one would map a finite set into itself without 0.

Model-checked only: `EveryRequestEnds`, `StartEnds`, `EveryServerReady` and `FormattingEnds`,
which rest on fairness and are beyond the prover at hand.

## 6. Not modelled, and why

* *Wording and payloads*: messages, details of errors, the colours and layout of the
  development format. No property depends on them.
* *Parts of a line*: addresses (`getRealIp`), headers, bodies; redaction by patterns inside
  texts; how an Error is described. They read and write no shared state.
* *Shared values and services*: identifiers (taken as unique), dates (set or not), currencies
  and countries, encryption, `createJob`, which nothing calls.
* *Token contents, keys, hashing*: a password matches or not, a token that was signed
  verifies or has expired.
* *Connection options, TLS, HTTP limits, shutdown hooks*: options handed to libraries.
* *The migration runner's `create` and `generate`*: they write source files.
* *Deletion marks in queries*: no route sets them. `deleteAt` is a plain column
  (user.schema.ts:63), so `findOne` still returns a marked row and `register` and `login` treat it
  like any other; the models of requests have no mark, and their removals are rows deleted.
* `EmailVerification.resend`, `PasswordReset.use` and `expire`: nothing calls them on a user.
* `inviteOnly` of a role: stored, never read.
* *The body handed to `send` after the reply* (HttpMiddleware.ts:163): a body that cannot be
  serialized makes the override throw for a request that was answered; the override is
  never called with the adapter in use.

## 7. Plan

Done: registry and decisions, the identity service with its abstract specification, the user
aggregate, starting, migrating, logging, and the proofs of section 5, which cover every safety
property the runs check. What is left:

1. Deletion marks in `IdentityService`, once a route sets them: queries still return marked rows,
   so a deleted account can log in as long as its status is ACTIVE.
2. `Migrations` composed with `IdentityService`: a server that answers requests while another
   process reverts its tables.
