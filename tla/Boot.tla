-------------------------------- MODULE Boot --------------------------------
(***************************************************************************)
(* Starting the server: the files that main.ts imports are evaluated depth  *)
(* first, each once, and two of them call AuthZModule.forRoot and           *)
(* forFeature while they are evaluated; then bootstrap() validates the      *)
(* environment, connects to the database with a limited number of attempts  *)
(* and listens.  Whatever throws ends the process.                          *)
(*                                                                          *)
(* The registry is AuthZRegistry with the application's own options.  Only  *)
(* files whose evaluation does something, and the files that lead to them,  *)
(* are nodes of the import graph.                                           *)
(***************************************************************************)
EXTENDS UserAuthZ

CONSTANTS
  Environments,  \* the values process.env may hold: variable -> text or number
  Missing,       \* a variable that is not set
  Blank, Invalid, Null, Absent

VARIABLES
  rolesDefinitions, resourcesDefinitions, resourcesByRole, defaultRole,
  globalChecks, settings, feature, outcome, \* the registry of the process
  env,       \* process.env
  stack,     \* the files being evaluated, each with its next import
  required,  \* the files in the cache of require()
  phase,     \* what the process is doing
  cause,     \* why it stopped
  failures,  \* connection attempts that failed
  schema     \* of the database: "empty" or "migrated"; outlives the process

registryVars ==
  <<rolesDefinitions, resourcesDefinitions, resourcesByRole, defaultRole,
    globalChecks, settings, feature, outcome>>
processVars == <<env, stack, required, phase, cause, failures>>
vars == <<registryVars, processVars, schema>>

-----------------------------------------------------------------------------
(* The options of the application. *)

RolesDefinition ==
  [role \in UserRoles |->
     [inviteOnly |-> TRUE, rank |-> RankOf[role],
      userType |-> IF role = "SELLER" THEN "EXTERNAL" ELSE "INTERNAL"]]

RootOptions ==
  [roles |-> RolesDefinition, default |-> DefaultRole, resources |-> {"USER"},
   contextResolver |-> "application", globalChecks |-> {ActiveAccount}, log |-> TRUE,
   authNException |-> "application", authZException |-> "application",
   logger |-> "application"]

(* Faulty variant: the module of the feature hands over no definition. *)
NoFeatureOptions == <<>>

FeatureOptions == <<[name |-> "USER", definition |-> UserDefinition]>>

Registry == INSTANCE AuthZRegistry WITH
  Roles <- UserRoles,
  RoleDefinitions <- {RolesDefinition[role] : role \in UserRoles},
  Resources <- {"USER"},
  Actions <- UserActions,
  AccessLevels <- DOMAIN UserAccessLevels,
  AccessLevelFns <- {UserAccessLevels[level].fn : level \in DOMAIN UserAccessLevels},
  Priorities <- 0..3,
  Relationships <- {"OWNER"},
  Identifiers <- {"userId"},
  Checks <- {ActiveAccount},
  Callbacks <- {"default", "application"},
  RootOptions <- {RootOptions},
  Definitions <- {UserDefinition},
  FeatureOptions <- {FeatureOptions}

(* The markers are none of the values the application hands over. *)
ASSUME MarkersApart ==
  /\ Null # Absent
  /\ \A marker \in {Blank, Invalid, Null, Absent} :
       /\ \A value \in {"application", "userId", "USER"} \cup UserRoles : marker # value
       /\ marker # TRUE /\ marker \notin 0..3
       /\ marker # RolesDefinition /\ \A role \in UserRoles : marker # RolesDefinition[role]
       /\ marker # {"USER"} /\ marker # {ActiveAccount} /\ marker # ActiveAccount
       /\ marker # UserDefinition /\ marker # FeatureOptions
       /\ \A level \in DOMAIN UserAccessLevels : marker # UserAccessLevels[level].fn

ASSUME ApplicationOptionsTyped ==
  Registry!IsRootOption(RootOptions) /\ Registry!IsResourceDefinition(UserDefinition)

-----------------------------------------------------------------------------
(* validate(): the environment against the class EnvironmentVariables.      *)

NodeEnv == {"DEVELOPMENT", "STAGING", "PRODUCTION", "TEST"}

RequiredTexts == {"SERVICE_NAME", "DB_URL", "AUTH_ACCESS_PRIVATE_KEY", "AUTH_ACCESS_PUBLIC_KEY"}
Flags == {"DB_SSL_ENABLE", "DB_RUN_MIGRATIONS"}

(* @Min of the numbers; a text that is no number is "Invalid". *)
LeastNumber ==
  [v \in {"DB_RETRY_DELAY", "DB_RETRY_ATTEMPTS", "AUTH_ACCESS_EXPIRE"} |->
     IF v = "DB_RETRY_DELAY" THEN 0 ELSE 1]

(* A number stands for its plain decimal text, which validation (Number, then *)
(* parseInt) and the data source (parseInt alone) read alike; "1e1" is not one. *)
(* An empty text is the number 0.                                              *)
NoNumber(value, least) ==
  \/ value \in {Missing, Invalid}
  \/ value = Blank /\ least > 0
  \/ value \in Nat /\ value < least

RefusedApiVariables(e) ==
  {v \in {"PORT"} : NoNumber(e[v], 1)} \cup {v \in {"API_PREFIX"} : e[v] \in {Missing, Blank}}

(* Any text of a flag passes: it is converted to a boolean before. *)
RefusedVariables(e) ==
  {v \in RequiredTexts : e[v] \in {Missing, Blank}}
    \cup {v \in Flags : e[v] = Missing}
    \cup {v \in DOMAIN LeastNumber : NoNumber(e[v], LeastNumber[v])}
    \cup {v \in {"NODE_ENV"} : e[v] \notin NodeEnv}
    \cup {v \in {"APP_MODE"} : e[v] \notin {"API", "CRON"}}
    \cup (IF e["APP_MODE"] = "API" THEN RefusedApiVariables(e) ELSE {})

ASSUME EnvironmentsTyped ==
  \A e \in Environments : e["DB_RETRY_ATTEMPTS"] \in Nat \cup {Missing, Invalid, Blank}

(* The data source reads process.env itself, with a default of its own. *)
RetryAttempts(e) ==
  IF e["DB_RETRY_ATTEMPTS"] \in {Missing, Blank} THEN 3 ELSE e["DB_RETRY_ATTEMPTS"]
MigrationsRun(e) == e["DB_RUN_MIGRATIONS"] = "true"

-----------------------------------------------------------------------------
(* Evaluating the files. *)

(* Faulty variant: the features are imported before the global module. *)
ImportsFeaturesFirst ==
  [file \in {"main", "app.module", "Global", "datasource.option", "AuthZ", "Identity",
             "Users", "AuthN", "Test"} |->
     CASE file = "main"       -> <<"app.module">>
       [] file = "app.module" -> <<"Identity", "Global", "Test">>
       [] file = "Global"     -> <<"datasource.option", "AuthZ">>
       [] file = "Identity"   -> <<"Users", "AuthN">>
       [] file = "AuthN"      -> <<"Users">>
       [] file = "Test"       -> <<"Users">>
       [] OTHER               -> <<>>]

Imports ==
  [file \in {"main", "app.module", "Global", "datasource.option", "AuthZ", "Identity",
             "Users", "AuthN", "Test"} |->
     CASE file = "main"       -> <<"app.module">>
       [] file = "app.module" -> <<"Global", "Identity", "Test">>
       [] file = "Global"     -> <<"datasource.option", "AuthZ">>
       [] file = "Identity"   -> <<"Users", "AuthN">>
       [] file = "AuthN"      -> <<"Users">>
       [] file = "Test"       -> <<"Users">>
       [] OTHER               -> <<>>]

Evaluating(file) == [file |-> file, next |-> 1, called |-> FALSE]

(* The database may have been migrated by an earlier start or by hand. *)
Init ==
  /\ Registry!Init
  /\ env \in Environments
  /\ stack = <<Evaluating("main")>> /\ required = {"main"}
  /\ phase = "importing" /\ cause = "none" /\ failures = 0
  /\ schema \in {"empty", "migrated"}

Top == stack[Len(stack)]
ImportsLeft == Top.next <= Len(Imports[Top.file])

Stops(why) == phase' = "stopped" /\ cause' = why
Finished == stack' = SubSeq(stack, 1, Len(stack) - 1)

(* require() of the next import: evaluated once, found in the cache later. *)
Require ==
  /\ phase = "importing" /\ stack # <<>> /\ ImportsLeft
  /\ LET file == Imports[Top.file][Top.next]
         advanced == [stack EXCEPT ![Len(stack)].next = @ + 1]
     IN  /\ stack' = IF file \in required THEN advanced ELSE Append(advanced, Evaluating(file))
         /\ required' = required \cup {file}
  /\ UNCHANGED <<registryVars, env, phase, cause, failures, schema>>

(* The body of a file whose imports are done. *)
AtBodyOf(file) == phase = "importing" /\ stack # <<>> /\ ~ImportsLeft /\ Top.file = file

(* configService.getOrThrow('DB_URL'): an empty text is not missing. *)
EvaluateDataSource ==
  /\ AtBodyOf("datasource.option")
  /\ IF env["DB_URL"] = Missing
     THEN Stops("environment") /\ UNCHANGED stack
     ELSE Finished /\ UNCHANGED <<phase, cause>>
  /\ UNCHANGED <<registryVars, env, required, failures, schema>>

(* What was thrown inside a decorator leaves the import, and ends the process. *)
GoesOnUnlessThrown(continue) ==
  IF outcome'.error = "none" THEN continue /\ UNCHANGED <<phase, cause>>
  ELSE Stops("registry") /\ UNCHANGED stack

CallForRoot ==
  /\ AtBodyOf("AuthZ")
  /\ Registry!InitRegistry(RootOptions)
  /\ GoesOnUnlessThrown(Finished)
  /\ UNCHANGED <<env, required, failures, schema>>

CallForFeature ==
  /\ AtBodyOf("Users") /\ ~Top.called
  /\ Registry!InitResources(FeatureOptions)
  /\ GoesOnUnlessThrown(stack' = [stack EXCEPT ![Len(stack)].called = TRUE])
  /\ UNCHANGED <<env, required, failures, schema>>

ForFeatureStep ==
  /\ AtBodyOf("Users") /\ Top.called
  /\ Registry!InitResourcesStep
  /\ GoesOnUnlessThrown(UNCHANGED stack)
  /\ UNCHANGED <<env, required, failures, schema>>

EvaluateOther ==
  /\ \E file \in DOMAIN Imports \ {"datasource.option", "AuthZ"} : AtBodyOf(file)
  /\ Top.file = "Users" => Top.called /\ Registry!Idle
  /\ Finished
  /\ phase' = IF Top.file = "main" THEN "creating" ELSE phase
  /\ UNCHANGED <<registryVars, env, required, cause, failures, schema>>

-----------------------------------------------------------------------------
(* bootstrap(). *)

(* Faulty variant: an attempt that failed starts all over, uncounted. *)
AttemptFailsUncounted ==
  /\ phase = "connecting"
  /\ phase' = "creating"
  /\ UNCHANGED <<registryVars, env, stack, required, cause, failures, schema>>

(* Faulty variant: with skipMissingProperties. *)
ValidateEnvironmentLeniently ==
  /\ phase = "creating"
  /\ IF \A v \in RefusedVariables(env) : env[v] = Missing
     THEN phase' = "connecting" /\ UNCHANGED cause ELSE Stops("environment")
  /\ UNCHANGED <<registryVars, env, stack, required, failures, schema>>

(* ConfigModule refuses the environment at the latest when NestFactory scans *)
(* the modules, before any of them is initialised.                           *)
ValidateEnvironment ==
  /\ phase = "creating"
  /\ IF RefusedVariables(env) = {} THEN phase' = "connecting" /\ UNCHANGED cause
     ELSE Stops("environment")
  /\ UNCHANGED <<registryVars, env, stack, required, failures, schema>>

(* One attempt of TypeOrmModule: connect and, when told to, migrate. *)
AttemptSucceeds ==
  /\ phase = "connecting"
  /\ phase' = "initialised"
  /\ schema' = IF MigrationsRun(env) THEN "migrated" ELSE schema
  /\ UNCHANGED <<registryVars, env, stack, required, cause, failures>>

AttemptFails ==
  /\ phase = "connecting"
  /\ failures' = failures + 1
  /\ IF failures + 1 >= RetryAttempts(env)
     THEN Stops("database") ELSE UNCHANGED <<phase, cause>>
  /\ UNCHANGED <<registryVars, env, stack, required, schema>>

(* The rest of bootstrap: interceptors, pipe and filter, then listen(3000).  *)
(* The port may be taken; the rejected promise of bootstrap() is not caught. *)
Listen ==
  /\ phase = "initialised"
  /\ \/ phase' = "listening" /\ UNCHANGED cause
     \/ Stops("port")
  /\ UNCHANGED <<registryVars, env, stack, required, failures, schema>>

ServerStep ==
  \/ Require \/ EvaluateDataSource \/ CallForRoot \/ CallForFeature \/ ForFeatureStep
  \/ EvaluateOther \/ ValidateEnvironment \/ AttemptSucceeds \/ AttemptFails \/ Listen

(* The process is killed.  Starting again is Init: its memory is gone. *)
Kill ==
  /\ phase # "stopped"
  /\ Stops("killed")
  /\ UNCHANGED <<registryVars, env, stack, required, failures, schema>>

Next == ServerStep \/ Kill

Spec == Init /\ [][Next]_vars
FairSpec == Spec /\ WF_vars(ServerStep)

-----------------------------------------------------------------------------
(* While the server listens, the registry holds what the models of requests   *)
(* take for granted: every role, the default role, the check, the              *)
(* application's exceptions, and a USER definition whose every role is indexed. *)
ListensWithRegistry ==
  phase = "listening" =>
    /\ resourcesDefinitions = UserRegistry.definitions
    /\ globalChecks = UserRegistry.checks
    /\ rolesDefinitions = RolesDefinition /\ defaultRole = DefaultRole
    /\ resourcesByRole = [role \in UserRoles |-> {"USER"}]
    /\ settings = [log |-> TRUE, logger |-> "application", authNException |-> "application",
                   authZException |-> "application"]

(* Once the ranks are stored and read back, they are compared as text: with     *)
(* the roles the registry ended up with, the ALL_RANK level of the definition  *)
(* still means an equal or lower rank.                                         *)
RanksKeepTheirOrder ==
  phase = "listening" =>
    \A ctx \in UserContexts, user \in UserObjects :
      ctx.rank = rolesDefinitions[ctx.role].rank =>
        (<<ctx, user>> \in resourcesDefinitions["USER"].accessLevels["ALL_RANK"].fn
           <=> ctx.rank <= user.rank)

(* A start that gives up on the database has made exactly the attempts that the *)
(* validated environment asks for, and a server that listens failed fewer: the  *)
(* data source parses DB_RETRY_ATTEMPTS a second time, before validation has    *)
(* seen it and with a default of three that validation does not know, and still *)
(* the default never decides.                                                   *)
AcceptedAttemptsMade ==
  LET accepted == env["DB_RETRY_ATTEMPTS"]
  IN  /\ cause = "database" => failures = accepted
      /\ phase = "listening" => accepted \in Nat /\ failures < accepted

(* Starting never fails over the order of the files: every file that calls     *)
(* forFeature is evaluated after the one that calls forRoot, and the           *)
(* application's options pass every check of the registry.                     *)
NeverStopsOverRegistry == cause # "registry"

(* A start ends: the server listens or its process stops, however often the    *)
(* database refuses.                                                           *)
StartEnds == phase = "importing" ~> phase \in {"listening", "stopped"}

=============================================================================
