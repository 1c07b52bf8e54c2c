----------------------------- MODULE Migrations -----------------------------
(***************************************************************************)
(* The database schema as InitialMigration builds it and takes it down, and *)
(* the processes that migrate one database: servers started with            *)
(* DB_RUN_MIGRATIONS, which try again when an attempt fails, and runs of    *)
(* scripts/migration-runner.js, which do not.  They share nothing but the   *)
(* database, and each decides what to do on a ledger it read before its     *)
(* transaction began.                                                       *)
(*                                                                          *)
(* TypeORM and PostgreSQL are outside the repository.  What the code relies *)
(* on is modelled: pending migrations and their ledger entry are one        *)
(* transaction, DDL is transactional, a statement waits for a transaction   *)
(* that changes the same object, and is refused when the object it makes    *)
(* exists, the one it drops does not, or something else depends on it.      *)
(***************************************************************************)
EXTENDS Integers, Sequences

CONSTANTS
  Servers,        \* processes started with DB_RUN_MIGRATIONS = "true"
  Runs, Reverts,  \* invocations of the migration runner, by their task
  RetryAttempts,  \* DB_RETRY_ATTEMPTS
  MaxFaults       \* bound on crashes and broken connections

VARIABLES
  schema,   \* the objects that exist, as committed
  ledgerTable, \* does migrations_table exist?
  ledger,   \* rows of migrations_table for this migration, as committed
  process,  \* what each process is doing
  faults,   \* crashes and broken connections so far
  reverted  \* history: how many reverts were committed

vars == <<schema, ledgerTable, ledger, process, faults, reverted>>

Processes == Servers \cup Runs \cup Reverts

ASSUME RetryAttemptsValid == RetryAttempts \in Nat \ {0} /\ MaxFaults \in Nat
ASSUME TasksDistinct ==
  /\ Servers \cap (Runs \cup Reverts) = {}
  /\ Runs \cap Reverts = {}

-----------------------------------------------------------------------------
(* The migration. *)

Create(object) == [op |-> "create", object |-> object]
Drop(object) == [op |-> "drop", object |-> object]

Up ==
  <<Create("users_status_enum"), Create("users_role_enum"), Create("currencies_enum"),
    Create("users_table"),
    Create("IDX_USERS_EMAIL"), Create("IDX_USERS_STATUS"), Create("IDX_USERS_DELETE_AT"),
    Create("IDX_USERS_CREATE_AT"), Create("IDX_USERS_STATUS_DELETE_AT"), Create("IDX_USERS_RANK"),
    Create("profiles_table"), Create("FK_USER_PROFILE")>>

(* Faulty variant: a type is left behind. *)
DownWithoutCurrencies ==
  <<Drop("FK_USER_PROFILE"), Drop("profiles_table"),
    Drop("IDX_USERS_RANK"), Drop("IDX_USERS_STATUS_DELETE_AT"), Drop("IDX_USERS_CREATE_AT"),
    Drop("IDX_USERS_DELETE_AT"), Drop("IDX_USERS_STATUS"), Drop("IDX_USERS_EMAIL"),
    Drop("users_table"), Drop("users_role_enum"), Drop("users_status_enum")>>

(* Faulty variant: the types are dropped before the table that uses them. *)
DownTypesFirst ==
  <<Drop("FK_USER_PROFILE"), Drop("profiles_table"),
    Drop("currencies_enum"), Drop("users_role_enum"), Drop("users_status_enum"),
    Drop("IDX_USERS_RANK"), Drop("IDX_USERS_STATUS_DELETE_AT"), Drop("IDX_USERS_CREATE_AT"),
    Drop("IDX_USERS_DELETE_AT"), Drop("IDX_USERS_STATUS"), Drop("IDX_USERS_EMAIL"),
    Drop("users_table")>>

Down ==
  <<Drop("FK_USER_PROFILE"), Drop("profiles_table"),
    Drop("IDX_USERS_RANK"), Drop("IDX_USERS_STATUS_DELETE_AT"), Drop("IDX_USERS_CREATE_AT"),
    Drop("IDX_USERS_DELETE_AT"), Drop("IDX_USERS_STATUS"), Drop("IDX_USERS_EMAIL"),
    Drop("users_table"),
    Drop("currencies_enum"), Drop("users_role_enum"), Drop("users_status_enum")>>

Objects == {Up[i].object : i \in DOMAIN Up}

UserIndexes ==
  {"IDX_USERS_EMAIL", "IDX_USERS_STATUS", "IDX_USERS_DELETE_AT", "IDX_USERS_CREATE_AT",
   "IDX_USERS_STATUS_DELETE_AT", "IDX_USERS_RANK"}

(* What the statement that creates an object refers to. *)
References ==
  [object \in Objects |->
     CASE object = "users_table" -> {"users_status_enum", "users_role_enum", "currencies_enum"}
       [] object \in UserIndexes -> {"users_table"}
       [] object = "FK_USER_PROFILE" -> {"users_table", "profiles_table"}
       [] OTHER -> {}]

(* Indexes and constraints go with their table and do not keep it. *)
OwnedBy(table) ==
  CASE table = "users_table" -> UserIndexes
    [] table = "profiles_table" -> {"FK_USER_PROFILE"}
    [] OTHER -> {}

-----------------------------------------------------------------------------
(* A process: "started", "creating" the ledger's table when it saw none,     *)
(* "loading" the ledger, "migrating" inside its transaction (script, next    *)
(* statement, the objects it made and dropped), then "ready" (a server that  *)
(* goes on starting, a task that completed) or "failed".                     *)
NoChanges == [made |-> {}, dropped |-> {}]

WithoutScript(state, failures) ==
  [state |-> state, script |-> <<>>, next |-> 1, changes |-> NoChanges,
   failures |-> failures, read |-> 0, since |-> 0]

Fresh == WithoutScript("started", 0)

(* Faulty variant: the first attempt is counted as a retry. *)
AttemptsLessFirst(p) == IF p \in Servers THEN RetryAttempts - 1 ELSE 1

Attempts(p) == IF p \in Servers THEN RetryAttempts ELSE 1

Init ==
  /\ schema = {} /\ ledger = 0 /\ ledgerTable = FALSE
  /\ process = [p \in Processes |-> Fresh]
  /\ faults = 0 /\ reverted = 0

Seen(p) == (schema \ process[p].changes.dropped) \cup process[p].changes.made

Statement(p) == process[p].script[process[p].next]

(* Another open transaction has changed the object. *)
Locked(p) ==
  \E q \in Processes \ {p} :
    /\ process[q].state = "migrating"
    /\ Statement(p).object \in
         IF Statement(p).op = "create" THEN process[q].changes.made ELSE process[q].changes.dropped

Executable(p) ==
  LET object == Statement(p).object
  IN  IF Statement(p).op = "create"
      THEN object \notin Seen(p) /\ References[object] \subseteq Seen(p)
      ELSE /\ object \in Seen(p)
           /\ \A other \in Seen(p) \ OwnedBy(object) : object \notin References[other]

(* The transaction is rolled back; a server tries again from the start. *)
AttemptEnds(p) ==
  LET failures == process[p].failures + 1
  IN  process' = [process EXCEPT ![p] =
        WithoutScript(IF failures >= Attempts(p) THEN "failed" ELSE "started", failures)]

(* Faulty variant: a ledger that exists is taken for a migration that ran. *)
LookForLedgerOnly(p) ==
  /\ process[p].state = "started"
  /\ process' = [process EXCEPT ![p].state = IF ledgerTable THEN "ready" ELSE "creating"]
  /\ UNCHANGED <<schema, ledgerTable, ledger, faults, reverted>>

(* createMigrationsTableIfNotExist: a look and, in another query, a CREATE. *)
LookForLedger(p) ==
  /\ process[p].state = "started"
  /\ process' = [process EXCEPT ![p].state = IF ledgerTable THEN "loading" ELSE "creating"]
  /\ UNCHANGED <<schema, ledgerTable, ledger, faults, reverted>>

CreateLedger(p) ==
  /\ process[p].state = "creating"
  /\ ledgerTable' = TRUE
  /\ IF ledgerTable THEN AttemptEnds(p)
     ELSE process' = [process EXCEPT ![p].state = "loading"]
  /\ UNCHANGED <<schema, ledger, faults, reverted>>

(* Is there anything to run, or to revert? *)
ReadLedger(p) ==
  /\ process[p].state = "loading"
  /\ LET toDo == IF p \in Reverts THEN ledger > 0 ELSE ledger = 0
     IN  process' = [process EXCEPT
           ![p].read = ledger,
           ![p].since = reverted,
           ![p].script = IF ~toDo THEN <<>> ELSE IF p \in Reverts THEN Down ELSE Up,
           ![p].state = IF toDo THEN "migrating" ELSE "ready"]
  /\ UNCHANGED <<schema, ledgerTable, ledger, faults, reverted>>

InTransaction(p) == process[p].state = "migrating"
StatementsLeft(p) == process[p].next <= Len(process[p].script)

Execute(p) ==
  /\ InTransaction(p) /\ StatementsLeft(p) /\ Executable(p) /\ ~Locked(p)
  /\ LET object == Statement(p).object
         changes == process[p].changes
     IN  process' = [process EXCEPT
           ![p].next = @ + 1,
           ![p].changes = IF Statement(p).op = "create"
                          THEN [changes EXCEPT !.made = @ \cup {object}]
                          ELSE [changes EXCEPT !.dropped = @ \cup {object} \cup OwnedBy(object)]]
  /\ UNCHANGED <<schema, ledgerTable, ledger, faults, reverted>>

StatementRefused(p) ==
  /\ InTransaction(p) /\ StatementsLeft(p) /\ ~Executable(p)
  /\ AttemptEnds(p)
  /\ UNCHANGED <<schema, ledgerTable, ledger, faults, reverted>>

(* Faulty variant: the ledger's row is forgotten. *)
CommitTablesOnly(p) ==
  /\ InTransaction(p) /\ ~StatementsLeft(p)
  /\ schema' = Seen(p)
  /\ reverted' = IF p \in Reverts THEN reverted + 1 ELSE reverted
  /\ UNCHANGED <<ledger, ledgerTable>>

(* The schema and the ledger's row change together.  A row more is inserted  *)
(* by up; a revert deletes every row of the migration.                       *)
CommitTables(p) ==
  /\ InTransaction(p) /\ ~StatementsLeft(p)
  /\ schema' = Seen(p)
  /\ ledger' = IF p \in Reverts THEN 0 ELSE ledger + 1
  /\ reverted' = IF p \in Reverts THEN reverted + 1 ELSE reverted
  /\ UNCHANGED ledgerTable

Commit(p) ==
  /\ CommitTables(p)
  /\ process' = [process EXCEPT ![p].state = "ready"]
  /\ UNCHANGED faults

(* The commit happened and its acknowledgement was lost. *)
CommitUnacknowledged(p) ==
  /\ faults < MaxFaults /\ faults' = faults + 1
  /\ CommitTables(p)
  /\ AttemptEnds(p)

(* The database cannot be reached, or the connection breaks. *)
ConnectionBreaks(p) ==
  /\ faults < MaxFaults /\ faults' = faults + 1
  /\ process[p].state \in {"started", "creating", "loading", "migrating"}
  /\ AttemptEnds(p)
  /\ UNCHANGED <<schema, ledgerTable, ledger, reverted>>

(* The process is killed and started again. *)
Restart(p) ==
  /\ faults < MaxFaults /\ faults' = faults + 1
  /\ process' = [process EXCEPT ![p] = Fresh]
  /\ UNCHANGED <<schema, ledgerTable, ledger, reverted>>

ProcessStep(p) ==
  \/ LookForLedger(p) \/ CreateLedger(p) \/ ReadLedger(p)
  \/ Execute(p) \/ StatementRefused(p) \/ Commit(p)

Next ==
  \E p \in Processes :
    ProcessStep(p) \/ CommitUnacknowledged(p) \/ ConnectionBreaks(p) \/ Restart(p)

Spec == Init /\ [][Next]_vars

(* PostgreSQL answers, and the event loop of each process goes on. *)
FairSpec == Spec /\ \A p \in Processes : WF_vars(ProcessStep(p))

-----------------------------------------------------------------------------
ProcessStates == {"started", "creating", "loading", "migrating", "ready", "failed"}

TypeOK ==
  /\ schema \subseteq Objects
  /\ ledgerTable \in BOOLEAN /\ ledger \in Nat /\ faults \in 0..MaxFaults /\ reverted \in Nat
  /\ \A p \in Processes :
       /\ process[p].state \in ProcessStates
       /\ process[p].script \in {<<>>, Up, Down}
       /\ process[p].next \in 1..(Len(process[p].script) + 1)
       /\ process[p].changes \in [made: SUBSET Objects, dropped: SUBSET Objects]
       /\ {process[p].failures, process[p].read, process[p].since} \subseteq Nat

(* However the processes interleave, crash and lose acknowledgements, the      *)
(* schema is what the ledger says: everything with exactly one row, or nothing *)
(* with none.                                                                  *)
LedgerMatchesSchema ==
  \/ ledger = 1 /\ schema = Objects
  \/ ledger = 0 /\ schema = {}

(* A statement is refused only to a process that decided on a ledger another   *)
(* process has changed since: up runs through on an empty database and down on *)
(* a migrated one, so a start that fails alone has failed for another reason.  *)
RefusedOnlyWhenStale ==
  [][\A p \in Processes :
       InTransaction(p) /\ process'[p].failures > process[p].failures /\ faults' = faults
         => ledger # process[p].read]_vars

(* Losing races costs a process two attempts at most, however many others      *)
(* race: one over the ledger's table and one over the migration; only a revert *)
(* can make it lose again.                                                     *)
LostRacesCostTwoAttempts ==
  \A p \in Processes : process[p].failures <= 2 + faults + reverted

(* A server that goes on to listen has its tables, unless they were taken down *)
(* after it read the ledger.                                                   *)
ReadyWithTables ==
  \A p \in Servers :
    process[p].state = "ready" /\ process[p].since = reverted => schema = Objects

(* With three attempts, the default of the data source, and unless a fault or  *)
(* a revert comes between, every server gets through: the losers of the races  *)
(* over the ledger's table and the migration find the work done.               *)
EveryServerReady ==
  \A p \in Servers : <>[](process[p].state = "ready" \/ faults + reverted > 0)
=============================================================================
