-------------------------- MODULE MigrationsProofs -------------------------
(***************************************************************************)
(* What holds of the migrations for every number of servers, runs and       *)
(* reverts, retries and faults.  A transaction that has executed a statement *)
(* holds a lock that keeps every other one from executing its first, so the  *)
(* schema a transaction found is the schema it ends on.                      *)
(***************************************************************************)
EXTENDS Migrations, TLAPS

-----------------------------------------------------------------------------
(* The migration and its reversal, statement by statement. *)

UpMade(n) == {Up[i].object : i \in 1..(n - 1)}
DownDropped(n) == {Down[i].object : i \in 1..(n - 1)}

LEMMA UpShape ==
  /\ DOMAIN Up = 1..12 /\ Len(Up) = 12 /\ \A i \in 1..12 : Up[i].op = "create"
  /\ \A i, j \in 1..12 : i # j => Up[i].object # Up[j].object
  /\ Up[1].object = "users_status_enum" /\ Up[2].object = "users_role_enum"
  /\ Up[3].object = "currencies_enum" /\ Up[4].object = "users_table"
  /\ UserIndexes = {Up[i].object : i \in 5..10}
  /\ Up[11].object = "profiles_table" /\ Up[12].object = "FK_USER_PROFILE"
<1>1. /\ DOMAIN Up = 1..12 /\ Len(Up) = 12 /\ \A i \in 1..12 : Up[i].op = "create"
  BY DEF Up, Create
<1>2. \A i, j \in 1..12 : i # j => Up[i].object # Up[j].object
  BY DEF Up, Create
<1>3.  /\ Up[1].object = "users_status_enum" /\ Up[2].object = "users_role_enum"
  /\ Up[3].object = "currencies_enum" /\ Up[4].object = "users_table"
  /\ Up[11].object = "profiles_table" /\ Up[12].object = "FK_USER_PROFILE"
  BY DEF Up, Create
<1>4. UserIndexes = {Up[5].object, Up[6].object, Up[7].object, Up[8].object, Up[9].object, Up[10].object}
  BY DEF Up, Create, UserIndexes
<1>5. 5..10 = {5, 6, 7, 8, 9, 10}
  OBVIOUS
<1> QED BY <1>1, <1>2, <1>3, <1>4, <1>5

LEMMA DownShape ==
  /\ DOMAIN Down = 1..12 /\ Len(Down) = 12 /\ \A i \in 1..12 : Down[i].op = "drop"
  /\ \A i, j \in 1..12 : i # j => Down[i].object # Down[j].object
  /\ Down[1].object = "FK_USER_PROFILE" /\ Down[2].object = "profiles_table"
  /\ UserIndexes = {Down[i].object : i \in 3..8}
  /\ Down[9].object = "users_table" /\ Down[10].object = "currencies_enum"
  /\ Down[11].object = "users_role_enum" /\ Down[12].object = "users_status_enum"
<1>1. /\ DOMAIN Down = 1..12 /\ Len(Down) = 12 /\ \A i \in 1..12 : Down[i].op = "drop"
  BY DEF Down, Drop
<1>2. \A i, j \in 1..12 : i # j => Down[i].object # Down[j].object
  BY DEF Down, Drop
<1>3. /\ Down[1].object = "FK_USER_PROFILE" /\ Down[2].object = "profiles_table"
  /\ Down[9].object = "users_table" /\ Down[10].object = "currencies_enum"
  /\ Down[11].object = "users_role_enum" /\ Down[12].object = "users_status_enum"
  BY DEF Down, Drop
<1>4. UserIndexes = {Down[3].object, Down[4].object, Down[5].object, Down[6].object, Down[7].object, Down[8].object}
  BY DEF Down, Drop, UserIndexes
<1>5. 3..8 = {3, 4, 5, 6, 7, 8}
  OBVIOUS
<1> QED BY <1>1, <1>2, <1>3, <1>4, <1>5

LEMMA SameObjects == Objects = {Up[i].object : i \in 1..12} /\ Objects = {Down[i].object : i \in 1..12}
<1>1. Objects = {Up[i].object : i \in 1..12}
  BY UpShape DEF Objects
<1>2. \A i \in 1..12 : Up[i].object \in {Down[j].object : j \in 1..12}
  <2>1. ASSUME NEW i \in 5..10 PROVE \E j \in 3..8 : Up[i].object = Down[j].object
    <3>1. Up[i].object \in UserIndexes
      BY UpShape
    <3> QED BY <3>1, DownShape
  <2>2. ASSUME NEW i \in {1, 2, 3, 4, 11, 12}
        PROVE  \E j \in {1, 2, 9, 10, 11, 12} : Up[i].object = Down[j].object
    BY UpShape, DownShape
  <2> QED BY <2>1, <2>2
<1>3. \A i \in 1..12 : Down[i].object \in {Up[j].object : j \in 1..12}
  <2>1. ASSUME NEW i \in 3..8 PROVE \E j \in 5..10 : Up[j].object = Down[i].object
    <3>1. Down[i].object \in UserIndexes
      BY DownShape
    <3> QED BY <3>1, UpShape
  <2>2. ASSUME NEW i \in {1, 2, 9, 10, 11, 12}
        PROVE  \E j \in {1, 2, 3, 4, 11, 12} : Up[j].object = Down[i].object
    BY UpShape, DownShape
  <2> QED BY <2>1, <2>2
<1> QED BY <1>1, <1>2, <1>3

LEMMA UpStep ==
  ASSUME NEW n \in 1..12
  PROVE  /\ Up[n].object \in Objects \ UpMade(n)
         /\ References[Up[n].object] \subseteq UpMade(n)
         /\ UpMade(n) \cup {Up[n].object} = UpMade(n + 1)
<1>1. Up[n].object \in Objects \ UpMade(n)
  BY UpShape, SameObjects, SMTT(30) DEF UpMade
<1>2. UpMade(n) \cup {Up[n].object} = UpMade(n + 1)
  BY DEF UpMade
<1>3. References[Up[n].object] \subseteq UpMade(n)
  <2>1. CASE n \in {1, 2, 3, 11}
    <3>1. Up[n].object \in {"users_status_enum", "users_role_enum", "currencies_enum",
                            "profiles_table"}
      BY <2>1, UpShape
    <3>2. /\ Up[n].object # "users_table" /\ Up[n].object # "FK_USER_PROFILE"
          /\ Up[n].object \notin UserIndexes
      BY <3>1 DEF UserIndexes
    <3> QED BY <1>1, <3>2 DEF References
  <2>2. CASE n = 4
    BY <1>1, <2>2, UpShape DEF References, UpMade
  <2>3. CASE n \in 5..10
    <3>1. Up[n].object \in UserIndexes
      BY <2>3, UpShape
    <3>2. References[Up[n].object] = {"users_table"}
      BY <1>1, <3>1 DEF References, UserIndexes
    <3>3. 4 \in 1..(n - 1) /\ Up[4].object = "users_table"
      BY <2>3, UpShape
    <3>4. "users_table" \in UpMade(n)
      BY <3>3 DEF UpMade
    <3> QED BY <3>2, <3>4
  <2>4. CASE n = 12
    BY <1>1, <2>4, UpShape DEF References, UserIndexes, UpMade
  <2> QED BY <2>1, <2>2, <2>3, <2>4
<1> QED BY <1>1, <1>2, <1>3

LEMMA DownStep ==
  ASSUME NEW n \in 1..12
  PROVE  /\ Down[n].object \in Objects \ DownDropped(n)
         /\ \A other \in (Objects \ DownDropped(n)) \ OwnedBy(Down[n].object) :
              Down[n].object \notin References[other]
         /\ DownDropped(n) \cup {Down[n].object} \cup OwnedBy(Down[n].object) = DownDropped(n + 1)
<1> DEFINE object == Down[n].object
<1>1. object \in Objects \ DownDropped(n)
  <2>1. object \in Objects
    BY SameObjects
  <2>2. \A i \in 1..(n - 1) : Down[i].object # object
    BY DownShape
  <2> QED BY <2>1, <2>2 DEF DownDropped
<1>2. DownDropped(n) \cup {object} = DownDropped(n + 1)
  BY DEF DownDropped
<1>3. OwnedBy(object) \subseteq DownDropped(n)
  <2>1. CASE n = 2
    BY <2>1, DownShape DEF OwnedBy, DownDropped
  <2>2. CASE n = 9
    <3>1. UserIndexes \subseteq DownDropped(9)
      BY DownShape DEF DownDropped
    <3> QED BY <2>2, <3>1, DownShape DEF OwnedBy
  <2>3. CASE n \notin {2, 9}
    <3>1. object # "profiles_table" /\ object # "users_table"
      BY <2>3, DownShape
    <3> QED BY <3>1 DEF OwnedBy
  <2> QED BY <2>1, <2>2, <2>3
<1>4. ASSUME NEW other \in Objects \ DownDropped(n), object \in References[other]
      PROVE  FALSE
  <2>1. CASE other = "users_table"
    <3>1. object \in {"users_status_enum", "users_role_enum", "currencies_enum"}
      BY <1>4, <2>1 DEF References, UserIndexes
    <3>2. n \in 10..12
      BY <3>1, DownShape DEF UserIndexes
    <3> QED BY <1>4, <2>1, <3>2, DownShape DEF DownDropped
  <2>2. CASE other \in UserIndexes
    <3>1. object = "users_table"
      BY <1>4, <2>2 DEF References, UserIndexes
    <3>2. n = 9
      BY <3>1, DownShape
    <3> QED BY <1>4, <2>2, <3>2, DownShape DEF DownDropped
  <2>3. CASE other = "FK_USER_PROFILE"
    <3>1. object \in {"users_table", "profiles_table"}
      BY <1>4, <2>3 DEF References, UserIndexes
    <3>2. n \in {2, 9}
      BY <3>1, DownShape
    <3> QED BY <1>4, <2>3, <3>2, DownShape DEF DownDropped
  <2>4. CASE other \notin {"users_table", "FK_USER_PROFILE"} \cup UserIndexes
    BY <1>4, <2>4 DEF References
  <2> QED BY <2>1, <2>2, <2>3, <2>4
<1> QED BY <1>1, <1>2, <1>3, <1>4

-----------------------------------------------------------------------------
(* The inductive invariant. *)

ProcessRecord ==
  [state: ProcessStates, script: {<<>>, Up, Down}, next: 1..13,
   changes: [made: SUBSET Objects, dropped: SUBSET Objects],
   failures: Nat, read: Nat, since: Nat]

(* What a process knows of its transaction: the statements up to the next one *)
(* are what it made or dropped.                                               *)
Consistent(p, r) ==
  /\ r \in ProcessRecord
  /\ r.script = <<>> => r.next = 1
  /\ r.state \in {"started", "creating", "loading"} =>
       r.script = <<>> /\ r.next = 1 /\ r.changes = NoChanges
  /\ r.state = "migrating" =>
       IF p \in Reverts
       THEN /\ r.script = Down /\ r.read > 0
            /\ r.changes = [made |-> {}, dropped |-> DownDropped(r.next)]
       ELSE /\ r.script = Up /\ r.read = 0
            /\ r.changes = [made |-> UpMade(r.next), dropped |-> {}]

Changing(r) == r.state = "migrating" /\ r.next > 1

Numbers ==
  /\ ledgerTable \in BOOLEAN /\ ledger \in Nat /\ faults \in 0..MaxFaults /\ reverted \in Nat
  /\ schema \subseteq Objects

MigrationInv ==
  /\ Numbers
  /\ DOMAIN process = Processes /\ process = [p \in Processes |-> process[p]]
  /\ \A p \in Processes : Consistent(p, process[p]) /\ process[p].since <= reverted
  /\ \A p \in Processes :
       Changing(process[p]) =>
         IF p \in Reverts THEN schema = Objects /\ ledger = 1 ELSE schema = {} /\ ledger = 0
  /\ \A p, q \in Processes : Changing(process[p]) /\ Changing(process[q]) => p = q
  /\ LedgerMatchesSchema

LEMMA UpNotDown == Up # <<>> /\ Down # <<>> /\ Up # Down /\ Objects # {}
<1>1. Up # <<>> /\ Down # <<>>
  BY UpShape, DownShape
<1>2. Up # Down
  BY UpShape, DownShape
<1>3. Objects # {}
  BY SameObjects
<1> QED BY <1>1, <1>2, <1>3

LEMMA WithoutScriptConsistent ==
  ASSUME NEW p \in Processes, NEW failures \in Nat, NEW state \in {"started", "failed"}
  PROVE  /\ Consistent(p, WithoutScript(state, failures))
         /\ ~Changing(WithoutScript(state, failures))
         /\ WithoutScript(state, failures).since = 0
<1> DEFINE r == WithoutScript(state, failures)
<1>1. NoChanges \in [made: SUBSET Objects, dropped: SUBSET Objects]
  BY DEF NoChanges
<1>2. r \in ProcessRecord
  BY <1>1 DEF ProcessRecord, ProcessStates, WithoutScript
<1> QED BY <1>2 DEF Consistent, Changing, WithoutScript

LEMMA MigrationInit == Init => MigrationInv
<1> SUFFICES ASSUME Init PROVE MigrationInv
  OBVIOUS
<1>1. \A p \in Processes : process[p] = Fresh
  BY DEF Init
<1>2. \A p \in Processes : Consistent(p, Fresh) /\ ~Changing(Fresh) /\ Fresh.since = 0
  BY WithoutScriptConsistent DEF Fresh
<1>3. Numbers /\ LedgerMatchesSchema /\ reverted = 0
  <2>1. /\ schema = {} /\ ledger = 0 /\ ledgerTable = FALSE /\ faults = 0 /\ reverted = 0
    BY DEF Init
  <2>2. 0 \in 0..MaxFaults
    BY RetryAttemptsValid
  <2> QED BY <2>1, <2>2 DEF Numbers, LedgerMatchesSchema
<1>4. DOMAIN process = Processes /\ process = [p \in Processes |-> process[p]]
  BY DEF Init
<1> QED BY <1>1, <1>2, <1>3, <1>4 DEF MigrationInv

(* A step in which one process changes what only it knows. *)
LEMMA OneProcessStep ==
  ASSUME MigrationInv, NEW p \in Processes, NEW r,
         Consistent(p, r), ~Changing(r), r.since <= reverted,
         process' = [process EXCEPT ![p] = r],
         UNCHANGED <<schema, ledger, reverted>>,
         ledgerTable' \in BOOLEAN, faults' \in 0..MaxFaults
  PROVE  MigrationInv'
<1>1. process'[p] = r /\ \A q \in Processes \ {p} : process'[q] = process[q]
  BY DEF MigrationInv
<1>2. Numbers' /\ LedgerMatchesSchema'
  BY DEF MigrationInv, Numbers, LedgerMatchesSchema
<1>3. DOMAIN process' = Processes /\ process' = [q \in Processes |-> process'[q]]
  BY DEF MigrationInv
<1>4. \A q \in Processes : Consistent(q, process'[q]) /\ process'[q].since <= reverted'
  BY <1>1 DEF MigrationInv
<1>5. \A q \in Processes : Changing(process'[q]) => q # p /\ Changing(process[q])
  BY <1>1
<1> QED BY <1>2, <1>3, <1>4, <1>5, <1>1 DEF MigrationInv

LEMMA AttemptEndsStep ==
  ASSUME MigrationInv, NEW p \in Processes, AttemptEnds(p)
  PROVE  \E r : /\ process' = [process EXCEPT ![p] = r]
                /\ Consistent(p, r) /\ ~Changing(r) /\ r.since = 0
                /\ r.failures = process[p].failures + 1 /\ r.state \in {"started", "failed"}
<1> DEFINE failures == process[p].failures + 1
           state == IF failures >= Attempts(p) THEN "failed" ELSE "started"
           r == WithoutScript(state, failures)
<1>1. process' = [process EXCEPT ![p] = r]
  BY DEF AttemptEnds
<1>2. failures \in Nat
  <2>1. process[p] \in ProcessRecord
    BY DEF MigrationInv, Consistent
  <2> QED BY <2>1 DEF ProcessRecord
<1>3. state \in {"started", "failed"}
  OBVIOUS
<1>4. Consistent(p, r) /\ ~Changing(r) /\ r.since = 0
  BY <1>2, <1>3, WithoutScriptConsistent
<1>5. r.failures = failures /\ r.state = state
  BY DEF WithoutScript
<1> QED BY <1>1, <1>3, <1>4, <1>5

(* Reading the ledger, and what ends an attempt, changes neither the schema   *)
(* nor the ledger's row, and leaves the process outside a transaction or at   *)
(* its first statement.                                                       *)
LEMMA BeforeTransaction ==
  ASSUME MigrationInv, NEW p \in Processes, LookForLedger(p) \/ CreateLedger(p) \/ ReadLedger(p)
  PROVE  MigrationInv'
<1>0. /\ process[p] \in ProcessRecord /\ Consistent(p, process[p])
      /\ process[p].since <= reverted /\ Numbers
      /\ DOMAIN process = Processes
  BY DEF MigrationInv, Consistent
<1>1. ASSUME NEW state \in {"loading", "creating"},
             process[p].state \in {"started", "creating"},
             process' = [process EXCEPT ![p].state = state],
             UNCHANGED <<schema, ledger, reverted>>, ledgerTable' \in BOOLEAN, faults' = faults
      PROVE  MigrationInv'
  <2> DEFINE r == [process[p] EXCEPT !.state = state]
  <2>1. process' = [process EXCEPT ![p] = r]
    BY <1>1
  <2>2. r \in ProcessRecord
    BY <1>0 DEF ProcessRecord, ProcessStates
  <2>3. Consistent(p, r) /\ ~Changing(r) /\ r.since <= reverted
    BY <1>0, <1>1, <2>2 DEF Consistent, Changing, ProcessRecord
  <2>4. faults' \in 0..MaxFaults
    BY <1>0, <1>1 DEF Numbers
  <2> HIDE DEF r
  <2> QED BY <1>1, <2>1, <2>3, <2>4, OneProcessStep
<1>2. CASE LookForLedger(p)
  BY <1>0, <1>1, <1>2 DEF LookForLedger, Numbers
<1>3. CASE CreateLedger(p)
  <2>1. CASE ledgerTable
    <3>1. PICK r : /\ process' = [process EXCEPT ![p] = r]
                   /\ Consistent(p, r) /\ ~Changing(r) /\ r.since = 0
      BY <1>3, <2>1, AttemptEndsStep DEF CreateLedger
    <3>2. /\ UNCHANGED <<schema, ledger, reverted>> /\ 0 <= reverted
          /\ ledgerTable' \in BOOLEAN /\ faults' \in 0..MaxFaults
      BY <1>0, <1>3 DEF CreateLedger, Numbers
    <3> QED BY <3>1, <3>2, OneProcessStep
  <2>2. CASE ~ledgerTable
    BY <1>0, <1>1, <1>3, <2>2 DEF CreateLedger, Numbers
  <2> QED BY <2>1, <2>2
<1>4. CASE ReadLedger(p)
  <2> DEFINE toDo == IF p \in Reverts THEN ledger > 0 ELSE ledger = 0
             script == IF ~toDo THEN <<>> ELSE IF p \in Reverts THEN Down ELSE Up
             state == IF toDo THEN "migrating" ELSE "ready"
             r == [process[p] EXCEPT !.read = ledger, !.since = reverted,
                                     !.script = script, !.state = state]
  <2>1. process' = [process EXCEPT ![p] = r]
    BY <1>4 DEF ReadLedger
  <2>2. /\ process[p].state = "loading" /\ process[p].next = 1
        /\ process[p].changes = NoChanges
    BY <1>0, <1>4 DEF ReadLedger, Consistent
  <2>3. r \in ProcessRecord
    BY <1>0 DEF ProcessRecord, ProcessStates, Numbers
  <2>4. /\ r.state = state /\ r.script = script /\ r.next = 1 /\ r.changes = NoChanges
        /\ r.read = ledger /\ r.since = reverted
    BY <1>0, <2>2 DEF ProcessRecord
  <2>5. UpMade(1) = {} /\ DownDropped(1) = {}
    BY DEF UpMade, DownDropped
  <2> HIDE DEF r
  <2>6. Consistent(p, r)
    BY <1>0, <2>3, <2>4, <2>5 DEF Consistent, NoChanges, Numbers
  <2>7. ~Changing(r) /\ r.since <= reverted
    BY <1>0, <2>4 DEF Changing, Numbers
  <2> QED BY <1>0, <1>4, <2>1, <2>6, <2>7, OneProcessStep DEF ReadLedger, Numbers
<1> QED BY <1>2, <1>3, <1>4

LEMMA AttemptLost ==
  ASSUME MigrationInv, NEW p \in Processes,
         StatementRefused(p) \/ ConnectionBreaks(p) \/ Restart(p)
  PROVE  MigrationInv'
<1>0. Numbers
  BY DEF MigrationInv
<1>1. UNCHANGED <<schema, ledgerTable, ledger, reverted>>
  BY DEF StatementRefused, ConnectionBreaks, Restart
<1>2. ledgerTable' \in BOOLEAN /\ faults' \in 0..MaxFaults /\ 0 <= reverted
  BY <1>0, <1>1, RetryAttemptsValid DEF Numbers, StatementRefused, ConnectionBreaks, Restart
<1>3. CASE AttemptEnds(p)
  BY <1>1, <1>2, <1>3, AttemptEndsStep, OneProcessStep
<1>4. CASE Restart(p)
  <2>1. Consistent(p, Fresh) /\ ~Changing(Fresh) /\ Fresh.since = 0
    BY WithoutScriptConsistent DEF Fresh
  <2> QED BY <1>1, <1>2, <1>4, <2>1, OneProcessStep DEF Restart
<1> QED BY <1>3, <1>4 DEF StatementRefused, ConnectionBreaks

(* The statement a transaction is at.  Its first statement finds the whole     *)
(* schema or nothing of it, and no other transaction changing anything.        *)
LEMMA FirstStatement ==
  ASSUME MigrationInv, NEW p \in Processes, InTransaction(p), process[p].next = 1,
         Executable(p), ~Locked(p)
  PROVE  /\ IF p \in Reverts THEN schema = Objects /\ ledger = 1 ELSE schema = {} /\ ledger = 0
         /\ \A q \in Processes : ~Changing(process[q])
<1>0. Consistent(p, process[p]) /\ LedgerMatchesSchema
  BY DEF MigrationInv
<1>1. UpMade(1) = {} /\ DownDropped(1) = {}
  BY DEF UpMade, DownDropped
<1>2. Seen(p) = schema
  BY <1>0, <1>1 DEF Seen, InTransaction, Consistent
<1>3. IF p \in Reverts THEN Statement(p) = Down[1] ELSE Statement(p) = Up[1]
  BY <1>0 DEF Consistent, InTransaction, Statement
<1>4. IF p \in Reverts THEN schema = Objects /\ ledger = 1 ELSE schema = {} /\ ledger = 0
  <2>1. CASE p \in Reverts
    <3>1. schema # {}
      BY <1>2, <1>3, <2>1, DownShape DEF Executable
    <3> QED BY <1>0, <2>1, <3>1 DEF LedgerMatchesSchema
  <2>2. CASE p \notin Reverts
    <3>1. Up[1].object \notin schema
      BY <1>2, <1>3, <2>2, UpShape DEF Executable
    <3>2. Up[1].object \in Objects
      BY UpStep
    <3> QED BY <1>0, <2>2, <3>1, <3>2 DEF LedgerMatchesSchema
  <2> QED BY <2>1, <2>2
<1>5. ASSUME NEW q \in Processes, Changing(process[q]) PROVE FALSE
  <2>1. q # p /\ process[q].state = "migrating" /\ Consistent(q, process[q])
    BY <1>5 DEF Changing, MigrationInv
  <2>2. q \in Reverts <=> p \in Reverts
    BY <1>4, <1>5, UpNotDown DEF MigrationInv
  <2>3. 1 \in 1..(process[q].next - 1)
    BY <1>5, <2>1 DEF Changing, Consistent, ProcessRecord
  <2>4. CASE p \in Reverts
    <3>1. Down[1].object \in process[q].changes.dropped
      BY <2>1, <2>2, <2>3, <2>4 DEF Consistent, DownDropped
    <3> QED BY <1>3, <2>1, <2>4, <3>1, DownShape DEF Locked
  <2>5. CASE p \notin Reverts
    <3>1. Up[1].object \in process[q].changes.made
      BY <2>1, <2>2, <2>3, <2>5 DEF Consistent, UpMade
    <3> QED BY <1>3, <2>1, <2>5, <3>1, UpShape DEF Locked
  <2> QED BY <2>4, <2>5
<1> QED BY <1>4, <1>5

LEMMA ExecuteStep ==
  ASSUME MigrationInv, NEW p \in Processes, Execute(p)
  PROVE  MigrationInv'
<1>0. /\ Consistent(p, process[p]) /\ process[p] \in ProcessRecord
      /\ DOMAIN process = Processes /\ process[p].since <= reverted
  BY DEF MigrationInv, Consistent
<1>1. /\ InTransaction(p) /\ StatementsLeft(p) /\ Executable(p) /\ ~Locked(p)
      /\ UNCHANGED <<schema, ledgerTable, ledger, faults, reverted>>
  BY DEF Execute
<1> DEFINE n == process[p].next
           object == Statement(p).object
           changes == process[p].changes
           changed == IF Statement(p).op = "create"
                      THEN [changes EXCEPT !.made = @ \cup {object}]
                      ELSE [changes EXCEPT !.dropped = @ \cup {object} \cup OwnedBy(object)]
           r == [process[p] EXCEPT !.next = n + 1, !.changes = changed]
<1>2. process' = [process EXCEPT ![p] = r]
  BY DEF Execute
<1>3. n \in 1..12
  <2>1. process[p].script \in {Up, Down}
    BY <1>0, <1>1 DEF InTransaction, Consistent
  <2>2. n \in 1..13 /\ n <= 12
    BY <1>0, <1>1, <2>1, UpShape, DownShape DEF StatementsLeft, ProcessRecord
  <2> QED BY <2>2
<1>4. IF p \in Reverts THEN changed = [made |-> {}, dropped |-> DownDropped(n + 1)]
      ELSE changed = [made |-> UpMade(n + 1), dropped |-> {}]
  <2>1. CASE p \in Reverts
    <3>1. Statement(p) = Down[n] /\ changes = [made |-> {}, dropped |-> DownDropped(n)]
      BY <1>0, <1>1, <2>1 DEF Consistent, InTransaction, Statement
    <3>2. changed = [made |-> {}, dropped |-> DownDropped(n) \cup {object} \cup OwnedBy(object)]
      <4>1. Statement(p).op = "drop"
        BY <1>3, <3>1, DownShape
      <4> QED BY <3>1, <4>1
    <3> QED BY <1>3, <2>1, <3>1, <3>2, DownStep
  <2>2. CASE p \notin Reverts
    <3>1. Statement(p) = Up[n] /\ changes = [made |-> UpMade(n), dropped |-> {}]
      BY <1>0, <1>1, <2>2 DEF Consistent, InTransaction, Statement
    <3>2. changed = [made |-> UpMade(n) \cup {object}, dropped |-> {}]
      <4>1. Statement(p).op = "create"
        BY <1>3, <3>1, UpShape
      <4>2. changed = [changes EXCEPT !.made = changes.made \cup {object}]
        BY <4>1
      <4> QED BY <3>1, <4>2
    <3> QED BY <1>3, <2>2, <3>1, <3>2, UpStep
  <2> QED BY <2>1, <2>2
<1>5. changed \in [made: SUBSET Objects, dropped: SUBSET Objects]
  <2>1. UpMade(n + 1) \subseteq Objects
    BY <1>3, SameObjects DEF UpMade
  <2>2. DownDropped(n + 1) \subseteq Objects
    BY <1>3, SameObjects DEF DownDropped
  <2> QED BY <1>4, <2>1, <2>2
<1> HIDE DEF changed
<1>6. r \in ProcessRecord
  <2>1. n + 1 \in 1..13
    BY <1>3
  <2> QED BY <1>0, <1>5, <2>1 DEF ProcessRecord
<1>7. /\ r.state = "migrating" /\ r.script = process[p].script /\ r.next = n + 1
      /\ r.changes = changed /\ r.read = process[p].read /\ r.since = process[p].since
  BY <1>0, <1>1 DEF ProcessRecord, InTransaction
<1> HIDE DEF r
<1>8. Consistent(p, r) /\ r.since <= reverted
  BY <1>0, <1>1, <1>3, <1>4, <1>6, <1>7, UpNotDown DEF Consistent, InTransaction
<1>9. /\ IF p \in Reverts THEN schema = Objects /\ ledger = 1 ELSE schema = {} /\ ledger = 0
      /\ \A q \in Processes \ {p} : ~Changing(process[q])
  <2>1. CASE n = 1
    BY <1>1, <2>1, FirstStatement
  <2>2. CASE n # 1
    <3>1. Changing(process[p])
      BY <1>1, <1>3, <2>2 DEF Changing, InTransaction
    <3> QED BY <3>1 DEF MigrationInv
  <2> QED BY <2>1, <2>2
<1>10. process'[p] = r /\ \A q \in Processes \ {p} : process'[q] = process[q]
  BY <1>0, <1>2
<1>11. Numbers' /\ LedgerMatchesSchema'
  BY <1>1 DEF MigrationInv, Numbers, LedgerMatchesSchema
<1>12. DOMAIN process' = Processes /\ process' = [q \in Processes |-> process'[q]]
  BY <1>0, <1>2 DEF MigrationInv
<1>13. \A q \in Processes : Consistent(q, process'[q]) /\ process'[q].since <= reverted'
  BY <1>1, <1>8, <1>10 DEF MigrationInv
<1>14. \A q \in Processes : Changing(process'[q]) => q = p
  BY <1>9, <1>10
<1> QED BY <1>1, <1>9, <1>11, <1>12, <1>13, <1>14 DEF MigrationInv

(* A transaction that commits held the lock from its first statement on, so    *)
(* it leaves everything with one row, or nothing with none.                    *)
LEMMA CommittedTables ==
  ASSUME MigrationInv, NEW p \in Processes, CommitTables(p)
  PROVE  /\ Changing(process[p])
         /\ IF p \in Reverts
            THEN schema' = {} /\ ledger = 1 /\ ledger' = 0 /\ reverted' = reverted + 1
            ELSE schema' = Objects /\ ledger = 0 /\ ledger' = 1 /\ reverted' = reverted
<1>0. /\ Consistent(p, process[p]) /\ process[p] \in ProcessRecord
      /\ InTransaction(p) /\ ~StatementsLeft(p)
  BY DEF MigrationInv, Consistent, CommitTables
<1>1. process[p].script \in {Up, Down}
  BY <1>0 DEF InTransaction, Consistent
<1>2. process[p].next = 13
  <2>1. process[p].next \in 1..13
    BY <1>0 DEF ProcessRecord
  <2>2. Len(process[p].script) = 12
    BY <1>1, UpShape, DownShape
  <2>3. ~(process[p].next <= 12)
    BY <1>0, <2>2 DEF StatementsLeft
  <2> QED BY <2>1, <2>3
<1>3. Changing(process[p])
  BY <1>0, <1>2 DEF Changing, InTransaction
<1>4. UpMade(13) = Objects /\ DownDropped(13) = Objects
  BY SameObjects DEF UpMade, DownDropped
<1>5. CASE p \in Reverts
  <2>1. schema = Objects /\ ledger = 1
    BY <1>3, <1>5 DEF MigrationInv
  <2>2. process[p].changes = [made |-> {}, dropped |-> Objects]
    BY <1>0, <1>2, <1>4, <1>5 DEF Consistent, InTransaction
  <2>3. Seen(p) = {}
    BY <2>1, <2>2 DEF Seen
  <2> QED BY <1>3, <1>5, <2>1, <2>3 DEF CommitTables
<1>6. CASE p \notin Reverts
  <2>1. schema = {} /\ ledger = 0
    BY <1>3, <1>6 DEF MigrationInv
  <2>2. process[p].changes = [made |-> Objects, dropped |-> {}]
    BY <1>0, <1>2, <1>4, <1>6 DEF Consistent, InTransaction
  <2>3. Seen(p) = Objects
    BY <2>1, <2>2 DEF Seen
  <2> QED BY <1>3, <1>6, <2>1, <2>3 DEF CommitTables
<1> QED BY <1>5, <1>6

(* What the process that committed knows afterwards. *)
LEMMA AfterCommit ==
  ASSUME MigrationInv, NEW p \in Processes, Commit(p) \/ CommitUnacknowledged(p)
  PROVE  \E r : /\ process' = [process EXCEPT ![p] = r]
                /\ Consistent(p, r) /\ r.state # "migrating" /\ r.since <= reverted
<1>0. /\ Consistent(p, process[p]) /\ process[p] \in ProcessRecord /\ Numbers
      /\ process[p].since <= reverted /\ process[p].state = "migrating"
  BY DEF MigrationInv, Consistent, Commit, CommitUnacknowledged, CommitTables, InTransaction
<1>1. CASE Commit(p)
  <2> DEFINE r == [process[p] EXCEPT !.state = "ready"]
  <2>1. process' = [process EXCEPT ![p] = r]
    BY <1>1 DEF Commit
  <2>2. r \in ProcessRecord
    BY <1>0 DEF ProcessRecord, ProcessStates
  <2>3. /\ r.state = "ready" /\ r.script = process[p].script /\ r.since = process[p].since
    BY <1>0 DEF ProcessRecord
  <2>4. r.script # <<>>
    BY <1>0, <2>3, UpNotDown DEF Consistent
  <2> HIDE DEF r
  <2> QED BY <1>0, <2>1, <2>2, <2>3, <2>4 DEF Consistent
<1>2. CASE CommitUnacknowledged(p)
  <2>1. PICK r : /\ process' = [process EXCEPT ![p] = r] /\ Consistent(p, r)
                 /\ r.since = 0 /\ r.state \in {"started", "failed"}
    BY <1>2, AttemptEndsStep DEF CommitUnacknowledged
  <2>2. r.since <= reverted /\ r.state # "migrating"
    BY <1>0, <2>1 DEF Numbers
  <2> QED BY <2>1, <2>2
<1> QED BY <1>1, <1>2

LEMMA CommitStep ==
  ASSUME MigrationInv, NEW p \in Processes, Commit(p) \/ CommitUnacknowledged(p)
  PROVE  MigrationInv'
<1>0. Numbers /\ DOMAIN process = Processes
  BY DEF MigrationInv
<1>1. PICK r : /\ process' = [process EXCEPT ![p] = r]
               /\ Consistent(p, r) /\ r.state # "migrating" /\ r.since <= reverted
  BY AfterCommit
<1>2. CommitTables(p) /\ faults' \in 0..MaxFaults
  BY <1>0, RetryAttemptsValid DEF Commit, CommitUnacknowledged, Numbers
<1>3. /\ Changing(process[p])
      /\ IF p \in Reverts
         THEN schema' = {} /\ ledger' = 0 /\ reverted' = reverted + 1
         ELSE schema' = Objects /\ ledger' = 1 /\ reverted' = reverted
  BY <1>2, CommittedTables
<1>4. process'[p] = r /\ \A q \in Processes \ {p} : process'[q] = process[q]
  BY <1>0, <1>1
<1>5. \A q \in Processes : ~Changing(process'[q])
  <2>1. ~Changing(r)
    BY <1>1 DEF Changing
  <2>2. \A q \in Processes \ {p} : ~Changing(process[q])
    BY <1>3 DEF MigrationInv
  <2> QED BY <1>4, <2>1, <2>2
<1>6. \A q \in Processes : Consistent(q, process'[q]) /\ process'[q].since <= reverted'
  <2>1. ASSUME NEW q \in Processes \ {p}
        PROVE  Consistent(q, process[q]) /\ process[q].since <= reverted'
    <3>1. Consistent(q, process[q]) /\ process[q].since <= reverted /\ process[q].since \in Nat
      BY DEF MigrationInv, Consistent, ProcessRecord
    <3> QED BY <1>0, <1>3, <3>1 DEF Numbers
  <2>2. r.since <= reverted'
    <3>1. r.since \in Nat
      BY <1>1 DEF Consistent, ProcessRecord
    <3> QED BY <1>0, <1>1, <1>3, <3>1 DEF Numbers
  <2> QED BY <1>1, <1>4, <2>1, <2>2
<1>7. Numbers' /\ LedgerMatchesSchema'
  BY <1>0, <1>2, <1>3 DEF Numbers, LedgerMatchesSchema, CommitTables
<1>8. DOMAIN process' = Processes /\ process' = [q \in Processes |-> process'[q]]
  BY <1>0, <1>1 DEF MigrationInv
<1> QED BY <1>5, <1>6, <1>7, <1>8 DEF MigrationInv

LEMMA MigrationStep == MigrationInv /\ [Next]_vars => MigrationInv'
<1> SUFFICES ASSUME MigrationInv, [Next]_vars PROVE MigrationInv'
  OBVIOUS
<1>1. ASSUME NEW p \in Processes,
             ProcessStep(p) \/ CommitUnacknowledged(p) \/ ConnectionBreaks(p) \/ Restart(p)
      PROVE  MigrationInv'
  BY <1>1, BeforeTransaction, AttemptLost, ExecuteStep, CommitStep DEF ProcessStep
<1>2. CASE UNCHANGED vars
  BY <1>2 DEF vars, MigrationInv, Numbers, LedgerMatchesSchema
<1> QED BY <1>1, <1>2 DEF Next

LEMMA MigrationInvariant == Spec => []MigrationInv
BY MigrationInit, MigrationStep, PTL DEF Spec

(* Processes, ledger and schema keep their shape.                              *)
THEOREM TypeCorrect == Spec => []TypeOK
<1>1. MigrationInv => TypeOK
  <2> SUFFICES ASSUME MigrationInv PROVE TypeOK
    OBVIOUS
  <2>1. ASSUME NEW p \in Processes
        PROVE  /\ process[p].state \in ProcessStates
               /\ process[p].script \in {<<>>, Up, Down}
               /\ process[p].next \in 1..(Len(process[p].script) + 1)
               /\ process[p].changes \in [made: SUBSET Objects, dropped: SUBSET Objects]
               /\ {process[p].failures, process[p].read, process[p].since} \subseteq Nat
    <3>1. process[p] \in ProcessRecord /\ (process[p].script = <<>> => process[p].next = 1)
      BY DEF MigrationInv, Consistent
    <3>2. process[p].next \in 1..(Len(process[p].script) + 1)
      <4>1. process[p].next \in 1..13 /\ process[p].script \in {<<>>, Up, Down}
        BY <3>1 DEF ProcessRecord
      <4>2. Len(Up) + 1 = 13 /\ Len(Down) + 1 = 13 /\ Len(<<>>) + 1 = 1
        BY UpShape, DownShape
      <4>3. CASE process[p].script = <<>>
        BY <3>1, <4>2, <4>3
      <4>4. CASE process[p].script \in {Up, Down}
        BY <4>1, <4>2, <4>4
      <4> QED BY <4>1, <4>3, <4>4
    <3> QED BY <3>1, <3>2 DEF ProcessRecord
  <2> QED BY <2>1 DEF TypeOK, MigrationInv, Numbers
<1> QED BY <1>1, MigrationInvariant, PTL

(* However the processes interleave, crash and lose acknowledgements, the      *)
(* schema is what the ledger says (InitialMigration up and down, the runner,   *)
(* migrationsRun of the data source).                                          *)
THEOREM LedgerCorrect == Spec => []LedgerMatchesSchema
<1>1. MigrationInv => LedgerMatchesSchema
  BY DEF MigrationInv
<1> QED BY <1>1, MigrationInvariant, PTL

-----------------------------------------------------------------------------
(* When a statement is refused. *)

LEMMA RefusedStale ==
  ASSUME MigrationInv, NEW p \in Processes, StatementRefused(p)
  PROVE  ledger # process[p].read
<1>0. /\ Consistent(p, process[p]) /\ process[p] \in ProcessRecord
      /\ InTransaction(p) /\ StatementsLeft(p) /\ ~Executable(p) /\ LedgerMatchesSchema
  BY DEF MigrationInv, Consistent, StatementRefused
<1> DEFINE n == process[p].next
<1>1. n \in 1..12
  <2>1. process[p].script \in {Up, Down}
    BY <1>0 DEF InTransaction, Consistent
  <2>2. n \in 1..13 /\ n <= 12
    BY <1>0, <2>1, UpShape, DownShape DEF StatementsLeft, ProcessRecord
  <2> QED BY <2>2
<1> SUFFICES ASSUME ledger = process[p].read PROVE Executable(p)
  BY <1>0
<1> HIDE DEF n
<1>2. CASE p \in Reverts
  <2>1. /\ Statement(p) = Down[n]
        /\ process[p].changes = [made |-> {}, dropped |-> DownDropped(n)]
        /\ process[p].read > 0
    BY <1>0, <1>2 DEF InTransaction, Consistent, Statement, n
  <2>2. schema = Objects
    BY <1>0, <2>1 DEF LedgerMatchesSchema
  <2>3. Seen(p) = Objects \ DownDropped(n)
    BY <2>1, <2>2 DEF Seen
  <2>4. Statement(p).op # "create"
    BY <1>1, <2>1, DownShape
  <2> QED BY <1>1, <2>1, <2>3, <2>4, DownStep DEF Executable
<1>3. CASE p \notin Reverts
  <2>1. /\ Statement(p) = Up[n]
        /\ process[p].changes = [made |-> UpMade(n), dropped |-> {}]
        /\ process[p].read = 0
    BY <1>0, <1>3 DEF InTransaction, Consistent, Statement, n
  <2>2. schema = {}
    BY <1>0, <2>1 DEF LedgerMatchesSchema
  <2>3. Seen(p) = UpMade(n)
    BY <2>1, <2>2 DEF Seen
  <2>4. Statement(p).op = "create"
    BY <1>1, <2>1, UpShape
  <2> QED BY <1>1, <2>1, <2>3, <2>4, UpStep DEF Executable
<1> QED BY <1>2, <1>3

Step(p) == ProcessStep(p) \/ CommitUnacknowledged(p) \/ ConnectionBreaks(p) \/ Restart(p)

LEMMA OnlyItself ==
  ASSUME MigrationInv, NEW p \in Processes, Step(p), NEW q \in Processes \ {p}
  PROVE  process'[q] = process[q]
<1>1. DOMAIN process = Processes
  BY DEF MigrationInv
<1>2. \E r : process' = [process EXCEPT ![p] = r]
  <2>1. CASE AttemptEnds(p)
    BY <2>1 DEF AttemptEnds
  <2>2. CASE Restart(p)
    BY <2>2 DEF Restart
  <2>3. CASE LookForLedger(p)
    BY <2>3 DEF LookForLedger
  <2>4. CASE CreateLedger(p)
    BY <2>1, <2>4 DEF CreateLedger
  <2>5. CASE ReadLedger(p)
    BY <2>5 DEF ReadLedger
  <2>6. CASE Execute(p)
    BY <2>6 DEF Execute
  <2>7. CASE Commit(p)
    BY <2>7 DEF Commit
  <2> QED BY <2>1, <2>2, <2>3, <2>4, <2>5, <2>6, <2>7
        DEF Step, ProcessStep, StatementRefused, CommitUnacknowledged, ConnectionBreaks
<1> QED BY <1>1, <1>2

(* A statement is refused only to a process that decided on a ledger another   *)
(* process has changed since (InitialMigration up and down).                   *)
THEOREM RefusedOnlyWhenStaleCorrect == Spec => RefusedOnlyWhenStale
<1>1. ASSUME MigrationInv, [Next]_vars, NEW p \in Processes,
             InTransaction(p), process'[p].failures > process[p].failures, faults' = faults
      PROVE  ledger # process[p].read
  <2>0. /\ process[p] \in ProcessRecord /\ process[p].failures \in Nat /\ faults \in Nat
        /\ DOMAIN process = Processes
    <3>1. process[p] \in ProcessRecord /\ DOMAIN process = Processes /\ faults \in 0..MaxFaults
      BY <1>1 DEF MigrationInv, Numbers, Consistent
    <3> QED BY <3>1 DEF ProcessRecord
  <2>1. process'[p] # process[p]
    BY <1>1, <2>0
  <2>2. PICK q \in Processes : Step(q)
    BY <1>1, <2>1 DEF Next, Step, vars
  <2>3. q = p
    BY <1>1, <2>1, <2>2, OnlyItself
  <2>4. ~(LookForLedger(p) \/ CreateLedger(p) \/ ReadLedger(p))
    BY <1>1 DEF InTransaction, LookForLedger, CreateLedger, ReadLedger
  <2>5. ~(CommitUnacknowledged(p) \/ ConnectionBreaks(p) \/ Restart(p))
    BY <1>1, <2>0 DEF CommitUnacknowledged, ConnectionBreaks, Restart
  <2>6. ~Execute(p)
    <3>1. ASSUME Execute(p) PROVE process'[p].failures = process[p].failures
      BY <2>0, <3>1 DEF Execute, ProcessRecord
    <3> QED BY <1>1, <2>0, <3>1
  <2>7. ~Commit(p)
    <3>1. ASSUME Commit(p) PROVE process'[p].failures = process[p].failures
      BY <2>0, <3>1 DEF Commit, ProcessRecord
    <3> QED BY <1>1, <2>0, <3>1
  <2>8. StatementRefused(p)
    BY <2>2, <2>3, <2>4, <2>5, <2>6, <2>7 DEF Step, ProcessStep
  <2> QED BY <1>1, <2>8, RefusedStale
<1>2. MigrationInv /\ [Next]_vars =>
        [\A p \in Processes :
           InTransaction(p) /\ process'[p].failures > process[p].failures /\ faults' = faults
             => ledger # process[p].read]_vars
  BY <1>1
<1> QED BY <1>2, MigrationInvariant, PTL DEF Spec, RefusedOnlyWhenStale

-----------------------------------------------------------------------------
(* What a process that lost races still gets: how often it can have lost is    *)
(* bounded by how often the ledger changed up to what it has read.             *)

LedgerRaces(p) == IF ledgerTable /\ process[p].state # "creating" THEN 1 ELSE 0

MigrationRaces(p) ==
  IF process[p].state = "migrating" THEN process[p].since
  ELSE IF p \in Reverts THEN reverted ELSE reverted + ledger

LossesBounded(p) ==
  process[p].failures <= faults + LedgerRaces(p) + MigrationRaces(p)

RevertUnderWay(p) ==
  p \in Reverts /\ process[p].state = "migrating" =>
    process[p].read = 1 /\ (process[p].since = reverted => ledger # 0)

ReadyOnTables(p) ==
  p \notin Reverts /\ process[p].state = "ready" /\ process[p].since = reverted
    => schema = Objects

RacesInv ==
  /\ MigrationInv
  /\ \A p \in Processes : LossesBounded(p) /\ RevertUnderWay(p) /\ ReadyOnTables(p)

LEMMA ProcessTypes ==
  ASSUME MigrationInv, NEW p \in Processes
  PROVE  /\ process[p] \in ProcessRecord
         /\ process[p].failures \in Nat /\ process[p].read \in Nat /\ process[p].since \in Nat
         /\ process[p].since <= reverted
<1>1. process[p] \in ProcessRecord /\ process[p].since <= reverted
  BY DEF MigrationInv, Consistent
<1> QED BY <1>1 DEF ProcessRecord

LEMMA GlobalTypes ==
  ASSUME MigrationInv
  PROVE  /\ ledgerTable \in BOOLEAN /\ faults \in Nat /\ reverted \in Nat /\ ledger \in {0, 1}
         /\ ledger = 0 => schema = {}
         /\ ledger # 0 => schema = Objects
         /\ DOMAIN process = Processes
BY RetryAttemptsValid DEF MigrationInv, Numbers, LedgerMatchesSchema

LEMMA SumOfNumbers == \A m, n \in Nat : m + n \in Nat
OBVIOUS

(* The clocks of the argument never go back. *)
LEMMA Monotone ==
  ASSUME MigrationInv, NEW p \in Processes, Step(p)
  PROVE  /\ faults' >= faults /\ reverted' >= reverted
         /\ reverted' + ledger' >= reverted + ledger
         /\ ledgerTable => ledgerTable'
         /\ reverted' = reverted /\ ledger # 0 => ledger' # 0
         /\ reverted' = reverted /\ schema = Objects => schema' = Objects
<1>0. faults \in Nat /\ reverted \in Nat /\ ledger \in {0, 1} /\ (ledger = 0 => schema = {})
  BY GlobalTypes
<1>1. CASE Commit(p) \/ CommitUnacknowledged(p)
  <2>1. CommitTables(p) /\ ledgerTable' = ledgerTable /\ faults' \in {faults, faults + 1}
    BY <1>1 DEF Commit, CommitUnacknowledged, CommitTables
  <2>2. IF p \in Reverts
        THEN schema' = {} /\ ledger = 1 /\ ledger' = 0 /\ reverted' = reverted + 1
        ELSE schema' = Objects /\ ledger = 0 /\ ledger' = 1 /\ reverted' = reverted
    BY <2>1, CommittedTables
  <2>3. faults' >= faults
    BY <1>0, <2>1
  <2>4. CASE p \in Reverts
    BY <1>0, <2>1, <2>2, <2>3, <2>4
  <2>5. CASE p \notin Reverts
    BY <1>0, <2>1, <2>2, <2>3, <2>5
  <2> QED BY <2>4, <2>5
<1>2. CASE ~(Commit(p) \/ CommitUnacknowledged(p))
  <2>1. /\ schema' = schema /\ ledger' = ledger /\ reverted' = reverted
        /\ ledgerTable => ledgerTable'
        /\ faults' \in {faults, faults + 1}
    BY <1>2 DEF Step, ProcessStep, LookForLedger, CreateLedger, ReadLedger, Execute,
                StatementRefused, ConnectionBreaks, Restart
  <2>2. faults' >= faults
    BY <1>0, <2>1
  <2> QED BY <1>0, <2>1, <2>2
<1> QED BY <1>1, <1>2

LEMMA NextNumbers ==
  ASSUME MigrationInv'
  PROVE  faults' \in Nat /\ reverted' \in Nat /\ ledger' \in {0, 1} /\ ledgerTable' \in BOOLEAN
<1>1. Numbers' /\ LedgerMatchesSchema'
  BY DEF MigrationInv
<1> QED BY <1>1, RetryAttemptsValid DEF Numbers, LedgerMatchesSchema

LEMMA OthersKeepTheirs ==
  ASSUME RacesInv, NEW p \in Processes, Step(p), NEW q \in Processes \ {p}, MigrationInv'
  PROVE  (LossesBounded(q) /\ RevertUnderWay(q) /\ ReadyOnTables(q))'
<1>0. MigrationInv /\ LossesBounded(q) /\ RevertUnderWay(q) /\ ReadyOnTables(q)
  BY DEF RacesInv
<1>1. process'[q] = process[q]
  BY <1>0, OnlyItself
<1>2. /\ faults' >= faults /\ reverted' >= reverted
      /\ reverted' + ledger' >= reverted + ledger
      /\ ledgerTable => ledgerTable'
      /\ reverted' = reverted /\ ledger # 0 => ledger' # 0
      /\ reverted' = reverted /\ schema = Objects => schema' = Objects
  BY <1>0, Monotone
<1>3. /\ faults \in Nat /\ reverted \in Nat /\ ledger \in {0, 1} /\ ledgerTable \in BOOLEAN
      /\ process[q].failures \in Nat /\ process[q].since \in Nat /\ process[q].since <= reverted
  BY <1>0, GlobalTypes, ProcessTypes
<1>4. faults' \in Nat /\ reverted' \in Nat /\ ledger' \in {0, 1} /\ ledgerTable' \in BOOLEAN
  BY NextNumbers
<1>5. LossesBounded(q)'
  <2>1. LedgerRaces(q)' >= LedgerRaces(q) /\ LedgerRaces(q) \in Nat /\ LedgerRaces(q)' \in Nat
    BY <1>1, <1>2 DEF LedgerRaces
  <2>2. MigrationRaces(q)' >= MigrationRaces(q)
        /\ MigrationRaces(q) \in Nat /\ MigrationRaces(q)' \in Nat
    <3>1. CASE process[q].state = "migrating"
      BY <1>1, <1>3, <3>1 DEF MigrationRaces
    <3>2. CASE process[q].state # "migrating" /\ q \in Reverts
      BY <1>1, <1>2, <1>3, <1>4, <3>2 DEF MigrationRaces
    <3>3. CASE process[q].state # "migrating" /\ q \notin Reverts
      <4>1. /\ MigrationRaces(q) = reverted + ledger
            /\ MigrationRaces(q)' = reverted' + ledger'
        BY <1>1, <3>3 DEF MigrationRaces
      <4>2. reverted + ledger \in Nat /\ reverted' + ledger' \in Nat
        <5>1. ledger \in Nat /\ ledger' \in Nat
          BY <1>3, <1>4
        <5>2. reverted \in Nat /\ reverted' \in Nat
          BY <1>3, <1>4
        <5> QED BY <5>1, <5>2, SumOfNumbers
      <4> QED BY <1>2, <4>1, <4>2
    <3> QED BY <3>1, <3>2, <3>3
  <2>3. process[q].failures <= faults + LedgerRaces(q) + MigrationRaces(q)
    BY <1>0 DEF LossesBounded
  <2>4. process'[q].failures <= faults' + LedgerRaces(q)' + MigrationRaces(q)'
    BY <1>1, <1>2, <1>3, <1>4, <2>1, <2>2, <2>3
  <2> QED BY <2>4 DEF LossesBounded
<1>6. RevertUnderWay(q)'
  <2>1. ASSUME q \in Reverts, process'[q].state = "migrating"
        PROVE  process'[q].read = 1 /\ (process'[q].since = reverted' => ledger' # 0)
    <3>1. process[q].read = 1 /\ (process[q].since = reverted => ledger # 0)
      BY <1>0, <1>1, <2>1 DEF RevertUnderWay
    <3>2. process[q].since = reverted' => reverted' = reverted
      BY <1>2, <1>3, <1>4
    <3> QED BY <1>1, <1>2, <3>1, <3>2
  <2> QED BY <2>1 DEF RevertUnderWay
<1>7. ReadyOnTables(q)'
  <2>1. ASSUME q \notin Reverts, process'[q].state = "ready", process'[q].since = reverted'
        PROVE  schema' = Objects
    <3>1. reverted' = reverted
      BY <1>1, <1>2, <1>3, <1>4, <2>1
    <3>2. schema = Objects
      BY <1>0, <1>1, <2>1, <3>1 DEF ReadyOnTables
    <3> QED BY <1>2, <3>1, <3>2
  <2> QED BY <2>1 DEF ReadyOnTables
<1> QED BY <1>5, <1>6, <1>7

(* What the step of a process does to what the argument reads of it. *)
LEMMA OwnAttemptEnds ==
  ASSUME MigrationInv, NEW p \in Processes, AttemptEnds(p)
  PROVE  process'[p].failures = process[p].failures + 1
         /\ process'[p].state \in {"started", "failed"}
<1>1. process[p].failures \in Nat /\ DOMAIN process = Processes
  BY ProcessTypes, GlobalTypes
<1>2. PICK state \in {"started", "failed"} :
        process'[p] = WithoutScript(state, process[p].failures + 1)
  BY <1>1 DEF AttemptEnds
<1> QED BY <1>2 DEF WithoutScript

LEMMA OwnLook ==
  ASSUME MigrationInv, NEW p \in Processes, LookForLedger(p)
  PROVE  /\ process[p].state = "started" /\ process'[p].failures = process[p].failures
         /\ process'[p].state = IF ledgerTable THEN "loading" ELSE "creating"
<1>1. process[p] \in ProcessRecord /\ DOMAIN process = Processes
  BY ProcessTypes, GlobalTypes
<1> QED BY <1>1 DEF LookForLedger, ProcessRecord

LEMMA OwnCreate ==
  ASSUME MigrationInv, NEW p \in Processes, CreateLedger(p), ~ledgerTable
  PROVE  /\ process[p].state = "creating" /\ process'[p].failures = process[p].failures
         /\ process'[p].state = "loading"
<1>1. process[p] \in ProcessRecord /\ DOMAIN process = Processes
  BY ProcessTypes, GlobalTypes
<1> QED BY <1>1 DEF CreateLedger, ProcessRecord

LEMMA OwnRead ==
  ASSUME MigrationInv, NEW p \in Processes, ReadLedger(p)
  PROVE  /\ process[p].state = "loading" /\ process'[p].failures = process[p].failures
         /\ process'[p].read = ledger /\ process'[p].since = reverted
         /\ process'[p].state = IF (IF p \in Reverts THEN ledger > 0 ELSE ledger = 0)
                                THEN "migrating" ELSE "ready"
<1>1. process[p] \in ProcessRecord /\ DOMAIN process = Processes
  BY ProcessTypes, GlobalTypes
<1> QED BY <1>1 DEF ReadLedger, ProcessRecord

LEMMA OwnExecute ==
  ASSUME MigrationInv, NEW p \in Processes, Execute(p)
  PROVE  /\ process[p].state = "migrating" /\ process'[p].state = "migrating"
         /\ process'[p].failures = process[p].failures
         /\ process'[p].read = process[p].read /\ process'[p].since = process[p].since
<1>1. process[p] \in ProcessRecord /\ DOMAIN process = Processes
  BY ProcessTypes, GlobalTypes
<1> QED BY <1>1 DEF Execute, ProcessRecord, InTransaction

LEMMA OwnCommit ==
  ASSUME MigrationInv, NEW p \in Processes, Commit(p)
  PROVE  /\ process[p].state = "migrating" /\ process'[p].state = "ready"
         /\ process'[p].failures = process[p].failures
<1>1. process[p] \in ProcessRecord /\ DOMAIN process = Processes
  BY ProcessTypes, GlobalTypes
<1> QED BY <1>1 DEF Commit, CommitTables, ProcessRecord, InTransaction

(* Every attempt that fails is paid for: by a fault, by the ledger's table     *)
(* that another process made, or by a row another process wrote or deleted.    *)
LEMMA OwnLossesBounded ==
  ASSUME RacesInv, NEW p \in Processes, Step(p), MigrationInv'
  PROVE  LossesBounded(p)'
<1>0. MigrationInv /\ LossesBounded(p) /\ RevertUnderWay(p)
  BY DEF RacesInv
<1>1. /\ faults \in Nat /\ reverted \in Nat /\ ledger \in {0, 1} /\ ledgerTable \in BOOLEAN
      /\ process[p].failures \in Nat /\ process[p].since \in Nat /\ process[p].since <= reverted
      /\ DOMAIN process = Processes
  BY <1>0, GlobalTypes, ProcessTypes
<1>2. faults' \in Nat /\ reverted' \in Nat /\ ledger' \in {0, 1} /\ ledgerTable' \in BOOLEAN
      /\ process'[p].failures \in Nat
  <2>1. Consistent(p, process[p])'
    BY DEF MigrationInv
  <2> QED BY <2>1, NextNumbers DEF Consistent, ProcessRecord
<1>3. /\ faults' >= faults /\ reverted' >= reverted
      /\ reverted' + ledger' >= reverted + ledger
      /\ ledgerTable => ledgerTable'
  BY <1>0, Monotone
<1> DEFINE tables == LedgerRaces(p)
           rows == MigrationRaces(p)
<1>4. tables \in Nat /\ tables' \in Nat /\ rows \in Nat /\ rows' \in Nat
      /\ process[p].failures <= faults + tables + rows
  <2>1. process'[p].since \in Nat
    <3>1. Consistent(p, process[p])'
      BY DEF MigrationInv
    <3> QED BY <3>1 DEF Consistent, ProcessRecord
  <2>2. tables \in Nat /\ tables' \in Nat
    BY DEF LedgerRaces
  <2>3. reverted + ledger \in Nat /\ reverted' + ledger' \in Nat
    <3>1. ledger \in Nat /\ ledger' \in Nat
      BY <1>1, <1>2
    <3>2. reverted \in Nat /\ reverted' \in Nat
      BY <1>1, <1>2
    <3> QED BY <3>1, <3>2, SumOfNumbers
  <2>4. rows \in Nat /\ rows' \in Nat
    BY <1>1, <1>2, <2>1, <2>3 DEF MigrationRaces
  <2> QED BY <1>0, <2>2, <2>4 DEF LossesBounded
<1>5. SUFFICES process'[p].failures <= faults' + tables' + rows'
  BY DEF LossesBounded
<1>6. CASE Restart(p)
  <2>1. process'[p].failures = 0
    BY <1>1, <1>6 DEF Restart, Fresh, WithoutScript
  <2> QED BY <1>2, <1>4, <2>1
<1>7. ASSUME AttemptEnds(p)
      PROVE  /\ process'[p].failures = process[p].failures + 1
             /\ tables' >= tables
             /\ rows' = IF p \in Reverts THEN reverted' ELSE reverted' + ledger'
             /\ rows' >= rows
  <2>1. /\ process'[p].failures = process[p].failures + 1
        /\ process'[p].state \in {"started", "failed"}
    BY <1>0, <1>7, OwnAttemptEnds
  <2>2. tables' >= tables
    BY <1>3, <2>1 DEF LedgerRaces
  <2>3. rows' = IF p \in Reverts THEN reverted' ELSE reverted' + ledger'
    BY <2>1 DEF MigrationRaces
  <2>4. rows <= IF p \in Reverts THEN reverted ELSE reverted + ledger
    BY <1>1 DEF MigrationRaces
  <2>5. rows' >= rows
    <3>1. CASE p \in Reverts
      BY <1>1, <1>2, <1>3, <1>4, <2>3, <2>4, <3>1
    <3>2. CASE p \notin Reverts
      <4>1. reverted + ledger \in Nat /\ reverted' + ledger' \in Nat
        <5>1. ledger \in Nat /\ ledger' \in Nat
          BY <1>1, <1>2
        <5>2. reverted \in Nat /\ reverted' \in Nat
          BY <1>1, <1>2
        <5> QED BY <5>1, <5>2, SumOfNumbers
      <4>2. rows <= reverted + ledger /\ rows' = reverted' + ledger'
        BY <2>3, <2>4, <3>2
      <4> HIDE DEF rows
      <4> QED BY <1>3, <1>4, <4>1, <4>2
    <3> QED BY <3>1, <3>2
  <2> QED BY <2>1, <2>2, <2>3, <2>5
<1>8. CASE CommitUnacknowledged(p) \/ ConnectionBreaks(p)
  <2>1. AttemptEnds(p) /\ faults' = faults + 1
    BY <1>8 DEF CommitUnacknowledged, ConnectionBreaks
  <2> QED BY <1>1, <1>2, <1>4, <1>7, <2>1
<1>9. CASE StatementRefused(p)
  <2>1. /\ AttemptEnds(p) /\ ledger # process[p].read /\ process[p].state = "migrating"
        /\ ledger' = ledger /\ reverted' = reverted /\ faults' = faults
    BY <1>0, <1>9, RefusedStale DEF StatementRefused, InTransaction
  <2>2. rows = process[p].since
    BY <2>1 DEF MigrationRaces
  <2>3. rows' >= rows + 1
    <3>1. CASE p \in Reverts
      <4>1. process[p].read = 1 /\ (process[p].since = reverted => ledger # 0)
        BY <1>0, <2>1, <3>1 DEF RevertUnderWay
      <4>2. process[p].since # reverted
        BY <1>1, <2>1, <4>1
      <4>3. rows' = reverted
        BY <1>7, <2>1, <3>1
      <4> QED BY <1>1, <1>4, <2>2, <4>2, <4>3
    <3>2. CASE p \notin Reverts
      <4>1. process[p].read = 0
        BY <1>0, <2>1, <3>2 DEF MigrationInv, Consistent
      <4>2. ledger = 1
        BY <1>1, <2>1, <4>1
      <4>3. rows' = reverted + 1
        BY <1>7, <2>1, <3>2, <4>2
      <4> QED BY <1>1, <1>4, <2>2, <4>3
    <3> QED BY <3>1, <3>2
  <2>4. process'[p].failures = process[p].failures + 1 /\ tables' >= tables
    BY <1>7, <2>1
  <2> QED BY <1>1, <1>2, <1>4, <2>1, <2>3, <2>4
<1>10. CASE CreateLedger(p) /\ ledgerTable
  <2>1. /\ AttemptEnds(p) /\ process[p].state = "creating" /\ ledgerTable'
        /\ faults' = faults
    BY <1>10 DEF CreateLedger
  <2>2. tables = 0
    BY <2>1 DEF LedgerRaces
  <2>3. tables' = 1
    BY <1>0, <2>1, OwnAttemptEnds DEF LedgerRaces
  <2>4. process'[p].failures = process[p].failures + 1 /\ rows' >= rows
    BY <1>7, <2>1
  <2> QED BY <1>1, <1>2, <1>4, <2>1, <2>2, <2>3, <2>4
<1>11. ASSUME process'[p].failures = process[p].failures, tables' >= tables, rows' >= rows
       PROVE  process'[p].failures <= faults' + tables' + rows'
  BY <1>1, <1>2, <1>3, <1>4, <1>11
<1>12. CASE LookForLedger(p)
  <2>1. /\ process[p].state = "started" /\ process'[p].failures = process[p].failures
        /\ process'[p].state = IF ledgerTable THEN "loading" ELSE "creating"
        /\ ledgerTable' = ledgerTable /\ ledger' = ledger /\ reverted' = reverted
    BY <1>0, <1>12, OwnLook DEF LookForLedger
  <2>2. tables' >= tables
    BY <1>1, <2>1 DEF LedgerRaces
  <2>3. rows' = rows
    BY <2>1 DEF MigrationRaces
  <2> QED BY <1>4, <1>11, <2>1, <2>2, <2>3
<1>13. CASE CreateLedger(p) /\ ~ledgerTable
  <2>1. /\ process[p].state = "creating" /\ process'[p].failures = process[p].failures
        /\ process'[p].state = "loading"
        /\ ledger' = ledger /\ reverted' = reverted
    BY <1>0, <1>13, OwnCreate DEF CreateLedger
  <2>2. tables' >= tables
    BY <1>13, <1>4, <2>1 DEF LedgerRaces
  <2>3. rows' = rows
    BY <2>1 DEF MigrationRaces
  <2> QED BY <1>4, <1>11, <2>1, <2>2, <2>3
<1>14. CASE ReadLedger(p)
  <2>1. /\ process[p].state = "loading" /\ process'[p].failures = process[p].failures
        /\ process'[p].since = reverted
        /\ process'[p].state = IF (IF p \in Reverts THEN ledger > 0 ELSE ledger = 0)
                               THEN "migrating" ELSE "ready"
        /\ ledgerTable' = ledgerTable /\ ledger' = ledger /\ reverted' = reverted
    BY <1>0, <1>14, OwnRead DEF ReadLedger
  <2>2. tables' = tables
    BY <2>1 DEF LedgerRaces
  <2>3. rows' = rows
    BY <1>1, <2>1 DEF MigrationRaces
  <2> QED BY <1>4, <1>11, <2>1, <2>2, <2>3
<1>15. CASE Execute(p)
  <2>1. /\ process[p].state = "migrating" /\ process'[p].state = "migrating"
        /\ process'[p].failures = process[p].failures
        /\ process'[p].since = process[p].since /\ ledgerTable' = ledgerTable
    BY <1>0, <1>15, OwnExecute DEF Execute
  <2>2. tables' = tables /\ rows' = rows
    BY <2>1 DEF LedgerRaces, MigrationRaces
  <2> QED BY <1>4, <1>11, <2>1, <2>2
<1>16. CASE Commit(p)
  <2>1. /\ process[p].state = "migrating" /\ process'[p].state = "ready"
        /\ process'[p].failures = process[p].failures /\ ledgerTable' = ledgerTable
    BY <1>0, <1>16, OwnCommit DEF Commit, CommitTables
  <2>2. tables' = tables /\ rows = process[p].since
    BY <2>1 DEF LedgerRaces, MigrationRaces
  <2>3. rows' = IF p \in Reverts THEN reverted' ELSE reverted' + ledger'
    BY <2>1 DEF MigrationRaces
  <2>4. rows' >= rows
    <3>1. CASE p \in Reverts
      BY <1>1, <1>2, <1>3, <2>2, <2>3, <3>1
    <3>2. CASE p \notin Reverts
      BY <1>1, <1>2, <1>3, <2>2, <2>3, <3>2
    <3> QED BY <3>1, <3>2
  <2> QED BY <1>4, <1>11, <2>1, <2>2, <2>4
<1> QED BY <1>6, <1>8, <1>9, <1>10, <1>12, <1>13, <1>14, <1>15, <1>16 DEF Step, ProcessStep

LEMMA OwnTables ==
  ASSUME RacesInv, NEW p \in Processes, Step(p), MigrationInv'
  PROVE  (RevertUnderWay(p) /\ ReadyOnTables(p))'
<1>0. MigrationInv /\ RevertUnderWay(p) /\ ReadyOnTables(p)
  BY DEF RacesInv
<1>1. /\ reverted \in Nat /\ ledger \in {0, 1} /\ (ledger # 0 => schema = Objects)
      /\ DOMAIN process = Processes
  BY <1>0, GlobalTypes
<1>2. CASE process'[p].state \notin {"migrating", "ready"}
  BY <1>2 DEF RevertUnderWay, ReadyOnTables
<1>3. CASE ReadLedger(p)
  <2>1. /\ process'[p].read = ledger /\ process'[p].since = reverted
        /\ process'[p].state = IF (IF p \in Reverts THEN ledger > 0 ELSE ledger = 0)
                               THEN "migrating" ELSE "ready"
        /\ schema' = schema /\ ledger' = ledger /\ reverted' = reverted
    BY <1>0, <1>3, OwnRead DEF ReadLedger
  <2>2. RevertUnderWay(p)'
    BY <1>1, <2>1 DEF RevertUnderWay
  <2>3. ReadyOnTables(p)'
    BY <1>1, <2>1 DEF ReadyOnTables
  <2> QED BY <2>2, <2>3
<1>4. CASE Execute(p)
  <2>1. /\ process[p].state = "migrating" /\ process'[p].state = "migrating"
        /\ process'[p].read = process[p].read /\ process'[p].since = process[p].since
        /\ ledger' = ledger /\ reverted' = reverted
    BY <1>0, <1>4, OwnExecute DEF Execute
  <2> QED BY <1>0, <2>1 DEF RevertUnderWay, ReadyOnTables
<1>5. CASE Commit(p)
  <2>1. process'[p].state = "ready" /\ CommitTables(p)
    BY <1>0, <1>5, OwnCommit DEF Commit
  <2>2. p \notin Reverts => schema' = Objects
    BY <1>0, <2>1, CommittedTables
  <2> QED BY <2>1, <2>2 DEF RevertUnderWay, ReadyOnTables
<1>6. CASE AttemptEnds(p)
  <2>1. process'[p].state \in {"started", "failed"}
    BY <1>0, <1>6, OwnAttemptEnds
  <2> QED BY <1>2, <2>1
<1>7. CASE Restart(p)
  <2>1. process'[p].state = "started"
    BY <1>1, <1>7 DEF Restart, Fresh, WithoutScript
  <2> QED BY <1>2, <2>1
<1>8. CASE LookForLedger(p)
  BY <1>0, <1>2, <1>8, OwnLook
<1>9. CASE CreateLedger(p)
  <2>1. CASE ledgerTable
    BY <1>6, <1>9, <2>1 DEF CreateLedger
  <2>2. CASE ~ledgerTable
    BY <1>0, <1>2, <1>9, <2>2, OwnCreate
  <2> QED BY <2>1, <2>2
<1> QED BY <1>3, <1>4, <1>5, <1>6, <1>7, <1>8, <1>9
        DEF Step, ProcessStep, StatementRefused, CommitUnacknowledged, ConnectionBreaks

LEMMA RacesInit == Init => RacesInv
<1> SUFFICES ASSUME Init PROVE RacesInv
  OBVIOUS
<1>1. MigrationInv
  BY MigrationInit
<1>2. ASSUME NEW p \in Processes
      PROVE  LossesBounded(p) /\ RevertUnderWay(p) /\ ReadyOnTables(p)
  <2>1. process[p].state = "started" /\ process[p].failures = 0
        /\ ledgerTable = FALSE /\ faults = 0 /\ reverted = 0 /\ ledger = 0
    BY DEF Init, Fresh, WithoutScript
  <2>2. LedgerRaces(p) = 0 /\ MigrationRaces(p) = 0
    BY <2>1 DEF LedgerRaces, MigrationRaces
  <2> QED BY <2>1, <2>2 DEF LossesBounded, RevertUnderWay, ReadyOnTables
<1> QED BY <1>1, <1>2 DEF RacesInv

LEMMA RacesStep == RacesInv /\ [Next]_vars => RacesInv'
<1> SUFFICES ASSUME RacesInv, [Next]_vars PROVE RacesInv'
  OBVIOUS
<1>1. MigrationInv'
  BY MigrationStep DEF RacesInv
<1>2. CASE UNCHANGED vars
  <2>1. ASSUME NEW p \in Processes
        PROVE  (LossesBounded(p) /\ RevertUnderWay(p) /\ ReadyOnTables(p))'
    <3>1. LossesBounded(p) /\ RevertUnderWay(p) /\ ReadyOnTables(p)
      BY DEF RacesInv
    <3> QED BY <1>2, <3>1 DEF vars, LossesBounded, LedgerRaces, MigrationRaces,
                              RevertUnderWay, ReadyOnTables
  <2> QED BY <1>1, <2>1 DEF RacesInv
<1>3. CASE Next
  <2>1. PICK p \in Processes : Step(p)
    BY <1>3 DEF Next, Step
  <2>2. ASSUME NEW q \in Processes
        PROVE  (LossesBounded(q) /\ RevertUnderWay(q) /\ ReadyOnTables(q))'
    <3>1. CASE q = p
      BY <1>1, <2>1, <3>1, OwnLossesBounded, OwnTables
    <3>2. CASE q # p
      BY <1>1, <2>1, <3>2, OthersKeepTheirs
    <3> QED BY <3>1, <3>2
  <2> QED BY <1>1, <2>2 DEF RacesInv
<1> QED BY <1>2, <1>3

LEMMA RacesInvariant == Spec => []RacesInv
<1> QED BY RacesInit, RacesStep, PTL DEF Spec

(* Losing races costs a process two attempts at most, a fault one each, and a  *)
(* revert one each, however many processes race (retryAttempts of the data     *)
(* source, the ledger's table and InitialMigration).                           *)
THEOREM LostRacesCorrect == Spec => []LostRacesCostTwoAttempts
<1>1. RacesInv => LostRacesCostTwoAttempts
  <2> SUFFICES ASSUME RacesInv, NEW p \in Processes
               PROVE  process[p].failures <= 2 + faults + reverted
    BY DEF LostRacesCostTwoAttempts
  <2>0. MigrationInv /\ LossesBounded(p)
    BY DEF RacesInv
  <2>1. /\ faults \in Nat /\ reverted \in Nat /\ ledger \in {0, 1}
        /\ process[p].failures \in Nat /\ process[p].since \in Nat
        /\ process[p].since <= reverted
    BY <2>0, GlobalTypes, ProcessTypes
  <2>2. LedgerRaces(p) \in {0, 1}
    BY DEF LedgerRaces
  <2>3. MigrationRaces(p) \in Nat /\ MigrationRaces(p) <= reverted + 1
    BY <2>1 DEF MigrationRaces
  <2> QED BY <2>0, <2>1, <2>2, <2>3 DEF LossesBounded
<1> QED BY <1>1, RacesInvariant, PTL

(* A server that goes on to listen has its tables, unless they were taken down *)
(* after it read the ledger (migrationsRun of the data source).                *)
THEOREM ReadyWithTablesCorrect == Spec => []ReadyWithTables
<1>1. RacesInv => ReadyWithTables
  BY TasksDistinct DEF RacesInv, ReadyWithTables, ReadyOnTables, Processes
<1> QED BY <1>1, RacesInvariant, PTL
=============================================================================
