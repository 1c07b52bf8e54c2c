----------------------------- MODULE BootProofs -----------------------------
(***************************************************************************)
(* Proofs about Boot, for every set of environments and of user names.  The  *)
(* import graph is the application's own, so the invariant follows its walk  *)
(* place by place; the registry is what the calls made so far left.          *)
(***************************************************************************)
EXTENDS Boot, SequenceTheorems, TLAPS

Frame == [file: DOMAIN Imports, next: Nat, called: BOOLEAN]

At(file, next) == [file |-> file, next |-> next, called |-> FALSE]

(* The stacks of the walk: each file on top of the one that imports it. *)
Bottom           == <<>>
Main(next)       == Append(Bottom, At("main", next))
App(next)        == Append(Main(2), At("app.module", next))
Global(next)     == Append(App(2), At("Global", next))
DataSource       == Append(Global(2), At("datasource.option", 1))
AuthZ            == Append(Global(3), At("AuthZ", 1))
Identity(next)   == Append(App(3), At("Identity", next))
Users            == Append(Identity(2), At("Users", 1))
UsersCalled      == Append(Identity(2), [At("Users", 1) EXCEPT !.called = TRUE])
AuthN(next)      == Append(Identity(3), At("AuthN", next))
Test(next)       == Append(App(4), At("Test", next))

(* What has been evaluated, or is being. *)
UpToApp == {"main", "app.module"}
UpToGlobal == UpToApp \cup {"Global"}
UpToDataSource == UpToGlobal \cup {"datasource.option"}
UpToAuthZ == UpToDataSource \cup {"AuthZ"}
UpToIdentity == UpToAuthZ \cup {"Identity"}
UpToUsers == UpToIdentity \cup {"Users"}
UpToAuthN == UpToUsers \cup {"AuthN"}
UpToTest == UpToAuthN \cup {"Test"}

-----------------------------------------------------------------------------
(* The registry before forRoot, after it, while the one entry of the list of  *)
(* forFeature is to be applied, and after it was.                             *)

Fresh == Registry!Init

Configured ==
  /\ rolesDefinitions = RolesDefinition /\ defaultRole = DefaultRole
  /\ globalChecks = {ActiveAccount}
  /\ settings = [log |-> TRUE, logger |-> "application", authNException |-> "application",
                 authZException |-> "application"]

Declared ==
  /\ Configured
  /\ resourcesDefinitions = [resource \in {"USER"} |-> Null]
  /\ resourcesByRole = [role \in UserRoles |-> {}]

Rooted == Declared /\ feature = [resources |-> <<>>, next |-> 1]

Applying ==
  /\ Declared /\ feature = [resources |-> FeatureOptions, next |-> 1]
  /\ outcome = [call |-> "InitResources", error |-> "none",
                found |-> [resource \in {"USER"} |-> Null]]

Ready ==
  /\ Configured
  /\ resourcesDefinitions = [resource \in {"USER"} |-> UserDefinition]
  /\ resourcesByRole = [role \in UserRoles |-> {"USER"}]
  /\ feature = [resources |-> FeatureOptions, next |-> 2]

(* The walk, in the order in which it gets to its places. *)
Walk ==
  \/ Fresh /\
       \/ stack = Main(1) /\ required = {"main"}
       \/ stack = App(1) /\ required = UpToApp
       \/ stack = Global(1) /\ required = UpToGlobal
       \/ stack = DataSource /\ required = UpToDataSource
       \/ stack = Global(2) /\ required = UpToDataSource
       \/ stack = AuthZ /\ required = UpToAuthZ
  \/ Rooted /\
       \/ stack = Global(3) /\ required = UpToAuthZ
       \/ stack = App(2) /\ required = UpToAuthZ
       \/ stack = Identity(1) /\ required = UpToIdentity
       \/ stack = Users /\ required = UpToUsers
  \/ Applying /\ stack = UsersCalled /\ required = UpToUsers
  \/ Ready /\
       \/ stack = UsersCalled /\ required = UpToUsers
       \/ stack = Identity(2) /\ required = UpToUsers
       \/ stack = AuthN(1) /\ required = UpToAuthN
       \/ stack = AuthN(2) /\ required = UpToAuthN
       \/ stack = Identity(3) /\ required = UpToAuthN
       \/ stack = App(3) /\ required = UpToAuthN
       \/ stack = Test(1) /\ required = UpToTest
       \/ stack = Test(2) /\ required = UpToTest
       \/ stack = App(4) /\ required = UpToTest
       \/ stack = Main(2) /\ required = UpToTest

BootInv ==
  /\ phase = "importing" => Walk
  /\ phase \in {"creating", "connecting", "initialised", "listening"} => Ready
  /\ phase \in {"connecting", "initialised", "listening"} => RefusedVariables(env) = {}
  /\ cause # "registry"

(* The attempts that have failed, and the number the validated environment sets. *)
AttemptsInv ==
  LET accepted == env["DB_RETRY_ATTEMPTS"]
  IN  /\ env \in Environments
      /\ phase # "stopped" => cause = "none"
      /\ phase \in {"importing", "creating"} => failures = 0
      /\ phase \in {"connecting", "initialised", "listening"} =>
           accepted \in Nat /\ RetryAttempts(env) = accepted
             /\ failures \in Nat /\ failures < accepted
      /\ cause = "database" => failures = accepted

-----------------------------------------------------------------------------
(* Sequences as stacks. *)

LEMMA OnTop ==
  ASSUME NEW S, NEW rest \in Seq(S), NEW top \in S
  PROVE  LET list == Append(rest, top)
         IN  /\ list \in Seq(S) /\ list # <<>> /\ list[Len(list)] = top
             /\ SubSeq(list, 1, Len(list) - 1) = rest
             /\ \A new \in S : [list EXCEPT ![Len(list)] = new] = Append(rest, new)
<1> DEFINE list == Append(rest, top)
<1>1. /\ list \in Seq(S) /\ Len(list) = Len(rest) + 1 /\ Len(rest) \in Nat
      /\ list[Len(list)] = top /\ list # <<>> /\ DOMAIN rest = 1..Len(rest)
      /\ DOMAIN list = 1..(Len(rest) + 1)
      /\ \A i \in 1..Len(rest) : list[i] = rest[i]
  OBVIOUS
<1>2. SubSeq(list, 1, Len(list) - 1) = rest
  <2> DEFINE part == SubSeq(list, 1, Len(list) - 1)
  <2> HIDE DEF list
  <2>1. part \in Seq(S) /\ Len(part) = Len(rest) /\ \A i \in 1..Len(rest) : part[i] = rest[i]
    BY <1>1
  <2> HIDE DEF part
  <2> QED BY <1>1, <2>1, SeqEqual
<1>3. ASSUME NEW new \in S
      PROVE  [list EXCEPT ![Len(list)] = new] = Append(rest, new)
  <2> DEFINE other == [list EXCEPT ![Len(list)] = new]
             extended == Append(rest, new)
  <2>1. /\ extended \in Seq(S) /\ Len(extended) = Len(rest) + 1
        /\ extended[Len(rest) + 1] = new /\ \A i \in 1..Len(rest) : extended[i] = rest[i]
    OBVIOUS
  <2> HIDE DEF list, extended
  <2>2. /\ other \in Seq(S) /\ Len(other) = Len(rest) + 1
        /\ other[Len(rest) + 1] = new /\ \A i \in 1..Len(rest) : other[i] = list[i]
    BY <1>1
  <2> HIDE DEF other
  <2>3. \A i \in 1..Len(other) : other[i] = extended[i]
    <3>1. \A i \in 1..Len(other) : i = Len(rest) + 1 \/ i \in 1..Len(rest)
      BY <1>1, <2>2
    <3> QED BY <1>1, <2>1, <2>2, <3>1
  <2>4. other = extended
    BY <2>1, <2>2, <2>3, SeqEqual
  <2> QED BY <2>4 DEF other, extended
<1> QED BY <1>1, <1>2, <1>3

-----------------------------------------------------------------------------
(* The walk. *)

LEMMA ImportsOf ==
  /\ Imports["main"] = <<"app.module">>
  /\ Imports["app.module"] = <<"Global", "Identity", "Test">>
  /\ Imports["Global"] = <<"datasource.option", "AuthZ">>
  /\ Imports["Identity"] = <<"Users", "AuthN">>
  /\ Imports["AuthN"] = <<"Users">>
  /\ Imports["Test"] = <<"Users">>
  /\ \A file \in {"datasource.option", "AuthZ", "Users"} : Imports[file] = <<>>
  /\ DOMAIN Imports = {"main", "app.module", "Global", "datasource.option", "AuthZ",
                       "Identity", "Users", "AuthN", "Test"}
BY DEF Imports

LEMMA SameFrame ==
  ASSUME NEW f \in Frame, NEW g \in Frame,
         f.file = g.file, f.next = g.next, f.called <=> g.called
  PROVE  f = g
<1>1. f.called = g.called
  BY DEF Frame
<1> QED BY <1>1 DEF Frame

LEMMA FrameAdvanced ==
  ASSUME NEW f \in Frame, NEW n \in Nat, NEW g, g = [f EXCEPT !.next = n]
  PROVE  g \in Frame /\ g.file = f.file /\ g.next = n /\ g.called = f.called
BY DEF Frame

LEMMA FrameCalled ==
  ASSUME NEW f \in Frame, NEW g, g = [f EXCEPT !.called = TRUE]
  PROVE  g \in Frame /\ g.file = f.file /\ g.next = f.next /\ g.called
BY DEF Frame

LEMMA AtTyped ==
  ASSUME NEW file \in DOMAIN Imports, NEW n \in Nat
  PROVE  /\ At(file, n) \in Frame /\ At(file, n).file = file /\ At(file, n).next = n
         /\ ~At(file, n).called
         /\ [At(file, n) EXCEPT !.next = @ + 1] = At(file, n + 1)
         /\ Evaluating(file) = At(file, 1)
<1>1. \A m \in Nat : /\ At(file, m) \in Frame /\ At(file, m).file = file
                     /\ At(file, m).next = m /\ ~At(file, m).called
  BY DEF At, Frame
<1>2. [At(file, n) EXCEPT !.next = @ + 1] = At(file, n + 1)
  <2> DEFINE at == At(file, n)
             next == At(file, n + 1)
             advanced == [at EXCEPT !.next = n + 1]
  <2>1. n + 1 \in Nat /\ at \in Frame /\ next \in Frame /\ at.next = n
    BY <1>1
  <2>2. /\ advanced \in Frame /\ advanced.file = at.file /\ advanced.next = n + 1
        /\ advanced.called = at.called
    <3> HIDE DEF at
    <3> QED BY <2>1, FrameAdvanced
  <2>3. at.file = next.file /\ next.next = n + 1 /\ (at.called <=> next.called)
    BY <1>1, <2>1
  <2>4. advanced = next
    <3> HIDE DEF advanced, next, at
    <3> QED BY <2>1, <2>2, <2>3, SameFrame
  <2> QED BY <2>1, <2>4
<1>3. Evaluating(file) = At(file, 1)
  BY DEF Evaluating, At
<1> QED BY <1>1, <1>2, <1>3

LEMMA CalledTyped ==
  LET called == [At("Users", 1) EXCEPT !.called = TRUE]
  IN  called \in Frame /\ called.file = "Users" /\ called.next = 1 /\ called.called
<1> DEFINE at == At("Users", 1)
<1>1. \A file \in DOMAIN Imports, n \in Nat :
        At(file, n) \in Frame /\ At(file, n).file = file /\ At(file, n).next = n
  BY AtTyped
<1>2. "Users" \in DOMAIN Imports /\ 1 \in Nat
  BY ImportsOf
<1>3. at \in Frame /\ at.file = "Users" /\ at.next = 1
  BY <1>1, <1>2
<1> HIDE DEF at
<1>4. LET called == [at EXCEPT !.called = TRUE]
      IN  called \in Frame /\ called.file = "Users" /\ called.next = 1 /\ called.called
  BY <1>3, FrameCalled
<1> QED BY <1>4 DEF at

LEMMA StacksTyped ==
  /\ Bottom \in Seq(Frame) /\ Main(2) \in Seq(Frame)
  /\ App(2) \in Seq(Frame) /\ App(3) \in Seq(Frame) /\ App(4) \in Seq(Frame)
  /\ Global(2) \in Seq(Frame) /\ Global(3) \in Seq(Frame)
  /\ Identity(2) \in Seq(Frame) /\ Identity(3) \in Seq(Frame)
<1>1. \A file \in DOMAIN Imports, n \in Nat : At(file, n) \in Frame
  BY AtTyped
<1>2. /\ At("main", 2) \in Frame /\ At("app.module", 2) \in Frame
      /\ At("app.module", 3) \in Frame /\ At("app.module", 4) \in Frame
      /\ At("Global", 2) \in Frame /\ At("Global", 3) \in Frame
      /\ At("Identity", 2) \in Frame /\ At("Identity", 3) \in Frame
  BY <1>1, ImportsOf
<1>3. Bottom \in Seq(Frame)
  BY DEF Bottom
<1>4. \A rest \in Seq(Frame), top \in Frame : Append(rest, top) \in Seq(Frame)
  OBVIOUS
<1>5. Main(2) \in Seq(Frame)
  BY <1>2, <1>3, <1>4 DEF Main
<1>6. App(2) \in Seq(Frame) /\ App(3) \in Seq(Frame) /\ App(4) \in Seq(Frame)
  BY <1>2, <1>4, <1>5 DEF App
<1>7. Global(2) \in Seq(Frame) /\ Global(3) \in Seq(Frame)
  BY <1>2, <1>4, <1>6 DEF Global
<1>8. Identity(2) \in Seq(Frame) /\ Identity(3) \in Seq(Frame)
  BY <1>2, <1>4, <1>6 DEF Identity
<1> QED BY <1>3, <1>5, <1>6, <1>7, <1>8

LEMMA TopIs ==
  ASSUME NEW rest \in Seq(Frame), NEW top \in Frame, stack = Append(rest, top)
  PROVE  /\ Top = top /\ stack # <<>>
         /\ ImportsLeft <=> top.next <= Len(Imports[top.file])
         /\ Finished => stack' = rest
BY OnTop DEF Top, ImportsLeft, Finished

(* One require(): the file on top goes on to its next import. *)
LEMMA RequireAt ==
  ASSUME NEW rest \in Seq(Frame), NEW file \in DOMAIN Imports, NEW n \in Nat,
         stack = Append(rest, At(file, n)), Require
  PROVE  /\ n <= Len(Imports[file])
         /\ required' = required \cup {Imports[file][n]}
         /\ Imports[file][n] \in required => stack' = Append(rest, At(file, n + 1))
         /\ Imports[file][n] \notin required /\ Imports[file][n] \in DOMAIN Imports
              => stack' = Append(Append(rest, At(file, n + 1)), At(Imports[file][n], 1))
<1> DEFINE top == At(file, n)
           advanced == [stack EXCEPT ![Len(stack)].next = @ + 1]
           next == Imports[file][n]
<1>1. /\ top \in Frame /\ top.file = file /\ top.next = n
      /\ [top EXCEPT !.next = @ + 1] = At(file, n + 1) /\ At(file, n + 1) \in Frame
  <2>1. n + 1 \in Nat
    OBVIOUS
  <2> QED BY <2>1, AtTyped
<1>2. Top = top /\ n <= Len(Imports[file])
  BY <1>1, TopIs DEF Require
<1>3. /\ required' = required \cup {next}
      /\ stack' = IF next \in required THEN advanced ELSE Append(advanced, Evaluating(next))
  BY <1>1, <1>2 DEF Require
<1>4. advanced = Append(rest, At(file, n + 1))
  <2>1. advanced = [stack EXCEPT ![Len(stack)] = [Top EXCEPT !.next = @ + 1]]
    BY DEF Top
  <2>2. advanced = [stack EXCEPT ![Len(stack)] = At(file, n + 1)]
    BY <1>1, <1>2, <2>1
  <2> DEFINE new == At(file, n + 1)
  <2>3. \A list : list = Append(rest, top) => [list EXCEPT ![Len(list)] = new] = Append(rest, new)
    <3>1. new \in Frame /\ top \in Frame
      BY <1>1
    <3> HIDE DEF top, new
    <3> QED BY <3>1, OnTop
  <2> HIDE DEF advanced, top, new
  <2> QED BY <2>2, <2>3 DEF top, new
<1> HIDE DEF advanced
<1>5. next \in DOMAIN Imports => Evaluating(next) = At(next, 1)
  BY AtTyped
<1> QED BY <1>2, <1>3, <1>4, <1>5

LEMMA RegistryKept ==
  ASSUME UNCHANGED registryVars
  PROVE  (Fresh => Fresh') /\ (Rooted => Rooted') /\ (Applying => Applying') /\ (Ready => Ready')
BY DEF registryVars, Fresh, Registry!Init, Rooted, Applying, Ready, Declared, Configured

(* The next import is evaluated now, or was found in the cache. *)
LEMMA RequireNew ==
  ASSUME NEW rest \in Seq(Frame), NEW file \in DOMAIN Imports, NEW n \in Nat,
         stack = Append(rest, At(file, n)), Require,
         Imports[file][n] \in DOMAIN Imports \ required
  PROVE  /\ stack' = Append(Append(rest, At(file, n + 1)), At(Imports[file][n], 1))
         /\ required' = required \cup {Imports[file][n]}
BY RequireAt

LEMMA RequireCached ==
  ASSUME NEW rest \in Seq(Frame), NEW file \in DOMAIN Imports, NEW n \in Nat,
         stack = Append(rest, At(file, n)), Require,
         NEW next \in required, Imports[file][n] = next
  PROVE  stack' = Append(rest, At(file, n + 1)) /\ required' = required
<1> DEFINE found == Imports[file][n]
<1>1. found = next /\ found \in required
  OBVIOUS
<1>2. required' = required \cup {found} /\ stack' = Append(rest, At(file, n + 1))
  BY <1>1, RequireAt
<1> HIDE DEF found
<1>3. required \cup {found} = required
  BY <1>1
<1> QED BY <1>2, <1>3

(* The files that were evaluated when the walk gets to its next one. *)
LEMMA UpToFacts ==
  /\ {"main"} \cup {"app.module"} = UpToApp /\ "app.module" \notin {"main"}
  /\ UpToApp \cup {"Global"} = UpToGlobal /\ "Global" \notin UpToApp
  /\ UpToGlobal \cup {"datasource.option"} = UpToDataSource /\ "datasource.option" \notin UpToGlobal
  /\ UpToDataSource \cup {"AuthZ"} = UpToAuthZ /\ "AuthZ" \notin UpToDataSource
  /\ UpToAuthZ \cup {"Identity"} = UpToIdentity /\ "Identity" \notin UpToAuthZ
  /\ UpToIdentity \cup {"Users"} = UpToUsers /\ "Users" \notin UpToIdentity
  /\ UpToUsers \cup {"AuthN"} = UpToAuthN /\ "AuthN" \notin UpToUsers
  /\ UpToAuthN \cup {"Test"} = UpToTest /\ "Test" \notin UpToAuthN
  /\ "Users" \in UpToAuthN /\ "Users" \in UpToTest
BY DEF UpToApp, UpToGlobal, UpToDataSource, UpToAuthZ, UpToIdentity, UpToUsers, UpToAuthN, UpToTest

LEMMA NoneLeft ==
  ASSUME NEW rest \in Seq(Frame), NEW file \in DOMAIN Imports, NEW n \in Nat,
         ~(n <= Len(Imports[file])), Require
  PROVE  stack # Append(rest, At(file, n))
BY RequireAt

LEMMA RequireStep ==
  ASSUME Walk, Require
  PROVE  Walk'
<1> USE StacksTyped
<1> UNCHANGED registryVars
  BY DEF Require
<1>1. CASE Fresh /\ stack = Main(1) /\ required = {"main"}
  <2> DEFINE next == Imports["main"][1]
  <2>1. next = "app.module" /\ next \in DOMAIN Imports /\ "main" \in DOMAIN Imports
    BY ImportsOf
  <2>2. stack = Append(Bottom, At("main", 1)) /\ next \in DOMAIN Imports \ required
    BY <1>1, <2>1, UpToFacts DEF Main
  <2>3. /\ stack' = Append(Append(Bottom, At("main", 1 + 1)), At(next, 1))
        /\ required' = required \cup {next}
    BY <2>1, <2>2, RequireNew
  <2>4. stack' = App(1) /\ required' = UpToApp
    BY <1>1, <2>1, <2>3, UpToFacts DEF Main, App
  <2> QED BY <1>1, <2>4, RegistryKept DEF Walk
<1>2. CASE Fresh /\ stack = App(1) /\ required = UpToApp
  <2> DEFINE next == Imports["app.module"][1]
  <2>1. next = "Global" /\ next \in DOMAIN Imports /\ "app.module" \in DOMAIN Imports
    BY ImportsOf
  <2>2. stack = Append(Main(2), At("app.module", 1)) /\ next \in DOMAIN Imports \ required
    BY <1>2, <2>1, UpToFacts DEF App
  <2>3. /\ stack' = Append(Append(Main(2), At("app.module", 1 + 1)), At(next, 1))
        /\ required' = required \cup {next}
    BY <2>1, <2>2, RequireNew
  <2>4. stack' = Global(1) /\ required' = UpToGlobal
    BY <1>2, <2>1, <2>3, UpToFacts DEF App, Global
  <2> QED BY <1>2, <2>4, RegistryKept DEF Walk
<1>3. CASE Fresh /\ stack = Global(1) /\ required = UpToGlobal
  <2> DEFINE next == Imports["Global"][1]
  <2>1. next = "datasource.option" /\ next \in DOMAIN Imports /\ "Global" \in DOMAIN Imports
    BY ImportsOf
  <2>2. stack = Append(App(2), At("Global", 1)) /\ next \in DOMAIN Imports \ required
    BY <1>3, <2>1, UpToFacts DEF Global
  <2>3. /\ stack' = Append(Append(App(2), At("Global", 1 + 1)), At(next, 1))
        /\ required' = required \cup {next}
    BY <2>1, <2>2, RequireNew
  <2>4. stack' = DataSource /\ required' = UpToDataSource
    BY <1>3, <2>1, <2>3, UpToFacts DEF Global, DataSource
  <2> QED BY <1>3, <2>4, RegistryKept DEF Walk
<1>4. CASE Fresh /\ stack = Global(2) /\ required = UpToDataSource
  <2> DEFINE next == Imports["Global"][2]
  <2>1. next = "AuthZ" /\ next \in DOMAIN Imports /\ "Global" \in DOMAIN Imports
    BY ImportsOf
  <2>2. stack = Append(App(2), At("Global", 2)) /\ next \in DOMAIN Imports \ required
    BY <1>4, <2>1, UpToFacts DEF Global
  <2>3. /\ stack' = Append(Append(App(2), At("Global", 2 + 1)), At(next, 1))
        /\ required' = required \cup {next}
    BY <2>1, <2>2, RequireNew
  <2>4. stack' = AuthZ /\ required' = UpToAuthZ
    BY <1>4, <2>1, <2>3, UpToFacts DEF Global, AuthZ
  <2> QED BY <1>4, <2>4, RegistryKept DEF Walk
<1>5. CASE Rooted /\ stack = App(2) /\ required = UpToAuthZ
  <2> DEFINE next == Imports["app.module"][2]
  <2>1. next = "Identity" /\ next \in DOMAIN Imports /\ "app.module" \in DOMAIN Imports
    BY ImportsOf
  <2>2. stack = Append(Main(2), At("app.module", 2)) /\ next \in DOMAIN Imports \ required
    BY <1>5, <2>1, UpToFacts DEF App
  <2>3. /\ stack' = Append(Append(Main(2), At("app.module", 2 + 1)), At(next, 1))
        /\ required' = required \cup {next}
    BY <2>1, <2>2, RequireNew
  <2>4. stack' = Identity(1) /\ required' = UpToIdentity
    BY <1>5, <2>1, <2>3, UpToFacts DEF App, Identity
  <2> QED BY <1>5, <2>4, RegistryKept DEF Walk
<1>6. CASE Rooted /\ stack = Identity(1) /\ required = UpToIdentity
  <2> DEFINE next == Imports["Identity"][1]
  <2>1. next = "Users" /\ next \in DOMAIN Imports /\ "Identity" \in DOMAIN Imports
    BY ImportsOf
  <2>2. stack = Append(App(3), At("Identity", 1)) /\ next \in DOMAIN Imports \ required
    BY <1>6, <2>1, UpToFacts DEF Identity
  <2>3. /\ stack' = Append(Append(App(3), At("Identity", 1 + 1)), At(next, 1))
        /\ required' = required \cup {next}
    BY <2>1, <2>2, RequireNew
  <2>4. stack' = Users /\ required' = UpToUsers
    BY <1>6, <2>1, <2>3, UpToFacts DEF Identity, Users
  <2> QED BY <1>6, <2>4, RegistryKept DEF Walk
<1>7. CASE Ready /\ stack = Identity(2) /\ required = UpToUsers
  <2> DEFINE next == Imports["Identity"][2]
  <2>1. next = "AuthN" /\ next \in DOMAIN Imports /\ "Identity" \in DOMAIN Imports
    BY ImportsOf
  <2>2. stack = Append(App(3), At("Identity", 2)) /\ next \in DOMAIN Imports \ required
    BY <1>7, <2>1, UpToFacts DEF Identity
  <2>3. /\ stack' = Append(Append(App(3), At("Identity", 2 + 1)), At(next, 1))
        /\ required' = required \cup {next}
    BY <2>1, <2>2, RequireNew
  <2>4. stack' = AuthN(1) /\ required' = UpToAuthN
    BY <1>7, <2>1, <2>3, UpToFacts DEF Identity, AuthN
  <2> QED BY <1>7, <2>4, RegistryKept DEF Walk
<1>8. CASE Ready /\ stack = App(3) /\ required = UpToAuthN
  <2> DEFINE next == Imports["app.module"][3]
  <2>1. next = "Test" /\ next \in DOMAIN Imports /\ "app.module" \in DOMAIN Imports
    BY ImportsOf
  <2>2. stack = Append(Main(2), At("app.module", 3)) /\ next \in DOMAIN Imports \ required
    BY <1>8, <2>1, UpToFacts DEF App
  <2>3. /\ stack' = Append(Append(Main(2), At("app.module", 3 + 1)), At(next, 1))
        /\ required' = required \cup {next}
    BY <2>1, <2>2, RequireNew
  <2>4. stack' = Test(1) /\ required' = UpToTest
    BY <1>8, <2>1, <2>3, UpToFacts DEF App, Test
  <2> QED BY <1>8, <2>4, RegistryKept DEF Walk
<1>9. CASE Ready /\ stack = AuthN(1) /\ required = UpToAuthN
  <2>1. Imports["AuthN"][1] = "Users" /\ "AuthN" \in DOMAIN Imports
    BY ImportsOf
  <2>2. stack = Append(Identity(3), At("AuthN", 1)) /\ "Users" \in required
    BY <1>9, UpToFacts DEF AuthN
  <2>3. stack' = Append(Identity(3), At("AuthN", 1 + 1)) /\ required' = required
    BY <2>1, <2>2, RequireCached
  <2>4. stack' = AuthN(2) /\ required' = UpToAuthN
    BY <1>9, <2>3 DEF AuthN
  <2> QED BY <1>9, <2>4, RegistryKept DEF Walk
<1>10. CASE Ready /\ stack = Test(1) /\ required = UpToTest
  <2>1. Imports["Test"][1] = "Users" /\ "Test" \in DOMAIN Imports
    BY ImportsOf
  <2>2. stack = Append(App(4), At("Test", 1)) /\ "Users" \in required
    BY <1>10, UpToFacts DEF Test
  <2>3. stack' = Append(App(4), At("Test", 1 + 1)) /\ required' = required
    BY <2>1, <2>2, RequireCached
  <2>4. stack' = Test(2) /\ required' = UpToTest
    BY <1>10, <2>3 DEF Test
  <2> QED BY <1>10, <2>4, RegistryKept DEF Walk
<1>11. ASSUME NEW rest \in Seq(Frame), NEW top \in Frame, stack = Append(rest, top),
              ~(top.next <= Len(Imports[top.file]))
       PROVE  FALSE
  BY <1>11, TopIs DEF Require
<1>12. stack # DataSource
  <2>1. "datasource.option" \in DOMAIN Imports /\ ~(1 <= Len(Imports["datasource.option"]))
    BY ImportsOf
  <2> QED BY <2>1, NoneLeft DEF DataSource
<1>13. stack # AuthZ
  <2>1. "AuthZ" \in DOMAIN Imports /\ ~(1 <= Len(Imports["AuthZ"]))
    BY ImportsOf
  <2> QED BY <2>1, NoneLeft DEF AuthZ
<1>14. stack # Global(3)
  <2>1. "Global" \in DOMAIN Imports /\ ~(3 <= Len(Imports["Global"]))
    BY ImportsOf
  <2> QED BY <2>1, NoneLeft DEF Global
<1>15. stack # Users
  <2>1. "Users" \in DOMAIN Imports /\ ~(1 <= Len(Imports["Users"]))
    BY ImportsOf
  <2> QED BY <2>1, NoneLeft DEF Users
<1>16. stack # AuthN(2)
  <2>1. "AuthN" \in DOMAIN Imports /\ ~(2 <= Len(Imports["AuthN"]))
    BY ImportsOf
  <2> QED BY <2>1, NoneLeft DEF AuthN
<1>17. stack # Identity(3)
  <2>1. "Identity" \in DOMAIN Imports /\ ~(3 <= Len(Imports["Identity"]))
    BY ImportsOf
  <2> QED BY <2>1, NoneLeft DEF Identity
<1>18. stack # Test(2)
  <2>1. "Test" \in DOMAIN Imports /\ ~(2 <= Len(Imports["Test"]))
    BY ImportsOf
  <2> QED BY <2>1, NoneLeft DEF Test
<1>19. stack # App(4)
  <2>1. "app.module" \in DOMAIN Imports /\ ~(4 <= Len(Imports["app.module"]))
    BY ImportsOf
  <2> QED BY <2>1, NoneLeft DEF App
<1>20. stack # Main(2)
  <2>1. "main" \in DOMAIN Imports /\ ~(2 <= Len(Imports["main"]))
    BY ImportsOf
  <2> QED BY <2>1, NoneLeft DEF Main
<1>21. stack # UsersCalled
  <2> DEFINE called == [At("Users", 1) EXCEPT !.called = TRUE]
  <2>1. called \in Frame /\ called.file = "Users" /\ called.next = 1
    BY CalledTyped
  <2> HIDE DEF called
  <2>2. ~(called.next <= Len(Imports[called.file]))
    BY <2>1, ImportsOf
  <2> QED BY <1>11, <2>1, <2>2 DEF UsersCalled, called
<1> QED BY <1>1, <1>2, <1>3, <1>4, <1>5, <1>6, <1>7, <1>8, <1>9, <1>10, <1>12, <1>13, <1>14,
           <1>15, <1>16, <1>17, <1>18, <1>19, <1>20, <1>21 DEF Walk

(* The file on top has imports left: nothing but require() can happen. *)
LEMMA OnlyRequire ==
  ASSUME NEW rest \in Seq(Frame), NEW file \in DOMAIN Imports, NEW n \in Nat,
         stack = Append(rest, At(file, n)), n <= Len(Imports[file]),
         phase = "importing", ServerStep
  PROVE  Require
<1>1. Top = At(file, n) /\ ImportsLeft
  <2> DEFINE top == At(file, n)
  <2>1. top \in Frame /\ top.file = file /\ top.next = n /\ stack = Append(rest, top)
    BY AtTyped
  <2> HIDE DEF top
  <2>2. Top = top /\ ImportsLeft
    BY <2>1, TopIs
  <2> QED BY <2>2 DEF top
<1>2. \A other : ~AtBodyOf(other)
  BY <1>1 DEF AtBodyOf
<1>3. ~EvaluateDataSource /\ ~CallForRoot /\ ~CallForFeature /\ ~ForFeatureStep /\ ~EvaluateOther
  BY <1>2 DEF EvaluateDataSource, CallForRoot, CallForFeature, ForFeatureStep, EvaluateOther
<1>4. ~ValidateEnvironment /\ ~AttemptSucceeds /\ ~AttemptFails /\ ~Listen
  BY DEF ValidateEnvironment, AttemptSucceeds, AttemptFails, Listen
<1> QED BY <1>3, <1>4 DEF ServerStep

(* It has none left: its body runs. *)
LEMMA BodyAt ==
  ASSUME NEW rest \in Seq(Frame), NEW top \in Frame, stack = Append(rest, top),
         ~(top.next <= Len(Imports[top.file])), phase = "importing", ServerStep
  PROVE  /\ EvaluateDataSource \/ CallForRoot \/ CallForFeature \/ ForFeatureStep \/ EvaluateOther
         /\ \A other : AtBodyOf(other) => other = top.file
         /\ Top = top
         /\ Finished => stack' = rest
<1>1. Top = top /\ ~ImportsLeft /\ (Finished => stack' = rest)
  BY TopIs
<1>2. \A other : AtBodyOf(other) => other = top.file
  BY <1>1 DEF AtBodyOf
<1>3. ~Require
  BY <1>1 DEF Require
<1>4. ~ValidateEnvironment /\ ~AttemptSucceeds /\ ~AttemptFails /\ ~Listen
  BY DEF ValidateEnvironment, AttemptSucceeds, AttemptFails, Listen
<1> QED BY <1>1, <1>2, <1>3, <1>4 DEF ServerStep

(* The same of a file that has called nothing yet. *)
LEMMA BodyOf ==
  ASSUME NEW rest \in Seq(Frame), NEW file \in DOMAIN Imports, NEW n \in Nat,
         stack = Append(rest, At(file, n)), ~(n <= Len(Imports[file])),
         phase = "importing", ServerStep
  PROVE  /\ EvaluateDataSource \/ CallForRoot \/ CallForFeature \/ ForFeatureStep \/ EvaluateOther
         /\ \A other : AtBodyOf(other) => other = file
         /\ Top = At(file, n) /\ At(file, n) \in Frame
         /\ At(file, n).file = file /\ ~At(file, n).called
         /\ Finished => stack' = rest
<1> DEFINE top == At(file, n)
<1>1. /\ top \in Frame /\ top.file = file /\ top.next = n /\ ~top.called
      /\ stack = Append(rest, top)
  BY AtTyped
<1> HIDE DEF top
<1>2. /\ EvaluateDataSource \/ CallForRoot \/ CallForFeature \/ ForFeatureStep \/ EvaluateOther
      /\ \A other : AtBodyOf(other) => other = file
      /\ Top = top /\ (Finished => stack' = rest)
  BY <1>1, BodyAt
<1> QED BY <1>1, <1>2 DEF top

(* The body of a file that calls nothing. *)
LEMMA OtherBody ==
  ASSUME NEW rest \in Seq(Frame), NEW n \in Nat,
         NEW file \in DOMAIN Imports, file \notin {"datasource.option", "AuthZ", "Users"},
         stack = Append(rest, At(file, n)), ~(n <= Len(Imports[file])),
         phase = "importing", ServerStep
  PROVE  /\ stack' = rest /\ UNCHANGED <<registryVars, required, cause>>
         /\ phase' = IF file = "main" THEN "creating" ELSE "importing"
<1>1. /\ EvaluateDataSource \/ CallForRoot \/ CallForFeature \/ ForFeatureStep \/ EvaluateOther
      /\ \A other : AtBodyOf(other) => other = file
      /\ Top.file = file
      /\ Finished => stack' = rest
  BY BodyOf
<1>2. EvaluateOther
  BY <1>1 DEF EvaluateDataSource, CallForRoot, CallForFeature, ForFeatureStep
<1> QED BY <1>1, <1>2 DEF EvaluateOther

(* What a step of the walk comes to. *)
Walked ==
  \/ phase' = "importing" /\ Walk' /\ cause' = cause
  \/ phase' = "creating" /\ Ready' /\ cause' = cause
  \/ phase' = "stopped" /\ cause' # "registry"

LEMMA OthersStep ==
  ASSUME Walk, phase = "importing", ServerStep
  PROVE  /\ Rooted /\ stack = Global(3) /\ required = UpToAuthZ => Walked
         /\ Ready /\ stack = AuthN(2) /\ required = UpToAuthN => Walked
         /\ Ready /\ stack = Identity(3) /\ required = UpToAuthN => Walked
         /\ Ready /\ stack = Test(2) /\ required = UpToTest => Walked
         /\ Ready /\ stack = App(4) /\ required = UpToTest => Walked
         /\ Ready /\ stack = Main(2) /\ required = UpToTest => Walked
<1> USE StacksTyped
<1>1. ASSUME Rooted, stack = Global(3), required = UpToAuthZ PROVE Walked
  <2>1. /\ "Global" \in DOMAIN Imports /\ ~(3 <= Len(Imports["Global"]))
        /\ stack = Append(App(2), At("Global", 3))
    BY <1>1, ImportsOf DEF Global
  <2>2. /\ stack' = App(2) /\ UNCHANGED <<registryVars, required, cause>>
        /\ phase' = "importing"
    BY <2>1, OtherBody
  <2> QED BY <1>1, <2>2, RegistryKept DEF Walk, Walked
<1>2. ASSUME Ready, stack = AuthN(2), required = UpToAuthN PROVE Walked
  <2>1. /\ "AuthN" \in DOMAIN Imports /\ ~(2 <= Len(Imports["AuthN"]))
        /\ stack = Append(Identity(3), At("AuthN", 2))
    BY <1>2, ImportsOf DEF AuthN
  <2>2. /\ stack' = Identity(3) /\ UNCHANGED <<registryVars, required, cause>>
        /\ phase' = "importing"
    BY <2>1, OtherBody
  <2> QED BY <1>2, <2>2, RegistryKept DEF Walk, Walked
<1>3. ASSUME Ready, stack = Identity(3), required = UpToAuthN PROVE Walked
  <2>1. /\ "Identity" \in DOMAIN Imports /\ ~(3 <= Len(Imports["Identity"]))
        /\ stack = Append(App(3), At("Identity", 3))
    BY <1>3, ImportsOf DEF Identity
  <2>2. /\ stack' = App(3) /\ UNCHANGED <<registryVars, required, cause>>
        /\ phase' = "importing"
    BY <2>1, OtherBody
  <2> QED BY <1>3, <2>2, RegistryKept DEF Walk, Walked
<1>4. ASSUME Ready, stack = Test(2), required = UpToTest PROVE Walked
  <2>1. /\ "Test" \in DOMAIN Imports /\ ~(2 <= Len(Imports["Test"]))
        /\ stack = Append(App(4), At("Test", 2))
    BY <1>4, ImportsOf DEF Test
  <2>2. /\ stack' = App(4) /\ UNCHANGED <<registryVars, required, cause>>
        /\ phase' = "importing"
    BY <2>1, OtherBody
  <2> QED BY <1>4, <2>2, RegistryKept DEF Walk, Walked
<1>5. ASSUME Ready, stack = App(4), required = UpToTest PROVE Walked
  <2>1. /\ "app.module" \in DOMAIN Imports /\ ~(4 <= Len(Imports["app.module"]))
        /\ stack = Append(Main(2), At("app.module", 4))
    BY <1>5, ImportsOf DEF App
  <2>2. /\ stack' = Main(2) /\ UNCHANGED <<registryVars, required, cause>>
        /\ phase' = "importing"
    BY <2>1, OtherBody
  <2> QED BY <1>5, <2>2, RegistryKept DEF Walk, Walked
<1>6. ASSUME Ready, stack = Main(2), required = UpToTest PROVE Walked
  <2>1. /\ "main" \in DOMAIN Imports /\ ~(2 <= Len(Imports["main"]))
        /\ stack = Append(Bottom, At("main", 2))
    BY <1>6, ImportsOf DEF Main
  <2>2. /\ stack' = Bottom /\ UNCHANGED <<registryVars, required, cause>>
        /\ phase' = "creating"
    BY <2>1, OtherBody
  <2> QED BY <1>6, <2>2, RegistryKept DEF Walk, Walked
<1> QED BY <1>1, <1>2, <1>3, <1>4, <1>5, <1>6
-----------------------------------------------------------------------------
(* The calls of the registry. *)

LEMMA MarkersDiffer ==
  /\ \A role \in UserRoles : /\ role \notin {Blank, Invalid, Null, Absent}
                             /\ RolesDefinition[role] \notin {Blank, Invalid, Null, Absent}
  /\ {"application", "userId", "USER"} \cap {Blank, Invalid, Null, Absent} = {}
  /\ TRUE \notin {Invalid, Absent}
  /\ RolesDefinition # Invalid /\ {"USER"} # Invalid /\ {ActiveAccount} # Invalid
  /\ ActiveAccount # Invalid /\ UserDefinition \notin {Null, Absent} /\ FeatureOptions # Invalid
  /\ \A level \in DOMAIN UserAccessLevels : UserAccessLevels[level].fn # Invalid
  /\ \A priority \in 0..3 : priority # Invalid
  /\ Null # Absent
BY MarkersApart

LEMMA RootOptionFields ==
  /\ RootOptions.roles = RolesDefinition /\ DOMAIN RolesDefinition = UserRoles
  /\ RootOptions.default = DefaultRole /\ DefaultRole \in UserRoles
  /\ RootOptions.resources = {"USER"} /\ RootOptions.contextResolver = "application"
  /\ RootOptions.globalChecks = {ActiveAccount} /\ RootOptions.log = TRUE
  /\ RootOptions.authNException = "application" /\ RootOptions.authZException = "application"
  /\ RootOptions.logger = "application"
BY DEF RootOptions, RolesDefinition, DefaultRole, UserRoles

(* The options of the application pass every check of InitRegistry. *)
LEMMA RootOptionsAccepted ==
  ASSUME Fresh
  PROVE  /\ Registry!ValidRootOptions(RootOptions)
         /\ Registry!GoodRoles(RootOptions) = UserRoles
         /\ Registry!GoodResources(RootOptions) = {"USER"}
         /\ Registry!FailingSteps(RootOptions) = {}
<1> USE RootOptionFields, MarkersDiffer
<1> HIDE DEF RootOptions, RolesDefinition, ActiveAccount
<1>1. Registry!ValidRootOptions(RootOptions)
  BY DEF Registry!ValidRootOptions
<1>2. Registry!GoodRoles(RootOptions) = UserRoles
  BY DEF Registry!GoodRoles
<1>3. Registry!RegisteredResources = {}
  BY DEF Registry!RegisteredResources, Fresh, Registry!Init
<1>4. Registry!GoodResources(RootOptions) = {"USER"}
  BY <1>3 DEF Registry!GoodResources
<1>5. \A step \in 1..8 : step \notin Registry!FailingSteps(RootOptions)
  BY <1>2, <1>4 DEF Registry!FailingSteps
<1>6. Registry!FailingSteps(RootOptions) \subseteq 1..8
  BY DEF Registry!FailingSteps
<1> QED BY <1>1, <1>2, <1>4, <1>5, <1>6

LEMMA ForRoot ==
  ASSUME Fresh, Registry!InitRegistry(RootOptions)
  PROVE  Rooted' /\ outcome'.error = "none"
<1> USE RootOptionFields, MarkersDiffer
<1>1. /\ Registry!Returned("InitRegistry") /\ Registry!ApplyRootOptions(RootOptions, 9)
      /\ feature' = feature
  BY RootOptionsAccepted DEF Registry!InitRegistry
<1>2. outcome'.error = "none"
  BY <1>1 DEF Registry!Returned, Registry!Threw
<1>3. PICK keys \in SUBSET UserRoles, names \in SUBSET {"USER"} :
        /\ keys = UserRoles /\ names = {"USER"}
        /\ rolesDefinitions' = Registry!WithRoles(RolesDefinition, keys)
        /\ resourcesByRole' = Registry!WithEmptyIndex(keys)
        /\ resourcesDefinitions' =
             [r \in {"USER"} |-> IF r \in names THEN Null ELSE resourcesDefinitions[r]]
  BY <1>1, RootOptionsAccepted DEF Registry!ApplyRootOptions
<1>4. rolesDefinitions' = [role \in UserRoles |-> RolesDefinition[role]]
  BY <1>3 DEF Registry!WithRoles, Fresh, Registry!Init
<1>5. rolesDefinitions' = RolesDefinition
  BY <1>4 DEF RolesDefinition
<1>6. resourcesByRole' = [role \in UserRoles |-> {}]
  BY <1>3 DEF Registry!WithEmptyIndex, Registry!RegisteredRoles, Fresh, Registry!Init
<1>7. resourcesDefinitions' = [resource \in {"USER"} |-> Null]
  BY <1>3
<1>8. defaultRole' = DefaultRole /\ globalChecks' = {ActiveAccount}
  BY <1>1 DEF Registry!ApplyRootOptions, Fresh, Registry!Init
<1>9. settings' = [log |-> TRUE, logger |-> "application", authNException |-> "application",
                   authZException |-> "application"]
  <2>1. settings' = [log |-> Registry!Given(RootOptions.log, settings.log),
                     authNException |-> Registry!Given(RootOptions.authNException,
                                                       settings.authNException),
                     authZException |-> Registry!Given(RootOptions.authZException,
                                                       settings.authZException),
                     logger |-> Registry!Given(RootOptions.logger, settings.logger)]
    <3> DEFINE o == RootOptions
    <3>1. Registry!ApplyRootOptions(o, 9)
      BY <1>1
    <3> HIDE DEF o
    <3>2. settings' = [log |-> Registry!Given(o.log, settings.log),
                       authNException |-> Registry!Given(o.authNException,
                                                         settings.authNException),
                       authZException |-> Registry!Given(o.authZException,
                                                         settings.authZException),
                       logger |-> Registry!Given(o.logger, settings.logger)]
      BY <3>1 DEF Registry!ApplyRootOptions
    <3> QED BY <3>2 DEF o
  <2>2. \A given, current : given # Absent => Registry!Given(given, current) = given
    BY DEF Registry!Given
  <2>3. RootOptions.log # Absent /\ "application" # Absent
    OBVIOUS
  <2>4. Registry!Given(RootOptions.log, settings.log) = RootOptions.log
    BY <2>2, <2>3
  <2>5. \A current : Registry!Given("application", current) = "application"
    BY <2>2, <2>3
  <2> QED BY <2>1, <2>4, <2>5
<1>10. feature' = [resources |-> <<>>, next |-> 1]
  BY <1>1 DEF Fresh, Registry!Init
<1> QED BY <1>2, <1>5, <1>6, <1>7, <1>8, <1>9, <1>10 DEF Rooted, Declared, Configured

LEMMA ForFeatureCalled ==
  ASSUME Rooted, Registry!InitResources(FeatureOptions)
  PROVE  Applying' /\ outcome'.error = "none"
<1>1. /\ outcome' = [call |-> "InitResources", error |-> "none", found |-> resourcesDefinitions]
      /\ feature' = [resources |-> FeatureOptions, next |-> 1]
      /\ UNCHANGED <<Registry!tables, Registry!config>>
  BY MarkersDiffer DEF Registry!InitResources, Registry!Returned, Registry!Threw
<1>2. Configured' /\ Declared'
  BY <1>1 DEF Registry!tables, Registry!config, Rooted, Declared, Configured
<1> QED BY <1>1, <1>2 DEF Applying, Rooted, Declared

LEMMA FeatureIdle ==
  /\ Applying => ~Registry!Idle /\ feature.resources[feature.next] = FeatureOptions[1]
  /\ Ready => Registry!Idle
<1>1. Len(FeatureOptions) = 1
  BY DEF FeatureOptions
<1>2. ASSUME Applying PROVE ~Registry!Idle /\ feature.resources[feature.next] = FeatureOptions[1]
  <2>1. feature.next = 1 /\ feature.resources = FeatureOptions
    BY <1>2 DEF Applying
  <2> QED BY <2>1, <1>1 DEF Registry!Idle
<1>3. ASSUME Ready PROVE Registry!Idle
  <2>1. feature.next = 2 /\ feature.resources = FeatureOptions
    BY <1>3 DEF Ready
  <2> QED BY <2>1, <1>1 DEF Registry!Idle
<1> QED BY <1>2, <1>3

(* The USER definition passes every check of addResource. *)
LEMMA PermissionsValid ==
  ASSUME NEW role \in UserRoles
  PROVE  Registry!ValidPermissions(UserDefinition, role)
<1> DEFINE given == UserPermissions(role)
<1>1. /\ UserDefinition.roles[role] = [permissions |-> given, relationships |-> {"OWNER"}]
      /\ UserDefinition.actions = UserActions /\ UserDefinition.relationships = {"OWNER"}
      /\ UserDefinition.accessLevels = UserAccessLevels
  BY DEF UserDefinition
<1>2. DOMAIN UserAccessLevels = {"ALL", "ALL_RANK", "OWN", "ASSIGNED"}
  BY DEF UserAccessLevels
<1>3. DOMAIN given \subseteq UserActions
  BY DEF UserPermissions, UserActions, UserRoles
<1>4. \A action \in DOMAIN given :
        given[action] \in {<<"ALL">>, <<"ALL_RANK">>, <<"ASSIGNED">>, <<"ASSIGNED", "OWN">>,
                          <<"OWN">>}
  BY DEF UserPermissions, UserActions, UserRoles
<1>5. \A list \in {<<"ALL">>, <<"ALL_RANK">>, <<"ASSIGNED">>, <<"ASSIGNED", "OWN">>, <<"OWN">>} :
        Registry!Elements(list) \subseteq DOMAIN UserAccessLevels
  BY <1>2 DEF Registry!Elements
<1> HIDE DEF given
<1> QED BY <1>1, <1>3, <1>4, <1>5 DEF Registry!ValidPermissions

LEMMA UserDefinitionAccepted ==
  ASSUME Applying
  PROVE  /\ Registry!ValidComponents(UserDefinition)
         /\ DOMAIN UserDefinition.roles = UserRoles
         /\ Registry!AcceptedRoles(UserDefinition) = UserRoles
<1>1. Registry!ValidComponents(UserDefinition)
  <2>1. UserDefinition.identifier = "userId" /\ UserDefinition.accessLevels = UserAccessLevels
    BY DEF UserDefinition
  <2>2. \A level \in DOMAIN UserAccessLevels : UserAccessLevels[level].priority \in 0..3
    BY DEF UserAccessLevels
  <2> QED BY <2>1, <2>2, MarkersDiffer DEF Registry!ValidComponents
<1>2. DOMAIN UserDefinition.roles = UserRoles
  BY DEF UserDefinition
<1>3. \A role \in UserRoles : role \in Registry!RegisteredRoles
  BY MarkersDiffer DEF Registry!RegisteredRoles, Applying, Declared, Configured
<1>4. Registry!AcceptedRoles(UserDefinition) = UserRoles
  BY <1>2, <1>3, PermissionsValid DEF Registry!AcceptedRoles
<1> QED BY <1>1, <1>2, <1>4

LEMMA ForFeatureApplied ==
  ASSUME Applying, Registry!InitResourcesStep
  PROVE  Ready' /\ outcome'.error = "none"
<1> DEFINE entry == feature.resources[feature.next]
<1>1. entry.name = "USER" /\ entry.definition = UserDefinition
  <2>1. entry = FeatureOptions[1]
    BY FeatureIdle
  <2>2. FeatureOptions[1] = [name |-> "USER", definition |-> UserDefinition]
    BY DEF FeatureOptions
  <2> QED BY <2>1, <2>2
<1>2. PICK error \in Registry!Errors :
        /\ Registry!AddResourceBody(entry.name, entry.definition, error)
        /\ outcome' = [outcome EXCEPT !.error = error]
        /\ feature' = IF error = "none" THEN [feature EXCEPT !.next = @ + 1]
                      ELSE [feature EXCEPT !.resources = SubSeq(@, 1, feature.next - 1)]
  BY DEF Registry!InitResourcesStep
<1>3. Registry!AddResourceBody("USER", UserDefinition, error)
  BY <1>1, <1>2
<1>4. "USER" # Blank /\ UserDefinition # Null /\ "USER" \in Registry!RegisteredResources
  <2>1. "USER" # Blank /\ UserDefinition # Null /\ Null # Absent
    BY MarkersDiffer
  <2>2. resourcesDefinitions = [resource \in {"USER"} |-> Null]
    BY DEF Applying, Declared
  <2> QED BY <2>1, <2>2 DEF Registry!RegisteredResources
<1>5. Registry!ValidateAndRegister("USER", UserDefinition, error)
  BY <1>3, <1>4 DEF Registry!AddResourceBody
<1>6. /\ error = "none"
      /\ resourcesByRole' = Registry!Indexed(UserRoles, "USER")
      /\ resourcesDefinitions' = [resourcesDefinitions EXCEPT !["USER"] = UserDefinition]
  BY <1>5, UserDefinitionAccepted DEF Registry!ValidateAndRegister
<1>7. outcome'.error = "none"
  BY <1>2, <1>6 DEF Applying
<1>8. resourcesByRole' = [role \in UserRoles |-> {"USER"}]
  BY <1>6 DEF Registry!Indexed, Applying, Declared
<1>9. resourcesDefinitions' = [resource \in {"USER"} |-> UserDefinition]
  <2>1. resourcesDefinitions = [resource \in {"USER"} |-> Null]
    BY DEF Applying, Declared
  <2> QED BY <1>6, <2>1
<1>10. feature' = [resources |-> FeatureOptions, next |-> 2]
  BY <1>2, <1>6 DEF Applying
<1>11. Configured'
  BY DEF Registry!InitResourcesStep, Registry!config, Applying, Declared, Configured
<1> QED BY <1>7, <1>8, <1>9, <1>10, <1>11 DEF Ready

-----------------------------------------------------------------------------
(* The bodies that call something, each at its place of the walk. *)

LEMMA DataSourceStep ==
  ASSUME Fresh, stack = DataSource, required = UpToDataSource, phase = "importing", ServerStep
  PROVE  Walked
<1>1. /\ Global(2) \in Seq(Frame) /\ stack = Append(Global(2), At("datasource.option", 1))
      /\ "datasource.option" \in DOMAIN Imports /\ ~(1 <= Len(Imports["datasource.option"]))
  BY StacksTyped, ImportsOf DEF DataSource
<1>2. /\ EvaluateDataSource \/ CallForRoot \/ CallForFeature \/ ForFeatureStep \/ EvaluateOther
      /\ \A other : AtBodyOf(other) => other = "datasource.option"
      /\ Finished => stack' = Global(2)
  BY <1>1, BodyOf
<1>3. EvaluateDataSource
  BY <1>2 DEF CallForRoot, CallForFeature, ForFeatureStep, EvaluateOther
<1>4. /\ Fresh' /\ required' = UpToDataSource
      /\ \/ phase' = "stopped" /\ cause' = "environment"
         \/ stack' = Global(2) /\ phase' = phase /\ cause' = cause
  BY <1>2, <1>3, RegistryKept DEF EvaluateDataSource, Stops
<1> QED BY <1>4 DEF Walked, Walk

LEMMA AuthZStep ==
  ASSUME Fresh, stack = AuthZ, required = UpToAuthZ, phase = "importing", ServerStep
  PROVE  Walked
<1>1. /\ Global(3) \in Seq(Frame) /\ stack = Append(Global(3), At("AuthZ", 1))
      /\ "AuthZ" \in DOMAIN Imports /\ ~(1 <= Len(Imports["AuthZ"]))
  BY StacksTyped, ImportsOf DEF AuthZ
<1>2. /\ EvaluateDataSource \/ CallForRoot \/ CallForFeature \/ ForFeatureStep \/ EvaluateOther
      /\ \A other : AtBodyOf(other) => other = "AuthZ"
      /\ Finished => stack' = Global(3)
  BY <1>1, BodyOf
<1>3. CallForRoot
  BY <1>2 DEF EvaluateDataSource, CallForFeature, ForFeatureStep, EvaluateOther
<1>4. Rooted' /\ outcome'.error = "none"
  BY <1>3, ForRoot DEF CallForRoot
<1>5. stack' = Global(3) /\ required' = UpToAuthZ /\ phase' = phase /\ cause' = cause
  BY <1>2, <1>3, <1>4 DEF CallForRoot, GoesOnUnlessThrown
<1> QED BY <1>4, <1>5 DEF Walked, Walk

LEMMA UsersStep ==
  ASSUME Rooted, stack = Users, required = UpToUsers, phase = "importing", ServerStep
  PROVE  Walked
<1> DEFINE top == At("Users", 1)
<1>1. /\ Identity(2) \in Seq(Frame) /\ stack = Append(Identity(2), top)
      /\ "Users" \in DOMAIN Imports /\ ~(1 <= Len(Imports["Users"]))
  BY StacksTyped, ImportsOf DEF Users
<1>2. /\ EvaluateDataSource \/ CallForRoot \/ CallForFeature \/ ForFeatureStep \/ EvaluateOther
      /\ \A other : AtBodyOf(other) => other = "Users"
      /\ Top = top /\ ~top.called /\ top.file = "Users" /\ top \in Frame
  BY <1>1, BodyOf
<1> HIDE DEF top
<1>3. CallForFeature
  BY <1>2 DEF EvaluateDataSource, CallForRoot, ForFeatureStep, EvaluateOther
<1>4. Applying' /\ outcome'.error = "none"
  BY <1>3, ForFeatureCalled DEF CallForFeature
<1>5. /\ stack' = [stack EXCEPT ![Len(stack)].called = TRUE]
      /\ required' = UpToUsers /\ phase' = phase /\ cause' = cause
  BY <1>3, <1>4 DEF CallForFeature, GoesOnUnlessThrown
<1>6. stack' = UsersCalled
  <2> DEFINE called == [top EXCEPT !.called = TRUE]
  <2>1. called \in Frame
    BY <1>2, FrameCalled
  <2>2. stack' = [stack EXCEPT ![Len(stack)] = called]
    BY <1>2, <1>5 DEF Top
  <2> HIDE DEF called
  <2>3. \A list : list = Append(Identity(2), top)
                    => [list EXCEPT ![Len(list)] = called] = Append(Identity(2), called)
    BY <1>1, <1>2, <2>1, OnTop
  <2> QED BY <1>1, <2>2, <2>3 DEF UsersCalled, called, top
<1> QED BY <1>4, <1>5, <1>6 DEF Walked, Walk

LEMMA UsersCalledStep ==
  ASSUME Applying \/ Ready, stack = UsersCalled, required = UpToUsers,
         phase = "importing", ServerStep
  PROVE  Walked
<1> DEFINE top == [At("Users", 1) EXCEPT !.called = TRUE]
<1>1. /\ Identity(2) \in Seq(Frame) /\ stack = Append(Identity(2), top)
      /\ top \in Frame /\ top.file = "Users" /\ top.next = 1 /\ top.called
      /\ "Users" \in DOMAIN Imports /\ ~(1 <= Len(Imports["Users"]))
  BY StacksTyped, ImportsOf, CalledTyped DEF UsersCalled
<1> HIDE DEF top
<1>2. /\ EvaluateDataSource \/ CallForRoot \/ CallForFeature \/ ForFeatureStep \/ EvaluateOther
      /\ \A other : AtBodyOf(other) => other = "Users"
      /\ Top = top /\ (Finished => stack' = Identity(2))
  BY <1>1, BodyAt
<1>3. ForFeatureStep \/ EvaluateOther
  BY <1>1, <1>2 DEF EvaluateDataSource, CallForRoot, CallForFeature
<1>4. CASE Applying
  <2>1. ForFeatureStep
    BY <1>1, <1>2, <1>3, <1>4, FeatureIdle DEF EvaluateOther
  <2>2. Ready' /\ outcome'.error = "none"
    BY <1>4, <2>1, ForFeatureApplied DEF ForFeatureStep
  <2>3. stack' = stack /\ required' = UpToUsers /\ phase' = phase /\ cause' = cause
    BY <2>1, <2>2 DEF ForFeatureStep, GoesOnUnlessThrown
  <2> QED BY <2>2, <2>3 DEF Walked, Walk
<1>5. CASE Ready
  <2>1. EvaluateOther
    BY <1>3, <1>5, FeatureIdle DEF ForFeatureStep, Registry!InitResourcesStep
  <2>2. /\ Ready' /\ stack' = Identity(2) /\ required' = UpToUsers
        /\ phase' = phase /\ cause' = cause
    BY <1>1, <1>2, <1>5, <2>1, RegistryKept DEF EvaluateOther
  <2> QED BY <2>2 DEF Walked, Walk
<1> QED BY <1>4, <1>5

(* Where imports are left, only require() can happen. *)
LEMMA ImportsLeftStep ==
  ASSUME phase = "importing", ServerStep,
         NEW place \in {Main(1), App(1), Global(1), Global(2), App(2),
                        Identity(1), Identity(2), AuthN(1), App(3), Test(1)},
         stack = place
  PROVE  Require
<1> USE StacksTyped
<1>1. CASE place = Main(1)
  <2>1. /\ "main" \in DOMAIN Imports /\ 1 <= Len(Imports["main"])
        /\ stack = Append(Bottom, At("main", 1))
    BY <1>1, ImportsOf DEF Main
  <2> QED BY <2>1, OnlyRequire
<1>2. CASE place = App(1)
  <2>1. /\ "app.module" \in DOMAIN Imports /\ 1 <= Len(Imports["app.module"])
        /\ stack = Append(Main(2), At("app.module", 1))
    BY <1>2, ImportsOf DEF App
  <2> QED BY <2>1, OnlyRequire
<1>3. CASE place = Global(1)
  <2>1. /\ "Global" \in DOMAIN Imports /\ 1 <= Len(Imports["Global"])
        /\ stack = Append(App(2), At("Global", 1))
    BY <1>3, ImportsOf DEF Global
  <2> QED BY <2>1, OnlyRequire
<1>4. CASE place = Global(2)
  <2>1. /\ "Global" \in DOMAIN Imports /\ 2 <= Len(Imports["Global"])
        /\ stack = Append(App(2), At("Global", 2))
    BY <1>4, ImportsOf DEF Global
  <2> QED BY <2>1, OnlyRequire
<1>5. CASE place = App(2)
  <2>1. /\ "app.module" \in DOMAIN Imports /\ 2 <= Len(Imports["app.module"])
        /\ stack = Append(Main(2), At("app.module", 2))
    BY <1>5, ImportsOf DEF App
  <2> QED BY <2>1, OnlyRequire
<1>6. CASE place = Identity(1)
  <2>1. /\ "Identity" \in DOMAIN Imports /\ 1 <= Len(Imports["Identity"])
        /\ stack = Append(App(3), At("Identity", 1))
    BY <1>6, ImportsOf DEF Identity
  <2> QED BY <2>1, OnlyRequire
<1>7. CASE place = Identity(2)
  <2>1. /\ "Identity" \in DOMAIN Imports /\ 2 <= Len(Imports["Identity"])
        /\ stack = Append(App(3), At("Identity", 2))
    BY <1>7, ImportsOf DEF Identity
  <2> QED BY <2>1, OnlyRequire
<1>8. CASE place = AuthN(1)
  <2>1. /\ "AuthN" \in DOMAIN Imports /\ 1 <= Len(Imports["AuthN"])
        /\ stack = Append(Identity(3), At("AuthN", 1))
    BY <1>8, ImportsOf DEF AuthN
  <2> QED BY <2>1, OnlyRequire
<1>9. CASE place = App(3)
  <2>1. /\ "app.module" \in DOMAIN Imports /\ 3 <= Len(Imports["app.module"])
        /\ stack = Append(Main(2), At("app.module", 3))
    BY <1>9, ImportsOf DEF App
  <2> QED BY <2>1, OnlyRequire
<1>10. CASE place = Test(1)
  <2>1. /\ "Test" \in DOMAIN Imports /\ 1 <= Len(Imports["Test"])
        /\ stack = Append(App(4), At("Test", 1))
    BY <1>10, ImportsOf DEF Test
  <2> QED BY <2>1, OnlyRequire
<1> QED BY <1>1, <1>2, <1>3, <1>4, <1>5, <1>6, <1>7, <1>8, <1>9, <1>10

LEMMA WalkStep ==
  ASSUME Walk, phase = "importing", ServerStep
  PROVE  Walked
<1>1. CASE Require
  BY <1>1, RequireStep DEF Require, Walked
<1>2. CASE ~Require
  <2>1. stack \notin {Main(1), App(1), Global(1), Global(2), App(2), Identity(1), Identity(2),
                      AuthN(1), App(3), Test(1)}
    BY <1>2, ImportsLeftStep
  <2> QED BY <2>1, OthersStep, DataSourceStep, AuthZStep, UsersStep, UsersCalledStep DEF Walk
<1> QED BY <1>1, <1>2

-----------------------------------------------------------------------------
(* The invariant. *)

LEMMA InitWalks == Init => BootInv
<1> SUFFICES ASSUME Init PROVE BootInv
  OBVIOUS
<1>1. Main(1) = <<Evaluating("main")>>
  BY DEF Main, Bottom, At, Evaluating
<1> QED BY <1>1 DEF Init, BootInv, Walk, Fresh

(* The steps of bootstrap(), and the end of the process. *)
LEMMA BootstrapStep ==
  ASSUME BootInv,
         ValidateEnvironment \/ AttemptSucceeds \/ AttemptFails \/ Listen \/ Kill
  PROVE  BootInv'
<1> UNCHANGED <<registryVars, env>>
  BY DEF ValidateEnvironment, AttemptSucceeds, AttemptFails, Listen, Kill
<1>0. /\ Ready => Ready'
      /\ RefusedVariables(env) = {} => (RefusedVariables(env) = {})'
  BY RegistryKept DEF RefusedVariables, RefusedApiVariables
<1>1. CASE ValidateEnvironment
  BY <1>0, <1>1 DEF ValidateEnvironment, Stops, BootInv
<1>2. CASE AttemptSucceeds
  BY <1>0, <1>2 DEF AttemptSucceeds, BootInv
<1>3. CASE AttemptFails
  BY <1>0, <1>3 DEF AttemptFails, Stops, BootInv
<1>4. CASE Listen
  BY <1>0, <1>4 DEF Listen, Stops, BootInv
<1>5. CASE Kill
  BY <1>5 DEF Kill, Stops, BootInv
<1> QED BY <1>1, <1>2, <1>3, <1>4, <1>5

LEMMA StepWalks == BootInv /\ [Next]_vars => BootInv'
<1> SUFFICES ASSUME BootInv, [Next]_vars PROVE BootInv'
  OBVIOUS
<1>1. CASE ValidateEnvironment \/ AttemptSucceeds \/ AttemptFails \/ Listen \/ Kill
  BY <1>1, BootstrapStep
<1>2. CASE ServerStep /\ ~(ValidateEnvironment \/ AttemptSucceeds \/ AttemptFails \/ Listen)
  <2>1. phase = "importing"
    BY <1>2 DEF ServerStep, Require, EvaluateDataSource, CallForRoot, CallForFeature,
                ForFeatureStep, EvaluateOther, AtBodyOf
  <2>2. Walked
    BY <1>2, <2>1, WalkStep DEF BootInv
  <2> QED BY <2>2 DEF Walked, BootInv
<1>3. CASE UNCHANGED vars
  <2>1. UNCHANGED <<registryVars, env, stack, required, phase, cause, schema>>
    BY <1>3 DEF vars, processVars
  <2>2. Walk => Walk'
    BY <2>1, RegistryKept DEF Walk
  <2>3. Ready => Ready'
    BY <2>1, RegistryKept
  <2>4. RefusedVariables(env) = {} => (RefusedVariables(env) = {})'
    BY <2>1 DEF RefusedVariables, RefusedApiVariables
  <2> QED BY <2>1, <2>2, <2>3, <2>4 DEF BootInv
<1> QED BY <1>1, <1>2, <1>3 DEF Next, ServerStep

LEMMA BootInvHolds == Spec => []BootInv
<1>1. Init => BootInv
  BY InitWalks
<1>2. BootInv /\ [Next]_vars => BootInv'
  BY StepWalks
<1> QED BY <1>1, <1>2, PTL DEF Spec

-----------------------------------------------------------------------------
(* The attempts to connect. *)

(* Validation and the data source agree on the number of attempts. *)
LEMMA ReadersAgree ==
  ASSUME NEW e \in Environments, RefusedVariables(e) = {}
  PROVE  LET accepted == e["DB_RETRY_ATTEMPTS"]
         IN  accepted \in Nat /\ 0 < accepted /\ RetryAttempts(e) = accepted
<1> DEFINE accepted == e["DB_RETRY_ATTEMPTS"]
<1>1. "DB_RETRY_ATTEMPTS" \in DOMAIN LeastNumber /\ LeastNumber["DB_RETRY_ATTEMPTS"] = 1
  BY DEF LeastNumber
<1>2. ~NoNumber(accepted, 1)
  BY <1>1 DEF RefusedVariables
<1> HIDE DEF accepted
<1>3. accepted \in Nat \cup {Missing, Invalid, Blank}
  BY EnvironmentsTyped DEF accepted
<1>4. accepted \notin {Missing, Invalid, Blank} /\ accepted \in Nat /\ 0 < accepted
  BY <1>2, <1>3 DEF NoNumber
<1>5. RetryAttempts(e) = accepted
  BY <1>4 DEF RetryAttempts, accepted
<1> QED BY <1>4, <1>5 DEF accepted

LEMMA AttemptsStep == AttemptsInv /\ [Next]_vars => AttemptsInv'
<1> SUFFICES ASSUME AttemptsInv, [Next]_vars PROVE AttemptsInv'
  OBVIOUS
<1> DEFINE accepted == env["DB_RETRY_ATTEMPTS"]
<1>0. env' = env /\ env \in Environments /\ RetryAttempts(env)' = RetryAttempts(env)
  BY DEF Next, ServerStep, Require, EvaluateDataSource, CallForRoot, CallForFeature,
         ForFeatureStep, EvaluateOther, ValidateEnvironment, AttemptSucceeds, AttemptFails,
         Listen, Kill, vars, processVars, AttemptsInv, RetryAttempts
<1>1. CASE Require \/ EvaluateDataSource \/ CallForRoot \/ CallForFeature \/ ForFeatureStep
           \/ EvaluateOther
  <2>1. phase = "importing" /\ failures' = failures
    BY <1>1 DEF Require, EvaluateDataSource, CallForRoot, CallForFeature, ForFeatureStep,
                EvaluateOther, AtBodyOf
  <2>2. \/ phase' \in {"importing", "creating"} /\ cause' = cause
        \/ phase' = "stopped" /\ cause' \in {"environment", "registry"}
    BY <1>1, <2>1 DEF Require, EvaluateDataSource, CallForRoot, CallForFeature,
                      ForFeatureStep, EvaluateOther, GoesOnUnlessThrown, Stops
  <2> QED BY <1>0, <2>1, <2>2 DEF AttemptsInv
<1>2. CASE ValidateEnvironment
  <2>1. CASE RefusedVariables(env) = {}
    BY <1>0, <1>2, <2>1, ReadersAgree DEF ValidateEnvironment, AttemptsInv
  <2>2. CASE RefusedVariables(env) # {}
    BY <1>0, <1>2, <2>2 DEF ValidateEnvironment, Stops, AttemptsInv
  <2> QED BY <2>1, <2>2
<1>3. CASE AttemptSucceeds
  BY <1>0, <1>3 DEF AttemptSucceeds, AttemptsInv
<1>4. CASE AttemptFails
  <2>1. /\ accepted \in Nat /\ RetryAttempts(env) = accepted
        /\ failures \in Nat /\ failures < accepted /\ failures' = failures + 1
    BY <1>4 DEF AttemptFails, AttemptsInv
  <2>2. CASE failures + 1 >= accepted
    <3>1. failures' = accepted
      BY <2>1, <2>2
    <3> QED BY <1>0, <1>4, <2>1, <2>2, <3>1 DEF AttemptFails, Stops, AttemptsInv
  <2>3. CASE ~(failures + 1 >= accepted)
    <3>1. failures' \in Nat /\ failures' < accepted
      BY <2>1, <2>3
    <3> QED BY <1>0, <1>4, <2>1, <2>3, <3>1 DEF AttemptFails, AttemptsInv
  <2> QED BY <2>2, <2>3
<1>5. CASE Listen \/ Kill
  BY <1>0, <1>5 DEF Listen, Kill, Stops, AttemptsInv
<1>6. CASE UNCHANGED vars
  BY <1>0, <1>6 DEF vars, processVars, AttemptsInv
<1> QED BY <1>1, <1>2, <1>3, <1>4, <1>5, <1>6 DEF Next, ServerStep

-----------------------------------------------------------------------------
(* The results. *)

(* While the server listens, the registry is what forRoot and forFeature make  *)
(* of the application's own options, whatever the environment, the attempts to *)
(* connect and the users: what the models of requests take for granted.        *)
THEOREM ListensWithRegistryCorrect == Spec => []ListensWithRegistry
<1>1. BootInv => ListensWithRegistry
  BY DEF BootInv, Ready, Configured, ListensWithRegistry, UserRegistry
<1> QED BY <1>1, BootInvHolds, PTL

(* Whatever the environment, a start that gives up on the database has made as *)
(* many attempts as validation accepted, and one that listens failed fewer:     *)
(* validation refuses every text of DB_RETRY_ATTEMPTS for which the data source *)
(* would fall back to its own three.                                            *)
THEOREM AcceptedAttemptsCorrect == Spec => []AcceptedAttemptsMade
<1>1. Init => AttemptsInv
  BY DEF Init, AttemptsInv
<1>2. AttemptsInv /\ [Next]_vars => AttemptsInv'
  BY AttemptsStep
<1>3. AttemptsInv => AcceptedAttemptsMade
  BY DEF AttemptsInv, AcceptedAttemptsMade
<1> QED BY <1>1, <1>2, <1>3, PTL DEF Spec

(* No start fails over the registry: in the order in which the files are       *)
(* evaluated, forRoot has declared the resource and the roles by the time       *)
(* forFeature defines them, and the options pass every check.                  *)
THEOREM NeverStopsCorrect == Spec => []NeverStopsOverRegistry
<1>1. BootInv => NeverStopsOverRegistry
  BY DEF BootInv, NeverStopsOverRegistry
<1> QED BY <1>1, BootInvHolds, PTL

-----------------------------------------------------------------------------
(* The ranks, compared as text. *)

LEMMA RanksAreDigits ==
  \A rank \in Ranks : rank \in 0..3 /\ RankText(rank) = <<rank>>
<1>1. \A rank \in Ranks : rank \in 0..3
  BY DEF Ranks, RankOf, UserRoles
<1>2. \A rank \in 0..3 : RankText(rank) = <<rank>>
  BY DEF RankText
<1> QED BY <1>1, <1>2

(* Of texts of one character, the comparison is that of the characters. *)
LEMMA DigitsCompare ==
  ASSUME NEW m \in Nat, NEW n \in Nat
  PROVE  TextAtMost(<<m>>, <<n>>) <=> m <= n
<1> DEFINE s == <<m>>
           t == <<n>>
<1>1. /\ s \in Seq(Nat) /\ Len(s) = 1 /\ DOMAIN s = {1} /\ s[1] = m
      /\ t \in Seq(Nat) /\ Len(t) = 1 /\ DOMAIN t = {1} /\ t[1] = n
  OBVIOUS
<1>2. SubSeq(t, 1, Len(s)) = t
  <2> DEFINE part == SubSeq(t, 1, Len(s))
  <2> HIDE DEF s, t
  <2>1. part \in Seq(Nat) /\ Len(part) = 1 /\ part[1] = t[1]
    BY <1>1
  <2> HIDE DEF part
  <2>2. \A i \in 1..Len(part) : part[i] = t[i]
    BY <2>1
  <2>3. part = t
    BY <1>1, <2>1, <2>2, SeqEqual
  <2> QED BY <2>3 DEF part
<1>3. SubSeq(s, 1, 1 - 1) = <<>> /\ SubSeq(t, 1, 1 - 1) = <<>>
  <2> HIDE DEF s, t
  <2>1. \A list \in Seq(Nat) : SubSeq(list, 1, 0) \in Seq(Nat) /\ Len(SubSeq(list, 1, 0)) = 0
    OBVIOUS
  <2>2. \A list \in Seq(Nat) : Len(list) = 0 => list = <<>>
    OBVIOUS
  <2> QED BY <1>1, <2>1, <2>2
<1>4. s = t <=> m = n
  BY <1>1
<1> HIDE DEF s, t
<1>5. TextAtMost(s, t) <=> s = t \/ m < n
  BY <1>1, <1>2, <1>3 DEF TextAtMost
<1>6. TextAtMost(s, t) <=> m <= n
  BY <1>4, <1>5
<1> QED BY <1>6 DEF s, t

LEMMA AllRankCompares ==
  ASSUME NEW ctx \in UserContexts, NEW user \in UserObjects
  PROVE  <<ctx, user>> \in UserAccessLevels["ALL_RANK"].fn <=> ctx.rank <= user.rank
<1>1. ctx.rank \in Ranks /\ user.rank \in Ranks
  BY DEF UserContexts, UserObjects
<1>2. AllRank(ctx, user) <=> ctx.rank <= user.rank
  <2> DEFINE m == ctx.rank
             n == user.rank
  <2>1. m \in Nat /\ n \in Nat /\ RankText(m) = <<m>> /\ RankText(n) = <<n>>
    BY <1>1, RanksAreDigits
  <2>2. AllRank(ctx, user) <=> TextAtMost(<<m>>, <<n>>)
    BY <2>1 DEF AllRank
  <2> HIDE DEF m, n
  <2>3. AllRank(ctx, user) <=> m <= n
    BY <2>1, <2>2, DigitsCompare
  <2> QED BY <2>3 DEF m, n
<1>3. UserAccessLevels["ALL_RANK"].fn
        = {pair \in UserContexts \X UserObjects : AllRank(pair[1], pair[2])}
  BY DEF UserAccessLevels, Resolver
<1> QED BY <1>2, <1>3

(* Whatever the users, the ALL_RANK level of the registry of a server that     *)
(* listens means an equal or a lower rank, although the database hands the     *)
(* ranks over as text: every rank of the application has one digit.            *)
THEOREM RanksCorrect == Spec => []RanksKeepTheirOrder
<1>1. BootInv => RanksKeepTheirOrder
  <2> SUFFICES ASSUME BootInv, phase = "listening", NEW ctx \in UserContexts, NEW user \in UserObjects
               PROVE  <<ctx, user>> \in resourcesDefinitions["USER"].accessLevels["ALL_RANK"].fn
                        <=> ctx.rank <= user.rank
    BY DEF RanksKeepTheirOrder
  <2>1. resourcesDefinitions["USER"].accessLevels = UserAccessLevels
    BY DEF BootInv, Ready, UserDefinition
  <2> QED BY <2>1, AllRankCompares
<1> QED BY <1>1, BootInvHolds, PTL

-----------------------------------------------------------------------------
(* Starting the process drives the registry as its own specification allows: *)
(* what AuthZProofs shows of every registry is shown of the one it builds.     *)

LEMMA OnlyCallsChangeTheRegistry ==
  [Next]_vars => UNCHANGED registryVars \/ CallForRoot \/ CallForFeature \/ ForFeatureStep
BY DEF Next, ServerStep, Require, EvaluateDataSource, EvaluateOther, ValidateEnvironment,
       AttemptSucceeds, AttemptFails, Listen, Kill, vars

Decisions == INSTANCE AuthZProofs WITH
  Roles <- UserRoles,
  RoleDefinitions <- {RolesDefinition[role] : role \in UserRoles},
  Resources <- {"USER"},
  Actions <- UserActions,
  AccessLevels <- DOMAIN UserAccessLevels,
  AccessLevelFns <- {UserAccessLevels[level].fn : level \in DOMAIN UserAccessLevels},
  Priorities <- 0..3,
  Relationships <- {"OWNER"},
  Identifiers <- {"userId"},
  Checks <- {ActiveAccount},
  Callbacks <- {"default", "application"},
  RootOptions <- {RootOptions},
  Definitions <- {UserDefinition},
  FeatureOptions <- {FeatureOptions},
  Contexts <- UserContexts,
  Objects <- UserObjects

(* The two instances have the same operators. *)
LEMMA SameInit == Registry!Init => Decisions!Init
BY DEF Registry!Init, Decisions!Init

LEMMA SameForRoot ==
  Registry!InitRegistry(RootOptions) => Decisions!InitRegistry(RootOptions)
BY DEF Registry!InitRegistry, Registry!Idle, Registry!ValidRootOptions, Registry!Threw,
       Registry!tables, Registry!config, Registry!FailingSteps, Registry!GoodRoles,
       Registry!GoodResources, Registry!RegisteredRoles, Registry!RegisteredResources,
       Registry!Returned, Registry!ApplyRootOptions, Registry!WithRoles,
       Registry!WithEmptyIndex, Registry!Given, Decisions!InitRegistry, Decisions!Idle,
       Decisions!ValidRootOptions, Decisions!Threw, Decisions!tables, Decisions!config,
       Decisions!FailingSteps, Decisions!GoodRoles, Decisions!GoodResources,
       Decisions!RegisteredRoles, Decisions!RegisteredResources, Decisions!Returned,
       Decisions!ApplyRootOptions, Decisions!WithRoles, Decisions!WithEmptyIndex,
       Decisions!Given

LEMMA SameForFeature ==
  Registry!InitResources(FeatureOptions) => Decisions!InitResources(FeatureOptions)
BY DEF Registry!InitResources, Registry!Idle, Registry!Returned, Registry!Threw,
       Registry!tables, Registry!config, Decisions!InitResources, Decisions!Idle,
       Decisions!Returned, Decisions!Threw, Decisions!tables, Decisions!config

LEMMA SameForFeatureStep == Registry!InitResourcesStep => Decisions!InitResourcesStep
BY DEF Registry!InitResourcesStep, Registry!Idle, Registry!Threw, Registry!config,
       Registry!Errors, Registry!AddResourceBody, Registry!RegisteredResources,
       Registry!ValidateAndRegister, Registry!ValidComponents, Registry!AcceptedRoles,
       Registry!RegisteredRoles, Registry!ValidPermissions, Registry!RoleError,
       Registry!Indexed, Registry!Elements, Decisions!InitResourcesStep, Decisions!Idle,
       Decisions!Threw, Decisions!config, Decisions!Errors, Decisions!AddResourceBody,
       Decisions!RegisteredResources, Decisions!ValidateAndRegister,
       Decisions!ValidComponents, Decisions!AcceptedRoles, Decisions!RegisteredRoles,
       Decisions!ValidPermissions, Decisions!RoleError, Decisions!Indexed,
       Decisions!Elements

LEMMA StepsOfTheDecisions == [Next]_vars => [Decisions!Next]_(Decisions!vars)
<1> SUFFICES ASSUME [Next]_vars PROVE [Decisions!Next]_(Decisions!vars)
  OBVIOUS
<1>1. CASE UNCHANGED registryVars
  BY <1>1 DEF registryVars, Decisions!vars, Decisions!tables, Decisions!config
<1>2. CASE CallForRoot
  BY <1>2, SameForRoot DEF CallForRoot, Decisions!Next
<1>3. CASE CallForFeature
  BY <1>3, SameForFeature DEF CallForFeature, Decisions!Next
<1>4. CASE ForFeatureStep
  BY <1>4, SameForFeatureStep DEF ForFeatureStep, Decisions!Next
<1> QED BY <1>1, <1>2, <1>3, <1>4, OnlyCallsChangeTheRegistry

(* Every behaviour of the process is one of AuthZRegistry with the options of   *)
(* the application: the files make no call that the registry's specification     *)
(* does not know, and none while a forFeature list is being applied.             *)
THEOREM RegistryImplemented == Spec => Decisions!Spec
<1>1. Init => Decisions!Init
  BY SameInit DEF Init
<1> QED BY <1>1, StepsOfTheDecisions, PTL DEF Spec, Decisions!Spec

(* The assumptions of AuthZRegistry hold of the options of the application. *)
LEMMA OptionsTyped ==
  /\ Decisions!IsRootOption(RootOptions) /\ Decisions!IsResourceDefinition(UserDefinition)
BY ApplicationOptionsTyped
   DEF Registry!IsRootOption, Registry!IsResourceDefinition, Registry!IsPartialMap,
       Registry!IsRolePermissions, Decisions!IsRootOption, Decisions!IsResourceDefinition,
       Decisions!IsPartialMap, Decisions!IsRolePermissions

LEMMA ListTyped == FeatureOptions \in Seq(Decisions!FeatureEntry)
BY DEF FeatureOptions, Decisions!FeatureEntry

LEMMA MarkersApartFromOptions ==
  /\ Absent \notin {RolesDefinition[role] : role \in UserRoles} \cup {UserDefinition}
  /\ Null \notin UserRoles /\ Blank \notin UserRoles /\ Blank \notin {"USER"}
BY MarkersDiffer

(* What every decision of this process can rely on. *)
ApplicationDecides ==
  /\ Decisions!DefinitionsClosed
  /\ Decisions!RoleInfoComplete
  /\ Decisions!CanWithinHasPermission
  /\ Decisions!ReportMatchesDecisions
  /\ Decisions!GrantsAreDeclared

(* At every moment of the process, however far its start got, the registry it   *)
(* has answers every context that JwtAuthNMiddleware can build consistently:    *)
(* look-ups never miss, the index, the report, hasPermission and can agree, and *)
(* what is granted is declared.                                                 *)
THEOREM ApplicationDecidesCorrect == Spec => []ApplicationDecides
<1> USE OptionsTyped, ListTyped, MarkersApartFromOptions
<1>1. Decisions!Spec => []Decisions!DefinitionsClosed
  BY Decisions!DefinitionsClosedCorrect
<1>2. Decisions!Spec => []Decisions!RoleInfoComplete
  BY Decisions!RoleInfoCorrect
<1>3. Decisions!Spec => []Decisions!CanWithinHasPermission
  BY Decisions!CanWithinCorrect
<1>4. Decisions!Spec => []Decisions!ReportMatchesDecisions
  BY Decisions!ReportCorrect
<1>5. Decisions!Spec => []Decisions!GrantsAreDeclared
  BY Decisions!GrantsAreDeclaredCorrect
<1> QED BY <1>1, <1>2, <1>3, <1>4, <1>5, RegistryImplemented, PTL DEF ApplicationDecides
=============================================================================
