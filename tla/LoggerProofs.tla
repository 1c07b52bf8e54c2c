---------------------------- MODULE LoggerProofs ----------------------------
(***************************************************************************)
(* Proofs about Logger, for all contexts and parameters and for lists of    *)
(* level names of every length.                                             *)
(***************************************************************************)
EXTENDS Logger, Integers, FiniteSetTheorems, TLAPS

(* Induction over the naturals as a fact about sets: below a number that is    *)
(* missing from T, the function n |-> n + 1 would map a finite set one to one  *)
(* into that set without 0, which has fewer elements.                          *)
LEMMA InductionSet ==
  ASSUME NEW T, 0 \in T, \A n \in Nat : n \in T => n + 1 \in T
  PROVE  Nat \subseteq T
<1> SUFFICES ASSUME NEW k \in Nat, k \notin T PROVE FALSE
  OBVIOUS
<1> DEFINE below == {n \in 0..k : n \in T}
           successor == [n \in below |-> n + 1]
<1>1. IsFiniteSet(below)
  <2>1. IsFiniteSet(0..k)
    BY FS_Interval
  <2>2. below \in SUBSET (0..k)
    OBVIOUS
  <2> HIDE DEF below
  <2> QED BY <2>1, <2>2, FS_Subset
<1>2. 0 \in below
  OBVIOUS
<1>3. IsFiniteSet(below \ {0}) /\ Cardinality(below \ {0}) = Cardinality(below) - 1
  <2> HIDE DEF below
  <2> QED BY <1>1, <1>2, FS_RemoveElement
<1>4. successor \in [below -> below \ {0}]
  <2>1. ASSUME NEW n \in below PROVE n + 1 \in below \ {0}
    OBVIOUS
  <2> QED BY <2>1
<1>5. Cardinality(below) \in Nat
  BY <1>1, FS_CardinalityType
<1>6. \A x, y \in below : successor[x] = successor[y] => x = y
  OBVIOUS
<1> HIDE DEF below, successor
<1>7. Cardinality(below \ {0}) < Cardinality(below)
  BY <1>3, <1>5
<1> QED BY <1>1, <1>3, <1>4, <1>6, <1>7, FS_PigeonHole

LEMMA LeastNatural ==
  ASSUME NEW S, S \subseteq Nat, S # {}
  PROVE  \E n \in S : \A m \in S : n <= m
<1> SUFFICES ASSUME \A n \in S : \E m \in S : m < n PROVE FALSE
  OBVIOUS
<1> DEFINE bounds == {n \in Nat : \A m \in S : n <= m}
<1>1. 0 \in bounds
  OBVIOUS
<1>2. \A n \in Nat : n \in bounds => n + 1 \in bounds
  <2> SUFFICES ASSUME NEW n \in Nat, n \in bounds, NEW m \in S PROVE n + 1 <= m
    OBVIOUS
  <2> QED OBVIOUS
<1>3. Nat \subseteq bounds
  <2> HIDE DEF bounds
  <2> QED BY <1>1, <1>2, InductionSet
<1>4. PICK s \in S : TRUE
  OBVIOUS
<1>5. s \in Nat /\ s + 1 \in Nat
  BY <1>4
<1>6. s + 1 \in bounds
  <2> HIDE DEF bounds
  <2> QED BY <1>3, <1>5
<1>7. s + 1 <= s
  BY <1>4, <1>6
<1> QED BY <1>5, <1>7

-----------------------------------------------------------------------------
(* Levels. *)

LEMMA RankNatural == \A name : Rank(name) \in Nat
BY DEF Rank, logLevels, LevelNames

(* The name that reduce ends with is one of the list, and none ranks lower. *)
LEMMA LowestOfList ==
  ASSUME NEW n \in Nat, n # 0, NEW Values, NEW names \in [1..n -> Values]
  PROVE  \E i \in 1..n : /\ LowestOf(names) = names[i]
                         /\ \A j \in 1..n : Rank(names[i]) <= Rank(names[j])
<1> DEFINE IsLowest(i) == \A j \in DOMAIN names :
             /\ Rank(names[i]) <= Rank(names[j])
             /\ Rank(names[i]) = Rank(names[j]) => i <= j
<1>1. DOMAIN names = 1..n
  OBVIOUS
<1>2. PICK least \in {Rank(names[i]) : i \in 1..n} :
        \A m \in {Rank(names[i]) : i \in 1..n} : least <= m
  <2> DEFINE S == {Rank(names[i]) : i \in 1..n}
  <2>1. S \subseteq Nat
    BY RankNatural
  <2>2. Rank(names[1]) \in S
    OBVIOUS
  <2> HIDE DEF S
  <2>3. \E least \in S : \A m \in S : least <= m
    BY <2>1, <2>2, LeastNatural
  <2> QED BY <2>3 DEF S
<1>3. PICK first \in {i \in 1..n : Rank(names[i]) = least} :
        \A m \in {i \in 1..n : Rank(names[i]) = least} : first <= m
  <2> DEFINE S == {i \in 1..n : Rank(names[i]) = least}
  <2>1. S \subseteq Nat /\ S # {}
    BY <1>2
  <2> HIDE DEF S
  <2>2. \E first \in S : \A m \in S : first <= m
    BY <2>1, LeastNatural
  <2> QED BY <2>2 DEF S
<1>4. first \in DOMAIN names /\ IsLowest(first)
  BY <1>1, <1>2, <1>3
<1> HIDE DEF IsLowest
<1>5. PICK i : /\ i = CHOOSE k \in DOMAIN names : IsLowest(k)
               /\ i \in DOMAIN names /\ IsLowest(i)
  BY <1>4
<1>6. LowestOf(names) = names[i]
  BY <1>5 DEF LowestOf, IsLowest
<1> QED BY <1>1, <1>5, <1>6 DEF IsLowest

(* 999 is what FATAL and an unknown name rank; the other levels rank lower. *)
LEMMA RankOfLevels ==
  ASSUME NEW name
  PROVE  /\ name \in LevelNames \ {"FATAL"} => Rank(name) < 999
         /\ Rank(name) < 999 => Writes(name, "FATAL")
<1>1. CASE name \in LevelNames
  BY <1>1 DEF Rank, Writes, logLevels, LevelNames
<1>2. CASE name \notin LevelNames
  BY <1>2 DEF Rank
<1> QED BY <1>1, <1>2

LEMMA SetLevelsStep ==
  ASSUME NEW names \in Lists(LevelNames \cup {Unknown}, MaxNames),
         FatalLinesWritten, SetLogLevels(names)
  PROVE  FatalLinesWritten'
<1>1. PICK n \in 0..MaxNames : names \in [1..n -> LevelNames \cup {Unknown}]
  BY DEF Lists
<1>2. n \in Nat
  BY ParametersTyped
<1>3. CASE names = <<>>
  BY <1>3 DEF SetLogLevels, FatalLinesWritten
<1>4. CASE names # <<>>
  <2>1. n # 0 /\ DOMAIN names = 1..n
    BY <1>1, <1>2, <1>4
  <2>2. /\ level' = LowestOf(names)
        /\ named' = {names[i] : i \in 1..n}
    BY <1>4, <2>1 DEF SetLogLevels
  <2>3. PICK i \in 1..n : /\ level' = names[i]
                          /\ \A j \in 1..n : Rank(names[i]) <= Rank(names[j])
    BY <1>1, <1>2, <2>1, <2>2, LowestOfList
  <2>4. ASSUME NEW j \in 1..n, names[j] \in LevelNames \ {"FATAL"}
        PROVE  Writes(names[i], "FATAL")
    <3>1. Rank(names[i]) <= Rank(names[j]) /\ Rank(names[j]) < 999
      BY <2>3, <2>4, RankOfLevels
    <3>2. Rank(names[i]) < 999
      BY <3>1, RankNatural
    <3> QED BY <3>2, RankOfLevels
  <2>5. Writes(level, "FATAL")' <=> Writes(names[i], "FATAL")
    BY <2>3 DEF Writes
  <2> QED BY <2>2, <2>4, <2>5 DEF FatalLinesWritten
<1> QED BY <1>3, <1>4

(* Whatever LOG_LEVEL says and whatever lists were set, of names known and      *)
(* unknown: once a list names a level below FATAL, fatal lines are written       *)
(* (Logger.setLogLevels; an unknown name ranks 999 and never wins over a level).  *)
THEOREM FatalLinesCorrect == Spec => []FatalLinesWritten
<1>1. Init => FatalLinesWritten
  BY DEF Init, FatalLinesWritten
<1>2. FatalLinesWritten /\ [Next]_vars => FatalLinesWritten'
  <2> SUFFICES ASSUME FatalLinesWritten, [Next]_vars PROVE FatalLinesWritten'
    OBVIOUS
  <2>1. CASE UNCHANGED <<level, named>>
    BY <2>1 DEF FatalLinesWritten, Writes
  <2>2. ASSUME NEW names \in Lists(LevelNames \cup {Unknown}, MaxNames), SetLogLevels(names)
        PROVE  FatalLinesWritten'
    BY <2>2, SetLevelsStep
  <2> QED BY <2>1, <2>2 DEF Next, Log, vars
<1> QED BY <1>1, <1>2, PTL DEF Spec

-----------------------------------------------------------------------------
(* Arguments. *)

(* A line that was written is the line of the last call. *)
LineOfCall == line # NoLine => line = Line(call.level, call.own, call.params)

LEMMA LineOfCallStep == LineOfCall /\ [Next]_vars => LineOfCall'
<1> SUFFICES ASSUME LineOfCall, [Next]_vars PROVE LineOfCall'
  OBVIOUS
<1>1. ASSUME NEW own, NEW name, NEW params, Log(own, name, params) PROVE LineOfCall'
  BY <1>1 DEF Log, LineOfCall
<1>2. ASSUME NEW names, SetLogLevels(names) PROVE LineOfCall'
  BY <1>2 DEF SetLogLevels, LineOfCall
<1>3. CASE UNCHANGED vars
  BY <1>3 DEF vars, LineOfCall
<1> QED BY <1>1, <1>2, <1>3 DEF Next

(* A list of one or two parameters that ends with a context, read by a Logger  *)
(* that has none.                                                              *)
LEMMA ContextAlone ==
  ASSUME NEW context, IsString(context)
  PROVE  NormalizeArgs(UnknownContext, <<context>>) = Normalized(context, "SYSTEM", <<>>)
BY DEF NormalizeArgs

LEMMA ContextAfterPayload ==
  ASSUME NEW context, IsString(context), NEW param
  PROVE  NormalizeArgs(UnknownContext, <<param, context>>) = AsPayload(context, param)
BY DEF NormalizeArgs

LEMMA PairOf ==
  ASSUME NEW S, NEW list \in Seq(S), Len(list) = 2
  PROVE  list = <<list[1], list[2]>>
OBVIOUS

LEMMA AppendToShort ==
  ASSUME NEW x, NEW y
  PROVE  Append(<<>>, y) = <<y>> /\ Append(<<x>>, y) = <<x, y>>
<1>1. Append(<<>>, y) = <<y>>
  OBVIOUS
<1> DEFINE S == {x, y}
           list == Append(<<x>>, y)
<1>2. <<x>> \in Seq(S) /\ y \in S
  OBVIOUS
<1>3. list \in Seq(S) /\ Len(list) = 2 /\ list[1] = x /\ list[2] = y
  BY <1>2
<1> HIDE DEF list
<1>4. list = <<x, y>>
  BY <1>3, PairOf
<1> QED BY <1>1, <1>4 DEF list

(* A longer list is data as a whole, and is kept if it fits into a line. *)
LEMMA LongLists ==
  ASSUME NEW params \in Seq(Params), Len(params) > 1, NEW context \in Params
  PROVE  LET given == Append(params, context)
         IN  /\ NormalizeArgs(UnknownContext, given)
                  = Normalized(UnknownContext, "SYSTEM", Limited(given))
             /\ Fits(given) => Limited(given) = given
             /\ Len(given) > 2 /\ given # <<>>
<1> DEFINE given == Append(params, context)
<1>1. given \in Seq(Params) /\ Len(given) > 2
  OBVIOUS
<1> HIDE DEF given
<1>2. given # <<>> /\ Len(given) # 1 /\ Len(given) # 2
  <2> DEFINE size == Len(given)
  <2>1. size \in Nat /\ size > 2
    BY <1>1
  <2> HIDE DEF size
  <2>2. size # 0 /\ size # 1 /\ size # 2
    BY <2>1
  <2>3. given = <<>> => size = 0
    BY DEF size
  <2> QED BY <2>2, <2>3 DEF size
<1>3. NormalizeArgs(UnknownContext, given) = Normalized(UnknownContext, "SYSTEM", Limited(given))
  BY <1>2 DEF NormalizeArgs
<1>4. ASSUME Fits(given) PROVE Limited(given) = given
  BY <1>4 DEF Fits, Limited
<1> QED BY <1>1, <1>2, <1>3, <1>4 DEF given

(* What Nest's Logger hands over is its context and the values before it. *)
NestShape(context, params, given) ==
  \/ params = <<>> /\ given = <<context>>
  \/ params = <<>> /\ given = <<Parameter("other", FALSE, "fits"), context>>
  \/ \E param \in Params : params = <<param>> /\ given = <<param, context>>
  \/ params \in Seq(Params) /\ Len(params) > 1 /\ given = Append(params, context)

LEMMA NestShapes ==
  ASSUME NEW context, NEW params \in Lists(Params, MaxParams), NEW name
  PROVE  NestShape(context, params, FromNest(name, context, params))
<1> USE DEF NestShape
<1>1. PICK n \in 0..MaxParams : params \in [1..n -> Params]
  BY DEF Lists
<1>0. n \in Nat
  BY ParametersTyped
<1>2. CASE n = 0
  <2>1. params = <<>>
    BY <1>1, <1>2
  <2>2. CASE name = "ERROR"
    BY <2>1, <2>2 DEF FromNest
  <2>3. CASE name # "ERROR"
    <3>1. FromNest(name, context, params) = Append(params, context)
      BY <2>3 DEF FromNest
    <3> QED BY <2>1, <3>1, AppendToShort
  <2> QED BY <2>2, <2>3
<1>3. CASE n = 1
  <2>1. params[1] \in Params /\ params = <<params[1]>>
    BY <1>1, <1>3
  <2>2. params # <<>>
    BY <2>1
  <2>3. FromNest(name, context, params) = Append(params, context)
    BY <2>2 DEF FromNest
  <2>4. FromNest(name, context, params) = <<params[1], context>>
    BY <2>1, <2>3, AppendToShort
  <2> QED BY <2>1, <2>4
<1>4. CASE n > 1
  <2>1. params \in Seq(Params) /\ Len(params) = n /\ params # <<>>
    BY <1>0, <1>1, <1>4
  <2>2. FromNest(name, context, params) = Append(params, context)
    BY <2>1 DEF FromNest
  <2> QED BY <1>4, <2>1, <2>2
<1>5. n = 0 \/ n = 1 \/ n > 1
  BY <1>0
<1> QED BY <1>2, <1>3, <1>4, <1>5

(* Whatever a call through Nest's Logger passes: with at most one value the     *)
(* line has its context, and an ILog its category and value; with more values   *)
(* the line has no context and, unless it is too long, holds them all with the  *)
(* context after them (Logger.normalizeArgs, patterns 1, 4 and 5).              *)
THEOREM NestCallsCorrect == Spec => []NestCallsUnderstood
<1>1. Init => LineOfCall
  BY DEF Init, LineOfCall
<1>2. LineOfCall => NestCallsUnderstood
  <2> SUFFICES ASSUME LineOfCall, line # NoLine, call.own = UnknownContext,
                      NEW context \in {p \in Params : IsString(p) /\ p.truthy},
                      NEW params \in Lists(Params, MaxParams),
                      call.params = FromNest(call.level, context, params)
               PROVE  IF Len(params) > 1
                      THEN /\ line.context = UnknownContext
                           /\ Fits(call.params) => line.payload = Append(params, context)
                      ELSE /\ line.context = context
                           /\ params # <<>> /\ IsILog(params[1]) =>
                                line.category = "given" /\ line.payload = params
    BY DEF NestCallsUnderstood
  <2> DEFINE normalized == NormalizeArgs(UnknownContext, call.params)
  <2>1. /\ line.context = normalized.context
        /\ line.category = normalized.category
        /\ normalized.kept # <<>> /\ ~(Len(normalized.kept) = 1 /\ ~normalized.kept[1].truthy)
             => line.payload = normalized.kept
    BY DEF LineOfCall, Line
  <2> IsString(context)
    OBVIOUS
  <2>2. ASSUME params = <<>>, call.params = <<context>>
        PROVE  line.context = context
    <3>1. normalized.context = context
      <4>1. normalized = Normalized(context, "SYSTEM", <<>>)
        BY <2>2, ContextAlone
      <4> QED BY <4>1 DEF Normalized
    <3> QED BY <2>1, <2>2, <3>1
  <2>3. ASSUME params = <<>>, call.params = <<Parameter("other", FALSE, "fits"), context>>
        PROVE  line.context = context
    <3>1. normalized.context = context
      <4> DEFINE param == Parameter("other", FALSE, "fits")
      <4> HIDE DEF param
      <4>1. normalized = AsPayload(context, param)
        BY <2>3, ContextAfterPayload DEF param
      <4> HIDE DEF normalized
      <4> QED BY <4>1 DEF AsPayload, Normalized
    <3> QED BY <2>1, <2>3, <3>1
  <2>4. ASSUME NEW param \in Params, params = <<param>>, call.params = <<param, context>>
        PROVE  /\ ~(Len(params) > 1) /\ line.context = context
               /\ params # <<>> /\ IsILog(params[1]) =>
                    line.category = "given" /\ line.payload = params
    <3>1. normalized = AsPayload(context, param)
      BY <2>4, ContextAfterPayload
    <3>2. normalized.context = context /\ normalized.kept = params
          /\ (IsILog(param) => normalized.category = "given")
      BY <2>4, <3>1 DEF AsPayload, Normalized
    <3>3. params # <<>> /\ Len(params) = 1 /\ params[1] = param
      BY <2>4
    <3>4. IsILog(param) => param.truthy
      BY ParametersTyped
    <3> HIDE DEF normalized
    <3> QED BY <2>1, <3>2, <3>3, <3>4
  <2>5. ASSUME params \in Seq(Params), Len(params) > 1, call.params = Append(params, context)
        PROVE  /\ line.context = UnknownContext
               /\ Fits(call.params) => line.payload = Append(params, context)
    <3>1. /\ normalized = Normalized(UnknownContext, "SYSTEM", Limited(call.params))
          /\ Fits(call.params) => Limited(call.params) = call.params
          /\ Len(call.params) # 1 /\ call.params # <<>>
      BY <2>5, LongLists
    <3>2. normalized.context = UnknownContext /\ normalized.kept = Limited(call.params)
      BY <3>1 DEF Normalized
    <3> HIDE DEF normalized
    <3> QED BY <2>1, <2>5, <3>1, <3>2
  <2>6. NestShape(context, params, call.params)
    BY NestShapes
  <2>7. params = <<>> => ~(Len(params) > 1)
    <3>1. ~(Len(<<>>) > 1)
      OBVIOUS
    <3> QED BY <3>1
  <2>8. CASE \E param \in Params : params = <<param>> /\ call.params = <<param, context>>
    BY <2>4, <2>8
  <2>9. CASE params \in Seq(Params) /\ Len(params) > 1 /\ call.params = Append(params, context)
    BY <2>5, <2>9
  <2> QED BY <2>2, <2>3, <2>6, <2>7, <2>8, <2>9 DEF NestShape
<1> QED BY <1>1, <1>2, LineOfCallStep, PTL DEF Spec
=============================================================================
