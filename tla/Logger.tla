------------------------------- MODULE Logger -------------------------------
(***************************************************************************)
(* The application's Logger (Packages/Logger/Services/Logger.service.ts):   *)
(* how the arguments of a call become the context, category and payload of  *)
(* a line, and which lines the transport writes after the levels were set.  *)
(* Nest calls it with arguments of its own, so every shape may arrive.      *)
(***************************************************************************)
EXTENDS Naturals, Sequences

CONSTANTS
  EnvLevels,     \* what LOG_LEVEL, "LOG" when it is not set, may say
  OwnContexts,   \* the contexts that Loggers were made with
  Methods,       \* the levels whose methods are called
  Params,        \* the parameters that may follow a message
  Undefined,     \* no payload; a falsy value prints as none
  MaxParams,     \* bound on the parameters of a call
  MaxNames       \* bound on the names given to setLogLevels

VARIABLES
  level,  \* the level of the transport
  named,  \* history: the names last given to setLogLevels, {} before
  call,   \* the last call: own context, level and parameters
  line    \* what the transport wrote for it

vars == <<level, named, call, line>>

-----------------------------------------------------------------------------
(* Levels. *)

logLevels ==
  [name \in {"FATAL", "ERROR", "WARN", "LOG", "DEBUG", "VERBOSE"} |->
     CASE name = "FATAL" -> 0 [] name = "ERROR" -> 1 [] name = "WARN" -> 2
       [] name = "LOG" -> 3 [] name = "DEBUG" -> 4 [] name = "VERBOSE" -> 5]

LevelNames == DOMAIN logLevels
Unknown == "unknown"  \* a name that is no level

(* winston: a transport writes the lines of its level and of more urgent ones. *)
Writes(transport, name) ==
  transport \in LevelNames /\ logLevels[name] <= logLevels[transport]

(* Faulty variant: with || 0 for a missing value. *)
RankOrZero(name) == IF name \in LevelNames THEN logLevels[name] ELSE 0

(* logLevels[x] || 999: both an unknown name and the value 0 read as 999. *)
Rank(name) == IF name \notin LevelNames \/ logLevels[name] = 0 THEN 999 ELSE logLevels[name]

(* reduce: a name replaces the one before only when it ranks strictly lower. *)
LowestOf(names) ==
  names[CHOOSE i \in DOMAIN names :
          \A j \in DOMAIN names : /\ Rank(names[i]) <= Rank(names[j])
                                  /\ Rank(names[i]) = Rank(names[j]) => i <= j]

-----------------------------------------------------------------------------
(* Arguments.  A parameter is a string (the empty one is falsy), an ILog or    *)
(* another value, and JSON.stringify finds that it fits into a line, that it    *)
(* exceeds the limit, or throws over it.  How an Error is described is left out. *)

Parameter(type, truthy, json) == [type |-> type, truthy |-> truthy, json |-> json]

(* The context of a Logger that was given none; the server's is one of them. *)
UnknownContext == Parameter("UNKNOWN_CONTEXT", TRUE, "fits")

IsString(param) == param.type = "string"
IsILog(param) == param.type = "ILog"
Fits(params) == \A i \in DOMAIN params : params[i].json = "fits"

(* An ILog is an object, and objects are truthy.  LOG_LEVEL is not validated. *)
ASSUME ParametersTyped ==
  /\ Params \subseteq [type: {"string", "ILog", "other"}, truthy: BOOLEAN,
                      json: {"fits", "exceeds", "throws"}]
  /\ \A param \in Params : IsILog(param) => param.truthy
  /\ EnvLevels \subseteq LevelNames \cup {Unknown}
  /\ {MaxNames, MaxParams} \subseteq Nat

(* A payload keeps a list of parameters, as they are or described; "given"   *)
(* is the category of an ILog.                                               *)
Normalized(context, category, kept) ==
  [context |-> context, category |-> category, kept |-> kept]

AsPayload(context, param) ==
  Normalized(context, IF IsILog(param) THEN "given" ELSE "SYSTEM", <<param>>)

(* limitPayloadSize, of pattern 5 only: a list too long for a line gives way to *)
(* a note, and one that JSON cannot hold to an object without a payload.        *)
Limited(params) ==
  CASE \E i \in DOMAIN params : params[i].json = "throws" -> <<>>
    [] Fits(params) -> params
    [] OTHER -> <<Parameter("truncated", TRUE, "fits")>>

(* Faulty variant: a context after the data is taken for more data. *)
NormalizeArgsWithoutPattern4(own, params) ==
  CASE params = <<>> -> Normalized(own, "SYSTEM", <<>>)
    [] Len(params) = 1 /\ IsString(params[1]) /\ own = UnknownContext ->
         Normalized(params[1], "SYSTEM", <<>>)
    [] Len(params) = 1 -> AsPayload(own, params[1])
    [] OTHER -> Normalized(own, "SYSTEM", Limited(params))

(* Patterns 1 (context), 2 and 3 (payload), 4 (payload and context) and 5. *)
NormalizeArgs(own, params) ==
  LET contextLast == own = UnknownContext /\ params # <<>> /\ IsString(params[Len(params)])
  IN  CASE params = <<>> -> Normalized(own, "SYSTEM", <<>>)
        [] Len(params) = 1 /\ contextLast -> Normalized(params[1], "SYSTEM", <<>>)
        [] Len(params) = 1 /\ ~contextLast -> AsPayload(own, params[1])
        [] Len(params) = 2 /\ contextLast -> AsPayload(params[2], params[1])
        [] OTHER -> Normalized(own, "SYSTEM", Limited(params))

(* writeLog: payload?.payload || undefined. A list is truthy. *)
Line(name, own, params) ==
  LET normalized == NormalizeArgs(own, params)
      kept == normalized.kept
  IN  [level |-> name, context |-> normalized.context, category |-> normalized.category,
       payload |-> IF kept = <<>> \/ (Len(kept) = 1 /\ ~kept[1].truthy)
                   THEN Undefined ELSE kept]

(* What Nest's own Logger, created with a context, hands over: error() fills  *)
(* in an undefined stack when there is nothing but the context to pass.       *)
FromNest(name, context, params) ==
  IF name = "ERROR" /\ params = <<>>
  THEN <<Parameter("other", FALSE, "fits"), context>>
  ELSE Append(params, context)

-----------------------------------------------------------------------------
NoLine == [level |-> Undefined, context |-> Undefined, category |-> Undefined,
           payload |-> Undefined]
NoCall == [own |-> Undefined, level |-> Undefined, params |-> <<>>]

Init ==
  /\ level \in EnvLevels /\ named = {}
  /\ call = NoCall /\ line = NoLine

(* log, error, warn, debug, verbose and fatal. *)
Log(own, name, params) ==
  /\ call' = [own |-> own, level |-> name, params |-> params]
  /\ line' = IF Writes(level, name) THEN Line(name, own, params) ELSE NoLine
  /\ UNCHANGED <<level, named>>

(* An empty list changes nothing. *)
SetLogLevels(names) ==
  /\ level' = IF names = <<>> THEN level ELSE LowestOf(names)
  /\ named' = IF names = <<>> THEN named ELSE {names[i] : i \in DOMAIN names}
  /\ call' = NoCall /\ line' = NoLine

Lists(Values, max) == UNION {[1..n -> Values] : n \in 0..max}

Next ==
  \/ \E own \in OwnContexts, name \in Methods, params \in Lists(Params, MaxParams) :
       Log(own, name, params)
  \/ \E names \in Lists(LevelNames \cup {Unknown}, MaxNames) : SetLogLevels(names)

Spec == Init /\ [][Next]_vars

-----------------------------------------------------------------------------
(* Once setLogLevels was told a level below FATAL, a fatal line is written,     *)
(* whatever LOG_LEVEL said before (an unknown word there silences everything)   *)
(* and whatever unknown names the same list holds, in whatever order.           *)
FatalLinesWritten ==
  named \cap (LevelNames \ {"FATAL"}) # {} => Writes(level, "FATAL")

(* "Highest level in array becomes the level (lower number = higher priority)", *)
(* as the comment at Logger.service.ts:368 says of a list of known names.       *)
HighestPriorityChosen ==
  named # {} /\ Unknown \notin named =>
    level \in named /\ \A name \in named : logLevels[level] <= logLevels[name]

(* A call through Nest's Logger, which is how the repository logs, with at most  *)
(* one value keeps its context, and an ILog passed that way its category: the    *)
(* shape Nest adds is told from a payload of several values.  With more values   *)
(* the context is one of them: the line has none, and holds it as the last value *)
(* of its payload unless the list is too long for a line.                        *)
NestCallsUnderstood ==
  line # NoLine /\ call.own = UnknownContext =>
    \A context \in {p \in Params : IsString(p) /\ p.truthy}, params \in Lists(Params, MaxParams) :
      call.params = FromNest(call.level, context, params) =>
        IF Len(params) > 1
        THEN /\ line.context = UnknownContext
             /\ Fits(call.params) => line.payload = Append(params, context)
        ELSE /\ line.context = context
             /\ params # <<>> /\ IsILog(params[1]) =>
                  line.category = "given" /\ line.payload = params

=============================================================================
