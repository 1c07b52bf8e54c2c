------------------------ MODULE HttpLoggingProofs ------------------------
(***************************************************************************)
(* What holds of the log and the replies for any number of overlapping      *)
(* requests and any number of awaits, on either adapter.                    *)
(***************************************************************************)
EXTENDS HttpLogging, TLAPS

Lines ==
  [request: Requests, type: {"REQUEST", "AUDIT", "ERROR", "RESPONSE"},
   correlationId: Requests \cup {NoStore}, status: Nat]

(* What a request's step says about its lines. *)
Stage(r) ==
  /\ request[r].step = "idle" => \A i \in DOMAIN lines : lines[i].request # r
  /\ request[r].step = "handling" =>
       /\ request[r].store = r
       /\ \A i \in DOMAIN lines : lines[i].request = r => lines[i].type # "RESPONSE"
       /\ \E i \in DOMAIN lines : lines[i].type = "REQUEST" /\ lines[i].request = r

ResponseTrue(i) ==
  /\ lines[i].status = replies[lines[i].request].status
  /\ \E j \in 1..(i - 1) : lines[j].type = "REQUEST" /\ lines[j].request = lines[i].request
  /\ \A j \in (i + 1)..Len(lines) : lines[j].request # lines[i].request

LogTypes ==
  /\ lines \in Seq(Lines)
  /\ DOMAIN replies = Requests
  /\ DOMAIN request = Requests
  /\ \A r \in Requests : /\ request[r].step \in {"idle", "handling", "replied"}
                         /\ request[r].route \in Routes

LogInv ==
  /\ LogTypes
  /\ \A r \in Requests : Stage(r)
  /\ LinesCarryTheirRequest
  /\ ResponseLinesTrue

-----------------------------------------------------------------------------
LEMMA LogInit == Init => LogInv
<1> SUFFICES ASSUME Init PROVE LogInv
  OBVIOUS
<1>1. lines \in Seq(Lines) /\ DOMAIN lines = {}
  BY DEF Init
<1>2. LogTypes
  BY <1>1 DEF Init, LogTypes, Routes
<1>3. \A r \in Requests : request[r].step = "idle"
  BY DEF Init
<1> QED BY <1>1, <1>2, <1>3 DEF LogInv, Stage, LinesCarryTheirRequest, ResponseLinesTrue

LEMMA StatusTyped ==
  /\ \A exception \in Thrown : HandleException(exception, TRUE) \in Nat
  /\ \A route \in Routes : DefaultStatus(route) \in Nat
BY DEF HandleException, OwnStatus, OwnExceptions, UnknownExceptionStatus, DefaultStatus

(* One line more, about r: what the steps of a request are made of. *)
LEMMA OneMoreLine ==
  ASSUME NEW s \in Seq(Lines), NEW line \in Lines
  PROVE  /\ Append(s, line) \in Seq(Lines)
         /\ Len(Append(s, line)) = Len(s) + 1
         /\ DOMAIN s = 1..Len(s) /\ DOMAIN Append(s, line) = 1..(Len(s) + 1)
         /\ \A i \in DOMAIN s : Append(s, line)[i] = s[i]
         /\ Append(s, line)[Len(s) + 1] = line
OBVIOUS

LEMMA LinesOf ==
  ASSUME NEW s \in Seq(Lines), NEW line \in Lines
  PROVE  s \o <<line>> = Append(s, line) /\ s \o <<>> = s
OBVIOUS

(* What a step of r does to the log: the lines before stay, every new one is    *)
(* about r and carries its id, and a RESPONSE line is the last.                 *)
Writes(r) ==
  /\ lines' \in Seq(Lines) /\ Len(lines') >= Len(lines)
  /\ \A i \in 1..Len(lines) : lines'[i] = lines[i]
  /\ \A i \in (Len(lines) + 1)..Len(lines') :
       /\ lines'[i].request = r /\ lines'[i].correlationId = r
       /\ lines'[i].type = "RESPONSE" =>
            /\ i = Len(lines') /\ request[r].step = "handling"
            /\ request'[r].step = "replied"
            /\ lines'[i].status = replies'[r].status

(* The bookkeeping of a step of r. *)
Moves(r) ==
  /\ DOMAIN request' = Requests /\ DOMAIN replies' = Requests
  /\ \A q \in Requests \ {r} : request'[q] = request[q] /\ replies'[q] = replies[q]
  /\ request'[r].route \in Routes
  /\ \/ /\ request[r].step = "idle" /\ request'[r].step = "handling" /\ request'[r].store = r
        /\ \E i \in DOMAIN lines' : lines'[i].type = "REQUEST" /\ lines'[i].request = r
     \/ /\ request[r].step = "handling" /\ request'[r].step = "handling"
        /\ request'[r].store = request[r].store
     \/ /\ request[r].step = "handling" /\ request'[r].step = "replied"

LEMMA StepKeeps ==
  ASSUME LogInv, NEW r \in Requests, Writes(r), Moves(r)
  PROVE  LogInv'
<1>0. /\ lines \in Seq(Lines) /\ lines' \in Seq(Lines)
      /\ Len(lines) \in Nat /\ Len(lines') \in Nat /\ Len(lines') >= Len(lines)
      /\ DOMAIN lines = 1..Len(lines) /\ DOMAIN lines' = 1..Len(lines')
      /\ \A i \in DOMAIN lines : i \in DOMAIN lines' /\ lines'[i] = lines[i]
      /\ \A i \in DOMAIN lines' \ DOMAIN lines : i \in (Len(lines) + 1)..Len(lines')
  BY DEF LogInv, LogTypes, Writes
<1>1. LogTypes'
  <2>1. \A q \in Requests : /\ request'[q].step \in {"idle", "handling", "replied"}
                            /\ request'[q].route \in Routes
    BY DEF LogInv, LogTypes, Moves
  <2> QED BY <1>0, <2>1 DEF LogTypes, Moves
<1>2. \A i \in DOMAIN lines' \ DOMAIN lines : lines'[i].request = r /\ lines'[i].correlationId = r
  BY <1>0 DEF Writes
<1>3. LinesCarryTheirRequest'
  BY <1>0, <1>2 DEF LogInv, LinesCarryTheirRequest
<1>4. ASSUME NEW q \in Requests PROVE Stage(q)'
  <2>1. CASE q # r
    <3>1. request'[q] = request[q] /\ Stage(q)
      BY <2>1 DEF Moves, LogInv
    <3>2. \A i \in DOMAIN lines' : lines'[i].request = q => i \in DOMAIN lines
      BY <1>2, <2>1
    <3> QED BY <1>0, <3>1, <3>2 DEF Stage
  <2>2. CASE q = r /\ request'[r].step = "handling"
    <3>1. request'[r].store = r
      BY <2>2 DEF Moves, LogInv, Stage
    <3>2. \A i \in DOMAIN lines' : lines'[i].request = r => lines'[i].type # "RESPONSE"
      <4>1. \A i \in DOMAIN lines : lines[i].request = r => lines[i].type # "RESPONSE"
        BY DEF Moves, LogInv, Stage
      <4>2. \A i \in DOMAIN lines' \ DOMAIN lines : lines'[i].type # "RESPONSE"
        BY <1>0, <2>2 DEF Writes
      <4> QED BY <1>0, <4>1, <4>2
    <3>3. \E i \in DOMAIN lines' : lines'[i].type = "REQUEST" /\ lines'[i].request = r
      BY <1>0 DEF Moves, LogInv, Stage
    <3> QED BY <2>2, <3>1, <3>2, <3>3 DEF Stage
  <2>3. CASE q = r /\ request'[r].step = "replied"
    BY <2>3 DEF Stage
  <2> QED BY <2>1, <2>2, <2>3 DEF Moves
<1>5. ASSUME NEW i \in DOMAIN lines', lines'[i].type = "RESPONSE" PROVE ResponseTrue(i)'
  <2>0. i \in Nat /\ i >= 1 /\ i <= Len(lines')
    BY <1>0
  <2>1. CASE i \in DOMAIN lines
    <3>1. lines'[i] = lines[i] /\ i <= Len(lines)
      BY <1>0, <2>1
    <3>2. ResponseTrue(i)
      BY <1>5, <2>1, <3>1 DEF LogInv, ResponseLinesTrue, ResponseTrue
    <3>3. lines[i].request \in Requests
      <4>1. lines[i] \in Lines
        BY <1>0, <2>1
      <4> QED BY <4>1 DEF Lines
    <3>4. lines[i].request # r
      BY <1>5, <2>1, <3>1 DEF Moves, LogInv, Stage
    <3>5. lines'[i].status = replies'[lines'[i].request].status
      BY <3>1, <3>2, <3>3, <3>4 DEF Moves, ResponseTrue
    <3>6. \E j \in 1..(i - 1) :
            lines'[j].type = "REQUEST" /\ lines'[j].request = lines'[i].request
      <4>1. PICK j \in 1..(i - 1) :
              lines[j].type = "REQUEST" /\ lines[j].request = lines[i].request
        BY <3>2 DEF ResponseTrue
      <4>2. j \in DOMAIN lines
        BY <1>0, <2>0, <3>1, <4>1
      <4> QED BY <1>0, <3>1, <4>1, <4>2
    <3>7. \A j \in (i + 1)..Len(lines') : lines'[j].request # lines'[i].request
      <4> SUFFICES ASSUME NEW j \in (i + 1)..Len(lines')
                   PROVE  lines'[j].request # lines[i].request
        BY <3>1
      <4>0. j \in DOMAIN lines' /\ j \in Nat /\ j >= i + 1
        BY <1>0, <2>0
      <4>1. CASE j \in DOMAIN lines
        <5>1. j \in (i + 1)..Len(lines) /\ lines'[j] = lines[j]
          BY <1>0, <2>0, <4>0, <4>1
        <5> QED BY <3>2, <5>1 DEF ResponseTrue
      <4>2. CASE j \notin DOMAIN lines
        BY <1>2, <3>4, <4>0, <4>2
      <4> QED BY <4>1, <4>2
    <3> QED BY <3>5, <3>6, <3>7 DEF ResponseTrue
  <2>2. CASE i \notin DOMAIN lines
    <3>1. /\ lines'[i].request = r /\ i = Len(lines') /\ request[r].step = "handling"
          /\ lines'[i].status = replies'[r].status
      BY <1>0, <1>5, <2>2 DEF Writes
    <3>2. PICK j \in DOMAIN lines : lines[j].type = "REQUEST" /\ lines[j].request = r
      BY <3>1 DEF LogInv, Stage
    <3>3. j \in 1..(i - 1) /\ lines'[j] = lines[j]
      BY <1>0, <2>0, <2>2, <3>2
    <3>4. (i + 1)..Len(lines') = {}
      BY <1>0, <3>1
    <3> QED BY <3>1, <3>2, <3>3, <3>4 DEF ResponseTrue
  <2> QED BY <2>1, <2>2
<1>6. ResponseLinesTrue'
  BY <1>5 DEF ResponseLinesTrue, ResponseTrue
<1> QED BY <1>1, <1>3, <1>4, <1>6 DEF LogInv

-----------------------------------------------------------------------------
LEMMA UseKeeps ==
  ASSUME LogInv, NEW r \in Requests, NEW route \in Routes, Use(r, route)
  PROVE  LogInv'
<1> DEFINE line == LogLine(r, "REQUEST", r, 0)
<1>1. line \in Lines /\ line.request = r /\ line.correlationId = r /\ line.type = "REQUEST"
  BY DEF LogLine, Lines
<1>2. lines \in Seq(Lines) /\ lines' = Append(lines, line) /\ Len(lines) \in Nat
  BY DEF Use, LogInv, LogTypes
<1> HIDE DEF line
<1>3. Writes(r)
  BY <1>1, <1>2, OneMoreLine DEF Writes
<1>4. /\ DOMAIN request = Requests /\ DOMAIN replies = Requests
      /\ replies' = replies /\ request[r].step = "idle"
  BY DEF LogInv, LogTypes, Use
<1>5. /\ DOMAIN request' = Requests
      /\ \A q \in Requests \ {r} : request'[q] = request[q]
      /\ request'[r].route = route /\ request'[r].step = "handling" /\ request'[r].store = r
  BY <1>4 DEF Use
<1>6. Moves(r)
  <2>1. Len(lines) + 1 \in DOMAIN lines' /\ lines'[Len(lines) + 1] = line
    BY <1>1, <1>2, OneMoreLine
  <2> QED BY <1>1, <1>4, <1>5, <2>1 DEF Moves
<1> QED BY <1>3, <1>6, StepKeeps

LEMMA GoesOnKeeps ==
  ASSUME LogInv, NEW r \in Requests, GoesOn(r)
  PROVE  LogInv'
<1> DEFINE line == LogLine(r, "AUDIT", request[r].store, 0)
<1>0. /\ DOMAIN request = Requests /\ DOMAIN replies = Requests /\ replies' = replies
      /\ request[r].step = "handling" /\ request[r].store = r /\ request[r].route \in Routes
      /\ lines \in Seq(Lines) /\ Len(lines) \in Nat
  BY DEF LogInv, LogTypes, GoesOn, Stage
<1>1. line \in Lines /\ line.request = r /\ line.correlationId = r /\ line.type = "AUDIT"
  BY <1>0 DEF LogLine, Lines
<1>2. lines' = Append(lines, line) \/ lines' = lines
  BY DEF GoesOn
<1> HIDE DEF line
<1>3. Writes(r)
  <2>1. CASE lines' = Append(lines, line)
    BY <1>0, <1>1, <2>1, OneMoreLine DEF Writes
  <2>2. CASE lines' = lines
    BY <1>0, <2>2 DEF Writes
  <2> QED BY <1>2, <2>1, <2>2
<1>4. /\ DOMAIN request' = Requests
      /\ \A q \in Requests \ {r} : request'[q] = request[q]
      /\ request'[r].route = request[r].route /\ request'[r].step = request[r].step
      /\ request'[r].store = request[r].store
  <2>1. PICK awaits : request' = [request EXCEPT ![r].awaits = awaits]
    BY DEF GoesOn
  <2> QED BY <1>0, <2>1
<1>5. Moves(r)
  BY <1>0, <1>4 DEF Moves
<1> QED BY <1>3, <1>5, StepKeeps

(* A reply, with or without the lines before it and of it. *)
LEMMA RepliesKeeps ==
  ASSUME LogInv, NEW r \in Requests, request[r].step = "handling",
         NEW status \in Nat, NEW body, NEW before,
         before \in {<<>>, <<LogLine(r, "ERROR", request[r].store, status)>>},
         Replies(r, status, body, before)
  PROVE  LogInv'
<1> DEFINE error == LogLine(r, "ERROR", request[r].store, status)
           response == LogLine(r, "RESPONSE", request[r].store, status)
           first == lines \o before
<1>0. /\ DOMAIN request = Requests /\ DOMAIN replies = Requests
      /\ request[r].store = r /\ request[r].route \in Routes
      /\ lines \in Seq(Lines) /\ Len(lines) \in Nat
  BY DEF LogInv, LogTypes, Stage
<1>1. /\ error \in Lines /\ error.request = r /\ error.correlationId = r /\ error.type = "ERROR"
      /\ response \in Lines /\ response.request = r /\ response.correlationId = r
      /\ response.status = status
  BY <1>0 DEF LogLine, Lines
<1>2. lines' = first \o (IF request[r].wrapped THEN <<response>> ELSE <<>>)
  BY DEF Replies
<1>3. before = <<>> \/ before = <<error>>
  OBVIOUS
<1> HIDE DEF error, response
<1>4. first = lines \/ first = Append(lines, error)
  BY <1>0, <1>1, <1>3, LinesOf
<1>5. /\ first \in Seq(Lines) /\ Len(first) \in Nat /\ Len(first) >= Len(lines)
      /\ \A i \in 1..Len(lines) : first[i] = lines[i]
      /\ \A i \in (Len(lines) + 1)..Len(first) :
           first[i].request = r /\ first[i].correlationId = r /\ first[i].type = "ERROR"
  <2> HIDE DEF first
  <2>1. CASE first = lines
    BY <1>0, <2>1
  <2>2. CASE first = Append(lines, error)
    BY <1>0, <1>1, <2>2, OneMoreLine
  <2> QED BY <1>4, <2>1, <2>2
<1> HIDE DEF first
<1>6. lines' = first \/ lines' = Append(first, response)
  BY <1>1, <1>2, <1>5, LinesOf
<1>7. /\ DOMAIN request' = Requests /\ DOMAIN replies' = Requests
      /\ \A q \in Requests \ {r} : request'[q] = request[q] /\ replies'[q] = replies[q]
      /\ request'[r].route = request[r].route /\ request'[r].step = "replied"
      /\ replies'[r].status = status
  <2>1. /\ request' = [request EXCEPT ![r].step = "replied"]
        /\ replies' = [replies EXCEPT ![r] = [status |-> status, body |-> body]]
    BY DEF Replies
  <2> QED BY <1>0, <2>1
<1>8. Writes(r)
  <2>1. CASE lines' = first
    BY <1>0, <1>5, <2>1 DEF Writes
  <2>2. CASE lines' = Append(first, response)
    <3>1. /\ lines' \in Seq(Lines) /\ Len(lines') = Len(first) + 1
          /\ \A i \in 1..Len(first) : lines'[i] = first[i]
          /\ lines'[Len(first) + 1] = response
      BY <1>1, <1>5, <2>2, OneMoreLine
    <3>2. ASSUME NEW i \in (Len(lines) + 1)..Len(lines')
          PROVE  /\ lines'[i].request = r /\ lines'[i].correlationId = r
                 /\ lines'[i].type = "RESPONSE" =>
                      /\ i = Len(lines') /\ lines'[i].status = replies'[r].status
      <4>1. CASE i = Len(first) + 1
        BY <1>1, <1>7, <3>1, <4>1
      <4>2. CASE i # Len(first) + 1
        <5>1. i \in (Len(lines) + 1)..Len(first) /\ i \in 1..Len(first)
          BY <1>0, <1>5, <3>1, <4>2
        <5> QED BY <1>5, <3>1, <5>1
      <4> QED BY <4>1, <4>2
    <3>3. Len(lines') >= Len(lines) /\ \A i \in 1..Len(lines) : lines'[i] = lines[i]
      BY <1>0, <1>5, <3>1
    <3> QED BY <1>7, <3>1, <3>2, <3>3 DEF Writes
  <2> QED BY <1>6, <2>1, <2>2
<1>9. Moves(r)
  BY <1>0, <1>7 DEF Moves
<1> QED BY <1>8, <1>9, StepKeeps

LEMMA LogStep == LogInv /\ [Next]_vars => LogInv'
<1> SUFFICES ASSUME LogInv, [Next]_vars PROVE LogInv'
  OBVIOUS
<1>1. ASSUME NEW r \in Requests, NEW route \in Routes, Use(r, route) PROVE LogInv'
  BY <1>1, UseKeeps
<1>2. ASSUME NEW r \in Requests, GoesOn(r) PROVE LogInv'
  BY <1>2, GoesOnKeeps
<1>0. \A r \in Requests : request[r].route \in Routes
  BY DEF LogInv, LogTypes
<1>3. ASSUME NEW r \in Requests, Returns(r) PROVE LogInv'
  <2> DEFINE status == DefaultStatus(request[r].route)
  <2>1. status \in Nat /\ request[r].step = "handling"
        /\ Replies(r, status, Envelope(status, "result"), <<>>)
    BY <1>0, <1>3, StatusTyped DEF Returns
  <2> HIDE DEF status
  <2> QED BY <2>1, RepliesKeeps
<1>4. ASSUME NEW r \in Requests, ReportsHealth(r) PROVE LogInv'
  <2> DEFINE status == DefaultStatus("health")
  <2>1. PICK database \in {"up", "down"} :
          Replies(r, status, Envelope(status, IF database = "up" THEN "ok" ELSE "error"), <<>>)
    BY <1>4 DEF ReportsHealth
  <2>2. status \in Nat /\ request[r].step = "handling"
    BY <1>4, StatusTyped DEF ReportsHealth, Routes
  <2> HIDE DEF status
  <2> QED BY <2>1, <2>2, RepliesKeeps
<1>5. ASSUME NEW r \in Requests, NEW exception \in Thrown, Throws(r, exception) PROVE LogInv'
  <2> DEFINE status == HandleException(exception, TRUE)
             before == IF IsLogged(exception)
                       THEN <<LogLine(r, "ERROR", request[r].store, status)>> ELSE <<>>
  <2>1. status \in Nat /\ request[r].step = "handling"
        /\ Replies(r, status, [status |-> status, data |-> "error"], before)
    BY <1>5, StatusTyped DEF Throws
  <2>2. before \in {<<>>, <<LogLine(r, "ERROR", request[r].store, status)>>}
    OBVIOUS
  <2> HIDE DEF status, before
  <2> QED BY <2>1, <2>2, RepliesKeeps
<1>6. CASE UNCHANGED vars
  BY <1>6 DEF vars, LogInv, LogTypes, Stage, LinesCarryTheirRequest, ResponseLinesTrue
<1> QED BY <1>1, <1>2, <1>3, <1>4, <1>5, <1>6 DEF Next, Handle

LEMMA LogInvariant == Spec => []LogInv
<1> QED BY LogInit, LogStep, PTL DEF Spec

(* However many requests overlap and however often each awaits, every line     *)
(* carries the id of the request it is about (requestStorage of HttpMiddleware *)
(* and writeLog).                                                              *)
THEOREM LinesCorrect == Spec => []LinesCarryTheirRequest
<1>1. LogInv => LinesCarryTheirRequest
  BY DEF LogInv
<1> QED BY <1>1, LogInvariant, PTL

(* A RESPONSE line is the last of its request, comes after its REQUEST line    *)
(* and names the status the client received (the override of send in           *)
(* HttpMiddleware).                                                            *)
THEOREM ResponseLinesCorrect == Spec => []ResponseLinesTrue
<1>1. LogInv => ResponseLinesTrue
  BY DEF LogInv
<1> QED BY <1>1, LogInvariant, PTL
=============================================================================
