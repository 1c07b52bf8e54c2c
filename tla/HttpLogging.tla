---------------------------- MODULE HttpLogging ----------------------------
(***************************************************************************)
(* HttpMiddleware, the request context it opens, and everything that writes *)
(* a line or a reply inside it: the handlers, GlobalExceptionFilter,        *)
(* TransformInterceptor and the health check, over concurrent requests.     *)
(*                                                                          *)
(* requestStorage is an AsyncLocalStorage: run() sets the store for a call  *)
(* and for whatever is awaited inside it, and a continuation runs with the  *)
(* store that was current when it was made.  Between two awaits a request   *)
(* runs alone; a step is what happens from one await to the next.           *)
(***************************************************************************)
EXTENDS ErrorHandler, Sequences

CONSTANTS
  Requests,   \* each is used once; its name stands for its random UUID
  NoStore,    \* getStore() outside of run()
  Adapters,   \* the HTTP adapters to start with: "fastify", as main.ts does, or
              \* "express", Nest's own choice and that of test/app.e2e-spec.ts
  MaxAwaits   \* bound on the awaits of a handler

ASSUME AdaptersKnown == Adapters \subseteq {"fastify", "express"} /\ MaxAwaits \in Nat

VARIABLES
  adapter,
  request,  \* request -> step, route, awaits so far, store of its continuation
  lines,    \* the log
  replies   \* request -> what the client received

vars == <<adapter, request, lines, replies>>

Routes == {"get", "post", "health"}

(* What Nest sets before the interceptors run: 201 for a POST. *)
DefaultStatus(route) == IF route = "post" THEN 201 ELSE 200

NoReply == [status |-> 0, body |-> [status |-> 0, data |-> "nothing"]]

Init ==
  /\ adapter \in Adapters
  /\ request = [r \in Requests |->
       [step |-> "idle", route |-> "get", awaits |-> 0, store |-> NoStore, wrapped |-> FALSE]]
  /\ lines = <<>>
  /\ replies = [r \in Requests |-> NoReply]

(* writeLog: the correlation id is the store's at the time of writing. *)
LogLine(r, type, store, status) ==
  [request |-> r, type |-> type, correlationId |-> store, status |-> status]

(* Nest's Fastify adapter hands middleware the raw response, which has no     *)
(* send of its own that a reply would go through; Express's response has one. *)
ReplyIsWrapped == adapter = "express"

(* Faulty variant: the status of the line is the one the response began with. *)
RepliesWithFirstStatus(r, status, body, before) ==
  /\ replies' = [replies EXCEPT ![r] = [status |-> status, body |-> body]]
  /\ lines' = lines \o before \o
       (IF request[r].wrapped
        THEN <<LogLine(r, "RESPONSE", request[r].store, DefaultStatus(request[r].route))>> ELSE <<>>)
  /\ request' = [request EXCEPT ![r].step = "replied"]
  /\ UNCHANGED adapter

(* The original send, then, if it goes through the override, the RESPONSE     *)
(* line, with the status the response has by then.                            *)
Replies(r, status, body, before) ==
  /\ replies' = [replies EXCEPT ![r] = [status |-> status, body |-> body]]
  /\ lines' = lines \o before \o
       (IF request[r].wrapped THEN <<LogLine(r, "RESPONSE", request[r].store, status)>> ELSE <<>>)
  /\ request' = [request EXCEPT ![r].step = "replied"]
  /\ UNCHANGED adapter

(* Faulty variant: the store is set for the line only, not for what follows. *)
UseWithoutNext(r, route) ==
  /\ request[r].step = "idle"
  /\ lines' = Append(lines, LogLine(r, "REQUEST", r, 0))
  /\ request' = [request EXCEPT ![r] = [step |-> "handling", route |-> route, awaits |-> 0,
                                        store |-> NoStore, wrapped |-> ReplyIsWrapped]]
  /\ UNCHANGED <<adapter, replies>>

(* HttpMiddleware.use, and the way through the following middleware up to the *)
(* first await; everything happens inside run().                              *)
Use(r, route) ==
  /\ request[r].step = "idle"
  /\ lines' = Append(lines, LogLine(r, "REQUEST", r, 0))
  /\ request' = [request EXCEPT ![r] = [step |-> "handling", route |-> route, awaits |-> 0,
                                        store |-> r, wrapped |-> ReplyIsWrapped]]
  /\ UNCHANGED <<adapter, replies>>

(* What the handler awaits settles; it goes on to the next await, and may log *)
(* (an authorization decision) on the way.                                    *)
GoesOn(r) ==
  /\ request[r].step = "handling" /\ request[r].awaits < MaxAwaits
  /\ request' = [request EXCEPT ![r].awaits = @ + 1]
  /\ \/ lines' = Append(lines, LogLine(r, "AUDIT", request[r].store, 0))
     \/ UNCHANGED lines
  /\ UNCHANGED <<adapter, replies>>

(* TransformInterceptor: the status is what the response has at this point. *)
Envelope(status, data) == [status |-> status, data |-> data]

Returns(r) ==
  /\ request[r].step = "handling" /\ request[r].route # "health"
  /\ LET status == DefaultStatus(request[r].route)
     IN  Replies(r, status, Envelope(status, "result"), <<>>)

(* The health check awaits one query; a failure is an answer like any other. *)
ReportsHealth(r) ==
  /\ request[r].step = "handling" /\ request[r].route = "health"
  /\ \E database \in {"up", "down"} :
       LET status == DefaultStatus("health")
       IN  Replies(r, status, Envelope(status, IF database = "up" THEN "ok" ELSE "error"), <<>>)

(* Something is thrown, in a middleware or in the handler: the filter logs    *)
(* it, if it is of a kind that is logged, and replies with its status.        *)
Throws(r, exception) ==
  /\ request[r].step = "handling"
  /\ LET status == HandleException(exception, TRUE)
     IN  Replies(r, status, [status |-> status, data |-> "error"],
                 IF IsLogged(exception)
                 THEN <<LogLine(r, "ERROR", request[r].store, status)>> ELSE <<>>)

Handle(r) ==
  \/ GoesOn(r) \/ Returns(r) \/ ReportsHealth(r)
  \/ \E exception \in Thrown : Throws(r, exception)

Next ==
  \E r \in Requests : (\E route \in Routes : Use(r, route)) \/ Handle(r)

Spec == Init /\ [][Next]_vars

-----------------------------------------------------------------------------
TypeOK ==
  /\ adapter \in Adapters
  /\ request \in [Requests -> [step: {"idle", "handling", "replied"}, route: Routes,
                               awaits: 0..MaxAwaits, store: Requests \cup {NoStore},
                               wrapped: BOOLEAN]]
  /\ lines \in Seq([request: Requests, type: {"REQUEST", "AUDIT", "ERROR", "RESPONSE"},
                    correlationId: Requests \cup {NoStore}, status: Nat])
  /\ \A r \in Requests : replies[r].status \in Nat

(* However requests overlap, every line, whoever writes it and after however  *)
(* many awaits, carries the id of the request it is about: the lines of a     *)
(* request can be picked out of the log by the id of its first one.           *)
LinesCarryTheirRequest ==
  \A i \in DOMAIN lines : lines[i].correlationId = lines[i].request

(* A RESPONSE line is the last of its request and the only one of its type,   *)
(* comes after the REQUEST line, and names the status the client received.    *)
ResponseLinesTrue ==
  \A i \in DOMAIN lines :
    lines[i].type = "RESPONSE" =>
      /\ lines[i].status = replies[lines[i].request].status
      /\ \E j \in 1..(i - 1) :
           lines[j].type = "REQUEST" /\ lines[j].request = lines[i].request
      /\ \A j \in (i + 1)..Len(lines) : lines[j].request # lines[i].request

(* What the comments of the middleware say it does: the data of a response is *)
(* captured, and logged.                                                      *)
RepliesAreLogged ==
  \A r \in Requests :
    request[r].step = "replied" =>
      \E i \in DOMAIN lines : lines[i].request = r /\ lines[i].type = "RESPONSE"
=============================================================================
