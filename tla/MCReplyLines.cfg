CONSTANTS
  q1 = q1  q2 = q2
  Requests = {q1, q2}
  NoStore = NoStore
  Adapters = {"fastify"}
  MaxAwaits = 2
SPECIFICATION Spec
INVARIANT RepliesAreLogged
CHECK_DEADLOCK FALSE
