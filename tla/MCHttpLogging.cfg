CONSTANTS
  q1 = q1  q2 = q2
  Requests = {q1, q2}
  NoStore = NoStore
  Adapters = {"fastify", "express"}
  MaxAwaits = 2
SPECIFICATION Spec
INVARIANTS LinesCarryTheirRequest ResponseLinesTrue
CHECK_DEADLOCK FALSE
