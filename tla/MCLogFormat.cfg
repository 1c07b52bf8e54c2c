CONSTANTS
  line = line  payload = payload  a = a  b = b
  Nodes = {line, payload, a, b}
  Root = line
  Leaf = Leaf  Cut = Cut  Redacted = Redacted
  Graphs <- MCGraphs
  MaxSize = 6
SPECIFICATION FairSpec
INVARIANTS EveryObjectOnce SensitiveValuesReplaced
PROPERTY FormattingEnds
CHECK_DEADLOCK FALSE
