CONSTANTS
  EnvLevels <- MCEnvLevels
  OwnContexts <- MCOwnContexts
  Methods = {"ERROR", "LOG"}
  Params <- MCParams
  Undefined = Undefined
  MaxParams = 3
  MaxNames = 2
SPECIFICATION Spec
INVARIANT HighestPriorityChosen
