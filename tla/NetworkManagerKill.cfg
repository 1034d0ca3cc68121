CONSTANTS
  Client = {a}
  Poster = {p1}
  MaxFunctions = 1
  MaxInits = 1
  MaxCalls = 1
SPECIFICATION Spec
PROPERTY KillReturns
CHECK_DEADLOCK FALSE
