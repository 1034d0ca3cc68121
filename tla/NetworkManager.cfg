CONSTANTS
  Client = {a, b}
  Poster = {p1}
  MaxFunctions = 2
  MaxInits = 2
  MaxCalls = 4
SPECIFICATION Spec
INVARIANTS TypeOK CoreOutlivesUse SleepsOnlyIdle
PROPERTIES PromiseKept CallReturns KillReturnsWhenClosed ServedIsExecuted
CHECK_DEADLOCK FALSE
