CONSTANTS
  Connection = {1}
  MaxListeners = 1
  MaxSockets = 1
  MaxOutgoing = 1
SPECIFICATION Spec
INVARIANT AssertsHold
CHECK_DEADLOCK FALSE
