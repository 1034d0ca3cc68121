CONSTANTS
  MaxSockets = 2
  MaxQueue = 2
  UninitHandles = {0, 9}
SPECIFICATION Spec
INVARIANTS TypeOK HandoverInv ServedSession
PROPERTIES PortKept StartIsNoticed StopClosesPolledSocket DestructorReturns
CHECK_DEADLOCK FALSE
