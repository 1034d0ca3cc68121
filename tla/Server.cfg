CONSTANTS
  Worker = {"w1", "w2"}
  Client = {"server"}
  ServerThread = "server"
  MaxTasks = 3
  RequestLimit = 2
  MaxRequests = 1
  KillFirst = {TRUE, FALSE}
SPECIFICATION Spec
INVARIANTS ServerTypeOK NeverThrows LoggerOutlivesUse
PROPERTIES ManagerAsPromised PoolContract ServerThreadJoins KillReturnsLast
CHECK_DEADLOCK FALSE
