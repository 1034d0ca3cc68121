CONSTANTS
  Worker = {"w1"}
  Client = {"server"}
  ServerThread = "server"
  MaxTasks = 1
  RequestLimit = 1
  MaxRequests = 0
  KillFirst = {TRUE}
SPECIFICATION Spec
PROPERTY EverythingIsDestroyed
CHECK_DEADLOCK FALSE
