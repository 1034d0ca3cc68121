CONSTANTS
  Worker = {"w1"}
  Client = {"c1"}
  MaxTasks = 2
SPECIFICATION PoolSpec
PROPERTY TaskIsRun
CHECK_DEADLOCK FALSE
