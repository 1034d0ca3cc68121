CONSTANTS
  Worker = {"w1", "w2"}
  Client = {"c1", "c2"}
  MaxTasks = 3
SPECIFICATION PoolSpec
INVARIANTS PoolTypeOK Exclusion NeverTwice NoneLost
PROPERTIES QueuedIsRun PoolDtorReturns
CHECK_DEADLOCK FALSE
