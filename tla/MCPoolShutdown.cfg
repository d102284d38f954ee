CONSTANTS
  Threads = {1, 2, main, client}
  Owner = main
  ThreadCount = 2
  Data = {d1, d2}
  MaxSize = 0
  NULL = NULL
SPECIFICATION PoolFairSpec
PROPERTY WaitsForAllTasks
CHECK_DEADLOCK FALSE
