CONSTANTS
  Threads = {1, 2, main, client}
  Owner = main
  ThreadCount = 2
  Data = {d1, d2, d3}
  MaxSize = 0
  NULL = NULL
SPECIFICATION PoolFairSpec
INVARIANTS TaskOnce NoTaskDropped FreedWhenIdle
PROPERTIES AcceptedTaskRuns ShutdownTerminates
CHECK_DEADLOCK FALSE
