CONSTANTS
  Threads = {1, 2, main}
  Owner = main
  ThreadCount = 2
  Data = {d1, d2}
  MaxSize = 0
  NULL = NULL
  MaxAddrs = 2
  CommandLines <- MCCommandLines
  Configs <- MCConfigs
SPECIFICATION AppSpec
INVARIANTS  ReturnsOnlyOnSignal StartsAsAsked
PROPERTIES CleanupCompletes
CHECK_DEADLOCK FALSE
