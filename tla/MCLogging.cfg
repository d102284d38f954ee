CONSTANTS
  Threads = {main, worker}
  Main = main
  NoThread = NoThread
  Fields = 2
  BoxLines = 2
  MaxCalls = 3
SPECIFICATION FairSpec
INVARIANTS LogsAgree MutexKept FailsWhole
PROPERTIES LoggersReturn
CHECK_DEADLOCK FALSE
