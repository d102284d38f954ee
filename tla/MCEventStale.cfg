CONSTANTS
  Fds = {4, 5}
  ServerFd = 3
  NoFd = NoFd
  Capacity = 2
  LogLength = 49
  JobResults = {"error", "closed"}
  MaxConnects = 2
  MaxSignals = 1
  MaxFailures = 1
SPECIFICATION Spec
INVARIANT ClosedAreRemoved
CHECK_DEADLOCK FALSE
