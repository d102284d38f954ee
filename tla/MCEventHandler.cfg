CONSTANTS
  Fds = {4, 5}
  ServerFd = 3
  NoFd = NoFd
  Capacity = 2
  LogLength = 0
  JobResults = {"error", "closed"}
  MaxConnects = 2
  MaxSignals = 1
  MaxFailures = 1
SPECIFICATION FairSpec
INVARIANTS OneOwner PollsOnlyOpen NoClientLost
PROPERTIES ClientServed
CHECK_DEADLOCK FALSE
