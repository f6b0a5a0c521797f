SPECIFICATION ServerSpec
CONSTANTS
  Fds = {1}
  Workers = {0, 1}
  Modes = {"hash", "silent"}
  Heartbeats = {TRUE, FALSE}
  SessionListSize = 2
  PipeSize = 1
  BufferSize = 1
  MaxQueued = 0
  MaxSession = 2
  MaxData = 2
  MaxCalls = 2
  MaxForce = 1
  MaxCrash = 1
  MaxOutside = 3
  Callers = {c1, c2}
  TaskNum = 2
  TasksPerCall = 2
  MaxTasks = 3
  MaxKills = 1
  MaxFails = 1
INVARIANTS SessionsMatch NeverDeaf OwnAnswers
PROPERTIES  DeadConnectionFreed CallsEnd
CHECK_DEADLOCK FALSE
