SPECIFICATION ManagerSpec
CONSTANTS
  WorkerNum = 1
  TaskWorkerNum = 0
  UserWorkerNum = 0
  ReloadAsyncs = {TRUE}
  TaskCoroutines = {FALSE}
  MaxWaitTime = TRUE
  MaxOutside = 1
  MaxForkFails = 0
PROPERTIES StopEnds
CHECK_DEADLOCK FALSE
