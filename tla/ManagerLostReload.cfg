SPECIFICATION ManagerSpec
CONSTANTS
  WorkerNum = 1
  TaskWorkerNum = 1
  UserWorkerNum = 0
  ReloadAsyncs = {FALSE}
  TaskCoroutines = {FALSE}
  MaxWaitTime = TRUE
  MaxOutside = 2
  MaxForkFails = 0
PROPERTIES ReloadNotLost
CHECK_DEADLOCK FALSE
