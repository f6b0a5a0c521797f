SPECIFICATION ManagerSpec
CONSTANTS
  WorkerNum = 2
  TaskWorkerNum = 0
  UserWorkerNum = 0
  ReloadAsyncs = {TRUE}
  TaskCoroutines = {FALSE}
  MaxWaitTime = TRUE
  MaxOutside = 3
  MaxForkFails = 0
INVARIANTS NoOrphan
CHECK_DEADLOCK FALSE
