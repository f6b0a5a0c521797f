SPECIFICATION ManagerSpec
CONSTANTS
  WorkerNum = 1
  TaskWorkerNum = 1
  UserWorkerNum = 1
  ReloadAsyncs = {TRUE, FALSE}
  TaskCoroutines = {FALSE}
  MaxWaitTime = TRUE
  MaxOutside = 2
  MaxForkFails = 1
INVARIANT SlotsFilled
PROPERTIES ReloadComplete EndsDespiteHangs
CHECK_DEADLOCK FALSE
