SPECIFICATION SharedSpec
CONSTANTS
  p1 = p1  p2 = p2  p3 = p3
  k1 = k1  k2 = k2  k3 = k3  k4 = k4  k5 = k5
  v1 = v1  v2 = v2
  NoKey = NoKey  NoVal = NoVal  NoProc = NoProc
  Procs = {p1, p2}
  Iterator = p1
  Size = 2
  PoolSize = 2
  Keys = {k1, k2, k3, k4, k5}
  Vals = {v1, v2}
  Hash <- Hash2
  Given <- Given2
  Loads <- Loads3
  MaxDeaths = 1
  MaxOps = 2
  RingSize = 8
  Blocks = {1, 2, 5}
  Wrap = 1024
  ChanSize = 7
  MaxLen = 2
  Values = {11, 12}
 
PROPERTIES LockRecovered  IterationExact RingSound ImplementsFifo
CHECK_DEADLOCK FALSE
