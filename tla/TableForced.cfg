SPECIFICATION TableSpec
CONSTANTS
  p1 = p1  p2 = p2  p3 = p3
  k1 = k1  k2 = k2  k3 = k3  k4 = k4  k5 = k5
  v1 = v1  v2 = v2
  NoKey = NoKey  NoVal = NoVal  NoProc = NoProc
  Procs = {p1, p2, p3}
  Iterator = p1
  Size = 1
  PoolSize = 1
  Keys = {k1}
  Vals = {v1, v2}
  Hash <- Hash2
  Given <- Given2
  Loads <- Loads1
  MaxDeaths = 1
  MaxOps = 3
PROPERTY ForcedFromDead
CHECK_DEADLOCK FALSE
