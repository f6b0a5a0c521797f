SPECIFICATION SystemSpec
CONSTANTS
  NoEvent = NoEvent
  Events = {e1, e2}
  Cores = {t1}
  Extras = {x1, x2, x3}
  WorkerNum = 3
  PipeCap = 3
  BatchSize = 2
  Main = Main
  Cos = {c1, c2}
  Reqs = {r1, r2}
  Pids = {p1, p2}
  AnyPid = AnyPid
INVARIANTS  OneHome RequestsExact WaitsMatch
PROPERTIES  ShutdownEnds
CHECK_DEADLOCK FALSE
