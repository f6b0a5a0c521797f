SPECIFICATION ReactorSpec
CONSTANTS
  Sockets = {"a", "b"}
  Signals = {1, 2}
  Signalfds = {TRUE, FALSE}
  BufferSize = 2
  MaxOps = 4
INVARIANTS LoopSound 
PROPERTY SignalsHandled
CHECK_DEADLOCK FALSE
