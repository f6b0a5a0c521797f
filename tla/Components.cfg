SPECIFICATION ComponentsSpec
CONSTANTS
  NoNode = 0
  Nodes = {1, 2, 3, 4, 5, 6}
  Priorities = {1, 2, 3, 4}
  MaxTimers = 3
  Msecs = {1, 2}
  MaxTime = 3
  Threads = {t1, t2}
  Reader = t1
  Workers = {w1, w2}
  Target = w1
  NoPacket = NoPacket
  Sizes = {0, 3}
  IpcSize = 2
  PipeSize = 1
  MaxPackets = 2
  MaxSessions = 2
  MaxRestarts = 1
  MaxRequests = 3
  ReconnectInterval = 2
  MaxCommands = 4
  Stmts = {s1, s2}
  NoStmt = NoStmt
  MaxStreams = 2
  MaxUnits = 2
  MaxWire = 1
  DefaultWindow = 1
  MaxWindow = 12
  MaxConnections = 1
  HttpRequests = 2
  MaxWrites = 2
  MaxMessages = 2
  MaxFrames = 2
  Owner = w1
  Other = w2
  Readers = {"length", "ssl_length", "split", "ssl_split", "co_length", "co_eof"}
  Streams <- Streams3
  HeaderLen = 2
  Eof <- Eof3
  RecvBuffer = 4
INVARIANTS HeapMatchesMap     StreamsAgree PacketsExact
PROPERTIES ImplementsQueue OncePerSelect
CHECK_DEADLOCK FALSE
