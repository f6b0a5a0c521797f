SPECIFICATION LookupSpec
CONSTANTS
  Main = Main
  Cos = {c1, c2}
INVARIANT NoStaleWaker
CHECK_DEADLOCK FALSE
