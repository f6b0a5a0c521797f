SPECIFICATION CoroutinesSpec
CONSTANTS
  Main = Main
  Cos = {c1, c2, c3}
  Vals = {v1, v2}
  Capacity = 2
INVARIANTS
  StackInv NoStaleWaker AnswerMatchesWaker
  QueuesMatchWaits
  
PROPERTIES ImplementsBoundedChannel TimedWaitEnds
CHECK_DEADLOCK FALSE
