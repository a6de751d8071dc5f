SPECIFICATION ChatSpec
CONSTANTS
  a = a
  b = b
  t1 = t1
  t2 = t2
  Requests <- MCRequests
  Triggers <- MCTriggers
  MaxAttempts = 3
  MaxCalls = 3
  MaxDeaths = 1
INVARIANTS
  RepeatAsksNothing
PROPERTIES
  EveryMessageAnswered
CHECK_DEADLOCK FALSE
