CONSTANTS
  k1 = k1
  k2 = k2
  k3 = k3
  r1 = r1
  r2 = r2
  Keys <- MCOneKey
  Polled <- MCOneKey
  Requests <- MCTwoRequests
  MaxActive = 1
  JobAttempts = 2
  MaxStalls = 1
  MaxFailures = 2

SPECIFICATION FairSpec
CHECK_DEADLOCK FALSE

INVARIANTS
  JudgedOnce
  VerdictOfTheCode

PROPERTIES
  FinalStands
  PendingEnds
