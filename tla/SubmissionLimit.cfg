CONSTANTS
  k1 = k1
  k2 = k2
  k3 = k3
  r1 = r1
  r2 = r2
  Keys <- MCThreeKeys
  Polled <- MCNone
  Requests <- MCTwoRequests
  MaxActive = 1
  JobAttempts = 2
  MaxStalls = 1
  MaxFailures = 0

SPECIFICATION Spec
CHECK_DEADLOCK FALSE

SYMMETRY MCSymmetry

INVARIANT PendingBounded
