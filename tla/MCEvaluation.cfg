CONSTANTS
  r1 = r1
  s1 = s1
  w1 = w1
  Completer = completer
  Retriers <- MCOneRetrier
  Slots <- MCSlots
  Sweepers <- MCOneSweep
  Deployed = TRUE
  Mode = "auto"
  JobAttempts = 2
  MaxJobs = 2
  MaxRetries = 1
  MaxFailures = 1

SPECIFICATION FairSpec
CHECK_DEADLOCK FALSE

INVARIANTS
  OneRunner
  JobLeavesResult
  ShownFollows

PROPERTIES
  CompletedStands
  PendingIsPickedUp
  Settles
