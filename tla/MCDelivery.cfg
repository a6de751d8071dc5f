SPECIFICATION Spec
CONSTANTS
  Keep = 2
  Batch = 2
  FlushAt = 2
  MaxEvents = 3
  MaxBlurs = 1
  MaxQueues = 2
  loose1 = loose1
  Loose <- MCLoose
  MaxFailures = 1
INVARIANTS
  NothingLost
  ReturnEndsAbsence
  OneAbsenceOpen
PROPERTIES
  QueueDrains
CHECK_DEADLOCK FALSE
