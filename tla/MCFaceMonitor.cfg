SPECIFICATION Spec
CONSTANTS
  NoneGrace = 2
  MultipleGrace = 1
  Starts = {s1, s2}
  NoStart = none
  MaxTime = 5
  MaxDisturbances = 1
SYMMETRY AnyStart
INVARIANTS
  IntervalsCount
  AbsenceReported
  CameraReleased
CHECK_DEADLOCK FALSE
