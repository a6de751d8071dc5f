SPECIFICATION Spec
CONSTANTS
  a = a
  b = b
  Slots <- MCSlots
  MaxEdits = 2
  MaxLoads = 2
  MaxJoins = 2
  MaxLosses = 1
SYMMETRY MCSymmetry
INVARIANTS
  SavedIsStored
  ViewIsLatest
CHECK_DEADLOCK FALSE
