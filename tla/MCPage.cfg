SPECIFICATION PageSpec
CONSTANTS
  Subs = {1}
  p1 = p1
  a = a
  b = b
  Posts <- MCPosts
  Slots <- MCSlots
  MaxVersion = 1
  MaxLosses = 1
INVARIANTS
  FollowUpOnce
PROPERTIES
  CatchesUp
  TimeUpEnds
CHECK_DEADLOCK FALSE
