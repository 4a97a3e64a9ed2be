SPECIFICATION Spec
CONSTANTS
  Events = {1, 2, 3, 4}
  MaxTime = 2
  PageSize = 2
CHECK_DEADLOCK FALSE
INVARIANTS TypeOK NothingSkipped NothingRepeated WalkInv
