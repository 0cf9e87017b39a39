SPECIFICATION Spec
CONSTANTS
  Leftovers = {}
  Publishes = TRUE
  PublishBreaks = TRUE
  UndoFails = FALSE
  CgroupWanted = TRUE
INVARIANT FailureLeavesNothing
CHECK_DEADLOCK FALSE
