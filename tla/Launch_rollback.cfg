SPECIFICATION FairSpec
CONSTANTS
  Leftovers = {"cgroup", "lease", "veth"}
  Publishes = TRUE
  PublishBreaks = FALSE
  UndoFails = TRUE
  CgroupWanted = FALSE
INVARIANT FailureLeavesNothing
INVARIANT StopLeavesNothing
PROPERTY FailedChildDies
CHECK_DEADLOCK FALSE
