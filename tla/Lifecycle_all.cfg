SPECIFICATION Spec
CONSTANTS
  Sup = {t1}
  None = None
  Ops = {"start", "startA", "run", "stop", "term", "kill9", "pause", "unpause", "rm", "rmf", "wait", "gc"}
  MaxOps = 4
  AutoRemove = FALSE
  HasCgroup = TRUE
  ShimCrash = TRUE
  CliCrash = TRUE
  KillStalls = TRUE
  PidReuse = TRUE
INVARIANT RemoveLeavesNothing
CHECK_DEADLOCK FALSE
