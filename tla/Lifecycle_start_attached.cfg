SPECIFICATION Spec
CONSTANTS
  Sup = {t1, t2}
  None = None
  Ops = {"start", "startA"}
  MaxOps = 2
  AutoRemove = FALSE
  HasCgroup = TRUE
  ShimCrash = FALSE
  CliCrash = FALSE
  KillStalls = FALSE
  PidReuse = FALSE
SYMMETRY Terminals
INVARIANT RunningIsRecorded
CHECK_DEADLOCK FALSE
