SPECIFICATION Spec
CONSTANTS
  Sup = {t1, t2}
  None = None
  Ops = {"start", "stop", "rm"}
  MaxOps = 3
  AutoRemove = FALSE
  HasCgroup = TRUE
  ShimCrash = FALSE
  CliCrash = FALSE
  KillStalls = FALSE
  PidReuse = FALSE
SYMMETRY Terminals
INVARIANT LockExclusive
CHECK_DEADLOCK FALSE
