SPECIFICATION Spec
CONSTANTS
  Sup = {t1, t2}
  None = None
  Ops = {"start", "startA", "kill9", "rmf"}
  MaxOps = 3
  AutoRemove = TRUE
  HasCgroup = TRUE
  ShimCrash = FALSE
  CliCrash = FALSE
  KillStalls = FALSE
  PidReuse = FALSE
SYMMETRY Terminals
INVARIANT SupervisorsLeaveNothing
CHECK_DEADLOCK FALSE
