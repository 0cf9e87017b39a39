SPECIFICATION Spec
CONSTANTS
  Sup = {t1, t2}
  None = None
  Ops = {"run", "wait"}
  MaxOps = 2
  AutoRemove = FALSE
  HasCgroup = TRUE
  ShimCrash = FALSE
  CliCrash = FALSE
  KillStalls = FALSE
  PidReuse = FALSE
SYMMETRY Terminals
PROPERTY ExitStatusKept
CHECK_DEADLOCK FALSE
