SPECIFICATION Spec
CONSTANTS
  Sup = {t1, t2}
  None = None
  Ops = {"run", "term"}
  MaxOps = 2
  AutoRemove = FALSE
  HasCgroup = TRUE
  ShimCrash = FALSE
  CliCrash = FALSE
  KillStalls = FALSE
  PidReuse = TRUE
SYMMETRY Terminals
INVARIANT NoStraySignal
CHECK_DEADLOCK FALSE
