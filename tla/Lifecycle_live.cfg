SPECIFICATION FairSpec
CONSTANTS
  Sup = {t1, t2}
  None = None
  Ops = {"start", "stop", "wait"}
  MaxOps = 3
  AutoRemove = FALSE
  HasCgroup = TRUE
  ShimCrash = TRUE
  CliCrash = FALSE
  KillStalls = FALSE
  PidReuse = FALSE
PROPERTY CommandsTerminate
PROPERTY DeadWaitReturns
CHECK_DEADLOCK FALSE
