SPECIFICATION Spec
CONSTANTS
  Sup = {t1, t2}
  None = None
  Ops = {"start", "stop", "term", "kill9", "pause", "unpause", "wait"}
  MaxOps = 3
  AutoRemove = FALSE
  HasCgroup = TRUE
  ShimCrash = TRUE
  CliCrash = FALSE
  KillStalls = TRUE
  PidReuse = FALSE
SYMMETRY Terminals
INVARIANTS AtMostOneInit StoppedMeansDead RunningIsRecorded FrozenIffPaused ReturnedMeansDead
CHECK_DEADLOCK FALSE
