SPECIFICATION FairSpec
CONSTANTS
  Orphan = {o1, o2}
  Signals = {"TERM", "HUP"}
  MaxSignals = 2
  Codes = {0, 3}
  Message = 3
  MaxPayload = 2
  PidNs = TRUE
  MaySignal = TRUE
  None = None
INVARIANT FailureIsExplained
INVARIANT NoSignalDiscarded
INVARIANT NoForeignSignal
PROPERTY ImplementsSession
PROPERTY LaunchEnds
PROPERTY ExitIsRecorded
PROPERTY SignalsReachWorkload
CHECK_DEADLOCK FALSE
