SPECIFICATION FairSpec
CONSTANTS
  Orphan = {o1}
  Signals = {"TERM"}
  MaxSignals = 2
  Codes = {0, 3}
  Message = 3
  MaxPayload = 2
  PidNs = TRUE
  MaySignal = FALSE
  None = None
PROPERTY SignalsReachWorkload
CHECK_DEADLOCK FALSE
