SPECIFICATION Spec
CONSTANTS
  Orphan = {o1}
  Signals = {"TERM"}
  MaxSignals = 2
  Codes = {0, 3}
  Message = 3
  MaxPayload = 2
  PidNs = FALSE
  MaySignal = TRUE
  None = None
INVARIANT NoForeignSignal
CHECK_DEADLOCK FALSE
