SPECIFICATION Spec
CONSTANTS
  Container <- MCThree
  Addr = {1, 2, 3}
  Port <- MCThreePorts
  Needs <- MCNoNeeds
  Bridge = {myrun0}
  DEFAULT_BRIDGE = myrun0
  On <- MCDefault
  AllowMissing = FALSE
  CloneIntoCgroup = TRUE
  GcRaces = FALSE
  Scenarios <- MCRace
CHECK_DEADLOCK FALSE
INVARIANT
  PortLeadsHome
