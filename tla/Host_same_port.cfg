SPECIFICATION Spec
CONSTANTS
  Container <- MCContainers
  Addr = {1, 2}
  Port <- MCSamePort
  Needs <- MCNeeds
  Bridge = {myrun0}
  DEFAULT_BRIDGE = myrun0
  On <- MCDefault
  AllowMissing = FALSE
  CloneIntoCgroup = TRUE
  GcRaces = FALSE
  Scenarios <- MCRace
CHECK_DEADLOCK FALSE
INVARIANT
  PortLeadsHome
