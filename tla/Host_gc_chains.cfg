SPECIFICATION Spec
CONSTANTS
  Container <- MCContainers
  Addr = {1, 2}
  Port <- MCPorts
  Needs <- MCNeeds
  Bridge = {myrun0, br1}
  DEFAULT_BRIDGE = myrun0
  On <- MCTwoBridges
  AllowMissing = FALSE
  CloneIntoCgroup = TRUE
  GcRaces = FALSE
  Scenarios <- MCFailure
CHECK_DEADLOCK FALSE
INVARIANTS
  GcLeavesHostClean
  GcLeavesNoBridge
