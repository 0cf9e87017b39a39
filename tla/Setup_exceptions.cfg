SPECIFICATION Spec
CONSTANTS
  Requests <- MCExceptions
  HostTable <- MCTable
  Tree <- MCTree
  Files <- MCFiles
  MaxFaults = 0
  Filters <- MCFilters
  Calls <- MCCalls
CHECK_DEADLOCK FALSE
INVARIANTS
  MountsStayInside
  ReadOnlyDeep
  WorkloadConfined
