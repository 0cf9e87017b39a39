SPECIFICATION Spec
CONSTANTS
  Requests <- MCRequests
  HostTable <- MCTable
  Tree <- MCTree
  Files <- MCFiles
  MaxFaults = 1
  Filters <- MCFilters
  Calls <- MCCalls
CHECK_DEADLOCK FALSE
INVARIANTS
  SetupSucceeds
  MountsStayInside
  FilesAsAsked
  WorkloadConfined
  FilterDecides
