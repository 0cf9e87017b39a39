SPECIFICATION Spec
CONSTANTS
  None = None
  Width <- MCWidth
  Subnet <- TwoSubnets
  Proc = {p1, p2}
  Id = {c1, c2, c3}
  Requests = {7}
  Gateways = {2}
  Config <- MCConfig
  Jobs = {"allocate", "release", "gc"}
SYMMETRY Symmetric
INVARIANT UniqueLeases
INVARIANT LeasesUsable
INVARIANT ExhaustionIsReal
INVARIANT LockDiscipline
PROPERTY ImplementsTable
