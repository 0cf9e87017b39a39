SPECIFICATION Spec
CONSTANTS
  None = None
  Width <- MCWidth
  Subnet <- OneSubnet
  Proc = {p1, p2}
  Id = {c1, c2}
  Requests = {0}
  Gateways = {2}
  Config <- MCConfig
  Jobs = {"allocate", "release", "gc"}
SYMMETRY Symmetric
INVARIANT ReservedNeverLeased
