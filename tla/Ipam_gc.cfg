SPECIFICATION Spec
CONSTANTS
  None = None
  Width <- MCWidth
  Subnet <- OneSubnet
  Proc = {p1, p2}
  Id = {c1, c2}
  Requests = {}
  Gateways = {}
  Config <- MCConfig
  Jobs = {"allocate", "release", "gc"}
SYMMETRY Symmetric
INVARIANT AddressesInUseDistinct
