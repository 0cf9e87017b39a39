SPECIFICATION Spec
CONSTANTS
  None = None
  Width <- MCWidth
  Subnet <- TwoSubnets
  Proc = {p1, p2}
  Id = {c1, c2, c3}
  Requests = {}
  Gateways = {}
  Config <- MCConfig
  Jobs = {"allocate", "release"}
SYMMETRY Symmetric
INVARIANT AddressesInUseDistinct
