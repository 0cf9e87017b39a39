SPECIFICATION Spec
CONSTANTS
  None = None
  Width <- MCWidth
  Subnet <- OneSubnet
  Proc = {p1, p2}
  Id = {c1, c2, c3}
  Requests = {3}
  Gateways = {}
  Config <- MCConfig
  Jobs = {"allocate", "release"}
SYMMETRY Symmetric
INVARIANT AddressesInUseDistinct
INVARIANT GrantIsLeased
