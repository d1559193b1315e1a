SPECIFICATION Spec
CONSTANTS
  p1 = p1
  n1 = n1
  g1 = g1
  v1 = v1
  Pools = {p1}
  Addresses = {a1}
  Clusters = {}
  Everywhere = Everywhere
  Requests <- OneRequest
  NoReq = NoReq
  Workers = {k1}
  NoWorker = NoWorker
  Nodes = {n1}
  NoNode = NoNode
  Vmids = {v1}
  NoVmid = NoVmid
  Outsider = Outsider
  Unassigned = Unassigned
  Unlisted = Unlisted
  NoRow = NoRow
  WantNode <- MCWantNode
  WantVmid <- MCWantVmid
  Windows <- MCWindows
  PoolOf <- MCPoolOf
  PoolNet <- MCPoolNet
  Capacity <- MCCapacity
  Org <- MCOrg
  MaxCrashes = 1
  AdminActs = FALSE
SYMMETRY Symmetry
CONSTRAINT Undoubled
PROPERTIES
  ConfiguredAddressIsHeld
CHECK_DEADLOCK FALSE
