SPECIFICATION Spec
CONSTANTS
  p1 = p1
  n1 = n1
  g1 = g1
  v1 = v1
  Pools = {p1}
  Addresses = {a1}
  Clusters = {}
  Everywhere = Everywhere
  Requests <- TwoRequests
  NoReq = NoReq
  Workers = {k1, k2}
  NoWorker = NoWorker
  Nodes = {n1}
  NoNode = NoNode
  Vmids = {v1}
  NoVmid = NoVmid
  Outsider = Outsider
  Unassigned = Unassigned
  Unlisted = Unlisted
  NoRow = NoRow
  WantNode <- MCWantNode
  WantVmid <- MCWantVmid
  Windows <- MCWindows
  PoolOf <- MCPoolOf
  PoolNet <- MCPoolNet
  Capacity <- MCCapacity
  Org <- MCOrg
  MaxCrashes = 1
  AdminActs = TRUE
SYMMETRY Symmetry
CONSTRAINT Few
INVARIANTS
  ProvisioningTypeOK
  CapacityConserved
  AssignedIsOurs
  FailedLeavesNothing
  SecretErased
  SoleRunner
CHECK_DEADLOCK FALSE
