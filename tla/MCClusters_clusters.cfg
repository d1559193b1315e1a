SPECIFICATION ClustersSpec
CONSTANTS
  Pools = {p1, p2}
  Addresses = {a1, a2}
  Clusters = {c1}
  Everywhere = Everywhere
  Requests = {r1}
  NoReq = NoReq
  Endpoints = {e1, e2}
  Credentials = {1, 2, 3}
  Unset = Unset
  Callers = {q1, q2, q3}
SYMMETRY Symmetry
CONSTRAINT Effort
INVARIANTS
  OneCredential
  ScopeExclusive
  AllocationMatchesAddress
  OneAddressPerRequest
PROPERTIES
  SecretStaysHome
  RemovedStaysEmpty
  SecretsGoForward
  HandedOverAfterQuarantine
CHECK_DEADLOCK FALSE
