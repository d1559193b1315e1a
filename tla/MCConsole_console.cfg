SPECIFICATION ConsoleSpec
CONSTANTS
  u1 = u1
  w1 = w1
  Root = u0
  Users = {u0, u1}
  Tokens = {t1}
  MaxEpoch = 2
  MaxInFlight = 1
  Orgs = {g1}
  Workloads = {w1}
  NoOrg = NoOrg
  Sessions = {s1, s2, s3}
  NoSession = NoSession
  UserOf <- MCUserOf
  WorkloadOf <- MCWorkloadOf
  Lifetime = 2
  Setup = 1
  PerMinute = 1
  MaxChanges = 5
SYMMETRY Symmetry
CONSTRAINT Few
INVARIANTS
  ConsoleTypeOK
  OverlapIsShort
  LeftoversOverlapped
PROPERTIES
  OutdatedUnlessSetback
CHECK_DEADLOCK FALSE
