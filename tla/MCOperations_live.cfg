SPECIFICATION FairSpec
CONSTANTS
  w1 = w1
  g1 = g1
  g2 = g2
  NoOp = NoOp
  NoOrg = NoOrg
  Ops <- MixedOps
  Workloads = {w1}
  Orgs = {}
  Workers = {k1}
  Action <- MCAction
  WorkloadOf <- MCWorkloadOf
  KeyOf <- MCKeyOf
  OrgOf <- MCOrgOf
  VmidOf <- MCVmidOf
  BackupOf <- MCBackupOf
  MaxActionAttempts = 1
  MaxSubmits = 1
  MaxCrashes = 1
  Lossy = FALSE
INVARIANTS
  SuccessIsReal
  ActiveExclusive
PROPERTIES
  EndsUnlessStranded
  RecordedOperationEnds
\* Users and PVE may stop, and an operation may be stranded.
CHECK_DEADLOCK FALSE
