SPECIFICATION Spec
CONSTANTS
  w1 = w1
  g1 = g1
  g2 = g2
  NoOp = NoOp
  NoOrg = NoOrg
  Ops <- RebootOps
  Workloads = {w1}
  Orgs = {g1}
  Workers = {k1}
  Action <- MCAction
  WorkloadOf <- MCWorkloadOf
  KeyOf <- MCKeyOf
  OrgOf <- MCOrgOf
  VmidOf <- MCVmidOf
  BackupOf <- MCBackupOf
  MaxActionAttempts = 2
  MaxSubmits = 2
  MaxCrashes = 0
  Lossy = FALSE
INVARIANTS
  RebootSubmittedOnce
\* Users and PVE may stop, and an operation may be stranded.
CHECK_DEADLOCK FALSE
