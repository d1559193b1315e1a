SPECIFICATION Spec
CONSTANTS
  w1 = w1
  g1 = g1
  g2 = g2
  NoOp = NoOp
  NoOrg = NoOrg
  Ops <- BackupOps
  Workloads = {w1}
  Orgs = {g1}
  Workers = {k1, k2}
  Action <- MCAction
  WorkloadOf <- MCWorkloadOf
  KeyOf <- MCKeyOf
  OrgOf <- MCOrgOf
  VmidOf <- MCVmidOf
  BackupOf <- MCBackupOf
  MaxActionAttempts = 1
  MaxSubmits = 1
  MaxCrashes = 1
  Lossy = FALSE
SYMMETRY WorkerSymmetry
PROPERTIES
  TerminalIsFinal
\* Users and PVE may stop, and an operation may be stranded.
CHECK_DEADLOCK FALSE
