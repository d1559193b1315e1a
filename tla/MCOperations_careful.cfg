SPECIFICATION Spec
CONSTANTS
  w1 = w1
  g1 = g1
  g2 = g2
  NoOp = NoOp
  NoOrg = NoOrg
  Ops <- CarefulOps
  Workloads = {w1}
  Orgs = {g1, g2}
  Workers = {k1, k2}
  Action <- MCAction
  WorkloadOf <- MCWorkloadOf
  KeyOf <- MCKeyOf
  OrgOf <- MCOrgOf
  VmidOf <- MCVmidOf
  BackupOf <- MCBackupOf
  MaxActionAttempts = 2
  MaxSubmits = 3
  MaxCrashes = 2
  Lossy = TRUE
SYMMETRY WorkerSymmetry
CONSTRAINT Apart
INVARIANTS
  TypeOK
  RebootBounded
  SubmittedOncePerKey
  BackupRunMirrors
  SoleSubmitter
  CustomerOwnsRunning
PROPERTIES
  NeverReopened
  ResumesFromUpid
  ImplementsContract
\* Users and PVE may stop, and an operation may be stranded.
CHECK_DEADLOCK FALSE
