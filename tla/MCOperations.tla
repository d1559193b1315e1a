---------------------------- MODULE MCOperations ----------------------------
(* Instances of Operations for TLC.  A request carries its own parameters. *)
EXTENDS OperationsInvariant, TLC

CONSTANTS w1, g1, g2

Req(id, action, workload, key, org) ==
  [id |-> id, action |-> action, workload |-> workload, key |-> key, org |-> org,
   vmid |-> 900]

MCAction     == [o \in Ops |-> o.action]
MCWorkloadOf == [o \in Ops |-> o.workload]
MCKeyOf      == [o \in Ops |-> o.key]
MCOrgOf      == [o \in Ops |-> o.org]
MCVmidOf     == [o \in Ops |-> o.vmid]

(* Every restore reads the one backup of the instance. *)
MCBackupOf ==
  LET backups == {p \in Ops : p.action = "backup"}
  IN  [o \in Ops |-> IF backups = {} THEN o ELSE CHOOSE b \in backups : TRUE]

(* A customer's reboot, alone: retries, recovery and changes of owner. *)
RebootOps == {Req(0, "reboot", w1, "k0", g1)}

(* A backup that its client sends twice with one key, and a restore of it. *)
BackupOps ==
  {Req(1, "backup", w1, "k1", NoOrg), Req(2, "backup", w1, "k1", NoOrg),
   Req(3, "restore", w1, "k2", NoOrg)}

(* Everything whose repetition in PVE does harm; the reboot on its own. *)
CarefulOps == RebootOps \cup BackupOps

Apart ==
  \A o, p \in Ops : status[o] # "none" /\ status[p] # "none" => OrgOf[o] = OrgOf[p]

(* A delete, a change of specification and a backup of the same workload. *)
MixedOps ==
  {Req(1, "delete", w1, "k1", NoOrg), Req(2, "update_spec", w1, "k2", NoOrg),
   Req(3, "backup", w1, "k3", NoOrg)}

WorkerSymmetry == Permutations(Workers)
=============================================================================
