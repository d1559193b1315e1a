---------------------------- MODULE Provisioning ----------------------------
(***************************************************************************)
(* Creating a guest: a request is inserted, a worker claims it and runs    *)
(* its steps, each committed on its own, against the database, the address *)
(* pools (Ipam) and the Proxmox VE (PVE) API; a failure before the clone   *)
(* gives back what was reserved, a later one asks for a manual review.     *)
(*                                                                         *)
(* Sources: services/provisioning.py, services/provisioning_runner.py,     *)
(* tasks/provisioning.py, models/provisioning.py.                          *)
(*                                                                         *)
(* A worker renews its lease when it starts and ends a step and whenever   *)
(* it polls, and in no wait of its own, so a lease may run out under it.   *)
(* A second worker may then claim the request (doubled); the session of    *)
(* the first never reads it again (expire_on_commit=False).  What the two  *)
(* write over each other is not followed: the model is one of the code     *)
(* while doubled is empty, and the properties say so where they need it.   *)
(***************************************************************************)
EXTENDS Ipam, Sequences

CONSTANTS
  Workers,        \* Celery worker processes
  NoWorker,       \* runner_id IS NULL
  Nodes, NoNode,  \* provisioning nodes; target_node_id IS NULL
  Capacity,       \* Capacity[n]: requests that fit on node n
  Vmids, NoVmid,  \* VMIDs of the cluster; target_vmid IS NULL
  Outsider,       \* creator of a guest that is not ours
  WantNode,       \* WantNode[r]: the target_node_id asked for, or NoNode
  WantVmid,       \* WantVmid[r]: the target_vmid asked for, or NoVmid
  Windows,        \* Windows[r]: the template's os_type
  PoolOf,         \* PoolOf[r]: ip_pool_id
  PoolNet,        \* PoolNet[p]: the network of pool p
  Org,            \* Org[r]: organization_id
  Unassigned,     \* a workload of no organization
  Unlisted,       \* no workloads row
  NoRow,          \* ip_address_id IS NULL
  MaxCrashes,     \* bound on worker deaths
  AdminActs       \* TRUE: administrators allocate and release addresses

ASSUME ProvisioningAssumption ==
  /\ PoolOf \in [Requests -> Pools]
  /\ WantNode \in [Requests -> Nodes \cup {NoNode}]
  /\ WantVmid \in [Requests -> Vmids \cup {NoVmid}]
  /\ Windows \in [Requests -> BOOLEAN]
  /\ PoolNet \in [Pools -> SUBSET Addresses]
  /\ Capacity \in [Nodes -> Nat]
  /\ MaxCrashes \in Nat
  /\ AdminActs \in BOOLEAN
  /\ NoWorker \notin Workers /\ NoNode \notin Nodes /\ NoVmid \notin Vmids
  /\ NoRow \notin Rows /\ Outsider \notin Requests \cup {NoReq}

(* The pools exist before the first request, as Ipam's create_pool admits  *)
(* them: active, of every cluster, and without an overlap.                 *)
ASSUME PoolNetAssumption ==
  \A p, q \in Pools : p # q => PoolNet[p] \cap PoolNet[q] = {}

(* PROVISIONING_STEPS.  CHECK_PRODUCT stands for VALIDATE_REQUEST too,     *)
(* CONFIGURE_NETWORK for CONFIGURE_COMPUTE and RESIZE_DISK, START_VM for   *)
(* VERIFY_STATUS: reads and PVE calls with the same outcomes.              *)
Steps ==
  <<"CHECK_PRODUCT", "SELECT_TARGET", "RESERVE_VMID", "RESERVE_IP", "FULL_CLONE",
    "WAIT_CLONE", "CONFIGURE_NETWORK", "CONFIGURE_IDENTITY", "START_VM",
    "ASSIGN_ORGANIZATION", "CONFIRM_IP">>

VARIABLES
  req,      \* provisioning_requests with its steps
  queue,    \* messages of the broker
  pc,       \* what each worker is doing
  job,      \* the request it runs
  pick,     \* the VMID or address it has chosen and not committed
  review,   \* manual_review in _fail_request
  free,     \* provisioning_nodes: available capacity
  guest,    \* who created the guest of each VMID in PVE
  clone,    \* state of the request's clone task in PVE
  netip,    \* address row written into the guest's network configuration
  owner,    \* workloads.organization_id of each VMID
  crashes,
  overrun,  \* history: requests whose lease ran out under a living worker
  doubled   \* history: requests claimed while another worker ran them

histVars == <<overrun, doubled>>
workVars == <<pc, job, pick, review>>
pveVars  == <<guest, clone, netip>>
provVars == <<req, queue, pc, job, pick, review, free, guest, clone, netip, owner, crashes,
              histVars>>
vars     == <<ipamVars, provVars>>

Holding  == {"QUEUED", "RUNNING", "SUCCEEDED", "MANUAL_REVIEW"}
Ended    == {"SUCCEEDED", "FAILED", "MANUAL_REVIEW"}

RequestRow ==
  [status : {"none", "QUEUED", "RUNNING"} \cup Ended,
   runner : Workers \cup {NoWorker},   \* runner_id
   lease  : {"none", "fresh", "expired"}, \* lease_expires_at
   done   : 0 .. Len(Steps),           \* steps whose status is SUCCEEDED
   node   : Nodes \cup {NoNode},
   cap    : BOOLEAN,                   \* spec_snapshot.node_capacity_reserved
   vmid   : Vmids \cup {NoVmid},
   ip     : Rows \cup {NoRow},
   cloned : BOOLEAN,                   \* clone_submitted
   upid   : BOOLEAN,                   \* pve_upid of the step FULL_CLONE
   listed : BOOLEAN,                   \* workload_id is set
   secret : BOOLEAN]                   \* initial_password_ciphertext

NoRequest ==
  [status |-> "none", runner |-> NoWorker, lease |-> "none", done |-> 0, node |-> NoNode,
   cap |-> FALSE, vmid |-> NoVmid, ip |-> NoRow, cloned |-> FALSE, upid |-> FALSE,
   listed |-> FALSE, secret |-> FALSE]

PcStages == {"start", "exec", "vmid", "ip", "clone", "cloned", "done", "quarantine", "capacity",
             "fail", "partial"}

ProvisioningTypeOK ==
  /\ req \in [Requests -> RequestRow]
  /\ queue \subseteq Requests
  /\ pc \in [Workers -> {"down", "idle"} \cup PcStages]
  /\ job \in [Workers -> Requests \cup {NoReq}]
  /\ pick \in [Workers -> Vmids \cup {NoVmid} \cup Rows]
  /\ review \in [Workers -> BOOLEAN]
  /\ \A n \in Nodes : free[n] \in 0 .. Capacity[n]
  /\ guest \in [Vmids -> Requests \cup {NoReq, Outsider}]
  /\ clone \in [Requests -> {"none", "running", "ok", "failed"}]
  /\ netip \in [Vmids -> Rows \cup {NoRow}]
  /\ crashes \in 0 .. MaxCrashes

Init ==
  /\ net = PoolNet
  /\ scope = [p \in Pools |-> Everywhere]
  /\ active = [p \in Pools |-> TRUE]
  /\ AddressesInit
  /\ req = [r \in Requests |-> NoRequest]
  /\ queue = {}
  /\ pc = [k \in Workers |-> "idle"]
  /\ job = [k \in Workers |-> NoReq]
  /\ pick = [k \in Workers |-> NoVmid]
  /\ review = [k \in Workers |-> FALSE]
  /\ free = Capacity
  /\ guest = [v \in Vmids |-> NoReq]
  /\ clone = [r \in Requests |-> "none"]
  /\ netip = [v \in Vmids |-> NoRow]
  /\ owner = [v \in Vmids |-> Unlisted]
  /\ crashes = 0
  /\ overrun = {} /\ doubled = {}

-----------------------------------------------------------------------------
(* Requests and claims.                                                    *)

(* The partial unique index uq_provisioning_active_vmid. *)
VmidUnheld(r, v) ==
  \A s \in Requests \ {r} : req[s].vmid = v /\ v # NoVmid => req[s].status \notin Holding

(* create_request; the publication may fail (sent = FALSE). *)
Create(r, sent) ==
  /\ req[r].status = "none"
  /\ active[PoolOf[r]]
  /\ WantNode[r] # NoNode => free[WantNode[r]] > 0
  /\ VmidUnheld(r, WantVmid[r])
  /\ req' = [req EXCEPT ![r].status = "QUEUED", ![r].node = WantNode[r],
                        ![r].vmid = WantVmid[r], ![r].secret = Windows[r]]
  /\ queue' = IF sent THEN queue \cup {r} ELSE queue
  /\ UNCHANGED <<ipamVars, workVars, pveVars, free, owner, crashes, histVars>>

(* Mutant: a request that is RUNNING is claimed whatever its lease. *)
ClaimableAlways(r) == req[r].status \in {"QUEUED", "RUNNING"}

(* Some worker has the request in hand. *)
InHand(r) == \E k \in Workers : job[k] = r

Claimable(r) ==
  \/ req[r].status = "QUEUED"
  \/ req[r].status = "RUNNING" /\ (req[r].runner = NoWorker \/ req[r].lease # "fresh")

Claim(k, r) ==
  /\ pc[k] = "idle"
  /\ r \in queue
  /\ Claimable(r)
  /\ queue' = queue \ {r}
  /\ req' = [req EXCEPT ![r].status = "RUNNING", ![r].runner = k, ![r].lease = "fresh"]
  /\ pc' = [pc EXCEPT ![k] = "start"]
  /\ job' = [job EXCEPT ![k] = r]
  /\ doubled' = IF InHand(r) THEN doubled \cup {r} ELSE doubled
  /\ UNCHANGED <<ipamVars, pick, review, pveVars, free, owner, crashes, overrun>>

ClaimNothing(k, r) ==
  /\ pc[k] = "idle"
  /\ r \in queue
  /\ ~Claimable(r)
  /\ queue' = queue \ {r}
  /\ UNCHANGED <<ipamVars, req, workVars, pveVars, free, owner, crashes, histVars>>

-----------------------------------------------------------------------------
(* Steps.  A handler commits what it reserved, and the worker then commits *)
(* the step as SUCCEEDED.                                                  *)

(* Worker k is about to run the handler of a step. *)
At(k, step) ==
  /\ pc[k] = "exec"
  /\ req[job[k]].done < Len(Steps)
  /\ Steps[req[job[k]].done + 1] = step

Passed(r, step) == \E i \in 1 .. req[r].done : Steps[i] = step

Goto(k, stage) == pc' = [pc EXCEPT ![k] = stage] /\ UNCHANGED <<job, pick, review>>

Same == UNCHANGED <<queue, crashes, histVars>>

(* The requester is still an active SUPER_ADMIN. *)
Begin(k) ==
  /\ pc[k] = "start"
  /\ req' = [req EXCEPT ![job[k]].lease = "fresh"]
  /\ Goto(k, "exec")
  /\ Same /\ UNCHANGED <<ipamVars, pveVars, free, owner>>

StepDone(k) ==
  /\ pc[k] = "done"
  /\ req' = [req EXCEPT ![job[k]].done = @ + 1, ![job[k]].lease = "fresh"]
  /\ Goto(k, "exec")
  /\ Same /\ UNCHANGED <<ipamVars, pveVars, free, owner>>

(* _validate_request, _check_product, _start_vm and _verify_status keep    *)
(* nothing of their own.                                                   *)
Check(k) ==
  /\ At(k, "CHECK_PRODUCT") \/ At(k, "START_VM")
  /\ Goto(k, "done")
  /\ Same /\ UNCHANGED <<ipamVars, req, pveVars, free, owner>>

(* Mutant: the share is taken and node_capacity_reserved is not set. *)
SelectTargetUnflagged(k, n) ==
  LET r == job[k] IN
  /\ At(k, "SELECT_TARGET")
  /\ IF req[r].node = NoNode THEN n \in Nodes ELSE n = req[r].node
  /\ free[n] > 0
  /\ free' = [free EXCEPT ![n] = @ - 1]
  /\ req' = [req EXCEPT ![r].node = n]
  /\ Goto(k, "done")
  /\ Same /\ UNCHANGED <<ipamVars, pveVars, owner>>

SelectTarget(k, n) ==
  LET r == job[k] IN
  /\ At(k, "SELECT_TARGET")
  /\ IF req[r].node = NoNode THEN n \in Nodes ELSE n = req[r].node
  /\ IF req[r].cap
     THEN UNCHANGED <<req, free>>
     ELSE /\ free[n] > 0
          /\ free' = [free EXCEPT ![n] = @ - 1]
          /\ req' = [req EXCEPT ![r].node = n, ![r].cap = TRUE]
  /\ Goto(k, "done")
  /\ Same /\ UNCHANGED <<ipamVars, pveVars, owner>>

(* The VMIDs taken in PVE, in the inventory or by another request. *)
Unavailable(r) == {v \in Vmids : guest[v] # NoReq \/ owner[v] # Unlisted \/ ~VmidUnheld(r, v)}

(* _reserve_vmid reads under an advisory lock of the cluster ... *)
ChooseVmid(k, v) ==
  LET r == job[k] IN
  /\ At(k, "RESERVE_VMID")
  /\ \A j \in Workers : pc[j] # "vmid"
  /\ v \notin Unavailable(r)
  /\ req[r].vmid \in {NoVmid, v}
  /\ pick' = [pick EXCEPT ![k] = v]
  /\ pc' = [pc EXCEPT ![k] = "vmid"]
  /\ Same /\ UNCHANGED <<ipamVars, req, job, review, pveVars, free, owner>>

(* ... which create_request does not take: its row may come first. *)
CommitVmid(k) ==
  /\ pc[k] = "vmid"
  /\ VmidUnheld(job[k], pick[k])
  /\ req' = [req EXCEPT ![job[k]].vmid = pick[k]]
  /\ pc' = [pc EXCEPT ![k] = "done"]
  /\ pick' = [pick EXCEPT ![k] = NoVmid]
  /\ Same /\ UNCHANGED <<ipamVars, job, review, pveVars, free, owner>>

(* The reservation is committed by Ipam, its address_id in the request     *)
(* afterwards.                                                             *)
ReserveIp(k, x) ==
  LET r == job[k] IN
  /\ At(k, "RESERVE_IP")
  /\ x[1] = PoolOf[r]
  /\ \/ x \in Existing(r) /\ active[x[1]] /\ UNCHANGED ipamVars
     \/ ReserveFor(r, x)
  /\ pick' = [pick EXCEPT ![k] = x]
  /\ pc' = [pc EXCEPT ![k] = "ip"]
  /\ Same /\ UNCHANGED <<req, job, review, pveVars, free, owner>>

RecordIp(k) ==
  /\ pc[k] = "ip"
  /\ req' = [req EXCEPT ![job[k]].ip = pick[k]]
  /\ pc' = [pc EXCEPT ![k] = "done"]
  /\ pick' = [pick EXCEPT ![k] = NoVmid]
  /\ Same /\ UNCHANGED <<ipamVars, job, review, pveVars, free, owner>>

(* A guest of that VMID exists: only the one whose clone was recorded is   *)
(* taken for ours.                                                         *)
FullCloneResumes(k) ==
  LET r == job[k] IN
  /\ At(k, "FULL_CLONE")
  /\ guest[req[r].vmid] # NoReq
  /\ req[r].cloned /\ req[r].upid
  /\ Goto(k, "done")
  /\ Same /\ UNCHANGED <<ipamVars, req, pveVars, free, owner>>

(* Mutant: clone_submitted is not committed before the call. *)
FullCloneUnannounced(k) ==
  LET r == job[k] IN
  /\ At(k, "FULL_CLONE")
  /\ guest[req[r].vmid] = NoReq
  /\ Goto(k, "clone")
  /\ Same /\ UNCHANGED <<ipamVars, req, pveVars, free, owner>>

(* clone_submitted is committed before PVE is asked. *)
FullClone(k) ==
  LET r == job[k] IN
  /\ At(k, "FULL_CLONE")
  /\ guest[req[r].vmid] = NoReq
  /\ req' = [req EXCEPT ![r].cloned = TRUE]
  /\ Goto(k, "clone")
  /\ Same /\ UNCHANGED <<ipamVars, pveVars, free, owner>>

(* PVE starts the clone, unless the VMID was taken (external). *)
AcceptClone(r) ==
  /\ guest[req[r].vmid] = NoReq
  /\ guest' = [guest EXCEPT ![req[r].vmid] = r]
  /\ clone' = [clone EXCEPT ![r] = "running"]
  /\ UNCHANGED netip

CloneReturnsUpid(k) ==
  /\ pc[k] = "clone"
  /\ AcceptClone(job[k])
  /\ Goto(k, "cloned")
  /\ Same /\ UNCHANGED <<ipamVars, req, free, owner>>

RecordUpid(k) ==
  /\ pc[k] = "cloned"
  /\ req' = [req EXCEPT ![job[k]].upid = TRUE]
  /\ Goto(k, "done")
  /\ Same /\ UNCHANGED <<ipamVars, pveVars, free, owner>>

(* Mutant: the exit status of the task is not looked at. *)
CloneEnded(r) == clone[r] \in {"ok", "failed"}

(* The polled clone task stopped with OK. *)
CloneOk(r) == clone[r] = "ok"

(* The last poll; a poll that finds the task running renews the lease too. *)
WaitClone(k) ==
  /\ At(k, "WAIT_CLONE")
  /\ req[job[k]].upid
  /\ CloneOk(job[k])
  /\ req' = [req EXCEPT ![job[k]].lease = "fresh"]
  /\ Goto(k, "done")
  /\ Same /\ UNCHANGED <<ipamVars, pveVars, free, owner>>

ConfigureNetwork(k) ==
  LET r == job[k] IN
  /\ At(k, "CONFIGURE_NETWORK")
  /\ req[r].ip # NoRow
  /\ guest[req[r].vmid] # NoReq
  /\ netip' = [netip EXCEPT ![req[r].vmid] = req[r].ip]
  /\ Goto(k, "done")
  /\ Same /\ UNCHANGED <<ipamVars, req, guest, clone, free, owner>>

(* The password of a Windows guest is used once and erased; a step that is *)
(* run again after that fails (StepFails).                                 *)
ConfigureIdentity(k) ==
  /\ At(k, "CONFIGURE_IDENTITY")
  /\ Windows[job[k]] => req[job[k]].secret
  /\ req' = [req EXCEPT ![job[k]].secret = FALSE]
  /\ Goto(k, "done")
  /\ Same /\ UNCHANGED <<ipamVars, pveVars, free, owner>>

AssignOrganization(k) ==
  LET r == job[k] IN
  /\ At(k, "ASSIGN_ORGANIZATION")
  /\ owner[req[r].vmid] \in {Unlisted, Unassigned, Org[r]}
  /\ owner' = [owner EXCEPT ![req[r].vmid] = Org[r]]
  /\ req' = [req EXCEPT ![r].listed = TRUE]
  /\ Goto(k, "done")
  /\ Same /\ UNCHANGED <<ipamVars, pveVars, free>>

ConfirmIp(k) ==
  LET r == job[k] IN
  /\ At(k, "CONFIRM_IP")
  /\ req[r].listed
  /\ \/ \E x \in Rows : ConfirmFor(r, x)
     \/ AllocatedAs(r, "RESERVED") = {} /\ AllocatedAs(r, "ASSIGNED") # {} /\ UNCHANGED ipamVars
  /\ Goto(k, "done")
  /\ Same /\ UNCHANGED <<req, pveVars, free, owner>>

Idle(k) ==
  /\ pc' = [pc EXCEPT ![k] = "idle"]
  /\ job' = [job EXCEPT ![k] = NoReq]
  /\ pick' = [pick EXCEPT ![k] = NoVmid]
  /\ review' = [review EXCEPT ![k] = FALSE]

Succeed(k) ==
  /\ pc[k] = "exec"
  /\ req[job[k]].done = Len(Steps)
  /\ req' = [req EXCEPT ![job[k]].status = "SUCCEEDED", ![job[k]].runner = NoWorker,
                        ![job[k]].lease = "none"]
  /\ Idle(k)
  /\ Same /\ UNCHANGED <<ipamVars, pveVars, free, owner>>

-----------------------------------------------------------------------------
(* Failure.  _fail_request commits the quarantine of the address, the      *)
(* return of the node's capacity and the final status one after another.   *)

(* A manual review is due if a clone may exist, the VMID is taken          *)
(* (conflict), or the rollback fails.                                      *)
Fail(k, conflict) ==
  LET manual == req[job[k]].cloned \/ conflict IN
  /\ pc' = [pc EXCEPT ![k] = IF manual THEN "fail" ELSE "quarantine"]
  /\ review' = [review EXCEPT ![k] = manual]
  /\ UNCHANGED <<job, pick>>

(* A handler raises: VMID_OWNERSHIP_CONFLICT where a guest is found that   *)
(* is not verified as ours, or another error.                              *)
StepFails(k) ==
  /\ pc[k] = "exec"
  /\ req[job[k]].done < Len(Steps)
  /\ \/ Fail(k, FALSE)
     \/ /\ At(k, "FULL_CLONE") \/ At(k, "WAIT_CLONE")
        /\ guest[req[job[k]].vmid] # NoReq
        /\ ~req[job[k]].upid
        /\ Fail(k, TRUE)
  /\ Same /\ UNCHANGED <<ipamVars, req, pveVars, free, owner>>

(* The clone call fails, though PVE may have accepted it. *)
CloneFails(k) ==
  /\ pc[k] = "clone"
  /\ Fail(k, FALSE)
  /\ AcceptClone(job[k]) \/ UNCHANGED pveVars
  /\ Same /\ UNCHANGED <<ipamVars, req, free, owner>>

(* PERMISSION_REVOKED before the first step: _ipam() has no principal yet, *)
(* its exception makes the request one for manual review.                  *)
Revoked(k) ==
  /\ pc[k] = "start"
  /\ pc' = [pc EXCEPT ![k] = "fail"]
  /\ review' = [review EXCEPT ![k] = TRUE]
  /\ Same /\ UNCHANGED <<ipamVars, req, job, pick, pveVars, free, owner>>

FailQuarantines(k) ==
  /\ pc[k] = "quarantine"
  /\ \/ \E x \in Rows : QuarantineFor(job[k], x)
     \/ AllocatedAs(job[k], "RESERVED") = {} /\ UNCHANGED ipamVars
  /\ Goto(k, "capacity")
  /\ Same /\ UNCHANGED <<req, pveVars, free, owner>>

(* The rollback raises; what it had committed stays. *)
RollbackFails(k) ==
  /\ pc[k] \in {"quarantine", "capacity"}
  /\ pc' = [pc EXCEPT ![k] = "fail"]
  /\ review' = [review EXCEPT ![k] = TRUE]
  /\ Same /\ UNCHANGED <<ipamVars, req, job, pick, pveVars, free, owner>>

(* Mutant: the flag node_capacity_reserved stays set. *)
FailReleasesSilently(k) ==
  LET r == job[k] IN
  /\ pc[k] = "capacity"
  /\ IF req[r].cap THEN free' = [free EXCEPT ![req[r].node] = @ + 1] ELSE UNCHANGED free
  /\ UNCHANGED req
  /\ Goto(k, "fail")
  /\ Same /\ UNCHANGED <<ipamVars, pveVars, owner>>

FailReleases(k) ==
  LET r == job[k] IN
  /\ pc[k] = "capacity"
  /\ IF req[r].cap
     THEN /\ free' = [free EXCEPT ![req[r].node] = @ + 1]
          /\ req' = [req EXCEPT ![r].cap = FALSE]
     ELSE UNCHANGED <<free, req>>
  /\ Goto(k, "fail")
  /\ Same /\ UNCHANGED <<ipamVars, pveVars, owner>>

(* Mutant: the password is erased by the step that uses it only. *)
FailEndsKeepingSecret(k) ==
  LET r == job[k] IN
  /\ pc[k] = "fail"
  /\ req' = [req EXCEPT ![r].status = IF review[k] THEN "MANUAL_REVIEW" ELSE "FAILED",
                        ![r].runner = NoWorker, ![r].lease = "none"]
  /\ IF review[k] THEN Goto(k, "partial") ELSE Idle(k)
  /\ Same /\ UNCHANGED <<ipamVars, pveVars, free, owner>>

FailEnds(k) ==
  LET r == job[k] IN
  /\ pc[k] = "fail"
  /\ req' = [req EXCEPT ![r].status = IF review[k] THEN "MANUAL_REVIEW" ELSE "FAILED",
                        ![r].runner = NoWorker, ![r].lease = "none", ![r].secret = FALSE]
  /\ IF review[k] THEN Goto(k, "partial") ELSE Idle(k)
  /\ Same /\ UNCHANGED <<ipamVars, pveVars, free, owner>>

(* _record_partial_workload: after WAIT_CLONE the guest is listed, with no *)
(* organization.                                                           *)
RecordPartial(k) ==
  LET r == job[k]
      v == req[r].vmid IN
  /\ pc[k] = "partial"
  /\ IF Passed(r, "WAIT_CLONE") /\ owner[v] \in {Unlisted, Unassigned, Org[r]}
     THEN /\ owner' = [owner EXCEPT ![v] = IF @ = Unlisted THEN Unassigned ELSE @]
          /\ req' = [req EXCEPT ![r].listed = TRUE]
     ELSE UNCHANGED <<owner, req>>
  /\ Idle(k)
  /\ Same /\ UNCHANGED <<ipamVars, pveVars, free>>

(* A unique index is violated inside a handler (the VMID was taken by a    *)
(* new request, or a quarantined address still belongs to this one): the   *)
(* session is unusable, _fail_request raises as well and the request stays *)
(* RUNNING.  Whether the finally clause still releases the claim depends   *)
(* on what the rolled back session can load.                               *)
Breaks(k, released) ==
  LET r == job[k] IN
  /\ \/ pc[k] = "vmid" /\ ~VmidUnheld(r, pick[k])
     \/ At(k, "RESERVE_IP") /\ Existing(r) = {} /\ ~HasNoAllocation(r)
  /\ req' = IF released
            THEN [req EXCEPT ![r].runner = NoWorker, ![r].lease = "none"]
            ELSE req
  /\ Idle(k)
  /\ Same /\ UNCHANGED <<ipamVars, pveVars, free, owner>>

-----------------------------------------------------------------------------
(* Crashes, recovery, and the world outside.                               *)

(* acks_late: the message comes back. *)
Crash(k) ==
  /\ pc[k] # "down"
  /\ crashes < MaxCrashes
  /\ crashes' = crashes + 1
  /\ queue' = queue \cup ({job[k]} \ {NoReq})
  /\ pc' = [pc EXCEPT ![k] = "down"]
  /\ job' = [job EXCEPT ![k] = NoReq]
  /\ pick' = [pick EXCEPT ![k] = NoVmid]
  /\ review' = [review EXCEPT ![k] = FALSE]
  /\ UNCHANGED <<ipamVars, req, pveVars, free, owner, histVars>>

(* recover_provisioning_requests. *)
Restart(k) ==
  /\ pc[k] = "down"
  /\ pc' = [pc EXCEPT ![k] = "idle"]
  /\ queue' = queue \cup {r \in Requests : Claimable(r)}
  /\ UNCHANGED <<ipamVars, req, job, pick, review, pveVars, free, owner, crashes, histVars>>

(* The broker delivers an unacknowledged message again. *)
Redeliver(k) ==
  /\ job[k] # NoReq
  /\ queue' = queue \cup {job[k]}
  /\ UNCHANGED <<ipamVars, req, workVars, pveVars, free, owner, crashes, histVars>>

(* A lease runs out, whether its worker is dead or waits: for the advisory *)
(* lock of RESERVE_VMID, or for an answer of PVE.                          *)
LeaseExpires(r) ==
  /\ req[r].lease = "fresh"
  /\ req' = [req EXCEPT ![r].lease = "expired"]
  /\ overrun' = IF InHand(r) THEN overrun \cup {r} ELSE overrun
  /\ UNCHANGED <<ipamVars, queue, workVars, pveVars, free, owner, crashes, doubled>>

(* A clone task ends (external); a failed one leaves no guest. *)
CloneStops(r, s) ==
  /\ clone[r] = "running"
  /\ s \in {"ok", "failed"}
  /\ clone' = [clone EXCEPT ![r] = s]
  /\ guest' = IF s = "ok" THEN guest ELSE [guest EXCEPT ![req[r].vmid] = NoReq]
  /\ UNCHANGED <<ipamVars, req, queue, workVars, free, netip, owner, crashes, histVars>>

(* Somebody else creates a guest in PVE (external). *)
OutsiderCreates(v) ==
  /\ guest[v] = NoReq
  /\ guest' = [guest EXCEPT ![v] = Outsider]
  /\ UNCHANGED <<ipamVars, req, queue, workVars, free, clone, netip, owner, crashes, histVars>>

(* The import of the inventory lists a guest. *)
ImportGuest(v) ==
  /\ guest[v] # NoReq
  /\ owner[v] = Unlisted
  /\ owner' = [owner EXCEPT ![v] = Unassigned]
  /\ UNCHANGED <<ipamVars, req, queue, workVars, pveVars, free, crashes, histVars>>

AdministerIp(x) ==
  /\ AdminActs
  /\ AdministerAddress(x)
  /\ UNCHANGED provVars

-----------------------------------------------------------------------------
Receive(k) == \E r \in queue : Claim(k, r) \/ ClaimNothing(k, r)

Reserving(k) ==
  \/ \E n \in Nodes : SelectTarget(k, n)
  \/ \E v \in Vmids : ChooseVmid(k, v)
  \/ CommitVmid(k)
  \/ \E x \in Rows : ReserveIp(k, x)
  \/ RecordIp(k)

Cloning(k) ==
  FullClone(k) \/ FullCloneResumes(k) \/ CloneReturnsUpid(k) \/ RecordUpid(k) \/ WaitClone(k)

Finishing(k) ==
  \/ ConfigureNetwork(k)
  \/ ConfigureIdentity(k)
  \/ AssignOrganization(k)
  \/ ConfirmIp(k)
  \/ Succeed(k)

Failing(k) ==
  \/ StepFails(k)
  \/ CloneFails(k)
  \/ Revoked(k)
  \/ FailQuarantines(k)
  \/ RollbackFails(k)
  \/ FailReleases(k)
  \/ FailEnds(k)
  \/ RecordPartial(k)
  \/ \E released \in BOOLEAN : Breaks(k, released)

Work(k) ==
  Begin(k) \/ StepDone(k) \/ Check(k) \/ Reserving(k) \/ Cloning(k) \/ Finishing(k) \/ Failing(k)

Outage(k) == Crash(k) \/ Restart(k) \/ Redeliver(k)

Requested(r) == \E sent \in BOOLEAN : Create(r, sent)

Next ==
  \/ \E r \in Requests : Requested(r) \/ LeaseExpires(r) \/ \E s \in {"ok", "failed"} : CloneStops(r, s)
  \/ \E k \in Workers : Receive(k) \/ Work(k) \/ Outage(k)
  \/ \E v \in Vmids : OutsiderCreates(v) \/ ImportGuest(v)
  \/ \E x \in Rows : AdministerIp(x)

Spec == Init /\ [][Next]_vars

-----------------------------------------------------------------------------
(* Properties.  All but SoleRunner are about behaviours in which no worker *)
(* has claimed a request from under another.                               *)

Undoubled == doubled = {}

(* A node's free capacity and the requests that hold a share of it add up  *)
(* to its capacity after every commit, over failures, crashes and resumed  *)
(* steps: no share is lost, none is given back twice.                      *)
CapacityConserved ==
  \A n \in Nodes :
    free[n] + Cardinality({r \in Requests : req[r].cap /\ req[r].node = n}) = Capacity[n]

(* A guest belongs to an organization only if a request of that            *)
(* organization cloned it and PVE ended the clone OK: a VMID that somebody *)
(* else took is never handed to a customer.                                *)
AssignedIsOurs ==
  \A v \in Vmids :
    owner[v] \notin {Unlisted, Unassigned} =>
      \E r \in Requests :
        /\ guest[v] = r
        /\ req[r].vmid = v
        /\ Org[r] = owner[v]
        /\ clone[r] = "ok"

(* A request that FAILED left nothing behind: no clone in PVE, no share of *)
(* a node, no reserved address.                                            *)
FailedLeavesNothing ==
  \A r \in Requests :
    req[r].status = "FAILED" =>
      /\ clone[r] = "none"
      /\ ~req[r].cap
      /\ AllocatedAs(r, "RESERVED") \cup AllocatedAs(r, "ASSIGNED") = {}

(* The encrypted initial password does not outlive its request. *)
SecretErased == \A r \in Requests : req[r].status \in Ended => ~req[r].secret

(* Two workers run one request only if its lease ran out while a worker    *)
(* had it in hand: a redelivered message, a crash, the recovery, a session *)
(* that broke and a failure that still records its guest never do it.      *)
SoleRunner ==
  \A j, k \in Workers : job[j] = job[k] /\ job[j] # NoReq /\ j # k => job[j] \in overrun

(* A guest is configured with an address that its request holds, never     *)
(* with a quarantined one.                                                 *)
ConfiguredAddressIsHeld ==
  [][\A v \in Vmids :
       netip'[v] # netip[v] => \E r \in Requests : netip'[v] \in Existing(r) /\ guest[v] = r]_vars
=============================================================================
