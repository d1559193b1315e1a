----------------------------- MODULE Operations -----------------------------
(***************************************************************************)
(* The operation pipeline of PVE Master: API services insert a row of the  *)
(* operations table and publish a Celery message; workers claim the row,   *)
(* submit one task to the Proxmox VE (PVE) API, store its UPID in the      *)
(* pve_tasks table and poll it until the operation ends.                   *)
(*                                                                         *)
(* Sources: services/operations.py, customer_portal.py, backups.py (the    *)
(* requests), services/power_runner.py, backup_runner.py,                  *)
(* restore_runner.py (the workers), tasks/power.py, tasks/backup.py,       *)
(* worker.py (delivery and recovery), services/workloads.py (ownership).   *)
(*                                                                         *)
(* An element of Ops is one API request with its parameters, and the row   *)
(* it creates.  One atomic step is one database transaction or one PVE     *)
(* call: nothing is locked across an await of the PVE client.              *)
(***************************************************************************)
EXTENDS Integers, FiniteSets

CONSTANTS
  Ops,                \* requests, each one row of operations at most
  Workloads,          \* rows of workloads
  Orgs,               \* customer organizations
  Workers,            \* Celery worker processes
  NoOp, NoOrg,        \* "no job", "unassigned" (or requested by staff)
  Action,             \* Action[o]: the action column
  WorkloadOf,         \* WorkloadOf[o]: the workload_id column
  KeyOf,              \* KeyOf[o]: requester and Idempotency-Key
  OrgOf,              \* OrgOf[o]: a customer's organization, or NoOrg: staff
  VmidOf,             \* VmidOf[o]: target VMID of a restore
  BackupOf,           \* BackupOf[o]: the backup a restore reads
  MaxActionAttempts,  \* settings.pve_action_max_attempts
  MaxSubmits,         \* bound on the tasks PVE accepts for one operation
  MaxCrashes,         \* bound on worker deaths
  Lossy               \* TRUE: publishing to the broker may fail

PowerActions == {"start", "shutdown", "stop", "reboot", "reset"}
Reboots      == {"reboot", "reset"}
AdminActions == {"update_spec", "delete"}
OnceActions  == {"backup", "restore"}
Actions      == PowerActions \cup AdminActions \cup OnceActions

ASSUME ActionAssumption     == Action \in [Ops -> Actions]
ASSUME WorkloadAssumption   == WorkloadOf \in [Ops -> Workloads]
ASSUME OrgAssumption        == OrgOf \in [Ops -> Orgs \cup {NoOrg}]
ASSUME CustomerAssumption   ==
  \A o \in Ops : OrgOf[o] # NoOrg => Action[o] \in PowerActions \ {"reset"}
ASSUME BackupAssumption     ==
  BackupOf \in [Ops -> Ops]
ASSUME NoValueAssumption    == NoOp \notin Ops /\ NoOrg \notin Orgs
ASSUME BoundsAssumption     ==
  /\ MaxActionAttempts \in Nat \ {0}
  /\ MaxSubmits \in Nat \ {0}
  /\ MaxCrashes \in Nat
  /\ Lossy \in BOOLEAN

(***************************************************************************)
(* "none": no row; "requested": the API has read and validated, and has    *)
(* not inserted yet.  The others are the values of OperationStatus.        *)
(***************************************************************************)
Active   == {"QUEUED", "RUNNING"}
Terminal == {"SUCCEEDED", "FAILED", "TIMEOUT"}
Statuses == {"none", "requested"} \cup Active \cup Terminal

Runners  == {"power", "backup", "restore"}
Messages == Runners \X Ops
Slots    == 1 .. MaxSubmits

(* The task module whose message a request publishes. *)
RunnerOf(o) == IF Action[o] \in OnceActions THEN Action[o] ELSE "power"

Admin(o) == Action[o] \in AdminActions
Once(o)  == Action[o] \in OnceActions

VARIABLES
  status,     \* operations.status, per request
  run,        \* backup_runs.status / restore_runs.status of a backup/restore
  lease,      \* age of heartbeat_at against operation_lease_seconds
  rows,       \* pve_tasks: the submissions whose UPID is stored
  submits,    \* number of tasks PVE has accepted for the operation
  pve,        \* state of each accepted task inside PVE
  queue,      \* the operations queue of the broker
  pc,         \* what each worker is doing
  job,        \* the operation it runs
  upid,       \* the submission it records or polls
  attempt,    \* its attempt number in _submit
  present,    \* workloads.is_present
  owner,      \* workloads.organization_id
  crashes     \* worker deaths so far

rowVars    == <<status, run, lease, rows>>
pveVars    == <<submits, pve>>
workerVars == <<pc, job, upid, attempt>>
invVars    == <<present, owner>>
vars       == <<status, run, lease, rows, submits, pve, queue, pc, job, upid,
                attempt, present, owner, crashes>>

Stages == {"observe", "recheck", "spec", "submit", "record", "poll"}

TypeOK ==
  /\ status \in [Ops -> Statuses]
  /\ run \in [Ops -> Statuses]
  /\ lease \in [Ops -> {"none", "fresh", "expired"}]
  /\ rows \in [Ops -> SUBSET Slots]
  /\ submits \in [Ops -> 0 .. MaxSubmits]
  /\ pve \in [Ops -> [Slots -> {"none", "running", "ok", "failed"}]]
  /\ queue \subseteq Messages
  /\ pc \in [Workers -> {"down", "idle"} \cup Stages]
  /\ job \in [Workers -> Ops \cup {NoOp}]
  /\ upid \in [Workers -> 0 .. MaxSubmits]
  /\ attempt \in [Workers -> 1 .. MaxActionAttempts]
  /\ present \in [Workloads -> BOOLEAN]
  /\ owner \in [Workloads -> Orgs \cup {NoOrg}]
  /\ crashes \in 0 .. MaxCrashes

Init ==
  /\ status = [o \in Ops |-> "none"]
  /\ run = [o \in Ops |-> "none"]
  /\ lease = [o \in Ops |-> "none"]
  /\ rows = [o \in Ops |-> {}]
  /\ submits = [o \in Ops |-> 0]
  /\ pve = [o \in Ops |-> [n \in Slots |-> "none"]]
  /\ queue = {}
  /\ pc = [k \in Workers |-> "idle"]
  /\ job = [k \in Workers |-> NoOp]
  /\ upid = [k \in Workers |-> 0]
  /\ attempt = [k \in Workers |-> 1]
  /\ present = [w \in Workloads |-> TRUE]
  /\ owner \in [Workloads -> Orgs \cup {NoOrg}]
  /\ crashes = 0

-----------------------------------------------------------------------------
(* Requests: the API services.                                             *)

Inserted(o) == status[o] \in Active \cup Terminal

(* Mutant: the key is compared with unfinished operations only. *)
KeyFreeOfActive(o) == \A p \in Ops : KeyOf[p] = KeyOf[o] => status[p] \notin Active

(* The unique constraint on (requested_by_id, idempotency_key_hash). *)
KeyFree(o) == \A p \in Ops : KeyOf[p] = KeyOf[o] => ~Inserted(p)

(* Mutant: the index covers RUNNING rows only. *)
WorkloadNotRunning(w) == \A p \in Ops : WorkloadOf[p] = w => status[p] # "RUNNING"

(* The partial unique index uq_operations_active_workload. *)
WorkloadFree(w) == \A p \in Ops : WorkloadOf[p] = w => status[p] \notin Active

(* The partial unique index uq_restore_runs_active_target. *)
VmidFree(o) ==
  \A p \in Ops : Action[p] = "restore" /\ VmidOf[p] = VmidOf[o]
                   => run[p] \notin Active

(* What the services read before they build the row. *)
PowerAdmissible(o) == present[WorkloadOf[o]] /\ WorkloadFree(WorkloadOf[o])

CustomerAdmissible(o) == PowerAdmissible(o) /\ owner[WorkloadOf[o]] = OrgOf[o]

AdminAdmissible(o) ==
  /\ present[WorkloadOf[o]]
  /\ Action[o] = "delete" => owner[WorkloadOf[o]] = NoOrg
  /\ WorkloadFree(WorkloadOf[o])

BackupAdmissible(o) == present[WorkloadOf[o]] /\ WorkloadFree(WorkloadOf[o])

(* The source workload of a restore may be gone; its other operations are  *)
(* left to the index at insertion.                                         *)
RestoreAdmissible(o) == status[BackupOf[o]] = "SUCCEEDED"

Admissible(o) ==
  CASE Action[o] = "restore" -> RestoreAdmissible(o)
    [] Action[o] = "backup" -> BackupAdmissible(o)
    [] Admin(o) -> AdminAdmissible(o)
    [] OrgOf[o] # NoOrg -> CustomerAdmissible(o)
    [] OTHER -> PowerAdmissible(o)

(* The reads of request_power_action, request_admin_action, request_backup *)
(* and request_restore; no row is locked.  A request whose key already has *)
(* a row is answered with that row and changes nothing.                    *)
Validate(o) ==
  /\ status[o] = "none"
  /\ KeyFree(o)
  /\ Admissible(o)
  /\ status' = [status EXCEPT ![o] = "requested"]
  /\ UNCHANGED <<run, lease, rows, pveVars, queue, workerVars, invVars, crashes>>

(* flush and commit, under the unique indexes, then the publication, whose *)
(* failure is only logged (sent = FALSE).                                  *)
Insert(o, sent) ==
  /\ status[o] = "requested"
  /\ KeyFree(o)
  /\ WorkloadFree(WorkloadOf[o])
  /\ Action[o] = "restore" => VmidFree(o)
  /\ sent \/ Lossy
  /\ status' = [status EXCEPT ![o] = "QUEUED"]
  /\ run' = IF Once(o) THEN [run EXCEPT ![o] = "QUEUED"] ELSE run
  /\ queue' = IF sent THEN queue \cup {<<RunnerOf(o), o>>} ELSE queue
  /\ UNCHANGED <<lease, rows, pveVars, workerVars, invVars, crashes>>

(* An error after the reads, an IntegrityError among them, rolls back. *)
Reject(o) ==
  /\ status[o] = "requested"
  /\ status' = [status EXCEPT ![o] = "none"]
  /\ UNCHANGED <<run, lease, rows, pveVars, queue, workerVars, invVars, crashes>>

-----------------------------------------------------------------------------
(* Workers: a worker takes a message and claims the row in one             *)
(* transaction (SELECT ... FOR UPDATE to commit).                          *)

(* The backup and restore runners write the status of the run as well. *)
FinishRun(o, s) == run' = [run EXCEPT ![o] = s]

(* Mutant: the run row is not written. *)
FinishOperationOnly(o, runner, s) ==
  /\ status' = [status EXCEPT ![o] = s]
  /\ lease' = [lease EXCEPT ![o] = "fresh"]
  /\ UNCHANGED run

(* _finish: writes the final status without looking at the stored one. *)
Finish(o, runner, s) ==
  /\ status' = [status EXCEPT ![o] = s]
  /\ lease' = [lease EXCEPT ![o] = "fresh"]
  /\ IF runner = "power" THEN UNCHANGED run ELSE FinishRun(o, s)

(* The worker acknowledges its message and has no job. *)
Release(k) ==
  /\ pc' = [pc EXCEPT ![k] = "idle"]
  /\ job' = [job EXCEPT ![k] = NoOp]
  /\ upid' = [upid EXCEPT ![k] = 0]
  /\ attempt' = [attempt EXCEPT ![k] = 1]

(* The preconditions the runners check again at claim time.  Of a customer *)
(* who has become staff meanwhile the code does not compare the owner: the *)
(* requesters of the model keep their role.                                *)
PowerAllowed(o) ==
  /\ present[WorkloadOf[o]]
  /\ OrgOf[o] # NoOrg => owner[WorkloadOf[o]] = OrgOf[o]

AdminAllowed(o) == present[WorkloadOf[o]]

BackupAllowed(o) == present[WorkloadOf[o]]

RestoreAllowed(o) == run[BackupOf[o]] = "SUCCEEDED"

StillAllowed(runner, o) ==
  CASE runner = "restore" -> RestoreAllowed(o)
    [] runner = "backup" -> BackupAllowed(o)
    [] runner = "power" /\ Admin(o) -> AdminAllowed(o)
    [] OTHER -> PowerAllowed(o)

(* Mutants: the lease is never looked at; a stored UPID does not matter. *)
LeasedNever(o) == FALSE

LeasedWithUpid(o) == ~Admin(o) /\ status[o] = "RUNNING" /\ lease[o] = "fresh"

(* RUNNING, no UPID stored, and the heartbeat younger than the lease.  The *)
(* admin actions never look.                                               *)
Leased(o) ==
  /\ ~Admin(o)
  /\ status[o] = "RUNNING"
  /\ rows[o] = {}
  /\ lease[o] = "fresh"

(* Mutant: an expired claim is taken over, as in the power runner. *)
UnknownNever(runner, o) == FALSE

(* Backup and restore runners give up an expired claim with no UPID. *)
Unknown(runner, o) ==
  /\ runner # "power"
  /\ status[o] = "RUNNING"
  /\ rows[o] = {}
  /\ lease[o] = "expired"

Take(k, m) ==
  /\ pc[k] = "idle"
  /\ m \in queue
  /\ queue' = queue \ {m}

(* The message is consumed with no effect: the operation has ended, or its *)
(* lease is fresh.                                                         *)
ClaimSkip(k, m) ==
  /\ Take(k, m)
  /\ LET o == m[2] IN
       \/ status[o] \notin Active
       \/ StillAllowed(m[1], o) /\ Leased(o)
  /\ UNCHANGED <<rowVars, pveVars, workerVars, invVars, crashes>>

(* Workload gone, target disabled or permission revoked: FAILED.  The      *)
(* checks the state does not decide (roles, membership, backup target) may *)
(* fail at any time; they come before the lease is looked at.              *)
ClaimReject(k, m) ==
  /\ Take(k, m)
  /\ status[m[2]] \in Active
  /\ Finish(m[2], m[1], "FAILED")
  /\ UNCHANGED <<rows, pveVars, workerVars, invVars, crashes>>

ClaimUnknown(k, m) ==
  /\ Take(k, m)
  /\ status[m[2]] \in Active
  /\ StillAllowed(m[1], m[2])
  /\ Unknown(m[1], m[2])
  /\ Finish(m[2], m[1], "FAILED")
  /\ UNCHANGED <<rows, pveVars, workerVars, invVars, crashes>>

(* Mutant: the status is not read again under the row lock. *)
ClaimEnded(k, m) ==
  LET o == m[2] IN
  /\ Take(k, m)
  /\ StillAllowed(m[1], o)
  /\ ~Leased(o)
  /\ ~Unknown(m[1], o)
  /\ status' = [status EXCEPT ![o] = "RUNNING"]
  /\ lease' = [lease EXCEPT ![o] = "fresh"]
  /\ run' = IF m[1] = "power" THEN run ELSE [run EXCEPT ![o] = "RUNNING"]
  /\ UNCHANGED <<rows, pveVars, invVars, crashes>>

(* The claim proper: RUNNING and a new heartbeat, committed. *)
Claim(k, m) ==
  LET o == m[2] IN
  /\ Take(k, m)
  /\ status[o] \in Active
  /\ StillAllowed(m[1], o)
  /\ ~Leased(o)
  /\ ~Unknown(m[1], o)
  /\ status' = [status EXCEPT ![o] = "RUNNING"]
  /\ lease' = [lease EXCEPT ![o] = "fresh"]
  /\ run' = IF m[1] = "power" THEN run ELSE [run EXCEPT ![o] = "RUNNING"]
  /\ UNCHANGED <<rows, pveVars, invVars, crashes>>

(* Mutant: a recovered operation is not told from a new one. *)
FirstStageForgetful(o) ==
  CASE Action[o] = "update_spec" -> "spec"
    [] Action[o] = "backup" -> "submit"
    [] OTHER -> "observe"

(* First stage after a claim of an operation with no task to resume. *)
FirstStage(o) ==
  CASE Action[o] = "update_spec" -> "spec"
    [] Action[o] = "backup" -> "submit"
    [] Action[o] \in PowerActions /\ status[o] = "RUNNING" -> "recheck"
    [] OTHER -> "observe"

Enter(k, o, stage, n) ==
  /\ pc' = [pc EXCEPT ![k] = stage]
  /\ job' = [job EXCEPT ![k] = o]
  /\ upid' = [upid EXCEPT ![k] = n]
  /\ attempt' = [attempt EXCEPT ![k] = 1]

(* A stored UPID is polled again and nothing is submitted; the admin       *)
(* actions do not look for one.                                            *)
ClaimResume(k, m, n) ==
  /\ m[1] = RunnerOf(m[2])
  /\ ~Admin(m[2])
  /\ n \in rows[m[2]]
  /\ Claim(k, m)
  /\ Enter(k, m[2], "poll", n)

ClaimStart(k, m) ==
  /\ m[1] = RunnerOf(m[2])
  /\ Admin(m[2]) \/ rows[m[2]] = {}
  /\ Claim(k, m)
  /\ Enter(k, m[2], FirstStage(m[2]), 0)

(* The power runner claims a restore that recover_power_operations sent to *)
(* it; PowerAction("restore") then raises and the message is acknowledged. *)
ClaimAbort(k, m) ==
  /\ m[1] # RunnerOf(m[2])
  /\ Claim(k, m)
  /\ UNCHANGED workerVars

-----------------------------------------------------------------------------
(* The stages of a runner between its claim and its end.                   *)

(* How the reads before a submission can end an operation: the power no-op *)
(* succeeds; VM_NOT_RUNNING, VM_NOT_STOPPED, RESTORE_TARGET_CONFLICT and   *)
(* errors fail; a PVE_TIMEOUT of the status call times the operation out,  *)
(* except in the restore runner.                                           *)
ObserveEndings(o) ==
  CASE Action[o] \in PowerActions \ Reboots -> {"SUCCEEDED", "FAILED", "TIMEOUT"}
    [] Action[o] = "restore" -> {"FAILED"}
    [] OTHER -> {"FAILED", "TIMEOUT"}

(* The operation of worker k ends with status s. *)
End(k, s) ==
  /\ Finish(job[k], RunnerOf(job[k]), s)
  /\ Release(k)

ObserveEnds(k, s) ==
  /\ pc[k] \in {"observe", "recheck"}
  /\ s \in ObserveEndings(job[k])
  /\ End(k, s)
  /\ UNCHANGED <<rows, pveVars, queue, invVars, crashes>>

(* Mutant: a recovered reboot is submitted again. *)
ResubmittableAlways(k) == TRUE

(* A reboot or reset that was RUNNING with no UPID at claim time ends with *)
(* OPERATION_STATE_UNKNOWN and is not submitted again.                     *)
Resubmittable(k) == pc[k] = "recheck" => Action[job[k]] \notin Reboots

ObserveProceeds(k) ==
  /\ pc[k] \in {"observe", "recheck"}
  /\ Resubmittable(k)
  /\ pc' = [pc EXCEPT ![k] = "submit"]
  /\ UNCHANGED <<rowVars, pveVars, queue, job, upid, attempt, invVars, crashes>>

(* _apply_spec: configure and resize; no task, no UPID. *)
SpecEnds(k, s) ==
  /\ pc[k] = "spec"
  /\ s \in Terminal
  /\ End(k, s)
  /\ UNCHANGED <<rows, pveVars, queue, invVars, crashes>>

(* PVE starts a task (external). *)
Accept(o) ==
  /\ submits[o] < MaxSubmits
  /\ submits' = [submits EXCEPT ![o] = @ + 1]
  /\ pve' = [pve EXCEPT ![o][submits[o] + 1] = "running"]

(* The request reaches PVE, or it does not. *)
Send(o, accepted) == IF accepted THEN Accept(o) ELSE UNCHANGED pveVars

SubmitReturnsUpid(k) ==
  /\ pc[k] = "submit"
  /\ Accept(job[k])
  /\ pc' = [pc EXCEPT ![k] = "record"]
  /\ upid' = [upid EXCEPT ![k] = submits[job[k]] + 1]
  /\ UNCHANGED <<rowVars, queue, job, attempt, invVars, crashes>>

(* Mutant: one attempt too many. *)
SubmitRetriesOnceMore(k, accepted) ==
  /\ pc[k] = "submit"
  /\ Action[job[k]] \in PowerActions
  /\ attempt[k] <= MaxActionAttempts
  /\ Send(job[k], accepted)
  /\ attempt' = [attempt EXCEPT ![k] = @ + 1]
  /\ UNCHANGED <<rowVars, queue, pc, job, upid, invVars, crashes>>

(* CLUSTER_UNREACHABLE and PVE_UPSTREAM_ERROR are retried by the power     *)
(* runner only, up to pve_action_max_attempts, though PVE may have         *)
(* accepted the request that failed.                                       *)
SubmitRetries(k, accepted) ==
  /\ pc[k] = "submit"
  /\ Action[job[k]] \in PowerActions
  /\ attempt[k] < MaxActionAttempts
  /\ Send(job[k], accepted)
  /\ attempt' = [attempt EXCEPT ![k] = @ + 1]
  /\ UNCHANGED <<rowVars, queue, pc, job, upid, invVars, crashes>>

(* PVE_TIMEOUT ends the operation as TIMEOUT and is never retried; any     *)
(* other error of the last attempt ends it as FAILED.                      *)
SubmitEnds(k, accepted, s) ==
  /\ pc[k] = "submit"
  /\ s \in {"FAILED", "TIMEOUT"}
  /\ Send(job[k], accepted)
  /\ End(k, s)
  /\ UNCHANGED <<rows, queue, invVars, crashes>>

(* The pve_tasks row and the heartbeat, committed after the reply (the     *)
(* delete path commits no heartbeat).                                      *)
Record(k) ==
  /\ pc[k] = "record"
  /\ rows' = [rows EXCEPT ![job[k]] = @ \cup {upid[k]}]
  /\ lease' = IF Admin(job[k]) THEN lease ELSE [lease EXCEPT ![job[k]] = "fresh"]
  /\ pc' = [pc EXCEPT ![k] = "poll"]
  /\ UNCHANGED <<status, run, pveVars, queue, job, upid, attempt, invVars, crashes>>

(* One turn of a poll loop: still running, or a retryable error. *)
PollAgain(k) ==
  /\ pc[k] = "poll"
  /\ lease' = IF Admin(job[k]) THEN lease ELSE [lease EXCEPT ![job[k]] = "fresh"]
  /\ UNCHANGED <<status, run, rows, pveVars, queue, workerVars, invVars, crashes>>

(* Mutant: the exit status is not looked at. *)
TaskStopped(k) == pve[job[k]][upid[k]] # "running"

(* The polled task stopped with OK. *)
TaskOk(k) == pve[job[k]][upid[k]] = "ok"

(* Mutant: a poll loop with neither deadline nor attempt limit. *)
PollEndsWithTask(k, s) ==
  /\ pc[k] = "poll"
  /\ Action[job[k]] # "delete"
  /\ pve[job[k]][upid[k]] # "running"
  /\ s = "SUCCEEDED" => TaskOk(k)
  /\ End(k, s)
  /\ UNCHANGED <<rows, pveVars, queue, invVars, crashes>>

(* The loop ends: success needs exit status OK (and, for a power action,   *)
(* the expected final state); a failed task, an error or a state mismatch  *)
(* fails; the deadline, the attempt limit or a timed out call time out.    *)
PollEnds(k, s) ==
  /\ pc[k] = "poll"
  /\ Action[job[k]] # "delete"
  /\ s = "SUCCEEDED" => TaskOk(k)
  /\ End(k, s)
  /\ UNCHANGED <<rows, pveVars, queue, invVars, crashes>>

(* _poll_delete: success marks the workload absent in the same             *)
(* transaction.                                                            *)
DeletePollEnds(k, s) ==
  /\ pc[k] = "poll"
  /\ Action[job[k]] = "delete"
  /\ s = "SUCCEEDED" => TaskOk(k)
  /\ End(k, s)
  /\ present' = IF s = "SUCCEEDED"
                THEN [present EXCEPT ![WorkloadOf[job[k]]] = FALSE]
                ELSE present
  /\ UNCHANGED <<rows, pveVars, queue, owner, crashes>>

-----------------------------------------------------------------------------
(* Failure, recovery and the passing of time.                              *)

Mail(k) == IF job[k] = NoOp THEN {} ELSE {<<RunnerOf(job[k]), job[k]>>}

(* task_reject_on_worker_lost and acks_late: the message comes back. *)
Crash(k) ==
  /\ pc[k] # "down"
  /\ crashes < MaxCrashes
  /\ crashes' = crashes + 1
  /\ queue' = queue \cup Mail(k)
  /\ pc' = [pc EXCEPT ![k] = "down"]
  /\ job' = [job EXCEPT ![k] = NoOp]
  /\ upid' = [upid EXCEPT ![k] = 0]
  /\ attempt' = [attempt EXCEPT ![k] = 1]
  /\ UNCHANGED <<rowVars, pveVars, invVars>>

(* What worker_ready publishes: recover_power_operations takes every       *)
(* active operation that is not a backup, restores included;               *)
(* recover_backup_operations the backups and the restores.                 *)
Recovered ==
  {<<"power", o>> : o \in {p \in Ops : status[p] \in Active /\ Action[p] # "backup"}}
  \cup {<<Action[o], o>> : o \in {p \in Ops : status[p] \in Active /\ Once(p)}}

Restart(k) ==
  /\ pc[k] = "down"
  /\ pc' = [pc EXCEPT ![k] = "idle"]
  /\ queue' = queue \cup Recovered
  /\ UNCHANGED <<rowVars, pveVars, job, upid, attempt, invVars, crashes>>

(* The broker's visibility timeout: an unacknowledged message again. *)
Redeliver(k) ==
  /\ job[k] # NoOp
  /\ queue' = queue \cup Mail(k)
  /\ UNCHANGED <<rowVars, pveVars, workerVars, invVars, crashes>>

(* operation_lease_seconds pass with no heartbeat.  A submission with its  *)
(* retries can take longer than the lease.                                 *)
LeaseExpires(o) ==
  /\ status[o] = "RUNNING"
  /\ lease[o] = "fresh"
  /\ lease' = [lease EXCEPT ![o] = "expired"]
  /\ UNCHANGED <<status, run, rows, pveVars, queue, workerVars, invVars, crashes>>

(* A task ends inside PVE (external). *)
TaskStops(o, n, s) ==
  /\ pve[o][n] = "running"
  /\ s \in {"ok", "failed"}
  /\ pve' = [pve EXCEPT ![o][n] = s]
  /\ UNCHANGED <<rowVars, submits, queue, workerVars, invVars, crashes>>

(* import_workloads finds the guest again. *)
Import(w) ==
  /\ ~present[w]
  /\ present' = [present EXCEPT ![w] = TRUE]
  /\ UNCHANGED <<rowVars, pveVars, queue, workerVars, owner, crashes>>

(* WorkloadService.assign, which does not look for active operations, and  *)
(* unassign, which does, each with the workload row locked.                *)
Assign(w, g) ==
  /\ present[w]
  /\ owner[w] = NoOrg
  /\ owner' = [owner EXCEPT ![w] = g]
  /\ UNCHANGED <<rowVars, pveVars, queue, workerVars, present, crashes>>

(* Mutant: unassign does not look for active operations. *)
UnassignAnyway(w) ==
  /\ present[w]
  /\ owner[w] # NoOrg
  /\ owner' = [owner EXCEPT ![w] = NoOrg]
  /\ UNCHANGED <<rowVars, pveVars, queue, workerVars, present, crashes>>

Unassign(w) ==
  /\ present[w]
  /\ owner[w] # NoOrg
  /\ WorkloadFree(w)
  /\ owner' = [owner EXCEPT ![w] = NoOrg]
  /\ UNCHANGED <<rowVars, pveVars, queue, workerVars, present, crashes>>

-----------------------------------------------------------------------------
Request(o) == Validate(o) \/ Reject(o) \/ \E sent \in BOOLEAN : Insert(o, sent)

Receive(k) ==
  \E m \in queue :
    \/ ClaimSkip(k, m)
    \/ ClaimReject(k, m)
    \/ ClaimUnknown(k, m)
    \/ ClaimStart(k, m)
    \/ ClaimAbort(k, m)
    \/ \E n \in Slots : ClaimResume(k, m, n)

Ending(k) == \E s \in Terminal : PollEnds(k, s) \/ DeletePollEnds(k, s)

Step(k) ==
  \/ ObserveProceeds(k)
  \/ SubmitReturnsUpid(k)
  \/ Record(k)
  \/ \E s \in Terminal : ObserveEnds(k, s) \/ SpecEnds(k, s)
  \/ \E accepted \in BOOLEAN : SubmitRetries(k, accepted)
  \/ \E accepted \in BOOLEAN, s \in Terminal : SubmitEnds(k, accepted, s)

Inventory(w) == Import(w) \/ Unassign(w) \/ \E g \in Orgs : Assign(w, g)

Outage(k) == Crash(k) \/ Restart(k) \/ Redeliver(k)

Elapse(o) ==
  LeaseExpires(o) \/ \E n \in Slots, s \in {"ok", "failed"} : TaskStops(o, n, s)

Next ==
  \/ \E o \in Ops : Request(o) \/ Elapse(o)
  \/ \E k \in Workers : Receive(k) \/ Step(k) \/ PollAgain(k) \/ Ending(k) \/ Outage(k)
  \/ \E w \in Workloads : Inventory(w)

Spec == Init /\ [][Next]_vars

(***************************************************************************)
(* Fairness.  A live worker takes messages and goes on with its job (every *)
(* PVE call has a timeout); a poll loop ends (deadline and attempt limit); *)
(* the container runtime restarts a dead worker (compose.yaml, restart:    *)
(* unless-stopped); clocks advance.  Users, PVE and the broker's           *)
(* redelivery owe nothing.                                                 *)
(***************************************************************************)
Fairness ==
  /\ \A k \in Workers : /\ WF_vars(Receive(k))
                        /\ WF_vars(Step(k))
                        /\ WF_vars(Ending(k))
                        /\ WF_vars(Restart(k))
  /\ \A o \in Ops : WF_vars(LeaseExpires(o))

FairSpec == Spec /\ Fairness
-----------------------------------------------------------------------------
(* Properties.                                                             *)

(* One workload never has two operations QUEUED or RUNNING, however the    *)
(* requests, claims, blind finishes and recoveries interleave: the partial *)
(* unique index is never run past (models/operation.py).                   *)
ActiveExclusive ==
  \A o, p \in Ops :
    /\ WorkloadOf[o] = WorkloadOf[p]
    /\ status[o] \in Active
    /\ status[p] \in Active
    => o = p

(* PVE is given one vzdump or restore at most for one idempotency key,     *)
(* over every redelivery, crash and recovery: an interrupted submission is *)
(* given up (BACKUP_/RESTORE_SUBMISSION_STATE_UNKNOWN), never repeated.    *)
SubmittedOncePerKey ==
  \A o, p \in Ops :
    /\ Once(o)
    /\ KeyOf[o] = KeyOf[p]
    /\ submits[o] > 0
    => /\ submits[o] = 1
       /\ submits[p] > 0 => o = p

(* A reboot or reset reaches PVE at most pve_action_max_attempts times:    *)
(* crashes, redeliveries and recoveries add nothing to the retries that    *)
(* _submit itself makes after CLUSTER_UNREACHABLE and PVE_UPSTREAM_ERROR.  *)
RebootBounded ==
  \A o \in Ops : Action[o] \in Reboots => submits[o] <= MaxActionAttempts

(* Only polling is retried after a transient error (docs/api-design.md     *)
(* section 8): without a death of its worker a reboot or reset reaches PVE *)
(* once at most.                                                           *)
RebootSubmittedOnce ==
  \A o \in Ops : Action[o] \in Reboots /\ crashes = 0 => submits[o] <= 1

(* An operation whose success changes what exists (backup, restore,        *)
(* delete) is SUCCEEDED only if PVE ended one of its recorded tasks OK.    *)
SuccessIsReal ==
  \A o \in Ops :
    Action[o] \in OnceActions \cup {"delete"} /\ status[o] = "SUCCEEDED"
      => \E n \in rows[o] : pve[o][n] = "ok"

(* backup_runs.status and operations.status agree after every transaction, *)
(* whichever worker wrote last.                                            *)
BackupRunMirrors ==
  \A o \in Ops : Action[o] = "backup" /\ Inserted(o) => run[o] = status[o]

(* While a customer's operation is RUNNING its workload belongs to the     *)
(* customer's organization: the check at claim time and unassign's refusal *)
(* together leave no gap in which the workload changes hands.              *)
CustomerOwnsRunning ==
  \A o \in Ops :
    OrgOf[o] # NoOrg /\ status[o] = "RUNNING" => owner[WorkloadOf[o]] = OrgOf[o]

(* Backups, restores, reboots and resets are not submitted to PVE once a   *)
(* UPID is stored: a restarted worker resumes with polling.                *)
ResumesFromUpid ==
  [][\A o \in Ops :
       Action[o] \in OnceActions \cup Reboots /\ rows[o] # {}
         => submits'[o] = submits[o]]_vars

(* No worker, however late, makes an ended operation active again. *)
NeverReopened ==
  [][\A o \in Ops : status[o] \in Terminal => status'[o] \in Terminal]_vars

(* Every operation that was inserted ends. *)
EveryOperationEnds ==
  \A o \in Ops : status[o] \in Active ~> status[o] \in Terminal

(* Every operation that was inserted ends, unless a worker died: whatever  *)
(* PVE does, no poll loop runs for ever and no lease locks an operation.   *)
EndsUnlessStranded ==
  \A o \in Ops : status[o] \in Active ~> (status[o] \in Terminal \/ crashes > 0)

(* An operation whose UPID is stored ends, whichever workers die. *)
RecordedOperationEnds ==
  \A o \in Ops : rows[o] # {} ~> status[o] \in Terminal

(* The stored final status of an operation is final. *)
TerminalIsFinal ==
  [][\A o \in Ops : status[o] \in Terminal => status'[o] = status[o]]_vars

(* A restore_runs row that still holds its target VMID belongs to an       *)
(* operation that has not ended.                                           *)
RestoreTargetReleased ==
  \A o \in Ops :
    Action[o] = "restore" /\ run[o] \in Active => status[o] \in Active
-----------------------------------------------------------------------------
(* The pipeline implements the contract its callers rely on.               *)

Phase(s) == CASE s \in Active -> "open" [] s \in Terminal -> "closed" [] OTHER -> "none"

Contract == INSTANCE OperationContract
              WITH phase <- [o \in Ops |-> Phase(status[o])],
                   effects <- submits,
                   OnceOps <- {o \in Ops : Once(o)}

(* Seen through status and the tasks PVE accepted, every step of the       *)
(* services and the workers is a step of the contract or no step: one open *)
(* operation per workload, one operation per idempotency key, and a backup *)
(* or restore acts on PVE once at most.                                    *)
ImplementsContract == Contract!CSpec
=============================================================================
