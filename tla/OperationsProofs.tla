--------------------------- MODULE OperationsProofs ---------------------------
(***************************************************************************)
(* Proofs about Operations, for every set of requests, workloads and       *)
(* workers and every bound.  One lemma per action shows that the inductive *)
(* invariant IInv of OperationsInvariant is kept; the safety properties,   *)
(* the action properties and the refinement of OperationContract follow.   *)
(***************************************************************************)
EXTENDS OperationsInvariant, TLAPS

USE ActionAssumption, WorkloadAssumption, OrgAssumption, CustomerAssumption,
    BackupAssumption, NoValueAssumption, BoundsAssumption

(* What a PVE call leaves behind, accepted or not. *)
Sent(o) ==
  /\ submits' \in [Ops -> 0 .. MaxSubmits]
  /\ pve' \in [Ops -> [Slots -> {"none", "running", "ok", "failed"}]]
  /\ \A p \in Ops : p # o => submits'[p] = submits[p]
  /\ submits'[o] = submits[o] \/ submits'[o] = submits[o] + 1
  /\ \A p \in Ops : \A n \in 1 .. submits[p] : pve'[p][n] = pve[p][n]

(* PVE starts one task and no other record of it changes. *)
LEMMA AcceptFacts ==
  ASSUME TypeOK, NEW o \in Ops, Accept(o)
  PROVE  Sent(o) /\ submits'[o] = submits[o] + 1 /\ submits'[o] \in Slots
<1>1. submits[o] + 1 \in Slots /\ submits[o] \in 0 .. MaxSubmits
  BY DEF Accept, TypeOK, Slots
<1>2. submits' = [submits EXCEPT ![o] = @ + 1]
  BY DEF Accept
<1>3. pve' = [pve EXCEPT ![o] = [pve[o] EXCEPT ![submits[o] + 1] = "running"]]
  BY DEF Accept
<1>4. pve' \in [Ops -> [Slots -> {"none", "running", "ok", "failed"}]]
  BY <1>1, <1>3 DEF TypeOK
<1>5. \A p \in Ops : \A n \in 1 .. submits[p] : pve'[p][n] = pve[p][n]
  BY <1>1, <1>3 DEF TypeOK, Slots
<1>6. submits'[o] = submits[o] + 1 /\ \A p \in Ops : p # o => submits'[p] = submits[p]
  BY <1>2 DEF TypeOK
<1>7. submits' \in [Ops -> 0 .. MaxSubmits]
  BY <1>1, <1>2 DEF TypeOK, Slots
<1> QED BY <1>1, <1>4, <1>5, <1>6, <1>7 DEF Sent

(* The same for a call that may have been lost. *)
LEMMA SendFacts ==
  ASSUME TypeOK, NEW o \in Ops, NEW accepted \in BOOLEAN, Send(o, accepted)
  PROVE  Sent(o)
<1>1. Accept(o) \/ UNCHANGED pveVars
  BY Zenon DEF Send
<1>2. CASE UNCHANGED pveVars
  BY <1>2 DEF pveVars, TypeOK, Sent
<1> QED BY <1>1, <1>2, AcceptFacts

(* A worker that calls PVE keeps the bounds on submissions and leaves what *)
(* was stored, polled or ended OK as it was.                               *)
LEMMA SubmitStage ==
  ASSUME IInv, NEW k \in Workers, pc[k] = "submit", Sent(job[k])
  PROVE  /\ job[k] \in Ops /\ Inserted(job[k])
         /\ Action[job[k]] \in Careful
              => /\ rows[job[k]] = {}
                 /\ status[job[k]] # "QUEUED"
                 /\ submits[job[k]] < attempt[k]
                 /\ Once(job[k]) => attempt[k] = 1
         /\ SubmitsBounded'
         /\ \A o \in Ops : rows[o] \subseteq 1 .. submits'[o]
         /\ \A o \in Ops : \A n \in rows[o] : pve'[o][n] = pve[o][n]
         /\ \A j \in Workers :
              pc[j] \in {"record", "poll"} => upid[j] \in 1 .. submits'[job[j]]
<1> USE DEF IInv
<1>1. job[k] \in Ops /\ Inserted(job[k])
  BY DEF WorkersCoherent, Stages
<1>2. Action[job[k]] \in Careful
        => /\ rows[job[k]] = {}
           /\ status[job[k]] # "QUEUED"
           /\ submits[job[k]] < attempt[k]
           /\ Once(job[k]) => attempt[k] = 1
  BY DEF SoleSubmitter, Submitting
<1>3. \A o \in Ops : submits[o] \in Nat /\ submits'[o] \in Nat /\ submits[o] <= submits'[o]
  <2> TAKE o \in Ops
  <2>1. submits[o] \in 0 .. MaxSubmits /\ submits'[o] \in 0 .. MaxSubmits
    BY DEF Sent, TypeOK
  <2>2. submits'[o] = submits[o] \/ submits'[o] = submits[o] + 1
    BY DEF Sent
  <2> QED BY <2>1, <2>2
<1>4. attempt[k] \in 1 .. MaxActionAttempts
  BY DEF TypeOK
<1>5. ASSUME NEW o \in Ops, o = job[k]
      PROVE  /\ Once(o) => submits'[o] <= 1
             /\ Action[o] \in Reboots => submits'[o] <= MaxActionAttempts
  BY <1>2, <1>3, <1>4, <1>5 DEF Sent, Careful, Once
<1>6. ASSUME NEW o \in Ops, o # job[k]
      PROVE  /\ Once(o) => submits'[o] <= 1
             /\ Action[o] \in Reboots => submits'[o] <= MaxActionAttempts
  BY <1>6 DEF Sent, SubmitsBounded
<1>7. SubmitsBounded'
  BY <1>5, <1>6 DEF SubmitsBounded, Once
<1>8. \A o \in Ops : rows[o] \subseteq 1 .. submits'[o]
  BY <1>3 DEF RowsCoherent
<1>9. \A o \in Ops : \A n \in rows[o] : pve'[o][n] = pve[o][n]
  BY DEF RowsCoherent, Sent
<1>10. \A j \in Workers :
         pc[j] \in {"record", "poll"} => upid[j] \in 1 .. submits'[job[j]]
  BY <1>3 DEF WorkersCoherent, Stages
<1> QED BY <1>1, <1>2, <1>7, <1>8, <1>9, <1>10

(* A validated request has no row yet: nothing the invariant speaks of     *)
(* changes.                                                                *)
LEMMA ValidateStep ==
  ASSUME IInv, NEW o \in Ops, Validate(o)
  PROVE  IInv'
<1> USE DEF Validate, IInv, Inserted, rowVars, pveVars, workerVars, invVars,
        Active, Terminal
<1>1. TypeOK' BY DEF TypeOK, Statuses, Stages, Slots, Messages, Runners
<1>2. WorkersCoherent' BY DEF TypeOK, WorkersCoherent, Stages, Statuses
<1>3. RowsCoherent' BY DEF TypeOK, RowsCoherent, Statuses
<1>4. KeysUnique' BY DEF TypeOK, KeysUnique, Statuses
<1>5. SoleSubmitter' BY DEF TypeOK, WorkersCoherent, SoleSubmitter,
      Submitting, Stages, Statuses
<1>6. ActiveExclusive' BY DEF TypeOK, ActiveExclusive, Statuses
<1>7. SuccessIsReal' BY DEF TypeOK, SuccessIsReal, Statuses
<1>8. BackupRunMirrors' BY DEF TypeOK, BackupRunMirrors, Statuses
<1>9. CustomerOwnsRunning' BY DEF TypeOK, CustomerOwnsRunning, Statuses
<1>10. QueueCoherent' /\ SubmitsBounded'
  BY DEF QueueCoherent, SubmitsBounded
<1> QED BY <1>1, <1>2, <1>3, <1>4, <1>5, <1>6, <1>7, <1>8, <1>9, <1>10

(* The unique indexes make the new row the only one of its key and the     *)
(* only active one of its workload; no worker knows it yet.                *)
LEMMA InsertStep ==
  ASSUME IInv, NEW o \in Ops, NEW sent \in BOOLEAN, Insert(o, sent)
  PROVE  IInv'
<1> USE DEF Insert, IInv, Inserted, KeyFree, WorkloadFree, RunnerOf, Once,
        OnceActions, rowVars, pveVars, workerVars, invVars, Active, Terminal
<1>1. TypeOK' BY DEF TypeOK, Statuses, Stages, Slots, Messages, Runners
<1>2. WorkersCoherent' BY DEF TypeOK, WorkersCoherent, Stages, Statuses
<1>3. QueueCoherent' BY DEF TypeOK, QueueCoherent
<1>4. RowsCoherent' BY DEF TypeOK, RowsCoherent, Statuses, Careful, Reboots
<1>5. KeysUnique' BY DEF TypeOK, KeysUnique, Statuses
<1>6. SoleSubmitter' BY DEF TypeOK, WorkersCoherent, SoleSubmitter,
      Submitting, Stages, Statuses, Careful, Reboots
<1>7. ActiveExclusive' BY DEF TypeOK, ActiveExclusive, Statuses
<1>8. SuccessIsReal' BY DEF TypeOK, SuccessIsReal, Statuses
<1>9. BackupRunMirrors' BY DEF TypeOK, BackupRunMirrors, Statuses
<1>10. CustomerOwnsRunning' BY DEF TypeOK, CustomerOwnsRunning, Statuses
<1>11. SubmitsBounded'
  BY DEF SubmitsBounded
<1> QED BY <1>1, <1>2, <1>3, <1>4, <1>5, <1>6, <1>7, <1>8, <1>9, <1>10, <1>11

(* A rolled back request leaves no row behind.                             *)
LEMMA RejectStep ==
  ASSUME IInv, NEW o \in Ops, Reject(o)
  PROVE  IInv'
<1> USE DEF Reject, IInv, Inserted, rowVars, pveVars, workerVars, invVars,
        Active, Terminal
<1>1. TypeOK' BY DEF TypeOK, Statuses, Stages, Slots, Messages, Runners
<1>2. WorkersCoherent' BY DEF TypeOK, WorkersCoherent, Stages, Statuses
<1>3. RowsCoherent' BY DEF TypeOK, RowsCoherent, Statuses
<1>4. KeysUnique' BY DEF TypeOK, KeysUnique, Statuses
<1>5. SoleSubmitter' BY DEF TypeOK, WorkersCoherent, SoleSubmitter,
      Submitting, Stages, Statuses
<1>6. ActiveExclusive' BY DEF TypeOK, ActiveExclusive, Statuses
<1>7. SuccessIsReal' BY DEF TypeOK, SuccessIsReal, Statuses
<1>8. BackupRunMirrors' BY DEF TypeOK, BackupRunMirrors, Statuses
<1>9. CustomerOwnsRunning' BY DEF TypeOK, CustomerOwnsRunning, Statuses
<1>10. QueueCoherent' /\ SubmitsBounded'
  BY DEF QueueCoherent, SubmitsBounded
<1> QED BY <1>1, <1>2, <1>3, <1>4, <1>5, <1>6, <1>7, <1>8, <1>9, <1>10

(* A skipped message only leaves the queue.                                *)
LEMMA ClaimSkipStep ==
  ASSUME IInv, NEW k \in Workers, NEW m \in queue, ClaimSkip(k, m)
  PROVE  IInv'
<1> USE DEF ClaimSkip, IInv, Inserted, Take, rowVars, pveVars, workerVars,
        invVars, Active, Terminal
<1>1. m \in Runners \X Ops /\ m[1] \in Runners /\ m[2] \in Ops BY DEF TypeOK, Messages
<1>2. TypeOK' BY <1>1 DEF TypeOK, Statuses, Stages, Slots, Messages, Runners
<1>3. QueueCoherent' BY <1>1 DEF TypeOK, QueueCoherent
<1>4. WorkersCoherent' /\ RowsCoherent' /\ KeysUnique' /\ SoleSubmitter' /\
      SubmitsBounded' /\ ActiveExclusive' /\ SuccessIsReal' /\
      BackupRunMirrors' /\ CustomerOwnsRunning'
  BY <1>1 DEF WorkersCoherent, RowsCoherent, KeysUnique, SoleSubmitter,
    SubmitsBounded, ActiveExclusive, SuccessIsReal, BackupRunMirrors,
    CustomerOwnsRunning
<1> QED BY <1>1, <1>2, <1>3, <1>4

(* A rejected operation ends; its run ends with it, because only restores  *)
(* are ever sent to another runner.                                        *)
LEMMA ClaimRejectStep ==
  ASSUME IInv, NEW k \in Workers, NEW m \in queue, ClaimReject(k, m)
  PROVE  IInv'
<1> USE DEF ClaimReject, IInv, Inserted, Take, Finish, FinishRun, rowVars,
        pveVars, workerVars, invVars, Active, Terminal
<1>1. m \in Runners \X Ops /\ m[1] \in Runners /\ m[2] \in Ops BY DEF TypeOK, Messages
<1>2. TypeOK' BY <1>1 DEF TypeOK, Statuses, Stages, Slots, Messages, Runners
<1>3. WorkersCoherent' BY <1>1 DEF TypeOK, WorkersCoherent, Stages, Statuses
<1>4. QueueCoherent' BY <1>1 DEF TypeOK, QueueCoherent
<1>5. RowsCoherent' BY <1>1 DEF TypeOK, RowsCoherent, Statuses
<1>6. KeysUnique' BY <1>1 DEF TypeOK, KeysUnique, Statuses
<1>7. SoleSubmitter' BY <1>1 DEF TypeOK, WorkersCoherent, SoleSubmitter,
      Submitting, Stages, Statuses
<1>8. ActiveExclusive' BY <1>1 DEF TypeOK, ActiveExclusive, Statuses
<1>9. SuccessIsReal' BY <1>1 DEF TypeOK, SuccessIsReal, Statuses
<1>10. BackupRunMirrors' BY <1>1 DEF TypeOK, BackupRunMirrors, Statuses,
      QueueCoherent, RunnerOf, OnceActions
<1>11. CustomerOwnsRunning' BY <1>1 DEF TypeOK, CustomerOwnsRunning, Statuses
<1>12. SubmitsBounded'
  BY <1>1 DEF SubmitsBounded
<1> QED BY <1>1, <1>2, <1>3, <1>4, <1>5, <1>6, <1>7, <1>8, <1>9, <1>10, <1>11,
    <1>12

(* A submission given up ends like a rejected one.                         *)
LEMMA ClaimUnknownStep ==
  ASSUME IInv, NEW k \in Workers, NEW m \in queue, ClaimUnknown(k, m)
  PROVE  IInv'
<1> USE DEF ClaimUnknown, IInv, Inserted, Take, Finish, FinishRun, rowVars,
        pveVars, workerVars, invVars, Active, Terminal
<1>1. m \in Runners \X Ops /\ m[1] \in Runners /\ m[2] \in Ops BY DEF TypeOK, Messages
<1>2. TypeOK' BY <1>1 DEF TypeOK, Statuses, Stages, Slots, Messages, Runners
<1>3. WorkersCoherent' BY <1>1 DEF TypeOK, WorkersCoherent, Stages, Statuses
<1>4. QueueCoherent' BY <1>1 DEF TypeOK, QueueCoherent
<1>5. RowsCoherent' BY <1>1 DEF TypeOK, RowsCoherent, Statuses
<1>6. KeysUnique' BY <1>1 DEF TypeOK, KeysUnique, Statuses
<1>7. SoleSubmitter' BY <1>1 DEF TypeOK, WorkersCoherent, SoleSubmitter,
      Submitting, Stages, Statuses
<1>8. ActiveExclusive' BY <1>1 DEF TypeOK, ActiveExclusive, Statuses
<1>9. SuccessIsReal' BY <1>1 DEF TypeOK, SuccessIsReal, Statuses
<1>10. BackupRunMirrors' BY <1>1 DEF TypeOK, BackupRunMirrors, Statuses,
      QueueCoherent, RunnerOf, OnceActions
<1>11. CustomerOwnsRunning' BY <1>1 DEF TypeOK, CustomerOwnsRunning, Statuses
<1>12. SubmitsBounded'
  BY <1>1 DEF SubmitsBounded
<1> QED BY <1>1, <1>2, <1>3, <1>4, <1>5, <1>6, <1>7, <1>8, <1>9, <1>10, <1>11,
    <1>12

(* A new claim of a backup, restore, reboot or reset that leads to a       *)
(* submission is a claim of a QUEUED row: no other worker has it and PVE   *)
(* has accepted nothing.                                                   *)
LEMMA ClaimStartStep ==
  ASSUME IInv, NEW k \in Workers, NEW m \in queue, ClaimStart(k, m)
  PROVE  IInv'
<1> USE DEF ClaimStart, IInv, Inserted, Claim, Take, Enter, Leased, Unknown,
        StillAllowed, PowerAllowed, FirstStage, RunnerOf, Admin, Once,
        AdminActions, OnceActions, PowerActions, rowVars, pveVars, workerVars,
        invVars, Active, Terminal
<1>1. m \in Runners \X Ops /\ m[1] \in Runners /\ m[2] \in Ops BY DEF TypeOK, Messages
<1>2. TypeOK' BY <1>1 DEF TypeOK, Statuses, Stages, Slots, Messages, Runners
<1>3. WorkersCoherent' BY <1>1 DEF TypeOK, WorkersCoherent, Stages, Statuses
<1>4. QueueCoherent' BY <1>1 DEF TypeOK, QueueCoherent
<1>5. RowsCoherent' BY <1>1 DEF TypeOK, RowsCoherent, Statuses
<1>6. KeysUnique' BY <1>1 DEF TypeOK, KeysUnique, Statuses
<1>7. SoleSubmitter' BY <1>1 DEF TypeOK, WorkersCoherent, SoleSubmitter,
      Submitting, Stages, Statuses, Careful, Reboots, RowsCoherent
<1>8. ActiveExclusive' BY <1>1 DEF TypeOK, ActiveExclusive, Statuses
<1>9. SuccessIsReal' BY <1>1 DEF TypeOK, SuccessIsReal, Statuses
<1>10. BackupRunMirrors' BY <1>1 DEF TypeOK, BackupRunMirrors, Statuses
<1>11. CustomerOwnsRunning' BY <1>1 DEF TypeOK, CustomerOwnsRunning, Statuses
<1>12. SubmitsBounded'
  BY <1>1 DEF SubmitsBounded
<1> QED BY <1>1, <1>2, <1>3, <1>4, <1>5, <1>6, <1>7, <1>8, <1>9, <1>10, <1>11,
    <1>12

(* A resumed operation goes straight to polling a stored UPID.             *)
LEMMA ClaimResumeStep ==
  ASSUME IInv, NEW k \in Workers, NEW m \in queue, NEW n \in Slots,
         ClaimResume(k, m, n)
  PROVE  IInv'
<1> USE DEF ClaimResume, IInv, Inserted, Claim, Take, Enter, Leased, Unknown,
        StillAllowed, PowerAllowed, FirstStage, RunnerOf, Admin, Once,
        AdminActions, OnceActions, PowerActions, rowVars, pveVars, workerVars,
        invVars, Active, Terminal
<1>1. m \in Runners \X Ops /\ m[1] \in Runners /\ m[2] \in Ops BY DEF TypeOK, Messages
<1>2. TypeOK' BY <1>1 DEF TypeOK, Statuses, Stages, Slots, Messages, Runners
<1>3. WorkersCoherent' BY <1>1 DEF TypeOK, WorkersCoherent, Stages, Statuses,
      RowsCoherent, Slots
<1>4. QueueCoherent' BY <1>1 DEF TypeOK, QueueCoherent
<1>5. RowsCoherent' BY <1>1 DEF TypeOK, RowsCoherent, Statuses
<1>6. KeysUnique' BY <1>1 DEF TypeOK, KeysUnique, Statuses
<1>7. SoleSubmitter' BY <1>1 DEF TypeOK, WorkersCoherent, SoleSubmitter,
      Submitting, Stages, Statuses
<1>8. ActiveExclusive' BY <1>1 DEF TypeOK, ActiveExclusive, Statuses
<1>9. SuccessIsReal' BY <1>1 DEF TypeOK, SuccessIsReal, Statuses
<1>10. BackupRunMirrors' BY <1>1 DEF TypeOK, BackupRunMirrors, Statuses
<1>11. CustomerOwnsRunning' BY <1>1 DEF TypeOK, CustomerOwnsRunning, Statuses
<1>12. SubmitsBounded'
  BY <1>1 DEF SubmitsBounded
<1> QED BY <1>1, <1>2, <1>3, <1>4, <1>5, <1>6, <1>7, <1>8, <1>9, <1>10, <1>11,
    <1>12

(* The power runner's claim of a restore starts no stage.                  *)
LEMMA ClaimAbortStep ==
  ASSUME IInv, NEW k \in Workers, NEW m \in queue, ClaimAbort(k, m)
  PROVE  IInv'
<1> USE DEF ClaimAbort, IInv, Inserted, Claim, Take, Enter, Leased, Unknown,
        StillAllowed, PowerAllowed, FirstStage, RunnerOf, Admin, Once,
        AdminActions, OnceActions, rowVars, pveVars, workerVars, invVars,
        Active, Terminal
<1>1. m \in Runners \X Ops /\ m[1] \in Runners /\ m[2] \in Ops BY DEF TypeOK, Messages
<1>2. TypeOK' BY <1>1 DEF TypeOK, Statuses, Stages, Slots, Messages, Runners
<1>3. WorkersCoherent' BY <1>1 DEF TypeOK, WorkersCoherent, Stages, Statuses
<1>4. QueueCoherent' BY <1>1 DEF TypeOK, QueueCoherent
<1>5. RowsCoherent' BY <1>1 DEF TypeOK, RowsCoherent, Statuses
<1>6. KeysUnique' BY <1>1 DEF TypeOK, KeysUnique, Statuses
<1>7. SoleSubmitter' BY <1>1 DEF TypeOK, WorkersCoherent, SoleSubmitter,
      Submitting, Stages, Statuses
<1>8. ActiveExclusive' BY <1>1 DEF TypeOK, ActiveExclusive, Statuses
<1>9. SuccessIsReal' BY <1>1 DEF TypeOK, SuccessIsReal, Statuses
<1>10. BackupRunMirrors' BY <1>1 DEF TypeOK, BackupRunMirrors, Statuses,
      QueueCoherent
<1>11. CustomerOwnsRunning' BY <1>1 DEF TypeOK, CustomerOwnsRunning, Statuses,
      QueueCoherent, PowerActions
<1>12. SubmitsBounded'
  BY <1>1 DEF SubmitsBounded
<1> QED BY <1>1, <1>2, <1>3, <1>4, <1>5, <1>6, <1>7, <1>8, <1>9, <1>10, <1>11,
    <1>12

(* Reads before a submission end an operation; only a power action can     *)
(* succeed this way.                                                       *)
LEMMA ObserveEndsStep ==
  ASSUME IInv, NEW k \in Workers, NEW s \in Terminal, ObserveEnds(k, s)
  PROVE  IInv'
<1> USE DEF ObserveEnds, IInv, Inserted, End, Finish, FinishRun, Release,
        RunnerOf, ObserveEndings, OnceActions, rowVars, pveVars, workerVars,
        invVars, Active, Terminal
<1>1. job[k] \in Ops /\ Inserted(job[k]) BY DEF WorkersCoherent, Stages
<1>2. TypeOK'
  <2>1. run' \in [Ops -> Statuses]
    BY <1>1 DEF TypeOK, Statuses
  <2>2. status' \in [Ops -> Statuses] /\ lease' \in [Ops -> {"none", "fresh", "expired"}]
    BY <1>1 DEF TypeOK, Statuses
  <2> QED BY <1>1, <2>1, <2>2 DEF TypeOK
<1>3. WorkersCoherent' BY <1>1 DEF TypeOK, WorkersCoherent, Stages, Statuses
<1>4. RowsCoherent' BY <1>1 DEF TypeOK, RowsCoherent, Statuses
<1>5. KeysUnique' BY <1>1 DEF TypeOK, KeysUnique, Statuses
<1>6. SoleSubmitter' BY <1>1 DEF TypeOK, WorkersCoherent, SoleSubmitter,
      Submitting, Stages, Statuses
<1>7. ActiveExclusive' BY <1>1 DEF TypeOK, ActiveExclusive, Statuses
<1>8. SuccessIsReal' BY <1>1 DEF TypeOK, SuccessIsReal, Statuses,
      WorkersCoherent, Stages, PowerActions, Reboots
<1>9. BackupRunMirrors' BY <1>1 DEF TypeOK, BackupRunMirrors, Statuses,
      WorkersCoherent, Stages
<1>10. CustomerOwnsRunning' BY <1>1 DEF TypeOK, CustomerOwnsRunning, Statuses
<1>11. QueueCoherent' /\ SubmitsBounded'
  BY <1>1 DEF QueueCoherent, SubmitsBounded
<1> QED BY <1>1, <1>2, <1>3, <1>4, <1>5, <1>6, <1>7, <1>8, <1>9, <1>10, <1>11

(* A worker that was told of a recovery does not go on to submit a reboot  *)
(* or reset, so the sole submitter stays the sole one.                     *)
LEMMA ObserveProceedsStep ==
  ASSUME IInv, NEW k \in Workers, ObserveProceeds(k)
  PROVE  IInv'
<1> USE DEF ObserveProceeds, IInv, Inserted, Resubmittable, rowVars, pveVars,
        workerVars, invVars, Active, Terminal
<1>1. job[k] \in Ops /\ Inserted(job[k]) BY DEF WorkersCoherent, Stages
<1>2. TypeOK' BY <1>1 DEF TypeOK, Statuses, Stages, Slots, Messages, Runners
<1>3. WorkersCoherent' BY <1>1 DEF TypeOK, WorkersCoherent, Stages, Statuses
<1>4. SoleSubmitter'
  <2>1. CASE pc[k] = "observe"
    BY <1>1, <2>1 DEF TypeOK, WorkersCoherent, SoleSubmitter, Submitting, Stages
  <2>2. CASE pc[k] = "recheck"
    <3>1. Action[job[k]] \notin Careful
      BY <1>1, <2>2 DEF WorkersCoherent, Careful, OnceActions, PowerActions
    <3> QED BY <1>1, <2>2, <3>1 DEF TypeOK, WorkersCoherent, SoleSubmitter, Submitting, Stages
  <2> QED BY <2>1, <2>2
<1>5. QueueCoherent' /\ RowsCoherent' /\ KeysUnique' /\ SubmitsBounded' /\
      ActiveExclusive' /\ SuccessIsReal' /\ BackupRunMirrors' /\
      CustomerOwnsRunning'
  BY <1>1 DEF QueueCoherent, RowsCoherent, KeysUnique, SubmitsBounded,
    ActiveExclusive, SuccessIsReal, BackupRunMirrors, CustomerOwnsRunning
<1> QED BY <1>1, <1>2, <1>3, <1>4, <1>5

(* A specification change ends without a task.                             *)
LEMMA SpecEndsStep ==
  ASSUME IInv, NEW k \in Workers, NEW s \in Terminal, SpecEnds(k, s)
  PROVE  IInv'
<1> USE DEF SpecEnds, IInv, Inserted, End, Finish, FinishRun, Release,
        RunnerOf, OnceActions, rowVars, pveVars, workerVars, invVars, Active,
        Terminal
<1>1. job[k] \in Ops /\ Inserted(job[k]) BY DEF WorkersCoherent, Stages
<1>2. TypeOK'
  <2>1. run' \in [Ops -> Statuses]
    BY <1>1 DEF TypeOK, Statuses
  <2>2. status' \in [Ops -> Statuses] /\ lease' \in [Ops -> {"none", "fresh", "expired"}]
    BY <1>1 DEF TypeOK, Statuses
  <2> QED BY <1>1, <2>1, <2>2 DEF TypeOK
<1>3. WorkersCoherent' BY <1>1 DEF TypeOK, WorkersCoherent, Stages, Statuses
<1>4. RowsCoherent' BY <1>1 DEF TypeOK, RowsCoherent, Statuses
<1>5. KeysUnique' BY <1>1 DEF TypeOK, KeysUnique, Statuses
<1>6. SoleSubmitter' BY <1>1 DEF TypeOK, WorkersCoherent, SoleSubmitter,
      Submitting, Stages, Statuses
<1>7. ActiveExclusive' BY <1>1 DEF TypeOK, ActiveExclusive, Statuses
<1>8. SuccessIsReal' BY <1>1 DEF TypeOK, SuccessIsReal, Statuses,
      WorkersCoherent, Stages
<1>9. BackupRunMirrors' BY <1>1 DEF TypeOK, BackupRunMirrors, Statuses
<1>10. CustomerOwnsRunning' BY <1>1 DEF TypeOK, CustomerOwnsRunning, Statuses
<1>11. QueueCoherent' /\ SubmitsBounded'
  BY <1>1 DEF QueueCoherent, SubmitsBounded
<1> QED BY <1>1, <1>2, <1>3, <1>4, <1>5, <1>6, <1>7, <1>8, <1>9, <1>10, <1>11

(* An accepted submission is the sole submitter's; its number is stored    *)
(* next.                                                                   *)
LEMMA SubmitReturnsUpidStep ==
  ASSUME IInv, NEW k \in Workers, SubmitReturnsUpid(k)
  PROVE  IInv'
<1> DEFINE o == job[k]
<1>1. /\ pc[k] = "submit"
      /\ pc' = [pc EXCEPT ![k] = "record"]
      /\ upid' = [upid EXCEPT ![k] = submits[o] + 1]
      /\ UNCHANGED <<rowVars, queue, job, attempt, invVars, crashes>>
      /\ Accept(o)
  BY DEF SubmitReturnsUpid
<1>2. TypeOK /\ o \in Ops /\ Inserted(o)
  BY <1>1 DEF IInv, WorkersCoherent, Stages
<1>3. Sent(o) /\ submits'[o] = submits[o] + 1 /\ submits'[o] \in Slots
  BY <1>1, <1>2, AcceptFacts
<1>4. /\ Action[o] \in Careful
           => /\ rows[o] = {}
              /\ status[o] # "QUEUED"
              /\ submits[o] < attempt[k]
              /\ Once(o) => attempt[k] = 1
      /\ SubmitsBounded'
  BY <1>1, <1>3, SubmitStage
<1>5. /\ \A p \in Ops : rows[p] \subseteq 1 .. submits'[p]
      /\ \A p \in Ops : \A n \in rows[p] : pve'[p][n] = pve[p][n]
      /\ \A j \in Workers :
           pc[j] \in {"record", "poll"} => upid[j] \in 1 .. submits'[job[j]]
  BY <1>1, <1>3, SubmitStage
<1> HIDE DEF o
<1> USE DEF rowVars, invVars
<1>6. TypeOK'
  BY <1>1, <1>2, <1>3 DEF TypeOK, Sent, Slots, Stages
<1>7. WorkersCoherent'
  <2> SUFFICES ASSUME NEW j \in Workers
               PROVE  /\ pc'[j] \in {"down", "idle"} => job[j] = NoOp
                      /\ pc'[j] \in Stages => job[j] \in Ops /\ Inserted(job[j])
                      /\ pc'[j] = "spec" => Action[job[j]] = "update_spec"
                      /\ pc'[j] = "recheck" => Action[job[j]] \in PowerActions
                      /\ pc'[j] \in {"record", "poll"} => upid'[j] \in 1 .. submits'[job[j]]
                      /\ pc'[j] = "poll" => upid'[j] \in rows[job[j]]
    BY <1>1 DEF WorkersCoherent, Inserted
  <2>1. CASE j = k
    BY <1>1, <1>2, <1>3, <2>1 DEF TypeOK, Slots, Stages, o
  <2>2. CASE j # k
    BY <1>1, <1>2, <1>5, <2>2 DEF IInv, TypeOK, WorkersCoherent
  <2> QED BY <2>1, <2>2
<1>8. RowsCoherent'
  BY <1>1, <1>2, <1>3, <1>4, <1>5 DEF IInv, RowsCoherent, Sent, Inserted
<1>9. SoleSubmitter'
  <2> SUFFICES ASSUME NEW j \in Workers, pc'[j] \in Submitting, Action[job[j]] \in Careful
               PROVE  /\ rows[job[j]] = {}
                      /\ status[job[j]] # "QUEUED"
                      /\ \A i \in Workers : pc'[i] \in Submitting /\ job[i] = job[j] => i = j
                      /\ submits'[job[j]] <= attempt[j]
                      /\ pc'[j] # "record" => submits'[job[j]] < attempt[j]
                      /\ Once(job[j]) => attempt[j] = 1
    BY <1>1 DEF SoleSubmitter, Once
  <2>1. pc[j] \in Submitting
    BY <1>1, <1>2 DEF TypeOK, Submitting
  <2>2. \A i \in Workers : pc'[i] \in Submitting => pc[i] \in Submitting
    BY <1>1, <1>2 DEF TypeOK, Submitting
  <2>3. job[j] \in Ops /\ (j # k => job[j] # o)
    BY <1>1, <2>1 DEF IInv, WorkersCoherent, SoleSubmitter, Stages, Submitting, o
  <2>4. CASE j = k
    BY <1>1, <1>2, <1>3, <1>4, <2>1, <2>2, <2>4 DEF IInv, TypeOK, SoleSubmitter, o
  <2>5. CASE j # k
    BY <1>1, <1>2, <1>3, <2>1, <2>2, <2>3, <2>5 DEF IInv, TypeOK, SoleSubmitter, Sent
  <2> QED BY <2>4, <2>5
<1>10. SuccessIsReal'
  BY <1>1, <1>5 DEF IInv, SuccessIsReal
<1>11. QueueCoherent' /\ KeysUnique' /\ ActiveExclusive' /\ BackupRunMirrors' /\ CustomerOwnsRunning'
  BY <1>1 DEF IInv, QueueCoherent, KeysUnique, ActiveExclusive, BackupRunMirrors,
    CustomerOwnsRunning, Inserted
<1> QED BY <1>4, <1>6, <1>7, <1>8, <1>9, <1>10, <1>11 DEF IInv

(* Each accepted submission of a retrying worker is paid for by one        *)
(* attempt.                                                                *)
LEMMA SubmitRetriesStep ==
  ASSUME IInv, NEW k \in Workers, NEW accepted \in BOOLEAN, SubmitRetries(k, accepted)
  PROVE  IInv'
<1> DEFINE o == job[k]
<1>1. /\ pc[k] = "submit"
      /\ Action[o] \in PowerActions
      /\ attempt[k] < MaxActionAttempts
      /\ attempt' = [attempt EXCEPT ![k] = @ + 1]
      /\ UNCHANGED <<rowVars, queue, pc, job, upid, invVars, crashes>>
      /\ Send(o, accepted)
  BY DEF SubmitRetries
<1>2. TypeOK /\ o \in Ops /\ Inserted(o)
  BY <1>1 DEF IInv, WorkersCoherent, Stages
<1>3. Sent(o)
  BY <1>1, <1>2, SendFacts
<1>4. /\ Action[o] \in Careful
           => /\ rows[o] = {}
              /\ status[o] # "QUEUED"
              /\ submits[o] < attempt[k]
              /\ Once(o) => attempt[k] = 1
      /\ SubmitsBounded'
  BY <1>1, <1>3, SubmitStage
<1>5. /\ \A p \in Ops : rows[p] \subseteq 1 .. submits'[p]
      /\ \A p \in Ops : \A n \in rows[p] : pve'[p][n] = pve[p][n]
      /\ \A j \in Workers :
           pc[j] \in {"record", "poll"} => upid[j] \in 1 .. submits'[job[j]]
  BY <1>1, <1>3, SubmitStage
<1> HIDE DEF o
<1> USE DEF rowVars, invVars
<1>6. TypeOK'
  BY <1>1, <1>2, <1>3 DEF TypeOK, Sent
<1>7. WorkersCoherent'
  BY <1>1, <1>5 DEF IInv, WorkersCoherent, Inserted
<1>8. RowsCoherent'
  BY <1>1, <1>2, <1>3, <1>4, <1>5 DEF IInv, RowsCoherent, Sent, Inserted
<1>9. SoleSubmitter'
  <2> SUFFICES ASSUME NEW j \in Workers, pc[j] \in Submitting, Action[job[j]] \in Careful
               PROVE  /\ submits'[job[j]] <= attempt'[j]
                      /\ pc[j] # "record" => submits'[job[j]] < attempt'[j]
                      /\ Once(job[j]) => attempt'[j] = 1
    BY <1>1 DEF IInv, SoleSubmitter, Once
  <2>1. job[j] \in Ops /\ (j # k => job[j] # o)
    BY <1>1 DEF IInv, WorkersCoherent, SoleSubmitter, Stages, Submitting, o
  <2>2. ~Once(o)
    BY <1>1 DEF Once, OnceActions, PowerActions
  <2>3. CASE j = k
    BY <1>1, <1>2, <1>3, <1>4, <2>2, <2>3 DEF TypeOK, Sent, o
  <2>4. CASE j # k
    BY <1>1, <1>2, <1>3, <2>1, <2>4 DEF IInv, TypeOK, SoleSubmitter, Sent
  <2> QED BY <2>3, <2>4
<1>10. SuccessIsReal'
  BY <1>1, <1>5 DEF IInv, SuccessIsReal
<1>11. QueueCoherent' /\ KeysUnique' /\ ActiveExclusive' /\ BackupRunMirrors' /\ CustomerOwnsRunning'
  BY <1>1 DEF IInv, QueueCoherent, KeysUnique, ActiveExclusive, BackupRunMirrors,
    CustomerOwnsRunning, Inserted
<1> QED BY <1>4, <1>6, <1>7, <1>8, <1>9, <1>10, <1>11 DEF IInv

(* A worker that gives up frees the operation: no submitter is left.       *)
LEMMA SubmitEndsStep ==
  ASSUME IInv, NEW k \in Workers, NEW accepted \in BOOLEAN, NEW s \in Terminal,
         SubmitEnds(k, accepted, s)
  PROVE  IInv'
<1> DEFINE o == job[k]
<1>1. /\ pc[k] = "submit"
      /\ s \in {"FAILED", "TIMEOUT"}
      /\ status' = [status EXCEPT ![o] = s]
      /\ lease' = [lease EXCEPT ![o] = "fresh"]
      /\ run' = IF RunnerOf(o) = "power" THEN run ELSE [run EXCEPT ![o] = s]
      /\ pc' = [pc EXCEPT ![k] = "idle"]
      /\ job' = [job EXCEPT ![k] = NoOp]
      /\ upid' = [upid EXCEPT ![k] = 0]
      /\ attempt' = [attempt EXCEPT ![k] = 1]
      /\ UNCHANGED <<rows, queue, invVars, crashes>>
      /\ Send(o, accepted)
  BY DEF SubmitEnds, End, Finish, FinishRun, Release
<1>2. TypeOK /\ o \in Ops /\ Inserted(o)
  BY <1>1 DEF IInv, WorkersCoherent, Stages
<1>3. Sent(o)
  BY <1>1, <1>2, SendFacts
<1>4. /\ Action[o] \in Careful => rows[o] = {} /\ status[o] # "QUEUED"
      /\ SubmitsBounded'
  BY <1>1, <1>3, SubmitStage
<1>5. /\ \A p \in Ops : rows[p] \subseteq 1 .. submits'[p]
      /\ \A p \in Ops : \A n \in rows[p] : pve'[p][n] = pve[p][n]
      /\ \A j \in Workers :
           pc[j] \in {"record", "poll"} => upid[j] \in 1 .. submits'[job[j]]
  BY <1>1, <1>3, SubmitStage
<1> HIDE DEF o
<1> USE DEF invVars
<1>6. \A p \in Ops : status'[p] \in Active \cup Terminal <=> Inserted(p)
  BY <1>1, <1>2 DEF TypeOK, Inserted, Terminal
<1>7. TypeOK'
  BY <1>1, <1>2, <1>3 DEF TypeOK, Sent, Statuses, Terminal
<1>8. WorkersCoherent'
  <2> SUFFICES ASSUME NEW j \in Workers
               PROVE  /\ pc'[j] \in {"down", "idle"} => job'[j] = NoOp
                      /\ pc'[j] \in Stages => job'[j] \in Ops /\ status'[job'[j]] \in Active \cup Terminal
                      /\ pc'[j] = "spec" => Action[job'[j]] = "update_spec"
                      /\ pc'[j] = "recheck" => Action[job'[j]] \in PowerActions
                      /\ pc'[j] \in {"record", "poll"} => upid'[j] \in 1 .. submits'[job'[j]]
                      /\ pc'[j] = "poll" => upid'[j] \in rows[job'[j]]
    BY <1>1 DEF WorkersCoherent, Inserted
  <2>1. CASE j = k
    BY <1>1, <1>2, <2>1 DEF TypeOK, Stages
  <2>2. CASE j # k
    <3>1. pc'[j] = pc[j] /\ job'[j] = job[j] /\ upid'[j] = upid[j]
      BY <1>1, <1>2, <2>2 DEF TypeOK
    <3>2. pc[j] \in Stages => job[j] \in Ops /\ Inserted(job[j])
      BY DEF IInv, WorkersCoherent
    <3>3. pc[j] \in Stages => status'[job[j]] \in Active \cup Terminal
      BY <1>6, <3>2
    <3> QED BY <1>5, <3>1, <3>2, <3>3 DEF IInv, WorkersCoherent
  <2> QED BY <2>1, <2>2
<1>9. RowsCoherent'
  BY <1>1, <1>2, <1>3, <1>4, <1>5, <1>6 DEF IInv, TypeOK, RowsCoherent, Sent, Terminal, Inserted
<1>10. SoleSubmitter'
  <2> SUFFICES ASSUME NEW j \in Workers, pc'[j] \in Submitting, Action[job'[j]] \in Careful
               PROVE  /\ rows[job'[j]] = {}
                      /\ status'[job'[j]] # "QUEUED"
                      /\ \A i \in Workers : pc'[i] \in Submitting /\ job'[i] = job'[j] => i = j
                      /\ submits'[job'[j]] <= attempt'[j]
                      /\ pc'[j] # "record" => submits'[job'[j]] < attempt'[j]
                      /\ Once(job'[j]) => attempt'[j] = 1
    BY <1>1 DEF SoleSubmitter, Once
  <2>1. /\ j # k
        /\ pc'[j] = pc[j] /\ job'[j] = job[j] /\ attempt'[j] = attempt[j]
        /\ pc[j] \in Submitting
    BY <1>1, <1>2 DEF TypeOK, Submitting
  <2>2. \A i \in Workers : pc'[i] \in Submitting => pc[i] \in Submitting /\ job'[i] = job[i]
    BY <1>1, <1>2 DEF TypeOK, Submitting
  <2>3. job[j] \in Ops /\ job[j] # o
    BY <1>1, <2>1 DEF IInv, WorkersCoherent, SoleSubmitter, Stages, Submitting, o
  <2>4. submits'[job[j]] = submits[job[j]] /\ status'[job[j]] = status[job[j]]
    BY <1>1, <1>2, <1>3, <2>3 DEF TypeOK, Sent
  <2> QED BY <2>1, <2>2, <2>4 DEF IInv, SoleSubmitter
<1>11. SuccessIsReal'
  <2>1. \A p \in Ops : status'[p] = "SUCCEEDED" => status[p] = "SUCCEEDED"
    BY <1>1, <1>2 DEF TypeOK
  <2> QED BY <1>1, <1>5, <2>1 DEF IInv, SuccessIsReal
<1>12. QueueCoherent'
  BY <1>1 DEF IInv, QueueCoherent
<1>13. KeysUnique'
  BY <1>6 DEF IInv, KeysUnique, Inserted
<1>14. ActiveExclusive'
  BY <1>1, <1>2 DEF IInv, TypeOK, ActiveExclusive, Active
<1>15. BackupRunMirrors'
  BY <1>1, <1>2 DEF IInv, TypeOK, BackupRunMirrors, RunnerOf, OnceActions, Inserted
<1>16. CustomerOwnsRunning'
  BY <1>1, <1>2 DEF IInv, TypeOK, CustomerOwnsRunning
<1> QED BY <1>4, <1>7, <1>8, <1>9, <1>10, <1>11, <1>12, <1>13, <1>14, <1>15, <1>16 DEF IInv

(* The sole submitter stores its UPID and leaves the submitting stages.    *)
LEMMA RecordStep ==
  ASSUME IInv, NEW k \in Workers, Record(k)
  PROVE  IInv'
<1> USE DEF Record, IInv, Inserted, Admin, rowVars, pveVars, workerVars,
        invVars, Active, Terminal
<1>1. job[k] \in Ops /\ Inserted(job[k]) BY DEF WorkersCoherent, Stages
<1>2. TypeOK' BY <1>1 DEF TypeOK, Statuses, Stages, Slots, Messages, Runners,
      WorkersCoherent
<1>3. WorkersCoherent' BY <1>1 DEF TypeOK, WorkersCoherent, Stages, Statuses
<1>4. RowsCoherent' BY <1>1 DEF TypeOK, RowsCoherent, Statuses,
      WorkersCoherent, SoleSubmitter, Submitting
<1>5. SoleSubmitter' BY <1>1 DEF TypeOK, WorkersCoherent, SoleSubmitter,
      Submitting, Stages, Statuses
<1>6. SuccessIsReal' BY <1>1 DEF TypeOK, SuccessIsReal, Statuses
<1>7. QueueCoherent' /\ KeysUnique' /\ SubmitsBounded' /\ ActiveExclusive' /\
      BackupRunMirrors' /\ CustomerOwnsRunning'
  BY <1>1 DEF QueueCoherent, KeysUnique, SubmitsBounded, ActiveExclusive,
    BackupRunMirrors, CustomerOwnsRunning
<1> QED BY <1>1, <1>2, <1>3, <1>4, <1>5, <1>6, <1>7

(* One more turn of a poll loop only renews the heartbeat.                 *)
LEMMA PollAgainStep ==
  ASSUME IInv, NEW k \in Workers, PollAgain(k)
  PROVE  IInv'
<1> USE DEF PollAgain, IInv, Inserted, rowVars, pveVars, workerVars, invVars,
        Active, Terminal
<1>1. job[k] \in Ops /\ Inserted(job[k]) BY DEF WorkersCoherent, Stages
<1>2. TypeOK' BY <1>1 DEF TypeOK, Statuses, Stages, Slots, Messages, Runners
<1>3. RowsCoherent' BY <1>1 DEF TypeOK, RowsCoherent, Statuses
<1>4. WorkersCoherent' /\ QueueCoherent' /\ KeysUnique' /\ SoleSubmitter' /\
      SubmitsBounded' /\ ActiveExclusive' /\ SuccessIsReal' /\
      BackupRunMirrors' /\ CustomerOwnsRunning'
  BY <1>1 DEF WorkersCoherent, QueueCoherent, KeysUnique, SoleSubmitter,
    SubmitsBounded, ActiveExclusive, SuccessIsReal, BackupRunMirrors,
    CustomerOwnsRunning
<1> QED BY <1>1, <1>2, <1>3, <1>4

(* Success is written over a stored task that PVE ended OK.                *)
LEMMA PollEndsStep ==
  ASSUME IInv, NEW k \in Workers, NEW s \in Terminal, PollEnds(k, s)
  PROVE  IInv'
<1> USE DEF PollEnds, IInv, Inserted, End, Finish, FinishRun, Release,
        RunnerOf, TaskOk, OnceActions, rowVars, pveVars, workerVars, invVars,
        Active, Terminal
<1>1. job[k] \in Ops /\ Inserted(job[k]) BY DEF WorkersCoherent, Stages
<1>2. TypeOK'
  <2>1. run' \in [Ops -> Statuses]
    BY <1>1 DEF TypeOK, Statuses
  <2>2. status' \in [Ops -> Statuses] /\ lease' \in [Ops -> {"none", "fresh", "expired"}]
    BY <1>1 DEF TypeOK, Statuses
  <2> QED BY <1>1, <2>1, <2>2 DEF TypeOK
<1>3. WorkersCoherent' BY <1>1 DEF TypeOK, WorkersCoherent, Stages, Statuses
<1>4. RowsCoherent' BY <1>1 DEF TypeOK, RowsCoherent, Statuses
<1>5. KeysUnique' BY <1>1 DEF TypeOK, KeysUnique, Statuses
<1>6. SoleSubmitter' BY <1>1 DEF TypeOK, WorkersCoherent, SoleSubmitter,
      Submitting, Stages, Statuses
<1>7. ActiveExclusive' BY <1>1 DEF TypeOK, ActiveExclusive, Statuses
<1>8. SuccessIsReal' BY <1>1 DEF TypeOK, SuccessIsReal, Statuses,
      WorkersCoherent, Stages
<1>9. BackupRunMirrors' BY <1>1 DEF TypeOK, BackupRunMirrors, Statuses
<1>10. CustomerOwnsRunning' BY <1>1 DEF TypeOK, CustomerOwnsRunning, Statuses
<1>11. QueueCoherent' /\ SubmitsBounded'
  BY <1>1 DEF QueueCoherent, SubmitsBounded
<1> QED BY <1>1, <1>2, <1>3, <1>4, <1>5, <1>6, <1>7, <1>8, <1>9, <1>10, <1>11

(* The same for a delete, which also marks the workload absent.            *)
LEMMA DeletePollEndsStep ==
  ASSUME IInv, NEW k \in Workers, NEW s \in Terminal, DeletePollEnds(k, s)
  PROVE  IInv'
<1> USE DEF DeletePollEnds, IInv, Inserted, End, Finish, FinishRun, Release,
        RunnerOf, TaskOk, OnceActions, rowVars, pveVars, workerVars, invVars,
        Active, Terminal
<1>1. job[k] \in Ops /\ Inserted(job[k]) BY DEF WorkersCoherent, Stages
<1>2. TypeOK'
  <2>1. run' \in [Ops -> Statuses]
    BY <1>1 DEF TypeOK, Statuses
  <2>2. status' \in [Ops -> Statuses] /\ lease' \in [Ops -> {"none", "fresh", "expired"}]
    BY <1>1 DEF TypeOK, Statuses
  <2> QED BY <1>1, <2>1, <2>2 DEF TypeOK
<1>3. WorkersCoherent' BY <1>1 DEF TypeOK, WorkersCoherent, Stages, Statuses
<1>4. RowsCoherent' BY <1>1 DEF TypeOK, RowsCoherent, Statuses
<1>5. KeysUnique' BY <1>1 DEF TypeOK, KeysUnique, Statuses
<1>6. SoleSubmitter' BY <1>1 DEF TypeOK, WorkersCoherent, SoleSubmitter,
      Submitting, Stages, Statuses
<1>7. ActiveExclusive' BY <1>1 DEF TypeOK, ActiveExclusive, Statuses
<1>8. SuccessIsReal' BY <1>1 DEF TypeOK, SuccessIsReal, Statuses,
      WorkersCoherent, Stages
<1>9. BackupRunMirrors' BY <1>1 DEF TypeOK, BackupRunMirrors, Statuses
<1>10. CustomerOwnsRunning' BY <1>1 DEF TypeOK, CustomerOwnsRunning, Statuses
<1>11. QueueCoherent' /\ SubmitsBounded'
  BY <1>1 DEF QueueCoherent, SubmitsBounded
<1> QED BY <1>1, <1>2, <1>3, <1>4, <1>5, <1>6, <1>7, <1>8, <1>9, <1>10, <1>11

(* A dead worker has no job; its message goes back to the queue.           *)
LEMMA CrashStep ==
  ASSUME IInv, NEW k \in Workers, Crash(k)
  PROVE  IInv'
<1> USE DEF Crash, IInv, Inserted, Mail, RunnerOf, OnceActions, rowVars,
        pveVars, workerVars, invVars, Active, Terminal
<1>1. TypeOK' BY DEF TypeOK, Statuses, Stages, Slots, Messages, Runners
<1>2. WorkersCoherent' BY DEF TypeOK, WorkersCoherent, Stages, Statuses
<1>3. QueueCoherent' BY DEF TypeOK, QueueCoherent
<1>4. SoleSubmitter' BY DEF TypeOK, WorkersCoherent, SoleSubmitter,
      Submitting, Stages, Statuses
<1>5. RowsCoherent' /\ KeysUnique' /\ SubmitsBounded' /\ ActiveExclusive' /\
      SuccessIsReal' /\ BackupRunMirrors' /\ CustomerOwnsRunning'
  BY DEF RowsCoherent, KeysUnique, SubmitsBounded, ActiveExclusive,
    SuccessIsReal, BackupRunMirrors, CustomerOwnsRunning
<1> QED BY <1>1, <1>2, <1>3, <1>4, <1>5

(* Recovery sends every active operation to its runner, and restores to    *)
(* the power runner too.                                                   *)
LEMMA RestartStep ==
  ASSUME IInv, NEW k \in Workers, Restart(k)
  PROVE  IInv'
<1> USE DEF Restart, IInv, Inserted, Recovered, RunnerOf, OnceActions, Once,
        rowVars, pveVars, workerVars, invVars, Active, Terminal
<1>1. TypeOK' BY DEF TypeOK, Statuses, Stages, Slots, Messages, Runners
<1>2. WorkersCoherent' BY DEF TypeOK, WorkersCoherent, Stages, Statuses
<1>3. QueueCoherent' BY DEF TypeOK, QueueCoherent
<1>4. SoleSubmitter' BY DEF TypeOK, WorkersCoherent, SoleSubmitter,
      Submitting, Stages, Statuses
<1>5. RowsCoherent' /\ KeysUnique' /\ SubmitsBounded' /\ ActiveExclusive' /\
      SuccessIsReal' /\ BackupRunMirrors' /\ CustomerOwnsRunning'
  BY DEF RowsCoherent, KeysUnique, SubmitsBounded, ActiveExclusive,
    SuccessIsReal, BackupRunMirrors, CustomerOwnsRunning
<1> QED BY <1>1, <1>2, <1>3, <1>4, <1>5

(* A redelivered message is one more message for the same runner.          *)
LEMMA RedeliverStep ==
  ASSUME IInv, NEW k \in Workers, Redeliver(k)
  PROVE  IInv'
<1> USE DEF Redeliver, IInv, Inserted, Mail, RunnerOf, OnceActions, rowVars,
        pveVars, workerVars, invVars, Active, Terminal
<1>1. TypeOK' BY DEF TypeOK, Statuses, Stages, Slots, Messages, Runners
<1>2. QueueCoherent' BY DEF TypeOK, QueueCoherent
<1>3. WorkersCoherent' /\ RowsCoherent' /\ KeysUnique' /\ SoleSubmitter' /\
      SubmitsBounded' /\ ActiveExclusive' /\ SuccessIsReal' /\
      BackupRunMirrors' /\ CustomerOwnsRunning'
  BY DEF WorkersCoherent, RowsCoherent, KeysUnique, SoleSubmitter,
    SubmitsBounded, ActiveExclusive, SuccessIsReal, BackupRunMirrors,
    CustomerOwnsRunning
<1> QED BY <1>1, <1>2, <1>3

(* A RUNNING row keeps a heartbeat, young or old.                          *)
LEMMA LeaseExpiresStep ==
  ASSUME IInv, NEW o \in Ops, LeaseExpires(o)
  PROVE  IInv'
<1> USE DEF LeaseExpires, IInv, Inserted, rowVars, pveVars, workerVars,
        invVars, Active, Terminal
<1>1. TypeOK' BY DEF TypeOK, Statuses, Stages, Slots, Messages, Runners
<1>2. RowsCoherent' BY DEF TypeOK, RowsCoherent, Statuses
<1>3. WorkersCoherent' /\ QueueCoherent' /\ KeysUnique' /\ SoleSubmitter' /\
      SubmitsBounded' /\ ActiveExclusive' /\ SuccessIsReal' /\
      BackupRunMirrors' /\ CustomerOwnsRunning'
  BY DEF WorkersCoherent, QueueCoherent, KeysUnique, SoleSubmitter,
    SubmitsBounded, ActiveExclusive, SuccessIsReal, BackupRunMirrors,
    CustomerOwnsRunning
<1> QED BY <1>1, <1>2, <1>3

(* A task that ended OK stays OK.                                          *)
LEMMA TaskStopsStep ==
  ASSUME IInv, NEW o \in Ops, NEW n \in Slots, NEW s \in {"ok", "failed"},
         TaskStops(o, n, s)
  PROVE  IInv'
<1> USE DEF TaskStops, IInv, Inserted, rowVars, pveVars, workerVars, invVars,
        Active, Terminal
<1>1. TypeOK' BY DEF TypeOK, Statuses, Stages, Slots, Messages, Runners
<1>2. SuccessIsReal' BY DEF TypeOK, SuccessIsReal, Statuses
<1>3. WorkersCoherent' /\ QueueCoherent' /\ RowsCoherent' /\ KeysUnique' /\
      SoleSubmitter' /\ SubmitsBounded' /\ ActiveExclusive' /\
      BackupRunMirrors' /\ CustomerOwnsRunning'
  BY DEF WorkersCoherent, QueueCoherent, RowsCoherent, KeysUnique,
    SoleSubmitter, SubmitsBounded, ActiveExclusive, BackupRunMirrors,
    CustomerOwnsRunning
<1> QED BY <1>1, <1>2, <1>3

(* The inventory flag is read by claims only.                              *)
LEMMA ImportStep ==
  ASSUME IInv, NEW w \in Workloads, Import(w)
  PROVE  IInv'
<1> USE DEF Import, IInv, Inserted, rowVars, pveVars, workerVars, invVars,
        Active, Terminal
<1>1. TypeOK' BY DEF TypeOK, Statuses, Stages, Slots, Messages, Runners
<1>2. WorkersCoherent' /\ QueueCoherent' /\ RowsCoherent' /\ KeysUnique' /\
      SoleSubmitter' /\ SubmitsBounded' /\ ActiveExclusive' /\ SuccessIsReal'
      /\ BackupRunMirrors' /\ CustomerOwnsRunning'
  BY DEF WorkersCoherent, QueueCoherent, RowsCoherent, KeysUnique,
    SoleSubmitter, SubmitsBounded, ActiveExclusive, SuccessIsReal,
    BackupRunMirrors, CustomerOwnsRunning
<1> QED BY <1>1, <1>2

(* Only an unassigned workload is assigned, so no customer's running       *)
(* operation is affected.                                                  *)
LEMMA AssignStep ==
  ASSUME IInv, NEW w \in Workloads, NEW g \in Orgs, Assign(w, g)
  PROVE  IInv'
<1> USE DEF Assign, IInv, Inserted, rowVars, pveVars, workerVars, invVars,
        Active, Terminal
<1>1. TypeOK' BY DEF TypeOK, Statuses, Stages, Slots, Messages, Runners
<1>2. CustomerOwnsRunning' BY DEF TypeOK, CustomerOwnsRunning, Statuses
<1>3. WorkersCoherent' /\ QueueCoherent' /\ RowsCoherent' /\ KeysUnique' /\
      SoleSubmitter' /\ SubmitsBounded' /\ ActiveExclusive' /\ SuccessIsReal'
      /\ BackupRunMirrors'
  BY DEF WorkersCoherent, QueueCoherent, RowsCoherent, KeysUnique,
    SoleSubmitter, SubmitsBounded, ActiveExclusive, SuccessIsReal,
    BackupRunMirrors
<1> QED BY <1>1, <1>2, <1>3

(* No operation of the workload is active, so none of a customer is        *)
(* RUNNING.                                                                *)
LEMMA UnassignStep ==
  ASSUME IInv, NEW w \in Workloads, Unassign(w)
  PROVE  IInv'
<1> USE DEF Unassign, IInv, Inserted, WorkloadFree, rowVars, pveVars,
        workerVars, invVars, Active, Terminal
<1>1. TypeOK' BY DEF TypeOK, Statuses, Stages, Slots, Messages, Runners
<1>2. CustomerOwnsRunning' BY DEF TypeOK, CustomerOwnsRunning, Statuses
<1>3. WorkersCoherent' /\ QueueCoherent' /\ RowsCoherent' /\ KeysUnique' /\
      SoleSubmitter' /\ SubmitsBounded' /\ ActiveExclusive' /\ SuccessIsReal'
      /\ BackupRunMirrors'
  BY DEF WorkersCoherent, QueueCoherent, RowsCoherent, KeysUnique,
    SoleSubmitter, SubmitsBounded, ActiveExclusive, SuccessIsReal,
    BackupRunMirrors
<1> QED BY <1>1, <1>2, <1>3
-----------------------------------------------------------------------------
(* The invariant holds initially and every step keeps it. *)

(* No rows, no messages, idle workers.                                     *)
LEMMA InitInv ==
  ASSUME Init
  PROVE  IInv
<1> USE DEF Init
<1>1. TypeOK
  BY DEF TypeOK, Statuses, Stages, Slots
<1>2. WorkersCoherent /\ QueueCoherent /\ SoleSubmitter
  BY DEF WorkersCoherent, QueueCoherent, SoleSubmitter, Stages, Submitting
<1>3. RowsCoherent /\ KeysUnique /\ SubmitsBounded
  BY DEF RowsCoherent, KeysUnique, SubmitsBounded, Inserted, Active, Terminal
<1>4. ActiveExclusive /\ SuccessIsReal /\ BackupRunMirrors /\ CustomerOwnsRunning
  BY DEF ActiveExclusive, SuccessIsReal, BackupRunMirrors, CustomerOwnsRunning,
    Inserted, Active, Terminal
<1> QED BY <1>1, <1>2, <1>3, <1>4 DEF IInv

(* Requests and the passing of time keep the invariant.                    *)
LEMMA RequestInv ==
  ASSUME IInv, NEW o \in Ops, Request(o) \/ Elapse(o)
  PROVE  IInv'
<1>1. CASE Request(o)
  BY <1>1, ValidateStep, InsertStep, RejectStep DEF Request
<1>2. CASE Elapse(o)
  BY <1>2, LeaseExpiresStep, TaskStopsStep DEF Elapse
<1> QED BY <1>1, <1>2

(* The workers keep the invariant.                                         *)
LEMMA WorkerInv ==
  ASSUME IInv, NEW k \in Workers,
         Receive(k) \/ Step(k) \/ PollAgain(k) \/ Ending(k) \/ Outage(k)
  PROVE  IInv'
<1>1. CASE Receive(k)
  BY <1>1, ClaimSkipStep, ClaimRejectStep, ClaimUnknownStep, ClaimStartStep,
    ClaimAbortStep, ClaimResumeStep DEF Receive
<1>2. CASE Step(k)
  BY <1>2, ObserveProceedsStep, SubmitReturnsUpidStep, RecordStep, ObserveEndsStep,
    SpecEndsStep, SubmitRetriesStep, SubmitEndsStep DEF Step
<1>3. CASE PollAgain(k)
  BY <1>3, PollAgainStep
<1>4. CASE Ending(k)
  BY <1>4, PollEndsStep, DeletePollEndsStep DEF Ending
<1>5. CASE Outage(k)
  BY <1>5, CrashStep, RestartStep, RedeliverStep DEF Outage
<1> QED BY <1>1, <1>2, <1>3, <1>4, <1>5

(* Inventory changes keep the invariant.                                   *)
LEMMA InventoryInv ==
  ASSUME IInv, NEW w \in Workloads, Inventory(w)
  PROVE  IInv'
BY ImportStep, UnassignStep, AssignStep DEF Inventory

(* Stuttering keeps the invariant.                                         *)
LEMMA StutterInv ==
  ASSUME IInv, UNCHANGED vars
  PROVE  IInv'
<1> USE DEF vars, IInv
<1>1. TypeOK' /\ WorkersCoherent' /\ QueueCoherent' /\ SoleSubmitter'
  BY DEF TypeOK, WorkersCoherent, QueueCoherent, SoleSubmitter, Inserted
<1>2. RowsCoherent' /\ KeysUnique' /\ SubmitsBounded' /\ ActiveExclusive'
  BY DEF RowsCoherent, KeysUnique, SubmitsBounded, ActiveExclusive, Inserted
<1>3. SuccessIsReal' /\ BackupRunMirrors' /\ CustomerOwnsRunning'
  BY DEF SuccessIsReal, BackupRunMirrors, CustomerOwnsRunning, Inserted
<1> QED BY <1>1, <1>2, <1>3

(* Every step keeps the invariant.                                         *)
LEMMA NextInv ==
  ASSUME IInv, [Next]_vars
  PROVE  IInv'
<1>1. CASE Next
  BY <1>1, RequestInv, WorkerInv, InventoryInv DEF Next
<1>2. CASE UNCHANGED vars
  BY <1>2, StutterInv
<1> QED BY <1>1, <1>2

(* Every reachable state satisfies the inductive invariant: in particular  *)
(* a backup, restore, reboot or reset has one submitting worker at most,   *)
(* whatever is redelivered, recovered or stolen after an expired lease.    *)
THEOREM Invariance == Spec => []IInv
<1>1. Init => IInv
  BY InitInv
<1>2. IInv /\ [Next]_vars => IInv'
  BY NextInv
<1> QED BY <1>1, <1>2, PTL DEF Spec

(* The variables keep their types: the statuses, heartbeats, task rows,    *)
(* messages and worker stages are those of the code.                       *)
THEOREM TypeCorrect == Spec => []TypeOK
<1>1. IInv => TypeOK
  BY DEF IInv
<1> QED BY <1>1, Invariance, PTL

(* No workload ever has two QUEUED or RUNNING operations, for any number   *)
(* of requests, workers and crashes.                                       *)
THEOREM OneActiveOperation == Spec => []ActiveExclusive
<1>1. IInv => ActiveExclusive
  BY DEF IInv
<1> QED BY <1>1, Invariance, PTL

(* A backup or restore reaches PVE once at most per idempotency key.       *)
THEOREM AtMostOnce == Spec => []SubmittedOncePerKey
<1>1. ASSUME IInv
      PROVE  SubmittedOncePerKey
  <2> SUFFICES ASSUME NEW o \in Ops, NEW p \in Ops,
                      Once(o), KeyOf[o] = KeyOf[p], submits[o] > 0
               PROVE  submits[o] = 1 /\ (submits[p] > 0 => o = p)
    BY DEF SubmittedOncePerKey
  <2>1. submits[o] = 1
    BY <1>1 DEF IInv, TypeOK, SubmitsBounded
  <2>2. ASSUME submits[p] > 0
        PROVE  o = p
    <3>1. Inserted(o) /\ Inserted(p)
      BY <1>1, <2>2 DEF IInv, RowsCoherent
    <3> QED BY <1>1, <3>1 DEF IInv, KeysUnique
  <2> QED BY <2>1, <2>2
<1> QED BY <1>1, Invariance, PTL

(* Between the claim and the stored UPID of a backup, restore, reboot or   *)
(* reset no second worker submits, whatever is redelivered, recovered or   *)
(* expires meanwhile.                                                      *)
THEOREM OneSubmitter == Spec => []SoleSubmitter
<1>1. IInv => SoleSubmitter
  BY DEF IInv
<1> QED BY <1>1, Invariance, PTL

(* A reboot or reset reaches PVE pve_action_max_attempts times at most.    *)
THEOREM RebootsBounded == Spec => []RebootBounded
<1>1. IInv => RebootBounded
  BY DEF IInv, SubmitsBounded, RebootBounded
<1> QED BY <1>1, Invariance, PTL

(* A backup, restore or delete is SUCCEEDED only over a task of its own    *)
(* that PVE ended OK.                                                      *)
THEOREM SuccessCorrect == Spec => []SuccessIsReal
<1>1. IInv => SuccessIsReal
  BY DEF IInv
<1> QED BY <1>1, Invariance, PTL

(* backup_runs.status is operations.status.                                *)
THEOREM BackupRunCorrect == Spec => []BackupRunMirrors
<1>1. IInv => BackupRunMirrors
  BY DEF IInv
<1> QED BY <1>1, Invariance, PTL

(* A customer's RUNNING operation is on a workload of the customer's       *)
(* organization, however assign and unassign interleave with the pipeline. *)
THEOREM OwnershipCorrect == Spec => []CustomerOwnsRunning
<1>1. IInv => CustomerOwnsRunning
  BY DEF IInv
<1> QED BY <1>1, Invariance, PTL

-----------------------------------------------------------------------------
(* What a step can do to the statuses and to PVE: nothing a caller sees,   *)
(* insert a row, end an operation, or start a task in PVE.                 *)

Quiet ==
  /\ submits' = submits
  /\ \A o \in Ops : Phase(status'[o]) = Phase(status[o])

Opened(o) ==
  /\ status[o] = "requested"
  /\ KeyFree(o)
  /\ WorkloadFree(WorkloadOf[o])
  /\ status' = [status EXCEPT ![o] = "QUEUED"]
  /\ submits' = submits

Ended(o) ==
  /\ Inserted(o)
  /\ \E s \in Terminal : status' = [status EXCEPT ![o] = s]
  /\ submits' = submits

Called(o) ==
  /\ Inserted(o)
  /\ Action[o] \in Careful => rows[o] = {}
  /\ Once(o) => submits[o] = 0
  /\ submits' = [submits EXCEPT ![o] = @ + 1]
  /\ status' = status \/ \E s \in Terminal : status' = [status EXCEPT ![o] = s]

Visible == \E o \in Ops : Opened(o) \/ Ended(o) \/ Called(o)

(* Requests are quiet or insert a row.                                     *)
LEMMA RequestKind ==
  ASSUME IInv, NEW o \in Ops, Request(o) \/ Elapse(o)
  PROVE  Quiet \/ Visible
<1>1. CASE Validate(o) \/ Reject(o)
  BY <1>1 DEF Validate, Reject, pveVars, IInv, TypeOK, Quiet, Phase, Active, Terminal
<1>2. ASSUME NEW sent \in BOOLEAN, Insert(o, sent)
      PROVE  Visible
  BY <1>2 DEF Insert, pveVars, Visible, Opened
<1>3. CASE LeaseExpires(o)
  BY <1>3 DEF LeaseExpires, pveVars, Quiet
<1>4. ASSUME NEW n \in Slots, NEW s \in {"ok", "failed"}, TaskStops(o, n, s)
      PROVE  Quiet
  BY <1>4 DEF TaskStops, rowVars, Quiet
<1> QED BY <1>1, <1>2, <1>3, <1>4 DEF Request, Elapse

(* Claims are quiet or end an operation.                                   *)
LEMMA ReceiveKind ==
  ASSUME IInv, NEW k \in Workers, Receive(k)
  PROVE  Quiet \/ Visible
<1> PICK m \in queue : \/ ClaimSkip(k, m)
                       \/ ClaimReject(k, m)
                       \/ ClaimUnknown(k, m)
                       \/ ClaimStart(k, m)
                       \/ ClaimAbort(k, m)
                       \/ \E n \in Slots : ClaimResume(k, m, n)
  BY DEF Receive
<1>1. m[2] \in Ops
  BY DEF IInv, TypeOK, Messages
<1>2. CASE ClaimSkip(k, m)
  BY <1>2 DEF ClaimSkip, rowVars, pveVars, Quiet
<1>3. CASE ClaimReject(k, m) \/ ClaimUnknown(k, m)
  <2>1. Inserted(m[2]) /\ status' = [status EXCEPT ![m[2]] = "FAILED"] /\ submits' = submits
    BY <1>3 DEF ClaimReject, ClaimUnknown, Finish, pveVars, Inserted
  <2>2. Ended(m[2])
    BY <2>1 DEF Ended, Terminal
  <2> QED BY <1>1, <2>2 DEF Visible
<1>4. ASSUME Claim(k, m)
      PROVE  Quiet
  <2>1. /\ status[m[2]] \in Active
        /\ status' = [status EXCEPT ![m[2]] = "RUNNING"]
        /\ submits' = submits
    BY <1>4 DEF Claim, pveVars
  <2> QED BY <1>1, <2>1 DEF IInv, TypeOK, Quiet, Phase, Active, Terminal
<1>5. CASE ClaimStart(k, m) \/ ClaimAbort(k, m) \/ \E n \in Slots : ClaimResume(k, m, n)
  BY <1>4, <1>5 DEF ClaimStart, ClaimAbort, ClaimResume
<1> QED BY <1>2, <1>3, <1>5

(* A worker that ends its job ends an inserted operation.                  *)
LEMMA EndKind ==
  ASSUME IInv, NEW k \in Workers, pc[k] \in Stages, NEW s \in Terminal,
         End(k, s), submits' = submits
  PROVE  Visible
<1>1. job[k] \in Ops /\ Inserted(job[k])
  BY DEF IInv, WorkersCoherent
<1>2. Ended(job[k])
  BY <1>1 DEF Ended, End, Finish
<1> QED BY <1>1, <1>2 DEF Visible

(* An accepted submission of a careful action finds nothing stored and,    *)
(* for a backup or restore, nothing accepted before.                       *)
LEMMA CallKind ==
  ASSUME IInv, NEW k \in Workers, pc[k] = "submit", Accept(job[k]),
         status' = status \/ \E s \in Terminal : status' = [status EXCEPT ![job[k]] = s]
  PROVE  Visible
<1>1. job[k] \in Ops /\ Inserted(job[k])
  BY DEF IInv, WorkersCoherent, Stages
<1>2. Sent(job[k])
  BY <1>1, AcceptFacts DEF IInv
<1>3. /\ Action[job[k]] \in Careful => rows[job[k]] = {} /\ submits[job[k]] < attempt[k]
      /\ Once(job[k]) => attempt[k] = 1
  BY <1>2, SubmitStage DEF Careful, Once
<1>4. Once(job[k]) => submits[job[k]] = 0
  BY <1>1, <1>3 DEF IInv, TypeOK, Careful, Once
<1>5. Called(job[k])
  BY <1>1, <1>3, <1>4 DEF Called, Accept
<1> QED BY <1>1, <1>5 DEF Visible

(* The stages of a worker are quiet, end an operation or call PVE.         *)
LEMMA StepKind ==
  ASSUME IInv, NEW k \in Workers, Step(k)
  PROVE  Quiet \/ Visible
<1>1. CASE ObserveProceeds(k)
  BY <1>1 DEF ObserveProceeds, rowVars, pveVars, Quiet
<1>2. CASE SubmitReturnsUpid(k)
  BY <1>2, CallKind DEF SubmitReturnsUpid, rowVars
<1>3. CASE Record(k)
  BY <1>3 DEF Record, pveVars, Quiet
<1>4. ASSUME NEW s \in Terminal, ObserveEnds(k, s) \/ SpecEnds(k, s)
      PROVE  Visible
  BY <1>4, EndKind DEF ObserveEnds, SpecEnds, pveVars, Stages
<1>5. ASSUME NEW accepted \in BOOLEAN, SubmitRetries(k, accepted)
      PROVE  Quiet \/ Visible
  <2>1. /\ pc[k] = "submit"
        /\ status' = status
        /\ Accept(job[k]) \/ UNCHANGED pveVars
    BY <1>5, Zenon DEF SubmitRetries, rowVars, Send
  <2>2. CASE UNCHANGED pveVars
    BY <2>1, <2>2 DEF pveVars, Quiet
  <2> QED BY <2>1, <2>2, CallKind
<1>6. ASSUME NEW accepted \in BOOLEAN, NEW s \in Terminal, SubmitEnds(k, accepted, s)
      PROVE  Visible
  <2>1. /\ pc[k] = "submit"
        /\ End(k, s)
        /\ status' = [status EXCEPT ![job[k]] = s]
        /\ Accept(job[k]) \/ UNCHANGED pveVars
    BY <1>6, Zenon DEF SubmitEnds, End, Finish, Send
  <2>2. CASE UNCHANGED pveVars
    BY <2>1, <2>2, EndKind DEF pveVars, Stages
  <2> QED BY <2>1, <2>2, CallKind
<1> QED BY <1>1, <1>2, <1>3, <1>4, <1>5, <1>6 DEF Step

(* Every step is of one of these kinds.                                    *)
LEMMA Kinds ==
  ASSUME IInv, [Next]_vars
  PROVE  Quiet \/ Visible
<1>1. ASSUME NEW o \in Ops, Request(o) \/ Elapse(o)
      PROVE  Quiet \/ Visible
  BY <1>1, RequestKind
<1>2. ASSUME NEW k \in Workers, Receive(k) \/ Step(k)
      PROVE  Quiet \/ Visible
  BY <1>2, ReceiveKind, StepKind
<1>3. ASSUME NEW k \in Workers, PollAgain(k) \/ Outage(k)
      PROVE  Quiet
  BY <1>3 DEF PollAgain, Outage, Crash, Restart, Redeliver, rowVars, pveVars, Quiet
<1>4. ASSUME NEW k \in Workers, Ending(k)
      PROVE  Visible
  BY <1>4, EndKind DEF Ending, PollEnds, DeletePollEnds, pveVars, Stages
<1>5. ASSUME NEW w \in Workloads, Inventory(w)
      PROVE  Quiet
  BY <1>5 DEF Inventory, Import, Assign, Unassign, rowVars, pveVars, Quiet
<1>6. CASE UNCHANGED vars
  BY <1>6 DEF vars, Quiet
<1> QED BY <1>1, <1>2, <1>3, <1>4, <1>5, <1>6 DEF Next

(* An operation that has ended is never QUEUED or RUNNING again.           *)
THEOREM EndedStaysEnded == Spec => NeverReopened
<1>1. ASSUME IInv, [Next]_vars, NEW o \in Ops, status[o] \in Terminal
      PROVE  status'[o] \in Terminal
  <2>1. Quiet \/ Visible
    BY <1>1, Kinds
  <2>2. CASE Quiet
    BY <1>1, <2>2 DEF Quiet, Phase, Active, Terminal
  <2>3. CASE Visible
    BY <1>1, <2>3 DEF Visible, Opened, Ended, Called, IInv, TypeOK, Terminal
  <2> QED BY <2>1, <2>2, <2>3
<1>2. IInv /\ [Next]_vars
        => [\A o \in Ops : status[o] \in Terminal => status'[o] \in Terminal]_vars
  BY <1>1
<1> QED BY <1>2, Invariance, PTL DEF Spec, NeverReopened

(* Once a UPID is stored, a backup, restore, reboot or reset is not        *)
(* submitted again by any worker.                                          *)
THEOREM NoResubmission == Spec => ResumesFromUpid
<1>1. ASSUME IInv, [Next]_vars, NEW o \in Ops,
             Action[o] \in OnceActions \cup Reboots, rows[o] # {}
      PROVE  submits'[o] = submits[o]
  <2>1. Quiet \/ Visible
    BY <1>1, Kinds
  <2>2. CASE Quiet
    BY <2>2 DEF Quiet
  <2>3. CASE Visible
    BY <1>1, <2>3 DEF Visible, Opened, Ended, Called, IInv, TypeOK, Careful
  <2> QED BY <2>1, <2>2, <2>3
<1>2. IInv /\ [Next]_vars
        => [\A o \in Ops : Action[o] \in OnceActions \cup Reboots /\ rows[o] # {}
              => submits'[o] = submits[o]]_vars
  BY <1>1
<1> QED BY <1>2, Invariance, PTL DEF Spec, ResumesFromUpid

(* The services and workers implement OperationContract: initial states    *)
(* map to initial states, and every step to a step of the contract or to   *)
(* none.                                                                   *)
THEOREM Refinement == Spec => ImplementsContract
<1> DEFINE ph == [o \in Ops |-> Phase(status[o])]
<1>1. Init => Contract!CInit
  BY DEF Init, Contract!CInit, Phase, Active, Terminal
<1>2. ASSUME IInv, [Next]_vars
      PROVE  Contract!CNext \/ UNCHANGED Contract!cvars
  <2>1. CASE Quiet
    BY <2>1 DEF Quiet, Contract!cvars
  <2>2. ASSUME NEW o \in Ops, Opened(o)
        PROVE  Contract!Open(o)
    <3>1. \A p \in Ops : status'[p] = IF p = o THEN "QUEUED" ELSE status[p]
      BY <1>2, <2>2 DEF Opened, IInv, TypeOK
    <3>2. ph' = [ph EXCEPT ![o] = "open"]
      BY <3>1 DEF Phase, Active, Terminal
    <3>3. /\ ph[o] = "none"
          /\ \A p \in Ops : KeyOf[p] = KeyOf[o] => ph[p] = "none"
          /\ \A p \in Ops : WorkloadOf[p] = WorkloadOf[o] => ph[p] # "open"
      BY <2>2 DEF Opened, KeyFree, WorkloadFree, Inserted, Phase, Active, Terminal
    <3> QED BY <2>2, <3>2, <3>3 DEF Contract!Open, Opened
  <2>3. ASSUME NEW o \in Ops, NEW s \in Terminal, Inserted(o),
               status' = [status EXCEPT ![o] = s]
        PROVE  ph' = [ph EXCEPT ![o] = "closed"] /\ ph[o] \in {"open", "closed"}
    <3>1. \A p \in Ops : status'[p] = IF p = o THEN s ELSE status[p]
      BY <1>2, <2>3 DEF IInv, TypeOK
    <3> QED BY <2>3, <3>1 DEF Phase, Active, Terminal, Inserted
  <2>4. ASSUME NEW o \in Ops, Ended(o)
        PROVE  Contract!Close(o) \/ UNCHANGED Contract!cvars
    <3>1. ph' = [ph EXCEPT ![o] = "closed"] /\ ph[o] \in {"open", "closed"}
      BY <2>3, <2>4 DEF Ended
    <3>2. CASE ph[o] = "open"
      BY <2>4, <3>1, <3>2 DEF Contract!Close, Ended
    <3>3. CASE ph[o] = "closed"
      <4>1. ph' = ph
        BY <3>1, <3>3
      <4> QED BY <2>4, <4>1 DEF Contract!cvars, Ended
    <3> QED BY <3>1, <3>2, <3>3
  <2>5. ASSUME NEW o \in Ops, Called(o)
        PROVE  Contract!Act(o)
    <3>1. ph[o] # "none"
      BY <2>5 DEF Called, Inserted, Phase, Active, Terminal
    <3>2. ph' = ph \/ ph' = [ph EXCEPT ![o] = "closed"]
      BY <2>3, <2>5 DEF Called
    <3> QED BY <2>5, <3>1, <3>2 DEF Contract!Act, Called
  <2> QED BY <1>2, <2>1, <2>2, <2>4, <2>5, Kinds DEF Visible, Contract!CNext
<1>3. IInv /\ [Next]_vars => [Contract!CNext]_(Contract!cvars)
  BY <1>2
<1> QED BY <1>1, <1>3, Invariance, PTL DEF Spec, ImplementsContract, Contract!CSpec
=============================================================================
