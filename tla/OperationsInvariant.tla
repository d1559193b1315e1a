------------------------ MODULE OperationsInvariant ------------------------
(* The inductive invariant of Operations, from which its safety properties *)
(* follow; checked by TLC and proved in OperationsProofs.                  *)
EXTENDS Operations

(* Actions whose repetition in PVE is not harmless: their runners submit   *)
(* from the first claim of a queued operation only.                        *)
Careful == OnceActions \cup Reboots

(* Between the claim and the stored UPID. *)
Submitting == {"observe", "submit", "record"}

(* A busy worker has a job that was inserted, a stage that fits its action *)
(* and, from the reply of PVE on, the number of an accepted submission.    *)
WorkersCoherent ==
  \A k \in Workers :
    /\ pc[k] \in {"down", "idle"} => job[k] = NoOp
    /\ pc[k] \in Stages => job[k] \in Ops /\ Inserted(job[k])
    /\ pc[k] = "spec" => Action[job[k]] = "update_spec"
    /\ pc[k] = "recheck" => Action[job[k]] \in PowerActions
    /\ pc[k] \in {"record", "poll"} => upid[k] \in 1 .. submits[job[k]]
    /\ pc[k] = "poll" => upid[k] \in rows[job[k]]

(* Messages go to the runner of their operation; only restores may also be *)
(* sent to the power runner, by its recovery.                              *)
QueueCoherent ==
  \A m \in queue :
    \/ m[1] = RunnerOf(m[2])
    \/ m[1] = "power" /\ Action[m[2]] = "restore"

(* Only accepted submissions are stored; a row that is not inserted, or    *)
(* still queued, has left no trace; a RUNNING row has a heartbeat.         *)
RowsCoherent ==
  \A o \in Ops :
    /\ rows[o] \subseteq 1 .. submits[o]
    /\ ~Inserted(o) => submits[o] = 0 /\ rows[o] = {}
    /\ Action[o] \in Careful /\ status[o] = "QUEUED" => submits[o] = 0 /\ rows[o] = {}
    /\ status[o] = "RUNNING" => lease[o] \in {"fresh", "expired"}

(* One key, one row. *)
KeysUnique ==
  \A o, p \in Ops : Inserted(o) /\ Inserted(p) /\ KeyOf[o] = KeyOf[p] => o = p

(* While one worker is between its claim and the stored UPID of a backup,  *)
(* restore, reboot or reset, no other worker is, nothing is stored, and    *)
(* PVE has accepted no more than the attempts of that worker: a second     *)
(* delivery, a recovery or an expired lease never adds a second submitter. *)
SoleSubmitter ==
  \A k \in Workers :
    pc[k] \in Submitting /\ Action[job[k]] \in Careful =>
      /\ rows[job[k]] = {}
      /\ status[job[k]] # "QUEUED"
      /\ \A j \in Workers : pc[j] \in Submitting /\ job[j] = job[k] => j = k
      /\ submits[job[k]] <= attempt[k]
      /\ pc[k] # "record" => submits[job[k]] < attempt[k]
      /\ Once(job[k]) => attempt[k] = 1

(* Backups and restores have one task at most, reboots and resets one per  *)
(* attempt.                                                                *)
SubmitsBounded ==
  \A o \in Ops :
    /\ Once(o) => submits[o] <= 1
    /\ Action[o] \in Reboots => submits[o] <= MaxActionAttempts

IInv ==
  /\ TypeOK
  /\ WorkersCoherent
  /\ QueueCoherent
  /\ RowsCoherent
  /\ KeysUnique
  /\ SoleSubmitter
  /\ SubmitsBounded
  /\ ActiveExclusive
  /\ SuccessIsReal
  /\ BackupRunMirrors
  /\ CustomerOwnsRunning
=============================================================================
