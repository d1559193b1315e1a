-------------------------- MODULE OperationContract --------------------------
(***************************************************************************)
(* What the operation pipeline promises to its callers, with no workers,   *)
(* queue, leases or UPIDs: a request opens an operation or nothing; one    *)
(* open operation per workload; one operation ever per idempotency key; an *)
(* operation that is closed stays closed; a once-only operation acts on    *)
(* PVE once at most.  An effect may outlive its operation: a worker may    *)
(* have been declared dead and still be about to call PVE.                 *)
(* (services/operations.py, services/backups.py, models/operation.py)      *)
(***************************************************************************)
EXTENDS Naturals

CONSTANTS Ops, WorkloadOf, KeyOf, OnceOps

VARIABLES
  phase,    \* "none", "open" or "closed", per operation
  effects   \* tasks started in PVE, per operation

cvars == <<phase, effects>>

CInit ==
  /\ phase = [o \in Ops |-> "none"]
  /\ effects = [o \in Ops |-> 0]

Open(o) ==
  /\ phase[o] = "none"
  /\ \A p \in Ops : KeyOf[p] = KeyOf[o] => phase[p] = "none"
  /\ \A p \in Ops : WorkloadOf[p] = WorkloadOf[o] => phase[p] # "open"
  /\ phase' = [phase EXCEPT ![o] = "open"]
  /\ UNCHANGED effects

Close(o) ==
  /\ phase[o] = "open"
  /\ phase' = [phase EXCEPT ![o] = "closed"]
  /\ UNCHANGED effects

(* A task starts; the caller may get no answer and close the operation. *)
Act(o) ==
  /\ phase[o] # "none"
  /\ o \in OnceOps => effects[o] = 0
  /\ effects' = [effects EXCEPT ![o] = @ + 1]
  /\ \/ UNCHANGED phase
     \/ phase' = [phase EXCEPT ![o] = "closed"]

CNext == \E o \in Ops : Open(o) \/ Close(o) \/ Act(o)

CSpec == CInit /\ [][CNext]_cvars
=============================================================================
