------------------------- MODULE ProvisioningProofs -------------------------
(***************************************************************************)
(* The safety properties of Provisioning for any number of requests,       *)
(* workers, nodes, VMIDs, pools and crashes.                               *)
(***************************************************************************)
EXTENDS Provisioning, IpamProofs, FiniteSetTheorems

(* Stages in which the request of a worker has not been ended. *)
Running == PcStages \ {"partial"}

(* A busy worker has a request, which is RUNNING under its name until the  *)
(* worker itself ends it.                                                  *)
ClaimFits(k) ==
  /\ pc[k] \in {"down", "idle"} => job[k] = NoReq
  /\ pc[k] \in PcStages => job[k] \in Requests
  /\ pc[k] \in Running => req[job[k]].status = "RUNNING" /\ req[job[k]].runner = k
  /\ pc[k] = "partial" => req[job[k]].status = "MANUAL_REVIEW"

(* The stage of a worker says how far the request has come and what it     *)
(* holds; the stages of a failure that needs no review say what has been   *)
(* given back.                                                             *)
StageFits(k) ==
  LET r == job[k] IN
  /\ pc[k] = "vmid" => pick[k] \in Vmids /\ req[r].done = 2
  /\ pc[k] = "ip" => pick[k] \in Rows /\ req[r].done = 3
  /\ pc[k] \in {"clone", "cloned"} => req[r].cloned /\ req[r].done = 4
  /\ pc[k] = "done" => /\ req[r].done < 11
                       /\ req[r].done = 2 => req[r].vmid \in Vmids
                       /\ req[r].done = 4 => req[r].cloned
                       /\ req[r].done = 5 => clone[r] = "ok"
                       /\ req[r].done = 7 => ~req[r].secret
  /\ pc[k] \in {"quarantine", "capacity"} => ~req[r].cloned
  /\ pc[k] = "capacity" => Existing(r) = {}
  /\ pc[k] = "fail" /\ ~review[k] => ~req[r].cloned /\ ~req[r].cap /\ Existing(r) = {}

(* What the row of a request says of itself ... *)
RowFits(r) ==
  /\ req[r].status = "none" => req[r] = NoRequest
  /\ req[r].cap => req[r].node \in Nodes
  /\ req[r].cloned => req[r].done >= 4
  /\ req[r].done >= 3 => req[r].vmid \in Vmids
  /\ req[r].done >= 5 => req[r].cloned
  /\ req[r].done >= 8 => ~req[r].secret
  /\ req[r].status = "FAILED" => ~req[r].cloned
  /\ req[r].status \in Ended => ~req[r].secret

(* ... and of the guest and the address behind it. *)
WorldFits(r) ==
  /\ req[r].done >= 6 => clone[r] = "ok"
  /\ clone[r] # "none" => req[r].cloned
  /\ clone[r] \in {"running", "ok"} => guest[req[r].vmid] = r
  /\ AllocatedAs(r, "ASSIGNED") # {} => req[r].cloned
  /\ req[r].status = "FAILED" => ~req[r].cap /\ Existing(r) = {}

(* The requests that hold a share of node n. *)
Shares(n) == {r \in Requests : req[r].cap /\ req[r].node = n}

Owners == {Unlisted, Unassigned} \cup {Org[r] : r \in Requests}

CapacityInv ==
  /\ free \in [Nodes -> Nat]
  /\ \A n \in Nodes : IsFiniteSet(Shares(n))
  /\ CapacityConserved

OneWorker == \A j, k \in Workers : job[j] = job[k] /\ job[j] # NoReq => j = k

(* What holds as long as no request is doubled. *)
ProvInv ==
  /\ ProvisioningTypeOK
  /\ owner \in [Vmids -> Owners]
  /\ IpamInv
  /\ CapacityInv
  /\ \A k \in Workers : ClaimFits(k) /\ StageFits(k)
  /\ \A r \in Requests : RowFits(r) /\ WorldFits(r)
  /\ AssignedIsOurs
  /\ OneWorker

-----------------------------------------------------------------------------
(* The steps by their numbers.                                             *)

LEMMA StepNumbers ==
  /\ Len(Steps) = 11
  /\ Steps[1] = "CHECK_PRODUCT" /\ Steps[2] = "SELECT_TARGET" /\ Steps[3] = "RESERVE_VMID"
  /\ Steps[4] = "RESERVE_IP" /\ Steps[5] = "FULL_CLONE" /\ Steps[6] = "WAIT_CLONE"
  /\ Steps[7] = "CONFIGURE_NETWORK" /\ Steps[8] = "CONFIGURE_IDENTITY" /\ Steps[9] = "START_VM"
  /\ Steps[10] = "ASSIGN_ORGANIZATION" /\ Steps[11] = "CONFIRM_IP"
  BY DEF Steps

LEMMA AtNumbers ==
  ASSUME ProvisioningTypeOK, NEW k \in Workers, job[k] \in Requests
  PROVE  LET d == req[job[k]].done IN
         /\ At(k, "CHECK_PRODUCT") => d = 0
         /\ At(k, "SELECT_TARGET") => d = 1
         /\ At(k, "RESERVE_VMID") => d = 2
         /\ At(k, "RESERVE_IP") => d = 3
         /\ At(k, "FULL_CLONE") => d = 4
         /\ At(k, "WAIT_CLONE") => d = 5
         /\ At(k, "CONFIGURE_NETWORK") => d = 6
         /\ At(k, "CONFIGURE_IDENTITY") => d = 7
         /\ At(k, "START_VM") => d = 8
         /\ At(k, "ASSIGN_ORGANIZATION") => d = 9
         /\ At(k, "CONFIRM_IP") => d = 10
  <1> DEFINE d == req[job[k]].done
  <1>1. d \in 0 .. 11
      BY StepNumbers DEF ProvisioningTypeOK, RequestRow
  <1>2. d < 11 => d = 0 \/ d = 1 \/ d = 2 \/ d = 3 \/ d = 4 \/ d = 5 \/ d = 6 \/ d = 7
                  \/ d = 8 \/ d = 9 \/ d = 10
      BY <1>1
  <1>3. \A step : At(k, step) => d < 11 /\ Steps[d + 1] = step
      BY StepNumbers DEF At
  <1> HIDE DEF d
  <1>4. /\ At(k, "CHECK_PRODUCT") => d = 0
        /\ At(k, "SELECT_TARGET") => d = 1
        /\ At(k, "RESERVE_VMID") => d = 2
        /\ At(k, "RESERVE_IP") => d = 3
        /\ At(k, "FULL_CLONE") => d = 4
        /\ At(k, "WAIT_CLONE") => d = 5
        /\ At(k, "CONFIGURE_NETWORK") => d = 6
        /\ At(k, "CONFIGURE_IDENTITY") => d = 7
        /\ At(k, "START_VM") => d = 8
        /\ At(k, "ASSIGN_ORGANIZATION") => d = 9
        /\ At(k, "CONFIRM_IP") => d = 10
      BY <1>2, <1>3, StepNumbers
  <1> QED BY <1>4 DEF d

LEMMA PassedWaitClone ==
  ASSUME ProvisioningTypeOK, NEW r \in Requests, Passed(r, "WAIT_CLONE")
  PROVE  req[r].done >= 6
  <1>1. req[r].done \in 0 .. 11
      BY StepNumbers DEF ProvisioningTypeOK, RequestRow
  <1>2. PICK i \in 1 .. req[r].done : Steps[i] = "WAIT_CLONE"
      BY DEF Passed
  <1>3. i = 1 \/ i = 2 \/ i = 3 \/ i = 4 \/ i = 5 \/ i >= 6
      BY <1>1, <1>2
  <1>4. i >= 6
      BY <1>2, <1>3, StepNumbers
  <1> QED BY <1>1, <1>2, <1>4
-----------------------------------------------------------------------------
(* A step concerns one request and the workers that run it.  The others    *)
(* keep what the invariant says of them.                                   *)

(* What s holds of the addresses is no more than before. *)
NoMoreHeld(s) ==
  /\ AllocatedAs(s, "ASSIGNED")' \subseteq AllocatedAs(s, "ASSIGNED")
  /\ Existing(s)' \subseteq Existing(s)

(* Only the workers in K, of which all that run r are, and the request r   *)
(* take part in the step.                                                  *)
Frame(K, r) ==
  /\ \A j \in Workers \ K :
       /\ job[j] \in Requests => job[j] # r
       /\ pc'[j] = pc[j] /\ job'[j] = job[j] /\ pick'[j] = pick[j] /\ review'[j] = review[j]
  /\ \A s \in Requests \ {r} : req'[s] = req[s] /\ clone'[s] = clone[s] /\ NoMoreHeld(s)
  /\ \A v \in Vmids : guest[v] \in Requests \ {r} => guest'[v] = guest[v]

LEMMA OtherWorkers ==
  ASSUME ProvInv, NEW K, NEW r, Frame(K, r), NEW j \in Workers \ K
  PROVE  ClaimFits(j)' /\ StageFits(j)'
  <1>1. ClaimFits(j) /\ StageFits(j)
      BY DEF ProvInv
  <1>2. /\ pc'[j] = pc[j] /\ job'[j] = job[j] /\ pick'[j] = pick[j] /\ review'[j] = review[j]
        /\ job[j] \in Requests => job[j] # r
      BY DEF Frame
  <1>3. CASE pc[j] \in PcStages
      <2>1. job[j] \in Requests \ {r}
          BY <1>1, <1>2, <1>3 DEF ClaimFits
      <2>2. req'[job[j]] = req[job[j]] /\ clone'[job[j]] = clone[job[j]] /\ NoMoreHeld(job[j])
          BY <2>1 DEF Frame
      <2>3. Existing(job[j]) = {} => Existing(job[j])' = {}
          BY <2>2 DEF NoMoreHeld
      <2>4. ClaimFits(j)'
          BY <1>1, <1>2, <2>2 DEF ClaimFits
      <2>5. StageFits(j)'
          BY <1>1, <1>2, <2>2, <2>3 DEF StageFits
      <2> QED BY <2>4, <2>5
  <1>4. CASE pc[j] \notin PcStages
      BY <1>1, <1>2, <1>4 DEF ClaimFits, StageFits, PcStages, Running
  <1> QED BY <1>3, <1>4

LEMMA OtherRequests ==
  ASSUME ProvInv, NEW K, NEW r, Frame(K, r), NEW s \in Requests \ {r}
  PROVE  RowFits(s)' /\ WorldFits(s)'
  <1>1. RowFits(s) /\ WorldFits(s)
      BY DEF ProvInv
  <1>2. req'[s] = req[s] /\ clone'[s] = clone[s] /\ NoMoreHeld(s)
      BY DEF Frame
  <1>3. RowFits(s)'
      BY <1>1, <1>2 DEF RowFits
  <1>4. ASSUME clone[s] \in {"running", "ok"} PROVE guest'[req[s].vmid] = s
      <2>1. req[s].vmid \in Vmids
          BY <1>1, <1>4 DEF RowFits, WorldFits, ProvInv, ProvisioningTypeOK, RequestRow
      <2>2. guest[req[s].vmid] = s
          BY <1>1, <1>4 DEF WorldFits
      <2> QED BY <2>1, <2>2 DEF Frame
  <1>5. WorldFits(s)'
      BY <1>1, <1>2, <1>4 DEF WorldFits, NoMoreHeld
  <1> QED BY <1>3, <1>5

(* A guest that was handed over keeps its request. *)
LEMMA Handed ==
  ASSUME ProvInv, NEW K, NEW r, Frame(K, r),
         \A v \in Vmids : owner'[v] = owner[v] \/ owner'[v] \in {Unlisted, Unassigned},
         r \in Requests /\ clone[r] = "ok" =>
           /\ clone'[r] = "ok" /\ req'[r].vmid = req[r].vmid
           /\ guest'[req[r].vmid] = guest[req[r].vmid]
  PROVE  AssignedIsOurs'
  <1> SUFFICES ASSUME NEW v \in Vmids, owner'[v] \notin {Unlisted, Unassigned}
               PROVE  \E s \in Requests : /\ guest'[v] = s /\ req'[s].vmid = v
                                         /\ Org[s] = owner'[v] /\ clone'[s] = "ok"
      BY DEF AssignedIsOurs
  <1>1. owner'[v] = owner[v]
      OBVIOUS
  <1>2. PICK s \in Requests : /\ guest[v] = s /\ req[s].vmid = v
                              /\ Org[s] = owner[v] /\ clone[s] = "ok"
      BY <1>1 DEF ProvInv, AssignedIsOurs
  <1>3. guest'[v] = s /\ req'[s].vmid = v /\ clone'[s] = "ok"
      BY <1>2 DEF Frame
  <1> QED BY <1>1, <1>2, <1>3

(* What remains to be shown of a step that concerns r and the workers K. *)
LEMMA StepInv ==
  ASSUME ProvInv, NEW K \in SUBSET Workers, NEW r, Frame(K, r),
         ProvisioningTypeOK', (owner \in [Vmids -> Owners])', IpamInv', CapacityInv', AssignedIsOurs',
         \A k \in K : ClaimFits(k)' /\ StageFits(k)' /\ job'[k] \in {r, NoReq},
         \A j, k \in K : job'[j] = job'[k] /\ job'[j] # NoReq => j = k,
         r \in Requests => RowFits(r)' /\ WorldFits(r)'
  PROVE  ProvInv'
  <1>1. ASSUME NEW k \in Workers PROVE ClaimFits(k)' /\ StageFits(k)'
      BY OtherWorkers
  <1>2. ASSUME NEW s \in Requests PROVE RowFits(s)' /\ WorldFits(s)'
      BY OtherRequests
  <1>3. ASSUME NEW j \in Workers, NEW k \in Workers, job'[j] = job'[k], job'[j] # NoReq
        PROVE  j = k
      <2>1. CASE j \in K /\ k \in K
          BY <1>3, <2>1
      <2>2. CASE j \notin K /\ k \notin K
          BY <1>3, <2>2 DEF Frame, ProvInv, OneWorker
      <2>3. ASSUME NEW i \in K, NEW l \in Workers \ K, job'[i] = job'[l], job'[i] # NoReq
            PROVE  FALSE
          <3>1. job'[i] = r /\ job[l] = r
              BY <2>3 DEF Frame
          <3>2. job[l] \in Requests
              BY <2>3, <3>1 DEF ProvInv, ProvisioningTypeOK
          <3> QED BY <3>1, <3>2 DEF Frame
      <2> QED BY <1>3, <2>1, <2>2, <2>3
  <1>4. OneWorker'
      BY <1>3 DEF OneWorker
  <1> QED BY <1>1, <1>2, <1>4 DEF ProvInv
-----------------------------------------------------------------------------
(* Capacity.                                                               *)

LEMMA CapacityBound ==
  ASSUME CapacityInv
  PROVE  \A n \in Nodes : free[n] \in 0 .. Capacity[n]
  <1> SUFFICES ASSUME NEW n \in Nodes PROVE free[n] \in 0 .. Capacity[n]
      OBVIOUS
  <1>1. Cardinality(Shares(n)) \in Nat
      BY FS_CardinalityType DEF CapacityInv
  <1>2. free[n] + Cardinality(Shares(n)) = Capacity[n]
      BY DEF CapacityInv, CapacityConserved, Shares
  <1>3. free[n] \in Nat /\ Capacity[n] \in Nat
      BY ProvisioningAssumption DEF CapacityInv
  <1> QED BY <1>1, <1>2, <1>3

(* No share is taken or returned. *)
LEMMA CapacityQuiet ==
  ASSUME CapacityInv, free' = free,
         \A r \in Requests :
           req'[r].cap = req[r].cap /\ (req[r].cap => req'[r].node = req[r].node)
  PROVE  CapacityInv'
  <1>1. ASSUME NEW n \in Nodes PROVE Shares(n)' = Shares(n)
      BY DEF Shares
  <1>2. \A n \in Nodes : IsFiniteSet(Shares(n)')
      BY <1>1 DEF CapacityInv
  <1>3. \A n \in Nodes : free'[n] + Cardinality(Shares(n)') = Capacity[n]
      BY <1>1 DEF CapacityInv, CapacityConserved, Shares
  <1> QED BY <1>2, <1>3 DEF CapacityInv, CapacityConserved, Shares

(* Request r takes a share of m, or returns it. *)
LEMMA CapacityTaken ==
  ASSUME CapacityInv, NEW r \in Requests, NEW m \in Nodes, ~req[r].cap,
         free[m] > 0, free' = [free EXCEPT ![m] = @ - 1],
         req'[r].cap, req'[r].node = m,
         \A s \in Requests \ {r} : req'[s] = req[s]
  PROVE  CapacityInv'
  <1>1. free' \in [Nodes -> Nat]
      BY DEF CapacityInv
  <1>2. ASSUME NEW n \in Nodes
        PROVE  IsFiniteSet(Shares(n)') /\ free'[n] + Cardinality(Shares(n)') = Capacity[n]
      <2>1. IsFiniteSet(Shares(n)) /\ Cardinality(Shares(n)) \in Nat
          BY FS_CardinalityType DEF CapacityInv
      <2>2. free[n] + Cardinality(Shares(n)) = Capacity[n] /\ free[n] \in Nat
          BY DEF CapacityInv, CapacityConserved, Shares
      <2>3. CASE n = m
          <3>1. Shares(n)' = Shares(n) \cup {r} /\ r \notin Shares(n)
              BY <2>3 DEF Shares
          <3>2. IsFiniteSet(Shares(n)') /\ Cardinality(Shares(n)') = Cardinality(Shares(n)) + 1
              BY <2>1, <3>1, FS_AddElement
          <3>3. free'[n] = free[n] - 1
              BY <2>3 DEF CapacityInv
          <3> QED BY <2>1, <2>2, <3>2, <3>3
      <2>4. CASE n # m
          <3>1. Shares(n)' = Shares(n)
              BY <2>4 DEF Shares
          <3>2. free'[n] = free[n]
              BY <2>4 DEF CapacityInv
          <3> QED BY <2>1, <2>2, <3>1, <3>2
      <2> QED BY <2>3, <2>4
  <1> QED BY <1>1, <1>2 DEF CapacityInv, CapacityConserved, Shares

LEMMA CapacityReturned ==
  ASSUME CapacityInv, NEW r \in Requests, req[r].cap, req[r].node \in Nodes,
         free' = [free EXCEPT ![req[r].node] = @ + 1],
         ~req'[r].cap,
         \A s \in Requests \ {r} : req'[s] = req[s]
  PROVE  CapacityInv'
  <1>1. free' \in [Nodes -> Nat]
      BY DEF CapacityInv
  <1>2. ASSUME NEW n \in Nodes
        PROVE  IsFiniteSet(Shares(n)') /\ free'[n] + Cardinality(Shares(n)') = Capacity[n]
      <2>1. IsFiniteSet(Shares(n)) /\ Cardinality(Shares(n)) \in Nat
          BY FS_CardinalityType DEF CapacityInv
      <2>2. free[n] + Cardinality(Shares(n)) = Capacity[n] /\ free[n] \in Nat
          BY DEF CapacityInv, CapacityConserved, Shares
      <2>3. CASE n = req[r].node
          <3>1. Shares(n)' = Shares(n) \ {r} /\ r \in Shares(n)
              BY <2>3 DEF Shares
          <3>2. IsFiniteSet(Shares(n)') /\ Cardinality(Shares(n)') = Cardinality(Shares(n)) - 1
              BY <2>1, <3>1, FS_RemoveElement
          <3>3. free'[n] = free[n] + 1
              BY <2>3 DEF CapacityInv
          <3> QED BY <2>1, <2>2, <3>2, <3>3
      <2>4. CASE n # req[r].node
          <3>1. Shares(n)' = Shares(n)
              BY <2>4 DEF Shares
          <3>2. free'[n] = free[n]
              BY <2>4 DEF CapacityInv
          <3> QED BY <2>1, <2>2, <3>1, <3>2
      <2> QED BY <2>3, <2>4
  <1> QED BY <1>1, <1>2 DEF CapacityInv, CapacityConserved, Shares
-----------------------------------------------------------------------------
(* Workers.                                                                *)

(* The types of what a worker keeps for itself. *)
WorkTypes ==
  /\ pc \in [Workers -> {"down", "idle"} \cup PcStages]
  /\ job \in [Workers -> Requests \cup {NoReq}]
  /\ pick \in [Workers -> Vmids \cup {NoVmid} \cup Rows]
  /\ review \in [Workers -> BOOLEAN]

PveTypes ==
  /\ guest \in [Vmids -> Requests \cup {NoReq, Outsider}]
  /\ clone \in [Requests -> {"none", "running", "ok", "failed"}]
  /\ netip \in [Vmids -> Rows \cup {NoRow}]

LEMMA Busy ==
  ASSUME ProvInv, NEW k \in Workers, pc[k] \in PcStages
  PROVE  job[k] \in Requests /\ req[job[k]] \in RequestRow
  BY DEF ProvInv, ClaimFits, ProvisioningTypeOK

LEMMA Sole ==
  ASSUME ProvInv, NEW k \in Workers, NEW j \in Workers \ {k}, job[j] \in Requests
  PROVE  job[j] # job[k]
  BY NoReqAssumption DEF ProvInv, OneWorker

LEMMA IpamStutter ==
  ASSUME IpamInv, UNCHANGED ipamVars
  PROVE  IpamInv'
  BY DEF IpamInv, ipamVars, IpamTypeOK, PoolsDisjoint, RowsInPool, AllocationMatchesAddress,
         OneAddressPerRequest, SameScope

LEMMA HeldStutter ==
  ASSUME UNCHANGED ipamVars, NEW s
  PROVE  /\ AllocatedAs(s, "ASSIGNED")' = AllocatedAs(s, "ASSIGNED")
         /\ AllocatedAs(s, "RESERVED")' = AllocatedAs(s, "RESERVED")
         /\ Existing(s)' = Existing(s)
         /\ NoMoreHeld(s)
  BY DEF ipamVars, NoMoreHeld, Existing, AllocatedAs

(* Only worker k moves, and its request's row may change. *)
Alone(k) ==
  /\ \A j \in Workers \ {k} :
       pc'[j] = pc[j] /\ job'[j] = job[j] /\ pick'[j] = pick[j] /\ review'[j] = review[j]
  /\ \A s \in Requests \ {job[k]} : req'[s] = req[s]

LEMMA WorkInv ==
  ASSUME ProvInv, NEW k \in Workers, NEW r \in Requests, r = job[k], pc[k] \in PcStages,
         Alone(k),
         WorkTypes', PveTypes', req' \in [Requests -> RequestRow], UNCHANGED crashes,
         queue' \subseteq Requests,
         job'[k] \in {job[k], NoReq},
         \A s \in Requests \ {job[k]} : clone'[s] = clone[s] /\ NoMoreHeld(s),
         \A v \in Vmids : guest[v] \in Requests \ {job[k]} => guest'[v] = guest[v],
         (owner \in [Vmids -> Owners])', IpamInv', CapacityInv', AssignedIsOurs',
         ClaimFits(k)', StageFits(k)', RowFits(r)', WorldFits(r)'
  PROVE  ProvInv'
  <1>1. Frame({k}, r)
      BY Sole DEF Frame, Alone
  <1>2. ProvisioningTypeOK'
      <2>1. (\A n \in Nodes : free[n] \in 0 .. Capacity[n])'
          BY CapacityBound, PTL
      <2>2. crashes' \in 0 .. MaxCrashes
          BY DEF ProvInv, ProvisioningTypeOK
      <2> QED BY <2>1, <2>2 DEF ProvisioningTypeOK, WorkTypes, PveTypes
  <1> QED BY <1>1, <1>2, StepInv

(* ... and PVE, the addresses and the owners stay as they are. *)
LEMMA RowWork ==
  ASSUME ProvInv, NEW k \in Workers, NEW r \in Requests, r = job[k], pc[k] \in PcStages,
         Alone(k),
         WorkTypes', req' \in [Requests -> RequestRow], UNCHANGED <<queue, crashes>>,
         job'[k] \in {job[k], NoReq},
         UNCHANGED <<ipamVars, guest, clone, owner>>, netip' \in [Vmids -> Rows \cup {NoRow}],
         clone[r] = "ok" => req'[r].vmid = req[r].vmid,
         CapacityInv', ClaimFits(k)', StageFits(k)', RowFits(r)', WorldFits(r)'
  PROVE  ProvInv'
  <1>1. PveTypes' /\ queue' \subseteq Requests /\ (owner \in [Vmids -> Owners])'
      BY DEF ProvInv, ProvisioningTypeOK, PveTypes, Owners
  <1>2. IpamInv' /\ \A s \in Requests \ {job[k]} : NoMoreHeld(s)
      BY IpamStutter, HeldStutter DEF ProvInv
  <1>3. Frame({k}, job[k])
      BY <1>2, Sole DEF Frame, Alone
  <1>4. AssignedIsOurs'
      BY <1>3, Handed
  <1> QED BY <1>1, <1>2, <1>4, WorkInv

(* ... and the row of the request too. *)
LEMMA MoveWork ==
  ASSUME ProvInv, NEW k \in Workers, pc[k] \in Running, Alone(k), WorkTypes',
         pc'[k] \in Running, job' = job,
         UNCHANGED <<queue, crashes, req, ipamVars, guest, clone, free, owner>>,
         netip' \in [Vmids -> Rows \cup {NoRow}],
         StageFits(k)'
  PROVE  ProvInv'
  <1>r. PICK r \in Requests : r = job[k]
      BY Busy DEF Running
  <1>0. pc[k] \in PcStages
      BY DEF Running
  <1>1. req' \in [Requests -> RequestRow] /\ CapacityInv'
      BY CapacityQuiet DEF ProvInv, ProvisioningTypeOK
  <1>2. ClaimFits(k)'
      BY DEF ProvInv, ClaimFits, Running, PcStages
  <1>3. RowFits(r) /\ WorldFits(r)
      BY DEF ProvInv
  <1>4. RowFits(r)' /\ WorldFits(r)'
      BY <1>3, HeldStutter DEF RowFits, WorldFits
  <1> QED BY <1>r, <1>0, <1>1, <1>2, <1>4, RowWork

LEMMA GotoFacts ==
  ASSUME ProvInv, NEW k \in Workers, NEW stage \in PcStages, Goto(k, stage)
  PROVE  /\ WorkTypes' /\ pc'[k] = stage /\ job' = job /\ pick' = pick /\ review' = review
         /\ UNCHANGED req => Alone(k)
         /\ (\A s \in Requests \ {job[k]} : req'[s] = req[s]) => Alone(k)
  BY DEF ProvInv, ProvisioningTypeOK, WorkTypes, Goto, Alone

LEMMA IdleFacts ==
  ASSUME ProvInv, NEW k \in Workers, Idle(k)
  PROVE  /\ WorkTypes' /\ pc'[k] = "idle" /\ job'[k] = NoReq
         /\ (\A s \in Requests \ {job[k]} : req'[s] = req[s]) => Alone(k)
         /\ ClaimFits(k)' /\ StageFits(k)'
  <1>1. WorkTypes' /\ pc'[k] = "idle" /\ job'[k] = NoReq
      BY DEF ProvInv, ProvisioningTypeOK, WorkTypes, Idle
  <1>2. (\A s \in Requests \ {job[k]} : req'[s] = req[s]) => Alone(k)
      BY DEF ProvInv, ProvisioningTypeOK, Idle, Alone
  <1>3. ClaimFits(k)' /\ StageFits(k)'
      BY <1>1 DEF ClaimFits, StageFits, Running, PcStages
  <1> QED BY <1>1, <1>2, <1>3

(* The pieces of the invariant that a step of worker k is about. *)
LEMMA Piece ==
  ASSUME ProvInv, NEW k \in Workers, pc[k] \in PcStages
  PROVE  /\ job[k] \in Requests /\ req[job[k]] \in RequestRow
         /\ ClaimFits(k) /\ StageFits(k) /\ RowFits(job[k]) /\ WorldFits(job[k])
         /\ netip \in [Vmids -> Rows \cup {NoRow}]
  BY Busy DEF ProvInv, ProvisioningTypeOK

-----------------------------------------------------------------------------
(* Steps that only move the worker.                                        *)

(* ... and renew its lease. *)
LEMMA RenewWork ==
  ASSUME ProvInv, NEW k \in Workers, pc[k] \in Running, NEW stage \in {"exec", "done"},
         Goto(k, stage), req' = [req EXCEPT ![job[k]].lease = "fresh"],
         Same, UNCHANGED <<ipamVars, pveVars, free, owner>>,
         stage = "done" => req[job[k]].done = 5 /\ clone[job[k]] = "ok"
  PROVE  ProvInv'
  <1>0. pc[k] \in PcStages /\ stage \in PcStages /\ stage \in Running
      BY DEF Running, PcStages
  <1>r. PICK r \in Requests : r = job[k]
      BY <1>0, Busy
  <1>p. ClaimFits(k) /\ RowFits(r) /\ WorldFits(r) /\ req[r] \in RequestRow
      BY <1>0, <1>r, Piece
  <1>1. /\ req'[r] = [req[r] EXCEPT !.lease = "fresh"]
        /\ \A s \in Requests \ {r} : req'[s] = req[s]
      BY <1>r DEF ProvInv, ProvisioningTypeOK
  <1>f. /\ req'[r].status = req[r].status /\ req'[r].done = req[r].done
        /\ req'[r].runner = req[r].runner /\ req'[r].node = req[r].node
        /\ req'[r].cap = req[r].cap /\ req'[r].cloned = req[r].cloned
        /\ req'[r].secret = req[r].secret /\ req'[r].vmid = req[r].vmid
      BY <1>p, <1>1 DEF RequestRow
  <1>2. req' \in [Requests -> RequestRow]
      <2>1. req'[r] \in RequestRow
          BY <1>p, <1>1 DEF RequestRow
      <2> QED BY <2>1, <1>1 DEF ProvInv, ProvisioningTypeOK
  <1>3. Alone(k) /\ WorkTypes' /\ pc'[k] = stage /\ job' = job
      BY <1>0, <1>1, <1>r, GotoFacts
  <1>4. CapacityInv'
      BY <1>1, <1>f, CapacityQuiet DEF ProvInv
  <1>5. ClaimFits(k)'
      BY <1>0, <1>3, <1>f, <1>p, <1>r DEF ClaimFits, Running, PcStages
  <1>6. StageFits(k)'
      BY <1>3, <1>f, <1>r DEF StageFits, pveVars
  <1>7. RowFits(r)'
      BY <1>0, <1>f, <1>p, <1>r DEF RowFits, ClaimFits
  <1>8. WorldFits(r)'
      BY <1>f, <1>p, HeldStutter DEF WorldFits, pveVars
  <1> QED BY <1>0, <1>r, <1>2, <1>3, <1>4, <1>5, <1>6, <1>7, <1>8, <1>f, Piece, RowWork
         DEF Same, pveVars

LEMMA BeginInv ==
  ASSUME ProvInv, NEW k \in Workers, Begin(k)
  PROVE  ProvInv'
  BY RenewWork DEF Begin, Running, PcStages

LEMMA CheckInv ==
  ASSUME ProvInv, NEW k \in Workers, Check(k)
  PROVE  ProvInv'
  <1>0. pc[k] \in Running
      BY DEF Check, At, Running, PcStages
  <1>1. req[job[k]].done \in {0, 8}
      BY <1>0, AtNumbers, Piece DEF Check, Running, ProvInv
  <1>2. StageFits(k)'
      BY <1>1, GotoFacts DEF Check, StageFits, PcStages
  <1> QED BY <1>0, <1>2, GotoFacts, MoveWork, Piece DEF Check, Same, pveVars, Running, PcStages

LEMMA ChooseVmidInv ==
  ASSUME ProvInv, NEW k \in Workers, NEW v \in Vmids, ChooseVmid(k, v)
  PROVE  ProvInv'
  <1>0. pc[k] \in Running
      BY DEF ChooseVmid, At, Running, PcStages
  <1>1. req[job[k]].done = 2
      BY <1>0, AtNumbers, Piece DEF ChooseVmid, Running, ProvInv
  <1>2. WorkTypes' /\ Alone(k) /\ pc'[k] = "vmid" /\ pick'[k] = v
      BY DEF ChooseVmid, ProvInv, ProvisioningTypeOK, WorkTypes, Alone, PcStages
  <1>3. StageFits(k)'
      BY <1>1, <1>2 DEF ChooseVmid, StageFits
  <1> QED BY <1>0, <1>2, <1>3, MoveWork, Piece DEF ChooseVmid, Same, pveVars, Running, PcStages

LEMMA ResumesInv ==
  ASSUME ProvInv, NEW k \in Workers, FullCloneResumes(k)
  PROVE  ProvInv'
  <1>0. pc[k] \in Running
      BY DEF FullCloneResumes, At, Running, PcStages
  <1>1. req[job[k]].done = 4 /\ req[job[k]].cloned
      BY <1>0, AtNumbers, Piece DEF FullCloneResumes, Running, ProvInv
  <1>2. StageFits(k)'
      BY <1>1, GotoFacts DEF FullCloneResumes, StageFits, PcStages
  <1> QED BY <1>0, <1>2, GotoFacts, MoveWork, Piece
         DEF FullCloneResumes, Same, pveVars, Running, PcStages

LEMMA WaitCloneInv ==
  ASSUME ProvInv, NEW k \in Workers, WaitClone(k)
  PROVE  ProvInv'
  <1>0. pc[k] \in Running
      BY DEF WaitClone, At, Running, PcStages
  <1>1. req[job[k]].done = 5 /\ clone[job[k]] = "ok"
      BY <1>0, AtNumbers, Piece DEF WaitClone, CloneOk, Running, ProvInv
  <1> QED BY <1>0, <1>1, RenewWork DEF WaitClone

LEMMA ConfigureNetworkInv ==
  ASSUME ProvInv, NEW k \in Workers, ConfigureNetwork(k)
  PROVE  ProvInv'
  <1>0. pc[k] \in Running
      BY DEF ConfigureNetwork, At, Running, PcStages
  <1>1. req[job[k]].done = 6
      BY <1>0, AtNumbers, Piece DEF ConfigureNetwork, Running, ProvInv
  <1>2. StageFits(k)'
      BY <1>1, GotoFacts DEF ConfigureNetwork, StageFits, PcStages
  <1>3. netip' \in [Vmids -> Rows \cup {NoRow}]
      BY <1>0, Piece DEF ConfigureNetwork, RequestRow, Running
  <1> QED BY <1>0, <1>2, <1>3, GotoFacts, MoveWork DEF ConfigureNetwork, Same, Running, PcStages

(* A failure with a clone, or with a conflict, goes to a manual review. *)
LEMMA FailFacts ==
  ASSUME ProvInv, NEW k \in Workers, pc[k] \in Running, NEW conflict \in BOOLEAN, Fail(k, conflict)
  PROVE  /\ WorkTypes' /\ job' = job
         /\ pc'[k] \in {"fail", "quarantine"}
         /\ pc'[k] = "quarantine" => ~req[job[k]].cloned
         /\ pc'[k] = "fail" => review'[k]
         /\ UNCHANGED req => Alone(k)
  <1>1. req[job[k]].cloned \in BOOLEAN
      BY Busy DEF Running, RequestRow
  <1> QED BY <1>1 DEF Fail, ProvInv, ProvisioningTypeOK, WorkTypes, Alone, PcStages

LEMMA StepFailsInv ==
  ASSUME ProvInv, NEW k \in Workers, StepFails(k)
  PROVE  ProvInv'
  <1>0. pc[k] \in Running
      BY DEF StepFails, Running, PcStages
  <1>1. PICK conflict \in BOOLEAN : Fail(k, conflict)
      BY DEF StepFails
  <1>2. StageFits(k)'
      BY <1>0, <1>1, FailFacts DEF StepFails, StageFits
  <1> QED BY <1>0, <1>1, <1>2, FailFacts, MoveWork, Piece DEF StepFails, Same, pveVars, Running, PcStages

LEMMA RevokedInv ==
  ASSUME ProvInv, NEW k \in Workers, Revoked(k)
  PROVE  ProvInv'
  <1>1. WorkTypes' /\ Alone(k) /\ pc'[k] = "fail" /\ review'[k] /\ pc[k] \in Running
      BY DEF Revoked, ProvInv, ProvisioningTypeOK, WorkTypes, Alone, PcStages, Running
  <1>2. StageFits(k)'
      BY <1>1 DEF StageFits
  <1> QED BY <1>1, <1>2, MoveWork, Piece DEF Revoked, Same, pveVars, Running, PcStages

LEMMA RollbackFailsInv ==
  ASSUME ProvInv, NEW k \in Workers, RollbackFails(k)
  PROVE  ProvInv'
  <1>1. /\ WorkTypes' /\ Alone(k) /\ pc'[k] = "fail" /\ review'[k] /\ job' = job
        /\ pc[k] \in Running /\ pc'[k] \in Running
      BY DEF RollbackFails, ProvInv, ProvisioningTypeOK, WorkTypes, Alone, PcStages, Running
  <1>2. StageFits(k)'
      BY <1>1 DEF StageFits
  <1>3. pc[k] \in PcStages
      BY <1>1 DEF Running
  <1> QED BY <1>1, <1>2, <1>3, MoveWork, Piece DEF RollbackFails, Same, pveVars
-----------------------------------------------------------------------------
(* Steps that change the row of the request.                               *)

LEMMA StepDoneInv ==
  ASSUME ProvInv, NEW k \in Workers, StepDone(k)
  PROVE  ProvInv'
  <1>0. pc[k] = "done" /\ pc[k] \in PcStages /\ pc[k] \in Running
      BY DEF StepDone, PcStages, Running
  <1>r. PICK r \in Requests : r = job[k]
      BY <1>0, Busy
  <1>p. ClaimFits(k) /\ StageFits(k) /\ RowFits(r) /\ WorldFits(r) /\ req[r] \in RequestRow
      BY <1>0, <1>r, Piece
  <1>d. req[r].done \in 0 .. 10
      BY <1>0, <1>r, <1>p, StepNumbers DEF StageFits, RequestRow
  <1>1. /\ req'[r] = [req[r] EXCEPT !.done = @ + 1, !.lease = "fresh"]
        /\ \A s \in Requests \ {r} : req'[s] = req[s]
      BY <1>r DEF StepDone, ProvInv, ProvisioningTypeOK
  <1>2. req' \in [Requests -> RequestRow]
      <2>1. req'[r] \in RequestRow
          <3>1. req[r].done + 1 \in 0 .. Len(Steps)
              BY <1>d, StepNumbers
          <3> QED BY <1>1, <1>p, <3>1 DEF RequestRow
      <2> QED BY <2>1, <1>1 DEF StepDone, ProvInv, ProvisioningTypeOK
  <1>f. /\ req'[r].status = req[r].status /\ req'[r].done = req[r].done + 1
        /\ req'[r].runner = req[r].runner /\ req'[r].node = req[r].node
        /\ req'[r].cap = req[r].cap /\ req'[r].cloned = req[r].cloned
        /\ req'[r].secret = req[r].secret /\ req'[r].vmid = req[r].vmid
      BY <1>p, <1>1 DEF RequestRow
  <1>3. Alone(k) /\ WorkTypes' /\ pc'[k] = "exec" /\ job' = job
      BY <1>1, <1>r, GotoFacts DEF StepDone, PcStages
  <1>4. CapacityInv'
      BY <1>1, <1>f, CapacityQuiet DEF StepDone, ProvInv
  <1>5. ClaimFits(k)' /\ StageFits(k)'
      BY <1>0, <1>f, <1>3, <1>p, <1>r DEF ClaimFits, StageFits, PcStages, Running
  <1>6. RowFits(r)'
      BY <1>0, <1>f, <1>d, <1>p, <1>r DEF ClaimFits, StageFits, RowFits
  <1>7. WorldFits(r)'
      BY <1>0, <1>f, <1>d, <1>p, <1>r, HeldStutter
         DEF StepDone, ClaimFits, StageFits, WorldFits, pveVars
  <1> QED BY <1>0, <1>1, <1>f, <1>2, <1>3, <1>4, <1>5, <1>6, <1>7, <1>p, <1>r, Piece, RowWork
         DEF StepDone, Same, pveVars, RequestRow

(* ... while the worker keeps its claim. *)
LEMMA ClaimKept ==
  ASSUME ProvInv, NEW k \in Workers, NEW r \in Requests, r = job[k], pc[k] \in Running,
         pc'[k] \in Running, job' = job,
         req'[r].status = req[r].status, req'[r].runner = req[r].runner
  PROVE  ClaimFits(k)'
  BY Piece DEF ProvInv, ClaimFits, Running, PcStages

LEMMA SelectTargetInv ==
  ASSUME ProvInv, NEW k \in Workers, NEW n \in Nodes, SelectTarget(k, n)
  PROVE  ProvInv'
  <1>0. pc[k] = "exec" /\ pc[k] \in PcStages /\ pc[k] \in Running
      BY DEF SelectTarget, At, PcStages, Running
  <1>r. PICK r \in Requests : r = job[k]
      BY <1>0, Busy
  <1>p. ClaimFits(k) /\ RowFits(r) /\ WorldFits(r) /\ req[r] \in RequestRow
      BY <1>0, <1>r, Piece
  <1>d. req[r].done = 1 /\ req[r].status = "RUNNING"
      BY <1>0, <1>r, <1>p, AtNumbers DEF SelectTarget, ProvInv, ClaimFits
  <1>1. CASE req[r].cap
      <2>1. StageFits(k)'
          BY <1>1, <1>d, <1>r, GotoFacts DEF SelectTarget, StageFits, PcStages
      <2> QED BY <1>0, <1>1, <1>r, <2>1, GotoFacts, MoveWork, Piece
             DEF SelectTarget, Same, pveVars, Running, PcStages
  <1>2. CASE ~req[r].cap
      <2>1. /\ req'[r] = [req[r] EXCEPT !.node = n, !.cap = TRUE]
            /\ \A s \in Requests \ {r} : req'[s] = req[s]
          BY <1>2, <1>r DEF SelectTarget, ProvInv, ProvisioningTypeOK, RequestRow
      <2>2. req' \in [Requests -> RequestRow]
          BY <1>2, <1>r, <1>p DEF SelectTarget, ProvInv, ProvisioningTypeOK, RequestRow
      <2>3. Alone(k) /\ WorkTypes' /\ pc'[k] = "done" /\ job' = job
          BY <2>1, <1>r, GotoFacts DEF SelectTarget, PcStages
      <2>4. CapacityInv'
          BY <1>2, <1>p, <1>r, <2>1, CapacityTaken DEF SelectTarget, ProvInv, RequestRow
      <2>5. ClaimFits(k)'
          BY <1>0, <1>p, <1>r, <2>1, <2>3, ClaimKept DEF Running, PcStages, RequestRow
      <2>f. /\ req'[r].status = "RUNNING" /\ req'[r].done = 1 /\ req'[r].node = n
            /\ req'[r].cloned = req[r].cloned /\ req'[r].secret = req[r].secret
            /\ req'[r].vmid = req[r].vmid
          BY <1>d, <1>p, <2>1 DEF RequestRow
      <2>6. StageFits(k)'
          BY <1>r, <2>3, <2>f DEF StageFits
      <2>7. RowFits(r)'
          BY <1>d, <1>p, <2>f DEF RowFits, Ended
      <2>8. WorldFits(r)'
          BY <1>d, <1>p, <2>f, HeldStutter DEF SelectTarget, WorldFits, pveVars
      <2> QED BY <1>0, <1>r, <2>2, <2>3, <2>4, <2>5, <2>6, <2>7, <2>8, <2>f, Piece, RowWork
             DEF SelectTarget, Same, pveVars
  <1> QED BY <1>1, <1>2

(* The VMID changes only before a clone was asked for. *)
LEMMA CommitVmidInv ==
  ASSUME ProvInv, NEW k \in Workers, CommitVmid(k)
  PROVE  ProvInv'
  <1>0. pc[k] = "vmid" /\ pc[k] \in PcStages /\ pc[k] \in Running
      BY DEF CommitVmid, PcStages, Running
  <1>r. PICK r \in Requests : r = job[k]
      BY <1>0, Busy
  <1>p. ClaimFits(k) /\ StageFits(k) /\ RowFits(r) /\ WorldFits(r) /\ req[r] \in RequestRow
      BY <1>0, <1>r, Piece
  <1>d. /\ req[r].done = 2 /\ req[r].status = "RUNNING" /\ pick[k] \in Vmids
        /\ ~req[r].cloned /\ clone[r] = "none"
      BY <1>0, <1>r, <1>p DEF ClaimFits, StageFits, RowFits, WorldFits
  <1>1. /\ req'[r] = [req[r] EXCEPT !.vmid = pick[k]]
        /\ \A s \in Requests \ {r} : req'[s] = req[s]
      BY <1>r DEF CommitVmid, ProvInv, ProvisioningTypeOK
  <1>2. req' \in [Requests -> RequestRow]
      BY <1>r, <1>p, <1>d DEF CommitVmid, ProvInv, ProvisioningTypeOK, RequestRow
  <1>3. Alone(k) /\ WorkTypes' /\ pc'[k] = "done" /\ job' = job
      BY <1>1, <1>r DEF CommitVmid, ProvInv, ProvisioningTypeOK, WorkTypes, Alone, PcStages
  <1>4. CapacityInv'
      BY <1>1, <1>p, CapacityQuiet DEF CommitVmid, ProvInv, RequestRow
  <1>5. ClaimFits(k)'
      BY <1>0, <1>1, <1>3, <1>p, <1>r, ClaimKept DEF Running, PcStages, RequestRow
  <1>6. StageFits(k)' /\ RowFits(r)'
      BY <1>1, <1>3, <1>d, <1>p, <1>r DEF StageFits, RowFits, RequestRow
  <1>7. WorldFits(r)'
      BY <1>1, <1>d, <1>p, HeldStutter DEF CommitVmid, WorldFits, RequestRow, pveVars
  <1> QED BY <1>0, <1>1, <1>2, <1>3, <1>4, <1>5, <1>6, <1>7, <1>d, <1>r, Piece, RowWork
         DEF CommitVmid, Same, pveVars

LEMMA RecordIpInv ==
  ASSUME ProvInv, NEW k \in Workers, RecordIp(k)
  PROVE  ProvInv'
  <1>0. pc[k] = "ip" /\ pc[k] \in PcStages /\ pc[k] \in Running
      BY DEF RecordIp, PcStages, Running
  <1>r. PICK r \in Requests : r = job[k]
      BY <1>0, Busy
  <1>p. ClaimFits(k) /\ StageFits(k) /\ RowFits(r) /\ WorldFits(r) /\ req[r] \in RequestRow
      BY <1>0, <1>r, Piece
  <1>d. req[r].done = 3 /\ req[r].status = "RUNNING" /\ pick[k] \in Rows
      BY <1>0, <1>r, <1>p DEF ClaimFits, StageFits
  <1>1. /\ req'[r] = [req[r] EXCEPT !.ip = pick[k]]
        /\ \A s \in Requests \ {r} : req'[s] = req[s]
      BY <1>r DEF RecordIp, ProvInv, ProvisioningTypeOK
  <1>2. req' \in [Requests -> RequestRow]
      BY <1>r, <1>p, <1>d DEF RecordIp, ProvInv, ProvisioningTypeOK, RequestRow
  <1>3. Alone(k) /\ WorkTypes' /\ pc'[k] = "done" /\ job' = job
      BY <1>1, <1>r DEF RecordIp, ProvInv, ProvisioningTypeOK, WorkTypes, Alone, PcStages
  <1>4. CapacityInv'
      BY <1>1, <1>p, CapacityQuiet DEF RecordIp, ProvInv, RequestRow
  <1>5. ClaimFits(k)'
      BY <1>0, <1>1, <1>3, <1>p, <1>r, ClaimKept DEF Running, PcStages, RequestRow
  <1>6. StageFits(k)' /\ RowFits(r)'
      BY <1>1, <1>3, <1>d, <1>p, <1>r DEF StageFits, RowFits, RequestRow
  <1>7. WorldFits(r)'
      BY <1>1, <1>d, <1>p, HeldStutter DEF RecordIp, WorldFits, RequestRow, pveVars
  <1> QED BY <1>0, <1>1, <1>2, <1>3, <1>4, <1>5, <1>6, <1>7, <1>p, <1>r, Piece, RowWork
         DEF RecordIp, Same, pveVars, RequestRow

LEMMA FullCloneInv ==
  ASSUME ProvInv, NEW k \in Workers, FullClone(k)
  PROVE  ProvInv'
  <1>0. pc[k] = "exec" /\ pc[k] \in PcStages /\ pc[k] \in Running
      BY DEF FullClone, At, PcStages, Running
  <1>r. PICK r \in Requests : r = job[k]
      BY <1>0, Busy
  <1>p. ClaimFits(k) /\ RowFits(r) /\ WorldFits(r) /\ req[r] \in RequestRow
      BY <1>0, <1>r, Piece
  <1>d. req[r].done = 4 /\ req[r].status = "RUNNING"
      BY <1>0, <1>r, <1>p, AtNumbers DEF FullClone, ProvInv, ClaimFits
  <1>1. /\ req'[r] = [req[r] EXCEPT !.cloned = TRUE]
        /\ \A s \in Requests \ {r} : req'[s] = req[s]
      BY <1>r DEF FullClone, ProvInv, ProvisioningTypeOK
  <1>2. req' \in [Requests -> RequestRow]
      BY <1>r, <1>p DEF FullClone, ProvInv, ProvisioningTypeOK, RequestRow
  <1>3. Alone(k) /\ WorkTypes' /\ pc'[k] = "clone" /\ job' = job
      BY <1>1, <1>r, GotoFacts DEF FullClone, PcStages
  <1>4. CapacityInv'
      BY <1>1, <1>p, CapacityQuiet DEF FullClone, ProvInv, RequestRow
  <1>5. ClaimFits(k)'
      BY <1>0, <1>1, <1>3, <1>p, <1>r, ClaimKept DEF Running, PcStages, RequestRow
  <1>6. StageFits(k)' /\ RowFits(r)'
      BY <1>1, <1>3, <1>d, <1>p, <1>r DEF StageFits, RowFits, RequestRow
  <1>7. WorldFits(r)'
      BY <1>1, <1>d, <1>p, HeldStutter DEF FullClone, WorldFits, RequestRow, pveVars
  <1> QED BY <1>0, <1>1, <1>2, <1>3, <1>4, <1>5, <1>6, <1>7, <1>p, <1>r, Piece, RowWork
         DEF FullClone, Same, pveVars, RequestRow

LEMMA RecordUpidInv ==
  ASSUME ProvInv, NEW k \in Workers, RecordUpid(k)
  PROVE  ProvInv'
  <1>0. pc[k] = "cloned" /\ pc[k] \in PcStages /\ pc[k] \in Running
      BY DEF RecordUpid, PcStages, Running
  <1>r. PICK r \in Requests : r = job[k]
      BY <1>0, Busy
  <1>p. ClaimFits(k) /\ StageFits(k) /\ RowFits(r) /\ WorldFits(r) /\ req[r] \in RequestRow
      BY <1>0, <1>r, Piece
  <1>d. req[r].done = 4 /\ req[r].cloned /\ req[r].status = "RUNNING"
      BY <1>0, <1>r, <1>p DEF ClaimFits, StageFits
  <1>1. /\ req'[r] = [req[r] EXCEPT !.upid = TRUE]
        /\ \A s \in Requests \ {r} : req'[s] = req[s]
      BY <1>r DEF RecordUpid, ProvInv, ProvisioningTypeOK
  <1>2. req' \in [Requests -> RequestRow]
      BY <1>r, <1>p DEF RecordUpid, ProvInv, ProvisioningTypeOK, RequestRow
  <1>3. Alone(k) /\ WorkTypes' /\ pc'[k] = "done" /\ job' = job
      BY <1>1, <1>r, GotoFacts DEF RecordUpid, PcStages
  <1>4. CapacityInv'
      BY <1>1, <1>p, CapacityQuiet DEF RecordUpid, ProvInv, RequestRow
  <1>5. ClaimFits(k)'
      BY <1>0, <1>1, <1>3, <1>p, <1>r, ClaimKept DEF Running, PcStages, RequestRow
  <1>6. StageFits(k)' /\ RowFits(r)'
      BY <1>1, <1>3, <1>d, <1>p, <1>r DEF StageFits, RowFits, RequestRow
  <1>7. WorldFits(r)'
      BY <1>1, <1>d, <1>p, HeldStutter DEF RecordUpid, WorldFits, RequestRow, pveVars
  <1> QED BY <1>0, <1>1, <1>2, <1>3, <1>4, <1>5, <1>6, <1>7, <1>p, <1>r, Piece, RowWork
         DEF RecordUpid, Same, pveVars, RequestRow

LEMMA ConfigureIdentityInv ==
  ASSUME ProvInv, NEW k \in Workers, ConfigureIdentity(k)
  PROVE  ProvInv'
  <1>0. pc[k] = "exec" /\ pc[k] \in PcStages /\ pc[k] \in Running
      BY DEF ConfigureIdentity, At, PcStages, Running
  <1>r. PICK r \in Requests : r = job[k]
      BY <1>0, Busy
  <1>p. ClaimFits(k) /\ RowFits(r) /\ WorldFits(r) /\ req[r] \in RequestRow
      BY <1>0, <1>r, Piece
  <1>d. req[r].done = 7 /\ req[r].status = "RUNNING"
      BY <1>0, <1>r, <1>p, AtNumbers DEF ConfigureIdentity, ProvInv, ClaimFits
  <1>1. /\ req'[r] = [req[r] EXCEPT !.secret = FALSE]
        /\ \A s \in Requests \ {r} : req'[s] = req[s]
      BY <1>r DEF ConfigureIdentity, ProvInv, ProvisioningTypeOK
  <1>2. req' \in [Requests -> RequestRow]
      BY <1>r, <1>p DEF ConfigureIdentity, ProvInv, ProvisioningTypeOK, RequestRow
  <1>3. Alone(k) /\ WorkTypes' /\ pc'[k] = "done" /\ job' = job
      BY <1>1, <1>r, GotoFacts DEF ConfigureIdentity, PcStages
  <1>4. CapacityInv'
      BY <1>1, <1>p, CapacityQuiet DEF ConfigureIdentity, ProvInv, RequestRow
  <1>5. ClaimFits(k)'
      BY <1>0, <1>1, <1>3, <1>p, <1>r, ClaimKept DEF Running, PcStages, RequestRow
  <1>6. StageFits(k)' /\ RowFits(r)'
      BY <1>1, <1>3, <1>d, <1>p, <1>r DEF StageFits, RowFits, RequestRow
  <1>7. WorldFits(r)'
      BY <1>1, <1>d, <1>p, HeldStutter DEF ConfigureIdentity, WorldFits, RequestRow, pveVars
  <1> QED BY <1>0, <1>1, <1>2, <1>3, <1>4, <1>5, <1>6, <1>7, <1>p, <1>r, Piece, RowWork
         DEF ConfigureIdentity, Same, pveVars, RequestRow

LEMMA SucceedInv ==
  ASSUME ProvInv, NEW k \in Workers, Succeed(k)
  PROVE  ProvInv'
  <1>0. pc[k] = "exec" /\ pc[k] \in PcStages /\ pc[k] \in Running
      BY DEF Succeed, PcStages, Running
  <1>r. PICK r \in Requests : r = job[k]
      BY <1>0, Busy
  <1>p. ClaimFits(k) /\ RowFits(r) /\ WorldFits(r) /\ req[r] \in RequestRow
      BY <1>0, <1>r, Piece
  <1>d. req[r].done = 11 /\ req[r].status = "RUNNING" /\ ~req[r].secret
      BY <1>0, <1>r, <1>p, StepNumbers DEF Succeed, ClaimFits, RowFits
  <1>1. /\ req'[r] = [req[r] EXCEPT !.status = "SUCCEEDED", !.runner = NoWorker, !.lease = "none"]
        /\ \A s \in Requests \ {r} : req'[s] = req[s]
      BY <1>r DEF Succeed, ProvInv, ProvisioningTypeOK
  <1>2. req' \in [Requests -> RequestRow]
      BY <1>r, <1>p DEF Succeed, ProvInv, ProvisioningTypeOK, RequestRow, Ended
  <1>3. /\ Alone(k) /\ WorkTypes' /\ job'[k] = NoReq
        /\ ClaimFits(k)' /\ StageFits(k)'
      BY <1>1, <1>r, IdleFacts DEF Succeed
  <1>f. /\ req'[r].status = "SUCCEEDED" /\ req'[r].done = 11 /\ req'[r].node = req[r].node
        /\ req'[r].cap = req[r].cap /\ req'[r].cloned = req[r].cloned
        /\ req'[r].secret = req[r].secret /\ req'[r].vmid = req[r].vmid
      BY <1>d, <1>p, <1>1 DEF RequestRow
  <1>4. CapacityInv'
      BY <1>1, <1>f, CapacityQuiet DEF Succeed, ProvInv
  <1>5. RowFits(r)'
      BY <1>d, <1>p, <1>f DEF RowFits
  <1>6. WorldFits(r)'
      BY <1>d, <1>p, <1>f, HeldStutter DEF Succeed, WorldFits, pveVars
  <1> QED BY <1>0, <1>2, <1>3, <1>4, <1>5, <1>6, <1>f, <1>r, Piece, RowWork
         DEF Succeed, Same, pveVars

LEMMA FailReleasesInv ==
  ASSUME ProvInv, NEW k \in Workers, FailReleases(k)
  PROVE  ProvInv'
  <1>0. pc[k] = "capacity" /\ pc[k] \in PcStages /\ pc[k] \in Running
      BY DEF FailReleases, PcStages, Running
  <1>r. PICK r \in Requests : r = job[k]
      BY <1>0, Busy
  <1>p. ClaimFits(k) /\ StageFits(k) /\ RowFits(r) /\ WorldFits(r) /\ req[r] \in RequestRow
      BY <1>0, <1>r, Piece
  <1>d. req[r].status = "RUNNING" /\ ~req[r].cloned /\ Existing(r) = {}
      BY <1>0, <1>r, <1>p DEF ClaimFits, StageFits
  <1>e. pc'[k] = "fail" /\ pc'[k] \in Running /\ WorkTypes' /\ job' = job
      BY GotoFacts DEF FailReleases, PcStages, Running
  <1>h. Existing(r)' = {}
      BY <1>d, HeldStutter DEF FailReleases
  <1>1. CASE req[r].cap
      <2>1. /\ req'[r] = [req[r] EXCEPT !.cap = FALSE]
            /\ \A s \in Requests \ {r} : req'[s] = req[s]
          BY <1>1, <1>r DEF FailReleases, ProvInv, ProvisioningTypeOK
      <2>2. req' \in [Requests -> RequestRow]
          <3>1. req'[r] \in RequestRow
              BY <1>p, <2>1 DEF RequestRow
          <3> QED BY <1>1, <1>r, <3>1, <2>1 DEF FailReleases, ProvInv, ProvisioningTypeOK
      <2>f. /\ req'[r].status = "RUNNING" /\ req'[r].done = req[r].done /\ ~req'[r].cap
            /\ req'[r].cloned = req[r].cloned /\ req'[r].secret = req[r].secret
            /\ req'[r].vmid = req[r].vmid /\ req'[r].runner = req[r].runner
            /\ req'[r].lease = req[r].lease
          BY <1>d, <1>p, <2>1 DEF RequestRow
      <2>3. Alone(k)
          BY <1>r, <2>1, GotoFacts DEF FailReleases, PcStages
      <2>4. CapacityInv'
          BY <1>1, <1>p, <1>r, <2>1, <2>f, CapacityReturned DEF FailReleases, ProvInv, RowFits
      <2>5. ClaimFits(k)'
          BY <1>0, <1>d, <1>e, <1>r, <2>f, ClaimKept
      <2>6. StageFits(k)'
          BY <1>d, <1>e, <1>h, <1>r, <2>f DEF StageFits
      <2>7. RowFits(r)'
          BY <1>d, <1>p, <2>f DEF RowFits, Ended
      <2>8. WorldFits(r)'
          BY <1>d, <1>p, <2>f, HeldStutter DEF FailReleases, WorldFits, pveVars
      <2> QED BY <1>0, <1>e, <1>r, <2>2, <2>3, <2>4, <2>5, <2>6, <2>7, <2>8, <2>f, Piece, RowWork
             DEF FailReleases, Same, pveVars
  <1>2. CASE ~req[r].cap
      <2>1. UNCHANGED <<req, free>> /\ Alone(k)
          BY <1>2, <1>r, GotoFacts DEF FailReleases, PcStages
      <2>2. StageFits(k)'
          BY <1>2, <1>d, <1>e, <1>h, <1>r, <2>1 DEF StageFits
      <2> QED BY <1>0, <1>e, <2>1, <2>2, MoveWork, Piece DEF FailReleases, Same, pveVars
  <1> QED BY <1>1, <1>2

(* The end of a failure: FAILED only when nothing is left. *)
LEMMA FailEndsInv ==
  ASSUME ProvInv, NEW k \in Workers, FailEnds(k)
  PROVE  ProvInv'
  <1>0. pc[k] = "fail" /\ pc[k] \in PcStages /\ pc[k] \in Running
      BY DEF FailEnds, PcStages, Running
  <1>r. PICK r \in Requests : r = job[k]
      BY <1>0, Busy
  <1>p. ClaimFits(k) /\ StageFits(k) /\ RowFits(r) /\ WorldFits(r) /\ req[r] \in RequestRow
      BY <1>0, <1>r, Piece
  <1>d. /\ req[r].status = "RUNNING"
        /\ ~review[k] => ~req[r].cloned /\ ~req[r].cap /\ Existing(r) = {}
      BY <1>0, <1>r, <1>p DEF ClaimFits, StageFits
  <1>1. /\ req'[r] = [req[r] EXCEPT !.status = IF review[k] THEN "MANUAL_REVIEW" ELSE "FAILED",
                                    !.runner = NoWorker, !.lease = "none", !.secret = FALSE]
        /\ \A s \in Requests \ {r} : req'[s] = req[s]
      BY <1>r DEF FailEnds, ProvInv, ProvisioningTypeOK
  <1>f. /\ req'[r].status = IF review[k] THEN "MANUAL_REVIEW" ELSE "FAILED"
        /\ req'[r].done = req[r].done /\ req'[r].node = req[r].node
        /\ req'[r].cap = req[r].cap /\ req'[r].cloned = req[r].cloned
        /\ ~req'[r].secret /\ req'[r].vmid = req[r].vmid
      BY <1>p, <1>1 DEF RequestRow
  <1>2. req' \in [Requests -> RequestRow]
      <2>1. req'[r] \in RequestRow
          BY <1>p, <1>1 DEF RequestRow, Ended
      <2> QED BY <1>r, <2>1, <1>1 DEF FailEnds, ProvInv, ProvisioningTypeOK
  <1>3. Alone(k) /\ WorkTypes' /\ job'[k] \in {job[k], NoReq} /\ ClaimFits(k)' /\ StageFits(k)'
      <2>1. CASE review[k]
          <3>1. Alone(k) /\ WorkTypes' /\ job' = job /\ pc'[k] = "partial"
              BY <1>1, <1>r, <2>1, GotoFacts DEF FailEnds, PcStages
          <3>2. ClaimFits(k)' /\ StageFits(k)'
              BY <1>f, <1>r, <2>1, <3>1 DEF ClaimFits, StageFits, Running
          <3> QED BY <3>1, <3>2
      <2>2. CASE ~review[k]
          BY <1>1, <1>r, <2>2, IdleFacts DEF FailEnds
      <2> QED BY <2>1, <2>2
  <1>4. CapacityInv'
      BY <1>1, <1>f, CapacityQuiet DEF FailEnds, ProvInv
  <1>5. RowFits(r)'
      BY <1>d, <1>p, <1>f DEF RowFits
  <1>6. WorldFits(r)'
      BY <1>d, <1>p, <1>f, HeldStutter DEF FailEnds, WorldFits, pveVars
  <1> QED BY <1>0, <1>2, <1>3, <1>4, <1>5, <1>6, <1>f, <1>r, Piece, RowWork
         DEF FailEnds, Same, pveVars

LEMMA BreaksInv ==
  ASSUME ProvInv, NEW k \in Workers, NEW released \in BOOLEAN, Breaks(k, released)
  PROVE  ProvInv'
  <1>0. pc[k] \in PcStages /\ pc[k] \in Running
      BY DEF Breaks, At, PcStages, Running
  <1>r. PICK r \in Requests : r = job[k]
      BY <1>0, Busy
  <1>p. ClaimFits(k) /\ RowFits(r) /\ WorldFits(r) /\ req[r] \in RequestRow
      BY <1>0, <1>r, Piece
  <1>d. req[r].status = "RUNNING"
      BY <1>0, <1>r, <1>p DEF ClaimFits
  <1>1. /\ req'[r] = req[r] \/ req'[r] = [req[r] EXCEPT !.runner = NoWorker, !.lease = "none"]
        /\ \A s \in Requests \ {r} : req'[s] = req[s]
      BY <1>r DEF Breaks, ProvInv, ProvisioningTypeOK
  <1>f. /\ req'[r].status = "RUNNING" /\ req'[r].done = req[r].done /\ req'[r].node = req[r].node
        /\ req'[r].cap = req[r].cap /\ req'[r].cloned = req[r].cloned
        /\ req'[r].secret = req[r].secret /\ req'[r].vmid = req[r].vmid
      BY <1>d, <1>p, <1>1 DEF RequestRow
  <1>2. req' \in [Requests -> RequestRow]
      <2>1. req'[r] \in RequestRow
          BY <1>p, <1>1 DEF RequestRow
      <2> QED BY <1>r, <2>1, <1>1 DEF Breaks, ProvInv, ProvisioningTypeOK
  <1>3. /\ Alone(k) /\ WorkTypes' /\ job'[k] = NoReq
        /\ ClaimFits(k)' /\ StageFits(k)'
      BY <1>1, <1>r, IdleFacts DEF Breaks
  <1>4. CapacityInv'
      BY <1>1, <1>f, CapacityQuiet DEF Breaks, ProvInv
  <1>5. RowFits(r)'
      BY <1>d, <1>p, <1>f DEF RowFits, Ended
  <1>6. WorldFits(r)'
      BY <1>d, <1>p, <1>f, HeldStutter DEF Breaks, WorldFits, pveVars
  <1> QED BY <1>0, <1>2, <1>3, <1>4, <1>5, <1>6, <1>f, <1>r, Piece, RowWork
         DEF Breaks, Same, pveVars
-----------------------------------------------------------------------------
(* Steps that reach PVE.                                                   *)

(* PVE accepts a clone only for a VMID without a guest, so that the guest  *)
(* of an earlier clone is not touched.                                     *)
LEMMA AcceptWork ==
  ASSUME ProvInv, NEW k \in Workers, pc[k] = "clone", AcceptClone(job[k]), Alone(k), WorkTypes',
         pc'[k] \in Running, job' = job,
         UNCHANGED <<queue, crashes, req, ipamVars, free, owner>>,
         StageFits(k)'
  PROVE  ProvInv'
  <1>0. pc[k] \in PcStages /\ pc[k] \in Running
      BY DEF PcStages, Running
  <1>r. PICK r \in Requests : r = job[k]
      BY <1>0, Busy
  <1>p. ClaimFits(k) /\ StageFits(k) /\ RowFits(r) /\ WorldFits(r) /\ req[r] \in RequestRow
      BY <1>0, <1>r, Piece
  <1>d. req[r].status = "RUNNING" /\ req[r].done = 4 /\ req[r].cloned /\ req[r].vmid \in Vmids
      BY <1>0, <1>r, <1>p DEF ClaimFits, StageFits, RowFits
  <1>1. /\ guest[req[r].vmid] = NoReq
        /\ guest' = [guest EXCEPT ![req[r].vmid] = r]
        /\ clone' = [clone EXCEPT ![r] = "running"]
        /\ netip' = netip
      BY <1>r DEF AcceptClone
  <1>2. /\ guest'[req[r].vmid] = r /\ clone'[r] = "running"
        /\ \A v \in Vmids \ {req[r].vmid} : guest'[v] = guest[v]
        /\ \A s \in Requests \ {r} : clone'[s] = clone[s]
      BY <1>1, <1>d DEF ProvInv, ProvisioningTypeOK
  <1>3. PveTypes'
      BY <1>1, <1>d DEF PveTypes, ProvInv, ProvisioningTypeOK
  <1>4. /\ queue' \subseteq Requests /\ req' \in [Requests -> RequestRow]
        /\ (owner \in [Vmids -> Owners])' /\ CapacityInv'
      BY CapacityQuiet DEF ProvInv, ProvisioningTypeOK, Owners
  <1>5. IpamInv' /\ \A s : NoMoreHeld(s)
      BY IpamStutter, HeldStutter DEF ProvInv
  <1>6. \A v \in Vmids : guest[v] \in Requests \ {job[k]} => guest'[v] = guest[v]
      BY <1>1, <1>2, NoReqAssumption
  <1>7. AssignedIsOurs'
      <2>1. Frame({k}, r)
          BY <1>2, <1>5, <1>6, <1>r, Sole DEF Frame, Alone
      <2>2. clone[r] # "ok"
          BY <1>1, <1>p, NoReqAssumption DEF WorldFits
      <2> QED BY <2>1, <2>2, Handed
  <1>8. ClaimFits(k)' /\ RowFits(r)'
      BY <1>0, <1>p, <1>r, ClaimKept DEF RowFits
  <1>9. WorldFits(r)'
      BY <1>2, <1>d, <1>p, HeldStutter DEF WorldFits
  <1> QED BY <1>0, <1>r, <1>2, <1>3, <1>4, <1>5, <1>6, <1>7, <1>8, <1>9, WorkInv

LEMMA CloneReturnsUpidInv ==
  ASSUME ProvInv, NEW k \in Workers, CloneReturnsUpid(k)
  PROVE  ProvInv'
  <1>0. pc[k] = "clone" /\ pc[k] \in PcStages
      BY DEF CloneReturnsUpid, PcStages
  <1>1. pc'[k] = "cloned" /\ pc'[k] \in Running /\ WorkTypes' /\ job' = job /\ Alone(k)
      BY GotoFacts DEF CloneReturnsUpid, PcStages, Running
  <1>2. StageFits(k)'
      BY <1>0, <1>1, Piece DEF CloneReturnsUpid, StageFits
  <1> QED BY <1>0, <1>1, <1>2, AcceptWork DEF CloneReturnsUpid, Same

LEMMA CloneFailsInv ==
  ASSUME ProvInv, NEW k \in Workers, CloneFails(k)
  PROVE  ProvInv'
  <1>0. pc[k] = "clone" /\ pc[k] \in PcStages /\ pc[k] \in Running
      BY DEF CloneFails, PcStages, Running
  <1>1. /\ pc'[k] \in {"fail", "quarantine"} /\ WorkTypes' /\ job' = job /\ Alone(k)
        /\ pc'[k] = "quarantine" => ~req[job[k]].cloned
        /\ pc'[k] = "fail" => review'[k]
      BY <1>0, FailFacts DEF CloneFails
  <1>2. pc'[k] \in Running
      BY <1>1 DEF Running, PcStages
  <1>3. StageFits(k)'
      BY <1>1 DEF CloneFails, StageFits
  <1>4. CASE AcceptClone(job[k])
      BY <1>0, <1>1, <1>2, <1>3, <1>4, AcceptWork DEF CloneFails, Same
  <1>5. CASE UNCHANGED pveVars
      BY <1>0, <1>1, <1>2, <1>3, <1>5, MoveWork, Piece DEF CloneFails, Same, pveVars
  <1> QED BY <1>4, <1>5 DEF CloneFails
-----------------------------------------------------------------------------
(* Steps that change the address of the request.                           *)

LEMMA ProvisionHeld ==
  ASSUME IpamInv, NEW r \in Requests, NEW x \in Rows, Provision(r, x), NEW s \in Requests \ {r}
  PROVE  NoMoreHeld(s)
  <1>1. \A y \in Rows : alloc'[y] = alloc[y] \/ alloc'[y].req = r
      BY DEF Provision, ReserveFor, ConfirmFor, QuarantineFor, SetAddress, IpamInv, IpamTypeOK
  <1> QED BY <1>1 DEF NoMoreHeld, AllocatedAs, Existing

LEMMA AddressWork ==
  ASSUME ProvInv, NEW k \in Workers, pc[k] \in Running, Alone(k), WorkTypes',
         pc'[k] \in Running, job' = job,
         NEW r \in Requests, r = job[k],
         NEW x \in Rows, Provision(r, x),
         UNCHANGED <<queue, crashes, req, pveVars, free, owner>>,
         AllocatedAs(r, "ASSIGNED")' # {} => req[r].cloned,
         StageFits(k)'
  PROVE  ProvInv'
  <1>0. pc[k] \in PcStages
      BY DEF Running
  <1>p. ClaimFits(k) /\ RowFits(r) /\ WorldFits(r)
      BY <1>0, Piece
  <1>1. /\ queue' \subseteq Requests /\ req' \in [Requests -> RequestRow] /\ PveTypes'
        /\ (owner \in [Vmids -> Owners])' /\ CapacityInv'
      BY CapacityQuiet DEF ProvInv, ProvisioningTypeOK, Owners, PveTypes, pveVars
  <1>2. IpamInv' /\ \A s \in Requests \ {r} : NoMoreHeld(s)
      BY ProvisionStep, ProvisionHeld DEF ProvInv
  <1>3. AssignedIsOurs'
      <2>1. Frame({k}, r)
          BY <1>2, Sole DEF Frame, Alone, pveVars
      <2> QED BY <2>1, Handed DEF pveVars
  <1>4. ClaimFits(k)' /\ RowFits(r)'
      BY <1>p, ClaimKept DEF RowFits
  <1>5. WorldFits(r)'
      BY <1>p DEF ClaimFits, WorldFits, pveVars
  <1> QED BY <1>0, <1>1, <1>2, <1>3, <1>4, <1>5, WorkInv DEF pveVars

LEMMA ReserveIpInv ==
  ASSUME ProvInv, NEW k \in Workers, NEW x \in Rows, ReserveIp(k, x)
  PROVE  ProvInv'
  <1>0. pc[k] \in PcStages /\ pc[k] \in Running
      BY DEF ReserveIp, At, PcStages, Running
  <1>r. PICK r \in Requests : r = job[k]
      BY <1>0, Busy
  <1>d. req[r].done = 3
      BY <1>r, AtNumbers DEF ReserveIp, ProvInv
  <1>1. /\ WorkTypes' /\ Alone(k) /\ pc'[k] = "ip" /\ pc'[k] \in Running /\ pick'[k] = x
        /\ job' = job
      BY DEF ReserveIp, ProvInv, ProvisioningTypeOK, WorkTypes, Alone, PcStages, Running
  <1>2. StageFits(k)'
      BY <1>d, <1>r, <1>1 DEF ReserveIp, StageFits
  <1>3. CASE UNCHANGED ipamVars
      BY <1>0, <1>1, <1>2, <1>3, MoveWork, Piece DEF ReserveIp, Same, pveVars
  <1>4. CASE ReserveFor(r, x)
      <2>1. AllocatedAs(r, "ASSIGNED")' = {}
          BY <1>4 DEF ReserveFor, SetAddress, Existing, AllocatedAs, ProvInv, IpamInv, IpamTypeOK
      <2>2. Provision(r, x)
          BY <1>4 DEF Provision
      <2> QED BY <1>0, <1>1, <1>2, <1>r, <2>1, <2>2, AddressWork DEF ReserveIp, Same
  <1> QED BY <1>3, <1>4, <1>r DEF ReserveIp

LEMMA ConfirmIpInv ==
  ASSUME ProvInv, NEW k \in Workers, ConfirmIp(k)
  PROVE  ProvInv'
  <1>0. pc[k] \in PcStages /\ pc[k] \in Running
      BY DEF ConfirmIp, At, PcStages, Running
  <1>r. PICK r \in Requests : r = job[k]
      BY <1>0, Busy
  <1>d. req[r].done = 10 /\ req[r].cloned
      BY <1>r, AtNumbers DEF ConfirmIp, ProvInv, RowFits
  <1>1. WorkTypes' /\ Alone(k) /\ pc'[k] = "done" /\ pc'[k] \in Running /\ job' = job
      BY GotoFacts DEF ConfirmIp, PcStages, Running
  <1>2. StageFits(k)'
      BY <1>d, <1>r, <1>1 DEF ConfirmIp, StageFits
  <1>3. CASE UNCHANGED ipamVars
      BY <1>0, <1>1, <1>2, <1>3, MoveWork, Piece DEF ConfirmIp, Same, pveVars
  <1>4. CASE \E x \in Rows : ConfirmFor(r, x)
      <2>1. PICK x \in Rows : Provision(r, x)
          BY <1>4 DEF Provision
      <2> QED BY <1>0, <1>1, <1>2, <1>d, <1>r, <2>1, AddressWork DEF ConfirmIp, Same
  <1> QED BY <1>3, <1>4, <1>r DEF ConfirmIp

(* The rollback finds the one address of the request. *)
LEMMA FailQuarantinesInv ==
  ASSUME ProvInv, NEW k \in Workers, FailQuarantines(k)
  PROVE  ProvInv'
  <1>0. pc[k] = "quarantine" /\ pc[k] \in PcStages /\ pc[k] \in Running
      BY DEF FailQuarantines, PcStages, Running
  <1>r. PICK r \in Requests : r = job[k]
      BY <1>0, Busy
  <1>p. StageFits(k) /\ WorldFits(r)
      BY <1>0, <1>r, Piece
  <1>d. ~req[r].cloned /\ AllocatedAs(r, "ASSIGNED") = {}
      BY <1>0, <1>r, <1>p DEF StageFits, WorldFits
  <1>1. WorkTypes' /\ Alone(k) /\ pc'[k] = "capacity" /\ pc'[k] \in Running /\ job' = job
      BY GotoFacts DEF FailQuarantines, PcStages, Running
  <1>2. Existing(r)' = {} => StageFits(k)'
      BY <1>d, <1>r, <1>1 DEF FailQuarantines, StageFits
  <1>3. CASE UNCHANGED ipamVars /\ AllocatedAs(r, "RESERVED") = {}
      <2>1. Existing(r)' = {}
          BY <1>3, <1>d, HeldStutter DEF Existing
      <2> QED BY <1>0, <1>1, <1>2, <1>3, <2>1, MoveWork, Piece DEF FailQuarantines, Same, pveVars
  <1>4. CASE \E x \in Rows : QuarantineFor(r, x)
      <2>1. PICK x \in Rows : QuarantineFor(r, x)
          BY <1>4
      <2>2. Provision(r, x)
          BY <2>1 DEF Provision
      <2>3. /\ alloc'[x].status = "QUARANTINED" /\ alloc[x].req = r
            /\ \A y \in Rows \ {x} : alloc'[y] = alloc[y]
          BY <2>1 DEF QuarantineFor, SetAddress, AllocatedAs, ProvInv, IpamInv, IpamTypeOK
      <2>4. \A y \in Rows \ {x} : alloc[y].req # r
          BY <2>3, NoReqAssumption DEF ProvInv, IpamInv, OneAddressPerRequest
      <2>5. Existing(r)' = {} /\ AllocatedAs(r, "ASSIGNED")' = {}
          BY <2>3, <2>4 DEF Existing, AllocatedAs
      <2> QED BY <1>0, <1>1, <1>2, <1>r, <2>2, <2>5, AddressWork DEF FailQuarantines, Same
  <1> QED BY <1>3, <1>4, <1>r DEF FailQuarantines
-----------------------------------------------------------------------------
(* Steps that change the inventory.                                        *)

(* WAIT_CLONE was passed: the guest of the VMID is the request's own. *)
LEMMA AssignOrganizationInv ==
  ASSUME ProvInv, NEW k \in Workers, AssignOrganization(k)
  PROVE  ProvInv'
  <1>0. pc[k] \in PcStages /\ pc[k] \in Running
      BY DEF AssignOrganization, At, PcStages, Running
  <1>r. PICK r \in Requests : r = job[k]
      BY <1>0, Busy
  <1>p. ClaimFits(k) /\ RowFits(r) /\ WorldFits(r) /\ req[r] \in RequestRow
      BY <1>0, <1>r, Piece
  <1>d. /\ req[r].done = 9 /\ req[r].status = "RUNNING" /\ req[r].vmid \in Vmids
        /\ clone[r] = "ok" /\ guest[req[r].vmid] = r
      BY <1>0, <1>r, <1>p, AtNumbers DEF AssignOrganization, ProvInv, ClaimFits, RowFits, WorldFits
  <1>1. /\ req'[r] = [req[r] EXCEPT !.listed = TRUE]
        /\ \A s \in Requests \ {r} : req'[s] = req[s]
      BY <1>r DEF AssignOrganization, ProvInv, ProvisioningTypeOK
  <1>f. /\ req'[r].status = "RUNNING" /\ req'[r].done = 9 /\ req'[r].node = req[r].node
        /\ req'[r].cap = req[r].cap /\ req'[r].cloned = req[r].cloned
        /\ req'[r].secret = req[r].secret /\ req'[r].vmid = req[r].vmid
        /\ req'[r].runner = req[r].runner /\ req'[r].lease = req[r].lease
      BY <1>d, <1>p, <1>1 DEF RequestRow
  <1>2. req' \in [Requests -> RequestRow]
      <2>1. req'[r] \in RequestRow
          BY <1>p, <1>1 DEF RequestRow
      <2> QED BY <1>r, <2>1, <1>1 DEF AssignOrganization, ProvInv, ProvisioningTypeOK
  <1>3. Alone(k) /\ WorkTypes' /\ pc'[k] = "done" /\ pc'[k] \in Running /\ job' = job
      BY <1>1, <1>r, GotoFacts DEF AssignOrganization, PcStages, Running
  <1>4. CapacityInv' /\ PveTypes' /\ queue' \subseteq Requests
      BY <1>1, <1>f, CapacityQuiet
         DEF AssignOrganization, Same, ProvInv, ProvisioningTypeOK, PveTypes, pveVars
  <1>5. IpamInv' /\ \A s : NoMoreHeld(s)
      BY IpamStutter, HeldStutter DEF AssignOrganization, ProvInv
  <1>6. owner' = [owner EXCEPT ![req[r].vmid] = Org[r]]
      BY <1>r DEF AssignOrganization
  <1>7. (owner \in [Vmids -> Owners])'
      BY <1>6 DEF ProvInv, Owners
  <1>8. AssignedIsOurs'
      <2> SUFFICES ASSUME NEW v \in Vmids, owner'[v] \notin {Unlisted, Unassigned}
                   PROVE  \E s \in Requests : /\ guest'[v] = s /\ req'[s].vmid = v
                                             /\ Org[s] = owner'[v] /\ clone'[s] = "ok"
          BY DEF AssignedIsOurs
      <2>1. CASE v = req[r].vmid
          BY <1>6, <1>d, <1>f, <2>1 DEF AssignOrganization, pveVars, ProvInv
      <2>2. CASE v # req[r].vmid
          <3>1. owner'[v] = owner[v]
              BY <1>6, <2>2 DEF ProvInv
          <3>2. PICK s \in Requests : /\ guest[v] = s /\ req[s].vmid = v
                                      /\ Org[s] = owner[v] /\ clone[s] = "ok"
              BY <3>1 DEF ProvInv, AssignedIsOurs
          <3>3. req'[s].vmid = v
              BY <1>1, <1>f, <3>2
          <3> QED BY <3>1, <3>2, <3>3 DEF AssignOrganization, pveVars
      <2> QED BY <2>1, <2>2
  <1>9. ClaimFits(k)' /\ StageFits(k)'
      BY <1>0, <1>3, <1>f, <1>r, <1>d, ClaimKept DEF StageFits
  <1>10. RowFits(r)'
      BY <1>d, <1>p, <1>f DEF RowFits, Ended
  <1>11. WorldFits(r)'
      BY <1>d, <1>p, <1>f, HeldStutter DEF AssignOrganization, WorldFits, pveVars
  <1> QED BY <1>0, <1>r, <1>2, <1>3, <1>4, <1>5, <1>7, <1>8, <1>9, <1>10, <1>11, WorkInv
         DEF AssignOrganization, Same, pveVars

LEMMA RecordPartialInv ==
  ASSUME ProvInv, NEW k \in Workers, RecordPartial(k)
  PROVE  ProvInv'
  <1>0. pc[k] = "partial" /\ pc[k] \in PcStages
      BY DEF RecordPartial, PcStages
  <1>r. PICK r \in Requests : r = job[k]
      BY <1>0, Busy
  <1>p. ClaimFits(k) /\ RowFits(r) /\ WorldFits(r) /\ req[r] \in RequestRow
      BY <1>0, <1>r, Piece
  <1>d. req[r].status = "MANUAL_REVIEW"
      BY <1>0, <1>r, <1>p DEF ClaimFits
  <1>1. /\ req'[r] = req[r] \/ req'[r] = [req[r] EXCEPT !.listed = TRUE]
        /\ \A s \in Requests \ {r} : req'[s] = req[s]
      BY <1>r DEF RecordPartial, ProvInv, ProvisioningTypeOK
  <1>f. /\ req'[r].status = req[r].status /\ req'[r].done = req[r].done
        /\ req'[r].node = req[r].node
        /\ req'[r].cap = req[r].cap /\ req'[r].cloned = req[r].cloned
        /\ req'[r].secret = req[r].secret /\ req'[r].vmid = req[r].vmid
      BY <1>p, <1>1 DEF RequestRow
  <1>2. req' \in [Requests -> RequestRow]
      <2>1. req'[r] \in RequestRow
          BY <1>p, <1>1 DEF RequestRow
      <2> QED BY <1>r, <2>1, <1>1 DEF RecordPartial, ProvInv, ProvisioningTypeOK
  <1>3. Alone(k) /\ WorkTypes' /\ job'[k] = NoReq /\ ClaimFits(k)' /\ StageFits(k)'
      BY <1>1, <1>r, IdleFacts DEF RecordPartial
  <1>4. CapacityInv' /\ PveTypes' /\ queue' \subseteq Requests
      BY <1>1, <1>f, CapacityQuiet
         DEF RecordPartial, Same, ProvInv, ProvisioningTypeOK, PveTypes, pveVars
  <1>5. IpamInv' /\ \A s : NoMoreHeld(s)
      BY IpamStutter, HeldStutter DEF RecordPartial, ProvInv
  <1>6. \/ owner' = owner
        \/ owner' = [owner EXCEPT ![req[r].vmid] = IF @ = Unlisted THEN Unassigned ELSE @]
      BY <1>r DEF RecordPartial
  <1>7. /\ (owner \in [Vmids -> Owners])'
        /\ \A v \in Vmids : owner'[v] = owner[v] \/ owner'[v] \in {Unlisted, Unassigned}
      BY <1>6 DEF ProvInv, Owners
  <1>8. AssignedIsOurs'
      <2>1. Frame({k}, r)
          BY <1>1, <1>3, <1>5, <1>r, Sole DEF Frame, Alone, RecordPartial, pveVars
      <2> QED BY <2>1, <1>7, <1>f, Handed DEF RecordPartial, pveVars
  <1>9. RowFits(r)'
      BY <1>d, <1>p, <1>f DEF RowFits
  <1>10. WorldFits(r)'
      BY <1>d, <1>p, <1>f, HeldStutter DEF RecordPartial, WorldFits, pveVars
  <1> QED BY <1>0, <1>r, <1>2, <1>3, <1>4, <1>5, <1>7, <1>8, <1>9, <1>10, WorkInv
         DEF RecordPartial, Same, pveVars
-----------------------------------------------------------------------------
(* Steps outside a claim.                                                  *)

LEMMA Unclaimed ==
  ASSUME ProvInv, NEW r \in Requests, req[r].status = "none", NEW j \in Workers, job[j] = r
  PROVE  FALSE
  <1>1. pc[j] \in PcStages
      BY NoReqAssumption DEF ProvInv, ProvisioningTypeOK, ClaimFits
  <1>2. pc[j] \in Running \/ pc[j] = "partial"
      BY <1>1 DEF Running
  <1> QED BY <1>2 DEF ProvInv, ClaimFits

LEMMA ClaimInv ==
  ASSUME ProvInv, NEW k \in Workers, NEW r \in queue, Claim(k, r), ~InHand(r)
  PROVE  ProvInv'
  <1>0. r \in Requests
      BY DEF ProvInv, ProvisioningTypeOK
  <1>p. RowFits(r) /\ WorldFits(r) /\ req[r] \in RequestRow
      BY <1>0 DEF ProvInv, ProvisioningTypeOK
  <1>d. req[r].status \in {"QUEUED", "RUNNING"}
      BY DEF Claim, Claimable
  <1>1. /\ req'[r] = [req[r] EXCEPT !.status = "RUNNING", !.runner = k, !.lease = "fresh"]
        /\ \A s \in Requests \ {r} : req'[s] = req[s]
      BY <1>0 DEF Claim, ProvInv, ProvisioningTypeOK
  <1>f. /\ req'[r].status = "RUNNING" /\ req'[r].done = req[r].done /\ req'[r].node = req[r].node
        /\ req'[r].cap = req[r].cap /\ req'[r].cloned = req[r].cloned
        /\ req'[r].secret = req[r].secret /\ req'[r].vmid = req[r].vmid
        /\ req'[r].runner = k /\ req'[r].lease = "fresh"
      BY <1>p, <1>1 DEF RequestRow
  <1>2. req' \in [Requests -> RequestRow]
      <2>1. req'[r] \in RequestRow
          BY <1>p, <1>1 DEF RequestRow
      <2> QED BY <1>0, <2>1, <1>1 DEF Claim, ProvInv, ProvisioningTypeOK
  <1>3. /\ pc'[k] = "start" /\ job'[k] = r
        /\ \A j \in Workers \ {k} : pc'[j] = pc[j] /\ job'[j] = job[j]
      BY DEF Claim, ProvInv, ProvisioningTypeOK
  <1>4. Frame({k}, r)
      BY <1>0, <1>1, <1>3, HeldStutter DEF Claim, Frame, InHand, pveVars
  <1>5. CapacityInv'
      BY <1>1, <1>f, CapacityQuiet DEF Claim, ProvInv
  <1>6. ProvisioningTypeOK'
      BY <1>0, <1>2 DEF Claim, ProvInv, ProvisioningTypeOK, pveVars, PcStages
  <1>7. IpamInv' /\ (owner \in [Vmids -> Owners])'
      BY IpamStutter DEF Claim, ProvInv, Owners
  <1>8. AssignedIsOurs'
      BY <1>4, <1>f, Handed DEF Claim, pveVars
  <1>9. ClaimFits(k)' /\ StageFits(k)'
      BY <1>0, <1>3, <1>f DEF ClaimFits, StageFits, PcStages, Running
  <1>10. RowFits(r)'
      BY <1>d, <1>p, <1>f DEF RowFits, Ended
  <1>11. WorldFits(r)'
      BY <1>d, <1>p, <1>f, HeldStutter DEF Claim, WorldFits, pveVars
  <1> QED BY <1>3, <1>4, <1>5, <1>6, <1>7, <1>8, <1>9, <1>10, <1>11, StepInv

(* A request changes that no worker runs, and nothing else does. *)
LEMMA RowAlone ==
  ASSUME ProvInv, NEW r \in Requests, \A j \in Workers : job[j] # r,
         \A s \in Requests \ {r} : req'[s] = req[s], req' \in [Requests -> RequestRow],
         queue' \subseteq Requests,
         UNCHANGED <<ipamVars, workVars, pveVars, free, owner, crashes>>,
         clone[r] = "ok" => req'[r].vmid = req[r].vmid,
         CapacityInv', RowFits(r)', WorldFits(r)'
  PROVE  ProvInv'
  <1>1. Frame({}, r)
      BY HeldStutter DEF Frame, pveVars, workVars
  <1>2. ProvisioningTypeOK'
      BY DEF ProvInv, ProvisioningTypeOK, pveVars, workVars
  <1>3. IpamInv' /\ (owner \in [Vmids -> Owners])'
      BY IpamStutter DEF ProvInv, Owners
  <1>4. AssignedIsOurs'
      BY <1>1, Handed DEF pveVars
  <1> QED BY <1>1, <1>2, <1>3, <1>4, StepInv

LEMMA CreateInv ==
  ASSUME ProvInv, NEW r \in Requests, NEW sent \in BOOLEAN, Create(r, sent)
  PROVE  ProvInv'
  <1>p. WorldFits(r) /\ req[r] = NoRequest
      BY DEF Create, ProvInv, RowFits
  <1>1. /\ req'[r] = [NoRequest EXCEPT !.status = "QUEUED", !.node = WantNode[r],
                                       !.vmid = WantVmid[r], !.secret = Windows[r]]
        /\ \A s \in Requests \ {r} : req'[s] = req[s]
      BY <1>p DEF Create, ProvInv, ProvisioningTypeOK
  <1>f. /\ req'[r].status = "QUEUED" /\ req'[r].done = 0
        /\ req'[r].cap = FALSE /\ req'[r].cloned = FALSE
        /\ req[r].cap = FALSE /\ req[r].cloned = FALSE
      BY <1>1, <1>p DEF NoRequest
  <1>2. req' \in [Requests -> RequestRow]
      <2>1. req'[r] \in RequestRow
          <3>1. 0 \in 0 .. Len(Steps)
              BY StepNumbers
          <3>2. NoRequest \in RequestRow
              BY <3>1 DEF RequestRow, NoRequest
          <3>3. /\ WantNode[r] \in Nodes \cup {NoNode} /\ WantVmid[r] \in Vmids \cup {NoVmid}
                /\ Windows[r] \in BOOLEAN
              BY ProvisioningAssumption
          <3> QED BY <1>1, <3>2, <3>3 DEF RequestRow
      <2> QED BY <2>1, <1>1 DEF Create, ProvInv, ProvisioningTypeOK
  <1>3. queue' \subseteq Requests
      BY DEF Create, ProvInv, ProvisioningTypeOK
  <1>4. CapacityInv'
      BY <1>1, <1>f, CapacityQuiet DEF Create, ProvInv
  <1>5. RowFits(r)'
      BY <1>f DEF RowFits, Ended
  <1>6. WorldFits(r)' /\ clone[r] # "ok"
      BY <1>f, <1>p, HeldStutter DEF Create, WorldFits, pveVars
  <1>7. \A j \in Workers : job[j] # r
      BY Unclaimed DEF Create
  <1> QED BY <1>1, <1>2, <1>3, <1>4, <1>5, <1>6, <1>7, RowAlone DEF Create

LEMMA LeaseExpiresInv ==
  ASSUME ProvInv, NEW r \in Requests, LeaseExpires(r)
  PROVE  ProvInv'
  <1>p. RowFits(r) /\ WorldFits(r) /\ req[r] \in RequestRow
      BY DEF ProvInv, ProvisioningTypeOK
  <1>d. req[r].status # "none"
      BY <1>p DEF LeaseExpires, RowFits, NoRequest
  <1>1. /\ req'[r] = [req[r] EXCEPT !.lease = "expired"]
        /\ \A s \in Requests \ {r} : req'[s] = req[s]
      BY DEF LeaseExpires, ProvInv, ProvisioningTypeOK
  <1>f. /\ req'[r].status = req[r].status /\ req'[r].done = req[r].done
        /\ req'[r].node = req[r].node
        /\ req'[r].cap = req[r].cap /\ req'[r].cloned = req[r].cloned
        /\ req'[r].secret = req[r].secret /\ req'[r].vmid = req[r].vmid
      BY <1>p, <1>1 DEF RequestRow
  <1>2. req' \in [Requests -> RequestRow]
      <2>1. req'[r] \in RequestRow
          BY <1>p, <1>1 DEF RequestRow
      <2> QED BY <2>1, <1>1 DEF LeaseExpires, ProvInv, ProvisioningTypeOK
  <1>3. ProvisioningTypeOK'
      BY <1>2 DEF LeaseExpires, ProvInv, ProvisioningTypeOK, workVars, pveVars
  <1>4. CapacityInv'
      BY <1>1, <1>f, CapacityQuiet DEF LeaseExpires, ProvInv
  <1>5. RowFits(r)'
      BY <1>d, <1>f, <1>p DEF RowFits
  <1>6. WorldFits(r)'
      BY <1>f, <1>p, HeldStutter DEF LeaseExpires, WorldFits, pveVars
  <1> DEFINE K == {k \in Workers : job[k] = r}
  <1>7. Frame(K, r)
      BY <1>1, HeldStutter DEF LeaseExpires, Frame, workVars, pveVars
  <1>8. IpamInv' /\ (owner \in [Vmids -> Owners])'
      BY IpamStutter DEF LeaseExpires, ProvInv, Owners
  <1>9. AssignedIsOurs'
      BY <1>7, <1>f, Handed DEF LeaseExpires, pveVars
  <1>10. ASSUME NEW k \in K PROVE ClaimFits(k)' /\ StageFits(k)' /\ job'[k] \in {r, NoReq}
      <2>1. ClaimFits(k) /\ StageFits(k) /\ job[k] = r
          BY DEF ProvInv
      <2>2. req'[r].runner = req[r].runner
          BY <1>1, <1>p DEF RequestRow
      <2>3. ClaimFits(k)'
          BY <2>1, <2>2, <1>f DEF ClaimFits, LeaseExpires, workVars
      <2>4. StageFits(k)'
          BY <2>1, <1>f, HeldStutter DEF StageFits, LeaseExpires, workVars, pveVars
      <2> QED BY <2>1, <2>3, <2>4 DEF LeaseExpires, workVars
  <1>11. \A j, k \in K : job'[j] = job'[k] /\ job'[j] # NoReq => j = k
      BY DEF LeaseExpires, workVars, ProvInv, OneWorker
  <1> HIDE DEF K
  <1>12. K \in SUBSET Workers
      BY DEF K
  <1> QED BY <1>3, <1>4, <1>5, <1>6, <1>7, <1>8, <1>9, <1>10, <1>11, <1>12, StepInv

(* A clone that runs was asked for, so that its VMID is the request's own  *)
(* and no worker has recorded its end.                                     *)
LEMMA CloneStopsInv ==
  ASSUME ProvInv, NEW r \in Requests, NEW s \in {"ok", "failed"}, CloneStops(r, s)
  PROVE  ProvInv'
  <1> DEFINE K == {k \in Workers : job[k] = r}
  <1>p. RowFits(r) /\ WorldFits(r) /\ req[r] \in RequestRow
      BY DEF ProvInv, ProvisioningTypeOK
  <1>d. /\ clone[r] = "running" /\ req[r].cloned /\ req[r].done \in {4, 5}
        /\ req[r].vmid \in Vmids /\ guest[req[r].vmid] = r
      BY <1>p, StepNumbers DEF CloneStops, RowFits, WorldFits, RequestRow
  <1>1. /\ clone'[r] = s /\ \A t \in Requests \ {r} : clone'[t] = clone[t]
        /\ \A v \in Vmids : guest'[v] = guest[v] \/ (v = req[r].vmid /\ s = "failed")
        /\ req' = req
      BY DEF CloneStops, ProvInv, ProvisioningTypeOK
  <1>2. Frame(K, r)
      BY <1>1, <1>d, HeldStutter DEF CloneStops, Frame, workVars
  <1>3. ProvisioningTypeOK'
      BY <1>d DEF CloneStops, ProvInv, ProvisioningTypeOK, workVars
  <1>4. IpamInv' /\ (owner \in [Vmids -> Owners])' /\ CapacityInv'
      BY IpamStutter, CapacityQuiet DEF CloneStops, ProvInv, Owners
  <1>5. AssignedIsOurs'
      BY <1>2, <1>d, Handed DEF CloneStops
  <1>6. ASSUME NEW k \in K PROVE ClaimFits(k)' /\ StageFits(k)' /\ job'[k] \in {r, NoReq}
      <2>1. ClaimFits(k) /\ StageFits(k) /\ job[k] = r
          BY DEF ProvInv
      <2>2. ClaimFits(k)'
          BY <2>1, <1>1 DEF ClaimFits, CloneStops, workVars
      <2>3. StageFits(k)'
          BY <2>1, <1>1, <1>d, HeldStutter DEF StageFits, CloneStops, workVars
      <2> QED BY <2>1, <2>2, <2>3 DEF CloneStops, workVars
  <1>7. \A j, k \in K : job'[j] = job'[k] /\ job'[j] # NoReq => j = k
      BY DEF CloneStops, workVars, ProvInv, OneWorker
  <1>8. RowFits(r)'
      BY <1>1, <1>p DEF RowFits
  <1>9. WorldFits(r)'
      BY <1>1, <1>d, <1>p, HeldStutter DEF CloneStops, WorldFits
  <1> QED BY <1>2, <1>3, <1>4, <1>5, <1>6, <1>7, <1>8, <1>9, StepInv

(* No request changes; the workers of K have none afterwards. *)
LEMMA QuietInv ==
  ASSUME ProvInv, NEW K \in SUBSET Workers,
         \A j \in Workers \ K :
           pc'[j] = pc[j] /\ job'[j] = job[j] /\ pick'[j] = pick[j] /\ review'[j] = review[j],
         \A k \in K : pc'[k] \in {"down", "idle"} /\ job'[k] = NoReq,
         WorkTypes', PveTypes', queue' \subseteq Requests, crashes' \in 0 .. MaxCrashes,
         UNCHANGED <<req, free, clone>>,
         \A v \in Vmids : guest[v] \in Requests => guest'[v] = guest[v],
         (owner \in [Vmids -> Owners])',
         \A v \in Vmids : owner'[v] = owner[v] \/ owner'[v] \in {Unlisted, Unassigned},
         IpamInv', \A s \in Requests : NoMoreHeld(s)
  PROVE  ProvInv'
  <1>1. Frame(K, NoReq)
      BY NoReqAssumption DEF Frame
  <1>2. ProvisioningTypeOK' /\ CapacityInv'
      BY CapacityQuiet DEF ProvInv, ProvisioningTypeOK, WorkTypes, PveTypes
  <1>3. AssignedIsOurs'
      BY <1>1, NoReqAssumption, Handed
  <1>4. \A k \in K : ClaimFits(k)' /\ StageFits(k)'
      BY DEF ClaimFits, StageFits, PcStages, Running
  <1> QED BY <1>1, <1>2, <1>3, <1>4, NoReqAssumption, StepInv

(* ... and neither do PVE, the addresses and the owners. *)
LEMMA WorkersOnly ==
  ASSUME ProvInv, NEW K \in SUBSET Workers,
         \A j \in Workers \ K :
           pc'[j] = pc[j] /\ job'[j] = job[j] /\ pick'[j] = pick[j] /\ review'[j] = review[j],
         \A k \in K : pc'[k] \in {"down", "idle"} /\ job'[k] = NoReq,
         WorkTypes', queue' \subseteq Requests, crashes' \in 0 .. MaxCrashes,
         UNCHANGED <<ipamVars, req, free, pveVars, owner>>
  PROVE  ProvInv'
  <1>1. PveTypes' /\ (owner \in [Vmids -> Owners])'
      BY DEF ProvInv, ProvisioningTypeOK, PveTypes, pveVars, Owners
  <1>2. IpamInv' /\ \A s \in Requests : NoMoreHeld(s)
      BY IpamStutter, HeldStutter DEF ProvInv
  <1> QED BY <1>1, <1>2, QuietInv DEF pveVars

LEMMA OutageInv ==
  ASSUME ProvInv, NEW k \in Workers, Outage(k)
  PROVE  ProvInv'
  <1> USE DEF ProvInv, ProvisioningTypeOK, WorkTypes
  <1>1. CASE Crash(k)
      <2>1. /\ pc'[k] = "down" /\ job'[k] = NoReq
            /\ \A j \in Workers \ {k} : /\ pc'[j] = pc[j] /\ job'[j] = job[j]
                                        /\ pick'[j] = pick[j] /\ review'[j] = review[j]
          BY <1>1 DEF Crash
      <2>2. WorkTypes' /\ queue' \subseteq Requests
          BY <1>1 DEF Crash
      <2>3. crashes' \in 0 .. MaxCrashes
          BY <1>1, ProvisioningAssumption DEF Crash
      <2>4. ProvInv /\ UNCHANGED <<ipamVars, req, free, pveVars, owner>>
          BY <1>1 DEF Crash
      <2>5. {k} \in SUBSET Workers /\ \A i \in {k} : pc'[i] \in {"down", "idle"} /\ job'[i] = NoReq
          BY <2>1
      <2> HIDE DEF ProvInv, ProvisioningTypeOK, WorkTypes
      <2> QED BY <2>1, <2>2, <2>3, <2>4, <2>5, WorkersOnly
  <1>2. CASE Restart(k)
      <2>1. /\ pc'[k] = "idle" /\ job'[k] = NoReq
            /\ \A j \in Workers \ {k} : /\ pc'[j] = pc[j] /\ job'[j] = job[j]
                                        /\ pick'[j] = pick[j] /\ review'[j] = review[j]
          BY <1>2 DEF Restart, ClaimFits
      <2>2. WorkTypes' /\ queue' \subseteq Requests /\ crashes' \in 0 .. MaxCrashes
          BY <1>2 DEF Restart
      <2>4. ProvInv /\ UNCHANGED <<ipamVars, req, free, pveVars, owner>>
          BY <1>2 DEF Restart
      <2>5. {k} \in SUBSET Workers /\ \A i \in {k} : pc'[i] \in {"down", "idle"} /\ job'[i] = NoReq
          BY <2>1
      <2> HIDE DEF ProvInv, ProvisioningTypeOK, WorkTypes
      <2> QED BY <2>1, <2>2, <2>4, <2>5, WorkersOnly
  <1>3. CASE Redeliver(k)
      <2>1. \A j \in Workers \ {} : /\ pc'[j] = pc[j] /\ job'[j] = job[j]
                                    /\ pick'[j] = pick[j] /\ review'[j] = review[j]
          BY <1>3 DEF Redeliver, workVars
      <2>2. WorkTypes' /\ queue' \subseteq Requests /\ crashes' \in 0 .. MaxCrashes
          BY <1>3 DEF Redeliver, workVars
      <2>4. ProvInv /\ UNCHANGED <<ipamVars, req, free, pveVars, owner>>
          BY <1>3 DEF Redeliver
      <2> HIDE DEF ProvInv, ProvisioningTypeOK, WorkTypes
      <2>5. {} \in SUBSET Workers /\ \A i \in {} : pc'[i] \in {"down", "idle"} /\ job'[i] = NoReq
          OBVIOUS
      <2> QED BY <2>1, <2>2, <2>4, <2>5, WorkersOnly
  <1> QED BY <1>1, <1>2, <1>3 DEF Outage

LEMMA ClaimNothingInv ==
  ASSUME ProvInv, NEW k \in Workers, NEW r \in queue, ClaimNothing(k, r)
  PROVE  ProvInv'
  <1>1. WorkTypes' /\ queue' \subseteq Requests /\ crashes' \in 0 .. MaxCrashes
      BY DEF ClaimNothing, workVars, ProvInv, ProvisioningTypeOK, WorkTypes
  <1>2. \A j \in Workers \ {} : /\ pc'[j] = pc[j] /\ job'[j] = job[j]
                                /\ pick'[j] = pick[j] /\ review'[j] = review[j]
      BY DEF ClaimNothing, workVars
  <1>e. {} \in SUBSET Workers /\ \A i \in {} : pc'[i] \in {"down", "idle"} /\ job'[i] = NoReq
      OBVIOUS
  <1> QED BY <1>1, <1>2, <1>e, WorkersOnly DEF ClaimNothing

LEMMA GuestInv ==
  ASSUME ProvInv, NEW v \in Vmids, OutsiderCreates(v) \/ ImportGuest(v)
  PROVE  ProvInv'
  <1>1. /\ WorkTypes' /\ queue' \subseteq Requests /\ crashes' \in 0 .. MaxCrashes
        /\ UNCHANGED <<req, free, clone>>
      BY DEF OutsiderCreates, ImportGuest, workVars, pveVars, ProvInv, ProvisioningTypeOK, WorkTypes
  <1>2. \A j \in Workers \ {} : /\ pc'[j] = pc[j] /\ job'[j] = job[j]
                                /\ pick'[j] = pick[j] /\ review'[j] = review[j]
      BY DEF OutsiderCreates, ImportGuest, workVars
  <1>3. PveTypes' /\ \A w \in Vmids : guest[w] \in Requests => guest'[w] = guest[w]
      BY NoReqAssumption
         DEF OutsiderCreates, ImportGuest, pveVars, PveTypes, ProvInv, ProvisioningTypeOK
  <1>4. /\ (owner \in [Vmids -> Owners])'
        /\ \A w \in Vmids : owner'[w] = owner[w] \/ owner'[w] \in {Unlisted, Unassigned}
      BY DEF OutsiderCreates, ImportGuest, ProvInv, Owners
  <1>5. IpamInv' /\ \A s \in Requests : NoMoreHeld(s)
      BY IpamStutter, HeldStutter DEF OutsiderCreates, ImportGuest, ProvInv
  <1>e. {} \in SUBSET Workers /\ \A i \in {} : pc'[i] \in {"down", "idle"} /\ job'[i] = NoReq
      OBVIOUS
  <1> QED BY <1>1, <1>2, <1>3, <1>4, <1>5, <1>e, QuietInv

LEMMA AdministerIpInv ==
  ASSUME ProvInv, NEW x \in Rows, AdministerIp(x)
  PROVE  ProvInv'
  <1>1. IpamInv'
      BY AdministratorStep DEF AdministerIp, ProvInv
  <1>2. ASSUME NEW s \in Requests PROVE NoMoreHeld(s)
      <2>1. \A y \in Rows : \/ alloc'[y] = alloc[y]
                            \/ alloc'[y].req = NoReq
                            \/ alloc'[y].status = "QUARANTINED"
          BY DEF AdministerIp, AdministerAddress, ReserveAddress, Allocate, Release, ApproveRelease,
                 QuarantineElapses, SetAddress, NoAlloc, ProvInv, IpamInv, IpamTypeOK
      <2> QED BY <2>1, NoReqAssumption DEF NoMoreHeld, AllocatedAs, Existing
  <1>3. WorkTypes' /\ queue' \subseteq Requests /\ crashes' \in 0 .. MaxCrashes /\ PveTypes'
      BY DEF AdministerIp, provVars, ProvInv, ProvisioningTypeOK, WorkTypes, PveTypes
  <1>4. (owner \in [Vmids -> Owners])'
      BY DEF AdministerIp, provVars, ProvInv, Owners
  <1>5. \A j \in Workers \ {} : /\ pc'[j] = pc[j] /\ job'[j] = job[j]
                                /\ pick'[j] = pick[j] /\ review'[j] = review[j]
      BY DEF AdministerIp, provVars
  <1>e. {} \in SUBSET Workers /\ \A i \in {} : pc'[i] \in {"down", "idle"} /\ job'[i] = NoReq
      OBVIOUS
  <1> QED BY <1>1, <1>2, <1>3, <1>4, <1>5, <1>e, QuietInv DEF AdministerIp, provVars
-----------------------------------------------------------------------------
(* The invariant.                                                          *)

LEMMA ProvInit == Init => ProvInv
  <1> SUFFICES ASSUME Init PROVE ProvInv
      OBVIOUS
  <1>1. 0 \in 0 .. Len(Steps) /\ NoRequest \in RequestRow
      <2>1. 0 \in 0 .. Len(Steps)
          BY StepNumbers
      <2> QED BY <2>1 DEF RequestRow, NoRequest
  <1>2. ProvisioningTypeOK
      <2>1. \A n \in Nodes : free[n] \in 0 .. Capacity[n]
          BY ProvisioningAssumption DEF Init
      <2>2. crashes \in 0 .. MaxCrashes
          BY ProvisioningAssumption DEF Init
      <2> QED BY <1>1, <2>1, <2>2 DEF Init, ProvisioningTypeOK
  <1>3. owner \in [Vmids -> Owners]
      BY DEF Init, Owners
  <1>4. IpamInv
      <2>1. IpamTypeOK
          BY ProvisioningAssumption DEF Init, AddressesInit, IpamTypeOK, Scopes, States, NoAlloc
      <2>2. PoolsDisjoint
          BY PoolNetAssumption DEF Init, PoolsDisjoint
      <2>3. \A x \in Rows : addr[x] = "none" /\ alloc[x] = NoAlloc
          BY DEF Init, AddressesInit
      <2>4. RowsInPool
          BY <2>3 DEF RowsInPool, Rows, InUse
      <2>5. AllocationMatchesAddress /\ OneAddressPerRequest
          BY <2>3 DEF AllocationMatchesAddress, OneAddressPerRequest, NoAlloc, InUse
      <2> QED BY <2>1, <2>2, <2>4, <2>5 DEF IpamInv
  <1>5. CapacityInv
      <2>1. \A n \in Nodes : Shares(n) = {}
          BY DEF Shares, Init, NoRequest
      <2>2. free \in [Nodes -> Nat]
          BY ProvisioningAssumption DEF Init
      <2>3. \A n \in Nodes : IsFiniteSet(Shares(n)) /\ Cardinality(Shares(n)) = 0
          BY <2>1, FS_EmptySet
      <2>4. \A n \in Nodes : free[n] + Cardinality(Shares(n)) = Capacity[n]
          BY <2>2, <2>3 DEF Init
      <2> QED BY <2>2, <2>3, <2>4 DEF CapacityInv, CapacityConserved, Shares
  <1>6. \A k \in Workers : ClaimFits(k) /\ StageFits(k)
      BY DEF Init, ClaimFits, StageFits, PcStages, Running
  <1>7. ASSUME NEW r \in Requests PROVE RowFits(r) /\ WorldFits(r)
      <2>1. req[r] = NoRequest /\ clone[r] = "none"
          BY DEF Init
      <2>2. AllocatedAs(r, "ASSIGNED") = {}
          BY DEF Init, AddressesInit, AllocatedAs, NoAlloc
      <2> QED BY <2>1, <2>2 DEF RowFits, WorldFits, NoRequest, Ended
  <1>8. AssignedIsOurs /\ OneWorker
      BY DEF Init, AssignedIsOurs, OneWorker
  <1> QED BY <1>2, <1>3, <1>4, <1>5, <1>6, <1>7, <1>8 DEF ProvInv

LEMMA WorkStepInv ==
  ASSUME ProvInv, NEW k \in Workers, Work(k)
  PROVE  ProvInv'
  <1>1. CASE Reserving(k)
      BY <1>1, SelectTargetInv, ChooseVmidInv, CommitVmidInv, ReserveIpInv, RecordIpInv
         DEF Reserving
  <1>2. CASE Cloning(k)
      BY <1>2, FullCloneInv, ResumesInv, CloneReturnsUpidInv, RecordUpidInv, WaitCloneInv
         DEF Cloning
  <1>3. CASE Finishing(k)
      BY <1>3, ConfigureNetworkInv, ConfigureIdentityInv, AssignOrganizationInv, ConfirmIpInv,
         SucceedInv DEF Finishing
  <1>4. CASE Failing(k)
      BY <1>4, StepFailsInv, CloneFailsInv, RevokedInv, FailQuarantinesInv, RollbackFailsInv,
         FailReleasesInv, FailEndsInv, RecordPartialInv, BreaksInv DEF Failing
  <1> QED BY <1>1, <1>2, <1>3, <1>4, BeginInv, StepDoneInv, CheckInv DEF Work

LEMMA ProvStutter ==
  ASSUME ProvInv, UNCHANGED vars
  PROVE  ProvInv'
  <1>1. WorkTypes' /\ queue' \subseteq Requests /\ crashes' \in 0 .. MaxCrashes
      BY DEF vars, provVars, ProvInv, ProvisioningTypeOK, WorkTypes
  <1>2. \A j \in Workers \ {} : /\ pc'[j] = pc[j] /\ job'[j] = job[j]
                                /\ pick'[j] = pick[j] /\ review'[j] = review[j]
      BY DEF vars, provVars
  <1>e. {} \in SUBSET Workers /\ \A i \in {} : pc'[i] \in {"down", "idle"} /\ job'[i] = NoReq
      OBVIOUS
  <1> QED BY <1>1, <1>2, <1>e, WorkersOnly DEF vars, provVars, pveVars

LEMMA ProvNext ==
  ASSUME ProvInv, [Next]_vars, Undoubled'
  PROVE  ProvInv'
  <1>1. ASSUME NEW r \in Requests, Requested(r) PROVE ProvInv'
      BY <1>1, CreateInv DEF Requested
  <1>2. ASSUME NEW k \in Workers, Receive(k) PROVE ProvInv'
      <2>1. ASSUME NEW r \in queue, Claim(k, r) PROVE ~InHand(r)
          BY <2>1 DEF Claim, Undoubled
      <2> QED BY <1>2, <2>1, ClaimInv, ClaimNothingInv DEF Receive
  <1> QED BY <1>1, <1>2, LeaseExpiresInv, CloneStopsInv, WorkStepInv, OutageInv, GuestInv,
             AdministerIpInv, ProvStutter DEF Next

LEMMA DoubledGrows ==
  ASSUME [Next]_vars
  PROVE  doubled \subseteq doubled'
  <1> USE DEF Same, histVars
  <1>1. ASSUME NEW k \in Workers, Work(k) PROVE doubled' = doubled
      <2>1. Begin(k) \/ StepDone(k) \/ Check(k) => doubled' = doubled
          BY DEF Begin, StepDone, Check
      <2>2. Reserving(k) => doubled' = doubled
          BY DEF Reserving, SelectTarget, ChooseVmid, CommitVmid, ReserveIp, RecordIp
      <2>3. Cloning(k) => doubled' = doubled
          BY DEF Cloning, FullClone, FullCloneResumes, CloneReturnsUpid, RecordUpid, WaitClone
      <2>4. Finishing(k) => doubled' = doubled
          BY DEF Finishing, ConfigureNetwork, ConfigureIdentity, AssignOrganization, ConfirmIp, Succeed
      <2>5. Failing(k) => doubled' = doubled
          BY DEF Failing, StepFails, CloneFails, Revoked, FailQuarantines, RollbackFails,
                 FailReleases, FailEnds, RecordPartial, Breaks
      <2> QED BY <1>1, <2>1, <2>2, <2>3, <2>4, <2>5 DEF Work
  <1>2. ASSUME NEW k \in Workers, Receive(k) \/ Outage(k) PROVE doubled \subseteq doubled'
      BY <1>2 DEF Receive, Claim, ClaimNothing, Outage, Crash, Restart, Redeliver
  <1>3. ASSUME NEW r \in Requests,
               Requested(r) \/ LeaseExpires(r) \/ \E s \in {"ok", "failed"} : CloneStops(r, s)
        PROVE  doubled' = doubled
      BY <1>3 DEF Requested, Create, LeaseExpires, CloneStops
  <1>4. ASSUME NEW v \in Vmids, OutsiderCreates(v) \/ ImportGuest(v) PROVE doubled' = doubled
      BY <1>4 DEF OutsiderCreates, ImportGuest
  <1>5. ASSUME NEW x \in Rows, AdministerIp(x) PROVE doubled' = doubled
      BY <1>5 DEF AdministerIp, provVars
  <1>6. UNCHANGED vars => doubled' = doubled
      BY DEF vars, provVars
  <1> QED BY <1>1, <1>2, <1>3, <1>4, <1>5, <1>6 DEF Next

(* The inductive invariant of provisioning. *)
THEOREM ProvisioningInvariance == Spec => [](Undoubled => ProvInv)
  <1>1. (Undoubled => ProvInv) /\ [Next]_vars => (Undoubled => ProvInv)'
      BY DoubledGrows, ProvNext DEF Undoubled
  <1> QED BY <1>1, ProvInit, PTL DEF Spec

(* Every variable of provisioning keeps its type; in particular the free   *)
(* capacity of a node stays within its bounds.                             *)
THEOREM ProvisioningTypes == Spec => [](Undoubled => ProvisioningTypeOK)
  <1>1. ProvInv => ProvisioningTypeOK
      BY DEF ProvInv
  <1> QED BY <1>1, ProvisioningInvariance, PTL

(* The runner takes a node's capacity and gives it back in transactions of *)
(* their own, with a flag in the request; the sum is kept over crashes and *)
(* resumed steps, as long as no request is claimed from under a worker.    *)
THEOREM CapacityIsConserved == Spec => [](Undoubled => CapacityConserved)
  <1>1. ProvInv => CapacityConserved
      BY DEF ProvInv, CapacityInv
  <1> QED BY <1>1, ProvisioningInvariance, PTL

(* A customer is handed only guests that a request of its organization     *)
(* cloned, whoever else creates guests in PVE meanwhile, as long as no     *)
(* request is claimed from under a worker.                                 *)
THEOREM AssignedCorrect == Spec => [](Undoubled => AssignedIsOurs)
  <1>1. ProvInv => AssignedIsOurs
      BY DEF ProvInv
  <1> QED BY <1>1, ProvisioningInvariance, PTL

(* _fail_request ends a request as FAILED only when nothing of it is left, *)
(* as long as no request is claimed from under a worker.                   *)
THEOREM FailedIsClean == Spec => [](Undoubled => FailedLeavesNothing)
  <1>1. ASSUME ProvInv, NEW r \in Requests, req[r].status = "FAILED"
        PROVE  /\ clone[r] = "none" /\ ~req[r].cap
               /\ AllocatedAs(r, "RESERVED") \cup AllocatedAs(r, "ASSIGNED") = {}
      <2>1. RowFits(r) /\ WorldFits(r)
          BY <1>1 DEF ProvInv
      <2> QED BY <1>1, <2>1 DEF RowFits, WorldFits, Existing
  <1>2. ProvInv => FailedLeavesNothing
      BY <1>1 DEF FailedLeavesNothing
  <1> QED BY <1>2, ProvisioningInvariance, PTL

(* The encrypted password of a Windows guest is gone when its request has  *)
(* ended, whichever way it ended, as long as no request is claimed from    *)
(* under a worker.                                                         *)
THEOREM SecretsErased == Spec => [](Undoubled => SecretErased)
  <1>1. ProvInv => SecretErased
      BY DEF ProvInv, RowFits, SecretErased
  <1> QED BY <1>1, ProvisioningInvariance, PTL
-----------------------------------------------------------------------------
(* Who runs what, whether or not a request was doubled.                    *)

(* The row of a request whose lease never ran out under a worker shows     *)
(* that a worker has it.                                                   *)
Secured(k) ==
  job[k] \in Requests \ overrun =>
    /\ pc[k] \in Running => /\ req[job[k]].status = "RUNNING"
                            /\ req[job[k]].runner \in Workers
                            /\ req[job[k]].lease = "fresh"
    /\ pc[k] = "partial" => req[job[k]].status = "MANUAL_REVIEW"

RowKeys ==
  /\ DOMAIN req = Requests
  /\ \A r \in Requests : {"status", "runner", "lease"} \subseteq DOMAIN req[r]

RunTypes ==
  /\ pc \in [Workers -> {"down", "idle"} \cup PcStages]
  /\ job \in [Workers -> Requests \cup {NoReq}]
  /\ queue \subseteq Requests
  /\ RowKeys

RunInv ==
  /\ RunTypes
  /\ \A k \in Workers : pc[k] \in PcStages <=> job[k] \in Requests
  /\ \A k \in Workers : Secured(k)
  /\ SoleRunner

(* Worker k gives up its request, keeps its claim, or has ended the        *)
(* request and goes on to record its guest.                                *)
LEMMA RunWork ==
  ASSUME RunInv, NEW k \in Workers, pc[k] \in PcStages, RunTypes', UNCHANGED overrun,
         \A j \in Workers \ {k} : pc'[j] = pc[j] /\ job'[j] = job[j],
         \A s \in Requests \ {job[k]} : req'[s] = req[s],
         \/ pc'[k] = "idle" /\ job'[k] = NoReq
         \/ /\ job'[k] = job[k] /\ pc[k] \in Running /\ pc'[k] \in Running
            /\ req'[job[k]].status = req[job[k]].status
            /\ req'[job[k]].runner = req[job[k]].runner
            /\ req'[job[k]].lease \in {req[job[k]].lease, "fresh"}
         \/ job'[k] = job[k] /\ pc'[k] = "partial" /\ req'[job[k]].status = "MANUAL_REVIEW"
  PROVE  RunInv'
  <1>1. job[k] \in Requests
      BY DEF RunInv
  <1>2. \A j \in Workers : pc'[j] \in PcStages <=> job'[j] \in Requests
      BY <1>1, NoReqAssumption DEF RunInv, PcStages, Running
  <1>3. ASSUME NEW i \in Workers, NEW j \in Workers, job'[i] = job'[j], job'[i] # NoReq, i # j
        PROVE  job'[i] \in overrun'
      <2>1. job'[i] = job[i] /\ job'[j] = job[j]
          BY <1>3
      <2> QED BY <1>3, <2>1 DEF RunInv, SoleRunner
  <1>4. ASSUME NEW j \in Workers, job'[j] \in Requests \ overrun' PROVE Secured(j)'
      <2>1. CASE j = k
          BY <1>4, <2>1, NoReqAssumption DEF RunInv, Secured, Running, PcStages
      <2>2. CASE j # k
          <3>1. job[j] = job'[j] /\ job[j] # job[k]
              BY <1>1, <1>4, <2>2, NoReqAssumption DEF RunInv, SoleRunner
          <3>2. req'[job[j]] = req[job[j]] /\ pc'[j] = pc[j]
              BY <1>4, <2>2, <3>1
          <3> QED BY <1>4, <3>1, <3>2 DEF RunInv, Secured
      <2> QED BY <2>1, <2>2
  <1>5. \A j \in Workers : Secured(j)'
      BY <1>4 DEF Secured
  <1> QED BY <1>2, <1>3, <1>5 DEF RunInv, SoleRunner

(* ... and leaves every row as it is. *)
LEMMA RunMove ==
  ASSUME RunInv, NEW k \in Workers, pc[k] \in Running, UNCHANGED <<req, job, queue, overrun>>,
         NEW stage \in Running, pc' = [pc EXCEPT ![k] = stage]
  PROVE  RunInv'
  <1>1. pc[k] \in PcStages /\ RunTypes' /\ pc'[k] = stage /\ \A j \in Workers \ {k} : pc'[j] = pc[j]
      BY DEF RunInv, RunTypes, RowKeys, Running
  <1> QED BY <1>1, RunWork

(* ... or changes other columns of its row. *)
LEMMA RunRow ==
  ASSUME RunInv, NEW k \in Workers, pc[k] \in Running, UNCHANGED <<job, queue, overrun>>,
         NEW stage \in Running, pc' = [pc EXCEPT ![k] = stage],
         DOMAIN req' = Requests, DOMAIN req'[job[k]] = DOMAIN req[job[k]],
         \A s \in Requests \ {job[k]} : req'[s] = req[s],
         req'[job[k]].status = req[job[k]].status,
         req'[job[k]].runner = req[job[k]].runner,
         req'[job[k]].lease \in {req[job[k]].lease, "fresh"}
  PROVE  RunInv'
  <1>1. pc[k] \in PcStages /\ pc'[k] = stage /\ \A j \in Workers \ {k} : pc'[j] = pc[j]
      BY DEF RunInv, RunTypes, Running
  <1>2. RowKeys'
      BY DEF RunInv, RunTypes, RowKeys
  <1>3. RunTypes'
      BY <1>2 DEF RunInv, RunTypes, Running
  <1> QED BY <1>1, <1>3, RunWork

LEMMA RunBusy ==
  ASSUME RunInv, NEW k \in Workers, pc[k] \in PcStages
  PROVE  job[k] \in Requests /\ {"status", "runner", "lease"} \subseteq DOMAIN req[job[k]]
  BY DEF RunInv, RunTypes, RowKeys

LEMMA RunStep ==
  ASSUME RunInv, [Next]_vars
  PROVE  RunInv'
  <1> USE DEF Same, histVars, Goto
  <1>1. ASSUME NEW k \in Workers, Check(k) \/ (\E v \in Vmids : ChooseVmid(k, v))
                 \/ (\E x \in Rows : ReserveIp(k, x)) \/ FullCloneResumes(k) \/ CloneReturnsUpid(k)
                 \/ ConfigureNetwork(k) \/ ConfirmIp(k) \/ Revoked(k) \/ FailQuarantines(k)
                 \/ RollbackFails(k) \/ StepFails(k) \/ CloneFails(k)
        PROVE  RunInv'
      <2>1. pc[k] \in Running /\ UNCHANGED <<req, job, queue, overrun>>
          BY <1>1 DEF Check, ChooseVmid, ReserveIp, FullCloneResumes, CloneReturnsUpid,
             ConfigureNetwork, ConfirmIp, Revoked, FailQuarantines, RollbackFails, StepFails,
             CloneFails, Fail, At, Running, PcStages
      <2>2. PICK stage \in {"done", "vmid", "ip", "cloned", "capacity", "fail", "quarantine"} :
              pc' = [pc EXCEPT ![k] = stage]
          BY <1>1 DEF Check, ChooseVmid, ReserveIp, FullCloneResumes, CloneReturnsUpid,
             ConfigureNetwork, ConfirmIp, Revoked, FailQuarantines, RollbackFails, StepFails,
             CloneFails, Fail
      <2>3. stage \in Running
          BY DEF Running, PcStages
      <2> QED BY <2>1, <2>2, <2>3, RunMove
  <1>2. ASSUME NEW k \in Workers, Begin(k) \/ StepDone(k) \/ WaitClone(k)
                 \/ (\E n \in Nodes : SelectTarget(k, n)) \/ CommitVmid(k) \/ RecordIp(k)
                 \/ FullClone(k) \/ RecordUpid(k) \/ ConfigureIdentity(k)
                 \/ AssignOrganization(k) \/ FailReleases(k)
        PROVE  RunInv'
      <2>1. pc[k] \in Running /\ UNCHANGED <<job, queue, overrun>>
          BY <1>2 DEF Begin, StepDone, WaitClone, SelectTarget, CommitVmid, RecordIp, FullClone,
             RecordUpid, ConfigureIdentity, AssignOrganization, FailReleases, At, Running, PcStages
      <2>2. PICK stage \in {"exec", "done", "clone", "fail"} : pc' = [pc EXCEPT ![k] = stage]
          BY <1>2 DEF Begin, StepDone, WaitClone, SelectTarget, CommitVmid, RecordIp, FullClone,
             RecordUpid, ConfigureIdentity, AssignOrganization, FailReleases
      <2>3. stage \in Running /\ pc[k] \in PcStages
          BY <2>1 DEF Running, PcStages
      <2>4. /\ job[k] \in Requests /\ DOMAIN req = Requests
            /\ {"status", "runner", "lease"} \subseteq DOMAIN req[job[k]]
          BY <2>3, RunBusy DEF RunInv, RunTypes, RowKeys
      <2>5. /\ DOMAIN req' = Requests
            /\ DOMAIN req'[job[k]] = DOMAIN req[job[k]]
            /\ \A s \in Requests \ {job[k]} : req'[s] = req[s]
            /\ req'[job[k]].status = req[job[k]].status
            /\ req'[job[k]].runner = req[job[k]].runner
            /\ req'[job[k]].lease \in {req[job[k]].lease, "fresh"}
          <3>1. CASE Begin(k) \/ StepDone(k) \/ WaitClone(k)
              BY <2>4, <3>1 DEF Begin, StepDone, WaitClone
          <3>2. CASE (\E n \in Nodes : SelectTarget(k, n)) \/ FailReleases(k)
              <4>1. CASE req' = req
                  BY <2>4, <4>1
              <4>2. CASE FailReleases(k) /\ req' # req
                  BY <2>4, <4>2 DEF FailReleases
              <4>3. ASSUME NEW n \in Nodes, SelectTarget(k, n), req' # req
                    PROVE  req' = [req EXCEPT ![job[k]].node = n, ![job[k]].cap = TRUE]
                  BY <4>3 DEF SelectTarget
              <4>4. CASE \E n \in Nodes : SelectTarget(k, n) /\ req' # req
                  <5>1. PICK n \in Nodes : req' = [req EXCEPT ![job[k]].node = n, ![job[k]].cap = TRUE]
                      BY <4>3, <4>4
                  <5> QED BY <2>4, <5>1
              <4> QED BY <3>2, <4>1, <4>2, <4>4
          <3>3. CASE CommitVmid(k) \/ RecordIp(k) \/ FullClone(k) \/ RecordUpid(k)
              BY <2>4, <3>3 DEF CommitVmid, RecordIp, FullClone, RecordUpid
          <3>4. CASE ConfigureIdentity(k) \/ AssignOrganization(k)
              BY <2>4, <3>4 DEF ConfigureIdentity, AssignOrganization
          <3> QED BY <1>2, <3>1, <3>2, <3>3, <3>4
      <2> QED BY <2>1, <2>2, <2>3, <2>5, RunRow
  <1>3. ASSUME NEW k \in Workers,
               Succeed(k) \/ FailEnds(k) \/ RecordPartial(k)
                 \/ \E released \in BOOLEAN : Breaks(k, released)
        PROVE  RunInv'
      <2>1. pc[k] \in PcStages /\ UNCHANGED <<queue, overrun>>
          BY <1>3 DEF Succeed, FailEnds, RecordPartial, Breaks, At, PcStages
      <2>2. /\ job[k] \in Requests /\ DOMAIN req = Requests
            /\ {"status", "runner", "lease"} \subseteq DOMAIN req[job[k]]
          BY <2>1, RunBusy DEF RunInv, RunTypes, RowKeys
      <2>3. /\ DOMAIN req' = Requests
            /\ DOMAIN req'[job[k]] = DOMAIN req[job[k]]
            /\ \A s \in Requests \ {job[k]} : req'[s] = req[s]
          <3>1. CASE Succeed(k) \/ FailEnds(k)
              BY <2>2, <3>1 DEF Succeed, FailEnds
          <3>2. CASE RecordPartial(k)
              BY <2>2, <3>2 DEF RecordPartial
          <3>3. CASE \E released \in BOOLEAN : Breaks(k, released)
              BY <2>2, <3>3 DEF Breaks
          <3> QED BY <1>3, <3>1, <3>2, <3>3
      <2>4. \/ Idle(k)
            \/ /\ pc' = [pc EXCEPT ![k] = "partial"] /\ job' = job
               /\ req'[job[k]].status = "MANUAL_REVIEW"
          BY <1>3, <2>2 DEF Succeed, FailEnds, RecordPartial, Breaks
      <2>5. /\ \A j \in Workers \ {k} : pc'[j] = pc[j] /\ job'[j] = job[j]
            /\ \/ pc'[k] = "idle" /\ job'[k] = NoReq
               \/ pc'[k] = "partial" /\ job'[k] = job[k] /\ req'[job[k]].status = "MANUAL_REVIEW"
          BY <2>4 DEF Idle, RunInv, RunTypes
      <2>6. RowKeys'
          BY <2>2, <2>3 DEF RunInv, RunTypes, RowKeys
      <2>7. RunTypes'
          BY <2>1, <2>4, <2>6 DEF RunInv, RunTypes, Idle, PcStages
      <2> QED BY <2>1, <2>3, <2>5, <2>7, RunWork
  <1>4. ASSUME NEW k \in Workers, Work(k) PROVE RunInv'
      BY <1>1, <1>2, <1>3, <1>4 DEF Work, Reserving, Cloning, Finishing, Failing
  <1>5. ASSUME NEW k \in Workers, NEW r \in queue, Claim(k, r) PROVE RunInv'
      <2>1. r \in Requests /\ DOMAIN req = Requests
            /\ {"status", "runner", "lease"} \subseteq DOMAIN req[r]
          BY DEF RunInv, RunTypes, RowKeys
      <2>2. ASSUME NEW j \in Workers, job[j] = r PROVE r \in overrun
          <3>1. pc[j] \in Running \/ pc[j] = "partial"
              BY <2>1, <2>2 DEF RunInv, Running
          <3> QED BY <1>5, <2>1, <2>2, <3>1, ProvisioningAssumption
                 DEF Claim, Claimable, RunInv, Secured
      <2>3. /\ req'[r].status = "RUNNING" /\ req'[r].runner = k /\ req'[r].lease = "fresh"
            /\ DOMAIN req' = Requests /\ DOMAIN req'[r] = DOMAIN req[r]
            /\ \A s \in Requests \ {r} : req'[s] = req[s]
          BY <1>5, <2>1 DEF Claim
      <2>4. /\ pc'[k] = "start" /\ job'[k] = r /\ overrun' = overrun
            /\ \A j \in Workers \ {k} : pc'[j] = pc[j] /\ job'[j] = job[j]
          BY <1>5 DEF Claim, RunInv, RunTypes
      <2>5. RunTypes'
          <3>1. RowKeys'
              BY <2>1, <2>3 DEF RunInv, RunTypes, RowKeys
          <3> QED BY <1>5, <2>1, <3>1 DEF Claim, RunInv, RunTypes, PcStages
      <2>6. \A j \in Workers : pc'[j] \in PcStages <=> job'[j] \in Requests
          BY <2>1, <2>4 DEF RunInv, PcStages
      <2>7. ASSUME NEW j \in Workers, job'[j] \in Requests \ overrun' PROVE Secured(j)'
          <3>1. CASE j = k
              BY <2>3, <2>4, <3>1 DEF Secured
          <3>2. CASE j # k
              BY <2>2, <2>3, <2>4, <2>7, <3>2 DEF RunInv, Secured
          <3> QED BY <3>1, <3>2
      <2>8. SoleRunner'
          BY <2>2, <2>4 DEF RunInv, SoleRunner
      <2> QED BY <2>5, <2>6, <2>7, <2>8 DEF RunInv, Secured
  <1>6. ASSUME NEW k \in Workers, Outage(k) PROVE RunInv'
      <2>1. CASE Redeliver(k)
          BY <2>1 DEF Redeliver, workVars, RunInv, RunTypes, RowKeys, Secured, SoleRunner
      <2>2. CASE Crash(k) \/ Restart(k)
          <3>1. RunTypes' /\ req' = req /\ overrun' = overrun
              BY <2>2 DEF Crash, Restart, RunInv, RunTypes, RowKeys
          <3>2. /\ \A j \in Workers \ {k} : pc'[j] = pc[j] /\ job'[j] = job[j]
                /\ pc'[k] \in {"down", "idle"} /\ job'[k] = NoReq
              BY <2>2, NoReqAssumption DEF Crash, Restart, RunInv, RunTypes, PcStages
          <3>3. \A j \in Workers : pc'[j] \in PcStages <=> job'[j] \in Requests
              BY <3>2, NoReqAssumption DEF RunInv, PcStages
          <3>4. \A j \in Workers : Secured(j)'
              BY <3>1, <3>2, NoReqAssumption DEF RunInv, Secured
          <3>5. SoleRunner'
              BY <3>1, <3>2 DEF RunInv, SoleRunner
          <3> QED BY <3>1, <3>3, <3>4, <3>5 DEF RunInv
      <2> QED BY <1>6, <2>1, <2>2 DEF Outage
  <1>7. ASSUME NEW r \in Requests, Requested(r) \/ LeaseExpires(r) PROVE RunInv'
      <2>1. DOMAIN req = Requests /\ {"status", "runner", "lease"} \subseteq DOMAIN req[r]
          BY DEF RunInv, RunTypes, RowKeys
      <2>2. /\ DOMAIN req' = Requests /\ DOMAIN req'[r] = DOMAIN req[r]
            /\ \A s \in Requests \ {r} : req'[s] = req[s]
            /\ UNCHANGED <<pc, job>> /\ queue' \subseteq Requests /\ overrun \subseteq overrun'
          BY <1>7, <2>1 DEF Requested, Create, LeaseExpires, workVars, RunInv, RunTypes
      <2>3. RunTypes'
          <3>1. RowKeys'
              BY <2>1, <2>2 DEF RunInv, RunTypes, RowKeys
          <3> QED BY <2>2, <3>1 DEF RunInv, RunTypes
      <2>4. ASSUME NEW j \in Workers, job[j] = r PROVE r \in overrun'
          <3>1. CASE LeaseExpires(r)
              BY <2>4, <3>1 DEF LeaseExpires, InHand
          <3>2. CASE Requested(r)
              <4>1. pc[j] \in Running \/ pc[j] = "partial"
                  BY <2>4 DEF RunInv, Running
              <4> QED BY <2>4, <3>2, <4>1, <2>2 DEF Requested, Create, RunInv, Secured
          <3> QED BY <1>7, <3>1, <3>2
      <2>5. \A j \in Workers : Secured(j)'
          BY <2>2, <2>4 DEF RunInv, Secured
      <2> QED BY <2>2, <2>3, <2>5 DEF RunInv, SoleRunner
  <1>8. ASSUME UNCHANGED <<req, pc, job, overrun>>, queue' \subseteq queue PROVE RunInv'
      BY <1>8 DEF RunInv, RunTypes, RowKeys, Secured, SoleRunner
  <1>9. ASSUME \/ \E r \in Requests, s \in {"ok", "failed"} : CloneStops(r, s)
               \/ \E v \in Vmids : OutsiderCreates(v) \/ ImportGuest(v)
               \/ \E x \in Rows : AdministerIp(x)
               \/ \E k \in Workers, r \in queue : ClaimNothing(k, r)
               \/ UNCHANGED vars
        PROVE  RunInv'
      <2>1. UNCHANGED <<req, pc, job, overrun>> /\ queue' \subseteq queue
          BY <1>9 DEF CloneStops, OutsiderCreates, ImportGuest, AdministerIp, ClaimNothing, vars,
                      provVars, workVars
      <2> QED BY <2>1, <1>8
  <1> QED BY <1>4, <1>5, <1>6, <1>7, <1>9 DEF Next, Receive

THEOREM RunInvariance == Spec => []RunInv
  <1>1. Init => RunInv
      <2>1. Init => RunTypes
          BY DEF Init, RunTypes, RowKeys, NoRequest
      <2> QED BY <2>1, NoReqAssumption
             DEF Init, RunInv, RunTypes, Secured, SoleRunner, PcStages
  <1> QED BY <1>1, RunStep, PTL DEF Spec

(* Redeliveries, crashes, recovery and broken sessions never make two      *)
(* workers run one request: it takes a lease that runs out under one.      *)
THEOREM OneRunner == Spec => []SoleRunner
  <1>1. RunInv => SoleRunner
      BY DEF RunInv
  <1> QED BY <1>1, RunInvariance, PTL
-----------------------------------------------------------------------------
(* What provisioning does to addresses, doubled or not.                    *)

LEMMA AddressStep == RunInv /\ [Next]_vars => [IpamNext]_ipamVars
  <1> SUFFICES ASSUME RunInv, [Next]_vars, ~UNCHANGED ipamVars PROVE IpamNext
      OBVIOUS
  <1>1. ASSUME NEW k \in Workers, NEW x \in Rows, ReserveIp(k, x) PROVE IpamNext
      <2>1. job[k] \in Requests
          BY <1>1, RunBusy DEF ReserveIp, At, PcStages
      <2> QED BY <1>1, <2>1 DEF ReserveIp, IpamNext, Provision
  <1>2. ASSUME NEW k \in Workers, ConfirmIp(k) PROVE IpamNext
      <2>1. job[k] \in Requests
          BY <1>2, RunBusy DEF ConfirmIp, At, PcStages
      <2> QED BY <1>2, <2>1 DEF ConfirmIp, IpamNext, Provision
  <1>3. ASSUME NEW k \in Workers, FailQuarantines(k) PROVE IpamNext
      <2>1. job[k] \in Requests
          BY <1>3, RunBusy DEF FailQuarantines, PcStages
      <2> QED BY <1>3, <2>1 DEF FailQuarantines, IpamNext, Provision
  <1>4. ASSUME NEW x \in Rows, AdministerIp(x) PROVE IpamNext
      BY <1>4 DEF AdministerIp, IpamNext
  <1>5. ASSUME NEW r \in Requests,
               Requested(r) \/ LeaseExpires(r) \/ \E s \in {"ok", "failed"} : CloneStops(r, s)
        PROVE  FALSE
      BY <1>5 DEF Requested, Create, LeaseExpires, CloneStops
  <1>6. ASSUME NEW k \in Workers, Receive(k) \/ Outage(k) PROVE FALSE
      BY <1>6 DEF Receive, Claim, ClaimNothing, Outage, Crash, Restart, Redeliver
  <1>7. ASSUME NEW v \in Vmids, OutsiderCreates(v) \/ ImportGuest(v) PROVE FALSE
      BY <1>7 DEF OutsiderCreates, ImportGuest
  <1>8. ASSUME NEW k \in Workers, Work(k) PROVE IpamNext
      <2>1. Begin(k) \/ StepDone(k) \/ Check(k) => FALSE
          BY DEF Begin, StepDone, Check
      <2>2. Reserving(k) => IpamNext
          BY <1>1 DEF Reserving, SelectTarget, ChooseVmid, CommitVmid, RecordIp
      <2>3. Cloning(k) => FALSE
          BY DEF Cloning, FullClone, FullCloneResumes, CloneReturnsUpid, RecordUpid, WaitClone
      <2>4. Finishing(k) => IpamNext
          BY <1>2 DEF Finishing, ConfigureNetwork, ConfigureIdentity, AssignOrganization, Succeed
      <2>5. Failing(k) => IpamNext
          BY <1>3 DEF Failing, StepFails, CloneFails, Revoked, RollbackFails, FailReleases,
                      FailEnds, RecordPartial, Breaks
      <2> QED BY <1>8, <2>1, <2>2, <2>3, <2>4, <2>5 DEF Work
  <1>9. UNCHANGED vars => FALSE
      BY DEF vars
  <1> QED BY <1>4, <1>5, <1>6, <1>7, <1>8, <1>9 DEF Next

(* Every step of provisioning is a step of address management or leaves    *)
(* the addresses alone.                                                    *)
THEOREM AddressesAreIpams == Spec => [][IpamNext]_ipamVars
  BY AddressStep, RunInvariance, PTL DEF Spec

LEMMA ProvisionedIpam == Spec => []IpamInv
  <1>1. Init => IpamInv
      BY ProvInit DEF ProvInv
  <1> QED BY <1>1, IpamStep, AddressesAreIpams, PTL DEF Spec

(* What holds of Ipam by itself holds while requests are provisioned: no   *)
(* request gets a second address, rows and allocations agree.              *)
THEOREM ProvisionedAddresses ==
  Spec => [](ScopeExclusive /\ AllocationMatchesAddress /\ OneAddressPerRequest)
  <1>1. IpamInv => ScopeExclusive /\ AllocationMatchesAddress /\ OneAddressPerRequest
      BY DEF IpamInv, ScopeExclusive, RowsInPool, PoolsDisjoint
  <1> QED BY <1>1, ProvisionedIpam, PTL

(* A reservation that the rollback of a failed request gives back, or that *)
(* an administrator takes away, reaches its next holder after quarantine.  *)
THEOREM ProvisionedHandedOver == Spec => HandedOverAfterQuarantine
  BY HandsOverStep, AddressesAreIpams, ProvisionedIpam, PTL DEF HandedOverAfterQuarantine
=============================================================================
