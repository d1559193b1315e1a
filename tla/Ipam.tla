-------------------------------- MODULE Ipam --------------------------------
(***************************************************************************)
(* IP address management: pools, address rows and allocations.             *)
(*                                                                         *)
(* Sources: services/ipam.py, models/ipam.py.  An address row belongs to a *)
(* pool and is materialized on first use.  Every operation is one          *)
(* transaction: those that take an address lock the pool row, those that   *)
(* change pools hold the advisory lock IPAM_POOL_LOCK.                     *)
(*                                                                         *)
(* A network is the set of its addresses.  Excluded ranges, the gateway    *)
(* and the choice among free addresses are the subject of FirstFree.       *)
(***************************************************************************)
EXTENDS Integers, FiniteSets

CONSTANTS
  Pools,        \* rows of ip_pools
  Addresses,    \* address values
  Clusters,     \* values of ip_pools.cluster_id
  Everywhere,   \* cluster_id IS NULL
  Requests,     \* provisioning requests
  NoReq         \* an allocation made by an administrator, or none

ASSUME ScopeAssumption   == Everywhere \notin Clusters
ASSUME NoReqAssumption   == NoReq \notin Requests

VARIABLES
  net,       \* ip_pools.cidr; {} before the pool exists
  scope,     \* ip_pools.cluster_id
  active,    \* ip_pools.is_active
  addr,      \* ip_addresses.state per pool and address; "none": no row
  alloc,     \* the allocation of the address that is not RELEASED
  elapsed    \* quarantined_until has passed

poolVars == <<net, scope, active>>
addrVars == <<addr, alloc, elapsed>>
ipamVars == <<net, scope, active, addr, alloc, elapsed>>

Rows       == Pools \X Addresses
Scopes     == Clusters \cup {Everywhere}
InUse      == {"RESERVED", "ASSIGNED", "QUARANTINED"}
States     == {"none", "AVAILABLE", "DISABLED"} \cup InUse
NoAlloc    == [status |-> "none", req |-> NoReq]

IpamTypeOK ==
  /\ net \in [Pools -> SUBSET Addresses]
  /\ scope \in [Pools -> Scopes]
  /\ active \in [Pools -> BOOLEAN]
  /\ addr \in [Rows -> States]
  /\ alloc \in [Rows -> [status : {"none"} \cup InUse, req : Requests \cup {NoReq}]]
  /\ elapsed \in [Rows -> BOOLEAN]

AddressesInit ==
  /\ addr = [x \in Rows |-> "none"]
  /\ alloc = [x \in Rows |-> NoAlloc]
  /\ elapsed = [x \in Rows |-> FALSE]

IpamInit ==
  /\ net = [p \in Pools |-> {}]
  /\ scope = [p \in Pools |-> Everywhere]
  /\ active = [p \in Pools |-> FALSE]
  /\ AddressesInit

-----------------------------------------------------------------------------
(* Pools.                                                                  *)

SameScope(s, t) == s = t \/ s = Everywhere \/ t = Everywhere

(* Mutant: a pool for every cluster is compared with its like only. *)
NoOverlapInCluster(p, n, s) ==
  \A q \in Pools \ {p} : active[q] /\ scope[q] = s => n \cap net[q] = {}

(* No other active pool whose scope meets s overlaps the network n. *)
NoOverlap(p, n, s) ==
  \A q \in Pools \ {p} : active[q] /\ SameScope(s, scope[q]) => n \cap net[q] = {}

SetPool(p, n, s) ==
  /\ net' = [net EXCEPT ![p] = n]
  /\ scope' = [scope EXCEPT ![p] = s]

CreatePool(p, n, s) ==
  /\ net[p] = {}
  /\ NoOverlap(p, n, s)
  /\ SetPool(p, n, s)
  /\ active' = [active EXCEPT ![p] = TRUE]
  /\ UNCHANGED addrVars

Materialized(p) == \E a \in Addresses : addr[<<p, a>>] # "none"

(* A new network or cluster; refused once the pool has address rows. *)
UpdatePool(p, n, s) ==
  /\ active[p]
  /\ ~Materialized(p)
  /\ NoOverlap(p, n, s)
  /\ SetPool(p, n, s)
  /\ UNCHANGED <<active, addrVars>>

(* busy: some provisioning request of the pool is QUEUED, RUNNING or in    *)
(* MANUAL_REVIEW.                                                          *)
DeletePool(p, busy) ==
  /\ active[p]
  /\ ~busy
  /\ \A a \in Addresses : addr[<<p, a>>] \in {"none", "AVAILABLE"}
  /\ active' = [active EXCEPT ![p] = FALSE]
  /\ UNCHANGED <<net, scope, addrVars>>

-----------------------------------------------------------------------------
(* Addresses.                                                              *)

(* The address is free and its pool is active. *)
Candidate(x) ==
  /\ active[x[1]]
  /\ x[2] \in net[x[1]]
  /\ addr[x] \in {"none", "AVAILABLE"}

(* The address row and its allocation, written in one transaction. *)
SetAddress(x, state, req) ==
  /\ addr' = [addr EXCEPT ![x] = state]
  /\ alloc' = [alloc EXCEPT ![x] = [status |-> state, req |-> req]]
  /\ elapsed' = [elapsed EXCEPT ![x] = FALSE]
  /\ UNCHANGED poolVars

(* reserve_address: excluded by an administrator, for good. *)
ReserveAddress(x) ==
  /\ Candidate(x)
  /\ addr' = [addr EXCEPT ![x] = "DISABLED"]
  /\ UNCHANGED <<poolVars, alloc, elapsed>>

(* To a present workload of the pool's cluster. *)
Allocate(x) ==
  /\ Candidate(x)
  /\ alloc[x] = NoAlloc
  /\ SetAddress(x, "ASSIGNED", NoReq)

(* Mutant: the index leaves out the quarantined allocations. *)
HasNoHeldAllocation(r) == \A x \in Rows : alloc[x].req = r => alloc[x].status = "QUARANTINED"

(* The unique index uq_ip_allocations_active_provisioning_request. *)
HasNoAllocation(r) == \A x \in Rows : alloc[x].req # r

(* The allocation of r whose status is s, if there is one. *)
AllocatedAs(r, s) == {x \in Rows : alloc[x].req = r /\ alloc[x].status = s}

(* reserve_for_provisioning: the reservation r already has, or a new one. *)
Existing(r) == AllocatedAs(r, "RESERVED") \cup AllocatedAs(r, "ASSIGNED")

ReserveFor(r, x) ==
  /\ Existing(r) = {}
  /\ Candidate(x)
  /\ alloc[x] = NoAlloc
  /\ HasNoAllocation(r)
  /\ SetAddress(x, "RESERVED", r)

(* Mutant: the allocation is looked up by its request only. *)
ConfirmAnyStatus(r, x) ==
  /\ alloc[x].req = r
  /\ SetAddress(x, "ASSIGNED", r)

ConfirmFor(r, x) ==
  /\ x \in AllocatedAs(r, "RESERVED")
  /\ SetAddress(x, "ASSIGNED", r)

QuarantineFor(r, x) ==
  /\ x \in AllocatedAs(r, "RESERVED")
  /\ SetAddress(x, "QUARANTINED", r)

(* Mutant: the address is free at once, as an allocation that ended. *)
ReleaseAtOnce(x) ==
  /\ alloc[x].status \in {"RESERVED", "ASSIGNED"}
  /\ addr' = [addr EXCEPT ![x] = "AVAILABLE"]
  /\ alloc' = [alloc EXCEPT ![x].status = "QUARANTINED"]
  /\ elapsed' = [elapsed EXCEPT ![x] = FALSE]
  /\ UNCHANGED poolVars

(* An administrator releases any allocation, a provisioning request's      *)
(* reservation too; releasing a quarantined one changes nothing.           *)
Release(x) ==
  /\ alloc[x].status \in {"RESERVED", "ASSIGNED"}
  /\ SetAddress(x, "QUARANTINED", alloc[x].req)

ApproveRelease(x) ==
  /\ addr[x] = "QUARANTINED"
  /\ elapsed[x]
  /\ alloc[x].status = "QUARANTINED"
  /\ addr' = [addr EXCEPT ![x] = "AVAILABLE"]
  /\ alloc' = [alloc EXCEPT ![x] = NoAlloc]
  /\ elapsed' = [elapsed EXCEPT ![x] = FALSE]
  /\ UNCHANGED poolVars

(* pool.quarantine_seconds pass. *)
QuarantineElapses(x) ==
  /\ addr[x] = "QUARANTINED"
  /\ ~elapsed[x]
  /\ elapsed' = [elapsed EXCEPT ![x] = TRUE]
  /\ UNCHANGED <<poolVars, addr, alloc>>

-----------------------------------------------------------------------------
Administer(p) ==
  \/ \E n \in SUBSET Addresses \ {{}}, s \in Scopes : CreatePool(p, n, s) \/ UpdatePool(p, n, s)
  \/ \E busy \in BOOLEAN : DeletePool(p, busy)

AdministerAddress(x) ==
  \/ ReserveAddress(x)
  \/ Allocate(x)
  \/ Release(x)
  \/ ApproveRelease(x)
  \/ QuarantineElapses(x)

(* What provisioning may ask for, in any order: Provisioning says when. *)
Provision(r, x) == ReserveFor(r, x) \/ ConfirmFor(r, x) \/ QuarantineFor(r, x)

IpamNext ==
  \/ \E p \in Pools : Administer(p)
  \/ \E x \in Rows : AdministerAddress(x) \/ \E r \in Requests : Provision(r, x)

IpamSpec == IpamInit /\ [][IpamNext]_ipamVars

-----------------------------------------------------------------------------
(* Properties.                                                             *)

(* No address value is reserved, assigned or quarantined in two pools of   *)
(* overlapping scope, over every creation, change and deletion of pools:   *)
(* the rules of the three pool operations together keep a guest's address  *)
(* its own.                                                                *)
ScopeExclusive ==
  \A p, q \in Pools, a \in Addresses :
    /\ addr[<<p, a>>] \in InUse
    /\ addr[<<q, a>>] \in InUse
    /\ SameScope(scope[p], scope[q])
    => p = q

(* The state of an address row and the status of its allocation, which     *)
(* different operations read, never disagree.                              *)
AllocationMatchesAddress ==
  \A x \in Rows : IF addr[x] \in InUse THEN alloc[x].status = addr[x] ELSE alloc[x] = NoAlloc

(* A provisioning request has one address at most. *)
OneAddressPerRequest ==
  \A x, y \in Rows : alloc[x].req = alloc[y].req /\ alloc[x].req # NoReq => x = y

(* The holder keeps the address, quarantined if it was, or the address is  *)
(* AVAILABLE again after its quarantine has elapsed.                       *)
HandsOver(x) ==
  \/ /\ addr'[x] \in InUse
     /\ alloc'[x].req = alloc[x].req
     /\ addr[x] = "QUARANTINED" => addr'[x] = "QUARANTINED"
  \/ addr'[x] = "AVAILABLE" /\ elapsed[x]

(* An address changes its holder only by way of AVAILABLE: whoever had it, *)
(* the next holder comes after an approved release of a quarantine that    *)
(* has elapsed.                                                            *)
HandedOverAfterQuarantine ==
  [][\A x \in Rows : addr[x] \in InUse => HandsOver(x)]_ipamVars
=============================================================================
