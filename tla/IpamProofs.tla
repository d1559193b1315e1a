----------------------------- MODULE IpamProofs -----------------------------
(***************************************************************************)
(* The safety properties of Ipam, for any number of pools, addresses,      *)
(* clusters and requests.  ScopeExclusive is not inductive by itself: it   *)
(* rests on the disjointness of active pools and on rows in use lying in   *)
(* the network of an active pool.                                          *)
(***************************************************************************)
EXTENDS Ipam, TLAPS

(* Active pools of overlapping scope have disjoint networks. *)
PoolsDisjoint ==
  \A p, q \in Pools :
    active[p] /\ active[q] /\ SameScope(scope[p], scope[q]) /\ p # q
      => net[p] \cap net[q] = {}

(* A row in use lies in the network of its pool, which is active. *)
RowsInPool ==
  \A p \in Pools, a \in Addresses : addr[<<p, a>>] \in InUse => active[p] /\ a \in net[p]

IpamInv ==
  /\ IpamTypeOK
  /\ PoolsDisjoint
  /\ RowsInPool
  /\ AllocationMatchesAddress
  /\ OneAddressPerRequest

(* A row keeps its type when it gets a state in use and an allocation of   *)
(* the same status.                                                        *)
LEMMA SetAddressTypes ==
  ASSUME IpamTypeOK, NEW x \in Rows, NEW state \in InUse,
         NEW req \in Requests \cup {NoReq}, SetAddress(x, state, req)
  PROVE  IpamTypeOK'
  BY DEF IpamTypeOK, SetAddress, poolVars, InUse, States

(* SetAddress keeps rows and allocations in step.                          *)
LEMMA SetAddressMatches ==
  ASSUME IpamTypeOK, AllocationMatchesAddress, NEW x \in Rows, NEW state \in InUse,
         NEW req \in Requests \cup {NoReq}, SetAddress(x, state, req)
  PROVE  AllocationMatchesAddress'
  BY DEF IpamTypeOK, SetAddress, AllocationMatchesAddress

(* SetAddress on a row of an active pool keeps rows inside their pools.    *)
LEMMA SetAddressInPool ==
  ASSUME IpamTypeOK, RowsInPool, NEW x \in Rows, NEW state \in InUse,
         NEW req \in Requests \cup {NoReq}, SetAddress(x, state, req),
         active[x[1]], x[2] \in net[x[1]]
  PROVE  RowsInPool'
  <1> SUFFICES ASSUME NEW p \in Pools, NEW a \in Addresses, addr'[<<p, a>>] \in InUse
               PROVE  active[p] /\ a \in net[p]
      BY DEF RowsInPool, SetAddress, poolVars
  <1>1. CASE <<p, a>> = x
      BY <1>1
  <1>2. CASE <<p, a>> # x
      <2>1. <<p, a>> \in Rows
          BY DEF Rows
      <2>2. addr'[<<p, a>>] = addr[<<p, a>>]
          BY <1>2, <2>1 DEF SetAddress, IpamTypeOK
      <2> QED BY <2>2 DEF RowsInPool
  <1> QED BY <1>1, <1>2

(* SetAddress with the request that the row already had, or with none,     *)
(* gives no request a second address.                                      *)
LEMMA SetAddressUnique ==
  ASSUME IpamTypeOK, OneAddressPerRequest, NEW x \in Rows, NEW state \in InUse,
         NEW req \in Requests \cup {NoReq}, SetAddress(x, state, req),
         req = NoReq \/ (\A y \in Rows \ {x} : alloc[y].req # req)
  PROVE  OneAddressPerRequest'
  <1> SUFFICES ASSUME NEW y \in Rows, NEW z \in Rows,
                      alloc'[y].req = alloc'[z].req, alloc'[y].req # NoReq, y # z
               PROVE  FALSE
      BY DEF OneAddressPerRequest
  <1>1. \A u \in Rows : alloc'[u].req = IF u = x THEN req ELSE alloc[u].req
      BY DEF SetAddress, IpamTypeOK
  <1>2. CASE y = x
      BY <1>1, <1>2
  <1>3. CASE z = x
      BY <1>1, <1>3
  <1>4. CASE y # x /\ z # x
      BY <1>1, <1>4 DEF OneAddressPerRequest
  <1> QED BY <1>2, <1>3, <1>4

(* A network that passed NoOverlap leaves the active pools disjoint.       *)
LEMMA SetPoolDisjoint ==
  ASSUME IpamTypeOK, PoolsDisjoint, NEW p \in Pools, NEW n \in SUBSET Addresses,
         NEW s \in Scopes, NoOverlap(p, n, s), SetPool(p, n, s),
         \A q \in Pools \ {p} : active'[q] => active[q]
  PROVE  PoolsDisjoint'
  <1> SUFFICES ASSUME NEW q \in Pools, NEW t \in Pools, active'[q], active'[t],
                      SameScope(scope'[q], scope'[t]), q # t
               PROVE  net'[q] \cap net'[t] = {}
      BY DEF PoolsDisjoint, SameScope
  <1>1. \A u \in Pools : /\ net'[u] = IF u = p THEN n ELSE net[u]
                         /\ scope'[u] = IF u = p THEN s ELSE scope[u]
      BY DEF SetPool, IpamTypeOK
  <1>2. CASE q = p
      BY <1>1, <1>2 DEF NoOverlap
  <1>3. CASE t = p
      <2>1. SameScope(s, scope[q])
          BY <1>1, <1>3 DEF SameScope
      <2> QED BY <1>1, <1>3, <2>1 DEF NoOverlap
  <1>4. CASE q # p /\ t # p
      BY <1>1, <1>4 DEF PoolsDisjoint
  <1> QED BY <1>2, <1>3, <1>4

(* A pool that has no row in use may change its network and its activity.  *)
LEMMA PoolWithoutRows ==
  ASSUME IpamTypeOK, RowsInPool, NEW p \in Pools, UNCHANGED addrVars,
         \A a \in Addresses : addr[<<p, a>>] \notin InUse,
         \A q \in Pools \ {p} : net'[q] = net[q] /\ active'[q] = active[q]
  PROVE  RowsInPool'
  BY DEF RowsInPool, addrVars

(* Operations on pools keep the invariant. *)
LEMMA PoolStep ==
  ASSUME IpamInv, NEW p \in Pools, NEW n \in SUBSET Addresses \ {{}}, NEW s \in Scopes,
         CreatePool(p, n, s) \/ UpdatePool(p, n, s)
  PROVE  IpamInv'
  <1> USE DEF IpamInv
  <1>1. NoOverlap(p, n, s) /\ SetPool(p, n, s) /\ UNCHANGED addrVars
      BY DEF CreatePool, UpdatePool
  <1>2. active' \in [Pools -> BOOLEAN] /\ \A q \in Pools \ {p} : active'[q] = active[q]
      BY DEF CreatePool, UpdatePool, IpamTypeOK
  <1>3. IpamTypeOK'
      BY <1>1, <1>2 DEF IpamTypeOK, SetPool, addrVars
  <1>4. PoolsDisjoint'
      BY <1>1, <1>2, SetPoolDisjoint
  <1>5. \A a \in Addresses : addr[<<p, a>>] \notin InUse
      <2>1. CASE CreatePool(p, n, s)
          BY <2>1 DEF CreatePool, RowsInPool
      <2>2. CASE UpdatePool(p, n, s)
          BY <2>2 DEF UpdatePool, Materialized, InUse
      <2> QED BY <2>1, <2>2
  <1>6. RowsInPool'
      <2>1. \A q \in Pools \ {p} : net'[q] = net[q]
          BY <1>1 DEF SetPool, IpamTypeOK
      <2> QED BY <1>1, <1>2, <1>5, <2>1, PoolWithoutRows
  <1>7. AllocationMatchesAddress' /\ OneAddressPerRequest'
      BY <1>1 DEF AllocationMatchesAddress, OneAddressPerRequest, addrVars
  <1> QED BY <1>3, <1>4, <1>6, <1>7

LEMMA DeletePoolStep ==
  ASSUME IpamInv, NEW p \in Pools, NEW busy \in BOOLEAN, DeletePool(p, busy)
  PROVE  IpamInv'
  <1> USE DEF IpamInv
  <1>1. /\ UNCHANGED <<net, scope>> /\ UNCHANGED addrVars
        /\ active' = [active EXCEPT ![p] = FALSE]
      BY DEF DeletePool
  <1>2. IpamTypeOK'
      BY <1>1 DEF IpamTypeOK, addrVars
  <1>3. PoolsDisjoint'
      BY <1>1 DEF PoolsDisjoint, IpamTypeOK, SameScope
  <1>4. RowsInPool'
      <2>1. \A a \in Addresses : addr[<<p, a>>] \notin InUse
          BY DEF DeletePool, InUse
      <2> QED BY <1>1, <2>1, PoolWithoutRows DEF IpamTypeOK
  <1>5. AllocationMatchesAddress' /\ OneAddressPerRequest'
      BY <1>1 DEF AllocationMatchesAddress, OneAddressPerRequest, addrVars
  <1> QED BY <1>2, <1>3, <1>4, <1>5

(* Operations that write a row and its allocation together. *)
LEMMA SetAddressStep ==
  ASSUME IpamInv, NEW x \in Rows, NEW state \in InUse,
         NEW req \in Requests \cup {NoReq}, SetAddress(x, state, req),
         active[x[1]], x[2] \in net[x[1]],
         req = NoReq \/ (\A y \in Rows \ {x} : alloc[y].req # req)
  PROVE  IpamInv'
  <1>1. IpamTypeOK' /\ RowsInPool' /\ AllocationMatchesAddress' /\ OneAddressPerRequest'
      BY SetAddressTypes, SetAddressInPool, SetAddressMatches, SetAddressUnique DEF IpamInv
  <1>2. PoolsDisjoint'
      BY DEF IpamInv, PoolsDisjoint, SetAddress, poolVars, SameScope
  <1> QED BY <1>1, <1>2 DEF IpamInv

(* A row that holds an allocation of a request in use lies in an active    *)
(* pool, and no other row holds one of that request.                       *)
LEMMA Holder ==
  ASSUME IpamInv, NEW x \in Rows, alloc[x].status \in InUse
  PROVE  /\ addr[x] = alloc[x].status
         /\ alloc[x].req \in Requests \cup {NoReq}
         /\ active[x[1]] /\ x[2] \in net[x[1]]
         /\ alloc[x].req = NoReq \/ (\A y \in Rows \ {x} : alloc[y].req # alloc[x].req)
  <1>1. addr[x] = alloc[x].status
      BY DEF IpamInv, AllocationMatchesAddress, NoAlloc, InUse
  <1>2. alloc[x].req \in Requests \cup {NoReq}
      BY DEF IpamInv, IpamTypeOK
  <1>3. active[x[1]] /\ x[2] \in net[x[1]]
      <2>1. x[1] \in Pools /\ x[2] \in Addresses /\ x = <<x[1], x[2]>>
          BY DEF Rows
      <2> QED BY <1>1, <2>1 DEF IpamInv, RowsInPool
  <1>4. alloc[x].req = NoReq \/ (\A y \in Rows \ {x} : alloc[y].req # alloc[x].req)
      BY DEF IpamInv, OneAddressPerRequest
  <1> QED BY <1>1, <1>2, <1>3, <1>4

(* The remaining operations of an administrator keep the invariant. *)
LEMMA AdministratorStep ==
  ASSUME IpamInv, NEW x \in Rows, AdministerAddress(x)
  PROVE  IpamInv'
  <1> USE NoReqAssumption
  <1>1. CASE ReserveAddress(x)
      <2>1. IpamTypeOK'
          BY <1>1 DEF IpamInv, IpamTypeOK, ReserveAddress, poolVars, States
      <2>2. \A y \in Rows : addr'[y] = IF y = x THEN "DISABLED" ELSE addr[y]
          BY <1>1 DEF ReserveAddress, IpamInv, IpamTypeOK
      <2>3. AllocationMatchesAddress'
          BY <1>1, <2>2
          DEF IpamInv, AllocationMatchesAddress, ReserveAddress, Candidate, InUse
      <2>4. RowsInPool'
          <3>1. \A p \in Pools, a \in Addresses : <<p, a>> \in Rows
              BY DEF Rows
          <3>2. UNCHANGED <<active, net>>
              BY <1>1 DEF ReserveAddress, poolVars
          <3> QED BY <2>2, <3>1, <3>2 DEF IpamInv, RowsInPool, InUse
      <2>5. PoolsDisjoint' /\ OneAddressPerRequest'
          BY <1>1 DEF IpamInv, PoolsDisjoint, OneAddressPerRequest, ReserveAddress, poolVars, SameScope
      <2> QED BY <2>1, <2>3, <2>4, <2>5 DEF IpamInv
  <1>2. CASE Allocate(x)
      BY <1>2, SetAddressStep DEF Allocate, Candidate, InUse
  <1>3. CASE Release(x)
      <2>1. alloc[x].status \in InUse
          BY <1>3 DEF Release, InUse
      <2> QED BY <1>3, <2>1, Holder, SetAddressStep DEF Release, InUse
  <1>4. CASE ApproveRelease(x)
      <2>1. \A y \in Rows : /\ addr'[y] = IF y = x THEN "AVAILABLE" ELSE addr[y]
                            /\ alloc'[y] = IF y = x THEN NoAlloc ELSE alloc[y]
          BY <1>4 DEF ApproveRelease, IpamInv, IpamTypeOK
      <2>2. UNCHANGED <<net, scope, active>>
          BY <1>4 DEF ApproveRelease, poolVars
      <2>3. IpamTypeOK'
          BY <1>4, <2>2 DEF IpamInv, IpamTypeOK, ApproveRelease, States, NoAlloc
      <2>4. AllocationMatchesAddress'
          BY <2>1 DEF IpamInv, AllocationMatchesAddress, InUse
      <2>5. OneAddressPerRequest'
          BY <2>1 DEF IpamInv, OneAddressPerRequest, NoAlloc
      <2>6. RowsInPool'
          <3>1. \A p \in Pools, a \in Addresses : <<p, a>> \in Rows
              BY DEF Rows
          <3> QED BY <2>1, <2>2, <3>1 DEF IpamInv, RowsInPool, InUse
      <2>7. PoolsDisjoint'
          BY <2>2 DEF IpamInv, PoolsDisjoint, SameScope
      <2> QED BY <2>3, <2>4, <2>5, <2>6, <2>7 DEF IpamInv
  <1>5. CASE QuarantineElapses(x)
      <2>1. UNCHANGED <<net, scope, active, addr, alloc>>
          BY <1>5 DEF QuarantineElapses, poolVars
      <2>2. elapsed' \in [Rows -> BOOLEAN]
          BY <1>5 DEF QuarantineElapses, IpamInv, IpamTypeOK
      <2> QED BY <2>1, <2>2
          DEF IpamInv, IpamTypeOK, PoolsDisjoint, SameScope, RowsInPool,
              AllocationMatchesAddress, OneAddressPerRequest
  <1> QED BY <1>1, <1>2, <1>3, <1>4, <1>5 DEF AdministerAddress

(* What provisioning asks for keeps the invariant. *)
LEMMA ProvisionStep ==
  ASSUME IpamInv, NEW x \in Rows, NEW r \in Requests, Provision(r, x)
  PROVE  IpamInv'
  <1>1. CASE ReserveFor(r, x)
      BY <1>1, SetAddressStep DEF ReserveFor, Candidate, HasNoAllocation, InUse
  <1>2. CASE ConfirmFor(r, x) \/ QuarantineFor(r, x)
      <2>1. alloc[x].req = r /\ alloc[x].status \in InUse
          BY <1>2 DEF ConfirmFor, QuarantineFor, AllocatedAs, InUse
      <2>2. PICK state \in InUse : SetAddress(x, state, r)
          BY <1>2 DEF ConfirmFor, QuarantineFor, InUse
      <2> QED BY <2>1, <2>2, Holder, SetAddressStep
  <1> QED BY <1>1, <1>2 DEF Provision

LEMMA IpamStep == IpamInv /\ [IpamNext]_ipamVars => IpamInv'
  <1> SUFFICES ASSUME IpamInv, [IpamNext]_ipamVars PROVE IpamInv'
      OBVIOUS
  <1>1. CASE UNCHANGED ipamVars
      BY <1>1
      DEF ipamVars, IpamInv, IpamTypeOK, PoolsDisjoint, SameScope, RowsInPool,
          AllocationMatchesAddress, OneAddressPerRequest
  <1>2. CASE IpamNext
      BY <1>2, PoolStep, DeletePoolStep, AdministratorStep, ProvisionStep
      DEF IpamNext, Administer
  <1> QED BY <1>1, <1>2

(* The inductive invariant: it holds initially and every operation of      *)
(* pools, administrators and provisioning keeps it.                        *)
THEOREM IpamInvariance == IpamSpec => []IpamInv
  <1>1. IpamInit => IpamInv
      <2> SUFFICES ASSUME IpamInit PROVE IpamInv
          OBVIOUS
      <2>1. IpamTypeOK
          BY DEF IpamInit, AddressesInit, IpamTypeOK, Scopes, States, NoAlloc
      <2>2. PoolsDisjoint
          BY DEF IpamInit, PoolsDisjoint
      <2>3. \A x \in Rows : addr[x] = "none" /\ alloc[x] = NoAlloc
          BY DEF IpamInit, AddressesInit
      <2>4. RowsInPool
          BY <2>3 DEF RowsInPool, Rows, InUse
      <2>5. AllocationMatchesAddress /\ OneAddressPerRequest
          BY <2>3 DEF AllocationMatchesAddress, OneAddressPerRequest, NoAlloc, InUse
      <2> QED BY <2>1, <2>2, <2>4, <2>5 DEF IpamInv
  <1> QED BY <1>1, IpamStep, PTL DEF IpamSpec

(* Every variable of Ipam keeps its type. *)
THEOREM IpamTypes == IpamSpec => []IpamTypeOK
  <1>1. IpamInv => IpamTypeOK
      BY DEF IpamInv
  <1> QED BY <1>1, IpamInvariance, PTL

(* No address is in use in two pools of overlapping scope: services/ipam.py *)
(* checks overlaps only between active pools, and that is enough.           *)
THEOREM IpamExclusive == IpamSpec => []ScopeExclusive
  <1>1. IpamInv => ScopeExclusive
      BY DEF IpamInv, ScopeExclusive, RowsInPool, PoolsDisjoint
  <1> QED BY <1>1, IpamInvariance, PTL

(* Address rows and their allocations, which are separate tables, agree. *)
THEOREM IpamAllocationsMatch == IpamSpec => []AllocationMatchesAddress
  <1>1. IpamInv => AllocationMatchesAddress
      BY DEF IpamInv
  <1> QED BY <1>1, IpamInvariance, PTL

(* reserve_for_provisioning, called again after a crash, never gives a     *)
(* request a second address.                                               *)
THEOREM IpamOneAddress == IpamSpec => []OneAddressPerRequest
  <1>1. IpamInv => OneAddressPerRequest
      BY DEF IpamInv
  <1> QED BY <1>1, IpamInvariance, PTL

(* SetAddress on a row keeps the others as they are; the row itself may go *)
(* on to a later state of the same holder.                                 *)
LEMMA SetAddressHandsOver ==
  ASSUME IpamTypeOK, NEW x \in Rows, NEW state \in InUse, NEW req \in Requests \cup {NoReq},
         SetAddress(x, state, req),
         \/ addr[x] \notin InUse
         \/ alloc[x].req = req /\ (addr[x] = "QUARANTINED" => state = "QUARANTINED"),
         NEW y \in Rows, addr[y] \in InUse
  PROVE  /\ addr'[y] \in InUse
         /\ alloc'[y].req = alloc[y].req
         /\ addr[y] = "QUARANTINED" => addr'[y] = "QUARANTINED"
  BY DEF SetAddress, IpamTypeOK

(* A step of Ipam hands an address over only as HandedOverAfterQuarantine  *)
(* says.                                                                   *)
LEMMA HandsOverStep ==
  IpamInv /\ [IpamNext]_ipamVars
    => [\A x \in Rows : addr[x] \in InUse => HandsOver(x)]_ipamVars
  <1> DEFINE Kept(x) == /\ addr'[x] \in InUse
                        /\ alloc'[x].req = alloc[x].req
                        /\ addr[x] = "QUARANTINED" => addr'[x] = "QUARANTINED"
             Freed(x) == addr'[x] = "AVAILABLE" /\ elapsed[x]
  <1> SUFFICES ASSUME IpamInv, IpamNext, NEW y \in Rows, addr[y] \in InUse
               PROVE  Kept(y) \/ Freed(y)
      BY DEF HandsOver
  <1>1. ASSUME NEW p \in Pools, Administer(p) PROVE Kept(y)
      BY <1>1 DEF Administer, CreatePool, UpdatePool, DeletePool, addrVars
  <1>2. ASSUME NEW x \in Rows, ReserveAddress(x) \/ QuarantineElapses(x) PROVE Kept(y)
      <2>1. CASE ReserveAddress(x)
          BY <2>1 DEF ReserveAddress, Candidate, InUse, IpamInv, IpamTypeOK
      <2>2. CASE QuarantineElapses(x)
          BY <2>2 DEF QuarantineElapses
      <2> QED BY <1>2, <2>1, <2>2
  <1>3. ASSUME NEW x \in Rows, Allocate(x) \/ Release(x) PROVE Kept(y)
      <2>1. CASE Allocate(x)
          BY <2>1, SetAddressHandsOver DEF Allocate, Candidate, InUse, IpamInv
      <2>2. CASE Release(x)
          <3>1. alloc[x].status \in InUse
              BY <2>2 DEF Release, InUse
          <3> QED BY <2>2, <3>1, Holder, SetAddressHandsOver DEF Release, InUse, IpamInv
      <2> QED BY <1>3, <2>1, <2>2
  <1>4. ASSUME NEW x \in Rows, ApproveRelease(x) PROVE Kept(y) \/ Freed(y)
      BY <1>4 DEF ApproveRelease, IpamInv, IpamTypeOK
  <1>5. ASSUME NEW x \in Rows, NEW r \in Requests, Provision(r, x) PROVE Kept(y)
      <2>1. CASE ReserveFor(r, x)
          BY <2>1, SetAddressHandsOver DEF ReserveFor, Candidate, InUse, IpamInv
      <2>2. CASE ConfirmFor(r, x) \/ QuarantineFor(r, x)
          <3>1. alloc[x].req = r /\ alloc[x].status = "RESERVED" /\ alloc[x].status \in InUse
              BY <2>2 DEF ConfirmFor, QuarantineFor, AllocatedAs, InUse
          <3>2. PICK state \in InUse : SetAddress(x, state, r)
              BY <2>2 DEF ConfirmFor, QuarantineFor, InUse
          <3> QED BY <3>1, <3>2, Holder, SetAddressHandsOver DEF IpamInv
      <2> QED BY <1>5, <2>1, <2>2 DEF Provision
  <1> QED BY <1>1, <1>2, <1>3, <1>4, <1>5 DEF IpamNext, AdministerAddress

(* Addresses pass from holder to holder only over an approved release of a *)
(* quarantine that has elapsed, whatever administrators and provisioning   *)
(* do meanwhile.                                                           *)
THEOREM IpamHandedOver == IpamSpec => HandedOverAfterQuarantine
  BY HandsOverStep, IpamInvariance, PTL DEF IpamSpec, HandedOverAfterQuarantine
=============================================================================
