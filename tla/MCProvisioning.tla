--------------------------- MODULE MCProvisioning ---------------------------
(* Provisioning for TLC: one pool and one node. *)
EXTENDS Provisioning, TLC

CONSTANTS p1, n1, g1, v1

Want(id, node, vmid, windows) == [id |-> id, node |-> node, vmid |-> vmid, windows |-> windows]

(* One request leaves node and VMID to the runner; the other asks for both *)
(* and has a password to protect.                                          *)
TwoRequests == {Want(1, NoNode, NoVmid, FALSE), Want(2, n1, v1, TRUE)}
OneRequest  == {Want(1, NoNode, NoVmid, FALSE)}

MCWantNode == [r \in Requests |-> r.node]
MCWantVmid == [r \in Requests |-> r.vmid]
MCWindows  == [r \in Requests |-> r.windows]
MCPoolOf   == [r \in Requests |-> p1]
MCPoolNet  == [p \in Pools |-> Addresses]
MCCapacity == [n \in Nodes |-> 1]
MCOrg      == [r \in Requests |-> g1]

(* Bounds: one worker dies or lets the lease of the request that names no  *)
(* VMID run out, the other request not yet claimed; a request that two     *)
(* workers run is not followed.  Where a worker died, administrators       *)
(* release and approve, but take no address for themselves.                *)
Few ==
  /\ Undoubled
  /\ overrun \subseteq OneRequest
  /\ Cardinality(overrun) + crashes <= 1
  /\ crashes > 0 => \A x \in Rows : addr[x] \in {"none", "AVAILABLE"} \/ alloc[x].req # NoReq
  /\ overrun # {} => \A r \in Requests \ OneRequest : req[r].status \in {"none", "QUEUED"}

Symmetry == Permutations(Workers)
=============================================================================
