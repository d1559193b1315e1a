----------------------------- MODULE MCClusters -----------------------------
(* Clusters for TLC: three requests about a cluster, and its pools. *)
EXTENDS Clusters, TLC

Symmetry == Permutations(Callers) \cup Permutations(Pools) \cup Permutations(Addresses)

(* Many requests with few pools and addresses, or the other way round. *)
Effort ==
  Cardinality({q \in Callers : ~Idle(q)}) + Cardinality({p \in Pools : net[p] # {}})
    + Cardinality({x \in Rows : addr[x] # "none"}) <= 4
=============================================================================
