------------------------------ MODULE MCConsole ------------------------------
(* Console for TLC: sessions of one customer for one workload. *)
EXTENDS Console, TLC

CONSTANTS u1, w1

MCUserOf     == [s \in Sessions |-> u1]
MCWorkloadOf == [s \in Sessions |-> w1]

(* Nobody has a refresh token. *)
Quiet == \A t \in Tokens : token[t] = NoToken

Asked == Cardinality({s \in Sessions : phase[s] # "none"})

(* Four sessions and requests of administrators in all, of which three may *)
(* be sessions; one session beside logouts and two requests about users;   *)
(* or no session and all of the requests.                                  *)
Few ==
  \/ Quiet /\ changes + Asked <= 4
  \/ /\ Asked <= 1
     /\ changes <= 2
     /\ joining = {} /\ assigning = {}
     /\ \A w \in Workloads : owner[w] # NoOrg /\ guest[w] = "running"
  \/ Quiet /\ Asked = 0

Symmetry == Permutations(Sessions)
=============================================================================
