--------------------------- MODULE ClustersProofs ---------------------------
(***************************************************************************)
(* Clusters and credentials under overlapping requests, for any number of  *)
(* clusters, callers, endpoints and credentials.                           *)
(***************************************************************************)
EXTENDS Clusters, IpamProofs

(* The address management does not notice the clusters: it is Ipam, with   *)
(* some of its steps left out where the cluster or the guest is missing.   *)
THEOREM ClustersUseIpam == ClustersSpec => IpamSpec
  <1>1. ClustersInit => IpamInit
      BY DEF ClustersInit
  <1>2. ClustersNext => [IpamNext]_ipamVars
      <2>1. ASSUME NEW q \in Callers, Call(q) \/ Edit(q) PROVE UNCHANGED ipamVars
          BY <2>1 DEF Call, Edit, UpdateReads, UpdateBegins, UpdateRereads, UpdateWrites, CallReads, CallRecords,
                ImportWrites, TargetWrites, Fail, DeleteReads, NodeReads, TemplateReads,
                DeleteWrites, NodeWrites, TemplateWrites
      <2>2. ASSUME NEW c \in Clusters, DeleteTemplate(c) \/ Assign(c) \/ Unassign(c)
            PROVE  UNCHANGED ipamVars
          BY <2>2 DEF DeleteTemplate, Assign, Unassign
      <2>3. ASSUME NEW p \in Pools, ManagePool(p) PROVE IpamNext
          BY <2>3 DEF ManagePool, IpamNext, Administer
      <2>4. ASSUME NEW x \in Rows, ManageAddress(x) PROVE IpamNext
          BY <2>4 DEF ManageAddress, IpamNext, AdministerAddress
      <2> QED BY <2>1, <2>2, <2>3, <2>4 DEF ClustersNext, Create
  <1>3. UNCHANGED allVars => UNCHANGED ipamVars
      BY DEF allVars
  <1> QED BY <1>1, <1>2, <1>3, PTL DEF ClustersSpec, IpamSpec

-----------------------------------------------------------------------------
(* The invariant.                                                          *)

(* A credential in use has been entered, for a cluster that exists. *)
Entered == \A c \in Clusters : \A k \in cred[c] : home[k] # Unset /\ cluster[c] # "none"

(* Credentials come in the order of their numbers, each with the secret of *)
(* one that is no younger.                                                 *)
Numbered ==
  \A k \in Credentials :
    home[k] # Unset => /\ \A j \in Credentials : j < k => home[j] # Unset
                       /\ entry[k] \in Credentials
                       /\ entry[k] <= k

(* An update names an endpoint and has read a credential of its cluster. *)
Begun ==
  \A q \in Callers :
    flight[q].op = "update" => /\ flight[q].url \in Endpoints
                               /\ flight[q].old \in Credentials
                               /\ home[flight[q].old] # Unset
                               /\ cluster[flight[q].c] # "none"

(* What an update has read is still so unless it was overtaken. *)
Current ==
  \A q \in Callers :
    flight[q].op = "update" /\ q \notin overtaken =>
      /\ cred[flight[q].c] \subseteq {flight[q].old}
      /\ flight[q].seen = endpoint[flight[q].c]
      /\ flight[q].renew # "secret" => flight[q].url = endpoint[flight[q].c]

ClustersInv == ClustersTypeOK /\ OneCredential /\ Entered /\ Numbered /\ Begun /\ Current

-----------------------------------------------------------------------------
(* Types.                                                                  *)

LEMMA FlightStep ==
  ASSUME flight \in [Callers -> Flights \cup {NoFlight, Over}],
         NEW q \in Callers, NEW f \in Flights \cup {NoFlight, Over},
         flight' = [flight EXCEPT ![q] = f]
  PROVE  flight' \in [Callers -> Flights \cup {NoFlight, Over}]
  OBVIOUS

LEMMA Flying ==
  ASSUME ClustersTypeOK, NEW q \in Callers, UnderWay(q)
  PROVE  flight[q] \in Flights
  BY DEF ClustersTypeOK, UnderWay, CallerOps, Calls, NoFlight, Over

LEMMA EndTypes ==
  ASSUME ClustersTypeOK, NEW q \in Callers, End(q)
  PROVE  flight' \in [Callers -> Flights \cup {NoFlight, Over}]
  BY FlightStep DEF ClustersTypeOK, End

LEMMA BeginTypes ==
  ASSUME ClustersTypeOK, NEW q \in Callers, NEW op \in CallerOps, NEW at \in Stages,
         NEW c \in Clusters, Begin(q, op, at, c)
  PROVE  flight' \in [Callers -> Flights \cup {NoFlight, Over}]
  <1> DEFINE f == [op |-> op, at |-> at, c |-> c, url |-> Unset, renew |-> "none",
                   seen |-> Unset, old |-> Unset, cred |-> Unset]
  <1>1. f \in Flights
      BY DEF Flights, Renewals
  <1>2. flight' = [flight EXCEPT ![q] = f]
      BY DEF Begin
  <1> HIDE DEF f
  <1> QED BY <1>1, <1>2, FlightStep DEF ClustersTypeOK

(* A request that has read a cluster has read values of the right types. *)
LEMMA ReadTypes ==
  ASSUME ClustersTypeOK, NEW q \in Callers, NEW c \in Clusters,
         (\E url \in Endpoints, renew \in Renewals : UpdateReads(q, c, url, renew))
           \/ DeleteReads(q, c)
  PROVE  flight' \in [Callers -> Flights \cup {NoFlight, Over}]
  <1>1. PICK f : f \in Flights /\ flight' = [flight EXCEPT ![q] = f]
      <2>1. CASE \E url \in Endpoints, renew \in Renewals : UpdateReads(q, c, url, renew)
          <3>1. PICK url \in Endpoints, renew \in Renewals : UpdateReads(q, c, url, renew)
              BY <2>1
          <3>2. PICK k \in cred[c] :
                  flight' = [flight EXCEPT ![q] =
                    [op |-> "update", at |-> "call", c |-> c, url |-> url, renew |-> renew,
                     seen |-> endpoint[c], old |-> k, cred |-> k]]
              BY <3>1 DEF UpdateReads, UpdateBegins
          <3>3. k \in Credentials /\ endpoint[c] \in Endpoints \cup {Unset}
              BY DEF ClustersTypeOK
          <3>4. [op |-> "update", at |-> "call", c |-> c, url |-> url, renew |-> renew,
                 seen |-> endpoint[c], old |-> k, cred |-> k] \in Flights
              BY <3>3 DEF Flights, CallerOps, Calls, Stages
          <3> QED BY <3>2, <3>4
      <2>2. CASE DeleteReads(q, c)
          <3>2. PICK k \in cred[c] :
                  flight' = [flight EXCEPT ![q] =
                    [op |-> "delete", at |-> "write", c |-> c, url |-> Unset, renew |-> "none",
                     seen |-> Unset, old |-> k, cred |-> k]]
              BY <2>2 DEF DeleteReads
          <3>3. k \in Credentials
              BY DEF ClustersTypeOK
          <3>4. [op |-> "delete", at |-> "write", c |-> c, url |-> Unset, renew |-> "none",
                 seen |-> Unset, old |-> k, cred |-> k] \in Flights
              BY <3>3 DEF Flights, Renewals, CallerOps, Calls, Stages
          <3> QED BY <3>2, <3>4
      <2> QED BY <2>1, <2>2
  <1> QED BY <1>1, FlightStep DEF ClustersTypeOK

LEMMA DoingTypes ==
  ASSUME ClustersTypeOK, NEW q \in Callers, NEW op \in CallerOps, NEW at, Doing(q, op, at)
  PROVE  flight[q] \in Flights /\ UnderWay(q) /\ flight[q].c \in Clusters
         /\ flight[q].url \in Endpoints \cup {Unset}
  BY Flying DEF Doing, UnderWay, Flights

(* The steps of an update and of an answer leave a typed request behind. *)
LEMMA MovedTypes ==
  ASSUME ClustersTypeOK, NEW q \in Callers,
         UpdateRereads(q) \/ \E ok \in BOOLEAN : CallRecords(q, ok)
  PROVE  flight' \in [Callers -> Flights \cup {NoFlight, Over}]
  <1>1. CASE UpdateRereads(q)
      <2>1. flight[q] \in Flights /\ flight[q].c \in Clusters
          BY <1>1, DoingTypes DEF UpdateRereads, CallerOps, Calls
      <2>2. PICK k \in cred[flight[q].c] :
              flight' = [flight EXCEPT ![q].at = "write", ![q].cred = k,
                                       ![q].seen = endpoint[flight[q].c]]
          BY <1>1 DEF UpdateRereads
      <2>3. k \in Credentials /\ endpoint[flight[q].c] \in Endpoints \cup {Unset}
          BY <2>1 DEF ClustersTypeOK
      <2> DEFINE f == [flight[q] EXCEPT !.at = "write", !.cred = k, !.seen = endpoint[flight[q].c]]
      <2>4. f \in Flights
          BY <2>1, <2>3 DEF Flights, Stages
      <2>5. flight' = [flight EXCEPT ![q] = f]
          BY <2>2 DEF ClustersTypeOK
      <2> HIDE DEF f
      <2> QED BY <2>4, <2>5, FlightStep DEF ClustersTypeOK
  <1>2. ASSUME NEW ok \in BOOLEAN, CallRecords(q, ok)
        PROVE  flight' \in [Callers -> Flights \cup {NoFlight, Over}]
      <2>1. flight[q] \in Flights
          BY <1>2, DoingTypes DEF CallRecords, CallerOps, Calls
      <2>2. End(q) \/ flight' = [flight EXCEPT ![q].at = "write"]
          BY <1>2 DEF CallRecords
      <2> DEFINE f == [flight[q] EXCEPT !.at = "write"]
      <2>3. f \in Flights
          BY <2>1 DEF Flights, Stages
      <2>4. flight' = [flight EXCEPT ![q].at = "write"] => flight' = [flight EXCEPT ![q] = f]
          BY DEF ClustersTypeOK
      <2> HIDE DEF f
      <2> QED BY <2>2, <2>3, <2>4, EndTypes, FlightStep DEF ClustersTypeOK
  <1> QED BY <1>1, <1>2

(* Every step keeps the types. *)
LEMMA TypesStep ==
  ASSUME ClustersTypeOK, Begun, ClustersNext
  PROVE  ClustersTypeOK'
  <1> DEFINE FlightOK == flight \in [Callers -> Flights \cup {NoFlight, Over}]
             RestOK == /\ cluster \in [Clusters -> ClusterStates]
                       /\ endpoint \in [Clusters -> Endpoints \cup {Unset}]
                       /\ contact \in [Clusters -> BOOLEAN]
                       /\ cred \in [Clusters -> SUBSET Credentials]
                       /\ home \in [Credentials -> Endpoints \cup {Unset}]
                       /\ entry \in [Credentials -> Credentials \cup {Unset}]
                       /\ overtaken \subseteq Callers
                       /\ guest \in [Clusters -> GuestStates]
                       /\ owned \subseteq Clusters
                       /\ nodes \subseteq Clusters
                       /\ templates \subseteq Clusters
                       /\ targets \subseteq Clusters
  <1>0. RestOK /\ FlightOK /\ (RestOK' /\ FlightOK' => ClustersTypeOK')
      BY DEF ClustersTypeOK
  <1>1. ASSUME NEW c \in Clusters, NEW url \in Endpoints, NEW new \in Credentials,
               Create(c, url, new)
        PROVE  ClustersTypeOK'
      BY <1>1 DEF Create, ClustersTypeOK, ClusterStates, dependentVars
  <1>2. ASSUME NEW q \in Callers, Call(q)
        PROVE  ClustersTypeOK'
      <2>1. ASSUME NEW c \in Clusters,
                   \E url \in Endpoints, renew \in Renewals : UpdateReads(q, c, url, renew)
            PROVE  ClustersTypeOK'
          <3>1. FlightOK'
              BY <2>1, ReadTypes
          <3> QED BY <1>0, <2>1, <3>1 DEF UpdateReads, UpdateBegins, credVars, dependentVars
      <2>2. CASE UpdateRereads(q)
          <3>1. FlightOK'
              BY <2>2, MovedTypes
          <3> QED BY <1>0, <2>2, <3>1 DEF UpdateRereads, credVars, dependentVars
      <2>3. CASE UpdateWrites(q)
          <3>1. flight[q].c \in Clusters /\ flight[q].url \in Endpoints \cup {Unset}
              BY <2>3, DoingTypes DEF UpdateWrites, CallerOps, Calls
          <3>2. FlightOK'
              BY <2>3, EndTypes DEF UpdateWrites
          <3>3. /\ cred' \in [Clusters -> SUBSET Credentials]
                /\ home' \in [Credentials -> Endpoints \cup {Unset}]
                /\ entry' \in [Credentials -> Credentials \cup {Unset}]
                /\ overtaken' \subseteq Callers
              <4>1. flight[q] \in Flights
                  BY <2>3, DoingTypes DEF UpdateWrites, CallerOps, Calls
              <4>2. overtaken' \subseteq Callers
                  BY <1>0, <2>3 DEF UpdateWrites
              <4>3. CASE UNCHANGED <<cred, home, entry>>
                  BY <1>0, <4>2, <4>3
              <4>4. ASSUME NEW new \in Credentials, Replace(flight[q], new)
                    PROVE  /\ cred' \in [Clusters -> SUBSET Credentials]
                           /\ home' \in [Credentials -> Endpoints \cup {Unset}]
                           /\ entry' \in [Credentials -> Credentials \cup {Unset}]
                  <5>1. flight[q].old \in Credentials
                      BY <2>3 DEF UpdateWrites, Doing, Begun
                  <5> QED BY <1>0, <3>1, <4>4, <5>1 DEF Replace, Insert
              <4> QED BY <2>3, <4>2, <4>3, <4>4 DEF UpdateWrites
          <3>4. endpoint' \in [Clusters -> Endpoints \cup {Unset}]
                /\ contact' \in [Clusters -> BOOLEAN]
              BY <1>0, <2>3, <3>1 DEF UpdateWrites
          <3> QED BY <1>0, <2>3, <3>2, <3>3, <3>4 DEF UpdateWrites, dependentVars
      <2>4. ASSUME NEW c \in Clusters, NEW op \in Calls \ {"update"}, CallReads(q, op, c)
            PROVE  ClustersTypeOK'
          <3>1. FlightOK'
              BY <2>4, BeginTypes DEF CallReads, CallerOps, Stages
          <3> QED BY <1>0, <2>4, <3>1 DEF CallReads, credVars, dependentVars
      <2>5. ASSUME NEW ok \in BOOLEAN, CallRecords(q, ok)
            PROVE  ClustersTypeOK'
          <3>1. FlightOK'
              BY <2>5, MovedTypes
          <3>2. contact' \in [Clusters -> BOOLEAN]
              BY <1>0, <2>5 DEF CallRecords
          <3> QED BY <1>0, <2>5, <3>1, <3>2 DEF CallRecords, credVars, dependentVars
      <2>6. ASSUME NEW state \in GuestStates, ImportWrites(q, state)
            PROVE  ClustersTypeOK'
          <3>1. FlightOK'
              BY <2>6, EndTypes DEF ImportWrites
          <3> QED BY <1>0, <2>6, <3>1 DEF ImportWrites, credVars
      <2>7. CASE TargetWrites(q)
          <3>1. FlightOK' /\ flight[q].c \in Clusters
              BY <2>7, EndTypes, DoingTypes DEF TargetWrites, CallerOps, Calls
          <3> QED BY <1>0, <2>7, <3>1 DEF TargetWrites, credVars
      <2>8. CASE Fail(q)
          <3>1. FlightOK'
              BY <2>8, EndTypes DEF Fail
          <3> QED BY <1>0, <2>8, <3>1 DEF Fail, credVars, dependentVars
      <2> QED BY <1>2, <2>1, <2>2, <2>3, <2>4, <2>5, <2>6, <2>7, <2>8 DEF Call
  <1>3. ASSUME NEW q \in Callers, Edit(q)
        PROVE  ClustersTypeOK'
      <2>1. ASSUME NEW c \in Clusters, DeleteReads(q, c) \/ NodeReads(q, c) \/ TemplateReads(q, c)
            PROVE  ClustersTypeOK'
          <3>1. FlightOK'
              BY <2>1, ReadTypes, BeginTypes DEF NodeReads, TemplateReads, CallerOps, Stages
          <3> QED BY <1>0, <2>1, <3>1
                  DEF DeleteReads, NodeReads, TemplateReads, credVars, dependentVars
      <2>2. CASE DeleteWrites(q)
          <3>1. FlightOK' /\ flight[q].c \in Clusters
              BY <2>2, EndTypes, DoingTypes DEF DeleteWrites, CallerOps
          <3>2. cred' \in [Clusters -> SUBSET Credentials]
              BY <1>0, <2>2, <3>1 DEF DeleteWrites
          <3>3. guest' \in [Clusters -> GuestStates] /\ cluster' \in [Clusters -> ClusterStates]
              BY <1>0, <2>2, <3>1 DEF DeleteWrites, GuestStates, ClusterStates
          <3> QED BY <1>0, <2>2, <3>1, <3>2, <3>3 DEF DeleteWrites
      <2>3. CASE NodeWrites(q)
          <3>1. FlightOK' /\ flight[q].c \in Clusters
              BY <2>3, EndTypes, DoingTypes DEF NodeWrites, CallerOps
          <3> QED BY <1>0, <2>3, <3>1 DEF NodeWrites, credVars
      <2>4. ASSUME NEW moved, TemplateWrites(q, moved)
            PROVE  ClustersTypeOK'
          <3>1. FlightOK' /\ flight[q].c \in Clusters
              BY <2>4, EndTypes, DoingTypes DEF TemplateWrites, CallerOps
          <3> QED BY <1>0, <2>4, <3>1 DEF TemplateWrites, credVars
      <2> QED BY <1>3, <2>1, <2>2, <2>3, <2>4 DEF Edit
  <1>4. ASSUME NEW c \in Clusters, DeleteTemplate(c) \/ Assign(c) \/ Unassign(c)
        PROVE  ClustersTypeOK'
      BY <1>4 DEF DeleteTemplate, Assign, Unassign, ClustersTypeOK, credVars
  <1>5. CASE UNCHANGED <<cluster, endpoint, contact, credVars, dependentVars, flight>>
      BY <1>5 DEF ClustersTypeOK, credVars, dependentVars
  <1> QED BY <1>1, <1>2, <1>3, <1>4, <1>5 DEF ClustersNext

-----------------------------------------------------------------------------
(* Credentials.                                                            *)

(* The three operations that touch clusters and credentials, and the rest. *)
LEMMA CredentialCases ==
  ASSUME ClustersNext
  PROVE  \/ \E c \in Clusters, url \in Endpoints, new \in Credentials : Create(c, url, new)
         \/ \E q \in Callers : UpdateWrites(q) \/ DeleteWrites(q)
         \/ UNCHANGED <<cluster, endpoint, credVars>>
  <1>1. ASSUME NEW q \in Callers, Call(q)
        PROVE  UpdateWrites(q) \/ UNCHANGED <<cluster, endpoint, credVars>>
      BY <1>1 DEF Call, UpdateReads, UpdateBegins, UpdateRereads, CallReads, CallRecords,
                  ImportWrites, TargetWrites, Fail
  <1>2. ASSUME NEW q \in Callers, Edit(q)
        PROVE  DeleteWrites(q) \/ UNCHANGED <<cluster, endpoint, credVars>>
      BY <1>2 DEF Edit, DeleteReads, NodeReads, TemplateReads, NodeWrites, TemplateWrites
  <1>3. ASSUME NEW c \in Clusters, DeleteTemplate(c) \/ Assign(c) \/ Unassign(c)
        PROVE  UNCHANGED <<cluster, endpoint, credVars>>
      BY <1>3 DEF DeleteTemplate, Assign, Unassign
  <1> QED BY <1>1, <1>2, <1>3 DEF ClustersNext

(* A write of an update that brings a credential: what it inserts is fresh *)
(* and was entered no later than itself.                                   *)
LEMMA InsertStep ==
  ASSUME ClustersInv, NEW q \in Callers, flight[q].op = "update", NEW new \in Credentials,
         Insert(flight[q], new)
  PROVE  /\ home[new] = Unset /\ home'[new] # Unset
         /\ entry'[new] \in Credentials /\ entry'[new] <= new
         /\ \A k \in Credentials \ {new} : home'[k] = home[k] /\ entry'[k] = entry[k]
  <1> DEFINE f == flight[q]
  <1>1. /\ f.url \in Endpoints /\ f.old \in Credentials /\ home[f.old] # Unset
        /\ home \in [Credentials -> Endpoints \cup {Unset}]
        /\ entry \in [Credentials -> Credentials \cup {Unset}]
      BY DEF ClustersInv, ClustersTypeOK, Begun
  <1>2. Fresh(new) /\ home[new] = Unset
      BY DEF Insert, Fresh
  <1>3. \A k \in Credentials \ {new} : home'[k] = home[k] /\ entry'[k] = entry[k]
      BY <1>1 DEF Insert
  <1>4. f.url # Unset
      BY <1>1, UnsetAssumption
  <1>5. home'[new] # Unset
      BY <1>1, <1>4 DEF Insert
  <1>6. CASE f.renew = "secret"
      BY <1>1, <1>2, <1>3, <1>5, <1>6, CredentialAssumption DEF Insert
  <1>7. CASE f.renew # "secret"
      <2>1. entry'[new] = entry[f.old]
          BY <1>1, <1>7 DEF Insert
      <2>2. entry[f.old] \in Credentials /\ entry[f.old] <= f.old
          BY <1>1 DEF ClustersInv, Numbered
      <2>3. ~(new < f.old)
          BY <1>1, <1>2 DEF ClustersInv, Numbered
      <2>4. f.old \in Nat /\ new \in Nat /\ entry[f.old] \in Nat
          BY <1>1, <2>2, CredentialAssumption
      <2>5. entry'[new] <= new
          BY <2>1, <2>2, <2>3, <2>4
      <2> QED BY <1>2, <1>3, <1>5, <2>1, <2>2, <2>5
  <1> QED BY <1>6, <1>7

(* The numbers are handed out in order, and never twice. *)
LEMMA NumberedStep ==
  ASSUME ClustersInv, ClustersNext
  PROVE  Numbered' /\ \A k \in Credentials : home[k] # Unset => home'[k] # Unset
  <1> DEFINE Goal == Numbered' /\ \A k \in Credentials : home[k] # Unset => home'[k] # Unset
  <1>1. ASSUME NEW new \in Credentials, Fresh(new), home'[new] # Unset,
               entry'[new] \in Credentials, entry'[new] <= new,
               \A k \in Credentials \ {new} : home'[k] = home[k] /\ entry'[k] = entry[k]
        PROVE  Goal
      BY <1>1, CredentialAssumption DEF ClustersInv, Numbered, Fresh
  <1>2. ASSUME NEW c \in Clusters, NEW url \in Endpoints, NEW new \in Credentials,
               Create(c, url, new)
        PROVE  Goal
      <2>1. url # Unset
          BY UnsetAssumption
      <2>2. /\ home'[new] # Unset /\ entry'[new] = new /\ Fresh(new)
            /\ \A k \in Credentials \ {new} : home'[k] = home[k] /\ entry'[k] = entry[k]
          BY <1>2, <2>1 DEF Create, ClustersInv, ClustersTypeOK
      <2> QED BY <1>1, <2>2, CredentialAssumption
  <1>3. CASE UNCHANGED <<home, entry>>
      BY <1>3 DEF ClustersInv, Numbered
  <1>4. ASSUME NEW q \in Callers, UpdateWrites(q)
        PROVE  Goal
      <2>1. flight[q].op = "update"
          BY <1>4 DEF UpdateWrites, Doing
      <2>2. ASSUME NEW new \in Credentials, Replace(flight[q], new)
            PROVE  Goal
          BY <1>1, <2>1, <2>2, InsertStep DEF Replace, Insert
      <2> QED BY <1>3, <1>4, <2>2 DEF UpdateWrites
  <1>5. ASSUME NEW q \in Callers, DeleteWrites(q)
        PROVE  UNCHANGED <<home, entry>>
      BY <1>5 DEF DeleteWrites
  <1>6. CASE UNCHANGED <<cluster, endpoint, credVars>>
      BY <1>3, <1>6 DEF credVars
  <1> QED BY <1>2, <1>3, <1>4, <1>5, <1>6, CredentialCases

LEMMA CredentialStep ==
  ASSUME ClustersInv, ClustersNext
  PROVE  OneCredential' /\ Entered' /\ \A c \in Clusters : cluster[c] # "none" => cluster'[c] # "none"
  <1> DEFINE Goal == /\ OneCredential' /\ Entered'
                     /\ \A c \in Clusters : cluster[c] # "none" => cluster'[c] # "none"
  <1>1. ASSUME NEW c \in Clusters, NEW url \in Endpoints, NEW new \in Credentials,
               Create(c, url, new)
        PROVE  Goal
      <2>1. url # Unset
          BY UnsetAssumption
      <2> QED BY <1>1, <2>1 DEF Create, ClustersInv, ClustersTypeOK, OneCredential, Entered
  <1>2. ASSUME NEW q \in Callers, UpdateWrites(q)
        PROVE  Goal
      <2>1. /\ flight[q].op = "update" /\ flight[q].c \in Clusters /\ cluster' = cluster
            /\ cluster[flight[q].c] # "none"
          BY <1>2, DoingTypes DEF UpdateWrites, Doing, CallerOps, Calls, ClustersInv, Begun
      <2>2. CASE UNCHANGED <<cred, home, entry>>
          BY <2>1, <2>2 DEF ClustersInv, OneCredential, Entered
      <2>3. ASSUME NEW new \in Credentials, Replace(flight[q], new)
            PROVE  Goal
          <3>1. cred' = [cred EXCEPT ![flight[q].c] = {new}]
              BY <2>3 DEF Replace
          <3>2. /\ home[new] = Unset /\ home'[new] # Unset
                /\ \A k \in Credentials \ {new} : home'[k] = home[k]
              BY <2>1, <2>3, InsertStep DEF Replace
          <3> QED BY <2>1, <3>1, <3>2 DEF ClustersInv, ClustersTypeOK, OneCredential, Entered
      <2> QED BY <1>2, <2>2, <2>3 DEF UpdateWrites
  <1>3. ASSUME NEW q \in Callers, DeleteWrites(q)
        PROVE  Goal
      <2>1. flight[q].c \in Clusters
          BY <1>3, DoingTypes DEF DeleteWrites, CallerOps, ClustersInv
      <2> QED BY <1>3, <2>1 DEF DeleteWrites, ClustersInv, ClustersTypeOK, OneCredential, Entered
  <1>4. CASE UNCHANGED <<cluster, endpoint, credVars>>
      BY <1>4 DEF credVars, ClustersInv, OneCredential, Entered
  <1> QED BY <1>1, <1>2, <1>3, <1>4, CredentialCases

-----------------------------------------------------------------------------
(* Updates.                                                                *)

(* An update was under way before, begins now, or reads a second time. *)
LEMMA UpdateCases ==
  ASSUME ClustersTypeOK, ClustersNext, NEW p \in Callers, flight'[p].op = "update"
  PROVE  \/ flight'[p] = flight[p]
         \/ \E c \in Clusters, url \in Endpoints, renew \in Renewals : UpdateReads(p, c, url, renew)
         \/ UpdateRereads(p)
  <1> DEFINE Goal == \/ flight'[p] = flight[p]
                     \/ \E c \in Clusters, url \in Endpoints, renew \in Renewals :
                          UpdateReads(p, c, url, renew)
                     \/ UpdateRereads(p)
  <1>1. ASSUME NEW q \in Callers, NEW f, flight' = [flight EXCEPT ![q] = f], q = p => f.op # "update"
        PROVE  Goal
      BY <1>1 DEF ClustersTypeOK
  <1>2. ASSUME NEW q \in Callers, End(q) PROVE Goal
      BY <1>1, <1>2 DEF End, Over
  <1>3. ASSUME NEW q \in Callers, NEW op, NEW at, NEW c, op # "update", Begin(q, op, at, c)
        PROVE  Goal
      BY <1>1, <1>3 DEF Begin
  <1>4. ASSUME NEW q \in Callers, NEW c \in Clusters, NEW url \in Endpoints, NEW renew \in Renewals,
               UpdateReads(q, c, url, renew)
        PROVE  Goal
      <2>1. q # p => flight'[p] = flight[p]
          BY <1>4 DEF UpdateReads, UpdateBegins, ClustersTypeOK
      <2> QED BY <1>4, <2>1
  <1>5. ASSUME NEW q \in Callers, UpdateRereads(q) PROVE Goal
      <2>1. q # p => flight'[p] = flight[p]
          BY <1>5 DEF UpdateRereads, ClustersTypeOK
      <2> QED BY <1>5, <2>1
  <1>6. ASSUME NEW q \in Callers, NEW ok \in BOOLEAN, CallRecords(q, ok) PROVE Goal
      <2>1. flight[q] \in Flights /\ flight[q].op # "update"
          BY <1>6, DoingTypes DEF CallRecords, Doing, CallerOps, Calls
      <2>2. CASE flight' = [flight EXCEPT ![q].at = "write"]
          <3> DEFINE f == [flight[q] EXCEPT !.at = "write"]
          <3>1. f.op # "update" /\ flight' = [flight EXCEPT ![q] = f]
              BY <2>1, <2>2 DEF ClustersTypeOK, Flights
          <3> HIDE DEF f
          <3> QED BY <1>1, <3>1
      <2> QED BY <1>2, <1>6, <2>2 DEF CallRecords
  <1>7. ASSUME NEW q \in Callers, NEW c \in Clusters, DeleteReads(q, c) PROVE Goal
      <2>1. PICK k \in cred[c] :
              flight' = [flight EXCEPT ![q] =
                [op |-> "delete", at |-> "write", c |-> c, url |-> Unset, renew |-> "none",
                 seen |-> Unset, old |-> k, cred |-> k]]
          BY <1>7 DEF DeleteReads
      <2> QED BY <1>1, <2>1
  <1>8. CASE UNCHANGED flight
      BY <1>8
  <1>9. ASSUME NEW q \in Callers, Call(q) PROVE Goal
      <2>1. \/ \E c \in Clusters, url \in Endpoints, renew \in Renewals : UpdateReads(q, c, url, renew)
            \/ UpdateRereads(q) \/ \E ok \in BOOLEAN : CallRecords(q, ok)
            \/ \E c \in Clusters, op \in Calls \ {"update"} : Begin(q, op, "call", c)
            \/ End(q)
          BY <1>9 DEF Call, UpdateWrites, CallReads, ImportWrites, TargetWrites, Fail
      <2> QED BY <2>1, <1>2, <1>3, <1>4, <1>5, <1>6
  <1>10. ASSUME NEW q \in Callers, Edit(q) PROVE Goal
      <2>1. \/ \E c \in Clusters : \/ DeleteReads(q, c)
                                  \/ Begin(q, "node", "write", c)
                                  \/ Begin(q, "template", "write", c)
            \/ End(q)
          BY <1>10 DEF Edit, NodeReads, TemplateReads, DeleteWrites, NodeWrites, TemplateWrites
      <2> QED BY <2>1, <1>2, <1>3, <1>7
  <1> QED BY <1>8, <1>9, <1>10 DEF ClustersNext, Create, DeleteTemplate, Assign, Unassign

(* Who changes the endpoint or the credential of a cluster overtakes every *)
(* other update of it.                                                     *)
LEMMA Undisturbed ==
  ASSUME ClustersInv, ClustersNext, NEW p \in Callers, flight[p].op = "update",
         flight'[p] = flight[p], p \notin overtaken'
  PROVE  /\ p \notin overtaken
         /\ cred'[flight[p].c] \subseteq cred[flight[p].c]
         /\ endpoint'[flight[p].c] = endpoint[flight[p].c]
  <1> DEFINE c == flight[p].c
  <1>0. c \in Clusters /\ cluster[c] # "none" /\ ClustersTypeOK
      BY Flying DEF ClustersInv, Begun, UnderWay, CallerOps, Calls, Flights
  <1>1. ASSUME NEW d \in Clusters, NEW url \in Endpoints, NEW new \in Credentials, Create(d, url, new)
        PROVE  /\ p \notin overtaken /\ cred'[c] = cred[c] /\ endpoint'[c] = endpoint[c]
      BY <1>0, <1>1 DEF Create, ClustersTypeOK
  <1>2. ASSUME NEW q \in Callers, UpdateWrites(q)
        PROVE  /\ p \notin overtaken /\ cred'[c] = cred[c] /\ endpoint'[c] = endpoint[c]
      <2> DEFINE f == flight[q]
      <2>1. q # p
          BY <1>0, <1>2 DEF UpdateWrites, End, Over, ClustersTypeOK
      <2>2. f.c \in Clusters
          BY <1>0, <1>2, DoingTypes DEF UpdateWrites, CallerOps, Calls
      <2>3. p \notin overtaken
          BY <1>2 DEF UpdateWrites
      <2>4. f.c = c => f.renew = "none" /\ f.url = f.seen
          BY <1>2, <2>1 DEF UpdateWrites, Updating
      <2>5. cred'[c] = cred[c]
          BY <1>0, <1>2, <2>2, <2>4 DEF UpdateWrites, Replace, ClustersTypeOK
      <2>6. endpoint'[c] = endpoint[c]
          BY <1>0, <1>2, <2>2, <2>4 DEF UpdateWrites, ClustersTypeOK
      <2> QED BY <2>3, <2>5, <2>6
  <1>3. ASSUME NEW q \in Callers, DeleteWrites(q)
        PROVE  /\ p \notin overtaken /\ cred'[c] \subseteq cred[c] /\ endpoint'[c] = endpoint[c]
      BY <1>0, <1>3 DEF DeleteWrites, ClustersTypeOK
  <1>4. CASE UNCHANGED <<cluster, endpoint, credVars>>
      BY <1>4 DEF credVars
  <1> QED BY <1>1, <1>2, <1>3, <1>4, CredentialCases

LEMMA UpdatesStep ==
  ASSUME ClustersInv, ClustersNext
  PROVE  Begun' /\ Current'
  <1>1. SUFFICES ASSUME NEW p \in Callers, flight'[p].op = "update"
        PROVE  LET f == flight'[p] IN
               /\ f.url \in Endpoints /\ f.old \in Credentials /\ home'[f.old] # Unset
               /\ cluster'[f.c] # "none"
               /\ p \notin overtaken' => /\ cred'[f.c] \subseteq {f.old}
                                         /\ f.seen = endpoint'[f.c]
                                         /\ f.renew # "secret" => f.url = endpoint'[f.c]
      BY DEF Begun, Current
  <1>0. ClustersTypeOK
      BY DEF ClustersInv
  <1>2. CASE flight'[p] = flight[p]
      <2> DEFINE f == flight[p]
      <2>1. f.c \in Clusters
          BY <1>0, <1>1, <1>2, Flying DEF UnderWay, CallerOps, Calls, Flights
      <2>2. f.url \in Endpoints /\ f.old \in Credentials /\ home[f.old] # Unset /\ cluster[f.c] # "none"
          BY <1>1, <1>2 DEF ClustersInv, Begun
      <2>3. home'[f.old] # Unset /\ cluster'[f.c] # "none"
          BY <2>1, <2>2, NumberedStep, CredentialStep
      <2>4. p \notin overtaken' => /\ cred'[f.c] \subseteq {f.old}
                                   /\ f.seen = endpoint'[f.c]
                                   /\ f.renew # "secret" => f.url = endpoint'[f.c]
          BY <1>1, <1>2, Undisturbed DEF ClustersInv, Current
      <2> QED BY <1>2, <2>2, <2>3, <2>4
  <1>3. ASSUME NEW c \in Clusters, NEW url \in Endpoints, NEW renew \in Renewals,
               UpdateReads(p, c, url, renew), NEW k \in cred[c], UpdateBegins(p, c, url, renew, k)
        PROVE  LET f == flight'[p] IN
               /\ f.url \in Endpoints /\ f.old \in Credentials /\ home'[f.old] # Unset
               /\ cluster'[f.c] # "none"
               /\ cred'[f.c] \subseteq {f.old}
               /\ f.seen = endpoint'[f.c]
               /\ f.renew # "secret" => f.url = endpoint'[f.c]
      <2>1. flight'[p] = [op |-> "update", at |-> "call", c |-> c, url |-> url, renew |-> renew,
                          seen |-> endpoint[c], old |-> k, cred |-> k]
          BY <1>0, <1>3 DEF UpdateBegins, ClustersTypeOK
      <2>2. UNCHANGED <<cluster, endpoint, cred, home>>
          BY <1>3 DEF UpdateBegins, credVars
      <2>3. k \in Credentials /\ home[k] # Unset /\ cred[c] \subseteq {k}
          BY <1>0, <1>3 DEF ClustersInv, ClustersTypeOK, Entered, OneCredential
      <2>4. cluster[c] # "none" /\ (url = endpoint[c] \/ renew = "secret")
          BY <1>3 DEF UpdateReads
      <2> QED BY <2>1, <2>2, <2>3, <2>4
  <1>4. CASE UpdateRereads(p)
      <2> DEFINE f == flight[p]
                 g == flight'[p]
      <2>1. f \in Flights /\ f.op = "update"
          BY <1>0, <1>4, DoingTypes DEF UpdateRereads, Doing, CallerOps, Calls
      <2>2. g.url = f.url /\ g.old = f.old /\ g.c = f.c /\ g.renew = f.renew /\ g.seen = endpoint[f.c]
          BY <1>0, <1>4, <2>1 DEF UpdateRereads, ClustersTypeOK, Flights
      <2>3. UNCHANGED <<cluster, endpoint, cred, home, overtaken>>
          BY <1>4 DEF UpdateRereads, credVars
      <2> HIDE DEF g
      <2>4. /\ g.url \in Endpoints /\ g.old \in Credentials /\ home[g.old] # Unset
            /\ cluster[g.c] # "none"
          BY <2>1, <2>2 DEF ClustersInv, Begun
      <2>5. p \notin overtaken => /\ cred[g.c] \subseteq {g.old}
                                  /\ g.renew # "secret" => g.url = endpoint[g.c]
          BY <2>1, <2>2 DEF ClustersInv, Current
      <2> QED BY <2>2, <2>3, <2>4, <2>5 DEF g
  <1>5. CASE \E c \in Clusters, url \in Endpoints, renew \in Renewals : UpdateReads(p, c, url, renew)
      <2>1. PICK c \in Clusters, url \in Endpoints, renew \in Renewals : UpdateReads(p, c, url, renew)
          BY <1>5
      <2>2. PICK k \in cred[c] : UpdateBegins(p, c, url, renew, k)
          BY <2>1 DEF UpdateReads
      <2> QED BY <1>3, <2>1, <2>2
  <1> QED BY <1>0, <1>1, <1>2, <1>4, <1>5, UpdateCases

(* The inductive invariant of clusters, credentials and updates. *)
THEOREM ClustersInvariance == ClustersSpec => []ClustersInv
  <1>1. ClustersInit => ClustersInv
      BY DEF ClustersInit, ClustersInv, ClustersTypeOK, OneCredential, Entered, Numbered, Begun,
             Current, ClusterStates, GuestStates, NoFlight
  <1>2. ClustersInv /\ [ClustersNext]_allVars => ClustersInv'
      <2>1. ASSUME ClustersInv, UNCHANGED allVars PROVE ClustersInv'
          BY <2>1 DEF allVars, credVars, dependentVars, ClustersInv, ClustersTypeOK, OneCredential,
                      Entered, Numbered, Begun, Current
      <2>2. ASSUME ClustersInv, ClustersNext PROVE ClustersInv'
          BY <2>2, TypesStep, CredentialStep, NumberedStep, UpdatesStep DEF ClustersInv
      <2> QED BY <2>1, <2>2
  <1> QED BY <1>1, <1>2, PTL DEF ClustersSpec

(* Every variable keeps its type, for any number of overlapping requests. *)
THEOREM ClustersTypes == ClustersSpec => []ClustersTypeOK
  <1>1. ClustersInv => ClustersTypeOK
      BY DEF ClustersInv
  <1> QED BY <1>1, ClustersInvariance, PTL

(* update and delete of services/clusters.py together never leave an       *)
(* active cluster without a credential; the index keeps it at one.         *)
THEOREM CredentialIsOne == ClustersSpec => []OneCredential
  <1>1. ClustersInv => OneCredential
      BY DEF ClustersInv
  <1> QED BY <1>1, ClustersInvariance, PTL

(* A secret is sent to another endpoint than its own only where an update  *)
(* was overtaken between its reads and its write.                          *)
THEOREM SecretsStay == ClustersSpec => SecretStaysHome
  <1>1. ASSUME ClustersInv, ClustersNext, NEW c \in Clusters, cred[c] # {}, Paired(c),
               ~\E q \in Callers : Overlooks(q, c)
        PROVE  Paired(c)'
      <2>0. ClustersTypeOK
          BY <1>1 DEF ClustersInv
      <2>1. ASSUME NEW d \in Clusters, NEW url \in Endpoints, NEW new \in Credentials,
                   Create(d, url, new)
            PROVE  Paired(c)'
          <3>1. new \notin cred[c]
              BY <1>1, <2>1 DEF Create, Fresh, ClustersInv, Entered
          <3> QED BY <1>1, <2>0, <2>1, <3>1 DEF Create, Paired, ClustersTypeOK
      <2>2. ASSUME NEW q \in Callers, UpdateWrites(q)
            PROVE  Paired(c)'
          <3> DEFINE f == flight[q]
          <3>1. f.c \in Clusters /\ f.op = "update" /\ f.at = "write"
              BY <2>0, <2>2, DoingTypes DEF UpdateWrites, Doing, CallerOps, Calls
          <3>2. endpoint' = IF f.url = f.seen THEN endpoint ELSE [endpoint EXCEPT ![f.c] = f.url]
              BY <2>2 DEF UpdateWrites
          <3>3. \/ f.renew # "none" /\ \E new \in Credentials : Replace(f, new)
                \/ f.renew = "none" /\ UNCHANGED <<cred, home>>
              BY <2>2 DEF UpdateWrites
          <3>4. CASE f.c = c
              <4>1. f.seen = endpoint[c]
                  BY <1>1, <3>1, <3>4 DEF Overlooks, Updating, ClustersInv, Current
              <4>2. endpoint'[c] = f.url
                  BY <2>0, <3>2, <3>4, <4>1 DEF ClustersTypeOK
              <4>3. f.renew # "secret" => f.url = endpoint[c] /\ cred[c] = {f.old}
                  BY <1>1, <3>1, <3>4 DEF Overlooks, Updating, ClustersInv, Current
              <4>4. CASE f.renew = "none"
                  BY <1>1, <3>3, <4>2, <4>3, <4>4 DEF Paired
              <4>5. ASSUME NEW new \in Credentials, Replace(f, new) PROVE Paired(c)'
                  <5>1. cred'[c] = {new}
                      BY <2>0, <3>4, <4>5 DEF Replace, ClustersTypeOK
                  <5>2. home'[new] = IF f.renew = "secret" THEN f.url ELSE home[f.old]
                      BY <2>0, <4>5 DEF Replace, Insert, ClustersTypeOK
                  <5>3. f.renew # "secret" => home[f.old] = endpoint[c]
                      BY <1>1, <4>3 DEF Paired
                  <5> QED BY <4>2, <4>3, <5>1, <5>2, <5>3 DEF Paired
              <4> QED BY <3>3, <4>4, <4>5
          <3>5. CASE f.c # c
              <4>1. endpoint'[c] = endpoint[c]
                  BY <2>0, <3>2, <3>5 DEF ClustersTypeOK
              <4>2. CASE UNCHANGED <<cred, home>>
                  BY <1>1, <4>1, <4>2 DEF Paired
              <4>3. ASSUME NEW new \in Credentials, Replace(f, new) PROVE Paired(c)'
                  <5>1. new \notin cred[c] /\ \A k \in Credentials \ {new} : home'[k] = home[k]
                      BY <1>1, <3>1, <4>3, InsertStep DEF Replace, ClustersInv, Entered
                  <5>2. cred'[c] = cred[c] /\ cred[c] \subseteq Credentials
                      BY <2>0, <3>5, <4>3 DEF Replace, ClustersTypeOK
                  <5> QED BY <1>1, <4>1, <5>1, <5>2 DEF Paired
              <4> QED BY <3>3, <4>2, <4>3
          <3> QED BY <3>4, <3>5
      <2>3. ASSUME NEW q \in Callers, DeleteWrites(q)
            PROVE  Paired(c)'
          <3>1. cred'[c] \subseteq cred[c] /\ UNCHANGED <<endpoint, home>>
              BY <2>0, <2>3 DEF DeleteWrites, ClustersTypeOK
          <3> QED BY <1>1, <3>1 DEF Paired
      <2>4. CASE UNCHANGED <<cluster, endpoint, credVars>>
          BY <1>1, <2>4 DEF Paired, credVars
      <2> QED BY <1>1, <2>1, <2>2, <2>3, <2>4, CredentialCases
  <1>2. ClustersInv /\ [ClustersNext]_allVars =>
          [\A c \in Clusters :
             cred[c] # {} /\ Paired(c) => Paired(c)' \/ \E q \in Callers : Overlooks(q, c)]_allVars
      BY <1>1
  <1> QED BY <1>2, ClustersInvariance, PTL DEF ClustersSpec, SecretStaysHome

(* A replaced secret comes back only through an overtaken update with a    *)
(* token identifier alone, the one that encrypts what it decrypted before. *)
THEOREM SecretsForward == ClustersSpec => SecretsGoForward
  <1>1. ASSUME ClustersInv, ClustersNext, NEW c \in Clusters, NEW k \in cred[c], NEW l \in cred'[c],
               ~\E q \in overtaken : Updating(q, c) /\ flight[q].renew = "reinsert"
        PROVE  entry'[l] >= entry[k]
      <2>0. /\ ClustersTypeOK /\ k \in Credentials /\ home[k] # Unset
            /\ entry[k] \in Credentials /\ entry[k] <= k
          BY <1>1 DEF ClustersInv, ClustersTypeOK, Entered, Numbered
      <2>9. k \in Nat /\ entry[k] \in Nat
          BY <2>0, CredentialAssumption
      <2>1. ASSUME cred'[c] \subseteq cred[c], entry'[k] = entry[k]
            PROVE  entry'[l] >= entry[k]
          <3>1. l = k
              BY <1>1, <2>1 DEF ClustersInv, OneCredential
          <3> QED BY <2>1, <2>9, <3>1
      <2>2. ASSUME NEW d \in Clusters, NEW url \in Endpoints, NEW new \in Credentials,
                   Create(d, url, new)
            PROVE  entry'[l] >= entry[k]
          <3>1. c # d /\ new # k
              BY <1>1, <2>0, <2>2 DEF Create, Fresh, ClustersInv, Entered
          <3> QED BY <2>0, <2>1, <2>2, <3>1 DEF Create, ClustersTypeOK
      <2>3. ASSUME NEW q \in Callers, UpdateWrites(q)
            PROVE  entry'[l] >= entry[k]
          <3> DEFINE f == flight[q]
          <3>1. f.c \in Clusters /\ f.op = "update" /\ f.renew \in Renewals
              BY <2>0, <2>3, DoingTypes DEF UpdateWrites, Doing, CallerOps, Calls, Flights
          <3>2. CASE UNCHANGED <<cred, home, entry>>
              BY <2>1, <3>2
          <3>3. ASSUME NEW new \in Credentials, Replace(f, new), f.renew # "none"
                PROVE  entry'[l] >= entry[k]
              <4>1. /\ home[new] = Unset /\ new # k
                    /\ \A j \in Credentials \ {new} : entry'[j] = entry[j]
                  BY <1>1, <2>0, <3>1, <3>3, InsertStep DEF Replace
              <4>2. CASE f.c # c
                  BY <2>0, <2>1, <3>1, <3>3, <4>1, <4>2 DEF Replace, ClustersTypeOK
              <4>3. CASE f.c = c
                  <5>1. l = new
                      BY <1>1, <2>0, <3>3, <4>3 DEF Replace, ClustersTypeOK
                  <5>2. CASE f.renew = "secret"
                      <6>1. entry'[new] = new
                          BY <2>0, <3>3, <5>2 DEF Replace, Insert, ClustersTypeOK
                      <6>2. ~(new < k)
                          BY <1>1, <2>0, <4>1 DEF ClustersInv, Numbered
                      <6>3. new \in Nat
                          BY CredentialAssumption
                      <6> QED BY <2>0, <2>9, <5>1, <6>1, <6>2, <6>3
                  <5>3. CASE f.renew = "reinsert"
                      <6>1. q \notin overtaken
                          BY <1>1, <3>1, <4>3, <5>3 DEF Updating
                      <6>2. k = f.old
                          BY <1>1, <3>1, <4>3, <6>1 DEF ClustersInv, Current
                      <6>3. entry'[new] = entry[k]
                          BY <2>0, <3>3, <5>3, <6>2 DEF Replace, Insert, ClustersTypeOK
                      <6> QED BY <2>9, <5>1, <6>3
                  <5> QED BY <3>1, <3>3, <5>2, <5>3 DEF Renewals
              <4> QED BY <4>2, <4>3
          <3> QED BY <2>3, <3>2, <3>3 DEF UpdateWrites
      <2>4. ASSUME NEW q \in Callers, DeleteWrites(q)
            PROVE  entry'[l] >= entry[k]
          BY <2>0, <2>1, <2>4 DEF DeleteWrites, ClustersTypeOK
      <2>5. CASE UNCHANGED <<cluster, endpoint, credVars>>
          BY <2>1, <2>5 DEF credVars
      <2> QED BY <1>1, <2>2, <2>3, <2>4, <2>5, CredentialCases
  <1>2. ClustersInv /\ [ClustersNext]_allVars =>
          [\A c \in Clusters : \A k \in cred[c], l \in cred'[c] :
             entry'[l] >= entry[k]
               \/ \E q \in overtaken : Updating(q, c) /\ flight[q].renew = "reinsert"]_allVars
      BY <1>1
  <1> QED BY <1>2, ClustersInvariance, PTL DEF ClustersSpec, SecretsGoForward

-----------------------------------------------------------------------------
(* Removal.                                                                *)

(* A removed cluster without requests under way but updates and removals   *)
(* gets no request of another kind, and those cannot bring anything back.  *)
LEMMA SettledStep ==
  ASSUME ClustersInv, ClustersNext, NEW c \in Clusters, Settled(c)
  PROVE  /\ Settled(c)'
         /\ c \in owned' => c \in owned
         /\ c \in nodes' => c \in nodes
         /\ c \in templates' => c \in templates
         /\ c \in targets' => c \in targets
  <1> DEFINE Good == /\ Settled(c)'
                     /\ c \in owned' => c \in owned
                     /\ c \in nodes' => c \in nodes
                     /\ c \in templates' => c \in templates
                     /\ c \in targets' => c \in targets
  <1>0. /\ cluster[c] = "disabled" /\ guest[c] \notin Present
        /\ \A q \in Callers : UnderWay(q) /\ flight[q].c = c => flight[q].op \in {"update", "delete"}
        /\ ClustersTypeOK
      BY DEF Settled, ClustersInv
  <1>1. ASSUME cluster'[c] = "disabled", guest'[c] \notin Present,
               \A q \in Callers : flight'[q].op \in CallerOps /\ flight'[q].c = c =>
                                    flight'[q].op \in {"update", "delete"}
        PROVE  Settled(c)'
      BY <1>1 DEF Settled, UnderWay
  <1>2. ASSUME NEW q \in Callers, NEW f, flight' = [flight EXCEPT ![q] = f],
               f.op \in CallerOps /\ f.c = c => f.op \in {"update", "delete"},
               NEW p \in Callers, flight'[p].op \in CallerOps, flight'[p].c = c
        PROVE  flight'[p].op \in {"update", "delete"}
      BY <1>0, <1>2 DEF ClustersTypeOK, UnderWay
  <1>3. ASSUME NEW q \in Callers, End(q), cluster'[c] = "disabled", guest'[c] \notin Present
        PROVE  Settled(c)'
      BY <1>1, <1>2, <1>3 DEF End, Over, CallerOps, Calls
  <1>4. ASSUME NEW q \in Callers, NEW op, NEW at, NEW d, Begin(q, op, at, d), d # c,
               UNCHANGED <<cluster, guest>>
        PROVE  Settled(c)'
      BY <1>0, <1>1, <1>2, <1>4 DEF Begin
  <1>5. ASSUME NEW q \in Callers, NEW f, flight' = [flight EXCEPT ![q] = f],
               f.op \in {"update", "delete"}, UNCHANGED <<cluster, guest>>
        PROVE  Settled(c)'
      BY <1>0, <1>1, <1>2, <1>5
  <1>6. ASSUME NEW q \in Callers, Call(q) PROVE Good
      <2>1. ASSUME NEW d \in Clusters, NEW url \in Endpoints, NEW renew \in Renewals,
                   UpdateReads(q, d, url, renew)
            PROVE  Good
          <3>1. UNCHANGED <<cluster, dependentVars>>
              BY <2>1 DEF UpdateReads, UpdateBegins
          <3>2. \E k : flight' = [flight EXCEPT ![q] =
                  [op |-> "update", at |-> "call", c |-> d, url |-> url, renew |-> renew,
                   seen |-> endpoint[d], old |-> k, cred |-> k]]
              BY <2>1 DEF UpdateReads, UpdateBegins
          <3> QED BY <1>5, <3>1, <3>2 DEF dependentVars
      <2>2. CASE UpdateRereads(q)
          <3>1. UNCHANGED <<cluster, dependentVars>> /\ flight[q].op = "update"
                /\ flight[q] \in Flights
              BY <1>0, <2>2, DoingTypes DEF UpdateRereads, Doing, CallerOps, Calls
          <3>2. PICK k : flight' = [flight EXCEPT ![q].at = "write", ![q].cred = k,
                                                  ![q].seen = endpoint[flight[q].c]]
              BY <2>2 DEF UpdateRereads
          <3> DEFINE f == [flight[q] EXCEPT !.at = "write", !.cred = k, !.seen = endpoint[flight[q].c]]
          <3>3. f.op = "update" /\ flight' = [flight EXCEPT ![q] = f]
              BY <1>0, <3>1, <3>2 DEF ClustersTypeOK, Flights
          <3> HIDE DEF f
          <3> QED BY <1>5, <3>1, <3>3 DEF dependentVars
      <2>3. CASE UpdateWrites(q) \/ Fail(q)
          BY <1>0, <1>3, <2>3 DEF UpdateWrites, Fail, dependentVars
      <2>4. ASSUME NEW d \in Clusters, NEW op \in Calls, CallReads(q, op, d)
            PROVE  Good
          BY <1>0, <1>4, <2>4 DEF CallReads, dependentVars
      <2>5. ASSUME NEW ok \in BOOLEAN, CallRecords(q, ok)
            PROVE  Good
          <3>1. flight[q].c # c /\ flight[q] \in Flights
              BY <1>0, <2>5, DoingTypes DEF CallRecords, Doing, UnderWay, CallerOps, Calls
          <3>2. UNCHANGED <<cluster, dependentVars>>
              BY <2>5 DEF CallRecords
          <3>3. CASE End(q)
              BY <1>0, <1>3, <3>2, <3>3 DEF dependentVars
          <3>4. CASE flight' = [flight EXCEPT ![q].at = "write"]
              <4> DEFINE f == [flight[q] EXCEPT !.at = "write"]
              <4>1. f.c # c /\ flight' = [flight EXCEPT ![q] = f]
                  BY <1>0, <3>1, <3>4 DEF ClustersTypeOK, Flights
              <4> HIDE DEF f
              <4> QED BY <1>0, <1>1, <1>2, <3>2, <4>1 DEF dependentVars
          <3> QED BY <2>5, <3>3, <3>4 DEF CallRecords
      <2>6. ASSUME NEW state \in GuestStates, ImportWrites(q, state)
            PROVE  Good
          <3>1. flight[q].c # c /\ flight[q].c \in Clusters
              BY <1>0, <2>6, DoingTypes DEF ImportWrites, Doing, UnderWay, CallerOps, Calls
          <3>2. guest'[c] = guest[c]
              BY <1>0, <2>6, <3>1 DEF ImportWrites, ClustersTypeOK
          <3> QED BY <1>0, <1>3, <2>6, <3>2 DEF ImportWrites
      <2>7. CASE TargetWrites(q)
          <3>1. flight[q].c # c
              BY <1>0, <2>7, DoingTypes DEF TargetWrites, Doing, UnderWay, CallerOps, Calls
          <3> QED BY <1>0, <1>3, <2>7, <3>1 DEF TargetWrites
      <2> QED BY <1>6, <2>1, <2>2, <2>3, <2>4, <2>5, <2>6, <2>7 DEF Call
  <1>7. ASSUME NEW q \in Callers, Edit(q) PROVE Good
      <2>1. ASSUME NEW d \in Clusters, DeleteReads(q, d) PROVE Good
          <3>1. UNCHANGED <<cluster, dependentVars>>
              BY <2>1 DEF DeleteReads
          <3>2. \E k : flight' = [flight EXCEPT ![q] =
                  [op |-> "delete", at |-> "write", c |-> d, url |-> Unset, renew |-> "none",
                   seen |-> Unset, old |-> k, cred |-> k]]
              BY <2>1 DEF DeleteReads
          <3> QED BY <1>5, <3>1, <3>2 DEF dependentVars
      <2>2. ASSUME NEW d \in Clusters, NodeReads(q, d) \/ TemplateReads(q, d) PROVE Good
          BY <1>0, <1>4, <2>2 DEF NodeReads, TemplateReads, dependentVars, Present
      <2>3. CASE DeleteWrites(q)
          <3>1. cluster'[c] = "disabled" /\ guest'[c] \notin Present
              BY <1>0, <2>3 DEF DeleteWrites, ClustersTypeOK, Present
          <3> QED BY <1>3, <2>3, <3>1 DEF DeleteWrites
      <2>4. ASSUME NEW moved, NodeWrites(q) \/ TemplateWrites(q, moved) PROVE Good
          <3>1. flight[q].c # c
              BY <1>0, <2>4, DoingTypes
              DEF NodeWrites, TemplateWrites, Doing, UnderWay, CallerOps, Calls
          <3> QED BY <1>0, <1>3, <2>4, <3>1 DEF NodeWrites, TemplateWrites
      <2> QED BY <1>7, <2>1, <2>2, <2>3, <2>4 DEF Edit
  <1>8. ASSUME UNCHANGED <<flight, guest>>, cluster'[c] = "disabled"
        PROVE  Settled(c)'
      BY <1>0, <1>8 DEF Settled, UnderWay
  <1>9. ASSUME NEW d \in Clusters, NEW url \in Endpoints, NEW new \in Credentials, Create(d, url, new)
        PROVE  Good
      BY <1>0, <1>8, <1>9 DEF Create, ClustersTypeOK, dependentVars
  <1>10. ASSUME NEW d \in Clusters, DeleteTemplate(d) \/ Assign(d) \/ Unassign(d)
         PROVE  Good
      BY <1>0, <1>8, <1>10 DEF DeleteTemplate, Assign, Unassign, Present
  <1>11. CASE UNCHANGED <<cluster, endpoint, contact, credVars, dependentVars, flight>>
      BY <1>0, <1>8, <1>11 DEF dependentVars
  <1> QED BY <1>6, <1>7, <1>9, <1>10, <1>11 DEF ClustersNext

(* A removed cluster gets no guest, owner, node, template or backup target *)
(* once the requests that overlapped its removal are over.                 *)
THEOREM RemovedEmpty == ClustersSpec => RemovedStaysEmpty
  <1>1. ClustersInv /\ [ClustersNext]_allVars =>
          [\A c \in Clusters :
             Settled(c) => /\ Settled(c)'
                           /\ c \in owned' => c \in owned
                           /\ c \in nodes' => c \in nodes
                           /\ c \in templates' => c \in templates
                           /\ c \in targets' => c \in targets]_allVars
      BY SettledStep
  <1> QED BY <1>1, ClustersInvariance, PTL DEF ClustersSpec, RemovedStaysEmpty
=============================================================================
