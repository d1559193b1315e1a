------------------------------ MODULE Clusters ------------------------------
(***************************************************************************)
(* Proxmox clusters, their credentials, and what refers to a cluster.      *)
(*                                                                         *)
(* Sources: services/clusters.py, models/cluster.py; of the resources that *)
(* refer to a cluster, services/provisioning.py (nodes, templates),        *)
(* services/backups.py (targets), services/workloads.py (assignments) and, *)
(* by way of Ipam, the pools.                                              *)
(*                                                                         *)
(* No operation on a cluster locks its row before it has read what its     *)
(* checks are about: each is a caller that reads, perhaps asks PVE, and    *)
(* writes later, with the other callers in between.  assign and unassign   *)
(* lock the rows of workload and cluster: one step.                        *)
(*                                                                         *)
(* A cluster has one guest here.  An endpoint is the URL with its CA and   *)
(* token identifier.                                                       *)
(***************************************************************************)
EXTENDS Ipam

CONSTANTS
  Endpoints,    \* what api_base_url may be
  Credentials,  \* rows of cluster_credentials, numbered as they come
  Unset,        \* no endpoint, no credential
  Callers       \* requests about clusters, each made once

ASSUME UnsetAssumption      == Unset \notin Endpoints \cup Credentials
ASSUME CredentialAssumption == Credentials \subseteq Nat

VARIABLES
  cluster,    \* clusters: not created, active or disabled
  endpoint,   \* clusters.api_base_url
  contact,    \* last_connection_error_code IS NULL
  cred,       \* the cluster's credentials with is_active
  home,       \* per credential the endpoint its secret was entered for
  entry,      \* per credential the one its secret was entered with
  overtaken,  \* history: updates under way while another changed the cluster
  guest,      \* the guest in the inventory of the cluster
  owned,      \* clusters whose guest has an organization
  nodes,      \* clusters with rows of provisioning_nodes
  templates,  \* clusters with the source of a template
  targets,    \* clusters with a backup target
  flight      \* per caller, what it has read and how far it is

credVars      == <<cred, home, entry, overtaken>>
dependentVars == <<guest, owned, nodes, templates, targets>>
allVars == <<ipamVars, cluster, endpoint, contact, credVars, dependentVars, flight>>

ClusterStates == {"none", "active", "disabled"}
Present       == {"vm", "template"}
GuestStates   == {"none", "absent"} \cup Present
Calls         == {"update", "test", "import", "target"}
CallerOps     == Calls \cup {"delete", "node", "template"}
Stages        == {"call", "write"}

(* What an update brings: no credential; a token identifier, for which the *)
(* secret it has decrypted is encrypted again; or a secret.                *)
Renewals == {"none", "reinsert", "secret"}
Flights ==
  [op : CallerOps, at : Stages, c : Clusters, url : Endpoints \cup {Unset},
   renew : Renewals, seen : Endpoints \cup {Unset},
   old : Credentials \cup {Unset}, cred : Credentials \cup {Unset}]
NoFlight == [op |-> "none"]
Over     == [op |-> "over"]

ClustersTypeOK ==
  /\ cluster \in [Clusters -> ClusterStates]
  /\ endpoint \in [Clusters -> Endpoints \cup {Unset}]
  /\ contact \in [Clusters -> BOOLEAN]
  /\ cred \in [Clusters -> SUBSET Credentials]
  /\ home \in [Credentials -> Endpoints \cup {Unset}]
  /\ entry \in [Credentials -> Credentials \cup {Unset}]
  /\ overtaken \subseteq Callers
  /\ guest \in [Clusters -> GuestStates]
  /\ owned \subseteq Clusters
  /\ nodes \subseteq Clusters
  /\ templates \subseteq Clusters
  /\ targets \subseteq Clusters
  /\ flight \in [Callers -> Flights \cup {NoFlight, Over}]

ClustersInit ==
  /\ IpamInit
  /\ cluster = [c \in Clusters |-> "none"]
  /\ endpoint = [c \in Clusters |-> Unset]
  /\ contact = [c \in Clusters |-> TRUE]
  /\ cred = [c \in Clusters |-> {}]
  /\ home = [k \in Credentials |-> Unset]
  /\ entry = [k \in Credentials |-> Unset]
  /\ overtaken = {}
  /\ guest = [c \in Clusters |-> "none"]
  /\ owned = {} /\ nodes = {} /\ templates = {} /\ targets = {}
  /\ flight = [q \in Callers |-> NoFlight]

-----------------------------------------------------------------------------
Idle(q)          == flight[q] = NoFlight
UnderWay(q)      == flight[q].op \in CallerOps
Doing(q, op, at) == flight[q].op = op /\ flight[q].at = at
Updating(q, c)   == flight[q].op = "update" /\ flight[q].c = c
End(q)           == flight' = [flight EXCEPT ![q] = Over]

(* The caller has made its checks of cluster c and goes on. *)
Begin(q, op, at, c) ==
  /\ Idle(q)
  /\ flight' = [flight EXCEPT ![q] =
       [op |-> op, at |-> at, c |-> c, url |-> Unset, renew |-> "none", seen |-> Unset,
        old |-> Unset, cred |-> Unset]]

(* PVE does not answer, a check after its answer fails, or the commit      *)
(* meets a constraint: the transaction is rolled back.                     *)
Fail(q) ==
  /\ UnderWay(q)
  /\ End(q)
  /\ UNCHANGED <<ipamVars, cluster, endpoint, contact, credVars, dependentVars>>

(* clusters.api_base_url is unique, over the disabled clusters too. *)
Taken(c, url) == \E d \in Clusters \ {c} : endpoint[d] = url

Fresh(new) == home[new] = Unset /\ \A k \in Credentials : k < new => home[k] # Unset

(* create: the probe comes first and leaves nothing behind. *)
Create(c, url, new) ==
  /\ cluster[c] = "none"
  /\ ~Taken(c, url)
  /\ Fresh(new)
  /\ cluster' = [cluster EXCEPT ![c] = "active"]
  /\ endpoint' = [endpoint EXCEPT ![c] = url]
  /\ cred' = [cred EXCEPT ![c] = {new}]
  /\ home' = [home EXCEPT ![new] = url]
  /\ entry' = [entry EXCEPT ![new] = new]
  /\ UNCHANGED <<ipamVars, contact, overtaken, dependentVars, flight>>

(* The update has read the endpoint and credential k, and has decrypted    *)
(* the secret of k.                                                        *)
UpdateBegins(q, c, url, renew, k) ==
  /\ flight' = [flight EXCEPT ![q] =
       [op |-> "update", at |-> "call", c |-> c, url |-> url, renew |-> renew,
        seen |-> endpoint[c], old |-> k, cred |-> k]]
  /\ UNCHANGED <<ipamVars, cluster, endpoint, contact, credVars, dependentVars>>

(* Mutant: the credential for display is taken, be it retired. *)
UpdateReadsRetired(q, c, url, renew) ==
  /\ Idle(q)
  /\ cluster[c] # "none"
  /\ url = endpoint[c] \/ renew = "secret"
  /\ \E k \in Credentials : home[k] = endpoint[c] /\ UpdateBegins(q, c, url, renew, k)

(* Mutant: a new endpoint is taken without a new secret. *)
UpdateReadsFreely(q, c, url, renew) ==
  /\ Idle(q)
  /\ cluster[c] # "none"
  /\ \E k \in cred[c] : UpdateBegins(q, c, url, renew, k)

(* update up to its probe.  It may be of a disabled cluster that still has *)
(* an active credential.  A new endpoint demands a secret.                 *)
UpdateReads(q, c, url, renew) ==
  /\ Idle(q)
  /\ cluster[c] # "none"
  /\ url = endpoint[c] \/ renew = "secret"
  /\ \E k \in cred[c] : UpdateBegins(q, c, url, renew, k)

(* After the probe the cluster is read again, its version is not compared. *)
UpdateRereads(q) ==
  /\ Doing(q, "update", "call")
  /\ \E k \in cred[flight[q].c] :
       flight' = [flight EXCEPT ![q].at = "write", ![q].cred = k,
                                ![q].seen = endpoint[flight[q].c]]
  /\ UNCHANGED <<ipamVars, cluster, endpoint, contact, credVars, dependentVars>>

(* The new credential carries the secret of the request or, for a token    *)
(* identifier alone, the one the first read has found.                     *)
Insert(f, new) ==
  /\ Fresh(new)
  /\ home' = [home EXCEPT ![new] = IF f.renew = "secret" THEN f.url ELSE home[f.old]]
  /\ entry' = [entry EXCEPT ![new] = IF f.renew = "secret" THEN new ELSE entry[f.old]]

(* Mutant: no unique index on the active credentials of a cluster. *)
ReplaceWithoutIndex(f, new) ==
  /\ Insert(f, new)
  /\ cred' = [cred EXCEPT ![f.c] = (@ \ {f.cred}) \cup {new}]

(* The credential read last is retired and a new one inserted, which the   *)
(* index uq_cluster_credentials_active_cluster refuses beside another.     *)
Replace(f, new) ==
  /\ cred[f.c] \subseteq {f.cred}
  /\ Insert(f, new)
  /\ cred' = [cred EXCEPT ![f.c] = {new}]

(* The endpoint is the one the request named or found by its first read;   *)
(* SQLAlchemy writes the column if the second read found another.          *)
UpdateWrites(q) ==
  LET f == flight[q] IN
  /\ Doing(q, "update", "write")
  /\ IF f.url = f.seen THEN UNCHANGED endpoint
     ELSE ~Taken(f.c, f.url) /\ endpoint' = [endpoint EXCEPT ![f.c] = f.url]
  /\ contact' = [contact EXCEPT ![f.c] = TRUE]
  /\ IF f.renew = "none" THEN UNCHANGED <<cred, home, entry>>
     ELSE \E new \in Credentials : Replace(f, new)
  /\ overtaken' = IF f.renew = "none" /\ f.url = f.seen THEN overtaken
                  ELSE overtaken \cup {p \in Callers \ {q} : Updating(p, f.c)}
  /\ End(q)
  /\ UNCHANGED <<ipamVars, cluster, dependentVars>>

-----------------------------------------------------------------------------
(* Removal.                                                                *)

(* _removal_blocks.  Pools that were deleted count; that no operation or   *)
(* provisioning request is active is left open.                            *)
Blocked(c) ==
  \/ c \in owned \cup nodes \cup templates
  \/ \E p \in Pools : net[p] # {} /\ scope[p] = c

DeleteReads(q, c) ==
  /\ Idle(q)
  /\ cluster[c] = "active"
  /\ ~Blocked(c)
  /\ \E k \in cred[c] :
       flight' = [flight EXCEPT ![q] =
         [op |-> "delete", at |-> "write", c |-> c, url |-> Unset, renew |-> "none", seen |-> Unset,
          old |-> k, cred |-> k]]
  /\ UNCHANGED <<ipamVars, cluster, endpoint, contact, credVars, dependentVars>>

(* The blocks are not counted again, and the credential retired is the one *)
(* that was read.                                                          *)
DeleteWrites(q) ==
  LET f == flight[q] IN
  /\ Doing(q, "delete", "write")
  /\ cluster' = [cluster EXCEPT ![f.c] = "disabled"]
  /\ cred' = [cred EXCEPT ![f.c] = @ \ {f.cred}]
  /\ guest' = [guest EXCEPT ![f.c] = IF @ \in Present THEN "absent" ELSE @]
  /\ End(q)
  /\ UNCHANGED <<ipamVars, endpoint, contact, home, entry, overtaken, owned, nodes, templates,
                 targets>>

-----------------------------------------------------------------------------
(* Calls to PVE.                                                           *)

(* Mutant: is_active of the cluster is not looked at. *)
CallReadsDisabled(q, op, c) ==
  /\ cred[c] # {}
  /\ Begin(q, op, "call", c)
  /\ UNCHANGED <<ipamVars, cluster, endpoint, contact, credVars, dependentVars>>

(* _connection_snapshot; of a target, _active_cluster and _open_client. *)
CallReads(q, op, c) ==
  /\ cluster[c] = "active"
  /\ cred[c] # {}
  /\ Begin(q, op, "call", c)
  /\ UNCHANGED <<ipamVars, cluster, endpoint, contact, credVars, dependentVars>>

(* _record_connection_result: of the cluster, whatever its state is now; a *)
(* success stamps the active credential and fails without one.             *)
CallRecords(q, ok) ==
  LET c == flight[q].c IN
  /\ Doing(q, "test", "call") \/ Doing(q, "import", "call")
  /\ ok => cred[c] # {}
  /\ contact' = [contact EXCEPT ![c] = ok]
  /\ IF ok /\ flight[q].op = "import" THEN flight' = [flight EXCEPT ![q].at = "write"] ELSE End(q)
  /\ UNCHANGED <<ipamVars, cluster, endpoint, credVars, dependentVars>>

(* import_workloads with the row locked: is_active is not looked at again. *)
(* A guest that PVE does not list any more stays as it is.                 *)
ImportWrites(q, state) ==
  /\ Doing(q, "import", "write")
  /\ state \in Present \cup {guest[flight[q].c]}
  /\ guest' = [guest EXCEPT ![flight[q].c] = state]
  /\ End(q)
  /\ UNCHANGED <<ipamVars, cluster, endpoint, contact, credVars, owned, nodes, templates, targets>>

-----------------------------------------------------------------------------
(* What refers to a cluster.                                               *)

(* create_target after its discovery of the storages. *)
TargetWrites(q) ==
  /\ Doing(q, "target", "call")
  /\ targets' = targets \cup {flight[q].c}
  /\ End(q)
  /\ UNCHANGED <<ipamVars, cluster, endpoint, contact, credVars, guest, owned, nodes, templates>>

(* upsert_node; there is no operation that deletes a node. *)
NodeReads(q, c) ==
  /\ cluster[c] = "active"
  /\ Begin(q, "node", "write", c)
  /\ UNCHANGED <<ipamVars, cluster, endpoint, contact, credVars, dependentVars>>

NodeWrites(q) ==
  /\ Doing(q, "node", "write")
  /\ nodes' = nodes \cup {flight[q].c}
  /\ End(q)
  /\ UNCHANGED <<ipamVars, cluster, endpoint, contact, credVars, guest, owned, templates, targets>>

(* create_template, and update_template with a source: _template_source *)
(* does not look at the cluster.                                        *)
TemplateReads(q, c) ==
  /\ guest[c] = "template"
  /\ Begin(q, "template", "write", c)
  /\ UNCHANGED <<ipamVars, cluster, endpoint, contact, credVars, dependentVars>>

(* moved: the cluster that loses the template that is updated. *)
TemplateWrites(q, moved) ==
  /\ Doing(q, "template", "write")
  /\ templates' = (templates \ moved) \cup {flight[q].c}
  /\ End(q)
  /\ UNCHANGED <<ipamVars, cluster, endpoint, contact, credVars, guest, owned, nodes, targets>>

(* delete_template: refused while a provisioning request refers to it. *)
DeleteTemplate(c) ==
  /\ templates' = templates \ {c}
  /\ UNCHANGED <<ipamVars, cluster, endpoint, contact, credVars, guest, owned, nodes, targets, flight>>

Assign(c) ==
  /\ cluster[c] = "active"
  /\ guest[c] = "vm"
  /\ owned' = owned \cup {c}
  /\ UNCHANGED <<ipamVars, cluster, endpoint, contact, credVars, guest, nodes, templates, targets, flight>>

Unassign(c) ==
  /\ cluster[c] = "active"
  /\ guest[c] \in Present
  /\ owned' = owned \ {c}
  /\ UNCHANGED <<ipamVars, cluster, endpoint, contact, credVars, guest, nodes, templates, targets, flight>>

(* create_pool and update_pool ask for the row of the cluster only; an     *)
(* address is allocated to a present guest in the scope of its pool.       *)
ManagePool(p) ==
  \/ \E n \in SUBSET Addresses \ {{}}, s \in Scopes :
       /\ s \in Clusters => cluster[s] # "none"
       /\ CreatePool(p, n, s) \/ UpdatePool(p, n, s)
  \/ \E busy \in BOOLEAN : DeletePool(p, busy)

ManageAddress(x) ==
  \/ ReserveAddress(x)
  \/ /\ \E c \in Clusters : guest[c] \in Present /\ scope[x[1]] \in {c, Everywhere}
     /\ Allocate(x)
  \/ Release(x)
  \/ ApproveRelease(x)
  \/ QuarantineElapses(x)
  \/ \E r \in Requests : Provision(r, x)

-----------------------------------------------------------------------------
Call(q) ==
  \/ \E c \in Clusters, url \in Endpoints, renew \in Renewals : UpdateReads(q, c, url, renew)
  \/ UpdateRereads(q)
  \/ UpdateWrites(q)
  \/ \E c \in Clusters, op \in Calls \ {"update"} : CallReads(q, op, c)
  \/ \E ok \in BOOLEAN : CallRecords(q, ok)
  \/ \E state \in GuestStates : ImportWrites(q, state)
  \/ TargetWrites(q)
  \/ Fail(q)

Edit(q) ==
  \/ \E c \in Clusters : DeleteReads(q, c) \/ NodeReads(q, c) \/ TemplateReads(q, c)
  \/ DeleteWrites(q)
  \/ NodeWrites(q)
  \/ \E moved \in {{}} \cup {{d} : d \in templates} : TemplateWrites(q, moved)

ClustersNext ==
  \/ \E c \in Clusters, url \in Endpoints, new \in Credentials : Create(c, url, new)
  \/ \E q \in Callers : Call(q) \/ Edit(q)
  \/ \E c \in Clusters : DeleteTemplate(c) \/ Assign(c) \/ Unassign(c)
  \/ /\ \/ \E p \in Pools : ManagePool(p)
        \/ \E x \in Rows : ManageAddress(x)
     /\ UNCHANGED <<cluster, endpoint, contact, credVars, dependentVars, flight>>

ClustersSpec == ClustersInit /\ [][ClustersNext]_allVars

-----------------------------------------------------------------------------
(* Properties.                                                             *)

(* Whatever updates and removals overlap, an active cluster has an active  *)
(* credential, and only one: no overlap of the two-step updates retires    *)
(* the credential of a cluster without putting another in its place.       *)
OneCredential ==
  \A c \in Clusters :
    /\ \A k, l \in cred[c] : k = l
    /\ cluster[c] = "active" => cred[c] # {}

(* The secret in use was entered for the endpoint it is sent to. *)
Paired(c) == \A k \in cred[c] : home[k] = endpoint[c]

(* An update that is about to write and was overtaken by another: of one   *)
(* that brings its own secret, after its second read.                      *)
Overlooks(q, c) ==
  /\ Updating(q, c) /\ flight[q].at = "write"
  /\ q \in overtaken
  /\ flight[q].renew = "secret" => flight[q].seen # endpoint[c]

(* PVE_CREDENTIAL_REENTRY_REQUIRED keeps a secret with its endpoint over   *)
(* every overlap of updates, except those.                                 *)
SecretStaysHome ==
  [][\A c \in Clusters :
       cred[c] # {} /\ Paired(c) => Paired(c)' \/ \E q \in Callers : Overlooks(q, c)]_allVars

(* A cluster goes back from a secret to one entered before it only by an   *)
(* update with a token identifier alone that was overtaken: it encrypts    *)
(* again the secret it decrypted before the other update was committed,    *)
(* and a renewal is lost.  Nothing else brings a replaced secret back.     *)
SecretsGoForward ==
  [][\A c \in Clusters : \A k \in cred[c], l \in cred'[c] :
       entry'[l] >= entry[k] \/ \E q \in overtaken : Updating(q, c) /\ flight[q].renew = "reinsert"
    ]_allVars

(* The cluster is removed, and no request is under way that read it as     *)
(* active or its guest as present.                                         *)
Settled(c) ==
  /\ cluster[c] = "disabled"
  /\ guest[c] \notin Present
  /\ \A q \in Callers :
       UnderWay(q) /\ flight[q].c = c => flight[q].op \in {"update", "delete"}

(* A removed cluster stays removed: once the requests that overlapped the  *)
(* removal are over, its guests stay absent and it gets no owner, node,    *)
(* template or backup target any more.  Pools it still gets.               *)
RemovedStaysEmpty ==
  [][\A c \in Clusters :
       Settled(c) => /\ Settled(c)'
                     /\ c \in owned' => c \in owned
                     /\ c \in nodes' => c \in nodes
                     /\ c \in templates' => c \in templates
                     /\ c \in targets' => c \in targets]_allVars
=============================================================================
