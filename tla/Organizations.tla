---------------------------- MODULE Organizations ----------------------------
(***************************************************************************)
(* Customer organizations, their members and the workloads they own,       *)
(* beside the accounts of Accounts.                                        *)
(*                                                                         *)
(* Sources: services/accounts.py (organizations and members) and           *)
(* services/workloads.py (assign, unassign).                               *)
(*                                                                         *)
(* add_member and assign read the organization without a lock and insert a *)
(* row that refers to it: two steps, with anything in between.  Deleting   *)
(* an organization or a user locks its row before it reads, and an insert  *)
(* that refers to the row waits for that lock: one step.                   *)
(***************************************************************************)
EXTENDS Accounts

CONSTANTS
  Orgs,        \* customer organizations
  Workloads,   \* guests of the inventory
  NoOrg        \* workloads.organization_id IS NULL

ASSUME NoOrgAssumption == NoOrg \notin Orgs

VARIABLES
  org,         \* organizations: not created, active or inactive
  members,     \* organization_members
  joining,     \* add_member calls that have read organization and user
  owner,       \* workloads.organization_id
  assigning,   \* assign calls that have read the organization
  guest,       \* what the inventory says of the guest
  lateJoins,   \* history: add_member calls that overlapped a deletion
  lateAssigns  \* history: assign calls that overlapped a deletion

lateVars == <<lateJoins, lateAssigns>>
orgVars  == <<org, members, joining, owner, assigning, guest, lateVars>>

OrgStates   == {"none", "active", "inactive"}
GuestStates == {"running", "stopped", "absent"}

OrganizationsTypeOK ==
  /\ org \in [Orgs -> OrgStates]
  /\ members \subseteq Orgs \X Users
  /\ joining \subseteq Orgs \X Users
  /\ owner \in [Workloads -> Orgs \cup {NoOrg}]
  /\ assigning \subseteq Workloads \X Orgs
  /\ guest \in [Workloads -> GuestStates]
  /\ lateJoins \subseteq Orgs \X Users
  /\ lateAssigns \subseteq Workloads \X Orgs

ActiveOrgs == {g \in Orgs : org[g] = "active"}

(* A system in use: the customers belong to the active organizations. *)
OrganizationsInit ==
  /\ org \in [Orgs -> {"none", "active"}]
  /\ members = ActiveOrgs \X {u \in Users \ {Root} : Active(u)}
  /\ joining = {}
  /\ owner \in [Workloads -> ActiveOrgs \cup {NoOrg}]
  /\ assigning = {}
  /\ guest = [w \in Workloads |-> "running"]
  /\ lateJoins = {}
  /\ lateAssigns = {}

-----------------------------------------------------------------------------
(* Organizations.                                                          *)

CreateOrganization(g) ==
  /\ org[g] = "none"
  /\ org' = [org EXCEPT ![g] = "active"]
  /\ UNCHANGED <<vars, members, joining, owner, assigning, guest, lateVars>>

(* update_organization: is_active may be set and never cleared. *)
ReactivateOrganization(g) ==
  /\ org[g] = "inactive"
  /\ org' = [org EXCEPT ![g] = "active"]
  /\ UNCHANGED <<vars, members, joining, owner, assigning, guest, lateVars>>

Owned(g) == {w \in Workloads : owner[w] = g}
Team(g)  == {u \in Users : <<g, u>> \in members}

(* Refused while the organization has members or workloads; provisioning   *)
(* requests, for which it is refused too, are not known here.  Calls under *)
(* way that have read the organization are noted.                          *)
DeleteOrganization(g) ==
  /\ org[g] = "active"
  /\ Team(g) = {}
  /\ Owned(g) = {}
  /\ org' = [org EXCEPT ![g] = "inactive"]
  /\ lateJoins' = {m \in lateJoins : m[1] # g} \cup {m \in joining : m[1] = g}
  /\ lateAssigns' = {a \in lateAssigns : a[2] # g} \cup {a \in assigning : a[2] = g}
  /\ UNCHANGED <<vars, members, joining, owner, assigning, guest>>

(* Mutant: is_active of the organization is not looked at. *)
AddMemberReadsInactive(g, u) ==
  /\ org[g] # "none"
  /\ Active(u)
  /\ joining' = joining \cup {<<g, u>>}
  /\ UNCHANGED <<vars, org, members, owner, assigning, guest, lateVars>>

(* add_member up to its checks ... *)
AddMemberReads(g, u) ==
  /\ org[g] = "active"
  /\ Active(u)
  /\ joining' = joining \cup {<<g, u>>}
  /\ UNCHANGED <<vars, org, members, owner, assigning, guest, lateVars>>

(* ... and its insert, which a second row of the pair makes fail. *)
AddMember(g, u) ==
  /\ <<g, u>> \in joining
  /\ Unlocked(u)
  /\ members' = members \cup {<<g, u>>}
  /\ joining' = joining \ {<<g, u>>}
  /\ UNCHANGED <<vars, org, owner, assigning, guest, lateVars>>

RemoveMember(g, u) ==
  /\ <<g, u>> \in members
  /\ members' = members \ {<<g, u>>}
  /\ UNCHANGED <<vars, org, joining, owner, assigning, guest, lateVars>>

(* delete_user: the memberships go with the user.  Calls under way that    *)
(* have read the user are noted.                                           *)
RemoveUser(u) ==
  /\ DeleteUser(u)
  /\ members' = {m \in members : m[2] # u}
  /\ lateJoins' = {m \in lateJoins : m[2] # u} \cup {m \in joining : m[2] = u}
  /\ UNCHANGED <<org, joining, owner, assigning, guest, lateAssigns>>

-----------------------------------------------------------------------------
(* Workloads.                                                              *)

RowUnlocked(w) == \A g \in Orgs : <<w, g>> \notin assigning

(* assign up to its checks, with the workload row locked ... *)
AssignReads(w, g) ==
  /\ guest[w] # "absent"
  /\ RowUnlocked(w)
  /\ org[g] = "active"
  /\ owner[w] = NoOrg
  /\ assigning' = assigning \cup {<<w, g>>}
  /\ UNCHANGED <<vars, org, members, joining, owner, guest, lateVars>>

(* ... and its commit. *)
Assign(w, g) ==
  /\ <<w, g>> \in assigning
  /\ owner' = [owner EXCEPT ![w] = g]
  /\ assigning' = assigning \ {<<w, g>>}
  /\ UNCHANGED <<vars, org, members, joining, guest, lateVars>>

(* Operations says when an active operation forbids it. *)
Unassign(w) ==
  /\ guest[w] # "absent"
  /\ RowUnlocked(w)
  /\ owner[w] # NoOrg
  /\ owner' = [owner EXCEPT ![w] = NoOrg]
  /\ UNCHANGED <<vars, org, members, joining, assigning, guest, lateVars>>

(* An import or an operation writes what it saw of the guest. *)
Observe(w, state) ==
  /\ RowUnlocked(w)
  /\ guest' = [guest EXCEPT ![w] = state]
  /\ UNCHANGED <<vars, org, members, joining, owner, assigning, lateVars>>

-----------------------------------------------------------------------------
AdministerUser(u) ==
  \/ RemoveUser(u)
  \/ /\ \/ NewPassword(u)
        \/ CountAdmins(u)
        \/ \E r \in Roles : CreateUser(u, r)
        \/ \E r \in Roles, a \in {"active", "disabled"} : UpdateUser(u, r, a)
     /\ UNCHANGED orgVars

AdministerOrg(g) ==
  \/ CreateOrganization(g)
  \/ ReactivateOrganization(g)
  \/ DeleteOrganization(g)
  \/ \E u \in Users : AddMemberReads(g, u) \/ AddMember(g, u) \/ RemoveMember(g, u)
  \/ \E w \in Workloads : AssignReads(w, g) \/ Assign(w, g)

AdministerWorkload(w) == Unassign(w) \/ \E state \in GuestStates : Observe(w, state)

-----------------------------------------------------------------------------
(* Properties.                                                             *)

(* What a deleted organization still has, and what a deleted user still    *)
(* belongs to, came in by an add_member or an assign that had passed its   *)
(* check before the deletion and was under way at the time.  Nothing stays *)
(* behind that the deletion should have seen, and nothing comes later.     *)
LeftoversOverlapped ==
  /\ \A m \in members : org[m[1]] = "inactive" \/ account[m[2]] = "deleted" => m \in lateJoins
  /\ \A w \in Workloads :
       owner[w] # NoOrg /\ org[owner[w]] = "inactive" => <<w, owner[w]>> \in lateAssigns
=============================================================================
