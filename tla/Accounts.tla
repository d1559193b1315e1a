------------------------------ MODULE Accounts ------------------------------
(***************************************************************************)
(* User accounts and login sessions.                                       *)
(*                                                                         *)
(* Sources: services/auth.py, services/accounts.py (users), dependencies.py *)
(* and security/tokens.py.  A login starts a family of refresh tokens, of  *)
(* which each rotation replaces the last; an access token carries the      *)
(* session_epoch of its user and is valid while the epoch has not changed. *)
(*                                                                         *)
(* An operation that locks the user row before it reads is one step.  The  *)
(* others are two, with anything in between: login and logout read the     *)
(* user without a lock, and the removal of an administrator counts the     *)
(* administrators under the lock of one row only.                          *)
(*                                                                         *)
(* Passwords are left out: a login step is one that knows the password.    *)
(* OPERATOR and CUSTOMER are one role here: both are not SUPER_ADMIN.      *)
(***************************************************************************)
EXTENDS Integers, FiniteSets

CONSTANTS
  Users,
  Root,         \* the administrator the command line creates
  Tokens,       \* refresh tokens that are ever issued
  MaxEpoch,     \* bound on session_epoch
  MaxInFlight   \* bound on logins and logouts between their two steps

ASSUME RootAssumption  == Root \in Users
ASSUME EpochAssumption == MaxEpoch \in Nat /\ MaxInFlight \in Nat

VARIABLES
  account,    \* users: not created, active, disabled or deleted
  role,       \* users.role
  epoch,      \* users.session_epoch
  setback,    \* history: users whose epoch a logout has written back
  token,      \* refresh_tokens
  reused,     \* families with reuse_detected_at
  access,     \* access tokens handed out
  logins,     \* logins that have read their user
  logouts,    \* logouts that have read their token and their user
  removing    \* administrators whose locked removal passed the count

userVars   == <<account, role, epoch, setback>>
flightVars == <<logins, logouts, removing>>
vars == <<account, role, epoch, setback, token, reused, access, logins, logouts, removing>>

Roles    == {"SUPER_ADMIN", "CUSTOMER"}
Accounts == {"none", "active", "disabled", "deleted"}
Unspent  == {"live", "expired"}
Issued   == [status : Unspent \cup {"revoked"}, user : Users, family : Tokens]
NoToken  == [status |-> "none"]
Claims   == [user : Users, epoch : 0 .. MaxEpoch]
Logouts  == [token : Tokens, user : Users, epoch : 0 .. MaxEpoch, seen : SUBSET Tokens]

AccountsTypeOK ==
  /\ account \in [Users -> Accounts]
  /\ role \in [Users -> Roles]
  /\ epoch \in [Users -> 0 .. MaxEpoch]
  /\ setback \subseteq Users
  /\ token \in [Tokens -> Issued \cup {NoToken}]
  /\ reused \subseteq Tokens
  /\ access \subseteq Claims
  /\ logins \subseteq Claims
  /\ logouts \subseteq Logouts
  /\ removing \subseteq Users

Init ==
  /\ account = [u \in Users |-> IF u = Root THEN "active" ELSE "none"]
  /\ role = [u \in Users |-> IF u = Root THEN "SUPER_ADMIN" ELSE "CUSTOMER"]
  /\ epoch = [u \in Users |-> 0]
  /\ setback = {}
  /\ token = [t \in Tokens |-> NoToken]
  /\ reused = {}
  /\ access = {}
  /\ logins = {}
  /\ logouts = {}
  /\ removing = {}

-----------------------------------------------------------------------------
Active(u)  == account[u] = "active"
Exists(u)  == account[u] \in {"active", "disabled"}
Admins     == {u \in Users : Active(u) /\ role[u] = "SUPER_ADMIN"}
Unlocked(u) == u \notin removing

(* get_current_principal of dependencies.py, before exp of the token. *)
Valid(claim) == Active(claim.user) /\ epoch[claim.user] = claim.epoch

Of(u)     == {t \in Tokens : token[t] # NoToken /\ token[t].user = u}
Family(f) == {t \in Tokens : token[t] # NoToken /\ token[t].family = f}

(* UPDATE refresh_tokens SET revoked_at WHERE revoked_at IS NULL. *)
Revoke(which) ==
  token' = [t \in Tokens |->
              IF t \in which /\ token[t].status \in Unspent
              THEN [token[t] EXCEPT !.status = "revoked"] ELSE token[t]]

NextEpoch(u) ==
  /\ epoch[u] < MaxEpoch
  /\ epoch' = [epoch EXCEPT ![u] = @ + 1]

(* session_epoch + 1, and every refresh token of the user revoked. *)
EndSessions(u) == NextEpoch(u) /\ Revoke(Of(u))

-----------------------------------------------------------------------------
(* Sessions.                                                               *)

Room == Cardinality(logins) + Cardinality(logouts) < MaxInFlight

(* login up to the verification of the password. *)
LoginReads(u) ==
  /\ Active(u)
  /\ Room
  /\ logins' = logins \cup {[user |-> u, epoch |-> epoch[u]]}
  /\ UNCHANGED <<userVars, token, reused, access, logouts, removing>>

(* login from there on: the user may have changed meanwhile. *)
LoginIssues(claim, t) ==
  /\ claim \in logins
  /\ Unlocked(claim.user)
  /\ token[t] = NoToken
  /\ token' = [token EXCEPT ![t] = [status |-> "live", user |-> claim.user, family |-> t]]
  /\ access' = access \cup {claim}
  /\ logins' = logins \ {claim}
  /\ UNCHANGED <<userVars, reused, logouts, removing>>

(* What refresh asks of every token before it looks at its state. *)
Presented(t) ==
  /\ token[t] # NoToken
  /\ Active(token[t].user)
  /\ Unlocked(token[t].user)

(* Mutant: the old token stays usable until it expires. *)
RefreshKeepingOld(t, new) ==
  /\ Presented(t)
  /\ token[t].status = "live"
  /\ token[new] = NoToken
  /\ token' = [token EXCEPT ![new] = token[t]]
  /\ access' = access \cup {[user |-> token[t].user, epoch |-> epoch[token[t].user]]}
  /\ UNCHANGED <<userVars, reused, flightVars>>

Refresh(t, new) ==
  /\ Presented(t)
  /\ token[t].status = "live"
  /\ token[new] = NoToken
  /\ token' = [token EXCEPT ![new] = token[t], ![t].status = "revoked"]
  /\ access' = access \cup {[user |-> token[t].user, epoch |-> epoch[token[t].user]]}
  /\ UNCHANGED <<userVars, reused, flightVars>>

(* Mutant: only the token that was presented twice is revoked. *)
RefreshReusedAlone(t) ==
  /\ Presented(t)
  /\ token[t].status = "revoked"
  /\ reused' = reused \cup {token[t].family}
  /\ Revoke({t})
  /\ NextEpoch(token[t].user)
  /\ UNCHANGED <<account, role, setback, access, flightVars>>

(* A token that was rotated or revoked comes again: its family ends. *)
RefreshReused(t) ==
  /\ Presented(t)
  /\ token[t].status = "revoked"
  /\ reused' = reused \cup {token[t].family}
  /\ Revoke(Family(token[t].family))
  /\ NextEpoch(token[t].user)
  /\ UNCHANGED <<account, role, setback, access, flightVars>>

RefreshExpired(t) ==
  /\ Presented(t)
  /\ token[t].status = "expired"
  /\ Revoke({t})
  /\ UNCHANGED <<userVars, reused, access, flightVars>>

(* refresh_token_ttl_days pass. *)
TokenExpires(t) ==
  /\ token[t].status = "live"
  /\ token' = [token EXCEPT ![t].status = "expired"]
  /\ UNCHANGED <<userVars, reused, access, flightVars>>

(* logout has read its token, its user and the rows its UPDATE will find:  *)
(* a token that a rotation not yet committed adds is not among them.       *)
LogoutReads(t) ==
  /\ token[t] # NoToken
  /\ Room
  /\ logouts' = logouts \cup
       {[token |-> t, user |-> token[t].user, epoch |-> epoch[token[t].user],
         seen |-> Family(token[t].family)]}
  /\ UNCHANGED <<userVars, token, reused, access, logins, removing>>

(* The session_epoch that logout writes is the one it read, plus 1, which  *)
(* may be less than the one that is stored by now.                         *)
WriteEpoch(u, read) ==
  /\ read < MaxEpoch
  /\ epoch' = [epoch EXCEPT ![u] = read + 1]
  /\ setback' = IF read + 1 < epoch[u] THEN setback \cup {u} ELSE setback

(* Mutant: logout ends the access tokens only. *)
LogoutWritesEpoch(l) ==
  /\ l \in logouts
  /\ Unlocked(l.user)
  /\ WriteEpoch(l.user, l.epoch)
  /\ logouts' = logouts \ {l}
  /\ UNCHANGED <<account, role, token, reused, access, logins, removing>>

LogoutWrites(l) ==
  /\ l \in logouts
  /\ Unlocked(l.user)
  /\ Revoke(l.seen)
  /\ WriteEpoch(l.user, l.epoch)
  /\ logouts' = logouts \ {l}
  /\ UNCHANGED <<account, role, reused, access, logins, removing>>

-----------------------------------------------------------------------------
(* Accounts.                                                               *)

(* The administrator behind a request was one when the request was         *)
(* authenticated and need not be one any more when it takes effect.        *)

CreateUser(u, r) ==
  /\ account[u] = "none"
  /\ account' = [account EXCEPT ![u] = "active"]
  /\ role' = [role EXCEPT ![u] = r]
  /\ UNCHANGED <<epoch, setback, token, reused, access, flightVars>>

(* change_password, by the user, and reset_password, by an administrator. *)
NewPassword(u) ==
  /\ Exists(u)
  /\ Unlocked(u)
  /\ EndSessions(u)
  /\ UNCHANGED <<account, role, setback, reused, access, flightVars>>

(* The request takes an administrator away, active or not. *)
Removes(u, r, a) == role[u] = "SUPER_ADMIN" /\ (r # "SUPER_ADMIN" \/ a = "disabled")

(* update_user and delete_user count the active administrators, with the   *)
(* row of u locked and no other.                                           *)
CountAdmins(u) ==
  /\ Exists(u)
  /\ Unlocked(u)
  /\ role[u] = "SUPER_ADMIN"
  /\ Cardinality(Admins) > 1
  /\ removing' = removing \cup {u}
  /\ UNCHANGED <<userVars, token, reused, access, logins, logouts>>

(* Mutant: a change of is_active leaves the sessions alone. *)
SetUserKeepingSessions(u, r, a) ==
  /\ account' = [account EXCEPT ![u] = a]
  /\ role' = [role EXCEPT ![u] = r]
  /\ UNCHANGED <<epoch, token>>

(* A change of is_active ends the sessions; a change of role does not. *)
SetUser(u, r, a) ==
  /\ account' = [account EXCEPT ![u] = a]
  /\ role' = [role EXCEPT ![u] = r]
  /\ IF a = account[u] THEN UNCHANGED <<epoch, token>> ELSE EndSessions(u)

UpdateUser(u, r, a) ==
  /\ Exists(u)
  /\ IF Removes(u, r, a) THEN u \in removing ELSE Unlocked(u)
  /\ SetUser(u, r, a)
  /\ removing' = removing \ {u}
  /\ UNCHANGED <<setback, reused, access, logins, logouts>>

(* Mutant: the role is cleared, to a value that is none. *)
DeleteUserWithoutRole(u) ==
  /\ Exists(u)
  /\ IF u \in Admins THEN u \in removing ELSE Unlocked(u)
  /\ account' = [account EXCEPT ![u] = "deleted"]
  /\ role' = [role EXCEPT ![u] = "none"]
  /\ EndSessions(u)
  /\ removing' = removing \ {u}
  /\ UNCHANGED <<setback, reused, access, logins, logouts>>

(* The row stays, without a name, a role or a way back. *)
DeleteUser(u) ==
  /\ Exists(u)
  /\ IF u \in Admins THEN u \in removing ELSE Unlocked(u)
  /\ account' = [account EXCEPT ![u] = "deleted"]
  /\ role' = [role EXCEPT ![u] = "CUSTOMER"]
  /\ EndSessions(u)
  /\ removing' = removing \ {u}
  /\ UNCHANGED <<setback, reused, access, logins, logouts>>

-----------------------------------------------------------------------------
Session(t) ==
  \/ \E claim \in logins : LoginIssues(claim, t)
  \/ \E new \in Tokens : Refresh(t, new)
  \/ RefreshReused(t)
  \/ RefreshExpired(t)
  \/ TokenExpires(t)
  \/ LogoutReads(t)

Administer(u) ==
  \/ \E r \in Roles : CreateUser(u, r)
  \/ NewPassword(u)
  \/ CountAdmins(u)
  \/ \E r \in Roles, a \in {"active", "disabled"} : UpdateUser(u, r, a)
  \/ DeleteUser(u)

Next ==
  \/ \E u \in Users : LoginReads(u) \/ Administer(u)
  \/ \E t \in Tokens : Session(t)
  \/ \E l \in logouts : LogoutWrites(l)

Spec == Init /\ [][Next]_vars

-----------------------------------------------------------------------------
(* Properties.                                                             *)

(* A family of refresh tokens has one unrevoked token at most, whatever    *)
(* refreshes, logouts and administrators do at once: detection of reuse    *)
(* rests on it.                                                            *)
OneUnspentPerFamily ==
  \A t, v \in Tokens :
    /\ token[t].status \in Unspent
    /\ token[v].status \in Unspent
    /\ token[t].family = token[v].family
    => t = v

(* After AUTH_REFRESH_REUSE no token of the family is usable, not even one *)
(* that a logout or a rotation overlapping the detection left behind.      *)
ReusedFamilyIsDead ==
  \A t \in Tokens : token[t] # NoToken /\ token[t].family \in reused => token[t].status = "revoked"

(* A deleted user is never active again and gets no role back, though the  *)
(* row is kept and requests about it may be under way.                     *)
DeletedForGood ==
  [][\A u \in Users :
       account[u] = "deleted" => account'[u] = "deleted" /\ role'[u] = role[u]]_vars

(* An access token that became invalid, by a disabled account or a passed  *)
(* epoch, is valid again only if a logout has written the epoch of its     *)
(* user back: the logout itself may revive it and, the token being ahead   *)
(* of the epoch from then on, any later end of sessions.  For every other  *)
(* user no overlap of operations does.                                     *)
RevivedAfterSetbackOnly ==
  [][\A claim \in access :
       ~Valid(claim) /\ Valid(claim)' => claim.user \in setback']_vars
=============================================================================
