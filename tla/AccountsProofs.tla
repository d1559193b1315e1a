--------------------------- MODULE AccountsProofs ---------------------------
(***************************************************************************)
(* The token families of Accounts, for any number of users and tokens.     *)
(* That a family has one unrevoked token needs the root of every family to *)
(* be an issued token: a login then never lands in a family that exists.   *)
(***************************************************************************)
EXTENDS Accounts, TLAPS

(* The login's token, for which a family is named, has been issued; so has *)
(* the root of every family in which reuse was detected.                   *)
FamiliesRooted ==
  /\ \A t \in Tokens : token[t] # NoToken => token[token[t].family] # NoToken
  /\ \A f \in reused : token[f] # NoToken

TokensTyped == token \in [Tokens -> Issued \cup {NoToken}] /\ reused \subseteq Tokens

FamilyInv ==
  /\ TokensTyped
  /\ FamiliesRooted
  /\ OneUnspentPerFamily
  /\ ReusedFamilyIsDead

(* A revoked token keeps its user and its family, and no row disappears.   *)
LEMMA RevokeEffect ==
  ASSUME TokensTyped, NEW which \in SUBSET Tokens, Revoke(which), NEW t \in Tokens
  PROVE  /\ token'[t] \in Issued \cup {NoToken}
         /\ token'[t] = NoToken <=> token[t] = NoToken
         /\ token[t] # NoToken => /\ token'[t].family = token[t].family
                                 /\ token'[t].user = token[t].user
         /\ token'[t].status \in Unspent => token'[t] = token[t] /\ t \notin which
         /\ token[t] # NoToken /\ (t \in which \/ token[t].status = "revoked")
              => token'[t].status = "revoked"
  <1>1. token'[t] = IF t \in which /\ token[t].status \in Unspent
                    THEN [token[t] EXCEPT !.status = "revoked"] ELSE token[t]
      BY DEF Revoke
  <1>2. CASE token[t] = NoToken
      BY <1>1, <1>2 DEF NoToken, Unspent
  <1>3. CASE token[t] \in Issued
      BY <1>1, <1>3 DEF Issued, NoToken, Unspent
  <1> QED BY <1>2, <1>3 DEF TokensTyped

(* A revocation of any set of tokens keeps the invariant. *)
LEMMA RevokeStep ==
  ASSUME FamilyInv, NEW which \in SUBSET Tokens, Revoke(which), reused' = reused
  PROVE  FamilyInv'
  <1> USE DEF FamilyInv
  <1>1. TokensTyped'
      <2>1. \A t \in Tokens : token'[t] \in Issued \cup {NoToken}
          BY RevokeEffect
      <2>2. token' = [t \in Tokens |-> token'[t]]
          BY DEF Revoke
      <2> QED BY <2>1, <2>2 DEF TokensTyped
  <1>2. FamiliesRooted'
      <2>1. \A t \in Tokens : token'[t] # NoToken => token'[token'[t].family] # NoToken
          <3> SUFFICES ASSUME NEW t \in Tokens, token'[t] # NoToken
                       PROVE  token'[token'[t].family] # NoToken
              OBVIOUS
          <3>1. token[t] # NoToken /\ token'[t].family = token[t].family
              BY RevokeEffect
          <3>2. token[t].family \in Tokens
              BY <3>1 DEF TokensTyped, Issued
          <3> QED BY <3>1, <3>2, RevokeEffect DEF FamiliesRooted
      <2>2. \A f \in reused : token'[f] # NoToken
          BY RevokeEffect DEF FamiliesRooted, TokensTyped
      <2> QED BY <2>1, <2>2 DEF FamiliesRooted
  <1>3. OneUnspentPerFamily'
      <2> SUFFICES ASSUME NEW t \in Tokens, NEW v \in Tokens,
                          token'[t].status \in Unspent, token'[v].status \in Unspent,
                          token'[t].family = token'[v].family
                   PROVE  t = v
          BY DEF OneUnspentPerFamily
      <2>1. token'[t] = token[t] /\ token'[v] = token[v]
          BY RevokeEffect
      <2> QED BY <2>1 DEF OneUnspentPerFamily
  <1>4. ReusedFamilyIsDead'
      <2> SUFFICES ASSUME NEW t \in Tokens, token'[t] # NoToken, token'[t].family \in reused
                   PROVE  token'[t].status = "revoked"
          BY DEF ReusedFamilyIsDead
      <2>1. token[t] # NoToken /\ token'[t].family = token[t].family
          BY RevokeEffect
      <2>2. token[t].status = "revoked"
          BY <2>1 DEF ReusedFamilyIsDead
      <2> QED BY <2>1, <2>2, RevokeEffect
  <1> QED BY <1>1, <1>2, <1>3, <1>4

(* A step that leaves the tokens alone keeps the invariant. *)
LEMMA IdleStep ==
  ASSUME FamilyInv, UNCHANGED <<token, reused>>
  PROVE  FamilyInv'
  BY DEF FamilyInv, TokensTyped, FamiliesRooted, OneUnspentPerFamily, ReusedFamilyIsDead

(* A login starts a family that no other token belongs to. *)
LEMMA LoginStep ==
  ASSUME FamilyInv, NEW claim \in Claims, NEW t \in Tokens, LoginIssues(claim, t)
  PROVE  FamilyInv'
  <1> USE DEF FamilyInv
  <1>1. /\ token[t] = NoToken
        /\ token' = [token EXCEPT ![t] =
                       [status |-> "live", user |-> claim.user, family |-> t]]
        /\ reused' = reused
      BY DEF LoginIssues
  <1>2. token'[t] \in Issued /\ token'[t].family = t /\ token'[t] # NoToken
      BY <1>1 DEF TokensTyped, Issued, Unspent, Claims, NoToken
  <1>3. \A v \in Tokens \ {t} : token'[v] = token[v]
      BY <1>1 DEF TokensTyped
  <1>4. t \notin reused
      BY <1>1 DEF FamiliesRooted
  <1>5. \A v \in Tokens : token[v] # NoToken => token[v].family \in Tokens \ {t}
      BY <1>1 DEF FamiliesRooted, TokensTyped, Issued
  <1>6. TokensTyped'
      BY <1>1, <1>2 DEF TokensTyped
  <1>7. FamiliesRooted'
      BY <1>1, <1>2, <1>3, <1>5 DEF FamiliesRooted, TokensTyped
  <1>8. NoToken.status \notin Unspent
      BY DEF NoToken, Unspent
  <1>9. OneUnspentPerFamily'
      <2> SUFFICES ASSUME NEW v \in Tokens, NEW w \in Tokens,
                          token'[v].status \in Unspent, token'[w].status \in Unspent,
                          token'[v].family = token'[w].family, v # w
                   PROVE  FALSE
          BY DEF OneUnspentPerFamily
      <2>1. CASE v # t /\ w # t
          BY <1>3, <2>1 DEF OneUnspentPerFamily
      <2>2. CASE v = t
          BY <1>2, <1>3, <1>5, <1>8, <2>2
      <2>3. CASE w = t
          BY <1>2, <1>3, <1>5, <1>8, <2>3
      <2> QED BY <2>1, <2>2, <2>3
  <1>10. ReusedFamilyIsDead'
      BY <1>1, <1>2, <1>3, <1>4 DEF ReusedFamilyIsDead
  <1> QED BY <1>6, <1>7, <1>9, <1>10

(* A rotation moves the family's one unrevoked token. *)
LEMMA RefreshStep ==
  ASSUME FamilyInv, NEW t \in Tokens, NEW new \in Tokens, Refresh(t, new)
  PROVE  FamilyInv'
  <1> USE DEF FamilyInv
  <1>1. /\ token[t] \in Issued /\ token[t].status = "live"
        /\ token[new] = NoToken /\ t # new
        /\ token' = [token EXCEPT ![new] = token[t], ![t].status = "revoked"]
        /\ reused' = reused
      BY DEF Refresh, Presented, TokensTyped
  <1>2. /\ token'[new] = token[t]
        /\ token'[t] = [token[t] EXCEPT !.status = "revoked"]
        /\ \A v \in Tokens \ {t, new} : token'[v] = token[v]
      BY <1>1 DEF TokensTyped
  <1>3. /\ token'[t] \in Issued /\ token'[t].status = "revoked"
        /\ token'[t].family = token[t].family
      BY <1>1, <1>2 DEF Issued
  <1>4. token'[new] # NoToken /\ token'[t] # NoToken
      BY <1>1, <1>2, <1>3 DEF Issued, NoToken, Unspent
  <1>5. TokensTyped'
      <2>1. \A v \in Tokens : token'[v] \in Issued \cup {NoToken}
          BY <1>1, <1>2, <1>3 DEF TokensTyped
      <2>2. DOMAIN token' = Tokens /\ token' = [v \in DOMAIN token' |-> token'[v]]
          BY <1>1 DEF TokensTyped
      <2> QED BY <1>1, <2>1, <2>2 DEF TokensTyped
  <1>6. FamiliesRooted'
      <2>1. token[t].family \in Tokens /\ token[token[t].family] # NoToken
          BY <1>1 DEF FamiliesRooted, Issued, NoToken, Unspent
      <2>2. \A v \in Tokens : token[v] # NoToken => token'[v] # NoToken
          BY <1>2, <1>4
      <2>3. \A v \in Tokens \ {t, new} :
              token[v] # NoToken => token[v].family \in Tokens /\ token[token[v].family] # NoToken
          BY DEF FamiliesRooted, TokensTyped, Issued
      <2>4. \A v \in Tokens : token'[v] # NoToken => token'[token'[v].family] # NoToken
          BY <1>2, <1>3, <2>1, <2>2, <2>3
      <2>5. \A f \in reused : token'[f] # NoToken
          BY <2>2 DEF FamiliesRooted, TokensTyped
      <2> QED BY <1>1, <2>4, <2>5 DEF FamiliesRooted
  <1>7. OneUnspentPerFamily'
      <2>1. token[t].status \in Unspent /\ "revoked" \notin Unspent
          BY <1>1 DEF Unspent
      <2> SUFFICES ASSUME NEW v \in Tokens, NEW w \in Tokens,
                          token'[v].status \in Unspent, token'[w].status \in Unspent,
                          token'[v].family = token'[w].family, v # w
                   PROVE  FALSE
          BY DEF OneUnspentPerFamily
      <2>2. v # t /\ w # t
          BY <1>3, <2>1
      <2>3. CASE v = new
          BY <1>2, <2>1, <2>2, <2>3 DEF OneUnspentPerFamily
      <2>4. CASE w = new
          BY <1>2, <2>1, <2>2, <2>4 DEF OneUnspentPerFamily
      <2>5. CASE v # new /\ w # new
          BY <1>2, <2>2, <2>5 DEF OneUnspentPerFamily
      <2> QED BY <2>3, <2>4, <2>5
  <1>8. ReusedFamilyIsDead'
      <2>1. token[t].family \notin reused
          BY <1>1 DEF ReusedFamilyIsDead, Issued, NoToken, Unspent
      <2> SUFFICES ASSUME NEW v \in Tokens, token'[v] # NoToken, token'[v].family \in reused
                   PROVE  token'[v].status = "revoked"
          BY <1>1 DEF ReusedFamilyIsDead
      <2>2. v # new
          BY <1>2, <2>1
      <2>3. CASE v = t
          BY <1>3, <2>3
      <2>4. CASE v # t
          BY <1>2, <2>2, <2>4 DEF ReusedFamilyIsDead
      <2> QED BY <2>3, <2>4
  <1> QED BY <1>5, <1>6, <1>7, <1>8

(* Detected reuse leaves nothing of the family. *)
LEMMA ReusedStep ==
  ASSUME FamilyInv, NEW t \in Tokens, RefreshReused(t)
  PROVE  FamilyInv'
  <1> DEFINE f == token[t].family
  <1>1. token[t] # NoToken /\ f \in Tokens /\ Revoke(Family(f)) /\ reused' = reused \cup {f}
      BY DEF RefreshReused, Presented, FamilyInv, TokensTyped, Issued
  <1>2. TokensTyped /\ Family(f) \in SUBSET Tokens
      BY DEF FamilyInv, Family
  <1>3. \A v \in Tokens : /\ token'[v] \in Issued \cup {NoToken}
                          /\ token'[v] = NoToken <=> token[v] = NoToken
                          /\ token[v] # NoToken => token'[v].family = token[v].family
                          /\ token'[v].status \in Unspent => token'[v] = token[v]
                          /\ token[v] # NoToken /\ (v \in Family(f) \/ token[v].status = "revoked")
                               => token'[v].status = "revoked"
      BY <1>1, <1>2, RevokeEffect
  <1>4. TokensTyped'
      <2>1. token' = [v \in Tokens |-> token'[v]]
          BY <1>1 DEF Revoke
      <2> QED BY <1>1, <1>2, <1>3, <2>1 DEF TokensTyped
  <1>5. FamiliesRooted'
      <2>1. token[f] # NoToken
          BY <1>1 DEF FamilyInv, FamiliesRooted
      <2>2. \A v \in Tokens : token[v] # NoToken => token[v].family \in Tokens
          BY <1>2 DEF TokensTyped, Issued
      <2> QED BY <1>1, <1>2, <1>3, <2>1, <2>2 DEF FamilyInv, FamiliesRooted, TokensTyped
  <1>6. OneUnspentPerFamily'
      <2> SUFFICES ASSUME NEW v \in Tokens, NEW w \in Tokens,
                          token'[v].status \in Unspent, token'[w].status \in Unspent,
                          token'[v].family = token'[w].family
                   PROVE  v = w
          BY DEF OneUnspentPerFamily
      <2>1. token'[v] = token[v] /\ token'[w] = token[w]
          BY <1>3
      <2> QED BY <2>1 DEF FamilyInv, OneUnspentPerFamily
  <1>7. ReusedFamilyIsDead'
      <2> SUFFICES ASSUME NEW v \in Tokens, token'[v] # NoToken, token'[v].family \in reused \cup {f}
                   PROVE  token'[v].status = "revoked"
          BY <1>1 DEF ReusedFamilyIsDead
      <2>1. token[v] # NoToken /\ token'[v].family = token[v].family
          BY <1>3
      <2>2. v \in Family(f) \/ token[v].status = "revoked"
          BY <2>1 DEF Family, FamilyInv, ReusedFamilyIsDead
      <2> QED BY <1>3, <2>1, <2>2
  <1> QED BY <1>4, <1>5, <1>6, <1>7 DEF FamilyInv

(* A token that runs out is still the family's one unrevoked token. *)
LEMMA ExpiresStep ==
  ASSUME FamilyInv, NEW t \in Tokens, TokenExpires(t)
  PROVE  FamilyInv'
  <1> USE DEF FamilyInv
  <1>1. /\ token[t] \in Issued /\ token[t].status = "live"
        /\ token' = [token EXCEPT ![t].status = "expired"]
        /\ reused' = reused
      BY DEF TokenExpires, TokensTyped, NoToken
  <1>2. /\ token'[t] = [token[t] EXCEPT !.status = "expired"]
        /\ \A v \in Tokens \ {t} : token'[v] = token[v]
      BY <1>1 DEF TokensTyped
  <1>3. /\ token'[t] \in Issued /\ token'[t].status = "expired"
        /\ token'[t].family = token[t].family
        /\ token[t].status \in Unspent
      BY <1>1, <1>2 DEF Issued, Unspent
  <1>4. token[t] # NoToken /\ token'[t] # NoToken
      BY <1>1, <1>3 DEF Issued, NoToken, Unspent
  <1>5. \A v \in Tokens : /\ token'[v].family = token[v].family \/ token[v] = NoToken
                          /\ token'[v] = NoToken <=> token[v] = NoToken
                          /\ token'[v].status \in Unspent => token[v].status \in Unspent
      BY <1>2, <1>3, <1>4
  <1>6. TokensTyped'
      <2>1. DOMAIN token' = Tokens /\ token' = [v \in DOMAIN token' |-> token'[v]]
          BY <1>1 DEF TokensTyped
      <2>2. \A v \in Tokens : token'[v] \in Issued \cup {NoToken}
          BY <1>2, <1>3 DEF TokensTyped
      <2> QED BY <1>1, <2>1, <2>2 DEF TokensTyped
  <1>7. FamiliesRooted'
      <2>1. \A v \in Tokens : token[v] # NoToken => token[v].family \in Tokens
          BY DEF TokensTyped, Issued
      <2> QED BY <1>1, <1>5, <2>1 DEF FamiliesRooted, TokensTyped
  <1>8. OneUnspentPerFamily'
      <2> SUFFICES ASSUME NEW v \in Tokens, NEW w \in Tokens,
                          token'[v].status \in Unspent, token'[w].status \in Unspent,
                          token'[v].family = token'[w].family
                   PROVE  v = w
          BY DEF OneUnspentPerFamily
      <2>1. token[v].status \in Unspent /\ token[w].status \in Unspent
          BY <1>5
      <2>2. token[v] # NoToken /\ token[w] # NoToken
          BY <2>1 DEF NoToken, Unspent
      <2> QED BY <1>5, <2>1, <2>2 DEF OneUnspentPerFamily
  <1>9. ReusedFamilyIsDead'
      <2>1. token[t].family \notin reused
          BY <1>1, <1>4 DEF ReusedFamilyIsDead
      <2> SUFFICES ASSUME NEW v \in Tokens, token'[v] # NoToken, token'[v].family \in reused
                   PROVE  token'[v].status = "revoked"
          BY <1>1 DEF ReusedFamilyIsDead
      <2>2. v # t
          BY <1>3, <2>1
      <2> QED BY <1>2, <2>2 DEF ReusedFamilyIsDead
  <1> QED BY <1>6, <1>7, <1>8, <1>9

-----------------------------------------------------------------------------
(* Types.                                                                  *)

(* session_epoch stays in its bounds. *)
LEMMA NextEpochTypes ==
  ASSUME epoch \in [Users -> 0 .. MaxEpoch], NEW u \in Users, NextEpoch(u)
  PROVE  epoch' \in [Users -> 0 .. MaxEpoch]
  <1>1. epoch[u] + 1 \in 0 .. MaxEpoch
      BY EpochAssumption DEF NextEpoch
  <1> QED BY <1>1 DEF NextEpoch

(* Every variable keeps its type over a step of Next. *)
LEMMA TypeStep ==
  ASSUME AccountsTypeOK, FamilyInv, FamilyInv', Next
  PROVE  AccountsTypeOK'
  <1>1. token' \in [Tokens -> Issued \cup {NoToken}] /\ reused' \subseteq Tokens
      BY DEF FamilyInv, TokensTyped
  <1>2. ASSUME NEW u \in Users, LoginReads(u) PROVE AccountsTypeOK'
      <2>1. [user |-> u, epoch |-> epoch[u]] \in Claims
          BY DEF AccountsTypeOK, Claims
      <2> QED BY <1>2, <2>1 DEF AccountsTypeOK, LoginReads, userVars
  <1>3. ASSUME NEW u \in Users, Administer(u) PROVE AccountsTypeOK'
      <2>1. /\ account' \in [Users -> Accounts] /\ role' \in [Users -> Roles]
            /\ removing' \subseteq Users
            /\ UNCHANGED <<setback, access, logins, logouts>>
          BY <1>3 DEF Administer, CreateUser, NewPassword, CountAdmins, UpdateUser, DeleteUser,
                     SetUser, AccountsTypeOK, Accounts, Roles, userVars, flightVars
      <2>2. epoch' = epoch \/ NextEpoch(u)
          BY <1>3 DEF Administer, CreateUser, NewPassword, CountAdmins, UpdateUser, DeleteUser,
                     SetUser, EndSessions, userVars
      <2>3. epoch' \in [Users -> 0 .. MaxEpoch]
          BY <2>2, NextEpochTypes DEF AccountsTypeOK
      <2> QED BY <1>1, <2>1, <2>3 DEF AccountsTypeOK
  <1>4. ASSUME NEW t \in Tokens, Session(t) PROVE AccountsTypeOK'
      <2>1. CASE \E claim \in logins : LoginIssues(claim, t)
          BY <1>1, <2>1 DEF LoginIssues, AccountsTypeOK, userVars
      <2>2. CASE \E new \in Tokens : Refresh(t, new)
          <3>1. token[t] \in Issued
              BY <2>2 DEF Refresh, Presented, AccountsTypeOK
          <3>2. [user |-> token[t].user, epoch |-> epoch[token[t].user]] \in Claims
              BY <3>1 DEF Issued, Claims, AccountsTypeOK
          <3> QED BY <1>1, <2>2, <3>2 DEF Refresh, AccountsTypeOK, userVars, flightVars
      <2>3. CASE RefreshReused(t)
          <3>1. token[t].user \in Users
              BY <2>3 DEF RefreshReused, Presented, AccountsTypeOK, Issued
          <3>2. epoch' \in [Users -> 0 .. MaxEpoch]
              BY <2>3, <3>1, NextEpochTypes DEF RefreshReused, AccountsTypeOK
          <3> QED BY <1>1, <2>3, <3>2 DEF RefreshReused, AccountsTypeOK, flightVars
      <2>4. CASE RefreshExpired(t) \/ TokenExpires(t)
          BY <1>1, <2>4 DEF RefreshExpired, TokenExpires, AccountsTypeOK, userVars, flightVars
      <2>5. CASE LogoutReads(t)
          <3>1. token[t].user \in Users
              BY <2>5 DEF LogoutReads, AccountsTypeOK, Issued
          <3>2. [token |-> t, user |-> token[t].user, epoch |-> epoch[token[t].user],
                 seen |-> Family(token[t].family)] \in Logouts
              BY <3>1 DEF Family, AccountsTypeOK, Logouts
          <3> QED BY <1>1, <2>5, <3>2 DEF LogoutReads, AccountsTypeOK, userVars
      <2> QED BY <1>4, <2>1, <2>2, <2>3, <2>4, <2>5 DEF Session
  <1>5. ASSUME NEW l \in logouts, LogoutWrites(l) PROVE AccountsTypeOK'
      <2>1. l.epoch + 1 \in 0 .. MaxEpoch
          BY <1>5, EpochAssumption DEF LogoutWrites, WriteEpoch, AccountsTypeOK, Logouts
      <2>2. epoch' \in [Users -> 0 .. MaxEpoch]
          BY <1>5, <2>1 DEF LogoutWrites, WriteEpoch, AccountsTypeOK, Logouts
      <2>3. setback' \subseteq Users
          BY <1>5 DEF LogoutWrites, WriteEpoch, AccountsTypeOK, Logouts
      <2> QED BY <1>1, <1>5, <2>2, <2>3 DEF LogoutWrites, AccountsTypeOK
  <1> QED BY <1>2, <1>3, <1>4, <1>5 DEF Next

(* Every step keeps the families. *)
LEMMA FamilyStep ==
  ASSUME AccountsTypeOK, FamilyInv, Next
  PROVE  FamilyInv'
  <1>1. ASSUME NEW u \in Users, LoginReads(u) PROVE FamilyInv'
      BY <1>1, IdleStep DEF LoginReads
  <1>2. ASSUME NEW u \in Users, Administer(u) PROVE FamilyInv'
      <2>1. reused' = reused /\ (token' = token \/ Revoke(Of(u)))
          BY <1>2 DEF Administer, CreateUser, NewPassword, CountAdmins, UpdateUser, DeleteUser,
                     SetUser, EndSessions
      <2>2. Of(u) \in SUBSET Tokens
          BY DEF Of
      <2> QED BY <2>1, <2>2, IdleStep, RevokeStep
  <1>3. ASSUME NEW t \in Tokens, Session(t) PROVE FamilyInv'
      <2>1. CASE \E claim \in logins : LoginIssues(claim, t)
          BY <2>1, LoginStep DEF AccountsTypeOK
      <2>2. CASE \E new \in Tokens : Refresh(t, new)
          BY <2>2, RefreshStep
      <2>3. CASE RefreshReused(t)
          BY <2>3, ReusedStep
      <2>4. CASE RefreshExpired(t)
          BY <2>4, RevokeStep DEF RefreshExpired
      <2>5. CASE TokenExpires(t)
          BY <2>5, ExpiresStep
      <2>6. CASE LogoutReads(t)
          BY <2>6, IdleStep DEF LogoutReads
      <2> QED BY <1>3, <2>1, <2>2, <2>3, <2>4, <2>5, <2>6 DEF Session
  <1>4. ASSUME NEW l \in logouts, LogoutWrites(l) PROVE FamilyInv'
      <2>1. l.seen \in SUBSET Tokens
          BY DEF AccountsTypeOK, Logouts
      <2> QED BY <1>4, <2>1, RevokeStep DEF LogoutWrites
  <1> QED BY <1>1, <1>2, <1>3, <1>4 DEF Next

(* The inductive invariant of accounts and sessions. *)
THEOREM AccountsInvariance == Spec => [](AccountsTypeOK /\ FamilyInv)
  <1>1. Init => AccountsTypeOK /\ FamilyInv
      <2> SUFFICES ASSUME Init PROVE AccountsTypeOK /\ FamilyInv
          OBVIOUS
      <2>1. AccountsTypeOK
          BY EpochAssumption DEF Init, AccountsTypeOK, Accounts, Roles
      <2>2. \A t \in Tokens : token[t] = NoToken
          BY DEF Init
      <2>3. NoToken.status \notin Unspent
          BY DEF NoToken, Unspent
      <2>4. FamilyInv
          BY <2>1, <2>2, <2>3
          DEF Init, AccountsTypeOK, FamilyInv, TokensTyped, FamiliesRooted, OneUnspentPerFamily,
              ReusedFamilyIsDead
      <2> QED BY <2>1, <2>4
  <1>2. AccountsTypeOK /\ FamilyInv /\ [Next]_vars => (AccountsTypeOK /\ FamilyInv)'
      <2> SUFFICES ASSUME AccountsTypeOK, FamilyInv, [Next]_vars
                   PROVE  AccountsTypeOK' /\ FamilyInv'
          OBVIOUS
      <2>1. CASE Next
          BY <2>1, FamilyStep, TypeStep
      <2>2. CASE UNCHANGED vars
          BY <2>2, IdleStep DEF vars, AccountsTypeOK
      <2> QED BY <2>1, <2>2
  <1> QED BY <1>1, <1>2, PTL DEF Spec

(* Every variable of Accounts keeps its type. *)
THEOREM AccountsTypes == Spec => []AccountsTypeOK
  BY AccountsInvariance, PTL

(* A family never has two usable refresh tokens, for any number of users   *)
(* and tokens and any overlap of refresh, login, logout and accounts.      *)
THEOREM OneUnspent == Spec => []OneUnspentPerFamily
  <1>1. FamilyInv => OneUnspentPerFamily
      BY DEF FamilyInv
  <1> QED BY <1>1, AccountsInvariance, PTL

(* The family of a token that was presented twice never comes back. *)
THEOREM ReuseIsFinal == Spec => []ReusedFamilyIsDead
  <1>1. FamilyInv => ReusedFamilyIsDead
      BY DEF FamilyInv
  <1> QED BY <1>1, AccountsInvariance, PTL

(* No operation brings a deleted account or its role back. *)
THEOREM DeletionIsFinal == Spec => DeletedForGood
  <1>1. AccountsTypeOK /\ [Next]_vars
          => [\A u \in Users :
                account[u] = "deleted" => account'[u] = "deleted" /\ role'[u] = role[u]]_vars
      <2> SUFFICES ASSUME AccountsTypeOK, Next, NEW v \in Users, account[v] = "deleted"
                   PROVE  account'[v] = "deleted" /\ role'[v] = role[v]
          OBVIOUS
      <2>1. CASE UNCHANGED <<account, role>>
          BY <2>1
      <2>2. ASSUME NEW u \in Users, Administer(u)
            PROVE  account'[v] = "deleted" /\ role'[v] = role[v]
          BY <2>2 DEF Administer, CreateUser, NewPassword, CountAdmins, UpdateUser, DeleteUser,
                     SetUser, Exists, AccountsTypeOK, userVars
      <2>3. \/ UNCHANGED <<account, role>>
            \/ \E u \in Users : Administer(u)
          BY DEF Next, LoginReads, Session, LoginIssues, Refresh, RefreshReused, RefreshExpired,
                 TokenExpires, LogoutReads, LogoutWrites, userVars
      <2> QED BY <2>1, <2>2, <2>3
  <1> QED BY <1>1, AccountsInvariance, PTL DEF Spec, DeletedForGood

-----------------------------------------------------------------------------
(* Access tokens.                                                          *)

(* Whoever holds an access token, or is about to, has an account. *)
ClaimsKnown == \A claim \in access \cup logins : account[claim.user] # "none"

LEMMA ClaimsKnownStep ==
  ASSUME AccountsTypeOK, ClaimsKnown, Next
  PROVE  ClaimsKnown'
  <1>1. ASSUME NEW u \in Users, Administer(u) PROVE ClaimsKnown'
      <2>1. UNCHANGED <<access, logins>>
          BY <1>1 DEF Administer, CreateUser, NewPassword, CountAdmins, UpdateUser, DeleteUser,
                     flightVars
      <2>2. \A v \in Users : account[v] # "none" => account'[v] # "none"
          BY <1>1 DEF Administer, CreateUser, NewPassword, CountAdmins, UpdateUser, DeleteUser,
                     SetUser, userVars, AccountsTypeOK
      <2>3. \A claim \in access \cup logins : claim.user \in Users
          BY DEF AccountsTypeOK, Claims
      <2> QED BY <2>1, <2>2, <2>3 DEF ClaimsKnown
  <1>2. ASSUME NEW u \in Users, LoginReads(u) PROVE ClaimsKnown'
      BY <1>2 DEF LoginReads, ClaimsKnown, userVars, Active
  <1>3. ASSUME NEW t \in Tokens, Session(t) PROVE ClaimsKnown'
      <2>1. CASE \E claim \in logins : LoginIssues(claim, t)
          BY <2>1 DEF LoginIssues, ClaimsKnown, userVars
      <2>2. CASE \E new \in Tokens : Refresh(t, new)
          BY <2>2 DEF Refresh, Presented, Active, ClaimsKnown, userVars, flightVars
      <2>3. CASE RefreshReused(t) \/ RefreshExpired(t) \/ TokenExpires(t) \/ LogoutReads(t)
          BY <2>3 DEF RefreshReused, RefreshExpired, TokenExpires, LogoutReads, ClaimsKnown,
                     userVars, flightVars
      <2> QED BY <1>3, <2>1, <2>2, <2>3 DEF Session
  <1>4. ASSUME NEW l \in logouts, LogoutWrites(l) PROVE ClaimsKnown'
      BY <1>4 DEF LogoutWrites, ClaimsKnown
  <1> QED BY <1>1, <1>2, <1>3, <1>4 DEF Next

(* For a user whose epoch no logout has written back, no access token is   *)
(* ahead of it, and neither is a login nor a logout under way.             *)
ClaimsBehind ==
  /\ \A claim \in access \cup logins :
       claim.user \in setback \/ claim.epoch <= epoch[claim.user]
  /\ \A l \in logouts : l.user \in setback \/ l.epoch <= epoch[l.user]

(* For a user whose epoch is not written back in the step, the epoch grows *)
(* or stays; an account that becomes active has a new epoch, unless it is  *)
(* a new account.                                                          *)
LEMMA EpochStep ==
  ASSUME AccountsTypeOK, ClaimsBehind, Next, NEW v \in Users, v \notin setback'
  PROVE  /\ v \notin setback
         /\ epoch[v] <= epoch'[v]
         /\ epoch'[v] = epoch[v] /\ account'[v] = "active"
              => account[v] \in {"active", "none"}
  <1> DEFINE Goal == /\ v \notin setback
                     /\ epoch[v] <= epoch'[v]
                     /\ epoch'[v] = epoch[v] /\ account'[v] = "active"
                          => account[v] \in {"active", "none"}
  <1>0. epoch[v] \in Int
      BY DEF AccountsTypeOK
  <1>1. ASSUME NEW u \in Users, NextEpoch(u)
        PROVE  epoch'[v] = IF u = v THEN epoch[v] + 1 ELSE epoch[v]
      BY <1>1 DEF NextEpoch, AccountsTypeOK
  <1>2. ASSUME NEW u \in Users, Administer(u) PROVE Goal
      <2>0. setback' = setback
          BY <1>2 DEF Administer, CreateUser, NewPassword, CountAdmins, UpdateUser, DeleteUser,
                     userVars
      <2>1. CASE \E r \in Roles : CreateUser(u, r)
          BY <1>0, <2>0, <2>1 DEF CreateUser, AccountsTypeOK
      <2>2. CASE CountAdmins(u)
          BY <1>0, <2>0, <2>2 DEF CountAdmins, userVars
      <2>3. CASE NewPassword(u)
          BY <1>0, <1>1, <2>0, <2>3 DEF NewPassword, EndSessions
      <2>4. CASE \E r \in Roles, a \in {"active", "disabled"} : UpdateUser(u, r, a)
          <3>1. PICK r \in Roles, a \in {"active", "disabled"} : UpdateUser(u, r, a)
              BY <2>4
          <3>2. account' = [account EXCEPT ![u] = a]
              BY <3>1 DEF UpdateUser, SetUser
          <3>3. (epoch' = epoch /\ a = account[u]) \/ NextEpoch(u)
              BY <3>1 DEF UpdateUser, SetUser, EndSessions
          <3> QED BY <1>0, <1>1, <2>0, <3>2, <3>3 DEF AccountsTypeOK
      <2>5. CASE DeleteUser(u)
          <3>1. NextEpoch(u) /\ account' = [account EXCEPT ![u] = "deleted"]
              BY <2>5 DEF DeleteUser, EndSessions
          <3> QED BY <1>0, <1>1, <2>0, <3>1 DEF AccountsTypeOK
      <2> QED BY <1>2, <2>1, <2>2, <2>3, <2>4, <2>5 DEF Administer
  <1>3. ASSUME NEW t \in Tokens, RefreshReused(t) PROVE Goal
      <2>1. token[t].user \in Users
          BY <1>3 DEF RefreshReused, Presented, AccountsTypeOK, Issued
      <2> QED BY <1>0, <1>1, <1>3, <2>1 DEF RefreshReused
  <1>4. ASSUME NEW l \in logouts, LogoutWrites(l) PROVE Goal
      <2>1. l.user \in Users /\ l.epoch \in Int
          BY DEF AccountsTypeOK, Logouts
      <2>2. /\ account' = account
            /\ epoch' = [epoch EXCEPT ![l.user] = l.epoch + 1]
            /\ setback' = IF l.epoch + 1 < epoch[l.user] THEN setback \cup {l.user} ELSE setback
          BY <1>4 DEF LogoutWrites, WriteEpoch
      <2>3. v \notin setback
          BY <2>2
      <2>4. CASE l.user = v
          BY <1>0, <2>1, <2>2, <2>3, <2>4 DEF AccountsTypeOK
      <2>5. CASE l.user # v
          BY <1>0, <2>2, <2>3, <2>5 DEF AccountsTypeOK
      <2> QED BY <2>4, <2>5
  <1>5. \/ \E u \in Users : Administer(u)
        \/ \E t \in Tokens : RefreshReused(t)
        \/ \E l \in logouts : LogoutWrites(l)
        \/ UNCHANGED <<account, epoch, setback>>
      BY DEF Next, LoginReads, Session, LoginIssues, Refresh, RefreshExpired, TokenExpires,
             LogoutReads, userVars
  <1>6. CASE UNCHANGED <<account, epoch, setback>>
      BY <1>0, <1>6
  <1> QED BY <1>2, <1>3, <1>4, <1>5, <1>6

(* No step puts a token ahead of an epoch that was not written back. *)
LEMMA ClaimsBehindStep ==
  ASSUME AccountsTypeOK, AccountsTypeOK', ClaimsBehind, Next
  PROVE  ClaimsBehind'
  <1>1. ASSUME NEW v \in Users, NEW n \in Int, v \in setback \/ n <= epoch[v]
        PROVE  v \in setback' \/ n <= epoch'[v]
      <2>1. epoch[v] \in Int /\ epoch'[v] \in Int
          BY DEF AccountsTypeOK
      <2> QED BY <1>1, <2>1, EpochStep
  <1>2. /\ \A claim \in access \cup logins : claim.user \in Users /\ claim.epoch \in Int
        /\ \A l \in logouts : l.user \in Users /\ l.epoch \in Int
        /\ \A v \in Users : epoch[v] \in Int
      BY DEF AccountsTypeOK, Claims, Logouts
  <1>3. /\ \A claim \in access \cup logins :
             claim.user \in setback' \/ claim.epoch <= epoch'[claim.user]
        /\ \A l \in logouts : l.user \in setback' \/ l.epoch <= epoch'[l.user]
      BY <1>1, <1>2 DEF ClaimsBehind
  <1>4. \/ access' \cup logins' \subseteq access \cup logins /\ logouts' \subseteq logouts
        \/ \E u \in Users : LoginReads(u)
        \/ \E t \in Tokens, new \in Tokens : Refresh(t, new)
        \/ \E t \in Tokens : LogoutReads(t)
      BY DEF Next, Administer, CreateUser, NewPassword, CountAdmins, UpdateUser, DeleteUser,
             Session, LoginIssues, RefreshReused, RefreshExpired, TokenExpires, LogoutWrites,
             userVars, flightVars
  <1>5. CASE access' \cup logins' \subseteq access \cup logins /\ logouts' \subseteq logouts
      BY <1>3, <1>5 DEF ClaimsBehind
  <1>6. ASSUME NEW u \in Users, LoginReads(u) PROVE ClaimsBehind'
      <2>1. /\ UNCHANGED <<epoch, setback, access, logouts>>
            /\ logins' = logins \cup {[user |-> u, epoch |-> epoch[u]]}
          BY <1>6 DEF LoginReads, userVars
      <2> QED BY <1>2, <2>1 DEF ClaimsBehind
  <1>7. ASSUME NEW t \in Tokens, NEW new \in Tokens, Refresh(t, new) PROVE ClaimsBehind'
      <2>1. token[t].user \in Users
          BY <1>7 DEF Refresh, Presented, AccountsTypeOK, Issued
      <2>2. /\ UNCHANGED <<epoch, setback, logins, logouts>>
            /\ access' = access \cup {[user |-> token[t].user, epoch |-> epoch[token[t].user]]}
          BY <1>7 DEF Refresh, userVars, flightVars
      <2> QED BY <1>2, <2>1, <2>2 DEF ClaimsBehind
  <1>8. ASSUME NEW t \in Tokens, LogoutReads(t) PROVE ClaimsBehind'
      <2>1. token[t].user \in Users
          BY <1>8 DEF LogoutReads, AccountsTypeOK, Issued
      <2>2. /\ UNCHANGED <<epoch, setback, access, logins>>
            /\ logouts' = logouts \cup
                 {[token |-> t, user |-> token[t].user, epoch |-> epoch[token[t].user],
                   seen |-> Family(token[t].family)]}
          BY <1>8 DEF LogoutReads, userVars
      <2> QED BY <1>2, <2>1, <2>2 DEF ClaimsBehind
  <1> QED BY <1>4, <1>5, <1>6, <1>7, <1>8

(* Disabling and enabling an account, new passwords, rotation, detected    *)
(* reuse and logouts, however they overlap, make a dead access token valid *)
(* only for a user whose epoch a late logout has written back.             *)
THEOREM RevivedAfterSetback == Spec => RevivedAfterSetbackOnly
  <1>1. Init => ClaimsKnown /\ ClaimsBehind
      BY DEF Init, ClaimsKnown, ClaimsBehind
  <1>2. AccountsTypeOK /\ AccountsTypeOK' /\ ClaimsKnown /\ ClaimsBehind /\ [Next]_vars
          => ClaimsKnown' /\ ClaimsBehind'
      <2>1. CASE UNCHANGED vars
          BY <2>1 DEF vars, ClaimsKnown, ClaimsBehind
      <2>2. CASE Next
          BY <2>2, ClaimsKnownStep, ClaimsBehindStep
      <2> QED BY <2>1, <2>2
  <1>3. AccountsTypeOK /\ ClaimsKnown /\ ClaimsBehind /\ [Next]_vars
          => [\A claim \in access :
                ~Valid(claim) /\ Valid(claim)' => claim.user \in setback']_vars
      <2> SUFFICES ASSUME AccountsTypeOK, ClaimsKnown, ClaimsBehind, Next, NEW claim \in access,
                          ~Valid(claim), Valid(claim)', claim.user \notin setback'
                   PROVE  FALSE
          OBVIOUS
      <2>1. claim.user \in Users /\ claim.epoch \in Int /\ epoch[claim.user] \in Int
          BY DEF AccountsTypeOK, Claims
      <2>2. account'[claim.user] = "active" /\ epoch'[claim.user] = claim.epoch
          BY DEF Valid, Active
      <2>3. claim.user \notin setback /\ epoch[claim.user] <= claim.epoch
          BY <2>1, <2>2, EpochStep
      <2>4. epoch'[claim.user] = epoch[claim.user]
          BY <2>1, <2>2, <2>3 DEF ClaimsBehind
      <2>5. account[claim.user] \in {"active", "none"}
          BY <2>1, <2>2, <2>4, EpochStep
      <2>6. account[claim.user] # "none"
          BY DEF ClaimsKnown
      <2> QED BY <2>2, <2>4, <2>5, <2>6 DEF Valid, Active
  <1> QED BY <1>1, <1>2, <1>3, AccountsInvariance, PTL DEF Spec, RevivedAfterSetbackOnly
=============================================================================
