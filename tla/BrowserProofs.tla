---------------------------- MODULE BrowserProofs ----------------------------
(***************************************************************************)
(* What the browser and its proxy do is, to the backend, a behaviour of    *)
(* Accounts: the theorems about Accounts hold of them.  It takes that the  *)
(* proxy never presents an empty cookie, over all overlaps of its          *)
(* requests.                                                               *)
(***************************************************************************)
EXTENDS BrowserSession, AccountsProofs

BrowserInv ==
  /\ BrowserTypeOK
  /\ \A x \in Trips : trip[x].op = "restore" => trip[x].with \in Tokens

(* A step changes the request of one trip, to one under way or to an end. *)
LEMMA TripStep ==
  ASSUME BrowserInv, NEW x \in Trips, NEW r \in Underway \cup {Unmade, Over},
         r.op = "restore" => r.with \in Tokens,
         trip' = [trip EXCEPT ![x] = r],
         cookie' \in Tokens \cup {NoCookie}, stray' \subseteq Tokens
  PROVE  BrowserInv'
  BY DEF BrowserInv, BrowserTypeOK

LEMMA TripUnderway ==
  ASSUME BrowserInv, NEW x \in Trips, trip[x].op \in Ops
  PROVE  trip[x] \in Underway
  BY DEF BrowserInv, BrowserTypeOK, Unmade, Over, Ops

LEMMA SetCookieTypes ==
  ASSUME BrowserInv, NEW x \in Trips, NEW t \in Tokens \cup {NoCookie}, SetCookie(x, t)
  PROVE  cookie' \in Tokens \cup {NoCookie} /\ stray' \subseteq Tokens
  BY DEF BrowserInv, BrowserTypeOK, SetCookie

LEMMA FinishStep ==
  ASSUME BrowserInv, NEW x \in Trips, Finish(x),
         cookie' \in Tokens \cup {NoCookie}, stray' \subseteq Tokens
  PROVE  BrowserInv'
  BY TripStep DEF Finish, Over

(* A request moves on, and may get an answer. *)
LEMMA MoveStep ==
  ASSUME BrowserInv, NEW x \in Trips, trip[x].op \in Ops,
         NEW at \in Positions, NEW got \in Tokens \cup {NoCookie},
         trip' = [trip EXCEPT ![x].at = at, ![x].got = got],
         cookie' \in Tokens \cup {NoCookie}, stray' \subseteq Tokens
  PROVE  BrowserInv'
  <1> DEFINE r == [trip[x] EXCEPT !.at = at, !.got = got]
  <1>1. trip[x] \in Underway
      BY TripUnderway
  <1>2. r \in Underway /\ r.op = trip[x].op /\ r.with = trip[x].with
      BY <1>1 DEF Underway
  <1>3. trip' = [trip EXCEPT ![x] = r]
      BY DEF BrowserInv, BrowserTypeOK
  <1>4. r.op = "restore" => r.with \in Tokens
      BY <1>2 DEF BrowserInv
  <1> HIDE DEF r
  <1> QED BY <1>2, <1>3, <1>4, TripStep

LEMMA PassStep ==
  ASSUME BrowserInv, NEW x \in Trips, trip[x].op \in Ops, NEW at \in Positions,
         trip' = [trip EXCEPT ![x].at = at],
         cookie' \in Tokens \cup {NoCookie}, stray' \subseteq Tokens
  PROVE  BrowserInv'
  <1>1. trip[x] \in Underway
      BY TripUnderway
  <1>2. trip' = [trip EXCEPT ![x].at = at, ![x].got = trip[x].got]
      BY <1>1 DEF BrowserInv, BrowserTypeOK, Underway
  <1>3. trip[x].got \in Tokens \cup {NoCookie}
      BY <1>1 DEF Underway
  <1> QED BY <1>2, <1>3, MoveStep

LEMMA AnsweredStep ==
  ASSUME BrowserInv, NEW x \in Trips, trip[x].op \in Ops,
         NEW got \in Tokens \cup {NoCookie}, Answered(x, got)
  PROVE  BrowserInv'
  <1>1. cookie' \in Tokens \cup {NoCookie} /\ stray' \subseteq Tokens
      BY DEF BrowserInv, BrowserTypeOK, Answered
  <1>2. CASE trip[x].at = "sent"
      BY <1>1, <1>2, MoveStep DEF Answered, Positions
  <1>3. CASE trip[x].at # "sent"
      BY <1>1, <1>3, FinishStep DEF Answered
  <1> QED BY <1>2, <1>3

LEMMA MakeStep ==
  ASSUME BrowserInv, NEW x \in Trips, NEW op \in Ops, NEW at \in Positions,
         NEW with \in Tokens \cup {NoCookie}, NEW got \in Tokens \cup {NoCookie},
         op = "restore" => with \in Tokens,
         Make(x, op, at, with, got), UNCHANGED <<cookie, stray>>
  PROVE  BrowserInv'
  <1> DEFINE r == [op |-> op, at |-> at, with |-> with, got |-> got]
  <1>1. r \in Underway /\ r.op = op /\ r.with = with
      BY DEF Underway
  <1>2. trip' = [trip EXCEPT ![x] = r]
      BY DEF Make
  <1>3. cookie' \in Tokens \cup {NoCookie} /\ stray' \subseteq Tokens
      BY DEF BrowserInv, BrowserTypeOK
  <1> HIDE DEF r
  <1> QED BY <1>1, <1>2, <1>3, TripStep

(* Every step of a request keeps the invariant. *)
LEMMA TravelStep ==
  ASSUME BrowserInv, NEW x \in Trips, Travel(x)
  PROVE  BrowserInv'
  <1>0. cookie \in Tokens \cup {NoCookie} /\ stray \subseteq Tokens
      BY DEF BrowserInv, BrowserTypeOK
  <1>u. trip[x].op \in Ops => /\ trip[x].got \in Tokens \cup {NoCookie}
                              /\ trip[x].with \in Tokens \cup {NoCookie}
      BY TripUnderway DEF Underway
  <1>1. CASE \E claim \in logins, t \in Tokens : LoggedIn(x, claim, t)
      BY <1>1, MakeStep DEF LoggedIn, Ops, Positions
  <1>2. CASE Persist(x) \/ RestoreReturns(x)
      <2>1. trip[x].op \in Ops /\ SetCookie(x, trip[x].got) /\ Finish(x)
          BY <1>2 DEF Persist, RestoreReturns, At, Ops
      <2>2. cookie' \in Tokens \cup {NoCookie} /\ stray' \subseteq Tokens
          BY <1>u, <2>1, SetCookieTypes
      <2> QED BY <2>1, <2>2, FinishStep
  <1>3. CASE Restore(x)
      BY <1>0, <1>3, MakeStep DEF Restore, Ops, Positions
  <1>4. CASE Served(x)
      <2>1. trip[x].op \in Ops
          BY <1>4 DEF Served, At, Ops
      <2>2. \E got \in Tokens \cup {NoCookie} : Answered(x, got)
          BY <1>4 DEF Served
      <2> QED BY <2>1, <2>2, AnsweredStep
  <1>5. CASE TimesOut(x)
      BY <1>0, <1>5, PassStep DEF TimesOut, At, Ops, Positions
  <1>6. CASE Lost(x)
      <2>1. trip[x].op \in Ops /\ Finish(x) /\ cookie' = cookie
          BY <1>6 DEF Lost
      <2>2. stray' \subseteq Tokens
          BY <1>0, <1>6, <1>u, <2>1 DEF Lost
      <2> QED BY <1>0, <2>1, <2>2, FinishStep
  <1>7. CASE EndSession(x)
      BY <1>0, <1>7, MakeStep DEF EndSession, Ops, Positions
  <1>8. CASE EndServed(x)
      <2>1. trip[x].op \in Ops /\ UNCHANGED <<cookie, stray>>
          BY <1>8 DEF EndServed, At, Ops
      <2>2. Finish(x) \/ trip' = [trip EXCEPT ![x].at = "handed"]
          BY <1>8 DEF EndServed
      <2> QED BY <1>0, <2>1, <2>2, FinishStep, PassStep DEF Positions
  <1>9. CASE EndReturns(x)
      <2>1. trip[x].op \in Ops /\ SetCookie(x, NoCookie)
          BY <1>9 DEF EndReturns, At, Ops
      <2>2. cookie' \in Tokens \cup {NoCookie} /\ stray' \subseteq Tokens
          BY <2>1, SetCookieTypes
      <2>3. Finish(x) \/ trip' = [trip EXCEPT ![x].at = "late"]
          BY <1>9 DEF EndReturns
      <2> QED BY <2>1, <2>2, <2>3, FinishStep, PassStep DEF Positions
  <1> QED BY <1>1, <1>2, <1>3, <1>4, <1>5, <1>6, <1>7, <1>8, <1>9 DEF Travel

(* The proxy presents a token whenever it asks for a new one. *)
THEOREM BrowserInvariance == BrowserSpec => []BrowserInv
  <1>1. BrowserInit => BrowserInv
      BY DEF BrowserInit, BrowserInv, BrowserTypeOK, Unmade
  <1>2. BrowserInv /\ [BrowserNext]_allVars => BrowserInv'
      <2>1. ASSUME BrowserInv, UNCHANGED browserVars PROVE BrowserInv'
          BY <2>1 DEF browserVars, BrowserInv, BrowserTypeOK
      <2> QED BY <2>1, TravelStep DEF BrowserNext, allVars
  <1> QED BY <1>1, <1>2, PTL DEF BrowserSpec

(* Every request of a browser, lost, late or repeated, is a step of the    *)
(* accounts and tokens or none.                                            *)
THEOREM BrowserUsesAccounts == BrowserSpec => Spec
  <1>1. BrowserInit => Init
      BY DEF BrowserInit
  <1>2. ASSUME BrowserInv, NEW x \in Trips, Travel(x)
        PROVE  [Next]_vars
      <2>1. CASE \E claim \in logins, t \in Tokens : LoggedIn(x, claim, t)
          BY <2>1 DEF LoggedIn, Next, Session
      <2>2. CASE Persist(x) \/ Restore(x) \/ RestoreReturns(x) \/ TimesOut(x) \/ Lost(x)
                   \/ EndSession(x) \/ EndReturns(x)
          BY <2>2 DEF Persist, Restore, RestoreReturns, TimesOut, Lost, EndSession, EndReturns
      <2>3. CASE Served(x)
          <3>1. trip[x].with \in Tokens
              BY <1>2, <2>3 DEF Served, At, BrowserInv
          <3> QED BY <2>3, <3>1 DEF Served, Next, Session
      <2>4. CASE EndServed(x)
          <3>1. trip[x].with \in Tokens
              BY <1>2, <2>4, TripUnderway DEF EndServed, At, Ops, Underway
          <3> QED BY <2>4, <3>1 DEF EndServed, Next, Session
      <2> QED BY <1>2, <2>1, <2>2, <2>3, <2>4 DEF Travel
  <1>3. Backend => Next
      BY DEF Backend, Next, Session
  <1>4. BrowserInv /\ BrowserNext => [Next]_vars
      BY <1>2, <1>3 DEF BrowserNext
  <1>5. UNCHANGED allVars => UNCHANGED vars
      BY DEF allVars
  <1> QED BY <1>1, <1>4, <1>5, BrowserInvariance, PTL DEF BrowserSpec, Spec
-----------------------------------------------------------------------------
(* The tokens of the browser.  A token that a request has got and not yet  *)
(* delivered is known to no other and has no successor; a token that has   *)
(* been delivered replaced its predecessors in the cookie for good.        *)

Out(x) == trip[x].op \in Ops
Gots   == {trip[x].got : x \in {y \in Trips : Out(y)}}

(* Useless to whoever presents it, now and after any change of accounts. *)
Dead(t)   == token[t].status \notin Unspent \/ ~Active(token[t].user)
Ending(t) == \E l \in logouts : t \in l.seen

(* The user of a token was an account once. *)
UsersKnown == \A t \in Tokens : token[t] # NoToken => account[token[t].user] # "none"

(* Only tokens that were issued are passed around. *)
KnownFits ==
  /\ cookie # NoCookie => token[cookie] # NoToken
  /\ \A x \in Trips : Out(x) =>
       /\ trip[x].with # NoCookie => token[trip[x].with] # NoToken
       /\ trip[x].got # NoCookie => token[trip[x].got] # NoToken

(* What a request has with it at each of its positions. *)
TripFits(x) ==
  /\ trip[x].op = "login" => trip[x].at = "back" /\ trip[x].with = NoCookie
  /\ trip[x].op = "restore" /\ trip[x].at # "back" => trip[x].got = NoCookie
  /\ trip[x].op = "restore" /\ trip[x].at = "back" => Dead(trip[x].with)
  /\ trip[x].op = "end" => trip[x].got = NoCookie
  /\ trip[x].op = "end" /\ trip[x].at = "handed" =>
       trip[x].with # NoCookie /\ (Dead(trip[x].with) \/ Ending(trip[x].with))

(* A token that is on its way to the cookie. *)
GotFits(x) ==
  LET g == trip[x].got IN
  Out(x) /\ g # NoCookie =>
    /\ g # cookie
    /\ \A y \in Trips : Out(y) => trip[y].with # g
    /\ \A y \in Trips \ {x} : Out(y) => trip[y].got # g
    /\ \A t \in Family(token[g].family) : token[t].status \in Unspent => t = g

(* The cookie is no predecessor of a usable token that was delivered. *)
NotBehind(t) ==
  token[t].status \in Unspent /\ t \notin stray \cup Gots =>
    cookie = NoCookie \/ cookie = t \/ token[cookie].family # token[t].family

CookieInv ==
  /\ BrowserInv
  /\ AccountsTypeOK
  /\ FamilyInv
  /\ ClaimsKnown
  /\ UsersKnown
  /\ KnownFits
  /\ \A x \in Trips : TripFits(x) /\ GotFits(x)
  /\ \A t \in Tokens : NotBehind(t)
  /\ NoHiddenSession

-----------------------------------------------------------------------------
(* The tokens over a step of the backend.                                  *)

DeadNext(t)   == token'[t].status \notin Unspent \/ account'[token'[t].user] # "active"
EndingNext(t) == \E l \in logouts' : t \in l.seen

(* An issued token keeps its user and its family and gets no second life;  *)
(* what a logout was going to revoke, it still is or has revoked.          *)
Older(t) ==
  /\ token'[t] # NoToken
  /\ token'[t].family = token[t].family
  /\ token'[t].user = token[t].user
  /\ token'[t].status \in Unspent => token[t].status \in Unspent
  /\ Dead(t) => DeadNext(t)
  /\ Ending(t) => EndingNext(t) \/ DeadNext(t)

Aged == \A t \in Tokens : token[t] # NoToken => Older(t)

(* Revoking tokens, and all of a user whose account changes, ages them. *)
LEMMA RevokeAges ==
  ASSUME AccountsTypeOK, NEW which \in SUBSET Tokens, Revoke(which),
         \A u \in Users : account'[u] = account[u] \/ Of(u) \subseteq which,
         \A t \in Tokens : Ending(t) => EndingNext(t) \/ t \in which
  PROVE  Aged
  <1> SUFFICES ASSUME NEW t \in Tokens, token[t] # NoToken PROVE Older(t)
      BY DEF Aged
  <1>1. TokensTyped
      BY DEF AccountsTypeOK, TokensTyped
  <1>2. /\ token'[t] = NoToken <=> token[t] = NoToken
        /\ token'[t].family = token[t].family /\ token'[t].user = token[t].user
        /\ token'[t].status \in Unspent => token'[t] = token[t] /\ t \notin which
        /\ t \in which => token'[t].status = "revoked"
      BY <1>1, RevokeEffect
  <1>3. token[t].user \in Users /\ t \in Of(token[t].user)
      BY DEF AccountsTypeOK, Issued, Of
  <1>4. Dead(t) => DeadNext(t)
      BY <1>2, <1>3 DEF Dead, DeadNext, Active
  <1>5. Ending(t) => EndingNext(t) \/ DeadNext(t)
      BY <1>2 DEF DeadNext, Unspent
  <1> QED BY <1>2, <1>4, <1>5 DEF Older

(* A step that leaves the issued tokens alone and no user less active. *)
LEMMA KeepsAges ==
  ASSUME AccountsTypeOK, UsersKnown,
         \A t \in Tokens : token[t] # NoToken => token'[t] = token[t],
         \A u \in Users : account[u] = account'[u] \/ account[u] = "none",
         logouts \subseteq logouts'
  PROVE  Aged
  <1> SUFFICES ASSUME NEW t \in Tokens, token[t] # NoToken PROVE Older(t)
      BY DEF Aged
  <1>1. token[t].user \in Users /\ account'[token[t].user] = account[token[t].user]
      BY DEF AccountsTypeOK, Issued, UsersKnown
  <1>2. Dead(t) => DeadNext(t)
      BY <1>1 DEF Dead, DeadNext, Active
  <1>3. Ending(t) => EndingNext(t)
      BY DEF Ending, EndingNext
  <1> QED BY <1>2, <1>3 DEF Older

(* Every step of the backend ages the tokens. *)
LEMMA Ages ==
  ASSUME AccountsTypeOK, FamilyInv, UsersKnown, Next
  PROVE  Aged
  <1>e. \A t \in Tokens : logouts' = logouts => (Ending(t) => EndingNext(t))
      BY DEF Ending, EndingNext
  <1>1. ASSUME NEW u \in Users, LoginReads(u) PROVE Aged
      BY <1>1, KeepsAges DEF LoginReads, userVars
  <1>2. ASSUME NEW u \in Users, Administer(u) PROVE Aged
      <2>1. CASE \E r \in Roles : CreateUser(u, r)
          <3>1. /\ account[u] = "none" /\ account' = [account EXCEPT ![u] = "active"]
                /\ token' = token /\ logouts' = logouts
              BY <2>1 DEF CreateUser, flightVars
          <3>2. \A v \in Users : account[v] = account'[v] \/ account[v] = "none"
              BY <3>1 DEF AccountsTypeOK
          <3> QED BY <3>1, <3>2, KeepsAges
      <2>2. CASE CountAdmins(u)
          BY <2>2, KeepsAges DEF CountAdmins, userVars
      <2>3. ASSUME Revoke(Of(u)), logouts' = logouts,
                   \A v \in Users \ {u} : account'[v] = account[v]
            PROVE  Aged
          <3>1. Of(u) \in SUBSET Tokens
              BY DEF Of
          <3> QED BY <1>e, <2>3, <3>1, RevokeAges
      <2>4. CASE NewPassword(u)
          BY <2>3, <2>4 DEF NewPassword, EndSessions, flightVars
      <2>5. ASSUME NEW r \in Roles, NEW a \in {"active", "disabled"}, UpdateUser(u, r, a)
            PROVE  Aged
          <3>1. account' = [account EXCEPT ![u] = a] /\ logouts' = logouts
              BY <2>5 DEF UpdateUser, SetUser
          <3>2. \A v \in Users \ {u} : account'[v] = account[v]
              BY <3>1 DEF AccountsTypeOK
          <3>3. CASE a = account[u]
              <4>1. token' = token
                  BY <2>5, <3>3 DEF UpdateUser, SetUser
              <4>2. account' = account
                  BY <3>1, <3>3 DEF AccountsTypeOK
              <4> QED BY <3>1, <4>1, <4>2, KeepsAges
          <3>4. CASE a # account[u]
              <4>1. Revoke(Of(u))
                  BY <2>5, <3>4 DEF UpdateUser, SetUser, EndSessions
              <4> QED BY <2>3, <3>1, <3>2, <4>1
          <3> QED BY <3>3, <3>4
      <2>6. CASE DeleteUser(u)
          <3>1. /\ account' = [account EXCEPT ![u] = "deleted"] /\ logouts' = logouts
                /\ Revoke(Of(u))
              BY <2>6 DEF DeleteUser, EndSessions
          <3>2. \A v \in Users \ {u} : account'[v] = account[v]
              BY <3>1 DEF AccountsTypeOK
          <3> QED BY <2>3, <3>1, <3>2
      <2> QED BY <1>2, <2>1, <2>2, <2>4, <2>5, <2>6 DEF Administer
  <1>3. ASSUME NEW t \in Tokens, Session(t) PROVE Aged
      <2>1. CASE \E claim \in logins : LoginIssues(claim, t)
          <3>1. \A v \in Tokens : token[v] # NoToken => token'[v] = token[v]
              BY <2>1 DEF LoginIssues, AccountsTypeOK
          <3>2. UNCHANGED <<account, logouts>>
              BY <2>1 DEF LoginIssues, userVars
          <3> QED BY <3>1, <3>2, KeepsAges
      <2>2. ASSUME NEW new \in Tokens, Refresh(t, new) PROVE Aged
          <3>1. /\ token[t] \in Issued /\ token[t].status = "live"
                /\ token[new] = NoToken /\ t # new
                /\ token' = [token EXCEPT ![new] = token[t], ![t].status = "revoked"]
                /\ account' = account /\ logouts' = logouts
              BY <2>2 DEF Refresh, Presented, AccountsTypeOK, userVars, flightVars
          <3>2. /\ token'[t] = [token[t] EXCEPT !.status = "revoked"]
                /\ \A v \in Tokens \ {t, new} : token'[v] = token[v]
              BY <3>1 DEF AccountsTypeOK
          <3>3. ASSUME NEW v \in Tokens \ {t, new} PROVE token[v] # NoToken => Older(v)
              BY <1>e, <3>1, <3>2 DEF Older, Dead, DeadNext, Active
          <3>4. Older(t)
              <4>1. /\ token'[t].status = "revoked" /\ token'[t].family = token[t].family
                    /\ token'[t].user = token[t].user
                  BY <3>1, <3>2 DEF Issued
              <4>2. token'[t] # NoToken /\ token'[t].status \notin Unspent
                  BY <4>1 DEF NoToken, Unspent
              <4> QED BY <4>1, <4>2 DEF Older, DeadNext
          <3> QED BY <3>1, <3>3, <3>4 DEF Aged
      <2>3. CASE RefreshReused(t)
          <3>1. Family(token[t].family) \in SUBSET Tokens
              BY DEF Family
          <3> QED BY <1>e, <2>3, <3>1, RevokeAges DEF RefreshReused, flightVars
      <2>4. CASE RefreshExpired(t)
          BY <1>e, <2>4, RevokeAges DEF RefreshExpired, userVars, flightVars
      <2>5. CASE TokenExpires(t)
          <3>1. /\ token[t] \in Issued /\ token[t].status = "live"
                /\ token' = [token EXCEPT ![t].status = "expired"]
                /\ account' = account /\ logouts' = logouts
              BY <2>5 DEF TokenExpires, AccountsTypeOK, NoToken, userVars, flightVars
          <3>2. /\ token'[t] = [token[t] EXCEPT !.status = "expired"]
                /\ \A v \in Tokens \ {t} : token'[v] = token[v]
              BY <3>1 DEF AccountsTypeOK
          <3>3. ASSUME NEW v \in Tokens \ {t} PROVE token[v] # NoToken => Older(v)
              BY <1>e, <3>1, <3>2 DEF Older, Dead, DeadNext, Active
          <3>4. Older(t)
              <4>1. /\ token'[t].status = "expired" /\ token'[t].family = token[t].family
                    /\ token'[t].user = token[t].user
                  BY <3>1, <3>2 DEF Issued
              <4>2. token'[t] # NoToken /\ token[t].status \in Unspent
                  BY <3>1, <4>1 DEF NoToken, Unspent
              <4> QED BY <1>e, <3>1, <4>1, <4>2 DEF Older, Dead, DeadNext, Active
          <3> QED BY <3>3, <3>4 DEF Aged
      <2>6. CASE LogoutReads(t)
          BY <2>6, KeepsAges DEF LogoutReads, userVars
      <2> QED BY <1>3, <2>1, <2>2, <2>3, <2>4, <2>5, <2>6 DEF Session
  <1>4. ASSUME NEW l \in logouts, LogoutWrites(l) PROVE Aged
      <2>1. l.seen \in SUBSET Tokens
          BY DEF AccountsTypeOK, Logouts
      <2>2. /\ Revoke(l.seen) /\ account' = account /\ logouts' = logouts \ {l}
          BY <1>4 DEF LogoutWrites
      <2>3. \A t \in Tokens : Ending(t) => EndingNext(t) \/ t \in l.seen
          BY <2>2 DEF Ending, EndingNext
      <2> QED BY <2>1, <2>2, <2>3, RevokeAges
  <1> QED BY <1>1, <1>2, <1>3, <1>4 DEF Next

(* No account becomes unknown. *)
LEMMA KnownStay ==
  ASSUME AccountsTypeOK, Next, NEW v \in Users, account[v] # "none"
  PROVE  account'[v] # "none"
  <1>1. ASSUME NEW u \in Users, Administer(u) PROVE account'[v] # "none"
      BY <1>1 DEF Administer, CreateUser, NewPassword, CountAdmins, UpdateUser, DeleteUser,
                 SetUser, userVars, AccountsTypeOK
  <1>2. account' = account \/ \E u \in Users : Administer(u)
      BY DEF Next, LoginReads, Session, LoginIssues, Refresh, RefreshReused, RefreshExpired,
             TokenExpires, LogoutReads, LogoutWrites, userVars
  <1> QED BY <1>1, <1>2

(* A token is issued by a login or by a rotation and by nothing else. *)
LEMMA Births ==
  ASSUME AccountsTypeOK, Next, NEW t \in Tokens, token[t] = NoToken, token'[t] # NoToken
  PROVE  \/ \E claim \in logins : LoginIssues(claim, t)
         \/ \E w \in Tokens : Refresh(w, t)
  <1>0. TokensTyped
      BY DEF AccountsTypeOK, TokensTyped
  <1>1. ASSUME NEW which \in SUBSET Tokens, Revoke(which) PROVE FALSE
      BY <1>0, <1>1, RevokeEffect
  <1>2. token' # token
      OBVIOUS
  <1>3. ASSUME NEW u \in Users, LoginReads(u) \/ Administer(u) PROVE FALSE
      <2>1. Of(u) \in SUBSET Tokens
          BY DEF Of
      <2>2. token' = token \/ Revoke(Of(u))
          BY <1>3 DEF LoginReads, Administer, CreateUser, NewPassword, CountAdmins, UpdateUser,
                     DeleteUser, SetUser, EndSessions
      <2> QED BY <1>1, <1>2, <2>1, <2>2
  <1>4. ASSUME NEW w \in Tokens, Session(w)
        PROVE  \/ \E claim \in logins : LoginIssues(claim, t)
               \/ \E v \in Tokens : Refresh(v, t)
      <2>1. CASE \E claim \in logins : LoginIssues(claim, w)
          <3>1. w = t
              BY <2>1 DEF LoginIssues, AccountsTypeOK
          <3> QED BY <2>1, <3>1
      <2>2. ASSUME NEW new \in Tokens, Refresh(w, new)
            PROVE  \E v \in Tokens : Refresh(v, t)
          <3>1. w # t
              BY <2>2 DEF Refresh, Presented
          <3>2. token' = [token EXCEPT ![new] = token[w], ![w].status = "revoked"]
              BY <2>2 DEF Refresh
          <3>3. new = t
              BY <3>1, <3>2 DEF AccountsTypeOK
          <3> QED BY <2>2, <3>3
      <2>3. CASE RefreshReused(w) \/ RefreshExpired(w)
          <3>1. Family(token[w].family) \in SUBSET Tokens
              BY DEF Family
          <3> QED BY <1>1, <2>3, <3>1 DEF RefreshReused, RefreshExpired
      <2>4. CASE TokenExpires(w)
          <3>1. w # t
              BY <2>4 DEF TokenExpires, NoToken
          <3> QED BY <2>4, <3>1 DEF TokenExpires, AccountsTypeOK
      <2>5. CASE LogoutReads(w)
          BY <1>2, <2>5 DEF LogoutReads
      <2> QED BY <1>4, <2>1, <2>2, <2>3, <2>4, <2>5 DEF Session
  <1>5. ASSUME NEW l \in logouts, LogoutWrites(l) PROVE FALSE
      BY <1>1, <1>5 DEF LogoutWrites, AccountsTypeOK, Logouts
  <1> QED BY <1>3, <1>4, <1>5 DEF Next

LEMMA UsersKnownStep ==
  ASSUME AccountsTypeOK, FamilyInv, ClaimsKnown, UsersKnown, Next
  PROVE  UsersKnown'
  <1> SUFFICES ASSUME NEW t \in Tokens, token'[t] # NoToken
               PROVE  account'[token'[t].user] # "none"
      BY DEF UsersKnown
  <1>1. CASE token[t] # NoToken
      <2>1. token'[t].user = token[t].user
          BY <1>1, Ages DEF Aged, Older
      <2>2. token[t].user \in Users /\ account[token[t].user] # "none"
          BY <1>1 DEF AccountsTypeOK, Issued, UsersKnown
      <2> QED BY <2>1, <2>2, KnownStay
  <1>2. CASE token[t] = NoToken
      <2>1. CASE \E claim \in logins : LoginIssues(claim, t)
          BY <2>1 DEF LoginIssues, ClaimsKnown, AccountsTypeOK, userVars
      <2>2. ASSUME NEW w \in Tokens, Refresh(w, t) PROVE account'[token'[t].user] # "none"
          <3>1. w # t /\ account' = account /\ account[token[w].user] = "active"
              BY <1>2, <2>2 DEF Refresh, Presented, Active, userVars
          <3>2. token'[t] = token[w]
              BY <2>2, <3>1 DEF Refresh, AccountsTypeOK
          <3> QED BY <3>1, <3>2
      <2> QED BY <1>2, <2>1, <2>2, Births
  <1> QED BY <1>1, <1>2

-----------------------------------------------------------------------------
(* The browser over a step.                                                *)

(* What a request holds after the step. *)
Passed(x) ==
  trip'[x].op \in Ops =>
    /\ trip'[x].with \in {cookie, NoCookie} \/ (Out(x) /\ trip'[x].with = trip[x].with)
    /\ trip'[x].got # NoCookie =>
         token[trip'[x].got] = NoToken /\ token'[trip'[x].got].status \in Unspent

(* A token that the step issues is in somebody's hands, and in no family   *)
(* of a token on its way.                                                  *)
Newborn(t, X) ==
  token[t] = NoToken /\ token'[t].status \in Unspent =>
    /\ t \in stray' \/ \E x \in X : trip'[x].op \in Ops /\ trip'[x].got = t
    /\ \A y \in Trips \ X :
         Out(y) /\ trip[y].got # NoCookie => token'[t].family # token[trip[y].got].family

InHand(t) ==
  \/ t \in {cookie'} \cup stray'
  \/ \E x \in Trips : trip'[x].op \in Ops /\ t \in {trip'[x].with, trip'[x].got}

(* A step of the request in X, or of none: whatever was in hand still is,  *)
(* or is of no use, or a logout deals with it.                             *)
Turn(X) ==
  /\ \A x, z \in X : x = z
  /\ \A y \in Trips \ X : trip'[y] = trip[y]
  /\ stray \subseteq stray'
  /\ \/ cookie' \in {cookie, NoCookie}
     \/ token' = token /\ \E x \in X : Out(x) /\ cookie' = trip[x].got
  /\ \A x \in X : TripFits(x)' /\ Passed(x)
  /\ \A t \in Tokens : Newborn(t, X)
  /\ \A x \in X : Out(x) =>
       trip[x].got \in {NoCookie, cookie'} \cup stray' \/ (trip'[x].op \in Ops /\ trip'[x].got = trip[x].got)
  /\ \A t \in Tokens :
       t = cookie \/ (\E x \in X : Out(x) /\ t \in {trip[x].with, trip[x].got})
         => DeadNext(t) \/ EndingNext(t) \/ InHand(t)

LEMMA CarriedIs ==
  ASSUME NEW t
  PROVE  t \in Carried <=> \E x \in Trips : Out(x) /\ t \in {trip[x].with, trip[x].got}
  BY DEF Carried, Out

LEMMA InHandIs ==
  ASSUME NEW t
  PROVE  InHand(t) => t \in ({cookie} \cup stray \cup Carried)'
  BY DEF InHand, Carried

LEMMA GotsAre ==
  ASSUME NEW t
  PROVE  /\ t \in Gots <=> \E x \in Trips : Out(x) /\ trip[x].got = t
         /\ t \in Gots' <=> \E x \in Trips : trip'[x].op \in Ops /\ trip'[x].got = t
  BY DEF Gots, Out

(* The tokens a request holds. *)
LEMMA HoldsTokens ==
  ASSUME BrowserInv, KnownFits, NEW x \in Trips, Out(x)
  PROVE  /\ trip[x].with # NoCookie => trip[x].with \in Tokens /\ token[trip[x].with] # NoToken
         /\ trip[x].got # NoCookie => trip[x].got \in Tokens /\ token[trip[x].got] # NoToken
  BY TripUnderway DEF Out, Underway, KnownFits

LEMMA KnownFitsTurn ==
  ASSUME CookieInv, BrowserInv', Aged, NEW X \in SUBSET Trips, Turn(X)
  PROVE  KnownFits'
  <1> USE DEF CookieInv
  <1>a. \A t \in Tokens : token[t] # NoToken => token'[t] # NoToken
      BY DEF Aged, Older
  <1>b. cookie # NoCookie => cookie \in Tokens /\ token[cookie] # NoToken
      BY DEF BrowserInv, BrowserTypeOK, KnownFits
  <1>1. cookie' # NoCookie => token'[cookie'] # NoToken
      <2>1. CASE cookie' \in {cookie, NoCookie}
          BY <1>a, <1>b, <2>1
      <2>2. CASE \E x \in X : Out(x) /\ cookie' = trip[x].got
          BY <1>a, <2>2, HoldsTokens
      <2> QED BY <2>1, <2>2 DEF Turn
  <1>2. ASSUME NEW y \in Trips, trip'[y].op \in Ops
        PROVE  /\ trip'[y].with # NoCookie => token'[trip'[y].with] # NoToken
               /\ trip'[y].got # NoCookie => token'[trip'[y].got] # NoToken
      <2>1. CASE y \in X
          <3>1. Passed(y)
              BY <2>1 DEF Turn
          <3>2. trip'[y].with # NoCookie => token'[trip'[y].with] # NoToken
              BY <1>2, <1>a, <1>b, <3>1, HoldsTokens DEF Passed
          <3>3. trip'[y].got # NoCookie => token'[trip'[y].got] # NoToken
              BY <1>2, <3>1 DEF Passed, NoToken, Unspent
          <3> QED BY <3>2, <3>3
      <2>2. CASE y \notin X
          <3>1. trip'[y] = trip[y] /\ Out(y)
              BY <1>2, <2>2 DEF Turn, Out
          <3> QED BY <1>a, <3>1, HoldsTokens
      <2> QED BY <2>1, <2>2
  <1> QED BY <1>1, <1>2 DEF KnownFits, Out

(* Requests that do not move keep what they have. *)
LEMMA TripFitsTurn ==
  ASSUME CookieInv, Aged, NEW X \in SUBSET Trips, Turn(X), NEW y \in Trips
  PROVE  TripFits(y)'
  <1> USE DEF CookieInv
  <1>1. CASE y \in X
      BY <1>1 DEF Turn
  <1>2. CASE y \notin X
      <2>1. trip'[y] = trip[y]
          BY <1>2 DEF Turn
      <2>2. trip[y].op = "restore" /\ trip[y].at = "back" => DeadNext(trip[y].with)
          <3> SUFFICES ASSUME trip[y].op = "restore", trip[y].at = "back"
                       PROVE  DeadNext(trip[y].with)
              OBVIOUS
          <3>1. trip[y].with \in Tokens /\ token[trip[y].with] # NoToken
              BY CookieAssumption, HoldsTokens DEF BrowserInv, Out, Ops
          <3>2. Dead(trip[y].with)
              BY DEF TripFits
          <3> QED BY <3>1, <3>2 DEF Aged, Older
      <2>3. trip[y].op = "end" /\ trip[y].at = "handed" =>
              /\ trip[y].with # NoCookie
              /\ DeadNext(trip[y].with) \/ EndingNext(trip[y].with)
          <3> SUFFICES ASSUME trip[y].op = "end", trip[y].at = "handed"
                       PROVE  /\ trip[y].with # NoCookie
                              /\ DeadNext(trip[y].with) \/ EndingNext(trip[y].with)
              OBVIOUS
          <3>1. trip[y].with # NoCookie /\ (Dead(trip[y].with) \/ Ending(trip[y].with))
              BY DEF TripFits
          <3>2. trip[y].with \in Tokens /\ token[trip[y].with] # NoToken
              BY <3>1, HoldsTokens DEF Out, Ops
          <3> QED BY <3>1, <3>2 DEF Aged, Older
      <2>4. TripFits(y)
          OBVIOUS
      <2> QED BY <2>1, <2>2, <2>3, <2>4
              DEF TripFits, Dead, DeadNext, Ending, EndingNext, Active
  <1> QED BY <1>1, <1>2

(* A token on its way stays known to one request and alone in its family. *)
LEMMA GotFitsTurn ==
  ASSUME CookieInv, BrowserInv', FamilyInv', Aged, NEW X \in SUBSET Trips, Turn(X),
         NEW y \in Trips
  PROVE  GotFits(y)'
  <1> USE DEF CookieInv
  <1> DEFINE g == trip'[y].got
  <1> SUFFICES ASSUME trip'[y].op \in Ops, g # NoCookie
               PROVE  /\ g # cookie'
                      /\ \A z \in Trips : trip'[z].op \in Ops => trip'[z].with # g
                      /\ \A z \in Trips \ {y} : trip'[z].op \in Ops => trip'[z].got # g
                      /\ \A t \in Tokens : /\ token'[t] # NoToken
                                           /\ token'[t].family = token'[g].family
                                           /\ token'[t].status \in Unspent
                                           => t = g
      BY DEF GotFits, Out, Family
  <1>a. g \in Tokens
      BY DEF BrowserInv, BrowserTypeOK, Unmade, Over, Ops, Underway
  <1>b. cookie # NoCookie => cookie \in Tokens /\ token[cookie] # NoToken
      BY DEF BrowserInv, BrowserTypeOK, KnownFits
  <1>c. \A x \in X : x \in Trips /\ Passed(x)
      BY DEF Turn
  <1>d. \A z \in Trips \ X : trip'[z] = trip[z]
      BY DEF Turn
  <1>1. CASE y \in X
      <2>1. token[g] = NoToken /\ token'[g].status \in Unspent
          BY <1>1, <1>c DEF Passed
      <2>2. \A z \in Trips : Out(z) => trip[z].with # g /\ trip[z].got # g
          BY <2>1, HoldsTokens
      <2>3. cookie # g
          BY <1>b, <2>1
      <2>4. g # cookie'
          BY <2>2, <2>3, <1>c DEF Turn
      <2>5. \A z \in Trips : trip'[z].op \in Ops => trip'[z].with # g
          BY <2>2, <2>3, <1>c, <1>d DEF Passed, Out
      <2>6. \A z \in Trips \ {y} : trip'[z].op \in Ops => trip'[z].got # g
          <3>1. \A z \in Trips \ {y} : z \notin X
              BY <1>1 DEF Turn
          <3> QED BY <2>2, <3>1, <1>d DEF Out
      <2>7. \A t \in Tokens : /\ token'[t].family = token'[g].family
                              /\ token'[t].status \in Unspent
                              => t = g
          BY <1>a, <2>1 DEF FamilyInv, OneUnspentPerFamily
      <2> QED BY <2>4, <2>5, <2>6, <2>7
  <1>2. CASE y \notin X
      <2>1. trip'[y] = trip[y] /\ Out(y) /\ g = trip[y].got
          BY <1>2, <1>d DEF Out
      <2>2. token[g] # NoToken /\ Older(g)
          BY <1>a, <2>1, HoldsTokens DEF Aged
      <2>3. /\ g # cookie
            /\ \A z \in Trips : Out(z) => trip[z].with # g
            /\ \A z \in Trips \ {y} : Out(z) => trip[z].got # g
            /\ \A t \in Tokens : /\ token[t] # NoToken /\ token[t].family = token[g].family
                                 /\ token[t].status \in Unspent
                                 => t = g
          BY <2>1 DEF GotFits, Family
      <2>4. g # cookie'
          BY <1>2, <2>3, <1>c DEF Turn
      <2>5. \A z \in Trips : trip'[z].op \in Ops => trip'[z].with # g
          BY <2>3, <1>c, <1>d DEF Passed, Out
      <2>6. \A z \in Trips \ {y} : trip'[z].op \in Ops => trip'[z].got # g
          BY <2>2, <2>3, <1>c, <1>d DEF Passed, Out
      <2>7. ASSUME NEW t \in Tokens, token'[t] # NoToken, token'[t].family = token'[g].family,
                   token'[t].status \in Unspent
            PROVE  t = g
          <3>1. token'[g].family = token[g].family
              BY <2>2 DEF Older
          <3>2. CASE token[t] # NoToken
              BY <2>3, <2>7, <3>1, <3>2 DEF Aged, Older
          <3>3. CASE token[t] = NoToken
              <4>1. Newborn(t, X)
                  BY DEF Turn
              <4> QED BY <1>2, <2>1, <2>7, <3>1, <3>3, <4>1 DEF Newborn
          <3> QED BY <3>2, <3>3
      <2> QED BY <2>4, <2>5, <2>6, <2>7
  <1> QED BY <1>1, <1>2

(* The cookie moves on with the family it belongs to. *)
LEMMA NotBehindTurn ==
  ASSUME CookieInv, Aged, NEW X \in SUBSET Trips, Turn(X), NEW t \in Tokens
  PROVE  NotBehind(t)'
  <1> USE DEF CookieInv
  <1> SUFFICES ASSUME token'[t].status \in Unspent, t \notin stray', t \notin Gots',
                      cookie' # NoCookie, cookie' # t
               PROVE  token'[cookie'].family # token'[t].family
      BY DEF NotBehind
  <1>1. token[t] # NoToken
      <2>1. Newborn(t, X)
          BY DEF Turn
      <2> QED BY <2>1, GotsAre DEF Newborn
  <1>2. token[t].status \in Unspent /\ token'[t].family = token[t].family
      BY <1>1 DEF Aged, Older
  <1>3. CASE cookie' \in {cookie, NoCookie}
      <2>1. t \notin Gots
          <3> SUFFICES ASSUME NEW x \in Trips, Out(x), trip[x].got = t PROVE FALSE
              BY GotsAre
          <3>1. CASE x \in X
              BY <3>1, GotsAre, CookieAssumption DEF Turn
          <3>2. CASE x \notin X
              BY <3>2, GotsAre DEF Turn, Out
          <3> QED BY <3>1, <3>2
      <2>2. t \notin stray
          BY DEF Turn
      <2>3. cookie # NoCookie /\ cookie # t /\ cookie' = cookie
          BY <1>3
      <2>4. cookie \in Tokens /\ token[cookie] # NoToken
          BY <2>3 DEF BrowserInv, BrowserTypeOK, KnownFits
      <2>5. token[cookie].family # token[t].family
          BY <1>2, <2>1, <2>2, <2>3 DEF NotBehind
      <2> QED BY <1>2, <2>3, <2>4, <2>5 DEF Aged, Older
  <1>4. ASSUME token' = token, NEW x \in X, Out(x), cookie' = trip[x].got
        PROVE  token'[cookie'].family # token'[t].family
      BY <1>1, <1>2, <1>4 DEF GotFits, Family
  <1> QED BY <1>3, <1>4 DEF Turn

(* No token drops out of sight. *)
LEMMA NoHiddenTurn ==
  ASSUME CookieInv, Aged, NEW X \in SUBSET Trips, Turn(X)
  PROVE  NoHiddenSession'
  <1> USE DEF CookieInv
  <1> SUFFICES ASSUME NEW t \in Tokens, ~DeadNext(t), ~EndingNext(t)
               PROVE  InHand(t)
      BY InHandIs DEF NoHiddenSession, DeadNext, EndingNext, Active
  <1>1. CASE token[t] = NoToken
      <2>1. Newborn(t, X)
          BY DEF Turn
      <2> QED BY <1>1, <2>1 DEF Newborn, DeadNext, InHand
  <1>2. CASE token[t] # NoToken
      <2>1. ~Dead(t) /\ ~Ending(t)
          BY <1>2 DEF Aged, Older
      <2>2. t \in {cookie} \cup stray \cup Carried
          BY <2>1 DEF NoHiddenSession, Dead, Ending
      <2>3. CASE t = cookie
          BY <2>3 DEF Turn
      <2>4. CASE t \in stray
          BY <2>4 DEF Turn, InHand
      <2>5. ASSUME NEW x \in Trips, Out(x), t \in {trip[x].with, trip[x].got}
            PROVE  InHand(t)
          <3>1. CASE x \in X
              BY <2>5, <3>1 DEF Turn
          <3>2. CASE x \notin X
              BY <2>5, <3>2 DEF Turn, InHand, Out
          <3> QED BY <3>1, <3>2
      <2> QED BY <2>2, <2>3, <2>4, <2>5, CarriedIs
  <1> QED BY <1>1, <1>2

(* Together. *)
LEMMA TurnStep ==
  ASSUME CookieInv, BrowserInv', [Next]_vars, NEW X \in SUBSET Trips, Turn(X)
  PROVE  CookieInv'
  <1> USE DEF CookieInv
  <1>1. AccountsTypeOK' /\ FamilyInv' /\ ClaimsKnown' /\ UsersKnown' /\ Aged
      <2>1. CASE Next
          BY <2>1, FamilyStep, TypeStep, ClaimsKnownStep, UsersKnownStep, Ages
      <2>2. CASE UNCHANGED vars
          <3>1. AccountsTypeOK' /\ FamilyInv' /\ ClaimsKnown' /\ UsersKnown'
              BY <2>2, IdleStep DEF vars, AccountsTypeOK, ClaimsKnown, UsersKnown
          <3> QED BY <2>2, <3>1, KeepsAges DEF vars
      <2> QED BY <2>1, <2>2
  <1>2. KnownFits'
      BY <1>1, KnownFitsTurn
  <1>3. \A x \in Trips : TripFits(x)' /\ GotFits(x)'
      BY <1>1, TripFitsTurn, GotFitsTurn
  <1>4. (\A t \in Tokens : NotBehind(t)') /\ NoHiddenSession'
      BY <1>1, NotBehindTurn, NoHiddenTurn
  <1> QED BY <1>1, <1>2, <1>3, <1>4

-----------------------------------------------------------------------------
(* Each action is such a step.                                             *)

LEMMA Finished ==
  ASSUME BrowserInv, NEW x \in Trips, Finish(x)
  PROVE  /\ trip'[x].op \notin Ops
         /\ TripFits(x)' /\ Passed(x)
         /\ \A y \in Trips \ {x} : trip'[y] = trip[y]
  BY DEF Finish, BrowserInv, BrowserTypeOK, Over, Ops, TripFits, Passed

LEMMA Made ==
  ASSUME BrowserInv, NEW x \in Trips, NEW op, NEW at, NEW with, NEW got,
         Make(x, op, at, with, got)
  PROVE  /\ ~Out(x)
         /\ trip'[x].op = op /\ trip'[x].at = at /\ trip'[x].with = with /\ trip'[x].got = got
         /\ \A y \in Trips \ {x} : trip'[y] = trip[y]
  BY DEF Make, Out, BrowserInv, BrowserTypeOK, Unmade, Ops

LEMMA Moved ==
  ASSUME BrowserInv, NEW x \in Trips, Out(x), NEW at,
         trip' = [trip EXCEPT ![x].at = at]
  PROVE  /\ trip'[x].op = trip[x].op /\ trip'[x].at = at
         /\ trip'[x].with = trip[x].with /\ trip'[x].got = trip[x].got
         /\ \A y \in Trips \ {x} : trip'[y] = trip[y]
  <1>1. trip[x] \in Underway
      BY TripUnderway DEF Out
  <1> QED BY <1>1 DEF BrowserInv, BrowserTypeOK, Underway

(* Nothing is issued in a step that leaves the backend alone. *)
LEMMA NoBirth ==
  ASSUME NEW X, \A t \in Tokens : token[t] = NoToken => token'[t] = NoToken
  PROVE  \A t \in Tokens : Newborn(t, X)
  BY DEF Newborn, NoToken, Unspent

LEMMA BackendTurn ==
  ASSUME CookieInv, Backend, UNCHANGED browserVars
  PROVE  Turn({})
  <1> USE DEF CookieInv
  <1>1. Next
      BY DEF Backend, Next, Session
  <1>2. \A t \in Tokens : token[t] = NoToken => token'[t] = NoToken
      <2> SUFFICES ASSUME NEW t \in Tokens, token[t] = NoToken, token'[t] # NoToken
                   PROVE  FALSE
          OBVIOUS
      <2>0. TokensTyped
          BY DEF AccountsTypeOK, TokensTyped
      <2>1. ASSUME NEW u \in Users, LoginReads(u) \/ Administer(u) PROVE FALSE
          <3>1. Of(u) \in SUBSET Tokens
              BY DEF Of
          <3>2. token' = token \/ Revoke(Of(u))
              BY <2>1 DEF LoginReads, Administer, CreateUser, NewPassword, CountAdmins,
                         UpdateUser, DeleteUser, SetUser, EndSessions
          <3> QED BY <2>0, <3>1, <3>2, RevokeEffect
      <2>2. ASSUME NEW w \in Tokens, TokenExpires(w) PROVE FALSE
          <3>1. w # t
              BY <2>2 DEF TokenExpires, NoToken
          <3> QED BY <2>2, <3>1 DEF TokenExpires, AccountsTypeOK
      <2>3. ASSUME NEW l \in logouts, LogoutWrites(l) PROVE FALSE
          <3>1. l.seen \in SUBSET Tokens
              BY DEF AccountsTypeOK, Logouts
          <3> QED BY <2>0, <2>3, <3>1, RevokeEffect DEF LogoutWrites
      <2> QED BY <2>1, <2>2, <2>3 DEF Backend
  <1>3. \A t \in Tokens : Newborn(t, {})
      BY <1>2, NoBirth
  <1> QED BY <1>3 DEF Turn, browserVars, InHand

LEMMA LoggedInTurn ==
  ASSUME CookieInv, NEW x \in Trips, NEW claim \in logins, NEW t \in Tokens,
         LoggedIn(x, claim, t)
  PROVE  Turn({x})
  <1> USE DEF CookieInv
  <1>1. /\ ~Out(x)
        /\ trip'[x].op = "login" /\ trip'[x].at = "back"
        /\ trip'[x].with = NoCookie /\ trip'[x].got = t
        /\ \A y \in Trips \ {x} : trip'[y] = trip[y]
      BY Made DEF LoggedIn
  <1>2. /\ token[t] = NoToken /\ token'[t].status = "live" /\ token'[t].family = t
        /\ \A v \in Tokens \ {t} : token'[v] = token[v]
      BY DEF LoggedIn, LoginIssues, AccountsTypeOK
  <1>3. TripFits(x)' /\ Passed(x)
      <2>1. TripFits(x)'
          BY <1>1 DEF TripFits
      <2>2. Passed(x)
          BY <1>1, <1>2 DEF Passed, Unspent
      <2> QED BY <2>1, <2>2
  <1>4. ASSUME NEW v \in Tokens PROVE Newborn(v, {x})
      <2>1. CASE v = t
          <3>1. ASSUME NEW y \in Trips \ {x}, Out(y), trip[y].got # NoCookie
                PROVE  t # token[trip[y].got].family
              <4>1. trip[y].got \in Tokens /\ token[trip[y].got] # NoToken
                  BY <3>1, HoldsTokens
              <4> QED BY <1>2, <4>1 DEF FamilyInv, FamiliesRooted
          <3> QED BY <1>1, <1>2, <2>1, <3>1 DEF Newborn, Ops
      <2>2. CASE v # t
          BY <1>2, <2>2 DEF Newborn, NoToken, Unspent
      <2> QED BY <2>1, <2>2
  <1>5. UNCHANGED <<cookie, stray>>
      BY DEF LoggedIn
  <1> QED BY <1>1, <1>3, <1>4, <1>5 DEF Turn, InHand

(* The browser takes what an answer brings for its cookie. *)
LEMMA DeliveredTurn ==
  ASSUME CookieInv, NEW x \in Trips, Persist(x) \/ RestoreReturns(x)
  PROVE  Turn({x})
  <1> USE DEF CookieInv
  <1>1. Out(x) /\ SetCookie(x, trip[x].got) /\ Finish(x) /\ UNCHANGED vars
      BY DEF Persist, RestoreReturns, At, Out, Ops
  <1>2. /\ cookie' = trip[x].got
        /\ stray' = stray \cup ({cookie} \ {trip[x].with, trip[x].got, NoCookie})
      BY <1>1 DEF SetCookie
  <1>3. token' = token /\ account' = account
      BY <1>1 DEF vars
  <1>4. \A t \in Tokens : Newborn(t, {x})
      BY <1>3, NoBirth
  <1>5. trip[x].with = NoCookie \/ DeadNext(trip[x].with)
      BY <1>3 DEF Persist, RestoreReturns, At, TripFits, Dead, DeadNext, Active
  <1>6. ASSUME NEW t \in Tokens, t \in {cookie, trip[x].with, trip[x].got}
        PROVE  DeadNext(t) \/ InHand(t)
      BY <1>2, <1>5, <1>6, CookieAssumption DEF InHand
  <1> QED BY <1>1, <1>2, <1>3, <1>4, <1>6, Finished DEF Turn

LEMMA AskedTurn ==
  ASSUME CookieInv, NEW x \in Trips, Restore(x) \/ EndSession(x)
  PROVE  Turn({x})
  <1> USE DEF CookieInv
  <1>1. PICK op \in {"restore", "end"} : Make(x, op, "sent", cookie, NoCookie)
      BY DEF Restore, EndSession
  <1>2. UNCHANGED <<cookie, stray>> /\ token' = token
      BY DEF Restore, EndSession, vars
  <1>3. /\ ~Out(x)
        /\ trip'[x].op = op /\ trip'[x].at = "sent"
        /\ trip'[x].with = cookie /\ trip'[x].got = NoCookie
        /\ \A y \in Trips \ {x} : trip'[y] = trip[y]
      BY <1>1, Made
  <1>4. TripFits(x)' /\ Passed(x)
      <2>1. TripFits(x)'
          BY <1>3 DEF TripFits
      <2>2. Passed(x)
          BY <1>3 DEF Passed
      <2> QED BY <2>1, <2>2
  <1>5. \A t \in Tokens : Newborn(t, {x})
      BY <1>2, NoBirth
  <1> QED BY <1>2, <1>3, <1>4, <1>5 DEF Turn, InHand

LEMMA TimesOutTurn ==
  ASSUME CookieInv, NEW x \in Trips, TimesOut(x)
  PROVE  Turn({x})
  <1> USE DEF CookieInv
  <1>1. /\ Out(x) /\ trip[x].op = "restore" /\ trip[x].at = "sent"
        /\ trip' = [trip EXCEPT ![x].at = "late"]
        /\ UNCHANGED <<cookie, stray>> /\ token' = token
      BY DEF TimesOut, At, Out, Ops, vars
  <1>2. /\ trip'[x].op = "restore" /\ trip'[x].at = "late"
        /\ trip'[x].with = trip[x].with /\ trip'[x].got = trip[x].got
        /\ \A y \in Trips \ {x} : trip'[y] = trip[y]
      BY <1>1, Moved
  <1>3. trip[x].got = NoCookie
      BY <1>1 DEF TripFits
  <1>4. TripFits(x)' /\ Passed(x)
      BY <1>1, <1>2, <1>3 DEF TripFits, Passed
  <1>5. \A t \in Tokens : Newborn(t, {x})
      BY <1>1, NoBirth
  <1>6. \A t \in Tokens : t \in {cookie, trip[x].with, trip[x].got} => InHand(t)
      BY <1>1, <1>2 DEF InHand, Ops
  <1> QED BY <1>1, <1>2, <1>3, <1>4, <1>5, <1>6 DEF Turn

LEMMA LostTurn ==
  ASSUME CookieInv, NEW x \in Trips, Lost(x)
  PROVE  Turn({x})
  <1> USE DEF CookieInv
  <1>1. /\ Out(x) /\ Finish(x) /\ cookie' = cookie /\ token' = token
        /\ stray' = stray \cup ({trip[x].with, trip[x].got} \ {cookie, NoCookie})
      BY DEF Lost, Out, vars
  <1>2. \A t \in Tokens : Newborn(t, {x})
      BY <1>1, NoBirth
  <1>3. trip[x].got \in {NoCookie, cookie'} \cup stray'
      BY <1>1
  <1>4. \A t \in Tokens : t \in {cookie, trip[x].with, trip[x].got} => InHand(t)
      BY <1>1, CookieAssumption DEF InHand
  <1> QED BY <1>1, <1>2, <1>3, <1>4, Finished DEF Turn

(* The backend answers a request for a new token, in time or too late.     *)
(* After the answer the token that was presented is of no use.             *)
LEMMA AnsweredTurn ==
  ASSUME CookieInv, NEW x \in Trips, trip[x].op = "restore", trip[x].at # "back",
         NEW got \in Tokens \cup {NoCookie}, Answered(x, got), DeadNext(trip[x].with),
         got # NoCookie => token[got] = NoToken /\ token'[got].status \in Unspent,
         \A t \in Tokens : token[t] = NoToken /\ token'[t].status \in Unspent =>
           /\ t = got
           /\ \A y \in Trips \ {x} : Out(y) /\ trip[y].got # NoCookie =>
                token'[t].family # token[trip[y].got].family
  PROVE  Turn({x})
  <1> USE DEF CookieInv
  <1>0. Out(x) /\ trip[x].got = NoCookie
      BY DEF Out, Ops, TripFits
  <1>1. CASE trip[x].at = "sent"
      <2>1. /\ trip' = [trip EXCEPT ![x].at = "back", ![x].got = got]
            /\ UNCHANGED <<cookie, stray>>
          BY <1>1 DEF Answered
      <2>2. /\ trip'[x].op = "restore" /\ trip'[x].at = "back"
            /\ trip'[x].with = trip[x].with /\ trip'[x].got = got
            /\ \A y \in Trips \ {x} : trip'[y] = trip[y]
          <3>1. trip[x] \in Underway
              BY <1>0, TripUnderway DEF Out
          <3> QED BY <2>1, <3>1 DEF BrowserInv, BrowserTypeOK, Underway
      <2>3. TripFits(x)'
          BY <2>2 DEF TripFits, Dead, DeadNext, Active
      <2>4. Passed(x)
          BY <1>0, <2>2 DEF Passed
      <2>5. \A t \in Tokens : Newborn(t, {x})
          BY <2>2 DEF Newborn, Ops
      <2>6. \A t \in Tokens : t = cookie => InHand(t)
          BY <2>1 DEF InHand
      <2> QED BY <1>0, <2>1, <2>2, <2>3, <2>4, <2>5, <2>6, CookieAssumption DEF Turn
  <1>2. CASE trip[x].at # "sent"
      <2>1. Finish(x) /\ stray' = stray \cup ({got} \ {NoCookie}) /\ cookie' = cookie
          BY <1>2 DEF Answered
      <2>2. \A t \in Tokens : Newborn(t, {x})
          BY <2>1, CookieAssumption DEF Newborn
      <2>3. \A t \in Tokens : t = cookie => InHand(t)
          BY <2>1 DEF InHand
      <2> QED BY <1>0, <2>1, <2>2, <2>3, Finished, CookieAssumption DEF Turn
  <1> QED BY <1>1, <1>2

LEMMA ServedTurn ==
  ASSUME CookieInv, NEW x \in Trips, Served(x)
  PROVE  Turn({x})
  <1> USE DEF CookieInv
  <1> DEFINE w == trip[x].with
  <1>1. trip[x].op = "restore" /\ trip[x].at # "back"
      BY DEF Served, At
  <1>2. w \in Tokens /\ token[w] # NoToken /\ TokensTyped
      BY <1>1, HoldsTokens, CookieAssumption
         DEF BrowserInv, Out, Ops, AccountsTypeOK, TokensTyped
  <1>n. NoToken.status \notin Unspent
      BY DEF NoToken, Unspent
  <1>3. ASSUME NEW new \in Tokens, Refresh(w, new), Answered(x, new) PROVE Turn({x})
      <2>1. /\ token[w] \in Issued /\ token[w].status = "live"
            /\ token[new] = NoToken /\ w # new
            /\ token' = [token EXCEPT ![new] = token[w], ![w].status = "revoked"]
          BY <1>2, <1>3 DEF Refresh, Presented, AccountsTypeOK
      <2>2. /\ token'[new] = token[w]
            /\ token'[w] = [token[w] EXCEPT !.status = "revoked"]
            /\ \A v \in Tokens \ {w, new} : token'[v] = token[v]
          BY <1>2, <2>1 DEF AccountsTypeOK
      <2>3. DeadNext(w)
          BY <2>1, <2>2 DEF DeadNext, Issued, Unspent
      <2>4. token'[new].status \in Unspent
          BY <2>1, <2>2 DEF Unspent
      <2>5. \A v \in Tokens : token[v] = NoToken /\ token'[v].status \in Unspent => v = new
          BY <1>2, <1>n, <2>2
      <2>6. ASSUME NEW y \in Trips \ {x}, Out(y), trip[y].got # NoCookie
            PROVE  token'[new].family # token[trip[y].got].family
          <3>1. w # trip[y].got
              BY <1>1, <2>6 DEF GotFits, Out, Ops
          <3>2. token[w].status \in Unspent
              BY <2>1 DEF Unspent
          <3>3. GotFits(y)
              OBVIOUS
          <3> QED BY <1>2, <2>2, <2>6, <3>1, <3>2, <3>3 DEF GotFits, Family
      <2> HIDE DEF w
      <2>7. DeadNext(trip[x].with)
          BY <2>3 DEF w
      <2> QED BY <1>1, <1>3, <2>1, <2>4, <2>5, <2>6, <2>7, AnsweredTurn
  <1>4. ASSUME DeadNext(w), Answered(x, NoCookie),
               \A v \in Tokens : token[v] = NoToken => token'[v] = NoToken
        PROVE  Turn({x})
      BY <1>1, <1>4, <1>n, AnsweredTurn
  <1>5. CASE RefreshReused(w) /\ Answered(x, NoCookie)
      <2>1. Family(token[w].family) \in SUBSET Tokens
          BY DEF Family
      <2>2. Revoke(Family(token[w].family)) /\ token[w].status = "revoked"
          BY <1>5 DEF RefreshReused
      <2>3. \A v \in Tokens : token[v] = NoToken => token'[v] = NoToken
          BY <1>2, <2>1, <2>2, RevokeEffect
      <2>4. token'[w].status = "revoked"
          BY <1>2, <2>1, <2>2, RevokeEffect
      <2> QED BY <1>4, <1>5, <2>3, <2>4 DEF DeadNext, Unspent
  <1>6. CASE RefreshExpired(w) /\ Answered(x, NoCookie)
      <2>1. Revoke({w}) /\ {w} \in SUBSET Tokens
          BY <1>2, <1>6 DEF RefreshExpired
      <2>2. \A v \in Tokens : token[v] = NoToken => token'[v] = NoToken
          BY <1>2, <2>1, RevokeEffect
      <2>3. token'[w].status = "revoked"
          BY <1>2, <2>1, RevokeEffect
      <2> QED BY <1>4, <1>6, <2>2, <2>3 DEF DeadNext, Unspent
  <1>7. CASE ~Active(token[w].user) /\ Answered(x, NoCookie) /\ UNCHANGED vars
      <2>1. token' = token /\ account' = account
          BY <1>7 DEF vars
      <2> QED BY <1>4, <1>7, <2>1 DEF DeadNext, Active
  <1> QED BY <1>3, <1>5, <1>6, <1>7 DEF Served

(* Once the backend has begun a logout, it has the token in its list. *)
LEMMA EndServedTurn ==
  ASSUME CookieInv, NEW x \in Trips, EndServed(x)
  PROVE  Turn({x})
  <1> USE DEF CookieInv
  <1> DEFINE w == trip[x].with
  <1>1. /\ trip[x].op = "end" /\ trip[x].at \in {"sent", "late"} /\ w # NoCookie
        /\ Out(x) /\ UNCHANGED <<cookie, stray>>
      BY DEF EndServed, At, Out, Ops
  <1>2. w \in Tokens /\ token[w] # NoToken
      BY <1>1, HoldsTokens
  <1>3. token' = token /\ EndingNext(w)
      <2> DEFINE l == [token |-> w, user |-> token[w].user, epoch |-> epoch[token[w].user],
                       seen |-> Family(token[w].family)]
      <2>1. token' = token /\ logouts' = logouts \cup {l}
          BY DEF EndServed, LogoutReads
      <2>2. w \in Family(token[w].family)
          BY <1>2 DEF Family
      <2>3. l \in logouts' /\ w \in l.seen
          BY <2>1, <2>2
      <2> QED BY <2>1, <2>3 DEF EndingNext
  <1>4. \A t \in Tokens : Newborn(t, {x})
      BY <1>3, NoBirth
  <1>5. trip[x].got = NoCookie
      BY <1>1 DEF TripFits
  <1>6. \A t \in Tokens : t = cookie => InHand(t)
      BY <1>1 DEF InHand
  <1>7. CASE trip[x].at = "sent"
      <2>1. trip' = [trip EXCEPT ![x].at = "handed"]
          BY <1>7 DEF EndServed
      <2>2. /\ trip'[x].op = "end" /\ trip'[x].at = "handed"
            /\ trip'[x].with = trip[x].with /\ trip'[x].got = NoCookie
            /\ \A y \in Trips \ {x} : trip'[y] = trip[y]
          BY <1>1, <1>5, <2>1, Moved
      <2>3. TripFits(x)'
          BY <1>1, <1>3, <2>2 DEF TripFits, Ending, EndingNext
      <2>4. Passed(x)
          BY <1>1, <2>2 DEF Passed
      <2> QED BY <1>1, <1>3, <1>4, <1>5, <1>6, <2>2, <2>3, <2>4, CookieAssumption DEF Turn
  <1>8. CASE trip[x].at # "sent"
      <2>1. Finish(x)
          BY <1>8 DEF EndServed
      <2> QED BY <1>1, <1>3, <1>4, <1>5, <1>6, <2>1, Finished, CookieAssumption DEF Turn
  <1> QED BY <1>7, <1>8

LEMMA EndReturnsTurn ==
  ASSUME CookieInv, NEW x \in Trips, EndReturns(x)
  PROVE  Turn({x})
  <1> USE DEF CookieInv
  <1>1. /\ trip[x].op = "end" /\ trip[x].at \in {"sent", "handed"} /\ Out(x)
        /\ cookie' = NoCookie
        /\ stray' = stray \cup ({cookie} \ {trip[x].with, NoCookie})
      BY DEF EndReturns, At, Out, Ops, SetCookie
  <1>2. token' = token /\ account' = account /\ logouts' = logouts
      BY DEF EndReturns, vars
  <1>3. \A t \in Tokens : Newborn(t, {x})
      BY <1>2, NoBirth
  <1>4. trip[x].got = NoCookie
      BY <1>1 DEF TripFits
  <1>5. \A t \in Tokens : t = cookie /\ t # trip[x].with => InHand(t)
      BY <1>1, CookieAssumption DEF InHand
  <1>6. CASE trip[x].at = "sent" /\ trip[x].with # NoCookie
      <2>1. trip' = [trip EXCEPT ![x].at = "late"]
          BY <1>6 DEF EndReturns
      <2>2. /\ trip'[x].op = "end" /\ trip'[x].at = "late"
            /\ trip'[x].with = trip[x].with /\ trip'[x].got = NoCookie
            /\ \A y \in Trips \ {x} : trip'[y] = trip[y]
          BY <1>1, <1>4, <2>1, Moved
      <2>3. TripFits(x)'
          BY <2>2 DEF TripFits
      <2>4. Passed(x)
          BY <1>1, <2>2 DEF Passed
      <2>5. InHand(trip[x].with)
          BY <2>2 DEF InHand, Ops
      <2> QED BY <1>1, <1>3, <1>4, <1>5, <2>2, <2>3, <2>4, <2>5, CookieAssumption DEF Turn
  <1>7. CASE ~(trip[x].at = "sent" /\ trip[x].with # NoCookie)
      <2>1. Finish(x)
          BY <1>7 DEF EndReturns
      <2>2. \/ trip[x].with = NoCookie
            \/ DeadNext(trip[x].with) \/ EndingNext(trip[x].with)
          BY <1>1, <1>2, <1>7 DEF TripFits, Dead, DeadNext, Active, Ending, EndingNext
      <2> QED BY <1>1, <1>3, <1>4, <1>5, <2>1, <2>2, Finished, CookieAssumption DEF Turn
  <1> QED BY <1>6, <1>7

LEMMA TravelTurn ==
  ASSUME CookieInv, NEW x \in Trips, Travel(x)
  PROVE  Turn({x})
  BY LoggedInTurn, DeliveredTurn, AskedTurn, ServedTurn, TimesOutTurn, LostTurn,
     EndServedTurn, EndReturnsTurn DEF Travel

(* The cookie, the requests and the tokens of the backend fit together,    *)
(* for any number of requests that overlap in any way.                     *)
THEOREM CookieInvariance == BrowserSpec => []CookieInv
  <1>1. BrowserInit => CookieInv
      <2> SUFFICES ASSUME BrowserInit PROVE CookieInv
          OBVIOUS
      <2>1. BrowserInv /\ (\A x \in Trips : ~Out(x)) /\ cookie = NoCookie
          BY DEF BrowserInit, BrowserInv, BrowserTypeOK, Unmade, Out, Ops
      <2>2. AccountsTypeOK
          BY EpochAssumption DEF BrowserInit, Init, AccountsTypeOK, Accounts, Roles
      <2>3. \A t \in Tokens : token[t] = NoToken
          BY DEF BrowserInit, Init
      <2>4. NoToken.status \notin Unspent
          BY DEF NoToken, Unspent
      <2>5. FamilyInv
          BY <2>2, <2>3, <2>4
          DEF BrowserInit, Init, AccountsTypeOK, FamilyInv, TokensTyped, FamiliesRooted,
              OneUnspentPerFamily, ReusedFamilyIsDead
      <2>6. ClaimsKnown /\ UsersKnown
          BY <2>3 DEF BrowserInit, Init, ClaimsKnown, UsersKnown
      <2>7. KnownFits /\ (\A x \in Trips : GotFits(x))
          BY <2>1 DEF KnownFits, GotFits
      <2>8. \A x \in Trips : TripFits(x)
          BY DEF BrowserInit, TripFits, Unmade
      <2>9. (\A t \in Tokens : NotBehind(t)) /\ NoHiddenSession
          BY <2>3, <2>4 DEF NotBehind, NoHiddenSession
      <2> QED BY <2>1, <2>2, <2>5, <2>6, <2>7, <2>8, <2>9 DEF CookieInv
  <1>2. CookieInv /\ BrowserInv' /\ [Next]_vars /\ [BrowserNext]_allVars => CookieInv'
      <2> SUFFICES ASSUME CookieInv, BrowserInv', [Next]_vars, [BrowserNext]_allVars
                   PROVE  CookieInv'
          OBVIOUS
      <2>1. ASSUME NEW x \in Trips, Travel(x) PROVE CookieInv'
          BY <2>1, TravelTurn, TurnStep
      <2>2. CASE Backend /\ UNCHANGED browserVars
          BY <2>2, BackendTurn, TurnStep
      <2>3. CASE UNCHANGED allVars
          <3>1. \A t \in Tokens : Newborn(t, {})
              BY <2>3, NoBirth DEF allVars, vars
          <3>2. Turn({})
              BY <2>3, <3>1 DEF allVars, browserVars, Turn, InHand
          <3> QED BY <3>2, TurnStep
      <2> QED BY <2>1, <2>2, <2>3 DEF BrowserNext
  <1>3. BrowserSpec => [][Next]_vars
      BY BrowserUsesAccounts, PTL DEF Spec
  <1> QED BY <1>1, <1>2, <1>3, BrowserInvariance, PTL DEF BrowserSpec

(* The cookie is never left behind by a rotation whose answer has arrived, *)
(* however refreshes, logins and logouts of the tabs overlap.              *)
THEOREM CookieStaysCurrent == BrowserSpec => []CookieNotRotatedAway
  <1>1. CookieInv => CookieNotRotatedAway
      <2> SUFFICES ASSUME CookieInv, cookie # NoCookie, token[cookie].status = "revoked",
                          NEW t \in Family(token[cookie].family),
                          token[t].status \in Unspent, t \notin stray \cup Carried
                   PROVE  FALSE
          BY DEF CookieNotRotatedAway
      <2>1. t \in Tokens /\ token[t].family = token[cookie].family
          BY DEF Family
      <2>2. t \notin Gots
          BY GotsAre, CarriedIs
      <2>3. NotBehind(t)
          BY <2>1 DEF CookieInv
      <2>4. cookie = t
          BY <2>1, <2>2, <2>3 DEF NotBehind
      <2> QED BY <2>4 DEF Unspent
  <1> QED BY <1>1, CookieInvariance, PTL

(* A usable refresh token that the browser and its proxy have lost without *)
(* a request failing or overlapping another does not exist.                *)
THEOREM NothingHidden == BrowserSpec => []NoHiddenSession
  <1>1. CookieInv => NoHiddenSession
      BY DEF CookieInv
  <1> QED BY <1>1, CookieInvariance, PTL
=============================================================================
