--------------------------- MODULE BrowserSession ---------------------------
(***************************************************************************)
(* The login session of a browser: one cookie that all its tabs share, and *)
(* the requests that read it, call the backend and write it later.         *)
(*                                                                         *)
(* Sources: frontend/app/api/auth/session/route.ts (the proxy that keeps   *)
(* the refresh token in a cookie), frontend/lib/browser-session.ts and     *)
(* frontend/app/portal-router.tsx; the backend is Accounts.                *)
(*                                                                         *)
(* Tabs and console windows send their requests whenever they need an      *)
(* access token.  The browser takes Set-Cookie of every answer that        *)
(* reaches it, in the order of arrival.  An answer may be lost, and the    *)
(* proxy gives up after requestTimeoutMs while the backend works on.       *)
(***************************************************************************)
EXTENDS Accounts

CONSTANTS
  Trips,      \* requests of the browser, each made once
  NoCookie    \* no refresh token

ASSUME CookieAssumption == NoCookie \notin Tokens

VARIABLES
  cookie,     \* pvemaster_refresh
  trip,       \* per request how far it is
  stray       \* refresh tokens the browser has lost sight of

browserVars == <<cookie, trip, stray>>
allVars     == <<vars, browserVars>>

(* sent: the proxy waits for the backend.  late: it has given up.          *)
(* handed: logout has begun.  back: the answer is on its way.              *)
Ops       == {"login", "restore", "end"}
Positions == {"sent", "late", "handed", "back"}
Underway  == [op : Ops, at : Positions, with : Tokens \cup {NoCookie}, got : Tokens \cup {NoCookie}]
Unmade    == [op |-> "none"]
Over      == [op |-> "over"]

BrowserTypeOK ==
  /\ cookie \in Tokens \cup {NoCookie}
  /\ trip \in [Trips -> Underway \cup {Unmade, Over}]
  /\ stray \subseteq Tokens

BrowserInit ==
  /\ Init
  /\ cookie = NoCookie
  /\ trip = [x \in Trips |-> Unmade]
  /\ stray = {}

-----------------------------------------------------------------------------
At(x, op, at) == trip[x].op = op /\ trip[x].at = at
Make(x, op, at, with, got) ==
  /\ trip[x] = Unmade
  /\ trip' = [trip EXCEPT ![x] = [op |-> op, at |-> at, with |-> with, got |-> got]]
Finish(x) == trip' = [trip EXCEPT ![x] = Over]

(* The cookie becomes t.  What it was is lost unless the request knew it. *)
SetCookie(x, t) ==
  /\ cookie' = t
  /\ stray' = stray \cup ({cookie} \ {trip[x].with, t, NoCookie})

-----------------------------------------------------------------------------
(* Login.                                                                  *)

(* The tab has both tokens in memory ... *)
LoggedIn(x, claim, t) ==
  /\ LoginIssues(claim, t)
  /\ Make(x, "login", "back", NoCookie, t)
  /\ UNCHANGED <<cookie, stray>>

(* ... asks who it is, and persists the refresh token. *)
Persist(x) ==
  /\ At(x, "login", "back")
  /\ SetCookie(x, trip[x].got)
  /\ Finish(x)
  /\ UNCHANGED vars

-----------------------------------------------------------------------------
(* PUT: a new access token for the cookie.                                 *)

Restore(x) ==
  /\ cookie # NoCookie
  /\ Make(x, "restore", "sent", cookie, NoCookie)
  /\ UNCHANGED <<vars, cookie, stray>>

(* The backend has answered with got: to the proxy, or to nobody. *)
Answered(x, got) ==
  IF trip[x].at = "sent"
  THEN /\ trip' = [trip EXCEPT ![x].at = "back", ![x].got = got]
       /\ UNCHANGED <<cookie, stray>>
  ELSE /\ Finish(x)
       /\ stray' = stray \cup ({got} \ {NoCookie})
       /\ UNCHANGED cookie

Served(x) ==
  LET t == trip[x].with IN
  /\ At(x, "restore", "sent") \/ At(x, "restore", "late")
  /\ \/ \E new \in Tokens : Refresh(t, new) /\ Answered(x, new)
     \/ (RefreshReused(t) \/ RefreshExpired(t)) /\ Answered(x, NoCookie)
     \/ /\ ~Active(token[t].user)
        /\ Unlocked(token[t].user)
        /\ Answered(x, NoCookie)
        /\ UNCHANGED vars

(* Mutant: the rotated token is not written back. *)
RestoreReturnsKeeping(x) ==
  /\ At(x, "restore", "back")
  /\ SetCookie(x, IF trip[x].got = NoCookie THEN NoCookie ELSE trip[x].with)
  /\ Finish(x)
  /\ UNCHANGED vars

(* The rotated token replaces the cookie; a refusal clears it, whatever it *)
(* has become meanwhile.                                                   *)
RestoreReturns(x) ==
  /\ At(x, "restore", "back")
  /\ SetCookie(x, trip[x].got)
  /\ Finish(x)
  /\ UNCHANGED vars

(* 503 SESSION_SERVICE_UNAVAILABLE leaves the cookie alone. *)
TimesOut(x) ==
  /\ At(x, "restore", "sent")
  /\ trip' = [trip EXCEPT ![x].at = "late"]
  /\ UNCHANGED <<vars, cookie, stray>>

(* A request that timed out does not reach the backend, or an answer does  *)
(* not reach the browser.                                                  *)
Lost(x) ==
  /\ trip[x].op \in Ops
  /\ trip[x].at \in {"late", "back"}
  /\ stray' = stray \cup ({trip[x].with, trip[x].got} \ {cookie, NoCookie})
  /\ Finish(x)
  /\ UNCHANGED <<vars, cookie>>

-----------------------------------------------------------------------------
(* DELETE: logout.                                                         *)

EndSession(x) ==
  /\ Make(x, "end", "sent", cookie, NoCookie)
  /\ UNCHANGED <<vars, cookie, stray>>

EndServed(x) ==
  /\ At(x, "end", "sent") \/ At(x, "end", "late")
  /\ trip[x].with # NoCookie
  /\ LogoutReads(trip[x].with)
  /\ IF trip[x].at = "sent" THEN trip' = [trip EXCEPT ![x].at = "handed"] ELSE Finish(x)
  /\ UNCHANGED <<cookie, stray>>

(* The cookie is cleared whether the backend has answered, has been given  *)
(* up or was never called.                                                 *)
EndReturns(x) ==
  /\ At(x, "end", "sent") \/ At(x, "end", "handed")
  /\ SetCookie(x, NoCookie)
  /\ IF trip[x].at = "sent" /\ trip[x].with # NoCookie
     THEN trip' = [trip EXCEPT ![x].at = "late"] ELSE Finish(x)
  /\ UNCHANGED vars

-----------------------------------------------------------------------------
Travel(x) ==
  \/ \E claim \in logins, t \in Tokens : LoggedIn(x, claim, t)
  \/ Persist(x)
  \/ Restore(x)
  \/ Served(x)
  \/ RestoreReturns(x)
  \/ TimesOut(x)
  \/ Lost(x)
  \/ EndSession(x)
  \/ EndServed(x)
  \/ EndReturns(x)

(* What goes on without the browser. *)
Backend ==
  \/ \E u \in Users : LoginReads(u) \/ Administer(u)
  \/ \E t \in Tokens : TokenExpires(t)
  \/ \E l \in logouts : LogoutWrites(l)

BrowserNext ==
  \/ \E x \in Trips : Travel(x)
  \/ Backend /\ UNCHANGED browserVars

BrowserSpec == BrowserInit /\ [][BrowserNext]_allVars

-----------------------------------------------------------------------------
(* Properties.                                                             *)

(* Tokens that a request under way knows of. *)
Carried == UNION {{trip[x].with, trip[x].got} : x \in {y \in Trips : trip[y].op \in Ops}}

(* The cookie is never a token whose successor is in use, which would make *)
(* the next refresh look like reuse and end the session, unless the answer *)
(* with the successor is on its way or was lost.                           *)
CookieNotRotatedAway ==
  cookie # NoCookie /\ token[cookie].status = "revoked" =>
    \A t \in Family(token[cookie].family) :
      token[t].status \in Unspent => t \in stray \cup Carried

(* No session outlives its cookie unnoticed: a usable refresh token is the *)
(* cookie, or a request or a logout under way deals with it, or it is one  *)
(* of those the browser lost: an answer that did not arrive, a cookie      *)
(* overwritten by an overlapping request, a logout not delivered.          *)
NoHiddenSession ==
  \A t \in Tokens :
    token[t].status \in Unspent /\ Active(token[t].user) =>
      \/ t \in {cookie} \cup stray \cup Carried
      \/ \E l \in logouts : t \in l.seen
=============================================================================
