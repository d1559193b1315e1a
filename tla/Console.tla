------------------------------- MODULE Console -------------------------------
(***************************************************************************)
(* Console sessions: a grant that opens one websocket, and the relay       *)
(* between the browser and PVE behind it.                                  *)
(*                                                                         *)
(* Sources: services/console.py, api/console.py.  The grant, the slot of a *)
(* user and a workload and the rate counter live in Redis, each with a     *)
(* lifetime; users, members and workloads are those of Organizations.      *)
(* Every call to Redis or to PVE and every check of the rights is a step   *)
(* of its own.                                                             *)
(*                                                                         *)
(* Time passes in ticks.  The slot lives for Lifetime ticks from its       *)
(* acquisition, the relay for as many from its own start, which comes      *)
(* after the set-up of the connection.                                     *)
(***************************************************************************)
EXTENDS Organizations

CONSTANTS
  Sessions,     \* console sessions, each requested once
  NoSession,    \* the slot is free
  UserOf,       \* UserOf[s]: who asks for s
  WorkloadOf,   \* WorkloadOf[s]: for which workload
  Lifetime,     \* settings.console_max_duration_seconds, in ticks
  Setup,        \* bound on the ticks from the slot to the relay
  PerMinute,    \* settings.console_sessions_per_minute
  MaxChanges    \* bound on administrators' requests

ASSUME ConsoleAssumption ==
  /\ NoSession \notin Sessions
  /\ UserOf \in [Sessions -> Users]
  /\ WorkloadOf \in [Sessions -> Workloads]
  /\ Lifetime \in Nat \ {0}
  /\ Setup \in Nat
  /\ PerMinute \in Nat
  /\ MaxChanges \in Nat

VARIABLES
  phase,      \* how far the session has come
  grant,      \* role and session_epoch stored with it
  age,        \* ticks since it acquired its slot
  began,      \* its age when the relay began
  slot,       \* console:live:<user>:<workload>: the session it names
  slotAge,    \* ticks since the slot was set
  rate,       \* console:rate:<user>
  window,     \* that counter has a lifetime
  changes     \* administrators' requests so far

consoleVars == <<phase, grant, age, began, slot, slotAge, rate, window>>
allVars == <<vars, orgVars, consoleVars, changes>>

(* asked: create waits for PVE.  granted: the token was handed out.        *)
(* consumed: the websocket has used it.  held: it has the slot.  loaded:   *)
(* the rights were checked again.                                          *)
Live    == {"held", "loaded", "relay"}
Phases  == {"none", "asked", "granted", "consumed", "closed"} \cup Live
Pairs   == Users \X Workloads
Pair(s) == <<UserOf[s], WorkloadOf[s]>>

ConsoleTypeOK ==
  /\ phase \in [Sessions -> Phases]
  /\ grant \in [Sessions -> [role : Roles, epoch : 0 .. MaxEpoch]]
  /\ age \in [Sessions -> 0 .. Lifetime + Setup]
  /\ began \in [Sessions -> 0 .. Setup]
  /\ slot \in [Pairs -> Sessions \cup {NoSession}]
  /\ slotAge \in [Pairs -> 0 .. Lifetime - 1]
  /\ rate \in [Users -> 0 .. PerMinute + 1]
  /\ window \in [Users -> BOOLEAN]
  /\ changes \in 0 .. MaxChanges

(* A system in use, with users logged in and no console open. *)
ConsoleInit ==
  /\ account \in [Users -> {"none", "active"}]
  /\ Active(Root)
  /\ role = [u \in Users |-> IF u = Root THEN "SUPER_ADMIN" ELSE "CUSTOMER"]
  /\ epoch = [u \in Users |-> 0]
  /\ setback = {}
  /\ token \in [Tokens -> Issued \cup {NoToken}]
  /\ \A t \in Tokens : \/ token[t] = NoToken
                       \/ /\ token[t].status = "live"
                          /\ token[t].family = t
                          /\ Active(token[t].user)
  /\ reused = {} /\ access = {} /\ logins = {} /\ logouts = {} /\ removing = {}
  /\ OrganizationsInit
  /\ phase = [s \in Sessions |-> "none"]
  /\ grant = [s \in Sessions |-> [role |-> "CUSTOMER", epoch |-> 0]]
  /\ age = [s \in Sessions |-> 0]
  /\ began = [s \in Sessions |-> 0]
  /\ slot = [p \in Pairs |-> NoSession]
  /\ slotAge = [p \in Pairs |-> 0]
  /\ rate = [u \in Users |-> 0]
  /\ window = [u \in Users |-> FALSE]
  /\ changes = 0

-----------------------------------------------------------------------------
(* authorized_console_workload: staff see every guest, customers those of  *)
(* an active organization they belong to.                                  *)
Authorized(u, w) ==
  /\ guest[w] # "absent"
  /\ role[u] = "CUSTOMER" => /\ owner[w] \in ActiveOrgs
                             /\ <<owner[w], u>> \in members

(* What create and the websocket both require of the session's guest. *)
Reachable(s) == Authorized(UserOf[s], WorkloadOf[s]) /\ guest[WorkloadOf[s]] = "running"

Goto(s, p) == phase' = [phase EXCEPT ![s] = p]

World == UNCHANGED <<vars, orgVars, changes>>

(* create up to the call to PVE: the rights are checked, the counter is    *)
(* incremented and, if it was new, gets its lifetime.  The rights are the  *)
(* user's and the guest's as two queries in a row find them.  Counts above *)
(* the limit are not told apart.                                           *)
Ask(s) ==
  LET u == UserOf[s] IN
  /\ phase[s] = "none"
  /\ Active(u)
  /\ Reachable(s)
  /\ rate' = [rate EXCEPT ![u] = IF @ > PerMinute THEN @ ELSE @ + 1]
  /\ window' = [window EXCEPT ![u] = @ \/ rate[u] = 0]
  /\ Goto(s, IF rate[u] < PerMinute THEN "asked" ELSE "closed")
  /\ grant' = [grant EXCEPT ![s] = [role |-> role[u], epoch |-> epoch[u]]]
  /\ World /\ UNCHANGED <<age, began, slot, slotAge>>

(* The process or Redis fails between INCR and EXPIRE: the counter stays. *)
AskDies(s) ==
  LET u == UserOf[s] IN
  /\ phase[s] = "none"
  /\ Active(u)
  /\ Reachable(s)
  /\ rate[u] = 0
  /\ rate' = [rate EXCEPT ![u] = 1]
  /\ Goto(s, "closed")
  /\ World /\ UNCHANGED <<grant, age, began, slot, slotAge, window>>

(* PVE has given a ticket, and the grant is stored and handed out. *)
Grant(s) ==
  /\ phase[s] = "asked"
  /\ Goto(s, "granted")
  /\ World /\ UNCHANGED <<grant, age, began, slot, slotAge, rate, window>>

(* consume_console_grant: compare the token, read and delete, atomically. *)
Consume(s) ==
  /\ phase[s] = "granted"
  /\ Goto(s, "consumed")
  /\ World /\ UNCHANGED <<grant, age, began, slot, slotAge, rate, window>>

(* PVE, Redis or the process fails, the lifetime of the grant runs out, or *)
(* the slot is taken.                                                      *)
GiveUp(s) ==
  /\ phase[s] \in {"asked", "granted", "consumed"}
  /\ Goto(s, "closed")
  /\ World /\ UNCHANGED <<grant, age, began, slot, slotAge, rate, window>>

-----------------------------------------------------------------------------
(* The websocket.                                                          *)

(* Mutant: SET without NX. *)
AcquireAnyway(s) ==
  /\ phase[s] = "consumed"
  /\ slot' = [slot EXCEPT ![Pair(s)] = s]
  /\ slotAge' = [slotAge EXCEPT ![Pair(s)] = 0]
  /\ Goto(s, "held")
  /\ age' = [age EXCEPT ![s] = 0]
  /\ World /\ UNCHANGED <<grant, began, rate, window>>

(* acquire_console_slot: SET NX EX. *)
Acquire(s) ==
  /\ phase[s] = "consumed"
  /\ slot[Pair(s)] = NoSession
  /\ slot' = [slot EXCEPT ![Pair(s)] = s]
  /\ slotAge' = [slotAge EXCEPT ![Pair(s)] = 0]
  /\ Goto(s, "held")
  /\ age' = [age EXCEPT ![s] = 0]
  /\ World /\ UNCHANGED <<grant, began, rate, window>>

(* The user is still who the grant says. *)
Current(s) ==
  /\ Active(UserOf[s])
  /\ epoch[UserOf[s]] = grant[s].epoch
  /\ role[UserOf[s]] = grant[s].role

(* load_console_connection finds everything as create did. *)
Load(s) ==
  /\ phase[s] = "held"
  /\ Current(s)
  /\ Reachable(s)
  /\ Goto(s, "loaded")
  /\ World /\ UNCHANGED <<grant, age, began, slot, slotAge, rate, window>>

(* PVE's websocket is open and _relay begins. *)
Open(s) ==
  /\ phase[s] = "loaded"
  /\ Goto(s, "relay")
  /\ began' = [began EXCEPT ![s] = age[s]]
  /\ World /\ UNCHANGED <<grant, age, slot, slotAge, rate, window>>

(* release_console_slot: DEL of a slot that names this session. *)
Free(s) == slot' = [slot EXCEPT ![Pair(s)] = IF @ = s THEN NoSession ELSE @]

(* Either side hangs up, the time is over or a step of the set-up fails,   *)
(* and the slot is released; unless Redis or the whole process fails.      *)
Close(s, released) ==
  /\ phase[s] \in Live
  /\ Goto(s, "closed")
  /\ IF released THEN Free(s) ELSE UNCHANGED slot
  /\ World /\ UNCHANGED <<grant, age, began, slotAge, rate, window>>

-----------------------------------------------------------------------------
(* Mutant: the set-up has no time limit. *)
InTimeRelay(s) == phase[s] = "relay" => age[s] < began[s] + Lifetime

(* Time.  asyncio.timeout ends a relay after Lifetime, the time limits of  *)
(* the set-up end one after Setup.                                         *)
InTime(s) ==
  CASE phase[s] = "relay" -> age[s] < began[s] + Lifetime
    [] phase[s] \in {"held", "loaded"} -> age[s] < Setup
    [] OTHER -> TRUE

Expiring(p) == slot[p] # NoSession /\ slotAge[p] + 1 = Lifetime

Tick ==
  /\ \A s \in Sessions : InTime(s)
  /\ \E s \in Sessions : phase[s] \in Live \/ slot[Pair(s)] # NoSession
  /\ age' = [s \in Sessions |-> IF phase[s] \in Live THEN age[s] + 1 ELSE age[s]]
  /\ slot' = [p \in Pairs |-> IF Expiring(p) THEN NoSession ELSE slot[p]]
  /\ slotAge' = [p \in Pairs |-> IF slot[p] = NoSession \/ Expiring(p) THEN 0 ELSE slotAge[p] + 1]
  /\ World /\ UNCHANGED <<phase, grant, began, rate, window>>

(* 60 seconds after the first request. *)
WindowEnds(u) ==
  /\ window[u]
  /\ rate' = [rate EXCEPT ![u] = 0]
  /\ window' = [window EXCEPT ![u] = FALSE]
  /\ World /\ UNCHANGED <<phase, grant, age, began, slot, slotAge>>

(* Accounts, organizations and guests change under the sessions. *)
Administration ==
  /\ changes < MaxChanges
  /\ changes' = changes + 1
  /\ \/ \E u \in Users : AdministerUser(u)
     \/ \E g \in Orgs : AdministerOrg(g)
     \/ \E w \in Workloads : AdministerWorkload(w)
  /\ UNCHANGED consoleVars

(* What changes session_epoch without an administrator: logout and reuse   *)
(* of a refresh token.  Logins and rotations leave it alone.               *)
SessionEnds ==
  /\ \/ \E t \in Tokens : RefreshReused(t) \/ LogoutReads(t)
     \/ \E l \in logouts : LogoutWrites(l)
  /\ UNCHANGED <<orgVars, consoleVars, changes>>

Request(s) == Ask(s) \/ AskDies(s) \/ Grant(s) \/ Consume(s) \/ GiveUp(s)

Connection(s) ==
  Acquire(s) \/ Load(s) \/ Open(s) \/ \E released \in BOOLEAN : Close(s, released)

ConsoleNext ==
  \/ \E s \in Sessions : Request(s) \/ Connection(s)
  \/ \E u \in Users : WindowEnds(u)
  \/ Tick
  \/ SessionEnds
  \/ Administration

ConsoleSpec == ConsoleInit /\ [][ConsoleNext]_allVars

-----------------------------------------------------------------------------
(* Properties.                                                             *)

Remaining(s) == began[s] + Lifetime - age[s]

(* Two consoles of one user and one workload relay at once only while the  *)
(* older has no more than the time of a set-up left: its slot expired      *)
(* before its relay did.  No early release, crash or failure of Redis      *)
(* makes the overlap longer.                                               *)
OverlapIsShort ==
  \A s, t \in Sessions :
    /\ s # t
    /\ Pair(s) = Pair(t)
    /\ phase[s] = "relay"
    /\ phase[t] = "relay"
    => Remaining(s) <= Setup \/ Remaining(t) <= Setup

(* The user was disabled, deleted or given a new password since create. *)
Outdated(s) ==
  ~(Active(UserOf[s]) /\ epoch[UserOf[s]] = grant[s].epoch)

(* A grant that is outdated stays so, though the account may be enabled    *)
(* again, and never comes as far as the connection; unless a late logout   *)
(* has written the user's epoch back, perhaps to the one of the grant.     *)
OutdatedUnlessSetback ==
  [][\A s \in Sessions :
       /\ phase[s] \in {"asked", "granted", "consumed", "held"}
       /\ Outdated(s)
       /\ UserOf[s] \notin setback'
       => Outdated(s)' /\ phase'[s] # "loaded"]_allVars
=============================================================================
