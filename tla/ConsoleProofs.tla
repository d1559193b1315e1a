---------------------------- MODULE ConsoleProofs ----------------------------
(***************************************************************************)
(* Console sessions, for any number of users, workloads and sessions and   *)
(* any lifetimes.  That two relays of one pair overlap only at the end of  *)
(* the older one rests on the age of a session and the age of its slot     *)
(* being the same for as long as the slot names the session.               *)
(***************************************************************************)
EXTENDS Console, AccountsProofs

(* Accounts as AccountsProofs has them. *)
AccountsInv == AccountsTypeOK /\ FamilyInv /\ ClaimsBehind

(* A call under way, too, that deals with a deleted organization or user   *)
(* was under way when it was deleted.                                      *)
CallsOverlapped ==
  /\ \A m \in joining : org[m[1]] = "inactive" \/ account[m[2]] = "deleted" => m \in lateJoins
  /\ \A a \in assigning : org[a[2]] = "inactive" => a \in lateAssigns

OrganizationsInv == OrganizationsTypeOK /\ CallsOverlapped /\ LeftoversOverlapped

(* A slot names a session of its own pair. *)
SlotsNamed == \A p \in Pairs : slot[p] # NoSession => Pair(slot[p]) = p

(* A live session has its slot, which is as old as the session, or its     *)
(* slot has expired.                                                       *)
SlotAsOld(s) ==
  phase[s] \in Live =>
    \/ slot[Pair(s)] = s /\ slotAge[Pair(s)] = age[s]
    \/ age[s] >= Lifetime

(* The time limits of the set-up and of the relay. *)
TimesFit(s) ==
  /\ phase[s] \in {"held", "loaded"} => age[s] <= Setup
  /\ phase[s] = "relay" => age[s] <= began[s] + Lifetime

(* The grant is of an account that existed, at an epoch that has passed or *)
(* is the present one, unless the epoch was written back.                  *)
GrantFits(s) ==
  /\ UserOf[s] \in setback \/ grant[s].epoch <= epoch[UserOf[s]]
  /\ phase[s] # "none" => account[UserOf[s]] # "none"

ConsoleInv ==
  /\ AccountsInv
  /\ OrganizationsInv
  /\ ConsoleTypeOK
  /\ SlotsNamed
  /\ \A s \in Sessions : SlotAsOld(s) /\ TimesFit(s) /\ GrantFits(s)

LEMMA PairTyped == \A s \in Sessions : Pair(s) \in Pairs /\ UserOf[s] \in Users
  BY ConsoleAssumption DEF Pair, Pairs

-----------------------------------------------------------------------------
(* Steps of a session.                                                     *)

LEMMA WorldStutter ==
  ASSUME AccountsInv, OrganizationsInv, UNCHANGED <<vars, orgVars>>
  PROVE  AccountsInv' /\ OrganizationsInv'
  <1>1. FamilyInv'
      BY IdleStep DEF AccountsInv, vars
  <1>2. AccountsTypeOK' /\ ClaimsBehind'
      BY DEF AccountsInv, AccountsTypeOK, ClaimsBehind, vars
  <1>3. OrganizationsInv'
      BY DEF OrganizationsInv, OrganizationsTypeOK, CallsOverlapped, LeftoversOverlapped,
             orgVars, lateVars, vars
  <1> QED BY <1>1, <1>2, <1>3 DEF AccountsInv

(* Only session s changes, and a slot only if it was free or the session's *)
(* own.                                                                    *)
LEMMA SessionInv ==
  ASSUME ConsoleInv, NEW s \in Sessions, World, ConsoleTypeOK', SlotsNamed',
         \A t \in Sessions \ {s} : /\ phase'[t] = phase[t] /\ grant'[t] = grant[t]
                                   /\ age'[t] = age[t] /\ began'[t] = began[t],
         \A p \in Pairs : \/ slot'[p] = slot[p] /\ slotAge'[p] = slotAge[p]
                          \/ slot[p] \in {NoSession, s},
         SlotAsOld(s)', TimesFit(s)', GrantFits(s)'
  PROVE  ConsoleInv'
  <1>1. AccountsInv' /\ OrganizationsInv'
      BY WorldStutter DEF ConsoleInv, World
  <1>2. ASSUME NEW t \in Sessions \ {s} PROVE SlotAsOld(t)' /\ TimesFit(t)' /\ GrantFits(t)'
      <2>1. SlotAsOld(t) /\ TimesFit(t) /\ GrantFits(t)
          BY DEF ConsoleInv
      <2>2. /\ phase'[t] = phase[t] /\ grant'[t] = grant[t]
            /\ age'[t] = age[t] /\ began'[t] = began[t]
          OBVIOUS
      <2>3. slot[Pair(t)] = t => slot'[Pair(t)] = t /\ slotAge'[Pair(t)] = slotAge[Pair(t)]
          BY PairTyped, ConsoleAssumption
      <2>4. SlotAsOld(t)'
          BY <2>1, <2>2, <2>3 DEF SlotAsOld, Pair
      <2>5. TimesFit(t)' /\ GrantFits(t)'
          BY <2>1, <2>2 DEF TimesFit, GrantFits, World, vars
      <2> QED BY <2>4, <2>5
  <1> QED BY <1>1, <1>2 DEF ConsoleInv

(* The session moves on without a slot: to a phase that has none. *)
LEMMA PhaseInv ==
  ASSUME ConsoleInv, NEW s \in Sessions, World, UNCHANGED <<age, began, slot, slotAge>>,
         NEW p \in Phases \ (Live \cup {"none"}), Goto(s, p),
         grant' = grant \/ (\E r \in Roles : grant' = [grant EXCEPT ![s] =
                                                         [role |-> r, epoch |-> epoch[UserOf[s]]]]),
         account[UserOf[s]] # "none",
         rate' \in [Users -> 0 .. PerMinute + 1], window' \in [Users -> BOOLEAN]
  PROVE  ConsoleInv'
  <1>1. UserOf[s] \in Users /\ epoch[UserOf[s]] \in 0 .. MaxEpoch
      BY PairTyped DEF ConsoleInv, AccountsInv, AccountsTypeOK
  <1>2. /\ phase' \in [Sessions -> Phases] /\ phase'[s] = p
        /\ \A t \in Sessions \ {s} : phase'[t] = phase[t]
      BY DEF Goto, ConsoleInv, ConsoleTypeOK
  <1>3. /\ grant' \in [Sessions -> [role : Roles, epoch : 0 .. MaxEpoch]]
        /\ \A t \in Sessions \ {s} : grant'[t] = grant[t]
        /\ grant'[s] = grant[s] \/ grant'[s].epoch = epoch[UserOf[s]]
      <2>1. grant \in [Sessions -> [role : Roles, epoch : 0 .. MaxEpoch]]
          BY DEF ConsoleInv, ConsoleTypeOK
      <2>2. CASE grant' = grant
          BY <2>1, <2>2
      <2>3. ASSUME NEW r \in Roles,
                   grant' = [grant EXCEPT ![s] = [role |-> r, epoch |-> epoch[UserOf[s]]]]
            PROVE  /\ grant' \in [Sessions -> [role : Roles, epoch : 0 .. MaxEpoch]]
                   /\ \A t \in Sessions \ {s} : grant'[t] = grant[t]
                   /\ grant'[s].epoch = epoch[UserOf[s]]
          <3> DEFINE g == [role |-> r, epoch |-> epoch[UserOf[s]]]
          <3>1. g \in [role : Roles, epoch : 0 .. MaxEpoch] /\ g.epoch = epoch[UserOf[s]]
              BY <1>1
          <3> HIDE DEF g
          <3>2. grant' = [grant EXCEPT ![s] = g]
              BY <2>3 DEF g
          <3> QED BY <2>1, <3>1, <3>2
      <2> QED BY <2>2, <2>3
  <1>4. ConsoleTypeOK'
      BY <1>2, <1>3 DEF ConsoleInv, ConsoleTypeOK, World
  <1>5. SlotsNamed'
      BY DEF ConsoleInv, SlotsNamed, Pair
  <1>6. SlotAsOld(s)' /\ TimesFit(s)'
      BY <1>2 DEF SlotAsOld, TimesFit, Live
  <1>7. GrantFits(s)'
      <2>1. GrantFits(s)
          BY DEF ConsoleInv
      <2> QED BY <1>1, <1>3, <2>1 DEF GrantFits, World, vars
  <1> QED BY <1>2, <1>3, <1>4, <1>5, <1>6, <1>7, SessionInv

LEMMA RequestInv ==
  ASSUME ConsoleInv, NEW s \in Sessions, Request(s)
  PROVE  ConsoleInv'
  <1> DEFINE u == UserOf[s]
  <1>0. /\ u \in Users /\ role[u] \in Roles
        /\ rate \in [Users -> 0 .. PerMinute + 1] /\ window \in [Users -> BOOLEAN]
        /\ PerMinute \in Nat
      BY PairTyped, ConsoleAssumption
         DEF ConsoleInv, ConsoleTypeOK, AccountsInv, AccountsTypeOK
  <1>1. CASE Ask(s)
      <2>1. rate' \in [Users -> 0 .. PerMinute + 1] /\ window' \in [Users -> BOOLEAN]
          BY <1>0, <1>1 DEF Ask
      <2>2. account[u] # "none" /\ World /\ UNCHANGED <<age, began, slot, slotAge>>
          BY <1>1 DEF Ask, Active
      <2>3. PICK p \in Phases \ (Live \cup {"none"}) : Goto(s, p)
          BY <1>1 DEF Ask, Phases, Live
      <2>4. \E r \in Roles : grant' = [grant EXCEPT ![s] = [role |-> r, epoch |-> epoch[u]]]
          BY <1>0, <1>1 DEF Ask
      <2> QED BY <2>1, <2>2, <2>3, <2>4, PhaseInv
  <1>2. CASE AskDies(s)
      <2>1. rate' \in [Users -> 0 .. PerMinute + 1] /\ window' \in [Users -> BOOLEAN]
          BY <1>0, <1>2 DEF AskDies
      <2>2. /\ account[u] # "none" /\ World /\ UNCHANGED <<age, began, slot, slotAge>>
            /\ grant' = grant /\ Goto(s, "closed")
          BY <1>2 DEF AskDies, Active
      <2>3. "closed" \in Phases \ (Live \cup {"none"})
          BY DEF Phases, Live
      <2> QED BY <2>1, <2>2, <2>3, PhaseInv
  <1>3. CASE Grant(s) \/ Consume(s) \/ GiveUp(s)
      <2>1. rate' \in [Users -> 0 .. PerMinute + 1] /\ window' \in [Users -> BOOLEAN]
          BY <1>0, <1>3 DEF Grant, Consume, GiveUp
      <2>2. World /\ UNCHANGED <<age, began, slot, slotAge>> /\ grant' = grant
          BY <1>3 DEF Grant, Consume, GiveUp
      <2>3. account[u] # "none"
          BY <1>3 DEF Grant, Consume, GiveUp, ConsoleInv, GrantFits
      <2>4. PICK p \in Phases \ (Live \cup {"none"}) : Goto(s, p)
          BY <1>3 DEF Grant, Consume, GiveUp, Phases, Live
      <2> QED BY <2>1, <2>2, <2>3, <2>4, PhaseInv
  <1> QED BY <1>1, <1>2, <1>3 DEF Request

LEMMA AcquireInv ==
  ASSUME ConsoleInv, NEW s \in Sessions, Acquire(s)
  PROVE  ConsoleInv'
  <1>0. Pair(s) \in Pairs /\ Lifetime \in Nat \ {0} /\ Setup \in Nat
      BY PairTyped, ConsoleAssumption
  <1>1. /\ slot'[Pair(s)] = s /\ slotAge'[Pair(s)] = 0 /\ age'[s] = 0 /\ phase'[s] = "held"
        /\ \A p \in Pairs \ {Pair(s)} : slot'[p] = slot[p] /\ slotAge'[p] = slotAge[p]
        /\ \A t \in Sessions \ {s} : /\ phase'[t] = phase[t] /\ grant'[t] = grant[t]
                                     /\ age'[t] = age[t] /\ began'[t] = began[t]
        /\ slot[Pair(s)] = NoSession /\ World
      BY <1>0 DEF Acquire, Goto, ConsoleInv, ConsoleTypeOK
  <1>2. ConsoleTypeOK'
      BY <1>0 DEF Acquire, Goto, World, ConsoleInv, ConsoleTypeOK, Phases, Live
  <1>3. SlotsNamed'
      BY <1>1 DEF ConsoleInv, SlotsNamed, Pair
  <1>4. SlotAsOld(s)' /\ TimesFit(s)'
      BY <1>0, <1>1 DEF SlotAsOld, TimesFit, Pair
  <1>5. GrantFits(s)'
      BY <1>1 DEF Acquire, ConsoleInv, GrantFits, World, vars
  <1> QED BY <1>1, <1>2, <1>3, <1>4, <1>5, SessionInv

LEMMA LoadOpenInv ==
  ASSUME ConsoleInv, NEW s \in Sessions, Load(s) \/ Open(s)
  PROVE  ConsoleInv'
  <1>0. /\ Pair(s) \in Pairs /\ Lifetime \in Nat \ {0} /\ Setup \in Nat
        /\ SlotAsOld(s) /\ TimesFit(s) /\ GrantFits(s) /\ age[s] \in Nat
      BY PairTyped, ConsoleAssumption DEF ConsoleInv, ConsoleTypeOK
  <1>1. phase[s] \in {"held", "loaded"} /\ age[s] \in 0 .. Setup
      BY <1>0 DEF Load, Open, TimesFit
  <1>2. /\ phase'[s] \in {"loaded", "relay"}
        /\ phase'[s] = "relay" => began'[s] = age[s]
        /\ \A t \in Sessions \ {s} : phase'[t] = phase[t] /\ began'[t] = began[t]
        /\ UNCHANGED <<grant, age, slot, slotAge>> /\ World
      BY DEF Load, Open, Goto, ConsoleInv, ConsoleTypeOK
  <1>3. ConsoleTypeOK'
      BY <1>1 DEF Load, Open, Goto, World, ConsoleInv, ConsoleTypeOK, Phases, Live
  <1>4. SlotsNamed'
      BY <1>2 DEF ConsoleInv, SlotsNamed, Pair
  <1>5. SlotAsOld(s)'
      BY <1>0, <1>1, <1>2 DEF SlotAsOld, Pair, Live
  <1>6. TimesFit(s)'
      BY <1>0, <1>1, <1>2 DEF TimesFit
  <1>7. GrantFits(s)'
      BY <1>0, <1>1, <1>2 DEF GrantFits, World, vars
  <1> QED BY <1>2, <1>3, <1>4, <1>5, <1>6, <1>7, SessionInv

LEMMA CloseInv ==
  ASSUME ConsoleInv, NEW s \in Sessions, NEW released \in BOOLEAN, Close(s, released)
  PROVE  ConsoleInv'
  <1>0. Pair(s) \in Pairs
      BY PairTyped
  <1>1. /\ phase'[s] = "closed" /\ \A t \in Sessions \ {s} : phase'[t] = phase[t]
        /\ UNCHANGED <<grant, age, began, slotAge>> /\ World
      BY DEF Close, Goto, ConsoleInv, ConsoleTypeOK
  <1>2. \A p \in Pairs : slot'[p] = slot[p] \/ (slot[p] = s /\ slot'[p] = NoSession)
      BY DEF Close, Free, ConsoleInv, ConsoleTypeOK
  <1>3. ConsoleTypeOK'
      BY DEF Close, Free, Goto, World, ConsoleInv, ConsoleTypeOK, Phases
  <1>4. SlotsNamed'
      BY <1>2 DEF ConsoleInv, SlotsNamed, Pair
  <1>5. SlotAsOld(s)' /\ TimesFit(s)'
      BY <1>1 DEF SlotAsOld, TimesFit, Live
  <1>6. GrantFits(s)'
      BY <1>1 DEF Close, ConsoleInv, GrantFits, World, vars, Live
  <1> QED BY <1>1, <1>2, <1>3, <1>4, <1>5, <1>6, SessionInv
-----------------------------------------------------------------------------
(* Time and administration.                                                *)

LEMMA TickInv ==
  ASSUME ConsoleInv, Tick
  PROVE  ConsoleInv'
  <1>0. Lifetime \in Nat \ {0} /\ Setup \in Nat
      BY ConsoleAssumption
  <1>1. AccountsInv' /\ OrganizationsInv'
      BY WorldStutter DEF ConsoleInv, Tick, World
  <1>2. ASSUME NEW s \in Sessions
        PROVE  /\ age'[s] = IF phase[s] \in Live THEN age[s] + 1 ELSE age[s]
               /\ age'[s] \in 0 .. Lifetime + Setup
               /\ SlotAsOld(s)' /\ TimesFit(s)' /\ GrantFits(s)'
      <2>1. /\ age'[s] = IF phase[s] \in Live THEN age[s] + 1 ELSE age[s]
            /\ phase' = phase /\ began' = began /\ grant' = grant /\ InTime(s)
          BY DEF Tick
      <2>2. /\ age[s] \in 0 .. Lifetime + Setup /\ began[s] \in 0 .. Setup
            /\ SlotAsOld(s) /\ TimesFit(s) /\ GrantFits(s)
          BY DEF ConsoleInv, ConsoleTypeOK
      <2>3. /\ phase[s] = "relay" => age[s] < began[s] + Lifetime
            /\ phase[s] \in {"held", "loaded"} => age[s] < Setup
          BY <2>1 DEF InTime
      <2>4. age'[s] \in 0 .. Lifetime + Setup
          BY <1>0, <2>1, <2>2, <2>3 DEF Live
      <2>5. TimesFit(s)'
          BY <1>0, <2>1, <2>2, <2>3 DEF TimesFit, Live
      <2>6. SlotAsOld(s)'
          <3> SUFFICES ASSUME phase[s] \in Live
                       PROVE  \/ slot'[Pair(s)] = s /\ slotAge'[Pair(s)] = age'[s]
                              \/ age'[s] >= Lifetime
              BY <2>1 DEF SlotAsOld, Pair
          <3>1. CASE age[s] >= Lifetime
              BY <1>0, <2>1, <2>2, <3>1
          <3>2. CASE slot[Pair(s)] = s /\ slotAge[Pair(s)] = age[s]
              <4>1. slot[Pair(s)] # NoSession /\ Pair(s) \in Pairs
                  BY <3>2, PairTyped, ConsoleAssumption
              <4>2. CASE Expiring(Pair(s))
                  BY <1>0, <2>1, <3>2, <4>2 DEF Expiring
              <4>3. CASE ~Expiring(Pair(s))
                  BY <2>1, <3>2, <4>1, <4>3 DEF Tick
              <4> QED BY <4>2, <4>3
          <3> QED BY <2>2, <3>1, <3>2 DEF SlotAsOld
      <2>7. GrantFits(s)'
          BY <2>1, <2>2 DEF GrantFits, Tick, World, vars
      <2> QED BY <2>1, <2>4, <2>5, <2>6, <2>7
  <1>3. age' \in [Sessions -> 0 .. Lifetime + Setup]
      BY <1>2 DEF Tick
  <1>4. slotAge' \in [Pairs -> 0 .. Lifetime - 1]
      <2>1. ASSUME NEW p \in Pairs
            PROVE  (IF slot[p] = NoSession \/ Expiring(p) THEN 0 ELSE slotAge[p] + 1)
                     \in 0 .. Lifetime - 1
          <3>1. slotAge[p] \in 0 .. Lifetime - 1
              BY DEF ConsoleInv, ConsoleTypeOK
          <3> QED BY <1>0, <3>1 DEF Expiring
      <2> QED BY <2>1 DEF Tick
  <1>5. slot' \in [Pairs -> Sessions \cup {NoSession}]
      BY DEF Tick, ConsoleInv, ConsoleTypeOK
  <1>6. ConsoleTypeOK'
      BY <1>3, <1>4, <1>5 DEF Tick, World, ConsoleInv, ConsoleTypeOK
  <1>7. SlotsNamed'
      BY DEF Tick, ConsoleInv, SlotsNamed, Pair
  <1> QED BY <1>1, <1>2, <1>6, <1>7 DEF ConsoleInv

(* The account stays one, and its epoch grows unless it is written back. *)
Onward(u) ==
  /\ u \in setback' \/ (u \notin setback /\ epoch[u] <= epoch'[u])
  /\ account[u] # "none" => account'[u] # "none"

LEMMA NoChangeOnward ==
  ASSUME AccountsInv, UNCHANGED vars, NEW u \in Users
  PROVE  Onward(u)
  BY DEF AccountsInv, AccountsTypeOK, Onward, vars

(* No session and no slot changes. *)
LEMMA SessionsStutter ==
  ASSUME ConsoleInv, AccountsInv', OrganizationsInv', changes' \in 0 .. MaxChanges,
         UNCHANGED <<phase, grant, age, began, slot, slotAge>>,
         rate' \in [Users -> 0 .. PerMinute + 1], window' \in [Users -> BOOLEAN],
         \A u \in Users : Onward(u)
  PROVE  ConsoleInv'
  <1>1. ConsoleTypeOK' /\ SlotsNamed'
      BY DEF ConsoleInv, ConsoleTypeOK, SlotsNamed, Pair
  <1>2. ASSUME NEW s \in Sessions PROVE SlotAsOld(s)' /\ TimesFit(s)' /\ GrantFits(s)'
      <2>1. SlotAsOld(s) /\ TimesFit(s) /\ GrantFits(s)
          BY DEF ConsoleInv
      <2>2. SlotAsOld(s)' /\ TimesFit(s)'
          BY <2>1 DEF SlotAsOld, TimesFit, Pair
      <2>3. /\ UserOf[s] \in Users /\ grant[s].epoch \in Int
            /\ epoch[UserOf[s]] \in Int /\ epoch'[UserOf[s]] \in Int
          BY PairTyped DEF ConsoleInv, ConsoleTypeOK, AccountsInv, AccountsTypeOK
      <2>4. GrantFits(s)'
          BY <2>1, <2>3 DEF GrantFits, Onward
      <2> QED BY <2>2, <2>4
  <1> QED BY <1>1, <1>2 DEF ConsoleInv

LEMMA WindowEndsInv ==
  ASSUME ConsoleInv, NEW u \in Users, WindowEnds(u)
  PROVE  ConsoleInv'
  <1>1. AccountsInv' /\ OrganizationsInv' /\ changes' \in 0 .. MaxChanges
      BY WorldStutter DEF WindowEnds, World, ConsoleInv, ConsoleTypeOK
  <1>2. rate' \in [Users -> 0 .. PerMinute + 1] /\ window' \in [Users -> BOOLEAN]
      BY ConsoleAssumption DEF WindowEnds, ConsoleInv, ConsoleTypeOK
  <1>3. \A v \in Users : Onward(v)
      BY NoChangeOnward DEF WindowEnds, World, ConsoleInv
  <1> QED BY <1>1, <1>2, <1>3, SessionsStutter DEF WindowEnds

(* Steps of Accounts keep its invariant and move every user onward. *)
LEMMA AccountsMove ==
  ASSUME AccountsInv, Next
  PROVE  /\ AccountsInv'
         /\ \A v \in Users :
              /\ Onward(v)
              /\ v \notin setback' /\ epoch'[v] = epoch[v] /\ account'[v] = "active"
                   => account[v] \in {"active", "none"}
  <1>1. FamilyInv' /\ AccountsTypeOK'
      BY FamilyStep, TypeStep DEF AccountsInv
  <1>2. ClaimsBehind'
      BY <1>1, ClaimsBehindStep DEF AccountsInv
  <1>3. \A v \in Users : account[v] # "none" => account'[v] # "none"
      <2>1. ASSUME NEW u \in Users, Administer(u), NEW v \in Users, account[v] # "none"
            PROVE  account'[v] # "none"
          BY <2>1 DEF Administer, CreateUser, NewPassword, CountAdmins, UpdateUser, DeleteUser,
                     SetUser, userVars, AccountsInv, AccountsTypeOK
      <2>2. \/ \E u \in Users : Administer(u)
            \/ account' = account
          BY DEF Next, LoginReads, Session, LoginIssues, Refresh, RefreshReused, RefreshExpired,
                 TokenExpires, LogoutReads, LogoutWrites, userVars
      <2> QED BY <2>1, <2>2
  <1>4. \A v \in Users : /\ v \in setback' \/ (v \notin setback /\ epoch[v] <= epoch'[v])
                         /\ v \notin setback' /\ epoch'[v] = epoch[v] /\ account'[v] = "active"
                              => account[v] \in {"active", "none"}
      BY EpochStep DEF AccountsInv
  <1> QED BY <1>1, <1>2, <1>3, <1>4 DEF AccountsInv, Onward

(* A step of Accounts that deletes nobody leaves the organizations alone. *)
LEMMA OrganizationsStay ==
  ASSUME OrganizationsInv, UNCHANGED orgVars,
         \A u \in Users : account'[u] = "deleted" => account[u] = "deleted"
  PROVE  OrganizationsInv'
  <1>1. OrganizationsTypeOK'
      BY DEF OrganizationsInv, OrganizationsTypeOK, orgVars, lateVars
  <1>2. \A m \in joining \cup members : m[2] \in Users
      BY DEF OrganizationsInv, OrganizationsTypeOK
  <1>3. UNCHANGED <<org, members, joining, owner, assigning, lateJoins, lateAssigns>>
      BY DEF orgVars, lateVars
  <1>4. CallsOverlapped'
      BY <1>2, <1>3 DEF OrganizationsInv, CallsOverlapped
  <1>5. LeftoversOverlapped'
      BY <1>2, <1>3 DEF OrganizationsInv, LeftoversOverlapped
  <1> QED BY <1>1, <1>4, <1>5 DEF OrganizationsInv

(* The memberships of a deleted user go; those that come were noted. *)
LEMMA RemoveUserStep ==
  ASSUME AccountsTypeOK, OrganizationsInv, NEW u \in Users, RemoveUser(u)
  PROVE  OrganizationsInv'
  <1>1. /\ account' = [account EXCEPT ![u] = "deleted"]
        /\ members' = {m \in members : m[2] # u}
        /\ lateJoins' = {m \in lateJoins : m[2] # u} \cup {m \in joining : m[2] = u}
        /\ UNCHANGED <<org, joining, owner, assigning, guest, lateAssigns>>
      BY DEF RemoveUser, DeleteUser
  <1>2. OrganizationsTypeOK'
      BY <1>1 DEF OrganizationsInv, OrganizationsTypeOK
  <1>3. \A v \in Users : v # u => account'[v] = account[v]
      BY <1>1 DEF AccountsTypeOK
  <1>4. \A m \in joining \cup members : m[2] \in Users
      BY DEF OrganizationsInv, OrganizationsTypeOK
  <1>5. CallsOverlapped'
      BY <1>1, <1>3, <1>4 DEF OrganizationsInv, CallsOverlapped
  <1>6. LeftoversOverlapped'
      BY <1>1, <1>3, <1>4 DEF OrganizationsInv, LeftoversOverlapped
  <1> QED BY <1>2, <1>5, <1>6 DEF OrganizationsInv

(* What administrators do to accounts here are steps of Accounts. *)
LEMMA UsersStep ==
  ASSUME ConsoleInv, NEW u \in Users, AdministerUser(u)
  PROVE  Next /\ AccountsInv' /\ OrganizationsInv' /\ \A v \in Users : Onward(v)
  <1>1. Administer(u) /\ Next
      BY DEF AdministerUser, RemoveUser, Administer, Next
  <1>2. AccountsInv' /\ \A v \in Users : Onward(v)
      BY <1>1, AccountsMove DEF ConsoleInv
  <1>3. CASE RemoveUser(u)
      BY <1>1, <1>2, <1>3, RemoveUserStep DEF ConsoleInv, AccountsInv
  <1>4. CASE ~RemoveUser(u)
      <2>1. /\ UNCHANGED orgVars
            /\ \A v \in Users : account'[v] = "deleted" => account[v] = "deleted"
          BY <1>4 DEF AdministerUser, CreateUser, NewPassword, CountAdmins, UpdateUser, SetUser,
                     userVars, ConsoleInv, AccountsInv, AccountsTypeOK
      <2> QED BY <1>1, <1>2, <2>1, OrganizationsStay DEF ConsoleInv
  <1> QED BY <1>1, <1>2, <1>3, <1>4

(* So are logouts and the detection of reuse. *)
LEMMA SessionEndsStep ==
  ASSUME ConsoleInv, SessionEnds
  PROVE  Next /\ AccountsInv' /\ OrganizationsInv' /\ \A v \in Users : Onward(v)
  <1>1. Next
      BY DEF SessionEnds, Next, Session
  <1>2. AccountsInv' /\ \A v \in Users : Onward(v)
      BY <1>1, AccountsMove DEF ConsoleInv
  <1>3. account' = account /\ UNCHANGED orgVars
      BY DEF SessionEnds, RefreshReused, LogoutReads, LogoutWrites, userVars
  <1>4. OrganizationsInv'
      BY <1>3, OrganizationsStay DEF ConsoleInv
  <1> QED BY <1>1, <1>2, <1>4

LEMMA OrgsStep ==
  ASSUME ConsoleInv,
         (\E g \in Orgs : AdministerOrg(g)) \/ (\E w \in Workloads : AdministerWorkload(w))
  PROVE  AccountsInv' /\ OrganizationsInv' /\ UNCHANGED vars
  <1>1. UNCHANGED vars
      BY DEF AdministerOrg, AdministerWorkload, CreateOrganization, ReactivateOrganization,
             DeleteOrganization, AddMemberReads, AddMember, RemoveMember, AssignReads, Assign,
             Unassign, Observe
  <1>2. AccountsInv'
      <2>1. FamilyInv'
          BY <1>1, IdleStep DEF ConsoleInv, AccountsInv, vars
      <2> QED BY <1>1, <2>1 DEF ConsoleInv, AccountsInv, AccountsTypeOK, ClaimsBehind, vars
  <1>3. ASSUME NEW g \in Orgs, AdministerOrg(g) PROVE OrganizationsInv'
      <2> USE DEF ConsoleInv, OrganizationsInv, OrganizationsTypeOK
      <2>0. account' = account
          BY <1>1 DEF vars
      <2>1. CASE CreateOrganization(g) \/ ReactivateOrganization(g)
          <3>1. /\ org' = [org EXCEPT ![g] = "active"]
                /\ UNCHANGED <<members, joining, owner, assigning, guest, lateJoins, lateAssigns>>
              BY <2>1 DEF CreateOrganization, ReactivateOrganization, lateVars
          <3>2. \A h \in Orgs : org'[h] = "inactive" => org[h] = "inactive"
              BY <3>1
          <3>3. OrganizationsTypeOK'
              BY <3>1 DEF OrgStates
          <3>4. CallsOverlapped'
              BY <2>0, <3>1, <3>2 DEF CallsOverlapped
          <3>5. LeftoversOverlapped'
              BY <2>0, <3>1, <3>2 DEF LeftoversOverlapped
          <3> QED BY <3>3, <3>4, <3>5
      <2>2. CASE DeleteOrganization(g)
          <3>1. /\ org' = [org EXCEPT ![g] = "inactive"]
                /\ lateJoins' = {m \in lateJoins : m[1] # g} \cup {m \in joining : m[1] = g}
                /\ lateAssigns' = {a \in lateAssigns : a[2] # g} \cup {a \in assigning : a[2] = g}
                /\ UNCHANGED <<members, joining, owner, assigning, guest>>
                /\ Team(g) = {} /\ Owned(g) = {}
              BY <2>2 DEF DeleteOrganization
          <3>2. \A h \in Orgs : h # g => org'[h] = org[h]
              BY <3>1
          <3>3. \A m \in members : m[1] # g
              <4> SUFFICES ASSUME NEW m \in members, m[1] = g PROVE FALSE
                  OBVIOUS
              <4>1. m[2] \in Users /\ m = <<g, m[2]>>
                  OBVIOUS
              <4> QED BY <3>1, <4>1 DEF Team
          <3>4. \A w \in Workloads : owner[w] # g
              BY <3>1 DEF Owned
          <3>5. OrganizationsTypeOK'
              BY <3>1 DEF OrgStates
          <3>6. CallsOverlapped'
              BY <2>0, <3>1, <3>2 DEF CallsOverlapped
          <3>7. LeftoversOverlapped'
              <4>1. ASSUME NEW m \in members, org'[m[1]] = "inactive" \/ account[m[2]] = "deleted"
                    PROVE  m \in lateJoins'
                  <5>1. m[1] # g /\ m[1] \in Orgs
                      BY <3>3
                  <5>2. m \in lateJoins
                      BY <3>2, <4>1, <5>1 DEF LeftoversOverlapped
                  <5> QED BY <3>1, <5>1, <5>2
              <4>2. ASSUME NEW w \in Workloads, owner[w] # NoOrg, org'[owner[w]] = "inactive"
                    PROVE  <<w, owner[w]>> \in lateAssigns'
                  <5>1. owner[w] # g /\ owner[w] \in Orgs
                      BY <3>4, <4>2
                  <5>2. <<w, owner[w]>> \in lateAssigns
                      BY <3>2, <4>2, <5>1 DEF LeftoversOverlapped
                  <5> QED BY <3>1, <5>1, <5>2
              <4> QED BY <2>0, <3>1, <4>1, <4>2 DEF LeftoversOverlapped
          <3> QED BY <3>5, <3>6, <3>7
      <2>3. ASSUME NEW u \in Users, AddMemberReads(g, u) \/ AddMember(g, u) \/ RemoveMember(g, u)
            PROVE  OrganizationsInv'
          <3>1. UNCHANGED <<org, owner, assigning, guest, lateJoins, lateAssigns>>
              BY <2>3 DEF AddMemberReads, AddMember, RemoveMember, lateVars
          <3>2. \/ /\ joining' = joining \cup {<<g, u>>} /\ members' = members
                   /\ org[g] = "active" /\ account[u] = "active"
                \/ /\ joining' \subseteq joining
                   /\ members' \subseteq members \cup joining
              BY <2>3 DEF AddMemberReads, AddMember, RemoveMember, Active
          <3>3. OrganizationsTypeOK'
              BY <3>1, <3>2
          <3>4. CallsOverlapped'
              BY <2>0, <3>1, <3>2 DEF CallsOverlapped
          <3>5. LeftoversOverlapped'
              BY <2>0, <3>1, <3>2 DEF LeftoversOverlapped, CallsOverlapped
          <3> QED BY <3>3, <3>4, <3>5
      <2>4. ASSUME NEW w \in Workloads, AssignReads(w, g)
            PROVE  OrganizationsInv'
          <3>1. /\ UNCHANGED <<org, owner, joining, members, guest, lateJoins, lateAssigns>>
                /\ assigning' = assigning \cup {<<w, g>>} /\ org[g] = "active"
              BY <2>4 DEF AssignReads, lateVars
          <3> QED BY <2>0, <3>1 DEF CallsOverlapped, LeftoversOverlapped
      <2>5. ASSUME NEW w \in Workloads, Assign(w, g)
            PROVE  OrganizationsInv'
          <3>1. /\ UNCHANGED <<org, joining, members, guest, lateJoins, lateAssigns>>
                /\ assigning' = assigning \ {<<w, g>>} /\ <<w, g>> \in assigning
                /\ owner' = [owner EXCEPT ![w] = g]
              BY <2>5 DEF Assign, lateVars
          <3>2. OrganizationsTypeOK' /\ CallsOverlapped'
              BY <2>0, <3>1 DEF CallsOverlapped
          <3>3. org[g] = "inactive" => <<w, g>> \in lateAssigns
              BY <3>1 DEF CallsOverlapped
          <3>4. LeftoversOverlapped'
              BY <2>0, <3>1, <3>3 DEF LeftoversOverlapped
          <3> QED BY <3>2, <3>4
      <2> QED BY <1>3, <2>1, <2>2, <2>3, <2>4, <2>5 DEF AdministerOrg
  <1>4. ASSUME NEW w \in Workloads, AdministerWorkload(w) PROVE OrganizationsInv'
      <2>1. /\ UNCHANGED <<org, joining, members, assigning, lateJoins, lateAssigns>>
            /\ owner' = owner \/ owner' = [owner EXCEPT ![w] = NoOrg]
            /\ guest' \in [Workloads -> GuestStates]
            /\ account' = account
          BY <1>1, <1>4 DEF AdministerWorkload, Unassign, Observe, lateVars, vars, ConsoleInv,
                           OrganizationsInv, OrganizationsTypeOK
      <2> QED BY <2>1 DEF ConsoleInv, OrganizationsInv, OrganizationsTypeOK, CallsOverlapped,
                          LeftoversOverlapped
  <1> QED BY <1>1, <1>2, <1>3, <1>4

LEMMA AdministrationInv ==
  ASSUME ConsoleInv, Administration
  PROVE  ConsoleInv'
  <1>1. changes' \in 0 .. MaxChanges
      BY ConsoleAssumption DEF Administration, ConsoleInv, ConsoleTypeOK
  <1>2. /\ UNCHANGED <<phase, grant, age, began, slot, slotAge>>
        /\ rate' \in [Users -> 0 .. PerMinute + 1] /\ window' \in [Users -> BOOLEAN]
      BY DEF Administration, consoleVars, ConsoleInv, ConsoleTypeOK
  <1>3. AccountsInv' /\ OrganizationsInv' /\ \A v \in Users : Onward(v)
      <2>1. ASSUME UNCHANGED vars PROVE \A v \in Users : Onward(v)
          BY <2>1, NoChangeOnward DEF ConsoleInv
      <2> QED BY <2>1, UsersStep, OrgsStep DEF Administration
  <1> QED BY <1>1, <1>2, <1>3, SessionsStutter

LEMMA SessionEndsInv ==
  ASSUME ConsoleInv, SessionEnds
  PROVE  ConsoleInv'
  <1>1. /\ changes' \in 0 .. MaxChanges
        /\ UNCHANGED <<phase, grant, age, began, slot, slotAge>>
        /\ rate' \in [Users -> 0 .. PerMinute + 1] /\ window' \in [Users -> BOOLEAN]
      BY DEF SessionEnds, consoleVars, ConsoleInv, ConsoleTypeOK
  <1> QED BY <1>1, SessionEndsStep, SessionsStutter

-----------------------------------------------------------------------------
(* The invariant and what follows from it.                                 *)

LEMMA ConsoleInitInv == ConsoleInit => ConsoleInv
  <1> SUFFICES ASSUME ConsoleInit PROVE ConsoleInv
      OBVIOUS
  <1>1. AccountsTypeOK /\ ClaimsBehind
      BY EpochAssumption DEF ConsoleInit, AccountsTypeOK, ClaimsBehind, Accounts, Roles
  <1>2. FamilyInv
      <2>1. \A t \in Tokens : token[t] = NoToken \/ token[t].family = t
          BY DEF ConsoleInit
      <2>2. NoToken.status \notin Unspent
          BY DEF NoToken, Unspent
      <2>3. TokensTyped
          BY DEF ConsoleInit, TokensTyped
      <2>4. FamiliesRooted /\ ReusedFamilyIsDead
          BY <2>1 DEF ConsoleInit, FamiliesRooted, ReusedFamilyIsDead
      <2>5. OneUnspentPerFamily
          BY <2>1, <2>2 DEF OneUnspentPerFamily
      <2> QED BY <2>3, <2>4, <2>5 DEF FamilyInv
  <1>3. OrganizationsInv
      <2>1. OrganizationsTypeOK /\ CallsOverlapped
          BY DEF ConsoleInit, OrganizationsInit, OrganizationsTypeOK, OrgStates, GuestStates,
                 ActiveOrgs, CallsOverlapped
      <2>2. LeftoversOverlapped
          BY DEF ConsoleInit, OrganizationsInit, ActiveOrgs, Active, LeftoversOverlapped
      <2> QED BY <2>1, <2>2 DEF OrganizationsInv
  <1>4. ConsoleTypeOK
      BY EpochAssumption, ConsoleAssumption DEF ConsoleInit, ConsoleTypeOK, Phases, Roles
  <1>5. SlotsNamed
      BY DEF ConsoleInit, SlotsNamed
  <1>6. ASSUME NEW s \in Sessions PROVE SlotAsOld(s) /\ TimesFit(s) /\ GrantFits(s)
      BY PairTyped DEF ConsoleInit, SlotAsOld, TimesFit, GrantFits, Live
  <1> QED BY <1>1, <1>2, <1>3, <1>4, <1>5, <1>6 DEF ConsoleInv, AccountsInv

LEMMA ConsoleStepInv == ConsoleInv /\ [ConsoleNext]_allVars => ConsoleInv'
  <1> SUFFICES ASSUME ConsoleInv, [ConsoleNext]_allVars PROVE ConsoleInv'
      OBVIOUS
  <1>1. CASE ConsoleNext
      BY <1>1, RequestInv, AcquireInv, LoadOpenInv, CloseInv, WindowEndsInv, TickInv,
         SessionEndsInv, AdministrationInv DEF ConsoleNext, Connection
  <1>2. CASE UNCHANGED allVars
      <2>1. AccountsInv' /\ OrganizationsInv' /\ changes' \in 0 .. MaxChanges
          BY <1>2, WorldStutter DEF allVars, ConsoleInv, ConsoleTypeOK
      <2>2. /\ UNCHANGED <<phase, grant, age, began, slot, slotAge>>
            /\ rate' \in [Users -> 0 .. PerMinute + 1] /\ window' \in [Users -> BOOLEAN]
          BY <1>2 DEF allVars, consoleVars, ConsoleInv, ConsoleTypeOK
      <2>3. \A v \in Users : Onward(v)
          BY <1>2, NoChangeOnward DEF allVars, ConsoleInv
      <2> QED BY <2>1, <2>2, <2>3, SessionsStutter
  <1> QED BY <1>1, <1>2

(* The inductive invariant of the console. *)
THEOREM ConsoleInvariance == ConsoleSpec => []ConsoleInv
  BY ConsoleInitInv, ConsoleStepInv, PTL DEF ConsoleSpec

(* Every variable of the console keeps its type: ages stay within the      *)
(* limits that asyncio.timeout and Redis set.                              *)
THEOREM ConsoleTypes == ConsoleSpec => []ConsoleTypeOK
  <1>1. ConsoleInv => ConsoleTypeOK
      BY DEF ConsoleInv
  <1> QED BY <1>1, ConsoleInvariance, PTL

(* The slot in Redis, whose lifetime starts before the relay's, lets two   *)
(* relays of one user and workload overlap for the time of a set-up only.  *)
THEOREM OverlapsAreShort == ConsoleSpec => []OverlapIsShort
  <1>1. ASSUME ConsoleInv, NEW s \in Sessions, NEW t \in Sessions, s # t, Pair(s) = Pair(t),
               phase[s] = "relay", phase[t] = "relay"
        PROVE  Remaining(s) <= Setup \/ Remaining(t) <= Setup
      <2>1. slot[Pair(s)] # s \/ slot[Pair(t)] # t
          BY <1>1
      <2>2. ASSUME NEW x \in Sessions, phase[x] = "relay", slot[Pair(x)] # x
            PROVE  Remaining(x) <= Setup
          <3>1. age[x] \in Nat /\ began[x] \in 0 .. Setup /\ age[x] >= Lifetime
              BY <1>1, <2>2, ConsoleAssumption DEF ConsoleInv, ConsoleTypeOK, SlotAsOld, Live
          <3> QED BY <3>1, ConsoleAssumption DEF Remaining
      <2> QED BY <1>1, <2>1, <2>2
  <1>2. ConsoleInv => OverlapIsShort
      BY <1>1 DEF OverlapIsShort
  <1> QED BY <1>2, ConsoleInvariance, PTL

(* A disabled account that is enabled again has a new epoch, so that an    *)
(* old grant stays outdated and load_console_connection refuses it, for    *)
(* every user whose epoch no late logout has written back.                 *)
THEOREM OutdatedStaysOut == ConsoleSpec => OutdatedUnlessSetback
  <1>1. ConsoleInv /\ [ConsoleNext]_allVars
          => [\A s \in Sessions :
                /\ phase[s] \in {"asked", "granted", "consumed", "held"}
                /\ Outdated(s)
                /\ UserOf[s] \notin setback'
                => Outdated(s)' /\ phase'[s] # "loaded"]_allVars
      <2> SUFFICES ASSUME ConsoleInv, ConsoleNext, NEW s \in Sessions,
                          phase[s] \in {"asked", "granted", "consumed", "held"}, Outdated(s),
                          UserOf[s] \notin setback'
                   PROVE  Outdated(s)' /\ phase'[s] # "loaded"
          OBVIOUS
      <2>0. /\ UserOf[s] \in Users /\ GrantFits(s)
            /\ epoch[UserOf[s]] \in Int /\ grant[s].epoch \in Int
            /\ phase \in [Sessions -> Phases]
            /\ grant \in [Sessions -> [role : Roles, epoch : 0 .. MaxEpoch]]
          BY PairTyped DEF ConsoleInv, ConsoleTypeOK, AccountsInv, AccountsTypeOK
      <2>1. ASSUME World, grant'[s] = grant[s] PROVE Outdated(s)'
          BY <2>1 DEF World, vars, Outdated, Active
      <2>2. ASSUME NEW t \in Sessions, Request(t)
            PROVE  World /\ grant'[s] = grant[s] /\ phase'[s] # "loaded"
          BY <2>0, <2>2 DEF Request, Ask, AskDies, Grant, Consume, GiveUp, Goto
      <2>3. ASSUME NEW t \in Sessions, Connection(t)
            PROVE  World /\ grant'[s] = grant[s] /\ phase'[s] # "loaded"
          <3>1. World /\ grant'[s] = grant[s]
              BY <2>3 DEF Connection, Acquire, Load, Open, Close
          <3>2. CASE Load(t)
              BY <2>0, <3>2 DEF Load, Goto, Current, Outdated
          <3>3. CASE Acquire(t) \/ Open(t) \/ \E released \in BOOLEAN : Close(t, released)
              BY <2>0, <3>3 DEF Acquire, Open, Close, Goto
          <3> QED BY <2>3, <3>1, <3>2, <3>3 DEF Connection
      <2>4. CASE (\E u \in Users : WindowEnds(u)) \/ Tick
          BY <2>1, <2>4 DEF WindowEnds, Tick
      <2>5. ASSUME Next, AccountsInv', UNCHANGED <<phase, grant>> PROVE Outdated(s)'
          <3>1. /\ UserOf[s] \notin setback /\ epoch[UserOf[s]] <= epoch'[UserOf[s]]
                /\ epoch'[UserOf[s]] = epoch[UserOf[s]] /\ account'[UserOf[s]] = "active"
                     => account[UserOf[s]] \in {"active", "none"}
                /\ epoch'[UserOf[s]] \in Int
              BY <2>0, <2>5, AccountsMove DEF Onward, ConsoleInv, AccountsInv, AccountsTypeOK
          <3>2. account[UserOf[s]] # "none" /\ grant[s].epoch <= epoch[UserOf[s]]
              BY <2>0, <3>1 DEF GrantFits
          <3> QED BY <2>0, <2>5, <3>1, <3>2 DEF Outdated, Active
      <2>6. CASE SessionEnds
          BY <2>5, <2>6, SessionEndsStep DEF SessionEnds, consoleVars
      <2>7. CASE Administration
          <3>1. phase' = phase /\ grant' = grant
              BY <2>7 DEF Administration, consoleVars
          <3>2. CASE \E u \in Users : AdministerUser(u)
              BY <2>5, <3>1, <3>2, UsersStep
          <3>3. CASE (\E g \in Orgs : AdministerOrg(g))
                       \/ (\E w \in Workloads : AdministerWorkload(w))
              BY <3>1, <3>3, OrgsStep DEF Outdated, Active, vars
          <3> QED BY <2>7, <3>1, <3>2, <3>3 DEF Administration
      <2> QED BY <2>1, <2>2, <2>3, <2>4, <2>6, <2>7 DEF ConsoleNext
  <1> QED BY <1>1, ConsoleInvariance, PTL DEF ConsoleSpec, OutdatedUnlessSetback

(* add_member, assign and the two deletions, however they overlap, leave   *)
(* with a deleted organization or user only what a call under way at the   *)
(* time brought in.                                                        *)
THEOREM LeftoversAreLate == ConsoleSpec => []LeftoversOverlapped
  <1>1. ConsoleInv => LeftoversOverlapped
      BY DEF ConsoleInv, OrganizationsInv
  <1> QED BY <1>1, ConsoleInvariance, PTL
=============================================================================
