----------------------------- MODULE FirstFree -----------------------------
(***************************************************************************)
(* The choice of the next free address of a pool (_automatic_candidate and *)
(* _first_free_offset of services/ipam.py) and the number of addresses     *)
(* left (_available_address_count of services/observability.py).           *)
(*                                                                         *)
(* A pool has the offsets 0 .. size - 1; next_offset is where the search   *)
(* starts; blocked ranges are the exclusions, the materialized addresses,  *)
(* the network address, the broadcast address and the gateway.  The search *)
(* merges the ranges and scans them in two passes; the count merges them   *)
(* and adds them up.  A turn of each loop is a step.                       *)
(*                                                                         *)
(* Whoever takes an address holds the pool row until it has one, so that   *)
(* one search is under way at a time.  approve_release does not take that  *)
(* lock: an address may come back at any moment.  Nor do release and       *)
(* approve_release of an address that is AVAILABLE already, which lock its *)
(* row and then change nothing: at any moment any such row may be locked,  *)
(* and the search, which reads with skip_locked, passes over it.  The      *)
(* count takes no lock and reads once; what is taken after that does not   *)
(* reach it.                                                               *)
(***************************************************************************)
EXTENDS Integers, Sequences, FiniteSets

CONSTANTS
  MaxSize,      \* bound on num_addresses
  MaxBlocked    \* bound on the number of excluded ranges

ASSUME SizeAssumption == MaxSize \in Nat \ {0} /\ MaxBlocked \in Nat

VARIABLES
  size,       \* num_addresses of the network
  v4,         \* ip_family = 4
  gateway,    \* offset of the gateway, or None
  excluded,   \* ip_pool_exclusions, as offsets
  taken,      \* offsets of the RESERVED, ASSIGNED and QUARANTINED rows
  disabled,   \* offsets of the DISABLED rows
  available,  \* offsets of the AVAILABLE rows
  next,       \* ip_pools.next_offset
  pc,         \* where the search or the count is
  goal,       \* which of the two it is
  rest,       \* blocked ranges not merged yet
  merged,     \* merged ranges
  pass,       \* of the search, first or second
  at,         \* the merged range that is next
  cursor,     \* of the search
  total,      \* blocked_count of the count
  since,      \* history: offsets that came back since the search or count began
  skipped     \* history: AVAILABLE rows that were locked when it began

poolVars == <<size, v4, gateway, excluded>>
rowVars  == <<taken, disabled, available, next>>
loopVars == <<pc, goal, rest, merged, pass, at, cursor, total>>
vars     == <<size, v4, gateway, excluded, taken, disabled, available, next,
              pc, goal, rest, merged, pass, at, cursor, total, since, skipped>>

None    == -1
Stages  == {"idle", "read", "merge", "scan", "over", "found", "sum"}
Offsets == 0 .. size - 1

Larger(a, b)  == IF a < b THEN b ELSE a
Smaller(a, b) == IF a < b THEN a ELSE b

Ranges(n)       == {i \in (0 .. n - 1) \X (0 .. n - 1) : i[1] <= i[2]}
Singles(values) == {<<v, v>> : v \in values}
Within(v, i)    == i[1] <= v /\ v <= i[2]
Covered(ranges) == {v \in Offsets : \E i \in ranges : Within(v, i)}

(* What a pool blocks by itself; only IPv4 has a broadcast address. *)
Special ==
  {<<0, 0>>}
  \cup (IF v4 THEN {<<size - 1, size - 1>>} ELSE {})
  \cup (IF gateway = None THEN {} ELSE {<<gateway, gateway>>})

Unavailable == taken \cup disabled
Kept        == excluded \cup Special

(* Offsets that are not kept and have no row. *)
Free == Offsets \ (Covered(Kept) \cup Unavailable \cup available)

FirstFreeTypeOK ==
  /\ size \in 1 .. MaxSize
  /\ v4 \in BOOLEAN
  /\ gateway \in {None} \cup Offsets
  /\ excluded \subseteq Ranges(size)
  /\ taken \subseteq Offsets /\ disabled \subseteq Offsets /\ available \subseteq Offsets
  /\ next \in Offsets
  /\ pc \in Stages
  /\ goal \in {"take", "count"}
  /\ rest \subseteq Ranges(size)
  /\ merged \in Seq(Ranges(size))
  /\ pass \in {1, 2}
  /\ at \in Nat \ {0} /\ cursor \in Nat /\ total \in Nat
  /\ since \subseteq Offsets /\ skipped \subseteq Offsets

Init ==
  /\ size \in 1 .. MaxSize
  /\ v4 \in BOOLEAN
  /\ gateway \in {None} \cup Offsets
  /\ excluded \in {x \in SUBSET Ranges(size) : Cardinality(x) <= MaxBlocked}
  /\ taken = {} /\ disabled = {} /\ available = {}
  /\ next = 0
  /\ pc = "idle" /\ goal = "take" /\ rest = {} /\ merged = <<>>
  /\ pass = 1 /\ at = 1 /\ cursor = 0 /\ total = 0
  /\ since = {} /\ skipped = {}

-----------------------------------------------------------------------------
(* Merging.                                                                *)

(* The function returns. *)
Return ==
  /\ pc' = "idle" /\ rest' = {} /\ merged' = <<>>
  /\ pass' = 1 /\ at' = 1 /\ cursor' = 0 /\ total' = 0
  /\ goal' = "take" /\ since' = {} /\ skipped' = {}

(* sorted(blocked): by low, then by high. *)
Before(i, j) == i[1] < j[1] \/ (i[1] = j[1] /\ i[2] < j[2])

Clip(i) == <<Larger(0, i[1]), Smaller(size - 1, i[2])>>

(* A range joins the last one if it overlaps or touches it. *)
JoinRange(i) ==
  LET last == merged[Len(merged)] IN
  merged' = IF merged # <<>> /\ i[1] <= last[2] + 1
            THEN [merged EXCEPT ![Len(merged)] = <<last[1], Larger(last[2], i[2])>>]
            ELSE Append(merged, i)

BeginMerge(ranges) ==
  /\ rest' = ranges
  /\ merged' = <<>>
  /\ pc' = "merge"

(* A turn of the loop; a range outside the pool is left out. *)
MergeNext ==
  /\ pc = "merge"
  /\ \E i \in rest :
       /\ \A j \in rest : ~Before(j, i)
       /\ rest' = rest \ {i}
       /\ IF i[2] < 0 \/ i[1] >= size THEN UNCHANGED merged ELSE JoinRange(Clip(i))
  /\ UNCHANGED <<poolVars, rowVars, pc, goal, pass, at, cursor, total, since, skipped>>

(* The offsets that a pass goes through. *)
PassStart(number) == IF number = 1 THEN next ELSE 0
PassEnd(number)   == IF number = 1 THEN size - 1 ELSE next - 1

(* A pass without offsets ends before it begins. *)
BeginPass(number) ==
  /\ pass' = number
  /\ cursor' = PassStart(number)
  /\ at' = 1
  /\ pc' = IF PassStart(number) > PassEnd(number) THEN "over" ELSE "scan"

(* The merged ranges are scanned, or added up. *)
MergeEnds ==
  /\ pc = "merge"
  /\ rest = {}
  /\ IF goal = "take"
     THEN BeginPass(1) /\ UNCHANGED total
     ELSE /\ pc' = "sum" /\ at' = 1 /\ total' = 0
          /\ UNCHANGED <<pass, cursor>>
  /\ UNCHANGED <<poolVars, rowVars, goal, rest, merged, since, skipped>>

-----------------------------------------------------------------------------
(* _automatic_candidate.                                                   *)

(* The lowest AVAILABLE row that is not locked. *)
TakeAvailable ==
  /\ pc = "idle"
  /\ \E locked \in SUBSET available : \E v \in available \ locked :
       /\ \A u \in available \ locked : v <= u
       /\ taken' = taken \cup {v}
       /\ available' = available \ {v}
  /\ UNCHANGED <<poolVars, disabled, next, loopVars, since, skipped>>

(* There is none: no AVAILABLE row, or every one is locked.  An address    *)
(* may come back before the rows are read.                                 *)
BeginSearch ==
  /\ pc = "idle"
  /\ pc' = "read"
  /\ goal' = "take"
  /\ since' = {}
  /\ skipped' = available
  /\ UNCHANGED <<poolVars, rowVars, rest, merged, pass, at, cursor, total>>

ReadRows ==
  /\ pc = "read"
  /\ BeginMerge(Kept \cup Singles(Unavailable \cup available))
  /\ UNCHANGED <<poolVars, rowVars, goal, pass, at, cursor, total, since, skipped>>

(* Mutant: the cursor stays on the end of the range. *)
PastOnEnd(high) == Larger(cursor, high)

Past(high) == Larger(cursor, high + 1)

(* The RANDOM strategy hits a free offset, or the scan follows. *)
TakeRandom(offset) ==
  /\ pc = "read"
  /\ size > 2
  /\ offset \in Free
  /\ taken' = taken \cup {offset}
  /\ next' = (offset + 1) % size
  /\ Return
  /\ UNCHANGED <<poolVars, disabled, available>>

(* One turn of the scan: a range before the cursor is passed over, a gap   *)
(* before the range is the answer, otherwise the cursor moves past it.     *)
ScanNext ==
  LET low == merged[at][1]  high == merged[at][2] IN
  /\ pc = "scan"
  /\ at <= Len(merged)
  /\ \/ high < cursor /\ at' = at + 1 /\ UNCHANGED <<pc, cursor>>
     \/ high >= cursor /\ low > PassEnd(pass) /\ pc' = "over" /\ UNCHANGED <<at, cursor>>
     \/ /\ high >= cursor /\ low <= PassEnd(pass) /\ low > cursor
        /\ pc' = "found"
        /\ UNCHANGED <<at, cursor>>
     \/ /\ high >= cursor /\ low <= PassEnd(pass) /\ low <= cursor
        /\ cursor' = Past(high)
        /\ IF Past(high) > PassEnd(pass)
           THEN pc' = "over" /\ UNCHANGED at
           ELSE at' = at + 1 /\ UNCHANGED pc
  /\ UNCHANGED <<poolVars, rowVars, goal, rest, merged, pass, total, since, skipped>>

ScanRunsOut ==
  /\ pc = "scan"
  /\ at > Len(merged)
  /\ pc' = "over"
  /\ UNCHANGED <<poolVars, rowVars, goal, rest, merged, pass, at, cursor, total, since, skipped>>

(* Mutant: the search does not go back to the beginning of the pool. *)
PassEndsOnce ==
  /\ pc = "over"
  /\ \/ cursor <= PassEnd(pass) /\ pc' = "found" /\ UNCHANGED <<pass, at, cursor>>
     \/ /\ cursor > PassEnd(pass) /\ pass = 1
        /\ pass' = 2
        /\ UNCHANGED <<pc, at, cursor>>
  /\ UNCHANGED <<poolVars, rowVars, goal, rest, merged, total, since, skipped>>

(* After the last turn: what is left of the pass is free, or the second    *)
(* pass begins.                                                            *)
PassEnds ==
  /\ pc = "over"
  /\ \/ cursor <= PassEnd(pass) /\ pc' = "found" /\ UNCHANGED <<pass, at, cursor>>
     \/ cursor > PassEnd(pass) /\ pass = 1 /\ BeginPass(2)
  /\ UNCHANGED <<poolVars, rowVars, goal, rest, merged, total, since, skipped>>

(* The offset becomes a row, which is taken in the same transaction. *)
TakeFound ==
  /\ pc = "found"
  /\ taken' = taken \cup {cursor}
  /\ next' = (cursor + 1) % size
  /\ Return
  /\ UNCHANGED <<poolVars, disabled, available>>

(* IP_POOL_EXHAUSTED. *)
Exhausted == pc = "over" /\ pass = 2 /\ cursor > PassEnd(pass)

Refuse ==
  /\ Exhausted
  /\ Return
  /\ UNCHANGED <<poolVars, rowVars>>

-----------------------------------------------------------------------------
(* _available_address_count.                                               *)

(* Mutant: what a pool keeps by itself is left out. *)
BeginCountWithoutSpecial ==
  /\ pc = "idle"
  /\ goal' = "count"
  /\ since' = {} /\ skipped' = {}
  /\ BeginMerge(excluded \cup Singles(Unavailable))
  /\ UNCHANGED <<poolVars, rowVars, pass, at, cursor, total>>

BeginCount ==
  /\ pc = "idle"
  /\ goal' = "count"
  /\ since' = {} /\ skipped' = {}
  /\ BeginMerge(Kept \cup Singles(Unavailable))
  /\ UNCHANGED <<poolVars, rowVars, pass, at, cursor, total>>

SumNext ==
  /\ pc = "sum"
  /\ at <= Len(merged)
  /\ total' = total + (merged[at][2] - merged[at][1] + 1)
  /\ at' = at + 1
  /\ UNCHANGED <<poolVars, rowVars, pc, goal, rest, merged, pass, cursor, since, skipped>>

Counted      == pc = "sum" /\ at > Len(merged)
AddressCount == Larger(0, size - total)

CountEnds ==
  /\ Counted
  /\ Return
  /\ UNCHANGED <<poolVars, rowVars>>

-----------------------------------------------------------------------------
(* The other operations on addresses.                                      *)

(* allocate: an administrator names an address that is not kept. *)
TakeNamed(offset) ==
  /\ pc = "idle"
  /\ offset \in Offsets
  /\ offset \notin Covered(Kept) \cup Unavailable
  /\ taken' = taken \cup {offset}
  /\ available' = available \ {offset}
  /\ UNCHANGED <<poolVars, disabled, next, loopVars, since, skipped>>

(* reserve_address: an excluded range is no obstacle. *)
Disable(offset) ==
  /\ pc = "idle"
  /\ offset \in Offsets
  /\ offset \notin Covered(Special) \cup Unavailable
  /\ disabled' = disabled \cup {offset}
  /\ available' = available \ {offset}
  /\ UNCHANGED <<poolVars, taken, next, loopVars, since, skipped>>

(* The way of a taken address back to AVAILABLE. *)
GiveBack(offset) ==
  /\ offset \in taken
  /\ taken' = taken \ {offset}
  /\ available' = available \cup {offset}
  /\ since' = IF pc = "idle" THEN since ELSE since \cup {offset}
  /\ UNCHANGED <<poolVars, disabled, next, loopVars, skipped>>

Search == TakeAvailable \/ BeginSearch \/ ReadRows \/ ScanNext \/ ScanRunsOut \/ PassEnds
            \/ TakeFound \/ Refuse

Count == BeginCount \/ SumNext \/ CountEnds

Next ==
  \/ Search
  \/ Count
  \/ MergeNext \/ MergeEnds
  \/ \E offset \in 0 .. MaxSize - 1 :
       TakeRandom(offset) \/ TakeNamed(offset) \/ Disable(offset) \/ GiveBack(offset)

Spec == Init /\ [][Next]_vars

-----------------------------------------------------------------------------
(* Properties.                                                             *)

(* Around the end of the pool, from next_offset on. *)
Distance(v) == (v - next) % size

(* The merged and clipped scan finds what a search of every offset from    *)
(* next_offset on, around the end of the pool, would find.                 *)
ScanFindsFirst ==
  pc = "found" => cursor \in Free /\ \A v \in Free : Distance(cursor) <= Distance(v)

(* IP_POOL_EXHAUSTED is answered only when no offset is left without a     *)
(* row: none is lost to the moving start of the search or to the merging.  *)
(* An AVAILABLE row that is left was locked by another request when the    *)
(* search began, or came back after that.                                  *)
ExhaustedOnlyWhenFull == Exhausted => Free = {} /\ available \subseteq since \cup skipped

(* The count behind the IP_POOL_LOW alert is the number of addresses the   *)
(* allocator could still hand out when the rows were read.                 *)
CountIsHonest == Counted => AddressCount = Cardinality(Free \cup (available \ since))
=============================================================================
