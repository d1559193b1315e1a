-------------------------- MODULE FirstFreeProofs --------------------------
(***************************************************************************)
(* The search and the count of FirstFree are right for pools of every      *)
(* size, with every set of excluded ranges and after every history.        *)
(*                                                                         *)
(* The proof is the one of two loops.  Merging: the merged ranges lie in   *)
(* order with gaps between them, and together with those not merged yet    *)
(* they cover what was blocked when the rows were read.  Scanning: every   *)
(* offset of the pass before the cursor is covered, and the ranges passed  *)
(* over end before it.                                                     *)
(***************************************************************************)
EXTENDS FirstFree, FiniteSetTheorems, TLAPS

Busy     == pc # "idle"
Scanning == pc \in {"scan", "over", "found"}

(* What was blocked when the rows were read: an address that came back     *)
(* since then was taken.                                                   *)
Blocked ==
  Kept \cup Singles(IF goal = "take" THEN Unavailable \cup available
                                     ELSE Unavailable \cup since)

InMerged(v) == \E k \in 1 .. Len(merged) : Within(v, merged[k])
InRest(v)   == \E i \in rest : Within(v, i)

(* Rows are apart, and only a DISABLED one may lie in a range the pool     *)
(* keeps for itself. *)
RowsApart ==
  /\ taken \cap available = {}
  /\ disabled \cap (taken \cup available) = {}
  /\ (taken \cup available) \cap Covered(Kept) = {}
  /\ since \subseteq available
  /\ ~Busy => since = {}
  /\ Busy /\ goal = "take" => available \subseteq since \cup skipped

(* Which function the program is in. *)
GoalFits ==
  /\ pc = "read" \/ Scanning => goal = "take"
  /\ pc = "sum" => goal = "count"

MergedApart ==
  \A j, k \in 1 .. Len(merged) : j < k => merged[j][2] + 1 < merged[k][1]

RestFollows ==
  \A i \in rest : \A k \in 1 .. Len(merged) : merged[k][1] <= i[1]

CoversBlocked ==
  \A v \in Offsets : InMerged(v) \/ InRest(v) <=> v \in Covered(Blocked)

MergeInv ==
  pc \notin {"idle", "read"} =>
    /\ MergedApart
    /\ RestFollows
    /\ CoversBlocked
    /\ pc # "merge" => rest = {}

ScanInv ==
  Scanning =>
    /\ cursor \in PassStart(pass) .. size
    /\ \A v \in PassStart(pass) .. cursor - 1 : InMerged(v)
    /\ pass = 2 => \A v \in next .. size - 1 : InMerged(v)
    /\ pc = "scan" =>
         /\ at \in 1 .. Len(merged) + 1
         /\ cursor <= PassEnd(pass)
         /\ \A k \in 1 .. at - 1 : merged[k][2] < cursor
    /\ pc \in {"over", "found"} /\ cursor <= PassEnd(pass) => ~InMerged(cursor)
    /\ pc = "found" => cursor <= PassEnd(pass)

Summed == {v \in Offsets : \E k \in 1 .. at - 1 : Within(v, merged[k])}

SumInv ==
  pc = "sum" =>
    /\ at \in 1 .. Len(merged) + 1
    /\ total = Cardinality(Summed)

IInv == FirstFreeTypeOK /\ RowsApart /\ GoalFits /\ MergeInv /\ ScanInv /\ SumInv

-----------------------------------------------------------------------------
(* Operators.                                                              *)

(* A range is a pair of offsets. *)
LEMMA RangeParts ==
  ASSUME NEW n \in Int, NEW i \in Ranges(n)
  PROVE  i[1] \in Int /\ i[2] \in Int /\ 0 <= i[1] /\ i[1] <= i[2] /\ i[2] < n
  BY DEF Ranges

LEMMA RangeMade ==
  ASSUME NEW n \in Int, NEW a \in Int, NEW b \in Int, 0 <= a, a <= b, b < n
  PROVE  <<a, b>> \in Ranges(n)
  BY DEF Ranges

(* A range inside the pool is not clipped. *)
LEMMA ClipInside ==
  ASSUME NEW i \in Ranges(size), size \in Int
  PROVE  Clip(i) = i /\ i[2] >= 0 /\ i[1] < size
<1>1. i[1] \in Int /\ i[2] \in Int /\ 0 <= i[1] /\ i[1] <= i[2] /\ i[2] < size  BY RangeParts
<1>2. i = <<i[1], i[2]>>  BY DEF Ranges
<1> QED  BY <1>1, <1>2 DEF Clip, Larger, Smaller

(* A set of offsets as ranges covers these offsets. *)
LEMMA SinglesCover ==
  ASSUME NEW S, NEW R, S \subseteq Offsets, size \in Int
  PROVE  Covered(R \cup Singles(S)) = Covered(R) \cup S
<1>1. ASSUME NEW v \in Offsets  PROVE (\E i \in Singles(S) : Within(v, i)) <=> v \in S
  <2>1. v \in Int  BY DEF Offsets
  <2>2. ASSUME v \in S  PROVE \E i \in Singles(S) : Within(v, i)
    <3>1. <<v, v>> \in Singles(S)  BY <2>2 DEF Singles
    <3>2. Within(v, <<v, v>>)  BY <2>1 DEF Within
    <3> QED  BY <3>1, <3>2
  <2>3. ASSUME NEW i \in Singles(S), Within(v, i)  PROVE v \in S
    <3>1. PICK u \in S : i = <<u, u>>  BY DEF Singles
    <3>2. u \in Int  BY DEF Offsets
    <3>3. u <= v /\ v <= u  BY <2>3, <3>1 DEF Within
    <3> QED  BY <2>1, <3>2, <3>3
  <2> QED  BY <2>2, <2>3
<1> QED  BY <1>1 DEF Covered

(* The remainder around the end of the pool. *)
LEMMA Around ==
  ASSUME NEW a \in Int, NEW n \in Nat \ {0}, -n <= a, a < n
  PROVE  a % n = IF a >= 0 THEN a ELSE a + n
  BY SMTT(30)

LEMMA ModInside ==
  ASSUME NEW a \in Nat, NEW n \in Nat \ {0}
  PROVE  a % n \in 0 .. n - 1
  BY SMTT(30)

(* The number of offsets of a range. *)
LEMMA IntervalSize ==
  ASSUME NEW a \in Int, NEW b \in Int, a <= b
  PROVE  IsFiniteSet(a .. b) /\ Cardinality(a .. b) = b - a + 1
<1>1. IsFiniteSet(a .. b) /\ Cardinality(a .. b) = IF a > b THEN 0 ELSE b - a + 1
  BY FS_Interval
<1>2. ~(a > b)  OBVIOUS
<1> QED  BY <1>1, <1>2

-----------------------------------------------------------------------------
(* Types.                                                                  *)

(* Joining a range keeps a sequence of ranges. *)
LEMMA JoinType ==
  ASSUME size \in Nat, merged \in Seq(Ranges(size)), NEW i \in Ranges(size), JoinRange(i)
  PROVE  merged' \in Seq(Ranges(size))
<1>0. i[1] \in Int /\ i[2] \in Int /\ 0 <= i[1] /\ i[1] <= i[2] /\ i[2] < size  BY RangeParts
<1>1. CASE merged # <<>> /\ i[1] <= merged[Len(merged)][2] + 1
  <2> DEFINE last == merged[Len(merged)]
  <2>1. Len(merged) \in 1 .. Len(merged)  BY <1>1
  <2>2. last \in Ranges(size)  BY <2>1
  <2>3. last[1] \in Int /\ last[2] \in Int /\ 0 <= last[1] /\ last[1] <= last[2] /\ last[2] < size
    BY <2>2, RangeParts
  <2>4. Larger(last[2], i[2]) \in Int /\ last[1] <= Larger(last[2], i[2]) /\ Larger(last[2], i[2]) < size
    BY <1>0, <2>3 DEF Larger
  <2>5. <<last[1], Larger(last[2], i[2])>> \in Ranges(size)  BY <2>3, <2>4, RangeMade
  <2>6. merged' = [merged EXCEPT ![Len(merged)] = <<last[1], Larger(last[2], i[2])>>]
    BY <1>1 DEF JoinRange
  <2> HIDE DEF last
  <2> QED  BY <2>1, <2>5, <2>6
<1>2. CASE ~(merged # <<>> /\ i[1] <= merged[Len(merged)][2] + 1)
  BY <1>2 DEF JoinRange
<1> QED  BY <1>1, <1>2

(* What is blocked are ranges of the pool. *)
LEMMA BlockedRanges ==
  ASSUME FirstFreeTypeOK, NEW S, S \subseteq Offsets
  PROVE  Kept \cup Singles(S) \subseteq Ranges(size)
<1>1. size \in Nat /\ size >= 1  BY SizeAssumption DEF FirstFreeTypeOK
<1>2. \A v \in Offsets : <<v, v>> \in Ranges(size)  BY <1>1, RangeMade DEF Offsets
<1>3. 0 \in Offsets /\ size - 1 \in Offsets  BY <1>1 DEF Offsets
<1>4. Special \subseteq Ranges(size)  BY <1>2, <1>3 DEF Special, FirstFreeTypeOK
<1>5. Singles(S) \subseteq Ranges(size)  BY <1>2 DEF Singles
<1> QED  BY <1>4, <1>5 DEF Kept, FirstFreeTypeOK

LEMMA TypesInit == Init => FirstFreeTypeOK
<1> SUFFICES ASSUME Init PROVE FirstFreeTypeOK  OBVIOUS
<1>1. size \in Nat /\ size >= 1  BY SizeAssumption DEF Init
<1>2. excluded \subseteq Ranges(size)  BY DEF Init
<1>3. next \in Offsets  BY <1>1 DEF Init, Offsets
<1> QED  BY <1>2, <1>3 DEF Init, FirstFreeTypeOK, Stages

(* That the offset found is one of the pool is a matter of the scan. *)
LEMMA TypesStep == FirstFreeTypeOK /\ ScanInv /\ [Next]_vars => FirstFreeTypeOK'
<1> SUFFICES ASSUME FirstFreeTypeOK, ScanInv, [Next]_vars PROVE FirstFreeTypeOK'  OBVIOUS
<1>0. size \in Nat /\ size >= 1 /\ next \in Nat  BY SizeAssumption DEF FirstFreeTypeOK, Offsets
<1>a. \A v \in Offsets : (v + 1) % size \in Offsets
  <2> TAKE v \in Offsets
  <2>1. v + 1 \in Nat  BY <1>0 DEF Offsets
  <2> QED  BY <2>1, <1>0, ModInside DEF Offsets
<1> USE DEF poolVars, rowVars, loopVars
<1>1. CASE UNCHANGED vars  BY <1>1 DEF vars, FirstFreeTypeOK, Offsets
<1>2. CASE MergeNext
  <2>1. PICK i \in rest : /\ rest' = rest \ {i}
                          /\ IF i[2] < 0 \/ i[1] >= size THEN UNCHANGED merged ELSE JoinRange(Clip(i))
    BY <1>2 DEF MergeNext
  <2>2. i \in Ranges(size)  BY DEF FirstFreeTypeOK
  <2>3. JoinRange(i)  BY <1>0, <2>1, <2>2, ClipInside, RangeParts
  <2>4. merged' \in Seq(Ranges(size))  BY <1>0, <2>2, <2>3, JoinType DEF FirstFreeTypeOK
  <2> QED  BY <1>2, <2>1, <2>4 DEF MergeNext, FirstFreeTypeOK, Offsets
<1>3. CASE MergeEnds
  BY <1>0, <1>3 DEF MergeEnds, BeginPass, PassStart, PassEnd, FirstFreeTypeOK, Offsets, Stages
<1>4. CASE TakeAvailable  BY <1>4 DEF TakeAvailable, FirstFreeTypeOK, Offsets
<1>5. CASE BeginSearch  BY <1>5 DEF BeginSearch, FirstFreeTypeOK, Offsets, Stages
<1>6. CASE ReadRows
  <2>1. Kept \cup Singles(Unavailable \cup available) \subseteq Ranges(size)
    BY BlockedRanges DEF FirstFreeTypeOK, Unavailable
  <2>2. merged' \in Seq(Ranges(size))  BY <1>6 DEF ReadRows, BeginMerge
  <2>3. rest' \subseteq Ranges(size)  BY <1>6, <2>1 DEF ReadRows, BeginMerge
  <2>4. pc' \in Stages  BY <1>6 DEF ReadRows, BeginMerge, Stages
  <2> QED  BY <1>6, <2>2, <2>3, <2>4 DEF ReadRows, FirstFreeTypeOK, Offsets
<1>7. CASE ScanNext
  <2>1. at \in 1 .. Len(merged) => merged[at][2] \in Int
    BY <1>0, RangeParts DEF FirstFreeTypeOK
  <2>2. at \in 1 .. Len(merged)  BY <1>7 DEF ScanNext, FirstFreeTypeOK
  <2>3. Past(merged[at][2]) \in Nat  BY <2>1, <2>2 DEF Past, Larger, FirstFreeTypeOK
  <2>4. cursor' \in Nat /\ at' \in Nat \ {0} /\ pc' \in Stages
    BY <1>7, <2>3 DEF ScanNext, FirstFreeTypeOK, Stages
  <2> QED  BY <1>7, <2>4 DEF ScanNext, FirstFreeTypeOK, Offsets
<1>8. CASE ScanRunsOut  BY <1>8 DEF ScanRunsOut, FirstFreeTypeOK, Offsets, Stages
<1>9. CASE PassEnds
  BY <1>0, <1>9 DEF PassEnds, BeginPass, PassStart, PassEnd, FirstFreeTypeOK, Offsets, Stages
<1>10. CASE TakeFound
  <2>1. cursor \in Offsets
    BY <1>0, <1>10 DEF TakeFound, ScanInv, Scanning, PassStart, PassEnd, FirstFreeTypeOK, Offsets
  <2> QED  BY <1>a, <1>10, <2>1 DEF TakeFound, Return, FirstFreeTypeOK, Offsets, Stages
<1>11. CASE Refuse  BY <1>11 DEF Refuse, Return, FirstFreeTypeOK, Offsets, Stages
<1>12. CASE BeginCount
  <2>1. Kept \cup Singles(Unavailable) \subseteq Ranges(size)
    BY BlockedRanges DEF FirstFreeTypeOK, Unavailable
  <2>2. merged' \in Seq(Ranges(size))  BY <1>12 DEF BeginCount, BeginMerge
  <2>3. rest' \subseteq Ranges(size)  BY <1>12, <2>1 DEF BeginCount, BeginMerge
  <2>4. pc' \in Stages  BY <1>12 DEF BeginCount, BeginMerge, Stages
  <2> QED  BY <1>12, <2>2, <2>3, <2>4 DEF BeginCount, FirstFreeTypeOK, Offsets
<1>13. CASE SumNext
  <2>1. at \in 1 .. Len(merged)  BY <1>13 DEF SumNext, FirstFreeTypeOK
  <2>2. merged[at] \in Ranges(size)  BY <2>1 DEF FirstFreeTypeOK
  <2>3. merged[at][1] \in Int /\ merged[at][2] \in Int /\ merged[at][1] <= merged[at][2]
    BY <1>0, <2>2, RangeParts
  <2>4. total' \in Nat /\ at' \in Nat \ {0}  BY <1>13, <2>3 DEF SumNext, FirstFreeTypeOK
  <2> QED  BY <1>13, <2>4 DEF SumNext, FirstFreeTypeOK, Offsets
<1>14. CASE CountEnds  BY <1>14 DEF CountEnds, Return, FirstFreeTypeOK, Offsets, Stages
<1>15. ASSUME NEW offset, TakeNamed(offset) PROVE FirstFreeTypeOK'
  BY <1>15 DEF TakeNamed, FirstFreeTypeOK, Offsets
<1>16. ASSUME NEW offset, Disable(offset) PROVE FirstFreeTypeOK'
  BY <1>16 DEF Disable, FirstFreeTypeOK, Offsets
<1>17. ASSUME NEW offset, GiveBack(offset) PROVE FirstFreeTypeOK'
  BY <1>17 DEF GiveBack, FirstFreeTypeOK, Offsets
<1>18. ASSUME NEW offset, TakeRandom(offset) PROVE FirstFreeTypeOK'
  <2>1. offset \in Offsets  BY <1>18 DEF TakeRandom, Free
  <2> QED  BY <1>a, <1>18, <2>1 DEF TakeRandom, Return, FirstFreeTypeOK, Offsets, Stages
<1> QED
  BY <1>1, <1>2, <1>3, <1>4, <1>5, <1>6, <1>7, <1>8, <1>9, <1>10, <1>11, <1>12, <1>13, <1>14,
     <1>15, <1>16, <1>17, <1>18 DEF Next, Search, Count

-----------------------------------------------------------------------------
(* What the merged ranges say about the rows.                              *)

(* While it scans, the merged ranges are what is not free. *)
LEMMA MergedIsTaken ==
  ASSUME FirstFreeTypeOK, GoalFits, MergeInv, Scanning
  PROVE  \A v \in Offsets : InMerged(v) <=> v \notin Free
<1>1. goal = "take"  BY DEF GoalFits
<1>2. CoversBlocked /\ rest = {}  BY DEF MergeInv, Scanning
<1>3. size \in Int /\ Unavailable \cup available \subseteq Offsets
  BY DEF FirstFreeTypeOK, Unavailable
<1>4. Covered(Blocked) = Covered(Kept) \cup (Unavailable \cup available)
  BY <1>1, <1>3, SinglesCover DEF Blocked
<1>5. \A v \in Offsets : InMerged(v) <=> v \in Covered(Blocked)  BY <1>2 DEF CoversBlocked, InRest
<1> QED  BY <1>4, <1>5 DEF Free

(* What the scan has found is free. *)
LEMMA FoundIsFree ==
  ASSUME IInv, pc = "found"
  PROVE  cursor \in Free
<1>1. size \in Nat /\ size >= 1 /\ next \in 0 .. size - 1
  BY SizeAssumption DEF IInv, FirstFreeTypeOK, Offsets
<1>2. cursor \in Offsets /\ ~InMerged(cursor)
  BY <1>1 DEF IInv, ScanInv, Scanning, PassStart, PassEnd, FirstFreeTypeOK, Offsets
<1> QED  BY <1>2, MergedIsTaken DEF IInv, Scanning

-----------------------------------------------------------------------------
(* Rows.                                                                   *)

LEMMA RowsStep == IInv /\ [Next]_vars => RowsApart'
<1> SUFFICES ASSUME IInv, [Next]_vars PROVE RowsApart'  OBVIOUS
<1> USE DEF poolVars, rowVars, loopVars
<1>0. RowsApart  BY DEF IInv
<1>a. UNCHANGED poolVars => Covered(Kept)' = Covered(Kept)
  BY DEF Covered, Kept, Special, Offsets
<1>1. CASE UNCHANGED vars  BY <1>0, <1>1, <1>a DEF vars, RowsApart, Busy
<1>2. CASE MergeNext  BY <1>0, <1>2, <1>a DEF MergeNext, RowsApart, Busy
<1>3. CASE MergeEnds  BY <1>0, <1>3, <1>a DEF MergeEnds, BeginPass, RowsApart, Busy
<1>4. CASE TakeAvailable  BY <1>0, <1>4, <1>a DEF TakeAvailable, RowsApart, Busy
<1>5. CASE BeginSearch  BY <1>0, <1>5, <1>a DEF BeginSearch, RowsApart, Busy
<1>6. CASE ReadRows  BY <1>0, <1>6, <1>a DEF ReadRows, BeginMerge, RowsApart, Busy
<1>7. CASE ScanNext  BY <1>0, <1>7, <1>a DEF ScanNext, RowsApart, Busy
<1>8. CASE ScanRunsOut  BY <1>0, <1>8, <1>a DEF ScanRunsOut, RowsApart, Busy
<1>9. CASE PassEnds  BY <1>0, <1>9, <1>a DEF PassEnds, BeginPass, RowsApart, Busy
<1>10. CASE TakeFound
  <2>1. cursor \in Free  BY <1>10, FoundIsFree DEF TakeFound
  <2> QED  BY <1>0, <1>10, <1>a, <2>1 DEF TakeFound, Return, RowsApart, Busy, Free, Unavailable
<1>11. CASE Refuse  BY <1>0, <1>11, <1>a DEF Refuse, Return, RowsApart, Busy
<1>12. CASE BeginCount  BY <1>0, <1>12, <1>a DEF BeginCount, RowsApart, Busy
<1>13. CASE SumNext  BY <1>0, <1>13, <1>a DEF SumNext, RowsApart, Busy
<1>14. CASE CountEnds  BY <1>0, <1>14, <1>a DEF CountEnds, Return, RowsApart, Busy
<1>15. ASSUME NEW offset, TakeNamed(offset) PROVE RowsApart'
  BY <1>0, <1>15, <1>a DEF TakeNamed, RowsApart, Busy, Unavailable
<1>16. ASSUME NEW offset, Disable(offset) PROVE RowsApart'
  BY <1>0, <1>16, <1>a DEF Disable, RowsApart, Busy, Unavailable
<1>17. ASSUME NEW offset, GiveBack(offset) PROVE RowsApart'
  BY <1>0, <1>17, <1>a DEF GiveBack, RowsApart, Busy
<1>18. ASSUME NEW offset, TakeRandom(offset) PROVE RowsApart'
  BY <1>0, <1>18, <1>a DEF TakeRandom, Return, RowsApart, Busy, Free, Unavailable
<1> QED
  BY <1>1, <1>2, <1>3, <1>4, <1>5, <1>6, <1>7, <1>8, <1>9, <1>10, <1>11, <1>12, <1>13, <1>14,
     <1>15, <1>16, <1>17, <1>18 DEF Next, Search, Count

LEMMA GoalStep == IInv /\ [Next]_vars => GoalFits'
<1> SUFFICES ASSUME IInv, [Next]_vars PROVE GoalFits'  OBVIOUS
<1> USE DEF poolVars, rowVars, loopVars
<1>0. GoalFits  BY DEF IInv
<1>1. CASE UNCHANGED vars  BY <1>0, <1>1 DEF vars, GoalFits, Scanning
<1>2. CASE Search
  BY <1>0, <1>2 DEF Search, TakeAvailable, BeginSearch, ReadRows, BeginMerge, ScanNext, ScanRunsOut,
                    PassEnds, BeginPass, TakeFound, Refuse, Return, GoalFits, Scanning
<1>3. CASE Count
  BY <1>0, <1>3 DEF Count, BeginCount, BeginMerge, SumNext, CountEnds, Return, GoalFits, Scanning
<1>4. CASE MergeNext  BY <1>0, <1>4 DEF MergeNext, GoalFits, Scanning
<1>5. CASE MergeEnds
  <2>1. goal \in {"take", "count"}  BY DEF IInv, FirstFreeTypeOK
  <2> QED  BY <1>0, <1>5, <2>1 DEF MergeEnds, BeginPass, GoalFits, Scanning
<1>6. ASSUME NEW offset,
             TakeRandom(offset) \/ TakeNamed(offset) \/ Disable(offset) \/ GiveBack(offset)
      PROVE  GoalFits'
  BY <1>0, <1>6 DEF TakeRandom, Return, TakeNamed, Disable, GiveBack, GoalFits, Scanning
<1> QED  BY <1>1, <1>2, <1>3, <1>4, <1>5, <1>6 DEF Next

-----------------------------------------------------------------------------
(* Merging.                                                                *)

LEMMA MergedParts ==
  ASSUME size \in Nat, merged \in Seq(Ranges(size)), NEW k \in 1 .. Len(merged)
  PROVE  /\ merged[k][1] \in Int /\ merged[k][2] \in Int
         /\ 0 <= merged[k][1] /\ merged[k][1] <= merged[k][2] /\ merged[k][2] < size
<1>1. merged[k] \in Ranges(size)  OBVIOUS
<1> QED  BY <1>1, RangeParts

(* A range that starts after the merged ones start is added to what they   *)
(* cover, and they stay apart. *)
LEMMA JoinEffect ==
  ASSUME size \in Nat, merged \in Seq(Ranges(size)), MergedApart,
         NEW i \in Ranges(size), JoinRange(i),
         \A k \in 1 .. Len(merged) : merged[k][1] <= i[1]
  PROVE  /\ MergedApart'
         /\ \A k \in 1 .. Len(merged') : merged'[k][1] <= i[1]
         /\ \A v \in Int : InMerged(v)' <=> InMerged(v) \/ Within(v, i)
<1> DEFINE n == Len(merged)
<1>0. i[1] \in Int /\ i[2] \in Int /\ 0 <= i[1] /\ i[1] <= i[2] /\ i[2] < size  BY RangeParts
<1>1. n \in Nat  OBVIOUS
<1>2. \A k \in 1 .. n : /\ merged[k][1] \in Int /\ merged[k][2] \in Int
                        /\ merged[k][1] <= merged[k][2]
  BY MergedParts
<1>3. CASE merged # <<>> /\ i[1] <= merged[n][2] + 1
  <2> DEFINE high == Larger(merged[n][2], i[2])
  <2>1. n \in 1 .. n  BY <1>3
  <2>2. merged' = [merged EXCEPT ![n] = <<merged[n][1], high>>]  BY <1>3 DEF JoinRange
  <2>3. Len(merged') = n /\ \A k \in 1 .. n : k # n => merged'[k] = merged[k]  BY <2>2
  <2>4. merged'[n] = <<merged[n][1], high>>  BY <2>1, <2>2
  <2>5. high \in Int /\ high >= merged[n][2] /\ high >= i[2] /\ (high = merged[n][2] \/ high = i[2])
    BY <1>0, <1>2, <2>1 DEF Larger
  <2>6. merged[n][1] <= i[1]  BY <2>1
  <2>7. merged'[n][1] = merged[n][1] /\ merged'[n][2] = high  BY <2>4
  <2> HIDE DEF high, n
  <2>8. MergedApart'
    <3> SUFFICES ASSUME NEW j \in 1 .. n, NEW k \in 1 .. n, j < k
                 PROVE  merged'[j][2] + 1 < merged'[k][1]
      BY <2>3 DEF MergedApart
    <3>1. j # n /\ merged'[j] = merged[j]  BY <1>1, <2>3
    <3>2. merged[j][2] + 1 < merged[k][1]  BY DEF MergedApart, n
    <3>3. merged'[k][1] = merged[k][1]  BY <2>3, <2>7
    <3> QED  BY <3>1, <3>2, <3>3
  <2>9. \A k \in 1 .. n : merged'[k][1] <= i[1]  BY <2>3, <2>6, <2>7 DEF n
  <2>10. ASSUME NEW v \in Int  PROVE InMerged(v)' <=> InMerged(v) \/ Within(v, i)
    <3>1. Within(v, merged'[n]) <=> Within(v, merged[n]) \/ Within(v, i)
      BY <1>0, <1>2, <1>3, <2>1, <2>5, <2>6, <2>7 DEF Within
    <3>2. \A k \in 1 .. n : k # n => (Within(v, merged'[k]) <=> Within(v, merged[k]))  BY <2>3
    <3>3. InMerged(v)' <=> \E k \in 1 .. n : Within(v, merged'[k])  BY <2>3 DEF InMerged, Within
    <3>4. InMerged(v) <=> \E k \in 1 .. n : Within(v, merged[k])  BY DEF InMerged, n
    <3> QED  BY <2>1, <3>1, <3>2, <3>3, <3>4
  <2> QED  BY <2>3, <2>8, <2>9, <2>10
<1>4. CASE ~(merged # <<>> /\ i[1] <= merged[n][2] + 1)
  <2>1. merged' = Append(merged, i)  BY <1>4 DEF JoinRange
  <2>2. Len(merged') = n + 1 /\ merged'[n + 1] = i /\ \A k \in 1 .. n : merged'[k] = merged[k]
    BY <2>1
  <2>3. \A j \in 1 .. n : merged[j][2] + 1 < i[1]
    <3> TAKE j \in 1 .. n
    <3>1. merged # <<>> /\ n \in 1 .. n  OBVIOUS
    <3>2. merged[n][2] + 1 < i[1]  BY <1>0, <1>2, <1>4, <3>1
    <3>3. j = n \/ merged[j][2] + 1 < merged[n][1]  BY <3>1 DEF MergedApart
    <3> QED  BY <1>0, <1>2, <3>1, <3>2, <3>3
  <2> HIDE DEF n
  <2>4. MergedApart'
    <3> SUFFICES ASSUME NEW j \in 1 .. n + 1, NEW k \in 1 .. n + 1, j < k
                 PROVE  merged'[j][2] + 1 < merged'[k][1]
      BY <2>2 DEF MergedApart
    <3>1. j \in 1 .. n /\ (k = n + 1 \/ k \in 1 .. n)  BY <1>1
    <3>2. k \in 1 .. n => merged[j][2] + 1 < merged[k][1]  BY <3>1 DEF MergedApart, n
    <3> QED  BY <2>2, <2>3, <3>1, <3>2
  <2>5. \A k \in 1 .. n + 1 : merged'[k][1] <= i[1]
    <3> TAKE k \in 1 .. n + 1
    <3>1. k = n + 1 \/ k \in 1 .. n  BY <1>1
    <3>2. k \in 1 .. n => merged[k][1] <= i[1]  BY DEF n
    <3> QED  BY <1>0, <2>2, <3>1, <3>2
  <2>6. ASSUME NEW v \in Int  PROVE InMerged(v)' <=> InMerged(v) \/ Within(v, i)
    <3>1. InMerged(v)' <=> \E k \in 1 .. n + 1 : Within(v, merged'[k])  BY <2>2 DEF InMerged, Within
    <3>2. InMerged(v) <=> \E k \in 1 .. n : Within(v, merged[k])  BY DEF InMerged, n
    <3>3. \A k : k \in 1 .. n + 1 <=> k \in 1 .. n \/ k = n + 1  BY <1>1
    <3> QED  BY <2>2, <3>1, <3>2, <3>3
  <2> QED  BY <2>2, <2>4, <2>5, <2>6
<1> QED  BY <1>3, <1>4

(* The ranges as they are when the rows have been read. *)
LEMMA MergeBegins ==
  ASSUME merged' = <<>>, rest' = Blocked', pc' = "merge"
  PROVE  MergeInv'
  BY DEF MergeInv, MergedApart, RestFollows, CoversBlocked, InMerged, InRest, Covered

(* A step that leaves the loop's ranges and what is blocked alone. *)
LEMMA MergeStays ==
  ASSUME MergeInv, UNCHANGED <<poolVars, rest, merged>>, Covered(Blocked)' = Covered(Blocked),
         pc \notin {"idle", "read"}, pc # "merge" \/ rest = {} \/ pc' = "merge"
  PROVE  MergeInv'
<1>1. MergedApart' /\ RestFollows'  BY DEF MergeInv, MergedApart, RestFollows
<1>2. \A v : InMerged(v)' = InMerged(v) /\ InRest(v)' = InRest(v)  BY DEF InMerged, InRest, Within
<1>3. Offsets' = Offsets  BY DEF poolVars, Offsets
<1>4. CoversBlocked'  BY <1>2, <1>3 DEF MergeInv, CoversBlocked
<1> QED  BY <1>1, <1>4 DEF MergeInv

LEMMA MergeStep == IInv /\ [Next]_vars => MergeInv'
<1> SUFFICES ASSUME IInv, [Next]_vars PROVE MergeInv'  OBVIOUS
<1>0. MergeInv /\ FirstFreeTypeOK /\ RowsApart /\ size \in Nat
  BY DEF IInv, FirstFreeTypeOK
<1> USE DEF poolVars, rowVars, loopVars
<1>a. UNCHANGED poolVars => Offsets' = Offsets /\ Kept' = Kept  BY DEF Offsets, Kept, Special
<1>b. UNCHANGED <<poolVars, rowVars, goal, since>> => Blocked' = Blocked
  BY DEF Blocked, Kept, Special, Singles, Unavailable
<1>c. UNCHANGED poolVars /\ Blocked' = Blocked => Covered(Blocked)' = Covered(Blocked)
  BY <1>a DEF Covered, Within
<1>1. CASE UNCHANGED vars
  <2>1. Covered(Blocked)' = Covered(Blocked)  BY <1>1, <1>b, <1>c DEF vars
  <2> QED  BY <1>0, <1>1, <2>1, MergeStays DEF vars, MergeInv
<1>2. CASE MergeNext
  <2>0. MergedApart /\ RestFollows /\ CoversBlocked  BY <1>0, <1>2 DEF MergeNext, MergeInv
  <2>1. PICK i \in rest : /\ \A j \in rest : ~Before(j, i)
                          /\ rest' = rest \ {i}
                          /\ IF i[2] < 0 \/ i[1] >= size THEN UNCHANGED merged ELSE JoinRange(Clip(i))
    BY <1>2 DEF MergeNext
  <2>2. i \in Ranges(size)  BY <1>0 DEF FirstFreeTypeOK
  <2>3. JoinRange(i)  BY <1>0, <2>1, <2>2, ClipInside, RangeParts
  <2>4. \A k \in 1 .. Len(merged) : merged[k][1] <= i[1]  BY <2>0 DEF RestFollows
  <2>5. /\ MergedApart'
        /\ \A k \in 1 .. Len(merged') : merged'[k][1] <= i[1]
        /\ \A v \in Int : InMerged(v)' <=> InMerged(v) \/ Within(v, i)
    BY <1>0, <2>0, <2>2, <2>3, <2>4, JoinEffect DEF FirstFreeTypeOK
  <2>6. ASSUME NEW j \in rest  PROVE i[1] <= j[1] /\ j[1] \in Int /\ i[1] \in Int
    <3>1. j \in Ranges(size)  BY <1>0 DEF FirstFreeTypeOK
    <3>2. j[1] \in Int /\ i[1] \in Int  BY <1>0, <2>2, <3>1, RangeParts
    <3> QED  BY <2>1, <3>2 DEF Before
  <2>7. merged' \in Seq(Ranges(size))  BY <1>0, <2>2, <2>3, JoinType DEF FirstFreeTypeOK
  <2>8. \A k \in 1 .. Len(merged') : merged'[k][1] \in Int
    <3> TAKE k \in 1 .. Len(merged')
    <3>1. merged'[k] \in Ranges(size)  BY <2>7
    <3> QED  BY <1>0, <3>1, RangeParts
  <2>9. RestFollows'  BY <2>1, <2>5, <2>6, <2>8 DEF RestFollows
  <2>10. CoversBlocked'
    <3>1. Covered(Blocked)' = Covered(Blocked) /\ Offsets' = Offsets
      BY <1>2, <1>a, <1>b, <1>c DEF MergeNext
    <3>2. \A v : InRest(v) <=> InRest(v)' \/ Within(v, i)  BY <2>1 DEF InRest, Within
    <3>3. \A v \in Offsets : v \in Int  BY <1>0 DEF Offsets
    <3> QED  BY <2>0, <2>5, <3>1, <3>2, <3>3 DEF CoversBlocked
  <2> QED  BY <1>2, <2>5, <2>9, <2>10 DEF MergeNext, MergeInv
<1>3. CASE MergeEnds
  <2>1. Covered(Blocked)' = Covered(Blocked)  BY <1>3, <1>b, <1>c DEF MergeEnds
  <2> QED  BY <1>0, <1>3, <2>1, MergeStays DEF MergeEnds
<1>4. CASE TakeAvailable  BY <1>4 DEF TakeAvailable, MergeInv
<1>5. CASE BeginSearch  BY <1>5 DEF BeginSearch, MergeInv
<1>6. CASE ReadRows
  <2>1. goal = "take"  BY <1>6 DEF IInv, GoalFits, ReadRows
  <2>2. Blocked' = Blocked  BY <1>6, <1>b DEF ReadRows
  <2>3. Blocked = Kept \cup Singles(Unavailable \cup available)  BY <2>1 DEF Blocked
  <2> QED  BY <1>6, <2>2, <2>3, MergeBegins DEF ReadRows, BeginMerge
<1>7. CASE ScanNext
  <2>1. Covered(Blocked)' = Covered(Blocked)  BY <1>7, <1>b, <1>c DEF ScanNext
  <2> QED  BY <1>0, <1>7, <2>1, MergeStays DEF ScanNext
<1>8. CASE ScanRunsOut
  <2>1. Covered(Blocked)' = Covered(Blocked)  BY <1>8, <1>b, <1>c DEF ScanRunsOut
  <2> QED  BY <1>0, <1>8, <2>1, MergeStays DEF ScanRunsOut
<1>9. CASE PassEnds
  <2>1. Covered(Blocked)' = Covered(Blocked)  BY <1>9, <1>b, <1>c DEF PassEnds
  <2> QED  BY <1>0, <1>9, <2>1, MergeStays DEF PassEnds
<1>10. CASE TakeFound  BY <1>10 DEF TakeFound, Return, MergeInv
<1>11. CASE Refuse  BY <1>11 DEF Refuse, Return, MergeInv
<1>12. CASE BeginCount
  <2>1. goal' = "count" /\ since' = {} /\ Unavailable' = Unavailable /\ Kept' = Kept
    BY <1>12, <1>a DEF BeginCount, Unavailable
  <2>2. Blocked' = Kept \cup Singles(Unavailable)  BY <2>1 DEF Blocked, Singles
  <2> QED  BY <1>12, <2>2, MergeBegins DEF BeginCount, BeginMerge
<1>13. CASE SumNext
  <2>1. Covered(Blocked)' = Covered(Blocked)  BY <1>13, <1>b, <1>c DEF SumNext
  <2> QED  BY <1>0, <1>13, <2>1, MergeStays DEF SumNext
<1>14. CASE CountEnds  BY <1>14 DEF CountEnds, Return, MergeInv
<1>15. ASSUME NEW offset, TakeNamed(offset) PROVE MergeInv'
  BY <1>15 DEF TakeNamed, MergeInv
<1>16. ASSUME NEW offset, Disable(offset) PROVE MergeInv'
  BY <1>16 DEF Disable, MergeInv
<1>17. ASSUME NEW offset, GiveBack(offset) PROVE MergeInv'
  <2>1. CASE pc \in {"idle", "read"}  BY <1>17, <2>1 DEF GiveBack, MergeInv
  <2>2. CASE pc \notin {"idle", "read"}
    <3>1. /\ (Unavailable \cup available)' = Unavailable \cup available
          /\ (Unavailable \cup since)' = Unavailable \cup since
          /\ goal' = goal
      BY <1>17, <2>2 DEF GiveBack, Unavailable
    <3>2. Blocked' = Blocked
      <4>1. Kept' = Kept  BY <1>17, <1>a DEF GiveBack
      <4> QED  BY <3>1, <4>1 DEF Blocked, Singles
    <3>3. Covered(Blocked)' = Covered(Blocked)  BY <1>17, <1>c, <3>2 DEF GiveBack
    <3> QED  BY <1>0, <1>17, <2>2, <3>3, MergeStays DEF GiveBack
  <2> QED  BY <2>1, <2>2
<1>18. ASSUME NEW offset, TakeRandom(offset) PROVE MergeInv'
  BY <1>18 DEF TakeRandom, Return, MergeInv
<1> QED
  BY <1>1, <1>2, <1>3, <1>4, <1>5, <1>6, <1>7, <1>8, <1>9, <1>10, <1>11, <1>12, <1>13, <1>14,
     <1>15, <1>16, <1>17, <1>18 DEF Next, Search, Count

-----------------------------------------------------------------------------
(* Scanning.                                                               *)

(* An offset between the ranges that were passed over and the next one is  *)
(* in a gap. *)
LEMMA InGap ==
  ASSUME size \in Nat, merged \in Seq(Ranges(size)), MergedApart, NEW v \in Int,
         at \in 1 .. Len(merged) + 1,
         \A k \in 1 .. at - 1 : merged[k][2] < v,
         at <= Len(merged) => v < merged[at][1]
  PROVE  ~InMerged(v)
<1> SUFFICES ASSUME NEW k \in 1 .. Len(merged), Within(v, merged[k]) PROVE FALSE
  BY DEF InMerged
<1>1. merged[k][1] \in Int /\ merged[k][2] \in Int /\ merged[k][1] <= v /\ v <= merged[k][2]
  BY MergedParts DEF Within
<1>2. CASE k < at  BY <1>1, <1>2
<1>3. CASE k = at  BY <1>1, <1>3
<1>4. CASE k > at
  <2>1. at \in 1 .. Len(merged)  BY <1>4
  <2>2. merged[at][1] \in Int /\ merged[at][2] \in Int /\ merged[at][1] <= merged[at][2]
    BY <2>1, MergedParts
  <2>3. merged[at][2] + 1 < merged[k][1]  BY <1>4, <2>1 DEF MergedApart
  <2> QED  BY <1>1, <2>1, <2>2, <2>3
<1> QED  BY <1>2, <1>3, <1>4

LEMMA ScanStep == IInv /\ [Next]_vars => ScanInv'
<1> SUFFICES ASSUME IInv, [Next]_vars PROVE ScanInv'  OBVIOUS
<1>0. /\ ScanInv /\ MergeInv /\ FirstFreeTypeOK
      /\ size \in Nat /\ size >= 1 /\ next \in 0 .. size - 1 /\ cursor \in Nat
      /\ merged \in Seq(Ranges(size))
  BY SizeAssumption DEF IInv, FirstFreeTypeOK, Offsets
<1> USE DEF poolVars, rowVars, loopVars
<1>a. UNCHANGED merged => \A v : InMerged(v)' = InMerged(v)  BY DEF InMerged, Within
<1>1. CASE UNCHANGED vars
  <2>1. UNCHANGED <<size, next, pc, merged, pass, at, cursor>>  BY <1>1 DEF vars
  <2> QED  BY <1>0, <2>1 DEF ScanInv, Scanning, PassStart, PassEnd, InMerged, Within
<1>2. CASE MergeNext  BY <1>2 DEF MergeNext, ScanInv, Scanning
<1>3. CASE MergeEnds
  <2>1. CASE goal = "take"
    BY <1>0, <1>3, <2>1 DEF MergeEnds, BeginPass, ScanInv, Scanning, PassStart, PassEnd
  <2>2. CASE goal # "take"  BY <1>3, <2>2 DEF MergeEnds, ScanInv, Scanning
  <2> QED  BY <2>1, <2>2
<1>4. CASE TakeAvailable  BY <1>4 DEF TakeAvailable, ScanInv, Scanning
<1>5. CASE BeginSearch  BY <1>5 DEF BeginSearch, ScanInv, Scanning
<1>6. CASE ReadRows  BY <1>6 DEF ReadRows, BeginMerge, ScanInv, Scanning
<1>7. CASE ScanNext
  <2> DEFINE low == merged[at][1]
             high == merged[at][2]
             start == PassStart(pass)
             end == PassEnd(pass)
  <2>1. pc = "scan" /\ at \in 1 .. Len(merged) /\ UNCHANGED <<size, next, merged, pass>>
    BY <1>0, <1>7 DEF ScanNext, FirstFreeTypeOK
  <2>2. start \in Nat /\ end \in Int /\ end < size /\ start' = start /\ end' = end
    BY <1>0, <2>1 DEF PassStart, PassEnd
  <2>3. low \in Int /\ high \in Int /\ low <= high /\ high < size  BY <1>0, <2>1, MergedParts
  <2>4. /\ cursor \in start .. size
        /\ \A v \in start .. cursor - 1 : InMerged(v)
        /\ pass = 2 => \A v \in next .. size - 1 : InMerged(v)
        /\ cursor <= end
        /\ \A k \in 1 .. at - 1 : merged[k][2] < cursor
    BY <1>0, <2>1 DEF ScanInv, Scanning
  <2>5. MergedApart  BY <1>0, <2>1 DEF MergeInv
  <2>6. cursor < low => ~InMerged(cursor)
    BY <1>0, <2>1, <2>4, <2>5, InGap
  <2>7. Past(high) = IF high >= cursor THEN high + 1 ELSE cursor  BY <1>0, <2>3 DEF Past, Larger
  <2>8. \A v : InMerged(v)' = InMerged(v)  BY <1>a, <2>1
  <2>9. \/ high < cursor /\ at' = at + 1 /\ pc' = "scan" /\ cursor' = cursor
        \/ high >= cursor /\ low > cursor /\ pc' \in {"over", "found"} /\ cursor' = cursor
        \/ /\ high >= cursor /\ low <= cursor /\ cursor' = high + 1
           /\ IF cursor' > end THEN pc' = "over" ELSE pc' = "scan" /\ at' = at + 1
    BY <1>0, <1>7, <2>1, <2>2, <2>3, <2>4, <2>7 DEF ScanNext
  <2> HIDE DEF low, high, start, end
  <2>10. CASE high < cursor /\ at' = at + 1 /\ pc' = "scan" /\ cursor' = cursor
    <3>1. at' \in 1 .. Len(merged') + 1  BY <1>0, <2>1, <2>10
    <3>2. \A k \in 1 .. at' - 1 : merged'[k][2] < cursor'
      BY <1>0, <2>1, <2>4, <2>10 DEF high
    <3> QED  BY <2>1, <2>2, <2>4, <2>8, <2>10, <3>1, <3>2 DEF ScanInv, Scanning, start, end
  <2>11. CASE high >= cursor /\ low > cursor /\ pc' \in {"over", "found"} /\ cursor' = cursor
    <3>1. ~InMerged(cursor)  BY <1>0, <2>3, <2>6, <2>11
    <3> QED  BY <2>1, <2>2, <2>4, <2>8, <2>11, <3>1 DEF ScanInv, Scanning, start, end
  <2>12. CASE /\ high >= cursor /\ low <= cursor /\ cursor' = high + 1
              /\ IF cursor' > end THEN pc' = "over" ELSE pc' = "scan" /\ at' = at + 1
    <3>1. cursor' \in start .. size  BY <1>0, <2>2, <2>3, <2>4, <2>12
    <3>2. ASSUME NEW v \in start .. cursor' - 1  PROVE InMerged(v)
      <4>1. CASE v < cursor  BY <1>0, <2>2, <2>4, <4>1
      <4>2. CASE v >= cursor
        <5>1. Within(v, merged[at])  BY <1>0, <2>2, <2>3, <2>12, <4>2 DEF Within, low, high
        <5> QED  BY <2>1, <5>1 DEF InMerged
      <4> QED  BY <1>0, <2>2, <4>1, <4>2
    <3>3. pc' = "scan" => /\ at' \in 1 .. Len(merged') + 1
                          /\ cursor' <= end
                          /\ \A k \in 1 .. at' - 1 : merged'[k][2] < cursor'
      <4> SUFFICES ASSUME pc' = "scan" PROVE /\ at' \in 1 .. Len(merged') + 1
                                             /\ cursor' <= end
                                             /\ \A k \in 1 .. at' - 1 : merged'[k][2] < cursor'
        OBVIOUS
      <4>1. at' = at + 1 /\ cursor' <= end  BY <2>2, <2>3, <2>12
      <4>2. at' \in 1 .. Len(merged') + 1  BY <1>0, <2>1, <4>1
      <4>3. ASSUME NEW k \in 1 .. at' - 1  PROVE merged'[k][2] < cursor'
        <5>1. k = at \/ k \in 1 .. at - 1  BY <2>1, <4>1
        <5>2. merged[k][2] \in Int  BY <1>0, <2>1, <4>1, MergedParts
        <5>3. merged'[k] = merged[k]  BY <2>1
        <5>4. k = at => merged[k][2] < cursor'  BY <2>3, <2>12 DEF high
        <5>5. k \in 1 .. at - 1 => merged[k][2] < cursor'  BY <1>0, <2>3, <2>4, <2>12, <5>2
        <5> QED  BY <5>1, <5>3, <5>4, <5>5
      <4> QED  BY <4>1, <4>2, <4>3
    <3>4. pc' = "over" => cursor' > end  BY <2>12
    <3> QED  BY <2>1, <2>2, <2>3, <2>4, <2>8, <2>12, <3>1, <3>2, <3>3, <3>4
             DEF ScanInv, Scanning, start, end
  <2> QED  BY <2>9, <2>10, <2>11, <2>12
<1>8. CASE ScanRunsOut
  <2>1. pc = "scan" /\ MergedApart /\ at \in 1 .. Len(merged) + 1 /\ at > Len(merged)
    BY <1>0, <1>8 DEF ScanRunsOut, ScanInv, Scanning, MergeInv
  <2>2. \A k \in 1 .. at - 1 : merged[k][2] < cursor  BY <1>0, <2>1 DEF ScanInv, Scanning
  <2>3. ~InMerged(cursor)  BY <1>0, <2>1, <2>2, InGap
  <2>4. ~InMerged(cursor)' /\ \A v : InMerged(v)' = InMerged(v)
    <3>1. cursor' = cursor /\ merged' = merged  BY <1>8 DEF ScanRunsOut
    <3> QED  BY <1>a, <2>3, <3>1 DEF InMerged, Within
  <2> QED  BY <1>0, <1>8, <2>4 DEF ScanRunsOut, ScanInv, Scanning, PassStart, PassEnd
<1>9. CASE PassEnds
  <2>0. pc = "over" /\ UNCHANGED <<size, next, merged>>  BY <1>9 DEF PassEnds
  <2>1. CASE cursor <= PassEnd(pass) /\ pc' = "found" /\ UNCHANGED <<pass, at, cursor>>
    <3>1. ~InMerged(cursor)  BY <1>0, <2>0, <2>1 DEF ScanInv, Scanning
    <3>2. ~InMerged(cursor)'  BY <2>0, <2>1, <3>1 DEF InMerged, Within
    <3> QED  BY <1>0, <1>a, <2>0, <2>1, <3>2 DEF ScanInv, Scanning, PassStart, PassEnd
  <2>2. CASE cursor > PassEnd(pass) /\ pass = 1 /\ BeginPass(2)
    <3>1. \A v \in next .. size - 1 : InMerged(v)
      BY <1>0, <2>0, <2>2 DEF ScanInv, Scanning, PassStart, PassEnd
    <3>2. pass' = 2 /\ cursor' = 0 /\ at' = 1 /\ pc' = IF 0 > next - 1 THEN "over" ELSE "scan"
      BY <2>2 DEF BeginPass, PassStart, PassEnd
    <3>3. PassStart(pass)' = 0 /\ PassEnd(pass)' = next - 1
      BY <2>0, <3>2 DEF PassStart, PassEnd
    <3> QED  BY <1>0, <1>a, <2>0, <3>1, <3>2, <3>3 DEF ScanInv, Scanning
  <2> QED  BY <1>9, <2>1, <2>2 DEF PassEnds
<1>10. CASE TakeFound  BY <1>10 DEF TakeFound, Return, ScanInv, Scanning
<1>11. CASE Refuse  BY <1>11 DEF Refuse, Return, ScanInv, Scanning
<1>12. CASE BeginCount  BY <1>12 DEF BeginCount, BeginMerge, ScanInv, Scanning
<1>13. CASE SumNext  BY <1>13 DEF SumNext, ScanInv, Scanning
<1>14. CASE CountEnds  BY <1>14 DEF CountEnds, Return, ScanInv, Scanning
<1>15. ASSUME NEW offset, TakeNamed(offset) PROVE ScanInv'
  BY <1>15 DEF TakeNamed, ScanInv, Scanning
<1>16. ASSUME NEW offset, Disable(offset) PROVE ScanInv'
  BY <1>16 DEF Disable, ScanInv, Scanning
<1>17. ASSUME NEW offset, GiveBack(offset) PROVE ScanInv'
  <2>1. UNCHANGED <<size, next, pc, merged, pass, at, cursor>>  BY <1>17 DEF GiveBack
  <2> QED  BY <1>0, <2>1 DEF ScanInv, Scanning, PassStart, PassEnd, InMerged, Within
<1>18. ASSUME NEW offset, TakeRandom(offset) PROVE ScanInv'
  BY <1>18 DEF TakeRandom, Return, ScanInv, Scanning
<1> QED
  BY <1>1, <1>2, <1>3, <1>4, <1>5, <1>6, <1>7, <1>8, <1>9, <1>10, <1>11, <1>12, <1>13, <1>14,
     <1>15, <1>16, <1>17, <1>18 DEF Next, Search, Count

-----------------------------------------------------------------------------
(* Counting.                                                               *)

LEMMA SumStep == IInv /\ [Next]_vars => SumInv'
<1> SUFFICES ASSUME IInv, [Next]_vars PROVE SumInv'  OBVIOUS
<1>0. /\ SumInv /\ MergeInv /\ FirstFreeTypeOK
      /\ size \in Nat /\ merged \in Seq(Ranges(size)) /\ Len(merged) \in Nat
  BY DEF IInv, FirstFreeTypeOK
<1> USE DEF poolVars, rowVars, loopVars
<1>a. UNCHANGED <<size, pc, merged, at, total>> => SumInv'
  <2> SUFFICES ASSUME UNCHANGED <<size, pc, merged, at, total>>, pc = "sum" PROVE SumInv'
    BY DEF SumInv
  <2>1. Summed' = Summed  BY DEF Summed, Offsets, Within
  <2> QED  BY <1>0, <2>1 DEF SumInv
<1>1. CASE UNCHANGED vars  BY <1>1, <1>a DEF vars
<1>2. CASE MergeNext  BY <1>2 DEF MergeNext, SumInv
<1>3. CASE MergeEnds
  <2>1. CASE goal = "take"  BY <1>3, <2>1 DEF MergeEnds, BeginPass, SumInv
  <2>2. CASE goal # "take"
    <3>1. at' = 1 /\ total' = 0 /\ merged' = merged  BY <1>3, <2>2 DEF MergeEnds
    <3>2. Summed' = {}  BY <3>1 DEF Summed
    <3>3. Cardinality(Summed)' = 0  BY <3>2, FS_EmptySet
    <3> QED  BY <1>0, <3>1, <3>3 DEF SumInv
  <2> QED  BY <2>1, <2>2
<1>4. CASE TakeAvailable  BY <1>4 DEF TakeAvailable, SumInv
<1>5. CASE BeginSearch  BY <1>5 DEF BeginSearch, SumInv
<1>6. CASE ReadRows  BY <1>6 DEF ReadRows, BeginMerge, SumInv
<1>7. CASE ScanNext  BY <1>7 DEF ScanNext, SumInv
<1>8. CASE ScanRunsOut  BY <1>8 DEF ScanRunsOut, SumInv
<1>9. CASE PassEnds  BY <1>9 DEF PassEnds, BeginPass, SumInv
<1>10. CASE TakeFound  BY <1>10 DEF TakeFound, Return, SumInv
<1>11. CASE Refuse  BY <1>11 DEF Refuse, Return, SumInv
<1>12. CASE BeginCount  BY <1>12 DEF BeginCount, BeginMerge, SumInv
<1>13. CASE SumNext
  <2> DEFINE low == merged[at][1]
             high == merged[at][2]
  <2>1. pc = "sum" /\ at \in 1 .. Len(merged) /\ UNCHANGED <<size, merged>> /\ at' = at + 1
    BY <1>0, <1>13 DEF SumNext, FirstFreeTypeOK
  <2>2. low \in Int /\ high \in Int /\ 0 <= low /\ low <= high /\ high < size
    BY <1>0, <2>1, MergedParts
  <2>3. total = Cardinality(Summed) /\ total' = total + (high - low + 1) /\ total \in Int
    BY <1>0, <1>13, <2>1 DEF SumNext, SumInv, FirstFreeTypeOK
  <2>4. MergedApart  BY <1>0, <2>1 DEF MergeInv
  <2>5. Summed' = Summed \cup (low .. high)
    <3>1. \A k : k \in 1 .. at' - 1 <=> k \in 1 .. at - 1 \/ k = at  BY <2>1
    <3>2. \A v \in Offsets : Within(v, merged[at]) <=> v \in low .. high
      BY <1>0, <2>2 DEF Within, Offsets
    <3>3. low .. high \subseteq Offsets  BY <1>0, <2>2 DEF Offsets
    <3>4. Summed' = {v \in Offsets : \E k \in 1 .. at' - 1 : Within(v, merged[k])}
      BY <2>1 DEF Summed, Offsets, Within
    <3> HIDE DEF low, high
    <3> QED  BY <3>1, <3>2, <3>3, <3>4 DEF Summed
  <2>6. Summed \cap (low .. high) = {}
    <3> SUFFICES ASSUME NEW v \in Offsets, NEW k \in 1 .. at - 1, Within(v, merged[k]), v \in low .. high
                 PROVE  FALSE
      BY DEF Summed
    <3>1. merged[k][2] + 1 < low  BY <2>1, <2>4 DEF MergedApart
    <3>2. k \in 1 .. Len(merged)  BY <1>0, <2>1
    <3>3. merged[k][2] \in Int  BY <1>0, <3>2, MergedParts
    <3> QED  BY <1>0, <2>2, <3>1, <3>3 DEF Within, Offsets
  <2>7. IsFiniteSet(Summed)
    <3>1. IsFiniteSet(Offsets)  BY <1>0, FS_Interval DEF Offsets
    <3> QED  BY <3>1, FS_Subset DEF Summed
  <2>8. IsFiniteSet(low .. high) /\ Cardinality(low .. high) = high - low + 1
    BY <2>2, IntervalSize
  <2>9. Cardinality(Summed \cup (low .. high)) = Cardinality(Summed) + (high - low + 1)
    <3> HIDE DEF low, high
    <3>1. Cardinality(Summed \cup (low .. high)) =
            Cardinality(Summed) + Cardinality(low .. high) - Cardinality(Summed \cap (low .. high))
      BY <2>7, <2>8, FS_Union
    <3>2. Cardinality(Summed \cap (low .. high)) = 0  BY <2>6, FS_EmptySet
    <3>3. Cardinality(Summed) \in Int  BY <2>3
    <3> QED  BY <2>2, <2>8, <3>1, <3>2, <3>3
  <2>10. at' \in 1 .. Len(merged') + 1  BY <1>0, <2>1
  <2>11. total' = Cardinality(Summed')  BY <2>3, <2>5, <2>9
  <2> QED  BY <2>10, <2>11 DEF SumInv
<1>14. CASE CountEnds  BY <1>14 DEF CountEnds, Return, SumInv
<1>15. ASSUME NEW offset, TakeNamed(offset) PROVE SumInv'
  BY <1>15 DEF TakeNamed, SumInv
<1>16. ASSUME NEW offset, Disable(offset) PROVE SumInv'
  BY <1>16 DEF Disable, SumInv
<1>17. ASSUME NEW offset, GiveBack(offset) PROVE SumInv'
  BY <1>17, <1>a DEF GiveBack
<1>18. ASSUME NEW offset, TakeRandom(offset) PROVE SumInv'
  BY <1>18 DEF TakeRandom, Return, SumInv
<1> QED
  BY <1>1, <1>2, <1>3, <1>4, <1>5, <1>6, <1>7, <1>8, <1>9, <1>10, <1>11, <1>12, <1>13, <1>14,
     <1>15, <1>16, <1>17, <1>18 DEF Next, Search, Count

-----------------------------------------------------------------------------
(* The invariant and the theorems.                                         *)

LEMMA IInvInit == Init => IInv
<1> SUFFICES ASSUME Init PROVE IInv  OBVIOUS
<1>1. FirstFreeTypeOK  BY TypesInit
<1>2. RowsApart  BY DEF Init, RowsApart, Busy
<1>3. GoalFits /\ MergeInv /\ ScanInv /\ SumInv
  BY DEF Init, GoalFits, MergeInv, ScanInv, Scanning, SumInv
<1> QED  BY <1>1, <1>2, <1>3 DEF IInv

(* Every step keeps the loop invariants. *)
THEOREM LoopInvariance == Spec => []IInv
<1>1. Init => IInv  BY IInvInit
<1>2. IInv /\ [Next]_vars => IInv'
  BY TypesStep, RowsStep, GoalStep, MergeStep, ScanStep, SumStep DEF IInv
<1> QED  BY <1>1, <1>2, PTL DEF Spec

(* The variables have their types in every reachable state; in particular  *)
(* next_offset and what is handed out are offsets of the pool. *)
THEOREM FirstFreeTypes == Spec => []FirstFreeTypeOK
<1>1. IInv => FirstFreeTypeOK  BY DEF IInv
<1> QED  BY <1>1, LoopInvariance, PTL

(* _first_free_offset finds the free address nearest to next_offset, for   *)
(* every size of the pool and every set of blocked ranges. *)
THEOREM FindsFirst == Spec => []ScanFindsFirst
<1>1. IInv => ScanFindsFirst
  <2> SUFFICES ASSUME IInv, pc = "found" PROVE ScanFindsFirst  BY DEF ScanFindsFirst
  <2>0. /\ size \in Nat \ {0} /\ next \in 0 .. size - 1 /\ cursor \in Nat /\ pass \in {1, 2}
    BY SizeAssumption DEF IInv, FirstFreeTypeOK, Offsets
  <2>1. cursor \in Free  BY FoundIsFree
  <2>2. /\ cursor \in PassStart(pass) .. size /\ cursor <= PassEnd(pass)
        /\ \A v \in PassStart(pass) .. cursor - 1 : InMerged(v)
        /\ pass = 2 => \A v \in next .. size - 1 : InMerged(v)
    BY DEF IInv, ScanInv, Scanning
  <2>3. \A v \in Offsets : InMerged(v) <=> v \notin Free  BY MergedIsTaken DEF IInv, Scanning
  <2>4. ASSUME NEW v \in Offsets  PROVE Distance(v) = IF v >= next THEN v - next ELSE v - next + size
    <3>1. v - next \in Int /\ -size <= v - next /\ v - next < size  BY <2>0 DEF Offsets
    <3>2. (v - next) % size = IF v - next >= 0 THEN v - next ELSE v - next + size
      BY <2>0, <3>1, Around
    <3> QED  BY <2>0, <3>2 DEF Distance, Offsets
  <2>5. ASSUME NEW v \in Free  PROVE Distance(cursor) <= Distance(v)
    <3>1. v \in Offsets /\ ~InMerged(v) /\ cursor \in Offsets  BY <2>1, <2>3 DEF Free
    <3>2. v \in Int /\ 0 <= v /\ v < size  BY <2>0, <3>1 DEF Offsets
    <3>3. CASE pass = 1
      <4>1. cursor >= next /\ (v < next \/ v >= cursor) /\ cursor < size
        BY <2>0, <2>2, <3>1, <3>2, <3>3 DEF PassStart, PassEnd
      <4> QED  BY <2>0, <2>4, <3>1, <3>2, <4>1
    <3>4. CASE pass = 2
      <4>1. v < next /\ cursor < next /\ v >= cursor
        BY <2>0, <2>2, <3>1, <3>2, <3>4 DEF PassStart, PassEnd
      <4> QED  BY <2>0, <2>4, <3>1, <3>2, <4>1
    <3> QED  BY <2>0, <3>3, <3>4
  <2> QED  BY <2>1, <2>5 DEF ScanFindsFirst
<1> QED  BY <1>1, LoopInvariance, PTL

(* IP_POOL_EXHAUSTED means that no address was left to hand out. *)
THEOREM FullWhenExhausted == Spec => []ExhaustedOnlyWhenFull
<1>1. IInv => ExhaustedOnlyWhenFull
  <2> SUFFICES ASSUME IInv, Exhausted PROVE Free = {} /\ available \subseteq since \cup skipped
    BY DEF ExhaustedOnlyWhenFull
  <2>0. size \in Nat /\ next \in 0 .. size - 1 /\ cursor \in Nat
    BY SizeAssumption DEF IInv, FirstFreeTypeOK, Offsets
  <2>1. Scanning /\ pass = 2 /\ cursor > next - 1  BY DEF Exhausted, Scanning, PassEnd
  <2>2. \A v \in Offsets : InMerged(v)
    BY <2>0, <2>1 DEF IInv, ScanInv, PassStart, Offsets
  <2>3. Free = {}
    <3>1. \A v \in Offsets : v \notin Free  BY <2>1, <2>2, MergedIsTaken DEF IInv
    <3> QED  BY <3>1 DEF Free
  <2>4. available \subseteq since \cup skipped  BY <2>1 DEF IInv, RowsApart, GoalFits, Busy, Scanning
  <2> QED  BY <2>3, <2>4
<1> QED  BY <1>1, LoopInvariance, PTL

(* _available_address_count counts each address that can be handed out     *)
(* once, however the blocked ranges overlap. *)
THEOREM CountExact == Spec => []CountIsHonest
<1>1. IInv => CountIsHonest
  <2> SUFFICES ASSUME IInv, Counted PROVE AddressCount = Cardinality(Free \cup (available \ since))
    BY DEF CountIsHonest
  <2>0. /\ size \in Nat /\ merged \in Seq(Ranges(size)) /\ total \in Nat
        /\ taken \subseteq Offsets /\ disabled \subseteq Offsets /\ available \subseteq Offsets
        /\ since \subseteq Offsets
    BY DEF IInv, FirstFreeTypeOK
  <2>1. pc = "sum" /\ goal = "count" /\ at > Len(merged)  BY DEF Counted, IInv, GoalFits
  <2>2. at = Len(merged) + 1 /\ total = Cardinality(Summed)  BY <2>0, <2>1 DEF IInv, SumInv
  <2>3. rest = {} /\ CoversBlocked  BY <2>1 DEF IInv, MergeInv
  <2>4. Covered(Blocked) = Covered(Kept) \cup (Unavailable \cup since)
    BY <2>0, <2>1, SinglesCover DEF Blocked, Unavailable
  <2>5. Summed = Covered(Blocked)
    <3>1. Summed = {v \in Offsets : InMerged(v)}  BY <2>0, <2>2 DEF Summed, InMerged
    <3>2. \A v \in Offsets : InMerged(v) <=> v \in Covered(Blocked)  BY <2>3 DEF CoversBlocked, InRest
    <3> QED  BY <3>1, <3>2 DEF Covered
  <2>6. Free \cup (available \ since) = Offsets \ Summed
    BY <2>0, <2>4, <2>5 DEF IInv, RowsApart, Free, Unavailable
  <2>7. IsFiniteSet(Offsets) /\ Cardinality(Offsets) = size
    <3>1. size = 0 \/ 0 <= size - 1  BY <2>0
    <3>2. size # 0  BY SizeAssumption DEF IInv, FirstFreeTypeOK
    <3> QED  BY <2>0, <3>1, <3>2, IntervalSize DEF Offsets
  <2>8. Summed \subseteq Offsets /\ Offsets \cap Summed = Summed  BY DEF Summed
  <2>9. Cardinality(Offsets \ Summed) = size - total
    <3>1. Cardinality(Offsets \ Summed) = Cardinality(Offsets) - Cardinality(Offsets \cap Summed)
      BY <2>7, FS_Difference
    <3> QED  BY <2>2, <2>7, <2>8, <3>1
  <2>10. total <= size  BY <2>2, <2>7, <2>8, FS_Subset
  <2>11. AddressCount = size - total  BY <2>0, <2>10 DEF AddressCount, Larger
  <2> QED  BY <2>6, <2>9, <2>11
<1> QED  BY <1>1, LoopInvariance, PTL
=============================================================================
