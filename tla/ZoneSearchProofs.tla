-------------------------- MODULE ZoneSearchProofs --------------------------
(***************************************************************************)
(* The searches of localsub and pg_next_dst_boundary stay inside their      *)
(* arrays and find what ZoneTable says, for every table and instant.  That  *)
(* they come to an end is left to model checking.                           *)
(***************************************************************************)
EXTENDS ZoneSearch, WellFoundedInduction, TLAPS

----------------------------------------------------------------------------
(* Segments of a table *)

(***************************************************************************)
(* Every non-empty set of naturals has a least element.  It stands in for   *)
(* induction below: the first transition after an instant exists.           *)
(***************************************************************************)
LEMMA LeastNatural ==
  ASSUME NEW T \in SUBSET Nat, T # {}
  PROVE  \E m \in T : \A n \in T : m <= n
<1> DEFINE R == {ss \in Nat \X Nat : ss[1] < ss[2]}
<1>1. IsWellFoundedOn(R, Nat)
  BY NatLessThanWellFounded DEF OpToRel
<1>2. PICK x \in T : \A y \in T : <<y, x>> \notin R
  <2> HIDE DEF R
  <2> QED BY <1>1, WFMin
<1>3. ASSUME NEW y \in T PROVE x <= y
  <2>1. <<y, x>> \notin R BY <1>2
  <2>2. ~ (<<y, x>>[1] < <<y, x>>[2]) BY <2>1
  <2> QED BY <2>2
<1>4. QED BY <1>3

\* The table's parts, typed: what a step needs to know of a loaded table.
LEMMA LoadedParts ==
  ASSUME NEW zt, Loaded(zt)
  PROVE  /\ timecnt(zt) \in Nat
         /\ \A h \in 1..timecnt(zt) : zt.ats[h] \in Int
         /\ \A h \in 1..timecnt(zt) : TypeOf(zt, h) \in ttinfo
         /\ Len(zt.ttis) \in Nat \ {0}
         /\ \A k \in 1..Len(zt.ttis) : zt.ttis[k] \in ttinfo
         /\ \A h, j \in 1..timecnt(zt) : h < j => zt.ats[h] < zt.ats[j]
BY DEF Loaded, State, timecnt, TypeOf

\* From the first transition on, every instant lies in exactly one segment.
LEMMA SegmentExists ==
  ASSUME NEW zt, Loaded(zt), NEW u \in Int,
         timecnt(zt) # 0, zt.ats[1] <= u
  PROVE  IsSegment(zt, u, Segment(zt, u))
<1> DEFINE n == timecnt(zt)
           later == {h \in 1..n : u < zt.ats[h]}
<1>1. /\ n \in Nat \ {0}
      /\ \A h \in 1..n : zt.ats[h] \in Int
  BY LoadedParts
<1>2. \E h \in 1..n : IsSegment(zt, u, h)
  <2>1. CASE later = {}
    <3>1. IsSegment(zt, u, n) BY <1>1, <2>1 DEF IsSegment
    <3> QED BY <1>1, <3>1
  <2>2. CASE later # {}
    <3>1. later \in SUBSET Nat BY <1>1
    <3>2. PICK m \in later : \A k \in later : m <= k
      BY <2>2, <3>1, LeastNatural
    <3>3. m \in 2..n /\ u < zt.ats[m]
      BY <1>1, <3>2
    <3>4. m - 1 \in 1..n /\ m - 1 \notin later
      BY <1>1, <3>2, <3>3
    <3>5. zt.ats[m - 1] <= u /\ (m - 1) + 1 = m
      BY <1>1, <3>3, <3>4
    <3>6. IsSegment(zt, u, m - 1)
      BY <3>3, <3>4, <3>5 DEF IsSegment
    <3> QED BY <3>4, <3>6
  <2> QED BY <2>1, <2>2
<1>3. QED BY <1>2 DEF Segment

\* A segment is unique.
LEMMA SegmentUnique ==
  ASSUME NEW zt, Loaded(zt), NEW u \in Int, NEW h, IsSegment(zt, u, h)
  PROVE  Segment(zt, u) = h /\ timecnt(zt) # 0 /\ ~ (u < zt.ats[1])
<1> DEFINE n == timecnt(zt)
           j == Segment(zt, u)
<1>1. /\ n \in Nat /\ h \in 1..n
      /\ \A k \in 1..n : zt.ats[k] \in Int
      /\ \A k, m \in 1..n : k < m => zt.ats[k] < zt.ats[m]
  BY LoadedParts DEF IsSegment
<1>2. zt.ats[h] <= u /\ (h < n => u < zt.ats[h + 1])
  BY DEF IsSegment
<1>3. n # 0 /\ zt.ats[1] <= u
  BY <1>1, <1>2
<1>4. IsSegment(zt, u, j)
  BY <1>3, SegmentExists
<1>5. j \in 1..n /\ zt.ats[j] <= u /\ (j < n => u < zt.ats[j + 1])
  BY <1>4 DEF IsSegment
<1>6. ~ (h < j)
  <2> SUFFICES ASSUME h < j PROVE FALSE
    OBVIOUS
  <2>1. h + 1 \in 1..n /\ (h + 1 = j \/ h + 1 < j)
    BY <1>1, <1>5
  <2>2. zt.ats[h + 1] <= zt.ats[j]
    BY <1>1, <1>5, <2>1
  <2> QED BY <1>1, <1>2, <1>5, <2>1, <2>2
<1>7. ~ (j < h)
  <2> SUFFICES ASSUME j < h PROVE FALSE
    OBVIOUS
  <2>1. j + 1 \in 1..n /\ (j + 1 = h \/ j + 1 < h)
    BY <1>1, <1>5
  <2>2. zt.ats[j + 1] <= zt.ats[h]
    BY <1>1, <1>5, <2>1
  <2> QED BY <1>1, <1>2, <1>5, <2>1, <2>2
<1>8. h = j
  BY <1>1, <1>5, <1>6, <1>7
<1>9. ~ (u < zt.ats[1])
  BY <1>1, <1>3
<1>10. QED BY <1>3, <1>8, <1>9

\* So its type is the type found for t.
LEMMA SegmentType ==
  ASSUME NEW zt, Loaded(zt), NEW u \in Int, NEW h, IsSegment(zt, u, h)
  PROVE  TypeInTable(zt, u) = TypeOf(zt, h)
BY SegmentUnique DEF TypeInTable

----------------------------------------------------------------------------
(* The searches *)

\* What is known while the default type is looked for.
Scanned ==
  pc = "scan" =>
    /\ timecnt(sp) # 0 => t < ats(0)
    /\ \A k \in 0..(i - 1) : ttis(k).tt_isdst

\* What is known while the transitions are searched.
Searched ==
  pc = "search" => timecnt(sp) # 0 /\ t >= ats(0)

\* The answer is given at the end, and it is the right one.
Answered ==
  answer = IF pc = "done" THEN Lookup(caller, sp, t) ELSE NoAnswer

IInv == TypeOK /\ Bracketed /\ Scanned /\ Searched /\ Answered

\* The table as the code indexes it.
LEMMA Arrays ==
  ASSUME TypeOK
  PROVE  /\ timecnt(sp) \in Nat /\ typecnt \in Nat \ {0} /\ t \in Int
         /\ Loaded(sp)
         /\ \A k \in 0..(timecnt(sp) - 1) : ats(k) \in Int
         /\ \A k \in 0..(typecnt - 1) : ttis(k) \in ttinfo
         /\ \A k, m \in 0..(timecnt(sp) - 1) : k < m => ats(k) < ats(m)
<1>1. Loaded(sp) /\ t \in Int
  BY SearchAssumption DEF TypeOK
<1>2. /\ timecnt(sp) \in Nat /\ typecnt \in Nat \ {0}
      /\ \A k \in 1..timecnt(sp) : sp.ats[k] \in Int
      /\ \A k \in 1..typecnt : sp.ttis[k] \in ttinfo
      /\ \A k, m \in 1..timecnt(sp) : k < m => sp.ats[k] < sp.ats[m]
  BY <1>1, LoadedParts DEF typecnt
<1>3. \A k \in 0..(timecnt(sp) - 1) : k + 1 \in 1..timecnt(sp)
  BY <1>2
<1>4. \A k \in 0..(typecnt - 1) : k + 1 \in 1..typecnt
  BY <1>2
<1>5. \A k, m \in 0..(timecnt(sp) - 1) : k < m => ats(k) < ats(m)
  <2> SUFFICES ASSUME NEW k \in 0..(timecnt(sp) - 1),
                      NEW m \in 0..(timecnt(sp) - 1), k < m
               PROVE  ats(k) < ats(m)
    OBVIOUS
  <2>1. k + 1 < m + 1 BY <1>2
  <2> QED BY <1>2, <1>3, <2>1 DEF ats
<1>6. QED BY <1>1, <1>2, <1>3, <1>4, <1>5 DEF ats, ttis

\* The scan finds the default type.
LEMMA ScanFindsDefault ==
  ASSUME TypeOK, Scanned, pc = "scan"
  PROVE  /\ ~ ttis(i).tt_isdst => DefaultType(sp) = ttis(i)
         /\ ttis(i).tt_isdst /\ i + 1 >= typecnt => DefaultType(sp) = ttis(0)
<1> DEFINE standard == {k \in 1..Len(sp.ttis) : ~ sp.ttis[k].tt_isdst}
<1>1. /\ typecnt \in Nat \ {0} /\ i \in 0..(typecnt - 1)
      /\ \A k \in 0..(i - 1) : ttis(k).tt_isdst
  BY Arrays DEF TypeOK, Scanned
<1>2. \A k \in 1..i : sp.ttis[k].tt_isdst
  <2> SUFFICES ASSUME NEW k \in 1..i PROVE sp.ttis[k].tt_isdst
    OBVIOUS
  <2>1. k - 1 \in 0..(i - 1) /\ (k - 1) + 1 = k
    BY <1>1
  <2> QED BY <1>1, <2>1 DEF ttis
<1>3. ASSUME ~ ttis(i).tt_isdst PROVE DefaultType(sp) = ttis(i)
  <2>1. i + 1 \in standard
    BY <1>1, <1>3 DEF ttis, typecnt
  <2>2. \A m \in standard : m \in Int /\ i + 1 <= m
    BY <1>1, <1>2 DEF typecnt
  <2> DEFINE low == CHOOSE k \in standard : \A m \in standard : k <= m
  <2>3. low \in standard /\ low <= i + 1
    BY <2>1, <2>2
  <2>4. low = i + 1
    BY <1>1, <2>2, <2>3
  <2> QED BY <2>1, <2>4 DEF DefaultType, ttis
<1>4. ASSUME ttis(i).tt_isdst, i + 1 >= typecnt PROVE DefaultType(sp) = ttis(0)
  <2>1. i + 1 = typecnt BY <1>1, <1>4
  <2>2. \A k \in 1..typecnt : k \in 1..i \/ k = i + 1
    BY <1>1, <2>1
  <2>3. \A k \in 1..typecnt : sp.ttis[k].tt_isdst
    BY <1>2, <1>4, <2>2 DEF ttis
  <2>4. standard = {} BY <2>3 DEF typecnt
  <2> QED BY <2>4 DEF DefaultType, ttis
<1>5. QED BY <1>3, <1>4

\* A closed bracket is a segment.
LEMMA BracketIsSegment ==
  ASSUME TypeOK, Bracketed, pc = "search", ~ (lo < hi)
  PROVE  /\ IsSegment(sp, t, lo) /\ hi = lo
         /\ caller = "boundary" => lo < timecnt(sp) /\ t < ats(lo)
<1> DEFINE n == timecnt(sp)
<1>1. /\ n \in Nat /\ lo \in 0..n /\ hi \in 0..n
      /\ 1 <= lo /\ lo <= hi
      /\ hi <= (IF caller = "boundary" THEN n - 1 ELSE n)
      /\ \A k \in 0..(n - 1) : (k < lo => ats(k) <= t) /\ (k >= hi => t < ats(k))
  BY Arrays DEF TypeOK, Bracketed
<1>2. hi = lo BY <1>1
<1>3. ats(lo - 1) <= t
  BY <1>1
<1>4. lo < n => t < ats(lo)
  BY <1>1, <1>2
<1>5. sp.ats[lo] <= t /\ (lo < n => t < sp.ats[lo + 1])
  <2>1. (lo - 1) + 1 = lo BY <1>1
  <2> QED BY <1>3, <1>4, <2>1 DEF ats
<1>6. QED BY <1>1, <1>2, <1>4, <1>5 DEF IsSegment

LEMMA InitIInv == Init => IInv
<1> SUFFICES ASSUME Init PROVE IInv
  OBVIOUS
<1>1. Loaded(sp) /\ sp \in Zones /\ t \in Instants
  BY SearchAssumption DEF Init
<1>2. timecnt(sp) \in Nat /\ typecnt \in Nat \ {0}
  BY <1>1, LoadedParts DEF typecnt
<1>3. TypeOK
  BY <1>1, <1>2 DEF Init, TypeOK
<1>4. QED BY <1>3 DEF Init, IInv, Bracketed, Scanned, Searched, Answered

\* An answer of the scan is right.
LEMMA DefaultAnswer ==
  ASSUME IInv, pc = "scan", NEW type, type = DefaultType(sp)
  PROVE  Default(type) = Lookup(caller, sp, t)
<1> DEFINE n == timecnt(sp)
<1>1. /\ n \in Nat /\ t \in Int /\ caller \in {"localsub", "boundary"}
      /\ \A k \in 0..(n - 1) : ats(k) \in Int
      /\ \A k, m \in 0..(n - 1) : k < m => ats(k) < ats(m)
      /\ n # 0 => t < ats(0)
  BY Arrays DEF IInv, TypeOK, Scanned, Callers
<1>2. n # 0 => ~ (t >= ats(n - 1))
  BY <1>1
<1>3. n # 0 => t < sp.ats[1] /\ ~ (t >= sp.ats[n])
  <2>1. (n - 1) + 1 = n BY <1>1
  <2> QED BY <1>1, <1>2, <2>1 DEF ats
<1>4. CASE caller = "localsub"
  <2>1. TypeInTable(sp, t) = type BY <1>3 DEF TypeInTable
  <2> QED BY <1>4, <2>1 DEF Default, Lookup
<1>5. CASE caller = "boundary" /\ n = 0
  BY <1>5 DEF Default, Lookup, NextInTable
<1>6. CASE caller = "boundary" /\ n # 0
  BY <1>3, <1>6 DEF Default, Lookup, NextInTable, ats, typed
<1>7. QED BY <1>1, <1>4, <1>5, <1>6

LEMMA NextIInv == IInv /\ [Next]_vars => IInv'
<1> DEFINE n == timecnt(sp)
<1> SUFFICES ASSUME IInv, [Next]_vars PROVE IInv'
  OBVIOUS
<1>1. /\ n \in Nat /\ typecnt \in Nat \ {0} /\ t \in Int /\ Loaded(sp)
      /\ \A k \in 0..(n - 1) : ats(k) \in Int
      /\ \A k, m \in 0..(n - 1) : k < m => ats(k) < ats(m)
      /\ TypeOK /\ caller \in {"localsub", "boundary"}
  BY Arrays DEF IInv, TypeOK, Callers
<1>2. ASSUME UNCHANGED asked
      PROVE  /\ timecnt(sp)' = n /\ typecnt' = typecnt
             /\ \A k : ats(k)' = ats(k) /\ ttis(k)' = ttis(k)
             /\ Lookup(caller, sp, t)' = Lookup(caller, sp, t)
  BY <1>2 DEF asked, typecnt, ats, ttis
<1>3. CASE StartScan
  <2>1. /\ UNCHANGED asked /\ UNCHANGED <<lo, hi, answer>>
        /\ pc = "start" /\ pc' = "scan" /\ i' = 0
        /\ n # 0 => t < ats(0)
    BY <1>3 DEF StartScan, Goto
  <2>2. TypeOK' BY <1>1, <1>2, <2>1 DEF asked, TypeOK
  <2>3. Scanned' BY <1>2, <2>1 DEF asked, Scanned
  <2> QED BY <2>1, <2>2, <2>3 DEF IInv, Bracketed, Searched, Answered
<1>4. CASE AfterLast
  <2>1. /\ UNCHANGED asked /\ UNCHANGED <<i, lo, hi>>
        /\ pc = "start" /\ pc' = "done" /\ caller = "boundary"
        /\ n # 0 /\ t >= ats(n - 1)
        /\ answer' = NoBoundary(typed(n - 1))
    BY <1>4 DEF AfterLast, Return, Goto
  <2>2. TypeOK' BY <1>1, <1>2, <2>1 DEF asked, TypeOK
  <2>3. (n - 1) + 1 = n BY <1>1
  <2>4. t >= sp.ats[n] /\ typed(n - 1) = TypeOf(sp, n)
    BY <2>1, <2>3 DEF ats, typed
  <2>5. answer' = Lookup(caller, sp, t)
    BY <2>1, <2>4 DEF Lookup, NextInTable
  <2>6. Answered'
    BY <1>2, <2>1, <2>5 DEF Answered
  <2> QED BY <2>1, <2>2, <2>6 DEF IInv, Bracketed, Scanned, Searched
<1>5. CASE StartSearch
  <2>1. /\ UNCHANGED asked /\ UNCHANGED <<i, answer>>
        /\ pc = "start" /\ pc' = "search"
        /\ n # 0 /\ t >= ats(0)
        /\ caller = "boundary" => t < ats(n - 1)
        /\ lo' = 1 /\ hi' = IF caller = "boundary" THEN n - 1 ELSE n
    BY <1>5 DEF StartSearch, Goto
  <2>2. caller = "boundary" => n - 1 >= 1
    BY <1>1, <2>1
  <2>3. TypeOK' BY <1>1, <1>2, <2>1, <2>2 DEF asked, TypeOK
  <2>4. \A k \in 0..(n - 1) : (k < 1 => ats(k) <= t) /\ (k >= hi' => t < ats(k))
    BY <1>1, <2>1
  <2>5. Bracketed'
    BY <1>1, <1>2, <2>1, <2>2, <2>4 DEF asked, Bracketed
  <2>6. Searched' BY <1>2, <2>1 DEF asked, Searched
  <2> QED BY <2>1, <2>3, <2>5, <2>6 DEF IInv, Scanned, Answered
<1>6. CASE Scan
  <2>1. pc = "scan" /\ UNCHANGED asked /\ UNCHANGED <<lo, hi>>
    BY <1>6 DEF Scan, Return, Goto
  <2>2. /\ i \in 0..(typecnt - 1)
        /\ ~ ttis(i).tt_isdst => DefaultType(sp) = ttis(i)
        /\ ttis(i).tt_isdst /\ i + 1 >= typecnt => DefaultType(sp) = ttis(0)
    BY <2>1, ScanFindsDefault DEF IInv, TypeOK
  <2>3. ASSUME NEW type, type = DefaultType(sp),
               answer' = Default(type), pc' = "done", i' = i
        PROVE  IInv'
    <3>1. TypeOK' BY <1>1, <1>2, <2>1, <2>3 DEF asked, TypeOK
    <3>2. answer' = Lookup(caller, sp, t)
      BY <2>1, <2>3, DefaultAnswer
    <3>3. Answered' BY <1>2, <2>1, <2>3, <3>2 DEF Answered
    <3> QED BY <2>3, <3>1, <3>3 DEF IInv, Bracketed, Scanned, Searched
  <2>4. CASE ttis(i).tt_isdst /\ i + 1 < typecnt
    <3>1. i' = i + 1 /\ pc' = "scan" /\ answer' = answer
      BY <1>1, <1>6, <2>2, <2>4 DEF Scan, Goto
    <3>2. TypeOK' BY <1>1, <1>2, <2>1, <2>2, <2>4, <3>1 DEF asked, TypeOK
    <3>3. \A k \in 0..i : k \in 0..(i - 1) \/ k = i
      BY <1>1, <2>2
    <3>4. \A k \in 0..i : ttis(k).tt_isdst
      BY <2>1, <2>4, <3>3 DEF IInv, Scanned
    <3>5. (i + 1) - 1 = i BY <2>2
    <3>6. Scanned'
      BY <1>2, <2>1, <3>1, <3>4, <3>5 DEF IInv, Scanned, asked
    <3>7. Answered' BY <2>1, <3>1 DEF IInv, Answered
    <3> QED BY <3>1, <3>2, <3>6, <3>7 DEF IInv, Bracketed, Searched
  <2>5. CASE ttis(i).tt_isdst /\ i + 1 >= typecnt
    <3>1. answer' = Default(ttis(0)) /\ pc' = "done" /\ i' = i
      BY <1>6, <2>5 DEF Scan, Return, Goto
    <3> QED BY <2>2, <2>3, <2>5, <3>1
  <2>6. CASE ~ ttis(i).tt_isdst
    <3>1. answer' = Default(ttis(i)) /\ pc' = "done" /\ i' = i
      BY <1>6, <2>6 DEF Scan, Return, Goto
    <3> QED BY <2>2, <2>3, <2>6, <3>1
  <2> QED BY <1>1, <2>2, <2>4, <2>5, <2>6
<1>7. CASE Halve
  <2>1. /\ pc = "search" /\ pc' = "search" /\ lo < hi
        /\ UNCHANGED asked /\ UNCHANGED <<i, answer>>
        /\ IF t < ats(mid) THEN hi' = mid /\ lo' = lo ELSE lo' = mid + 1 /\ hi' = hi
    BY <1>7 DEF Halve, Goto
  <2>2. /\ lo \in 0..n /\ hi \in 0..n /\ 1 <= lo
        /\ hi <= (IF caller = "boundary" THEN n - 1 ELSE n)
        /\ \A k \in 0..(n - 1) : (k < lo => ats(k) <= t) /\ (k >= hi => t < ats(k))
    BY <2>1 DEF IInv, TypeOK, Bracketed
  <2>3. mid \in 0..(n - 1) /\ lo <= mid /\ mid < hi
    BY <1>1, <2>1, <2>2 DEF mid
  <2>4. /\ lo' \in 0..n /\ hi' \in 0..n /\ 1 <= lo' /\ lo' <= hi'
        /\ hi' <= (IF caller = "boundary" THEN n - 1 ELSE n)
    BY <1>1, <2>1, <2>2, <2>3
  <2> HIDE DEF mid
  <2>5. \A k \in 0..(n - 1) : (k < lo' => ats(k) <= t) /\ (k >= hi' => t < ats(k))
    <3> SUFFICES ASSUME NEW k \in 0..(n - 1)
                 PROVE  (k < lo' => ats(k) <= t) /\ (k >= hi' => t < ats(k))
      OBVIOUS
    <3>1. (k < mid => ats(k) < ats(mid)) /\ (k > mid => ats(k) > ats(mid))
      BY <1>1, <2>3
    <3>2. /\ k < lo => ats(k) <= t
          /\ k >= hi => t < ats(k)
          /\ ats(k) \in Int /\ ats(mid) \in Int
      BY <1>1, <2>2, <2>3
    <3>3. CASE t < ats(mid)
      <4>1. hi' = mid /\ lo' = lo BY <2>1, <3>3
      <4> QED BY <1>1, <2>3, <3>1, <3>2, <3>3, <4>1
    <3>4. CASE ~ (t < ats(mid))
      <4>1. lo' = mid + 1 /\ hi' = hi BY <2>1, <3>4
      <4> QED BY <1>1, <2>3, <3>1, <3>2, <3>4, <4>1
    <3> QED BY <3>3, <3>4
  <2>6. TypeOK' BY <1>1, <1>2, <2>1, <2>4 DEF asked, TypeOK
  <2>7. Bracketed' BY <1>2, <2>1, <2>4, <2>5 DEF asked, Bracketed
  <2>8. Searched' BY <1>2, <2>1 DEF IInv, Searched, asked
  <2> QED BY <2>1, <2>6, <2>7, <2>8 DEF IInv, Scanned, Answered
<1>8. CASE Found
  <2>1. /\ pc = "search" /\ pc' = "done" /\ ~ (lo < hi)
        /\ UNCHANGED asked /\ UNCHANGED <<i, lo, hi>>
        /\ answer' = IF caller = "boundary"
                     THEN Boundary(typed(lo - 1), ats(lo), typed(lo))
                     ELSE NoBoundary(typed(lo - 1))
    BY <1>8 DEF Found, Return, Goto
  <2>2. /\ IsSegment(sp, t, lo)
        /\ caller = "boundary" => lo < n /\ t < ats(lo)
    BY <2>1, BracketIsSegment DEF IInv
  <2>3. /\ Segment(sp, t) = lo /\ n # 0 /\ ~ (t < sp.ats[1])
        /\ TypeInTable(sp, t) = TypeOf(sp, lo)
    BY <1>1, <2>2, SegmentUnique, SegmentType
  <2>4. lo \in 1..n /\ (lo - 1) + 1 = lo
    BY <1>1, <2>2 DEF IsSegment
  <2>5. typed(lo - 1) = TypeOf(sp, lo) /\ typed(lo) = TypeOf(sp, lo + 1)
    BY <2>4 DEF typed
  <2>6. CASE caller = "localsub"
    <3>1. answer' = Lookup(caller, sp, t)
      BY <2>1, <2>3, <2>5, <2>6 DEF Lookup
    <3> QED BY <1>1, <1>2, <2>1, <3>1
        DEF IInv, TypeOK, Bracketed, Scanned, Searched, Answered, asked
  <2>7. CASE caller = "boundary"
    <3>1. ats(lo) <= ats(n - 1) /\ ats(lo) \in Int /\ ats(n - 1) \in Int
      BY <1>1, <2>2, <2>4, <2>7
    <3>2. ~ (t >= sp.ats[n])
      <4>1. (n - 1) + 1 = n BY <1>1
      <4> QED BY <1>1, <2>2, <2>7, <3>1, <4>1 DEF ats
    <3>3. answer' = Lookup(caller, sp, t)
      BY <2>1, <2>3, <2>5, <2>7, <3>2 DEF Lookup, NextInTable, ats
    <3> QED BY <1>1, <1>2, <2>1, <3>3
        DEF IInv, TypeOK, Bracketed, Scanned, Searched, Answered, asked
  <2> QED BY <1>1, <2>6, <2>7
<1>9. CASE UNCHANGED vars
  BY <1>2, <1>9
  DEF vars, asked, IInv, TypeOK, Bracketed, Scanned, Searched, Answered
<1>10. QED
  BY <1>3, <1>4, <1>5, <1>6, <1>7, <1>8, <1>9 DEF Next

(***************************************************************************)
(* The searches never read outside their arrays and keep t between their    *)
(* bounds, for every table and every instant.                               *)
(***************************************************************************)
THEOREM SearchBracketed == Spec => [](TypeOK /\ Bracketed)
<1>1. IInv => TypeOK /\ Bracketed
  BY DEF IInv
<1>2. QED BY <1>1, InitIInv, NextIInv, PTL DEF Spec

(***************************************************************************)
(* The counters of the scan and of the search stay within the table.        *)
(***************************************************************************)
THEOREM SearchTyped == Spec => []TypeOK
BY SearchBracketed, PTL

(***************************************************************************)
(* Step by step the searches do what a lookup promises (the safety part of  *)
(* AnswersLookup): one answer, the one ZoneTable defines.                   *)
(***************************************************************************)
THEOREM SearchAnswers ==
  Spec => Promise!Init /\ [][Promise!Answer]_Promise!vars
<1>1. Init => Promise!Init
  BY DEF Init, Promise!Init
<1>2. IInv /\ IInv' /\ [Next]_vars => [Promise!Answer]_Promise!vars
  <2> SUFFICES ASSUME IInv, IInv', [Next]_vars
               PROVE  [Promise!Answer]_Promise!vars
    OBVIOUS
  <2>1. UNCHANGED asked
    BY DEF Next, StartScan, AfterLast, StartSearch, Scan, Halve, Found,
           Goto, Return, vars, asked
  <2>2. Lookup(caller, sp, t)' = Lookup(caller, sp, t)
    BY <2>1 DEF asked
  <2>3. CASE pc = "done"
    <3>1. answer' = answer
      BY <2>3 DEF Next, StartScan, AfterLast, StartSearch, Scan, Halve, Found, vars
    <3> QED BY <2>1, <3>1 DEF asked, Promise!vars
  <2>4. CASE pc # "done" /\ pc' # "done"
    <3>1. answer' = answer
      BY <2>4 DEF IInv, Answered
    <3> QED BY <2>1, <3>1 DEF asked, Promise!vars
  <2>5. CASE pc # "done" /\ pc' = "done"
    <3>1. answer = NoAnswer /\ answer' = Lookup(caller, sp, t)
      BY <2>2, <2>5 DEF IInv, Answered
    <3> QED BY <2>1, <3>1 DEF asked, Promise!Answer
  <2> QED BY <2>3, <2>4, <2>5
<1>3. QED
  BY <1>1, <1>2, InitIInv, NextIInv, PTL DEF Spec

=============================================================================
