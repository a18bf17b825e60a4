-------------------------- MODULE LocalTimeProofs --------------------------
(***************************************************************************)
(* First, facts about every usable zone table: the lookups are total,       *)
(* return types of the table, and pg_next_dst_boundary tells the truth      *)
(* about the two days that follow the instant it is asked about.  Then what *)
(* DetermineTimeZoneOffset makes of a local time, for every usable zone     *)
(* table, and the safety properties of LocalTime that follow.               *)
(***************************************************************************)
EXTENDS LocalTime, WellFoundedInduction, TLAPS

(***************************************************************************)
(* Every non-empty set of naturals has a least element.  It stands in for   *)
(* induction below: the first transition after an instant exists.           *)
(***************************************************************************)
LEMMA LeastNatural ==
  ASSUME NEW T \in SUBSET Nat, T # {}
  PROVE  \E m \in T : \A n \in T : m <= n
<1> DEFINE R == {ss \in Nat \X Nat : ss[1] < ss[2]}
<1>1. IsWellFoundedOn(R, Nat)
  BY NatLessThanWellFounded DEF OpToRel
<1>2. PICK x \in T : \A y \in T : <<y, x>> \notin R
  <2> HIDE DEF R
  <2> QED BY <1>1, WFMin
<1>3. ASSUME NEW y \in T PROVE x <= y
  <2>1. <<y, x>> \notin R BY <1>2
  <2>2. ~ (<<y, x>>[1] < <<y, x>>[2]) BY <2>1
  <2> QED BY <2>2
<1>4. QED BY <1>3

\* The table's parts, typed: what a step needs to know of a loaded table.
LEMMA LoadedParts ==
  ASSUME NEW sp, Loaded(sp)
  PROVE  /\ timecnt(sp) \in Nat
         /\ \A i \in 1..timecnt(sp) : sp.ats[i] \in Int
         /\ \A i \in 1..timecnt(sp) : TypeOf(sp, i) \in ttinfo
         /\ Len(sp.ttis) \in Nat \ {0}
         /\ \A k \in 1..Len(sp.ttis) : sp.ttis[k] \in ttinfo
         /\ \A i, j \in 1..timecnt(sp) : i < j => sp.ats[i] < sp.ats[j]
BY DEF Loaded, State, timecnt, TypeOf

\* The lowest-numbered standard type is a type of the table.
LEMMA DefaultTypeInTable ==
  ASSUME NEW sp, Loaded(sp)
  PROVE  \E k \in 1..Len(sp.ttis) : DefaultType(sp) = sp.ttis[k]
<1> DEFINE standard == {k \in 1..Len(sp.ttis) : ~ sp.ttis[k].tt_isdst}
<1>1. Len(sp.ttis) \in Nat \ {0}
  BY LoadedParts
<1>2. CASE standard = {}
  BY <1>1, <1>2 DEF DefaultType
<1>3. CASE standard # {}
  <2>1. standard \in SUBSET Nat
    BY <1>1
  <2>2. \E k \in standard : \A m \in standard : k <= m
    BY <1>3, <2>1, LeastNatural
  <2>3. (CHOOSE k \in standard : \A m \in standard : k <= m) \in standard
    BY <2>2
  <2> QED BY <1>3, <2>3 DEF DefaultType
<1>4. QED BY <1>2, <1>3

\* From the first transition on, every instant lies in exactly one segment.
LEMMA SegmentExists ==
  ASSUME NEW sp, Loaded(sp), NEW t \in Int,
         timecnt(sp) # 0, sp.ats[1] <= t
  PROVE  IsSegment(sp, t, Segment(sp, t))
<1> DEFINE n == timecnt(sp)
           later == {i \in 1..n : t < sp.ats[i]}
<1>1. /\ n \in Nat \ {0}
      /\ \A i \in 1..n : sp.ats[i] \in Int
  BY LoadedParts
<1>2. \E i \in 1..n : IsSegment(sp, t, i)
  <2>1. CASE later = {}
    <3>1. IsSegment(sp, t, n) BY <1>1, <2>1 DEF IsSegment
    <3> QED BY <1>1, <3>1
  <2>2. CASE later # {}
    <3>1. later \in SUBSET Nat BY <1>1
    <3>2. PICK m \in later : \A k \in later : m <= k
      BY <2>2, <3>1, LeastNatural
    <3>3. m \in 2..n /\ t < sp.ats[m]
      BY <1>1, <3>2
    <3>4. m - 1 \in 1..n /\ m - 1 \notin later
      BY <1>1, <3>2, <3>3
    <3>5. sp.ats[m - 1] <= t /\ (m - 1) + 1 = m
      BY <1>1, <3>3, <3>4
    <3>6. IsSegment(sp, t, m - 1)
      BY <3>3, <3>4, <3>5 DEF IsSegment
    <3> QED BY <3>4, <3>6
  <2> QED BY <2>1, <2>2
<1>3. QED BY <1>2 DEF Segment

\* A segment is unique.
LEMMA SegmentUnique ==
  ASSUME NEW sp, Loaded(sp), NEW t \in Int, NEW i, IsSegment(sp, t, i)
  PROVE  Segment(sp, t) = i /\ timecnt(sp) # 0 /\ ~ (t < sp.ats[1])
<1> DEFINE n == timecnt(sp)
           j == Segment(sp, t)
<1>1. /\ n \in Nat /\ i \in 1..n
      /\ \A k \in 1..n : sp.ats[k] \in Int
      /\ \A k, m \in 1..n : k < m => sp.ats[k] < sp.ats[m]
  BY LoadedParts DEF IsSegment
<1>2. sp.ats[i] <= t /\ (i < n => t < sp.ats[i + 1])
  BY DEF IsSegment
<1>3. n # 0 /\ sp.ats[1] <= t
  BY <1>1, <1>2
<1>4. IsSegment(sp, t, j)
  BY <1>3, SegmentExists
<1>5. j \in 1..n /\ sp.ats[j] <= t /\ (j < n => t < sp.ats[j + 1])
  BY <1>4 DEF IsSegment
<1>6. ~ (i < j)
  <2> SUFFICES ASSUME i < j PROVE FALSE
    OBVIOUS
  <2>1. i + 1 \in 1..n /\ (i + 1 = j \/ i + 1 < j)
    BY <1>1, <1>5
  <2>2. sp.ats[i + 1] <= sp.ats[j]
    BY <1>1, <1>5, <2>1
  <2> QED BY <1>1, <1>2, <1>5, <2>1, <2>2
<1>7. ~ (j < i)
  <2> SUFFICES ASSUME j < i PROVE FALSE
    OBVIOUS
  <2>1. j + 1 \in 1..n /\ (j + 1 = i \/ j + 1 < i)
    BY <1>1, <1>5
  <2>2. sp.ats[j + 1] <= sp.ats[i]
    BY <1>1, <1>5, <2>1
  <2> QED BY <1>1, <1>2, <1>5, <2>1, <2>2
<1>8. i = j
  BY <1>1, <1>5, <1>6, <1>7
<1>9. ~ (t < sp.ats[1])
  BY <1>1, <1>3
<1>10. QED BY <1>3, <1>8, <1>9

\* So its type is the type found for t.
LEMMA SegmentType ==
  ASSUME NEW sp, Loaded(sp), NEW t \in Int, NEW i, IsSegment(sp, t, i)
  PROVE  TypeInTable(sp, t) = TypeOf(sp, i)
BY SegmentUnique DEF TypeInTable

\* A type whose offset is shorter than a day.
ShortType ==
  {x \in ttinfo : -SECS_PER_DAY < x.tt_gmtoff /\ x.tt_gmtoff < SECS_PER_DAY}

LEMMA ShortTypes ==
  ASSUME NEW sp, Loaded(sp), Spaced(sp)
  PROVE  /\ DefaultType(sp) \in ShortType
         /\ \A i \in 1..timecnt(sp) : TypeOf(sp, i) \in ShortType
<1>1. \A k \in 1..Len(sp.ttis) : sp.ttis[k] \in ShortType
  BY LoadedParts DEF Spaced, ShortType
<1>2. \A i \in 1..timecnt(sp) : sp.types[i] \in 1..Len(sp.ttis)
  BY DEF Loaded
<1>3. QED BY <1>1, <1>2, DefaultTypeInTable DEF TypeOf

\* The type found inside the table is one of its types.
LEMMA TypeInTableType ==
  ASSUME NEW sp, Loaded(sp), Spaced(sp), NEW t \in Int
  PROVE  TypeInTable(sp, t) \in ShortType
<1>1. CASE timecnt(sp) = 0 \/ t < sp.ats[1]
  BY <1>1, ShortTypes DEF TypeInTable
<1>2. CASE ~ (timecnt(sp) = 0 \/ t < sp.ats[1])
  <2>1. timecnt(sp) # 0 /\ sp.ats[1] <= t
    BY <1>2, LoadedParts
  <2>2. IsSegment(sp, t, Segment(sp, t))
    BY <2>1, SegmentExists
  <2> QED BY <1>2, <2>2, ShortTypes DEF TypeInTable, IsSegment
<1>3. QED BY <1>1, <1>2

(***************************************************************************)
(* What the result r of a boundary search from t says of a lookup type(u),  *)
(* stated for a function f of instants: without a boundary the type is      *)
(* r.before for two days, with one it is r.before up to the boundary and    *)
(* r.after from there on.                                                   *)
(***************************************************************************)
Truthful(r, t, f) ==
  \/ /\ r.res = 0
     /\ r.before \in ShortType
     /\ \A u \in Int : t <= u /\ u < t + 2 * SECS_PER_DAY => f[u] = r.before
  \/ /\ r.res = 1
     /\ r.before \in ShortType /\ r.after \in ShortType
     /\ r.boundary \in Int /\ t < r.boundary
     /\ \A u \in Int : t <= u /\ u < t + 2 * SECS_PER_DAY =>
           f[u] = IF u < r.boundary THEN r.before ELSE r.after

InTable(sp) == [u \in Int |-> TypeInTable(sp, u)]
InForce(sp) == [u \in Int |-> TypeAt(sp, u)]

\* The search inside the table is truthful.
LEMMA NextInTableTruthful ==
  ASSUME NEW sp, Loaded(sp), Spaced(sp), NEW t \in Int
  PROVE  Truthful(NextInTable(sp, t), t, InTable(sp))
<1> DEFINE n == timecnt(sp)
           r == NextInTable(sp, t)
           f == InTable(sp)
<1>1. /\ n \in Nat
      /\ \A k \in 1..n : sp.ats[k] \in Int /\ TypeOf(sp, k) \in ShortType
      /\ \A k, m \in 1..n : k < m => sp.ats[m] - sp.ats[k] >= 2 * SECS_PER_DAY
      /\ SECS_PER_DAY \in Nat
  BY LoadedParts, ShortTypes, ZoneAssumption DEF Spaced
<1>2. DefaultType(sp) \in ShortType
  BY ShortTypes
<1>3. \A u \in Int : f[u] = TypeInTable(sp, u)
  BY DEF InTable
<1>4. CASE n = 0
  <2>1. r = NoBoundary(DefaultType(sp))
    BY <1>4 DEF NextInTable
  <2>2. \A u \in Int : f[u] = DefaultType(sp)
    BY <1>3, <1>4 DEF TypeInTable
  <2> QED BY <1>2, <2>1, <2>2 DEF Truthful, NoBoundary
<1>5. CASE n # 0 /\ t >= sp.ats[n]
  <2>1. r = NoBoundary(TypeOf(sp, n))
    BY <1>5 DEF NextInTable
  <2>2. ASSUME NEW u \in Int, t <= u PROVE f[u] = TypeOf(sp, n)
    <3>1. IsSegment(sp, u, n) BY <1>1, <1>5, <2>2 DEF IsSegment
    <3> QED BY <1>3, <3>1, SegmentType
  <2> QED BY <1>1, <1>5, <2>1, <2>2 DEF Truthful, NoBoundary
<1>6. CASE n # 0 /\ t < sp.ats[n] /\ t < sp.ats[1]
  <2>1. r = Boundary(DefaultType(sp), sp.ats[1], TypeOf(sp, 1))
    BY <1>1, <1>6 DEF NextInTable
  <2>2. ASSUME NEW u \in Int, u < t + 2 * SECS_PER_DAY, ~ (u < sp.ats[1])
        PROVE  f[u] = TypeOf(sp, 1)
    <3>1. 1 < n => u < sp.ats[2]
      BY <1>1, <1>6, <2>2
    <3>2. IsSegment(sp, u, 1) BY <1>1, <1>6, <2>2, <3>1 DEF IsSegment
    <3> QED BY <1>3, <3>2, SegmentType
  <2>3. ASSUME NEW u \in Int, u < sp.ats[1] PROVE f[u] = DefaultType(sp)
    BY <1>3, <2>3 DEF TypeInTable
  <2> QED BY <1>1, <1>2, <1>6, <2>1, <2>2, <2>3 DEF Truthful, Boundary
<1>7. CASE n # 0 /\ t < sp.ats[n] /\ ~ (t < sp.ats[1])
  <2> DEFINE i == Segment(sp, t)
  <2>1. r = Boundary(TypeOf(sp, i), sp.ats[i + 1], TypeOf(sp, i + 1))
    BY <1>1, <1>7 DEF NextInTable
  <2>2. IsSegment(sp, t, i)
    BY <1>1, <1>7, SegmentExists
  <2>3. i \in 1..n /\ i # n /\ sp.ats[i] <= t /\ t < sp.ats[i + 1]
    BY <1>1, <1>7, <2>2 DEF IsSegment
  <2> HIDE DEF i
  <2>4. i + 1 \in 1..n /\ i < n
    BY <1>1, <2>3
  <2>5. ASSUME NEW u \in Int, t <= u, u < sp.ats[i + 1] PROVE f[u] = TypeOf(sp, i)
    <3>1. sp.ats[i] <= u BY <1>1, <2>3, <2>5
    <3>2. IsSegment(sp, u, i) BY <2>3, <2>5, <3>1 DEF IsSegment
    <3> QED BY <1>3, <3>2, SegmentType
  <2>6. ASSUME NEW u \in Int, u < t + 2 * SECS_PER_DAY, ~ (u < sp.ats[i + 1])
        PROVE  f[u] = TypeOf(sp, i + 1)
    <3>1. i + 1 < n => i + 2 \in 1..n /\ i + 1 < i + 2 /\ (i + 1) + 1 = i + 2
      BY <1>1, <2>3, <2>4
    <3>2. i + 1 < n => u < sp.ats[i + 2]
      BY <1>1, <2>3, <2>4, <2>6, <3>1
    <3>3. IsSegment(sp, u, i + 1) BY <1>1, <2>4, <2>6, <3>1, <3>2 DEF IsSegment
    <3> QED BY <1>3, <3>3, SegmentType
  <2> QED BY <1>1, <2>1, <2>3, <2>4, <2>5, <2>6 DEF Truthful, Boundary
<1>8. QED
  BY <1>1, <1>4, <1>5, <1>6, <1>7

----------------------------------------------------------------------------
(* Extrapolation *)

LEMMA DivisionBounds ==
  ASSUME NEW R \in Nat \ {0}, NEW x \in Nat
  PROVE  /\ x \div R \in Nat
         /\ (x \div R) * R \in Nat
         /\ (x \div R) * R <= x
         /\ x < (x \div R) * R + R
  OBVIOUS

\* Two numbers less than R apart differ by one whole R at most.
LEMMA DivisionStep ==
  ASSUME NEW R \in Nat \ {0}, NEW x \in Nat, NEW y \in Nat, x <= y, y < x + R
  PROVE  \/ (y \div R) * R = (x \div R) * R
         \/ (y \div R) * R = (x \div R) * R + R
<1> DEFINE a == x \div R
           b == y \div R
<1>1. /\ a \in Nat /\ a * R \in Nat /\ a * R <= x /\ x < a * R + R
      /\ b \in Nat /\ b * R \in Nat /\ b * R <= y /\ y < b * R + R
  BY DivisionBounds
<1> HIDE DEF a, b
<1>2. b * R < (a + 2) * R /\ a * R < (b + 1) * R
  BY <1>1
<1>3. b = a \/ b = a + 1
  BY <1>1, <1>2
<1>4. b * R = a * R \/ b * R = a * R + R
  BY <1>1, <1>3
<1>5. QED BY <1>4 DEF a, b

\* The whole cycles taken off (or added to) an instant at distance d.
Cycles(d) == ((d - 1) \div SECSPERREPEAT + 1) * SECSPERREPEAT

\* The cycles bring the distance below one cycle, and no further than zero.
LEMMA CyclesReach ==
  ASSUME NEW d \in Nat \ {0}
  PROVE  Cycles(d) \in Nat /\ d <= Cycles(d) /\ Cycles(d) < d + SECSPERREPEAT
<1> DEFINE q == (d - 1) \div SECSPERREPEAT
<1>1. /\ SECSPERREPEAT \in Nat \ {0} /\ d - 1 \in Nat
  BY ZoneAssumption
<1>2. /\ q \in Nat /\ q * SECSPERREPEAT \in Nat
      /\ q * SECSPERREPEAT <= d - 1 /\ d - 1 < q * SECSPERREPEAT + SECSPERREPEAT
  BY <1>1, DivisionBounds
<1>3. Cycles(d) = (q + 1) * SECSPERREPEAT
  BY DEF Cycles
<1> HIDE DEF q
<1>4. (q + 1) * SECSPERREPEAT = q * SECSPERREPEAT + SECSPERREPEAT
  BY <1>1, <1>2
<1>5. QED BY <1>1, <1>2, <1>3, <1>4

LEMMA CyclesStep ==
  ASSUME NEW d \in Nat \ {0}, NEW e \in Nat \ {0}, d <= e, e < d + SECSPERREPEAT
  PROVE  Cycles(e) = Cycles(d) \/ Cycles(e) = Cycles(d) + SECSPERREPEAT
<1> DEFINE q == (d - 1) \div SECSPERREPEAT
           p == (e - 1) \div SECSPERREPEAT
<1>1. /\ SECSPERREPEAT \in Nat \ {0} /\ d - 1 \in Nat /\ e - 1 \in Nat
      /\ d - 1 <= e - 1 /\ e - 1 < (d - 1) + SECSPERREPEAT
  BY ZoneAssumption
<1>2. /\ q \in Nat /\ q * SECSPERREPEAT \in Nat
      /\ p \in Nat /\ p * SECSPERREPEAT \in Nat
  BY <1>1, DivisionBounds
<1>3. \/ p * SECSPERREPEAT = q * SECSPERREPEAT
      \/ p * SECSPERREPEAT = q * SECSPERREPEAT + SECSPERREPEAT
  BY <1>1, DivisionStep
<1>4. Cycles(d) = (q + 1) * SECSPERREPEAT /\ Cycles(e) = (p + 1) * SECSPERREPEAT
  BY DEF Cycles
<1> HIDE DEF q, p
<1>5. /\ (q + 1) * SECSPERREPEAT = q * SECSPERREPEAT + SECSPERREPEAT
      /\ (p + 1) * SECSPERREPEAT = p * SECSPERREPEAT + SECSPERREPEAT
  BY <1>1, <1>2
<1>6. QED BY <1>1, <1>2, <1>3, <1>4, <1>5

\* A distance of at most a cycle is covered by one cycle.
LEMMA OneCycle ==
  ASSUME NEW d \in Nat \ {0}, d <= SECSPERREPEAT
  PROVE  Cycles(d) = SECSPERREPEAT
<1>1. SECSPERREPEAT \in Nat \ {0} /\ d - 1 \in Nat /\ d - 1 < SECSPERREPEAT
  BY ZoneAssumption
<1>2. (d - 1) \div SECSPERREPEAT = 0
  BY <1>1
<1>3. QED BY <1>1, <1>2 DEF Cycles

\* One cycle further off takes one cycle more.
LEMMA CyclesNext ==
  ASSUME NEW d \in Nat \ {0}
  PROVE  Cycles(d + SECSPERREPEAT) = Cycles(d) + SECSPERREPEAT
<1> DEFINE R == SECSPERREPEAT
           x == d - 1
           q == x \div R
           p == (x + R) \div R
<1>1. R \in Nat \ {0} /\ x \in Nat /\ x + R \in Nat
  BY ZoneAssumption
<1>2. /\ q \in Nat /\ q * R \in Nat /\ q * R <= x /\ x < q * R + R
      /\ p \in Nat /\ p * R \in Nat /\ p * R <= x + R /\ x + R < p * R + R
  BY <1>1, DivisionBounds
<1>3. (d + R) - 1 = x + R
  BY <1>1
<1>4. Cycles(d) = (q + 1) * R /\ Cycles(d + R) = (p + 1) * R
  BY <1>3 DEF Cycles
<1> HIDE DEF q, p, x, R
<1>5. p * R < (q + 2) * R /\ (q + 1) * R < (p + 1) * R
  <2>1. (q + 2) * R = q * R + R + R /\ (q + 1) * R = q * R + R /\ (p + 1) * R = p * R + R
    BY <1>1, <1>2
  <2> QED BY <1>1, <1>2, <2>1
<1>6. p = q + 1
  BY <1>1, <1>2, <1>5
<1>7. (p + 1) * R = (q + 1) * R + R
  BY <1>1, <1>2, <1>6
<1>8. QED BY <1>4, <1>7 DEF R

\* For two days from a transition on, its type is the one found.
LEMMA SegmentStart ==
  ASSUME NEW sp, Loaded(sp), Spaced(sp), NEW k \in 1..timecnt(sp), NEW v \in Int,
         sp.ats[k] <= v, v < sp.ats[k] + 2 * SECS_PER_DAY
  PROVE  TypeInTable(sp, v) = TypeOf(sp, k)
<1> DEFINE n == timecnt(sp)
<1>1. /\ n \in Nat /\ SECS_PER_DAY \in Nat
      /\ \A i \in 1..n : sp.ats[i] \in Int
      /\ \A i, j \in 1..n : i < j => sp.ats[j] - sp.ats[i] >= 2 * SECS_PER_DAY
  BY LoadedParts, ZoneAssumption DEF Spaced
<1>2. k < n => k + 1 \in 1..n /\ k < k + 1
  BY <1>1
<1>3. k < n => v < sp.ats[k + 1]
  BY <1>1, <1>2
<1>4. IsSegment(sp, v, k)
  BY <1>3 DEF IsSegment
<1>5. QED BY <1>4, SegmentType

\* From the last transition on, its type is the one found.
LEMMA LastSegment ==
  ASSUME NEW sp, Loaded(sp), timecnt(sp) # 0, NEW v \in Int,
         sp.ats[timecnt(sp)] <= v
  PROVE  TypeInTable(sp, v) = TypeOf(sp, timecnt(sp))
<1>1. IsSegment(sp, v, timecnt(sp))
  BY LoadedParts DEF IsSegment
<1>2. QED BY <1>1, SegmentType

----------------------------------------------------------------------------
(* After the last transition of a table that goes ahead *)

\* One cycle before the last transition the same type began.
LEMMA AheadTable ==
  ASSUME NEW sp, Loaded(sp), Spaced(sp), sp.goahead
  PROVE  LET n == timecnt(sp) IN
         /\ n \in Nat \ {0} /\ sp.ats[n] \in Int /\ sp.ats[1] \in Int
         /\ sp.ats[1] <= sp.ats[n] - SECSPERREPEAT
         /\ 2 * SECS_PER_DAY <= SECSPERREPEAT
         /\ \A v \in Int : /\ sp.ats[n] - SECSPERREPEAT <= v
                           /\ v < sp.ats[n] - SECSPERREPEAT + 2 * SECS_PER_DAY
                           => TypeInTable(sp, v) = TypeOf(sp, n)
<1> DEFINE n == timecnt(sp)
<1>1. PICK k \in 1..(n - 1) : Extends(sp, k, n)
  BY DEF Loaded
<1>2. /\ n \in Nat /\ k \in 1..n /\ n \in 1..n /\ 1 \in 1..n /\ k < n
      /\ \A i \in 1..n : sp.ats[i] \in Int
      /\ \A i, j \in 1..n : i < j => sp.ats[i] < sp.ats[j]
      /\ \A i, j \in 1..n : i < j => sp.ats[j] - sp.ats[i] >= 2 * SECS_PER_DAY
      /\ SECSPERREPEAT \in Nat /\ SECS_PER_DAY \in Nat
  BY <1>1, LoadedParts, ZoneAssumption DEF Spaced
<1>3. sp.ats[k] = sp.ats[n] - SECSPERREPEAT /\ TypeOf(sp, k) = TypeOf(sp, n)
  BY <1>1, <1>2 DEF Extends
<1>4. sp.ats[1] <= sp.ats[k]
  BY <1>2
<1>5. ASSUME NEW v \in Int, sp.ats[k] <= v, v < sp.ats[k] + 2 * SECS_PER_DAY
      PROVE  TypeInTable(sp, v) = TypeOf(sp, k)
  BY <1>2, <1>5, SegmentStart
<1>6. sp.ats[n] - sp.ats[k] >= 2 * SECS_PER_DAY
  BY <1>2
<1>7. QED BY <1>2, <1>3, <1>4, <1>5, <1>6

LEMMA AheadType ==
  ASSUME NEW sp, Loaded(sp), Spaced(sp), sp.goahead,
         NEW t \in Int, t > sp.ats[timecnt(sp)]
  PROVE  LET last == sp.ats[timecnt(sp)]
             c == Cycles(t - last)
         IN  /\ c \in Nat /\ last - SECSPERREPEAT < t - c /\ t - c <= last
             /\ CycleShift(sp, t) = -c
             /\ Extrapolated(sp, t) /\ ~ LookupFails(sp, t)
             /\ TypeAt(sp, t) = TypeInTable(sp, t - c)
<1> DEFINE last == sp.ats[timecnt(sp)]
           c == Cycles(t - last)
<1>1. /\ last \in Int /\ sp.ats[1] \in Int /\ sp.ats[1] <= last - SECSPERREPEAT
      /\ SECSPERREPEAT \in Nat
  BY AheadTable, ZoneAssumption
<1>2. t - last \in Nat \ {0}
  BY <1>1
<1>3. c \in Nat /\ t - last <= c /\ c < (t - last) + SECSPERREPEAT
  BY <1>2, CyclesReach
<1>4. Extrapolated(sp, t) /\ ~ (t < sp.ats[1])
  BY <1>1 DEF Extrapolated
<1>5. CycleShift(sp, t) = -c
  BY <1>4 DEF CycleShift, Cycles
<1> HIDE DEF c
<1>6. t + CycleShift(sp, t) = t - c
  BY <1>3, <1>5
<1>7. last - SECSPERREPEAT < t - c /\ t - c <= last
  BY <1>1, <1>3
<1>8. ~ LookupFails(sp, t)
  BY <1>1, <1>3, <1>6, <1>7 DEF LookupFails
<1>9. TypeAt(sp, t) = TypeInTable(sp, t - c)
  BY <1>4, <1>6 DEF TypeAt
<1>10. QED BY <1>3, <1>4, <1>5, <1>7, <1>8, <1>9 DEF c

\* Two days around the last transition, the extrapolated type is the last one.
LEMMA AheadNear ==
  ASSUME NEW sp, Loaded(sp), Spaced(sp), sp.goahead, NEW u \in Int,
         sp.ats[timecnt(sp)] < u, u < sp.ats[timecnt(sp)] + 2 * SECS_PER_DAY
  PROVE  TypeAt(sp, u) = TypeInTable(sp, u)
<1> DEFINE n == timecnt(sp)
           last == sp.ats[n]
<1>1. /\ n \in Nat \ {0} /\ last \in Int /\ 2 * SECS_PER_DAY <= SECSPERREPEAT
      /\ SECSPERREPEAT \in Nat /\ SECS_PER_DAY \in Nat
      /\ \A v \in Int : /\ last - SECSPERREPEAT <= v
                        /\ v < last - SECSPERREPEAT + 2 * SECS_PER_DAY
                        => TypeInTable(sp, v) = TypeOf(sp, n)
  BY AheadTable, ZoneAssumption
<1>2. u - last \in Nat \ {0} /\ u - last <= SECSPERREPEAT
  BY <1>1
<1>3. Cycles(u - last) = SECSPERREPEAT
  BY <1>2, OneCycle
<1>4. TypeAt(sp, u) = TypeInTable(sp, u - SECSPERREPEAT)
  BY <1>1, <1>3, AheadType
<1>5. TypeInTable(sp, u - SECSPERREPEAT) = TypeOf(sp, n)
  BY <1>1
<1>6. TypeInTable(sp, u) = TypeOf(sp, n)
  BY <1>1, LastSegment
<1>7. QED BY <1>4, <1>5, <1>6

\* Within two days of t the shift of t is the right one for every instant.
LEMMA AheadWindow ==
  ASSUME NEW sp, Loaded(sp), Spaced(sp), sp.goahead,
         NEW t \in Int, t > sp.ats[timecnt(sp)],
         NEW u \in Int, t <= u, u < t + 2 * SECS_PER_DAY
  PROVE  TypeAt(sp, u) = TypeInTable(sp, u - Cycles(t - sp.ats[timecnt(sp)]))
<1> DEFINE n == timecnt(sp)
           last == sp.ats[n]
           c == Cycles(t - last)
           e == Cycles(u - last)
<1>1. /\ n \in Nat \ {0} /\ last \in Int /\ 2 * SECS_PER_DAY <= SECSPERREPEAT
      /\ SECSPERREPEAT \in Nat /\ SECS_PER_DAY \in Nat
      /\ \A v \in Int : /\ last - SECSPERREPEAT <= v
                        /\ v < last - SECSPERREPEAT + 2 * SECS_PER_DAY
                        => TypeInTable(sp, v) = TypeOf(sp, n)
  BY AheadTable, ZoneAssumption
<1>2. /\ c \in Nat /\ last - SECSPERREPEAT < t - c /\ t - c <= last
      /\ e \in Nat /\ last - SECSPERREPEAT < u - e /\ u - e <= last
      /\ TypeAt(sp, u) = TypeInTable(sp, u - e)
  BY <1>1, AheadType
<1>3. e = c \/ e = c + SECSPERREPEAT
  BY <1>1, CyclesStep
<1> HIDE DEF c, e
<1>4. CASE e = c
  BY <1>2, <1>4 DEF c
<1>5. CASE e = c + SECSPERREPEAT
  <2>1. /\ u - e \in Int /\ last - SECSPERREPEAT <= u - e
        /\ u - e < last - SECSPERREPEAT + 2 * SECS_PER_DAY
    BY <1>1, <1>2, <1>5
  <2>2. TypeInTable(sp, u - e) = TypeOf(sp, n)
    BY <1>1, <2>1
  <2>3. u - c \in Int /\ last <= u - c
    BY <1>1, <1>2, <1>5
  <2>4. TypeInTable(sp, u - c) = TypeOf(sp, n)
    BY <1>1, <2>3, LastSegment
  <2> QED BY <1>2, <2>2, <2>4 DEF c
<1>6. QED BY <1>3, <1>4, <1>5

----------------------------------------------------------------------------
(* Before the first transition of a table that goes back *)

\* One cycle after the first transition the same type began again.
LEMMA BackTable ==
  ASSUME NEW sp, Loaded(sp), Spaced(sp), sp.goback
  PROVE  LET first == sp.ats[1]
         IN
         /\ 1 \in 1..timecnt(sp) /\ timecnt(sp) \in Nat \ {0}
         /\ first \in Int /\ sp.ats[timecnt(sp)] \in Int
         /\ first + SECSPERREPEAT <= sp.ats[timecnt(sp)]
         /\ 2 * SECS_PER_DAY <= SECSPERREPEAT
         /\ \A v \in Int : /\ first + SECSPERREPEAT <= v
                           /\ v < first + SECSPERREPEAT + 2 * SECS_PER_DAY
                           => TypeInTable(sp, v) = TypeOf(sp, 1)
         /\ \A v \in Int : first <= v /\ v < first + 2 * SECS_PER_DAY
                           => TypeInTable(sp, v) = TypeOf(sp, 1)
<1> DEFINE n == timecnt(sp)
           first == sp.ats[1]
<1>1. PICK j \in 2..n : Extends(sp, 1, j)
  BY DEF Loaded
<1>2. /\ n \in Nat /\ j \in 1..n /\ n \in 1..n /\ 1 \in 1..n /\ 1 < j
      /\ \A i \in 1..n : sp.ats[i] \in Int
      /\ \A i, k \in 1..n : i < k => sp.ats[i] < sp.ats[k]
      /\ \A i, k \in 1..n : i < k => sp.ats[k] - sp.ats[i] >= 2 * SECS_PER_DAY
      /\ SECSPERREPEAT \in Nat /\ SECS_PER_DAY \in Nat
  BY <1>1, LoadedParts, ZoneAssumption DEF Spaced
<1>3. sp.ats[j] = first + SECSPERREPEAT /\ TypeOf(sp, j) = TypeOf(sp, 1)
  BY <1>1, <1>2 DEF Extends
<1>4. sp.ats[j] <= sp.ats[n]
  BY <1>2
<1>5. ASSUME NEW v \in Int, sp.ats[j] <= v, v < sp.ats[j] + 2 * SECS_PER_DAY
      PROVE  TypeInTable(sp, v) = TypeOf(sp, j)
  BY <1>2, <1>5, SegmentStart
<1>6. ASSUME NEW v \in Int, first <= v, v < first + 2 * SECS_PER_DAY
      PROVE  TypeInTable(sp, v) = TypeOf(sp, 1)
  BY <1>2, <1>6, SegmentStart
<1>7. sp.ats[j] - first >= 2 * SECS_PER_DAY
  BY <1>2
<1>8. QED BY <1>2, <1>3, <1>4, <1>5, <1>6, <1>7

LEMMA BackType ==
  ASSUME NEW sp, Loaded(sp), Spaced(sp), sp.goback,
         NEW t \in Int, t < sp.ats[1]
  PROVE  LET first == sp.ats[1]
             c == Cycles(first - t)
         IN  /\ c \in Nat /\ first <= t + c /\ t + c < first + SECSPERREPEAT
             /\ CycleShift(sp, t) = c
             /\ Extrapolated(sp, t) /\ ~ LookupFails(sp, t)
             /\ TypeAt(sp, t) = TypeInTable(sp, t + c)
<1> DEFINE first == sp.ats[1]
           c == Cycles(first - t)
<1>1. /\ first \in Int /\ sp.ats[timecnt(sp)] \in Int
      /\ first + SECSPERREPEAT <= sp.ats[timecnt(sp)]
      /\ SECSPERREPEAT \in Nat
  BY BackTable, ZoneAssumption
<1>2. first - t \in Nat \ {0}
  BY <1>1
<1>3. c \in Nat /\ first - t <= c /\ c < (first - t) + SECSPERREPEAT
  BY <1>2, CyclesReach
<1>4. Extrapolated(sp, t)
  BY DEF Extrapolated
<1>5. CycleShift(sp, t) = c
  BY DEF CycleShift, Cycles
<1> HIDE DEF c
<1>6. first <= t + c /\ t + c < first + SECSPERREPEAT
  BY <1>1, <1>3
<1>7. ~ LookupFails(sp, t)
  BY <1>1, <1>3, <1>5, <1>6 DEF LookupFails
<1>8. TypeAt(sp, t) = TypeInTable(sp, t + c)
  BY <1>4, <1>5 DEF TypeAt
<1>9. QED BY <1>3, <1>4, <1>5, <1>6, <1>7, <1>8 DEF c

\* Within two days of t the shift of t is the right one for every instant.
LEMMA BackWindow ==
  ASSUME NEW sp, Loaded(sp), Spaced(sp), sp.goback,
         NEW t \in Int, t < sp.ats[1],
         NEW u \in Int, t <= u, u < t + 2 * SECS_PER_DAY
  PROVE  TypeAt(sp, u) = TypeInTable(sp, u + Cycles(sp.ats[1] - t))
<1> DEFINE first == sp.ats[1]
           c == Cycles(first - t)
           e == Cycles(first - u)
<1>1. /\ timecnt(sp) \in Nat \ {0} /\ first \in Int /\ sp.ats[timecnt(sp)] \in Int
      /\ 2 * SECS_PER_DAY <= SECSPERREPEAT
      /\ first + SECSPERREPEAT <= sp.ats[timecnt(sp)]
      /\ SECSPERREPEAT \in Nat /\ SECS_PER_DAY \in Nat
      /\ \A v \in Int : /\ first + SECSPERREPEAT <= v
                        /\ v < first + SECSPERREPEAT + 2 * SECS_PER_DAY
                        => TypeInTable(sp, v) = TypeOf(sp, 1)
      /\ \A v \in Int : first <= v /\ v < first + 2 * SECS_PER_DAY
                        => TypeInTable(sp, v) = TypeOf(sp, 1)
  BY BackTable, ZoneAssumption
<1>2. /\ c \in Nat /\ first <= t + c /\ t + c < first + SECSPERREPEAT
  BY <1>1, BackType
<1>3. CASE u < first
  <2>1. /\ e \in Nat /\ first <= u + e /\ u + e < first + SECSPERREPEAT
        /\ TypeAt(sp, u) = TypeInTable(sp, u + e)
    BY <1>1, <1>3, BackType
  <2>2. c = e \/ c = e + SECSPERREPEAT
    BY <1>1, <1>3, CyclesStep
  <2> HIDE DEF c, e
  <2>3. CASE c = e
    BY <2>1, <2>3 DEF c
  <2>4. CASE c = e + SECSPERREPEAT
    <3>1. /\ u + e \in Int /\ first <= u + e /\ u + e < first + 2 * SECS_PER_DAY
      BY <1>1, <1>2, <2>1, <2>4
    <3>2. /\ u + c \in Int /\ first + SECSPERREPEAT <= u + c
          /\ u + c < first + SECSPERREPEAT + 2 * SECS_PER_DAY
      BY <1>1, <1>2, <2>1, <2>4, <3>1
    <3>3. TypeInTable(sp, u + e) = TypeOf(sp, 1)
      BY <1>1, <3>1
    <3>4. TypeInTable(sp, u + c) = TypeOf(sp, 1)
      BY <1>1, <3>2
    <3> QED BY <2>1, <3>3, <3>4 DEF c
  <2> QED BY <2>2, <2>3, <2>4
<1>4. CASE first <= u
  <2>1. first - t \in Nat \ {0} /\ first - t <= SECSPERREPEAT
    BY <1>1, <1>4
  <2>2. c = SECSPERREPEAT
    BY <2>1, OneCycle
  <2>3. u < first + 2 * SECS_PER_DAY /\ u <= sp.ats[timecnt(sp)]
    BY <1>1, <1>4
  <2>4. ~ Extrapolated(sp, u)
    BY <1>1, <1>4, <2>3 DEF Extrapolated
  <2>5. TypeAt(sp, u) = TypeOf(sp, 1)
    BY <1>1, <1>4, <2>3, <2>4 DEF TypeAt
  <2>6. /\ u + SECSPERREPEAT \in Int
        /\ first + SECSPERREPEAT <= u + SECSPERREPEAT
        /\ u + SECSPERREPEAT < first + SECSPERREPEAT + 2 * SECS_PER_DAY
    BY <1>1, <1>4, <2>3
  <2>7. TypeInTable(sp, u + SECSPERREPEAT) = TypeOf(sp, 1)
    BY <1>1, <2>6
  <2> QED BY <2>2, <2>5, <2>7
<1>5. QED BY <1>1, <1>3, <1>4

----------------------------------------------------------------------------
(* The lookups of the code *)

\* A truthful answer about t + s, moved back by s, is truthful about t if the
\* types found around t are those found around t + s.
LEMMA TruthfulMoved ==
  ASSUME NEW r, NEW f, NEW g, NEW s \in Int, NEW t \in Int,
         Truthful(r, t + s, f),
         \A u \in Int : t <= u /\ u < t + 2 * SECS_PER_DAY => g[u] = f[u + s]
  PROVE  Truthful(MovedBack(r, s), t, g)
<1> SECS_PER_DAY \in Nat
  BY ZoneAssumption
<1>1. CASE r.res = 0
  <2>1. ASSUME NEW u \in Int, t <= u, u < t + 2 * SECS_PER_DAY
        PROVE  g[u] = r.before
    <3>1. u + s \in Int /\ t + s <= u + s /\ u + s < (t + s) + 2 * SECS_PER_DAY
      BY <2>1
    <3> QED BY <1>1, <2>1, <3>1 DEF Truthful
  <2> QED BY <1>1, <2>1 DEF Truthful, MovedBack
<1>2. CASE r.res = 1
  <2> DEFINE p == r.before
             b == r.boundary
             q == r.after
  <2>1. b \in Int /\ t + s < b /\ p \in ShortType /\ q \in ShortType
    BY <1>2 DEF Truthful
  <2>2. ASSUME NEW u \in Int, t <= u, u < t + 2 * SECS_PER_DAY
        PROVE  g[u] = IF u < b - s THEN p ELSE q
    <3>1. u + s \in Int /\ t + s <= u + s /\ u + s < (t + s) + 2 * SECS_PER_DAY
      BY <2>2
    <3>2. f[u + s] = IF u + s < b THEN p ELSE q
      BY <1>2, <3>1 DEF Truthful
    <3>3. u + s < b <=> u < b - s
      BY <2>1
    <3> QED BY <2>2, <3>2, <3>3
  <2>3. Truthful(Boundary(p, b - s, q), t, g)
    BY <2>1, <2>2 DEF Truthful, Boundary
  <2> QED BY <1>2, <2>3 DEF MovedBack
<1>3. QED BY <1>1, <1>2 DEF Truthful

(***************************************************************************)
(* Whatever the table, the instant and the extrapolation, localsub does not *)
(* fail and finds a type of the table (localsub.c:25-102).                  *)
(***************************************************************************)
THEOREM LookupSucceeds ==
  ASSUME NEW sp, Loaded(sp), Spaced(sp), NEW t \in Int
  PROVE  ~ LookupFails(sp, t) /\ TypeAt(sp, t) \in ShortType
<1>1. CASE ~ Extrapolated(sp, t)
  BY <1>1, TypeInTableType DEF LookupFails, TypeAt
<1>2. CASE sp.goback /\ t < sp.ats[1]
  BY <1>2, BackTable, BackType, TypeInTableType
<1>3. CASE sp.goahead /\ t > sp.ats[timecnt(sp)]
  <2>1. Cycles(t - sp.ats[timecnt(sp)]) \in Nat
    BY <1>3, AheadType
  <2> QED BY <1>3, <2>1, AheadType, TypeInTableType
<1>4. QED BY <1>1, <1>2, <1>3 DEF Extrapolated

(***************************************************************************)
(* pg_next_dst_boundary tells the truth about the two days after t: which   *)
(* type is in force, where it changes and to what (pg_next_dst_boundary.c:  *)
(* 26-156), inside the table and extrapolated outside it.                   *)
(***************************************************************************)
THEOREM NextBoundaryTruthful ==
  ASSUME NEW sp, Loaded(sp), Spaced(sp), NEW t \in Int
  PROVE  Truthful(pg_next_dst_boundary(sp, t), t, InForce(sp))
<1> DEFINE n == timecnt(sp)
           s == CycleShift(sp, t)
           r == NextInTable(sp, t + s)
<1>0. SECS_PER_DAY \in Nat /\ n \in Nat
  BY ZoneAssumption, LoadedParts
<1>1. CASE ~ Extrapolated(sp, t)
  <2>1. pg_next_dst_boundary(sp, t) = NextInTable(sp, t)
    BY <1>1 DEF pg_next_dst_boundary, LookupFails
  <2>2. ASSUME NEW u \in Int, t <= u, u < t + 2 * SECS_PER_DAY
        PROVE  TypeAt(sp, u) = TypeInTable(sp, u)
    <3>1. CASE ~ Extrapolated(sp, u)
      BY <3>1 DEF TypeAt
    <3>2. CASE Extrapolated(sp, u)
      <4>1. sp.goback => sp.ats[1] \in Int
        BY BackTable
      <4>2. sp.goahead /\ u > sp.ats[n]
        BY <1>1, <2>2, <3>2, <4>1 DEF Extrapolated
      <4>3. sp.ats[n] \in Int
        BY <4>2, AheadTable
      <4>4. t <= sp.ats[n]
        BY <1>1, <4>2, <4>3 DEF Extrapolated
      <4>5. sp.ats[n] < u /\ u < sp.ats[n] + 2 * SECS_PER_DAY
        BY <1>0, <2>2, <4>2, <4>3, <4>4
      <4> QED BY <4>2, <4>5, AheadNear
    <3> QED BY <3>1, <3>2
  <2>3. Truthful(NextInTable(sp, t), t + 0, InTable(sp))
    BY NextInTableTruthful
  <2>4. \A u \in Int : t <= u /\ u < t + 2 * SECS_PER_DAY =>
           InForce(sp)[u] = InTable(sp)[u]
    BY <2>2 DEF InForce, InTable
  <2> QED BY <2>1, <2>3, <2>4 DEF Truthful
<1>2. CASE Extrapolated(sp, t)
  <2>1. s \in Int /\ ~ LookupFails(sp, t)
    <3>1. CASE sp.goback /\ t < sp.ats[1]
      BY <3>1, BackType
    <3>2. CASE sp.goahead /\ t > sp.ats[n]
      <4>1. Cycles(t - sp.ats[n]) \in Nat
        BY <3>2, AheadType
      <4> QED BY <3>2, <4>1, AheadType
    <3> QED BY <1>2, <3>1, <3>2 DEF Extrapolated
  <2>2. pg_next_dst_boundary(sp, t) = MovedBack(r, s)
    BY <1>2, <2>1 DEF pg_next_dst_boundary
  <2>3. Truthful(r, t + s, InTable(sp))
    BY <2>1, NextInTableTruthful
  <2>4. ASSUME NEW u \in Int, t <= u, u < t + 2 * SECS_PER_DAY
        PROVE  TypeAt(sp, u) = TypeInTable(sp, u + s)
    <3>1. CASE sp.goback /\ t < sp.ats[1]
      BY <2>4, <3>1, BackType, BackWindow
    <3>2. CASE sp.goahead /\ t > sp.ats[n]
      <4>1. Cycles(t - sp.ats[n]) \in Nat /\ s = -Cycles(t - sp.ats[n])
        BY <3>2, AheadType
      <4>2. u + s = u - Cycles(t - sp.ats[n])
        BY <4>1
      <4> QED BY <2>4, <3>2, <4>2, AheadWindow
    <3> QED BY <1>2, <3>1, <3>2 DEF Extrapolated
  <2>5. \A u \in Int : t <= u /\ u < t + 2 * SECS_PER_DAY =>
           InForce(sp)[u] = InTable(sp)[u + s]
    BY <2>1, <2>4 DEF InForce, InTable
  <2> HIDE DEF r, s
  <2> QED BY <2>1, <2>2, <2>3, <2>5, TruthfulMoved
<1>3. QED BY <1>1, <1>2

----------------------------------------------------------------------------
(* Beyond the table the types repeat *)

\* From one cycle before the last transition on.
LEMMA AheadRepeats ==
  ASSUME NEW sp, Loaded(sp), Spaced(sp), sp.goahead,
         NEW t \in Int, t >= sp.ats[timecnt(sp)] - SECSPERREPEAT
  PROVE  TypeAt(sp, t + SECSPERREPEAT) = TypeAt(sp, t)
<1> DEFINE n == timecnt(sp)
           last == sp.ats[n]
           u == t + SECSPERREPEAT
<1>1. /\ n \in Nat \ {0} /\ last \in Int /\ sp.ats[1] \in Int
      /\ sp.ats[1] <= last - SECSPERREPEAT
      /\ SECSPERREPEAT \in Nat \ {0} /\ SECS_PER_DAY \in Nat \ {0}
      /\ \A v \in Int : /\ last - SECSPERREPEAT <= v
                        /\ v < last - SECSPERREPEAT + 2 * SECS_PER_DAY
                        => TypeInTable(sp, v) = TypeOf(sp, n)
  BY AheadTable, ZoneAssumption
<1>2. u \in Int /\ u >= last
  BY <1>1
<1>3. t <= last => TypeAt(sp, t) = TypeInTable(sp, t)
  <2>1. t <= last => ~ (t < sp.ats[1]) /\ ~ (t > last)
    BY <1>1
  <2> QED BY <2>1 DEF TypeAt, Extrapolated
<1>4. CASE t = last - SECSPERREPEAT
  <2>1. u = last /\ t <= last
    BY <1>1, <1>4
  <2>2. TypeInTable(sp, t) = TypeOf(sp, n)
    BY <1>1, <1>4
  <2>3. ~ (last < sp.ats[1]) /\ ~ (last > last) /\ last <= last
    BY <1>1
  <2>4. TypeAt(sp, last) = TypeInTable(sp, last)
    BY <2>3 DEF TypeAt, Extrapolated
  <2>5. TypeInTable(sp, last) = TypeOf(sp, n)
    BY <1>1, <2>3, LastSegment
  <2> QED BY <1>3, <2>1, <2>2, <2>4, <2>5
<1>5. CASE t # last - SECSPERREPEAT /\ t <= last
  <2>1. u > last /\ u - last \in Nat \ {0} /\ u - last <= SECSPERREPEAT
    BY <1>1, <1>5
  <2>2. Cycles(u - last) = SECSPERREPEAT
    BY <2>1, OneCycle
  <2>3. TypeAt(sp, u) = TypeInTable(sp, u - Cycles(u - last))
    BY <1>2, <2>1, AheadType
  <2>4. u - SECSPERREPEAT = t
    BY <1>1
  <2> QED BY <1>3, <1>5, <2>2, <2>3, <2>4
<1>6. CASE t > last
  <2>1. u > last /\ t - last \in Nat \ {0} /\ u - last = (t - last) + SECSPERREPEAT
    BY <1>1, <1>6
  <2>2. Cycles(u - last) = Cycles(t - last) + SECSPERREPEAT
    BY <2>1, CyclesNext
  <2>3. TypeAt(sp, u) = TypeInTable(sp, u - Cycles(u - last))
    BY <1>2, <2>1, AheadType
  <2>4. TypeAt(sp, t) = TypeInTable(sp, t - Cycles(t - last)) /\ Cycles(t - last) \in Nat
    BY <1>6, AheadType
  <2>5. u - Cycles(u - last) = t - Cycles(t - last)
    BY <1>1, <2>2, <2>4
  <2> QED BY <2>3, <2>4, <2>5
<1>7. QED BY <1>1, <1>4, <1>5, <1>6

\* Up to one cycle after the first transition.
LEMMA BackRepeats ==
  ASSUME NEW sp, Loaded(sp), Spaced(sp), sp.goback,
         NEW t \in Int, t <= sp.ats[1] + SECSPERREPEAT
  PROVE  TypeAt(sp, t - SECSPERREPEAT) = TypeAt(sp, t)
<1> DEFINE first == sp.ats[1]
           last == sp.ats[timecnt(sp)]
           u == t - SECSPERREPEAT
<1>1. /\ first \in Int /\ last \in Int /\ first + SECSPERREPEAT <= last
      /\ SECSPERREPEAT \in Nat \ {0} /\ SECS_PER_DAY \in Nat \ {0}
      /\ \A v \in Int : /\ first + SECSPERREPEAT <= v
                        /\ v < first + SECSPERREPEAT + 2 * SECS_PER_DAY
                        => TypeInTable(sp, v) = TypeOf(sp, 1)
      /\ \A v \in Int : first <= v /\ v < first + 2 * SECS_PER_DAY
                        => TypeInTable(sp, v) = TypeOf(sp, 1)
  BY BackTable, ZoneAssumption
<1>2. u \in Int /\ u <= first
  BY <1>1
<1>3. first <= t => TypeAt(sp, t) = TypeInTable(sp, t)
  <2>1. first <= t => ~ (t < first) /\ ~ (t > last)
    BY <1>1
  <2> QED BY <2>1 DEF TypeAt, Extrapolated
<1>4. CASE t = first + SECSPERREPEAT
  <2>1. u = first /\ first <= t
    BY <1>1, <1>4
  <2>2. TypeInTable(sp, t) = TypeOf(sp, 1) /\ TypeInTable(sp, first) = TypeOf(sp, 1)
    BY <1>1, <1>4
  <2>3. ~ (first < first) /\ ~ (first > last)
    BY <1>1
  <2>4. TypeAt(sp, first) = TypeInTable(sp, first)
    BY <2>3 DEF TypeAt, Extrapolated
  <2> QED BY <1>3, <2>1, <2>2, <2>4
<1>5. CASE t # first + SECSPERREPEAT /\ first <= t
  <2>1. u < first /\ first - u \in Nat \ {0} /\ first - u <= SECSPERREPEAT
    BY <1>1, <1>5
  <2>2. Cycles(first - u) = SECSPERREPEAT
    BY <2>1, OneCycle
  <2>3. TypeAt(sp, u) = TypeInTable(sp, u + Cycles(first - u))
    BY <1>2, <2>1, BackType
  <2>4. u + SECSPERREPEAT = t
    BY <1>1
  <2> QED BY <1>3, <1>5, <2>2, <2>3, <2>4
<1>6. CASE t < first
  <2>1. u < first /\ first - t \in Nat \ {0} /\ first - u = (first - t) + SECSPERREPEAT
    BY <1>1, <1>6
  <2>2. Cycles(first - u) = Cycles(first - t) + SECSPERREPEAT
    BY <2>1, CyclesNext
  <2>3. TypeAt(sp, u) = TypeInTable(sp, u + Cycles(first - u))
    BY <1>2, <2>1, BackType
  <2>4. TypeAt(sp, t) = TypeInTable(sp, t + Cycles(first - t)) /\ Cycles(first - t) \in Nat
    BY <1>6, BackType
  <2>5. u + Cycles(first - u) = t + Cycles(first - t)
    BY <1>1, <2>2, <2>4
  <2> QED BY <2>3, <2>4, <2>5
<1>7. QED BY <1>1, <1>4, <1>5, <1>6

----------------------------------------------------------------------------
(* The boundary search one day back covers every instant that could show l *)

\* No boundary: one type for the whole window.
LEMMA WindowWithoutBoundary ==
  ASSUME NEW sp, Loaded(sp), Spaced(sp), NEW l \in Int, NEW r,
         r = pg_next_dst_boundary(sp, l - SECS_PER_DAY), r.res = 0
  PROVE  /\ r.before \in ShortType
         /\ \A u \in Int : l - SECS_PER_DAY <= u /\ u < l + SECS_PER_DAY
                           => TypeAt(sp, u) = r.before
<1>1. SECS_PER_DAY \in Nat BY ZoneAssumption
<1>2. Truthful(r, l - SECS_PER_DAY, InForce(sp))
  BY <1>1, NextBoundaryTruthful
<1>3. QED BY <1>1, <1>2 DEF Truthful, InForce

\* A boundary: one type before it and one from it on.
LEMMA WindowWithBoundary ==
  ASSUME NEW sp, Loaded(sp), Spaced(sp), NEW l \in Int, NEW r,
         r = pg_next_dst_boundary(sp, l - SECS_PER_DAY), r.res = 1
  PROVE  /\ r.before \in ShortType /\ r.after \in ShortType
         /\ r.boundary \in Int /\ l - SECS_PER_DAY < r.boundary
         /\ \A u \in Int : l - SECS_PER_DAY <= u /\ u < l + SECS_PER_DAY
                           => TypeAt(sp, u) = IF u < r.boundary THEN r.before
                                                                ELSE r.after
<1>1. SECS_PER_DAY \in Nat BY ZoneAssumption
<1>2. Truthful(r, l - SECS_PER_DAY, InForce(sp))
  BY <1>1, NextBoundaryTruthful
<1>3. QED BY <1>1, <1>2 DEF Truthful, InForce

\* The search never fails.
LEMMA SearchResult ==
  ASSUME NEW sp, Loaded(sp), Spaced(sp), NEW t \in Int
  PROVE  pg_next_dst_boundary(sp, t).res \in {0, 1}
BY NextBoundaryTruthful DEF Truthful

\* The instants that show l: the two candidates, each on its own side.
LEMMA Readings ==
  ASSUME NEW sp, Loaded(sp), Spaced(sp), NEW l \in Int, NEW r,
         r = pg_next_dst_boundary(sp, l - SECS_PER_DAY), r.res = 1
  PROVE  LET bt == l - r.before.tt_gmtoff
             at == l - r.after.tt_gmtoff
         IN  /\ bt \in Window(l) /\ at \in Window(l)
             /\ \A u \in Window(l) :
                   Shows(sp, u, l) <=> \/ u = bt /\ bt < r.boundary
                                       \/ u = at /\ at >= r.boundary
             /\ bt < r.boundary => TypeAt(sp, bt) = r.before
             /\ at >= r.boundary => TypeAt(sp, at) = r.after
<1> DEFINE p == r.before
           q == r.after
           b == r.boundary
           D == SECS_PER_DAY
<1>1. /\ D \in Nat /\ b \in Int
      /\ p.tt_gmtoff \in Int /\ -D < p.tt_gmtoff /\ p.tt_gmtoff < D
      /\ q.tt_gmtoff \in Int /\ -D < q.tt_gmtoff /\ q.tt_gmtoff < D
  BY WindowWithBoundary, ZoneAssumption DEF ShortType, ttinfo
<1>2. \A u \in Window(l) : TypeAt(sp, u) = IF u < b THEN p ELSE q
  <2>1. \A u \in Window(l) : u \in Int /\ l - D <= u /\ u < l + D
    BY <1>1 DEF Window
  <2> QED BY <2>1, WindowWithBoundary
<1> DEFINE bt == l - p.tt_gmtoff
           at == l - q.tt_gmtoff
<1>3. bt \in Window(l) /\ at \in Window(l)
  BY <1>1 DEF Window
<1>4. ASSUME NEW u \in Window(l)
      PROVE  Shows(sp, u, l) <=> \/ u = bt /\ bt < b
                                 \/ u = at /\ at >= b
  <2>1. u \in Int BY <1>1 DEF Window
  <2>2. CASE u < b
    <3>1. TypeAt(sp, u) = p BY <1>2, <2>2
    <3>2. Shows(sp, u, l) <=> u + p.tt_gmtoff = l
      BY <3>1 DEF Shows, localsub
    <3> QED BY <1>1, <2>1, <2>2, <3>2
  <2>3. CASE ~ (u < b)
    <3>1. TypeAt(sp, u) = q BY <1>2, <2>3
    <3>2. Shows(sp, u, l) <=> u + q.tt_gmtoff = l
      BY <3>1 DEF Shows, localsub
    <3> QED BY <1>1, <2>1, <2>3, <3>2
  <2> QED BY <2>2, <2>3
<1>5. bt < b => TypeAt(sp, bt) = p
  BY <1>2, <1>3
<1>6. at >= b => TypeAt(sp, at) = q
  <2>1. at >= b => ~ (at < b) BY <1>1
  <2> QED BY <1>2, <1>3, <2>1
<1>7. QED BY <1>3, <1>4, <1>5, <1>6

\* The type chosen is a type of the table, or UTC.
LEMMA ChosenIsShort ==
  ASSUME NEW sp, Loaded(sp), Spaced(sp), NEW l \in Int
  PROVE  DetermineTimeZoneOffset(sp, l) \in ShortType
<1> DEFINE r == pg_next_dst_boundary(sp, l - SECS_PER_DAY)
<1>1. UTC \in ShortType
  BY ZoneAssumption DEF UTC, ShortType, ttinfo
<1>2. r.res \in {0, 1}
  BY SearchResult, ZoneAssumption
<1>3. ChosenType(l, r) \in ShortType
  <2>1. CASE r.res = 0
    BY <2>1, WindowWithoutBoundary DEF ChosenType
  <2>2. CASE r.res = 1
    <3>1. r.before \in ShortType /\ r.after \in ShortType
      BY <2>2, WindowWithBoundary
    <3>2. ChosenType(l, r) \in {r.before, r.after}
      BY <2>2 DEF ChosenType, Preferred
    <3> QED BY <3>1, <3>2
  <2> QED BY <1>2, <2>1, <2>2
<1>4. QED BY <1>1, <1>3 DEF DetermineTimeZoneOffset

\* What is chosen beside a boundary, case by case.
LEMMA ChosenBesideBoundary ==
  ASSUME NEW l \in Int, NEW r, r.res = 1,
         r.boundary \in Int, r.before.tt_gmtoff \in Int, r.after.tt_gmtoff \in Int
  PROVE  LET bt == l - r.before.tt_gmtoff
             at == l - r.after.tt_gmtoff
             b  == r.boundary
         IN  /\ bt <= b /\ at < b => ChosenType(l, r) = r.before
             /\ bt > b /\ at >= b => ChosenType(l, r) = r.after
             /\ ~ (bt <= b /\ at < b) /\ ~ (bt > b /\ at >= b) =>
                   ChosenType(l, r) = IF r.after.tt_isdst THEN r.before ELSE r.after
<1> DEFINE bt == l - r.before.tt_gmtoff
           at == l - r.after.tt_gmtoff
           b  == r.boundary
<1>1. r.res # 0 /\ bt \in Int /\ at \in Int
  OBVIOUS
<1>2. CASE bt <= b /\ at < b
  <2>1. ~ BothAfter(bt, at, b) BY <1>1, <1>2 DEF BothAfter
  <2> QED BY <1>1, <1>2, <2>1 DEF ChosenType, BothBefore
<1>3. CASE bt > b /\ at >= b
  <2>1. ~ BothBefore(bt, at, b) /\ ~ (bt <= b /\ at < b)
    BY <1>1, <1>3 DEF BothBefore
  <2> QED BY <1>1, <1>3, <2>1 DEF ChosenType, BothAfter
<1>4. CASE ~ (bt <= b /\ at < b) /\ ~ (bt > b /\ at >= b)
  BY <1>1, <1>4 DEF ChosenType, BothBefore, BothAfter, Preferred
<1>5. QED BY <1>2, <1>3, <1>4

----------------------------------------------------------------------------
(* What the choice means *)

(***************************************************************************)
(* The instant made of l shows l under the chosen type, or nothing does, or *)
(* l is the one reading that the boundary comparison gets wrong.            *)
(***************************************************************************)
LEMMA ChoiceOccurs ==
  ASSUME NEW sp, Loaded(sp), Spaced(sp), NEW l \in Int, ValidJulian(l)
  PROVE  LET type == DetermineTimeZoneOffset(sp, l)
             u == l - type.tt_gmtoff
         IN  \/ Shows(sp, u, l) /\ TypeAt(sp, u) = type
             \/ \A w \in Window(l) : ~ Shows(sp, w, l)
             \/ TurnsIntoDaylight(sp, l)
<1> DEFINE r == pg_next_dst_boundary(sp, l - SECS_PER_DAY)
           type == ChosenType(l, r)
           D == SECS_PER_DAY
<1>1. D \in Nat /\ r.res \in {0, 1}
  BY SearchResult, ZoneAssumption
<1>2. DetermineTimeZoneOffset(sp, l) = type
  BY <1>1 DEF DetermineTimeZoneOffset
<1>3. CASE r.res = 0
  <2>1. type = r.before BY <1>3 DEF ChosenType
  <2>2. /\ r.before.tt_gmtoff \in Int
        /\ -D < r.before.tt_gmtoff /\ r.before.tt_gmtoff < D
    BY <1>3, WindowWithoutBoundary DEF ShortType, ttinfo
  <2> DEFINE u == l - r.before.tt_gmtoff
  <2>3. u \in Int /\ l - D <= u /\ u < l + D
    BY <1>1, <2>2
  <2>4. TypeAt(sp, u) = r.before
    BY <1>3, <2>3, WindowWithoutBoundary
  <2>5. Shows(sp, u, l)
    BY <2>2, <2>4 DEF Shows, localsub
  <2> QED BY <1>2, <2>1, <2>4, <2>5
<1>4. CASE r.res = 1
  <2> DEFINE p == r.before
             q == r.after
             b == r.boundary
             bt == l - p.tt_gmtoff
             at == l - q.tt_gmtoff
  <2>1. /\ b \in Int /\ l - D < b
        /\ p \in ShortType /\ q \in ShortType
        /\ \A u \in Int : l - D <= u /\ u < l + D
                          => TypeAt(sp, u) = IF u < b THEN p ELSE q
    BY <1>4, WindowWithBoundary
  <2>2. /\ p.tt_gmtoff \in Int /\ q.tt_gmtoff \in Int
        /\ p.tt_isdst \in BOOLEAN /\ q.tt_isdst \in BOOLEAN
        /\ bt \in Int /\ at \in Int
    BY <2>1 DEF ShortType, ttinfo
  <2>3. /\ bt \in Window(l) /\ at \in Window(l)
        /\ \A u \in Window(l) :
              Shows(sp, u, l) <=> (u = bt /\ bt < b) \/ (u = at /\ at >= b)
        /\ bt < b => TypeAt(sp, bt) = p
        /\ at >= b => TypeAt(sp, at) = q
    BY <1>4, Readings
  <2>4. /\ bt <= b /\ at < b => type = p
        /\ bt > b /\ at >= b => type = q
        /\ ~ (bt <= b /\ at < b) /\ ~ (bt > b /\ at >= b) =>
              type = IF q.tt_isdst THEN p ELSE q
    BY <1>4, <2>1, <2>2, ChosenBesideBoundary
  <2> HIDE DEF type, r
  <2>5. ASSUME ~ (bt < b), ~ (at >= b)
        PROVE  \A w \in Window(l) : ~ Shows(sp, w, l)
    BY <2>3, <2>5
  <2>6. CASE bt < b /\ type = p
    BY <1>2, <2>3, <2>6
  <2>7. CASE at >= b /\ type = q
    BY <1>2, <2>3, <2>7
  <2>8. CASE bt = b /\ at >= b /\ type = p /\ q.tt_isdst
    <3>1. /\ b \in Window(l) /\ b - 1 \in Int /\ b - 1 < b
          /\ l - D <= b - 1 /\ b - 1 < l + D
          /\ b \in Int /\ l - D <= b /\ b < l + D
      BY <1>1, <2>1, <2>3, <2>8 DEF Window
    <3>2. TypeAt(sp, b - 1) = p /\ TypeAt(sp, b) = q
      BY <2>1, <3>1
    <3>3. l = b + p.tt_gmtoff /\ q.tt_gmtoff <= p.tt_gmtoff
      BY <2>1, <2>2, <2>8
    <3>4. CASE p = q
      BY <1>2, <2>3, <2>8, <3>4
    <3>5. CASE p # q
      BY <2>8, <3>1, <3>2, <3>3, <3>5 DEF TurnsIntoDaylight
    <3> QED BY <3>4, <3>5
  <2>9. \/ bt < b /\ type = p
        \/ at >= b /\ type = q
        \/ bt = b /\ at >= b /\ type = p /\ q.tt_isdst
        \/ ~ (bt < b) /\ ~ (at >= b)
    BY <2>1, <2>2, <2>4
  <2> QED BY <2>5, <2>6, <2>7, <2>8, <2>9
<1>5. QED BY <1>1, <1>3, <1>4

(***************************************************************************)
(* Daylight time is chosen only where no standard-time reading exists.      *)
(***************************************************************************)
LEMMA ChoiceStandard ==
  ASSUME NEW sp, Loaded(sp), Spaced(sp), NEW l \in Int, ValidJulian(l),
         DetermineTimeZoneOffset(sp, l).tt_isdst
  PROVE  /\ \A u \in Window(l) : Shows(sp, u, l) => TypeAt(sp, u).tt_isdst
         /\ \A c \in Window(l) : ~ SkippedNearStandard(sp, l, c)
<1> DEFINE r == pg_next_dst_boundary(sp, l - SECS_PER_DAY)
           type == ChosenType(l, r)
           D == SECS_PER_DAY
<1>1. D \in Nat \ {0} /\ r.res \in {0, 1}
  BY SearchResult, ZoneAssumption
<1>2. type.tt_isdst
  BY <1>1 DEF DetermineTimeZoneOffset
<1>3. \A u \in Window(l) : /\ u \in Int /\ l - D <= u /\ u < l + D
                           /\ u - 1 \in Int /\ l - D <= u - 1 /\ u - 1 < l + D
  BY <1>1 DEF Window
<1>4. CASE r.res = 0
  <2>1. type = r.before BY <1>4 DEF ChosenType
  <2>2. /\ r.before \in ShortType
        /\ \A u \in Int : l - D <= u /\ u < l + D => TypeAt(sp, u) = r.before
    BY <1>4, WindowWithoutBoundary
  <2>3. ASSUME NEW c \in Window(l) PROVE ~ SkippedNearStandard(sp, l, c)
    <3>1. TypeAt(sp, c - 1) = r.before /\ TypeAt(sp, c) = r.before
      BY <1>3, <2>2
    <3>2. r.before.tt_isdst BY <1>2, <2>1
    <3> QED BY <3>1, <3>2 DEF SkippedNearStandard
  <2> QED BY <1>2, <1>3, <2>1, <2>2, <2>3
<1>5. CASE r.res = 1
  <2> DEFINE p == r.before
             q == r.after
             b == r.boundary
             bt == l - p.tt_gmtoff
             at == l - q.tt_gmtoff
  <2>1. /\ b \in Int /\ p \in ShortType /\ q \in ShortType
        /\ \A u \in Int : l - D <= u /\ u < l + D
                          => TypeAt(sp, u) = IF u < b THEN p ELSE q
    BY <1>5, WindowWithBoundary
  <2>2. /\ p.tt_gmtoff \in Int /\ q.tt_gmtoff \in Int
        /\ p.tt_isdst \in BOOLEAN /\ q.tt_isdst \in BOOLEAN
        /\ bt \in Int /\ at \in Int
    BY <2>1 DEF ShortType, ttinfo
  <2>3. /\ \A u \in Window(l) :
              Shows(sp, u, l) => (u = bt /\ bt < b) \/ (u = at /\ at >= b)
        /\ bt < b => TypeAt(sp, bt) = p
        /\ at >= b => TypeAt(sp, at) = q
    BY <1>5, Readings
  <2>4. /\ bt <= b /\ at < b => type = p
        /\ bt > b /\ at >= b => type = q
        /\ ~ (bt <= b /\ at < b) /\ ~ (bt > b /\ at >= b) =>
              type = IF q.tt_isdst THEN p ELSE q
    BY <1>5, <2>1, <2>2, ChosenBesideBoundary
  <2> HIDE DEF type, r
  <2>5. /\ bt < b => p.tt_isdst
        /\ at >= b => q.tt_isdst
        /\ bt > b /\ at < b => p.tt_isdst /\ q.tt_isdst
    <3>1. CASE bt <= b /\ at < b
      BY <1>2, <2>1, <2>2, <2>4, <3>1
    <3>2. CASE bt > b /\ at >= b
      BY <1>2, <2>1, <2>2, <2>4, <3>2
    <3>3. CASE ~ (bt <= b /\ at < b) /\ ~ (bt > b /\ at >= b)
      <4>1. q.tt_isdst BY <1>2, <2>4, <3>3
      <4>2. p.tt_isdst BY <1>2, <2>4, <3>3, <4>1
      <4> QED BY <4>1, <4>2
    <3> QED BY <3>1, <3>2, <3>3
  <2>6. \A u \in Window(l) : Shows(sp, u, l) => TypeAt(sp, u).tt_isdst
    BY <2>3, <2>5
  <2>7. ASSUME NEW c \in Window(l), SkippedNearStandard(sp, l, c)
        PROVE  FALSE
    <3> DEFINE before == TypeAt(sp, c - 1)
               after == TypeAt(sp, c)
    <3>1. /\ before = IF c - 1 < b THEN p ELSE q
          /\ after = IF c < b THEN p ELSE q
      BY <1>3, <2>1
    <3>2. /\ c + before.tt_gmtoff < l /\ l < c + after.tt_gmtoff
          /\ ~ before.tt_isdst \/ ~ after.tt_isdst
      BY <2>7 DEF SkippedNearStandard
    <3>3. c \in Int BY <1>3
    <3> HIDE DEF before, after
    <3>4. c = b /\ before = p /\ after = q
      <4>1. CASE c < b
        <5>1. before = p /\ after = p BY <2>1, <3>1, <3>3, <4>1
        <5> QED BY <2>2, <3>2, <3>3, <5>1
      <4>2. CASE ~ (c - 1 < b)
        <5>1. before = q /\ after = q BY <2>1, <3>1, <3>3, <4>2
        <5> QED BY <2>2, <3>2, <3>3, <5>1
      <4>3. CASE c = b
        BY <2>1, <3>1, <4>3
      <4> QED BY <2>1, <3>3, <4>1, <4>2, <4>3
    <3>5. bt > b /\ at < b
      BY <2>1, <2>2, <3>2, <3>4
    <3> QED BY <2>5, <3>2, <3>4, <3>5
  <2> QED BY <2>6, <2>7
<1>6. QED BY <1>1, <1>4, <1>5

----------------------------------------------------------------------------
(* The specification *)

\* The fields every decoding step leaves, for the local time l it decoded.
Decoded(l) ==
  LET type == DetermineTimeZoneOffset(session_timezone, l)
  IN  /\ tm.isdst = type.tt_isdst
      /\ tm.tz = -type.tt_gmtoff
      /\ timestamp = l - type.tt_gmtoff

\* The inductive invariant: what was entered is still what is stored.
Inv == TypeOK /\ (Entered => ValidJulian(tm.local) /\ Decoded(tm.local))

\* Decoding a local time keeps the types.
LEMMA DecodeTypes ==
  ASSUME TypeOK, NEW l \in Int, NEW time \in Int, NEW warned \in BOOLEAN,
         NEW op \in {"in", "pl"}, DecodeAndStore(l, op, warned, time)
  PROVE  TypeOK'
<1> DEFINE type == DetermineTimeZoneOffset(session_timezone, l)
<1>1. session_timezone \in Zones BY DEF TypeOK
<1>2. type \in ShortType
  BY <1>1, ChosenIsShort, LocalTimeAssumption
<1>3. /\ type.tt_gmtoff \in Int /\ type.tt_isdst \in BOOLEAN
      /\ -SECS_PER_DAY < -type.tt_gmtoff /\ -type.tt_gmtoff < SECS_PER_DAY
  <2>1. /\ type.tt_gmtoff \in Int /\ type.tt_isdst \in BOOLEAN
        /\ -SECS_PER_DAY < type.tt_gmtoff /\ type.tt_gmtoff < SECS_PER_DAY
    BY <1>2 DEF ShortType, ttinfo
  <2> HIDE DEF type
  <2>2. QED BY <2>1, ZoneAssumption
<1>4. Stored(l, type) \in Int
  BY <1>3 DEF Stored
<1>5. (warned \/ ~ ValidJulian(l)) \in BOOLEAN
  BY DEF ValidJulian
<1> HIDE DEF type
<1>6. /\ tm' \in [local : Int, isdst : BOOLEAN, tz : Int]
      /\ -SECS_PER_DAY < tm'.tz /\ tm'.tz < SECS_PER_DAY
  <2>1. tm' = [local |-> l, isdst |-> type.tt_isdst, tz |-> -type.tt_gmtoff]
    BY DEF DecodeAndStore, type
  <2>2. QED BY <1>3, <2>1
<1>7. timestamp' \in Int
  BY <1>4 DEF DecodeAndStore, type
<1>8. call' \in [op : {"none", "in", "out", "pl"}, warned : BOOLEAN]
  BY <1>5 DEF DecodeAndStore
<1>9. session_timezone' \in Zones
  BY <1>1 DEF DecodeAndStore
<1>10. QED BY <1>6, <1>7, <1>8, <1>9 DEF TypeOK

\* So does adding an interval, in days and seconds.
LEMMA IntervalTypes ==
  ASSUME TypeOK, NEW day \in Int, NEW time \in Int,
         timestamptz_pl_interval(day, time)
  PROVE  TypeOK' /\ call'.op = "pl"
<1>1. SECS_PER_DAY \in Nat /\ LocalTimes \subseteq Int /\ timestamp \in Int
  BY ZoneAssumption, LocalTimeAssumption DEF TypeOK
<1>2. CASE day = 0
  <2>1. /\ timestamp' = timestamp + time
        /\ tm' = [local |-> 0, isdst |-> FALSE, tz |-> 0]
        /\ call' = [op |-> "pl", warned |-> FALSE]
        /\ session_timezone' = session_timezone
    BY <1>2 DEF timestamptz_pl_interval, NoTm
  <2> QED BY <1>1, <2>1 DEF TypeOK
<1>3. CASE day # 0 /\ InRange
  <2> DEFINE here == localsub(session_timezone, timestamp)
             l == here + day * SECS_PER_DAY
  <2>1. here \in Int
    <3>1. TypeAt(session_timezone, timestamp) \in ShortType
      BY LookupSucceeds, LocalTimeAssumption DEF TypeOK
    <3> QED BY <1>1, <3>1 DEF localsub, ShortType, ttinfo
  <2> HIDE DEF here
  <2>2. l \in Int BY <1>1, <2>1
  <2> HIDE DEF l
  <2>3. DecodeAndStore(l, "pl", FALSE, time)
    BY <1>3 DEF timestamptz_pl_interval, l, here
  <2>4. call'.op = "pl" BY <2>3 DEF DecodeAndStore
  <2> QED BY <2>2, <2>3, <2>4, DecodeTypes
<1>4. CASE day # 0 /\ ~ InRange
  <2>1. PICK garbage \in LocalTimes :
           DecodeAndStore(garbage + day * SECS_PER_DAY, "pl", TRUE, time)
    BY <1>4 DEF timestamptz_pl_interval
  <2>2. garbage + day * SECS_PER_DAY \in Int
    BY <1>1
  <2>3. call'.op = "pl" BY <2>1 DEF DecodeAndStore
  <2> QED BY <2>1, <2>2, <2>3, DecodeTypes
<1>5. QED BY <1>2, <1>3, <1>4

LEMMA InitInv == Init => Inv
BY ZoneAssumption DEF Init, Inv, TypeOK, Entered, NoTm

LEMMA NextInv == Inv /\ [Next]_vars => Inv'
<1> SUFFICES ASSUME Inv, [Next]_vars PROVE Inv'
  OBVIOUS
<1>1. TypeOK /\ LocalTimes \subseteq Int /\ Days \subseteq Int /\ Times \subseteq Int
  BY LocalTimeAssumption DEF Inv
<1>2. CASE In
  <2>1. PICK l \in LocalTimes : timestamptz_in(l)
    BY <1>2 DEF In
  <2>2. l \in Int /\ DecodeAndStore(l, "in", FALSE, 0)
    BY <1>1, <2>1 DEF timestamptz_in
  <2>3. TypeOK'
    <3>1. TypeOK /\ 0 \in Int /\ FALSE \in BOOLEAN /\ "in" \in {"in", "pl"}
      BY <1>1
    <3> QED BY <2>2, <3>1, DecodeTypes
  <2>4. ASSUME ~ call'.warned
        PROVE  ValidJulian(tm'.local) /\ Decoded(tm.local)'
    <3> DEFINE type == DetermineTimeZoneOffset(session_timezone, l)
    <3>1. ValidJulian(l)
      BY <2>2, <2>4 DEF DecodeAndStore
    <3>2. type.tt_gmtoff \in Int
      BY <1>1, <2>2, ChosenIsShort, LocalTimeAssumption
      DEF ShortType, ttinfo, TypeOK
    <3> HIDE DEF type
    <3>3. /\ tm' = [local |-> l, isdst |-> type.tt_isdst, tz |-> -type.tt_gmtoff]
          /\ timestamp' = Stored(l, type) + 0
          /\ session_timezone' = session_timezone
      BY <2>2 DEF DecodeAndStore, type
    <3>4. timestamp' = l - type.tt_gmtoff
      BY <2>2, <3>1, <3>2, <3>3 DEF Stored
    <3> QED BY <3>1, <3>3, <3>4 DEF Decoded, type
  <2> QED BY <2>3, <2>4 DEF Inv, Entered, ValidJulian, Decoded
<1>3. CASE Out
  <2>1. call'.op = "out"
    BY <1>3 DEF Out, timestamptz_out
  <2>2. TypeOK'
    <3>1. TypeAt(session_timezone, timestamp) \in ShortType
      BY <1>1, LookupSucceeds, LocalTimeAssumption DEF TypeOK
    <3>2. /\ tm' \in [local : Int, isdst : BOOLEAN, tz : Int]
          /\ -SECS_PER_DAY < tm'.tz /\ tm'.tz < SECS_PER_DAY
      <4> DEFINE type == TypeAt(session_timezone, timestamp)
      <4>1. /\ type.tt_gmtoff \in Int /\ type.tt_isdst \in BOOLEAN /\ timestamp \in Int
            /\ -SECS_PER_DAY < type.tt_gmtoff /\ type.tt_gmtoff < SECS_PER_DAY
        BY <1>1, <3>1 DEF ShortType, ttinfo, TypeOK
      <4> HIDE DEF type
      <4>2. CASE InRange
        <5>1. tm' = [local |-> timestamp + type.tt_gmtoff,
                     isdst |-> type.tt_isdst, tz |-> -type.tt_gmtoff]
          BY <1>3, <4>2 DEF Out, timestamptz_out, localsub, type
        <5> QED BY <4>1, <5>1, ZoneAssumption
      <4>3. CASE ~ InRange
        <5>1. tm' = NoTm
          BY <1>3, <4>3 DEF Out, timestamptz_out
        <5> QED BY <5>1, ZoneAssumption DEF NoTm
      <4> QED BY <4>2, <4>3
    <3>3. (~ InRange) \in BOOLEAN
      BY DEF InRange
    <3> QED BY <1>1, <1>3, <3>2, <3>3 DEF Out, timestamptz_out, TypeOK
  <2> QED BY <2>1, <2>2 DEF Inv, Entered
<1>4. CASE PlInterval
  <2>1. TypeOK' /\ call'.op = "pl"
    BY <1>1, <1>4, IntervalTypes DEF PlInterval
  <2> QED BY <2>1 DEF Inv, Entered
<1>5. CASE MiInterval
  <2>1. PICK d \in Days, t \in Times : timestamptz_pl_interval(-d, -t)
    BY <1>5 DEF MiInterval, timestamptz_mi_interval
  <2>2. TypeOK' /\ call'.op = "pl"
    BY <1>1, <2>1, IntervalTypes
  <2> QED BY <2>2 DEF Inv, Entered
<1>6. CASE UNCHANGED vars
  BY <1>6 DEF vars, Inv, TypeOK, Entered, ValidJulian, Decoded
<1>7. QED
  BY <1>2, <1>3, <1>4, <1>5, <1>6 DEF Next

\* Type correctness and the fields of what was entered (timestamptz_in.c).
THEOREM InvHolds == Spec => []Inv
BY InitInv, NextInv, PTL DEF Spec

(***************************************************************************)
(* Every timestamp is a number, whatever zone, days and times are used.     *)
(***************************************************************************)
THEOREM TypeCorrect == Spec => []TypeOK
<1>1. Inv => TypeOK
  BY DEF Inv
<1>2. QED BY <1>1, InvHolds, PTL

(***************************************************************************)
(* A local time that occurs is stored as an instant at which it occurs      *)
(* (DetermineTimeZoneOffset.c:16-129), for every usable zone and local time *)
(* but the reading TurnsIntoDaylight describes.                             *)
(***************************************************************************)
THEOREM EnteredTimeOccursHolds == Spec => []EnteredTimeOccurs
<1>1. Inv => EnteredTimeOccurs
  <2> SUFFICES ASSUME Inv, Entered PROVE EnteredTimeOccurs
    BY DEF EnteredTimeOccurs
  <2> DEFINE l == tm.local
             sp == session_timezone
             type == DetermineTimeZoneOffset(sp, l)
  <2>1. /\ l \in Int /\ ValidJulian(l) /\ Loaded(sp) /\ Spaced(sp)
        /\ tm.isdst = type.tt_isdst /\ tm.tz = -type.tt_gmtoff
        /\ timestamp = l - type.tt_gmtoff
    BY LocalTimeAssumption DEF Inv, TypeOK, Decoded
  <2>2. \/ Shows(sp, timestamp, l) /\ TypeAt(sp, timestamp) = type
        \/ \A w \in Window(l) : ~ Shows(sp, w, l)
        \/ TurnsIntoDaylight(sp, l)
    BY <2>1, ChoiceOccurs
  <2> HIDE DEF type
  <2> QED BY <2>1, <2>2 DEF EnteredTimeOccurs, Means
<1>2. QED BY <1>1, InvHolds, PTL

(***************************************************************************)
(* "Prefer the standard-time interpretation" holds for every usable zone    *)
(* and local time (DetermineTimeZoneOffset.c:113-123).                      *)
(***************************************************************************)
THEOREM StandardPreferredHolds == Spec => []StandardPreferred
<1>1. Inv => StandardPreferred
  <2> SUFFICES ASSUME Inv, Entered, tm.isdst PROVE StandardPreferred
    BY DEF StandardPreferred
  <2> DEFINE l == tm.local
             sp == session_timezone
  <2>1. /\ l \in Int /\ ValidJulian(l) /\ Loaded(sp) /\ Spaced(sp)
        /\ DetermineTimeZoneOffset(sp, l).tt_isdst
    BY LocalTimeAssumption DEF Inv, TypeOK, Decoded
  <2> QED BY <2>1, ChoiceStandard DEF StandardPreferred
<1>2. QED BY <1>1, InvHolds, PTL

\* Adding an interval without an error keeps the clock.
LEMMA SpanKeepsClock ==
  ASSUME TypeOK, NEW d \in Int, d # 0, NEW time \in Int,
         timestamptz_pl_interval(d, time), ~ call'.warned
  PROVE  SameClock(d, time)
<1> DEFINE sp == session_timezone
           here == localsub(sp, timestamp)
           l == here + d * SECS_PER_DAY
           type == DetermineTimeZoneOffset(sp, l)
<1>1. /\ SECS_PER_DAY \in Nat /\ timestamp \in Int
      /\ Loaded(sp) /\ Spaced(sp)
  BY ZoneAssumption, LocalTimeAssumption DEF TypeOK
<1>2. here \in Int
  <2>1. TypeAt(sp, timestamp) \in ShortType
    BY <1>1, LookupSucceeds
  <2> QED BY <1>1, <2>1 DEF localsub, ShortType, ttinfo
<1> HIDE DEF here
<1>3. l \in Int
  BY <1>1, <1>2
<1>4. InRange
  <2> SUFFICES ASSUME ~ InRange PROVE FALSE
    OBVIOUS
  <2>1. PICK garbage \in LocalTimes :
           DecodeAndStore(garbage + d * SECS_PER_DAY, "pl", TRUE, time)
    BY DEF timestamptz_pl_interval
  <2> QED BY <2>1 DEF DecodeAndStore
<1>5. DecodeAndStore(l, "pl", FALSE, time)
  BY <1>4 DEF timestamptz_pl_interval, here
<1>6. ValidJulian(l) /\ timestamp' = Stored(l, type) + time
  BY <1>5 DEF DecodeAndStore
<1>7. type.tt_gmtoff \in Int
  BY <1>1, <1>3, ChosenIsShort DEF ShortType, ttinfo
<1>8. \/ Shows(sp, l - type.tt_gmtoff, l)
      \/ \A w \in Window(l) : ~ Shows(sp, w, l)
      \/ TurnsIntoDaylight(sp, l)
  BY <1>1, <1>3, <1>6, ChoiceOccurs
<1> HIDE DEF type
<1>9. timestamp' - time = l - type.tt_gmtoff
  BY <1>3, <1>6, <1>7 DEF Stored
<1>10. QED
  BY <1>8, <1>9 DEF SameClock, here

(***************************************************************************)
(* Adding days keeps the wall clock (timestamptz_pl_interval.c:59-77), for  *)
(* every usable zone and every number of days.                              *)
(***************************************************************************)
THEOREM DaysKeepClockHolds == Spec => DaysKeepClock
<1>1. TypeOK /\ [Next]_vars => [ClockKept]_vars
  <2> SUFFICES ASSUME TypeOK, ~ call'.warned,
                      NEW d \in Days \ {0}, NEW time \in Times
               PROVE  /\ timestamptz_pl_interval(d, time) => SameClock(d, time)
                      /\ timestamptz_mi_interval(d, time) => SameClock(-d, -time)
    BY DEF ClockKept
  <2>1. d \in Int /\ -d \in Int /\ d # 0 /\ -d # 0 /\ time \in Int /\ -time \in Int
    BY LocalTimeAssumption
  <2> QED BY <2>1, SpanKeepsClock DEF timestamptz_mi_interval
<1>2. QED BY <1>1, TypeCorrect, PTL DEF Spec, DaysKeepClock

(***************************************************************************)
(* Extrapolation by whole cycles never lands outside the table ("cannot     *)
(* happen", localsub.c:53), for any zone and any instant reached.           *)
(***************************************************************************)
THEOREM LookupsNeverFail ==
  Spec => [](/\ ~ LookupFails(session_timezone, timestamp)
             /\ ~ LookupFails(session_timezone, tm.local - SECS_PER_DAY))
<1>1. TypeOK => /\ ~ LookupFails(session_timezone, timestamp)
                /\ ~ LookupFails(session_timezone, tm.local - SECS_PER_DAY)
  <2> SUFFICES ASSUME TypeOK
               PROVE  /\ ~ LookupFails(session_timezone, timestamp)
                      /\ ~ LookupFails(session_timezone, tm.local - SECS_PER_DAY)
    OBVIOUS
  <2>1. /\ timestamp \in Int /\ tm.local - SECS_PER_DAY \in Int
        /\ Loaded(session_timezone) /\ Spaced(session_timezone)
    BY ZoneAssumption, LocalTimeAssumption DEF TypeOK
  <2> QED BY <2>1, LookupSucceeds
<1>2. QED BY <1>1, TypeCorrect, PTL

(***************************************************************************)
(* Whatever is stored or entered, the table repeats where it extrapolates:  *)
(* no lookup fails and no cycle is skipped or counted twice ("icycles",     *)
(* localsub.c:36-48).                                                       *)
(***************************************************************************)
THEOREM ExtrapolationRepeatsHolds == Spec => []ExtrapolationRepeats
<1>1. TypeOK => ExtrapolationRepeats
  <2> SUFFICES ASSUME TypeOK PROVE ExtrapolationRepeats
    OBVIOUS
  <2>1. /\ timestamp \in Int /\ tm.local - SECS_PER_DAY \in Int
        /\ Loaded(session_timezone) /\ Spaced(session_timezone)
    BY ZoneAssumption, LocalTimeAssumption DEF TypeOK
  <2>2. /\ ~ LookupFails(session_timezone, timestamp)
        /\ ~ LookupFails(session_timezone, tm.local - SECS_PER_DAY)
    BY <2>1, LookupSucceeds
  <2> QED BY <2>1, <2>2, AheadRepeats, BackRepeats DEF ExtrapolationRepeats
<1>2. QED BY <1>1, TypeCorrect, PTL

=============================================================================
