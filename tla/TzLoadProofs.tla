---------------------------- MODULE TzLoadProofs ----------------------------
(***************************************************************************)
(* What tzload and tzparse make of files and specifications, for every file *)
(* and specification, every size of a table and every length of a cycle.    *)
(*                                                                          *)
(* The proofs go by what a table is made of: a part of a file (FileTable),  *)
(* two changes a year by a rule (RuleTable), the transitions of posixrules  *)
(* moved (AdjustedTable), none at all (StandardTable), or a file with some  *)
(* of a rule's behind (Appended).  Each is Proper, whatever it is made of,  *)
(* and in order, with true flags, under the conditions that Usable names.   *)
(***************************************************************************)
EXTENDS TzLoad, SequenceTheorems, WellFoundedInduction, TLAPS

----------------------------------------------------------------------------
(* The constants *)

\* The bounds, by name.
LEMMA Room ==
  /\ YEARSPERREPEAT \in Nat \ {0} /\ SECSPERREPEAT \in Nat \ {0}
  /\ TZ_MAX_TIMES \in Nat /\ TZ_MAX_TIMES \div 2 > YEARSPERREPEAT
  /\ TZ_MAX_TYPES \in Nat /\ TZ_MAX_TYPES >= 2
BY LoadAssumption, ZoneAssumption

----------------------------------------------------------------------------
(* Least and greatest numbers *)

(***************************************************************************)
(* Every non-empty set of naturals has a least element.  It stands in for   *)
(* induction below.                                                         *)
(***************************************************************************)
LEMMA LeastNatural ==
  ASSUME NEW T \in SUBSET Nat, T # {}
  PROVE  \E m \in T : \A n \in T : m <= n
<1> DEFINE R == {ss \in Nat \X Nat : ss[1] < ss[2]}
<1>1. IsWellFoundedOn(R, Nat)
  BY NatLessThanWellFounded DEF OpToRel
<1>2. PICK x \in T : \A y \in T : <<y, x>> \notin R
  <2> HIDE DEF R
  <2> QED BY <1>1, WFMin
<1>3. ASSUME NEW y \in T PROVE x <= y
  <2>1. <<y, x>> \notin R BY <1>2
  <2>2. ~ (<<y, x>>[1] < <<y, x>>[2]) BY <2>1
  <2> QED BY <2>2
<1>4. QED BY <1>3

\* A set of naturals has a least one.
LEMMA MinFacts ==
  ASSUME NEW S \in SUBSET Nat, S # {}
  PROVE  Min(S) \in S /\ \A x \in S : Min(S) <= x
<1>1. \E m \in S : \A x \in S : m <= x
  BY LeastNatural
<1> QED BY <1>1 DEF Min

\* A set of positions has a last one.
LEMMA MaxFacts ==
  ASSUME NEW n \in Nat, NEW S \in SUBSET (1..n), S # {}
  PROVE  Max(S) \in S /\ \A x \in S : x <= Max(S)
<1> DEFINE T == {n - x : x \in S}
<1>1. PICK m \in T : \A y \in T : m <= y
  <2>1. T \in SUBSET Nat OBVIOUS
  <2>2. T # {} OBVIOUS
  <2> HIDE DEF T
  <2> QED BY <2>1, <2>2, LeastNatural
<1>2. PICK k \in S : m = n - k
  BY <1>1
<1>3. \A x \in S : n - k <= n - x
  BY <1>1, <1>2
<1>4. \A x \in S : k >= x
  BY <1>3
<1>5. \E k1 \in S : \A x \in S : k1 >= x
  BY <1>4
<1>6. Max(S) \in S /\ \A x \in S : Max(S) >= x
  BY <1>5 DEF Max
<1>7. \A x \in S : x \in Int
  OBVIOUS
<1> QED BY <1>6, <1>7

\* The lesser of two.
LEMMA MinOfTwo ==
  ASSUME NEW a \in Nat, NEW b \in Nat
  PROVE  Min({a, b}) = IF a <= b THEN a ELSE b
<1>1. Min({a, b}) \in {a, b} /\ \A x \in {a, b} : Min({a, b}) <= x
  BY MinFacts
<1> QED BY <1>1

----------------------------------------------------------------------------
(* Order *)

\* Transitions 1 to n, in order.
InOrder(a, n) == \A i, j \in 1..n : i < j => a[i] < a[j]

\* Neighbours in order are enough.
LEMMA Ascending ==
  ASSUME NEW a, NEW n \in Nat, \A i \in 1..n : a[i] \in Int,
         \A i \in 1..(n - 1) : a[i] < a[i + 1]
  PROVE  InOrder(a, n)
<1> DEFINE T == {d \in Nat : d # 0 /\ \E i \in 1..n : i + d <= n /\ ~ (a[i] < a[i + d])}
<1>1. T = {}
  <2> SUFFICES ASSUME T # {} PROVE FALSE OBVIOUS
  <2>1. PICK d \in T : \A x \in T : d <= x
    <3>1. T \in SUBSET Nat OBVIOUS
    <3> QED BY <3>1, LeastNatural
  <2>2. PICK i \in 1..n : i + d <= n /\ ~ (a[i] < a[i + d])
    BY <2>1
  <2>3. d \in Nat /\ d # 0 BY <2>1
  <2>4. d # 1 BY <2>2
  <2>5. d - 1 \in Nat /\ d - 1 # 0 /\ ~ (d <= d - 1) BY <2>3, <2>4
  <2>6. d - 1 \notin T BY <2>1, <2>5
  <2>7. a[i] < a[i + (d - 1)] BY <2>2, <2>5, <2>6
  <2>8. i + (d - 1) \in 1..(n - 1) /\ i + (d - 1) \in 1..n /\ i + d \in 1..n
        /\ (i + (d - 1)) + 1 = i + d
    BY <2>2, <2>5
  <2>9. a[i + (d - 1)] < a[i + d] BY <2>8
  <2> QED BY <2>2, <2>7, <2>8, <2>9
<1>2. ASSUME NEW i \in 1..n, NEW j \in 1..n, i < j PROVE a[i] < a[j]
  <2>1. j - i \in Nat /\ j - i # 0 /\ i + (j - i) = j /\ i + (j - i) <= n BY <1>2
  <2>2. j - i \notin T BY <1>1
  <2> QED BY <2>1, <2>2
<1> QED BY <1>2 DEF InOrder

----------------------------------------------------------------------------
(* Tables *)

\* What every table handed out has, in order or not.
Tables == [ats : Seq(Int), types : Seq(Nat \ {0}), ttis : Seq(LocalType),
           goback : BOOLEAN, goahead : BOOLEAN]

\* Typed, and within its bounds.
Proper(z) ==
  /\ z \in Tables
  /\ Len(z.types) = Len(z.ats)
  /\ Len(z.ats) <= TZ_MAX_TIMES
  /\ Len(z.ttis) \in 1..TZ_MAX_TYPES
  /\ \A i \in 1..Len(z.ats) : z.types[i] \in 1..Len(z.ttis)

\* A flag is raised only where a cycle away there is an equal type.
TrueBack(z) ==
  z.goback => \E j \in 2..timecnt(z) : /\ differ_by_repeat(z.ats[j], z.ats[1])
                                       /\ TypeOf(z, j) = TypeOf(z, 1)
TrueAhead(z) ==
  z.goahead => \E i \in 1..(timecnt(z) - 1) :
                  /\ differ_by_repeat(z.ats[timecnt(z)], z.ats[i])
                  /\ TypeOf(z, timecnt(z)) = TypeOf(z, i)

\* A table is no failure.
LEMMA NotFailed ==
  ASSUME NEW z \in Tables
  PROVE  z # Failed
<1>1. "ats" \in DOMAIN z
  BY DEF Tables
<1>2. "ats" \notin DOMAIN Failed
  BY DEF Failed
<1> QED BY <1>1, <1>2

\* What is in a proper table.
LEMMA ProperParts ==
  ASSUME NEW z, Proper(z)
  PROVE  /\ Len(z.ats) \in Nat /\ Len(z.ttis) \in Nat \ {0}
         /\ \A i \in 1..Len(z.ats) : z.ats[i] \in Int /\ TypeOf(z, i) \in LocalType
         /\ \A k \in 1..Len(z.ttis) : z.ttis[k] \in LocalType
BY DEF Proper, Tables, TypeOf

\* The table as the lookups see it.
LEMMA TableParts ==
  ASSUME NEW z, Proper(z)
  PROVE  /\ Table(z) \in State
         /\ Table(z).ats = z.ats /\ Table(z).types = z.types
         /\ Table(z).goback = z.goback /\ Table(z).goahead = z.goahead
         /\ Len(Table(z).ttis) = Len(z.ttis)
         /\ \A i \in 1..Len(z.ats) :
              TypeOf(Table(z), i) = [tt_gmtoff |-> TypeOf(z, i).tt_gmtoff,
                                     tt_isdst |-> TypeOf(z, i).tt_isdst]
<1> DEFINE short == [k \in 1..Len(z.ttis) |->
                        [tt_gmtoff |-> z.ttis[k].tt_gmtoff,
                         tt_isdst |-> z.ttis[k].tt_isdst]]
<1>1. /\ z \in Tables /\ Len(z.ttis) \in Nat
      /\ \A i \in 1..Len(z.ats) : z.types[i] \in 1..Len(z.ttis)
  BY ProperParts DEF Proper
<1>2. Table(z) = [z EXCEPT !.ttis = short]
  BY DEF Table
<1>3. \A k \in 1..Len(z.ttis) : short[k] \in ttinfo
  BY ProperParts DEF LocalType, ttinfo
<1>4. short \in Seq(ttinfo) /\ Len(short) = Len(z.ttis)
  <2>1. short \in [1..Len(z.ttis) -> ttinfo] BY <1>3
  <2> HIDE DEF short
  <2> QED BY <1>1, <2>1
<1>5. \A i \in 1..Len(z.ats) :
         short[z.types[i]] = [tt_gmtoff |-> z.ttis[z.types[i]].tt_gmtoff,
                              tt_isdst |-> z.ttis[z.types[i]].tt_isdst]
  BY <1>1
<1> HIDE DEF short
<1>6. /\ Table(z) \in State /\ Table(z).ttis = short
      /\ Table(z).ats = z.ats /\ Table(z).types = z.types
      /\ Table(z).goback = z.goback /\ Table(z).goahead = z.goahead
  BY <1>1, <1>2, <1>4 DEF Tables, State
<1> QED BY <1>4, <1>5, <1>6 DEF TypeOf

\* A table in order with true flags is one the lookups can rely on.
LEMMA SoundTable ==
  ASSUME NEW z, Proper(z), InOrder(z.ats, Len(z.ats)), TrueBack(z), TrueAhead(z)
  PROVE  Loaded(Table(z))
<1> DEFINE t == Table(z)
           n == Len(z.ats)
<1>1. /\ t \in State /\ t.ats = z.ats /\ t.types = z.types
      /\ t.goback = z.goback /\ t.goahead = z.goahead
      /\ Len(t.ttis) = Len(z.ttis)
      /\ \A i \in 1..n : TypeOf(t, i) = [tt_gmtoff |-> TypeOf(z, i).tt_gmtoff,
                                         tt_isdst |-> TypeOf(z, i).tt_isdst]
  BY TableParts
<1>2. /\ n \in Nat /\ Len(z.ttis) \in Nat \ {0} /\ Len(z.types) = n
      /\ \A i \in 1..n : z.types[i] \in 1..Len(z.ttis)
  BY ProperParts DEF Proper
<1>3. \A i, j \in 1..n : TypeOf(z, i) = TypeOf(z, j) => TypeOf(t, i) = TypeOf(t, j)
  BY <1>1
<1> HIDE DEF t
<1>4. timecnt(t) = n /\ timecnt(z) = n
  BY <1>1 DEF timecnt
<1>5. t.ttis # <<>>
  BY <1>1, <1>2
<1>6. t.goback => \E j \in 2..n : Extends(t, 1, j)
  <2> SUFFICES ASSUME z.goback PROVE \E j \in 2..n : Extends(t, 1, j)
    BY <1>1
  <2>1. PICK j \in 2..n : z.ats[j] - z.ats[1] = SECSPERREPEAT /\ TypeOf(z, j) = TypeOf(z, 1)
    BY <1>4 DEF TrueBack, differ_by_repeat
  <2>2. 1 \in 1..n /\ j \in 1..n BY <1>2, <2>1
  <2> QED BY <1>1, <1>3, <2>1, <2>2 DEF Extends
<1>7. t.goahead => \E i \in 1..(n - 1) : Extends(t, i, n)
  <2> SUFFICES ASSUME z.goahead PROVE \E i \in 1..(n - 1) : Extends(t, i, n)
    BY <1>1
  <2>1. PICK i \in 1..(n - 1) : z.ats[n] - z.ats[i] = SECSPERREPEAT /\ TypeOf(z, n) = TypeOf(z, i)
    BY <1>4 DEF TrueAhead, differ_by_repeat
  <2>2. n \in 1..n /\ i \in 1..n BY <1>2, <2>1
  <2> QED BY <1>1, <1>3, <2>1, <2>2 DEF Extends
<1> QED BY <1>1, <1>2, <1>4, <1>5, <1>6, <1>7 DEF Loaded, InOrder, t

\* Setting the flags changes nothing else and sets them as they are to be.
LEMMA FlaggedParts ==
  ASSUME NEW z, Proper(z)
  PROVE  /\ Proper(Flagged(z))
         /\ Flagged(z).ats = z.ats /\ Flagged(z).types = z.types
         /\ Flagged(z).ttis = z.ttis
         /\ TrueBack(Flagged(z)) /\ TrueAhead(Flagged(z))
<1> DEFINE n == timecnt(z)
           back == \E i \in 2..n : typesequiv(z, i, 1) /\ differ_by_repeat(z.ats[i], z.ats[1])
           ahead == \E i \in 1..(n - 1) : typesequiv(z, n, i) /\ differ_by_repeat(z.ats[n], z.ats[i])
           f == Flagged(z)
<1>1. f = [z EXCEPT !.goback = back, !.goahead = ahead]
  BY DEF Flagged
<1>2. z \in Tables BY DEF Proper
<1>3. back \in BOOLEAN /\ ahead \in BOOLEAN OBVIOUS
<1>4. back => \E i \in 2..n : TypeOf(z, i) = TypeOf(z, 1) /\ differ_by_repeat(z.ats[i], z.ats[1])
  BY DEF typesequiv, TypeOf
<1>5. ahead => \E i \in 1..(n - 1) : TypeOf(z, n) = TypeOf(z, i) /\ differ_by_repeat(z.ats[n], z.ats[i])
  BY DEF typesequiv, TypeOf
<1> HIDE DEF back, ahead, f
<1>6. /\ f \in Tables /\ f.ats = z.ats /\ f.types = z.types /\ f.ttis = z.ttis
      /\ f.goback = back /\ f.goahead = ahead
  BY <1>1, <1>2, <1>3 DEF Tables
<1>7. Proper(f) BY <1>6 DEF Proper
<1>8. timecnt(f) = n /\ \A i : TypeOf(f, i) = TypeOf(z, i)
  BY <1>6 DEF timecnt, TypeOf
<1>9. TrueBack(f) BY <1>4, <1>6, <1>8 DEF TrueBack
<1>10. TrueAhead(f) BY <1>5, <1>6, <1>8 DEF TrueAhead
<1> QED BY <1>6, <1>7, <1>9, <1>10 DEF f

----------------------------------------------------------------------------
(* Reading a file *)

\* What is in a file.
LEMMA FileParts ==
  ASSUME NEW f \in Files \cup Rules
  PROVE  /\ f.ats \in Seq(Int) /\ f.types \in Seq(Int) /\ f.ttis \in Seq(LocalType)
         /\ Len(f.ats) \in Nat /\ Len(f.types) = Len(f.ats)
         /\ \A i \in 1..Len(f.ats) : f.ats[i] \in Int /\ f.types[i] \in Int
         /\ f.footer \in Specs \cup {NoFooter}
<1>1. /\ f.ats \in Seq(Int) /\ f.types \in Seq(Int) /\ f.ttis \in Seq(LocalType)
      /\ f.footer \in Specs \cup {NoFooter} /\ Len(f.types) = Len(f.ats)
  BY LoadAssumption
<1> QED BY <1>1

\* As far as tzload reads it, a file is in order.
LEMMA SortedPart ==
  ASSUME NEW f \in Files \cup Rules
  PROVE  /\ SortedCount(f.ats) \in 0..Len(f.ats)
         /\ ~ Unordered(f) => InOrder(f.ats, SortedCount(f.ats))
<1> DEFINE n == Len(f.ats)
           S == OutOfSort(f.ats)
           k == SortedCount(f.ats)
<1>1. n \in Nat /\ \A i \in 1..n : f.ats[i] \in Int
  BY FileParts
<1>2. S \in SUBSET Nat /\ S \subseteq 1..(n - 2)
  BY <1>1 DEF OutOfSort
<1>3. S # {} => k \in S /\ \A x \in S : k <= x
  BY <1>2, MinFacts DEF SortedCount
<1>4. S = {} => k = n
  BY DEF SortedCount
<1>5. k \in 0..n
  BY <1>1, <1>2, <1>3, <1>4
<1>6. ASSUME ~ Unordered(f), NEW i \in 1..(k - 1) PROVE f.ats[i] < f.ats[i + 1]
  <2>1. i \in 1..(n - 1) /\ i \in 1..n /\ i + 1 \in 1..n /\ f.ats[i] \in Int /\ f.ats[i + 1] \in Int
    BY <1>1, <1>5
  <2>2. f.ats[i] # f.ats[i + 1]
    BY <1>6, <2>1 DEF Unordered
  <2>3. i \notin S
    BY <1>3, <1>5, <2>1
  <2>4. CASE i \in 1..(n - 2)
    BY <2>1, <2>2, <2>3, <2>4 DEF OutOfSort
  <2>5. CASE i = n - 1
    <3>1. ~ (f.ats[n - 1] > f.ats[n]) BY <1>1, <1>6, <2>1, <2>5 DEF Unordered
    <3> QED BY <2>1, <2>2, <2>5, <3>1
  <2> QED BY <1>1, <2>1, <2>4, <2>5
<1> HIDE DEF k, n
<1>7. \A i \in 1..k : f.ats[i] \in Int BY <1>1, <1>5
<1>8. ~ Unordered(f) => InOrder(f.ats, k)
  <2> SUFFICES ASSUME ~ Unordered(f) PROVE InOrder(f.ats, k) OBVIOUS
  <2>1. \A i \in 1..(k - 1) : f.ats[i] < f.ats[i + 1] BY <1>6
  <2>2. k \in Nat BY <1>1, <1>5
  <2> QED BY <1>7, <2>1, <2>2, Ascending
<1> QED BY <1>5, <1>8 DEF k, n

\* What is read is the file up to what is out of sort.
LEMMA FileTableParts ==
  ASSUME NEW f \in Files \cup Rules, Readable(f)
  PROVE  LET z == FileTable(f)
             n == SortedCount(f.ats)
         IN  /\ Proper(z) /\ Len(z.ats) = n /\ n \in Nat
             /\ \A i \in 1..n : z.ats[i] = f.ats[i]
             /\ z.ttis = f.ttis
             /\ ~ Unordered(f) => InOrder(z.ats, n)
<1> DEFINE n == SortedCount(f.ats)
           a == SubSeq(f.ats, 1, n)
           t == SubSeq(f.types, 1, n)
           z == FileTable(f)
<1>1. /\ Len(f.ats) \in Nat /\ Len(f.types) = Len(f.ats) /\ f.ttis \in Seq(LocalType)
      /\ \A i \in 1..Len(f.ats) : f.ats[i] \in Int
  BY FileParts
<1>2. n \in 0..Len(f.ats) /\ (~ Unordered(f) => InOrder(f.ats, n))
  BY SortedPart
<1>3. /\ Len(f.ttis) \in 1..TZ_MAX_TYPES /\ Len(f.ats) <= TZ_MAX_TIMES
      /\ \A i \in 1..Len(f.types) : f.types[i] \in 1..Len(f.ttis)
  BY DEF Readable
<1>4. z = [ats |-> a, types |-> t, ttis |-> f.ttis, goback |-> FALSE, goahead |-> FALSE]
  BY DEF FileTable
<1> HIDE DEF n, z
<1>5. n \in Nat /\ n \in Int /\ n <= Len(f.ats) BY <1>1, <1>2
<1>6. a \in Seq(Int) /\ Len(a) = n /\ \A i \in 1..n : a[i] = f.ats[i]
  <2>1. \A i \in 1..n : f.ats[i] \in Int BY <1>1, <1>5
  <2> QED BY <1>5, <2>1, SubSeqProperties
<1>7. t \in Seq(Nat \ {0}) /\ Len(t) = n /\ \A i \in 1..n : t[i] = f.types[i]
  <2>1. Len(f.ttis) \in Nat BY <1>1
  <2>2. \A i \in 1..n : f.types[i] \in Nat \ {0} BY <1>1, <1>3, <1>5, <2>1
  <2> QED BY <1>5, <2>2, SubSeqProperties
<1> HIDE DEF a, t
<1>8. z \in Tables /\ z.ats = a /\ z.types = t /\ z.ttis = f.ttis
  BY <1>1, <1>4, <1>6, <1>7 DEF Tables
<1>9. ASSUME NEW i \in 1..n PROVE t[i] \in 1..Len(f.ttis)
  <2>1. i \in 1..Len(f.types) BY <1>1, <1>5
  <2> QED BY <1>3, <1>7, <2>1
<1>10. n <= TZ_MAX_TIMES BY <1>1, <1>3, <1>5, Room
<1>11. Proper(z)
  BY <1>3, <1>6, <1>7, <1>8, <1>9, <1>10 DEF Proper
<1>12. ~ Unordered(f) => InOrder(z.ats, n)
  BY <1>2, <1>6, <1>8 DEF InOrder
<1> QED BY <1>5, <1>6, <1>8, <1>11, <1>12 DEF n, z

----------------------------------------------------------------------------
(* posixrules *)

\* What the initial state fixes.
Given == posixrules \in Rules \cup {Unreadable} /\ stack \in BOOLEAN

\* What posixrules comes to.
LEMMA DefRulesParts ==
  ASSUME Given, DefRules # Failed
  PROVE  /\ Proper(DefRules) /\ TrueBack(DefRules) /\ TrueAhead(DefRules)
         /\ ~ Unordered(posixrules) => InOrder(DefRules.ats, Len(DefRules.ats))
<1>1. Readable(posixrules) /\ DefRules = Flagged(FileTable(posixrules))
  BY DEF DefRules
<1>2. posixrules \in Files \cup Rules
  BY <1>1 DEF Given, Readable
<1> DEFINE z == FileTable(posixrules)
<1>3. Proper(z) /\ (~ Unordered(posixrules) => InOrder(z.ats, Len(z.ats)))
  BY <1>1, <1>2, FileTableParts
<1> HIDE DEF z
<1> QED BY <1>1, <1>3, FlaggedParts DEF z

\* A type the parser makes, whatever its indicators were before.
LEMMA ParsedTypeParts ==
  ASSUME Given, NEW k \in {1, 2}, NEW gmtoff \in Int, NEW isdst \in BOOLEAN,
         NEW abbr \in STRING
  PROVE  /\ ParsedType(k, gmtoff, isdst, abbr) \in LocalType
         /\ ParsedType(k, gmtoff, isdst, abbr).tt_isdst = isdst
         /\ ParsedType(k, gmtoff, isdst, abbr).tt_gmtoff = gmtoff
<1>1. CASE DefRules # Failed /\ k <= Len(DefRules.ttis)
  <2>1. DefRules.ttis[k] \in LocalType
    <3>1. Proper(DefRules) BY <1>1, DefRulesParts
    <3>2. k \in 1..Len(DefRules.ttis) BY <1>1, <3>1, ProperParts
    <3> QED BY <3>1, <3>2, ProperParts
  <2> QED BY <1>1, <2>1 DEF ParsedType, LocalType
<1>2. CASE ~ (DefRules # Failed /\ k <= Len(DefRules.ttis))
  BY <1>2 DEF ParsedType, LocalType, Given
<1> QED BY <1>1, <1>2

\* A table the parser made, with the flags of posixrules.
Parsed(z, n, a, t, types) ==
  /\ Proper(z)
  /\ z.ats = a /\ Len(a) = n
  /\ z.types = t /\ z.ttis = types
  /\ z.goback => DefRules # Failed /\ DefRules.goback
  /\ z.goahead => DefRules # Failed /\ DefRules.goahead

\* A table the parser makes is proper if its parts are.
LEMMA ParsedTableParts ==
  ASSUME NEW n \in 0..TZ_MAX_TIMES, NEW a, NEW t, NEW types,
         a \in [1..n -> Int], types \in Seq(LocalType), Len(types) \in {1, 2},
         t \in [1..n -> 1..Len(types)]
  PROVE  Parsed(ParsedTable(a, t, types), n, a, t, types)
<1> DEFINE z == ParsedTable(a, t, types)
<1>1. n \in Nat /\ n <= TZ_MAX_TIMES BY Room
<1>2. a \in Seq(Int) /\ Len(a) = n BY <1>1
<1>3. t \in [1..n -> Nat \ {0}] OBVIOUS
<1>4. t \in Seq(Nat \ {0}) /\ Len(t) = n BY <1>1, <1>3
<1>5. /\ (DefRules # Failed /\ DefRules.goback) \in BOOLEAN
      /\ (DefRules # Failed /\ DefRules.goahead) \in BOOLEAN
  OBVIOUS
<1>6. /\ z.ats = a /\ z.types = t /\ z.ttis = types /\ z \in Tables
      /\ z.goback <=> DefRules # Failed /\ DefRules.goback
      /\ z.goahead <=> DefRules # Failed /\ DefRules.goahead
  BY <1>2, <1>4, <1>5 DEF ParsedTable, Tables
<1> HIDE DEF z
<1>7. Len(types) \in 1..TZ_MAX_TYPES
  <2>1. \A k \in {1, 2} : k \in 1..TZ_MAX_TYPES BY Room
  <2> QED BY <2>1
<1>8. Proper(z) BY <1>1, <1>2, <1>4, <1>6, <1>7 DEF Proper
<1> QED BY <1>2, <1>6, <1>8 DEF Parsed, z

\* Lists of one and of two.
LEMMA ShortLists ==
  ASSUME NEW S, NEW x \in S, NEW y \in S
  PROVE  /\ <<x>> \in Seq(S) /\ Len(<<x>>) = 1 /\ <<x>>[1] = x
         /\ <<x, y>> \in Seq(S) /\ Len(<<x, y>>) = 2
         /\ <<x, y>>[1] = x /\ <<x, y>>[2] = y
OBVIOUS

\* What is in a specification that parses.
LEMMA SpecParts ==
  ASSUME NEW spec \in Specs, spec # Malformed
  PROVE  /\ spec.stdoffset \in Int /\ -spec.stdoffset \in Int
         /\ spec.stdname \in STRING /\ spec.dstname \in STRING
         /\ spec.dstoffset # NoDst => spec.dstoffset \in Int /\ -spec.dstoffset \in Int
         /\ spec.rule \in Rule \cup {NoRule}
<1>1. spec \in ZoneSpec BY LoadAssumption
<1> QED BY <1>1 DEF ZoneSpec

\* Without a rule the transitions of posixrules are there to adjust.
LEMMA RuleOfParts ==
  ASSUME NEW spec \in Specs, spec # Malformed
  PROVE  /\ RuleOf(spec) \in Rule \cup {NoRule}
         /\ RuleOf(spec) = NoRule => DefRules # Failed
<1>1. TZDEFRULESTRING \in Rule /\ NoRule \notin Rule BY LoadAssumption
<1> QED BY <1>1, SpecParts DEF RuleOf

----------------------------------------------------------------------------
(* The transitions of posixrules, adjusted *)

\* Their offset is that of a standard type of theirs, or 0 without one.
LEMMA TheirOffset ==
  ASSUME NEW z, Proper(z), NEW i \in 1..timecnt(z)
  PROVE  \/ /\ theirstdoffset(z, i) = 0
            /\ \A k \in 1..timecnt(z) : TypeOf(z, k).tt_isdst
         \/ \E k \in 1..timecnt(z) : /\ ~ TypeOf(z, k).tt_isdst
                                     /\ theirstdoffset(z, i) = -TypeOf(z, k).tt_gmtoff
<1> DEFINE n == timecnt(z)
           standard == {k \in 1..n : ~ TypeOf(z, k).tt_isdst}
           before == {k \in standard : k < i}
<1>1. n \in Nat BY ProperParts DEF timecnt
<1>2. standard \in SUBSET (1..n) /\ standard \in SUBSET Nat /\ before \in SUBSET (1..n)
  BY <1>1
<1>3. CASE standard = {}
  BY <1>3 DEF theirstdoffset
<1>4. CASE standard # {}
  <2> DEFINE k == IF before = {} THEN Min(standard) ELSE Max(before)
  <2>1. k \in standard
    BY <1>1, <1>2, <1>4, MinFacts, MaxFacts
  <2>2. theirstdoffset(z, i) = -TypeOf(z, k).tt_gmtoff
    BY <1>4 DEF theirstdoffset
  <2> HIDE DEF k
  <2> QED BY <2>1, <2>2
<1> QED BY <1>3, <1>4

\* It is a number of seconds.
LEMMA TheirOffsetInt ==
  ASSUME NEW z, Proper(z), NEW i \in 1..timecnt(z)
  PROVE  theirstdoffset(z, i) \in Int
<1>1. \A k \in 1..timecnt(z) : -TypeOf(z, k).tt_gmtoff \in Int
  BY ProperParts DEF timecnt, LocalType
<1>2. CASE theirstdoffset(z, i) = 0
  BY <1>2
<1>3. CASE \E k \in 1..timecnt(z) : theirstdoffset(z, i) = -TypeOf(z, k).tt_gmtoff
  BY <1>1, <1>3
<1> QED BY <1>2, <1>3, TheirOffset

\* Where posixrules has one standard offset, it is that everywhere.
LEMMA EvenOffsets ==
  ASSUME Given, DefRules # Failed, ~ UnevenRules,
         NEW i \in 1..timecnt(DefRules), NEW j \in 1..timecnt(DefRules)
  PROVE  theirstdoffset(DefRules, i) = theirstdoffset(DefRules, j)
<1>1. Proper(DefRules) BY DefRulesParts
<1>2. \A k, m \in 1..timecnt(DefRules) :
         ~ TypeOf(DefRules, k).tt_isdst /\ ~ TypeOf(DefRules, m).tt_isdst =>
           TypeOf(DefRules, k).tt_gmtoff = TypeOf(DefRules, m).tt_gmtoff
  BY DEF UnevenRules
<1>3. CASE \A k \in 1..timecnt(DefRules) : TypeOf(DefRules, k).tt_isdst
  <2>1. theirstdoffset(DefRules, i) = 0 BY <1>1, <1>3, TheirOffset
  <2>2. theirstdoffset(DefRules, j) = 0 BY <1>1, <1>3, TheirOffset
  <2> QED BY <2>1, <2>2
<1>4. CASE ~ \A k \in 1..timecnt(DefRules) : TypeOf(DefRules, k).tt_isdst
  <2>1. PICK k \in 1..timecnt(DefRules) :
           ~ TypeOf(DefRules, k).tt_isdst
             /\ theirstdoffset(DefRules, i) = -TypeOf(DefRules, k).tt_gmtoff
    BY <1>1, <1>4, TheirOffset
  <2>2. PICK m \in 1..timecnt(DefRules) :
           ~ TypeOf(DefRules, m).tt_isdst
             /\ theirstdoffset(DefRules, j) = -TypeOf(DefRules, m).tt_gmtoff
    BY <1>1, <1>4, TheirOffset
  <2> QED BY <1>2, <2>1, <2>2
<1> QED BY <1>3, <1>4

\* The adjusted table: proper, in order unless neighbours change places, and as
\* true as posixrules where all is moved alike.
LEMMA AdjustedParts ==
  ASSUME Given, DefRules # Failed, NEW spec \in Specs, spec # Malformed,
         spec.dstoffset # NoDst
  PROVE  LET z == AdjustedTable(spec, DefRules)
         IN  /\ Proper(z) /\ Len(z.ttis) = 2
             /\ ~ ChangesPlaces(spec) => InOrder(z.ats, Len(z.ats))
             /\ ~ UnevenRules => TrueBack(z) /\ TrueAhead(z)
<1> DEFINE D == DefRules
           n == timecnt(D)
           a == [i \in 1..n |-> D.ats[i] + Shift(spec, D, i)]
           t == [i \in 1..n |-> IF TypeOf(D, i).tt_isdst THEN 2 ELSE 1]
           types == <<ParsedType(1, -spec.stdoffset, FALSE, spec.stdname),
                      ParsedType(2, -spec.dstoffset, TRUE, spec.dstname)>>
           z == ParsedTable(a, t, types)
<1>1. AdjustedTable(spec, D) = z BY DEF AdjustedTable
<1>2. Proper(D) /\ TrueBack(D) /\ TrueAhead(D) BY DefRulesParts
<1>3. /\ n \in Nat /\ n \in 0..TZ_MAX_TIMES /\ n = Len(D.ats)
      /\ \A i \in 1..n : D.ats[i] \in Int /\ TypeOf(D, i) \in LocalType
  BY <1>2, ProperParts, Room DEF timecnt, Proper
<1>4. /\ spec.stdoffset \in Int /\ -spec.stdoffset \in Int /\ -spec.dstoffset \in Int
      /\ spec.stdname \in STRING /\ spec.dstname \in STRING
  BY SpecParts
<1>5. \A i \in 1..n : theirstdoffset(D, i) \in Int BY <1>2, TheirOffsetInt
<1>6. \A i \in 1..n : Shift(spec, D, i) \in Int BY <1>4, <1>5 DEF Shift
<1>7. types \in Seq(LocalType) /\ Len(types) = 2
  <2>1. ParsedType(1, -spec.stdoffset, FALSE, spec.stdname) \in LocalType BY <1>4, ParsedTypeParts
  <2>2. ParsedType(2, -spec.dstoffset, TRUE, spec.dstname) \in LocalType BY <1>4, ParsedTypeParts
  <2> QED BY <2>1, <2>2, ShortLists
<1> HIDE DEF types
<1>8. a \in [1..n -> Int] BY <1>3, <1>6
<1>9. t \in [1..n -> 1..Len(types)] BY <1>7
<1>10. /\ Proper(z) /\ z.ats = a /\ Len(a) = n /\ z.types = t /\ z.ttis = types
       /\ z.goback => D.goback
       /\ z.goahead => D.goahead
  <2> HIDE DEF a, t, n, z
  <2>1. Len(types) \in {1, 2} BY <1>7
  <2>2. n \in 0..TZ_MAX_TIMES BY <1>3
  <2>3. Parsed(ParsedTable(a, t, types), n, a, t, types)
    BY <1>7, <1>8, <1>9, <2>1, <2>2, ParsedTableParts
  <2> QED BY <2>3 DEF Parsed, z
<1>11. ASSUME ~ ChangesPlaces(spec) PROVE InOrder(a, n)
  <2>1. ASSUME NEW i \in 1..(n - 1) PROVE a[i] < a[i + 1]
    <3>1. i \in 1..n /\ i + 1 \in 1..n BY <1>3
    <3>2. ~ (D.ats[i] + Shift(spec, D, i) >= D.ats[i + 1] + Shift(spec, D, i + 1))
      BY <1>11 DEF ChangesPlaces
    <3>3. a[i] \in Int /\ a[i + 1] \in Int BY <1>8, <3>1
    <3>4. ~ (a[i] >= a[i + 1]) BY <3>1, <3>2
    <3> QED BY <3>3, <3>4
  <2>2. \A i \in 1..n : a[i] \in Int BY <1>8
  <2> HIDE DEF a
  <2> QED BY <1>3, <2>1, <2>2, Ascending
\* Equal types are moved alike and stay equal.
<1>12. ASSUME ~ UnevenRules, NEW i \in 1..n, NEW j \in 1..n, TypeOf(D, i) = TypeOf(D, j)
       PROVE  t[i] = t[j] /\ a[i] - a[j] = D.ats[i] - D.ats[j]
  <2>1. theirstdoffset(D, i) = theirstdoffset(D, j) BY <1>12, EvenOffsets
  <2>2. Shift(spec, D, i) = Shift(spec, D, j) BY <1>12, <2>1 DEF Shift
  <2>3. D.ats[i] \in Int /\ D.ats[j] \in Int /\ Shift(spec, D, j) \in Int BY <1>3, <1>6
  <2>4. t[i] = t[j] BY <1>12
  <2>5. a[i] = D.ats[i] + Shift(spec, D, j) /\ a[j] = D.ats[j] + Shift(spec, D, j) BY <2>2
  <2> QED BY <2>3, <2>4, <2>5
<1> HIDE DEF a, t, z
<1>13. timecnt(z) = n /\ \A i : TypeOf(z, i) = types[t[i]]
  BY <1>10 DEF timecnt, TypeOf
<1>14. ASSUME ~ UnevenRules PROVE TrueBack(z)
  <2> SUFFICES ASSUME D.goback
               PROVE  \E j \in 2..n : differ_by_repeat(z.ats[j], z.ats[1])
                                        /\ TypeOf(z, j) = TypeOf(z, 1)
    BY <1>10, <1>13 DEF TrueBack
  <2>1. PICK j \in 2..n : differ_by_repeat(D.ats[j], D.ats[1]) /\ TypeOf(D, j) = TypeOf(D, 1)
    BY <1>2 DEF TrueBack
  <2>2. 1 \in 1..n /\ j \in 1..n BY <1>3, <2>1
  <2>3. t[j] = t[1] /\ a[j] - a[1] = D.ats[j] - D.ats[1] BY <1>12, <1>14, <2>1, <2>2
  <2> QED BY <1>10, <1>13, <2>1, <2>3 DEF differ_by_repeat
<1>15. ASSUME ~ UnevenRules PROVE TrueAhead(z)
  <2> SUFFICES ASSUME D.goahead
               PROVE  \E i \in 1..(n - 1) : differ_by_repeat(z.ats[n], z.ats[i])
                                              /\ TypeOf(z, n) = TypeOf(z, i)
    BY <1>10, <1>13 DEF TrueAhead
  <2>1. PICK i \in 1..(n - 1) : differ_by_repeat(D.ats[n], D.ats[i]) /\ TypeOf(D, n) = TypeOf(D, i)
    BY <1>2 DEF TrueAhead
  <2>2. n \in 1..n /\ i \in 1..n BY <1>3, <2>1
  <2>3. t[n] = t[i] /\ a[n] - a[i] = D.ats[n] - D.ats[i] BY <1>12, <1>15, <2>1, <2>2
  <2> QED BY <1>10, <1>13, <2>1, <2>3 DEF differ_by_repeat
<1>16. Proper(z) /\ Len(z.ttis) = 2 BY <1>7, <1>10
<1>17. ~ ChangesPlaces(spec) => InOrder(z.ats, Len(z.ats)) BY <1>10, <1>11
<1> QED BY <1>1, <1>14, <1>15, <1>16, <1>17 DEF z

----------------------------------------------------------------------------
(* Standard time only *)

\* The table without a transition.
LEMMA StandardParts ==
  ASSUME Given, NEW spec \in Specs, spec # Malformed
  PROVE  LET z == StandardTable(spec)
         IN  /\ Proper(z) /\ Len(z.ttis) = 1 /\ Len(z.ats) = 0
             /\ spec.dstoffset = NoDst /\ ~ FlagsWithoutTable(spec) =>
                  TrueBack(z) /\ TrueAhead(z)
<1> DEFINE types == <<ParsedType(1, -spec.stdoffset, FALSE, spec.stdname)>>
           z == ParsedTable(<<>>, <<>>, types)
<1>1. StandardTable(spec) = z BY DEF StandardTable
<1>2. ParsedType(1, -spec.stdoffset, FALSE, spec.stdname) \in LocalType
  BY SpecParts, ParsedTypeParts
<1>3. types \in Seq(LocalType) /\ Len(types) = 1 BY <1>2, ShortLists
<1> HIDE DEF types
<1>4. <<>> \in [1..0 -> Int] /\ <<>> \in [1..0 -> 1..Len(types)] OBVIOUS
<1>5. 0 \in 0..TZ_MAX_TIMES BY Room
<1>6. /\ Proper(z) /\ z.ats = <<>> /\ z.ttis = types
      /\ z.goback => DefRules # Failed /\ DefRules.goback
      /\ z.goahead => DefRules # Failed /\ DefRules.goahead
  <2>1. Len(types) \in {1, 2} BY <1>3
  <2>2. Parsed(ParsedTable(<<>>, <<>>, types), 0, <<>>, <<>>, types)
    BY <1>3, <1>4, <1>5, <2>1, ParsedTableParts
  <2> QED BY <2>2 DEF Parsed
<1> HIDE DEF z
<1>7. spec.dstoffset = NoDst /\ ~ FlagsWithoutTable(spec) => ~ z.goback /\ ~ z.goahead
  BY <1>6 DEF FlagsWithoutTable
<1> QED BY <1>1, <1>3, <1>6, <1>7 DEF TrueBack, TrueAhead, z

----------------------------------------------------------------------------
(* The starts of the years *)

\* A sum that begins with 0 exists, and is unique.
IsSum(g, n, L) ==
  /\ g \in [0..n -> Int]
  /\ g[0] = 0
  /\ \A y \in 1..n : g[y] = g[y - 1] + L[y]

\* There is one sum of as many terms.
LEMMA SumUnique ==
  ASSUME NEW L \in [Nat -> Int], NEW n \in Nat, NEW m \in Nat, n <= m,
         NEW f, IsSum(f, n, L), NEW g, IsSum(g, m, L)
  PROVE  \A y \in 0..n : f[y] = g[y]
<1> DEFINE T == {y \in 0..n : f[y] # g[y]}
<1> SUFFICES ASSUME T # {} PROVE FALSE
  OBVIOUS
<1>1. PICK y \in T : \A x \in T : y <= x
  <2>1. T \in SUBSET Nat OBVIOUS
  <2> QED BY <2>1, LeastNatural
<1>2. y \in 0..n /\ f[y] # g[y]
  BY <1>1
<1>3. y # 0
  BY <1>2 DEF IsSum
<1>4. y - 1 \in 0..n /\ y \in 1..n /\ y \in 1..m
  BY <1>2, <1>3
<1>5. f[y - 1] = g[y - 1]
  BY <1>1, <1>4
<1> QED BY <1>2, <1>4, <1>5 DEF IsSum

\* There is one for any number of terms.
LEMMA SumsExist ==
  ASSUME NEW L \in [Nat -> Int]
  PROVE  \A n \in Nat : \E f : IsSum(f, n, L)
<1> DEFINE T == {n \in Nat : ~ \E f : IsSum(f, n, L)}
<1> SUFFICES ASSUME T # {} PROVE FALSE
  OBVIOUS
<1>1. PICK n \in T : \A x \in T : n <= x
  <2>1. T \in SUBSET Nat OBVIOUS
  <2> QED BY <2>1, LeastNatural
<1>2. n \in Nat /\ ~ \E f : IsSum(f, n, L)
  BY <1>1
<1>3. n # 0
  <2>1. IsSum([y \in 0..0 |-> 0], 0, L)
    BY DEF IsSum
  <2> QED BY <1>2, <2>1
<1>4. n - 1 \in Nat /\ n - 1 \notin T
  BY <1>1, <1>2, <1>3
<1>5. PICK f : IsSum(f, n - 1, L)
  BY <1>4
<1> DEFINE g == [y \in 0..n |-> IF y = n THEN f[n - 1] + L[n] ELSE f[y]]
<1>6. IsSum(g, n, L)
  <2>1. g \in [0..n -> Int] BY <1>3, <1>4, <1>5 DEF IsSum
  <2>2. g[0] = 0 BY <1>2, <1>3, <1>5 DEF IsSum
  <2>3. ASSUME NEW y \in 1..n PROVE g[y] = g[y - 1] + L[y]
    <3>1. CASE y = n BY <1>3, <1>4, <3>1
    <3>2. CASE y # n
      <4>1. y \in 1..(n - 1) /\ y - 1 # n /\ y - 1 \in 0..n BY <1>4, <3>2
      <4> QED BY <1>5, <3>2, <4>1 DEF IsSum
    <3> QED BY <3>1, <3>2
  <2> HIDE DEF g
  <2> QED BY <2>1, <2>2, <2>3 DEF IsSum
<1> QED BY <1>2, <1>6

\* The sums for every number of terms are one function, which recurs.
LEMMA SumOverNat ==
  ASSUME NEW L \in [Nat -> Int]
  PROVE  \E g : g = [y \in Nat |-> IF y = 0 THEN 0 ELSE g[y - 1] + L[y]]
<1> DEFINE F(n) == CHOOSE f : IsSum(f, n, L)
           g == [y \in Nat |-> F(y)[y]]
<1>1. \A n \in Nat : IsSum(F(n), n, L)
  BY SumsExist
<1> HIDE DEF F
<1>2. g[0] = 0
  BY <1>1 DEF IsSum
<1>3. ASSUME NEW y \in Nat, y # 0 PROVE g[y] = g[y - 1] + L[y]
  <2>1. y - 1 \in Nat /\ y - 1 <= y /\ y - 1 \in 0..(y - 1) /\ y \in 1..y
    BY <1>3
  <2>2. F(y)[y] = F(y)[y - 1] + L[y]
    BY <1>1, <2>1 DEF IsSum
  <2>3. F(y - 1)[y - 1] = F(y)[y - 1]
    BY <1>1, <2>1, SumUnique
  <2> QED BY <2>1, <2>2, <2>3
<1>4. g = [y \in Nat |-> IF y = 0 THEN 0 ELSE g[y - 1] + L[y]]
  <2>1. \A y \in Nat : g[y] = IF y = 0 THEN 0 ELSE g[y - 1] + L[y]
    BY <1>2, <1>3
  <2>2. g = [y \in Nat |-> g[y]] OBVIOUS
  <2> HIDE DEF g
  <2> QED BY <2>1, <2>2
<1> QED BY <1>4

\* The length of the year before y.
YearBefore(y) == year_lengths[((y - 1) % YEARSPERREPEAT) + 1]

\* The recursion has a value.
LEMMA JanfirstIs ==
  /\ janfirst[0] = 0
  /\ \A y \in Nat : janfirst[y + 1] = janfirst[y] + year_lengths[(y % YEARSPERREPEAT) + 1]
<1> DEFINE L == [y \in Nat |-> IF y = 0 THEN 0 ELSE YearBefore(y)]
<1>1. L \in [Nat -> Int]
  <2>1. ASSUME NEW y \in Nat, y # 0 PROVE YearBefore(y) \in Int
    <3>1. ((y - 1) % YEARSPERREPEAT) + 1 \in 1..YEARSPERREPEAT
      BY <2>1, LoadAssumption
    <3> QED BY <3>1, LoadAssumption DEF YearBefore
  <2> QED BY <2>1
<1>2. PICK g : g = [y \in Nat |-> IF y = 0 THEN 0 ELSE g[y - 1] + L[y]]
  BY <1>1, SumOverNat
<1>3. g = [y \in Nat |-> IF y = 0 THEN 0
                         ELSE g[y - 1] + year_lengths[((y - 1) % YEARSPERREPEAT) + 1]]
  <2>1. \A y \in Nat : L[y] = IF y = 0 THEN 0 ELSE year_lengths[((y - 1) % YEARSPERREPEAT) + 1]
    BY DEF YearBefore
  <2> HIDE DEF L
  <2> QED BY <1>2, <2>1
<1>4. janfirst = [y \in Nat |-> IF y = 0 THEN 0
                         ELSE janfirst[y - 1] + year_lengths[((y - 1) % YEARSPERREPEAT) + 1]]
  BY <1>3 DEF janfirst
<1>5. ASSUME NEW y \in Nat
      PROVE  janfirst[y + 1] = janfirst[y] + year_lengths[(y % YEARSPERREPEAT) + 1]
  <2>1. y + 1 \in Nat /\ y + 1 # 0 /\ (y + 1) - 1 = y OBVIOUS
  <2> QED BY <1>4, <2>1
<1> QED BY <1>4, <1>5
\* Division and its remainder.
LEMMA Remainder ==
  ASSUME NEW n \in Nat, NEW b \in Nat \ {0}
  PROVE  n % b \in Nat /\ n % b < b /\ n = b * (n \div b) + (n % b) /\ n \div b \in Nat
  BY SMTT(30)

\* There is one remainder.
LEMMA RemainderUnique ==
  ASSUME NEW n \in Nat, NEW b \in Nat \ {0}, NEW k \in Nat, NEW r \in Nat,
         r < b, n = b * k + r
  PROVE  n % b = r
  BY SMTT(30)

\* The place of a year in its cycle, of the one a cycle later and of the next.
LEMMA YearOfCycle ==
  ASSUME NEW y \in Nat
  PROVE  /\ (y % YEARSPERREPEAT) + 1 \in 1..YEARSPERREPEAT
         /\ (y + YEARSPERREPEAT) % YEARSPERREPEAT = y % YEARSPERREPEAT
         /\ ((y + 1) % YEARSPERREPEAT) + 1
              = (((y % YEARSPERREPEAT) + 1) % YEARSPERREPEAT) + 1
<1> DEFINE P == YEARSPERREPEAT
           q == y \div P
           r == y % P
<1>1. P \in Nat \ {0} BY Room
<1>2. r \in Nat /\ r < P /\ y = P * q + r /\ q \in Nat BY <1>1, Remainder
<1> HIDE DEF P, q, r
<1>3. /\ P * q \in Nat /\ P * (q + 1) = P * q + P /\ P * (q + 1) + 0 = P * q + P
      /\ q + 1 \in Nat /\ r + 1 \in Nat /\ y + 1 \in Nat /\ y + P \in Nat /\ 0 \in Nat /\ 0 < P
  BY <1>1, <1>2
<1>4. (y + P) % P = r
  <2>1. y + P = P * (q + 1) + r BY <1>1, <1>2, <1>3
  <2> QED BY <1>1, <1>2, <1>3, <2>1, RemainderUnique
<1>5. (y + 1) % P = (r + 1) % P
  <2>1. CASE r + 1 < P
    <3>1. y + 1 = P * q + (r + 1) /\ r + 1 = P * 0 + (r + 1) BY <1>1, <1>2, <1>3
    <3>2. (y + 1) % P = r + 1 BY <1>1, <1>2, <1>3, <2>1, <3>1, RemainderUnique
    <3>3. (r + 1) % P = r + 1 BY <1>1, <1>2, <1>3, <2>1, <3>1, RemainderUnique
    <3> QED BY <3>2, <3>3
  <2>2. CASE r + 1 = P
    <3>1. y + 1 = P * (q + 1) + 0 /\ r + 1 = P * 1 + 0 BY <1>1, <1>2, <1>3, <2>2
    <3>2. (y + 1) % P = 0 BY <1>1, <1>3, <3>1, RemainderUnique
    <3>3. (r + 1) % P = 0 BY <1>1, <1>3, <3>1, RemainderUnique
    <3> QED BY <3>2, <3>3
  <2> QED BY <1>1, <1>2, <1>3, <2>1, <2>2
<1>6. r + 1 \in 1..P BY <1>1, <1>2
<1> QED BY <1>4, <1>5, <1>6 DEF P, r

\* No year is without a second.
LEMMA YearLengths ==
  \A k \in 1..YEARSPERREPEAT : year_lengths[k] \in Nat \ {0} /\ year_lengths[k] \in Int
BY LoadAssumption

\* It gives seconds.
LEMMA JanfirstInt == \A y \in Nat : janfirst[y] \in Int
<1> DEFINE T == {y \in Nat : janfirst[y] \notin Int}
<1> SUFFICES ASSUME T # {} PROVE FALSE
  OBVIOUS
<1>1. PICK y \in T : \A x \in T : y <= x
  <2>1. T \in SUBSET Nat OBVIOUS
  <2> QED BY <2>1, LeastNatural
<1>2. y \in Nat /\ janfirst[y] \notin Int BY <1>1
<1>3. y # 0 BY <1>2, JanfirstIs
<1>4. y - 1 \in Nat /\ (y - 1) + 1 = y BY <1>2, <1>3
<1>5. janfirst[y - 1] \in Int BY <1>1, <1>4
<1>6. janfirst[y] = janfirst[y - 1] + year_lengths[((y - 1) % YEARSPERREPEAT) + 1]
  BY <1>4, JanfirstIs
<1>7. year_lengths[((y - 1) % YEARSPERREPEAT) + 1] \in Int
  BY <1>4, YearOfCycle, YearLengths
<1> QED BY <1>2, <1>5, <1>6, <1>7

\* A cycle of years later it is as many seconds later as a cycle has.
LEMMA JanfirstRepeats ==
  \A y \in Nat : janfirst[y + YEARSPERREPEAT] = janfirst[y] + SECSPERREPEAT
<1> DEFINE T == {y \in Nat : janfirst[y + YEARSPERREPEAT] # janfirst[y] + SECSPERREPEAT}
           P == YEARSPERREPEAT
<1> SUFFICES ASSUME T # {} PROVE FALSE
  OBVIOUS
<1>1. PICK y \in T : \A x \in T : y <= x
  <2>1. T \in SUBSET Nat OBVIOUS
  <2> QED BY <2>1, LeastNatural
<1>2. y \in Nat /\ janfirst[y + P] # janfirst[y] + SECSPERREPEAT BY <1>1
<1>3. P \in Nat /\ SECSPERREPEAT \in Nat BY Room
<1>4. y # 0
  <2>1. janfirst[0 + P] = SECSPERREPEAT BY <1>3, WholeCycle
  <2> QED BY <1>2, <1>3, <2>1, JanfirstIs
<1>5. y - 1 \in Nat /\ (y - 1) + 1 = y /\ (y - 1) + P \in Nat /\ ((y - 1) + P) + 1 = y + P
  BY <1>2, <1>3, <1>4
<1>6. janfirst[(y - 1) + P] = janfirst[y - 1] + SECSPERREPEAT BY <1>1, <1>5
<1> DEFINE l == year_lengths[((y - 1) % P) + 1]
<1>7. janfirst[y] = janfirst[y - 1] + l
  BY <1>5, JanfirstIs
<1>8. janfirst[y + P] = janfirst[(y - 1) + P] + year_lengths[(((y - 1) + P) % P) + 1]
  BY <1>5, JanfirstIs
<1>9. ((y - 1) + P) % P = (y - 1) % P BY <1>5, YearOfCycle
<1>10. l \in Int /\ janfirst[y - 1] \in Int
  BY <1>5, YearOfCycle, JanfirstInt, YearLengths
<1> HIDE DEF l
<1>11. janfirst[y + P] = janfirst[(y - 1) + P] + l BY <1>8, <1>9 DEF l
<1> QED BY <1>2, <1>3, <1>6, <1>7, <1>10, <1>11

----------------------------------------------------------------------------
(* A table made by a rule *)

\* The moment of a change in a year, a year later and a cycle later.
LEMMA Transtime ==
  ASSUME NEW y \in Nat, NEW rule \in YearRule, NEW offset \in Int
  PROVE  /\ transtime(y, rule, offset) \in Int
         /\ transtime(y, rule, offset)
              = janfirst[y] + (rule[(y % YEARSPERREPEAT) + 1] + offset)
         /\ transtime(y + YEARSPERREPEAT, rule, offset)
              = transtime(y, rule, offset) + SECSPERREPEAT
         /\ transtime(y + 1, rule, offset)
              = janfirst[y] + (year_lengths[(y % YEARSPERREPEAT) + 1]
                  + (rule[(((y % YEARSPERREPEAT) + 1) % YEARSPERREPEAT) + 1] + offset))
<1> DEFINE P == YEARSPERREPEAT
           k == (y % P) + 1
           next == (k % P) + 1
<1>1. /\ P \in Nat \ {0} /\ SECSPERREPEAT \in Nat /\ y + P \in Nat /\ y + 1 \in Nat
  BY Room
<1>2. /\ k \in 1..P /\ (y + P) % P = y % P /\ ((y + 1) % P) + 1 = next
  BY YearOfCycle
<1>3. next \in 1..P
  BY <1>1, <1>2, YearOfCycle
<1>4. /\ janfirst[y] \in Int /\ rule[k] \in Int /\ rule[next] \in Int
      /\ year_lengths[k] \in Int
  BY <1>2, <1>3, JanfirstInt, LoadAssumption DEF YearRule
<1>5. /\ janfirst[y + P] = janfirst[y] + SECSPERREPEAT
      /\ janfirst[y + 1] = janfirst[y] + year_lengths[k]
  BY JanfirstRepeats, JanfirstIs
<1>6. transtime(y, rule, offset) = janfirst[y] + rule[k] + offset BY DEF transtime
<1>7. transtime(y + P, rule, offset) = janfirst[y + P] + rule[k] + offset
  BY <1>2 DEF transtime
<1>8. transtime(y + 1, rule, offset) = janfirst[y + 1] + rule[next] + offset
  BY <1>2 DEF transtime
<1> HIDE DEF k, next
<1>9. /\ transtime(y, rule, offset) \in Int
      /\ transtime(y, rule, offset) = janfirst[y] + (rule[k] + offset)
      /\ transtime(y + P, rule, offset) = transtime(y, rule, offset) + SECSPERREPEAT
      /\ transtime(y + 1, rule, offset) = janfirst[y] + (year_lengths[k] + (rule[next] + offset))
  BY <1>1, <1>4, <1>5, <1>6, <1>7, <1>8
<1> QED BY <1>9 DEF k, next

\* The years with room for their two changes.
YearsOfTable == TZ_MAX_TIMES \div 2

\* A table has room for more than a cycle of years.
LEMMA TableRoom ==
  /\ YearsOfTable \in Nat /\ 2 * YearsOfTable \in 0..TZ_MAX_TIMES
  /\ YearsOfTable > YEARSPERREPEAT
  /\ YEARSPERREPEAT \in Nat \ {0}
<1>1. \A m \in Nat : m \div 2 \in Nat /\ 2 * (m \div 2) <= m OBVIOUS
<1> QED BY <1>1, Room DEF YearsOfTable

\* The two transitions of a year.
LEMMA TwoAYear ==
  ASSUME NEW n \in Nat, NEW i \in 1..(2 * n)
  PROVE  \E y \in 0..(n - 1) : \/ /\ i = 2 * y + 1 /\ (i - 1) \div 2 = y /\ i % 2 = 1
                               \/ /\ i = 2 * y + 2 /\ (i - 1) \div 2 = y /\ i % 2 # 1
<1> DEFINE y == (i - 1) \div 2
<1>1. y \in 0..(n - 1) OBVIOUS
<1>2. \/ i = 2 * y + 1 /\ i % 2 = 1
      \/ i = 2 * y + 2 /\ i % 2 # 1
  OBVIOUS
<1> QED BY <1>1, <1>2

\* The first and the second change of year y.
First(spec, rule, y) ==
  LET s == transtime(y, rule.start, spec.stdoffset)
      e == transtime(y, rule.end, spec.dstoffset)
  IN  IF s > e THEN e ELSE s
Second(spec, rule, y) ==
  LET s == transtime(y, rule.start, spec.stdoffset)
      e == transtime(y, rule.end, spec.dstoffset)
  IN  IF s > e THEN s ELSE e
\* Does the first one end daylight time?
EndsFirst(spec, rule, y) ==
  transtime(y, rule.start, spec.stdoffset) > transtime(y, rule.end, spec.dstoffset)

\* The changes of a year, those of a cycle later and those of the next year.
LEMMA Changes ==
  ASSUME NEW spec \in Specs, spec # Malformed, spec.dstoffset # NoDst,
         NEW rule \in Rule, NEW y \in Nat
  PROVE  /\ First(spec, rule, y) \in Int /\ Second(spec, rule, y) \in Int
         /\ First(spec, rule, y + YEARSPERREPEAT) = First(spec, rule, y) + SECSPERREPEAT
         /\ Second(spec, rule, y + YEARSPERREPEAT) = Second(spec, rule, y) + SECSPERREPEAT
         /\ EndsFirst(spec, rule, y + YEARSPERREPEAT) <=> EndsFirst(spec, rule, y)
         /\ InTurn(spec, rule) =>
              /\ First(spec, rule, y) < Second(spec, rule, y)
              /\ Second(spec, rule, y) < First(spec, rule, y + 1)
<1> DEFINE P == YEARSPERREPEAT
           k == (y % P) + 1
           next == (k % P) + 1
           s == transtime(y, rule.start, spec.stdoffset)
           e == transtime(y, rule.end, spec.dstoffset)
           s1 == transtime(y + 1, rule.start, spec.stdoffset)
           e1 == transtime(y + 1, rule.end, spec.dstoffset)
           sP == transtime(y + P, rule.start, spec.stdoffset)
           eP == transtime(y + P, rule.end, spec.dstoffset)
           a == rule.start[k] + spec.stdoffset
           b == rule.end[k] + spec.dstoffset
           c == rule.start[next] + spec.stdoffset
           d == rule.end[next] + spec.dstoffset
           l == year_lengths[k]
           j == janfirst[y]
<1>1. /\ rule.start \in YearRule /\ rule.end \in YearRule
      /\ spec.stdoffset \in Int /\ spec.dstoffset \in Int
  BY SpecParts DEF Rule
<1>2. k \in 1..P /\ next \in 1..P /\ SECSPERREPEAT \in Nat
  <2>1. k \in 1..P /\ k \in Nat BY YearOfCycle, Room
  <2> QED BY <2>1, YearOfCycle, Room
<1>3. a \in Int /\ b \in Int /\ c \in Int /\ d \in Int /\ l \in Int /\ j \in Int
  <2> HIDE DEF k, next
  <2>1. \A f \in YearRule : f[k] \in Int /\ f[next] \in Int BY <1>2 DEF YearRule
  <2>2. year_lengths \in YearRule BY LoadAssumption DEF YearRule
  <2> QED BY <1>1, <2>1, <2>2, JanfirstInt
<1>4. s = j + a /\ s1 = j + (l + c) /\ sP = s + SECSPERREPEAT
  BY <1>1, Transtime
<1>5. e = j + b /\ e1 = j + (l + d) /\ eP = e + SECSPERREPEAT
  BY <1>1, Transtime
<1>6. InTurn(spec, rule) => a # b /\ a < l + c /\ a < l + d /\ b < l + c /\ b < l + d
  BY <1>2 DEF InTurn, changes, NextYear
<1>7. /\ First(spec, rule, y) = IF s > e THEN e ELSE s
      /\ Second(spec, rule, y) = IF s > e THEN s ELSE e
      /\ EndsFirst(spec, rule, y) <=> s > e
      /\ First(spec, rule, y + P) = IF sP > eP THEN eP ELSE sP
      /\ Second(spec, rule, y + P) = IF sP > eP THEN sP ELSE eP
      /\ EndsFirst(spec, rule, y + P) <=> sP > eP
      /\ First(spec, rule, y + 1) = IF s1 > e1 THEN e1 ELSE s1
  BY DEF First, Second, EndsFirst
<1> HIDE DEF s, e, s1, e1, sP, eP, a, b, c, d, l, j
<1>8. s \in Int /\ e \in Int BY <1>3, <1>4, <1>5
<1>9. sP > eP <=> s > e BY <1>2, <1>4, <1>5, <1>8
<1>10. InTurn(spec, rule) => /\ s # e
                             /\ s < s1 /\ s < e1 /\ e < s1 /\ e < e1
  BY <1>3, <1>4, <1>5, <1>6
<1>11. s1 \in Int /\ e1 \in Int BY <1>3, <1>4, <1>5
<1> QED BY <1>2, <1>4, <1>5, <1>7, <1>8, <1>9, <1>10, <1>11

\* The changes in a row, from that of EPOCH_YEAR on, and whether daylight time
\* begins with one.
Change(spec, rule, i) ==
  IF i % 2 = 1 THEN First(spec, rule, (i - 1) \div 2) ELSE Second(spec, rule, (i - 1) \div 2)
ToDst(spec, rule, i) ==
  IF i % 2 = 1 THEN ~ EndsFirst(spec, rule, (i - 1) \div 2)
  ELSE EndsFirst(spec, rule, (i - 1) \div 2)

\* A table of nothing but the changes of a rule.
OfRule(z, spec, rule) ==
  /\ \A i \in 1..timecnt(z) :
       /\ z.ats[i] = Change(spec, rule, i)
       /\ z.types[i] = IF ToDst(spec, rule, i) THEN 1 ELSE 2
  /\ z.ttis[1].tt_isdst = TRUE /\ z.ttis[1].tt_gmtoff = -spec.dstoffset
  /\ z.ttis[2].tt_isdst = FALSE /\ z.ttis[2].tt_gmtoff = -spec.stdoffset

\* The table of a rule: typed, in order where the rule changes in turn, and
\* repeating after a cycle whatever it says.
LEMMA RuleTableParts ==
  ASSUME Given, NEW spec \in Specs, spec # Malformed, spec.dstoffset # NoDst,
         NEW rule \in Rule
  PROVE  LET z == RuleTable(spec, rule)
         IN  /\ Proper(z) /\ Len(z.ttis) = 2
             /\ InTurn(spec, rule) => InOrder(z.ats, Len(z.ats))
             /\ TrueBack(z) /\ TrueAhead(z)
             /\ OfRule(z, spec, rule)
<1> DEFINE N == YearsOfTable
           n == 2 * N
           P == YEARSPERREPEAT
           start(y) == transtime(y, rule.start, spec.stdoffset)
           end(y)   == transtime(y, rule.end, spec.dstoffset)
           year(i)  == (i - 1) \div 2
           first(i) == i % 2 = 1
           isStart(i) == first(i) # (start(year(i)) > end(year(i)))
           a == [i \in 1..n |-> IF isStart(i) THEN start(year(i)) ELSE end(year(i))]
           t == [i \in 1..n |-> IF isStart(i) THEN 1 ELSE 2]
           types == <<ParsedType(1, -spec.dstoffset, TRUE, spec.dstname),
                      ParsedType(2, -spec.stdoffset, FALSE, spec.stdname)>>
           z == ParsedTable(a, t, types)
           F(y) == First(spec, rule, y)
           S(y) == Second(spec, rule, y)
           E(y) == EndsFirst(spec, rule, y)
<1>1. RuleTable(spec, rule) = z BY DEF RuleTable, YearsOfTable
<1>2. N \in Nat /\ n \in 0..TZ_MAX_TIMES /\ n \in Nat /\ N > P /\ P \in Nat \ {0}
  BY TableRoom
<1>3. /\ -spec.stdoffset \in Int /\ -spec.dstoffset \in Int
      /\ spec.stdname \in STRING /\ spec.dstname \in STRING
  BY SpecParts
<1>4. /\ types \in Seq(LocalType) /\ Len(types) = 2
      /\ types[1].tt_isdst = TRUE /\ types[1].tt_gmtoff = -spec.dstoffset
      /\ types[2].tt_isdst = FALSE /\ types[2].tt_gmtoff = -spec.stdoffset
  <2> DEFINE dst == ParsedType(1, -spec.dstoffset, TRUE, spec.dstname)
             std == ParsedType(2, -spec.stdoffset, FALSE, spec.stdname)
  <2>1. dst \in LocalType /\ dst.tt_isdst = TRUE /\ dst.tt_gmtoff = -spec.dstoffset
    BY <1>3, ParsedTypeParts
  <2>2. std \in LocalType /\ std.tt_isdst = FALSE /\ std.tt_gmtoff = -spec.stdoffset
    BY <1>3, ParsedTypeParts
  <2> HIDE DEF dst, std
  <2>3. types = <<dst, std>> BY DEF dst, std
  <2> HIDE DEF types
  <2>4. types \in Seq(LocalType) /\ Len(types) = 2 /\ types[1] = dst /\ types[2] = std
    BY <2>1, <2>2, <2>3, ShortLists
  <2> QED BY <2>1, <2>2, <2>4
<1> HIDE DEF types
<1>5. \A y \in Nat : /\ F(y) \in Int /\ S(y) \in Int
                     /\ F(y + P) = F(y) + SECSPERREPEAT /\ S(y + P) = S(y) + SECSPERREPEAT
                     /\ E(y + P) <=> E(y)
                     /\ InTurn(spec, rule) => F(y) < S(y) /\ S(y) < F(y + 1)
  BY Changes
\* Transition by transition.
<1>6. ASSUME NEW y \in 0..(N - 1)
      PROVE  /\ 2 * y + 1 \in 1..n /\ 2 * y + 2 \in 1..n
             /\ a[2 * y + 1] = F(y) /\ t[2 * y + 1] = IF E(y) THEN 2 ELSE 1
             /\ a[2 * y + 2] = S(y) /\ t[2 * y + 2] = IF E(y) THEN 1 ELSE 2
  <2>1. /\ 2 * y + 1 \in 1..n /\ 2 * y + 2 \in 1..n BY <1>2
  <2>2. /\ year(2 * y + 1) = y /\ first(2 * y + 1)
        /\ year(2 * y + 2) = y /\ ~ first(2 * y + 2)
    BY <1>2
  <2>3. E(y) <=> start(y) > end(y) BY DEF EndsFirst
  <2>4. /\ F(y) = IF start(y) > end(y) THEN end(y) ELSE start(y)
        /\ S(y) = IF start(y) > end(y) THEN start(y) ELSE end(y)
    BY DEF First, Second
  <2> HIDE DEF start, end, F, S, E, year
  <2>5. /\ isStart(2 * y + 1) <=> ~ (start(y) > end(y))
        /\ isStart(2 * y + 2) <=> start(y) > end(y)
    <3>1. \A b \in BOOLEAN : (TRUE # b <=> ~ b) /\ (FALSE # b <=> b) OBVIOUS
    <3>2. (start(y) > end(y)) \in BOOLEAN OBVIOUS
    <3>3. isStart(2 * y + 1) <=> (TRUE # (start(y) > end(y))) BY <2>2
    <3>4. isStart(2 * y + 2) <=> (FALSE # (start(y) > end(y))) BY <2>2
    <3> QED BY <3>1, <3>2, <3>3, <3>4
  <2>6. /\ a[2 * y + 1] = IF isStart(2 * y + 1) THEN start(y) ELSE end(y)
        /\ a[2 * y + 2] = IF isStart(2 * y + 2) THEN start(y) ELSE end(y)
        /\ t[2 * y + 1] = IF isStart(2 * y + 1) THEN 1 ELSE 2
        /\ t[2 * y + 2] = IF isStart(2 * y + 2) THEN 1 ELSE 2
    BY <2>1, <2>2
  <2> QED BY <2>1, <2>3, <2>4, <2>5, <2>6
<1>7. t \in [1..n -> 1..Len(types)] BY <1>4
<1>8. a = [i \in 1..n |-> a[i]] OBVIOUS
<1> HIDE DEF a, t, F, S, E
<1>9. ASSUME NEW i \in 1..n
      PROVE  \E y \in 0..(N - 1) : i = 2 * y + 1 \/ i = 2 * y + 2
  BY <1>2, TwoAYear
<1>10. ASSUME NEW i \in 1..n PROVE a[i] \in Int
  <2>1. PICK y \in 0..(N - 1) : i = 2 * y + 1 \/ i = 2 * y + 2 BY <1>9
  <2>2. y \in Nat /\ F(y) \in Int /\ S(y) \in Int BY <1>5, <2>1
  <2> QED BY <1>6, <2>1, <2>2
<1>11. a \in [1..n -> Int] BY <1>8, <1>10
<1>12. /\ Proper(z) /\ z.ats = a /\ Len(a) = n /\ z.types = t /\ z.ttis = types
  <2> HIDE DEF z, n
  <2>1. Len(types) \in {1, 2} BY <1>4
  <2>2. Parsed(ParsedTable(a, t, types), n, a, t, types)
    BY <1>2, <1>4, <1>7, <1>11, <2>1, ParsedTableParts
  <2> QED BY <2>2 DEF Parsed, z
<1> HIDE DEF z
<1>13. ASSUME InTurn(spec, rule) PROVE InOrder(a, n)
  <2>1. ASSUME NEW i \in 1..(n - 1) PROVE a[i] < a[i + 1]
    <3>1. i \in 1..n BY <1>2
    <3>2. PICK y \in 0..(N - 1) : i = 2 * y + 1 \/ i = 2 * y + 2 BY <1>9, <3>1
    <3>3. y \in Nat /\ F(y) < S(y) /\ S(y) < F(y + 1) BY <1>5, <1>13, <3>2
    <3>4. CASE i = 2 * y + 1
      <4>1. i + 1 = 2 * y + 2 BY <3>2, <3>4
      <4> QED BY <1>6, <3>3, <3>4, <4>1
    <3>5. CASE i = 2 * y + 2
      <4>1. i + 1 = 2 * (y + 1) + 1 /\ y + 1 \in 0..(N - 1) BY <1>2, <3>2, <3>5
      <4>2. a[i + 1] = F(y + 1) BY <1>6, <4>1
      <4> QED BY <1>6, <3>3, <3>5, <4>2
    <3> QED BY <3>2, <3>4, <3>5
  <2> QED BY <1>2, <1>10, <2>1, Ascending
<1>14. timecnt(z) = n /\ \A i : TypeOf(z, i) = types[t[i]]
  BY <1>12 DEF timecnt, TypeOf
\* The first year and the one a cycle later, the last and the one before it.
<1>15. /\ 0 \in 0..(N - 1) /\ P \in 0..(N - 1) /\ N - 1 \in 0..(N - 1) /\ (N - 1) - P \in 0..(N - 1)
       /\ 0 \in Nat /\ (N - 1) - P \in Nat
       /\ ((N - 1) - P) + P = N - 1 /\ 0 + P = P
       /\ 2 * 0 + 1 = 1 /\ 2 * (N - 1) + 2 = n
       /\ 2 * P + 1 \in 2..n /\ 2 * ((N - 1) - P) + 2 \in 1..(n - 1)
  BY <1>2
<1>16. SECSPERREPEAT \in Int BY Room
<1>17. TrueBack(z)
  <2>1. F(P) = F(0) + SECSPERREPEAT /\ (E(P) <=> E(0)) /\ F(0) \in Int BY <1>5, <1>15
  <2>2. a[2 * P + 1] = F(P) /\ t[2 * P + 1] = IF E(P) THEN 2 ELSE 1 BY <1>6, <1>15
  <2>3. a[1] = F(0) /\ t[1] = IF E(0) THEN 2 ELSE 1 BY <1>6, <1>15
  <2>4. differ_by_repeat(a[2 * P + 1], a[1])
    BY <1>16, <2>1, <2>2, <2>3 DEF differ_by_repeat
  <2>5. t[2 * P + 1] = t[1] BY <2>1, <2>2, <2>3
  <2> DEFINE j == 2 * P + 1
  <2>6. differ_by_repeat(z.ats[j], z.ats[1]) /\ TypeOf(z, j) = TypeOf(z, 1)
    BY <1>12, <1>14, <2>4, <2>5
  <2>7. j \in 2..n BY <1>15
  <2> HIDE DEF j, n
  <2> QED BY <1>14, <2>6, <2>7 DEF TrueBack
<1>18. TrueAhead(z)
  <2> DEFINE y == (N - 1) - P
  <2>1. S(N - 1) = S(y) + SECSPERREPEAT /\ (E(N - 1) <=> E(y)) /\ S(y) \in Int BY <1>5, <1>15
  <2>2. a[2 * y + 2] = S(y) /\ t[2 * y + 2] = IF E(y) THEN 1 ELSE 2 BY <1>6, <1>15
  <2>3. a[n] = S(N - 1) /\ t[n] = IF E(N - 1) THEN 1 ELSE 2 BY <1>6, <1>15
  <2>4. differ_by_repeat(a[n], a[2 * y + 2])
    BY <1>16, <2>1, <2>2, <2>3 DEF differ_by_repeat
  <2>5. t[n] = t[2 * y + 2] BY <2>1, <2>2, <2>3
  <2> DEFINE i == 2 * y + 2
  <2>6. differ_by_repeat(z.ats[n], z.ats[i]) /\ TypeOf(z, n) = TypeOf(z, i)
    BY <1>12, <1>14, <2>4, <2>5
  <2>7. i \in 1..(n - 1) BY <1>15
  <2> HIDE DEF i, n
  <2> QED BY <1>14, <2>6, <2>7 DEF TrueAhead
<1>19. ASSUME NEW i \in 1..n
       PROVE  a[i] = Change(spec, rule, i) /\ t[i] = IF ToDst(spec, rule, i) THEN 1 ELSE 2
  <2>1. PICK y \in 0..(N - 1) :
           \/ i = 2 * y + 1 /\ (i - 1) \div 2 = y /\ i % 2 = 1
           \/ i = 2 * y + 2 /\ (i - 1) \div 2 = y /\ i % 2 # 1
    BY <1>2, TwoAYear
  <2>2. /\ Change(spec, rule, i) = IF i % 2 = 1 THEN F(y) ELSE S(y)
        /\ ToDst(spec, rule, i) = IF i % 2 = 1 THEN ~ E(y) ELSE E(y)
    BY <2>1 DEF Change, ToDst, F, S, E
  <2>3. E(y) \in BOOLEAN BY DEF E, EndsFirst
  <2> QED BY <1>6, <2>1, <2>2, <2>3
<1>20. OfRule(z, spec, rule) BY <1>4, <1>12, <1>14, <1>19 DEF OfRule
<1> QED BY <1>1, <1>4, <1>12, <1>13, <1>17, <1>18, <1>20 DEF z

----------------------------------------------------------------------------
(* What a specification comes to *)

\* Whatever a specification is, its table is proper; with the exceptions named in
\* Usable, it is in order and its flags are true.
LEMMA ParsedParts ==
  ASSUME Given, NEW spec \in Specs, tzparse(spec) # Failed
  PROVE  LET z == tzparse(spec)
         IN  /\ Proper(z)
             /\ ~ Disorderly(spec) => InOrder(z.ats, Len(z.ats))
             /\ ~ FlagsWithoutTable(spec) /\ ~ (Adjusts(spec) /\ UnevenRules) =>
                  TrueBack(z) /\ TrueAhead(z)
<1>1. spec # Malformed BY DEF tzparse
<1>2. CASE spec.dstoffset = NoDst
  <2> DEFINE z == StandardTable(spec)
  <2>1. tzparse(spec) = z BY <1>1, <1>2 DEF tzparse
  <2>2. /\ Proper(z) /\ Len(z.ats) = 0
        /\ ~ FlagsWithoutTable(spec) => TrueBack(z) /\ TrueAhead(z)
    BY <1>1, <1>2, StandardParts
  <2> HIDE DEF z
  <2>3. InOrder(z.ats, Len(z.ats)) BY <2>2 DEF InOrder
  <2> QED BY <2>1, <2>2, <2>3
<1>3. CASE spec.dstoffset # NoDst /\ RuleOf(spec) # NoRule
  <2> DEFINE z == RuleTable(spec, RuleOf(spec))
  <2>1. tzparse(spec) = z BY <1>1, <1>3 DEF tzparse
  <2>2. RuleOf(spec) \in Rule BY <1>1, <1>3, RuleOfParts
  <2>3. /\ Proper(z)
        /\ InTurn(spec, RuleOf(spec)) => InOrder(z.ats, Len(z.ats))
        /\ TrueBack(z) /\ TrueAhead(z)
    BY <1>1, <1>3, <2>2, RuleTableParts
  <2> HIDE DEF z
  <2>4. ~ Disorderly(spec) => InTurn(spec, RuleOf(spec)) BY <1>1, <1>3 DEF Disorderly
  <2> QED BY <2>1, <2>3, <2>4
<1>4. CASE spec.dstoffset # NoDst /\ RuleOf(spec) = NoRule
  <2> DEFINE z == AdjustedTable(spec, DefRules)
  <2>1. tzparse(spec) = z BY <1>1, <1>4 DEF tzparse
  <2>2. DefRules # Failed BY <1>1, <1>4, RuleOfParts
  <2>3. /\ Proper(z)
        /\ ~ ChangesPlaces(spec) => InOrder(z.ats, Len(z.ats))
        /\ ~ UnevenRules => TrueBack(z) /\ TrueAhead(z)
    BY <1>1, <1>4, <2>2, AdjustedParts
  <2> HIDE DEF z
  <2>4. Adjusts(spec) BY <1>1, <1>4 DEF Adjusts
  <2>5. ~ Disorderly(spec) => ~ ChangesPlaces(spec) BY <2>4 DEF Disorderly
  <2> QED BY <2>1, <2>3, <2>4, <2>5
<1> QED BY <1>2, <1>3, <1>4

----------------------------------------------------------------------------
(* Appending *)

\* w begins with z.
Continues(w, z) ==
  /\ Len(z.ats) <= Len(w.ats)
  /\ \A i \in 1..Len(z.ats) : w.ats[i] = z.ats[i] /\ TypeOf(w, i) = TypeOf(z, i)

\* The elements below the first one of a set.
LEMMA FirstOf ==
  ASSUME NEW m \in Nat, NEW S \in SUBSET (1..m),
         NEW s, s = IF S = {} THEN m ELSE Min(S) - 1
  PROVE  s \in 0..m /\ (S # {} => s + 1 \in S /\ \A i \in S : s + 1 <= i)
<1>1. CASE S = {} BY <1>1
<1>2. CASE S # {}
  <2>1. S \in SUBSET Nat OBVIOUS
  <2>2. Min(S) \in S /\ \A i \in S : Min(S) <= i BY <1>2, <2>1, MinFacts
  <2>3. Min(S) \in 1..m /\ s = Min(S) - 1 BY <1>2, <2>2
  <2> QED BY <1>2, <2>2, <2>3
<1> QED BY <1>1, <1>2

\* c is a, of n elements, and then b, of m.
Joins(c, S, a, n, b, m) ==
  /\ c \in Seq(S) /\ Len(c) = n + m
  /\ \A i \in 1..(n + m) : c[i] = IF i <= n THEN a[i] ELSE b[i - n]

\* Joining two lists.
LEMMA Joined ==
  ASSUME NEW S, NEW a \in Seq(S), NEW b \in Seq(S), NEW n, NEW m, Len(a) = n, Len(b) = m
  PROVE  Joins(a \o b, S, a, n, b, m)
BY ConcatProperties DEF Joins

\* c is the r elements of a after the first s.
IsPart(c, S, a, s, r) ==
  /\ c \in Seq(S) /\ Len(c) = r
  /\ \A i \in 1..r : c[i] = a[s + i]

\* A part of a list.
LEMMA Part ==
  ASSUME NEW S, NEW a, NEW s \in Nat, NEW r \in Nat, \A i \in 1..r : a[s + i] \in S
  PROVE  IsPart(SubSeq(a, s + 1, s + r), S, a, s, r)
<1>1. \A i \in (s + 1)..(s + r) : a[i] \in S
  <2>1. ASSUME NEW i \in (s + 1)..(s + r) PROVE a[i] \in S
    <3>1. i - s \in 1..r /\ s + (i - s) = i OBVIOUS
    <3>2. a[s + (i - s)] \in S BY <3>1
    <3> QED BY <3>1, <3>2
  <2> QED BY <2>1
<1>2. s + 1 \in Int /\ s + r \in Int OBVIOUS
<1> DEFINE b == SubSeq(a, s + 1, s + r)
<1>3. /\ b \in Seq(S)
      /\ Len(b) = IF s + 1 <= s + r THEN (s + r) - (s + 1) + 1 ELSE 0
      /\ \A i \in 1..((s + r) - (s + 1) + 1) : b[i] = a[(s + 1) + i - 1]
  BY <1>1, <1>2, SubSeqProperties
<1> HIDE DEF b
<1>4. (s + r) - (s + 1) + 1 = r /\ Len(b) = r BY <1>3
<1>5. \A i \in 1..r : b[i] = a[s + i]
  <2>1. ASSUME NEW i \in 1..r PROVE b[i] = a[s + i]
    <3>1. (s + 1) + i - 1 = s + i OBVIOUS
    <3>2. i \in 1..((s + r) - (s + 1) + 1) BY <1>4
    <3>3. b[i] = a[(s + 1) + i - 1] BY <1>3, <3>2
    <3> QED BY <3>1, <3>3
  <2> QED BY <2>1
<1> QED BY <1>3, <1>4, <1>5 DEF b, IsPart

\* After n transitions w goes on as ts does after s.
Follows(w, n, ts, s) ==
  \A p \in 1..(timecnt(w) - n) :
    /\ s + p \in 1..timecnt(ts)
    /\ w.ats[n + p] = ts.ats[s + p] /\ TypeOf(w, n + p) = TypeOf(ts, s + p)

\* What is appended comes after what was there, in order.
LEMMA AppendedParts ==
  ASSUME NEW z, Proper(z), NEW ts, Proper(ts), Len(ts.ttis) = 2,
         Len(z.ttis) + 2 <= TZ_MAX_TYPES
  PROVE  LET w == Appended(z, ts)
         IN  /\ Proper(w) /\ Continues(w, z)
             /\ InOrder(z.ats, Len(z.ats)) /\ InOrder(ts.ats, Len(ts.ats)) =>
                  InOrder(w.ats, Len(w.ats))
             /\ \E s \in Nat : Follows(w, timecnt(z), ts, s)
<1> DEFINE n == timecnt(z)
           m == timecnt(ts)
           later == {i \in 1..m : ts.ats[i] > LastAt(z)}
           skipped == IF later = {} THEN m ELSE Min(later) - 1
           room == Min({m - skipped, TZ_MAX_TIMES - n})
           k == Len(z.ttis)
           added == SubSeq(ts.ats, skipped + 1, skipped + room)
           ty == [i \in 1..room |-> k + ts.types[skipped + i]]
           w == Appended(z, ts)
<1>1. /\ n \in Nat /\ m \in Nat /\ k \in Nat \ {0} /\ n = Len(z.ats) /\ m = Len(ts.ats)
      /\ \A i \in 1..n : z.ats[i] \in Int
      /\ \A i \in 1..m : ts.ats[i] \in Int
  BY ProperParts DEF timecnt
<1>2. /\ z \in Tables /\ ts \in Tables /\ Len(z.types) = n
      /\ n <= TZ_MAX_TIMES /\ TZ_MAX_TIMES \in Nat /\ TZ_MAX_TYPES \in Nat
      /\ \A i \in 1..n : z.types[i] \in 1..k
      /\ \A i \in 1..m : ts.types[i] \in 1..2
  BY Room DEF Proper, timecnt
<1>3. w = [z EXCEPT !.ats = @ \o added, !.types = @ \o ty, !.ttis = @ \o ts.ttis]
  BY DEF Appended
<1> HIDE DEF n, m
<1>4. LastAt(z) \in Int BY <1>1 DEF LastAt, n
<1>5. /\ skipped \in 0..m
      /\ later # {} => skipped + 1 \in later /\ \A i \in later : skipped + 1 <= i
  <2>1. later \in SUBSET (1..m) OBVIOUS
  <2>2. skipped = IF later = {} THEN m ELSE Min(later) - 1 OBVIOUS
  <2>3. m \in Nat BY <1>1
  <2> HIDE DEF later, skipped
  <2> QED BY <2>1, <2>2, <2>3, FirstOf, Zenon
<1>6. room \in Nat /\ room <= m - skipped /\ room <= TZ_MAX_TIMES - n
  <2>1. m - skipped \in Nat /\ TZ_MAX_TIMES - n \in Nat BY <1>1, <1>2, <1>5
  <2> QED BY <2>1, MinOfTwo
<1>7. room # 0 => later # {} BY <1>1, <1>5, <1>6
<1> HIDE DEF skipped, room, later
<1>8. \A i \in 1..room : skipped + i \in 1..m BY <1>1, <1>5, <1>6
<1>9. added \in Seq(Int) /\ Len(added) = room /\ \A i \in 1..room : added[i] = ts.ats[skipped + i]
  <2>1. \A i \in 1..room : ts.ats[skipped + i] \in Int BY <1>1, <1>8
  <2>2. skipped \in Nat /\ room \in Nat BY <1>5, <1>6
  <2>3. IsPart(added, Int, ts.ats, skipped, room) BY <2>1, <2>2, Part
  <2> HIDE DEF added
  <2> QED BY <2>3 DEF IsPart
<1>10. /\ ty \in Seq(Nat \ {0}) /\ Len(ty) = room
       /\ \A i \in 1..room : ty[i] \in (k + 1)..(k + 2)
       /\ \A i \in 1..room : ty[i] = k + ts.types[skipped + i]
  <2>1. \A i \in 1..room : ts.types[skipped + i] \in 1..2 BY <1>2, <1>8
  <2>2. \A i \in 1..room : k + ts.types[skipped + i] \in (k + 1)..(k + 2)
    BY <1>1, <2>1
  <2>3. \A i \in 1..room : ty[i] \in (k + 1)..(k + 2) BY <2>2
  <2>4. (k + 1)..(k + 2) \subseteq Nat \ {0} BY <1>1
  <2>5. ty \in [1..room -> Nat \ {0}] BY <2>3, <2>4
  <2>6. \A i \in 1..room : ty[i] = k + ts.types[skipped + i] OBVIOUS
  <2> HIDE DEF ty, k
  <2> QED BY <1>6, <2>3, <2>5, <2>6
<1> HIDE DEF added, ty, k, w
<1>11. /\ z.ats \in Seq(Int) /\ z.types \in Seq(Nat \ {0}) /\ z.ttis \in Seq(LocalType)
       /\ ts.ttis \in Seq(LocalType) /\ Len(z.ttis) = k
  BY <1>2 DEF Tables, k
<1>12. /\ w.ats = z.ats \o added /\ w.types = z.types \o ty /\ w.ttis = z.ttis \o ts.ttis
       /\ w.goback = z.goback /\ w.goahead = z.goahead
       /\ w = [ats |-> w.ats, types |-> w.types, ttis |-> w.ttis,
               goback |-> w.goback, goahead |-> w.goahead]
  BY <1>2, <1>3 DEF Tables
<1>13. /\ w.ats \in Seq(Int) /\ Len(w.ats) = n + room
       /\ \A i \in 1..(n + room) : w.ats[i] = IF i <= n THEN z.ats[i] ELSE added[i - n]
  <2>1. Len(z.ats) = n /\ Len(added) = room /\ z.ats \in Seq(Int) /\ added \in Seq(Int)
    BY <1>1, <1>9, <1>11
  <2>2. Joins(z.ats \o added, Int, z.ats, n, added, room) BY <2>1, Joined
  <2>3. Joins(w.ats, Int, z.ats, n, added, room) BY <1>12, <2>2
  <2> QED BY <2>3 DEF Joins
<1>14. /\ w.types \in Seq(Nat \ {0}) /\ Len(w.types) = n + room
       /\ \A i \in 1..(n + room) : w.types[i] = IF i <= n THEN z.types[i] ELSE ty[i - n]
  <2> DEFINE S == Nat \ {0}
  <2>1. Len(z.types) = n /\ Len(ty) = room /\ z.types \in Seq(S) /\ ty \in Seq(S)
    BY <1>2, <1>10, <1>11
  <2>2. Joins(z.types \o ty, S, z.types, n, ty, room) BY <2>1, Joined
  <2>3. Joins(w.types, S, z.types, n, ty, room) BY <1>12, <2>2
  <2> QED BY <2>3 DEF Joins
<1>15. /\ w.ttis \in Seq(LocalType) /\ Len(w.ttis) = k + 2
       /\ \A i \in 1..k : w.ttis[i] = z.ttis[i]
       /\ \A i \in 1..2 : w.ttis[k + i] = ts.ttis[i]
  <2>1. /\ w.ttis \in Seq(LocalType) /\ Len(w.ttis) = k + 2
        /\ \A i \in 1..(k + 2) : w.ttis[i] = IF i <= k THEN z.ttis[i] ELSE ts.ttis[i - k]
    <3>1. Joins(z.ttis \o ts.ttis, LocalType, z.ttis, k, ts.ttis, 2) BY <1>11, Joined
    <3>2. Joins(w.ttis, LocalType, z.ttis, k, ts.ttis, 2) BY <1>12, <3>1
    <3> QED BY <3>2 DEF Joins
  <2>2. ASSUME NEW i \in 1..k PROVE w.ttis[i] = z.ttis[i]
    <3>1. i \in 1..(k + 2) /\ i <= k BY <1>1
    <3> QED BY <2>1, <3>1
  <2>3. ASSUME NEW i \in 1..2 PROVE w.ttis[k + i] = ts.ttis[i]
    <3>1. k + i \in 1..(k + 2) /\ ~ (k + i <= k) /\ (k + i) - k = i BY <1>1
    <3>2. w.ttis[k + i] = ts.ttis[(k + i) - k] BY <2>1, <3>1
    <3> QED BY <3>1, <3>2
  <2> QED BY <2>1, <2>2, <2>3
<1>16. Proper(w)
  <2>1. w \in Tables
    <3>1. w.goback \in BOOLEAN /\ w.goahead \in BOOLEAN BY <1>2, <1>12 DEF Tables
    <3> QED BY <1>12, <1>13, <1>14, <1>15, <3>1 DEF Tables
  <2>2. n + room <= TZ_MAX_TIMES BY <1>1, <1>2, <1>6
  <2>3. k + 2 \in 1..TZ_MAX_TYPES BY <1>1, <1>2, <1>11
  <2>4. ASSUME NEW i \in 1..(n + room) PROVE w.types[i] \in 1..(k + 2)
    <3>1. CASE i <= n
      <4>1. i \in 1..n BY <1>1, <3>1
      <4>2. w.types[i] \in 1..k BY <1>2, <1>14, <3>1, <4>1
      <4> QED BY <1>1, <4>2
    <3>2. CASE ~ (i <= n)
      <4>1. i - n \in 1..room BY <1>1, <1>6, <3>2
      <4>2. w.types[i] \in (k + 1)..(k + 2) BY <1>10, <1>14, <3>2, <4>1
      <4> QED BY <1>1, <4>2
    <3> QED BY <3>1, <3>2
  <2> QED BY <1>13, <1>14, <1>15, <2>1, <2>2, <2>3, <2>4 DEF Proper
<1>17. Continues(w, z)
  <2>1. Len(z.ats) <= Len(w.ats) BY <1>1, <1>6, <1>13
  <2>2. ASSUME NEW i \in 1..n PROVE w.ats[i] = z.ats[i] /\ TypeOf(w, i) = TypeOf(z, i)
    <3>1. i \in 1..(n + room) /\ i <= n BY <1>1, <1>6
    <3>2. w.ats[i] = z.ats[i] /\ w.types[i] = z.types[i] BY <1>13, <1>14, <3>1
    <3>3. w.ttis[z.types[i]] = z.ttis[z.types[i]] BY <1>2, <1>15
    <3> QED BY <3>2, <3>3 DEF TypeOf
  <2> QED BY <1>1, <2>1, <2>2 DEF Continues
<1>18. ASSUME InOrder(z.ats, n), InOrder(ts.ats, m) PROVE InOrder(w.ats, n + room)
  <2>1. ASSUME NEW i \in 1..room, n # 0 PROVE z.ats[n] < added[i]
    <3>1. room # 0 BY <1>6
    <3>2. skipped + 1 \in later BY <1>5, <1>7, <3>1
    <3>3. ts.ats[skipped + 1] > LastAt(z) /\ skipped + 1 \in 1..m BY <3>2 DEF later
    <3>4. LastAt(z) = z.ats[n] BY <2>1 DEF LastAt, n
    <3>5. skipped + i \in 1..m /\ (i # 1 => skipped + 1 < skipped + i) BY <1>5, <1>6, <1>8
    <3>6. i # 1 => ts.ats[skipped + 1] < ts.ats[skipped + i]
      BY <1>18, <3>3, <3>5 DEF InOrder
    <3>7. added[i] = ts.ats[skipped + i] BY <1>9
    <3>8. ts.ats[skipped + 1] \in Int /\ ts.ats[skipped + i] \in Int BY <1>1, <3>3, <3>5
    <3> QED BY <1>4, <3>3, <3>4, <3>6, <3>7, <3>8
  <2>2. ASSUME NEW i \in 1..(n + room), NEW j \in 1..(n + room), i < j
        PROVE  w.ats[i] < w.ats[j]
    <3>1. CASE j <= n
      <4>1. i \in 1..n /\ j \in 1..n /\ i <= n BY <1>1, <2>2, <3>1
      <4> QED BY <1>13, <1>18, <2>2, <3>1, <4>1 DEF InOrder
    <3>2. CASE i > n
      <4> DEFINE p == i - n
                 q == j - n
      <4>1. p \in 1..room /\ q \in 1..room /\ p < q /\ ~ (i <= n) /\ ~ (j <= n)
        BY <1>1, <1>6, <2>2, <3>2
      <4>2. w.ats[i] = added[p] /\ w.ats[j] = added[q] BY <1>13, <4>1
      <4> HIDE DEF p, q
      <4>3. skipped + p < skipped + q BY <1>5, <4>1
      <4>4. ts.ats[skipped + p] < ts.ats[skipped + q]
        BY <1>8, <1>18, <4>1, <4>3 DEF InOrder
      <4> QED BY <1>9, <4>1, <4>2, <4>4
    <3>3. CASE i <= n /\ j > n
      <4> DEFINE q == j - n
      <4>1. q \in 1..room /\ n # 0 /\ i \in 1..n /\ n \in 1..n /\ ~ (j <= n)
        BY <1>1, <1>6, <2>2, <3>3
      <4>2. w.ats[i] = z.ats[i] /\ w.ats[j] = added[q] BY <1>13, <3>3, <4>1
      <4> HIDE DEF q
      <4>3. z.ats[n] < added[q] BY <2>1, <4>1
      <4>4. i = n \/ z.ats[i] < z.ats[n] BY <1>1, <1>18, <4>1 DEF InOrder
      <4>5. added[q] \in Int /\ z.ats[i] \in Int /\ z.ats[n] \in Int BY <1>1, <1>8, <1>9, <4>1
      <4>6. i # n => z.ats[i] < added[q] BY <4>3, <4>4, <4>5
      <4> QED BY <4>2, <4>3, <4>6
    <3>4. i <= n \/ i > n BY <1>1, <1>6
    <3>5. j <= n \/ j > n BY <1>1, <1>6
    <3> QED BY <3>1, <3>2, <3>3, <3>4, <3>5
  <2> QED BY <2>2 DEF InOrder
<1>19. ASSUME NEW p \in 1..room
       PROVE  /\ skipped + p \in 1..m
              /\ w.ats[n + p] = ts.ats[skipped + p]
              /\ TypeOf(w, n + p) = TypeOf(ts, skipped + p)
  <2>1. skipped + p \in 1..m BY <1>8
  <2>2. n + p \in 1..(n + room) /\ ~ (n + p <= n) /\ (n + p) - n = p BY <1>1, <1>6
  <2>3. w.ats[n + p] = added[p] /\ w.types[n + p] = ty[p]
    <3>1. w.ats[n + p] = added[(n + p) - n] /\ w.types[n + p] = ty[(n + p) - n]
      BY <1>13, <1>14, <2>2
    <3> QED BY <2>2, <3>1
  <2>4. added[p] = ts.ats[skipped + p] /\ ty[p] = k + ts.types[skipped + p] BY <1>9, <1>10
  <2>5. ts.types[skipped + p] \in 1..2 BY <1>2, <2>1
  <2>6. w.ttis[k + ts.types[skipped + p]] = ts.ttis[ts.types[skipped + p]] BY <1>15, <2>5
  <2> QED BY <2>1, <2>3, <2>4, <2>6 DEF TypeOf
<1>20. \E s \in Nat : Follows(w, n, ts, s)
  <2>1. skipped \in Nat BY <1>1, <1>5
  <2>2. timecnt(w) - n = room BY <1>1, <1>6, <1>13 DEF timecnt
  <2>3. Follows(w, n, ts, skipped) BY <1>19, <2>2 DEF Follows, m
  <2> QED BY <2>1, <2>3
<1> QED BY <1>1, <1>13, <1>16, <1>17, <1>18, <1>20 DEF w, n

\* The last line of a file keeps what the file said before, and its order.
LEMMA ExtendedParts ==
  ASSUME Given, NEW z, Proper(z), NEW footer \in Specs \cup {NoFooter}
  PROVE  LET w == Extended(z, footer)
         IN  /\ Proper(w) /\ Continues(w, z)
             /\ InOrder(z.ats, Len(z.ats)) /\ (footer # NoFooter => ~ Disorderly(footer)) =>
                  InOrder(w.ats, Len(w.ats))
             /\ timecnt(w) # timecnt(z) =>
                  /\ footer # NoFooter /\ tzparse(footer) # Failed
                  /\ \E s \in Nat : Follows(w, timecnt(z), tzparse(footer), s)
<1> DEFINE ts == tzparse(footer)
           w == Extended(z, footer)
<1>1. CASE footer # NoFooter /\ Len(z.ttis) + 2 <= TZ_MAX_TYPES /\ ts # Failed /\ Len(ts.ttis) = 2
  <2>1. w = Appended(z, ts) BY <1>1 DEF Extended
  <2>2. footer \in Specs BY <1>1
  <2>3. Proper(ts) /\ (~ Disorderly(footer) => InOrder(ts.ats, Len(ts.ats)))
    BY <1>1, <2>2, ParsedParts
  <2> HIDE DEF ts, w
  <2>4. /\ Proper(w) /\ Continues(w, z)
        /\ InOrder(z.ats, Len(z.ats)) /\ InOrder(ts.ats, Len(ts.ats)) =>
             InOrder(w.ats, Len(w.ats))
        /\ \E s \in Nat : Follows(w, timecnt(z), ts, s)
    BY <1>1, <2>1, <2>3, AppendedParts
  <2>5. footer # NoFooter BY <1>1
  <2> QED BY <1>1, <2>3, <2>4, <2>5 DEF w, ts
<1>2. CASE ~ (footer # NoFooter /\ Len(z.ttis) + 2 <= TZ_MAX_TYPES /\ ts # Failed /\ Len(ts.ttis) = 2)
  <2>1. w = z BY <1>2 DEF Extended
  <2> HIDE DEF ts, w
  <2>2. Continues(z, z) BY ProperParts DEF Continues
  <2> QED BY <2>1, <2>2 DEF w
<1> QED BY <1>1, <1>2

\* In a table in order there is one segment an instant can lie in.
LEMMA OneSegment ==
  ASSUME NEW z, Proper(z), InOrder(z.ats, Len(z.ats)), NEW t \in Int,
         NEW i, IsSegment(z, t, i)
  PROVE  Segment(z, t) = i
<1> DEFINE n == Len(z.ats)
           j == Segment(z, t)
<1>1. n \in Nat /\ timecnt(z) = n /\ \A k \in 1..n : z.ats[k] \in Int
  BY ProperParts DEF timecnt
<1>2. i \in 1..n /\ IsSegment(z, t, j) /\ j \in 1..n
  BY <1>1 DEF IsSegment, Segment
<1> HIDE DEF n, j
<1>3. ASSUME NEW a \in 1..n, NEW b \in 1..n, IsSegment(z, t, a), IsSegment(z, t, b)
      PROVE  ~ (a < b)
  <2> SUFFICES ASSUME a < b PROVE FALSE OBVIOUS
  <2>1. a < n /\ a + 1 \in 1..n BY <1>1
  <2>2. t < z.ats[a + 1] BY <1>1, <1>3, <2>1 DEF IsSegment
  <2>3. a + 1 = b \/ z.ats[a + 1] < z.ats[b] BY <2>1 DEF InOrder, n
  <2>4. z.ats[b] <= t BY <1>3 DEF IsSegment
  <2>5. z.ats[b] \in Int /\ z.ats[a + 1] \in Int BY <1>1, <2>1
  <2>6. CASE a + 1 = b BY <2>2, <2>4, <2>5, <2>6
  <2>7. CASE z.ats[a + 1] < z.ats[b] BY <2>2, <2>4, <2>5, <2>7
  <2> QED BY <2>3, <2>6, <2>7
<1>4. ~ (i < j) /\ ~ (j < i) BY <1>2, <1>3
<1>5. i \in Int /\ j \in Int BY <1>2
<1>6. i = j BY <1>4, <1>5
<1> QED BY <1>6 DEF j

\* From the first transition on, an instant lies in a segment.
LEMMA SomeSegment ==
  ASSUME NEW z, Proper(z), NEW t \in Int, timecnt(z) # 0, z.ats[1] <= t
  PROVE  IsSegment(z, t, Segment(z, t))
<1> DEFINE n == timecnt(z)
           S == {i \in 1..n : z.ats[i] <= t /\ (i < n => t < z.ats[i + 1])}
           later == {i \in 1..n : t < z.ats[i]}
<1>1. n \in Nat \ {0} /\ \A k \in 1..n : z.ats[k] \in Int
  BY ProperParts DEF timecnt
<1>2. \E i \in 1..n : IsSegment(z, t, i)
  <2>1. CASE later = {}
    <3>1. n \in 1..n BY <1>1
    <3>2. ~ (t < z.ats[n]) BY <2>1, <3>1
    <3>3. z.ats[n] <= t BY <1>1, <3>1, <3>2
    <3>4. IsSegment(z, t, n) BY <1>1, <3>1, <3>3 DEF IsSegment
    <3> QED BY <3>1, <3>4
  <2>2. CASE later # {}
    <3>1. later \in SUBSET Nat BY <1>1
    <3>2. PICK m \in later : \A k \in later : m <= k BY <2>2, <3>1, LeastNatural
    <3>3. m \in 1..n /\ t < z.ats[m] BY <3>2
    <3>4. m # 1 BY <1>1, <3>3
    <3>5. m - 1 \in 1..n /\ m - 1 < n /\ (m - 1) + 1 = m BY <1>1, <3>3, <3>4
    <3>6. m - 1 \notin later BY <3>2, <3>3
    <3>7. z.ats[m - 1] <= t BY <1>1, <3>5, <3>6
    <3>8. IsSegment(z, t, m - 1) BY <3>3, <3>5, <3>7 DEF IsSegment
    <3> QED BY <3>5, <3>8
  <2> QED BY <2>1, <2>2
<1> QED BY <1>2 DEF Segment

\* Over the times its own transitions cover, a table in order is read as the
\* one it continues.
LEMMA ContinuedReading ==
  ASSUME NEW z, Proper(z), NEW w, Proper(w), InOrder(w.ats, Len(w.ats)), Continues(w, z),
         timecnt(z) # 0, NEW t \in z.ats[1]..z.ats[timecnt(z)]
  PROVE  TypeAt(w, t) = TypeInTable(z, t)
<1> DEFINE n == timecnt(z)
           m == timecnt(w)
           j == Segment(z, t)
<1>1. /\ n \in Nat \ {0} /\ m \in Nat /\ n <= m
      /\ \A k \in 1..n : z.ats[k] \in Int
      /\ \A k \in 1..m : w.ats[k] \in Int
      /\ \A k \in 1..n : w.ats[k] = z.ats[k] /\ TypeOf(w, k) = TypeOf(z, k)
      /\ \A k, l \in 1..m : k < l => w.ats[k] < w.ats[l]
  BY ProperParts DEF timecnt, Continues, InOrder
<1>2. 1 \in 1..n /\ n \in 1..n /\ 1 \in 1..m /\ n \in 1..m /\ m \in 1..m BY <1>1
<1>3. z.ats[1] \in Int /\ z.ats[n] \in Int /\ w.ats[1] = z.ats[1] /\ w.ats[n] = z.ats[n]
  BY <1>1, <1>2
<1>4. t \in Int /\ z.ats[1] <= t /\ t <= z.ats[n] BY <1>3
<1>5. z.ats[n] <= w.ats[m]
  <2>1. CASE n = m BY <1>1, <1>2, <1>3, <2>1
  <2>2. CASE n # m
    <3>1. n < m BY <1>1, <2>2
    <3>2. w.ats[n] < w.ats[m] BY <1>1, <1>2, <3>1
    <3>3. w.ats[m] \in Int BY <1>1, <1>2
    <3> QED BY <1>3, <3>2, <3>3
  <2> QED BY <2>1, <2>2
<1>6. ~ (t < w.ats[1]) /\ ~ (t > w.ats[m])
  <2>1. w.ats[m] \in Int BY <1>1, <1>2
  <2> QED BY <1>3, <1>4, <1>5, <2>1
<1>7. ~ Extrapolated(w, t) BY <1>6 DEF Extrapolated
<1>8. IsSegment(z, t, j) BY <1>1, <1>4, SomeSegment
<1>9. j \in 1..n /\ z.ats[j] <= t /\ (j < n => t < z.ats[j + 1]) BY <1>8 DEF IsSegment
<1> HIDE DEF j
<1>10. IsSegment(w, t, j)
  <2>1. j \in 1..m /\ w.ats[j] <= t BY <1>1, <1>9
  <2>2. CASE j < n
    <3>1. j + 1 \in 1..n BY <1>1, <1>9, <2>2
    <3>2. t < w.ats[j + 1] BY <1>1, <1>9, <2>2, <3>1
    <3> QED BY <2>1, <3>2 DEF IsSegment
  <2>3. CASE ~ (j < n)
    <3>1. j = n BY <1>1, <1>9, <2>3
    <3>2. ASSUME j < m PROVE t < w.ats[j + 1]
      <4>1. n + 1 \in 1..m /\ n < n + 1 BY <1>1, <3>1, <3>2
      <4>2. w.ats[n] < w.ats[n + 1] /\ w.ats[n + 1] \in Int BY <1>1, <1>2, <4>1
      <4>3. t < w.ats[n + 1] BY <1>3, <1>4, <4>2
      <4> QED BY <3>1, <4>3
    <3> QED BY <2>1, <3>2 DEF IsSegment
  <2> QED BY <2>2, <2>3
<1>11. Segment(w, t) = j BY <1>4, <1>10, OneSegment
<1>12. TypeInTable(w, t) = TypeOf(w, j) BY <1>1, <1>6, <1>11 DEF TypeInTable
<1>13. TypeInTable(z, t) = TypeOf(z, j)
  <2>1. ~ (t < z.ats[1]) BY <1>3, <1>4
  <2> QED BY <1>1, <2>1 DEF TypeInTable, j
<1>14. TypeOf(w, j) = TypeOf(z, j) BY <1>1, <1>9
<1> QED BY <1>7, <1>12, <1>13, <1>14 DEF TypeAt

----------------------------------------------------------------------------
(* The specification *)

\* So is what is loaded.
SourceOK == source \in [file : Files \cup {Unreadable}] \cup [spec : Specs]

\* What a file comes to, but for the flags.
FromFile == Extended(FileTable(source.file), source.file.footer)

\* What the table is at each point, in terms of what is loaded.
Made ==
  /\ pc \in {"start", "extend", "flags", "done"}
  /\ pc = "start" => sp = Failed
  /\ pc = "extend" => IsFile /\ Readable(source.file) /\ sp = FileTable(source.file)
  /\ pc = "flags" => IsFile /\ Readable(source.file) /\ sp = FromFile
  /\ pc = "done" =>
       IF IsFile THEN IF Readable(source.file) THEN sp = Flagged(FromFile) ELSE sp = Failed
       ELSE sp = tzparse(source.spec)

IInv == Given /\ SourceOK /\ Made

\* What is loaded is a file or a specification.
LEMMA Sources ==
  ASSUME SourceOK
  PROVE  /\ IsFile => source.file \in Files \cup {Unreadable}
         /\ ~ IsFile => source.spec \in Specs
BY DEF SourceOK, IsFile

\* The invariant holds to begin with.
LEMMA InitIInv == Init => IInv
BY DEF Init, IInv, Given, SourceOK, Made


\* What a specification comes to depends on nothing that changes.
LEMMA Frozen ==
  ASSUME UNCHANGED <<posixrules, stack>>
  PROVE  /\ Given => Given'
         /\ \A spec : tzparse(spec)' = tzparse(spec)
         /\ \A z, footer : Extended(z, footer)' = Extended(z, footer)
<1>1. Given => Given' BY DEF Given
<1>2. DefRules' = DefRules BY DEF DefRules
<1>3. \A k, gmtoff, isdst, abbr :
         ParsedType(k, gmtoff, isdst, abbr)' = ParsedType(k, gmtoff, isdst, abbr)
  BY <1>2 DEF ParsedType
<1>4. \A ats, types, ttis : ParsedTable(ats, types, ttis)' = ParsedTable(ats, types, ttis)
  BY <1>2 DEF ParsedTable
<1>5. \A spec : StandardTable(spec)' = StandardTable(spec)
  BY <1>3, <1>4 DEF StandardTable
<1>6. \A spec, rule : RuleTable(spec, rule)' = RuleTable(spec, rule)
  BY <1>3, <1>4 DEF RuleTable
<1>7. \A spec, z : AdjustedTable(spec, z)' = AdjustedTable(spec, z)
  BY <1>3, <1>4 DEF AdjustedTable
<1>8. \A spec : RuleOf(spec)' = RuleOf(spec)
  BY <1>2 DEF RuleOf
<1>9. \A spec : tzparse(spec)' = tzparse(spec)
  BY <1>2, <1>5, <1>6, <1>7, <1>8 DEF tzparse
<1>10. \A z, footer : Extended(z, footer)' = Extended(z, footer)
  BY <1>9 DEF Extended
<1> QED BY <1>1, <1>9, <1>10

\* Every step keeps it.
LEMMA NextIInv == IInv /\ [Next]_vars => IInv'
<1> SUFFICES ASSUME IInv, [Next]_vars PROVE IInv' OBVIOUS
<1>1. UNCHANGED <<posixrules, stack, source>>
  BY DEF Next, vars, Step, ReadFile, Extend, SetFlags, Parse
<1>2. Given' /\ SourceOK' /\ IsFile' = IsFile /\ FromFile' = FromFile
      /\ tzparse(source.spec)' = tzparse(source.spec)
  BY <1>1, Frozen DEF IInv, SourceOK, IsFile, FromFile
<1>3. Made'
  <2>1. CASE UNCHANGED vars
    BY <1>1, <1>2, <2>1 DEF IInv, Made, vars
  <2>2. CASE ReadFile
    BY <1>1, <1>2, <2>2 DEF IInv, Made, ReadFile, Step
  <2>3. CASE Extend
    BY <1>1, <1>2, <2>3 DEF IInv, Made, Extend, Step, FromFile
  <2>4. CASE SetFlags
    BY <1>1, <1>2, <2>4 DEF IInv, Made, SetFlags, Step
  <2>5. CASE Parse
    BY <1>1, <1>2, <2>5 DEF IInv, Made, Parse, Step
  <2> QED BY <2>1, <2>2, <2>3, <2>4, <2>5 DEF Next
<1> QED BY <1>2, <1>3 DEF IInv

\* The table is, at each point, what the functions make of what is loaded.
THEOREM Invariance == Spec => []IInv
<1>1. Init => IInv BY InitIInv
<1>2. IInv /\ [Next]_vars => IInv' BY NextIInv
<1> QED BY <1>1, <1>2, PTL DEF Spec

----------------------------------------------------------------------------
(* What the table is like at each point *)

\* While a file is read, and with its last line.
LEMMA WhileReading ==
  ASSUME IInv, IsFile, Readable(source.file)
  PROVE  LET file == FileTable(source.file)
         IN  /\ Proper(file) /\ Proper(FromFile) /\ Continues(FromFile, file)
             /\ Orderly => InOrder(file.ats, Len(file.ats)) /\ InOrder(FromFile.ats, Len(FromFile.ats))
<1> DEFINE f == source.file
           z == FileTable(f)
<1>1. f \in Files \cup Rules /\ Given
  BY Sources DEF IInv, Readable
<1>2. f.footer \in Specs \cup {NoFooter} BY <1>1, FileParts
<1>3. Proper(z) /\ (~ Unordered(f) => InOrder(z.ats, Len(z.ats)))
  BY <1>1, FileTableParts
<1> HIDE DEF z
<1>4. /\ Proper(FromFile) /\ Continues(FromFile, z)
      /\ InOrder(z.ats, Len(z.ats)) /\ (f.footer # NoFooter => ~ Disorderly(f.footer)) =>
           InOrder(FromFile.ats, Len(FromFile.ats))
  BY <1>1, <1>2, <1>3, ExtendedParts DEF FromFile, z
<1>5. Orderly => ~ Unordered(f) /\ (f.footer # NoFooter => ~ Disorderly(f.footer))
  BY DEF Orderly
<1> QED BY <1>3, <1>4, <1>5 DEF z

\* The table a file ends as.
LEMMA FileLoaded ==
  ASSUME IInv, IsLoaded, IsFile
  PROVE  /\ Readable(source.file) /\ Proper(sp) /\ TrueBack(sp) /\ TrueAhead(sp)
         /\ Continues(sp, FileTable(source.file))
         /\ Orderly => InOrder(sp.ats, Len(sp.ats))
<1> DEFINE w == FromFile
           z == FileTable(source.file)
<1>1. Readable(source.file) /\ sp = Flagged(w)
  BY DEF IInv, Made, IsLoaded
<1>2. Proper(w) /\ Continues(w, z) /\ (Orderly => InOrder(w.ats, Len(w.ats)))
  BY <1>1, WhileReading
<1> HIDE DEF w, z
<1>3. /\ Proper(sp) /\ sp.ats = w.ats /\ sp.types = w.types /\ sp.ttis = w.ttis
      /\ TrueBack(sp) /\ TrueAhead(sp)
  BY <1>1, <1>2, FlaggedParts
<1>4. Continues(sp, z) BY <1>2, <1>3 DEF Continues, TypeOf
<1> QED BY <1>1, <1>2, <1>3, <1>4 DEF z

\* The table of a specification.
LEMMA SpecLoaded ==
  ASSUME IInv, pc = "done", sp # Failed, ~ IsFile
  PROVE  /\ Proper(sp)
         /\ Orderly => InOrder(sp.ats, Len(sp.ats))
         /\ ~ FlagsWithoutTable(source.spec) /\ ~ (Adjusts(source.spec) /\ UnevenRules) =>
              TrueBack(sp) /\ TrueAhead(sp)
<1>1. source.spec \in Specs /\ Given BY Sources DEF IInv
<1>2. sp = tzparse(source.spec) BY DEF IInv, Made
<1>3. Orderly => ~ Disorderly(source.spec) BY DEF Orderly
<1> QED BY <1>1, <1>2, <1>3, ParsedParts

\* What the invariant says of types.
LEMMA IInvTypeOK == IInv => TypeOK
<1> SUFFICES ASSUME IInv PROVE TypeOK OBVIOUS
<1>1. pc \in {"start", "extend", "flags", "done"} BY DEF IInv, Made
<1>2. ASSUME sp # Failed \/ pc \in {"extend", "flags"} PROVE Proper(sp)
  <2>1. CASE pc = "start" BY <1>2, <2>1 DEF IInv, Made
  <2>2. CASE pc = "extend" BY <2>2, WhileReading DEF IInv, Made
  <2>3. CASE pc = "flags" BY <2>3, WhileReading DEF IInv, Made
  <2>4. CASE pc = "done" /\ IsFile BY <1>2, <2>4, FileLoaded DEF IsLoaded
  <2>5. CASE pc = "done" /\ ~ IsFile BY <1>2, <2>5, SpecLoaded
  <2> QED BY <1>1, <2>1, <2>2, <2>3, <2>4, <2>5
<1>3. Proper(sp) => sp # Failed BY NotFailed DEF Proper
<1>4. Proper(sp) => /\ Table(sp) \in State /\ Len(sp.types) = timecnt(sp)
                    /\ timecnt(sp) <= TZ_MAX_TIMES /\ Len(sp.ttis) \in 1..TZ_MAX_TYPES
  BY TableParts DEF Proper, timecnt
<1> QED BY <1>1, <1>2, <1>3, <1>4 DEF TypeOK

\* What it says of the table handed out.
LEMMA IInvUsable == IInv => Usable
<1> SUFFICES ASSUME IInv, IsLoaded, Orderly,
                    ~ (~ IsFile /\ FlagsWithoutTable(source.spec)),
                    ~ (~ IsFile /\ Adjusts(source.spec) /\ UnevenRules)
             PROVE  Loaded(Table(sp))
  BY DEF Usable
<1>1. Proper(sp) /\ InOrder(sp.ats, Len(sp.ats)) /\ TrueBack(sp) /\ TrueAhead(sp)
  BY FileLoaded, SpecLoaded DEF IsLoaded
<1> QED BY <1>1, SoundTable

\* What it says of the times the file covers.
LEMMA IInvFileKept == IInv => FileKept
<1> DEFINE file == FileTable(source.file)
           n == timecnt(file)
<1> SUFFICES ASSUME IInv, IsLoaded, IsFile, Orderly, n > 0,
                    NEW t \in file.ats[1]..file.ats[n]
             PROVE  TypeAt(sp, t) = TypeInTable(file, t)
  BY DEF FileKept
<1>1. Readable(source.file) /\ Proper(sp) /\ Continues(sp, file) /\ InOrder(sp.ats, Len(sp.ats))
  BY FileLoaded
<1>2. Proper(file) BY <1>1, WhileReading
<1>3. n # 0 BY <1>2, ProperParts DEF timecnt
<1> HIDE DEF file
<1> QED BY <1>1, <1>2, <1>3, ContinuedReading

\* Every table is typed and within its bounds, whatever the files say (tzload.c:63-131).
THEOREM TypeCorrect == Spec => []TypeOK
<1>1. IInv => TypeOK BY IInvTypeOK
<1> QED BY <1>1, Invariance, PTL

\* Every table handed out can be relied on, but for the exceptions named
\* (tzload.c:133-236, tzparse.c).
THEOREM UsableHolds == Spec => []Usable
<1>1. IInv => Usable BY IInvUsable
<1> QED BY <1>1, Invariance, PTL

\* The last line of a file changes nothing about the times its own transitions
\* cover (tzload.c:180-217).
THEOREM FileKeptHolds == Spec => []FileKept
<1>1. IInv => FileKept BY IInvFileKept
<1> QED BY <1>1, Invariance, PTL

----------------------------------------------------------------------------
(* The changes of a rule, in a row *)

\* A rule of a specification, with its changes in turn.
RuleOK(spec, rule) ==
  /\ spec \in Specs /\ spec # Malformed /\ spec.dstoffset # NoDst
  /\ rule \in Rule /\ InTurn(spec, rule) /\ NearYear(spec, rule)

\* The place of a change in its year.
LEMMA PlaceInYear ==
  ASSUME NEW i \in Nat \ {0}
  PROVE  \E y \in Nat : \/ i = 2 * y + 1 /\ (i - 1) \div 2 = y /\ i % 2 = 1
                        \/ i = 2 * y + 2 /\ (i - 1) \div 2 = y /\ i % 2 # 1
<1> DEFINE y == (i - 1) \div 2
<1>1. y \in Nat OBVIOUS
<1>2. \/ i = 2 * y + 1 /\ i % 2 = 1
      \/ i = 2 * y + 2 /\ i % 2 # 1
  OBVIOUS
<1> QED BY <1>1, <1>2

\* The two changes of a year.
LEMMA ChangeOfYear ==
  ASSUME NEW spec, NEW rule, NEW y \in Nat
  PROVE  /\ Change(spec, rule, 2 * y + 1) = First(spec, rule, y)
         /\ Change(spec, rule, 2 * y + 2) = Second(spec, rule, y)
         /\ ToDst(spec, rule, 2 * y + 1) <=> ~ EndsFirst(spec, rule, y)
         /\ ToDst(spec, rule, 2 * y + 2) <=> EndsFirst(spec, rule, y)
<1>1. /\ ((2 * y + 1) - 1) \div 2 = y /\ (2 * y + 1) % 2 = 1
      /\ ((2 * y + 2) - 1) \div 2 = y /\ (2 * y + 2) % 2 # 1
  OBVIOUS
<1> QED BY <1>1 DEF Change, ToDst

\* A change, the next one and the one a cycle later.
LEMMA ChangeFacts ==
  ASSUME NEW spec, NEW rule, RuleOK(spec, rule), NEW i \in Nat \ {0}
  PROVE  /\ Change(spec, rule, i) \in Int
         /\ Change(spec, rule, i) < Change(spec, rule, i + 1)
         /\ Change(spec, rule, i + 2 * YEARSPERREPEAT) = Change(spec, rule, i) + SECSPERREPEAT
         /\ ToDst(spec, rule, i + 2 * YEARSPERREPEAT) <=> ToDst(spec, rule, i)
         /\ i + 2 * YEARSPERREPEAT \in Nat \ {0}
<1> DEFINE P == YEARSPERREPEAT
           C(k) == Change(spec, rule, k)
           D(k) == ToDst(spec, rule, k)
           F(y) == First(spec, rule, y)
           S(y) == Second(spec, rule, y)
           E(y) == EndsFirst(spec, rule, y)
<1>1. P \in Nat \ {0} BY Room
<1>2. \A y \in Nat : /\ F(y) \in Int /\ S(y) \in Int
                     /\ F(y + P) = F(y) + SECSPERREPEAT /\ S(y + P) = S(y) + SECSPERREPEAT
                     /\ E(y + P) <=> E(y)
                     /\ F(y) < S(y) /\ S(y) < F(y + 1)
  BY Changes DEF RuleOK
<1>3. \A y \in Nat : /\ C(2 * y + 1) = F(y) /\ C(2 * y + 2) = S(y)
                     /\ D(2 * y + 1) <=> ~ E(y)
                     /\ D(2 * y + 2) <=> E(y)
  BY ChangeOfYear
<1> HIDE DEF P, C, D, F, S, E
<1>4. PICK y \in Nat : i = 2 * y + 1 \/ i = 2 * y + 2 BY PlaceInYear
<1>5. y + 1 \in Nat /\ y + P \in Nat BY <1>1
<1>6. CASE i = 2 * y + 1
  <2>1. i + 1 = 2 * y + 2 /\ i + 2 * P = 2 * (y + P) + 1 /\ i + 2 * P \in Nat \ {0} BY <1>1, <1>6
  <2>2. C(i + 2 * P) = F(y + P) /\ (D(i + 2 * P) <=> ~ E(y + P)) BY <1>3, <1>5, <2>1
  <2>3. C(i) = F(y) /\ (D(i) <=> ~ E(y)) BY <1>3, <1>6
  <2>4. C(i + 1) = S(y) BY <1>3, <2>1
  <2> QED BY <1>2, <2>1, <2>2, <2>3, <2>4 DEF P, C, D
<1>7. CASE i = 2 * y + 2
  <2>1. i + 1 = 2 * (y + 1) + 1 /\ i + 2 * P = 2 * (y + P) + 2 /\ i + 2 * P \in Nat \ {0} BY <1>1, <1>7
  <2>2. C(i + 2 * P) = S(y + P) /\ (D(i + 2 * P) <=> E(y + P)) BY <1>3, <1>5, <2>1
  <2>3. C(i) = S(y) /\ (D(i) <=> E(y)) BY <1>3, <1>7
  <2>4. C(i + 1) = F(y + 1) BY <1>3, <1>5, <2>1
  <2> QED BY <1>2, <2>1, <2>2, <2>3, <2>4 DEF P, C, D
<1> QED BY <1>4, <1>6, <1>7

\* They are in order, as far as one looks.
LEMMA ChangesAscend ==
  ASSUME NEW spec, NEW rule, RuleOK(spec, rule), NEW i \in Nat \ {0}, NEW j \in Nat \ {0}, i < j
  PROVE  Change(spec, rule, i) < Change(spec, rule, j)
<1> DEFINE a == [k \in 1..j |-> Change(spec, rule, k)]
<1>1. \A k \in 1..j : a[k] \in Int BY ChangeFacts
<1>2. \A k \in 1..(j - 1) : a[k] < a[k + 1] BY ChangeFacts
<1>3. a[i] = Change(spec, rule, i) /\ a[j] = Change(spec, rule, j) OBVIOUS
<1>4. i \in 1..j /\ j \in 1..j OBVIOUS
<1> HIDE DEF a
<1>5. InOrder(a, j) BY <1>1, <1>2, Ascending
<1>6. a[i] < a[j] BY <1>4, <1>5 DEF InOrder
<1> QED BY <1>3, <1>6

----------------------------------------------------------------------------
(* Changes and cycles *)

\* The years follow one another.
LEMMA YearsAscend ==
  ASSUME NEW y \in Nat, NEW z \in Nat, y <= z
  PROVE  janfirst[y] <= janfirst[z] /\ (y < z => janfirst[y] < janfirst[z])
<1> DEFINE n == z - y + 1
           a == [k \in 1..n |-> janfirst[y + k - 1]]
<1>1. n \in Nat /\ 1 \in 1..n /\ n \in 1..n BY SMT
<1>2. ASSUME NEW k \in 1..n PROVE a[k] \in Int
  <2>1. y + k - 1 \in Nat OBVIOUS
  <2> QED BY <2>1, JanfirstInt
<1>3. ASSUME NEW k \in 1..(n - 1) PROVE a[k] < a[k + 1]
  <2> DEFINE x == y + k - 1
  <2>1. x \in Nat /\ y + (k + 1) - 1 = x + 1 /\ k \in 1..n /\ k + 1 \in 1..n BY <1>1
  <2>2. a[k] = janfirst[x] /\ a[k + 1] = janfirst[x + 1] BY <2>1
  <2> HIDE DEF x, a, n
  <2>3. janfirst[x + 1] = janfirst[x] + year_lengths[(x % YEARSPERREPEAT) + 1] BY <2>1, JanfirstIs
  <2>4. (x % YEARSPERREPEAT) + 1 \in 1..YEARSPERREPEAT BY <2>1, YearOfCycle
  <2>5. year_lengths[(x % YEARSPERREPEAT) + 1] \in Nat \ {0} BY <2>4, YearLengths
  <2>6. janfirst[x] \in Int BY <2>1, JanfirstInt
  <2> QED BY <2>2, <2>3, <2>5, <2>6
<1>4. y + 1 - 1 = y /\ y + n - 1 = z BY SMT
<1>5. a[1] = janfirst[y] /\ a[n] = janfirst[z] BY <1>1, <1>4
<1>6. (y < z => 1 < n) /\ (y = z => n = 1) OBVIOUS
<1> HIDE DEF a, n
<1>7. InOrder(a, n) BY <1>1, <1>2, <1>3, Ascending
<1>8. 1 < n => a[1] < a[n] BY <1>1, <1>7 DEF InOrder
<1>9. a[1] \in Int /\ a[n] \in Int BY <1>1, <1>2
<1>10. y < z \/ y = z OBVIOUS
<1> QED BY <1>5, <1>6, <1>8, <1>9, <1>10

\* Whole cycles of years are whole cycles of seconds.
LEMMA JanfirstOfCycle ==
  ASSUME NEW c \in Nat
  PROVE  c * YEARSPERREPEAT \in Nat /\ janfirst[c * YEARSPERREPEAT] = c * SECSPERREPEAT
<1> DEFINE P == YEARSPERREPEAT
           R == SECSPERREPEAT
           T == {k \in Nat : janfirst[k * P] # k * R}
<1>1. P \in Nat \ {0} /\ R \in Nat \ {0} BY Room
<1>2. T = {}
  <2> SUFFICES ASSUME T # {} PROVE FALSE OBVIOUS
  <2>1. PICK k \in T : \A x \in T : k <= x
    <3>1. T \in SUBSET Nat OBVIOUS
    <3> QED BY <3>1, LeastNatural
  <2>2. k \in Nat /\ janfirst[k * P] # k * R BY <2>1
  <2>3. k # 0
    <3>1. 0 * P = 0 /\ 0 * R = 0 BY <1>1
    <3> QED BY <2>2, <3>1, JanfirstIs
  <2>4. k - 1 \in Nat /\ ~ (k <= k - 1) BY <2>2, <2>3
  <2>5. janfirst[(k - 1) * P] = (k - 1) * R BY <2>1, <2>4
  <2>6. (k - 1) * P \in Nat BY <1>1, <2>4
  <2>7. janfirst[(k - 1) * P + P] = janfirst[(k - 1) * P] + R BY <2>6, JanfirstRepeats
  <2>8. (k - 1) * P + P = k * P /\ (k - 1) * R + R = k * R BY <1>1, <2>2, <2>4
  <2> QED BY <2>2, <2>5, <2>7, <2>8
<1>3. c * P \in Nat BY <1>1
<1> QED BY <1>2, <1>3

\* A change is no more than a year away from the year it is for.
LEMMA ChangeNearYear ==
  ASSUME NEW spec, NEW rule, RuleOK(spec, rule), NEW y \in Nat,
         NEW i \in {2 * y + 1, 2 * y + 2}
  PROVE  /\ Change(spec, rule, i) < janfirst[y + 2]
         /\ y # 0 => janfirst[y - 1] <= Change(spec, rule, i)
         /\ -SECSPERREPEAT <= Change(spec, rule, i)
<1> DEFINE P == YEARSPERREPEAT
           k == (y % P) + 1
           s == transtime(y, rule.start, spec.stdoffset)
           e == transtime(y, rule.end, spec.dstoffset)
           a == rule.start[k] + spec.stdoffset
           b == rule.end[k] + spec.dstoffset
           c == Change(spec, rule, i)
<1>1. /\ rule.start \in YearRule /\ rule.end \in YearRule
      /\ spec.stdoffset \in Int /\ spec.dstoffset \in Int
  BY SpecParts DEF RuleOK, Rule
<1>2. c = s \/ c = e
  <2>1. c = First(spec, rule, y) \/ c = Second(spec, rule, y) BY ChangeOfYear
  <2> QED BY <2>1 DEF First, Second
<1>3. s = janfirst[y] + a /\ e = janfirst[y] + b BY <1>1, Transtime
<1>4. k \in 1..P /\ P \in Nat \ {0} /\ SECSPERREPEAT \in Nat BY YearOfCycle, Room
<1>5. a \in Int /\ b \in Int /\ janfirst[y] \in Int BY <1>1, <1>4, JanfirstInt DEF YearRule
<1>6. changes(spec, rule, k) = {a, b} BY DEF changes
<1>7. /\ janfirst[y + 1] = janfirst[y] + year_lengths[k]
      /\ janfirst[y + 2] = janfirst[y + 1] + year_lengths[NextYear(k)]
  <2>1. y + 1 \in Nat /\ (y + 1) + 1 = y + 2 OBVIOUS
  <2>2. ((y + 1) % P) + 1 = NextYear(k) BY YearOfCycle DEF NextYear
  <2> QED BY <2>1, <2>2, JanfirstIs
<1>8. NextYear(k) \in 1..P
  <2>1. k \in Nat BY <1>4
  <2> QED BY <2>1, YearOfCycle DEF NextYear
<1>9. year_lengths[k] \in Int /\ year_lengths[NextYear(k)] \in Int BY <1>4, <1>8, YearLengths
<1>10. /\ a < year_lengths[k] + year_lengths[NextYear(k)]
       /\ b < year_lengths[k] + year_lengths[NextYear(k)]
  BY <1>4, <1>6 DEF RuleOK, NearYear
<1> HIDE DEF a, b, k, c, s, e
<1>11. c < janfirst[y + 2]
  BY <1>2, <1>3, <1>5, <1>7, <1>9, <1>10
<1>12. ASSUME NEW x \in Nat, (x + 1) % P = y % P
       PROVE  /\ -year_lengths[(x % P) + 1] <= c - janfirst[y]
              /\ year_lengths[(x % P) + 1] \in Nat
  <2> DEFINE m == (x % P) + 1
  <2>1. m \in 1..P /\ ((x + 1) % P) + 1 = NextYear(m) BY YearOfCycle DEF NextYear
  <2>2. NextYear(m) = k BY <1>12, <2>1 DEF k
  <2> HIDE DEF m
  <2>3. -year_lengths[m] <= a /\ -year_lengths[m] <= b
    BY <1>6, <2>1, <2>2 DEF RuleOK, NearYear
  <2>4. year_lengths[m] \in Nat BY <2>1, YearLengths
  <2>5. c - janfirst[y] = a \/ c - janfirst[y] = b BY <1>2, <1>3, <1>5
  <2> QED BY <2>3, <2>4, <2>5 DEF m
<1>13. c \in Int BY <1>2, <1>3, <1>5
<1>14. ASSUME y # 0 PROVE janfirst[y - 1] <= c
  <2>1. y - 1 \in Nat /\ (y - 1) + 1 = y BY <1>14
  <2>2. janfirst[y] = janfirst[y - 1] + year_lengths[((y - 1) % P) + 1] BY <2>1, JanfirstIs
  <2>3. janfirst[y - 1] \in Int BY <2>1, JanfirstInt
  <2>4. /\ -year_lengths[((y - 1) % P) + 1] <= c - janfirst[y]
        /\ year_lengths[((y - 1) % P) + 1] \in Nat
    BY <1>12, <2>1
  <2> QED BY <1>5, <1>13, <2>2, <2>3, <2>4
<1>15. -SECSPERREPEAT <= c
  <2> DEFINE x == P - 1
  <2>1. CASE y = 0
    <3>1. x \in Nat /\ x + 1 = P BY <1>4
    <3>2. (0 + P) % P = 0 % P BY YearOfCycle
    <3>3. (x + 1) % P = y % P BY <1>4, <2>1, <3>1, <3>2
    <3>4. -year_lengths[(x % P) + 1] <= c - janfirst[y] /\ year_lengths[(x % P) + 1] \in Nat
      BY <1>12, <3>1, <3>3
    <3>5. janfirst[x + 1] = janfirst[x] + year_lengths[(x % P) + 1] BY <3>1, JanfirstIs
    <3>6. janfirst[x + 1] = SECSPERREPEAT
      <4> HIDE DEF x
      <4>1. janfirst[P] = SECSPERREPEAT BY WholeCycle
      <4> HIDE DEF P
      <4> QED BY <3>1, <4>1
    <3>7. janfirst[0] <= janfirst[x] /\ janfirst[0] = 0 /\ janfirst[x] \in Int
      <4> HIDE DEF x
      <4>1. 0 \in Nat /\ 0 <= x BY <3>1
      <4>2. janfirst[0] <= janfirst[x] BY <3>1, <4>1, YearsAscend
      <4> QED BY <3>1, <4>2, JanfirstIs, JanfirstInt
    <3>8. janfirst[y] = 0 BY <2>1, <3>7
    <3> QED BY <1>4, <1>13, <3>4, <3>5, <3>6, <3>7, <3>8
  <2>2. CASE y # 0
    <3>1. y - 1 \in Nat /\ 0 <= y - 1 BY <2>2
    <3>2. janfirst[0] <= janfirst[y - 1] /\ janfirst[0] = 0 /\ janfirst[y - 1] \in Int
      BY <3>1, YearsAscend, JanfirstIs, JanfirstInt
    <3> QED BY <1>4, <1>13, <1>14, <2>2, <3>2
  <2> QED BY <2>1, <2>2
<1> QED BY <1>11, <1>14, <1>15 DEF c

----------------------------------------------------------------------------
(* What the rule itself says *)

\* The moments at which daylight time begins and ends in a year.
Begin(spec, rule, y) == transtime(y, rule.start, spec.stdoffset)
End(spec, rule, y) == transtime(y, rule.end, spec.dstoffset)

\* A change is the begin or the end of daylight time in its year.
LEMMA ChangeIs ==
  ASSUME NEW spec, NEW rule, RuleOK(spec, rule), NEW y \in Nat,
         NEW i \in {2 * y + 1, 2 * y + 2}
  PROVE  /\ ToDst(spec, rule, i) => Change(spec, rule, i) = Begin(spec, rule, y)
         /\ ~ ToDst(spec, rule, i) => Change(spec, rule, i) = End(spec, rule, y)
         /\ i \in Nat \ {0}
<1>1. /\ Change(spec, rule, 2 * y + 1) = First(spec, rule, y)
      /\ Change(spec, rule, 2 * y + 2) = Second(spec, rule, y)
      /\ ToDst(spec, rule, 2 * y + 1) <=> ~ EndsFirst(spec, rule, y)
      /\ ToDst(spec, rule, 2 * y + 2) <=> EndsFirst(spec, rule, y)
  BY ChangeOfYear
<1>2. /\ First(spec, rule, y) = IF EndsFirst(spec, rule, y) THEN End(spec, rule, y)
                                ELSE Begin(spec, rule, y)
      /\ Second(spec, rule, y) = IF EndsFirst(spec, rule, y) THEN Begin(spec, rule, y)
                                 ELSE End(spec, rule, y)
  BY DEF First, Second, EndsFirst, Begin, End
<1>3. i \in Nat \ {0} OBVIOUS
<1>4. CASE i = 2 * y + 1 BY <1>1, <1>2, <1>3, <1>4
<1>5. CASE i = 2 * y + 2 BY <1>1, <1>2, <1>3, <1>5
<1> QED BY <1>4, <1>5

\* Each begin and each end is a change.
LEMMA ChangesOf ==
  ASSUME NEW spec, NEW rule, RuleOK(spec, rule), NEW y \in Nat
  PROVE  /\ \E i \in Nat \ {0} : Begin(spec, rule, y) = Change(spec, rule, i)
                                   /\ ToDst(spec, rule, i)
         /\ \E i \in Nat \ {0} : End(spec, rule, y) = Change(spec, rule, i)
                                   /\ ~ ToDst(spec, rule, i)
<1> DEFINE a == 2 * y + 1
           b == 2 * y + 2
<1>1. a \in {2 * y + 1, 2 * y + 2} /\ b \in {2 * y + 1, 2 * y + 2} OBVIOUS
<1>2. ToDst(spec, rule, a) <=> ~ ToDst(spec, rule, b) BY ChangeOfYear
<1>3. /\ ToDst(spec, rule, a) => Change(spec, rule, a) = Begin(spec, rule, y)
      /\ ~ ToDst(spec, rule, a) => Change(spec, rule, a) = End(spec, rule, y)
      /\ a \in Nat \ {0}
  BY <1>1, ChangeIs
<1>4. /\ ToDst(spec, rule, b) => Change(spec, rule, b) = Begin(spec, rule, y)
      /\ ~ ToDst(spec, rule, b) => Change(spec, rule, b) = End(spec, rule, y)
      /\ b \in Nat \ {0}
  BY <1>1, ChangeIs
<1> HIDE DEF a, b
<1>5. CASE ToDst(spec, rule, a) BY <1>2, <1>3, <1>4, <1>5
<1>6. CASE ~ ToDst(spec, rule, a) BY <1>2, <1>3, <1>4, <1>6
<1> QED BY <1>5, <1>6

\* A whole number of parts, of a negative number too.
LEMMA WholeParts ==
  ASSUME NEW t \in Int, NEW R \in Nat \ {0}
  PROVE  t \div R \in Int /\ (t \div R) * R <= t /\ t < ((t \div R) + 1) * R
<1> DEFINE q == t \div R
<1>1. q \in Int /\ q * R \in Int /\ q * R <= t /\ t < q * R + R BY SMTT(30)
<1> HIDE DEF q
<1>2. (q + 1) * R = q * R + R BY <1>1
<1> QED BY <1>1, <1>2 DEF q

\* The latest change is not far from the cycle of an instant.
LEMMA YearInWindow ==
  ASSUME NEW spec, NEW rule, RuleOK(spec, rule), NEW t \in Int,
         NEW y \in Nat, NEW i \in {2 * y + 1, 2 * y + 2},
         Change(spec, rule, i) <= t, t < Change(spec, rule, i + 1)
  PROVE  LET c == t \div SECSPERREPEAT
         IN  y \in (c * YEARSPERREPEAT - 2)..((c + 1) * YEARSPERREPEAT)
<1> DEFINE P == YEARSPERREPEAT
           R == SECSPERREPEAT
           c == t \div R
           now == Change(spec, rule, i)
           then == Change(spec, rule, i + 1)
<1>1. P \in Nat \ {0} /\ R \in Nat \ {0} BY Room
<1>2. c \in Int /\ c * R <= t /\ t < (c + 1) * R BY <1>1, WholeParts
<1>3. i \in Nat \ {0} /\ now \in Int /\ then \in Int
  <2>1. i \in Nat \ {0} /\ i + 1 \in Nat \ {0} OBVIOUS
  <2> QED BY <2>1, ChangeFacts
<1>4. -R <= now /\ (y # 0 => janfirst[y - 1] <= now) BY ChangeNearYear
<1>5. then < janfirst[y + 3]
  <2>1. CASE i = 2 * y + 1
    <3>1. i + 1 \in {2 * y + 1, 2 * y + 2} BY <2>1
    <3>2. then < janfirst[y + 2] BY <3>1, ChangeNearYear
    <3>3. y + 2 \in Nat /\ y + 3 \in Nat /\ y + 2 <= y + 3 OBVIOUS
    <3>4. janfirst[y + 2] <= janfirst[y + 3] BY <3>3, YearsAscend
    <3>5. janfirst[y + 2] \in Int /\ janfirst[y + 3] \in Int BY <3>3, JanfirstInt
    <3> HIDE DEF then
    <3> QED BY <1>3, <3>2, <3>4, <3>5
  <2>2. CASE i = 2 * y + 2
    <3>1. y + 1 \in Nat /\ i + 1 \in {2 * (y + 1) + 1, 2 * (y + 1) + 2} /\ (y + 1) + 2 = y + 3
      BY <2>2
    <3>2. then < janfirst[(y + 1) + 2] BY <3>1, ChangeNearYear
    <3> QED BY <3>1, <3>2
  <2> QED BY <2>1, <2>2
<1> HIDE DEF now, then, c, P, R
<1>6. -1 <= c
  <2>1. -R <= t BY <1>1, <1>2, <1>3, <1>4 DEF now
  <2>2. ASSUME c + 1 < 0 PROVE FALSE
    <3>1. c + 1 <= -1 BY <1>2, <2>2
    <3>2. (c + 1) * R <= (-1) * R BY <1>1, <1>2, <3>1
    <3>3. (-1) * R = -R BY <1>1
    <3>4. (c + 1) * R \in Int BY <1>1, <1>2
    <3> QED BY <1>1, <1>2, <2>1, <3>2, <3>3, <3>4
  <2> QED BY <1>2, <2>2
<1>7. y <= (c + 1) * P
  <2> DEFINE m == (c + 1) * P
  <2> SUFFICES ASSUME ~ (y <= m) PROVE FALSE OBVIOUS
  <2>1. c + 1 \in Nat BY <1>2, <1>6
  <2>2. m \in Nat /\ janfirst[m] = (c + 1) * R BY <2>1, JanfirstOfCycle DEF P, R
  <2> HIDE DEF m
  <2>3. y # 0 /\ y - 1 \in Nat /\ m <= y - 1 BY <2>2
  <2>4. janfirst[m] <= janfirst[y - 1] BY <2>2, <2>3, YearsAscend
  <2>5. janfirst[m] \in Int /\ janfirst[y - 1] \in Int BY <2>2, <2>3, JanfirstInt
  <2>6. now <= t /\ t < janfirst[m] BY <1>2, <2>2 DEF now
  <2> QED BY <1>3, <1>4, <2>3, <2>4, <2>5, <2>6
<1>8. c * P - 2 <= y
  <2> DEFINE m == c * P
  <2>1. m \in Int BY <1>1, <1>2
  <2> SUFFICES ASSUME ~ (m - 2 <= y) PROVE FALSE OBVIOUS
  <2>2. y + 3 <= m BY <2>1
  <2>3. c \in Nat
    <3>1. CASE c = -1
      <4>1. m = -P BY <1>1, <3>1
      <4> QED BY <1>1, <2>2, <4>1
    <3> QED BY <1>2, <1>6, <3>1
  <2>4. m \in Nat /\ janfirst[m] = c * R BY <2>3, JanfirstOfCycle DEF P, R
  <2> HIDE DEF m
  <2>5. y + 3 \in Nat /\ janfirst[y + 3] <= janfirst[m] BY <2>2, <2>4, YearsAscend
  <2>6. janfirst[y + 3] \in Int /\ janfirst[m] \in Int BY <2>4, <2>5, JanfirstInt
  <2>7. t < then /\ janfirst[m] <= t BY <1>2, <2>4 DEF then
  <2> QED BY <1>3, <1>5, <2>5, <2>6, <2>7
<1>9. c * P - 2 \in Int /\ (c + 1) * P \in Int BY <1>1, <1>2
<1>10. y \in (c * P - 2)..((c + 1) * P) BY <1>7, <1>8, <1>9
<1> QED BY <1>10 DEF c, P, R

\* From one change to the next the rule says what the first of them begins.
LEMMA ByRule ==
  ASSUME NEW spec, NEW rule, RuleOK(spec, rule), NEW i \in Nat \ {0}, NEW t \in Int,
         Change(spec, rule, i) <= t, t < Change(spec, rule, i + 1)
  PROVE  IsDstByRule(spec, rule, t) <=> ToDst(spec, rule, i)
<1> DEFINE c == t \div SECSPERREPEAT
           years == {y \in (c * YEARSPERREPEAT - 2)..((c + 1) * YEARSPERREPEAT) : y >= 0}
           begins == {Begin(spec, rule, y) : y \in years}
           ends == {End(spec, rule, y) : y \in years}
           S == {b \in begins \cup ends : b <= t}
           C(k) == Change(spec, rule, k)
           D(k) == ToDst(spec, rule, k)
<1>1. IsDstByRule(spec, rule, t) <=> Max(S) \in begins
  BY DEF IsDstByRule, Begin, End
<1>2. \A y \in years : y \in Nat
  <2>1. YEARSPERREPEAT \in Nat /\ c \in Int BY Room, WholeParts
  <2> HIDE DEF c
  <2> QED BY <2>1
<1>3. PICK y \in Nat : i \in {2 * y + 1, 2 * y + 2} BY PlaceInYear
<1>4. y \in years
  <2>1. y \in (c * YEARSPERREPEAT - 2)..((c + 1) * YEARSPERREPEAT) BY <1>3, YearInWindow
  <2> QED BY <1>3, <2>1
<1>5. (D(i) => C(i) = Begin(spec, rule, y)) /\ (~ D(i) => C(i) = End(spec, rule, y))
  BY <1>3, ChangeIs
<1> HIDE DEF years
<1>6. (D(i) => C(i) \in begins) /\ C(i) \in begins \cup ends BY <1>4, <1>5
<1>7. \A k \in Nat \ {0} : C(k) \in Int BY ChangeFacts
<1>8. \A b \in begins : \E k \in Nat \ {0} : b = C(k) /\ D(k) BY <1>2, ChangesOf
<1>9. \A b \in ends : \E k \in Nat \ {0} : b = C(k) BY <1>2, ChangesOf
<1>10. \A k, l \in Nat \ {0} : k < l => C(k) < C(l) BY ChangesAscend
<1>11. i + 1 \in Nat \ {0} /\ C(i) <= t /\ t < C(i + 1) OBVIOUS
<1> HIDE DEF begins, ends, C, D
<1>12. C(i) \in S /\ \A b \in S : b \in Int BY <1>6, <1>7, <1>8, <1>9, <1>11
<1>13. ASSUME NEW b \in S PROVE b <= C(i)
  <2>1. PICK k \in Nat \ {0} : b = C(k) BY <1>8, <1>9, <1>13
  <2>2. b <= t BY <1>13
  <2>3. ~ (i + 1 < k) /\ i + 1 # k
    <3>1. C(k) \in Int /\ C(i + 1) \in Int BY <1>7, <1>11
    <3>2. ASSUME i + 1 < k PROVE FALSE
      <4>1. C(i + 1) < C(k) BY <1>10, <1>11, <3>2
      <4> QED BY <1>11, <2>1, <2>2, <3>1, <4>1
    <3>3. ASSUME i + 1 = k PROVE FALSE BY <1>11, <2>1, <2>2, <3>1, <3>3
    <3> QED BY <3>2, <3>3
  <2>4. k < i \/ k = i BY <2>3
  <2>5. C(k) \in Int /\ C(i) \in Int BY <1>7
  <2>6. k < i => C(k) < C(i) BY <1>10
  <2> QED BY <2>1, <2>4, <2>5, <2>6
<1>14. Max(S) = C(i)
  <2> HIDE DEF S
  <2>1. C(i) \in Int BY <1>7
  <2>2. \A b \in S : C(i) >= b BY <1>12, <1>13, <2>1
  <2>3. Max(S) \in S /\ \A b \in S : Max(S) >= b BY <1>12, <2>2 DEF Max
  <2>4. Max(S) >= C(i) /\ C(i) >= Max(S) /\ Max(S) \in Int BY <1>12, <2>2, <2>3
  <2> QED BY <2>1, <2>4
<1>15. C(i) \in begins => D(i)
  <2> SUFFICES ASSUME C(i) \in begins PROVE D(i) OBVIOUS
  <2>1. PICK k \in Nat \ {0} : C(i) = C(k) /\ D(k) BY <1>8
  <2>2. C(i) \in Int /\ C(k) \in Int BY <1>7
  <2>3. ~ (i < k) /\ ~ (k < i) BY <1>10, <2>1, <2>2
  <2>4. i = k BY <2>3
  <2> QED BY <2>1, <2>4
<1> QED BY <1>1, <1>6, <1>14, <1>15 DEF D

----------------------------------------------------------------------------
(* A table that follows a rule *)

\* Daylight time begins with a change, or it ends.
LEMMA ToDstBoolean ==
  ASSUME NEW spec, NEW rule, NEW i
  PROVE  ToDst(spec, rule, i) \in BOOLEAN
<1> DEFINE E == EndsFirst(spec, rule, (i - 1) \div 2)
<1>1. E \in BOOLEAN BY DEF EndsFirst
<1>2. CASE i % 2 = 1
  <2>1. ToDst(spec, rule, i) = ~ E BY <1>2 DEF ToDst
  <2> HIDE DEF E
  <2> QED BY <1>1, <2>1
<1>3. CASE i % 2 # 1
  <2>1. ToDst(spec, rule, i) = E BY <1>3 DEF ToDst
  <2> QED BY <1>1, <2>1
<1> QED BY <1>2, <1>3

LEMMA DivisionBounds ==
  ASSUME NEW R \in Nat \ {0}, NEW x \in Nat
  PROVE  /\ x \div R \in Nat
         /\ (x \div R) * R \in Nat
         /\ (x \div R) * R <= x
         /\ x < (x \div R) * R + R
  OBVIOUS

\* The whole cycles taken off (or added to) an instant at distance d.
Cycles(d) == ((d - 1) \div SECSPERREPEAT + 1) * SECSPERREPEAT

\* The cycles bring the distance below one cycle, and no further than zero.
LEMMA CyclesReach ==
  ASSUME NEW d \in Nat \ {0}
  PROVE  Cycles(d) \in Nat /\ d <= Cycles(d) /\ Cycles(d) < d + SECSPERREPEAT
<1> DEFINE q == (d - 1) \div SECSPERREPEAT
<1>1. /\ SECSPERREPEAT \in Nat \ {0} /\ d - 1 \in Nat
  BY ZoneAssumption
<1>2. /\ q \in Nat /\ q * SECSPERREPEAT \in Nat
      /\ q * SECSPERREPEAT <= d - 1 /\ d - 1 < q * SECSPERREPEAT + SECSPERREPEAT
  BY <1>1, DivisionBounds
<1>3. Cycles(d) = (q + 1) * SECSPERREPEAT
  BY DEF Cycles
<1> HIDE DEF q
<1>4. (q + 1) * SECSPERREPEAT = q * SECSPERREPEAT + SECSPERREPEAT
  BY <1>1, <1>2
<1>5. QED BY <1>1, <1>2, <1>3, <1>4

\* Whole cycles on, the rule says the same.
LEMMA CyclesOn ==
  ASSUME NEW spec, NEW rule, RuleOK(spec, rule), NEW i \in Nat \ {0}, NEW u \in Int,
         Change(spec, rule, i) <= u, u < Change(spec, rule, i + 1), NEW k \in Nat
  PROVE  IsDstByRule(spec, rule, u + k * SECSPERREPEAT) <=> ToDst(spec, rule, i)
<1> DEFINE R == SECSPERREPEAT
           C(j) == Change(spec, rule, j)
           D(j) == ToDst(spec, rule, j)
           At(j, t) == j \in Nat \ {0} /\ C(j) <= t /\ t < C(j + 1) /\ (D(j) <=> D(i))
           T == {l \in Nat : ~ \E j \in Nat \ {0} : At(j, u + l * R)}
<1>1. R \in Nat BY Room
<1>2. \A j \in Nat \ {0} : \A t \in Int : At(j, t) => At(j + 2 * YEARSPERREPEAT, t + R)
  <2> SUFFICES ASSUME NEW j \in Nat \ {0}, NEW t \in Int, At(j, t)
               PROVE  At(j + 2 * YEARSPERREPEAT, t + R)
    OBVIOUS
  <2> DEFINE j1 == j + 2 * YEARSPERREPEAT
  <2>1. C(j) \in Int /\ C(j1) = C(j) + R /\ (D(j1) <=> D(j)) /\ j1 \in Nat \ {0} BY ChangeFacts
  <2>2. j + 1 \in Nat \ {0} /\ (j + 1) + 2 * YEARSPERREPEAT = j1 + 1 BY Room
  <2>3. C(j + 1) \in Int /\ C((j + 1) + 2 * YEARSPERREPEAT) = C(j + 1) + R BY <2>2, ChangeFacts
  <2>4. C(j1 + 1) = C(j + 1) + R BY <2>2, <2>3
  <2> HIDE DEF j1, C, D, R
  <2> QED BY <1>1, <2>1, <2>3, <2>4 DEF j1
<1>3. At(i, u) OBVIOUS
<1> HIDE DEF At, R
<1>4. T = {}
  <2> SUFFICES ASSUME T # {} PROVE FALSE OBVIOUS
  <2>1. PICK l \in T : \A x \in T : l <= x
    <3>1. T \in SUBSET Nat OBVIOUS
    <3> QED BY <3>1, LeastNatural
  <2>2. l \in Nat /\ ~ \E j \in Nat \ {0} : At(j, u + l * R) BY <2>1
  <2>3. l # 0
    <3>1. u + 0 * R = u BY <1>1
    <3> QED BY <1>3, <2>2, <3>1
  <2>4. l - 1 \in Nat /\ ~ (l <= l - 1) BY <2>2, <2>3
  <2> DEFINE v == u + (l - 1) * R
  <2>5. PICK j \in Nat \ {0} : At(j, v) BY <2>1, <2>4
  <2>6. v \in Int /\ v + R = u + l * R BY <1>1, <2>2, <2>4
  <2>7. At(j + 2 * YEARSPERREPEAT, v + R) BY <1>2, <2>5, <2>6
  <2>8. j + 2 * YEARSPERREPEAT \in Nat \ {0} BY Room
  <2> QED BY <2>2, <2>6, <2>7, <2>8
<1> DEFINE t == u + k * R
<1>5. PICK j \in Nat \ {0} : At(j, t) BY <1>4
<1>6. t \in Int BY <1>1
<1> HIDE DEF t
<1>7. C(j) <= t /\ t < C(j + 1) /\ (D(j) <=> D(i)) BY <1>5 DEF At
<1>8. IsDstByRule(spec, rule, t) <=> D(j) BY <1>6, <1>7, ByRule
<1> QED BY <1>7, <1>8 DEF t, R

\* After n transitions z goes by the rule from its change s + 1 on.
RuleFrom(z, spec, rule, n, s) ==
  \E dst, std :
    /\ dst.tt_isdst = TRUE /\ dst.tt_gmtoff = -spec.dstoffset
    /\ std.tt_isdst = FALSE /\ std.tt_gmtoff = -spec.stdoffset
    /\ \A p \in 1..(timecnt(z) - n) :
         /\ z.ats[n + p] = Change(spec, rule, s + p)
         /\ TypeOf(z, n + p) = IF ToDst(spec, rule, s + p) THEN dst ELSE std

\* What is said of an instant is what the rule says.
Said(type, spec, isdst) ==
  /\ type.tt_isdst = isdst
  /\ type.tt_gmtoff = -(IF isdst THEN spec.dstoffset ELSE spec.stdoffset)

\* From its first transition by the rule to the last one, a table says what the
\* change before an instant begins.
LEMMA RuleInTable ==
  ASSUME NEW z, Proper(z), InOrder(z.ats, Len(z.ats)),
         NEW spec, NEW rule, RuleOK(spec, rule), NEW n \in Nat, NEW s \in Nat,
         RuleFrom(z, spec, rule, n, s), n < timecnt(z), NEW u \in Int,
         z.ats[n + 1] <= u, u <= z.ats[timecnt(z)]
  PROVE  /\ ~ Extrapolated(z, u)
         /\ \E i \in Nat \ {0} :
              /\ Change(spec, rule, i) <= u /\ u < Change(spec, rule, i + 1)
              /\ Said(TypeInTable(z, u), spec, ToDst(spec, rule, i))
<1> DEFINE m == timecnt(z)
           j == Segment(z, u)
           p == j - n
           i == s + p
           C(k) == Change(spec, rule, k)
<1>1. /\ m \in Nat /\ n + 1 \in 1..m /\ 1 \in 1..m /\ m \in 1..m
      /\ \A k \in 1..m : z.ats[k] \in Int
      /\ \A k, l \in 1..m : k < l => z.ats[k] < z.ats[l]
  BY ProperParts DEF timecnt, InOrder
<1>2. z.ats[1] <= u
  <2>1. CASE n = 0 BY <2>1
  <2>2. CASE n # 0
    <3>1. z.ats[1] < z.ats[n + 1] BY <1>1, <2>2
    <3>2. z.ats[1] \in Int /\ z.ats[n + 1] \in Int BY <1>1
    <3> QED BY <3>1, <3>2
  <2> QED BY <2>1, <2>2
<1>3. z.ats[1] \in Int /\ z.ats[m] \in Int BY <1>1
<1>4. ~ (u < z.ats[1]) /\ ~ (u > z.ats[m]) BY <1>2, <1>3
<1>5. ~ Extrapolated(z, u) BY <1>4 DEF Extrapolated
<1>6. IsSegment(z, u, j) BY <1>1, <1>2, SomeSegment
<1>7. j \in 1..m /\ z.ats[j] <= u /\ (j < m => u < z.ats[j + 1]) BY <1>6 DEF IsSegment
<1>8. TypeInTable(z, u) = TypeOf(z, j) BY <1>1, <1>4 DEF TypeInTable
<1> HIDE DEF j
<1>9. n < j
  <2> SUFFICES ASSUME ~ (n < j) PROVE FALSE OBVIOUS
  <2>1. j < m /\ j + 1 \in 1..m /\ j + 1 <= n + 1 BY <1>1, <1>7
  <2>2. u < z.ats[j + 1] BY <1>7, <2>1
  <2>3. j + 1 = n + 1 \/ z.ats[j + 1] < z.ats[n + 1] BY <1>1, <2>1
  <2>4. z.ats[j + 1] \in Int /\ z.ats[n + 1] \in Int BY <1>1, <2>1
  <2>5. CASE j + 1 = n + 1
    <3>1. z.ats[j + 1] = z.ats[n + 1] BY <2>5
    <3> QED BY <2>2, <2>4, <3>1
  <2>6. CASE z.ats[j + 1] < z.ats[n + 1] BY <2>2, <2>4, <2>6
  <2> QED BY <2>3, <2>5, <2>6
<1>10. p \in 1..(m - n) /\ n + p = j /\ i \in Nat \ {0} BY <1>1, <1>7, <1>9
<1>11. /\ z.ats[n + p] = C(i)
       /\ Said(TypeOf(z, n + p), spec, ToDst(spec, rule, i))
  <2>1. PICK dst, std :
          /\ dst.tt_isdst = TRUE /\ dst.tt_gmtoff = -spec.dstoffset
          /\ std.tt_isdst = FALSE /\ std.tt_gmtoff = -spec.stdoffset
          /\ \A q \in 1..(m - n) :
               /\ z.ats[n + q] = C(s + q)
               /\ TypeOf(z, n + q) = IF ToDst(spec, rule, s + q) THEN dst ELSE std
    BY DEF RuleFrom
  <2> HIDE DEF p, m, C
  <2>2. /\ z.ats[n + p] = C(s + p)
        /\ TypeOf(z, n + p) = IF ToDst(spec, rule, s + p) THEN dst ELSE std
    BY <1>10, <2>1
  <2>3. ToDst(spec, rule, s + p) \in BOOLEAN BY ToDstBoolean
  <2>4. CASE ToDst(spec, rule, s + p) = TRUE BY <2>1, <2>2, <2>4 DEF Said
  <2>5. CASE ToDst(spec, rule, s + p) = FALSE BY <2>1, <2>2, <2>5 DEF Said
  <2> QED BY <2>2, <2>3, <2>4, <2>5
<1>12. u < C(i + 1)
  <2>1. CASE j < m
    <3> HIDE DEF m
    <3>1. p + 1 \in 1..(m - n) /\ n + (p + 1) = j + 1 /\ s + (p + 1) = i + 1
      BY <1>1, <1>7, <1>10, <2>1
    <3> HIDE DEF p, m, C, i
    <3>2. z.ats[n + (p + 1)] = C(s + (p + 1)) BY <3>1 DEF RuleFrom, C, m
    <3> QED BY <1>7, <2>1, <3>1, <3>2 DEF m
  <2>2. CASE ~ (j < m)
    <3>1. j = m BY <1>1, <1>7, <2>2
    <3> HIDE DEF p, i
    <3>2. C(i) = z.ats[m] BY <1>10, <1>11, <3>1
    <3>3. C(i) < C(i + 1) /\ C(i) \in Int BY <1>10, ChangeFacts
    <3>4. i + 1 \in Nat \ {0} BY <1>10
    <3>5. C(i + 1) \in Int BY <3>4, ChangeFacts
    <3> HIDE DEF C, m
    <3>6. u <= C(i) BY <3>2 DEF m
    <3> QED BY <3>3, <3>5, <3>6
  <2> QED BY <2>1, <2>2
<1>13. C(i) <= u BY <1>7, <1>10, <1>11
<1>14. Said(TypeInTable(z, u), spec, ToDst(spec, rule, i)) BY <1>8, <1>10, <1>11
<1> HIDE DEF i
<1> QED BY <1>5, <1>10, <1>12, <1>13, <1>14

\* A table long enough to go ahead follows its rule for ever, any other one up to
\* its last transition.
LEMMA RuleFollowed ==
  ASSUME NEW z, Proper(z), InOrder(z.ats, Len(z.ats)),
         NEW spec, NEW rule, RuleOK(spec, rule), NEW n \in Nat, NEW s \in Nat,
         RuleFrom(z, spec, rule, n, s), n < timecnt(z), NEW t \in Int,
         z.ats[n + 1] <= t,
         \/ t < z.ats[timecnt(z)]
         \/ z.goahead /\ timecnt(z) - n > 2 * YEARSPERREPEAT
  PROVE  Said(TypeAt(z, t), spec, IsDstByRule(spec, rule, t))
<1> DEFINE m == timecnt(z)
           last == z.ats[m]
           R == SECSPERREPEAT
           P == YEARSPERREPEAT
<1>1. /\ m \in Nat /\ m \in 1..m /\ n + 1 \in 1..m /\ 1 \in 1..m
      /\ \A k \in 1..m : z.ats[k] \in Int
      /\ \A k, l \in 1..m : k < l => z.ats[k] < z.ats[l]
      /\ R \in Nat \ {0} /\ P \in Nat \ {0}
  BY ProperParts, Room DEF timecnt, InOrder
<1>2. last \in Int /\ z.ats[n + 1] \in Int /\ z.ats[1] \in Int BY <1>1
<1>3. CASE t <= last
  <2>1. PICK i \in Nat \ {0} :
           /\ Change(spec, rule, i) <= t /\ t < Change(spec, rule, i + 1)
           /\ Said(TypeInTable(z, t), spec, ToDst(spec, rule, i))
    BY <1>3, RuleInTable
  <2>2. ~ Extrapolated(z, t) BY <1>3, RuleInTable
  <2>3. TypeAt(z, t) = TypeInTable(z, t) BY <2>2 DEF TypeAt
  <2>4. IsDstByRule(spec, rule, t) <=> ToDst(spec, rule, i) BY <2>1, ByRule
  <2>5. ToDst(spec, rule, i) \in BOOLEAN BY ToDstBoolean
  <2>6. IsDstByRule(spec, rule, t) \in BOOLEAN BY DEF IsDstByRule
  <2>7. IsDstByRule(spec, rule, t) = ToDst(spec, rule, i) BY <2>4, <2>5, <2>6
  <2> QED BY <2>1, <2>3, <2>7
<1>4. CASE last < t
  <2>1. z.goahead /\ m - n > 2 * P BY <1>2, <1>4
  <2> DEFINE k == (t - last - 1) \div R + 1
             u == t - k * R
  <2>2. t - last \in Nat \ {0} BY <1>2, <1>4
  <2>3. k \in Nat /\ Cycles(t - last) = k * R
    <3> HIDE DEF last
    <3> DEFINE x == t - last - 1
    <3>1. x \in Nat BY <1>2, <2>2
    <3> HIDE DEF x
    <3>2. x \div R \in Nat BY <1>1, <3>1, DivisionBounds
    <3> QED BY <3>2 DEF Cycles, x
  <2>4. k * R \in Nat /\ t - last <= k * R /\ k * R < (t - last) + R
    BY <2>2, <2>3, CyclesReach
  <2>5. z.ats[1] <= last
    <3>1. 1 = m \/ z.ats[1] < last BY <1>1
    <3> QED BY <1>2, <3>1
  <2>6. ~ (t < z.ats[1]) /\ t > last BY <1>2, <1>4, <2>5
  <2>7. Extrapolated(z, t) BY <2>1, <2>6 DEF Extrapolated
  <2>8. CycleShift(z, t) = -(k * R) BY <2>6 DEF CycleShift
  <2> HIDE DEF k, u
  <2>9. u \in Int /\ t + CycleShift(z, t) = u /\ last - R < u /\ u <= last /\ t = u + k * R
    <3> DEFINE x == k * R
    <3>1. x \in Nat /\ t - last <= x /\ x < (t - last) + R /\ CycleShift(z, t) = -x /\ u = t - x
      BY <2>4, <2>8 DEF u
    <3> HIDE DEF x, last, R
    <3>2. /\ u \in Int /\ t + CycleShift(z, t) = u /\ last - R < u /\ u <= last /\ t = u + x
      BY <1>1, <1>2, <3>1
    <3> QED BY <3>2 DEF x
  <2>10. TypeAt(z, t) = TypeInTable(z, u) BY <2>7, <2>9 DEF TypeAt
\* A cycle before its last transition the table goes by the rule already.
  <2>11. z.ats[n + 1] <= last - R
    <3> DEFINE q == (m - n) - 2 * P
               r == m - n
    <3> HIDE DEF m, P
    <3>1. /\ q \in 1..(m - n) /\ r \in 1..(m - n) /\ n + q \in 1..m /\ n + r = m
          /\ s + q \in Nat \ {0} /\ (s + q) + 2 * P = s + r
      BY <1>1, <2>1
    <3> HIDE DEF q, r
    <3>2. z.ats[n + q] = Change(spec, rule, s + q) /\ z.ats[n + r] = Change(spec, rule, s + r)
      BY <3>1 DEF RuleFrom, m
    <3>3. Change(spec, rule, (s + q) + 2 * P) = Change(spec, rule, s + q) + R
      BY <3>1, ChangeFacts DEF P
    <3>4. z.ats[n + q] \in Int /\ last = z.ats[n + q] + R BY <1>1, <3>1, <3>2, <3>3
    <3>5. q = 1 \/ z.ats[n + 1] < z.ats[n + q]
      <4>1. q = 1 \/ n + 1 < n + q BY <1>1, <3>1
      <4> QED BY <1>1, <3>1, <4>1
    <3>6. z.ats[n + 1] <= z.ats[n + q]
      <4>1. CASE q = 1 BY <1>2, <4>1
      <4>2. CASE z.ats[n + 1] < z.ats[n + q] BY <1>2, <3>4, <4>2
      <4> QED BY <3>5, <4>1, <4>2
    <3> HIDE DEF last
    <3> QED BY <1>1, <1>2, <3>4, <3>6
  <2>12. z.ats[n + 1] <= u BY <1>1, <1>2, <2>9, <2>11
  <2>13. PICK j \in Nat \ {0} :
           /\ Change(spec, rule, j) <= u /\ u < Change(spec, rule, j + 1)
           /\ Said(TypeInTable(z, u), spec, ToDst(spec, rule, j))
    BY <2>9, <2>12, RuleInTable
  <2>14. IsDstByRule(spec, rule, u + k * R) <=> ToDst(spec, rule, j)
    BY <2>3, <2>9, <2>13, CyclesOn
  <2>15. ToDst(spec, rule, j) \in BOOLEAN BY ToDstBoolean
  <2>16. IsDstByRule(spec, rule, t) \in BOOLEAN BY DEF IsDstByRule
  <2>17. IsDstByRule(spec, rule, t) = ToDst(spec, rule, j) BY <2>9, <2>14, <2>15, <2>16
  <2> QED BY <2>10, <2>13, <2>17
<1> QED BY <1>2, <1>3, <1>4

----------------------------------------------------------------------------
(* Loaded tables that follow a rule *)

\* The table of a specification with a rule.
LEMMA RuleParsed ==
  ASSUME Given, NEW spec \in Specs, tzparse(spec) # Failed,
         spec.dstoffset # NoDst, RuleOf(spec) # NoRule
  PROVE  /\ OfRule(tzparse(spec), spec, RuleOf(spec))
         /\ ~ Disorderly(spec) => RuleOK(spec, RuleOf(spec))
<1>1. spec # Malformed BY DEF tzparse
<1>2. RuleOf(spec) \in Rule BY <1>1, RuleOfParts
<1>3. tzparse(spec) = RuleTable(spec, RuleOf(spec)) BY <1>1 DEF tzparse
<1>4. OfRule(RuleTable(spec, RuleOf(spec)), spec, RuleOf(spec)) BY <1>1, <1>2, RuleTableParts
<1>5. ~ Disorderly(spec) => InTurn(spec, RuleOf(spec)) BY <1>1 DEF Disorderly
<1>6. RuleOf(spec) \in {spec.rule, TZDEFRULESTRING} \ {NoRule} BY DEF RuleOf
<1>7. NearYear(spec, RuleOf(spec)) BY <1>1, <1>6, RuleAssumption
<1> QED BY <1>1, <1>2, <1>3, <1>4, <1>5, <1>7 DEF RuleOK

\* What follows a table of a rule goes by the rule.
LEMMA FollowsOfRule ==
  ASSUME NEW z, NEW ts, NEW spec, NEW rule, OfRule(ts, spec, rule),
         NEW n, NEW s, Follows(z, n, ts, s)
  PROVE  RuleFrom(z, spec, rule, n, s)
<1> DEFINE dst == ts.ttis[1]
           std == ts.ttis[2]
<1>1. /\ dst.tt_isdst = TRUE /\ dst.tt_gmtoff = -spec.dstoffset
      /\ std.tt_isdst = FALSE /\ std.tt_gmtoff = -spec.stdoffset
  BY DEF OfRule
<1>2. ASSUME NEW p \in 1..(timecnt(z) - n)
      PROVE  /\ z.ats[n + p] = Change(spec, rule, s + p)
             /\ TypeOf(z, n + p) = IF ToDst(spec, rule, s + p) THEN dst ELSE std
  <2>1. /\ s + p \in 1..timecnt(ts)
        /\ z.ats[n + p] = ts.ats[s + p] /\ TypeOf(z, n + p) = TypeOf(ts, s + p)
    BY DEF Follows
  <2>2. /\ ts.ats[s + p] = Change(spec, rule, s + p)
        /\ ts.types[s + p] = IF ToDst(spec, rule, s + p) THEN 1 ELSE 2
    BY <2>1 DEF OfRule
  <2> QED BY <2>1, <2>2 DEF TypeOf
<1> HIDE DEF dst, std
<1> QED BY <1>1, <1>2 DEF RuleFrom

\* The flags are set from what they do not change.
LEMMA FlaggedFollows ==
  ASSUME NEW z, Proper(z), NEW spec, NEW rule, NEW n, NEW s, RuleFrom(z, spec, rule, n, s)
  PROVE  RuleFrom(Flagged(z), spec, rule, n, s)
<1> DEFINE f == Flagged(z)
<1>1. f.ats = z.ats /\ f.types = z.types /\ f.ttis = z.ttis BY FlaggedParts
<1> HIDE DEF f
<1>2. timecnt(f) = timecnt(z) /\ \A i : TypeOf(f, i) = TypeOf(z, i)
  BY <1>1 DEF timecnt, TypeOf
<1>3. RuleFrom(f, spec, rule, n, s) BY <1>1, <1>2 DEF RuleFrom
<1> QED BY <1>3 DEF f

\* A table that goes by a rule for more than a cycle is found to go ahead.
LEMMA RuleAhead ==
  ASSUME NEW z, Proper(z), NEW spec, NEW rule, RuleOK(spec, rule), NEW n \in Nat, NEW s \in Nat,
         RuleFrom(z, spec, rule, n, s), timecnt(z) - n > 2 * YEARSPERREPEAT
  PROVE  Flagged(z).goahead
<1> DEFINE m == timecnt(z)
           P == YEARSPERREPEAT
           r == m - n
           q == r - 2 * P
           i == n + q
<1>1. m \in Nat /\ P \in Nat \ {0} BY ProperParts, Room DEF timecnt
<1> HIDE DEF m, P
<1>2. /\ q \in 1..(m - n) /\ r \in 1..(m - n) /\ n + r = m
      /\ s + q \in Nat \ {0} /\ (s + q) + 2 * P = s + r /\ i \in 1..(m - 1)
  BY <1>1 DEF m, P
<1> HIDE DEF q, r
<1>3. PICK dst, std :
        \A p \in 1..(m - n) :
           /\ z.ats[n + p] = Change(spec, rule, s + p)
           /\ TypeOf(z, n + p) = IF ToDst(spec, rule, s + p) THEN dst ELSE std
  BY DEF RuleFrom, m
<1>4. /\ z.ats[i] = Change(spec, rule, s + q) /\ z.ats[n + r] = Change(spec, rule, s + r)
      /\ TypeOf(z, i) = IF ToDst(spec, rule, s + q) THEN dst ELSE std
      /\ TypeOf(z, n + r) = IF ToDst(spec, rule, s + r) THEN dst ELSE std
  BY <1>2, <1>3
<1>5. /\ Change(spec, rule, s + q) \in Int
      /\ Change(spec, rule, (s + q) + 2 * P) = Change(spec, rule, s + q) + SECSPERREPEAT
      /\ ToDst(spec, rule, (s + q) + 2 * P) <=> ToDst(spec, rule, s + q)
  BY <1>2, ChangeFacts DEF P
<1> HIDE DEF i
<1>6. TypeOf(z, m) = TypeOf(z, i) BY <1>2, <1>4, <1>5
<1>7. z.ats[m] - z.ats[i] = SECSPERREPEAT
  <2>1. SECSPERREPEAT \in Nat BY Room
  <2>2. z.ats[m] = Change(spec, rule, s + q) + SECSPERREPEAT BY <1>2, <1>4, <1>5
  <2> QED BY <1>4, <1>5, <2>1, <2>2
<1>8. typesequiv(z, m, i) /\ differ_by_repeat(z.ats[m], z.ats[i])
  BY <1>6, <1>7 DEF typesequiv, differ_by_repeat, TypeOf
<1>9. \E k \in 1..(m - 1) : typesequiv(z, m, k) /\ differ_by_repeat(z.ats[m], z.ats[k])
  BY <1>2, <1>8
<1>10. z \in Tables BY DEF Proper
<1> QED BY <1>9, <1>10 DEF Flagged, Tables, m

\* The rule in a file's last line.
LEMMA FileFollows ==
  ASSUME IInv, IsLoaded, IsFile, Orderly, LastRule # NoRule, RuleTransitions > 0
  PROVE  LET spec == source.file.footer
         IN  /\ RuleOK(spec, LastRule) /\ OwnTransitions \in Nat
             /\ \E s \in Nat : RuleFrom(sp, spec, LastRule, OwnTransitions, s)
             /\ RuleTransitions > 2 * YEARSPERREPEAT => sp.goahead
<1> DEFINE f == source.file
           spec == f.footer
           z == FileTable(f)
           w == FromFile
           n == timecnt(z)
<1>1. Given /\ f \in Files \cup Rules /\ Readable(f) /\ sp = Flagged(w)
  BY Sources, FileLoaded DEF IInv, Made, IsLoaded, Readable
<1>2. Proper(z) /\ Proper(w) BY <1>1, WhileReading
<1>3. spec \in Specs \cup {NoFooter} BY <1>1, FileParts
<1>4. w = Extended(z, spec) BY DEF FromFile
<1>5. n = OwnTransitions BY DEF OwnTransitions
<1>6. timecnt(w) \in Nat /\ n \in Nat BY <1>2, ProperParts DEF timecnt
<1>7. timecnt(sp) = timecnt(w) BY <1>1, <1>2, FlaggedParts DEF timecnt
<1> HIDE DEF z, w, n
<1>8. RuleTransitions = timecnt(w) - n BY <1>5, <1>7 DEF RuleTransitions
<1>9. timecnt(w) # timecnt(z) BY <1>6, <1>8 DEF n
<1>10. /\ spec # NoFooter /\ tzparse(spec) # Failed
       /\ \E s \in Nat : Follows(w, timecnt(z), tzparse(spec), s)
  BY <1>1, <1>2, <1>3, <1>4, <1>9, ExtendedParts
<1>11. PICK s \in Nat : Follows(w, n, tzparse(spec), s) BY <1>10 DEF n
<1>12. spec \in Specs BY <1>3, <1>10
<1>13. spec.dstoffset # NoDst /\ LastRule = RuleOf(spec) BY DEF LastRule
<1>14. ~ Disorderly(spec) BY <1>10 DEF Orderly
<1>15. OfRule(tzparse(spec), spec, RuleOf(spec)) /\ RuleOK(spec, RuleOf(spec))
  BY <1>1, <1>10, <1>12, <1>13, <1>14, RuleParsed
<1>16. RuleFrom(w, spec, RuleOf(spec), n, s) BY <1>11, <1>15, FollowsOfRule
<1>17. RuleFrom(sp, spec, RuleOf(spec), n, s) BY <1>1, <1>2, <1>16, FlaggedFollows
<1>18. timecnt(w) - n > 2 * YEARSPERREPEAT => sp.goahead
  BY <1>1, <1>2, <1>6, <1>15, <1>16, RuleAhead
<1> QED BY <1>5, <1>6, <1>8, <1>13, <1>15, <1>17, <1>18

\* The rule of a specification.
LEMMA SpecFollows ==
  ASSUME IInv, IsLoaded, ~ IsFile, Orderly, LastRule # NoRule
  PROVE  LET spec == source.spec
         IN  RuleOK(spec, LastRule) /\ RuleFrom(sp, spec, LastRule, 0, 0)
<1> DEFINE spec == source.spec
<1>1. Given /\ spec \in Specs BY Sources DEF IInv
<1>2. sp = tzparse(spec) /\ sp # Failed BY DEF IInv, Made, IsLoaded
<1>3. spec.dstoffset # NoDst /\ LastRule = RuleOf(spec) BY DEF LastRule
<1>4. ~ Disorderly(spec) BY DEF Orderly
<1>5. OfRule(sp, spec, RuleOf(spec)) /\ RuleOK(spec, RuleOf(spec))
  BY <1>1, <1>2, <1>3, <1>4, RuleParsed
<1>6. Proper(sp) BY <1>2, SpecLoaded DEF IsLoaded
<1>7. timecnt(sp) \in Nat BY <1>6, ProperParts DEF timecnt
<1>8. Follows(sp, 0, sp, 0)
  <2>1. timecnt(sp) - 0 = timecnt(sp) /\ \A p \in 1..timecnt(sp) : 0 + p = p BY <1>7
  <2> QED BY <2>1 DEF Follows
<1> QED BY <1>3, <1>5, <1>8, FollowsOfRule

\* What the invariant says of the rule.
LEMMA IInvFollowsRule == IInv => FollowsRule
<1> DEFINE spec == IF IsFile THEN source.file.footer ELSE source.spec
           n == OwnTransitions
           from == sp.ats[n + 1]
           forever == IsFile /\ RuleTransitions > 2 * YEARSPERREPEAT
<1> SUFFICES ASSUME IInv, IsLoaded, Orderly, LastRule # NoRule, RuleTransitions > 0,
                    NEW t \in Instants, from <= t,
                    t < sp.ats[timecnt(sp)] \/ forever
             PROVE  Said(TypeAt(sp, t), spec, IsDstByRule(spec, LastRule, t))
  BY DEF FollowsRule, Said
<1>1. Proper(sp) /\ InOrder(sp.ats, Len(sp.ats))
  BY FileLoaded, SpecLoaded DEF IsLoaded
<1>2. PICK s \in Nat : /\ RuleOK(spec, LastRule) /\ n \in Nat
                       /\ RuleFrom(sp, spec, LastRule, n, s)
                       /\ forever => sp.goahead
  <2>1. CASE IsFile BY <2>1, FileFollows
  <2>2. CASE ~ IsFile
    <3>1. n = 0 /\ 0 \in Nat /\ ~ forever BY <2>2 DEF OwnTransitions
    <3>2. RuleOK(source.spec, LastRule) /\ RuleFrom(sp, source.spec, LastRule, 0, 0)
      BY <2>2, SpecFollows
    <3> QED BY <2>2, <3>1, <3>2
  <2> QED BY <2>1, <2>2
<1>3. t \in Int BY LoadAssumption
<1>4. timecnt(sp) \in Nat BY <1>1, ProperParts DEF timecnt
<1>5. RuleTransitions = timecnt(sp) - n BY DEF RuleTransitions
<1> HIDE DEF spec, n
<1>6. n < timecnt(sp) BY <1>2, <1>4, <1>5
<1>7. \/ t < sp.ats[timecnt(sp)]
      \/ sp.goahead /\ timecnt(sp) - n > 2 * YEARSPERREPEAT
  BY <1>2, <1>5
<1>8. sp.ats[n + 1] <= t BY DEF n
<1> QED BY <1>1, <1>2, <1>3, <1>6, <1>7, <1>8, RuleFollowed

\* From its first transition on the rule of a specification, or of a file's last
\* line, is followed (tzload.c:198-236, tzparse.c:109-156).
THEOREM FollowsRuleHolds == Spec => []FollowsRule
<1>1. IInv => FollowsRule BY IInvFollowsRule
<1> QED BY <1>1, Invariance, PTL

=============================================================================
