--------------------------- MODULE HashTableProofs ---------------------------
(***************************************************************************)
(* The hash table for every set of keys, hash function, size of chunk and   *)
(* segment, and configuration: its chains hold each element once and where  *)
(* calc_bucket looks for it through any sequence of expansions that succeed *)
(* or fail, its scans are counted, and the whole implements HashMap.        *)
(*                                                                          *)
(* HashTableInv is the invariant behind it, of three parts.  StoreInv is    *)
(* about the table alone; GuardedInv about the count of scans, which keeps  *)
(* ENTER from splitting a bucket under a scan; ScanInv says of each scan    *)
(* that what it still owes is among the elements after its position.        *)
(***************************************************************************)
EXTENDS HashTable, TLAPS, FiniteSetTheorems, WellFoundedInduction

----------------------------------------------------------------------------
(* Lists of elements *)

\* A set of numbers has a least one.
LEMMA LeastNat ==
  ASSUME NEW T, T \subseteq Nat, T # {}
  PROVE  \E x \in T : \A y \in T : x <= y
<1> DEFINE R == OpToRel(<, Nat)
<1>1. IsWellFoundedOn(R, Nat)
  BY NatLessThanWellFounded DEF OpToRel
<1>2. PICK x \in T : \A y \in T : ~ (<<y, x>> \in R)
  <2> HIDE DEF R
  <2> QED BY <1>1, WFMin
<1>3. \A y \in T : ~ (y < x) BY <1>2 DEF OpToRel
<1> QED BY <1>3

\* A list in which no element occurs twice.
IsList(list) ==
  /\ list \in Seq(Elems)
  /\ \A i, j \in 1..Len(list) : list[i] = list[j] => i = j

\* y is x or comes after it.
Before(list, x, y) ==
  \E i, j \in 1..Len(list) : i <= j /\ list[i] = x /\ list[j] = y

LEMMA ListElements ==
  ASSUME NEW list, IsList(list)
  PROVE  /\ Elements(list) = {list[i] : i \in 1..Len(list)}
         /\ Elements(list) \subseteq Elems /\ Len(list) \in Nat
         /\ DOMAIN list = 1..Len(list)
  BY DEF IsList, Elements

LEMMA PlaceFound ==
  ASSUME NEW list, IsList(list), NEW e \in Elements(list)
  PROVE  /\ Place(list, e) \in 1..Len(list) /\ list[Place(list, e)] = e
         /\ \A i \in 1..Len(list) : list[i] = e => i = Place(list, e)
<1>1. DOMAIN list = 1..Len(list) /\ \E i \in 1..Len(list) : list[i] = e
  BY ListElements DEF Elements
<1>2. Place(list, e) \in 1..Len(list) /\ list[Place(list, e)] = e
  BY <1>1 DEF Place
<1> QED BY <1>2 DEF IsList

LEMMA ListSize ==
  ASSUME NEW list, IsList(list)
  PROVE  /\ IsFiniteSet(Elements(list))
         /\ Cardinality(Elements(list)) = Len(list)
<1> DEFINE f == [i \in 1..Len(list) |-> list[i]]
<1>1. Len(list) \in Nat BY ListElements
<1>2. f \in Bijection(1..Len(list), Elements(list))
  BY ListElements DEF IsList, Bijection, Injection, Surjection, IsInjective
<1>3. ExistsBijection(1..Len(list), Elements(list))
  BY <1>2 DEF ExistsBijection
<1>4. IsFiniteSet(1..Len(list)) /\ Cardinality(1..Len(list)) = Len(list)
  <2> DEFINE n == Len(list)
  <2>1. n \in Nat BY <1>1
  <2> HIDE DEF n
  <2>2. IsFiniteSet(1..n) /\ Cardinality(1..n) = n BY <2>1, FS_Interval
  <2> QED BY <2>2 DEF n
<1> QED BY <1>3, <1>4, FS_Bijection

\* Unlinking an element leaves the others in their order.
LEMMA WithoutList ==
  ASSUME NEW list, IsList(list), NEW e \in Elements(list)
  PROVE  LET rest == Without(list, e)
         IN  /\ IsList(rest)
             /\ Elements(rest) = Elements(list) \ {e}
             /\ \A x, y \in Elements(rest) : Before(list, x, y) => Before(rest, x, y)
             /\ \A x, y : Before(rest, x, y) => Before(list, x, y)
<1> DEFINE p == Place(list, e)
           n == Len(list)
           rest == Without(list, e)
           new(i) == IF i < p THEN i ELSE i - 1
           old(i) == IF i < p THEN i ELSE i + 1
<1>1. /\ p \in 1..n /\ list[p] = e /\ n \in Nat
      /\ \A i \in 1..n : list[i] = e => i = p
  BY PlaceFound, ListElements
<1>2. rest = [i \in 1..(n - 1) |-> list[old(i)]]
  BY DEF Without
<1>3. list \in Seq(Elems) /\ \A i, j \in 1..n : list[i] = list[j] => i = j
  BY DEF IsList
<1> HIDE DEF p, n, rest
<1>4. /\ \A i \in 1..(n - 1) : old(i) \in 1..n /\ old(i) # p /\ new(old(i)) = i
      /\ \A i \in (1..n) \ {p} : new(i) \in 1..(n - 1) /\ old(new(i)) = i
      /\ \A i, j \in 1..(n - 1) : i <= j <=> old(i) <= old(j)
  BY <1>1
<1>5. rest \in Seq(Elems) /\ Len(rest) = n - 1 /\ \A i \in 1..(n - 1) : rest[i] = list[old(i)]
  <2>1. n - 1 \in Nat BY <1>1
  <2>2. \A i \in 1..(n - 1) : list[old(i)] \in Elems
    BY <1>3, <1>4 DEF n
  <2> HIDE DEF old
  <2> QED BY <1>2, <2>1, <2>2
<1> HIDE DEF old, new
<1>6. IsList(rest)
  BY <1>3, <1>4, <1>5 DEF IsList
<1>7. Elements(rest) = Elements(list) \ {e}
  <2>1. Elements(rest) = {rest[i] : i \in 1..(n - 1)} /\ Elements(list) = {list[i] : i \in 1..n}
    BY <1>5, <1>6, ListElements DEF n
  <2>2. \A i \in 1..(n - 1) : list[old(i)] \in Elements(list) \ {e}
    BY <1>1, <1>4, <2>1
  <2>3. ASSUME NEW x \in Elements(list) \ {e} PROVE x \in Elements(rest)
    <3>1. PICK i \in 1..n : list[i] = x BY <2>1
    <3>2. i # p BY <1>1, <3>1
    <3>3. rest[new(i)] = x BY <1>4, <1>5, <3>1, <3>2
    <3> QED BY <1>4, <2>1, <3>2, <3>3
  <2> QED BY <1>5, <2>1, <2>2, <2>3
<1>8. ASSUME NEW x \in Elements(rest), NEW y \in Elements(rest), Before(list, x, y)
      PROVE  Before(rest, x, y)
  <2>1. PICK i, j \in 1..n : i <= j /\ list[i] = x /\ list[j] = y
    BY <1>8 DEF Before, n
  <2>2. i # p /\ j # p BY <1>1, <1>7, <2>1
  <2>3. rest[new(i)] = x /\ rest[new(j)] = y BY <1>4, <1>5, <2>1, <2>2
  <2>4. new(i) <= new(j) BY <1>4, <2>1, <2>2
  <2> QED BY <1>4, <1>5, <2>2, <2>3, <2>4 DEF Before
<1>9. ASSUME NEW x, NEW y, Before(rest, x, y) PROVE Before(list, x, y)
  <2>1. PICK i, j \in 1..(n - 1) : i <= j /\ rest[i] = x /\ rest[j] = y
    BY <1>5, <1>9 DEF Before
  <2>2. old(i) <= old(j) /\ list[old(i)] = x /\ list[old(j)] = y
    BY <1>4, <1>5, <2>1
  <2> QED BY <1>4, <2>1, <2>2 DEF Before, n
<1> QED BY <1>6, <1>7, <1>8, <1>9 DEF rest

\* A new element comes after all the others.
LEMMA AppendList ==
  ASSUME NEW list, IsList(list), NEW e \in Elems, e \notin Elements(list)
  PROVE  /\ IsList(Append(list, e))
         /\ Elements(Append(list, e)) = Elements(list) \cup {e}
         /\ \A x, y \in Elements(list) :
              Before(Append(list, e), x, y) <=> Before(list, x, y)
         /\ \A x \in Elements(list) : Before(Append(list, e), x, e)
<1> DEFINE n == Len(list)
           l == Append(list, e)
<1>1. /\ list \in Seq(Elems) /\ n \in Nat
      /\ \A i, j \in 1..n : list[i] = list[j] => i = j
      /\ Elements(list) = {list[i] : i \in 1..n}
  BY ListElements DEF IsList
<1>2. /\ l \in Seq(Elems) /\ Len(l) = n + 1 /\ l[n + 1] = e
      /\ \A i \in 1..n : l[i] = list[i]
  BY <1>1
<1> HIDE DEF l, n
<1>3. \A i \in 1..(n + 1) : i \in 1..n \/ i = n + 1 BY <1>1
<1>4. IsList(l)
  BY <1>1, <1>2, <1>3 DEF IsList
<1>5. Elements(l) = {l[i] : i \in 1..(n + 1)} BY <1>2, <1>4, ListElements
<1>6. Elements(l) = Elements(list) \cup {e}
  BY <1>1, <1>2, <1>3, <1>5
<1>7. ASSUME NEW x \in Elements(list), NEW y \in Elements(list)
      PROVE  Before(l, x, y) <=> Before(list, x, y)
  <2>1. x # e /\ y # e OBVIOUS
  <2>2. Before(l, x, y) => Before(list, x, y)
    BY <1>1, <1>2, <1>3, <2>1 DEF Before, n
  <2>3. Before(list, x, y) => Before(l, x, y)
    BY <1>1, <1>2 DEF Before, n
  <2> QED BY <2>2, <2>3
<1>8. ASSUME NEW x \in Elements(list) PROVE Before(l, x, e)
  <2>1. PICK i \in 1..n : list[i] = x BY <1>1
  <2> QED BY <1>1, <1>2, <2>1 DEF Before
<1> QED BY <1>4, <1>6, <1>7, <1>8 DEF l

LEMMA ConsList ==
  ASSUME NEW list, IsList(list), NEW e \in Elems, e \notin Elements(list)
  PROVE  /\ IsList(<<e>> \o list)
         /\ Elements(<<e>> \o list) = Elements(list) \cup {e}
<1> DEFINE n == Len(list)
           l == <<e>> \o list
<1>1. /\ list \in Seq(Elems) /\ n \in Nat
      /\ \A i, j \in 1..n : list[i] = list[j] => i = j
      /\ Elements(list) = {list[i] : i \in 1..n}
  BY ListElements DEF IsList
<1>2. /\ l \in Seq(Elems) /\ Len(l) = n + 1 /\ l[1] = e
      /\ \A i \in 2..(n + 1) : l[i] = list[i - 1]
  BY <1>1
<1> HIDE DEF l, n
<1>3. \A i \in 1..(n + 1) : i = 1 \/ (i \in 2..(n + 1) /\ i - 1 \in 1..n) BY <1>1
<1>3a. \A i \in 1..n : i + 1 \in 2..(n + 1) /\ l[i + 1] = list[i]
  <2> SUFFICES ASSUME NEW i \in 1..n PROVE i + 1 \in 2..(n + 1) /\ l[i + 1] = list[i] OBVIOUS
  <2>1. i + 1 \in 2..(n + 1) /\ (i + 1) - 1 = i BY <1>1
  <2> QED BY <1>2, <2>1
<1>4. IsList(l)
  <2>1. ASSUME NEW i \in 1..(n + 1), NEW j \in 1..(n + 1), l[i] = l[j] PROVE i = j
    <3>1. CASE i = 1 /\ j = 1 BY <3>1
    <3>2. CASE i = 1 /\ j # 1 BY <1>1, <1>2, <1>3, <2>1, <3>2
    <3>3. CASE i # 1 /\ j = 1 BY <1>1, <1>2, <1>3, <2>1, <3>3
    <3>4. CASE i # 1 /\ j # 1
      <4>1. i - 1 = j - 1 BY <1>1, <1>2, <1>3, <2>1, <3>4
      <4> QED BY <4>1
    <3> QED BY <3>1, <3>2, <3>3, <3>4
  <2> QED BY <1>2, <2>1 DEF IsList
<1>5. Elements(l) = {l[i] : i \in 1..(n + 1)} BY <1>2, <1>4, ListElements
<1>6. Elements(l) = Elements(list) \cup {e}
  <2>1. ASSUME NEW i \in 1..(n + 1) PROVE l[i] \in Elements(list) \cup {e}
    <3>1. CASE i = 1 BY <1>2, <3>1
    <3>2. CASE i # 1
      <4>1. i \in 2..(n + 1) /\ i - 1 \in 1..n BY <1>3, <3>2
      <4>2. l[i] = list[i - 1] BY <1>2, <4>1
      <4> QED BY <1>1, <4>1, <4>2
    <3> QED BY <3>1, <3>2
  <2>2. e \in Elements(l) BY <1>1, <1>2, <1>5
  <2>3. \A i \in 1..n : list[i] \in Elements(l) BY <1>1, <1>3a, <1>5
  <2> QED BY <1>1, <1>5, <2>1, <2>2, <2>3
<1> QED BY <1>4, <1>6 DEF l

LEMMA TailList ==
  ASSUME NEW list, IsList(list), list # <<>>
  PROVE  /\ Head(list) \in Elements(list)
         /\ IsList(Tail(list))
         /\ Elements(Tail(list)) = Elements(list) \ {Head(list)}
<1> DEFINE n == Len(list)
           l == Tail(list)
<1>1. /\ list \in Seq(Elems) /\ n \in Nat \ {0} /\ Head(list) = list[1]
      /\ \A i, j \in 1..n : list[i] = list[j] => i = j
      /\ Elements(list) = {list[i] : i \in 1..n}
  BY ListElements DEF IsList
<1>2. /\ l \in Seq(Elems) /\ Len(l) = n - 1
      /\ \A i \in 1..(n - 1) : l[i] = list[i + 1]
  BY <1>1
<1> HIDE DEF l, n
<1>3. \A i \in 1..(n - 1) : i + 1 \in 1..n /\ i + 1 # 1 BY <1>1
<1>4. IsList(l)
  <2>1. ASSUME NEW i \in 1..(n - 1), NEW j \in 1..(n - 1), l[i] = l[j] PROVE i = j
    <3>1. i + 1 = j + 1 BY <1>1, <1>2, <1>3, <2>1
    <3> QED BY <3>1
  <2> QED BY <1>2, <2>1 DEF IsList
<1>5. Elements(l) = {l[i] : i \in 1..(n - 1)} BY <1>2, <1>4, ListElements
<1>6. Elements(l) = Elements(list) \ {list[1]}
  <2>1. \A i \in 1..(n - 1) : l[i] \in Elements(list) \ {list[1]} BY <1>1, <1>2, <1>3
  <2>2. ASSUME NEW i \in 1..n, list[i] # list[1] PROVE list[i] \in Elements(l)
    <3>1. i - 1 \in 1..(n - 1) /\ (i - 1) + 1 = i BY <1>1, <2>2
    <3>2. l[i - 1] = list[i] BY <1>2, <3>1
    <3> QED BY <1>5, <3>1, <3>2
  <2> QED BY <1>1, <1>5, <2>1, <2>2
<1> QED BY <1>1, <1>4, <1>6 DEF l

\* A chunk holds the numbers that follow those allocated before.
LEMMA ChunkList ==
  ASSUME NEW used \in Nat, NEW n \in Nat, used + n <= MaxElems
  PROVE  /\ IsList(Chunk(used, n)) /\ Len(Chunk(used, n)) = n
         /\ Elements(Chunk(used, n)) = (used + 1)..(used + n)
<1> DEFINE l == Chunk(used, n)
<1>0. MaxElems \in Nat BY HashTableAssumption
<1>1. l = [i \in 1..n |-> used + n + 1 - i] BY DEF Chunk
<1>2. \A i \in 1..n : used + n + 1 - i \in Elems
  BY <1>0 DEF Elems
<1>3. l \in Seq(Elems) /\ Len(l) = n /\ \A i \in 1..n : l[i] = used + n + 1 - i
  BY <1>1, <1>2
<1> HIDE DEF l
<1>4. IsList(l) BY <1>3 DEF IsList
<1>5. Elements(l) = {l[i] : i \in 1..n} BY <1>3, <1>4, ListElements
<1>6. Elements(l) = (used + 1)..(used + n)
  <2>1. \A i \in 1..n : l[i] \in (used + 1)..(used + n) BY <1>3
  <2>2. ASSUME NEW e \in (used + 1)..(used + n) PROVE e \in Elements(l)
    <3>1. used + n + 1 - e \in 1..n /\ used + n + 1 - (used + n + 1 - e) = e OBVIOUS
    <3> QED BY <1>3, <1>5, <3>1
  <2> QED BY <1>5, <2>1, <2>2
<1> QED BY <1>3, <1>4, <1>6 DEF l

\* Splitting a chain.

\* The positions of a set, counted from the lowest, each have a rank of their
\* own, from 1 to their number.
LEMMA Ranked ==
  ASSUME NEW m \in Nat, NEW P \in SUBSET (1..m)
  PROVE  LET rank(i) == Cardinality({j \in P : j <= i})
         IN  /\ IsFiniteSet(P) /\ Cardinality(P) \in Nat
             /\ \A i \in P : rank(i) \in 1..Cardinality(P)
             /\ \A i, j \in P : rank(i) = rank(j) => i = j
             /\ \A n \in 1..Cardinality(P) : \E i \in P : rank(i) = n
<1> DEFINE upto(i) == {j \in P : j <= i}
           rank(i) == Cardinality(upto(i))
<1>0. \A j \in P : j \in Nat /\ 1 <= j /\ j <= m OBVIOUS
<1>1. IsFiniteSet(P) /\ Cardinality(P) \in Nat
  <2>1. IsFiniteSet(1..m) BY FS_Interval
  <2>2. IsFiniteSet(P) BY <2>1, FS_Subset
  <2> QED BY <2>2, FS_CardinalityType
<1>2. ASSUME NEW i PROVE IsFiniteSet(upto(i)) /\ rank(i) \in Nat /\ rank(i) <= Cardinality(P)
  <2>1. upto(i) \in SUBSET P OBVIOUS
  <2> HIDE DEF upto
  <2>2. IsFiniteSet(upto(i)) /\ Cardinality(upto(i)) <= Cardinality(P) BY <1>1, <2>1, FS_Subset
  <2> QED BY <2>2, FS_CardinalityType
<1>3. ASSUME NEW i \in P PROVE rank(i) >= 1
  <2>1. i \in upto(i) OBVIOUS
  <2> HIDE DEF upto
  <2>2. upto(i) # {} BY <2>1
  <2>3. IsFiniteSet(upto(i)) BY <1>2
  <2> DEFINE U == upto(i)
  <2>4. Cardinality(U) # 0
    <3> HIDE DEF U
    <3> QED BY <2>2, <2>3, FS_EmptySet DEF U
  <2>5. rank(i) \in Nat BY <1>2
  <2> QED BY <2>4, <2>5
<1>4. ASSUME NEW i \in P, NEW j \in P, i < j PROVE rank(i) < rank(j)
  <2>0. \A k \in P : k <= i => k <= j BY <1>0, <1>4
  <2>a. ~ (j <= i) /\ j <= j BY <1>0, <1>4
  <2>b. j \in upto(j) /\ j \notin upto(i) BY <2>a
  <2>c. upto(i) \subseteq upto(j) BY <2>0
  <2>1. upto(i) \in SUBSET upto(j) /\ j \in upto(j) /\ j \notin upto(i) BY <2>b, <2>c
  <2> HIDE DEF upto
  <2>2. rank(i) <= rank(j) /\ rank(i) # rank(j)
    BY <1>2, <2>1, FS_Subset
  <2> QED BY <1>2, <2>2
<1>5. ASSUME NEW n \in 1..Cardinality(P) PROVE \E i \in P : rank(i) = n
  <2> DEFINE T == {i \in Nat : rank(i) >= n}
  <2>1. m \in T
    <3>1. upto(m) = P BY <1>0
    <3> HIDE DEF upto
    <3> QED BY <1>1, <3>1
  <2>2. PICK i \in T : \A j \in T : i <= j
    <3>1. T \subseteq Nat /\ T # {}
      <4> HIDE DEF rank
      <4> QED BY <2>1
    <3> HIDE DEF T
    <3> QED BY <3>1, LeastNat
  <2>3. i # 0
    <3>0. \A j \in P : ~ (j <= 0) BY <1>0
    <3>1. upto(0) = {} BY <3>0
    <3>2. rank(0) = 0
      <4> HIDE DEF upto
      <4> QED BY <3>1, FS_EmptySet
    <3>3. ~ (0 >= n) BY <1>1
    <3>4. rank(i) >= n BY <2>2
    <3> HIDE DEF rank, T
    <3> QED BY <3>2, <3>3, <3>4
  <2>4. i - 1 \in Nat /\ ~ (i - 1 >= i) BY <2>2, <2>3
  <2>5. ~ (rank(i - 1) >= n)
    <3> HIDE DEF rank
    <3> QED BY <2>2, <2>4
  <2>6. upto(i) \subseteq upto(i - 1) \cup {i}
    <3>1. \A j \in P : j <= i => j <= i - 1 \/ j = i BY <1>0, <2>4
    <3> QED BY <3>1
  <2>7. i \in P
    <3>1. SUFFICES ASSUME i \notin P PROVE FALSE OBVIOUS
    <3>2. upto(i) \in SUBSET upto(i - 1) BY <2>6, <3>1
    <3>3. rank(i) <= rank(i - 1)
      <4> HIDE DEF upto
      <4> QED BY <1>2, <3>2, FS_Subset
    <3>4. rank(i) >= n /\ rank(i) \in Nat /\ rank(i - 1) \in Nat
      <4> HIDE DEF rank, upto
      <4> QED BY <1>2, <2>2
    <3> HIDE DEF rank
    <3> QED BY <1>1, <2>5, <3>3, <3>4
  <2>8. rank(i) <= rank(i - 1) + 1
    <3> DEFINE U == upto(i - 1) \cup {i}
    <3>1. upto(i) \in SUBSET U BY <2>6
    <3> HIDE DEF upto
    <3>2. IsFiniteSet(U) /\ Cardinality(U) <= rank(i - 1) + 1 /\ Cardinality(U) \in Nat
      <4>1. IsFiniteSet(U) /\ Cardinality(U) <= rank(i - 1) + 1
        BY <1>2, FS_AddElement
      <4> QED BY <4>1, FS_CardinalityType
    <3> HIDE DEF U
    <3>3. rank(i) <= Cardinality(U) BY <3>1, <3>2, FS_Subset
    <3> HIDE DEF rank
    <3> QED BY <1>2, <3>2, <3>3
  <2>9. rank(i) >= n /\ rank(i) \in Nat /\ rank(i - 1) \in Nat
    <3> HIDE DEF rank, upto
    <3> QED BY <1>2, <2>2
  <2>10. rank(i) = n
    <3> HIDE DEF rank
    <3> QED BY <1>1, <2>5, <2>8, <2>9
  <2> QED BY <2>7, <2>10
<1>6. \A i \in P : rank(i) \in 1..Cardinality(P)
  <2> SUFFICES ASSUME NEW i \in P PROVE rank(i) \in 1..Cardinality(P) OBVIOUS
  <2>1. rank(i) \in Nat /\ rank(i) <= Cardinality(P) /\ rank(i) >= 1 BY <1>2, <1>3
  <2> HIDE DEF rank
  <2> QED BY <1>1, <2>1
<1>7. \A i, j \in P : rank(i) = rank(j) => i = j
  <2> HIDE DEF rank
  <2>1. SUFFICES ASSUME NEW i \in P, NEW j \in P, rank(i) = rank(j), i # j PROVE FALSE OBVIOUS
  <2>2. i \in Int /\ j \in Int BY <1>0
  <2>3. i < j \/ j < i BY <2>1, <2>2
  <2>4. rank(i) < rank(j) \/ rank(j) < rank(i) BY <1>4, <2>3
  <2>5. rank(i) \in Nat /\ rank(j) \in Nat BY <1>2
  <2> QED BY <2>1, <2>4, <2>5
<1> QED BY <1>1, <1>5, <1>6, <1>7

\* What is kept of a list is a list of the elements kept.
LEMMA KeptList ==
  ASSUME NEW list, IsList(list), NEW S
  PROVE  /\ IsList(Kept(list, S))
         /\ Elements(Kept(list, S)) = Elements(list) \cap S
<1> DEFINE m == Len(list)
           P == {i \in 1..m : list[i] \in S}
           rank(i) == Cardinality({j \in P : j <= i})
           at(n) == CHOOSE i \in P : rank(i) = n
           c == Cardinality(P)
           l == Kept(list, S)
<1>1. /\ list \in Seq(Elems) /\ m \in Nat /\ DOMAIN list = 1..m
      /\ \A i, j \in 1..m : list[i] = list[j] => i = j
      /\ Elements(list) = {list[i] : i \in 1..m}
  BY ListElements DEF IsList
<1>2. l = [n \in 1..c |-> list[at(n)]]
  BY <1>1 DEF Kept
<1>3. /\ c \in Nat
      /\ \A i \in P : rank(i) \in 1..c
      /\ \A i, j \in P : rank(i) = rank(j) => i = j
      /\ \A n \in 1..c : \E i \in P : rank(i) = n
  <2>1. P \in SUBSET (1..m) /\ m \in Nat BY <1>1
  <2> HIDE DEF P
  <2> QED BY <2>1, Ranked
<1> HIDE DEF rank, c
<1>4. \A n \in 1..c : at(n) \in P /\ rank(at(n)) = n
  BY <1>3
<1>5. \A i \in P : at(rank(i)) = i
  BY <1>3
<1> HIDE DEF at, l, m
<1>6. P \subseteq 1..m /\ \A i \in P : list[i] \in S OBVIOUS
<1>7. \A i \in P : list[i] \in Elems BY <1>1, <1>6 DEF m
<1>8. l \in Seq(Elems) /\ Len(l) = c /\ \A n \in 1..c : l[n] = list[at(n)]
  <2> HIDE DEF P
  <2> QED BY <1>2, <1>3, <1>4, <1>7
<1>9. IsList(l)
  <2> HIDE DEF P
  <2>1. ASSUME NEW a \in 1..c, NEW b \in 1..c, l[a] = l[b] PROVE a = b
    <3>1. at(a) = at(b) BY <1>1, <1>4, <1>6, <1>8, <2>1
    <3> QED BY <1>4, <3>1
  <2> QED BY <1>8, <2>1 DEF IsList
<1>10. Elements(l) = {l[n] : n \in 1..c} BY <1>8, <1>9, ListElements
<1>11. Elements(l) = Elements(list) \cap S
  <2>1. ASSUME NEW n \in 1..c PROVE l[n] \in Elements(list) \cap S
    BY <1>1, <1>4, <1>6, <1>8
  <2>2. ASSUME NEW i \in 1..m, list[i] \in S PROVE list[i] \in Elements(l)
    <3>1. i \in P BY <2>2
    <3>2. l[rank(i)] = list[i] /\ rank(i) \in 1..c BY <1>3, <1>5, <1>8, <3>1
    <3> QED BY <1>10, <3>2
  <2> QED BY <1>1, <1>10, <2>1, <2>2
<1> QED BY <1>9, <1>11 DEF l

----------------------------------------------------------------------------
\* Shape, made inductive.
ShapeInv == hctl \in Geometries /\ Shape

----------------------------------------------------------------------------
(* Segments and buckets *)

LEMMA Segment ==
  ASSUME NEW n \in Nat, NEW s \in Nat \ {0}
  PROVE  /\ n \div s \in Nat
         /\ s * (n \div s) <= n /\ n < s * (n \div s) + s
  OBVIOUS

\* A bucket is in the first k segments just if its segment is one of them.
LEMMA InSegments ==
  ASSUME NEW n \in Nat, NEW s \in Nat \ {0}, NEW k \in Nat
  PROVE  n \div s < k <=> n < k * s
<1> DEFINE d == n \div s
<1>1. d \in Nat /\ s * d <= n /\ n < s * d + s
  BY Segment
<1> HIDE DEF d
<1>2. CASE d < k
  <2>1. k - d - 1 \in Nat BY <1>1, <1>2
  <2>2. k * s = s * d + s + (k - d - 1) * s BY <1>1
  <2>3. (k - d - 1) * s \in Nat BY <2>1
  <2>4. n < k * s
    <3> DEFINE a == s * d  r == (k - d - 1) * s
    <3>1. a \in Int BY <1>1
    <3>2. n < a + s /\ k * s = a + s + r /\ r \in Nat BY <1>1, <2>2, <2>3
    <3> HIDE DEF a, r
    <3> QED BY <3>1, <3>2
  <2> QED BY <1>2, <2>4 DEF d
<1>3. CASE ~ (d < k)
  <2>1. d - k \in Nat BY <1>1, <1>3
  <2>2. s * d = k * s + (d - k) * s BY <1>1
  <2>3. (d - k) * s \in Nat BY <2>1
  <2>4. ~ (n < k * s)
    <3> DEFINE a == k * s  r == (d - k) * s
    <3>1. a \in Int /\ s * d = a + r /\ r \in Nat BY <2>2, <2>3
    <3>2. s * d <= n BY <1>1
    <3> HIDE DEF a, r
    <3>3. a + r <= n BY <3>1, <3>2
    <3>4. ~ (n < a) BY <3>1, <3>3
    <3> QED BY <3>4 DEF a
  <2> QED BY <1>3, <2>4 DEF d
<1> QED BY <1>2, <1>3

----------------------------------------------------------------------------
(* The geometry *)

LEMMA InitShape == Init => ShapeInv
<1> SUFFICES ASSUME Init PROVE ShapeInv OBVIOUS
<1> DEFINE n == nbuckets(conf)
           segs == nsegments(conf)
<1>1. /\ conf \in Configs /\ conf.dsize \in Nat
      /\ ssize \in Nat \ {0}
  BY HashTableAssumption DEF Init
<1>2. /\ n \in Nat /\ n >= 1
      /\ segs \in Nat /\ segs >= (n - 1) \div ssize + 1
  BY <1>1, RoundsUp
<1>3. hctl = [max_bucket |-> n - 1, low_mask |-> n - 1, high_mask |-> 2 * n - 1,
              nsegs |-> segs, dsize |-> IF segs > conf.dsize THEN segs ELSE conf.dsize]
  BY DEF Init, init_htab
<1> HIDE DEF n, segs
<1>4. n - 1 < segs * ssize
  <2>1. n - 1 \in Nat BY <1>2
  <2>2. (n - 1) \div ssize \in Nat BY <1>1, <2>1, Segment
  <2>3. (n - 1) \div ssize < segs BY <1>2, <2>2
  <2> QED BY <1>1, <1>2, <2>1, <2>3, InSegments
<1>5. hctl \in Geometries
  BY <1>1, <1>2, <1>3 DEF Geometries
<1>6. Shape
  BY <1>1, <1>2, <1>3, <1>4 DEF Shape
<1> QED BY <1>5, <1>6 DEF ShapeInv

\* What an expansion makes of the geometry, if it succeeds or stops half way.
LEMMA GrownShape ==
  ASSUME ShapeInv
  PROVE  /\ Grown(hctl) \in Geometries
         /\ LET h == Grown(hctl)
            IN  /\ h.max_bucket = hctl.max_bucket + 1
                /\ h.high_mask = 2 * h.low_mask + 1
                /\ h.low_mask <= h.max_bucket /\ h.max_bucket <= h.high_mask
                /\ h.max_bucket < h.nsegs * ssize
                /\ h.nsegs <= h.dsize
         /\ Grown(hctl).low_mask
              = IF hctl.max_bucket + 1 > hctl.high_mask THEN hctl.high_mask ELSE hctl.low_mask
         /\ Grown(hctl).high_mask
              = IF hctl.max_bucket + 1 > hctl.high_mask
                THEN hctl.max_bucket + 1 + hctl.high_mask ELSE hctl.high_mask
         /\ DoubledDir \in Geometries
         /\ DoubledDir = [hctl EXCEPT !.dsize = 2 * hctl.dsize]
<1> DEFINE new == hctl.max_bucket + 1
           crossed == new > hctl.high_mask
           h == Grown(hctl)
<1>1. /\ hctl \in Geometries /\ hctl.max_bucket \in Nat /\ hctl.low_mask \in Nat
      /\ hctl.high_mask \in Nat /\ hctl.nsegs \in Nat /\ hctl.dsize \in Nat
      /\ ssize \in Nat \ {0}
  BY HashTableAssumption DEF ShapeInv, Geometries
<1>2. /\ hctl.high_mask = 2 * hctl.low_mask + 1
      /\ hctl.low_mask <= hctl.max_bucket /\ hctl.max_bucket <= hctl.high_mask
      /\ hctl.max_bucket < hctl.nsegs * ssize
      /\ hctl.nsegs <= hctl.dsize
  BY DEF ShapeInv, Shape
<1>3. DoubledDir = [hctl EXCEPT !.dsize = 2 * hctl.dsize] /\ DoubledDir \in Geometries
  BY <1>1 DEF DoubledDir, Geometries
<1>4. h = [max_bucket |-> new,
           low_mask   |-> IF crossed THEN hctl.high_mask ELSE hctl.low_mask,
           high_mask  |-> IF crossed THEN new + hctl.high_mask ELSE hctl.high_mask,
           nsegs      |-> IF NeedsSegment THEN hctl.nsegs + 1 ELSE hctl.nsegs,
           dsize      |-> IF NeedsDirectory THEN 2 * hctl.dsize ELSE hctl.dsize]
  <2> DEFINE base == IF NeedsDirectory THEN DoubledDir ELSE hctl
  <2>1. base = [max_bucket |-> hctl.max_bucket, low_mask |-> hctl.low_mask,
                high_mask |-> hctl.high_mask, nsegs |-> hctl.nsegs,
                dsize |-> IF NeedsDirectory THEN 2 * hctl.dsize ELSE hctl.dsize]
    <3>1. hctl = [max_bucket |-> hctl.max_bucket, low_mask |-> hctl.low_mask,
                  high_mask |-> hctl.high_mask, nsegs |-> hctl.nsegs,
                  dsize |-> hctl.dsize]
      BY <1>1 DEF Geometries
    <3>2. CASE NeedsDirectory BY <1>3, <3>1, <3>2
    <3>3. CASE ~ NeedsDirectory BY <3>1, <3>3
    <3> QED BY <3>2, <3>3
  <2>2. h = [base EXCEPT !.max_bucket = new,
                         !.nsegs = IF NeedsSegment THEN @ + 1 ELSE @,
                         !.low_mask = IF crossed THEN hctl.high_mask ELSE @,
                         !.high_mask = IF crossed THEN new + hctl.high_mask ELSE @]
    BY DEF Grown, new_bucket
  <2> HIDE DEF base, h, crossed
  <2> QED BY <2>1, <2>2
<1>5. h \in Geometries
  BY <1>1, <1>4 DEF Geometries
<1>6. h.high_mask = 2 * h.low_mask + 1 /\ h.low_mask <= h.max_bucket /\ h.max_bucket <= h.high_mask
  <2> HIDE DEF h
  <2>1. CASE crossed
    <3>1. new = hctl.high_mask + 1 BY <1>1, <1>2, <2>1
    <3> QED BY <1>1, <1>4, <2>1, <3>1
  <2>2. CASE ~ crossed
    BY <1>1, <1>2, <1>4, <2>2
  <2> QED BY <2>1, <2>2
<1>7. h.max_bucket < h.nsegs * ssize
  <2>1. NeedsSegment <=> ~ (new < hctl.nsegs * ssize)
    <3>1. NeedsSegment <=> new \div ssize >= hctl.nsegs
      BY DEF NeedsSegment, new_bucket
    <3>2. new \in Nat /\ new \div ssize \in Nat BY <1>1, Segment
    <3>3. new \div ssize < hctl.nsegs <=> new < hctl.nsegs * ssize
      BY <1>1, <3>2, InSegments
    <3> QED BY <1>1, <3>1, <3>2, <3>3
  <2>2. CASE NeedsSegment
    <3>1. (hctl.nsegs + 1) * ssize = hctl.nsegs * ssize + ssize BY <1>1
    <3>2. h.max_bucket = new /\ h.nsegs = hctl.nsegs + 1 BY <1>4, <2>2
    <3>3. hctl.nsegs * ssize \in Nat BY <1>1
    <3>4. new < hctl.nsegs * ssize + ssize BY <1>1, <1>2, <3>3
    <3> QED BY <3>1, <3>2, <3>4
  <2>3. CASE ~ NeedsSegment
    BY <1>4, <2>1, <2>3
  <2> QED BY <2>2, <2>3
<1>8. h.nsegs <= h.dsize
  <2> HIDE DEF h
  <2>1. h.nsegs = IF NeedsSegment THEN hctl.nsegs + 1 ELSE hctl.nsegs BY <1>4
  <2>2. h.dsize = IF NeedsDirectory THEN 2 * hctl.dsize ELSE hctl.dsize BY <1>4
  <2>3. NeedsDirectory => NeedsSegment BY DEF NeedsDirectory
  <2>4. CASE ~ NeedsSegment BY <1>2, <2>1, <2>2, <2>3, <2>4
  <2>5. CASE NeedsSegment /\ NeedsDirectory
    <3>1. hctl.dsize >= 1
      <4>1. hctl.nsegs * ssize > 0 BY <1>1, <1>2
      <4>2. hctl.nsegs # 0 BY <1>1, <4>1
      <4> QED BY <1>1, <1>2, <4>2
    <3> QED BY <1>1, <1>2, <2>1, <2>2, <2>5, <3>1
  <2>6. CASE NeedsSegment /\ ~ NeedsDirectory
    <3>1. new \div ssize >= hctl.nsegs /\ new \div ssize < hctl.dsize
      <4>1. new \div ssize \in Nat BY <1>1, Segment
      <4> QED BY <1>1, <2>6, <4>1 DEF NeedsDirectory, NeedsSegment, new_bucket
    <3>2. new \div ssize \in Nat BY <1>1, Segment
    <3> QED BY <1>1, <2>1, <2>2, <2>6, <3>1, <3>2
  <2> QED BY <2>4, <2>5, <2>6
<1>9. /\ h.max_bucket = hctl.max_bucket + 1
      /\ h.low_mask = IF crossed THEN hctl.high_mask ELSE hctl.low_mask
      /\ h.high_mask = IF crossed THEN new + hctl.high_mask ELSE hctl.high_mask
  BY <1>4
<1> QED BY <1>3, <1>5, <1>6, <1>7, <1>8, <1>9

LEMMA ExpandShape ==
  ASSUME ShapeInv, NEW list, NEW keys, expand_table(list, keys)
  PROVE  ShapeInv'
<1>1. CASE hctl' = hctl
  BY <1>1 DEF ShapeInv, Shape
<1>2. CASE hctl' = DoubledDir
  <2>1. /\ hctl' \in Geometries
        /\ hctl' = [hctl EXCEPT !.dsize = 2 * hctl.dsize]
    BY <1>2, GrownShape
  <2>2. hctl \in Geometries /\ hctl.dsize \in Nat /\ Shape
    BY DEF ShapeInv, Geometries
  <2>3. /\ hctl'.max_bucket = hctl.max_bucket /\ hctl'.low_mask = hctl.low_mask
        /\ hctl'.high_mask = hctl.high_mask /\ hctl'.nsegs = hctl.nsegs
        /\ hctl'.dsize = 2 * hctl.dsize
    BY <2>1, <2>2 DEF Geometries
  <2>4. hctl.nsegs <= hctl.dsize /\ hctl.nsegs \in Nat
    BY <2>2 DEF Shape, Geometries
  <2>5. hctl'.nsegs <= hctl'.dsize
    BY <2>2, <2>3, <2>4
  <2> QED BY <2>1, <2>2, <2>3, <2>5 DEF ShapeInv, Shape
<1>3. CASE hctl' = Grown(hctl)
  BY <1>3, GrownShape DEF ShapeInv, Shape
<1> QED BY <1>1, <1>2, <1>3 DEF expand_table

LEMMA NextShape == ShapeInv /\ [Next]_vars => ShapeInv'
<1> SUFFICES ASSUME ShapeInv, [Next]_vars PROVE ShapeInv' OBVIOUS
<1>1. CASE UNCHANGED hctl
  BY <1>1 DEF ShapeInv, Shape
<1>2. ASSUME NEW k \in Keys, HASH_ENTER(k) PROVE ShapeInv'
  <2>1. CASE UNCHANGED hctl BY <1>1, <2>1
  <2>2. CASE \E list, keys : expand_table(list, keys)
    BY <2>2, ExpandShape
  <2> QED BY <1>2, <2>1, <2>2 DEF HASH_ENTER
<1> QED
  BY <1>1, <1>2
  DEF Next, vars, store, tracking, HASH_REMOVE, HASH_ENTER_fails, hash_seq_init,
      hash_seq_search, EndOfScan, hash_seq_term, hash_freeze, AtEOXact_HashTables

\* The masks enclose the buckets and the directory has their segments, for
\* every configuration and however often an expansion fails (expand_table).
THEOREM ShapeHolds == Spec => []Shape
<1>1. ShapeInv => Shape BY DEF ShapeInv
<1> QED BY InitShape, NextShape, <1>1, PTL DEF Spec

----------------------------------------------------------------------------
(* Splitting one bucket *)

LEMMA Remainder ==
  ASSUME NEW n \in Nat, NEW b \in Nat \ {0}
  PROVE  n % b \in Nat /\ n % b < b /\ n = b * (n \div b) + (n % b) /\ n \div b \in Nat
  BY SMTT(30)

LEMMA RemainderUnique ==
  ASSUME NEW n \in Nat, NEW b \in Nat \ {0}, NEW k \in Nat, NEW r \in Nat,
         r < b, n = b * k + r
  PROVE  n % b = r
  BY SMTT(30)

LEMMA SmallRemainder ==
  ASSUME NEW n \in Nat, NEW b \in Nat, n < b
  PROVE  n % b = n
  OBVIOUS

LEMMA Multiples ==
  ASSUME NEW b \in Nat \ {0}
  PROVE  b % b = 0 /\ (2 * b) % b = 0
<1>1. b = b * 1 + 0 /\ 2 * b = b * 2 + 0 /\ 2 * b \in Nat OBVIOUS
<1>2. b % b = 0 BY <1>1, RemainderUnique
<1>3. (2 * b) % b = 0 BY <1>1, RemainderUnique
<1> QED BY <1>2, <1>3

\* A mask with one bit more keeps the lower bits.
LEMMA LowerBits ==
  ASSUME NEW n \in Nat, NEW b \in Nat \ {0}
  PROVE  (n % (2 * b)) % b = n % b
<1> DEFINE u == n \div (2 * b)
           r == n % (2 * b)
           w == r \div b
           t == r % b
<1>1. 2 * b \in Nat \ {0} OBVIOUS
<1>2. r \in Nat /\ n = (2 * b) * u + r /\ u \in Nat
  BY <1>1, Remainder
<1>3. t \in Nat /\ t < b /\ r = b * w + t /\ w \in Nat
  <2> HIDE DEF r
  <2> QED BY <1>2, Remainder
<1> HIDE DEF u, r, w, t
<1>4. n = b * (2 * u + w) + t /\ 2 * u + w \in Nat
  <2>1. b * (2 * u + w) = (2 * b) * u + b * w BY <1>2, <1>3
  <2>2. (2 * b) * u \in Int /\ b * w \in Int BY <1>2, <1>3
  <2> QED BY <1>2, <1>3, <2>1, <2>2
<1>5. n % b = t BY <1>3, <1>4, RemainderUnique
<1> QED BY <1>5 DEF r, t

\* "Only one old bucket can need to be split" (dynahash.c:1300): with one
\* bucket more, a key stays in its bucket unless that is the one whose number
\* expand_table masks out, and then it stays or goes to the new bucket.
THEOREM OneBucketSplits ==
  ASSUME ShapeInv, NEW v \in Nat
  PROVE  LET old == new_bucket % (hctl.low_mask + 1)
         IN  \/ calc_bucket(Grown(hctl), v) = calc_bucket(hctl, v)
             \/ calc_bucket(hctl, v) = old /\ calc_bucket(Grown(hctl), v) = new_bucket
<1> DEFINE low == hctl.low_mask + 1
           high == hctl.high_mask + 1
           new == hctl.max_bucket + 1
           h == Grown(hctl)
<1>1. /\ low \in Nat \ {0} /\ high = 2 * low /\ hctl.max_bucket \in Nat
      /\ hctl.high_mask \in Nat /\ hctl.low_mask \in Nat
      /\ low <= new /\ new <= high
  BY DEF ShapeInv, Shape, Geometries
<1>2. /\ h.max_bucket = new
      /\ h.low_mask = IF new > hctl.high_mask THEN hctl.high_mask ELSE hctl.low_mask
      /\ h.high_mask = IF new > hctl.high_mask THEN new + hctl.high_mask ELSE hctl.high_mask
  BY GrownShape
<1> HIDE DEF h
<1>3. calc_bucket(hctl, v) = IF v % high > hctl.max_bucket THEN (v % high) % low ELSE v % high
  BY DEF calc_bucket
<1>4. v % high \in Nat /\ v % high < high
  <2>1. high \in Nat \ {0} BY <1>1
  <2> HIDE DEF high
  <2> QED BY <2>1, Remainder
<1>5. CASE new <= hctl.high_mask
  <2>1. h.low_mask + 1 = low /\ h.high_mask + 1 = high
    BY <1>1, <1>2, <1>5
  <2>2. calc_bucket(h, v) = IF v % high > new THEN (v % high) % low ELSE v % high
    BY <1>2, <2>1 DEF calc_bucket
  <2> HIDE DEF low, high
  <2> QED BY <1>1, <1>3, <1>4, <2>2 DEF new_bucket, low, h
<1>6. CASE new > hctl.high_mask
  <2>1. new = high /\ h.low_mask + 1 = high /\ h.high_mask + 1 = 2 * high
    BY <1>1, <1>2, <1>6
  <2>2. calc_bucket(h, v) = IF v % (2 * high) > high THEN (v % (2 * high)) % high
                            ELSE v % (2 * high)
    BY <1>2, <2>1 DEF calc_bucket
  <2>3. calc_bucket(hctl, v) = v % high
    BY <1>1, <1>3, <1>4, <2>1
  <2>h. high \in Nat \ {0} /\ 2 * high \in Nat \ {0} BY <1>1
  <2> HIDE DEF high
  <2>4. (v % (2 * high)) % high = v % high
    BY <2>h, LowerBits
  <2>5. v % (2 * high) \in Nat
    BY <2>h, Remainder
  <2>6. CASE v % (2 * high) > high
    BY <2>2, <2>3, <2>4, <2>6 DEF h
  <2>7. CASE v % (2 * high) < high
    <3>1. (v % (2 * high)) % high = v % (2 * high) BY <1>1, <2>5, <2>7, SmallRemainder
    <3> QED BY <2>2, <2>3, <2>4, <2>5, <2>7, <3>1 DEF h
  <2>8. CASE v % (2 * high) = high
    <3>1. high % high = 0 /\ high % low = 0 BY <1>1, Multiples
    <3> QED BY <2>1, <2>2, <2>3, <2>4, <2>8, <3>1 DEF h, new_bucket, low
  <2>9. \/ v % (2 * high) > high \/ v % (2 * high) < high
        \/ v % (2 * high) = high
    BY <2>h, <2>5
  <2> QED BY <2>6, <2>7, <2>8, <2>9
<1> QED BY <1>1, <1>5, <1>6

----------------------------------------------------------------------------
(* Scans *)

Counted == {s \in Scans : Open(s) /\ scan[s].registers}

\* As much of the types of scan and visit as the count depends on.
Position(p) == p = [bucket |-> p.bucket, entry |-> p.entry, registers |-> p.registers]
Record(v) == v = [state |-> v.state, seen |-> v.seen, due |-> v.due, last |-> v.last]
AreScans(f) == f = [s \in Scans |-> f[s]] /\ \A s \in Scans : Position(f[s])
AreVisits(f) == f = [s \in Scans |-> f[s]] /\ \A s \in Scans : Record(f[s])

\* Guarded, made inductive: until the table is frozen every scan registers.
GuardedInv ==
  /\ registered \in Nat /\ frozen \in BOOLEAN
  /\ AreScans(scan)
  /\ AreVisits(visit)
  /\ Guarded
  /\ ~ frozen => \A s \in Scans : Open(s) => scan[s].registers

LEMMA CountedFinite ==
  /\ IsFiniteSet(Counted)
  /\ \A T \in SUBSET Counted : IsFiniteSet(T) /\ Cardinality(T) <= Cardinality(Counted)
<1>1. Counted \in SUBSET Scans BY DEF Counted
<1>2. IsFiniteSet(Counted) BY <1>1, HashTableAssumption, FS_Subset
<1> QED BY <1>2, FS_Subset

\* No new scan, and the counter left alone.
LEMMA FewerScans ==
  ASSUME GuardedInv, Counted' \subseteq Counted, registered' = registered
  PROVE  Cardinality(Counted') <= registered'
<1>1. Cardinality(Counted') <= Cardinality(Counted) /\ IsFiniteSet(Counted')
  BY CountedFinite
<1>2. Cardinality(Counted) \in Nat /\ Cardinality(Counted') \in Nat
  BY <1>1, CountedFinite, FS_CardinalityType
<1>3. Cardinality(Counted) <= registered /\ registered \in Nat
  BY DEF GuardedInv, Guarded, Counted
<1> QED BY <1>1, <1>2, <1>3

LEMMA InitGuarded == Init => GuardedInv
<1> SUFFICES ASSUME Init PROVE GuardedInv OBVIOUS
<1>1. \A s \in Scans : visit[s] = Closed /\ ~ Open(s)
  BY DEF Init, Open, Closed
<1>2. Counted = {} BY <1>1 DEF Counted
<1>3. Cardinality(Counted) = 0 BY <1>2, FS_EmptySet
<1>4. registered = 0 /\ frozen = FALSE BY DEF Init
<1>5. Guarded BY <1>3, <1>4 DEF Guarded, Counted
<1>6. AreScans(scan)
  BY DEF Init, Idle, AreScans, Position
<1>7. AreVisits(visit)
  BY DEF Init, Closed, AreVisits, Record
<1> QED BY <1>1, <1>4, <1>5, <1>6, <1>7 DEF GuardedInv

\* A scan that ends is counted no longer.
LEMMA TermGuarded ==
  ASSUME GuardedInv, NEW s \in Scans, ~ halted, Open(s), Term(s),
         AreVisits(visit'), ~ Open(s)',
         \A x \in Scans \ {s} : visit'[x] = visit[x], UNCHANGED frozen
  PROVE  GuardedInv'
<1>1. /\ registered \in Nat /\ frozen \in BOOLEAN /\ AreScans(scan)
      /\ Cardinality(Counted) <= registered
      /\ ~ frozen => \A x \in Scans : Open(x) => scan[x].registers
  BY DEF GuardedInv, Guarded, Counted
<1>2. scan' = [scan EXCEPT ![s] = Idle] /\ Position(Idle)
  BY DEF Term, Idle, Position
<1>3. AreScans(scan') /\ \A x \in Scans \ {s} : scan'[x] = scan[x]
  BY <1>1, <1>2 DEF AreScans
<1>4. Counted' = Counted \ {s}
  BY <1>3 DEF Counted, Open
<1>5. IsFiniteSet(Counted) /\ Cardinality(Counted) \in Nat
  BY CountedFinite, FS_CardinalityType
<1>6. Cardinality(Counted') = IF s \in Counted THEN Cardinality(Counted) - 1
                              ELSE Cardinality(Counted)
  BY <1>4, <1>5, FS_RemoveElement
<1>7. registered' \in Nat /\ Cardinality(Counted') <= registered'
  <2>1. CASE ~ frozen /\ registered > 0
    <3>1. s \in Counted BY <1>1, <2>1 DEF Counted
    <3>2. registered' = registered - 1 BY <2>1 DEF Term
    <3>3. Cardinality(Counted') = Cardinality(Counted) - 1 BY <1>6, <3>1
    <3> QED BY <1>1, <1>5, <2>1, <3>2, <3>3
  <2>2. CASE ~ (~ frozen /\ registered > 0)
    <3>1. registered' = registered BY <2>2 DEF Term
    <3>2. Cardinality(Counted') <= Cardinality(Counted) /\ Cardinality(Counted') \in Int
      BY <1>5, <1>6
    <3> QED BY <1>1, <1>5, <3>1, <3>2
  <2> QED BY <2>1, <2>2
<1>8. Guarded' BY <1>7 DEF Guarded, Counted
<1>9. ~ frozen' => \A x \in Scans : Open(x)' => scan'[x].registers
  BY <1>1, <1>3 DEF Open
<1> QED BY <1>1, <1>3, <1>7, <1>8, <1>9 DEF GuardedInv

\* Nothing a user does to the entries opens or closes a scan.
LEMMA KeptGuarded ==
  ASSUME GuardedInv, UNCHANGED <<registered, scan>>, frozen' \in BOOLEAN,
         frozen => frozen', AreVisits(visit'),
         \A s \in Scans : Open(s)' <=> Open(s)
  PROVE  GuardedInv'
<1>1. Counted' = Counted BY DEF Counted
<1>2. Cardinality(Counted') <= registered' BY <1>1, FewerScans
<1>3. Guarded' BY <1>2 DEF Guarded, Counted
<1> QED BY <1>3 DEF GuardedInv

LEMMA Moved ==
  ASSUME NEW p, Position(p), NEW b, NEW e
  PROVE  /\ Position([p EXCEPT !.entry = e, !.bucket = b])
         /\ [p EXCEPT !.entry = e, !.bucket = b].registers = p.registers
<1> DEFINE A == {p.bucket}  B == {p.entry}  C == {p.registers}
           q == [p EXCEPT !.entry = e, !.bucket = b]
<1>1. p \in [bucket : A, entry : B, registers : C]
  BY DEF Position
<1> HIDE DEF A, B, C
<1>2. q \in [bucket : A \cup {b}, entry : B \cup {e}, registers : C]
  BY <1>1
<1>3. q.registers = p.registers
  BY <1>1
<1> HIDE DEF q
<1>4. Position(q) BY <1>2 DEF Position
<1> QED BY <1>3, <1>4 DEF q

LEMMA Visited ==
  ASSUME NEW v, Record(v), NEW k
  PROVE  LET seen == [v EXCEPT !.seen = @ \cup {k}, !.due = @ \ {k}, !.last = k]
         IN  Record(seen) /\ seen.state = v.state
<1> DEFINE A == {v.state}  B == {v.seen}  C == {v.due}  D == {v.last}
           x == v.seen \cup {k}
           y == v.due \ {k}
           seen == [v EXCEPT !.seen = x, !.due = y, !.last = k]
<1>1. v \in [state : A, seen : B, due : C, last : D]
  BY DEF Record
<1> HIDE DEF A, B, C, D, x, y
<1>2. seen \in [state : A, seen : B \cup {x}, due : C \cup {y}, last : D \cup {k}]
  BY <1>1
<1>3. seen.state = v.state
  BY <1>1
<1> HIDE DEF seen
<1>4. Record(seen) BY <1>2 DEF Record
<1> QED BY <1>3, <1>4 DEF seen, x, y

LEMMA NextGuarded == GuardedInv /\ [Next]_vars => GuardedInv'
<1> SUFFICES ASSUME GuardedInv, [Next]_vars PROVE GuardedInv' OBVIOUS
<1>0. /\ registered \in Nat /\ frozen \in BOOLEAN /\ AreScans(scan)
      /\ AreVisits(visit) /\ Cardinality(Counted) <= registered
      /\ ~ frozen => \A x \in Scans : Open(x) => scan[x].registers
  BY DEF GuardedInv, Guarded, Counted
<1>u. Unsure = [state |-> "unsure", seen |-> {}, due |-> {}, last |-> NIL] /\ Record(Unsure)
  BY DEF Unsure, Closed, Record
<1>c. Record(Closed) /\ Closed.state = "closed"
  BY DEF Closed, Record
<1>1. CASE UNCHANGED vars
  BY <1>0, <1>1, KeptGuarded DEF vars, Open
<1>2. ASSUME NEW k \in Keys, HASH_REMOVE(k) PROVE GuardedInv'
  <2>1. visit' = Unsettled(k) BY <1>2 DEF HASH_REMOVE
  <2>2. AreVisits(visit') BY <1>0, <1>u, <2>1 DEF Unsettled, AreVisits
  <2>3. \A s \in Scans : Open(s)' <=> Open(s)
    BY <1>u, <2>1 DEF Unsettled, Open
  <2> QED BY <1>0, <1>2, <2>2, <2>3, KeptGuarded DEF HASH_REMOVE
<1>3. ASSUME NEW k \in Keys, HASH_ENTER(k) PROVE GuardedInv'
  <2>1. visit' = Joined(k) BY <1>3 DEF HASH_ENTER
  <2>2. ASSUME NEW s \in Scans
        PROVE  Record(visit'[s]) /\ (visit'[s].state # "closed" <=> visit[s].state # "closed")
    <3>1. Record(visit[s]) BY <1>0 DEF AreVisits
    <3>2. CASE visit[s].state # "sure" BY <2>1, <3>1, <3>2 DEF Joined
    <3>3. CASE visit[s].state = "sure" /\ frozen BY <1>u, <2>1, <3>3 DEF Joined
    <3>4. CASE visit[s].state = "sure" /\ ~ frozen
      <4>1. visit'[s] = [visit[s] EXCEPT !.seen = @ \ {k}] BY <2>1, <3>4 DEF Joined
      <4> QED BY <3>1, <4>1 DEF Record
    <3> QED BY <3>2, <3>3, <3>4
  <2>3. AreVisits(visit') BY <2>1, <2>2 DEF Joined, AreVisits
  <2>4. \A s \in Scans : Open(s)' <=> Open(s) BY <2>2 DEF Open
  <2> QED BY <1>0, <1>3, <2>3, <2>4, KeptGuarded DEF HASH_ENTER
<1>4. ASSUME NEW k \in Keys, HASH_ENTER_fails(k) PROVE GuardedInv'
  BY <1>0, <1>4, KeptGuarded DEF HASH_ENTER_fails, tracking, Open
<1>5. ASSUME NEW s \in Scans, hash_seq_init(s) PROVE GuardedInv'
  <2>1. /\ ~ Open(s) /\ UNCHANGED frozen
        /\ registered' = IF frozen THEN registered ELSE registered + 1
    BY <1>5 DEF hash_seq_init
  <2> DEFINE start == [bucket |-> 0, entry |-> NIL, registers |-> ~ frozen]
             begun == [state |-> "sure", seen |-> {},
                       due |-> Keys \cap {key[e] : e \in Elems}, last |-> NIL]
  <2>2. Position(start) /\ Record(begun)
    BY DEF Position, Record
  <2>3. scan' = [scan EXCEPT ![s] = start] /\ visit' = [visit EXCEPT ![s] = begun]
    BY <1>5 DEF hash_seq_init
  <2>4. /\ AreScans(scan') /\ AreVisits(visit')
        /\ scan'[s] = start /\ visit'[s] = begun
        /\ \A x \in Scans \ {s} : scan'[x] = scan[x] /\ visit'[x] = visit[x]
    <3> HIDE DEF start, begun
    <3> QED BY <1>0, <2>2, <2>3 DEF AreScans, AreVisits
  <2>r. scan'[s].registers = ~ frozen BY <2>4
  <2>5. Counted' = IF frozen THEN Counted ELSE Counted \cup {s}
    <3>0. Open(s)' BY <2>4 DEF Open
    <3>1. Open(s)' /\ (scan'[s].registers <=> ~ frozen) BY <2>r, <3>0, Zenon
    <3>2. \A x \in Scans \ {s} : x \in Counted' <=> x \in Counted
      BY <2>4 DEF Counted, Open
    <3>3. s \in Counted' <=> ~ frozen BY <3>1 DEF Counted
    <3>4. s \notin Counted BY <2>1 DEF Counted
    <3>5. Counted \subseteq Scans /\ Counted' \subseteq Scans BY DEF Counted
    <3> QED BY <3>2, <3>3, <3>4, <3>5
  <2>6. IsFiniteSet(Counted) /\ Cardinality(Counted) \in Nat
    BY CountedFinite, FS_CardinalityType
  <2>7. registered' \in Nat /\ Cardinality(Counted') <= registered'
    <3>1. CASE frozen BY <1>0, <2>1, <2>5, <3>1
    <3>2. CASE ~ frozen
      <4>1. Cardinality(Counted') <= Cardinality(Counted) + 1
        BY <2>5, <2>6, <3>2, FS_AddElement
      <4>2. Cardinality(Counted') \in Nat
        <5>1. IsFiniteSet(Counted') BY <2>5, <2>6, <3>2, FS_AddElement
        <5> QED BY <5>1, FS_CardinalityType
      <4> QED BY <1>0, <2>1, <2>6, <3>2, <4>1, <4>2
    <3> QED BY <1>0, <3>1, <3>2
  <2>8. Guarded' BY <2>7 DEF Guarded, Counted
  <2>9. ~ frozen' => \A x \in Scans : Open(x)' => scan'[x].registers
    <3>1. ~ frozen' => scan'[s].registers BY <2>1, <2>r, Zenon
    <3>2. ~ frozen' => \A x \in Scans \ {s} : Open(x)' => scan'[x].registers
      BY <1>0, <2>1, <2>4 DEF Open
    <3> QED BY <3>1, <3>2
  <2> QED BY <1>0, <2>1, <2>4, <2>7, <2>8, <2>9 DEF GuardedInv
<1>6. ASSUME NEW s \in Scans, hash_seq_term(s) PROVE GuardedInv'
  <2>1. visit' = [visit EXCEPT ![s] = Closed] BY <1>6 DEF hash_seq_term
  <2>2. /\ AreVisits(visit') /\ visit'[s] = Closed
        /\ \A x \in Scans \ {s} : visit'[x] = visit[x]
    BY <1>0, <1>c, <2>1 DEF AreVisits
  <2>3. ~ Open(s)' BY <1>c, <2>2 DEF Open
  <2> QED BY <1>6, <2>2, <2>3, TermGuarded DEF hash_seq_term
<1>7. ASSUME NEW s \in Scans, EndOfScan(s) PROVE GuardedInv'
  <2> DEFINE ended == [Closed EXCEPT !.due = visit[s].due]
  <2>1. visit' = [visit EXCEPT ![s] = ended] BY <1>7 DEF EndOfScan
  <2>2. Record(ended) /\ ended.state = "closed"
    BY DEF Closed, Record
  <2>3. /\ AreVisits(visit') /\ visit'[s] = ended
        /\ \A x \in Scans \ {s} : visit'[x] = visit[x]
    <3> HIDE DEF ended
    <3> QED BY <1>0, <2>1, <2>2 DEF AreVisits
  <2>4. ~ Open(s)' BY <2>2, <2>3 DEF Open
  <2> QED BY <1>7, <2>3, <2>4, TermGuarded DEF EndOfScan
<1>8. ASSUME NEW s \in Scans, hash_seq_search(s) PROVE GuardedInv'
  <2>1. /\ scan' = [scan EXCEPT ![s] = Passed(s)]
        /\ UNCHANGED <<registered, frozen>>
    BY <1>8 DEF hash_seq_search
  <2>2. Position(Passed(s)) /\ Passed(s).registers = scan[s].registers
    <3>1. Position(scan[s]) BY <1>0 DEF AreScans
    <3>2. PICK b, e : Passed(s) = [scan[s] EXCEPT !.entry = e, !.bucket = b]
      BY DEF Passed
    <3> DEFINE q == [scan[s] EXCEPT !.entry = e, !.bucket = b]
    <3>3. Position(q) /\ q.registers = scan[s].registers
      <4> DEFINE p == scan[s]
      <4>1. Position(p) BY <3>1
      <4> HIDE DEF p
      <4>2. /\ Position([p EXCEPT !.entry = e, !.bucket = b])
            /\ [p EXCEPT !.entry = e, !.bucket = b].registers = p.registers
        BY <4>1, Moved
      <4> QED BY <4>2 DEF p
    <3>4. Passed(s) = q BY <3>2
    <3> HIDE DEF q
    <3> QED BY <3>3, <3>4
  <2>3. AreScans(scan') /\ \A x \in Scans : scan'[x].registers = scan[x].registers
    BY <1>0, <2>1, <2>2 DEF AreScans
  <2> DEFINE k == key[At(s)]
             seen == [visit[s] EXCEPT !.seen = @ \cup {k}, !.due = @ \ {k}, !.last = k]
  <2>4. Record(seen) /\ seen.state = visit[s].state
    <3>1. Record(visit[s]) BY <1>0 DEF AreVisits
    <3> HIDE DEF k
    <3> QED BY <3>1, Visited
  <2>5. visit' = visit \/ visit' = [visit EXCEPT ![s] = seen]
    BY <1>8 DEF hash_seq_search
  <2>6. AreVisits(visit') /\ \A x \in Scans : visit'[x].state = visit[x].state
    <3> HIDE DEF seen
    <3> QED BY <1>0, <2>4, <2>5 DEF AreVisits
  <2>7. Counted' = Counted BY <2>3, <2>6 DEF Counted, Open
  <2>8. Cardinality(Counted') <= registered' BY <2>1, <2>7, FewerScans
  <2>9. Guarded' BY <2>8 DEF Guarded, Counted
  <2>10. ~ frozen' => \A x \in Scans : Open(x)' => scan'[x].registers
    BY <1>0, <2>1, <2>3, <2>6 DEF Open
  <2> QED BY <1>0, <2>1, <2>3, <2>6, <2>9, <2>10 DEF GuardedInv
<1>9. CASE hash_freeze
  BY <1>0, <1>9, KeptGuarded DEF hash_freeze, Open
<1>10. CASE AtEOXact_HashTables
  <2>1. /\ registered' = 0 /\ UNCHANGED frozen
        /\ scan' = [s \in Scans |-> Idle] /\ visit' = [s \in Scans |-> Closed]
    BY <1>10 DEF AtEOXact_HashTables
  <2>2. \A s \in Scans : ~ Open(s)' BY <1>c, <2>1 DEF Open
  <2>3. Counted' = {} BY <2>2 DEF Counted
  <2>4. Cardinality(Counted') = 0 BY <2>3, FS_EmptySet
  <2>5. Guarded' BY <2>1, <2>4 DEF Guarded, Counted
  <2>6. AreScans(scan') /\ AreVisits(visit')
    BY <1>c, <2>1 DEF AreScans, AreVisits, Idle, Position
  <2> QED BY <1>0, <2>1, <2>2, <2>5, <2>6 DEF GuardedInv
<1> QED
  BY <1>1, <1>2, <1>3, <1>4, <1>5, <1>6, <1>7, <1>8, <1>9, <1>10 DEF Next

\* A scan that registered stays counted while it is open, for any number of
\* scans, whatever ends, is frozen or fails meanwhile (deregister_seq_scan).
THEOREM GuardedHolds == Spec => []Guarded
<1>1. GuardedInv => Guarded BY DEF GuardedInv
<1> QED BY InitGuarded, NextGuarded, <1>1, PTL DEF Spec

----------------------------------------------------------------------------
(* Chains *)

\* Chains of elements that hold keys of the chain's bucket.
Chained(h, ch, ky) ==
  /\ ch = [b \in Buckets(h) |-> ch[b]]
  /\ \A b \in Buckets(h) : IsList(ch[b])
  /\ \A b \in Buckets(h) : \A e \in Elements(ch[b]) :
        ky[e] \in Keys /\ calc_bucket(h, hash[ky[e]]) = b

Stored(h, ch) == UNION {Elements(ch[b]) : b \in Buckets(h)}

LEMMA InStore ==
  ASSUME NEW h, NEW ch, NEW e
  PROVE  e \in Stored(h, ch) <=> \E b \in Buckets(h) : e \in Elements(ch[b])
BY DEF Stored

LEMMA ShapeNumbers ==
  ASSUME ShapeInv
  PROVE  /\ hctl.max_bucket \in Nat /\ hctl.low_mask \in Nat /\ hctl.high_mask \in Nat
         /\ hctl.high_mask = 2 * hctl.low_mask + 1
         /\ hctl.low_mask <= hctl.max_bucket /\ hctl.max_bucket <= hctl.high_mask
BY DEF ShapeInv, Shape, Geometries

LEMMA BucketInRange ==
  ASSUME ShapeInv, NEW v \in Nat
  PROVE  calc_bucket(hctl, v) \in Buckets(hctl)
<1> DEFINE high == hctl.high_mask + 1
           low == hctl.low_mask + 1
<1>1. high \in Nat \ {0} /\ low \in Nat \ {0} /\ low - 1 <= hctl.max_bucket
      /\ hctl.max_bucket \in Nat
  BY ShapeNumbers
<1>2. calc_bucket(hctl, v) = IF v % high > hctl.max_bucket THEN (v % high) % low ELSE v % high
  BY DEF calc_bucket
<1> HIDE DEF high, low
<1>3. v % high \in Nat BY <1>1, Remainder
<1>4. (v % high) % low \in Nat /\ (v % high) % low < low BY <1>1, <1>3, Remainder
<1> QED BY <1>1, <1>2, <1>3, <1>4 DEF Buckets

\* The bucket to be split is there and the one it is split into is not.
LEMMA OldBucket ==
  ASSUME ShapeInv
  PROVE  /\ new_bucket % (hctl.low_mask + 1) \in Buckets(hctl)
         /\ new_bucket \notin Buckets(hctl)
         /\ Buckets(Grown(hctl)) = Buckets(hctl) \cup {new_bucket}
<1> DEFINE low == hctl.low_mask + 1
<1>1. /\ low \in Nat \ {0} /\ low - 1 <= hctl.max_bucket /\ hctl.max_bucket \in Nat
      /\ new_bucket \in Nat /\ new_bucket = hctl.max_bucket + 1
  BY ShapeNumbers DEF new_bucket
<1>2. Grown(hctl).max_bucket = hctl.max_bucket + 1 BY GrownShape
<1>3. Buckets(Grown(hctl)) = Buckets(hctl) \cup {new_bucket}
  BY <1>1, <1>2 DEF Buckets
<1> HIDE DEF low
<1>4. new_bucket % low \in Nat /\ new_bucket % low < low BY <1>1, Remainder
<1>5. new_bucket % low \in Buckets(hctl) /\ new_bucket \notin Buckets(hctl)
  BY <1>1, <1>4 DEF Buckets
<1> QED BY <1>3, <1>5 DEF low

\* A doubled directory changes no bucket.
LEMMA DoubledSame ==
  ASSUME ShapeInv
  PROVE  /\ Buckets(DoubledDir) = Buckets(hctl)
         /\ \A v : calc_bucket(DoubledDir, v) = calc_bucket(hctl, v)
<1>1. hctl \in Geometries /\ DoubledDir = [hctl EXCEPT !.dsize = 2 * hctl.dsize]
  BY GrownShape DEF ShapeInv
<1>2. /\ DoubledDir.max_bucket = hctl.max_bucket /\ DoubledDir.low_mask = hctl.low_mask
      /\ DoubledDir.high_mask = hctl.high_mask
  BY <1>1 DEF Geometries
<1> QED BY <1>2 DEF Buckets, calc_bucket

\* Linking an element into the bucket of its key.
LEMMA AddChained ==
  ASSUME ShapeInv, NEW ch, NEW ky \in [Elems -> Keys \cup {NIL}], Chained(hctl, ch, ky),
         NEW k \in Keys, NEW e \in Elems, e \notin Stored(hctl, ch)
  PROVE  LET b == calc_bucket(hctl, hash[k])
             linked == [ch EXCEPT ![b] = Append(@, e)]
         IN  /\ b \in Buckets(hctl)
             /\ linked[b] = Append(ch[b], e)
             /\ \A c \in Buckets(hctl) \ {b} : linked[c] = ch[c]
             /\ Chained(hctl, linked, [ky EXCEPT ![e] = k])
             /\ Stored(hctl, linked) = Stored(hctl, ch) \cup {e}
<1> DEFINE B == Buckets(hctl)
           b == calc_bucket(hctl, hash[k])
           linked == [ch EXCEPT ![b] = Append(@, e)]
           keys == [ky EXCEPT ![e] = k]
<1>1. hash[k] \in Nat BY HashTableAssumption
<1>2. b \in B BY <1>1, BucketInRange
<1>3. /\ ch = [c \in B |-> ch[c]]
      /\ \A c \in B : IsList(ch[c])
      /\ \A c \in B : \A x \in Elements(ch[c]) : ky[x] \in Keys /\ calc_bucket(hctl, hash[ky[x]]) = c
  BY DEF Chained
<1>b. b = calc_bucket(hctl, hash[k]) OBVIOUS
<1>k. keys[e] = k /\ \A x \in Elems \ {e} : keys[x] = ky[x] OBVIOUS
<1>e. \A c \in B : e \notin Elements(ch[c]) BY InStore
<1> HIDE DEF b, B, keys
<1>4. /\ linked = [c \in B |-> linked[c]] /\ linked[b] = Append(ch[b], e)
      /\ \A c \in B \ {b} : linked[c] = ch[c]
  BY <1>2, <1>3
<1> HIDE DEF linked
<1>5. IsList(linked[b]) /\ Elements(linked[b]) = Elements(ch[b]) \cup {e}
  <2> DEFINE l == ch[b]
  <2>1. IsList(l) /\ e \notin Elements(l) BY <1>2, <1>3, <1>e
  <2> HIDE DEF l
  <2>2. IsList(Append(l, e)) /\ Elements(Append(l, e)) = Elements(l) \cup {e}
    BY <2>1, AppendList
  <2> QED BY <1>4, <2>2 DEF l
<1>6. \A c \in B : IsList(linked[c])
  BY <1>3, <1>4, <1>5
<1>7. ASSUME NEW c \in B, NEW x \in Elements(linked[c])
      PROVE  keys[x] \in Keys /\ calc_bucket(hctl, hash[keys[x]]) = c
  <2>1. CASE x = e
    <3>1. c = b BY <1>4, <1>e, <2>1
    <3>2. keys[x] = k BY <1>k, <2>1
    <3>3. calc_bucket(hctl, hash[keys[x]]) = b BY <1>b, <3>2
    <3> QED BY <3>1, <3>2, <3>3
  <2>2. CASE x # e
    <3>1. x \in Elements(ch[c]) BY <1>4, <1>5, <2>2
    <3>2. x \in Elems BY <1>3, <3>1, ListElements
    <3> QED BY <1>3, <1>k, <2>2, <3>1, <3>2
  <2> QED BY <2>1, <2>2
<1>8. Chained(hctl, linked, keys) BY <1>4, <1>6, <1>7 DEF Chained, B
<1>9. Stored(hctl, linked) = Stored(hctl, ch) \cup {e}
  <2>1. ASSUME NEW x PROVE x \in Stored(hctl, linked) <=> x \in Stored(hctl, ch) \/ x = e
    BY <1>2, <1>4, <1>5, InStore DEF B
  <2> QED BY <2>1
<1> QED BY <1>2, <1>4, <1>8, <1>9 DEF b, B, linked, keys

\* Unlinking an element of a bucket.
LEMMA DropChained ==
  ASSUME ShapeInv, NEW ch, NEW ky \in [Elems -> Keys \cup {NIL}], Chained(hctl, ch, ky),
         NEW b \in Buckets(hctl), NEW e \in Elements(ch[b])
  PROVE  LET rest == [ch EXCEPT ![b] = Without(@, e)]
         IN  /\ rest[b] = Without(ch[b], e)
             /\ \A c \in Buckets(hctl) \ {b} : rest[c] = ch[c]
             /\ Chained(hctl, rest, [ky EXCEPT ![e] = NIL])
             /\ Stored(hctl, rest) = Stored(hctl, ch) \ {e}
<1> DEFINE B == Buckets(hctl)
           rest == [ch EXCEPT ![b] = Without(@, e)]
           keys == [ky EXCEPT ![e] = NIL]
<1>3. /\ ch = [c \in B |-> ch[c]] /\ b \in B
      /\ \A c \in B : IsList(ch[c])
      /\ \A c \in B : \A x \in Elements(ch[c]) : ky[x] \in Keys /\ calc_bucket(hctl, hash[ky[x]]) = c
  BY DEF Chained
<1>k. \A x \in Elems \ {e} : keys[x] = ky[x] OBVIOUS
<1>e. \A c \in B \ {b} : e \notin Elements(ch[c]) BY <1>3
<1> HIDE DEF B, keys
<1>4. /\ rest = [c \in B |-> rest[c]] /\ rest[b] = Without(ch[b], e)
      /\ \A c \in B \ {b} : rest[c] = ch[c]
  BY <1>3
<1> HIDE DEF rest
<1>5. IsList(rest[b]) /\ Elements(rest[b]) = Elements(ch[b]) \ {e}
  BY <1>3, <1>4, WithoutList
<1>6. \A c \in B : IsList(rest[c])
  BY <1>3, <1>4, <1>5
<1>7. ASSUME NEW c \in B, NEW x \in Elements(rest[c])
      PROVE  keys[x] \in Keys /\ calc_bucket(hctl, hash[keys[x]]) = c
  <2>1. x # e /\ x \in Elements(ch[c]) BY <1>4, <1>5, <1>e
  <2>2. x \in Elems BY <1>3, <2>1, ListElements
  <2> QED BY <1>3, <1>k, <2>1, <2>2
<1>8. Chained(hctl, rest, keys) BY <1>4, <1>6, <1>7 DEF Chained, B
<1>9. Stored(hctl, rest) = Stored(hctl, ch) \ {e}
  <2>1. ASSUME NEW x PROVE x \in Stored(hctl, rest) <=> x \in Stored(hctl, ch) /\ x # e
    <3>1. x \in Stored(hctl, rest) => x \in Stored(hctl, ch) /\ x # e
      BY <1>3, <1>4, <1>5, <1>e, InStore DEF B
    <3>2. x \in Stored(hctl, ch) /\ x # e => x \in Stored(hctl, rest)
      BY <1>3, <1>4, <1>5, InStore DEF B
    <3> QED BY <3>1, <3>2
  <2> QED BY <2>1
<1> QED BY <1>4, <1>8, <1>9 DEF B, rest, keys

\* A split moves elements of one bucket to another and loses none; that the
\* others may stay is OneBucketSplits.
LEMMA SplitChained ==
  ASSUME ShapeInv, NEW ch, NEW ky, Chained(hctl, ch, ky)
  PROVE  /\ Chained(Grown(hctl), Split(Grown(hctl), ch, ky), ky)
         /\ Stored(Grown(hctl), Split(Grown(hctl), ch, ky)) = Stored(hctl, ch)
<1> DEFINE B == Buckets(hctl)
           h == Grown(hctl)
           old == new_bucket % (hctl.low_mask + 1)
           stay == {e \in Elements(ch[old]) : calc_bucket(h, hash[ky[e]]) = old}
           split == Split(h, ch, ky)
<1>1. old \in B /\ new_bucket \notin B /\ Buckets(h) = B \cup {new_bucket}
  BY OldBucket
<1>2. /\ \A c \in B : IsList(ch[c])
      /\ \A c \in B : \A x \in Elements(ch[c]) : ky[x] \in Keys /\ calc_bucket(hctl, hash[ky[x]]) = c
  BY DEF Chained
<1>3. split = [b \in Buckets(h) |->
                 IF b = old THEN Kept(ch[old], stay)
                 ELSE IF b = new_bucket THEN Kept(ch[old], Elements(ch[old]) \ stay)
                 ELSE ch[b]]
  BY DEF Split
<1>4. \A x \in stay : x \in Elements(ch[old]) /\ calc_bucket(h, hash[ky[x]]) = old OBVIOUS
<1>5. \A x \in Elements(ch[old]) \ stay : calc_bucket(h, hash[ky[x]]) = new_bucket
  <2>1. SUFFICES ASSUME NEW x \in Elements(ch[old]), calc_bucket(h, hash[ky[x]]) # old
                 PROVE  calc_bucket(h, hash[ky[x]]) = new_bucket
    OBVIOUS
  <2>2. calc_bucket(hctl, hash[ky[x]]) = old /\ hash[ky[x]] \in Nat
    BY <1>1, <1>2, HashTableAssumption
  <2> QED BY <2>1, <2>2, OneBucketSplits
<1>6. \A c \in B \ {old} : \A x \in Elements(ch[c]) : calc_bucket(h, hash[ky[x]]) = c
  <2>1. SUFFICES ASSUME NEW c \in B \ {old}, NEW x \in Elements(ch[c])
                 PROVE  calc_bucket(h, hash[ky[x]]) = c
    OBVIOUS
  <2>2. calc_bucket(hctl, hash[ky[x]]) = c /\ hash[ky[x]] \in Nat
    BY <1>2, HashTableAssumption
  <2> QED BY <2>2, OneBucketSplits
<1>s. stay \subseteq Elements(ch[old]) OBVIOUS
<1> HIDE DEF old, stay, B, h, split
<1>7. /\ split = [b \in Buckets(h) |-> split[b]]
      /\ split[old] = Kept(ch[old], stay)
      /\ split[new_bucket] = Kept(ch[old], Elements(ch[old]) \ stay)
      /\ \A c \in B \ {old} : split[c] = ch[c]
  BY <1>1, <1>3
<1>8. /\ IsList(split[old]) /\ Elements(split[old]) = stay
      /\ IsList(split[new_bucket])
      /\ Elements(split[new_bucket]) = Elements(ch[old]) \ stay
  <2>1. IsList(ch[old]) BY <1>1, <1>2
  <2>2. IsList(split[old]) /\ Elements(split[old]) = Elements(ch[old]) \cap stay
    BY <1>7, <2>1, KeptList
  <2>3. /\ IsList(split[new_bucket])
        /\ Elements(split[new_bucket]) = Elements(ch[old]) \cap (Elements(ch[old]) \ stay)
    BY <1>7, <2>1, KeptList
  <2> QED BY <1>s, <2>2, <2>3
<1>9. \A b \in Buckets(h) : IsList(split[b])
  BY <1>1, <1>2, <1>7, <1>8
<1>10. ASSUME NEW b \in Buckets(h), NEW x \in Elements(split[b])
       PROVE  ky[x] \in Keys /\ calc_bucket(h, hash[ky[x]]) = b
  <2>1. CASE b = old BY <1>1, <1>2, <1>4, <1>8, <2>1
  <2>2. CASE b = new_bucket BY <1>1, <1>2, <1>5, <1>8, <2>2
  <2>3. CASE b \in B \ {old} BY <1>2, <1>6, <1>7, <2>3
  <2> QED BY <1>1, <2>1, <2>2, <2>3
<1>11. Chained(h, split, ky) BY <1>7, <1>9, <1>10 DEF Chained
<1>12. Stored(h, split) = Stored(hctl, ch)
  <2>1. ASSUME NEW x PROVE x \in Stored(h, split) <=> x \in Stored(hctl, ch)
    <3>1. x \in Stored(h, split) <=> \E b \in Buckets(h) : x \in Elements(split[b]) BY InStore
    <3>2. x \in Stored(hctl, ch) <=> \E b \in B : x \in Elements(ch[b]) BY InStore DEF B
    <3>3. (\E b \in Buckets(h) : x \in Elements(split[b])) => \E b \in B : x \in Elements(ch[b])
      BY <1>1, <1>7, <1>8, <1>s
    <3>4. ASSUME NEW b \in B, x \in Elements(ch[b])
          PROVE  \E c \in Buckets(h) : x \in Elements(split[c])
      <4>1. CASE b # old BY <1>1, <1>7, <3>4, <4>1
      <4>2. CASE b = old BY <1>1, <1>8, <3>4, <4>2
      <4> QED BY <4>1, <4>2
    <3> QED BY <3>1, <3>2, <3>3, <3>4
  <2> QED BY <2>1
<1> QED BY <1>11, <1>12 DEF h, split

----------------------------------------------------------------------------
(* The store *)

\* The elements allocated so far, apart from where they are.
Numbered(S) == \E n \in 0..MaxElems : S = 1..n

\* Placed and NothingLost, made inductive: the chains and the free list hold
\* the elements allocated so far, each once, and the keys are those in use.
StoreInv ==
  /\ ShapeInv
  /\ Chained(hctl, chains, key)
  /\ IsList(freeList)
  /\ InUse \cap Unused = {}
  /\ Numbered(InUse \cup Unused)
  /\ key \in [Elems -> Keys \cup {NIL}]
  /\ \A e \in Elems : key[e] \in Keys <=> e \in InUse
  /\ \A e, f \in InUse : key[e] = key[f] => e = f
  /\ nentries = Cardinality(InUse)

LEMMA StoreFacts ==
  ASSUME StoreInv
  PROVE  /\ InUse = Stored(hctl, chains)
         /\ InUse \subseteq Elems /\ Unused \subseteq Elems
         /\ IsFiniteSet(InUse) /\ nentries \in Nat
         /\ NIL \notin Elems /\ NIL \notin Keys
         /\ \A e \in Elems \ InUse : key[e] = NIL
<1>1. InUse = Stored(hctl, chains) BY DEF InUse, Stored
<1>2. InUse \subseteq Elems
  <2>1. \A b \in Buckets(hctl) : Elements(chains[b]) \subseteq Elems
    BY ListElements DEF StoreInv, Chained
  <2> QED BY <2>1 DEF InUse
<1>3. Unused \subseteq Elems BY ListElements DEF StoreInv, Unused
<1>4. IsFiniteSet(InUse)
  <2>1. MaxElems \in Int BY HashTableAssumption
  <2>2. IsFiniteSet(1..MaxElems) BY <2>1, FS_Interval
  <2>3. InUse \in SUBSET (1..MaxElems) BY <1>2 DEF Elems
  <2> QED BY <2>2, <2>3, FS_Subset
<1>5. nentries \in Nat BY <1>4, FS_CardinalityType DEF StoreInv
<1>6. NIL \notin Elems /\ NIL \notin Keys BY HashTableAssumption
<1>7. \A e \in Elems \ InUse : key[e] = NIL BY DEF StoreInv
<1> QED BY <1>1, <1>2, <1>3, <1>4, <1>5, <1>6, <1>7

\* FIND finds the one element that holds the key, or none.
LEMMA Found ==
  ASSUME StoreInv, NEW k \in Keys
  PROVE  LET e == HASH_FIND(k)
             b == calc_bucket(hctl, hash[k])
         IN  /\ b \in Buckets(hctl)
             /\ e # NIL => e \in InUse /\ key[e] = k /\ e \in Elements(chains[b])
             /\ e = NIL => \A f \in InUse : key[f] # k
             /\ \A f \in InUse : key[f] = k => e = f
<1> DEFINE b == calc_bucket(hctl, hash[k])
           met == {e \in Elements(chains[b]) : key[e] = k}
           e == HASH_FIND(k)
<1>1. hash[k] \in Nat BY HashTableAssumption
<1>2. b \in Buckets(hctl) BY <1>1, BucketInRange DEF StoreInv
<1>3. e = IF met = {} THEN NIL ELSE CHOOSE x \in met : TRUE
  BY DEF HASH_FIND
<1>4. \A x \in met : x \in InUse /\ key[x] = k /\ x \in Elements(chains[b])
  BY <1>2, StoreFacts, InStore
<1>5. \A f \in InUse : key[f] = k => f \in met
  <2> SUFFICES ASSUME NEW f \in InUse, key[f] = k PROVE f \in met OBVIOUS
  <2>1. PICK c \in Buckets(hctl) : f \in Elements(chains[c]) BY StoreFacts, InStore
  <2>2. c = b BY <2>1 DEF StoreInv, Chained
  <2> QED BY <2>1, <2>2
<1> HIDE DEF met, e, b
<1>6. NIL \notin InUse BY StoreFacts
<1>7. met = {} => e = NIL BY <1>3
<1>8. met # {} => e \in met BY <1>3
<1>9. \A f \in InUse : key[f] = k => e = f
  BY <1>4, <1>5, <1>8 DEF StoreInv
<1> QED BY <1>2, <1>4, <1>5, <1>6, <1>7, <1>8, <1>9 DEF e, b

\* REMOVE moves one element from its chain to the free list.
LEMMA RemoveStored ==
  ASSUME StoreInv, NEW k \in Keys, HASH_REMOVE(k)
  PROVE  LET e == HASH_FIND(k)
             b == calc_bucket(hctl, hash[k])
         IN  /\ StoreInv'
             /\ e \in InUse /\ key[e] = k /\ b \in Buckets(hctl) /\ e \in Elements(chains[b])
             /\ InUse' = InUse \ {e} /\ Unused' = Unused \cup {e}
             /\ chains'[b] = Without(chains[b], e)
             /\ \A c \in Buckets(hctl) \ {b} : chains'[c] = chains[c]
             /\ key' = [key EXCEPT ![e] = NIL] /\ hctl' = hctl
<1> DEFINE e == HASH_FIND(k)
           b == calc_bucket(hctl, hash[k])
<1>1. /\ e # NIL
      /\ chains' = [chains EXCEPT ![b] = Without(@, e)]
      /\ freeList' = <<e>> \o freeList
      /\ nentries' = nentries - 1
      /\ key' = [key EXCEPT ![e] = NIL]
      /\ hctl' = hctl
  BY DEF HASH_REMOVE
<1>2. e \in InUse /\ key[e] = k /\ b \in Buckets(hctl) /\ e \in Elements(chains[b])
  BY <1>1, Found
<1>3. /\ e \in Elems /\ IsFiniteSet(InUse) /\ NIL \notin Keys /\ InUse \subseteq Elems
      /\ \A f \in Elems \ InUse : key[f] = NIL /\ InUse = Stored(hctl, chains)
  BY <1>2, StoreFacts
<1> HIDE DEF e, b
<1>4. /\ chains'[b] = Without(chains[b], e)
      /\ \A c \in Buckets(hctl) \ {b} : chains'[c] = chains[c]
      /\ Chained(hctl, chains', key')
      /\ Stored(hctl, chains') = Stored(hctl, chains) \ {e}
  <2> DEFINE rest == [chains EXCEPT ![b] = Without(@, e)]
             keys == [key EXCEPT ![e] = NIL]
  <2>1. /\ ShapeInv /\ key \in [Elems -> Keys \cup {NIL}] /\ Chained(hctl, chains, key)
        /\ b \in Buckets(hctl) /\ e \in Elements(chains[b])
    BY <1>2 DEF StoreInv
  <2>2. /\ rest[b] = Without(chains[b], e)
        /\ \A c \in Buckets(hctl) \ {b} : rest[c] = chains[c]
        /\ Chained(hctl, rest, keys)
        /\ Stored(hctl, rest) = Stored(hctl, chains) \ {e}
    BY <2>1, DropChained
  <2>3. chains' = rest /\ key' = keys BY <1>1
  <2> HIDE DEF rest, keys
  <2> QED BY <2>2, <2>3
<1>5. InUse' = InUse \ {e}
  <2>1. InUse' = Stored(hctl', chains') BY DEF InUse, Stored
  <2>2. InUse = Stored(hctl, chains) BY StoreFacts
  <2> QED BY <1>1, <1>4, <2>1, <2>2
<1>6. IsList(freeList') /\ Unused' = Unused \cup {e}
  <2>1. e \notin Elements(freeList) /\ IsList(freeList) BY <1>2 DEF StoreInv, Unused
  <2> QED BY <1>1, <1>3, <2>1, ConsList DEF Unused
<1>7. InUse' \cap Unused' = {} BY <1>5, <1>6 DEF StoreInv
<1>8. Numbered(InUse' \cup Unused')
  <2>1. InUse' \cup Unused' = InUse \cup Unused BY <1>2, <1>5, <1>6
  <2> QED BY <2>1 DEF StoreInv
<1>9. /\ key' \in [Elems -> Keys \cup {NIL}] /\ key'[e] = NIL
      /\ \A f \in Elems \ {e} : key'[f] = key[f]
  BY <1>1, <1>3 DEF StoreInv
<1>10. \A f \in Elems : key'[f] \in Keys <=> f \in InUse'
  BY <1>3, <1>5, <1>9 DEF StoreInv
<1>11. \A f, g \in InUse' : key'[f] = key'[g] => f = g
  BY <1>3, <1>5, <1>9 DEF StoreInv
<1>12. nentries' = Cardinality(InUse')
  BY <1>1, <1>2, <1>3, <1>5, FS_RemoveElement DEF StoreInv
<1>13. ShapeInv' BY <1>1 DEF StoreInv, ShapeInv, Shape
<1>14. StoreInv'
  BY <1>1, <1>4, <1>6, <1>7, <1>8, <1>9, <1>10, <1>11, <1>12, <1>13 DEF StoreInv
<1> QED BY <1>1, <1>2, <1>4, <1>5, <1>6, <1>14 DEF e, b

\* What get_hash_entry takes an element from.
LEMMA FreshList ==
  ASSUME StoreInv, NEW list \in FreeLists
  PROVE  /\ IsList(list) /\ list # <<>>
         /\ Elements(list) \cap InUse = {}
         /\ Numbered(InUse \cup Elements(list))
<1>1. CASE freeList # <<>>
  BY <1>1 DEF FreeLists, StoreInv, Unused
<1>2. CASE freeList = <<>>
  <2>1. PICK n \in 0..MaxElems : InUse \cup Unused = 1..n
    BY DEF StoreInv, Numbered
  <2>2. MaxElems \in Nat /\ nelem_alloc \in Nat /\ nelem_alloc >= 1 BY HashTableAssumption
  <2>3. Cardinality(InUse \cup Unused) = n
    <3>1. Cardinality(1..n) = n BY <2>1, <2>2, FS_Interval
    <3> QED BY <2>1, <3>1
  <2>4. list = Chunk(n, nelem_alloc) \o <<>> /\ n + nelem_alloc <= MaxElems
    BY <1>2, <2>2, <2>3 DEF FreeLists, element_alloc
  <2>5. /\ IsList(Chunk(n, nelem_alloc)) /\ Len(Chunk(n, nelem_alloc)) = nelem_alloc
        /\ Elements(Chunk(n, nelem_alloc)) = (n + 1)..(n + nelem_alloc)
    BY <2>1, <2>2, <2>4, ChunkList
  <2>6. list = Chunk(n, nelem_alloc)
    <3>1. Chunk(n, nelem_alloc) \in Seq(Elems) BY <2>5 DEF IsList
    <3> QED BY <2>4, <3>1
  <2>7. Unused = {} BY <1>2 DEF Unused, Elements
  <2>8. InUse = 1..n BY <2>1, <2>7
  <2>9. list # <<>> BY <2>2, <2>5, <2>6
  <2>10. Elements(list) \cap InUse = {} BY <2>1, <2>2, <2>5, <2>6, <2>8
  <2>11. InUse \cup Elements(list) = 1..(n + nelem_alloc)
    BY <2>1, <2>2, <2>5, <2>6, <2>8
  <2>12. n + nelem_alloc \in 0..MaxElems BY <2>1, <2>2, <2>4
  <2> QED BY <2>5, <2>6, <2>9, <2>10, <2>11, <2>12 DEF Numbered
<1> QED BY <1>1, <1>2

\* ENTER takes one element that was in no chain; while scans are registered it
\* puts it at the end of one and does no more.
LEMMA EnterStored ==
  ASSUME StoreInv, NEW k \in Keys, HASH_ENTER(k)
  PROVE  /\ StoreInv'
         /\ \E e \in Elems \ InUse :
              /\ InUse' = InUse \cup {e}
              /\ key' = [key EXCEPT ![e] = k]
              /\ InUse \cup Unused \subseteq InUse' \cup Unused'
              /\ registered > 0 =>
                   LET b == calc_bucket(hctl, hash[k])
                   IN  /\ b \in Buckets(hctl) /\ hctl' = hctl
                       /\ chains'[b] = Append(chains[b], e)
                       /\ \A c \in Buckets(hctl) \ {b} : chains'[c] = chains[c]
<1> DEFINE b == calc_bucket(hctl, hash[k])
<1>1. PICK list \in FreeLists :
        LET e == Head(list)
            linked == [chains EXCEPT ![b] = Append(@, e)]
        IN  /\ freeList' = Tail(list)
            /\ nentries' = nentries + 1
            /\ key' = [key EXCEPT ![e] = k]
            /\ IF Crowded(nentries + 1) THEN expand_table(linked, key')
               ELSE chains' = linked /\ UNCHANGED hctl
  BY DEF HASH_ENTER
<1> DEFINE e == Head(list)
           linked == [chains EXCEPT ![b] = Append(@, e)]
<1>2. /\ IsList(list) /\ list # <<>> /\ Elements(list) \cap InUse = {}
      /\ Numbered(InUse \cup Elements(list))
  BY FreshList
<1>3. e \in Elements(list) /\ IsList(Tail(list)) /\ Elements(Tail(list)) = Elements(list) \ {e}
  BY <1>2, TailList
<1>4. e \in Elems /\ e \notin InUse BY <1>2, <1>3, ListElements
<1> HIDE DEF e
<1>5. /\ freeList' = Tail(list)
      /\ nentries' = nentries + 1
      /\ key' = [key EXCEPT ![e] = k]
      /\ IF Crowded(nentries + 1) THEN expand_table(linked, key')
         ELSE chains' = linked /\ UNCHANGED hctl
  BY <1>1 DEF e
<1>6. /\ IsFiniteSet(InUse) /\ NIL \notin Keys /\ InUse \subseteq Elems /\ nentries \in Nat
      /\ \A f \in Elems \ InUse : key[f] = NIL
      /\ InUse = Stored(hctl, chains)
  BY StoreFacts
<1>7. /\ b \in Buckets(hctl)
      /\ linked[b] = Append(chains[b], e)
      /\ \A c \in Buckets(hctl) \ {b} : linked[c] = chains[c]
      /\ Chained(hctl, linked, key')
      /\ Stored(hctl, linked) = InUse \cup {e}
  <2> DEFINE keys == [key EXCEPT ![e] = k]
  <2>1. /\ ShapeInv /\ key \in [Elems -> Keys \cup {NIL}] /\ Chained(hctl, chains, key)
        /\ e \in Elems /\ e \notin Stored(hctl, chains)
    BY <1>4, <1>6 DEF StoreInv
  <2>2. /\ b \in Buckets(hctl)
        /\ linked[b] = Append(chains[b], e)
        /\ \A c \in Buckets(hctl) \ {b} : linked[c] = chains[c]
        /\ Chained(hctl, linked, keys)
        /\ Stored(hctl, linked) = Stored(hctl, chains) \cup {e}
    BY <2>1, AddChained
  <2>3. key' = keys BY <1>5
  <2> HIDE DEF linked, keys, b
  <2> QED BY <1>6, <2>2, <2>3
<1> HIDE DEF linked, b
<1>8. Chained(hctl', chains', key') /\ Stored(hctl', chains') = InUse \cup {e}
  <2>1. CASE chains' = linked /\ hctl' = hctl BY <1>7, <2>1
  <2>2. CASE chains' = linked /\ hctl' = DoubledDir
    <3>1. /\ Buckets(DoubledDir) = Buckets(hctl)
          /\ \A v : calc_bucket(DoubledDir, v) = calc_bucket(hctl, v)
      BY DoubledSame DEF StoreInv
    <3>2. Stored(DoubledDir, linked) = Stored(hctl, linked) BY <3>1 DEF Stored
    <3>3. Chained(DoubledDir, linked, key') BY <1>7, <3>1 DEF Chained
    <3> QED BY <1>7, <2>2, <3>2, <3>3
  <2>3. CASE hctl' = Grown(hctl) /\ chains' = Split(Grown(hctl), linked, key')
    BY <1>7, <2>3, SplitChained DEF StoreInv
  <2> QED BY <1>5, <2>1, <2>2, <2>3 DEF expand_table
<1>9. ShapeInv'
  <2>1. CASE hctl' = hctl BY <2>1 DEF StoreInv, ShapeInv, Shape
  <2>2. CASE expand_table(linked, key') BY <2>2, ExpandShape DEF StoreInv
  <2> QED BY <1>5, <2>1, <2>2
<1>10. InUse' = InUse \cup {e}
  <2>1. InUse' = Stored(hctl', chains') BY DEF InUse, Stored
  <2> QED BY <1>8, <2>1
<1>11. IsList(freeList') /\ Unused' = Elements(list) \ {e}
  BY <1>3, <1>5 DEF Unused
<1>12. InUse' \cap Unused' = {} BY <1>2, <1>10, <1>11
<1>13. Numbered(InUse' \cup Unused')
  <2>1. InUse' \cup Unused' = InUse \cup Elements(list) BY <1>3, <1>10, <1>11
  <2> QED BY <1>2, <2>1
<1>14. /\ key' \in [Elems -> Keys \cup {NIL}] /\ key'[e] = k
       /\ \A f \in Elems \ {e} : key'[f] = key[f]
  BY <1>4, <1>5 DEF StoreInv
<1>15. \A f \in Elems : key'[f] \in Keys <=> f \in InUse'
  BY <1>10, <1>14 DEF StoreInv
<1>16. \A f \in InUse : key[f] # k
  BY Found DEF HASH_ENTER
<1>17. \A f, g \in InUse' : key'[f] = key'[g] => f = g
  BY <1>4, <1>6, <1>10, <1>14, <1>16 DEF StoreInv
<1>18. nentries' = Cardinality(InUse')
  BY <1>4, <1>5, <1>6, <1>10, FS_AddElement DEF StoreInv
<1>19. StoreInv'
  BY <1>8, <1>9, <1>11, <1>12, <1>13, <1>14, <1>15, <1>17, <1>18 DEF StoreInv
<1>20. InUse \cup Unused \subseteq InUse' \cup Unused'
  <2>1. Unused \subseteq Elements(list)
    BY DEF FreeLists, Unused, Elements
  <2> QED BY <1>10, <1>11, <2>1
<1>21. registered > 0 => chains' = linked /\ hctl' = hctl
  BY <1>5 DEF Crowded
<1>22. registered > 0 =>
         /\ b \in Buckets(hctl) /\ hctl' = hctl
         /\ chains'[b] = Append(chains[b], e)
         /\ \A c \in Buckets(hctl) \ {b} : chains'[c] = chains[c]
  BY <1>7, <1>21
<1> QED BY <1>4, <1>5, <1>10, <1>19, <1>20, <1>22 DEF b

LEMMA InitStored == Init => StoreInv
<1> SUFFICES ASSUME Init PROVE StoreInv OBVIOUS
<1>1. /\ conf \in Configs
      /\ chains = [b \in Buckets(hctl) |-> <<>>]
      /\ freeList = Preallocated(conf)
      /\ nentries = 0 /\ key = [e \in Elems |-> NIL]
  BY DEF Init
<1>2. IsList(<<>>) /\ Elements(<<>>) = {} BY DEF IsList, Elements
<1>3. Chained(hctl, chains, key) /\ InUse = {}
  BY <1>1, <1>2 DEF Chained, InUse
<1>4. IsList(freeList) /\ Numbered(Unused)
  <2>1. conf.nelem \in Nat /\ MaxElems \in Nat /\ nelem_alloc \in 1..MaxElems
    BY <1>1, HashTableAssumption
  <2>2. CASE conf.nelem < nelem_alloc
    <3>1. freeList = Chunk(0, conf.nelem) BY <1>1, <2>2 DEF Preallocated
    <3>2. 0 + conf.nelem <= MaxElems BY <2>1, <2>2
    <3>3. IsList(freeList) /\ Elements(freeList) = (0 + 1)..(0 + conf.nelem)
      BY <2>1, <3>1, <3>2, ChunkList
    <3>4. Unused = 1..conf.nelem /\ conf.nelem \in 0..MaxElems
      BY <2>1, <3>2, <3>3 DEF Unused
    <3> QED BY <3>3, <3>4 DEF Numbered
  <2>3. CASE ~ (conf.nelem < nelem_alloc)
    <3>1. freeList = <<>> BY <1>1, <2>3 DEF Preallocated
    <3>2. Unused = 1..0 /\ 0 \in 0..MaxElems BY <1>2, <2>1, <3>1 DEF Unused
    <3> QED BY <1>2, <3>1, <3>2 DEF Numbered
  <2> QED BY <2>2, <2>3
<1>5. NIL \notin Keys BY HashTableAssumption
<1>6. nentries = Cardinality(InUse) BY <1>1, <1>3, FS_EmptySet
<1>7. Numbered(InUse \cup Unused) BY <1>3, <1>4
<1> QED BY <1>1, <1>3, <1>4, <1>5, <1>6, <1>7, InitShape DEF StoreInv

LEMMA NextStored == StoreInv /\ [Next]_vars => StoreInv'
<1> SUFFICES ASSUME StoreInv, [Next]_vars PROVE StoreInv' OBVIOUS
<1>1. CASE UNCHANGED store
  BY <1>1 DEF store, StoreInv, ShapeInv, Shape, InUse, Unused
<1>2. ASSUME NEW k \in Keys, HASH_REMOVE(k) PROVE StoreInv' BY <1>2, RemoveStored
<1>3. ASSUME NEW k \in Keys, HASH_ENTER(k) PROVE StoreInv' BY <1>3, EnterStored
<1> QED
  BY <1>1, <1>2, <1>3
  DEF Next, vars, store, HASH_ENTER_fails, hash_seq_init,
      hash_seq_search, EndOfScan, hash_seq_term, hash_freeze, AtEOXact_HashTables

\* Every element is in the bucket calc_bucket gives for its key, through any
\* number of splits, splits that fail and removals (expand_table).
THEOREM PlacedHolds == Spec => []Placed
<1>1. StoreInv => Placed BY DEF StoreInv, Chained, Placed
<1> QED BY InitStored, NextStored, <1>1, PTL DEF Spec

\* No element is lost or in two places, nentries counts the chains and no key
\* is there twice, whatever is entered and removed (get_hash_entry).
THEOREM NothingLostHolds == Spec => []NothingLost
<1>1. ASSUME StoreInv PROVE NothingLost
  <2>1. InUse \cap Unused = {} BY <1>1 DEF StoreInv
  <2>2. InUse \cup Unused = 1..Cardinality(InUse \cup Unused)
    <3>1. PICK n \in 0..MaxElems : InUse \cup Unused = 1..n BY <1>1 DEF StoreInv, Numbered
    <3>2. n \in Nat BY <3>1, HashTableAssumption
    <3>3. Cardinality(1..n) = n BY <3>2, FS_Interval
    <3> QED BY <3>1, <3>3
  <2>3. Cardinality(Unused) = Len(freeList) BY <1>1, ListSize DEF StoreInv, Unused
  <2>4. nentries = Cardinality(InUse) BY <1>1 DEF StoreInv
  <2>5. Cardinality({key[e] : e \in InUse}) = nentries
    <3> DEFINE T == {key[e] : e \in InUse}
               f == [e \in InUse |-> key[e]]
    <3>1. IsFiniteSet(InUse) BY <1>1, StoreFacts
    <3>2. f \in Bijection(InUse, T)
      BY <1>1 DEF Bijection, Injection, Surjection, IsInjective, StoreInv
    <3>3. ExistsBijection(InUse, T) BY <3>2 DEF ExistsBijection
    <3> HIDE DEF T
    <3>4. Cardinality(T) = Cardinality(InUse) BY <3>1, <3>3, FS_Bijection
    <3> QED BY <2>4, <3>4 DEF T
  <2>6. ASSUME NEW b \in Buckets(hctl)
        PROVE  /\ Cardinality(Elements(chains[b])) = Len(chains[b])
               /\ \A c \in Buckets(hctl) \ {b} : Elements(chains[b]) \cap Elements(chains[c]) = {}
    <3>1. IsList(chains[b]) BY <1>1 DEF StoreInv, Chained
    <3>2. Cardinality(Elements(chains[b])) = Len(chains[b]) BY <3>1, ListSize
    <3>3. \A c \in Buckets(hctl) \ {b} : Elements(chains[b]) \cap Elements(chains[c]) = {}
      BY <1>1 DEF StoreInv, Chained
    <3> QED BY <3>2, <3>3
  <2> QED BY <2>1, <2>2, <2>3, <2>4, <2>5, <2>6 DEF NothingLost
<1> QED BY InitStored, NextStored, <1>1, PTL DEF Spec

----------------------------------------------------------------------------
(* What a scan still owes *)

LEMMA BeforeElements ==
  ASSUME NEW list, IsList(list)
  PROVE  /\ \A x, y : Before(list, x, y) => x \in Elements(list) /\ y \in Elements(list)
         /\ \A x \in Elements(list) : Before(list, x, x)
         /\ \A x, y : Before(list, x, y) /\ Before(list, y, x) => x = y
<1>1. /\ Elements(list) = {list[i] : i \in 1..Len(list)} /\ Len(list) \in Nat
      /\ \A i, j \in 1..Len(list) : list[i] = list[j] => i = j
  BY ListElements DEF IsList
<1>2. \A x, y : Before(list, x, y) => x \in Elements(list) /\ y \in Elements(list)
  BY <1>1 DEF Before
<1>3. \A x \in Elements(list) : Before(list, x, x)
  BY <1>1 DEF Before
<1>4. ASSUME NEW x, NEW y, Before(list, x, y), Before(list, y, x) PROVE x = y
  <2>1. PICK i, j \in 1..Len(list) : i <= j /\ list[i] = x /\ list[j] = y
    BY <1>4 DEF Before
  <2>2. PICK m, n \in 1..Len(list) : m <= n /\ list[m] = y /\ list[n] = x
    BY <1>4 DEF Before
  <2>3. m = j /\ n = i BY <1>1, <2>1, <2>2
  <2>4. i = j BY <1>1, <2>1, <2>2, <2>3
  <2> QED BY <2>1, <2>4
<1> QED BY <1>2, <1>3, <1>4

LEMMA HeadFirst ==
  ASSUME NEW list, IsList(list), list # <<>>
  PROVE  /\ Head(list) \in Elements(list)
         /\ \A x \in Elements(list) : Before(list, Head(list), x)
<1>1. /\ list \in Seq(Elems) /\ Len(list) \in Nat \ {0} /\ Head(list) = list[1]
      /\ Elements(list) = {list[i] : i \in 1..Len(list)}
  BY ListElements DEF IsList
<1>2. 1 \in 1..Len(list) /\ \A i \in 1..Len(list) : 1 <= i BY <1>1
<1> QED BY <1>1, <1>2 DEF Before

\* Following a link leaves the element behind and nothing else.
LEMMA AfterList ==
  ASSUME NEW list, IsList(list), NEW e \in Elements(list)
  PROVE  LET next == After(list, e)
         IN  /\ next = NIL => \A x : Before(list, e, x) => x = e
             /\ next # NIL =>
                  /\ next \in Elements(list) /\ next # e
                  /\ \A x : Before(list, next, x) <=> Before(list, e, x) /\ x # e
<1> DEFINE place == Place(list, e)
           n == Len(list)
           next == After(list, e)
<1>1. /\ place \in 1..n /\ list[place] = e /\ n \in Nat
      /\ \A i, j \in 1..n : list[i] = list[j] => i = j
      /\ Elements(list) = {list[i] : i \in 1..n}
      /\ Elements(list) \subseteq Elems
  BY ListElements, PlaceFound DEF IsList
<1>2. next = IF place = n THEN NIL ELSE list[place + 1] BY DEF After
<1>3. NIL \notin Elems BY HashTableAssumption
<1>b. \A x, y : Before(list, x, y) <=> \E i, j \in 1..n : i <= j /\ list[i] = x /\ list[j] = y
  BY DEF Before
<1> HIDE DEF place, n, next
<1>4. CASE place = n
  <2>1. next = NIL BY <1>2, <1>4
  <2>2. ASSUME NEW x, Before(list, e, x) PROVE x = e
    <3>1. PICK i, j \in 1..n : i <= j /\ list[i] = e /\ list[j] = x BY <1>b, <2>2
    <3>2. i = n BY <1>1, <1>4, <3>1
    <3>3. j = n BY <1>1, <3>1, <3>2
    <3> QED BY <3>1, <3>2, <3>3
  <2> QED BY <2>1, <2>2 DEF next
<1>5. CASE place # n
  <2>1. place + 1 \in 1..n BY <1>1, <1>5
  <2>2. next = list[place + 1] BY <1>2, <1>5
  <2>3. next \in Elements(list) /\ next # NIL BY <1>1, <1>3, <2>1, <2>2
  <2>4. next # e
    <3>1. place + 1 # place BY <1>1
    <3> QED BY <1>1, <2>1, <2>2, <3>1
  <2>5. ASSUME NEW x, Before(list, next, x) PROVE Before(list, e, x) /\ x # e
    <3>1. PICK i, j \in 1..n : i <= j /\ list[i] = next /\ list[j] = x BY <1>b, <2>5
    <3>2. i = place + 1 BY <1>1, <2>1, <2>2, <3>1
    <3>3. place <= j /\ j # place BY <1>1, <3>1, <3>2
    <3>4. Before(list, e, x) BY <1>1, <1>b, <3>1, <3>3
    <3>5. x # e BY <1>1, <3>1, <3>3
    <3> QED BY <3>4, <3>5
  <2>6. ASSUME NEW x, Before(list, e, x), x # e PROVE Before(list, next, x)
    <3>1. PICK i, j \in 1..n : i <= j /\ list[i] = e /\ list[j] = x BY <1>b, <2>6
    <3>2. i = place BY <1>1, <3>1
    <3>3. j # place BY <1>1, <2>6, <3>1
    <3>4. place + 1 <= j BY <1>1, <3>1, <3>2, <3>3
    <3> QED BY <1>b, <2>1, <2>2, <3>1, <3>4
  <2> QED BY <2>3, <2>4, <2>5, <2>6 DEF next
<1> QED BY <1>4, <1>5

\* Wherever an element is, its link leads to one of the same list.
LEMMA LinkFound ==
  ASSUME StoreInv
  PROVE  /\ \A b \in Buckets(hctl) : \A e \in Elements(chains[b]) :
              link(e) = After(chains[b], e)
         /\ \A e \in InUse \cup Unused : link(e) \in InUse \cup Unused \cup {NIL}
<1>1. ASSUME NEW b \in Buckets(hctl), NEW e \in Elements(chains[b])
      PROVE  link(e) = After(chains[b], e)
  <2>1. e \in InUse BY DEF InUse
  <2>2. e \notin Unused BY <2>1 DEF StoreInv
  <2>3. \A c \in Buckets(hctl) : e \in Elements(chains[c]) => c = b
    BY DEF StoreInv, Chained
  <2> DEFINE c == CHOOSE x \in Buckets(hctl) : e \in Elements(chains[x])
  <2>4. c = b
    <3>1. c \in Buckets(hctl) /\ e \in Elements(chains[c]) OBVIOUS
    <3> QED BY <2>3, <3>1
  <2>5. link(e) = After(chains[c], e) BY <2>2 DEF link
  <2> HIDE DEF c
  <2> QED BY <2>4, <2>5
<1>2. ASSUME NEW e \in InUse PROVE link(e) \in InUse \cup Unused \cup {NIL}
  <2>1. PICK b \in Buckets(hctl) : e \in Elements(chains[b]) BY DEF InUse
  <2>2. IsList(chains[b]) BY DEF StoreInv, Chained
  <2>3. After(chains[b], e) \in Elements(chains[b]) \cup {NIL} BY <2>1, <2>2, AfterList
  <2>4. Elements(chains[b]) \subseteq InUse BY DEF InUse
  <2> QED BY <1>1, <2>1, <2>3, <2>4
<1>3. ASSUME NEW e \in Unused PROVE link(e) \in InUse \cup Unused \cup {NIL}
  <2>1. link(e) = After(freeList, e) BY DEF link
  <2>2. IsList(freeList) BY DEF StoreInv
  <2>3. After(freeList, e) \in Unused \cup {NIL} BY <2>2, AfterList DEF Unused
  <2> QED BY <2>1, <2>3
<1> QED BY <1>1, <1>2, <1>3

----------------------------------------------------------------------------
\* What a scan at position p has before it.
Remains(list, b, p, e) ==
  \/ b > p.bucket
  \/ b = p.bucket /\ (p.entry # NIL => Before(list, p.entry, e))

LeftOver(h, ch, p) ==
  {e \in Elems : \E b \in Buckets(h) : e \in Elements(ch[b]) /\ Remains(ch[b], b, p, e)}

\* What a sure scan at p has promised: all that is due is left over, and
\* nothing that is left over has been returned; the entry it stands at is not
\* the one it returned, which its user may remove.
OnTrack(h, ch, ky, p, v) ==
  /\ p.entry # NIL => /\ p.bucket \in Buckets(h) /\ p.entry \in Elements(ch[p.bucket])
                      /\ ky[p.entry] # v.last
  /\ \A k \in v.due : \E e \in LeftOver(h, ch, p) : ky[e] = k
  /\ \A e \in LeftOver(h, ch, p) : ky[e] \notin v.seen
  /\ v.last \notin v.due

Tracked(h, ch, ky, all, p, v) ==
  /\ p \in Positions /\ v \in Visits
  /\ p.entry \in all \cup {NIL}
  /\ v.state = "closed" => v = Closed
  /\ v.state = "unsure" => v = Unsure
  /\ v.state = "sure" => OnTrack(h, ch, ky, p, v)

\* Where the scans are and what they have promised.
ScanInv ==
  /\ scan = [s \in Scans |-> scan[s]]
  /\ visit = [s \in Scans |-> visit[s]]
  /\ \A s \in Scans : Tracked(hctl, chains, key, InUse \cup Unused, scan[s], visit[s])

LEMMA VisitFacts ==
  /\ Closed = [state |-> "closed", seen |-> {}, due |-> {}, last |-> NIL]
  /\ Unsure = [state |-> "unsure", seen |-> {}, due |-> {}, last |-> NIL]
  /\ Closed \in Visits /\ Unsure \in Visits
  /\ Idle \in Positions /\ Idle.entry = NIL
BY DEF Closed, Unsure, Visits, Idle, Positions

\* A scan that has promised nothing may be anywhere.
LEMMA Forgotten ==
  ASSUME NEW h, NEW ch, NEW ky, NEW all, NEW p \in Positions, p.entry \in all \cup {NIL}
  PROVE  Tracked(h, ch, ky, all, p, Closed) /\ Tracked(h, ch, ky, all, p, Unsure)
BY VisitFacts DEF Tracked

LEMMA InitScan == Init => ScanInv
<1> SUFFICES ASSUME Init PROVE ScanInv OBVIOUS
<1>1. scan = [s \in Scans |-> Idle] /\ visit = [s \in Scans |-> Closed] BY DEF Init
<1>2. Tracked(hctl, chains, key, InUse \cup Unused, Idle, Closed) BY VisitFacts, Forgotten
<1> QED BY <1>1, <1>2 DEF ScanInv

----------------------------------------------------------------------------
\* Searching takes the first of what is left over.
LEMMA SearchTakes ==
  ASSUME StoreInv, NEW s \in Scans, scan[s] \in Positions,
         scan[s].entry # NIL => /\ scan[s].bucket \in Buckets(hctl)
                                /\ scan[s].entry \in Elements(chains[scan[s].bucket]),
         scan[s].entry # NIL \/ Ahead(s) # {}
  PROVE  LET e == At(s)
             b == AtBucket(s)
             q == Passed(s)
         IN  /\ b \in Buckets(hctl) /\ e \in Elements(chains[b])
             /\ e \in LeftOver(hctl, chains, scan[s])
             /\ q \in Positions
             /\ q.entry # NIL => q.bucket = b /\ q.entry \in Elements(chains[b]) /\ q.entry # e
             /\ LeftOver(hctl, chains, q) = LeftOver(hctl, chains, scan[s]) \ {e}
<1> DEFINE p == scan[s]
           e == At(s)
           b == AtBucket(s)
           q == Passed(s)
           L == chains[b]
           next == After(L, e)
<1>0. /\ p.bucket \in Nat /\ p.entry \in Elems \cup {NIL}
      /\ p = [bucket |-> p.bucket, entry |-> p.entry, registers |-> p.registers]
  BY DEF Positions
<1>B. Buckets(hctl) \subseteq Nat
  <2>1. hctl.max_bucket \in Nat BY ShapeNumbers DEF StoreInv
  <2> QED BY <2>1 DEF Buckets
<1>1. /\ b \in Buckets(hctl) /\ e \in Elements(L) /\ IsList(L)
      /\ \A x \in Elements(L) : Remains(L, b, p, x) <=> Before(L, e, x)
      /\ \A c \in Buckets(hctl) : c < b /\ Elements(chains[c]) # {} /\ c >= p.bucket => FALSE
      /\ b >= p.bucket
  <2>1. CASE p.entry # NIL
    <3>1. b = p.bucket /\ e = p.entry BY <2>1 DEF AtBucket, At
    <3>2. b \in Buckets(hctl) /\ e \in Elements(L) BY <2>1, <3>1
    <3>3. IsList(L) BY <3>2 DEF StoreInv, Chained
    <3>4. ~ (b > p.bucket) /\ b >= p.bucket BY <1>0, <3>1
    <3>5. \A c \in Buckets(hctl) : ~ (c < b /\ c >= p.bucket) BY <1>0, <1>B, <3>1
    <3>6. \A x \in Elements(L) : Remains(L, b, p, x) <=> Before(L, e, x)
      BY <2>1, <3>1, <3>4 DEF Remains
    <3> QED BY <3>2, <3>3, <3>4, <3>5, <3>6
  <2>2. CASE p.entry = NIL
    <3> DEFINE A == Ahead(s)
    <3>1. A # {} /\ A = {c \in Buckets(hctl) : c >= p.bucket /\ chains[c] # <<>>}
      BY <2>2 DEF Ahead
    <3>2. b = (CHOOSE c \in A : \A d \in A : c <= d) /\ e = Head(L)
      BY <2>2 DEF AtBucket, At
    <3> HIDE DEF A, b, e
    <3>3. A \subseteq Nat BY <1>B, <3>1
    <3>4. \E c \in A : \A d \in A : c <= d BY <3>1, <3>3, LeastNat
    <3>5. b \in A /\ \A d \in A : b <= d BY <3>2, <3>4
    <3>6. b \in Buckets(hctl) /\ b >= p.bucket /\ L # <<>> BY <3>1, <3>5
    <3>7. IsList(L) BY <3>6 DEF StoreInv, Chained
    <3>8. e \in Elements(L) /\ \A x \in Elements(L) : Before(L, e, x)
      BY <3>2, <3>6, <3>7, HeadFirst
    <3>9. ASSUME NEW c \in Buckets(hctl), c < b, Elements(chains[c]) # {}, c >= p.bucket
          PROVE FALSE
      <4>1. chains[c] # <<>> BY <3>9 DEF Elements
      <4>2. c \in A BY <3>1, <3>9, <4>1
      <4>3. b <= c /\ b \in Nat /\ c \in Nat BY <1>B, <3>5, <3>6, <4>2
      <4> QED BY <3>9, <4>3
    <3>10. b > p.bucket \/ b = p.bucket BY <1>0, <1>B, <3>6
    <3>11. \A x \in Elements(L) : Remains(L, b, p, x) <=> Before(L, e, x)
      BY <2>2, <3>8, <3>10 DEF Remains
    <3> QED BY <3>6, <3>7, <3>8, <3>9, <3>11
  <2> QED BY <2>1, <2>2
<1>2. link(e) = next BY <1>1, LinkFound
<1>4. /\ next = NIL => \A x : Before(L, e, x) => x = e
      /\ next # NIL => /\ next \in Elements(L) /\ next # e
                       /\ \A x : Before(L, next, x) <=> Before(L, e, x) /\ x # e
  BY <1>1, AfterList
<1>5. /\ \A x, y : Before(L, x, y) => x \in Elements(L) /\ y \in Elements(L)
      /\ Before(L, e, e)
  BY <1>1, BeforeElements
<1>6. \A c \in Buckets(hctl) : e \in Elements(chains[c]) => c = b
  BY <1>1 DEF StoreInv, Chained
<1>7. e \in Elems BY <1>1, ListElements
<1>8. b \in Nat BY <1>1, <1>B
<1>3. q \in Positions /\ q.entry = next /\ q.bucket = IF next = NIL THEN b + 1 ELSE b
  <2> DEFINE c == IF next = NIL THEN b + 1 ELSE b
  <2>1. q = [p EXCEPT !.entry = next, !.bucket = c]
    BY <1>2 DEF Passed
  <2>2. next \in Elems \cup {NIL} BY <1>1, <1>4, ListElements
  <2>3. c \in Nat BY <1>8
  <2> HIDE DEF p, q, next, c
  <2>4. p \in Positions BY DEF p
  <2> DEFINE r == [p EXCEPT !.entry = next, !.bucket = c]
  <2>5. r \in Positions /\ r.entry = next /\ r.bucket = c
    BY <2>2, <2>3, <2>4 DEF Positions
  <2>6. q = r BY <2>1
  <2> HIDE DEF r
  <2>7. q \in Positions /\ q.entry = next /\ q.bucket = c BY <2>5, <2>6
  <2> QED BY <2>7 DEF c
<1>L. L = chains[b] OBVIOUS
<1> HIDE DEF p, e, b, q, L, next
<1>9. e \in LeftOver(hctl, chains, p) BY <1>1, <1>5, <1>7, <1>L DEF LeftOver, Remains
<1>10. /\ q.entry = next /\ q.bucket = IF next = NIL THEN b + 1 ELSE b BY <1>3
<1>11. ASSUME NEW x \in Elems, NEW c \in Buckets(hctl), x \in Elements(chains[c])
       PROVE  Remains(chains[c], c, q, x) <=> x # e /\ Remains(chains[c], c, p, x)
  <2>1. c \in Nat /\ p.bucket \in Nat BY <1>0, <1>B
  <2>2. CASE c = b
    <3>1. chains[c] = L /\ x \in Elements(L) BY <1>11, <1>L, <2>2
    <3>2. Remains(L, c, p, x) <=> Before(L, e, x) BY <1>1, <2>2, <3>1
    <3>3. Remains(L, c, q, x) <=> next # NIL /\ Before(L, next, x)
      <4>1. CASE next = NIL
        <5>1. q.bucket = b + 1 BY <1>10, <4>1
        <5>2. ~ (c > q.bucket) /\ c # q.bucket BY <1>8, <2>2, <5>1
        <5> QED BY <4>1, <5>2 DEF Remains
      <4>2. CASE next # NIL
        <5>1. q.bucket = b /\ q.entry = next BY <1>10, <4>2
        <5>2. ~ (c > q.bucket) /\ c = q.bucket BY <1>8, <2>2, <5>1
        <5> QED BY <4>2, <5>1, <5>2 DEF Remains
      <4> QED BY <4>1, <4>2
    <3>4. (next # NIL /\ Before(L, next, x)) <=> (x # e /\ Before(L, e, x))
      BY <1>4
    <3> QED BY <3>1, <3>2, <3>3, <3>4
  <2>3. CASE c # b
    <3>1. x # e BY <1>6, <1>11, <2>3
    <3>2. c > b \/ c < b BY <1>8, <2>1, <2>3
    <3>3. CASE c > b
      <4>1. c > p.bucket BY <1>1, <1>8, <2>1, <3>3
      <4>2. c > q.bucket \/ (c = q.bucket /\ q.entry = NIL)
        <5>1. CASE next = NIL BY <1>8, <1>10, <2>1, <3>3, <5>1
        <5>2. CASE next # NIL BY <1>8, <1>10, <2>1, <3>3, <5>2
        <5> QED BY <5>1, <5>2
      <4> QED BY <3>1, <4>1, <4>2 DEF Remains
    <3>4. CASE c < b
      <4>1. ~ (c >= p.bucket) BY <1>1, <1>11, <3>4
      <4>2. ~ (c > p.bucket) /\ c # p.bucket BY <2>1, <4>1
      <4>3. ~ (c > q.bucket) /\ c # q.bucket BY <1>8, <1>10, <2>1, <3>4
      <4> QED BY <4>2, <4>3 DEF Remains
    <3> QED BY <3>2, <3>3, <3>4
  <2> QED BY <2>2, <2>3
<1>12. LeftOver(hctl, chains, q) = LeftOver(hctl, chains, p) \ {e}
  <2>1. ASSUME NEW x \in LeftOver(hctl, chains, q)
        PROVE  x \in LeftOver(hctl, chains, p) \ {e}
    BY <1>11, <2>1 DEF LeftOver
  <2>2. ASSUME NEW x \in LeftOver(hctl, chains, p) \ {e}
        PROVE  x \in LeftOver(hctl, chains, q)
    BY <1>11, <2>2 DEF LeftOver
  <2> QED BY <2>1, <2>2
<1>13. q.entry # NIL => q.bucket = b /\ q.entry \in Elements(chains[b]) /\ q.entry # e
  BY <1>4, <1>10, <1>L
<1>14. b \in Buckets(hctl) /\ e \in Elements(chains[b]) BY <1>1, <1>L
<1> QED BY <1>3, <1>9, <1>12, <1>13, <1>14 DEF p, e, b, q

\* A search that finds nothing more leaves nothing over.
LEMMA NothingLeft ==
  ASSUME StoreInv, NEW s \in Scans, scan[s] \in Positions,
         scan[s].entry = NIL, Ahead(s) = {}
  PROVE  LeftOver(hctl, chains, scan[s]) = {}
<1> SUFFICES ASSUME NEW e \in LeftOver(hctl, chains, scan[s]) PROVE FALSE OBVIOUS
<1>1. PICK b \in Buckets(hctl) : /\ e \in Elements(chains[b])
                                 /\ b > scan[s].bucket \/ b = scan[s].bucket
  BY DEF LeftOver, Remains
<1>2. chains[b] # <<>> BY <1>1 DEF Elements
<1>3. hctl.max_bucket \in Nat /\ scan[s].bucket \in Nat
  BY ShapeNumbers DEF StoreInv, Positions
<1>4. b \in Nat BY <1>3 DEF Buckets
<1>5. b >= scan[s].bucket BY <1>1, <1>3, <1>4
<1> QED BY <1>1, <1>2, <1>5 DEF Ahead

----------------------------------------------------------------------------
(* The steps of a scan, and under a scan *)

\* A removal that leaves a scan sure is of the element it returned last.
LEMMA RemoveTracked ==
  ASSUME StoreInv, NEW k \in Keys, HASH_REMOVE(k), NEW s \in Scans,
         Tracked(hctl, chains, key, InUse \cup Unused, scan[s], visit[s])
  PROVE  Tracked(hctl', chains', key', InUse' \cup Unused', scan'[s], visit'[s])
<1> DEFINE e == HASH_FIND(k)
           b == calc_bucket(hctl, hash[k])
           p == scan[s]
           v == visit[s]
<1>1. /\ e \in InUse /\ key[e] = k /\ b \in Buckets(hctl) /\ e \in Elements(chains[b])
      /\ InUse' = InUse \ {e} /\ Unused' = Unused \cup {e}
      /\ chains'[b] = Without(chains[b], e)
      /\ \A c \in Buckets(hctl) \ {b} : chains'[c] = chains[c]
      /\ key' = [key EXCEPT ![e] = NIL] /\ hctl' = hctl
  BY RemoveStored
<1>2. /\ scan' = scan
      /\ visit'[s] = IF v.state = "sure" /\ v.last # k THEN Unsure ELSE v
  BY DEF HASH_REMOVE, Unsettled
<1>3. /\ p \in Positions /\ v \in Visits /\ p.entry \in InUse \cup Unused \cup {NIL}
      /\ v.state = "closed" => v = Closed
      /\ v.state = "unsure" => v = Unsure
      /\ v.state = "sure" => OnTrack(hctl, chains, key, p, v)
  BY DEF Tracked
<1> HIDE DEF e, b, p, v
<1>4. p.entry \in InUse' \cup Unused' \cup {NIL} BY <1>1, <1>3
<1>s. scan'[s] = p BY <1>2 DEF p
<1>5. CASE ~ (v.state = "sure" /\ v.last = k)
  <2>1. visit'[s] = Unsure \/ visit'[s] = Closed
    <3>1. v.state \in {"closed", "unsure", "sure"} BY <1>3 DEF Visits
    <3> QED BY <1>2, <1>3, <1>5, <3>1
  <2> QED BY <1>3, <1>4, <1>s, <2>1, Forgotten
<1>6. CASE v.state = "sure" /\ v.last = k
  <2>1. /\ p.entry # NIL => /\ p.bucket \in Buckets(hctl) /\ p.entry \in Elements(chains[p.bucket])
                            /\ key[p.entry] # k
        /\ \A x \in v.due : \E f \in LeftOver(hctl, chains, p) : key[f] = x
        /\ \A f \in LeftOver(hctl, chains, p) : key[f] \notin v.seen
        /\ k \notin v.due
    BY <1>3, <1>6 DEF OnTrack
  <2>2. visit'[s] = v BY <1>2, <1>6
  <2>3. /\ IsList(chains[b])
        /\ Elements(chains'[b]) = Elements(chains[b]) \ {e}
        /\ \A x, y \in Elements(chains'[b]) : Before(chains[b], x, y) => Before(chains'[b], x, y)
        /\ \A x, y : Before(chains'[b], x, y) => Before(chains[b], x, y)
    <3>1. IsList(chains[b]) BY <1>1 DEF StoreInv, Chained
    <3> DEFINE l == chains[b]
               r == Without(l, e)
    <3>2. /\ Elements(r) = Elements(l) \ {e}
          /\ \A x, y \in Elements(r) : Before(l, x, y) => Before(r, x, y)
          /\ \A x, y : Before(r, x, y) => Before(l, x, y)
      BY <1>1, <3>1, WithoutList
    <3>3. chains'[b] = r BY <1>1
    <3> HIDE DEF r
    <3> QED BY <3>1, <3>2, <3>3
  <2>4. p.entry # NIL => /\ p.entry # e /\ p.entry \in Elements(chains'[p.bucket])
                         /\ p.bucket \in Buckets(hctl)
    BY <1>1, <2>1, <2>3
  <2>5. /\ \A x \in Elems \ {e} : key'[x] = key[x]
        /\ InUse \subseteq Elems
    <3>1. InUse \subseteq Elems BY StoreFacts
    <3>2. key \in [Elems -> Keys \cup {NIL}] BY DEF StoreInv
    <3> QED BY <1>1, <3>1, <3>2
  <2>6. ASSUME NEW f \in LeftOver(hctl, chains, p), f # e
        PROVE  f \in LeftOver(hctl, chains', p)
    <3>1. PICK c \in Buckets(hctl) : f \in Elements(chains[c]) /\ Remains(chains[c], c, p, f)
      BY DEF LeftOver
    <3>2. f \in Elems BY DEF LeftOver
    <3>3. CASE c # b BY <1>1, <3>1, <3>2, <3>3 DEF LeftOver
    <3>4. CASE c = b
      <4>1. f \in Elements(chains'[b]) BY <2>3, <2>6, <3>1, <3>4
      <4>2. Remains(chains'[b], b, p, f)
        BY <2>3, <2>4, <3>1, <3>4, <4>1 DEF Remains
      <4> QED BY <1>1, <3>2, <4>1, <4>2 DEF LeftOver
    <3> QED BY <3>3, <3>4
  <2>7. ASSUME NEW f \in LeftOver(hctl, chains', p)
        PROVE  f \in LeftOver(hctl, chains, p) /\ f # e
    <3>1. PICK c \in Buckets(hctl) : f \in Elements(chains'[c]) /\ Remains(chains'[c], c, p, f)
      BY DEF LeftOver
    <3>2. f \in Elems BY DEF LeftOver
    <3>3. CASE c # b
      <4>1. f \in LeftOver(hctl, chains, p) BY <1>1, <3>1, <3>2, <3>3 DEF LeftOver
      <4>2. f # e
        <5>1. f \in Elements(chains[c]) BY <1>1, <3>1, <3>3
        <5> QED BY <1>1, <3>3, <5>1 DEF StoreInv, Chained
      <4> QED BY <4>1, <4>2
    <3>4. CASE c = b
      <4>1. f \in Elements(chains[b]) /\ f # e BY <2>3, <3>1, <3>4
      <4>2. Remains(chains[b], b, p, f)
        BY <2>3, <3>1, <3>4 DEF Remains
      <4> QED BY <1>1, <3>2, <4>1, <4>2 DEF LeftOver
    <3> QED BY <3>3, <3>4
  <2>8. ASSUME NEW x \in v.due PROVE \E f \in LeftOver(hctl, chains', p) : key'[f] = x
    <3>1. PICK f \in LeftOver(hctl, chains, p) : key[f] = x BY <2>1
    <3>2. f # e BY <1>1, <2>1, <3>1
    <3>3. f \in Elems BY DEF LeftOver
    <3> QED BY <2>5, <2>6, <3>1, <3>2, <3>3
  <2>9. ASSUME NEW f \in LeftOver(hctl, chains', p) PROVE key'[f] \notin v.seen
    <3>1. f \in LeftOver(hctl, chains, p) /\ f # e BY <2>7
    <3>2. f \in Elems BY DEF LeftOver
    <3> QED BY <2>1, <2>5, <3>1, <3>2
  <2>10. p.entry # NIL => key'[p.entry] # k
    <3>1. p.entry \in Elems \cup {NIL} BY <1>3 DEF Positions
    <3> QED BY <2>1, <2>4, <2>5, <3>1
  <2>11. OnTrack(hctl', chains', key', p, v)
    BY <1>1, <1>6, <2>1, <2>4, <2>8, <2>9, <2>10 DEF OnTrack
  <2> QED BY <1>3, <1>4, <1>6, <1>s, <2>2, <2>11 DEF Tracked
<1> QED BY <1>5, <1>6

\* While a scan is registered no bucket is split, and what is entered goes
\* to the end of a chain.
LEMMA EnterTracked ==
  ASSUME StoreInv, GuardedInv, NEW k \in Keys, HASH_ENTER(k), NEW s \in Scans,
         Tracked(hctl, chains, key, InUse \cup Unused, scan[s], visit[s])
  PROVE  Tracked(hctl', chains', key', InUse' \cup Unused', scan'[s], visit'[s])
<1> DEFINE b == calc_bucket(hctl, hash[k])
           p == scan[s]
           v == visit[s]
<1>1. PICK e \in Elems \ InUse :
              /\ InUse' = InUse \cup {e}
              /\ key' = [key EXCEPT ![e] = k]
              /\ InUse \cup Unused \subseteq InUse' \cup Unused'
              /\ registered > 0 =>
                       /\ b \in Buckets(hctl) /\ hctl' = hctl
                       /\ chains'[b] = Append(chains[b], e)
                       /\ \A c \in Buckets(hctl) \ {b} : chains'[c] = chains[c]
  BY EnterStored
<1>2. /\ scan' = scan
      /\ visit'[s] = IF v.state # "sure" THEN v ELSE IF frozen THEN Unsure
                     ELSE [v EXCEPT !.seen = @ \ {k}]
  BY DEF HASH_ENTER, Joined
<1>3. /\ p \in Positions /\ v \in Visits /\ p.entry \in InUse \cup Unused \cup {NIL}
      /\ v.state = "closed" => v = Closed
      /\ v.state = "unsure" => v = Unsure
      /\ v.state = "sure" => OnTrack(hctl, chains, key, p, v)
  BY DEF Tracked
<1>r. v.state = "sure" /\ ~ frozen => registered > 0
  <2> SUFFICES ASSUME v.state = "sure", ~ frozen PROVE registered > 0 OBVIOUS
  <2>1. Open(s) BY DEF Open
  <2>2. s \in Counted BY <2>1 DEF GuardedInv, Counted
  <2>3. IsFiniteSet(Counted) BY CountedFinite
  <2>4. Cardinality(Counted) \in Nat /\ Cardinality(Counted) # 0
    BY <2>2, <2>3, FS_CardinalityType, FS_EmptySet
  <2>5. Cardinality(Counted) <= registered /\ registered \in Nat
    BY DEF GuardedInv, Guarded, Counted
  <2> QED BY <2>4, <2>5
<1> HIDE DEF b, p, v
<1>4. p.entry \in InUse' \cup Unused' \cup {NIL} BY <1>1, <1>3
<1>s. scan'[s] = p BY <1>2 DEF p
<1>5. CASE v.state # "sure" \/ frozen
  <2>1. visit'[s] = Unsure \/ visit'[s] = Closed
    <3>1. v.state \in {"closed", "unsure", "sure"} BY <1>3 DEF Visits
    <3> QED BY <1>2, <1>3, <1>5, <3>1
  <2> QED BY <1>3, <1>4, <1>s, <2>1, Forgotten
<1>6. CASE v.state = "sure" /\ ~ frozen
  <2> DEFINE w == visit'[s]
  <2>1. /\ p.entry # NIL => /\ p.bucket \in Buckets(hctl) /\ p.entry \in Elements(chains[p.bucket])
                            /\ key[p.entry] # v.last
        /\ \A x \in v.due : \E f \in LeftOver(hctl, chains, p) : key[f] = x
        /\ \A f \in LeftOver(hctl, chains, p) : key[f] \notin v.seen
        /\ v.last \notin v.due
    BY <1>3, <1>6 DEF OnTrack
  <2>2. /\ w \in Visits /\ w.state = "sure" /\ w.seen = v.seen \ {k}
        /\ w.due = v.due /\ w.last = v.last
    <3>1. w = [v EXCEPT !.seen = @ \ {k}] BY <1>2, <1>6
    <3> HIDE DEF w
    <3> QED BY <1>3, <1>6, <3>1 DEF Visits
  <2> HIDE DEF w
  <2>3. /\ b \in Buckets(hctl) /\ hctl' = hctl
        /\ chains'[b] = Append(chains[b], e)
        /\ \A c \in Buckets(hctl) \ {b} : chains'[c] = chains[c]
    BY <1>1, <1>6, <1>r
  <2>4. /\ Elements(chains'[b]) = Elements(chains[b]) \cup {e}
        /\ \A x, y \in Elements(chains[b]) :
              Before(chains'[b], x, y) <=> Before(chains[b], x, y)
    <3>1. IsList(chains[b]) BY <2>3 DEF StoreInv, Chained
    <3> DEFINE l == chains[b]
               r == Append(l, e)
    <3>2. e \notin Elements(l) BY <1>1, <2>3 DEF InUse
    <3>3. /\ Elements(r) = Elements(l) \cup {e}
          /\ \A x, y \in Elements(l) : Before(r, x, y) <=> Before(l, x, y)
      BY <1>1, <3>1, <3>2, AppendList
    <3>4. chains'[b] = r BY <2>3
    <3> HIDE DEF r
    <3> QED BY <3>3, <3>4
  <2>5. p.entry # NIL => /\ p.entry # e /\ p.entry \in Elements(chains'[p.bucket])
                         /\ p.bucket \in Buckets(hctl)
    <3>1. p.entry # NIL => p.entry \in InUse BY <2>1 DEF InUse
    <3> QED BY <1>1, <2>1, <2>3, <2>4, <3>1
  <2>6. /\ \A x \in Elems \ {e} : key'[x] = key[x]
        /\ key'[e] = k
    <3>1. key \in [Elems -> Keys \cup {NIL}] BY DEF StoreInv
    <3> QED BY <1>1, <3>1
  <2>7. ASSUME NEW c \in Buckets(hctl), NEW f \in Elements(chains[c])
        PROVE  /\ f \in Elements(chains'[c]) /\ f # e
               /\ Remains(chains'[c], c, p, f) <=> Remains(chains[c], c, p, f)
    <3>1. f # e BY <1>1 DEF InUse
    <3>2. CASE c # b BY <2>3, <3>1, <3>2
    <3>3. CASE c = b
      <4>1. f \in Elements(chains'[c]) BY <2>4, <3>3
      <4>2. (p.entry # NIL /\ c = p.bucket) =>
              (Before(chains'[c], p.entry, f) <=> Before(chains[c], p.entry, f))
        BY <2>1, <2>4, <3>3
      <4> QED BY <3>1, <4>1, <4>2 DEF Remains
    <3> QED BY <3>2, <3>3
  <2>8. ASSUME NEW f \in LeftOver(hctl, chains, p)
        PROVE  f \in LeftOver(hctl, chains', p) /\ f # e /\ f \in Elems
    BY <2>7 DEF LeftOver
  <2>9. ASSUME NEW f \in LeftOver(hctl, chains', p), f # e
        PROVE  f \in LeftOver(hctl, chains, p)
    <3>1. PICK c \in Buckets(hctl) : f \in Elements(chains'[c]) /\ Remains(chains'[c], c, p, f)
      BY DEF LeftOver
    <3>2. f \in Elems BY DEF LeftOver
    <3>3. f \in Elements(chains[c])
      <4>1. CASE c # b BY <2>3, <3>1, <4>1
      <4>2. CASE c = b BY <2>4, <2>9, <3>1, <4>2
      <4> QED BY <4>1, <4>2
    <3> QED BY <2>7, <3>1, <3>2, <3>3 DEF LeftOver
  <2>10. ASSUME NEW x \in w.due PROVE \E f \in LeftOver(hctl, chains', p) : key'[f] = x
    <3>1. PICK f \in LeftOver(hctl, chains, p) : key[f] = x BY <2>1, <2>2
    <3> QED BY <2>6, <2>8, <3>1
  <2>11. ASSUME NEW f \in LeftOver(hctl, chains', p) PROVE key'[f] \notin w.seen
    <3>1. CASE f = e BY <2>2, <2>6, <3>1
    <3>2. CASE f # e
      <4>1. f \in LeftOver(hctl, chains, p) BY <2>9, <3>2
      <4>2. key'[f] = key[f] BY <2>6, <2>8, <4>1
      <4> QED BY <2>1, <2>2, <4>1, <4>2
    <3> QED BY <3>1, <3>2
  <2>12. p.entry # NIL => key'[p.entry] # w.last
    <3>1. p.entry \in Elems \cup {NIL} BY <1>3 DEF Positions
    <3> QED BY <2>1, <2>2, <2>5, <2>6, <3>1
  <2>13. OnTrack(hctl', chains', key', p, w)
    BY <2>1, <2>2, <2>3, <2>5, <2>10, <2>11, <2>12 DEF OnTrack
  <2>14. Tracked(hctl', chains', key', InUse' \cup Unused', p, w)
    BY <1>3, <1>4, <2>2, <2>13 DEF Tracked
  <2> QED BY <1>s, <2>14 DEF w
<1> QED BY <1>5, <1>6

\* A scan that begins has everything before it.
LEMMA BeginTracked ==
  ASSUME StoreInv, NEW s \in Scans
  PROVE  LET start == [bucket |-> 0, entry |-> NIL, registers |-> ~ frozen]
             begun == [state |-> "sure", seen |-> {},
                       due |-> Keys \cap {key[e] : e \in Elems}, last |-> NIL]
         IN  Tracked(hctl, chains, key, InUse \cup Unused, start, begun)
<1> DEFINE due == Keys \cap {key[e] : e \in Elems}
           start == [bucket |-> 0, entry |-> NIL, registers |-> ~ frozen]
           begun == [state |-> "sure", seen |-> {}, due |-> due, last |-> NIL]
<1>1. start \in Positions /\ start.entry = NIL /\ start.bucket = 0 BY DEF Positions
<1>2. due \subseteq Keys OBVIOUS
<1>3. NIL \notin Keys BY HashTableAssumption
<1>4. ASSUME NEW x \in due PROVE \E e \in LeftOver(hctl, chains, start) : key[e] = x
  <2>1. PICK e \in Elems : key[e] = x OBVIOUS
  <2>2. e \in InUse BY <1>2, <2>1 DEF StoreInv
  <2>3. PICK b \in Buckets(hctl) : e \in Elements(chains[b]) BY <2>2 DEF InUse
  <2>4. b > 0 \/ b = 0
    <3>1. hctl.max_bucket \in Nat BY ShapeNumbers DEF StoreInv
    <3> QED BY <3>1 DEF Buckets
  <2>5. Remains(chains[b], b, start, e) BY <1>1, <2>4 DEF Remains
  <2> QED BY <2>1, <2>3, <2>5 DEF LeftOver
<1> HIDE DEF due
<1>5. begun \in Visits BY <1>2 DEF Visits
<1>6. /\ begun.state = "sure" /\ begun.seen = {} /\ begun.due = due /\ begun.last = NIL
  OBVIOUS
<1> HIDE DEF start, begun
<1>7. OnTrack(hctl, chains, key, start, begun)
  BY <1>1, <1>2, <1>3, <1>4, <1>6 DEF OnTrack
<1>8. Tracked(hctl, chains, key, InUse \cup Unused, start, begun)
  BY <1>1, <1>5, <1>6, <1>7 DEF Tracked
<1> QED BY <1>8 DEF start, begun, due

\* What a search returns has not been returned before.
LEMMA SearchTracked ==
  ASSUME StoreInv, NEW s \in Scans, hash_seq_search(s), visit[s].state = "sure",
         Tracked(hctl, chains, key, InUse \cup Unused, scan[s], visit[s])
  PROVE  LET k == key[At(s)]
             w == [visit[s] EXCEPT !.seen = @ \cup {k}, !.due = @ \ {k}, !.last = k]
         IN  /\ Tracked(hctl, chains, key, InUse \cup Unused, Passed(s), w)
             /\ k \in Keys /\ At(s) \in InUse /\ k \notin visit[s].seen
<1> DEFINE p == scan[s]
           v == visit[s]
           e == At(s)
           b == AtBucket(s)
           q == Passed(s)
           k == key[e]
           w == [v EXCEPT !.seen = @ \cup {k}, !.due = @ \ {k}, !.last = k]
<1>1. /\ p \in Positions /\ v \in Visits
      /\ p.entry # NIL => /\ p.bucket \in Buckets(hctl) /\ p.entry \in Elements(chains[p.bucket])
                          /\ key[p.entry] # v.last
      /\ \A x \in v.due : \E f \in LeftOver(hctl, chains, p) : key[f] = x
      /\ \A f \in LeftOver(hctl, chains, p) : key[f] \notin v.seen
      /\ v.last \notin v.due
  BY DEF Tracked, OnTrack
<1>2. p.entry # NIL \/ Ahead(s) # {} BY DEF hash_seq_search
<1>3. /\ b \in Buckets(hctl) /\ e \in Elements(chains[b])
      /\ e \in LeftOver(hctl, chains, p)
      /\ q \in Positions
      /\ q.entry # NIL => q.bucket = b /\ q.entry \in Elements(chains[b]) /\ q.entry # e
      /\ LeftOver(hctl, chains, q) = LeftOver(hctl, chains, p) \ {e}
  BY <1>1, <1>2, SearchTakes
<1>4. /\ \A c \in Buckets(hctl) : Elements(chains[c]) \subseteq InUse
      /\ LeftOver(hctl, chains, p) \subseteq InUse
  BY DEF InUse, LeftOver
<1>5. e \in InUse /\ key[e] \in Keys BY <1>3, <1>4, StoreFacts DEF StoreInv
<1>6. \A f \in InUse \ {e} : key[f] # key[e] BY <1>5 DEF StoreInv
<1>k. k = key[e] OBVIOUS
<1>v. v.state = "sure" OBVIOUS
<1> HIDE DEF p, v, e, b, q, k
<1>7. /\ w \in Visits /\ w.state = "sure" /\ w.seen = v.seen \cup {k}
      /\ w.due = v.due \ {k} /\ w.last = k
  BY <1>1, <1>5, <1>k, <1>v DEF Visits
<1> HIDE DEF w
<1>8. q.entry # NIL => key[q.entry] # w.last
  BY <1>3, <1>4, <1>6, <1>7, <1>k
<1>9. ASSUME NEW x \in w.due PROVE \E f \in LeftOver(hctl, chains, q) : key[f] = x
  <2>1. x \in v.due /\ x # k BY <1>7
  <2>2. PICK f \in LeftOver(hctl, chains, p) : key[f] = x BY <1>1, <2>1
  <2> QED BY <1>3, <1>k, <2>1, <2>2
<1>10. ASSUME NEW f \in LeftOver(hctl, chains, q) PROVE key[f] \notin w.seen
  <2>1. f \in LeftOver(hctl, chains, p) /\ f # e BY <1>3
  <2>2. key[f] # k BY <1>4, <1>6, <1>k, <2>1
  <2> QED BY <1>1, <1>7, <2>1, <2>2
<1>11. w.last \notin w.due BY <1>7
<1>12. OnTrack(hctl, chains, key, q, w)
  BY <1>3, <1>8, <1>9, <1>10, <1>11 DEF OnTrack
<1>13. q.entry \in InUse \cup Unused \cup {NIL} BY <1>3, <1>4
<1>14. Tracked(hctl, chains, key, InUse \cup Unused, q, w)
  BY <1>3, <1>7, <1>12, <1>13 DEF Tracked
<1>15. k \in Keys /\ e \in InUse /\ k \notin v.seen BY <1>1, <1>3, <1>5, <1>k
<1> QED BY <1>14, <1>15 DEF p, v, e, q, k, w

----------------------------------------------------------------------------
(* The invariant *)

\* The inductive invariant.
HashTableInv ==
  /\ conf \in Configs /\ halted \in BOOLEAN
  /\ StoreInv
  /\ GuardedInv
  /\ ScanInv

\* One scan moves, the table stays as it is.
LEMMA OneScan ==
  ASSUME ScanInv, UNCHANGED store, NEW s \in Scans, NEW p, NEW v,
         Tracked(hctl, chains, key, InUse \cup Unused, p, v),
         scan' = [scan EXCEPT ![s] = p], visit' = [visit EXCEPT ![s] = v]
  PROVE  ScanInv'
<1>1. /\ scan = [x \in Scans |-> scan[x]] /\ visit = [x \in Scans |-> visit[x]]
      /\ \A x \in Scans : Tracked(hctl, chains, key, InUse \cup Unused, scan[x], visit[x])
  BY DEF ScanInv
<1>2. /\ scan' = [x \in Scans |-> scan'[x]] /\ visit' = [x \in Scans |-> visit'[x]]
      /\ \A x \in Scans : /\ scan'[x] = IF x = s THEN p ELSE scan[x]
                          /\ visit'[x] = IF x = s THEN v ELSE visit[x]
  BY <1>1
<1>3. hctl' = hctl /\ chains' = chains /\ key' = key /\ InUse' = InUse /\ Unused' = Unused
  BY DEF store, InUse, Unused
<1>4. \A x \in Scans : Tracked(hctl', chains', key', InUse' \cup Unused', scan'[x], visit'[x])
  BY <1>1, <1>2, <1>3
<1> QED BY <1>2, <1>4 DEF ScanInv

\* The due of a scan that finds nothing more.
LEMMA EndSettled ==
  ASSUME StoreInv, ScanInv, NEW s \in Scans, EndOfScan(s)
  PROVE  /\ visit[s].due = {} /\ visit[s].state \in {"unsure", "sure"}
         /\ visit' = [visit EXCEPT ![s] = Closed]
<1>1. /\ scan[s] \in Positions /\ visit[s] \in Visits
      /\ visit[s].state = "unsure" => visit[s] = Unsure
      /\ visit[s].state = "sure" =>
           \A x \in visit[s].due : \E f \in LeftOver(hctl, chains, scan[s]) : key[f] = x
  BY DEF ScanInv, Tracked, OnTrack
<1>2. scan[s].entry = NIL /\ Ahead(s) = {} /\ visit[s].state # "closed"
  BY DEF EndOfScan, Open
<1>3. LeftOver(hctl, chains, scan[s]) = {} BY <1>1, <1>2, NothingLeft
<1>4. visit[s].state \in {"unsure", "sure"} BY <1>1, <1>2 DEF Visits
<1>5. visit[s].due = {}
  <2>1. CASE visit[s].state = "unsure" BY <1>1, <2>1, VisitFacts
  <2>2. CASE visit[s].state = "sure" BY <1>1, <1>3, <2>2
  <2> QED BY <1>4, <2>1, <2>2
<1>6. [Closed EXCEPT !.due = {}] = Closed BY VisitFacts
<1>7. visit' = [visit EXCEPT ![s] = [Closed EXCEPT !.due = visit[s].due]] BY DEF EndOfScan
<1> QED BY <1>4, <1>5, <1>6, <1>7

\* A scan that was passed over by a removal goes on through the free list,
\* and does not leave the memory of the table.
LEMMA UnsureMoves ==
  ASSUME StoreInv, ScanInv, NEW s \in Scans, hash_seq_search(s)
  PROVE  Passed(s) \in Positions /\ Passed(s).entry \in InUse \cup Unused \cup {NIL}
<1> DEFINE p == scan[s]
           next == link(At(s))
           c == IF next = NIL THEN AtBucket(s) + 1 ELSE AtBucket(s)
<1>1. p \in Positions /\ p.entry \in InUse \cup Unused \cup {NIL}
  BY DEF ScanInv, Tracked
<1>2. p.entry # NIL \/ Ahead(s) # {} BY DEF hash_seq_search
<1>3. CASE p.entry # NIL
  <2>1. At(s) = p.entry /\ AtBucket(s) = p.bucket BY <1>3 DEF At, AtBucket
  <2>2. next \in InUse \cup Unused \cup {NIL} BY <1>1, <1>3, <2>1, LinkFound
  <2>3. c \in Nat
    <3>1. p.bucket \in Nat BY <1>1 DEF Positions
    <3> QED BY <2>1, <3>1
  <2>4. InUse \cup Unused \subseteq Elems BY StoreFacts
  <2>5. Passed(s) = [p EXCEPT !.entry = next, !.bucket = c] BY DEF Passed
  <2> HIDE DEF p, next, c
  <2>6. next \in Elems \cup {NIL} BY <2>2, <2>4
  <2> DEFINE q == [p EXCEPT !.entry = next, !.bucket = c]
  <2>7. q \in Positions /\ q.entry = next BY <1>1, <2>3, <2>6 DEF Positions
  <2>8. Passed(s) = q BY <2>5
  <2> HIDE DEF q
  <2> QED BY <2>2, <2>7, <2>8
<1>4. CASE p.entry = NIL
  <2> DEFINE q == Passed(s)
             b == AtBucket(s)
  <2>1. /\ b \in Buckets(hctl) /\ q \in Positions
        /\ q.entry # NIL => q.entry \in Elements(chains[b])
    BY <1>1, <1>2, <1>4, SearchTakes
  <2> HIDE DEF q, b
  <2>2. q \in Positions /\ q.entry \in InUse \cup {NIL} BY <2>1 DEF InUse
  <2> QED BY <2>2 DEF q
<1> QED BY <1>3, <1>4

\* One step per action; those that leave the scans alone are the first case.
LEMMA NextScan ==
  ASSUME HashTableInv, [Next]_vars
  PROVE  ScanInv'
<1>0. /\ StoreInv /\ GuardedInv /\ ScanInv
      /\ scan = [x \in Scans |-> scan[x]] /\ visit = [x \in Scans |-> visit[x]]
      /\ \A x \in Scans : Tracked(hctl, chains, key, InUse \cup Unused, scan[x], visit[x])
  BY DEF HashTableInv, ScanInv
<1>i. Idle \in Positions /\ Tracked(hctl, chains, key, InUse \cup Unused, Idle, Closed)
  BY VisitFacts, Forgotten
<1>1. CASE UNCHANGED <<store, scan, visit>>
  BY <1>0, <1>1 DEF store, ScanInv, InUse, Unused
<1>2. ASSUME NEW k \in Keys, HASH_REMOVE(k) PROVE ScanInv'
  <2>1. \A s \in Scans : Tracked(hctl', chains', key', InUse' \cup Unused', scan'[s], visit'[s])
    BY <1>0, <1>2, RemoveTracked
  <2>2. scan' = scan /\ visit' = [x \in Scans |-> visit'[x]]
    BY <1>2 DEF HASH_REMOVE, Unsettled
  <2> QED BY <1>0, <2>1, <2>2 DEF ScanInv
<1>3. ASSUME NEW k \in Keys, HASH_ENTER(k) PROVE ScanInv'
  <2>1. \A s \in Scans : Tracked(hctl', chains', key', InUse' \cup Unused', scan'[s], visit'[s])
    BY <1>0, <1>3, EnterTracked
  <2>2. scan' = scan /\ visit' = [x \in Scans |-> visit'[x]]
    BY <1>3 DEF HASH_ENTER, Joined
  <2> QED BY <1>0, <2>1, <2>2 DEF ScanInv
<1>4. ASSUME NEW s \in Scans, hash_seq_init(s) PROVE ScanInv'
  <2> DEFINE start == [bucket |-> 0, entry |-> NIL, registers |-> ~ frozen]
             begun == [state |-> "sure", seen |-> {},
                       due |-> Keys \cap {key[e] : e \in Elems}, last |-> NIL]
  <2>1. Tracked(hctl, chains, key, InUse \cup Unused, start, begun)
    BY <1>0, BeginTracked
  <2>2. /\ UNCHANGED store
        /\ scan' = [scan EXCEPT ![s] = start] /\ visit' = [visit EXCEPT ![s] = begun]
    BY <1>4 DEF hash_seq_init
  <2> HIDE DEF start, begun
  <2> QED BY <1>0, <2>1, <2>2, OneScan
<1>5. ASSUME NEW s \in Scans, hash_seq_search(s) PROVE ScanInv'
  <2>1. /\ UNCHANGED store /\ scan' = [scan EXCEPT ![s] = Passed(s)]
        /\ visit[s].state # "closed"
    BY <1>5 DEF hash_seq_search, Open
  <2>2. CASE visit[s].state = "sure"
    <3> DEFINE k == key[At(s)]
               w == [visit[s] EXCEPT !.seen = @ \cup {k}, !.due = @ \ {k}, !.last = k]
    <3>1. visit[s] # Unsure BY <2>2, VisitFacts
    <3>2. visit' = [visit EXCEPT ![s] = w] BY <1>5, <3>1 DEF hash_seq_search
    <3>3. Tracked(hctl, chains, key, InUse \cup Unused, Passed(s), w)
      BY <1>0, <1>5, <2>2, SearchTracked
    <3> HIDE DEF w
    <3> QED BY <1>0, <2>1, <3>2, <3>3, OneScan
  <2>3. CASE visit[s].state # "sure"
    <3>1. visit[s] \in Visits /\ (visit[s].state = "unsure" => visit[s] = Unsure)
      BY <1>0 DEF Tracked
    <3>2. visit[s] = Unsure BY <2>1, <2>3, <3>1 DEF Visits
    <3>3. visit' = visit BY <1>5, <3>2 DEF hash_seq_search
    <3>4. visit' = [visit EXCEPT ![s] = Unsure] BY <1>0, <3>2, <3>3
    <3>5. Passed(s) \in Positions /\ Passed(s).entry \in InUse \cup Unused \cup {NIL}
      BY <1>0, <1>5, UnsureMoves
    <3>6. Tracked(hctl, chains, key, InUse \cup Unused, Passed(s), Unsure)
      BY <3>5, Forgotten
    <3> QED BY <1>0, <2>1, <3>4, <3>6, OneScan
  <2> QED BY <2>2, <2>3
<1>6. ASSUME NEW s \in Scans, EndOfScan(s) PROVE ScanInv'
  <2>1. UNCHANGED store /\ scan' = [scan EXCEPT ![s] = Idle] BY <1>6 DEF EndOfScan, Term
  <2>2. visit' = [visit EXCEPT ![s] = Closed] BY <1>0, <1>6, EndSettled
  <2> QED BY <1>0, <1>i, <2>1, <2>2, OneScan
<1>7. ASSUME NEW s \in Scans, hash_seq_term(s) PROVE ScanInv'
  <2>1. /\ UNCHANGED store /\ scan' = [scan EXCEPT ![s] = Idle]
        /\ visit' = [visit EXCEPT ![s] = Closed]
    BY <1>7 DEF hash_seq_term, Term
  <2> QED BY <1>0, <1>i, <2>1, OneScan
<1>8. CASE AtEOXact_HashTables
  <2>1. /\ UNCHANGED store /\ scan' = [s \in Scans |-> Idle]
        /\ visit' = [s \in Scans |-> Closed]
    BY <1>8 DEF AtEOXact_HashTables
  <2>2. hctl' = hctl /\ chains' = chains /\ key' = key /\ InUse' = InUse /\ Unused' = Unused
    BY <2>1 DEF store, InUse, Unused
  <2> QED BY <1>i, <2>1, <2>2 DEF ScanInv
<1> QED
  BY <1>1, <1>2, <1>3, <1>4, <1>5, <1>6, <1>7, <1>8
  DEF Next, vars, store, tracking, HASH_ENTER_fails, hash_freeze

LEMMA NextHashTable == HashTableInv /\ [Next]_vars => HashTableInv'
<1> SUFFICES ASSUME HashTableInv, [Next]_vars PROVE HashTableInv' OBVIOUS
<1>1. StoreInv' /\ GuardedInv' BY NextStored, NextGuarded DEF HashTableInv
<1>2. ScanInv' BY NextScan
<1>3. conf' = conf
  BY DEF Next, vars, HASH_REMOVE, HASH_ENTER, HASH_ENTER_fails, hash_seq_init,
         hash_seq_search, EndOfScan, hash_seq_term, hash_freeze, AtEOXact_HashTables
<1>4. halted' = halted \/ halted' = TRUE
  BY DEF Next, vars, HASH_REMOVE, HASH_ENTER, HASH_ENTER_fails, hash_seq_init,
         hash_seq_search, EndOfScan, hash_seq_term, hash_freeze, AtEOXact_HashTables
<1> QED BY <1>1, <1>2, <1>3, <1>4 DEF HashTableInv

LEMMA InitHashTable == Init => HashTableInv
BY InitStored, InitGuarded, InitScan DEF Init, HashTableInv

LEMMA HashTableInvHolds == Spec => []HashTableInv
BY InitHashTable, NextHashTable, PTL DEF Spec

\* Every variable keeps its type; a pointer is NIL or an element of the table,
\* whatever is removed under a scan (hash_seq_search).
THEOREM TypeCorrect == Spec => []TypeOK
<1>1. ASSUME HashTableInv PROVE TypeOK
  <2>1. conf \in Configs /\ halted \in BOOLEAN /\ StoreInv /\ GuardedInv /\ ScanInv
    BY <1>1 DEF HashTableInv
  <2>2. /\ hctl \in Geometries /\ key \in [Elems -> Keys \cup {NIL}]
        /\ Chained(hctl, chains, key) /\ IsList(freeList)
    BY <2>1 DEF StoreInv, ShapeInv
  <2>3. DOMAIN chains = Buckets(hctl) BY <2>2 DEF Chained
  <2>4. \A b \in DOMAIN chains : Elements(chains[b]) \subseteq Elems
    BY <2>2, <2>3, ListElements DEF Chained
  <2>5. Elements(freeList) \subseteq Elems BY <2>2, ListElements
  <2>6. nentries \in Nat BY <2>1, StoreFacts
  <2>7. registered \in Nat /\ frozen \in BOOLEAN BY <2>1 DEF GuardedInv
  <2>8. scan \in [Scans -> Positions] /\ visit \in [Scans -> Visits]
    <3>1. scan = [x \in Scans |-> scan[x]] /\ visit = [x \in Scans |-> visit[x]]
      BY <2>1 DEF ScanInv
    <3>2. \A x \in Scans : scan[x] \in Positions /\ visit[x] \in Visits
      BY <2>1 DEF ScanInv, Tracked
    <3> QED BY <3>1, <3>2
  <2> QED BY <2>1, <2>2, <2>3, <2>4, <2>5, <2>6, <2>7, <2>8 DEF TypeOK
<1> QED BY HashTableInvHolds, <1>1, PTL

----------------------------------------------------------------------------
(* The map *)

\* The entries of the map are the elements in use, by key.
Faithful ==
  /\ Present = {key[e] : e \in InUse} /\ Present \subseteq Keys
  /\ \A k \in Present : HASH_FIND(k) \in InUse /\ key[HASH_FIND(k)] = k
  /\ \A k \in Keys \ Present : HASH_FIND(k) = NIL
  /\ \A k \in Keys : \A e \in InUse : key[e] = k => HASH_FIND(k) = e

\* FIND by the keys in use gives the elements in use, one each.
LEMMA EntriesFound == StoreInv => Faithful
<1> SUFFICES ASSUME StoreInv PROVE Faithful OBVIOUS
<1>1. /\ InUse \subseteq Elems /\ NIL \notin Elems /\ NIL \notin Keys
      /\ \A e \in Elems \ InUse : key[e] = NIL
  BY StoreFacts
<1>2. \A e \in InUse : key[e] \in Keys BY <1>1 DEF StoreInv
<1>3. Present = {key[e] : e \in InUse} BY <1>1, <1>2 DEF Present
<1>4. Present \subseteq Keys BY <1>2, <1>3
<1>5. ASSUME NEW k \in Keys
      PROVE  /\ HASH_FIND(k) # NIL => HASH_FIND(k) \in InUse /\ key[HASH_FIND(k)] = k
             /\ \A f \in InUse : key[f] = k => HASH_FIND(k) = f
  BY Found
<1>6. \A k \in Present : HASH_FIND(k) \in InUse /\ key[HASH_FIND(k)] = k
  BY <1>1, <1>3, <1>4, <1>5
<1>7. \A k \in Keys \ Present : HASH_FIND(k) = NIL BY <1>3, <1>5
<1>8. \A k \in Keys : \A e \in InUse : key[e] = k => HASH_FIND(k) = e BY <1>5
<1> QED BY <1>3, <1>4, <1>6, <1>7, <1>8 DEF Faithful

LEMMA EntriesFoundNext == StoreInv' => Faithful'
BY EntriesFound, PTL

LEMMA MapTerms ==
  /\ Map!Closed = Closed /\ Map!Unsure = Unsure
  /\ \A S, D, l : Map!Sure(S, D, l) = [state |-> "sure", seen |-> S, due |-> D, last |-> l]
  /\ Map!Present = Present
BY DEF Map!Closed, Map!Unsure, Map!Sure, Map!Present, Closed, Unsure

\* REMOVE takes one entry of the map and moves no other.
LEMMA RemoveMaps ==
  ASSUME HashTableInv, NEW k \in Keys, HASH_REMOVE(k)
  PROVE  Map!Remove(k)
<1> DEFINE e == HASH_FIND(k)
<1>1. /\ e \in InUse /\ key[e] = k /\ InUse' = InUse \ {e}
      /\ key' = [key EXCEPT ![e] = NIL] /\ StoreInv'
  BY RemoveStored DEF HashTableInv
<1>2. Faithful /\ Faithful' /\ InUse \subseteq Elems /\ key \in [Elems -> Keys \cup {NIL}]
  BY <1>1, EntriesFound, EntriesFoundNext, StoreFacts DEF HashTableInv, StoreInv
<1> HIDE DEF e
<1>3. \A f \in InUse' : f \in InUse /\ f # e /\ key'[f] = key[f] BY <1>1, <1>2
<1>4. k \in Present BY <1>1, <1>2 DEF Faithful
<1>5. \A f \in InUse : f # e => key[f] # k
  BY <1>1 DEF HashTableInv, StoreInv
<1>6. Present' = Present \ {k}
  <2>1. Present' = {key'[f] : f \in InUse'} BY <1>2 DEF Faithful
  <2>2. Present = {key[f] : f \in InUse} BY <1>2 DEF Faithful
  <2> QED BY <1>1, <1>3, <1>5, <2>1, <2>2
<1>7. ASSUME NEW x \in Present' PROVE HASH_FIND(x)' = HASH_FIND(x)
  <2>1. HASH_FIND(x) \in InUse /\ key[HASH_FIND(x)] = x BY <1>2, <1>6 DEF Faithful
  <2>2. HASH_FIND(x) # e BY <1>1, <1>6, <2>1
  <2>3. HASH_FIND(x) \in InUse' /\ key'[HASH_FIND(x)] = x BY <1>1, <1>3, <2>1, <2>2
  <2>4. x \in Keys BY <1>2, <1>6 DEF Faithful
  <2>5. \A g \in InUse' : key'[g] = x => HASH_FIND(x)' = g BY <1>2, <2>4 DEF Faithful
  <2> QED BY <2>3, <2>5
<1>8. [x \in Present |-> HASH_FIND(x)]' = [x \in Present \ {k} |-> HASH_FIND(x)]
  BY <1>6, <1>7
<1>9. /\ UNCHANGED <<frozen, halted>>
      /\ visit' = [s \in Scans |-> IF visit[s].state = "sure" /\ visit[s].last # k
                                   THEN Map!Unsure ELSE visit[s]]
  BY MapTerms DEF HASH_REMOVE, Unsettled
<1>10. [x \in Present \ {k} |-> [y \in Present |-> HASH_FIND(y)][x]]
         = [x \in Present \ {k} |-> HASH_FIND(x)]
  OBVIOUS
<1> QED BY <1>4, <1>8, <1>9, <1>10, MapTerms DEF Map!Remove

\* ENTER adds one entry and moves no other, also where it splits a bucket.
LEMMA EnterMaps ==
  ASSUME HashTableInv, NEW k \in Keys, HASH_ENTER(k)
  PROVE  Map!Enter(k)
<1>1. PICK e \in Elems \ InUse : InUse' = InUse \cup {e} /\ key' = [key EXCEPT ![e] = k]
  BY EnterStored DEF HashTableInv
<1>s. StoreInv' BY EnterStored DEF HashTableInv
<1>2. Faithful /\ Faithful' /\ InUse \subseteq Elems /\ key \in [Elems -> Keys \cup {NIL}]
  BY <1>s, EntriesFound, EntriesFoundNext, StoreFacts DEF HashTableInv, StoreInv
<1>3. key'[e] = k /\ \A f \in InUse : f # e /\ key'[f] = key[f] BY <1>1, <1>2
<1>4. k \notin Present
  <2>1. HASH_FIND(k) = NIL BY DEF HASH_ENTER
  <2>2. NIL \notin InUse BY <1>2, HashTableAssumption
  <2> QED BY <1>2, <2>1, <2>2 DEF Faithful
<1>5. Present' = Present \cup {k}
  <2>1. Present' = {key'[f] : f \in InUse'} BY <1>2 DEF Faithful
  <2>2. Present = {key[f] : f \in InUse} BY <1>2 DEF Faithful
  <2> QED BY <1>1, <1>3, <2>1, <2>2
<1>6. \A x \in Keys : \A f \in InUse' : key'[f] = x => HASH_FIND(x)' = f
  BY <1>2 DEF Faithful
<1>7. HASH_FIND(k)' = e BY <1>1, <1>3, <1>6
<1>8. ASSUME NEW x \in Present PROVE HASH_FIND(x)' = HASH_FIND(x) /\ HASH_FIND(x) \in InUse
  <2>1. HASH_FIND(x) \in InUse /\ key[HASH_FIND(x)] = x /\ x \in Keys BY <1>2 DEF Faithful
  <2>2. HASH_FIND(x) \in InUse' /\ key'[HASH_FIND(x)] = x BY <1>1, <1>3, <2>1
  <2> QED BY <1>6, <2>1, <2>2
<1> DEFINE entries == [x \in Present |-> HASH_FIND(x)]
<1>9. entries' = [x \in Present \cup {k} |-> HASH_FIND(x)'] BY <1>5
<1>10. entries' = [x \in Present \cup {k} |-> IF x = k THEN e ELSE entries[x]]
  BY <1>4, <1>7, <1>8, <1>9
<1>11. e \in Elems \ {entries[x] : x \in Present} BY <1>8
<1>12. /\ UNCHANGED <<frozen, halted>>
       /\ visit' = [s \in Scans |-> IF visit[s].state # "sure" THEN visit[s]
                                    ELSE IF frozen THEN Map!Unsure
                                    ELSE [visit[s] EXCEPT !.seen = @ \ {k}]]
  BY MapTerms DEF HASH_ENTER, Joined
<1> QED BY <1>4, <1>10, <1>11, <1>12, MapTerms DEF Map!Enter

\* A step that leaves the store alone leaves the map alone.
LEMMA EntriesKept ==
  ASSUME UNCHANGED store
  PROVE  [x \in Present |-> HASH_FIND(x)]' = [x \in Present |-> HASH_FIND(x)]
<1>1. Present' = Present BY DEF store, Present
<1>2. \A x : HASH_FIND(x)' = HASH_FIND(x) BY DEF store, HASH_FIND
<1> QED BY <1>1, <1>2

\* A search returns an entry the scan has not returned.
LEMMA SearchMaps ==
  ASSUME HashTableInv, NEW s \in Scans, hash_seq_search(s)
  PROVE  Map!Return(s) \/ UNCHANGED visit
<1>1. /\ StoreInv /\ ScanInv /\ Tracked(hctl, chains, key, InUse \cup Unused, scan[s], visit[s])
      /\ visit[s] \in Visits /\ (visit[s].state = "unsure" => visit[s] = Unsure)
  BY DEF HashTableInv, ScanInv, Tracked
<1>2. UNCHANGED <<store, frozen, halted>> /\ visit[s].state # "closed"
  BY DEF hash_seq_search, Open
<1>3. CASE visit[s].state = "sure"
  <2> DEFINE k == key[At(s)]
             v == visit[s]
             w == [v EXCEPT !.seen = @ \cup {k}, !.due = @ \ {k}, !.last = k]
  <2>1. k \in Keys /\ At(s) \in InUse /\ k \notin v.seen
    BY <1>1, <1>3, SearchTracked
  <2>2. visit' = [visit EXCEPT ![s] = w]
    <3>1. v # Unsure BY <1>3, VisitFacts
    <3> QED BY <3>1 DEF hash_seq_search
  <2>3. k \in Present BY <1>1, <2>1, EntriesFound DEF Faithful
  <2> DEFINE x == v.seen \cup {k}
             y == v.due \ {k}
  <2>4. w = [v EXCEPT !.seen = x, !.due = y, !.last = k] OBVIOUS
  <2>5. v \in Visits /\ v.state = "sure" BY <1>1, <1>3
  <2>6. [v EXCEPT !.seen = x, !.due = y, !.last = k]
          = [state |-> "sure", seen |-> x, due |-> y, last |-> k]
    <3> HIDE DEF v, x, y, k
    <3> DEFINE A == {v.state}  B == {v.seen}  C == {v.due}  D == {v.last}
               q == [v EXCEPT !.seen = x, !.due = y, !.last = k]
    <3>1. v \in [state : A, seen : B, due : C, last : D] BY <2>5 DEF Visits
    <3> HIDE DEF A, B, C, D
    <3>2. q \in [state : A, seen : B \cup {x}, due : C \cup {y}, last : D \cup {k}]
      BY <3>1
    <3>3. q.state = v.state /\ q.seen = x /\ q.due = y /\ q.last = k BY <3>1
    <3> HIDE DEF q
    <3>4. q = [state |-> q.state, seen |-> q.seen, due |-> q.due, last |-> q.last] BY <3>2
    <3>5. q = [state |-> "sure", seen |-> x, due |-> y, last |-> k] BY <2>5, <3>3, <3>4
    <3> QED BY <3>5 DEF q
  <2>7. w = Map!Sure(x, y, k) BY <2>4, <2>6, MapTerms
  <2>8. visit' = [visit EXCEPT ![s] = Map!Sure(v.seen \cup {k}, v.due \ {k}, k)]
    <3> HIDE DEF w
    <3> QED BY <2>2, <2>7
  <2> HIDE DEF k
  <2> QED BY <1>2, <1>3, <2>1, <2>3, <2>8, EntriesKept, MapTerms DEF Map!Return
<1>4. CASE visit[s].state # "sure"
  <2>1. visit[s] = Unsure BY <1>1, <1>2, <1>4 DEF Visits
  <2> QED BY <2>1 DEF hash_seq_search
<1> QED BY <1>3, <1>4

\* Every step of the table is a step of the map or leaves it alone.
LEMMA NextMaps == HashTableInv /\ [Next]_vars => [Map!Next]_(Map!vars)
<1> SUFFICES ASSUME HashTableInv, [Next]_vars PROVE Map!Next \/ UNCHANGED Map!vars
  OBVIOUS
<1>v. \A s \in Scans : /\ visit[s] \in Visits
                       /\ visit[s].state = "closed" <=> visit[s] = Closed
                       /\ Open(s) <=> visit[s] # Closed
  BY VisitFacts DEF HashTableInv, ScanInv, Tracked, Open
<1>1. CASE UNCHANGED vars
  BY <1>1, EntriesKept DEF vars, store, Map!vars
<1>2. ASSUME NEW k \in Keys, HASH_REMOVE(k) PROVE Map!Next
  <2>1. ~ halted BY <1>2 DEF HASH_REMOVE
  <2> QED BY <1>2, <2>1, RemoveMaps DEF Map!Next
<1>3. ASSUME NEW k \in Keys, HASH_ENTER(k) PROVE Map!Next
  <2>1. ~ halted BY <1>3 DEF HASH_ENTER
  <2> QED BY <1>3, <2>1, EnterMaps DEF Map!Next
<1>4. ASSUME NEW k \in Keys, HASH_ENTER_fails(k) PROVE Map!Next
  <2>1. ~ halted /\ halted' = TRUE /\ UNCHANGED <<store, frozen, visit>>
    BY <1>4 DEF HASH_ENTER_fails, tracking
  <2> QED BY <2>1, EntriesKept DEF Map!Next, Map!OutOfMemory
<1>5. ASSUME NEW s \in Scans, hash_seq_init(s) PROVE Map!Next
  <2>1. /\ ~ halted /\ UNCHANGED <<store, frozen, halted>> /\ visit[s] = Closed
        /\ visit' = [visit EXCEPT ![s] = [state |-> "sure", seen |-> {},
                                         due |-> Keys \cap {key[e] : e \in Elems}, last |-> NIL]]
    BY <1>5, <1>v DEF hash_seq_init
  <2>2. Keys \cap {key[e] : e \in Elems} = Present
    <3>1. Present \subseteq Keys BY EntriesFound DEF HashTableInv, Faithful
    <3>2. NIL \notin Keys BY HashTableAssumption
    <3> QED BY <3>1, <3>2 DEF Present
  <2>3. Map!Begin(s)
    BY <2>1, <2>2, EntriesKept, MapTerms DEF Map!Begin
  <2> QED BY <2>1, <2>3 DEF Map!Next
<1>6. ASSUME NEW s \in Scans, hash_seq_search(s) PROVE Map!Next \/ UNCHANGED Map!vars
  <2>1. ~ halted /\ UNCHANGED <<store, frozen, halted>> BY <1>6 DEF hash_seq_search
  <2>2. CASE Map!Return(s) BY <2>1, <2>2 DEF Map!Next
  <2>3. CASE UNCHANGED visit BY <2>1, <2>3, EntriesKept DEF Map!vars
  <2> QED BY <1>6, <2>2, <2>3, SearchMaps
<1>7. ASSUME NEW s \in Scans, EndOfScan(s) PROVE Map!Next
  <2>1. ~ halted /\ UNCHANGED <<store, frozen, halted>> BY <1>7 DEF EndOfScan
  <2>2. /\ visit[s].due = {} /\ visit[s].state \in {"sure", "unsure"}
        /\ visit' = [visit EXCEPT ![s] = Closed]
    BY <1>7, EndSettled DEF HashTableInv
  <2>3. Map!End(s) BY <2>1, <2>2, EntriesKept, MapTerms DEF Map!End
  <2> QED BY <2>1, <2>3 DEF Map!Next
<1>8. ASSUME NEW s \in Scans, hash_seq_term(s) PROVE Map!Next
  <2>1. /\ ~ halted /\ UNCHANGED <<store, frozen, halted>> /\ visit[s] # Closed
        /\ visit' = [visit EXCEPT ![s] = Closed]
    BY <1>8, <1>v DEF hash_seq_term
  <2>2. visit = [x \in Scans |-> visit[x]] BY DEF HashTableInv, ScanInv
  <2>3. visit' = [x \in Scans |-> IF x \in {s} THEN Closed ELSE visit[x]] BY <2>1, <2>2
  <2>4. Map!Abandon({s}) BY <2>1, <2>3, EntriesKept, MapTerms DEF Map!Abandon
  <2>5. {s} \in SUBSET Scans OBVIOUS
  <2> QED BY <2>1, <2>4, <2>5 DEF Map!Next
<1>9. CASE hash_freeze
  <2>1. ~ halted /\ frozen' = TRUE /\ UNCHANGED <<store, visit, halted>>
    BY <1>9 DEF hash_freeze
  <2> QED BY <2>1, EntriesKept DEF Map!Next, Map!Freeze
<1>10. CASE AtEOXact_HashTables
  <2> DEFINE S == {s \in Scans : visit[s] # Closed}
  <2>1. /\ ~ halted /\ UNCHANGED <<store, frozen, halted>>
        /\ visit' = [s \in Scans |-> Closed]
    BY <1>10 DEF AtEOXact_HashTables
  <2>2. visit' = [x \in Scans |-> IF x \in S THEN Closed ELSE visit[x]] BY <2>1
  <2>3. CASE S = {}
    <3>1. visit = [x \in Scans |-> visit[x]] BY DEF HashTableInv, ScanInv
    <3>2. visit' = visit BY <2>1, <2>3, <3>1
    <3> QED BY <2>1, <3>2, EntriesKept DEF Map!vars
  <2>4. CASE S # {}
    <3>1. S \in SUBSET Scans /\ \A s \in S : visit[s] # Closed OBVIOUS
    <3> HIDE DEF S
    <3>2. Map!Abandon(S) BY <2>1, <2>2, <2>4, <3>1, EntriesKept, MapTerms DEF Map!Abandon
    <3> QED BY <2>1, <3>1, <3>2 DEF Map!Next
  <2> QED BY <2>3, <2>4
<1> QED
  BY <1>1, <1>2, <1>3, <1>4, <1>5, <1>6, <1>7, <1>8, <1>9, <1>10 DEF Next

LEMMA InitMaps == Init => Map!Init
<1> SUFFICES ASSUME Init PROVE Map!Init OBVIOUS
<1>1. /\ key = [e \in Elems |-> NIL] /\ frozen = FALSE /\ halted = FALSE
      /\ visit = [s \in Scans |-> Closed]
  BY DEF Init
<1>2. Present = {} BY <1>1 DEF Present
<1>3. [x \in Present |-> HASH_FIND(x)] = [x \in {} |-> NIL] BY <1>2
<1> QED BY <1>1, <1>3, MapTerms DEF Map!Init

\* The table implements the map for all its users: FIND, ENTER and REMOVE are
\* those of a map, no element moves while its key stays, also when a bucket is
\* split, and a scan whose rules are kept returns what stays exactly once
\* (hash_search, hash_seq_search).
THEOREM MapImplemented == Spec => ImplementsMap
BY InitMaps, NextMaps, HashTableInvHolds, PTL DEF Spec, ImplementsMap, Map!Spec
=============================================================================
