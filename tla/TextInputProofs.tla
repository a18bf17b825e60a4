-------------------------- MODULE TextInputProofs ---------------------------
(***************************************************************************)
(* What timestamptz_in, the time decoder and the interval decoder make of   *)
(* texts, for every text, date order and setting.                           *)
(*                                                                          *)
(* First the calendar, from 4800 BC on: the day number advances by one with *)
(* the date, j2date is its inverse, months are counted right in both        *)
(* directions, and timesub finds the same date from the days since 1970 as  *)
(* j2date does.  date2j counts years from March, so that the day of a leap  *)
(* year comes last.  timesub's loops end, because each round brings the day *)
(* closer to its year.                                                      *)
(*                                                                          *)
(* Then the fields of a date: each sets the parts that its mask reports,    *)
(* and DecodeDateTime refuses a part that is already known.  So a part is   *)
(* set if and only if the mask names it (Known, Sound), a date accepted has *)
(* all its parts (Decoded), and the timestamp made of it is shown as it was *)
(* written (Dates).  Then the errors and the type invariant (Types).        *)
(*                                                                          *)
(* Last, the two decoders side by side: after the same fields their locals  *)
(* are a pair (Paired), or DecodeDateTime has no whole time and never will, *)
(* so that a date and time which both accept is the same (Together).        *)
(***************************************************************************)
EXTENDS TextInput, WellFoundedInduction, SequenceTheorems, TLAPS

----------------------------------------------------------------------------
(* The calendar *)

\* The days of the years before a year that begins in March, and those of the
\* months before in it.
Before(s) == s * 365 + s \div 4 - s \div 100 + (s \div 100) \div 4
Since(m, v) == (7834 * Late(m)) \div 256 + v - 123
FirstYear == -4799
CalendarMonths == 1..12

\* The month and the day that j2date takes from the days since 1 March.
MonthDay(y, j2) ==
  LET p == (j2 * 2141) \div 65536
  IN  Date(y, ((p + 10) % 12) + 1, j2 - (7834 * p) \div 256)

----------------------------------------------------------------------------
(* The day number, taken apart *)

\* 4800 years are twelve cycles of the calendar.
LEMMA LeapShift ==
  ASSUME NEW y \in Int
  PROVE  isleap(y) <=> isleap(y + 4800)
  BY DEF isleap

\* date2j is the sum of the two.
LEMMA DayNumber ==
  ASSUME NEW y \in Int, NEW m \in CalendarMonths, NEW v \in Int, y >= FirstYear
  PROVE  /\ Shifted(y, m) \in Nat /\ Since(m, v) \in Int /\ Before(Shifted(y, m)) \in Int
         /\ date2j(y, m, v) = Before(Shifted(y, m)) + Since(m, v) - 32044
<1>1. Shifted(y, m) \in Nat BY DEF Shifted, FirstYear
<1>2. Late(m) \in Nat BY DEF Late, CalendarMonths
<1>3. (7834 * Late(m)) \div 256 \in Int BY <1>2
<1>4. \A s \in Nat : /\ s \div 100 \in Nat /\ CDiv(s, 4) = s \div 4
                     /\ CDiv(s, 100) = s \div 100
  BY DEF CDiv
<1> QED
  BY <1>1, <1>3, <1>4 DEF date2j, Before, Since

\* A year from March holds the 29 February at its end.
LEMMA YearsFollow ==
  ASSUME NEW s \in Nat
  PROVE  Before(s + 1) = Before(s) + (IF isleap(s + 1) THEN 366 ELSE 365)
  BY DEF Before, isleap

\* The numbers of the months' first days.
LEMMA MonthStarts ==
  ASSUME NEW v \in Int
  PROVE  /\ Since(3, v) = v - 1    /\ Since(4, v) = v + 30   /\ Since(5, v) = v + 60
         /\ Since(6, v) = v + 91   /\ Since(7, v) = v + 121  /\ Since(8, v) = v + 152
         /\ Since(9, v) = v + 183  /\ Since(10, v) = v + 213 /\ Since(11, v) = v + 244
         /\ Since(12, v) = v + 274 /\ Since(1, v) = v + 305  /\ Since(2, v) = v + 336
  BY DEF Since, Late

\* The lengths of the months.
LEMMA MonthLengths ==
  ASSUME NEW y \in Int
  PROVE  /\ \A m \in {1, 3, 5, 7, 8, 10, 12} : MonthLength(y, m) = 31
         /\ \A m \in {4, 6, 9, 11} : MonthLength(y, m) = 30
         /\ MonthLength(y, 2) = IF isleap(y) THEN 29 ELSE 28
  BY DEF MonthLength, day_tab, common_months, leap_months

----------------------------------------------------------------------------
(* The day number and the date *)

\* The number of the day after a date is the next number, over the ends of
\* months, years and leap years (date2j).
THEOREM NextDayCounts ==
  ASSUME NEW y \in Int, NEW m \in Int, NEW v \in Int, y >= FirstYear,
         IsDate(Date(y, m, v))
  PROVE  LET n == NextDay(Date(y, m, v))
         IN  date2j(n.year, n.mon, n.mday) = date2j(y, m, v) + 1
<1> DEFINE len == MonthLength(y, m)
<1>1. m \in CalendarMonths /\ v \in 1..len
  BY DEF IsDate, Date, MonthsPerYear, CalendarMonths
<1>2. len \in 28..31
  BY <1>1, MonthLengths DEF CalendarMonths
<1>n. \A c \in Int : date2j(y, m, c) = Before(Shifted(y, m)) + Since(m, c) - 32044
  BY <1>1, DayNumber
<1>b. Before(Shifted(y, m)) \in Int /\ Since(m, v) \in Int
  BY <1>1, DayNumber
<1> HIDE DEF len
<1>3. CASE v < len
  <2>1. NextDay(Date(y, m, v)) = Date(y, m, v + 1)
    BY <1>3 DEF NextDay, Date, len
  <2>2. Since(m, v + 1) = Since(m, v) + 1
    BY <1>1, MonthStarts DEF CalendarMonths
  <2>3. date2j(y, m, v + 1) = Before(Shifted(y, m)) + Since(m, v + 1) - 32044
    BY <1>n
  <2> QED BY <1>n, <1>b, <2>1, <2>2, <2>3 DEF Date
<1>4. CASE v = len /\ m < 12
  <2>1. NextDay(Date(y, m, v)) = Date(y, m + 1, 1)
    BY <1>4, <1>2 DEF NextDay, Date, len, MonthsPerYear
  <2>2. /\ date2j(y, m + 1, 1) = Before(Shifted(y, m + 1)) + Since(m + 1, 1) - 32044
        /\ Since(m + 1, 1) \in Int
    <3>1. m + 1 \in CalendarMonths BY <1>1, <1>4 DEF CalendarMonths
    <3> QED BY <3>1, DayNumber
  <2>3. CASE m # 2
    <3>1. Shifted(y, m + 1) = Shifted(y, m)
      BY <1>1, <1>4, <2>3 DEF Shifted
    <3>2. Since(m + 1, 1) = Since(m, v) + 1
      <4>1. m \in {1, 3, 4, 5, 6, 7, 8, 9, 10, 11}
        BY <1>1, <1>4, <2>3 DEF CalendarMonths
      <4>2. v = IF m \in {4, 6, 9, 11} THEN 30 ELSE 31
        BY <4>1, <1>4, MonthLengths DEF len
      <4> QED BY <4>1, <4>2, MonthStarts
    <3> QED BY <1>n, <1>b, <2>1, <2>2, <3>1, <3>2 DEF Date
  <2>4. CASE m = 2
    <3>1. Shifted(y, m) = y + 4799 /\ Shifted(y, m + 1) = y + 4800
      BY <2>4 DEF Shifted
    <3>2. Before(y + 4800) = Before(y + 4799) + (IF isleap(y) THEN 366 ELSE 365)
      <4>1. y + 4799 \in Nat /\ y + 4800 = (y + 4799) + 1 BY DEF FirstYear
      <4> QED BY <4>1, YearsFollow, LeapShift
    <3>3. v = IF isleap(y) THEN 29 ELSE 28
      BY <1>4, <2>4, MonthLengths DEF len
    <3>4. Since(m, v) = v + 336 /\ Since(m + 1, 1) = 0
      BY <2>4, MonthStarts
    <3>5. Before(y + 4799) \in Int BY <1>b, <3>1
    <3> QED BY <1>n, <2>1, <2>2, <3>1, <3>2, <3>3, <3>4, <3>5 DEF Date
  <2> QED BY <2>3, <2>4
<1>5. CASE v = len /\ m = 12
  <2>1. NextDay(Date(y, m, v)) = Date(y + 1, 1, 1)
    BY <1>5, <1>2 DEF NextDay, Date, len, MonthsPerYear
  <2>2. v = 31 /\ Since(m, v) = 305 /\ Since(1, 1) = 306
    BY <1>5, MonthStarts, MonthLengths DEF len
  <2>3. Shifted(y, m) = y + 4800 /\ Shifted(y + 1, 1) = y + 4800
    BY <1>5 DEF Shifted
  <2>4. date2j(y + 1, 1, 1) = Before(Shifted(y + 1, 1)) + Since(1, 1) - 32044
    <3>1. y + 1 \in Int /\ y + 1 >= FirstYear BY DEF FirstYear
    <3>2. 1 \in CalendarMonths BY DEF CalendarMonths
    <3> QED BY <3>1, <3>2, DayNumber
  <2> QED BY <1>n, <1>b, <2>1, <2>2, <2>3, <2>4 DEF Date
<1> QED BY <1>1, <1>2, <1>3, <1>4, <1>5 DEF CalendarMonths

----------------------------------------------------------------------------
(* The date of a day number *)

\* A year as cycles of 400, 100 and 4 years and a rest, and its days.
CycleYears(q, c, a, b) == 400 * q + 100 * c + 4 * a + b
CycleDays(q, c, a, b) == 146097 * q + 36524 * c + 1461 * a + 365 * b

\* A year from March, as cycles of 400, 100 and 4 years and a rest.
LEMMA Cycles ==
  ASSUME NEW s \in Nat
  PROVE  \E q, c, a, b \in Nat :
            /\ c <= 3 /\ a <= 24 /\ b <= 3
            /\ s = CycleYears(q, c, a, b)
            /\ Before(s) = CycleDays(q, c, a, b)
            /\ isleap(s + 1) => b = 3 /\ (a = 24 => c = 3)
<1> DEFINE q == s \div 400
           c == (s \div 100) - 4 * q
           a == (s \div 4) - 25 * (s \div 100)
           b == s - 4 * (s \div 4)
<1>1. /\ q \in Nat /\ c \in Nat /\ a \in Nat /\ b \in Nat
      /\ c <= 3 /\ a <= 24 /\ b <= 3
  OBVIOUS
<1>2. s = 400 * q + 100 * c + 4 * a + b
  OBVIOUS
<1>3. (s \div 100) \div 4 = q
  OBVIOUS
<1>4. Before(s) = 146097 * q + 36524 * c + 1461 * a + 365 * b
  <2>1. /\ q \in Nat /\ s \div 4 \in Nat /\ s \div 100 \in Nat
    OBVIOUS
  <2>2. Before(s) = s * 365 + s \div 4 - s \div 100 + q
    BY <1>3 DEF Before
  <2> HIDE DEF q
  <2> QED BY <2>1, <2>2
<1>5. ASSUME isleap(s + 1) PROVE b = 3 /\ (a = 24 => c = 3)
  <2>1. (s + 1) % 4 = 0 /\ ((s + 1) % 100 # 0 \/ (s + 1) % 400 = 0)
    BY <1>5 DEF isleap
  <2>2. b = 3 BY <2>1
  <2>3. CASE (s + 1) % 100 # 0
    <3>1. a # 24
      <4>1. SUFFICES ASSUME a = 24 PROVE (s + 1) % 100 = 0 BY <2>3
      <4>2. s + 1 = 100 * (s \div 100) + 100 BY <4>1, <2>2
      <4> QED BY <4>2
    <3> QED BY <2>2, <3>1
  <2>4. CASE (s + 1) % 400 = 0
    <3>1. c = 3
      <4>1. s + 1 = 400 * ((s + 1) \div 400) BY <2>4
      <4> QED BY <4>1
    <3> QED BY <2>2, <3>1
  <2> QED BY <2>1, <2>3, <2>4
<1> QED
  <2>1. q \in Nat /\ c \in Nat /\ a \in Nat /\ b \in Nat BY <1>1
  <2>2. c <= 3 /\ a <= 24 /\ b <= 3 BY <1>1
  <2> HIDE DEF q, c, a, b
  <2>3. s = CycleYears(q, c, a, b) BY <1>2 DEF CycleYears
  <2>4. Before(s) = CycleDays(q, c, a, b) BY <1>4 DEF CycleDays
  <2> QED BY <1>5, <2>1, <2>2, <2>3, <2>4, Z3

\* What j2date makes of the day dm of such a year.
LEMMA DayInCycle ==
  ASSUME NEW q \in Nat, NEW c \in Nat, NEW a \in Nat, NEW b \in Nat, NEW dm \in Nat,
         c <= 3, a <= 24, b <= 3, dm <= 365, dm = 365 => b = 3 /\ (a = 24 => c = 3),
         NEW number \in Int, number = CycleDays(q, c, a, b) + dm - 32044,
         NEW year \in Int,
         year = CycleYears(q, c, a, b) + (IF dm >= 306 THEN 1 ELSE 0) - 4800
  PROVE  j2date(number) = MonthDay(year, dm + 123)
<1> DEFINE r     == 36524 * c + 1461 * a + 365 * b + dm
           jd    == 146097 * q + r - 32044
           j0    == jd + 32044
           extra == (j0 % 146097) * 4 + 3
           j1    == j0 + 60 + (j0 \div 146097) * 3 + extra \div 146097
           left  == j1 % 1461
           y     == (left * 4) \div 1461
           j2    == (IF y # 0 THEN (left + 305) % 365 ELSE (left + 306) % 366) + 123
           k     == 100 * q + 25 * c + a
<1>1. r \in Nat /\ r < 146097
  OBVIOUS
<1>2. j0 = 146097 * q + r
  OBVIOUS
<1>3. j0 \div 146097 = q /\ j0 % 146097 = r
  <2> HIDE DEF r, j0
  <2> QED BY <1>1, <1>2
<1>4. extra \div 146097 = c
  <2>1. extra = 4 * r + 3 BY <1>3
  <2>2. 146097 * c <= 4 * r + 3 /\ 4 * r + 3 < 146097 * (c + 1) OBVIOUS
  <2> HIDE DEF extra, r
  <2> QED BY <2>1, <2>2, <1>1
<1>5. j1 = 1461 * k + (365 * b + dm + 60)
  BY <1>2, <1>3, <1>4
<1>6. k \in Nat
  OBVIOUS
<1> HIDE DEF r, jd, j0, extra, j1, k
<1>7. /\ y + (j1 \div 1461) * 4 = 4 * k + b + (IF dm >= 306 THEN 1 ELSE 0)
      /\ j2 = dm + 123
  <2>1. CASE dm < 306
    <3>1. left = 365 * b + dm + 60 /\ j1 \div 1461 = k
      BY <1>5, <1>6, <2>1
    <3>2. y = b
      BY <3>1, <2>1
    <3>3. j2 = dm + 123
      <4> HIDE DEF y, left
      <4> QED BY <3>1, <3>2, <2>1
    <3> HIDE DEF y, j2
    <3> QED BY <3>1, <3>2, <3>3, <2>1, <1>6
  <2>2. CASE dm >= 306 /\ b < 3
    <3>1. left = 365 * b + dm + 60 /\ j1 \div 1461 = k
      BY <1>5, <1>6, <2>2
    <3>2. y = b + 1
      BY <3>1, <2>2
    <3>3. j2 = dm + 123
      <4> HIDE DEF y, left
      <4> QED BY <3>1, <3>2, <2>2
    <3> HIDE DEF y, j2
    <3> QED BY <3>1, <3>2, <3>3, <2>2, <1>6
  <2>3. CASE dm >= 306 /\ b = 3
    <3>1. left = dm - 306 /\ j1 \div 1461 = k + 1
      <4>1. j1 = 1461 * (k + 1) + (dm - 306) BY <1>5, <1>6, <2>3
      <4> QED BY <4>1, <1>6, <2>3
    <3>2. y = 0
      BY <3>1, <2>3
    <3>3. j2 = dm + 123
      <4> HIDE DEF y, left
      <4> QED BY <3>1, <3>2, <2>3
    <3> HIDE DEF y, j2
    <3> QED BY <3>1, <3>2, <3>3, <2>3, <1>6
  <2> QED BY <2>1, <2>2, <2>3
<1> DEFINE fours == j1 \div 1461
           from == y + (j1 \div 1461) * 4
<1>8. j2date(jd) = MonthDay(from - 4800, j2)
  <2>1. j2date(jd) = Date(y + (j1 \div 1461) * 4 - 4800,
                          ((((j2 * 2141) \div 65536) + 10) % 12) + 1,
                          j2 - (7834 * ((j2 * 2141) \div 65536)) \div 256)
    BY DEF j2date, MonthsPerYear, j0, extra, j1
  <2>2. y \in Int /\ fours \in Int
    <3>1. j1 \in Nat BY <1>5, <1>6
    <3> QED BY <3>1 DEF left, fours
  <2> HIDE DEF y, j2
  <2>3. y + (j1 \div 1461) * 4 - 4800 = from - 4800
    <3> HIDE DEF fours
    <3>1. y + fours * 4 - 4800 = (y + fours * 4) - 4800 BY <2>2
    <3> QED BY <3>1 DEF fours, from
  <2> HIDE DEF from
  <2> QED BY <2>1, <2>3 DEF MonthDay
<1>9. from - 4800 = year
  <2>1. 4 * k + b = CycleYears(q, c, a, b) BY DEF k, CycleYears
  <2>2. CycleYears(q, c, a, b) \in Int BY DEF CycleYears
  <2> HIDE DEF y, j2
  <2> QED BY <1>6, <1>7, <2>1, <2>2
<1>10. jd = number
  BY DEF jd, r, CycleDays
<1> HIDE DEF y, j2, from, fours
<1> QED BY <1>7, <1>8, <1>9, <1>10

\* The month, counted as in date2j, from the days since 1 March and 123 more.
LEMMA MonthNumbers ==
  ASSUME NEW v \in Int, v >= 1, v <= 31
  PROVE  /\ (((v - 1) + 123) * 2141) \div 65536 = 4
         /\ v <= 30 => (((v + 30) + 123) * 2141) \div 65536 = 5
         /\ (((v + 60) + 123) * 2141) \div 65536 = 6
         /\ v <= 30 => (((v + 91) + 123) * 2141) \div 65536 = 7
         /\ (((v + 121) + 123) * 2141) \div 65536 = 8
         /\ (((v + 152) + 123) * 2141) \div 65536 = 9
         /\ v <= 30 => (((v + 183) + 123) * 2141) \div 65536 = 10
         /\ (((v + 213) + 123) * 2141) \div 65536 = 11
         /\ v <= 30 => (((v + 244) + 123) * 2141) \div 65536 = 12
         /\ (((v + 274) + 123) * 2141) \div 65536 = 13
         /\ (((v + 305) + 123) * 2141) \div 65536 = 14
  OBVIOUS

\* The month and the day come back from the days since 1 March.
LEMMA MonthOfDay ==
  ASSUME NEW y \in Int, NEW m \in CalendarMonths, NEW v \in 1..MonthLength(y, m)
  PROVE  /\ Since(m, v) \in Nat /\ Since(m, v) <= 365
         /\ Since(m, v) >= 306 <=> m <= 2
         /\ Since(m, v) = 365 => m = 2 /\ isleap(y)
         /\ \A any : MonthDay(any, Since(m, v) + 123) = Date(any, m, v)
<1> DEFINE p == ((Since(m, v) + 123) * 2141) \div 65536
<1>1. m \in {1, 3, 4, 5, 6, 7, 8, 9, 10, 11, 12} \/ m = 2
  BY DEF CalendarMonths
<1>2. CASE m = 2
  <2>1. Since(m, v) = v + 336 /\ v \in Nat /\ v >= 1 /\ v <= 29 /\ (v = 29 => isleap(y))
    BY <1>2, MonthStarts, MonthLengths
  <2>2. p = Late(m) BY <1>2, <2>1 DEF Late
  <2> HIDE DEF p
  <2>3. Since(m, v) + 123 - (7834 * p) \div 256 = v /\ ((p + 10) % 12) + 1 = m
    BY <1>2, <2>1, <2>2 DEF Late
  <2> QED BY <1>2, <2>1, <2>3 DEF MonthDay, p
<1>3. CASE m \in {1, 3, 4, 5, 6, 7, 8, 9, 10, 11, 12}
  <2>1. /\ v \in Nat /\ v >= 1 /\ v <= 31
        /\ m \in {4, 6, 9, 11} => v <= 30
    BY <1>3, MonthLengths
  <2>2. p = Late(m)
    <3>0. v \in Int /\ v >= 1 /\ v <= 31 BY <2>1
    <3>1. CASE m = 3
      <4>1. p = (((v - 1) + 123) * 2141) \div 65536 BY <3>1, <3>0, MonthStarts
      <4> QED BY <3>0, <3>1, <2>1, <4>1, MonthNumbers DEF Late
    <3>2. CASE m = 4
      <4>1. p = (((v + 30) + 123) * 2141) \div 65536 BY <3>2, <3>0, MonthStarts
      <4> QED BY <3>0, <3>2, <2>1, <4>1, MonthNumbers DEF Late
    <3>3. CASE m = 5
      <4>1. p = (((v + 60) + 123) * 2141) \div 65536 BY <3>3, <3>0, MonthStarts
      <4> QED BY <3>0, <3>3, <2>1, <4>1, MonthNumbers DEF Late
    <3>4. CASE m = 6
      <4>1. p = (((v + 91) + 123) * 2141) \div 65536 BY <3>4, <3>0, MonthStarts
      <4> QED BY <3>0, <3>4, <2>1, <4>1, MonthNumbers DEF Late
    <3>5. CASE m = 7
      <4>1. p = (((v + 121) + 123) * 2141) \div 65536 BY <3>5, <3>0, MonthStarts
      <4> QED BY <3>0, <3>5, <2>1, <4>1, MonthNumbers DEF Late
    <3>6. CASE m = 8
      <4>1. p = (((v + 152) + 123) * 2141) \div 65536 BY <3>6, <3>0, MonthStarts
      <4> QED BY <3>0, <3>6, <2>1, <4>1, MonthNumbers DEF Late
    <3>7. CASE m = 9
      <4>1. p = (((v + 183) + 123) * 2141) \div 65536 BY <3>7, <3>0, MonthStarts
      <4> QED BY <3>0, <3>7, <2>1, <4>1, MonthNumbers DEF Late
    <3>8. CASE m = 10
      <4>1. p = (((v + 213) + 123) * 2141) \div 65536 BY <3>8, <3>0, MonthStarts
      <4> QED BY <3>0, <3>8, <2>1, <4>1, MonthNumbers DEF Late
    <3>9. CASE m = 11
      <4>1. p = (((v + 244) + 123) * 2141) \div 65536 BY <3>9, <3>0, MonthStarts
      <4> QED BY <3>0, <3>9, <2>1, <4>1, MonthNumbers DEF Late
    <3>10. CASE m = 12
      <4>1. p = (((v + 274) + 123) * 2141) \div 65536 BY <3>10, <3>0, MonthStarts
      <4> QED BY <3>0, <3>10, <2>1, <4>1, MonthNumbers DEF Late
    <3>11. CASE m = 1
      <4>1. p = (((v + 305) + 123) * 2141) \div 65536 BY <3>11, <3>0, MonthStarts
      <4> QED BY <3>0, <3>11, <2>1, <4>1, MonthNumbers DEF Late
    <3> QED BY <1>3, <3>1, <3>2, <3>3, <3>4, <3>5, <3>6, <3>7, <3>8, <3>9, <3>10, <3>11
  <2> HIDE DEF p
  <2>3. Since(m, v) + 123 - (7834 * p) \div 256 = v /\ ((p + 10) % 12) + 1 = m
    BY <1>3, <2>1, <2>2 DEF Late, Since
  <2>4. /\ Since(m, v) \in Nat /\ Since(m, v) < 365
        /\ Since(m, v) >= 306 <=> m <= 2
    BY <1>3, <2>1, MonthStarts, SMTT(30)
  <2> QED BY <2>3, <2>4 DEF MonthDay, p
<1> QED BY <1>1, <1>2, <1>3

\* j2date undoes date2j for every date from 4800 BC on.
THEOREM DatesComeBack ==
  ASSUME NEW y \in Int, NEW m \in Int, NEW v \in Int, y >= FirstYear,
         IsDate(Date(y, m, v))
  PROVE  j2date(date2j(y, m, v)) = Date(y, m, v)
<1> DEFINE s  == Shifted(y, m)
           dm == Since(m, v)
<1>1. m \in CalendarMonths /\ v \in 1..MonthLength(y, m)
  BY DEF IsDate, Date, MonthsPerYear, CalendarMonths
<1>2. s \in Nat /\ date2j(y, m, v) = Before(s) + dm - 32044
  BY <1>1, DayNumber
<1>3. /\ dm \in Nat /\ dm <= 365 /\ (dm >= 306 <=> m <= 2)
      /\ dm = 365 => m = 2 /\ isleap(y)
      /\ MonthDay(y, dm + 123) = Date(y, m, v)
  BY <1>1, MonthOfDay
<1>4. PICK q, c, a, b \in Nat :
            /\ c <= 3 /\ a <= 24 /\ b <= 3
            /\ s = CycleYears(q, c, a, b)
            /\ Before(s) = CycleDays(q, c, a, b)
            /\ isleap(s + 1) => b = 3 /\ (a = 24 => c = 3)
  <2> HIDE DEF s
  <2>1. s \in Nat BY <1>2
  <2> QED BY <2>1, Cycles, Zenon
<1>5. s + (IF dm >= 306 THEN 1 ELSE 0) = y + 4800
  <2> HIDE DEF dm
  <2> QED BY <1>1, <1>3 DEF Shifted, CalendarMonths
<1>6. dm = 365 => isleap(s + 1)
  <2>1. SUFFICES ASSUME dm = 365 PROVE isleap(s + 1) OBVIOUS
  <2>2. s + 1 = y + 4800
    <3> HIDE DEF dm
    <3> QED BY <1>3, <2>1 DEF Shifted
  <2> QED BY <1>3, <2>1, <2>2, LeapShift
<1> HIDE DEF s, dm
<1>7. dm = 365 => b = 3 /\ (a = 24 => c = 3)
  BY <1>4, <1>6
<1>8. y = CycleYears(q, c, a, b) + (IF dm >= 306 THEN 1 ELSE 0) - 4800
  BY <1>2, <1>4, <1>5
<1>9. /\ date2j(y, m, v) = CycleDays(q, c, a, b) + dm - 32044
      /\ date2j(y, m, v) \in Int
  <2>1. CycleDays(q, c, a, b) \in Int BY DEF CycleDays
  <2> QED BY <1>2, <1>3, <1>4, <2>1
<1>10. c <= 3 /\ a <= 24 /\ b <= 3 BY <1>4
<1>11. j2date(date2j(y, m, v)) = MonthDay(y, dm + 123)
  BY <1>3, <1>7, <1>8, <1>9, <1>10, DayInCycle, Z3
<1> QED BY <1>3, <1>11

\* The day after a date is that of the next number: counting on in day
\* numbers, as the code does for 'yesterday', 'tomorrow' and the days of an
\* interval, never skips or repeats a date.
THEOREM NextDateShown ==
  ASSUME NEW y \in Int, NEW m \in Int, NEW v \in Int, y >= FirstYear,
         IsDate(Date(y, m, v))
  PROVE  j2date(date2j(y, m, v) + 1) = NextDay(Date(y, m, v))
<1> DEFINE n == NextDay(Date(y, m, v))
<1>1. date2j(n.year, n.mon, n.mday) = date2j(y, m, v) + 1
  BY NextDayCounts
<1>2. /\ n.year \in Int /\ n.year >= FirstYear /\ n.mon \in Int /\ n.mday \in Int
      /\ n = Date(n.year, n.mon, n.mday) /\ IsDate(n)
  <2>1. m \in CalendarMonths /\ v \in 1..MonthLength(y, m) /\ MonthLength(y, m) \in 28..31
    <3>1. m \in CalendarMonths /\ v \in 1..MonthLength(y, m)
      BY DEF IsDate, Date, MonthsPerYear, CalendarMonths
    <3> QED BY <3>1, MonthLengths DEF CalendarMonths
  <2>2. MonthLength(y + 1, 1) = 31
    BY MonthLengths
  <2>3. m < 12 => MonthLength(y, m + 1) \in 28..31
    BY <2>1, MonthLengths DEF CalendarMonths
  <2>4. \/ n = Date(y, m, v + 1) /\ v < MonthLength(y, m)
        \/ n = Date(y, m + 1, 1) /\ m < 12
        \/ n = Date(y + 1, 1, 1)
    BY <2>1 DEF NextDay, Date, MonthsPerYear, CalendarMonths
  <2> HIDE DEF n
  <2> QED BY <2>1, <2>2, <2>3, <2>4 DEF Date, IsDate, MonthsPerYear, CalendarMonths, FirstYear
<1> HIDE DEF n
<1>3. j2date(date2j(n.year, n.mon, n.mday)) = n
  BY <1>2, DatesComeBack
<1> QED BY <1>1, <1>3 DEF n

----------------------------------------------------------------------------
(* Months *)

\* timestamptz_pl_interval advances the count of months by just the number
\* asked for, and ends in a month of the year, whatever the signs.
THEOREM MonthsCounted ==
  ASSUME NEW y \in Int, NEW m \in CalendarMonths, NEW n \in Int
  PROVE  LET t == MonthsOn(y, m, n)
         IN  /\ t.year \in Int /\ t.mon \in CalendarMonths
             /\ t.year * 12 + t.mon = y * 12 + m + n
<1> DEFINE t == MonthsOn(y, m, n)
           mon == m + n
<1>1. mon \in Int /\ m \in 1..12 BY DEF CalendarMonths
<1>2. CASE mon > 12
  <2>1. t = [year |-> y + (mon - 1) \div 12, mon |-> ((mon - 1) % 12) + 1]
    BY <1>2 DEF MonthsOn, MonthsPerYear
  <2> QED BY <1>1, <1>2, <2>1 DEF CalendarMonths
<1>3. CASE mon < 1
  <2>1. t = [year |-> y + CDiv(mon, 12) - 1, mon |-> CMod(mon, 12) + 12]
    <3>1. ~ (mon > 12) BY <1>1, <1>3
    <3> QED BY <1>3, <3>1 DEF MonthsOn, MonthsPerYear
  <2>2. CDiv(mon, 12) = -((-mon) \div 12)
    BY <1>1, <1>3 DEF CDiv
  <2> QED BY <1>1, <1>3, <2>1, <2>2 DEF CMod, CalendarMonths
<1>4. CASE ~ (mon > 12) /\ ~ (mon < 1)
  <2>1. t = [year |-> y, mon |-> mon]
    BY <1>4 DEF MonthsOn, MonthsPerYear
  <2> QED BY <1>1, <1>4, <2>1 DEF CalendarMonths
<1> QED BY <1>1, <1>2, <1>3, <1>4

\* Months added to a date give a date, no later in its month: the day is
\* clipped to the month and otherwise kept.
THEOREM MonthsGiveDate ==
  ASSUME NEW y \in Int, NEW m \in Int, NEW v \in Int, NEW n \in Int,
         IsDate(Date(y, m, v))
  PROVE  LET to == AddMonths(Date(y, m, v), n)
         IN  /\ IsDate(to) /\ to.mday <= v
             /\ to.mday < v => to.mday = MonthLength(to.year, to.mon)
<1> DEFINE t == MonthsOn(y, m, n)
           last == MonthLength(t.year, t.mon)
           to == AddMonths(Date(y, m, v), n)
<1>1. m \in CalendarMonths /\ v \in 1..MonthLength(y, m)
  BY DEF IsDate, Date, MonthsPerYear, CalendarMonths
<1>2. t.year \in Int /\ t.mon \in CalendarMonths
  BY <1>1, MonthsCounted
<1>3. last \in 28..31
  BY <1>2, MonthLengths DEF CalendarMonths
<1>4. to = Date(t.year, t.mon, IF v > last THEN last ELSE v)
  BY DEF AddMonths, Date
<1>5. to.year = t.year /\ to.mon = t.mon /\ to.mday = IF v > last THEN last ELSE v
  BY <1>4 DEF Date
<1>6. v \in Nat /\ v >= 1
  <2>1. MonthLength(y, m) \in 28..31
    BY <1>1, MonthLengths DEF CalendarMonths
  <2> QED BY <1>1, <2>1
<1>7. MonthLength(to.year, to.mon) = last BY <1>5
<1> HIDE DEF last, t, to
<1> QED BY <1>2, <1>3, <1>5, <1>6, <1>7 DEF IsDate, MonthsPerYear, CalendarMonths, to

----------------------------------------------------------------------------
(* Years and their days *)

\* Rounded down, one formula counts the leap years of either sign.
LEMMA LeapYears ==
  ASSUME NEW y \in Int
  PROVE  /\ leaps_thru_end_of(y) = y \div 4 - y \div 100 + y \div 400
         /\ leaps_thru_end_of(y) \in Int
<1>1. CASE y >= 0
  BY <1>1 DEF leaps_thru_end_of, LeapsSince0
<1>2. CASE y < 0
  <2> DEFINE k == -(y + 1)
  <2>1. k \in Nat BY <1>2
  <2>2. /\ y \div 4 = -(k \div 4) - 1 /\ y \div 100 = -(k \div 100) - 1
        /\ y \div 400 = -(k \div 400) - 1
    BY <2>1
  <2>3. leaps_thru_end_of(y) = -(k \div 4 - k \div 100 + k \div 400 + 1)
    BY <1>2 DEF leaps_thru_end_of, LeapsSince0
  <2> QED BY <2>1, <2>2, <2>3
<1> QED BY <1>1, <1>2

\* A year is as long as the leap years counted say.
LEMMA LengthOfYear ==
  ASSUME NEW y \in Int
  PROVE  /\ YearLength(y) = 365 + leaps_thru_end_of(y) - leaps_thru_end_of(y - 1)
         /\ YearLength(y) \in {365, 366}
<1>1. y - 1 \in Int OBVIOUS
<1>2. /\ leaps_thru_end_of(y) = y \div 4 - y \div 100 + y \div 400
      /\ leaps_thru_end_of(y - 1) = (y - 1) \div 4 - (y - 1) \div 100 + (y - 1) \div 400
  <2>1. leaps_thru_end_of(y) = y \div 4 - y \div 100 + y \div 400 BY LeapYears
  <2> DEFINE x == y - 1
  <2>2. x \in Int BY <1>1
  <2> HIDE DEF x
  <2>3. leaps_thru_end_of(x) = x \div 4 - x \div 100 + x \div 400 BY <2>2, LeapYears
  <2> QED BY <2>1, <2>3 DEF x
<1>3. y \div 4 - (y - 1) \div 4 = IF y % 4 = 0 THEN 1 ELSE 0
  <2> DEFINE a == y \div 4
             b == y % 4
  <2>1. a \in Int /\ b \in 0..3 /\ y = 4 * a + b OBVIOUS
  <2> HIDE DEF a, b
  <2>2. (y - 1) \div 4 = IF b = 0 THEN a - 1 ELSE a BY <2>1
  <2>3. a - (y - 1) \div 4 = IF b = 0 THEN 1 ELSE 0 BY <2>1, <2>2
  <2> QED BY <2>3 DEF a, b
<1>4. y \div 100 - (y - 1) \div 100 = IF y % 100 = 0 THEN 1 ELSE 0
  OBVIOUS
<1>5. y \div 400 - (y - 1) \div 400 = IF y % 400 = 0 THEN 1 ELSE 0
  OBVIOUS
<1>6. (y % 400 = 0 => y % 100 = 0) /\ (y % 100 = 0 => y % 4 = 0)
  OBVIOUS
<1> QED BY <1>2, <1>3, <1>4, <1>5, <1>6 DEF YearLength, isleap

\* A year as cycles of 400, 100 and 4 years and a rest.
InCycles(y, a, b, c, v) ==
  /\ 0 <= b /\ b <= 3 /\ 0 <= c /\ c <= 24 /\ 0 <= v /\ v <= 3
  /\ y = 400 * a + 100 * b + 4 * c + v
  /\ leaps_thru_end_of(y) = 97 * a + 24 * b + c

\* Every year is such a sum, and the leap years up to it are counted so.
LEMMA YearInCycles ==
  ASSUME NEW x \in Int
  PROVE  \E a, b, c, v \in Int : InCycles(x, a, b, c, v)
<1> DEFINE a == x \div 400
           b == x \div 100 - 4 * a
           c == x \div 4 - 25 * (x \div 100)
           v == x - 4 * (x \div 4)
<1>1. /\ a \in Int /\ b \in Int /\ c \in Int /\ v \in Int
      /\ 0 <= b /\ b <= 3 /\ 0 <= c /\ c <= 24 /\ 0 <= v /\ v <= 3
  OBVIOUS
<1>2. /\ x = 400 * a + 100 * b + 4 * c + v
      /\ x \div 4 - x \div 100 + x \div 400 = 97 * a + 24 * b + c
  OBVIOUS
<1>3. leaps_thru_end_of(x) = x \div 4 - x \div 100 + x \div 400
  BY LeapYears
<1>4. InCycles(x, a, b, c, v)
  BY <1>1, <1>2, <1>3 DEF InCycles
<1> HIDE DEF a, b, c, v
<1> QED BY <1>1, <1>4

\* There are no more leap years between two years than years.
LEMMA LeapsBetween ==
  ASSUME NEW y \in Int, NEW z \in Int, y <= z
  PROVE  /\ leaps_thru_end_of(y) <= leaps_thru_end_of(z)
         /\ leaps_thru_end_of(z) - leaps_thru_end_of(y) <= z - y
<1>3. PICK a, b, c, v \in Int : InCycles(y, a, b, c, v)
  BY YearInCycles
<1>4. PICK e, f, g, h \in Int : InCycles(z, e, f, g, h)
  BY YearInCycles
<1>5. 97 * a + 24 * b + c <= 97 * e + 24 * f + g
  BY <1>3, <1>4 DEF InCycles
<1>6. (97 * e + 24 * f + g) - (97 * a + 24 * b + c) <= z - y
  BY <1>3, <1>4 DEF InCycles
<1> QED BY <1>3, <1>4, <1>5, <1>6 DEF InCycles

\* The number of a day given by its year and its place in it.
DayOf(p) == p[1] * 365 + leaps_thru_end_of(p[1] - 1) + p[2]
YearDays == Int \X Int

\* The number, written out.
LEMMA DayOfYears ==
  ASSUME NEW y \in Int, NEW t \in Int
  PROVE  /\ leaps_thru_end_of(y - 1) \in Int
         /\ DayOf(<<y, t>>) = y * 365 + leaps_thru_end_of(y - 1) + t
         /\ DayOf(<<y, t>>) \in Int
<1>1. y - 1 \in Int OBVIOUS
<1>2. leaps_thru_end_of(y - 1) \in Int BY <1>1, LeapYears
<1> QED BY <1>2 DEF DayOf

\* Days of a later year have greater numbers.
LEMMA YearsGrow ==
  ASSUME NEW y \in Int, NEW z \in Int, NEW t \in Int, NEW u \in Int,
         InYear(<<y, t>>), InYear(<<z, u>>), y < z
  PROVE  DayOf(<<y, t>>) < DayOf(<<z, u>>)
<1> DEFINE x == z - 1
<1>1. x \in Int /\ y <= x BY DEF x
<1>2. leaps_thru_end_of(y) <= leaps_thru_end_of(x)
  BY <1>1, LeapsBetween
<1>3. /\ DayOf(<<y, t>>) = y * 365 + leaps_thru_end_of(y - 1) + t
      /\ DayOf(<<z, u>>) = z * 365 + leaps_thru_end_of(x) + u
      /\ leaps_thru_end_of(y - 1) \in Int /\ leaps_thru_end_of(x) \in Int
  BY DayOfYears
<1>4. t < 365 + leaps_thru_end_of(y) - leaps_thru_end_of(y - 1) /\ 0 <= u
  BY LengthOfYear DEF InYear
<1>5. leaps_thru_end_of(y) \in Int BY LeapYears
<1> QED BY <1>1, <1>2, <1>3, <1>4, <1>5

\* A day lies in one year only.
LEMMA OneYear ==
  ASSUME NEW p \in YearDays, NEW q \in YearDays, InYear(p), InYear(q), DayOf(p) = DayOf(q)
  PROVE  p = q
<1>1. PICK y, t \in Int : p = <<y, t>> BY DEF YearDays
<1>2. PICK z, u \in Int : q = <<z, u>> BY DEF YearDays
<1>3. ~ (y < z) /\ ~ (z < y)
  <2>1. DayOf(<<y, t>>) \in Int /\ DayOf(<<z, u>>) \in Int
    BY DayOfYears
  <2> QED BY <1>1, <1>2, <2>1, YearsGrow
<1>4. y = z
  BY <1>3
<1>5. /\ DayOf(<<y, t>>) = y * 365 + leaps_thru_end_of(y - 1) + t
      /\ DayOf(<<y, u>>) = y * 365 + leaps_thru_end_of(y - 1) + u
      /\ leaps_thru_end_of(y - 1) \in Int
  BY DayOfYears
<1>6. DayOf(<<y, t>>) = DayOf(<<y, u>>) BY <1>1, <1>2, <1>4
<1>7. t = u BY <1>5, <1>6
<1> QED BY <1>1, <1>2, <1>4, <1>7

\* A non-empty set of naturals has a least member.
LEMMA LeastNatural ==
  ASSUME NEW S, S \subseteq Nat, S # {}
  PROVE  \E n \in S : \A k \in S : n <= k
<1>1. IsWellFoundedOn(OpToRel(<, Nat), Nat)
  BY NatLessThanWellFounded
<1>2. PICK n \in S : \A k \in S : ~ (<<k, n>> \in OpToRel(<, Nat))
  BY <1>1, WFMin, S \in SUBSET Nat
<1>3. \A k \in S : ~ (k < n)
  BY <1>2 DEF OpToRel
<1> QED BY <1>3

\* How far a day is outside its year.
Far(p) == IF InYear(p) THEN 0 ELSE IF p[2] < 0 THEN 1 - p[2] ELSE 1 + p[2]

\* The distance is a natural number, so that it cannot shrink for ever.
LEMMA FarNat ==
  ASSUME NEW p \in YearDays
  PROVE  Far(p) \in Nat
BY DEF Far, YearDays

\* A loop that keeps the day and comes closer with each round ends in its year.
Closer(p, q) == q \in YearDays /\ DayOf(q) = DayOf(p) /\ Far(q) < Far(p)
InItsYear(p, q) == q \in YearDays /\ InYear(q) /\ DayOf(q) = DayOf(p)
LoopOf(step, f) == f = [p \in YearDays |-> IF InYear(p) THEN p ELSE f[step[p]]]

\* Such a loop computes a function ...
LEMMA LoopExists ==
  ASSUME NEW step, \A p \in YearDays : ~ InYear(p) => Closer(p, step[p])
  PROVE  \E f : LoopOf(step, f)
<1> DEFINE year(n) == CHOOSE q \in YearDays : InYear(q) /\ DayOf(q) = n
           f == [p \in YearDays |-> year(DayOf(p))]
<1>1. \A p \in YearDays : InYear(p) => f[p] = p
  <2> SUFFICES ASSUME NEW p \in YearDays, InYear(p) PROVE f[p] = p
    OBVIOUS
  <2>1. /\ year(DayOf(p)) \in YearDays /\ InYear(year(DayOf(p)))
        /\ DayOf(year(DayOf(p))) = DayOf(p)
    OBVIOUS
  <2> QED BY <2>1, OneYear
<1>2. \A p \in YearDays : ~ InYear(p) => f[p] = f[step[p]]
  BY DEF Closer
<1>3. f = [p \in YearDays |-> IF InYear(p) THEN p ELSE f[step[p]]]
  <2> DEFINE g == [p \in YearDays |-> IF InYear(p) THEN p ELSE f[step[p]]]
  <2>1. \A p \in YearDays : f[p] = g[p]
    BY <1>1, <1>2
  <2> QED BY <2>1
<1> HIDE DEF f
<1> QED BY <1>3 DEF LoopOf

\* ... that finds the same day, in its year.
LEMMA LoopFinds ==
  ASSUME NEW step, \A p \in YearDays : ~ InYear(p) => Closer(p, step[p]),
         NEW f, LoopOf(step, f)
  PROVE  \A p \in YearDays : InItsYear(p, f[p])
<1> DEFINE missed == {p \in YearDays : ~ InItsYear(p, f[p])}
           S == {Far(p) : p \in missed}
<1> SUFFICES ASSUME NEW p0 \in missed PROVE FALSE
  OBVIOUS
<1>1. S \subseteq Nat /\ Far(p0) \in S
  BY FarNat
<1>2. PICK n \in S : \A k \in S : n <= k
  <2> HIDE DEF S
  <2> QED BY <1>1, LeastNatural
<1>3. PICK p \in missed : Far(p) = n
  BY <1>2
<1>4. CASE InYear(p)
  <2>1. f[p] = p BY <1>4 DEF LoopOf
  <2> QED BY <1>4, <2>1 DEF InItsYear
<1>5. CASE ~ InYear(p)
  <2> DEFINE q == step[p]
  <2>1. f[p] = f[q] BY <1>5 DEF LoopOf
  <2>2. q \in YearDays /\ DayOf(q) = DayOf(p) /\ Far(q) < Far(p)
    BY <1>5 DEF Closer
  <2>3. Far(q) \in Nat /\ Far(p) \in Nat BY <2>2, FarNat
  <2> HIDE DEF q
  <2>4. q \notin missed
    <3>1. SUFFICES ASSUME q \in missed PROVE FALSE OBVIOUS
    <3>2. Far(q) \in S BY <3>1
    <3> HIDE DEF S
    <3> QED BY <1>2, <1>3, <2>2, <2>3, <3>2
  <2>5. InItsYear(q, f[q]) BY <2>2, <2>4
  <2> QED BY <2>1, <2>2, <2>5 DEF InItsYear
<1> QED BY <1>4, <1>5

----------------------------------------------------------------------------
(* The rounds of the loops *)

\* Division towards zero.
LEMMA TowardsZero ==
  ASSUME NEW a \in Int
  PROVE  LET q == CDiv(a, 366)
         IN  /\ q \in Int
             /\ a >= 0 => 366 * q <= a /\ a < 366 * q + 366
             /\ a <= 0 => a <= 366 * q /\ 366 * q - 366 < a
<1>1. a >= 0 => CDiv(a, 366) = a \div 366 BY DEF CDiv
<1>2. a < 0 => CDiv(a, 366) = -((-a) \div 366) BY DEF CDiv
<1> QED BY <1>1, <1>2

\* timesub's first loop: a guess of the year from its distance (timesub.c).
LEMMA LeapCloser ==
  ASSUME NEW y \in Int, NEW t \in Int, ~ InYear(<<y, t>>)
  PROVE  Closer(<<y, t>>, Leap(y, t))
<1> DEFINE q == CDiv(t, 366)
           v == IF q # 0 THEN q ELSE IF t < 0 THEN -1 ELSE 1
           x == y - 1
           z == (y + v) - 1
           k == leaps_thru_end_of(z) - leaps_thru_end_of(x)
           u == t - v * 365 - k
<1>1. Leap(y, t) = <<y + v, u>>
  BY DEF Leap, DAYSPERLYEAR, DAYSPERNYEAR
<1>2. /\ q \in Int
      /\ t >= 0 => 366 * q <= t /\ t < 366 * q + 366
      /\ t <= 0 => t <= 366 * q /\ 366 * q - 366 < t
  BY TowardsZero
<1> HIDE DEF q
<1>3. v \in Int /\ (t < 0 => v <= -1) /\ (t >= 0 => v >= 1)
  BY <1>2
<1>4. x \in Int /\ z \in Int /\ z = x + v
  BY <1>3
<1>5. (q # 0 => v = q) /\ (q = 0 /\ t < 0 => v = -1) /\ (q = 0 /\ t >= 0 => v = 1)
  BY <1>3
<1>6. y + v \in Int /\ (y + v) - 1 = z BY <1>3
<1> HIDE DEF v, x, z
<1>7. leaps_thru_end_of(x) \in Int /\ leaps_thru_end_of(z) \in Int
  BY <1>4, LeapYears
<1>8. k \in Int /\ (v >= 0 => 0 <= k /\ k <= v) /\ (v <= 0 => v <= k /\ k <= 0)
  <2>1. CASE v >= 0
    <3>1. x <= z BY <1>3, <1>4, <2>1
    <3>2. /\ leaps_thru_end_of(x) <= leaps_thru_end_of(z)
          /\ leaps_thru_end_of(z) - leaps_thru_end_of(x) <= z - x
      BY <1>4, <3>1, LeapsBetween
    <3> QED BY <1>3, <1>4, <1>7, <2>1, <3>2
  <2>2. CASE v <= 0
    <3>1. z <= x BY <1>3, <1>4, <2>2
    <3>2. /\ leaps_thru_end_of(z) <= leaps_thru_end_of(x)
          /\ leaps_thru_end_of(x) - leaps_thru_end_of(z) <= x - z
      BY <1>4, <3>1, LeapsBetween
    <3> QED BY <1>3, <1>4, <1>7, <2>2, <3>2
  <2> QED BY <1>3, <2>1, <2>2
<1>9. DayOf(<<y + v, u>>) = DayOf(<<y, t>>) /\ u \in Int
  <2>1. u \in Int BY <1>3, <1>8
  <2>2. DayOf(<<y, t>>) = y * 365 + leaps_thru_end_of(x) + t
    BY DayOfYears DEF x
  <2>3. DayOf(<<y + v, u>>) = (y + v) * 365 + leaps_thru_end_of(z) + u
    BY <1>6, <2>1, DayOfYears
  <2> QED BY <1>3, <1>7, <2>2, <2>3
<1>10. YearLength(y) = 365 + leaps_thru_end_of(y) - leaps_thru_end_of(x)
       /\ YearLength(y) \in {365, 366} /\ ~ (0 <= t /\ t < YearLength(y))
  BY LengthOfYear DEF InYear, x
<1>11. Far(<<y, t>>) = IF t < 0 THEN 1 - t ELSE 1 + t
  BY DEF Far
<1> HIDE DEF k
<1>12. CASE q # 0
  <2>1. IF t < 0 THEN t < u /\ u <= 0 ELSE 0 <= u /\ u < t
    BY <1>2, <1>3, <1>5, <1>8, <1>12
  <2> QED BY <1>1, <1>3, <1>9, <1>11, <2>1 DEF Closer, Far, YearDays
<1>13. CASE q = 0 /\ t < 0
  <2>1. v = -1 BY <1>5, <1>13
  <2>2. z = x - 1 /\ x = y + v BY <1>4, <2>1 DEF x
  <2>3. YearLength(x) = 365 + leaps_thru_end_of(x) - leaps_thru_end_of(z)
    BY <1>4, <2>2, LengthOfYear
  <2>4. u = t + YearLength(x) BY <1>7, <2>1, <2>3 DEF k
  <2>5. YearLength(x) \in {365, 366} BY <1>4, LengthOfYear
  <2>6. -366 < t BY <1>2, <1>13
  <2>7. u >= 0 \/ t = -366 + 0
    BY <2>4, <2>5, <2>6
  <2>8. 0 <= u /\ u < YearLength(x) BY <1>13, <2>4, <2>5, <2>6
  <2>9. InYear(<<y + v, u>>) BY <2>2, <2>8 DEF InYear
  <2> QED BY <1>1, <1>3, <1>9, <1>11, <1>13, <2>9 DEF Closer, Far, YearDays
<1>14. CASE q = 0 /\ t >= 0
  <2>1. v = 1 BY <1>5, <1>14
  <2>2. z = y BY <1>4, <2>1 DEF x
  <2>3. t < 366 BY <1>2, <1>14
  <2>4. t = 365 /\ YearLength(y) = 365 BY <1>10, <1>14, <2>3
  <2>5. u = 0 BY <1>7, <1>10, <2>1, <2>2, <2>4 DEF k
  <2>6. YearLength(y + v) \in {365, 366} BY <1>6, LengthOfYear
  <2>9. InYear(<<y + v, u>>) BY <2>5, <2>6 DEF InYear
  <2> QED BY <1>1, <1>3, <1>9, <1>11, <1>14, <2>9 DEF Closer, Far, YearDays
<1> QED BY <1>2, <1>12, <1>13, <1>14

\* timesub's second loop: a year at a time.
LEMMA NextYearCloser ==
  ASSUME NEW y \in Int, NEW t \in Int, ~ InYear(<<y, t>>)
  PROVE  Closer(<<y, t>>, NextYear(y, t))
<1> DEFINE x == y - 1
           w == y + 1
<1>1. /\ x \in Int /\ w \in Int
      /\ YearLength(y) = 365 + leaps_thru_end_of(y) - leaps_thru_end_of(x)
      /\ YearLength(y) \in {365, 366}
      /\ YearLength(x) = 365 + leaps_thru_end_of(x) - leaps_thru_end_of(x - 1)
      /\ YearLength(x) \in {365, 366}
  BY LengthOfYear
<1>2. /\ leaps_thru_end_of(y) \in Int /\ leaps_thru_end_of(x) \in Int
      /\ leaps_thru_end_of(x - 1) \in Int
  BY DayOfYears, LeapYears
<1>3. ~ (0 <= t /\ t < YearLength(y)) BY DEF InYear
<1>4. Far(<<y, t>>) = IF t < 0 THEN 1 - t ELSE 1 + t
  BY DEF Far
<1>5. DayOf(<<y, t>>) = y * 365 + leaps_thru_end_of(x) + t
  BY DayOfYears
<1>6. CASE t < 0
  <2> DEFINE u == t + YearLength(x)
  <2>1. NextYear(y, t) = <<x, u>> BY <1>6 DEF NextYear
  <2>2. u \in Int /\ t < u /\ u < YearLength(x) BY <1>1, <1>6
  <2>3. DayOf(<<x, u>>) = x * 365 + leaps_thru_end_of(x - 1) + u
    BY <1>1, <2>2, DayOfYears
  <2>4. DayOf(<<x, u>>) = DayOf(<<y, t>>) BY <1>1, <1>2, <1>5, <2>3
  <2>5. u >= 0 => InYear(<<x, u>>) BY <2>2 DEF InYear
  <2> HIDE DEF u
  <2> QED BY <1>1, <1>4, <1>6, <2>1, <2>2, <2>4, <2>5 DEF Closer, Far, YearDays
<1>7. CASE t >= 0
  <2> DEFINE u == t - YearLength(y)
  <2>1. NextYear(y, t) = <<w, u>> BY <1>7 DEF NextYear
  <2>2. u \in Int /\ u < t /\ u >= 0 BY <1>1, <1>3, <1>7
  <2>3. w - 1 = y OBVIOUS
  <2>4. DayOf(<<w, u>>) = w * 365 + leaps_thru_end_of(y) + u
    BY <1>1, <2>2, <2>3, DayOfYears
  <2>5. DayOf(<<w, u>>) = DayOf(<<y, t>>) BY <1>1, <1>2, <1>5, <2>4
  <2> HIDE DEF u
  <2> QED BY <1>1, <1>4, <1>7, <2>1, <2>2, <2>5 DEF Closer, Far, YearDays
<1> QED BY <1>6, <1>7

\* So the first loop finds the year of a day ...
LEMMA YearOfDayFinds ==
  ASSUME NEW p \in YearDays
  PROVE  InItsYear(p, YearOfDay[p])
<1> DEFINE step == [q \in YearDays |-> Leap(q[1], q[2])]
<1>1. \A q \in YearDays : ~ InYear(q) => Closer(q, step[q])
  BY LeapCloser DEF YearDays
<1>2. \A f : LoopOf(step, f) <=>
             f = [q \in Int \X Int |-> IF InYear(q) THEN q ELSE f[Leap(q[1], q[2])]]
  BY DEF LoopOf, YearDays
<1> HIDE DEF step
<1>3. \E f : LoopOf(step, f) BY <1>1, LoopExists
<1>4. LoopOf(step, YearOfDay)
  <2>1. \E f : f = [q \in Int \X Int |-> IF InYear(q) THEN q ELSE f[Leap(q[1], q[2])]]
    BY <1>2, <1>3
  <2>2. YearOfDay = [q \in Int \X Int |->
                       IF InYear(q) THEN q ELSE YearOfDay[Leap(q[1], q[2])]]
    BY <2>1 DEF YearOfDay
  <2> QED BY <1>2, <2>2
<1> QED BY <1>1, <1>4, LoopFinds

\* ... and so does the second.
LEMMA IntoYearFinds ==
  ASSUME NEW p \in YearDays
  PROVE  InItsYear(p, IntoYear[p])
<1> DEFINE step == [q \in YearDays |-> NextYear(q[1], q[2])]
<1>1. \A q \in YearDays : ~ InYear(q) => Closer(q, step[q])
  BY NextYearCloser DEF YearDays
<1>2. \A f : LoopOf(step, f) <=>
             f = [q \in Int \X Int |-> IF InYear(q) THEN q ELSE f[NextYear(q[1], q[2])]]
  BY DEF LoopOf, YearDays
<1> HIDE DEF step
<1>3. \E f : LoopOf(step, f) BY <1>1, LoopExists
<1>4. LoopOf(step, IntoYear)
  <2>1. \E f : f = [q \in Int \X Int |-> IF InYear(q) THEN q ELSE f[NextYear(q[1], q[2])]]
    BY <1>2, <1>3
  <2>2. IntoYear = [q \in Int \X Int |->
                      IF InYear(q) THEN q ELSE IntoYear[NextYear(q[1], q[2])]]
    BY <2>1 DEF IntoYear
  <2> QED BY <1>2, <2>2
<1> QED BY <1>1, <1>4, LoopFinds

----------------------------------------------------------------------------
(* The month of a day of the year *)

\* The days of the months before.
Gone(leap) ==
  IF leap THEN <<0, 31, 60, 91, 121, 152, 182, 213, 244, 274, 305, 335>>
  ELSE <<0, 31, 59, 90, 120, 151, 181, 212, 243, 273, 304, 334>>

\* The table of month lengths, summed up.
LEMMA MonthsGone ==
  ASSUME NEW leap \in BOOLEAN, NEW m \in 1..12
  PROVE  /\ Gone(leap)[m] \in Int /\ Gone(leap)[1] = 0
         /\ day_tab(leap)[m] \in Int /\ day_tab(leap)[m] >= 28
         /\ m > 1 => Gone(leap)[m] = Gone(leap)[m - 1] + day_tab(leap)[m - 1]
         /\ Gone(leap)[12] + day_tab(leap)[12] = IF leap THEN 366 ELSE 365
BY DEF Gone, day_tab, common_months, leap_months

\* What is left at the start of a month.
LEMMA DaysLeftIs ==
  ASSUME NEW leap \in BOOLEAN, NEW t \in Int, NEW m \in 1..12
  PROVE  DaysLeft(day_tab(leap), t)[m] = t - Gone(leap)[m]
<1> DEFINE ip == day_tab(leap)
           gone == Gone(leap)
           left == DaysLeft(ip, t)
           f == [k \in 1..12 |-> t - gone[k]]
<1>0. \A k \in 1..12 : /\ gone[k] \in Int /\ ip[k] \in Int /\ gone[1] = 0
                       /\ k > 1 => gone[k] = gone[k - 1] + ip[k - 1]
  <2> TAKE k \in 1..12
  <2> QED BY MonthsGone
<1> HIDE DEF ip, gone
<1>1. f = [k \in 1..12 |-> IF k = 1 THEN t ELSE f[k - 1] - ip[k - 1]]
  BY <1>0
<1> HIDE DEF f
<1>2. left = [k \in 1..12 |-> IF k = 1 THEN t ELSE left[k - 1] - ip[k - 1]]
  BY <1>1 DEF left, DaysLeft, MonthsPerYear
<1> HIDE DEF left
<1>3. left[1] = t - gone[1]
  BY <1>0, <1>2
<1>4. \A k \in 2..12 : left[k - 1] = t - gone[k - 1] => left[k] = t - gone[k]
  <2> TAKE k \in 2..12
  <2>1. k \in 1..12 /\ k - 1 \in 1..12 /\ k # 1 OBVIOUS
  <2>2. left[k] = left[k - 1] - ip[k - 1] BY ONLY <1>2, <2>1
  <2> QED BY <1>0, <2>1, <2>2
<1>5. \A k \in 1..12 : left[k] = t - gone[k]
  <2>1. left[2] = t - gone[2] BY <1>3, <1>4
  <2>2. left[3] = t - gone[3] BY <1>4, <2>1
  <2>3. left[4] = t - gone[4] BY <1>4, <2>2
  <2>4. left[5] = t - gone[5] BY <1>4, <2>3
  <2>5. left[6] = t - gone[6] BY <1>4, <2>4
  <2>6. left[7] = t - gone[7] BY <1>4, <2>5
  <2>7. left[8] = t - gone[8] BY <1>4, <2>6
  <2>8. left[9] = t - gone[9] BY <1>4, <2>7
  <2>9. left[10] = t - gone[10] BY <1>4, <2>8
  <2>10. left[11] = t - gone[11] BY <1>4, <2>9
  <2>11. left[12] = t - gone[12] BY <1>4, <2>10
  <2> QED BY <1>3, <2>1, <2>2, <2>3, <2>4, <2>5, <2>6, <2>7, <2>8, <2>9, <2>10, <2>11
<1> QED BY <1>5 DEF left, ip, gone

\* The month and day found are those of the day of the year.
LEMMA MonthFound ==
  ASSUME NEW leap \in BOOLEAN, NEW t \in Nat, t < (IF leap THEN 366 ELSE 365)
  PROVE  LET md == IntoMonth(day_tab(leap), t)
         IN  /\ md[1] \in 1..12 /\ md[2] \in Nat /\ md[2] < day_tab(leap)[md[1]]
             /\ t = Gone(leap)[md[1]] + md[2]
<1> DEFINE ip == day_tab(leap)
           left == DaysLeft(ip, t)
           first(m) == left[m] < ip[m] /\ \A k \in 1..(m - 1) : left[k] >= ip[k]
           mon == CHOOSE m \in 1..12 : first(m)
           S == {m \in 1..12 : left[m] < ip[m]}
<1>1. \A m \in 1..12 : /\ left[m] = t - Gone(leap)[m] /\ Gone(leap)[m] \in Int
                       /\ ip[m] \in Int /\ Gone(leap)[1] = 0
                       /\ m > 1 => Gone(leap)[m] = Gone(leap)[m - 1] + ip[m - 1]
                       /\ Gone(leap)[12] + ip[12] = IF leap THEN 366 ELSE 365
  <2> TAKE m \in 1..12
  <2>1. left[m] = t - Gone(leap)[m] BY DaysLeftIs
  <2> HIDE DEF left
  <2> QED BY <2>1, MonthsGone
<1>2. IntoMonth(ip, t) = <<mon, left[mon]>>
  BY DEF IntoMonth, MonthsPerYear
<1> HIDE DEF left, ip
<1>3. 12 \in S /\ S \subseteq Nat
  BY <1>1
<1>4. PICK m \in S : \A k \in S : m <= k
  <2> HIDE DEF S
  <2> QED BY <1>3, LeastNatural
<1>5. first(m) /\ m \in 1..12
  <2>1. \A k \in 1..(m - 1) : left[k] >= ip[k]
    <3> TAKE k \in 1..(m - 1)
    <3>1. k \in 1..12 /\ k < m BY <1>4
    <3>2. k \notin S BY <1>4, <3>1
    <3> QED BY <1>1, <3>1, <3>2
  <2> QED BY <1>4, <2>1
<1>6. mon \in 1..12 /\ first(mon)
  BY <1>5
<1> HIDE DEF mon
<1>7. left[mon] >= 0
  <2>1. CASE mon = 1
    BY <1>1, <2>1
  <2>2. CASE mon # 1
    <3>1. mon - 1 \in 1..(mon - 1) /\ mon - 1 \in 1..12 /\ mon > 1 BY <1>6, <2>2
    <3>2. left[mon - 1] >= ip[mon - 1] BY <1>6, <3>1
    <3>3. /\ left[mon] = t - Gone(leap)[mon] /\ Gone(leap)[mon] \in Int
          /\ Gone(leap)[mon] = Gone(leap)[mon - 1] + ip[mon - 1]
      BY <1>1, <1>6, <3>1
    <3>4. /\ left[mon - 1] = t - Gone(leap)[mon - 1] /\ Gone(leap)[mon - 1] \in Int
          /\ ip[mon - 1] \in Int
      BY <1>1, <3>1
    <3> QED BY <3>2, <3>3, <3>4
  <2> QED BY <2>1, <2>2
<1>8. left[mon] \in Nat /\ left[mon] < ip[mon] /\ t = Gone(leap)[mon] + left[mon]
  BY <1>1, <1>6, <1>7
<1> QED BY <1>2, <1>6, <1>8 DEF ip

----------------------------------------------------------------------------
(* The day numbers of the two counts *)

\* From the year 0 to the year 4800 BC.
ZeroDay == 1721061

\* The two counts agree on the first day of a year ...
LEMMA YearStart ==
  ASSUME NEW y \in Int, y >= FirstYear
  PROVE  Before(y + 4799) + 306 - 32044 = DayOf(<<y, 0>>) + ZeroDay
<1>1. PICK x \in Int : x = y - 1 OBVIOUS
<1>2. PICK s \in Int : s = y + 4799 OBVIOUS
<1>3. s \div 4 = x \div 4 + 1200 /\ s \div 100 = x \div 100 + 48
      /\ (x \div 100 + 48) \div 4 = x \div 400 + 12
  BY <1>1, <1>2
<1>4. leaps_thru_end_of(x) = x \div 4 - x \div 100 + x \div 400
  BY LeapYears
<1>5. DayOf(<<y, 0>>) = y * 365 + leaps_thru_end_of(x) + 0
  BY <1>1, DayOfYears
<1>6. Before(s) = s * 365 + s \div 4 - s \div 100 + (s \div 100) \div 4
  BY DEF Before
<1> QED BY <1>1, <1>2, <1>3, <1>4, <1>5, <1>6 DEF ZeroDay

\* ... and on every other one: the month and day found are those of the number.
LEMMA DateOfYearDay ==
  ASSUME NEW y \in Int, NEW t \in Nat, y >= FirstYear, InYear(<<y, t>>)
  PROVE  LET md == IntoMonth(day_tab(isleap(y)), t)
         IN  /\ md[1] \in Int /\ md[2] + 1 \in Int
             /\ IsDate(Date(y, md[1], md[2] + 1))
             /\ date2j(y, md[1], md[2] + 1) = DayOf(<<y, t>>) + ZeroDay
<1> DEFINE leap == isleap(y)
           md == IntoMonth(day_tab(leap), t)
           m == md[1]
           v == md[2] + 1
<1>1. leap \in BOOLEAN /\ t < (IF leap THEN 366 ELSE 365)
  BY DEF isleap, InYear, YearLength
<1>2. m \in 1..12 /\ md[2] \in Nat /\ md[2] < day_tab(leap)[m]
      /\ t = Gone(leap)[m] + md[2]
  BY <1>1, MonthFound
<1>3. day_tab(leap)[m] \in Int BY <1>1, <1>2, MonthsGone
<1> HIDE DEF md, leap
<1>4. v \in 1..day_tab(leap)[m] /\ v \in Int BY <1>2, <1>3
<1>5. IsDate(Date(y, m, v))
  BY <1>2, <1>4 DEF IsDate, Date, MonthLength, MonthsPerYear, leap
<1>6. /\ date2j(y, m, v) = Before(Shifted(y, m)) + Since(m, v) - 32044
      /\ Before(Shifted(y, m)) \in Int
  <2>1. m \in CalendarMonths BY <1>2 DEF CalendarMonths
  <2> HIDE DEF m, v
  <2> QED BY <1>4, <2>1, DayNumber
<1>7. /\ Before(y + 4799) \in Int
      /\ Before(y + 4800) = Before(y + 4799) + (IF leap THEN 366 ELSE 365)
  <2>1. y + 4799 \in Nat /\ (y + 4799) + 1 = y + 4800 BY DEF FirstYear
  <2>2. Before(y + 4799) \in Int BY <2>1 DEF Before
  <2> QED BY <2>1, <2>2, YearsFollow, LeapShift DEF leap
<1>8. Before(Shifted(y, m)) = Before(y + 4799)
         + (IF m > 2 THEN IF leap THEN 366 ELSE 365 ELSE 0)
  BY <1>2, <1>7 DEF Shifted
<1>9. Since(m, v) = v - 1 + Gone(leap)[m]
         + (IF m > 2 THEN IF leap THEN -60 ELSE -59 ELSE 306)
  <2>1. v \in Int BY <1>4
  <2> HIDE DEF m, v
  <2>2. m \in 1..12 BY <1>2 DEF m
  <2>3. CASE m > 6 BY <1>1, <2>1, <2>2, <2>3, MonthStarts DEF Gone
  <2>4. CASE m <= 6 BY <1>1, <2>1, <2>2, <2>4, MonthStarts DEF Gone
  <2> QED BY <2>2, <2>3, <2>4
<1>10. DayOf(<<y, t>>) = DayOf(<<y, 0>>) + t /\ DayOf(<<y, 0>>) \in Int
  BY DayOfYears
<1>11. Before(y + 4799) + 306 - 32044 = DayOf(<<y, 0>>) + ZeroDay
  BY YearStart
<1>12. date2j(y, m, v) = DayOf(<<y, t>>) + ZeroDay
  <2>1. Gone(leap)[m] \in Int
    <3> HIDE DEF m
    <3> QED BY <1>1, <1>2, MonthsGone
  <2> QED BY <1>1, <1>2, <1>4, <1>6, <1>7, <1>8, <1>9, <1>10, <1>11, <2>1 DEF ZeroDay
<1> QED BY <1>2, <1>4, <1>5, <1>12 DEF md, leap

\* The day of the week by timesub's formula is that of the day number.
LEMMA WeekDayIs ==
  ASSUME NEW y \in Int, NEW t \in Nat
  PROVE  WeekDay(y, t) = j2day(DayOf(<<y, t>>) + ZeroDay)
<1> DEFINE L == leaps_thru_end_of(y - 1)
           c == CDiv(y - 1970, 7)
           w == 4 + (y - 1970 - c * 7) + L - 477 + t
           n == y * 365 + L + t + ZeroDay
<1>1. L \in Int /\ DayOf(<<y, t>>) = y * 365 + L + t BY DayOfYears
<1>2. c \in Int BY DEF CDiv
<1>3. leaps_thru_end_of(1969) = 477
  BY DEF leaps_thru_end_of, LeapsSince0
<1>4. (1970 - 1 = 1969) /\ (365 % 7 = 1)
  OBVIOUS
<1>5. WeekDay(y, t) = IF CMod(w, 7) < 0 THEN CMod(w, 7) + 7 ELSE CMod(w, 7)
  <2>1. CMod(y - 1970, 7) = y - 1970 - c * 7 BY DEF CMod
  <2> HIDE DEF c, L
  <2>2. CMod(y - 1970, 7) * 1 = y - 1970 - c * 7 BY <1>2, <2>1
  <2> QED BY <1>1, <1>2, <1>3, <1>4, <2>1, <2>2
          DEF WeekDay, EPOCH_WDAY, EPOCH_YEAR, DAYSPERWEEK, DAYSPERNYEAR, L
<1> HIDE DEF c, L
<1>6. w \in Int /\ n \in Int BY <1>1, <1>2 DEF ZeroDay
<1>7. n + 1 = w + 7 * (52 * y + c + 246215)
  BY <1>1, <1>2 DEF ZeroDay
<1> HIDE DEF w, n
<1>8. (IF CMod(w, 7) < 0 THEN CMod(w, 7) + 7 ELSE CMod(w, 7)) = w % 7
  <2>1. CASE w >= 0 BY <1>6, <2>1 DEF CMod, CDiv
  <2>2. CASE w < 0 BY <1>6, <2>2 DEF CMod, CDiv
  <2> QED BY <1>6, <2>1, <2>2
<1>9. (n + 1) % 7 = w % 7 BY <1>2, <1>6, <1>7
<1> QED BY <1>1, <1>5, <1>8, <1>9 DEF j2day, n

----------------------------------------------------------------------------
(* timesub *)

\* The date and time shown are those of the day number (timesub.c).
THEOREM TimesubShows ==
  ASSUME NEW jd \in Nat, NEW sec \in Nat, sec < SECS_PER_DAY
  PROVE  LET s == timesub(jd - UNIX_EPOCH_JDATE, sec, 0)
         IN  /\ s.date = j2date(jd) /\ s.wday = j2day(jd)
             /\ IsDate(s.date) /\ s.date.year \in Int /\ s.date.year >= FirstYear
             /\ date2j(s.date.year, s.date.mon, s.date.mday) = jd
             /\ s.hour = sec \div 3600 /\ s.min = (sec % 3600) \div 60
             /\ s.sec = sec % 60
<1> DEFINE day == jd - UNIX_EPOCH_JDATE
           tr == Truncated(day, sec)
           yd == YearOfDay[<<1970, tr[1]>>]
           ds == DayOfSecond(yd[2], tr[2] + 0)
           p  == IntoYear[<<yd[1], ds[1]>>]
           md == IntoMonth(day_tab(isleap(p[1])), p[2])
           s  == timesub(day, sec, 0)
<1>1. s = [date |-> Date(p[1], md[1], md[2] + 1),
           hour |-> ds[2] \div 3600, min |-> (ds[2] % 3600) \div 60, sec |-> ds[2] % 60,
           wday |-> WeekDay(p[1], p[2]), yday |-> p[2]]
  BY DEF timesub, EPOCH_YEAR
<1>2. /\ tr[1] \in Int /\ tr[2] \in Int /\ day \in Int
      /\ tr = <<day, sec>> \/ tr = <<day + 1, sec - 86400>>
  BY DEF Truncated, UNIX_EPOCH_JDATE, SECS_PER_DAY
<1> HIDE DEF tr
<1>3. /\ yd \in YearDays /\ DayOf(yd) = DayOf(<<1970, tr[1]>>)
  <2>1. <<1970, tr[1]>> \in YearDays BY <1>2 DEF YearDays
  <2> QED BY <2>1, YearOfDayFinds DEF InItsYear
<1> HIDE DEF yd
<1>4. yd[1] \in Int /\ yd[2] \in Int /\ yd = <<yd[1], yd[2]>> BY <1>3 DEF YearDays
<1>5. ds[1] = yd[2] + (tr[2] \div 86400) /\ ds[2] = tr[2] % 86400 /\ tr[2] + 0 = tr[2]
  BY <1>2 DEF DayOfSecond, SECS_PER_DAY
<1>6. ds[2] = sec /\ ds[1] \in Int /\ ds[1] = yd[2] + day - tr[1]
  BY <1>2, <1>4, <1>5 DEF SECS_PER_DAY
<1> HIDE DEF ds
<1>7. p \in YearDays /\ InYear(p) /\ DayOf(p) = DayOf(<<yd[1], ds[1]>>)
  <2>1. <<yd[1], ds[1]>> \in YearDays BY <1>4, <1>6 DEF YearDays
  <2> QED BY <2>1, IntoYearFinds DEF InItsYear
<1> HIDE DEF p
<1>8. p[1] \in Int /\ p[2] \in Int /\ p = <<p[1], p[2]>> BY <1>7 DEF YearDays
<1>9. DayOf(p) = jd - ZeroDay
  <2>1. DayOf(<<yd[1], ds[1]>>) = DayOf(yd) + day - tr[1]
    <3>1. DayOf(<<yd[1], ds[1]>>) = yd[1] * 365 + leaps_thru_end_of(yd[1] - 1) + ds[1]
          /\ leaps_thru_end_of(yd[1] - 1) \in Int
      BY <1>4, <1>6, DayOfYears
    <3>2. DayOf(<<yd[1], yd[2]>>) = yd[1] * 365 + leaps_thru_end_of(yd[1] - 1) + yd[2]
      BY <1>4, DayOfYears
    <3> QED BY <1>2, <1>4, <1>6, <3>1, <3>2
  <2>2. DayOf(<<1970, tr[1]>>) = 719527 + tr[1]
    <3>1. leaps_thru_end_of(1970 - 1) = 477
      BY DEF leaps_thru_end_of, LeapsSince0
    <3> QED BY <1>2, <3>1, DayOfYears
  <2> QED BY <1>2, <1>3, <1>7, <2>1, <2>2 DEF ZeroDay, UNIX_EPOCH_JDATE
<1>10. p[2] \in Nat /\ p[2] <= 365
  BY <1>7, <1>8, LengthOfYear DEF InYear
<1>11. p[1] >= FirstYear
  <2>1. SUFFICES ASSUME p[1] < FirstYear PROVE FALSE BY <1>8 DEF FirstYear
  <2> DEFINE x == p[1] - 1
  <2>2. x \in Int /\ x <= 0 BY <1>8, <2>1 DEF FirstYear
  <2>3. leaps_thru_end_of(x) <= leaps_thru_end_of(0) BY <2>2, LeapsBetween
  <2>4. leaps_thru_end_of(0) = 0 BY DEF leaps_thru_end_of, LeapsSince0
  <2>5. DayOf(<<p[1], p[2]>>) = p[1] * 365 + leaps_thru_end_of(x) + p[2]
        /\ leaps_thru_end_of(x) \in Int
    BY <1>8, DayOfYears
  <2> HIDE DEF x
  <2> QED BY <1>8, <1>9, <1>10, <2>1, <2>3, <2>4, <2>5 DEF FirstYear, ZeroDay
<1>12. /\ md[1] \in Int /\ md[2] + 1 \in Int
       /\ IsDate(Date(p[1], md[1], md[2] + 1))
       /\ date2j(p[1], md[1], md[2] + 1) = DayOf(p) + ZeroDay
  BY <1>7, <1>8, <1>10, <1>11, DateOfYearDay
<1>13. DayOf(p) + ZeroDay = jd BY <1>9 DEF ZeroDay
<1> HIDE DEF md
<1>14. WeekDay(p[1], p[2]) = j2day(jd)
  BY <1>8, <1>10, <1>13, WeekDayIs
<1>15. j2date(jd) = Date(p[1], md[1], md[2] + 1)
  BY <1>8, <1>11, <1>12, <1>13, DatesComeBack
<1>16. /\ s.date = Date(p[1], md[1], md[2] + 1) /\ s.wday = j2day(jd)
       /\ s.hour = sec \div 3600 /\ s.min = (sec % 3600) \div 60 /\ s.sec = sec % 60
  BY <1>1, <1>6, <1>14
<1> HIDE DEF s
<1>17. /\ s.date.year = p[1] /\ s.date.mon = md[1] /\ s.date.mday = md[2] + 1
  BY <1>16 DEF Date
<1> QED BY <1>8, <1>11, <1>12, <1>13, <1>15, <1>16, <1>17 DEF s, day

----------------------------------------------------------------------------
(* What is known of a struct tm *)

\* The parts of a struct tm.
TmParts == {"year", "mon", "mday", "yday", "wday", "hour", "min", "sec", "fsec"}

\* The parts noted in a mask have been set, the others of the date have not.
Known(M, tm) ==
  /\ DOMAIN tm = TmParts
  /\ tm.hour \in Nat /\ tm.min \in Nat /\ tm.sec \in Nat
  /\ IF "YEAR" \in M THEN tm.year \in Int ELSE tm.year = Unset
  /\ IF "MONTH" \in M /\ "DOY" \notin M THEN tm.mon \in Int ELSE tm.mon = Unset
  /\ IF "DAY" \in M /\ "DOY" \notin M THEN tm.mday \in Int ELSE tm.mday = Unset
  /\ IF "DOY" \in M THEN tm.yday \in 1..366 ELSE tm.yday = Unset
  /\ "DOY" \in M => DATE_M \subseteq M

\* A result whose parts are new to the mask M and have been set.
Finds(r, M) ==
  Ok(r) /\ r.tmask \cap M = {} =>
    Known(M \cup r.tmask, r.tm) /\ (r.two => "YEAR" \in M \cup r.tmask)

\* What a number may be.
Numeric(n) ==
  n.val \in Nat /\ n.frac.val \in Nat /\ n.frac.len \in 0..9

\* Noting parts that are none of the date changes nothing.
LEMMA OtherParts ==
  ASSUME NEW M, NEW X, NEW tm, Known(M, tm),
         X \cap {"YEAR", "MONTH", "DAY", "DOY"} = {}
  PROVE  Known(M \cup X, tm)
BY DEF Known, DATE_M

\* Digits have a value and a length.
LEMMA DigitLexeme ==
  ASSUME NEW l \in Lexemes, IsDigits(l)
  PROVE  l.val \in Nat /\ l.len \in 1..9
BY DEF Lexemes, IsDigits

\* A sequence whose digits have a value and a length, if none is left of them zero.
Readable(lex) ==
  /\ Len(lex) \in Nat
  /\ \A k \in 1..Len(lex) : IsDigits(lex[k]) => lex[k].val \in Nat /\ lex[k].len \in 0..9

LEMMA LexemesReadable ==
  ASSUME NEW lex \in Seq(Lexemes)
  PROVE  Readable(lex)
<1>1. Len(lex) \in Nat BY LenProperties
<1>2. \A k \in 1..Len(lex) : lex[k] \in Lexemes BY ElementOfSeq
<1> QED BY <1>1, <1>2, DigitLexeme DEF Readable

\* So has a number, and its fraction.
LEMMA NumberReadable ==
  ASSUME NEW lex, Readable(lex)
  PROVE  Numeric(Number(lex))
<1>1. \A p : HasDigits(lex, p) => lex[p].val \in Nat /\ lex[p].len \in 0..9
  BY DEF HasDigits, Inside, Readable
<1> QED BY <1>1 DEF Numeric, Number, NoPoint, Digits

LEMMA NumberRead ==
  ASSUME NEW lex \in Seq(Lexemes)
  PROVE  Numeric(Number(lex))
BY LexemesReadable, NumberReadable

\* A missing number reads as 0.
LEMMA ValueRead ==
  ASSUME NEW lex \in Seq(Lexemes), NEW p
  PROVE  ValAt(lex, p) \in Nat
<1>1. CASE HasDigits(lex, p)
  <2>1. p \in 1..Len(lex) /\ IsDigits(lex[p]) BY <1>1 DEF HasDigits, Inside
  <2>2. lex[p] \in Lexemes BY <2>1, ElementOfSeq
  <2> QED BY <1>1, <2>1, <2>2, DigitLexeme DEF ValAt
<1>2. CASE ~ HasDigits(lex, p)
  BY <1>2 DEF ValAt
<1> QED BY <1>1, <1>2

\* Setting the fraction of the second changes nothing that is known.
LEMMA FractionSet ==
  ASSUME NEW M, NEW tm, NEW f, Known(M, tm)
  PROVE  Known(M, [tm EXCEPT !.fsec = f])
BY DEF Known, TmParts

\* Setting the time changes nothing that is known of the date.
LEMMA TimeSet ==
  ASSUME NEW M, NEW tm, NEW h \in Nat, NEW m \in Nat, NEW s \in Nat, Known(M, tm)
  PROVE  Known(M, WithTime(tm, h, m, s))
BY DEF Known, TmParts, WithTime

\* A whole date is new when none of its parts is known.
LEMMA DateSet ==
  ASSUME NEW M, NEW X, NEW tm, NEW y \in Int, NEW m \in Int, NEW dd \in Int, Known(M, tm),
         DATE_M \subseteq X, "DOY" \notin X, X \cap M = {}
  PROVE  Known(M \cup X, WithDate(tm, y, m, dd))
BY DEF Known, TmParts, WithDate, DATE_M

\* A run-together number sets the parts it reports (DecodeNumberField.c).
LEMMA NumberFieldFinds ==
  ASSUME NEW n, NEW fmask, NEW M, NEW tm, NEW two,
         Numeric(n), Known(M, tm), two => "YEAR" \in M
  PROVE  Finds(DecodeNumberField(n, fmask, tm, two), M)
<1> DEFINE t == IF n.point THEN [tm EXCEPT !.fsec = ParseFractionalSecond(n.frac)] ELSE tm
           hi == n.val \div 10000
           mid == (n.val \div 100) % 100
           lo == n.val % 100
           r == DecodeNumberField(n, fmask, tm, two)
<1>1. Known(M, t) BY FractionSet
<1>2. hi \in Nat /\ mid \in Nat /\ lo \in Nat BY DEF Numeric
<1>3. \/ r = Got(DATE_M, WithDate(t, hi, mid, lo), two)
      \/ r = Got(DATE_M, WithDate(t, hi, mid, lo), TRUE)
      \/ r = Got(TIME_M, WithTime(t, hi, mid, lo), two)
      \/ r = Got(TIME_M, WithTime(t, mid, lo, 0), two)
      \/ r = Bad
  <2> DEFINE date == ~ n.point /\ ~ DATE_M \subseteq fmask
             time == ~ TIME_M \subseteq fmask
  <2>1. r = IF date /\ n.len = 8 THEN Got(DATE_M, WithDate(t, hi, mid, lo), two)
            ELSE IF date /\ n.len = 6 THEN Got(DATE_M, WithDate(t, hi, mid, lo), TRUE)
            ELSE IF time /\ n.len = 6 THEN Got(TIME_M, WithTime(t, hi, mid, lo), two)
            ELSE IF time /\ n.len = 4 THEN Got(TIME_M, WithTime(t, mid, lo, 0), two)
            ELSE Bad
    BY DEF DecodeNumberField
  <2> HIDE DEF r, t, hi, mid, lo, date, time
  <2> QED BY <2>1
<1> HIDE DEF t, hi, mid, lo, r
<1>4. DATE_M \cap M = {} => Known(M \cup DATE_M, WithDate(t, hi, mid, lo))
  <2>1. hi \in Int /\ mid \in Int /\ lo \in Int /\ "DOY" \notin DATE_M BY <1>2 DEF DATE_M
  <2> QED BY <1>1, <2>1, DateSet
<1>5. TIME_M \cap {"YEAR", "MONTH", "DAY", "DOY"} = {} BY DEF TIME_M, ALL_SECS_M
<1>6. /\ Known(M \cup TIME_M, WithTime(t, hi, mid, lo))
      /\ Known(M \cup TIME_M, WithTime(t, mid, lo, 0))
  BY <1>1, <1>2, <1>5, TimeSet, OtherParts
<1>7. "YEAR" \in DATE_M BY DEF DATE_M
<1>8. Finds(r, M)
  <2>1. CASE r = Bad BY <2>1 DEF Bad, Fail, Finds, Ok
  <2> QED BY <1>3, <1>4, <1>6, <1>7, <2>1 DEF Finds, Got
<1> QED BY <1>8 DEF r

\* One part of the date, newly set.
LEMMA PartSet ==
  ASSUME NEW M, NEW tm, NEW part \in DATE_M, NEW val \in Int, Known(M, tm), part \notin M
  PROVE  Known(M \cup {part}, SetPart(tm, part, val))
<1>1. "DOY" \notin M BY DEF Known
<1>2. CASE part = "YEAR" BY <1>1, <1>2 DEF Known, TmParts, SetPart, DATE_M
<1>3. CASE part = "MONTH" BY <1>1, <1>3 DEF Known, TmParts, SetPart, DATE_M
<1>4. CASE part = "DAY" BY <1>1, <1>4 DEF Known, TmParts, SetPart, DATE_M
<1> QED BY <1>2, <1>3, <1>4 DEF DATE_M

\* The day of a year whose month and day are not known.
LEMMA DayOfYearSet ==
  ASSUME NEW M, NEW tm, NEW val \in 1..366, Known(M, tm), M \cap DATE_M = {"YEAR"}
  PROVE  Known(M \cup {"DOY", "MONTH", "DAY"}, [tm EXCEPT !.yday = val])
BY DEF Known, TmParts, DATE_M

\* A number that turns out to be the year: the one taken for the year is the day.
LEMMA YearMoved ==
  ASSUME NEW M, NEW tm, NEW n, Numeric(n), Known(M, tm), M \cap DATE_M = {"YEAR", "MONTH"}
  PROVE  Finds(YearBehind(n, tm), M)
<1>1. n.val \in Int BY DEF Numeric
<1>2. Known(M \cup {"DAY"}, [tm EXCEPT !.mday = tm.year, !.year = n.val])
  BY <1>1 DEF Known, TmParts, DATE_M
<1> QED BY <1>2 DEF Finds, YearBehind, Got

\* What a number may be taken for.
LEMMA PartNamed ==
  ASSUME NEW n, NEW textMonth, NEW known, NEW order
  PROVE  PartOf(n, textMonth, known, order) \in DATE_M \cup {"none"}
BY DEF PartOf, DATE_M

\* A plain number sets the part it is taken for (DecodeNumber.c).
LEMMA NumberFinds ==
  ASSUME NEW n, NEW textMonth, NEW M, NEW order, NEW tm0, NEW two,
         Numeric(n), Known(M, tm0), two => "YEAR" \in M
  PROVE  Finds(DecodeNumber(n, textMonth, M, order, tm0, two), M)
<1> DEFINE known == M \cap DATE_M
           tm == IF n.point THEN [tm0 EXCEPT !.fsec = ParseFractionalSecond(n.frac)] ELSE tm0
           part == PartOf(n, textMonth, known, order)
           c1 == n.point /\ n.len > 2
           c2 == Flen(n) = 3 /\ known = {"YEAR"} /\ n.val \in 1..366
           c3 == DayWasYear(n, textMonth, known, two)
           r1 == DecodeNumberField(n, M \cup DATE_M, tm0, two)
           r2 == Got({"DOY", "MONTH", "DAY"}, [tm EXCEPT !.yday = n.val], two)
           r3 == DecodeNumberField(n, M, tm, two)
           r4 == YearBehind(n, tm)
           r5 == Got({part}, SetPart(tm, part, n.val),
                     IF part = "YEAR" THEN Flen(n) <= 2 ELSE two)
           r == DecodeNumber(n, textMonth, M, order, tm0, two)
<1>1. Known(M, tm) BY FractionSet
<1>2. r = IF n.len = 0 THEN Bad ELSE IF c1 THEN r1 ELSE IF c2 THEN r2
          ELSE IF known = DATE_M THEN r3 ELSE IF c3 THEN r4
          ELSE IF part = "none" THEN Bad ELSE r5
  BY DEF DecodeNumber
<1>3. Finds(r1, M) BY NumberFieldFinds
<1>4. c2 => Finds(r2, M)
  <2> HIDE DEF tm
  <2> SUFFICES ASSUME c2 PROVE Finds(r2, M) OBVIOUS
  <2>1. n.val \in 1..366 /\ M \cap DATE_M = {"YEAR"} OBVIOUS
  <2>2. Known(M \cup {"DOY", "MONTH", "DAY"}, [tm EXCEPT !.yday = n.val])
    BY <1>1, <2>1, DayOfYearSet
  <2> QED BY <2>2 DEF Finds, Got
<1>5. Finds(r3, M)
  <2> HIDE DEF tm
  <2> QED BY <1>1, NumberFieldFinds
<1>6. c3 => Finds(r4, M)
  <2> HIDE DEF tm
  <2> QED BY <1>1, YearMoved DEF DayWasYear
<1>7. part # "none" => Finds(r5, M)
  <2> HIDE DEF tm
  <2>0. part \in DATE_M \cup {"none"} BY PartNamed
  <2> HIDE DEF part
  <2> SUFFICES ASSUME part # "none", part \notin M PROVE Finds(r5, M)
    BY DEF Finds, Got
  <2>1. part \in DATE_M /\ n.val \in Int BY <2>0 DEF Numeric
  <2>2. Known(M \cup {part}, SetPart(tm, part, n.val)) BY <1>1, <2>1, PartSet
  <2> QED BY <2>2 DEF Finds, Got
<1>8. Finds(Bad, M) BY DEF Finds, Bad, Fail, Ok
<1> HIDE DEF r, r1, r2, r3, r4, r5, c1, c2, c3, part, known
<1>9. Finds(r, M) BY <1>2, <1>3, <1>4, <1>5, <1>6, <1>7, <1>8
<1> QED BY <1>9 DEF r

----------------------------------------------------------------------------
(* The numbers of a date in turn *)

\* What one more lexeme makes of the parts found.
LexemeRead(lex, textMonth, fmask, order, k, r) ==
  IF ~ Ok(r) \/ ~ IsDigits(lex[k]) THEN r
  ELSE NumberAdded(r, fmask,
         DecodeNumber(Number(<<lex[k]>>), textMonth, fmask \cup r.tmask, order, r.tm, r.two))

\* The same for the places up to n.
ReadTo(f, n, lex, textMonth, fmask, order, start) ==
  f = [k \in 0..n |-> IF k = 0 THEN start
                      ELSE LexemeRead(lex, textMonth, fmask, order, k, f[k - 1])]

\* The function for n places extends to one for n + 1.
LEMMA ReadFurther ==
  ASSUME NEW n \in Nat, NEW g, NEW lex, NEW textMonth, NEW fmask, NEW order, NEW start,
         ReadTo(g, n, lex, textMonth, fmask, order, start)
  PROVE  \E h : ReadTo(h, n + 1, lex, textMonth, fmask, order, start)
<1> DEFINE Step(k, r) == LexemeRead(lex, textMonth, fmask, order, k, r)
           h == [k \in 0..(n + 1) |-> IF k = n + 1 THEN Step(n + 1, g[n]) ELSE g[k]]
<1> HIDE DEF Step
<1>1. g = [k \in 0..n |-> IF k = 0 THEN start ELSE Step(k, g[k - 1])]
  BY DEF ReadTo, Step
<1>2. \A k \in 0..(n + 1) : h[k] = IF k = 0 THEN start ELSE Step(k, h[k - 1])
  <2> TAKE k \in 0..(n + 1)
  <2>1. CASE k = n + 1
    <3>1. n \in 0..(n + 1) /\ n # n + 1 /\ k # 0 /\ k - 1 = n /\ k \in 0..(n + 1) BY <2>1
    <3>2. h[k] = Step(n + 1, g[n]) /\ h[k - 1] = g[n] BY <2>1, <3>1
    <3> QED BY <2>1, <3>1, <3>2
  <2>2. CASE k # n + 1 /\ k # 0
    <3>1. k \in 0..n /\ k - 1 \in 0..(n + 1) /\ k - 1 # n + 1 BY <2>2
    <3>2. h[k] = g[k] /\ h[k - 1] = g[k - 1] BY <2>2, <3>1
    <3>3. g[k] = Step(k, g[k - 1]) BY ONLY <1>1, <2>2, <3>1
    <3> QED BY <2>2, <3>2, <3>3
  <2>3. CASE k = 0
    <3>1. k \in 0..n /\ k # n + 1 BY <2>3
    <3>2. h[k] = g[k] BY <3>1
    <3>3. g[k] = start BY ONLY <1>1, <2>3, <3>1
    <3> QED BY <2>3, <3>2, <3>3
  <2> QED BY <2>1, <2>2, <2>3
<1> HIDE DEF h
<1>3. h = [k \in 0..(n + 1) |-> h[k]] BY DEF h
<1>4. h = [k \in 0..(n + 1) |-> IF k = 0 THEN start ELSE Step(k, h[k - 1])]
  BY <1>2, <1>3, Zenon
<1> QED BY <1>4 DEF ReadTo, Step

\* So there is one for any number of places ...
LEMMA ReadToAny ==
  ASSUME NEW lex, NEW textMonth, NEW fmask, NEW order, NEW start, NEW n \in Nat
  PROVE  \E g : ReadTo(g, n, lex, textMonth, fmask, order, start)
<1> DEFINE P(k) == \E g : ReadTo(g, k, lex, textMonth, fmask, order, start)
           S == {k \in Nat : ~ P(k)}
<1>0. P(0)
  <2> DEFINE g == [k \in 0..0 |-> start]
  <2>1. g = [k \in 0..0 |-> IF k = 0 THEN start
                            ELSE LexemeRead(lex, textMonth, fmask, order, k, g[k - 1])]
    OBVIOUS
  <2> HIDE DEF g
  <2> QED BY <2>1 DEF ReadTo
<1>1. \A k \in Nat : P(k) => P(k + 1)
  BY ReadFurther
<1> HIDE DEF P
<1>2. SUFFICES ASSUME S # {} PROVE FALSE
  BY DEF P
<1>3. PICK m \in S : \A k \in S : m <= k
  <2>1. S \subseteq Nat OBVIOUS
  <2> HIDE DEF S
  <2> QED BY <1>2, <2>1, LeastNatural
<1>4. m # 0 /\ m - 1 \in Nat BY <1>0, <1>3
<1>5. P(m - 1) BY <1>3, <1>4
<1> QED BY <1>1, <1>3, <1>4, <1>5

\* ... and DateNumbers is one.
LEMMA NumbersInTurn ==
  ASSUME NEW lex, NEW textMonth, NEW fmask, NEW order, NEW start, Len(lex) \in Nat
  PROVE  /\ DateNumbers(lex, textMonth, fmask, order, start)[0] = start
         /\ \A k \in 1..Len(lex) :
              DateNumbers(lex, textMonth, fmask, order, start)[k]
                = LexemeRead(lex, textMonth, fmask, order, k,
                             DateNumbers(lex, textMonth, fmask, order, start)[k - 1])
<1> DEFINE F == DateNumbers(lex, textMonth, fmask, order, start)
           n == Len(lex)
<1>1. F = CHOOSE g : ReadTo(g, n, lex, textMonth, fmask, order, start)
  BY DEF DateNumbers, ReadTo, LexemeRead
<1>2. ReadTo(F, n, lex, textMonth, fmask, order, start)
  BY <1>1, ReadToAny
<1> HIDE DEF F
<1>3. F = [k \in 0..n |-> IF k = 0 THEN start
                          ELSE LexemeRead(lex, textMonth, fmask, order, k, F[k - 1])]
  BY <1>2 DEF ReadTo
<1>4. F[0] = start
  <2>1. 0 \in 0..n OBVIOUS
  <2> QED BY ONLY <1>3, <2>1
<1>5. \A k \in 1..n : F[k] = LexemeRead(lex, textMonth, fmask, order, k, F[k - 1])
  <2> TAKE k \in 1..n
  <2>1. k \in 0..n /\ k # 0 OBVIOUS
  <2> QED BY ONLY <1>3, <2>1
<1> QED BY <1>4, <1>5 DEF F

----------------------------------------------------------------------------

\* The first digit is taken off a number by a division.
LEMMA DigitTakenOff ==
  ASSUME NEW l \in Lexemes, IsDigits(l)
  PROVE  WithoutFirst(l).val \in Nat /\ WithoutFirst(l).len \in 0..9
<1>1. l.val \in Nat /\ l.len \in 1..9 BY DigitLexeme
<1>2. \A k \in 1..9 : Tens[k] \in Nat \ {0}
  <2> TAKE k \in 1..9
  <2>1. k = 1 \/ k = 2 \/ k = 3 \/ k = 4 \/ k = 5 \/ k = 6 \/ k = 7 \/ k = 8 \/ k = 9
    OBVIOUS
  <2> QED BY <2>1 DEF Tens
<1>3. Tens[l.len] \in Nat \ {0} BY <1>1, <1>2
<1>4. WithoutFirst(l).len = l.len - 1 /\ WithoutFirst(l).val = l.val % Tens[l.len]
  BY DEF WithoutFirst, Digits
<1> HIDE DEF WithoutFirst
<1>5. l.val % Tens[l.len] \in Nat BY <1>1, <1>3
<1> QED BY <1>1, <1>4, <1>5

\* The words of a date stand where they stood, and the first one is whole.
LEMMA WordsOfDate ==
  ASSUME NEW str \in Seq(Lexemes)
  PROVE  /\ Readable(DateWords(str)) /\ Len(DateWords(str)) = Len(str)
         /\ DOMAIN DateWords(str) = 1..Len(str)
         /\ str # <<>> => DateWords(str)[1] = str[1]
<1> DEFINE n == Len(str)
           left(k) == IF k = 1 \/ ~ LostFirst(str)[k] THEN str[k]
                      ELSE IF OneLong(str[k]) THEN Mark("lost") ELSE WithoutFirst(str[k])
           w == DateWords(str)
           S == {left(k) : k \in 1..n}
<1>1. n \in Nat BY LenProperties
<1>2. w = [k \in 1..n |-> left(k)] BY DEF DateWords
<1>3. DOMAIN w = 1..n /\ \A k \in 1..n : w[k] = left(k)
  <2> HIDE DEF left, w
  <2> QED BY <1>2
<1>4. Len(w) = n
  <2> HIDE DEF left, w, n
  <2>1. w \in [1..n -> S] BY <1>2
  <2> HIDE DEF S
  <2>2. w \in Seq(S) BY <1>1, <2>1, SeqDef
  <2>3. Len(w) \in Nat /\ DOMAIN w = 1..Len(w) BY <2>2, LenProperties
  <2> QED BY <1>1, <1>3, <2>3
<1>5. \A k \in 1..n : IsDigits(left(k)) => left(k).val \in Nat /\ left(k).len \in 0..9
  <2> SUFFICES ASSUME NEW k \in 1..n, IsDigits(left(k))
               PROVE  left(k).val \in Nat /\ left(k).len \in 0..9
    OBVIOUS
  <2>0. str[k] \in Lexemes BY ElementOfSeq
  <2>1. left(k) \in {str[k], Mark("lost"), WithoutFirst(str[k])} OBVIOUS
  <2>2. ~ IsDigits(Mark("lost")) BY DEF IsDigits, Mark
  <2>3. IsDigits(WithoutFirst(str[k])) => IsDigits(str[k])
    BY DEF WithoutFirst, IsDigits, Letters
  <2> HIDE DEF left
  <2>4. CASE left(k) = str[k]
    <3>1. str[k].val \in Nat /\ str[k].len \in 1..9 BY <2>0, <2>4, DigitLexeme
    <3> QED BY <2>4, <3>1
  <2>5. CASE left(k) = WithoutFirst(str[k]) BY <2>0, <2>3, <2>5, DigitTakenOff
  <2> QED BY <2>1, <2>2, <2>4, <2>5
<1>6. ASSUME str # <<>> PROVE w[1] = str[1]
  <2>1. 1 \in 1..n BY <1>1, <1>6, EmptySeq
  <2>2. left(1) = str[1] OBVIOUS
  <2> HIDE DEF w, left
  <2> QED BY <1>3, <2>1, <2>2
<1> HIDE DEF left
<1> QED BY <1>1, <1>3, <1>4, <1>5, <1>6 DEF Readable

\* What has been found of a date, outside the mask M.
Turn(M, r) ==
  Ok(r) =>
    /\ r.tmask \cap M = {} /\ Known(M \cup r.tmask, r.tm)
    /\ r.two => "YEAR" \in M \cup r.tmask

\* A sequence of one lexeme.
LEMMA OneLexeme ==
  ASSUME NEW l \in Lexemes
  PROVE  <<l>> \in Seq(Lexemes)
OBVIOUS

LEMMA OneReadable ==
  ASSUME NEW l, l.val \in Nat, l.len \in 0..9
  PROVE  Readable(<<l>>)
BY DEF Readable

\* One more number leaves what has been found sound ...
LEMMA LexemeFinds ==
  ASSUME NEW lex, Readable(lex), NEW textMonth, NEW M, NEW order, NEW r,
         NEW k \in 1..Len(lex), Turn(M, r)
  PROVE  Turn(M, LexemeRead(lex, textMonth, M, order, k, r))
<1> DEFINE n == Number(<<lex[k]>>)
           next == DecodeNumber(n, textMonth, M \cup r.tmask, order, r.tm, r.two)
           s == NumberAdded(r, M, next)
<1>1. LexemeRead(lex, textMonth, M, order, k, r)
        = IF ~ Ok(r) \/ ~ IsDigits(lex[k]) THEN r ELSE s
  BY DEF LexemeRead
<1>2. IsDigits(lex[k]) => Numeric(n)
  BY OneReadable, NumberReadable DEF Readable
<1> HIDE DEF n
<1>3. Ok(r) /\ IsDigits(lex[k]) => Finds(next, M \cup r.tmask)
  BY <1>2, NumberFinds DEF Turn
<1> HIDE DEF next
<1>4. Ok(r) /\ IsDigits(lex[k]) => Turn(M, s)
  <2> SUFFICES ASSUME Ok(r), IsDigits(lex[k]), Ok(s) PROVE Turn(M, s) BY DEF Turn
  <2>1. Ok(next) /\ next.tmask \cap (M \cup r.tmask) = {}
        /\ s = Got(r.tmask \cup next.tmask, next.tm, next.two)
    BY DEF NumberAdded, Bad, Fail, Ok
  <2>2. /\ Known((M \cup r.tmask) \cup next.tmask, next.tm)
        /\ next.two => "YEAR" \in (M \cup r.tmask) \cup next.tmask
    BY <1>3, <2>1 DEF Finds
  <2>3. (M \cup r.tmask) \cup next.tmask = M \cup (r.tmask \cup next.tmask) OBVIOUS
  <2>4. s.tmask = r.tmask \cup next.tmask /\ s.tm = next.tm /\ s.two = next.two
    BY <2>1 DEF Got
  <2>5. r.tmask \cap M = {} BY DEF Turn
  <2> QED BY <2>1, <2>2, <2>3, <2>4, <2>5 DEF Turn
<1> HIDE DEF s
<1> QED BY <1>1, <1>4

\* ... and so do all the numbers of a date.
LEMMA NumbersFind ==
  ASSUME NEW lex, Readable(lex), NEW textMonth, NEW M, NEW order, NEW start, Turn(M, start)
  PROVE  Turn(M, DateNumbers(lex, textMonth, M, order, start)[Len(lex)])
<1> DEFINE F == DateNumbers(lex, textMonth, M, order, start)
           S == {k \in 0..Len(lex) : ~ Turn(M, F[k])}
<1>0. Len(lex) \in Nat BY DEF Readable
<1>1. F[0] = start /\ \A k \in 1..Len(lex) :
        F[k] = LexemeRead(lex, textMonth, M, order, k, F[k - 1])
  BY <1>0, NumbersInTurn
<1> HIDE DEF F
<1>2. SUFFICES ASSUME S # {} PROVE FALSE
  BY <1>0 DEF F
<1>3. PICK m \in S : \A k \in S : m <= k
  <2>1. S \subseteq Nat BY <1>0
  <2> HIDE DEF S
  <2> QED BY <1>2, <2>1, LeastNatural
<1>4. m # 0 /\ m \in 1..Len(lex) /\ m - 1 \in 0..Len(lex)
  BY <1>0, <1>1, <1>3
<1>5. Turn(M, F[m - 1])
  <2>1. m - 1 \notin S BY <1>0, <1>3, <1>4
  <2> QED BY <1>4, <2>1
<1>6. Turn(M, F[m]) BY <1>1, <1>4, <1>5, LexemeFinds
<1> QED BY <1>3, <1>6

\* The words for months number them.
LEMMA MonthKnown ==
  ASSUME NEW w, DecodeSpecial(w).type = "MONTH"
  PROVE  DecodeSpecial(w).val \in 1..12
BY TextFieldsAssumption DEF DecodeSpecial

\* A month by its name.
LEMMA MonthSet ==
  ASSUME NEW M, NEW tm, NEW val \in Int, Known(M, tm), "MONTH" \notin M
  PROVE  Known(M \cup {"MONTH"}, [tm EXCEPT !.mon = val])
BY DEF Known, TmParts, DATE_M

\* A date sets the parts it reports (DecodeDate.c).
LEMMA DateFinds ==
  ASSUME NEW str \in Seq(Lexemes), NEW M, NEW order, NEW tm, NEW two,
         Known(M, tm), two => "YEAR" \in M
  PROVE  Finds(DecodeDate(str, M, order, tm, two), M)
<1> DEFINE lex   == DateWords(str)
           words == {k \in DOMAIN lex : IsLetters(lex[k])}
           named == words # {}
           month == DecodeSpecial(lex[CHOOSE k \in words : TRUE].w)
           ok    == ~ EndsInSeparators(lex)
                    /\ (named => /\ \A j, k \in words : j = k
                                 /\ month.type = "MONTH" /\ "MONTH" \notin M)
           start == IF named THEN Got({"MONTH"}, [tm EXCEPT !.mon = month.val], two)
                    ELSE Got({}, tm, two)
           last  == DateNumbers(lex, named, M, order, start)[Len(lex)]
           r     == DecodeDate(str, M, order, tm, two)
<1>1. r = IF ~ ok THEN Bad ELSE Complete(last, M)
  BY DEF DecodeDate
<1>l. Readable(lex) BY WordsOfDate
<1> HIDE DEF lex
<1>2. ok => Turn(M, start)
  <2>1. CASE named
    <3> SUFFICES ASSUME ok PROVE Turn(M, start) OBVIOUS
    <3>1. month.type = "MONTH" /\ "MONTH" \notin M BY <2>1
    <3>2. month.val \in Int BY <3>1, MonthKnown
    <3> HIDE DEF month
    <3>3. start = Got({"MONTH"}, [tm EXCEPT !.mon = month.val], two) BY <2>1
    <3>4. Known(M \cup {"MONTH"}, [tm EXCEPT !.mon = month.val])
      BY <3>1, <3>2, MonthSet
    <3> HIDE DEF start, ok, named
    <3> QED BY <3>1, <3>3, <3>4 DEF Turn, Got
  <2>2. CASE ~ named
    <3>1. start = Got({}, tm, two) BY <2>2
    <3>2. M \cup {} = M OBVIOUS
    <3> HIDE DEF start
    <3> QED BY <3>1, <3>2 DEF Turn, Got
  <2> QED BY <2>1, <2>2
<1> HIDE DEF start, named
<1>3. ok => Turn(M, last)
  BY <1>2, <1>l, NumbersFind
<1> HIDE DEF last, ok, r
<1>4. Turn(M, last) => Finds(Complete(last, M), M)
  BY DEF Turn, Finds, Complete, Bad, Fail, Ok
<1>5. Finds(Bad, M) BY DEF Finds, Bad, Fail, Ok
<1>6. Finds(r, M) BY <1>1, <1>3, <1>4, <1>5
<1> QED BY <1>6 DEF r

\* A time sets the parts it reports (DecodeTime.c).
LEMMA TimeFinds ==
  ASSUME NEW lex \in Seq(Lexemes), NEW M, NEW tm, Known(M, tm)
  PROVE  Finds(DecodeTime(lex, tm), M)
<1> DEFINE a  == ValAt(lex, 1)
           b  == ValAt(lex, 3)
           p2 == EndAt(lex, 3)
           p3 == EndAt(lex, p2 + 1)
           c  == ValAt(lex, p2 + 1)
           r  == DecodeTime(lex, tm)
<1>1. a \in Nat /\ b \in Nat /\ c \in Nat BY ValueRead
<1>2. PICK f, t : /\ \/ t = [WithTime(tm, a, b, 0) EXCEPT !.fsec = f]
                     \/ t = [WithTime(tm, 0, a, b) EXCEPT !.fsec = f]
                     \/ t = [WithTime(tm, a, b, c) EXCEPT !.fsec = f]
                  /\ \/ r = Bad \/ r = Fail("FIELD_OVERFLOW") \/ r = Got(TIME_M, t, FALSE)
  <2> DEFINE f1 == ParseFractionalSecond(lex[p2 + 1])
             f2 == ParseFractionalSecond(lex[p3 + 1])
             short == AtEnd(lex, p2)
             mmss  == MarkAt(lex, p2, ".") /\ HasDigits(lex, p2 + 1) /\ AtEnd(lex, p2 + 2)
             long  == MarkAt(lex, p2, ":") /\ AtEnd(lex, p3)
             full  == /\ MarkAt(lex, p2, ":") /\ MarkAt(lex, p3, ".")
                      /\ HasDigits(lex, p3 + 1) /\ AtEnd(lex, p3 + 2)
             some  == MarkAt(lex, 2, ":") /\ (short \/ mmss \/ long \/ full)
             tt == IF short THEN [WithTime(tm, a, b, 0) EXCEPT !.fsec = 0]
                   ELSE IF mmss THEN [WithTime(tm, 0, a, b) EXCEPT !.fsec = f1]
                   ELSE IF long THEN [WithTime(tm, a, b, c) EXCEPT !.fsec = 0]
                   ELSE [WithTime(tm, a, b, c) EXCEPT !.fsec = f2]
             over == tt.min > 59 \/ tt.sec > 60
  <2>1. r = IF ~ some THEN Bad
            ELSE IF over THEN Fail("FIELD_OVERFLOW") ELSE Got(TIME_M, tt, FALSE)
    BY DEF DecodeTime
  <2> HIDE DEF a, b, c, f1, f2, short, mmss, long, full, some, r, p2, p3
  <2>2. \E f : \/ tt = [WithTime(tm, a, b, 0) EXCEPT !.fsec = f]
               \/ tt = [WithTime(tm, 0, a, b) EXCEPT !.fsec = f]
               \/ tt = [WithTime(tm, a, b, c) EXCEPT !.fsec = f]
    <3>1. CASE short BY <3>1
    <3>2. CASE ~ short /\ mmss BY <3>2
    <3>3. CASE ~ short /\ ~ mmss /\ long BY <3>3
    <3>4. CASE ~ short /\ ~ mmss /\ ~ long BY <3>4
    <3> QED BY <3>1, <3>2, <3>3, <3>4
  <2>3. r = Bad \/ r = Fail("FIELD_OVERFLOW") \/ r = Got(TIME_M, tt, FALSE)
    <3> HIDE DEF tt, over
    <3> QED BY <2>1
  <2> HIDE DEF tt
  <2> QED BY <2>2, <2>3
<1> HIDE DEF a, b, c, r
<1>3. Known(M, t)
  <2>1. 0 \in Nat OBVIOUS
  <2>2. /\ Known(M, WithTime(tm, a, b, 0)) /\ Known(M, WithTime(tm, 0, a, b))
        /\ Known(M, WithTime(tm, a, b, c))
    BY <1>1, <2>1, TimeSet
  <2>3. \A u : Known(M, u) => Known(M, [u EXCEPT !.fsec = f]) BY FractionSet
  <2> DEFINE u1 == WithTime(tm, a, b, 0)
             u2 == WithTime(tm, 0, a, b)
             u3 == WithTime(tm, a, b, c)
  <2>4. Known(M, u1) /\ Known(M, u2) /\ Known(M, u3) BY <2>2
  <2>5. t \in {[u1 EXCEPT !.fsec = f], [u2 EXCEPT !.fsec = f], [u3 EXCEPT !.fsec = f]}
    BY <1>2, Zenon
  <2> HIDE DEF u1, u2, u3
  <2> QED BY <2>3, <2>4, <2>5, Zenon
<1>4. Known(M \cup TIME_M, t)
  <2>1. TIME_M \cap {"YEAR", "MONTH", "DAY", "DOY"} = {} BY DEF TIME_M, ALL_SECS_M
  <2> QED BY <1>3, <2>1, OtherParts
<1>5. Finds(r, M)
  <2>1. CASE r = Got(TIME_M, t, FALSE)
    <3>1. r.tmask = TIME_M /\ r.tm = t /\ r.two = FALSE BY <2>1 DEF Got
    <3> QED BY <1>4, <3>1 DEF Finds
  <2>2. CASE r = Bad \/ r = Fail("FIELD_OVERFLOW")
    <3>1. ~ Ok(r) BY <2>2 DEF Bad, Fail, Ok
    <3> QED BY <3>1 DEF Finds
  <2> QED BY <1>2, <2>1, <2>2
<1> QED BY <1>5 DEF r

----------------------------------------------------------------------------
(* The locals of DecodeDateTime *)

\* The locals of DecodeDateTime.
LocalNames == {"err", "fmask", "tm", "two", "ptype", "dtype", "mer", "textMonth",
               "isjulian", "bc", "zone", "tz"}

\* The locals of DecodeDateTime between two fields.
Sound(e) ==
  /\ DOMAIN e = LocalNames
  /\ e.err = "ok" => Known(e.fmask, e.tm) /\ (e.two => "YEAR" \in e.fmask)

\* The same parts found.
Same(e, dd) ==
  /\ DOMAIN e = LocalNames
  /\ e.err = dd.err /\ e.fmask = dd.fmask /\ e.tm = dd.tm /\ e.two = dd.two

\* An error leaves nothing to know.
LEMMA RefusedSound ==
  ASSUME NEW e, NEW err, DOMAIN e = LocalNames, err # "ok"
  PROVE  Sound(Refused(e, err))
BY DEF Sound, Refused, LocalNames

\* A sub-decoder's result taken over, unless it repeats a part.
LEMMA AcceptSound ==
  ASSUME NEW e, NEW r, DOMAIN e = LocalNames, Finds(r, e.fmask)
  PROVE  Sound(Accept(e, r))
<1>1. CASE ~ Ok(r)
  BY <1>1, RefusedSound DEF Accept, Ok
<1>2. CASE Ok(r) /\ r.tmask \cap e.fmask # {}
  BY <1>2, RefusedSound DEF Accept
<1>3. CASE Ok(r) /\ r.tmask \cap e.fmask = {}
  <2> DEFINE a == [e EXCEPT !.fmask = @ \cup r.tmask, !.tm = r.tm, !.two = r.two]
  <2>1. Accept(e, r) = a BY <1>3 DEF Accept
  <2>2. /\ DOMAIN a = LocalNames /\ a.fmask = e.fmask \cup r.tmask
        /\ a.tm = r.tm /\ a.two = r.two
    BY DEF LocalNames
  <2> HIDE DEF a
  <2> QED BY <1>3, <2>1, <2>2 DEF Sound, Finds
<1> QED BY <1>1, <1>2, <1>3

\* Parts set by the field itself.
LEMMA SetsSound ==
  ASSUME NEW dd, NEW e, NEW X, NEW tm, Sound(dd), dd.err = "ok", Same(e, dd),
         X \cap dd.fmask = {} => Known(dd.fmask \cup X, tm)
  PROVE  Sound(Sets(e, X, tm))
<1> DEFINE r == Got(X, tm, e.two)
<1>1. r.tmask = X /\ r.tm = tm /\ r.two = dd.two BY DEF Got, Same
<1>2. Finds(r, e.fmask)
  <2> HIDE DEF r
  <2> QED BY <1>1 DEF Finds, Sound, Same
<1> QED BY <1>2, AcceptSound DEF Sets, Same

\* Parts noted that are none of the date.
LEMMA AlsoSound ==
  ASSUME NEW dd, NEW e, NEW X, Sound(dd), dd.err = "ok", Same(e, dd),
         X \cap {"YEAR", "MONTH", "DAY", "DOY"} = {}
  PROVE  Sound(Also(e, X))
<1>1. Known(dd.fmask \cup X, dd.tm) BY OtherParts DEF Sound
<1>2. Also(e, X) = Sets(e, X, dd.tm) BY DEF Also, Sets, Same
<1> QED BY <1>1, <1>2, SetsSound

\* A change of the locals that are not looked at.
LEMMA StillSame ==
  ASSUME NEW dd, NEW v, NEW x \in {"ptype", "dtype", "mer", "textMonth", "isjulian", "bc",
                                   "zone", "tz"},
         NEW e, Same(e, dd)
  PROVE  Same([e EXCEPT ![x] = v], dd)
BY DEF Same, LocalNames

----------------------------------------------------------------------------
(* The fields *)

\* The date of any number consists of numbers.
LEMMA DayShown ==
  ASSUME NEW jd \in Int
  PROVE  j2date(jd).year \in Int /\ j2date(jd).mon \in Int /\ j2date(jd).mday \in Int
BY DEF j2date, Date, MonthsPerYear

\* A whole date put in place, with or without a time.
LEMMA DayPut ==
  ASSUME NEW M, NEW X, NEW tm, NEW jd \in Int, Known(M, tm), DATE_M \subseteq X,
         "DOY" \notin X, X \cap M = {}
  PROVE  Known(M \cup X, OnDay(tm, j2date(jd)))
BY DayShown, DateSet DEF OnDay

\* The masks of the code, compared with the parts of the date.
DayAndTime == DATE_M \cup TIME_M
LEMMA MaskNames ==
  /\ DATE_M \subseteq DayAndTime /\ "DOY" \notin DayAndTime
  /\ DATE_M \subseteq DayAndTime \cup {"TZ"} /\ "DOY" \notin DayAndTime \cup {"TZ"}
  /\ TIME_M \cap {"YEAR", "MONTH", "DAY", "DOY"} = {}
  /\ (TIME_M \cup {"TZ"}) \cap {"YEAR", "MONTH", "DAY", "DOY"} = {}
  /\ DATE_M \subseteq DATE_M /\ "DOY" \notin DATE_M
BY DEF DayAndTime, DATE_M, TIME_M, ALL_SECS_M

\* The text before the first dash is a sequence of lexemes.
LEMMA DashPlace ==
  ASSUME NEW lex \in Seq(Lexemes), {k \in DOMAIN lex : lex[k] = Mark("-")} # {}
  PROVE  LET dashes == {k \in DOMAIN lex : lex[k] = Mark("-")}
             cp == CHOOSE k \in dashes : \A j \in dashes : k <= j
         IN  cp \in 1..Len(lex) /\ SubSeq(lex, 1, cp - 1) \in Seq(Lexemes)
<1> DEFINE dashes == {k \in DOMAIN lex : lex[k] = Mark("-")}
           cp == CHOOSE k \in dashes : \A j \in dashes : k <= j
<1>1. DOMAIN lex = 1..Len(lex) /\ Len(lex) \in Nat BY LenProperties
<1>2. dashes \subseteq Nat /\ dashes \subseteq 1..Len(lex) BY <1>1
<1>3. \E k \in dashes : \A j \in dashes : k <= j
  <2> HIDE DEF dashes
  <2> QED BY <1>2, LeastNatural DEF dashes
<1>4. cp \in dashes BY <1>3
<1> HIDE DEF cp, dashes
<1>5. cp \in 1..Len(lex) BY <1>2, <1>4
<1>6. cp - 1 \in 0..Len(lex) BY <1>1, <1>5
<1>7. SubSeq(lex, 1, cp - 1) \in Seq(Lexemes)
  <2>1. \A k \in 1..(cp - 1) : lex[k] \in Lexemes
    <3> TAKE k \in 1..(cp - 1)
    <3>1. k \in 1..Len(lex) BY <1>1, <1>5
    <3> QED BY <3>1, ElementOfSeq
  <2> QED BY <1>1, <1>6, <2>1, SubSeqProperties
<1> QED BY <1>5, <1>7 DEF cp, dashes

\* A run-together time with a zone behind it.
LEMMA TimeWithZoneSound ==
  ASSUME NEW dd, NEW e, NEW lex \in Seq(Lexemes), NEW fmask,
         Sound(dd), dd.err = "ok", Same(e, dd)
  PROVE  Sound(TimeWithZone(e, lex, fmask))
<1> DEFINE dashes == {k \in DOMAIN lex : lex[k] = Mark("-")}
           cp == CHOOSE k \in dashes : \A j \in dashes : k <= j
           z  == DecodeTimezone(SubSeq(lex, cp, Len(lex)))
           part == SubSeq(lex, 1, cp - 1)
           r  == DecodeNumberField(Number(part), fmask, e.tm, e.two)
           no == TIME_M \subseteq e.fmask \/ dashes = {}
           w  == [e EXCEPT !.tz = West(z.tz)]
           g  == Got(r.tmask \cup {"TZ"}, r.tm, r.two)
<1>1. TimeWithZone(e, lex, fmask)
        = IF no THEN Refused(e, "BAD_FORMAT") ELSE IF ~ Ok(z) THEN Refused(e, z.err)
          ELSE IF ~ Ok(r) THEN Refused(e, r.err) ELSE Accept(w, g)
  BY DEF TimeWithZone
<1>2. DOMAIN e = LocalNames BY DEF Same
<1>3. /\ Sound(Refused(e, "BAD_FORMAT"))
      /\ ~ Ok(z) => Sound(Refused(e, z.err)) /\ (~ Ok(r) => Sound(Refused(e, r.err)))
      /\ ~ Ok(r) => Sound(Refused(e, r.err))
  <2> HIDE DEF z, r
  <2> QED BY <1>2, RefusedSound DEF Ok
<1>4. ~ no => part \in Seq(Lexemes)
  BY DashPlace
<1> HIDE DEF part
<1>5. ~ no => Finds(r, dd.fmask)
  BY <1>4, NumberRead, NumberFieldFinds DEF Sound, Same
<1>6. DOMAIN w = LocalNames /\ w.fmask = dd.fmask BY DEF Same, LocalNames
<1> HIDE DEF r, z, w, no
<1>7. ~ no /\ Ok(r) => Finds(g, dd.fmask)
  <2> SUFFICES ASSUME Finds(r, dd.fmask), Ok(r) PROVE Finds(g, dd.fmask) BY <1>5
  <2>1. g.tmask = r.tmask \cup {"TZ"} /\ g.tm = r.tm /\ g.two = r.two BY DEF Got
  <2> HIDE DEF g
  <2> SUFFICES ASSUME g.tmask \cap dd.fmask = {}
               PROVE  /\ Known(dd.fmask \cup g.tmask, g.tm)
                      /\ g.two => "YEAR" \in dd.fmask \cup g.tmask
    BY DEF Finds
  <2>2. r.tmask \cap dd.fmask = {} BY <2>1
  <2>3. Known(dd.fmask \cup r.tmask, r.tm) /\ (r.two => "YEAR" \in dd.fmask \cup r.tmask)
    BY <2>2 DEF Finds
  <2>4. Known((dd.fmask \cup r.tmask) \cup {"TZ"}, r.tm)
    <3>1. {"TZ"} \cap {"YEAR", "MONTH", "DAY", "DOY"} = {} OBVIOUS
    <3> HIDE DEF r
    <3> QED BY <2>3, <3>1, OtherParts
  <2>5. (dd.fmask \cup r.tmask) \cup {"TZ"} = dd.fmask \cup g.tmask BY <2>1
  <2> QED BY <2>1, <2>3, <2>4, <2>5
<1> HIDE DEF g
<1>8. ~ no /\ Ok(r) => Sound(Accept(w, g))
  BY <1>6, <1>7, AcceptSound
<1> QED BY <1>1, <1>3, <1>8

\* A field in the shape of a date that is a zone's name.
LEMMA NamedZoneSound ==
  ASSUME NEW dd, NEW lex, Sound(dd), dd.err = "ok"
  PROVE  Sound(NamedZone(dd, lex))
<1>1. Same(dd, dd) BY DEF Same, Sound
<1>2. Same([dd EXCEPT !.zone = pg_tzset(lex)], dd) BY <1>1, StillSame
<1> QED BY <1>2, AlsoSound DEF NamedZone

\* A Julian day with a zone behind it.
LEMMA JulianWithZoneSound ==
  ASSUME NEW dd, NEW lex \in Seq(Lexemes), Sound(dd), dd.err = "ok"
  PROVE  Sound(JulianWithZone(dd, lex))
<1> DEFINE z == DecodeTimezone(SubSeq(lex, EndAt(lex, 1), Len(lex)))
           w == [dd EXCEPT !.isjulian = TRUE, !.ptype = "none", !.tz = West(z.tz)]
           t == OnDay(dd.tm, j2date(ValAt(lex, 1)))
           X == DayAndTime \cup {"TZ"}
<1>1. JulianWithZone(dd, lex) = IF ~ Ok(z) THEN Refused(dd, z.err) ELSE Sets(w, X, t)
  BY DEF JulianWithZone, DayAndTime
<1>2. Same(w, dd) BY DEF Same, Sound, LocalNames
<1> HIDE DEF z, w
<1>3. X \cap dd.fmask = {} => Known(dd.fmask \cup X, t)
  <2>1. ValAt(lex, 1) \in Int BY ValueRead
  <2>2. DATE_M \subseteq X /\ "DOY" \notin X BY MaskNames
  <2> HIDE DEF X
  <2> QED BY <2>1, <2>2, DayPut DEF Sound
<1> HIDE DEF X, t
<1>4. Sound(Sets(w, X, t)) BY <1>2, <1>3, SetsSound
<1>5. ~ Ok(z) => Sound(Refused(dd, z.err)) BY RefusedSound DEF Sound, Ok
<1> QED BY <1>1, <1>4, <1>5

\* Every field that looks like a date.
LEMMA DateFieldSound ==
  ASSUME NEW dd, NEW lex \in Seq(Lexemes), NEW order, Sound(dd), dd.err = "ok"
  PROVE  Sound(DateField(dd, lex, order))
<1> DEFINE w == [dd EXCEPT !.ptype = "none"]
<1>1. Same(w, dd) BY DEF Same, Sound, LocalNames
<1>2. Sound(TimeWithZone(w, lex, dd.fmask))
  <2> HIDE DEF w
  <2> QED BY <1>1, TimeWithZoneSound
<1>3. Sound(Accept(dd, DecodeDate(lex, dd.fmask, order, dd.tm, dd.two)))
  BY DateFinds, AcceptSound DEF Sound
<1>4. Sound(Refused(dd, "BAD_FORMAT")) BY RefusedSound DEF Sound
<1> QED BY <1>2, <1>3, <1>4, NamedZoneSound, JulianWithZoneSound DEF DateField

\* A field that looks like a time.
LEMMA TimeFieldSound ==
  ASSUME NEW dd, NEW lex \in Seq(Lexemes), Sound(dd), dd.err = "ok"
  PROVE  Sound(TimeField(dd, lex))
<1> DEFINE w == [dd EXCEPT !.ptype = "none"]
           t == DecodeTime(lex, dd.tm)
           r == WithinDay(t)
<1>1. TimeField(dd, lex) = IF dd.ptype \notin {"none", "TIME"} THEN Refused(dd, "BAD_FORMAT")
                           ELSE AcceptTime(w, r)
  BY DEF TimeField
<1>2. Same(w, dd) BY DEF Same, Sound, LocalNames
<1>3. Finds(t, dd.fmask) BY TimeFinds DEF Sound
<1> HIDE DEF w, t
<1>4. Finds(r, dd.fmask) BY <1>3 DEF WithinDay, Finds, Ok, Fail
<1> HIDE DEF r
<1>5. Sound(AcceptTime(w, r))
  <2>1. CASE Ok(r)
    <3>1. r.tmask \cap dd.fmask = {} => Known(dd.fmask \cup r.tmask, r.tm)
      BY <1>4, <2>1 DEF Finds
    <3>2. Sound(Sets(w, r.tmask, r.tm)) BY <1>2, <3>1, SetsSound
    <3> QED BY <2>1, <3>2 DEF AcceptTime
  <2>2. CASE ~ Ok(r)
    BY <1>2, <2>2, RefusedSound DEF AcceptTime, Ok, Same
  <2> QED BY <2>1, <2>2
<1>6. Sound(Refused(dd, "BAD_FORMAT")) BY RefusedSound DEF Sound
<1> QED BY <1>1, <1>5, <1>6

\* A field that looks like a zone's offset.
LEMMA TzFieldSound ==
  ASSUME NEW dd, NEW lex, Sound(dd), dd.err = "ok"
  PROVE  Sound(TzField(dd, lex))
<1> DEFINE z == DecodeTimezone(lex)
           w == [dd EXCEPT !.tz = West(z.tz)]
<1>1. TzField(dd, lex) = IF Ok(z) THEN Also(w, {"TZ"}) ELSE Refused(dd, z.err)
  BY DEF TzField
<1>2. Same(w, dd) BY DEF Same, Sound, LocalNames
<1> HIDE DEF w, z
<1>3. Sound(Also(w, {"TZ"})) BY <1>2, AlsoSound
<1>4. ~ Ok(z) => Sound(Refused(dd, z.err)) BY RefusedSound DEF Sound, Ok
<1> QED BY <1>1, <1>3, <1>4

\* A whole date where none was.
LEMMA SomeDay ==
  ASSUME NEW M, NEW tm, NEW jd \in Int, Known(M, tm), DATE_M \cap M = {}
  PROVE  Known(M \cup DATE_M, OnDay(tm, j2date(jd)))
BY DayPut, MaskNames

\* The date of a Julian day.
LEMMA JulianDayKnown ==
  ASSUME NEW M, NEW X, NEW tm, NEW n, Numeric(n), Known(M, tm), DATE_M \subseteq X,
         "DOY" \notin X, X \cap M = {}
  PROVE  Known(M \cup X, JulianDay(n, tm))
<1> DEFINE t  == OnDay(tm, j2date(n.val))
           x  == SECS_PER_DAY * n.frac.val
           k  == 10 ^ n.frac.len
           s  == x \div k
           f  == (x % k) * 10 ^ (6 - n.frac.len)
           h  == s \div 3600
           m  == (s % 3600) \div 60
           c  == s % 60
<1>1. Known(M \cup X, t)
  <2>1. n.val \in Int BY DEF Numeric
  <2> QED BY <2>1, DayPut
<1>2. k \in Nat \ {0}
  <2>1. \A l \in 0..9 : 10 ^ l \in Nat \ {0}
    <3> TAKE l \in 0..9
    <3>0. 10 ^ 0 \in Nat \ {0} OBVIOUS
    <3>1. 10 ^ 1 \in Nat \ {0} OBVIOUS
    <3>2. 10 ^ 2 \in Nat \ {0} OBVIOUS
    <3>3. 10 ^ 3 \in Nat \ {0} OBVIOUS
    <3>4. 10 ^ 4 \in Nat \ {0} OBVIOUS
    <3>5. 10 ^ 5 \in Nat \ {0} OBVIOUS
    <3>6. 10 ^ 6 \in Nat \ {0} OBVIOUS
    <3>7. 10 ^ 7 \in Nat \ {0} OBVIOUS
    <3>8. 10 ^ 8 \in Nat \ {0} OBVIOUS
    <3>9. 10 ^ 9 \in Nat \ {0} OBVIOUS
    <3>10. l \in {0, 1, 2, 3, 4, 5, 6, 7, 8, 9} OBVIOUS
    <3> QED BY <3>0, <3>1, <3>2, <3>3, <3>4, <3>5, <3>6, <3>7, <3>8, <3>9, <3>10, Zenon
  <2>2. n.frac.len \in 0..9 BY DEF Numeric
  <2> QED BY <2>1, <2>2, Zenon
<1>3. h \in Nat /\ m \in Nat /\ c \in Nat
  <2>1. x \in Nat BY DEF Numeric, SECS_PER_DAY
  <2>2. \A a \in Nat, b \in Nat \ {0} : a \div b \in Nat OBVIOUS
  <2> HIDE DEF x, k
  <2>3. s \in Nat BY <1>2, <2>1, <2>2
  <2> HIDE DEF s
  <2> QED BY <2>3
<1>4. JulianDay(n, tm) = IF n.point THEN [WithTime(t, h, m, c) EXCEPT !.fsec = f] ELSE t
  BY DEF JulianDay
<1> DEFINE w == WithTime(t, h, m, c)
<1> HIDE DEF t, h, m, c, f
<1>5. Known(M \cup X, w) BY <1>1, <1>3, TimeSet
<1>6. JulianDay(n, tm) = IF n.point THEN [w EXCEPT !.fsec = f] ELSE t BY <1>4
<1> HIDE DEF w
<1>7. Known(M \cup X, [w EXCEPT !.fsec = f]) BY <1>5, FractionSet
<1> QED BY <1>1, <1>6, <1>7

\* Results with the time parts or one part of the date.
LEMMA OtherFinds ==
  ASSUME NEW M, NEW X, NEW tm, NEW t, NEW two, Known(M, t), two => "YEAR" \in M,
         X \cap {"YEAR", "MONTH", "DAY", "DOY"} = {}
  PROVE  Finds(Got(X, t, two), M)
<1>1. Known(M \cup X, t) BY OtherParts
<1> QED BY <1>1 DEF Finds, Got

\* A number with a label before it sets the part labelled.
LEMMA LabelledFinds ==
  ASSUME NEW n, NEW ptype, NEW M, NEW tm, NEW two, Numeric(n), Known(M, tm),
         two => "YEAR" \in M
  PROVE  Finds(Labelled(n, ptype, M, tm, two), M)
<1> DEFINE minute == ptype = "MINUTE" \/ (ptype = "MONTH" /\ {"MONTH", "HOUR"} \subseteq M)
           fsec   == IF n.point THEN ParseFractionalSecond(n.frac) ELSE tm.fsec
           no     == \/ n.point /\ n.frac.len = 0
                     \/ n.point /\ ptype \notin {"JULIAN", "TIME", "SECOND"}
           t1 == [tm EXCEPT !.min = n.val]
           t2 == SetPart(tm, ptype, n.val)
           t3 == [tm EXCEPT !.hour = n.val]
           t4 == [tm EXCEPT !.sec = n.val, !.fsec = fsec]
           t5 == JulianDay(n, tm)
           X4 == IF n.point THEN ALL_SECS_M ELSE {"SECOND"}
           X5 == IF n.point THEN DayAndTime ELSE DATE_M
           r6 == DecodeNumberField(n, M \cup DATE_M, tm, two)
           r  == Labelled(n, ptype, M, tm, two)
<1>1. r = IF no THEN Bad ELSE IF minute THEN Got({"MINUTE"}, t1, two)
          ELSE IF ptype \in DATE_M THEN Got({ptype}, t2, two)
          ELSE IF ptype = "HOUR" THEN Got({"HOUR"}, t3, two)
          ELSE IF ptype = "SECOND" THEN Got(X4, t4, two)
          ELSE IF ptype = "JULIAN" THEN Got(X5, t5, two)
          ELSE IF ptype = "TIME" THEN r6 ELSE Bad
  BY DEF Labelled, DayAndTime
<1>2. n.val \in Nat BY DEF Numeric
<1>3. Known(M, t1) /\ Known(M, t3)
  BY <1>2 DEF Known, TmParts
<1>4. Known(M, t4)
  <2> HIDE DEF fsec
  <2> QED BY <1>2 DEF Known, TmParts
<1>5. X4 \cap {"YEAR", "MONTH", "DAY", "DOY"} = {} BY DEF ALL_SECS_M
<1>6. /\ Finds(Got({"MINUTE"}, t1, two), M) /\ Finds(Got({"HOUR"}, t3, two), M)
      /\ Finds(Got(X4, t4, two), M)
  <2> HIDE DEF t1, t3, t4, X4
  <2>1. /\ {"MINUTE"} \cap {"YEAR", "MONTH", "DAY", "DOY"} = {}
        /\ {"HOUR"} \cap {"YEAR", "MONTH", "DAY", "DOY"} = {}
    OBVIOUS
  <2> QED BY <1>3, <1>4, <1>5, <2>1, OtherFinds
<1>7. ptype \in DATE_M => Finds(Got({ptype}, t2, two), M)
  <2> SUFFICES ASSUME ptype \in DATE_M, {ptype} \cap M = {}
               PROVE  Known(M \cup {ptype}, t2)
    BY DEF Finds, Got
  <2>1. n.val \in Int /\ ptype \notin M BY <1>2
  <2> QED BY <2>1, PartSet
<1>8. Finds(Got(X5, t5, two), M)
  <2>1. DATE_M \subseteq X5 /\ "DOY" \notin X5 BY MaskNames
  <2> HIDE DEF X5
  <2>2. X5 \cap M = {} => Known(M \cup X5, t5) BY <2>1, JulianDayKnown
  <2> HIDE DEF t5
  <2> QED BY <2>2 DEF Finds, Got
<1>9. Finds(r6, M) BY NumberFieldFinds
<1>10. Finds(Bad, M) BY DEF Finds, Bad, Fail, Ok
<1> HIDE DEF r, r6, t1, t2, t3, t4, t5, X4, X5, no, minute
<1>11. Finds(r, M) BY <1>1, <1>6, <1>7, <1>8, <1>9, <1>10
<1> QED BY <1>11 DEF r

\* A field that looks like a number.
LEMMA NumberFieldSound ==
  ASSUME NEW dd, NEW lex \in Seq(Lexemes), NEW order, Sound(dd), dd.err = "ok"
  PROVE  Sound(NumberField(dd, lex, order))
<1> DEFINE n == Number(lex)
           M == dd.fmask
<1>0. DOMAIN dd = LocalNames /\ Known(M, dd.tm) /\ (dd.two => "YEAR" \in M) BY DEF Sound
<1>1. Numeric(n) BY NumberRead
<1>2. Sound(LabelledNumber(dd, lex))
  <2> DEFINE r == Labelled(n, dd.ptype, dd.fmask, dd.tm, dd.two)
             w == [dd EXCEPT !.ptype = "none", !.dtype = "DATE",
                             !.isjulian = @ \/ dd.ptype = "JULIAN"]
  <2>1. LabelledNumber(dd, lex) = Accept(w, r) BY DEF LabelledNumber
  <2>2. DOMAIN w = LocalNames /\ w.fmask = M BY <1>0 DEF LocalNames
  <2> HIDE DEF n, w
  <2>3. Finds(r, M) BY <1>0, <1>1, LabelledFinds
  <2> HIDE DEF r
  <2> QED BY <2>1, <2>2, <2>3, AcceptSound
<1>3. Sound(PlainNumber(dd, lex, order))
  <2> DEFINE r1 == DecodeDate(lex, dd.fmask, order, dd.tm, dd.two)
             r2 == DecodeNumberField(n, dd.fmask, dd.tm, dd.two)
             r3 == DecodeNumber(n, dd.textMonth, dd.fmask, order, dd.tm, dd.two)
             c1 == n.point /\ dd.fmask \cap DATE_M = {}
             c2 == (n.point /\ n.len > 2) \/ Flen(n) > 4
             r  == IF c1 THEN r1 ELSE IF c2 THEN r2 ELSE r3
  <2>1. PlainNumber(dd, lex, order) = Accept(dd, r) BY DEF PlainNumber
  <2> HIDE DEF n
  <2>2. Finds(r1, M) BY <1>0, DateFinds
  <2>3. Finds(r2, M) BY <1>0, <1>1, NumberFieldFinds
  <2>4. Finds(r3, M) BY <1>0, <1>1, NumberFinds
  <2> HIDE DEF r1, r2, r3, c1, c2
  <2>5. Finds(r, M) BY <2>2, <2>3, <2>4
  <2> HIDE DEF r
  <2> QED BY <1>0, <2>1, <2>5, AcceptSound
<1> QED BY <1>2, <1>3 DEF NumberField

\* The date and time of the clock.
LEMMA NowKnown ==
  ASSUME NEW M, NEW X, NEW tm, NEW u, Known(M, tm), DATE_M \subseteq X, "DOY" \notin X,
         X \cap M = {}
  PROVE  Known(M \cup X, [Now EXCEPT !.wday = u, !.yday = tm.yday])
<1>1. /\ DOMAIN Now = TmParts
      /\ Now.year \in Int /\ Now.mon \in Int /\ Now.mday \in Int
      /\ Now.hour \in Nat /\ Now.min \in Nat /\ Now.sec \in Nat
  BY DateInputAssumption DEF TmParts
<1> QED BY <1>1 DEF Known, TmParts, DATE_M

\* A day number is a number.
LEMMA DayNumberInt ==
  ASSUME NEW y \in Int, NEW m \in Int, NEW dd \in Int
  PROVE  date2j(y, m, dd) \in Int
<1> DEFINE s == Shifted(y, m)
           c == CDiv(s, 100)
           l == (7834 * Late(m)) \div 256
<1>1. \A a \in Int : CDiv(a, 4) \in Int /\ CDiv(a, 100) \in Int BY DEF CDiv
<1>2. s \in Int BY DEF Shifted
<1>3. Late(m) \in Int BY DEF Late
<1>4. l \in Int BY <1>3
<1> HIDE DEF s, l
<1>5. c \in Int /\ CDiv(s, 4) \in Int BY <1>1, <1>2
<1> HIDE DEF c
<1>6. CDiv(c, 4) \in Int BY <1>1, <1>5
<1>7. date2j(y, m, dd) = s * 365 - 32167 + CDiv(s, 4) - c + CDiv(c, 4) + l + dd
  BY DEF date2j, s, c, l
<1> QED BY <1>2, <1>4, <1>5, <1>6, <1>7

\* The words for instants and days: now, today, epoch and so on.
LEMMA ReservedWordSound ==
  ASSUME NEW dd, NEW val, Sound(dd), dd.err = "ok"
  PROVE  Sound(ReservedWord(dd, val))
<1> DEFINE M == dd.fmask
           now == [dd EXCEPT !.dtype = "DATE"]
           day(n) == Sets(now, DATE_M, OnDay(dd.tm, AddDays(Today, n)))
           X == DayAndTime \cup {"TZ"}
           w1 == [now EXCEPT !.tz = In(SessionZone)]
           t1 == [Now EXCEPT !.wday = dd.tm.wday, !.yday = dd.tm.yday]
           Y == TIME_M \cup {"TZ"}
           w2 == [now EXCEPT !.tz = West(0)]
           t2 == WithTime(dd.tm, 0, 0, 0)
           w3 == [dd EXCEPT !.dtype = val]
<1>0. DOMAIN dd = LocalNames /\ Known(M, dd.tm) BY DEF Sound
<1>1. Same(now, dd) /\ Same(w1, dd) /\ Same(w2, dd) /\ Same(w3, dd)
  BY <1>0 DEF Same, LocalNames
<1>2. ReservedWord(dd, val) = IF val = "CURRENT" THEN Refused(dd, "BAD_FORMAT")
        ELSE IF val = "NOW" THEN Sets(w1, X, t1)
        ELSE IF val = "YESTERDAY" THEN day(-1)
        ELSE IF val = "TODAY" THEN day(0)
        ELSE IF val = "TOMORROW" THEN day(1)
        ELSE IF val = "ZULU" THEN Sets(w2, Y, t2)
        ELSE Also(w3, {"RESERV"})
  BY DEF ReservedWord, DayAndTime
<1>3. Sound(Sets(w1, X, t1))
  <2>1. DATE_M \subseteq X /\ "DOY" \notin X BY MaskNames
  <2> HIDE DEF X
  <2>2. X \cap M = {} => Known(M \cup X, t1) BY <1>0, <2>1, NowKnown
  <2> HIDE DEF t1, w1
  <2> QED BY <1>1, <2>2, SetsSound
<1>4. Sound(Sets(w2, Y, t2))
  <2>1. Y \cap {"YEAR", "MONTH", "DAY", "DOY"} = {} BY MaskNames
  <2>2. Known(M, t2) BY <1>0, TimeSet
  <2> HIDE DEF Y, t2, w2
  <2>3. Known(M \cup Y, t2) BY <2>1, <2>2, OtherParts
  <2> QED BY <1>1, <2>3, SetsSound
<1>5. \A n \in Int : Sound(day(n))
  <2> TAKE n \in Int
  <2> DEFINE jd == date2j(Now.year, Now.mon, Now.mday) + n
             t == OnDay(dd.tm, j2date(jd))
  <2>1. jd \in Int
    <3>1. Now.year \in Int /\ Now.mon \in Int /\ Now.mday \in Int
      BY DateInputAssumption
    <3>2. date2j(Now.year, Now.mon, Now.mday) \in Int
      BY <3>1, DayNumberInt
    <3> QED BY <3>2
  <2>2. day(n) = Sets(now, DATE_M, t)
    BY DEF AddDays, Today, Date
  <2> HIDE DEF jd
  <2>3. DATE_M \cap M = {} => Known(M \cup DATE_M, t) BY <1>0, <2>1, SomeDay
  <2> HIDE DEF t, now
  <2>4. Sound(Sets(now, DATE_M, t)) BY <1>1, <2>3, SetsSound
  <2> QED BY <2>2, <2>4
<1>6. Sound(Also(w3, {"RESERV"}))
  <2> HIDE DEF w3
  <2>1. {"RESERV"} \cap {"YEAR", "MONTH", "DAY", "DOY"} = {} OBVIOUS
  <2> QED BY <1>1, <2>1, AlsoSound
<1>7. Sound(Refused(dd, "BAD_FORMAT")) BY <1>0, RefusedSound
<1>8. Sound(day(-1)) /\ Sound(day(0)) /\ Sound(day(1)) BY <1>5
<1> HIDE DEF day, w1, w2, w3, t1, t2, X, Y
<1> QED BY <1>2, <1>3, <1>4, <1>6, <1>7, <1>8

\* A month by its name.
LEMMA MonthWordSound ==
  ASSUME NEW dd, NEW val \in Int, Sound(dd), dd.err = "ok"
  PROVE  Sound(MonthWord(dd, val))
<1> DEFINE M == dd.fmask
           m == [dd EXCEPT !.textMonth = TRUE]
           t1 == [dd.tm EXCEPT !.mday = dd.tm.mon, !.mon = val]
           t2 == [dd.tm EXCEPT !.mon = val]
<1>0. DOMAIN dd = LocalNames /\ Known(M, dd.tm) BY DEF Sound
<1>1. Same(m, dd) BY <1>0 DEF Same, LocalNames
<1>2. MonthWord(dd, val) = IF MonthWasDay(dd) THEN Sets(m, {"DAY"}, t1)
                           ELSE Sets(m, {"MONTH"}, t2)
  BY DEF MonthWord
<1>3. MonthWasDay(dd) => Sound(Sets(m, {"DAY"}, t1))
  <2>1. MonthWasDay(dd) => Known(M \cup {"DAY"}, t1)
    BY <1>0 DEF Known, TmParts, DATE_M, MonthWasDay
  <2> HIDE DEF t1, m
  <2> QED BY <1>1, <2>1, SetsSound
<1>4. Sound(Sets(m, {"MONTH"}, t2))
  <2>1. {"MONTH"} \cap M = {} => Known(M \cup {"MONTH"}, t2)
    BY <1>0, MonthSet
  <2> HIDE DEF t2, m
  <2> QED BY <1>1, <2>1, SetsSound
<1> QED BY <1>2, <1>3, <1>4

\* A zone's abbreviation.
LEMMA ZoneWordSound ==
  ASSUME NEW dd, NEW type \in {"DTZMOD", "DTZ", "TZ"}, NEW val, Sound(dd), dd.err = "ok"
  PROVE  Sound(ZoneWord(dd, type, val))
<1> DEFINE w1 == [dd EXCEPT !.tz.west = @ + val * 60]
           w2 == [dd EXCEPT !.tz = West(val * 60)]
<1>0. DOMAIN dd = LocalNames BY DEF Sound
<1>1. Same(w1, dd) /\ Same(w2, dd) BY <1>0 DEF Same, LocalNames
<1>2. ZoneWord(dd, type, val) = IF type = "DTZMOD" THEN Also(w1, {"DTZMOD", "DTZ"})
                                ELSE Also(w2, {"TZ", type})
  BY DEF ZoneWord
<1> HIDE DEF w1, w2
<1>3. /\ {"DTZMOD", "DTZ"} \cap {"YEAR", "MONTH", "DAY", "DOY"} = {}
      /\ {"TZ", type} \cap {"YEAR", "MONTH", "DAY", "DOY"} = {}
  OBVIOUS
<1> QED BY <1>1, <1>2, <1>3, AlsoSound

\* Every word.
LEMMA WordFieldSound ==
  ASSUME NEW dd, NEW lex, NEW next, Sound(dd), dd.err = "ok"
  PROVE  Sound(WordField(dd, lex, next))
<1> DEFINE w == WordOf(lex)
           s == DecodeSpecial(w)
           w1 == [dd EXCEPT !.mer = s.val]
           w2 == [dd EXCEPT !.bc = (s.val = "BC")]
           w3 == [dd EXCEPT !.ptype = s.val]
           t  == [dd.tm EXCEPT !.wday = s.val]
           bad == Refused(dd, "BAD_FORMAT")
<1>0. DOMAIN dd = LocalNames /\ Known(dd.fmask, dd.tm) BY DEF Sound
<1>1. Same(w1, dd) /\ Same(w2, dd) /\ Same(w3, dd) /\ Same(dd, dd)
  BY <1>0 DEF Same, LocalNames
<1>2. WordField(dd, lex, next) =
        IF s.type = "IGNORE_DTF" THEN dd
        ELSE IF s.type = "RESERV" THEN ReservedWord(dd, s.val)
        ELSE IF s.type = "MONTH" THEN MonthWord(dd, s.val)
        ELSE IF s.type \in {"DTZMOD", "DTZ", "TZ"} THEN ZoneWord(dd, s.type, s.val)
        ELSE IF s.type = "AMPM" THEN Also(w1, {"AMPM"})
        ELSE IF s.type = "ADBC" THEN Also(w2, {"ADBC"})
        ELSE IF s.type = "DOW" THEN Sets(dd, {"DOW"}, t)
        ELSE IF s.type = "UNITS" THEN Also(w3, {})
        ELSE IF s.type = "ISOTIME" THEN IsoTime(dd, s.val, next)
        ELSE IF s.type = "UNKNOWN_FIELD" THEN UnknownWord(dd, lex)
        ELSE bad
  BY DEF WordField
<1>3. s.type = "MONTH" => s.val \in Int
  <2> HIDE DEF w
  <2>1. s.type = "MONTH" => s.val \in 1..12 BY MonthKnown
  <2> QED BY <2>1
<1> HIDE DEF w, s
<1>4. Sound(bad) BY <1>0, RefusedSound
<1>5. Sound(Also(w1, {"AMPM"})) /\ Sound(Also(w2, {"ADBC"})) /\ Sound(Also(w3, {}))
  <2> HIDE DEF w1, w2, w3
  <2>1. /\ {"AMPM"} \cap {"YEAR", "MONTH", "DAY", "DOY"} = {}
        /\ {"ADBC"} \cap {"YEAR", "MONTH", "DAY", "DOY"} = {}
        /\ {} \cap {"YEAR", "MONTH", "DAY", "DOY"} = {}
    OBVIOUS
  <2> QED BY <1>1, <2>1, AlsoSound
<1>6. Sound(Sets(dd, {"DOW"}, t))
  <2>1. Known(dd.fmask, t) BY <1>0 DEF Known, TmParts
  <2>2. {"DOW"} \cap {"YEAR", "MONTH", "DAY", "DOY"} = {} OBVIOUS
  <2> HIDE DEF t
  <2>3. Known(dd.fmask \cup {"DOW"}, t) BY <2>1, <2>2, OtherParts
  <2> QED BY <1>1, <2>3, SetsSound
<1>7. Sound(IsoTime(dd, s.val, next))
  <2>1. IsoTime(dd, s.val, next) = Also(w3, {}) \/ IsoTime(dd, s.val, next) = bad
    BY DEF IsoTime
  <2> QED BY <1>4, <1>5, <2>1
<1>8. Sound(UnknownWord(dd, lex)) BY <1>4, NamedZoneSound DEF UnknownWord
<1>9. s.type = "RESERV" => Sound(ReservedWord(dd, s.val)) BY ReservedWordSound
<1>10. s.type = "MONTH" => Sound(MonthWord(dd, s.val)) BY <1>3, MonthWordSound
<1>11. s.type \in {"DTZMOD", "DTZ", "TZ"} => Sound(ZoneWord(dd, s.type, s.val))
  BY ZoneWordSound
<1> HIDE DEF w1, w2, w3, t, bad
<1> QED BY <1>2, <1>4, <1>5, <1>6, <1>7, <1>8, <1>9, <1>10, <1>11

----------------------------------------------------------------------------
(* The fields of a text *)

\* A field, as ParseDateTime gives it: a date begins with digits or letters.
Begins(f) == f.ftype = "DATE" => f.lex # <<>> /\ AlphaNum(f.lex[1])
FieldSet == {f \in [ftype : AnyType, lex : Seq(Lexemes)] : Begins(f)}

\* A run of characters ends behind its start, and inside the text.
LEMMA PastBounds ==
  ASSUME NEW lex \in Seq(Lexemes), NEW p \in 1..(Len(lex) + 1), NEW kinds
  PROVE  /\ Past(lex, p, kinds) \in p..(Len(lex) + 1)
         /\ Inside(lex, p) /\ Kind(lex[p]) \in kinds => Past(lex, p, kinds) > p
<1> DEFINE n == Len(lex) + 1
           Stop(q) == ~ (Inside(lex, q) /\ Kind(lex[q]) \in kinds)
           Q == {q \in p..n : Stop(q)}
           Good(q) == Stop(q) /\ \A r \in p..(q - 1) : Kind(lex[r]) \in kinds
           c == Past(lex, p, kinds)
<1>0. Len(lex) \in Nat /\ p \in Nat BY LenProperties
<1>1. n \in Q BY <1>0 DEF Inside
<1>2. Q \subseteq Nat BY <1>0
<1>3. PICK q \in Q : \A r \in Q : q <= r
  <2> HIDE DEF Q
  <2> QED BY <1>1, <1>2, LeastNatural
<1>4. Good(q)
  <2>1. \A r \in p..(q - 1) : Kind(lex[r]) \in kinds
    <3> TAKE r \in p..(q - 1)
    <3>1. r \in p..n /\ r < q BY <1>0, <1>3
    <3>2. r \notin Q BY <1>0, <1>3, <3>1
    <3> QED BY <3>1, <3>2
  <2> QED BY <1>3, <2>1
<1>5. \E r \in p..n : Good(r) BY <1>3, <1>4
<1>6. c = CHOOSE r \in p..n : Good(r) BY DEF Past
<1> HIDE DEF c
<1>7. c \in p..n /\ Good(c) BY <1>5, <1>6, Zenon
<1>8. Inside(lex, p) /\ Kind(lex[p]) \in kinds => c # p BY <1>7
<1> QED BY <1>0, <1>7, <1>8 DEF c

\* What may be found at a place.
Cutting(f, lex, p) ==
  \/ f = NotAField
  \/ f.ftype = "none" /\ f.next = p + 1
  \/ /\ f.ftype \in AnyType /\ f.next \in (p + 1)..(Len(lex) + 1)
     /\ f.lex \in Seq(Lexemes) /\ Begins(f)

\* A piece of the text is a field.
LEMMA CutGives ==
  ASSUME NEW lex \in Seq(Lexemes), NEW p \in 1..Len(lex), NEW q \in (p + 1)..(Len(lex) + 1),
         NEW ftype \in AnyType, ftype = "DATE" => AlphaNum(lex[p])
  PROVE  Cutting(Cut(ftype, lex, p, q), lex, p)
<1>1. Len(lex) \in Nat /\ p \in Nat /\ q - 1 \in 0..Len(lex) BY LenProperties
<1>2. SubSeq(lex, p, q - 1) \in Seq(Lexemes) /\ SubSeq(lex, p, q - 1)[1] = lex[p]
      /\ SubSeq(lex, p, q - 1) # <<>>
  <2>1. \A k \in p..(q - 1) : lex[k] \in Lexemes
    <3> TAKE k \in p..(q - 1)
    <3>1. k \in 1..Len(lex) BY <1>1
    <3> QED BY <3>1, ElementOfSeq
  <2>2. p <= q - 1 /\ 1 \in 1..((q - 1) - p + 1) /\ p + 1 - 1 = p BY <1>1
  <2>3. Len(SubSeq(lex, p, q - 1)) # 0 BY <1>1, <2>1, <2>2, SubSeqProperties
  <2>4. SubSeq(lex, p, q - 1) # <<>>
    <3>1. Len(<<>>) = 0 BY EmptySeq
    <3> QED BY <2>3, <3>1
  <2> QED BY <1>1, <2>1, <2>2, <2>4, SubSeqProperties
<1> QED BY <1>2 DEF Cut, Cutting, Begins

\* A field that begins with digits.
LEMMA DigitFieldCut ==
  ASSUME NEW lex \in Seq(Lexemes), NEW p \in 1..Len(lex), IsDigits(lex[p])
  PROVE  Cutting(DigitField(lex, p), lex, p)
<1> DEFINE n == Len(lex)
           delim == Kind(lex[p + 1])
           three == Inside(lex, p + 3) /\ Kind(lex[p + 3]) = delim
           c1 == Inside(lex, p + 1) /\ IsMark(lex[p + 1], {":"})
           c2 == ~ (Inside(lex, p + 1) /\ IsMark(lex[p + 1], {"-", "/", "."}))
           c3 == ~ (Inside(lex, p + 2) /\ IsDigits(lex[p + 2]))
           q1 == Past(lex, p, {"digits", ":", "."})
           q3 == Past(lex, p + 1, {"digits", "letters", delim})
           q4 == Past(lex, p + 3, {"digits", delim})
           t  == IF delim = "." THEN "NUMBER" ELSE "DATE"
<1>0. n \in Nat /\ p \in Nat BY LenProperties
<1>1. DigitField(lex, p) =
        IF c1 THEN Cut("TIME", lex, p, q1)
        ELSE IF c2 THEN Cut("NUMBER", lex, p, p + 1)
        ELSE IF c3 THEN Cut("DATE", lex, p, q3)
        ELSE IF three THEN Cut("DATE", lex, p, q4)
        ELSE Cut(t, lex, p, p + 3)
  BY DEF DigitField
<1>2. q1 \in (p + 1)..(n + 1)
  <2>1. Kind(lex[p]) = "digits" BY DEF IsDigits, Kind
  <2>2. p \in 1..(n + 1) /\ Inside(lex, p) BY <1>0 DEF Inside
  <2> HIDE DEF q1
  <2>3. q1 \in p..(n + 1) /\ q1 > p BY <2>1, <2>2, PastBounds DEF q1
  <2> QED BY <1>0, <2>3
<1>3. p + 1 \in (p + 1)..(n + 1) BY <1>0
<1>4. ~ c2 => q3 \in (p + 1)..(n + 1)
  <2> SUFFICES ASSUME ~ c2 PROVE q3 \in (p + 1)..(n + 1) OBVIOUS
  <2>1. p + 1 \in 1..(n + 1) BY <1>0
  <2> HIDE DEF delim
  <2> QED BY <2>1, PastBounds
<1>5. three => q4 \in (p + 1)..(n + 1)
  <2> SUFFICES ASSUME Inside(lex, p + 3) PROVE q4 \in (p + 1)..(n + 1) OBVIOUS
  <2>1. p + 3 \in 1..(n + 1) BY <1>0 DEF Inside
  <2> HIDE DEF delim
  <2>2. q4 \in (p + 3)..(n + 1) BY <2>1, PastBounds
  <2> HIDE DEF q4
  <2> QED BY <1>0, <2>2
<1>6. ~ c3 => p + 3 \in (p + 1)..(n + 1) BY <1>0 DEF Inside
<1>7. t \in AnyType /\ {"TIME", "NUMBER", "DATE"} \subseteq AnyType BY DEF AnyType
<1>8. AlphaNum(lex[p]) BY DEF AlphaNum
<1> HIDE DEF q1, q3, q4, t, three, c1, c2, c3
<1> QED BY <1>1, <1>2, <1>3, <1>4, <1>5, <1>6, <1>7, <1>8, CutGives

\* A field that begins with a sign.
LEMMA SignFieldCut ==
  ASSUME NEW lex \in Seq(Lexemes), NEW p \in 1..Len(lex)
  PROVE  Cutting(SignField(lex, p), lex, p)
<1> DEFINE n == Len(lex)
           q == Past(lex, p + 1, {"space"})
           r == Past(lex, q, {"digits", ":", ".", "-"})
           no == ~ (Inside(lex, q) /\ AlphaNum(lex[q]))
           f1 == Cut("TZ", lex, q, r)
           f2 == Cut("SPECIAL", lex, q, q + 1)
<1>0. n \in Nat /\ p \in Nat BY LenProperties
<1>1. SignField(lex, p) = IF no THEN NotAField
                          ELSE IF IsDigits(lex[q]) THEN Behind(lex[p], f1)
                          ELSE Behind(lex[p], f2)
  BY DEF SignField
<1>2. q \in (p + 1)..(n + 1)
  <2>1. p + 1 \in 1..(n + 1) BY <1>0
  <2> QED BY <2>1, PastBounds
<1> HIDE DEF q
<1>3. ~ no => q \in 1..n BY DEF Inside
<1>4. ~ no /\ IsDigits(lex[q]) => r \in (q + 1)..(n + 1)
  <2> SUFFICES ASSUME ~ no, IsDigits(lex[q]) PROVE r \in (q + 1)..(n + 1) OBVIOUS
  <2>1. Kind(lex[q]) = "digits" BY DEF IsDigits, Kind
  <2>2. q \in 1..(n + 1) /\ Inside(lex, q) BY <1>0, <1>2
  <2>3. r \in q..(n + 1) /\ r > q BY <2>1, <2>2, PastBounds
  <2> HIDE DEF r
  <2> QED BY <1>0, <1>2, <2>3
<1>5. q + 1 \in (q + 1)..(n + 1) \/ no BY <1>0, <1>2, <1>3
<1> HIDE DEF r
<1>6. {"TZ", "SPECIAL"} \subseteq AnyType BY DEF AnyType
<1>7. ~ no => Cutting(f2, lex, q) BY <1>3, <1>5, <1>6, CutGives
<1>8. ~ no /\ IsDigits(lex[q]) => Cutting(f1, lex, q) BY <1>3, <1>4, <1>6, CutGives
<1>9. \A f, t, a, b : f = Cut(t, lex, a, b) /\ t \in {"TZ", "SPECIAL"} /\ Cutting(f, lex, q)
         => Cutting(Behind(lex[p], f), lex, p)
  <2> TAKE f, t, a, b
  <2> SUFFICES ASSUME f = Cut(t, lex, a, b), t \in {"TZ", "SPECIAL"}, Cutting(f, lex, q)
               PROVE  Cutting(Behind(lex[p], f), lex, p)
    OBVIOUS
  <2>1. /\ f.ftype = t /\ f.next \in (q + 1)..(n + 1) /\ f.lex \in Seq(Lexemes)
        /\ DOMAIN f = {"ftype", "next", "lex"}
    BY DEF Cut, Cutting, NotAField
  <2> DEFINE g == Behind(lex[p], f)
             l == <<lex[p]>> \o f.lex
  <2>2. g.ftype = t /\ g.next = f.next /\ g.lex = l BY <2>1 DEF Behind
  <2>3. l \in Seq(Lexemes)
    <3>1. lex[p] \in Lexemes BY ElementOfSeq
    <3>2. <<lex[p]>> \in Seq(Lexemes) BY <3>1, OneLexeme
    <3> QED BY <2>1, <3>2, ConcatProperties
  <2>4. f.next \in (p + 1)..(n + 1) BY <1>0, <1>2, <2>1
  <2> HIDE DEF g, l
  <2>5. t \in AnyType BY <1>6
  <2>6. Cutting(g, lex, p) BY <2>2, <2>3, <2>4, <2>5 DEF Cutting, Begins
  <2> QED BY <2>6 DEF g
<1> HIDE DEF no
<1>10. ~ no => Cutting(Behind(lex[p], f2), lex, p) BY <1>7, <1>9
<1>11. ~ no /\ IsDigits(lex[q]) => Cutting(Behind(lex[p], f1), lex, p) BY <1>8, <1>9
<1> HIDE DEF f1, f2
<1> QED BY <1>1, <1>10, <1>11 DEF Cutting

\* Any field.
LEMMA FieldCut ==
  ASSUME NEW lex \in Seq(Lexemes), NEW p \in 1..Len(lex)
  PROVE  Cutting(FieldAt(lex, p), lex, p)
<1> DEFINE n == Len(lex)
<1>0. n \in Nat /\ p \in Nat BY LenProperties
<1>1. p + 1 \in (p + 1)..(n + 1) /\ p + 1 \in 1..(n + 1) BY <1>0
<1>2. {"NUMBER", "STRING", "DATE"} \subseteq AnyType BY DEF AnyType
<1>3. \A kinds : Past(lex, p + 1, kinds) \in (p + 1)..(n + 1)
  BY <1>1, PastBounds
<1>4. Cutting(PointField(lex, p), lex, p)
  BY <1>2, <1>3, CutGives DEF PointField
<1>5. IsLetters(lex[p]) => Cutting(LettersField(lex, p), lex, p)
  BY <1>1, <1>2, <1>3, CutGives DEF LettersField, AlphaNum
<1>6. Cutting(Skip(p + 1), lex, p) BY DEF Skip, Cutting
<1> QED BY <1>4, <1>5, <1>6, DigitFieldCut, SignFieldCut DEF FieldAt

\* The fields from p on, given those behind the field there.
FieldsBehind(lex, p, rest) ==
  LET f == FieldAt(lex, p)
  IN  IF f.ftype = "bad" THEN <<f>>
      ELSE IF f.ftype = "none" THEN rest
      ELSE <<[ftype |-> f.ftype, lex |-> f.lex]>> \o rest

\* FieldsOf for the places from n on.
CutFrom(g, n, lex) ==
  g = [p \in n..(Len(lex) + 1) |->
         IF p = Len(lex) + 1 THEN <<>> ELSE FieldsBehind(lex, p, g[FieldAt(lex, p).next])]

\* The function for the places from n + 1 on extends to n.
LEMMA CutFurther ==
  ASSUME NEW lex \in Seq(Lexemes), NEW n \in 1..Len(lex), NEW g, CutFrom(g, n + 1, lex)
  PROVE  \E h : CutFrom(h, n, lex)
<1> DEFINE e == Len(lex) + 1
           nx(p) == FieldAt(lex, p).next
           B(p, rest) == FieldsBehind(lex, p, rest)
           h == [p \in n..e |-> IF p = n THEN B(n, g[nx(n)]) ELSE g[p]]
<1>0. e \in Nat /\ n \in Nat /\ n < e BY LenProperties
<1>1. g = [p \in (n + 1)..e |-> IF p = e THEN <<>> ELSE B(p, g[nx(p)])]
  BY DEF CutFrom
<1>2. \A p \in n..e : p # e => nx(p) \in (p + 1)..e \/ \A a, b : B(p, a) = B(p, b)
  <2> TAKE p \in n..e
  <2> SUFFICES ASSUME p # e PROVE nx(p) \in (p + 1)..e \/ \A a, b : B(p, a) = B(p, b)
    OBVIOUS
  <2>1. p \in 1..Len(lex) BY <1>0
  <2>2. Cutting(FieldAt(lex, p), lex, p) BY <2>1, FieldCut
  <2>3. CASE FieldAt(lex, p) = NotAField
    <3>1. FieldAt(lex, p).ftype = "bad" BY <2>3 DEF NotAField
    <3> QED BY <3>1 DEF FieldsBehind
  <2>4. CASE FieldAt(lex, p) # NotAField
    <3>1. p + 1 \in (p + 1)..e BY <1>0, <2>1
    <3> QED BY <2>2, <2>4, <3>1 DEF Cutting
  <2> QED BY <2>3, <2>4
<1> HIDE DEF B, nx, e
<1>3. \A p \in n..e : h[p] = IF p = e THEN <<>> ELSE B(p, h[nx(p)])
  <2> TAKE p \in n..e
  <2>1. CASE p = n
    <3>1. p # e /\ h[p] = B(p, g[nx(p)]) BY <1>0, <2>1
    <3>2. nx(p) \in (p + 1)..e => h[nx(p)] = g[nx(p)]
      <4> SUFFICES ASSUME nx(p) \in (p + 1)..e PROVE h[nx(p)] = g[nx(p)] OBVIOUS
      <4>1. nx(p) \in n..e /\ nx(p) # n BY <1>0, <2>1
      <4> HIDE DEF h
      <4> QED BY <4>1 DEF h
    <3> HIDE DEF h
    <3>3. B(p, g[nx(p)]) = B(p, h[nx(p)]) BY <1>2, <3>1, <3>2
    <3> QED BY <3>1, <3>3
  <2>2. CASE p = e
    <3>1. p \in (n + 1)..e /\ p # n BY <1>0, <2>2
    <3>2. h[p] = g[p] BY <3>1
    <3>3. g[p] = <<>> BY ONLY <1>1, <2>2, <3>1
    <3> QED BY <2>2, <3>2, <3>3
  <2>3. CASE p # n /\ p # e
    <3>1. p \in (n + 1)..e /\ p # n BY <1>0, <2>3
    <3>2. h[p] = g[p] BY <3>1
    <3>3. g[p] = B(p, g[nx(p)]) BY ONLY <1>1, <2>3, <3>1
    <3>4. nx(p) \in (p + 1)..e => h[nx(p)] = g[nx(p)]
      <4> SUFFICES ASSUME nx(p) \in (p + 1)..e PROVE h[nx(p)] = g[nx(p)] OBVIOUS
      <4>1. nx(p) \in n..e /\ nx(p) # n BY <1>0, <3>1
      <4> HIDE DEF h
      <4> QED BY <4>1 DEF h
    <3> HIDE DEF h
    <3>5. B(p, g[nx(p)]) = B(p, h[nx(p)]) BY <1>2, <2>3, <3>4
    <3> QED BY <2>3, <3>2, <3>3, <3>5
  <2> QED BY <2>1, <2>2, <2>3
<1>4. h = [p \in n..e |-> h[p]] OBVIOUS
<1> HIDE DEF h
<1>5. h = [p \in n..e |-> IF p = e THEN <<>> ELSE B(p, h[nx(p)])]
  BY <1>3, <1>4, Zenon
<1> QED BY <1>5 DEF CutFrom, B, nx, e

\* So there is one for all places.
LEMMA CutAll ==
  ASSUME NEW lex \in Seq(Lexemes)
  PROVE  \E g : CutFrom(g, 1, lex)
<1> DEFINE P(n) == \E g : CutFrom(g, n, lex)
           S == {k \in Nat : k <= Len(lex) /\ ~ P((Len(lex) + 1) - k)}
<1>0. Len(lex) \in Nat BY LenProperties
<1>1. P(Len(lex) + 1)
  <2> DEFINE e == Len(lex) + 1
             g == [p \in e..e |-> <<>>]
  <2>1. g = [p \in e..e |-> IF p = e THEN <<>>
                            ELSE FieldsBehind(lex, p, g[FieldAt(lex, p).next])]
    <3>1. \A p \in e..e : p = e BY <1>0
    <3> HIDE DEF e
    <3> QED BY <3>1
  <2> HIDE DEF g
  <2> QED BY <2>1 DEF CutFrom
<1>2. \A n \in 1..Len(lex) : P(n + 1) => P(n) BY CutFurther
<1> HIDE DEF P
<1>3. SUFFICES ASSUME S # {} PROVE P(1)
  <2>1. CASE Len(lex) = 0
    <3>1. Len(lex) + 1 = 1 BY <2>1
    <3>2. P(1) BY <1>1, <3>1, Zenon
    <3> QED BY <3>2 DEF P
  <2>2. CASE Len(lex) # 0
    <3>1. S = {} => P((Len(lex) + 1) - Len(lex)) BY <1>0
    <3>2. (Len(lex) + 1) - Len(lex) = 1 BY <1>0
    <3>3. S = {} => P(1) BY <3>1, <3>2, Zenon
    <3> QED BY <1>3, <3>3 DEF P
  <2> QED BY <2>1, <2>2
<1>4. PICK m \in S : \A k \in S : m <= k
  <2>1. S \subseteq Nat OBVIOUS
  <2> HIDE DEF S
  <2> QED BY <1>3, <2>1, LeastNatural
<1>5. m # 0 BY <1>0, <1>1, <1>4
<1>6. m - 1 \in Nat /\ m - 1 <= Len(lex) /\ m - 1 \notin S BY <1>0, <1>4, <1>5
<1>7. P((Len(lex) + 1) - (m - 1)) BY <1>6
<1>8. (Len(lex) + 1) - m \in 1..Len(lex) /\ ((Len(lex) + 1) - m) + 1 = (Len(lex) + 1) - (m - 1)
  BY <1>0, <1>4, <1>5
<1> DEFINE n == (Len(lex) + 1) - m
<1>9. n \in 1..Len(lex) /\ P(n + 1) /\ ~ P(n) BY <1>4, <1>7, <1>8
<1> HIDE DEF n
<1> QED BY <1>2, <1>9

\* A sequence of fields that a bad one may end.
Fields(s) ==
  /\ s \in Seq(FieldSet \cup {NotAField})
  /\ \A k \in 1..Len(s) : k # Len(s) => s[k] \in FieldSet

\* A field in front of others.
LEMMA FieldInFront ==
  ASSUME NEW s, NEW f \in FieldSet, Fields(s)
  PROVE  Fields(<<f>> \o s)
<1> DEFINE t == <<f>> \o s
           U == FieldSet \cup {NotAField}
<1>1. /\ <<f>> \in Seq(U) /\ Len(<<f>>) = 1 /\ <<f>>[1] = f
      /\ s \in Seq(U) /\ Len(s) \in Nat
  BY LenProperties DEF Fields
<1>2. /\ t \in Seq(U) /\ Len(t) = 1 + Len(s)
      /\ \A k \in 1..(1 + Len(s)) : t[k] = IF k <= 1 THEN <<f>>[k] ELSE s[k - 1]
  <2> HIDE DEF U
  <2>1. /\ t \in Seq(U) /\ Len(t) = Len(<<f>>) + Len(s)
        /\ \A k \in 1..(Len(<<f>>) + Len(s)) :
             t[k] = IF k <= Len(<<f>>) THEN <<f>>[k] ELSE s[k - Len(<<f>>)]
    BY <1>1, ConcatProperties
  <2> HIDE DEF t
  <2> QED BY <1>1, <2>1
<1> HIDE DEF t
<1>3. \A k \in 1..Len(t) : k # Len(t) => t[k] \in FieldSet
  <2> TAKE k \in 1..Len(t)
  <2> SUFFICES ASSUME k # Len(t) PROVE t[k] \in FieldSet OBVIOUS
  <2>1. CASE k = 1 BY <1>1, <1>2, <2>1
  <2>2. CASE k # 1
    <3>1. k - 1 \in 1..Len(s) /\ k - 1 # Len(s) /\ ~ (k <= 1) BY <1>1, <1>2, <2>2
    <3>2. t[k] = s[k - 1] BY <1>2, <2>2, <3>1
    <3> QED BY <3>1, <3>2 DEF Fields
  <2> QED BY <2>1, <2>2
<1> QED BY <1>2, <1>3 DEF Fields, t

\* FieldsOf gives fields, and at most the last one is bad.
LEMMA FieldsCut ==
  ASSUME NEW lex \in Seq(Lexemes)
  PROVE  Fields(FieldsOf(lex)[1])
<1> DEFINE F == FieldsOf(lex)
           e == Len(lex) + 1
           S == {k \in Nat : k <= Len(lex) /\ ~ Fields(F[e - k])}
<1>0. Len(lex) \in Nat BY LenProperties
<1>1. F = CHOOSE g : CutFrom(g, 1, lex) BY DEF FieldsOf, CutFrom, FieldsBehind
<1>2. CutFrom(F, 1, lex) BY <1>1, CutAll
<1> HIDE DEF F
<1>3. F = [p \in 1..e |-> IF p = e THEN <<>> ELSE FieldsBehind(lex, p, F[FieldAt(lex, p).next])]
  BY <1>2 DEF CutFrom
<1>4. Fields(F[e])
  <2>1. e \in 1..e BY <1>0
  <2>2. F[e] = <<>> BY ONLY <1>3, <2>1
  <2>3. Fields(<<>>) BY DEF Fields
  <2> QED BY <2>2, <2>3
<1>5. \A p \in 1..Len(lex) : (\A q \in (p + 1)..e : Fields(F[q])) => Fields(F[p])
  <2> TAKE p \in 1..Len(lex)
  <2> SUFFICES ASSUME \A q \in (p + 1)..e : Fields(F[q]) PROVE Fields(F[p]) OBVIOUS
  <2> DEFINE f == FieldAt(lex, p)
             rest == F[f.next]
  <2>1. p \in 1..e /\ p # e BY <1>0
  <2>2. F[p] = FieldsBehind(lex, p, rest) BY ONLY <1>3, <2>1
  <2>3. Cutting(f, lex, p) BY FieldCut
  <2>4. FieldsBehind(lex, p, rest) =
          IF f.ftype = "bad" THEN <<f>>
          ELSE IF f.ftype = "none" THEN rest
          ELSE <<[ftype |-> f.ftype, lex |-> f.lex]>> \o rest
    BY DEF FieldsBehind
  <2> HIDE DEF f
  <2>5. CASE f = NotAField
    <3>1. F[p] = <<NotAField>> BY <2>2, <2>4, <2>5 DEF NotAField
    <3>2. Fields(<<NotAField>>) BY DEF Fields
    <3> QED BY <3>1, <3>2
  <2>6. CASE f # NotAField /\ f.ftype = "none"
    <3>1. f.next = p + 1 BY <2>3, <2>6 DEF Cutting, AnyType
    <3>2. p + 1 \in (p + 1)..e BY <1>0
    <3> QED BY <2>2, <2>4, <2>6, <3>1, <3>2
  <2>7. CASE /\ f.ftype \in AnyType /\ f.next \in (p + 1)..e
             /\ f.lex \in Seq(Lexemes) /\ Begins(f)
    <3>1. [ftype |-> f.ftype, lex |-> f.lex] \in FieldSet BY <2>7 DEF FieldSet, Begins
    <3>2. f.ftype # "bad" /\ f.ftype # "none" BY <2>7 DEF AnyType
    <3>3. Fields(rest) BY <2>7
    <3> HIDE DEF rest
    <3> QED BY <2>2, <2>4, <3>1, <3>2, <3>3, FieldInFront
  <2> QED BY <2>3, <2>5, <2>6, <2>7 DEF Cutting
<1>6. SUFFICES ASSUME S # {} PROVE FALSE
  <2>1. CASE Len(lex) = 0 BY <1>4, <2>1 DEF F
  <2>2. CASE Len(lex) # 0
    <3>1. S = {} => Fields(F[e - Len(lex)]) BY <1>0
    <3>2. e - Len(lex) = 1 BY <1>0
    <3> QED BY <1>6, <3>1, <3>2 DEF F
  <2> QED BY <2>1, <2>2
<1>7. PICK m \in S : \A k \in S : m <= k
  <2>1. S \subseteq Nat OBVIOUS
  <2> HIDE DEF S
  <2> QED BY <1>6, <2>1, LeastNatural
<1>8. m # 0 BY <1>0, <1>4, <1>7
<1>9. e - m \in 1..Len(lex) BY <1>0, <1>7, <1>8
<1>10. \A q \in ((e - m) + 1)..e : Fields(F[q])
  <2> TAKE q \in ((e - m) + 1)..e
  <2>1. e - q \in Nat /\ e - q < m /\ e - q <= Len(lex) /\ e - (e - q) = q BY <1>0, <1>7, <1>8
  <2>2. e - q \notin S BY <1>7, <2>1
  <2> QED BY <2>1, <2>2
<1> QED BY <1>5, <1>7, <1>9, <1>10

\* What ParseDateTime gives.
LEMMA Parsed ==
  ASSUME NEW lex \in Seq(Lexemes)
  PROVE  /\ ParseDateTime(lex).err \in {"ok", "BAD_FORMAT"}
         /\ Len(ParseDateTime(lex).field) \in Nat
         /\ ParseDateTime(lex).err = "ok" => ParseDateTime(lex).field \in Seq(FieldSet)
<1> DEFINE fs == FieldsOf(lex)[1]
           bad == fs # <<>> /\ fs[Len(fs)] = NotAField
<1>1. /\ ParseDateTime(lex).err = IF bad THEN "BAD_FORMAT" ELSE "ok"
      /\ ParseDateTime(lex).field = fs
  BY DEF ParseDateTime
<1>2. Fields(fs) BY FieldsCut
<1> HIDE DEF fs
<1>3. Len(fs) \in Nat BY <1>2, LenProperties DEF Fields
<1>4. ~ bad => fs \in Seq(FieldSet)
  <2> SUFFICES ASSUME ~ bad PROVE fs \in Seq(FieldSet) OBVIOUS
  <2>1. CASE fs = <<>> BY <2>1
  <2>2. CASE fs # <<>>
    <3>1. fs[Len(fs)] # NotAField BY <2>2
    <3>2. \A k \in 1..Len(fs) : fs[k] \in FieldSet
      <4> TAKE k \in 1..Len(fs)
      <4>1. fs[k] \in FieldSet \cup {NotAField}
        BY <1>2, ElementOfSeq DEF Fields
      <4> QED BY <1>2, <3>1, <4>1 DEF Fields
    <3>3. fs = [k \in 1..Len(fs) |-> fs[k]] BY <1>2, LenProperties DEF Fields
    <3> QED BY <1>3, <3>2, <3>3, SeqDef
  <2> QED BY <2>1, <2>2
<1> QED BY <1>1, <1>3, <1>4

----------------------------------------------------------------------------
(* The end of DecodeDateTime *)

\* A struct tm with a whole date and a time.
Dated(tm) ==
  /\ DOMAIN tm = TmParts
  /\ tm.hour \in Nat /\ tm.min \in Nat /\ tm.sec \in Nat
  /\ tm.year \in Int /\ IsDate(Date(tm.year, tm.mon, tm.mday))

\* The parts noted, when the day of the year has been made month and day.
Settled(M, tm) ==
  /\ DOMAIN tm = TmParts
  /\ tm.hour \in Nat /\ tm.min \in Nat /\ tm.sec \in Nat
  /\ IF "YEAR" \in M THEN tm.year \in Int ELSE tm.year = Unset
  /\ IF "MONTH" \in M THEN tm.mon \in Int ELSE tm.mon = Unset
  /\ IF "DAY" \in M THEN tm.mday \in Int ELSE tm.mday = Unset
  /\ IF "DOY" \in M THEN tm.yday \in Int ELSE tm.yday = Unset
  /\ DATE_M \subseteq M => IsDate(Date(tm.year, tm.mon, tm.mday))

\* The locals of DecodeDateTime when it returns.
Decoded(e) ==
  /\ DOMAIN e = LocalNames
  /\ Settled(e.fmask, e.tm) /\ (e.two => "YEAR" \in e.fmask)
  /\ e.dtype = "DATE" => DATE_M \subseteq e.fmask

\* The year stays a number, whatever its era and its digits (ValidateDate.c).
LEMMA YearSettled ==
  ASSUME NEW y \in Int, NEW isjulian, NEW bc, NEW two
  PROVE  SettledYear(y, isjulian, bc, two) \in Int
BY DEF SettledYear

\* Before the month and day are checked.
Timed(M, tm) ==
  /\ DOMAIN tm = TmParts
  /\ tm.hour \in Nat /\ tm.min \in Nat /\ tm.sec \in Nat
  /\ IF "YEAR" \in M THEN tm.year \in Int ELSE tm.year = Unset
  /\ IF "MONTH" \in M THEN tm.mon \in Int ELSE tm.mon = Unset
  /\ IF "DAY" \in M THEN tm.mday \in Int ELSE tm.mday = Unset
  /\ IF "DOY" \in M THEN tm.yday \in Int ELSE tm.yday = Unset

\* A month's length is a number.
LEMMA MonthDays ==
  ASSUME NEW y, NEW m \in 1..12
  PROVE  MonthLength(y, m) \in Int
BY DEF MonthLength, day_tab, leap_months, common_months

\* A date that passes the last check has a month and a day of that month.
LEMMA DayInMonthSettles ==
  ASSUME NEW M, NEW tm, Timed(M, tm), Ok(DayInMonth(M, tm))
  PROVE  DayInMonth(M, tm).tm = tm /\ Settled(M, tm)
<1> DEFINE c1 == "MONTH" \in M /\ tm.mon \notin 1..MonthsPerYear
           c2 == "DAY" \in M /\ tm.mday \notin 1..31
           c3 == DATE_M \subseteq M /\ tm.mday > MonthLength(tm.year, tm.mon)
           ok == [err |-> "ok", tm |-> tm]
<1>1. DayInMonth(M, tm) = IF c1 THEN Fail("MD_FIELD_OVERFLOW")
                          ELSE IF c2 THEN Fail("MD_FIELD_OVERFLOW")
                          ELSE IF c3 THEN Fail("FIELD_OVERFLOW") ELSE ok
  BY DEF DayInMonth
<1>2. ~ Ok(Fail("MD_FIELD_OVERFLOW")) /\ ~ Ok(Fail("FIELD_OVERFLOW")) BY DEF Fail, Ok
<1> HIDE DEF c1, c2, c3, ok
<1>3. ~ c1 /\ ~ c2 /\ ~ c3 /\ DayInMonth(M, tm) = ok BY <1>1, <1>2
<1>4. DATE_M \subseteq M => IsDate(Date(tm.year, tm.mon, tm.mday))
  <2> SUFFICES ASSUME DATE_M \subseteq M PROVE IsDate(Date(tm.year, tm.mon, tm.mday))
    OBVIOUS
  <2>1. "MONTH" \in M /\ "DAY" \in M BY DEF DATE_M
  <2>2. tm.mon \in 1..12 /\ tm.mday \in 1..31 BY <1>3, <2>1 DEF c1, c2, MonthsPerYear
  <2>3. MonthLength(tm.year, tm.mon) \in Int BY <2>2, MonthDays
  <2>4. ~ (tm.mday > MonthLength(tm.year, tm.mon)) BY <1>3 DEF c3
  <2> QED BY <2>2, <2>3, <2>4 DEF IsDate, Date, MonthsPerYear
<1>5. Settled(M, tm) BY <1>4 DEF Settled, Timed
<1> QED BY <1>3, <1>5 DEF ok

\* ValidateDate settles the parts it accepts.
LEMMA DateValidated ==
  ASSUME NEW M, NEW isjulian, NEW two, NEW bc, NEW tm, Known(M, tm),
         Ok(ValidateDate(M, isjulian, two, bc, tm))
  PROVE  Settled(M, ValidateDate(M, isjulian, two, bc, tm).tm)
<1> DEFINE y == IF "YEAR" \in M THEN SettledYear(tm.year, isjulian, bc, two) ELSE tm.year
           t == [tm EXCEPT !.year = y]
           u == IF "DOY" \in M THEN DayOfYear(t) ELSE t
           no == "YEAR" \in M /\ YearRefused(tm.year, isjulian, bc, two)
           v == ValidateDate(M, isjulian, two, bc, tm)
<1>1. v = IF no THEN Fail("FIELD_OVERFLOW") ELSE DayInMonth(M, u)
  BY DEF ValidateDate
<1>2. ~ Ok(Fail("FIELD_OVERFLOW")) BY DEF Fail, Ok
<1>3. IF "YEAR" \in M THEN y \in Int ELSE y = Unset
  BY YearSettled DEF Known
<1> HIDE DEF y, no
<1>4. Known(M, t) BY <1>3 DEF Known, TmParts
<1>5. Timed(M, u)
  <2> HIDE DEF t
  <2>1. CASE "DOY" \notin M BY <1>4, <2>1 DEF Known, Timed
  <2>2. CASE "DOY" \in M
    <3> DEFINE jd == date2j(t.year, 1, 1) + t.yday - 1
               at == j2date(jd)
    <3>1. DATE_M \subseteq M /\ t.year \in Int /\ t.yday \in Int
          /\ {"YEAR", "MONTH", "DAY"} \subseteq M
      <4>1. DATE_M \subseteq M /\ t.yday \in 1..366 BY <1>4, <2>2 DEF Known
      <4>2. "YEAR" \in M /\ {"YEAR", "MONTH", "DAY"} \subseteq M BY <4>1 DEF DATE_M
      <4>3. t.year \in Int BY <1>4, <4>2 DEF Known
      <4> QED BY <4>1, <4>2, <4>3
    <3>2. date2j(t.year, 1, 1) \in Int
      <4>1. \A a, b, c \in Int : date2j(a, b, c) \in Int BY DayNumberInt
      <4>2. 1 \in Int OBVIOUS
      <4> QED BY <3>1, <4>1, <4>2, Zenon
    <3> DEFINE n == date2j(t.year, 1, 1)
    <3>3. jd \in Int
      <4> HIDE DEF n
      <4>1. (n + t.yday) - 1 \in Int BY <3>1, <3>2 DEF n
      <4> QED BY <4>1, <3>1, <3>2 DEF n
    <3> HIDE DEF jd
    <3>4. at.year \in Int /\ at.mon \in Int /\ at.mday \in Int BY <3>3, DayShown
    <3>5. u = OnDay(t, at) BY <2>2 DEF DayOfYear, jd
    <3> HIDE DEF at, u
    <3> QED BY <1>4, <2>2, <3>1, <3>4, <3>5 DEF Known, Timed, TmParts, OnDay, WithDate
  <2> QED BY <2>1, <2>2
<1> HIDE DEF u
<1>6. v = DayInMonth(M, u) BY <1>1, <1>2
<1> HIDE DEF v
<1>7. v.tm = u /\ Settled(M, u) BY <1>5, <1>6, DayInMonthSettles DEF v
<1> QED BY <1>7 DEF v

\* The end of DecodeDateTime: with a date, its three parts, or an error.
LEMMA EndDecodes ==
  ASSUME NEW dd, Sound(dd), dd.err = "ok", DateTimeEnd(dd).err = "ok"
  PROVE  Decoded(DateTimeEnd(dd))
<1> DEFINE v == ValidateDate(dd.fmask, dd.isjulian, dd.two, dd.bc, dd.tm)
           t == HourOfDay(dd, v)
           h == ApplyMeridiem(dd.mer, v.tm.hour)
           w == [v.tm EXCEPT !.hour = h]
           e == DateTimeEnd(dd)
<1>0. DOMAIN dd = LocalNames /\ Known(dd.fmask, dd.tm) /\ (dd.two => "YEAR" \in dd.fmask)
  BY DEF Sound
<1>1. e = IF t.err = "ok" /\ t.dtype = "DATE" THEN FullDate(t) ELSE t
  BY DEF DateTimeEnd, Validated
<1>2. t = IF ~ Ok(v) THEN Refused(dd, v.err)
          ELSE IF dd.mer # "HR24" /\ v.tm.hour > Noon THEN Refused(dd, "FIELD_OVERFLOW")
          ELSE [dd EXCEPT !.tm = w]
  BY DEF HourOfDay
<1>3. Ok(v) => Settled(dd.fmask, v.tm) BY <1>0, DateValidated
<1> HIDE DEF v
<1>4. Ok(v) => Settled(dd.fmask, w)
  <2> SUFFICES ASSUME Ok(v) PROVE Settled(dd.fmask, w) OBVIOUS
  <2>1. Settled(dd.fmask, v.tm) BY <1>3
  <2>2. h \in Nat BY <2>1 DEF Settled, ApplyMeridiem, Noon
  <2> HIDE DEF h
  <2> QED BY <2>1, <2>2 DEF Settled, TmParts
<1> HIDE DEF w
<1>5. \A r : DOMAIN Refused(dd, r) = LocalNames /\ Refused(dd, r).err = r
  BY <1>0 DEF Refused, LocalNames
<1>6. t.err = "ok" => Ok(v) /\ t = [dd EXCEPT !.tm = w]
  BY <1>2, <1>5 DEF Ok
<1> HIDE DEF t
<1>7. \A f, r : f.err = "ok" /\ DOMAIN f = LocalNames /\ r # "ok" => Refused(f, r).err # "ok"
  BY DEF Refused, LocalNames
<1>8. t.err = "ok"
  <2>1. CASE t.err = "ok" BY <2>1
  <2>2. CASE t.err # "ok" BY <1>1, <2>2
  <2> QED BY <2>1, <2>2
<1>9. /\ DOMAIN t = LocalNames /\ t.fmask = dd.fmask /\ t.tm = w /\ t.two = dd.two
      /\ Settled(dd.fmask, w)
  BY <1>0, <1>4, <1>6, <1>8 DEF LocalNames
<1>10. CASE t.dtype # "DATE"
  BY <1>0, <1>1, <1>9, <1>10 DEF Decoded
<1>11. CASE t.dtype = "DATE"
  <2>1. e = FullDate(t) BY <1>1, <1>8, <1>11
  <2> DEFINE z == IF t.zone # NoZone THEN In(t.zone)
                  ELSE IF "TZ" \notin t.fmask THEN In(SessionZone) ELSE t.tz
             f == [t EXCEPT !.tz = z]
  <2>2. \/ e = Refused(t, "TIME_ONLY") \/ e = Refused(t, "BAD_FORMAT")
        \/ e = f /\ DATE_M \subseteq t.fmask
    BY <2>1 DEF FullDate
  <2>3. e = f /\ DATE_M \subseteq t.fmask BY <1>7, <1>8, <1>9, <2>2
  <2>4. DOMAIN f = LocalNames /\ f.fmask = t.fmask /\ f.tm = t.tm /\ f.two = t.two
    BY <1>9 DEF LocalNames
  <2> HIDE DEF e, f
  <2> QED BY <1>0, <1>9, <2>3, <2>4 DEF Decoded, e
<1> QED BY <1>10, <1>11

----------------------------------------------------------------------------
(* A timestamp stored *)

\* The first valid Julian day is day 0.
LEMMA ValidDays ==
  ASSUME NEW y \in Int, NEW m \in Int, NEW dd \in Int, IsDate(Date(y, m, dd)),
         ValidJulian(y, m, dd)
  PROVE  date2j(y, m, dd) \in Nat /\ y >= FirstYear
<1>1. m \in 1..12 /\ dd \in 1..MonthLength(y, m) BY DEF IsDate, Date, MonthsPerYear
<1>2. dd >= 1
  <2>1. MonthLength(y, m) \in Int BY <1>1, MonthDays
  <2> QED BY <1>1, <2>1
<1>3. y >= -4713 /\ y >= FirstYear
  BY DEF ValidJulian, JULIAN_MINYEAR, FirstYear
<1>4. /\ Shifted(y, m) \in Nat /\ Since(m, dd) \in Int /\ Before(Shifted(y, m)) \in Int
      /\ date2j(y, m, dd) = Before(Shifted(y, m)) + Since(m, dd) - 32044
  <2>1. m \in CalendarMonths BY <1>1 DEF CalendarMonths
  <2> QED BY <1>3, <2>1, DayNumber
<1>5. \A s \in Nat : s >= 87 => Before(s) \in Int /\ Before(s) >= 31776
                                /\ (s >= 88 => Before(s) >= 32140)
  <2> TAKE s \in Nat
  <2> SUFFICES ASSUME s >= 87 PROVE Before(s) \in Int /\ Before(s) >= 31776
                                    /\ (s >= 88 => Before(s) >= 32140)
    OBVIOUS
  <2>1. /\ s \div 4 - s \div 100 >= 21 /\ (s \div 100) \div 4 >= 0
        /\ Before(s) = s * 365 + s \div 4 - s \div 100 + (s \div 100) \div 4
    BY DEF Before
  <2>2. s \div 4 \in Int /\ s \div 100 \in Int /\ (s \div 100) \div 4 \in Int OBVIOUS
  <2> QED BY <2>1, <2>2
<1>6. m \in {1, 2, 3, 4, 5, 6, 7, 8, 9, 10, 11, 12} BY <1>1
<1>7. Since(m, dd) >= dd - 1
  BY <1>6, MonthStarts
<1>8. CASE m > 2 /\ y >= -4712
  <2>1. Shifted(y, m) >= 88 BY <1>8 DEF Shifted
  <2>2. Before(Shifted(y, m)) >= 32140 BY <1>4, <1>5, <2>1
  <2> QED BY <1>2, <1>3, <1>4, <1>7, <2>2
<1>9. CASE m <= 2 /\ y >= -4712
  <2>1. Shifted(y, m) >= 87 BY <1>9 DEF Shifted
  <2>2. Before(Shifted(y, m)) >= 31776 BY <1>4, <1>5, <2>1
  <2>3. Since(m, dd) >= dd + 305
    <3>1. m = 1 \/ m = 2 BY <1>1, <1>9
    <3> QED BY <3>1, MonthStarts
  <2> QED BY <1>2, <1>3, <1>4, <2>2, <2>3
<1>10. CASE y = -4713
  <2>1. m > 11 \/ (m = 11 /\ dd >= 24)
    BY <1>10 DEF ValidJulian, JULIAN_MINYEAR, JULIAN_MINMONTH, JULIAN_MINDAY
  <2>2. Shifted(y, m) = 87 BY <1>10, <2>1 DEF Shifted
  <2>3. Before(Shifted(y, m)) >= 31776 BY <1>5, <2>2
  <2>4. Since(m, dd) >= 268
    <3>1. (m = 11 /\ dd >= 24) \/ m = 12 BY <1>1, <2>1
    <3> QED BY <1>2, <3>1, MonthStarts
  <2> QED BY <1>3, <1>4, <2>3, <2>4
<1> QED BY <1>1, <1>3, <1>8, <1>9, <1>10

\* The day and the second stored are those of the date and time, carried over a
\* day's end.
LEMMA StoredAs ==
  ASSUME NEW tm, Dated(tm), tm2timestamp(tm).stored
  PROVE  /\ tm.mon \in Int /\ tm.mday \in Int /\ Seconds(tm) \in Nat
         /\ date2j(tm.year, tm.mon, tm.mday) \in Nat /\ tm.year >= FirstYear
         /\ tm2timestamp(tm).day = date2j(tm.year, tm.mon, tm.mday)
                                     + Seconds(tm) \div SECS_PER_DAY
         /\ tm2timestamp(tm).sec = Seconds(tm) % SECS_PER_DAY
         /\ tm2timestamp(tm).day \in Nat /\ tm2timestamp(tm).sec \in Nat
         /\ tm2timestamp(tm).sec < SECS_PER_DAY
<1> DEFINE s == Seconds(tm)
           n == date2j(tm.year, tm.mon, tm.mday)
           r == [stored |-> TRUE, sec |-> s % SECS_PER_DAY, day |-> n + s \div SECS_PER_DAY]
<1>1. tm2timestamp(tm) = IF ~ ValidJulian(tm.year, tm.mon, tm.mday) THEN Nothing ELSE r
  BY DEF tm2timestamp
<1>2. s \in Nat BY DEF Dated, Seconds
<1> HIDE DEF r
<1>3. ValidJulian(tm.year, tm.mon, tm.mday) /\ tm2timestamp(tm) = r
  BY <1>1 DEF Nothing
<1>4. tm.mon \in Int /\ tm.mday \in Int /\ tm.year \in Int
      /\ IsDate(Date(tm.year, tm.mon, tm.mday))
  <2>1. tm.mon \in 1..12 /\ tm.mday \in 1..MonthLength(tm.year, tm.mon)
    BY DEF Dated, IsDate, Date, MonthsPerYear
  <2>2. MonthLength(tm.year, tm.mon) \in Int BY <2>1, MonthDays
  <2> QED BY <2>1, <2>2 DEF Dated
<1>5. n \in Nat /\ tm.year >= FirstYear BY <1>3, <1>4, ValidDays
<1> HIDE DEF n, s
<1>6. r.day = n + s \div SECS_PER_DAY /\ r.sec = s % SECS_PER_DAY BY DEF r
<1>7. n + s \div SECS_PER_DAY \in Nat /\ s % SECS_PER_DAY \in Nat
      /\ s % SECS_PER_DAY < SECS_PER_DAY
  BY <1>2, <1>5 DEF SECS_PER_DAY
<1> QED BY <1>2, <1>3, <1>4, <1>5, <1>6, <1>7 DEF n, s

\* A timestamp moved by months is one with a date and a time again.
LEMMA MonthsMoved ==
  ASSUME NEW tm, NEW jd \in Nat, NEW sec \in Nat, sec < SECS_PER_DAY, NEW n \in Int,
         DOMAIN tm = TmParts
  PROVE  Dated(WithTime(OnDay(tm, AddMonths(j2date(jd), n)), sec \div 3600,
                        (sec % 3600) \div 60, sec % 60))
<1> DEFINE s == timesub(jd - UNIX_EPOCH_JDATE, sec, 0)
           at == j2date(jd)
           to == AddMonths(at, n)
           h == sec \div 3600
           m == (sec % 3600) \div 60
           c == sec % 60
<1>1. /\ s.date = at /\ IsDate(s.date) /\ s.date.year \in Int
  BY TimesubShows
<1> HIDE DEF s
<1>2. at.year \in Int /\ at.mon \in Int /\ at.mday \in Int
  <2>1. jd \in Int OBVIOUS
  <2> QED BY <2>1, DayShown
<1>3. at = Date(at.year, at.mon, at.mday) BY DEF j2date, Date
<1> HIDE DEF at
<1>4. IsDate(to)
  <2>1. IsDate(Date(at.year, at.mon, at.mday)) BY <1>1, <1>3
  <2>2. IsDate(AddMonths(Date(at.year, at.mon, at.mday), n)) BY <1>2, <2>1, MonthsGiveDate
  <2> QED BY <1>3, <2>2
<1>5. to.year \in Int
  <2>1. at.mon \in CalendarMonths BY <1>1 DEF IsDate, MonthsPerYear, CalendarMonths
  <2>2. MonthsOn(at.year, at.mon, n).year \in Int BY <1>2, <2>1, MonthsCounted
  <2> QED BY <2>2 DEF AddMonths, Date
<1>6. Date(to.year, to.mon, to.mday) = to BY DEF AddMonths, Date
<1>7. h \in Nat /\ m \in Nat /\ c \in Nat OBVIOUS
<1> HIDE DEF to, h, m, c
<1> DEFINE w == WithTime(OnDay(tm, to), h, m, c)
<1>8. /\ DOMAIN w = TmParts /\ w.year = to.year /\ w.mon = to.mon /\ w.mday = to.mday
      /\ w.hour = h /\ w.min = m /\ w.sec = c
  BY DEF WithTime, OnDay, WithDate, TmParts
<1> HIDE DEF w
<1>9. Dated(w) BY <1>4, <1>5, <1>6, <1>7, <1>8 DEF Dated
<1> QED BY <1>9 DEF w, to, at, h, m, c

\* timestamp2tm gives the date and time that tm2timestamp was given, once carried.
LEMMA Shown ==
  ASSUME Dated(d.tm), result = tm2timestamp(d.tm), result.stored
  PROVE  ShownAsWritten
<1> DEFINE s == timesub(result.day - UNIX_EPOCH_JDATE, result.sec, 0)
           j == j2date(result.day)
           w == Date(d.tm.year, d.tm.mon, d.tm.mday)
           n == date2j(d.tm.year, d.tm.mon, d.tm.mday)
           secs == Seconds(d.tm)
<1>1. /\ d.tm.mon \in Int /\ d.tm.mday \in Int /\ secs \in Nat /\ n \in Nat
      /\ d.tm.year >= FirstYear /\ d.tm.year \in Int
      /\ result.day = n + secs \div SECS_PER_DAY /\ result.sec = secs % SECS_PER_DAY
      /\ result.day \in Nat /\ result.sec \in Nat /\ result.sec < SECS_PER_DAY
  BY StoredAs DEF Dated
<1>2. IsDate(w) /\ d.tm.hour \in Nat /\ d.tm.min \in Nat /\ d.tm.sec \in Nat BY DEF Dated
<1>3. /\ s.date = j /\ s.wday = j2day(result.day) /\ IsDate(s.date)
      /\ s.hour = result.sec \div 3600 /\ s.min = (result.sec % 3600) \div 60
      /\ s.sec = result.sec % 60
  BY <1>1, TimesubShows
<1>4. j2date(n) = w BY <1>1, <1>2, DatesComeBack
<1>5. secs = (d.tm.hour * 60 + d.tm.min) * 60 + d.tm.sec BY DEF Seconds
<1> HIDE DEF s, w, n, secs
<1>6. secs < SECS_PER_DAY => result.day = n /\ result.sec = secs
  BY <1>1 DEF SECS_PER_DAY
<1>7. secs < SECS_PER_DAY => j = w BY <1>4, <1>6
<1>8. d.tm.hour < 24 /\ d.tm.min < 60 /\ d.tm.sec < 60 =>
        <<s.hour, s.min, s.sec>> = <<d.tm.hour, d.tm.min, d.tm.sec>>
  <2> SUFFICES ASSUME d.tm.hour < 24, d.tm.min < 60, d.tm.sec < 60
               PROVE  <<s.hour, s.min, s.sec>> = <<d.tm.hour, d.tm.min, d.tm.sec>>
    OBVIOUS
  <2>1. secs < SECS_PER_DAY BY <1>2, <1>5 DEF SECS_PER_DAY
  <2>2. \A a, b, c, k \in Nat : b < 60 /\ c < 60 /\ k = (a * 60 + b) * 60 + c =>
          k \div 3600 = a /\ (k % 3600) \div 60 = b /\ k % 60 = c
    <3> TAKE a, b, c, k \in Nat
    <3> SUFFICES ASSUME b < 60, c < 60, k = (a * 60 + b) * 60 + c
                 PROVE  k \div 3600 = a /\ (k % 3600) \div 60 = b /\ k % 60 = c
      OBVIOUS
    <3> DEFINE e == b * 60 + c
    <3>1. e \in Nat /\ e < 3600 /\ k = 3600 * a + e OBVIOUS
    <3>2. e \div 60 = b /\ e % 60 = c OBVIOUS
    <3>3. k % 60 = c OBVIOUS
    <3> HIDE DEF e
    <3>4. k \div 3600 = a /\ k % 3600 = e BY <3>1
    <3> QED BY <3>2, <3>3, <3>4
  <2>3. /\ secs \div 3600 = d.tm.hour /\ (secs % 3600) \div 60 = d.tm.min
        /\ secs % 60 = d.tm.sec
    <3> DEFINE h == d.tm.hour
               m == d.tm.min
               c == d.tm.sec
    <3>1. h \in Nat /\ m \in Nat /\ c \in Nat BY <1>2
    <3>2. m < 60 /\ c < 60 OBVIOUS
    <3>3. secs = (h * 60 + m) * 60 + c BY <1>5
    <3> HIDE DEF h, m, c, secs
    <3>4. secs \div 3600 = h /\ (secs % 3600) \div 60 = m /\ secs % 60 = c
      BY <1>1, <2>2, <3>1, <3>2, <3>3
    <3> QED BY <3>4 DEF h, m, c
  <2> QED BY <1>3, <1>6, <2>1, <2>3
<1> QED BY <1>2, <1>3, <1>7, <1>8 DEF ShownAsWritten, s, w, secs

----------------------------------------------------------------------------
(* A call of timestamptz_in, step by step *)

\* What the steps of timestamptz_in rely on.
Dates ==
  /\ entry # "timestamptz" => result = Nothing /\ pc \notin {"stored", "moved"}
  /\ entry = "timestamptz" =>
       /\ pc \in {"parse", "fields", "decoded", "stored", "moved", "refused"}
       /\ pc = "parse" => d = Fresh("DATE") /\ text \in Seq(Lexemes) /\ ~ IsIso
       /\ pc = "fields" => field \in Seq(FieldSet) /\ Sound(d) /\ d.err = "ok"
       /\ pc = "decoded" => Decoded(d) /\ d.err = "ok"
       /\ pc \in {"stored", "moved"} =>
            /\ DOMAIN d = LocalNames /\ Dated(d.tm)
            /\ result = tm2timestamp(d.tm) /\ result.stored
       /\ pc \notin {"stored", "moved"} => result = Nothing

\* The locals as DecodeDateTime initialises them.
LEMMA FreshSound == Sound(Fresh("DATE")) /\ Fresh("DATE").err = "ok"
BY DEF Sound, Fresh, LocalNames, Known, NoTm, TmParts

\* A text of the lexemes of dates is no ISO interval.
LEMMA NotIso ==
  ASSUME NEW x \in Seq(Lexemes), x # <<>>
  PROVE  x[1].c \notin {"num", "unit"}
<1>1. 1 \in 1..Len(x) BY EmptySeq, LenProperties
<1>2. x[1] \in Lexemes BY <1>1, ElementOfSeq
<1> QED BY <1>2 DEF Lexemes

\* Initially.
LEMMA DatesStart == Init => Dates
<1> SUFFICES ASSUME Init PROVE Dates OBVIOUS
<1>1. pc = "parse" /\ result = Nothing BY DEF Init
<1>2. CASE entry = "timestamptz"
  <2>1. text \in DateTexts /\ d = Fresh("DATE") BY <1>2 DEF Init
  <2>2. text \in Seq(Lexemes) /\ text # <<>> BY <2>1, TextInputAssumption
  <2>3. ~ IsIso BY <2>2, NotIso DEF IsIso
  <2> QED BY <1>1, <1>2, <2>1, <2>2, <2>3 DEF Dates
<1>3. CASE entry # "timestamptz" BY <1>1, <1>3 DEF Dates
<1> QED BY <1>2, <1>3

\* The field to be read is one of the fields.
LEMMA FieldRead ==
  ASSUME field \in Seq(FieldSet), Inside(field, i)
  PROVE  field[i].lex \in Seq(Lexemes)
<1>1. field[i] \in FieldSet BY ElementOfSeq DEF Inside
<1> QED BY <1>1 DEF FieldSet

\* A field read soundly keeps the invariant.
LEMMA ReadKeeps ==
  ASSUME Dates, NEW e, NEW ftypes, Reading("timestamptz", ftypes), Read(e, 1), Sound(e)
  PROVE  Dates'
<1>1. entry = "timestamptz" /\ pc = "fields" /\ field \in Seq(FieldSet) /\ result = Nothing
  BY DEF Dates, Reading
<1>2. entry' = entry /\ field' = field /\ result' = result /\ d' = e
      /\ pc' = IF e.err = "ok" THEN "fields" ELSE "refused"
  BY <1>1 DEF Read, OnError
<1>3. Sound(d)' BY <1>2 DEF Sound
<1> QED BY <1>1, <1>2, <1>3 DEF Dates

\* Every step keeps it.
LEMMA DatesKept == Dates /\ [Next]_vars => Dates'
<1> SUFFICES ASSUME Dates, [Next]_vars PROVE Dates' OBVIOUS
<1>1. CASE UNCHANGED vars
  BY <1>1 DEF Dates, vars, IsIso, Sound, Decoded
<1>2. CASE Parse
  <2> USE <1>2
  <2>1. entry' = entry /\ text' = text /\ result' = result /\ pc = "parse" BY DEF Parse
  <2>2. CASE entry # "timestamptz"
    <3>1. pc' \in {"fields", "iso", "refused"} BY DEF Parse, OnError
    <3> QED BY <2>1, <2>2, <3>1 DEF Dates
  <2>3. CASE entry = "timestamptz"
    <3> DEFINE p == ParseDateTime(text)
    <3>1. d = Fresh("DATE") /\ text \in Seq(Lexemes) /\ ~ IsIso /\ result = Nothing
      BY <2>1, <2>3 DEF Dates
    <3>2. p.err = "ok" => p.field \in Seq(FieldSet) BY <3>1, Parsed
    <3> HIDE DEF p
    <3>3. \/ p.err = "ok" /\ field' = p.field /\ pc' = "fields" /\ d' = d
          \/ p.err # "ok" /\ pc' = "refused"
      BY <2>3, <3>1 DEF Parse, OnError, p
    <3>4. d' = d => Sound(d)' /\ d'.err = "ok" BY <3>1, FreshSound DEF Sound
    <3> QED BY <2>1, <2>3, <3>1, <3>2, <3>3, <3>4 DEF Dates
  <2> QED BY <2>2, <2>3
<1>3. ASSUME NEW ftypes, Reading("timestamptz", ftypes)
      PROVE  Sound(d) /\ d.err = "ok" /\ field[i].lex \in Seq(Lexemes)
  BY <1>3, FieldRead DEF Reading, Dates
<1>4. CASE ReadDate
  <2>1. Sound(DateField(d, field[i].lex, setting))
    BY <1>3, <1>4, DateFieldSound DEF ReadDate
  <2> QED BY <1>4, <2>1, ReadKeeps DEF ReadDate
<1>5. CASE ReadTime
  <2>1. Sound(TimeField(d, field[i].lex)) BY <1>3, <1>5, TimeFieldSound DEF ReadTime
  <2> QED BY <1>5, <2>1, ReadKeeps DEF ReadTime
<1>6. CASE ReadZone
  <2>1. Sound(TzField(d, field[i].lex)) BY <1>3, <1>6, TzFieldSound DEF ReadZone
  <2> QED BY <1>6, <2>1, ReadKeeps DEF ReadZone
<1>7. CASE ReadNumber
  <2>1. Sound(NumberField(d, field[i].lex, setting))
    BY <1>3, <1>7, NumberFieldSound DEF ReadNumber
  <2> QED BY <1>7, <2>1, ReadKeeps DEF ReadNumber
<1>8. CASE ReadWord
  <2>1. Sound(WordField(d, field[i].lex, TypeBehind(field, i)))
    BY <1>3, <1>8, WordFieldSound DEF ReadWord
  <2> QED BY <1>8, <2>1, ReadKeeps DEF ReadWord
<1>9. CASE EndTimestamp
  <2> DEFINE e == DateTimeEnd(d)
  <2>1. /\ entry = "timestamptz" /\ pc = "fields" /\ Sound(d) /\ d.err = "ok"
        /\ result = Nothing
    BY <1>9 DEF EndTimestamp, Close, Dates
  <2>2. e.err = "ok" => Decoded(e) BY <2>1, EndDecodes
  <2>3. /\ entry' = entry /\ result' = result /\ d' = e
        /\ pc' = IF e.err = "ok" THEN "decoded" ELSE "refused"
    BY <1>9, <2>1 DEF EndTimestamp, Close, OnError
  <2> HIDE DEF e
  <2>4. e.err = "ok" => Decoded(d)' BY <2>2, <2>3 DEF Decoded
  <2> QED BY <2>1, <2>3, <2>4 DEF Dates
<1>10. CASE ReadTimeOnly \/ EndTime \/ ReadSpan \/ EndSpan
  <2>1. entry \in {"time", "interval"} /\ entry' = entry /\ result' = result
        /\ pc' \in {"fields", "iso", "decoded", "refused"}
    BY <1>10 DEF ReadTimeOnly, EndTime, ReadSpan, EndSpan, Reading, Read, Close, OnError
  <2> QED BY <2>1 DEF Dates
<1>11. CASE TryIso \/ ReadIso
  <2>1. entry' = entry /\ result' = result
        /\ pc \in {"iso", "iso_fields"} /\ pc' \in {"iso_fields", "decoded", "refused"}
    BY <1>11 DEF TryIso, ReadIso
  <2> QED BY <2>1 DEF Dates
<1>12. CASE Store
  <2>1. /\ entry = "timestamptz" /\ pc = "decoded" /\ d.dtype = "DATE"
        /\ entry' = entry /\ d' = d /\ result' = tm2timestamp(d.tm)
        /\ pc' = IF result'.stored THEN "stored" ELSE "refused"
    BY <1>12 DEF Store
  <2>2. DOMAIN d = LocalNames /\ Dated(d.tm)
    <3>1. Decoded(d) BY <2>1 DEF Dates
    <3>2. DATE_M \subseteq d.fmask /\ "YEAR" \in d.fmask BY <2>1, <3>1 DEF Decoded, DATE_M
    <3> QED BY <3>1, <3>2 DEF Decoded, Settled, Dated
  <2>3. ~ result'.stored => result' = Nothing BY <2>1 DEF tm2timestamp, Nothing
  <2>4. Dated(d.tm)' /\ result' = tm2timestamp(d'.tm) BY <2>1, <2>2 DEF Dated
  <2> QED BY <2>1, <2>2, <2>3, <2>4 DEF Dates
<1>13. CASE PlusMonths
  <2>1. /\ entry = "timestamptz" /\ pc = "stored" /\ DOMAIN d = LocalNames
        /\ Dated(d.tm) /\ result = tm2timestamp(d.tm) /\ result.stored
    BY <1>13 DEF PlusMonths, Dates
  <2>2. result.day \in Nat /\ result.sec \in Nat /\ result.sec < SECS_PER_DAY
    BY <2>1, StoredAs
  <2>3. PICK n \in Months :
          d' = [d EXCEPT !.tm = WithTime(OnDay(d.tm, AddMonths(j2date(result.day), n)),
                                         result.sec \div 3600,
                                         (result.sec % 3600) \div 60, result.sec % 60)]
    BY <1>13 DEF PlusMonths
  <2> DEFINE w == WithTime(OnDay(d.tm, AddMonths(j2date(result.day), n)),
                           result.sec \div 3600, (result.sec % 3600) \div 60,
                           result.sec % 60)
  <2>4. Dated(w)
    <3>1. n \in Int BY TextInputAssumption
    <3>2. DOMAIN d.tm = TmParts BY <2>1 DEF Dated
    <3> QED BY <2>2, <3>1, <3>2, MonthsMoved
  <2> HIDE DEF w
  <2>5. d' = [d EXCEPT !.tm = w] BY <2>3 DEF w
  <2>6. DOMAIN d' = LocalNames /\ d'.tm = w BY <2>1, <2>5 DEF LocalNames
  <2>7. /\ entry' = entry /\ result' = tm2timestamp(d'.tm)
        /\ pc' = IF result'.stored THEN "moved" ELSE "refused"
    BY <1>13 DEF PlusMonths
  <2>8. ~ result'.stored => result' = Nothing BY <2>7 DEF tm2timestamp, Nothing
  <2>9. Dated(d.tm)' BY <2>4, <2>6 DEF Dated
  <2> QED BY <2>1, <2>6, <2>7, <2>8, <2>9 DEF Dates
<1> QED BY <1>1, <1>2, <1>4, <1>5, <1>6, <1>7, <1>8, <1>9, <1>10, <1>11, <1>12, <1>13
     DEF Next

\* The inductive invariant: a part of the struct tm is set exactly when the mask
\* of timestamptz_in's decoder notes it, and what is stored is the date decoded.
THEOREM DatesHeld == Spec => []Dates
BY DatesStart, DatesKept, PTL DEF Spec

\* timestamptz_in never takes a part of a date that no field has set
\* (DecodeDateTime's masks; the locals are not initialised).
THEOREM PartsAreKnown == Spec => []PartsKnown
<1>1. Dates => PartsKnown
  <2> SUFFICES ASSUME Dates, entry = "timestamptz", d.err = "ok", pc \in {"fields", "decoded"}
               PROVE  PartsKnown
    BY DEF PartsKnown
  <2>1. \A n \in Int : n # Unset BY FieldDecodingAssumption
  <2>2. CASE pc = "fields"
    <3>1. Known(d.fmask, d.tm) /\ (d.two => "YEAR" \in d.fmask) BY <2>2 DEF Dates, Sound
    <3> QED BY <2>1, <2>2, <3>1 DEF PartsKnown, Known, DATE_M
  <2>3. CASE pc = "decoded"
    <3>1. Settled(d.fmask, d.tm) /\ (d.two => "YEAR" \in d.fmask) BY <2>3 DEF Dates, Decoded
    <3> QED BY <2>1, <2>3, <3>1 DEF PartsKnown, Settled
  <2> QED BY <2>2, <2>3
<1> QED BY <1>1, DatesHeld, PTL

\* Whatever the text, the date that timesub derives from a stored timestamp is
\* that of j2date, on the same day of the week; it is the date written, unless the
\* time runs over the day's end, and the time is the time written, unless it is 24
\* hours or has a 60th minute or second (timestamptz_in.c, tm2timestamp.c,
\* timesub.c, j2date.c).
THEOREM DatesShownAsWritten == Spec => []ShownAsWritten
<1>1. Dates => ShownAsWritten
  <2> SUFFICES ASSUME Dates, result.stored PROVE ShownAsWritten BY DEF ShownAsWritten
  <2>1. pc \in {"stored", "moved"} BY DEF Dates, Nothing
  <2> QED BY <2>1, Shown DEF Dates
<1> QED BY <1>1, DatesHeld, PTL

----------------------------------------------------------------------------
(* The errors a decoder may report *)

\* A decoder's locals carry one of the errors the code defines, or none.
Reported(e) == "err" \in DOMAIN e /\ e.err \in Outcomes

\* The errors of the sub-decoders.
LEMMA PlainErrors ==
  /\ Bad.err \in Outcomes /\ Fail("FIELD_OVERFLOW").err \in Outcomes
  /\ Fail("MD_FIELD_OVERFLOW").err \in Outcomes /\ Fail("TZDISP_OVERFLOW").err \in Outcomes
  /\ \A X, tm, two : Got(X, tm, two).err \in Outcomes
BY DEF Bad, Fail, Got, Outcomes

\* Every change of the locals keeps it.
LEMMA RefusedReported ==
  ASSUME NEW e, NEW err \in Outcomes, Reported(e)
  PROVE  Reported(Refused(e, err))
BY DEF Reported, Refused

\* A sub-decoder's error is passed on.
LEMMA AcceptReported ==
  ASSUME NEW e, NEW r, Reported(e), r.err \in Outcomes
  PROVE  Reported(Accept(e, r))
<1> DEFINE a == [e EXCEPT !.fmask = @ \cup r.tmask, !.tm = r.tm, !.two = r.two]
<1>1. Accept(e, r) \in {Refused(e, r.err), Refused(e, "BAD_FORMAT"), a} BY DEF Accept
<1>2. Reported(a) BY DEF Reported
<1> HIDE DEF a
<1>3. "BAD_FORMAT" \in Outcomes BY DEF Outcomes
<1> QED BY <1>1, <1>2, <1>3, RefusedReported

LEMMA SetsReported ==
  ASSUME NEW e, NEW X, NEW tm, Reported(e)
  PROVE  Reported(Sets(e, X, tm)) /\ Reported(Also(e, X))
BY PlainErrors, AcceptReported DEF Sets, Also

LEMMA ChangeReported ==
  ASSUME NEW e, NEW x \in {"ptype", "dtype", "mer", "textMonth", "isjulian", "bc", "zone",
                           "tz", "tm", "fmask", "two", "type", "before"},
         NEW v, Reported(e)
  PROVE  Reported([e EXCEPT ![x] = v])
BY DEF Reported

\* An offset refused (DecodeTimezone.c).
LEMMA ZoneErrors ==
  ASSUME NEW lex
  PROVE  DecodeTimezone(lex).err \in Outcomes
BY DEF DecodeTimezone, Bad, Fail, Outcomes

\* A run-together number refused (DecodeNumberField.c).
LEMMA NumberFieldErrors ==
  ASSUME NEW n, NEW fmask, NEW tm, NEW two
  PROVE  DecodeNumberField(n, fmask, tm, two).err \in Outcomes
<1> DEFINE t == IF n.point THEN [tm EXCEPT !.fsec = ParseFractionalSecond(n.frac)] ELSE tm
           hi == n.val \div 10000
           mid == (n.val \div 100) % 100
           lo == n.val % 100
           date == ~ n.point /\ ~ DATE_M \subseteq fmask
           time == ~ TIME_M \subseteq fmask
           r == DecodeNumberField(n, fmask, tm, two)
<1>1. r = IF date /\ n.len = 8 THEN Got(DATE_M, WithDate(t, hi, mid, lo), two)
          ELSE IF date /\ n.len = 6 THEN Got(DATE_M, WithDate(t, hi, mid, lo), TRUE)
          ELSE IF time /\ n.len = 6 THEN Got(TIME_M, WithTime(t, hi, mid, lo), two)
          ELSE IF time /\ n.len = 4 THEN Got(TIME_M, WithTime(t, mid, lo, 0), two)
          ELSE Bad
  BY DEF DecodeNumberField
<1> HIDE DEF r, t, hi, mid, lo, date, time
<1>2. r.err \in Outcomes BY <1>1, PlainErrors
<1> QED BY <1>2 DEF r

\* A number refused (DecodeNumber.c).
LEMMA NumberErrors ==
  ASSUME NEW n, NEW textMonth, NEW fmask, NEW order, NEW tm, NEW two
  PROVE  DecodeNumber(n, textMonth, fmask, order, tm, two).err \in Outcomes
BY PlainErrors, NumberFieldErrors DEF DecodeNumber, YearBehind

\* A date's numbers refused.
LEMMA NumbersErrors ==
  ASSUME NEW lex, Len(lex) \in Nat, NEW textMonth, NEW M, NEW order, NEW start,
         start.err \in Outcomes
  PROVE  DateNumbers(lex, textMonth, M, order, start)[Len(lex)].err \in Outcomes
<1> DEFINE F == DateNumbers(lex, textMonth, M, order, start)
           S == {k \in 0..Len(lex) : F[k].err \notin Outcomes}
<1>0. Len(lex) \in Nat OBVIOUS
<1>1. F[0] = start /\ \A k \in 1..Len(lex) :
        F[k] = LexemeRead(lex, textMonth, M, order, k, F[k - 1])
  BY <1>0, NumbersInTurn
<1>2. \A k, r : r.err \in Outcomes =>
        LexemeRead(lex, textMonth, M, order, k, r).err \in Outcomes
  <2> TAKE k, r
  <2> HAVE r.err \in Outcomes
  <2> DEFINE next == DecodeNumber(Number(<<lex[k]>>), textMonth, M \cup r.tmask, order,
                                  r.tm, r.two)
  <2>1. next.err \in Outcomes BY NumberErrors
  <2> HIDE DEF next
  <2>2. NumberAdded(r, M, next).err \in Outcomes BY <2>1, PlainErrors DEF NumberAdded
  <2>3. LexemeRead(lex, textMonth, M, order, k, r) \in {r, NumberAdded(r, M, next)}
    BY DEF LexemeRead, next
  <2> QED BY <2>2, <2>3
<1> HIDE DEF F
<1>3. SUFFICES ASSUME S # {} PROVE FALSE
  BY <1>0 DEF F
<1>4. PICK m \in S : \A k \in S : m <= k
  <2>1. S \subseteq Nat BY <1>0
  <2> HIDE DEF S
  <2> QED BY <1>3, <2>1, LeastNatural
<1>5. m # 0 /\ m \in 1..Len(lex) /\ m - 1 \in 0..Len(lex) BY <1>0, <1>1, <1>4
<1>6. m - 1 \notin S BY <1>0, <1>4, <1>5
<1>7. F[m - 1].err \in Outcomes BY <1>5, <1>6
<1>8. F[m].err \in Outcomes BY <1>1, <1>2, <1>5, <1>7
<1> QED BY <1>4, <1>8

\* A date refused (DecodeDate.c).
LEMMA DateErrors ==
  ASSUME NEW str \in Seq(Lexemes), NEW M, NEW order, NEW tm, NEW two
  PROVE  DecodeDate(str, M, order, tm, two).err \in Outcomes
<1> DEFINE lex   == DateWords(str)
           words == {k \in DOMAIN lex : IsLetters(lex[k])}
           named == words # {}
           month == DecodeSpecial(lex[CHOOSE k \in words : TRUE].w)
           ok    == ~ EndsInSeparators(lex)
                    /\ (named => /\ \A j, k \in words : j = k
                                 /\ month.type = "MONTH" /\ "MONTH" \notin M)
           start == IF named THEN Got({"MONTH"}, [tm EXCEPT !.mon = month.val], two)
                    ELSE Got({}, tm, two)
           last  == DateNumbers(lex, named, M, order, start)[Len(lex)]
           r     == DecodeDate(str, M, order, tm, two)
<1>1. r = IF ~ ok THEN Bad ELSE Complete(last, M) BY DEF DecodeDate
<1>l. Readable(lex) BY WordsOfDate
<1> HIDE DEF lex
<1>2. start.err \in Outcomes BY PlainErrors
<1> HIDE DEF start, named
<1>3. last.err \in Outcomes BY <1>2, <1>l, NumbersErrors DEF Readable
<1> HIDE DEF last, ok, r
<1>4. Complete(last, M).err \in Outcomes BY <1>3, PlainErrors DEF Complete
<1>5. r.err \in Outcomes BY <1>1, <1>4, PlainErrors
<1> QED BY <1>5 DEF r

\* A time refused (DecodeTime.c).
LEMMA TimeErrors ==
  ASSUME NEW lex, NEW tm
  PROVE  DecodeTime(lex, tm).err \in Outcomes
<1>1. \E t : DecodeTime(lex, tm) \in {Bad, Fail("FIELD_OVERFLOW"), Got(TIME_M, t, FALSE)}
  BY DEF DecodeTime
<1> QED BY <1>1, PlainErrors

\* An amount refused (DecodeInterval.c).
LEMMA AmountErrors ==
  ASSUME NEW lex
  PROVE  SpanAmount(lex).err \in Outcomes
<1>1. \E v, h, f : SpanAmount(lex)
        \in {Bad, Fail("FIELD_OVERFLOW"),
             [err |-> "ok", val |-> v, half |-> h, forced |-> f]}
  BY DEF SpanAmount
<1> QED BY <1>1, PlainErrors DEF Outcomes

----------------------------------------------------------------------------
(* The fields of a date or time *)

\* A time with a zone behind it.
LEMMA TimeWithZoneReported ==
  ASSUME NEW e, NEW lex, NEW fmask, Reported(e)
  PROVE  Reported(TimeWithZone(e, lex, fmask))
<1> DEFINE dashes == {k \in DOMAIN lex : lex[k] = Mark("-")}
           cp == CHOOSE k \in dashes : \A j \in dashes : k <= j
           z  == DecodeTimezone(SubSeq(lex, cp, Len(lex)))
           r  == DecodeNumberField(Number(SubSeq(lex, 1, cp - 1)), fmask, e.tm, e.two)
           no == TIME_M \subseteq e.fmask \/ dashes = {}
           w  == [e EXCEPT !.tz = West(z.tz)]
           g  == Got(r.tmask \cup {"TZ"}, r.tm, r.two)
<1>1. TimeWithZone(e, lex, fmask)
        = IF no THEN Refused(e, "BAD_FORMAT") ELSE IF ~ Ok(z) THEN Refused(e, z.err)
          ELSE IF ~ Ok(r) THEN Refused(e, r.err) ELSE Accept(w, g)
  BY DEF TimeWithZone
<1>2. z.err \in Outcomes /\ r.err \in Outcomes BY ZoneErrors, NumberFieldErrors
<1>3. g.err \in Outcomes BY PlainErrors
<1> HIDE DEF z, r, g, no
<1>4. Reported(w) BY ChangeReported
<1> HIDE DEF w
<1>5. Reported(Accept(w, g)) BY <1>3, <1>4, AcceptReported
<1>6. "BAD_FORMAT" \in Outcomes BY DEF Outcomes
<1> QED BY <1>1, <1>2, <1>5, <1>6, RefusedReported

\* A zone's name.
LEMMA NamedZoneReported ==
  ASSUME NEW e, NEW lex, Reported(e)
  PROVE  Reported(NamedZone(e, lex))
<1>1. Reported([e EXCEPT !.zone = pg_tzset(lex)]) BY ChangeReported
<1> QED BY <1>1, SetsReported DEF NamedZone

\* A field that makes no sense.
LEMMA BadReported ==
  ASSUME NEW e, Reported(e)
  PROVE  Reported(Refused(e, "BAD_FORMAT"))
BY RefusedReported DEF Outcomes

\* A field that looks like a date.
LEMMA DateFieldReported ==
  ASSUME NEW e, NEW lex \in Seq(Lexemes), NEW order, Reported(e)
  PROVE  Reported(DateField(e, lex, order))
<1> DEFINE w == [e EXCEPT !.ptype = "none"]
           z == DecodeTimezone(SubSeq(lex, EndAt(lex, 1), Len(lex)))
           j == [e EXCEPT !.isjulian = TRUE, !.ptype = "none", !.tz = West(z.tz)]
           X == DATE_M \cup TIME_M \cup {"TZ"}
           t == OnDay(e.tm, j2date(ValAt(lex, 1)))
<1>1. Reported(w) BY ChangeReported
<1>2. Reported(TimeWithZone(w, lex, e.fmask))
  <2> HIDE DEF w
  <2> QED BY <1>1, TimeWithZoneReported
<1>3. Reported(Accept(e, DecodeDate(lex, e.fmask, order, e.tm, e.two)))
  BY DateErrors, AcceptReported
<1>4. Reported(JulianWithZone(e, lex))
  <2>1. JulianWithZone(e, lex) = IF ~ Ok(z) THEN Refused(e, z.err) ELSE Sets(j, X, t)
    BY DEF JulianWithZone
  <2>2. z.err \in Outcomes BY ZoneErrors
  <2>3. Reported(j) BY DEF Reported
  <2> HIDE DEF z, j, X, t
  <2>4. Reported(Refused(e, z.err)) BY <2>2, RefusedReported
  <2>5. Reported(Sets(j, X, t)) BY <2>3, SetsReported
  <2> QED BY <2>1, <2>4, <2>5
<1>5. Reported(Refused(e, "BAD_FORMAT")) BY BadReported
<1> QED BY <1>2, <1>3, <1>4, <1>5, NamedZoneReported DEF DateField

\* A time, out of range or not.
LEMMA AcceptTimeReported ==
  ASSUME NEW e, NEW r, Reported(e), r.err \in Outcomes
  PROVE  Reported(AcceptTime(e, r))
BY SetsReported, RefusedReported DEF AcceptTime

\* A field that looks like a time, for either decoder.
LEMMA TimeFieldReported ==
  ASSUME NEW e, NEW lex, Reported(e)
  PROVE  Reported(TimeField(e, lex)) /\ Reported(TimeOnlyField(e, lex))
<1> DEFINE w == [e EXCEPT !.ptype = "none"]
           t == DecodeTime(lex, e.tm)
           r == WithinDay(t)
<1>1. TimeField(e, lex) = IF e.ptype \notin {"none", "TIME"} THEN Refused(e, "BAD_FORMAT")
                          ELSE AcceptTime(w, r)
  BY DEF TimeField
<1>2. Reported(w) BY ChangeReported
<1>3. t.err \in Outcomes BY TimeErrors
<1>4. TimeOnlyField(e, lex) = AcceptTime(e, t) BY DEF TimeOnlyField
<1> HIDE DEF w, t
<1>5. r.err \in Outcomes BY <1>3, PlainErrors DEF WithinDay
<1> HIDE DEF r
<1> QED BY <1>1, <1>2, <1>3, <1>4, <1>5, AcceptTimeReported, BadReported

\* A field that looks like an offset.
LEMMA TzFieldReported ==
  ASSUME NEW e, NEW lex, Reported(e)
  PROVE  Reported(TzField(e, lex))
<1> DEFINE z == DecodeTimezone(lex)
           w == [e EXCEPT !.tz = West(z.tz)]
<1>1. TzField(e, lex) = IF Ok(z) THEN Also(w, {"TZ"}) ELSE Refused(e, z.err)
  BY DEF TzField
<1>2. z.err \in Outcomes BY ZoneErrors
<1> HIDE DEF z
<1>3. Reported(w) BY ChangeReported
<1> HIDE DEF w
<1> QED BY <1>1, <1>2, <1>3, SetsReported, RefusedReported

\* A number with a label.
LEMMA LabelledReported ==
  ASSUME NEW e, NEW lex, Reported(e)
  PROVE  Reported(LabelledNumber(e, lex))
<1> DEFINE r == Labelled(Number(lex), e.ptype, e.fmask, e.tm, e.two)
           w == [e EXCEPT !.ptype = "none", !.dtype = "DATE",
                          !.isjulian = @ \/ e.ptype = "JULIAN"]
<1>1. r.err \in Outcomes
  <2>1. \E n : r \in {Bad, DecodeNumberField(n, e.fmask \cup DATE_M, e.tm, e.two)}
               \/ \E X, t : r = Got(X, t, e.two)
    BY DEF Labelled
  <2> QED BY <2>1, PlainErrors, NumberFieldErrors
<1>2. Reported(w) BY DEF Reported
<1>3. LabelledNumber(e, lex) = Accept(w, r) BY DEF LabelledNumber
<1> HIDE DEF r, w
<1> QED BY <1>1, <1>2, <1>3, AcceptReported

\* A field that looks like a number.
LEMMA NumberFieldReported ==
  ASSUME NEW e, NEW lex \in Seq(Lexemes), NEW order, Reported(e)
  PROVE  Reported(NumberField(e, lex, order))
<1> DEFINE n == Number(lex)
           r1 == DecodeDate(lex, e.fmask, order, e.tm, e.two)
           r2 == DecodeNumberField(n, e.fmask, e.tm, e.two)
           r3 == DecodeNumber(n, e.textMonth, e.fmask, order, e.tm, e.two)
<1>1. PlainNumber(e, lex, order) \in {Accept(e, r1), Accept(e, r2), Accept(e, r3)}
  BY DEF PlainNumber
<1>2. r1.err \in Outcomes /\ r2.err \in Outcomes /\ r3.err \in Outcomes
  BY DateErrors, NumberFieldErrors, NumberErrors
<1> HIDE DEF r1, r2, r3
<1>3. Reported(PlainNumber(e, lex, order)) BY <1>1, <1>2, AcceptReported
<1> QED BY <1>3, LabelledReported DEF NumberField

\* The words for instants and days.
LEMMA ReservedReported ==
  ASSUME NEW e, NEW val, Reported(e)
  PROVE  Reported(ReservedWord(e, val)) /\ Reported(ReservedTime(e, val))
<1> DEFINE now == [e EXCEPT !.dtype = "DATE"]
           time == [e EXCEPT !.dtype = "TIME"]
           w1 == [now EXCEPT !.tz = In(SessionZone)]
           w2 == [now EXCEPT !.tz = West(0)]
           w3 == [e EXCEPT !.dtype = val]
           bad == Refused(e, "BAD_FORMAT")
<1>1. \E X, t : ReservedWord(e, val) \in {bad, Sets(w1, X, t), Sets(now, X, t),
                                          Sets(w2, X, t), Also(w3, {"RESERV"})}
  BY DEF ReservedWord
<1>2. \E X, t : ReservedTime(e, val) \in {bad, Sets(time, X, t)}
  BY DEF ReservedTime
<1>3. Reported(now) /\ Reported(time) /\ Reported(w3) BY ChangeReported
<1>4. Reported(w1) /\ Reported(w2)
  <2> HIDE DEF now
  <2> QED BY <1>3, ChangeReported
<1>5. Reported(bad) BY BadReported
<1> HIDE DEF now, time, w1, w2, w3, bad
<1> QED BY <1>1, <1>2, <1>3, <1>4, <1>5, SetsReported

\* Every word, for either decoder.
LEMMA WordReported ==
  ASSUME NEW e, NEW lex, NEW next, Reported(e)
  PROVE  Reported(WordField(e, lex, next)) /\ Reported(TimeWordField(e, lex, next))
<1> DEFINE s == DecodeSpecial(WordOf(lex))
           w1 == [e EXCEPT !.mer = s.val]
           w2 == [e EXCEPT !.bc = (s.val = "BC")]
           w3 == [e EXCEPT !.ptype = s.val]
           w4 == [e EXCEPT !.textMonth = TRUE]
           w5 == [e EXCEPT !.tz.west = @ + s.val * 60]
           w6 == [e EXCEPT !.tz = West(s.val * 60)]
           bad == Refused(e, "BAD_FORMAT")
           zone == NamedZone(e, lex)
<1>1. \E X, Y, Z, t, u :
        WordField(e, lex, next)
          \in {e, ReservedWord(e, s.val), Sets(w4, X, t), Also(w5, Y), Also(w6, Z),
               Also(w1, {"AMPM"}), Also(w2, {"ADBC"}), Sets(e, {"DOW"}, u), Also(w3, {}),
               bad, zone}
  BY DEF WordField, MonthWord, ZoneWord, IsoTime, UnknownWord
<1>2. \E Y, Z :
        TimeWordField(e, lex, next)
          \in {e, ReservedTime(e, s.val), Also(w5, Y), Also(w6, Z),
               Also(w1, {"AMPM"}), Also(w2, {"ADBC"}), Also(w3, {}), bad, zone}
  BY DEF TimeWordField, ZoneWord, IsoTimeOnly, UnknownWord
<1> HIDE DEF s
<1>3. /\ Reported(w1) /\ Reported(w2) /\ Reported(w3) /\ Reported(w4)
      /\ Reported(w5) /\ Reported(w6)
  BY DEF Reported
<1>4. Reported(bad) /\ Reported(zone) BY BadReported, NamedZoneReported
<1>5. Reported(ReservedWord(e, s.val)) /\ Reported(ReservedTime(e, s.val))
  BY ReservedReported
<1> HIDE DEF w1, w2, w3, w4, w5, w6, bad, zone
<1> QED BY <1>1, <1>2, <1>3, <1>4, <1>5, SetsReported

\* A round of DecodeTimeOnly.
LEMMA TimeRoundReported ==
  ASSUME NEW e, NEW fs, NEW k, NEW order, Reported(e), fs[k].lex \in Seq(Lexemes)
  PROVE  Reported(TimeOnlyRound(e, fs, k, order))
<1> DEFINE lex == fs[k].lex
           n == Number(lex)
           M == e.fmask \cup DATE_M
           r1 == DecodeDate(lex, e.fmask, order, e.tm, e.two)
           r2 == DecodeNumberField(n, M, e.tm, e.two)
           r3 == DecodeNumber(n, FALSE, M, order, e.tm, e.two)
           date == DateOrTimeField(e, fs, k, order)
           plain == PlainTime(e, fs, k, order)
<1>1. r1.err \in Outcomes /\ r2.err \in Outcomes /\ r3.err \in Outcomes /\ Bad.err \in Outcomes
  BY DateErrors, NumberFieldErrors, NumberErrors, PlainErrors
<1>2. date \in {Accept(e, r1), TimeWithZone(e, lex, M), NamedZone(e, lex)}
  BY DEF DateOrTimeField
<1>3. plain \in {Accept(e, r1), Accept(e, Bad), Accept(e, r2), Accept(e, r3)}
  BY DEF PlainTime
<1> HIDE DEF r1, r2, r3, date, plain
<1>4. Reported(date)
  BY <1>1, <1>2, AcceptReported, TimeWithZoneReported, NamedZoneReported
<1>5. Reported(plain) BY <1>1, <1>3, AcceptReported
<1>6. \E f, x : TimeOnlyRound(e, fs, k, order)
        \in {date, TimeOnlyField(e, f), TzField(e, f), TimeWordField(e, f, x),
             LabelledNumber(e, f), plain}
  BY DEF TimeOnlyRound, LabelledTime, date, plain
<1> QED BY <1>4, <1>5, <1>6, TimeFieldReported, TzFieldReported, WordReported,
           LabelledReported

\* ValidateDate's errors.
LEMMA ValidatedReported ==
  ASSUME NEW e, Reported(e)
  PROVE  Reported(Validated(e))
<1> DEFINE v == ValidateDate(e.fmask, e.isjulian, e.two, e.bc, e.tm)
           w == [e EXCEPT !.tm = [v.tm EXCEPT !.hour = ApplyMeridiem(e.mer, @)]]
<1>1. v.err \in Outcomes
  <2>1. \A t : DayInMonth(e.fmask, t).err \in Outcomes
    BY PlainErrors DEF DayInMonth, Outcomes
  <2> QED BY <2>1, PlainErrors DEF ValidateDate
<1>2. Validated(e) \in {Refused(e, v.err), Refused(e, "FIELD_OVERFLOW"), w}
  BY DEF Validated, HourOfDay
<1> HIDE DEF v
<1>3. Reported(w) BY DEF Reported
<1>4. "FIELD_OVERFLOW" \in Outcomes BY DEF Outcomes
<1> HIDE DEF w
<1> QED BY <1>1, <1>2, <1>3, <1>4, RefusedReported

\* The ends of the two decoders.
LEMMA EndReported ==
  ASSUME NEW e, Reported(e)
  PROVE  Reported(DateTimeEnd(e)) /\ Reported(TimeEnd(e))
<1> DEFINE t == Validated(e)
<1>1. Reported(t) BY ValidatedReported
<1>2. DateTimeEnd(e) \in {t, FullDate(t)} /\ TimeEnd(e) = FullTime(t)
  BY DEF DateTimeEnd, TimeEnd
<1> HIDE DEF t
<1>3. \E z : FullDate(t) \in {Refused(t, "TIME_ONLY"), Refused(t, "BAD_FORMAT"),
                              [t EXCEPT !.tz = z]}
  BY DEF FullDate
<1>4. \E z : FullTime(t) \in {t, Refused(t, "FIELD_OVERFLOW"), Refused(t, "BAD_FORMAT"),
                              [t EXCEPT !.tz = z]}
  BY DEF FullTime, TimeZone
<1>5. {"TIME_ONLY", "BAD_FORMAT", "FIELD_OVERFLOW"} \subseteq Outcomes BY DEF Outcomes
<1>6. \A z : Reported([t EXCEPT !.tz = z]) BY <1>1 DEF Reported
<1> QED BY <1>1, <1>2, <1>3, <1>4, <1>5, <1>6, RefusedReported

----------------------------------------------------------------------------
(* The fields of an interval *)

\* An interval refused.
LEMMA SpanRefused ==
  ASSUME NEW e, NEW err \in Outcomes, Reported(e)
  PROVE  Reported(RefusedSpan(e, err))
BY DEF Reported, RefusedSpan

\* An interval that makes no sense.
LEMMA SpanBad ==
  ASSUME NEW e, Reported(e)
  PROVE  Reported(RefusedSpan(e, "BAD_FORMAT"))
BY SpanRefused DEF Outcomes

\* A field of an interval accepted.
LEMMA SpanAccepted ==
  ASSUME NEW e, NEW X, NEW tm, Reported(e)
  PROVE  Reported(AcceptSpan(e, X, tm))
<1> DEFINE a == [e EXCEPT !.fmask = @ \cup X, !.tm = tm]
<1>1. AcceptSpan(e, X, tm) \in {RefusedSpan(e, "BAD_FORMAT"), a} BY DEF AcceptSpan
<1>2. Reported(a) BY DEF Reported
<1> HIDE DEF a
<1> QED BY <1>1, <1>2, SpanBad

\* Every field of an interval.
LEMMA SpanFieldReported ==
  ASSUME NEW e, NEW f, Reported(e)
  PROVE  Reported(SpanField(e, f))
<1> DEFINE lex == f.lex
           r == DecodeTime(lex, e.tm)
           n == SpanAmount(lex)
           day == [e EXCEPT !.type = "DAY"]
           bad == RefusedSpan(e, "BAD_FORMAT")
<1>1. r.err \in Outcomes /\ n.err \in Outcomes BY TimeErrors, AmountErrors
<1>2. \A v : Reported([e EXCEPT !.type = v]) BY DEF Reported
<1>3. \A v, w : /\ Reported([e EXCEPT !.type = v, !.before = w])
                /\ Reported([e EXCEPT !.type = v, !.dtype = w])
  BY DEF Reported
<1>4. Reported(day) /\ Reported(bad) BY <1>2, SpanBad
<1>5. Reported(SpanTime(e, lex))
  <2>1. \E X, t : SpanTime(e, lex) \in {AcceptSpan(day, X, t), RefusedSpan(e, r.err)}
    BY DEF SpanTime
  <2> HIDE DEF r, day
  <2> QED BY <1>1, <1>4, <2>1, SpanAccepted, SpanRefused
<1>6. Reported(SpanSignedTime(e, lex))
  <2>1. \E X, t : SpanSignedTime(e, lex) = AcceptSpan(day, X, t) BY DEF SpanSignedTime
  <2> HIDE DEF day
  <2> QED BY <1>4, <2>1, SpanAccepted
<1>7. Reported(SpanNumber(e, lex))
  <2>1. \E v, X, t : SpanNumber(e, lex)
          \in {RefusedSpan(e, n.err), bad, AcceptSpan([e EXCEPT !.type = v], X, t)}
    BY DEF SpanNumber
  <2> HIDE DEF n, bad
  <2> QED BY <1>1, <1>2, <1>4, <2>1, SpanAccepted, SpanRefused
<1>8. Reported(SpanWord(e, lex))
  <2> DEFINE unit(v) == [e EXCEPT !.type = v]
             ago(v) == [e EXCEPT !.type = v, !.before = TRUE]
             word(v) == AcceptSpan([e EXCEPT !.type = "RESERV", !.dtype = v],
                                   DATE_M \cup TIME_M, e.tm)
  <2>1. \E v : SpanWord(e, lex) \in {unit(v), ago(v), word(v), bad} BY DEF SpanWord
  <2>2. \A v : Reported(unit(v)) /\ Reported(ago(v)) BY <1>2, <1>3
  <2>3. \A v : Reported(word(v))
    <3> TAKE v
    <3> DEFINE w == [e EXCEPT !.type = "RESERV", !.dtype = v]
    <3>1. Reported(w) BY <1>3
    <3> HIDE DEF w
    <3> QED BY <3>1, SpanAccepted DEF w
  <2> HIDE DEF bad, unit, ago, word
  <2> QED BY <1>4, <2>1, <2>2, <2>3
<1> QED BY <1>5, <1>6, <1>7, <1>8 DEF SpanField

\* The end of DecodeInterval.
LEMMA SpanEndReported ==
  ASSUME NEW e, NEW fs, NEW style, Reported(e)
  PROVE  Reported(SpanEnd(e, fs, style))
<1>1. \E t : SpanEnd(e, fs, style) \in {RefusedSpan(e, "BAD_FORMAT"), [e EXCEPT !.tm = t]}
  BY DEF SpanEnd
<1>2. \A t : Reported([e EXCEPT !.tm = t]) BY DEF Reported
<1> QED BY <1>1, <1>2, SpanBad

\* While the ISO reader goes on, it has found no error.
GoesOn(e) == {"err", "done"} \subseteq DOMAIN e /\ e.done = FALSE /\ e.err = "ok"
Stops(e) == {"err", "done"} \subseteq DOMAIN e /\ e.done = TRUE /\ e.err \in Outcomes

\* The three ways a round of DecodeISO8601Interval ends.
LEMMA IsoSteps ==
  ASSUME NEW e, GoesOn(e)
  PROVE  /\ Stops(RefusedIso(e)) /\ \A tm : Stops(FinishedIso(e, tm))
         /\ \A tm, p, datepart, havefield : GoesOn(OnIso(e, tm, p, datepart, havefield))
<1>1. Stops(RefusedIso(e)) BY DEF GoesOn, Stops, RefusedIso, Outcomes
<1>2. \A tm : Stops(FinishedIso(e, tm)) BY DEF GoesOn, Stops, FinishedIso, Outcomes
<1>3. \A tm, p, datepart, havefield : GoesOn(OnIso(e, tm, p, datepart, havefield))
  BY DEF GoesOn, OnIso
<1> QED BY <1>1, <1>2, <1>3

\* Every field of an ISO interval.
LEMMA IsoFieldGoesOn ==
  ASSUME NEW e, NEW iso, GoesOn(e)
  PROVE  GoesOn(IsoField(e, iso)) \/ Stops(IsoField(e, iso))
<1> DEFINE Next1(r) == \/ r = RefusedIso(e) \/ \E tm : r = FinishedIso(e, tm)
                       \/ \E tm, p, c, h : r = OnIso(e, tm, p, c, h)
<1>1. \A r : Next1(r) => GoesOn(r) \/ Stops(r) BY IsoSteps
<1>2. \A p : Next1(ExtendedDate(e, iso, p)) BY DEF ExtendedDate
<1>3. \A p : Next1(ExtendedTime(e, iso, p)) BY DEF ExtendedTime
<1> HIDE DEF Next1
<1>4. \A p : Next1(IsoDate(e, iso, p))
  <2>1. \A p : \E tm, q, c, h :
          IsoDate(e, iso, p) \in {RefusedIso(e), FinishedIso(e, tm), OnIso(e, tm, q, c, h),
                                  ExtendedDate(e, iso, p)}
    BY DEF IsoDate
  <2> QED BY <1>2, <2>1 DEF Next1
<1>5. \A p : Next1(IsoTimePart(e, iso, p))
  <2>1. \A p : \E tm, q, c, h :
          IsoTimePart(e, iso, p) \in {RefusedIso(e), FinishedIso(e, tm),
                                      OnIso(e, tm, q, c, h), ExtendedTime(e, iso, p)}
    BY DEF IsoTimePart
  <2> QED BY <1>3, <2>1 DEF Next1
<1>6. Stops([e EXCEPT !.done = TRUE]) BY DEF GoesOn, Stops, Outcomes
<1>7. \E p, tm : IsoField(e, iso)
        \in {[e EXCEPT !.done = TRUE], OnIso(e, tm, p + 1, FALSE, FALSE), RefusedIso(e),
             IsoDate(e, iso, p), IsoTimePart(e, iso, p)}
  BY DEF IsoField
<1>8. \A p : /\ GoesOn(IsoDate(e, iso, p)) \/ Stops(IsoDate(e, iso, p))
             /\ GoesOn(IsoTimePart(e, iso, p)) \/ Stops(IsoTimePart(e, iso, p))
  BY <1>1, <1>4, <1>5
<1>9. Stops(RefusedIso(e)) /\ \A p, tm : GoesOn(OnIso(e, tm, p + 1, FALSE, FALSE))
  BY IsoSteps
<1> DEFINE done == [e EXCEPT !.done = TRUE]
<1> HIDE DEF done
<1> QED BY <1>6, <1>7, <1>8, <1>9 DEF done

----------------------------------------------------------------------------
(* The steps *)

\* The type invariant, and what the steps of the three decoders rely on.
Types ==
  /\ pc \in {"parse", "fields", "iso", "iso_fields", "decoded", "stored", "moved",
             "refused"}
  /\ entry \in {"timestamptz", "time", "interval"}
  /\ Len(field) \in Nat /\ i \in 0..(Len(field) + 1)
  /\ Reported(d)
  /\ pc \in {"parse", "fields", "iso_fields", "decoded", "stored", "moved"} => d.err = "ok"
  /\ pc = "parse" => (IsIso => entry = "interval") /\ (~ IsIso => text \in Seq(Lexemes))
  /\ pc = "fields" /\ entry # "interval" => field \in Seq(FieldSet)
  /\ pc = "iso_fields" => GoesOn(d)

\* Initially.
LEMMA TypesStart == Init => Types
<1> SUFFICES ASSUME Init PROVE Types OBVIOUS
<1>1. pc = "parse" /\ field = <<>> /\ i = 0 BY DEF Init
<1>2. Len(field) = 0 BY <1>1
<1>3. Reported(d) /\ d.err = "ok"
  BY DEF Init, Fresh, FreshInterval, Reported, Outcomes
<1>4. (IsIso => entry = "interval") /\ (~ IsIso => text \in Seq(Lexemes))
  <2>1. CASE entry = "interval" /\ text \in IsoTexts
    BY <2>1, TextInputAssumption DEF IsIso
  <2>2. CASE text \in DateTexts \cup SpanTexts
    <3>1. text \in Seq(Lexemes) /\ text # <<>> BY <2>2, TextInputAssumption
    <3> QED BY <3>1, NotIso DEF IsIso
  <2> QED BY <2>1, <2>2 DEF Init
<1>5. entry \in {"timestamptz", "time", "interval"} BY DEF Init
<1> QED BY <1>1, <1>2, <1>3, <1>4, <1>5 DEF Types

\* A field read keeps it.
LEMMA ReadTyped ==
  ASSUME Types, NEW e, NEW step \in {-1, 1}, NEW name, NEW ftypes,
         Reading(name, ftypes), Read(e, step), Reported(e)
  PROVE  Types'
<1>1. /\ entry' = entry /\ field' = field /\ text' = text /\ d' = e /\ i' = i + step
      /\ pc' = IF e.err = "ok" THEN "fields" ELSE OnError(e.err)
      /\ pc = "fields" /\ Inside(field, i)
  BY DEF Reading, Read
<1>2. i' \in 0..(Len(field) + 1)
  <2>1. Len(field) \in Nat /\ i \in 1..Len(field) BY <1>1 DEF Types, Inside
  <2> QED BY <1>1, <2>1
<1>3. pc' \in {"fields", "iso", "refused"} /\ (pc' = "fields" => d'.err = "ok")
  BY <1>1 DEF OnError
<1>4. Reported(d)' BY <1>1 DEF Reported
<1> QED BY <1>1, <1>2, <1>3, <1>4 DEF Types

\* So does the end of a decoder.
LEMMA CloseTyped ==
  ASSUME Types, NEW e, NEW name, Close(name, e), Reported(e)
  PROVE  Types'
<1>1. /\ entry' = entry /\ field' = field /\ text' = text /\ d' = e /\ i' = i
      /\ pc' = IF e.err = "ok" THEN "decoded" ELSE OnError(e.err)
  BY DEF Close
<1>2. pc' \in {"decoded", "iso", "refused"} /\ (pc' = "decoded" => d'.err = "ok")
  BY <1>1 DEF OnError
<1>3. Reported(d)' BY <1>1 DEF Reported
<1> QED BY <1>1, <1>2, <1>3 DEF Types

\* Every step keeps it.
LEMMA TypesKept == Types /\ [Next]_vars => Types'
<1> SUFFICES ASSUME Types, [Next]_vars PROVE Types' OBVIOUS
<1>0. Reported(d) BY DEF Types
<1>1. CASE UNCHANGED vars
  BY <1>1 DEF Types, vars, IsIso, Reported, GoesOn
<1>2. CASE Parse
  <2> DEFINE p == IF IsIso THEN [err |-> "ok", field |-> <<PField>>] ELSE ParseDateTime(text)
  <2>1. /\ entry' = entry /\ text' = text /\ pc = "parse"
        /\ \/ /\ p.err = "ok" /\ field' = p.field /\ d' = d /\ pc' = "fields"
              /\ i' = IF entry = "interval" THEN Len(p.field) ELSE 1
           \/ /\ p.err # "ok" /\ field' = field /\ i' = i /\ pc' = OnError(p.err)
              /\ d' = [d EXCEPT !.err = p.err]
    BY <1>2 DEF Parse
  <2>2. p.err \in {"ok", "BAD_FORMAT"} /\ Len(p.field) \in Nat
        /\ (~ IsIso /\ p.err = "ok" => p.field \in Seq(FieldSet))
    <3>1. CASE IsIso BY <3>1
    <3>2. CASE ~ IsIso
      <4>1. text \in Seq(Lexemes) BY <2>1, <3>2 DEF Types
      <4> QED BY <3>2, <4>1, Parsed
    <3> QED BY <3>1, <3>2
  <2>3. IsIso => entry = "interval" BY <2>1 DEF Types
  <2> HIDE DEF p
  <2>4. CASE p.err = "ok"
    <3>1. field' = p.field /\ d' = d /\ pc' = "fields" /\ i' \in 0..(Len(field') + 1)
      BY <2>1, <2>2, <2>4
    <3>2. Reported(d)' /\ d'.err = "ok" BY <1>0, <2>1, <3>1 DEF Types, Reported
    <3> QED BY <2>1, <2>2, <2>3, <2>4, <3>1, <3>2 DEF Types
  <2>5. CASE p.err # "ok"
    <3>1. d' = [d EXCEPT !.err = "BAD_FORMAT"] /\ pc' \in {"iso", "refused"}
          /\ field' = field /\ i' = i
      BY <2>1, <2>2, <2>5 DEF OnError
    <3>2. Reported(d)' BY <1>0, <3>1 DEF Reported, Outcomes
    <3> QED BY <2>1, <3>1, <3>2 DEF Types
  <2> QED BY <2>4, <2>5
<1>3. ASSUME NEW name \in {"timestamptz", "time"}, NEW ftypes, Reading(name, ftypes)
      PROVE  field[i].lex \in Seq(Lexemes)
  BY <1>3, FieldRead DEF Reading, Types
<1>4. CASE ReadDate
  <2>1. Reported(DateField(d, field[i].lex, setting))
    BY <1>0, <1>3, <1>4, DateFieldReported DEF ReadDate
  <2> QED BY <1>4, <2>1, ReadTyped DEF ReadDate
<1>5. CASE ReadTime
  <2>1. Reported(TimeField(d, field[i].lex)) BY <1>0, TimeFieldReported
  <2> QED BY <1>5, <2>1, ReadTyped DEF ReadTime
<1>6. CASE ReadZone
  <2>1. Reported(TzField(d, field[i].lex)) BY <1>0, TzFieldReported
  <2> QED BY <1>6, <2>1, ReadTyped DEF ReadZone
<1>7. CASE ReadNumber
  <2>1. Reported(NumberField(d, field[i].lex, setting))
    BY <1>0, <1>3, <1>7, NumberFieldReported DEF ReadNumber
  <2> QED BY <1>7, <2>1, ReadTyped DEF ReadNumber
<1>8. CASE ReadWord
  <2>1. Reported(WordField(d, field[i].lex, TypeBehind(field, i)))
    BY <1>0, WordReported
  <2> QED BY <1>8, <2>1, ReadTyped DEF ReadWord
<1>9. CASE ReadTimeOnly
  <2>1. Reported(TimeOnlyRound(d, field, i, setting))
    BY <1>0, <1>3, <1>9, TimeRoundReported DEF ReadTimeOnly
  <2> QED BY <1>9, <2>1, ReadTyped DEF ReadTimeOnly
<1>10. CASE ReadSpan
  <2>1. Reported(SpanField(d, field[i])) BY <1>0, SpanFieldReported
  <2> QED BY <1>10, <2>1, ReadTyped DEF ReadSpan
<1>11. CASE EndTimestamp
  BY <1>0, <1>11, EndReported, CloseTyped DEF EndTimestamp
<1>12. CASE EndTime
  BY <1>0, <1>12, EndReported, CloseTyped DEF EndTime
<1>13. CASE EndSpan
  BY <1>0, <1>13, SpanEndReported, CloseTyped DEF EndSpan
<1>14. CASE TryIso
  <2>1. /\ entry' = entry /\ text' = text /\ field' = field /\ i' = i
        /\ d' = IF IsIso THEN FreshIso ELSE RefusedIso(FreshIso)
        /\ pc' = IF IsIso THEN "iso_fields" ELSE "refused"
    BY <1>14 DEF TryIso
  <2>2. GoesOn(FreshIso) BY DEF GoesOn, FreshIso
  <2>3. Stops(RefusedIso(FreshIso)) BY <2>2, IsoSteps
  <2>4. Reported(d)' /\ (pc' = "iso_fields" => GoesOn(d)' /\ d'.err = "ok")
    BY <2>1, <2>2, <2>3 DEF GoesOn, Stops, Reported, Outcomes
  <2> QED BY <2>1, <2>4 DEF Types
<1>15. CASE ReadIso
  <2> DEFINE e == IsoField(d, text)
  <2>1. /\ entry' = entry /\ text' = text /\ field' = field /\ i' = i /\ d' = e
        /\ pc = "iso_fields"
        /\ pc' = IF ~ d'.done THEN pc ELSE IF d'.err = "ok" THEN "decoded" ELSE "refused"
    BY <1>15 DEF ReadIso
  <2>2. GoesOn(e) \/ Stops(e)
    <3>1. GoesOn(d) BY <2>1 DEF Types
    <3> QED BY <3>1, IsoFieldGoesOn
  <2> HIDE DEF e
  <2>3. GoesOn(e) => Reported(d)' /\ GoesOn(d)' /\ d'.err = "ok" /\ pc' = "iso_fields"
    BY <2>1 DEF GoesOn, Reported, Outcomes
  <2>4. Stops(e) => /\ Reported(d)' /\ pc' \in {"decoded", "refused"}
                    /\ pc' = "decoded" => d'.err = "ok"
    BY <2>1 DEF Stops, Reported
  <2> QED BY <2>1, <2>2, <2>3, <2>4 DEF Types
<1>16. CASE Store
  <2>1. /\ entry' = entry /\ text' = text /\ field' = field /\ i' = i /\ d' = d
        /\ pc = "decoded" /\ pc' \in {"stored", "refused"}
    BY <1>16 DEF Store
  <2>2. Reported(d)' BY <1>0, <2>1 DEF Reported
  <2> QED BY <2>1, <2>2 DEF Types
<1>17. CASE PlusMonths
  <2>0. PICK n \in Months :
          d' = [d EXCEPT !.tm = WithTime(OnDay(d.tm, AddMonths(j2date(result.day), n)),
                                         result.sec \div 3600,
                                         (result.sec % 3600) \div 60, result.sec % 60)]
    BY <1>17 DEF PlusMonths
  <2> DEFINE t == WithTime(OnDay(d.tm, AddMonths(j2date(result.day), n)),
                           result.sec \div 3600, (result.sec % 3600) \div 60,
                           result.sec % 60)
  <2>1. d' = [d EXCEPT !.tm = t] BY <2>0
  <2> HIDE DEF t
  <2>2. /\ entry' = entry /\ text' = text /\ field' = field /\ i' = i
        /\ pc = "stored" /\ pc' \in {"moved", "refused"}
    BY <1>17 DEF PlusMonths
  <2>3. Reported(d)' /\ d'.err = d.err BY <1>0, <2>1 DEF Reported
  <2> QED BY <2>2, <2>3 DEF Types
<1> QED BY <1>1, <1>2, <1>4, <1>5, <1>6, <1>7, <1>8, <1>9, <1>10, <1>11, <1>12, <1>13,
           <1>14, <1>15, <1>16, <1>17 DEF Next

\* Type correctness: whatever the text, the three inputs end with an outcome of
\* the code's list, the cursor stays within one place of the fields, and a result
\* is stored only by timestamptz_in.
THEOREM TypesHeld == Spec => []TypeOK
<1>1. Spec => []Types BY TypesStart, TypesKept, PTL DEF Spec
<1>2. Types /\ Dates => TypeOK
  BY DEF Types, Dates, TypeOK, Reported, Nothing
<1> QED BY <1>1, <1>2, DatesHeld, PTL

----------------------------------------------------------------------------
(* The two decoders side by side *)

\* The parts of the time noted.
TimeIn(e) == TIME_M \cap e.fmask

\* The same time, part by part.
SameTime(e, f) == TimeIn(e) = TimeIn(f) /\ Time(e.tm) = Time(f.tm)

\* DecodeTimeOnly has read a time where DecodeDateTime has read a date.
Ahead(e, f) == TimeIn(e) = {} /\ TIME_M \subseteq f.fmask

\* "m" was for minutes in DecodeDateTime and for the month in DecodeTimeOnly.
Short(e, f) ==
  {"HOUR", "MINUTE"} \subseteq e.fmask /\ "HOUR" \in f.fmask /\ "MINUTE" \notin f.fmask

SameZone(e, f) ==
  /\ e.zone = f.zone /\ e.tz = f.tz /\ ("TZ" \in e.fmask <=> "TZ" \in f.fmask)
  /\ "TZ" \notin e.fmask => e.zone = NoZone /\ e.tz = West(0)

\* Behind "now", which DecodeTimeOnly leaves for the zone of the session.
SaidNow(e, f) ==
  /\ "TZ" \in e.fmask /\ "TZ" \notin f.fmask
  /\ e.zone = NoZone /\ f.zone = NoZone /\ e.tz = In(SessionZone)

\* The zones are compared when says holds and no "dst" stands before.
SameZones(says, e, f) ==
  says /\ "DTZMOD" \notin e.fmask => SameZone(e, f) \/ SaidNow(e, f)

\* A label waits in both, or in DecodeTimeOnly for a time it has already.
SameLabel(e, f) ==
  \/ e.ptype = f.ptype
  \/ e.ptype = "none" /\ f.ptype = "TIME" /\ TIME_M \subseteq f.fmask

\* The locals e of DecodeDateTime and f of DecodeTimeOnly after the same fields.
Paired(says, e, f) ==
  /\ DOMAIN e = LocalNames /\ DOMAIN f = LocalNames
  /\ DOMAIN e.tm = TmParts /\ DOMAIN f.tm = TmParts
  /\ DATE_M \cap f.fmask \subseteq e.fmask
  /\ e.mer = f.mer /\ SameLabel(e, f)
  /\ \/ SameTime(e, f) /\ SameZones(says, e, f)
     \/ Ahead(e, f)
     \/ Short(e, f)

\* A field was read: it noted the parts X, which are new.
Took(e, e2, X) ==
  /\ DOMAIN e2 = LocalNames /\ DOMAIN e2.tm = TmParts
  /\ X \cap e.fmask = {} /\ e2.fmask = e.fmask \cup X

\* The other locals have stayed.
SameRest(e2, e) ==
  /\ e2.ptype = e.ptype /\ e2.mer = e.mer /\ e2.isjulian = e.isjulian
  /\ e2.zone = e.zone /\ e2.tz = e.tz

\* What a field noted is no time in DecodeDateTime and the whole time in
\* DecodeTimeOnly; is the same of the time; or is minutes there and no time here.
Apart(X, Y) == X \cap TIME_M = {} /\ TIME_M \subseteq Y
Alike(X, Y) == X \cap TIME_M = Y \cap TIME_M
Minutes(e, X, Y) ==
  X \cap TIME_M = {"MINUTE"} /\ Y \cap TIME_M = {} /\ "HOUR" \in e.fmask

LEMMA TimeNames ==
  /\ "HOUR" \in TIME_M /\ "MINUTE" \in TIME_M /\ "TZ" \notin TIME_M
  /\ "DTZMOD" \notin TIME_M /\ TIME_M \cap DATE_M = {}
  /\ "TZ" \notin DATE_M /\ "DTZMOD" \notin DATE_M /\ "DOY" \notin TIME_M
BY DEF TIME_M, ALL_SECS_M, DATE_M

\* The relation is kept by a field that both have taken.
LEMMA PairKept ==
  ASSUME NEW says, NEW e, NEW f, NEW e2, NEW f2, NEW X, NEW Y,
         Paired(says, e, f), Took(e, e2, X), Took(f, f2, Y),
         DATE_M \cap Y \subseteq e.fmask \cup X, e2.mer = f2.mer, SameLabel(e2, f2),
         \/ Apart(X, Y)
         \/ Minutes(e, X, Y)
         \/ /\ Alike(X, Y)
            /\ SameTime(e, f) => Time(e2.tm) = Time(f2.tm)
            /\ SameTime(e, f) /\ SameZones(says, e, f) => SameZones(says, e2, f2)
  PROVE  Paired(says, e2, f2)
<1>1. DATE_M \cap f2.fmask \subseteq e2.fmask BY DEF Paired, Took
<1>2. SUFFICES (SameTime(e2, f2) /\ SameZones(says, e2, f2)) \/ Ahead(e2, f2) \/ Short(e2, f2)
  BY <1>1 DEF Paired, Took
<1>3. CASE Short(e, f)
  <2>1. "HOUR" \in e2.fmask /\ "MINUTE" \in e2.fmask /\ "HOUR" \in f2.fmask
    BY <1>3 DEF Short, Took
  <2>2. "MINUTE" \notin Y
    BY <1>3, TimeNames DEF Short, Took, Apart, Alike, Minutes
  <2> QED BY <1>3, <2>1, <2>2 DEF Short, Took
<1>4. CASE Ahead(e, f)
  <2>1. TIME_M \subseteq f2.fmask BY <1>4 DEF Ahead, Took
  <2>2. Y \cap TIME_M = {} BY <1>4 DEF Ahead, Took
  <2>3. "HOUR" \notin e.fmask BY <1>4, TimeNames DEF Ahead, TimeIn
  <2>4. X \cap TIME_M = {} BY <2>2, <2>3 DEF Apart, Alike, Minutes
  <2> QED BY <1>4, <2>1, <2>4 DEF Ahead, Took, TimeIn
<1>5. CASE SameTime(e, f) /\ SameZones(says, e, f)
  <2>1. CASE Apart(X, Y)
    <3>1. TIME_M \subseteq f2.fmask /\ TimeIn(f) = {}
      BY <2>1 DEF Took, Apart, TimeIn
    <3>2. TimeIn(e2) = {} BY <1>5, <2>1, <3>1 DEF SameTime, TimeIn, Apart, Took
    <3> QED BY <3>1, <3>2 DEF Ahead
  <2>2. CASE Minutes(e, X, Y)
    <3>1. "HOUR" \in f.fmask /\ "MINUTE" \in X /\ "MINUTE" \notin e.fmask /\ "MINUTE" \notin Y
      BY <1>5, <2>2, TimeNames DEF SameTime, TimeIn, Minutes, Took
    <3>2. "MINUTE" \notin f.fmask BY <1>5, <3>1, TimeNames DEF SameTime, TimeIn
    <3> QED BY <2>2, <3>1, <3>2 DEF Short, Took, Minutes
  <2>3. CASE /\ Alike(X, Y) /\ Time(e2.tm) = Time(f2.tm) /\ SameZones(says, e2, f2)
    <3>1. TimeIn(e2) = TimeIn(f2) BY <1>5, <2>3 DEF SameTime, TimeIn, Alike, Took
    <3> QED BY <2>3, <3>1 DEF SameTime
  <2> QED BY <1>5, <2>1, <2>2, <2>3
<1> QED BY <1>3, <1>4, <1>5 DEF Paired

\* A field that says nothing of a zone.
LEMMA ZonesUntouched ==
  ASSUME NEW says, NEW e, NEW f, NEW e2, NEW f2, NEW X, NEW Y,
         SameZones(says, e, f), Took(e, e2, X), Took(f, f2, Y),
         e2.zone = e.zone, e2.tz = e.tz, f2.zone = f.zone, f2.tz = f.tz,
         "TZ" \notin X, "TZ" \notin Y
  PROVE  SameZones(says, e2, f2)
BY DEF SameZones, SameZone, SaidNow, Took

\* A field that gives both the same zone.
LEMMA ZonesTaken ==
  ASSUME NEW says, NEW e, NEW f, NEW e2, NEW f2, NEW X, NEW Y,
         SameZones(says, e, f), Took(e, e2, X), Took(f, f2, Y), "TZ" \in X, "TZ" \in Y,
         SameZone(e, f) => e2.zone = f2.zone /\ e2.tz = f2.tz
  PROVE  SameZones(says, e2, f2)
<1>1. "TZ" \notin e.fmask BY DEF Took
<1>2. SUFFICES ASSUME says, "DTZMOD" \notin e2.fmask PROVE SameZone(e2, f2)
  BY DEF SameZones
<1>3. SameZone(e, f) BY <1>1, <1>2 DEF SameZones, SaidNow, Took
<1> QED BY <1>3 DEF SameZone, Took

\* A sub-decoder's result taken over.
LEMMA AcceptGives ==
  ASSUME NEW e, NEW r, DOMAIN e = LocalNames, Accept(e, r).err = "ok",
         Ok(r) => DOMAIN r.tm = TmParts
  PROVE  /\ Ok(r) /\ Took(e, Accept(e, r), r.tmask) /\ SameRest(Accept(e, r), e)
         /\ Accept(e, r).tm = r.tm
<1>1. Ok(r)
  <2> SUFFICES ASSUME ~ Ok(r) PROVE FALSE OBVIOUS
  <2>1. Accept(e, r).err = r.err BY DEF Accept, Refused, LocalNames
  <2> QED BY <2>1 DEF Ok
<1>2. r.tmask \cap e.fmask = {}
  BY <1>1 DEF Accept, Refused, LocalNames
<1> DEFINE a == [e EXCEPT !.fmask = @ \cup r.tmask, !.tm = r.tm, !.two = r.two]
<1>3. Accept(e, r) = a BY <1>1, <1>2 DEF Accept
<1>4. /\ DOMAIN a = LocalNames /\ a.fmask = e.fmask \cup r.tmask /\ a.tm = r.tm
      /\ SameRest(a, e)
  BY DEF LocalNames, SameRest
<1> HIDE DEF a
<1> QED BY <1>1, <1>2, <1>3, <1>4 DEF Took

\* Parts set by the field itself, or only noted.
LEMMA SetsGives ==
  ASSUME NEW e, NEW X, NEW tm, DOMAIN e = LocalNames, DOMAIN tm = TmParts,
         Sets(e, X, tm).err = "ok"
  PROVE  Took(e, Sets(e, X, tm), X) /\ SameRest(Sets(e, X, tm), e) /\ Sets(e, X, tm).tm = tm
<1> DEFINE r == Got(X, tm, e.two)
<1>1. r.tmask = X /\ r.tm = tm BY DEF Got
<1>2. Sets(e, X, tm) = Accept(e, r) BY DEF Sets
<1> HIDE DEF r
<1> QED BY <1>1, <1>2, AcceptGives

LEMMA AlsoGives ==
  ASSUME NEW e, NEW X, DOMAIN e = LocalNames, DOMAIN e.tm = TmParts, Also(e, X).err = "ok"
  PROVE  Took(e, Also(e, X), X) /\ SameRest(Also(e, X), e) /\ Also(e, X).tm = e.tm
<1>1. Also(e, X) = Sets(e, X, e.tm) BY DEF Also, Sets
<1> QED BY <1>1, SetsGives

----------------------------------------------------------------------------
(* What the sub-decoders do to the time *)

\* The time that a run-together number gives.
TimeRun(n, fsec) ==
  LET f == IF n.point THEN ParseFractionalSecond(n.frac) ELSE fsec
  IN  IF n.len = 6 THEN <<n.val \div 10000, (n.val \div 100) % 100, n.val % 100, f>>
      ELSE <<(n.val \div 100) % 100, n.val % 100, 0, f>>

\* A run-together number is a date or a time.
LEMMA RunTogetherRead ==
  ASSUME NEW n, NEW fmask, NEW tm, NEW two, DOMAIN tm = TmParts,
         NEW r, r = DecodeNumberField(n, fmask, tm, two), Ok(r)
  PROVE  /\ DOMAIN r.tm = TmParts /\ n.len # 0
         /\ \/ r.tmask = DATE_M /\ ~ DATE_M \subseteq fmask
            \/ r.tmask = TIME_M /\ ~ TIME_M \subseteq fmask
               /\ Time(r.tm) = TimeRun(n, tm.fsec)
<1> DEFINE t == IF n.point THEN [tm EXCEPT !.fsec = ParseFractionalSecond(n.frac)] ELSE tm
           hi == n.val \div 10000
           mid == (n.val \div 100) % 100
           lo == n.val % 100
           f == IF n.point THEN ParseFractionalSecond(n.frac) ELSE tm.fsec
           date == ~ n.point /\ ~ DATE_M \subseteq fmask
           time == ~ TIME_M \subseteq fmask
<1>1. r = IF date /\ n.len = 8 THEN Got(DATE_M, WithDate(t, hi, mid, lo), two)
          ELSE IF date /\ n.len = 6 THEN Got(DATE_M, WithDate(t, hi, mid, lo), TRUE)
          ELSE IF time /\ n.len = 6 THEN Got(TIME_M, WithTime(t, hi, mid, lo), two)
          ELSE IF time /\ n.len = 4 THEN Got(TIME_M, WithTime(t, mid, lo, 0), two)
          ELSE Bad
  BY DEF DecodeNumberField
<1>2. DOMAIN t = TmParts /\ t.fsec = f BY DEF TmParts
<1>3. TimeRun(n, tm.fsec) = IF n.len = 6 THEN <<hi, mid, lo, f>> ELSE <<mid, lo, 0, f>>
  BY DEF TimeRun
<1> HIDE DEF t, hi, mid, lo, f
<1>4. \A h, m, s : /\ DOMAIN WithTime(t, h, m, s) = TmParts
                   /\ Time(WithTime(t, h, m, s)) = <<h, m, s, f>>
  BY <1>2 DEF WithTime, Time, TmParts
<1>5. \A y, m, v : DOMAIN WithDate(t, y, m, v) = TmParts
  BY <1>2 DEF WithDate, TmParts
<1> HIDE DEF date, time
<1>6. CASE date /\ n.len # 0 /\ r.tmask = DATE_M /\ \E y, m, v : r.tm = WithDate(t, y, m, v)
  BY <1>5, <1>6 DEF date
<1>7. CASE time /\ n.len = 6 /\ r.tmask = TIME_M /\ r.tm = WithTime(t, hi, mid, lo)
  BY <1>3, <1>4, <1>7 DEF time
<1>8. CASE time /\ n.len = 4 /\ r.tmask = TIME_M /\ r.tm = WithTime(t, mid, lo, 0)
  BY <1>3, <1>4, <1>8 DEF time
<1> QED BY <1>1, <1>6, <1>7, <1>8 DEF Got, Ok, Bad, Fail

\* A time gives each part anew, whatever the time was before.
LEMMA TimeRead ==
  ASSUME NEW lex, NEW tm, NEW tm2, DOMAIN tm = TmParts, DOMAIN tm2 = TmParts,
         NEW r, r = DecodeTime(lex, tm), NEW r2, r2 = DecodeTime(lex, tm2), Ok(r)
  PROVE  /\ r.tmask = TIME_M /\ DOMAIN r.tm = TmParts
         /\ Ok(r2) => r2.tmask = TIME_M /\ DOMAIN r2.tm = TmParts /\ Time(r2.tm) = Time(r.tm)
<1> DEFINE a  == ValAt(lex, 1)
           b  == ValAt(lex, 3)
           p2 == EndAt(lex, 3)
           p3 == EndAt(lex, p2 + 1)
           c  == ValAt(lex, p2 + 1)
           fsec(p) == ParseFractionalSecond(lex[p + 1])
           short == AtEnd(lex, p2)
           mmss  == MarkAt(lex, p2, ".") /\ HasDigits(lex, p2 + 1) /\ AtEnd(lex, p2 + 2)
           long  == MarkAt(lex, p2, ":") /\ AtEnd(lex, p3)
           full  == /\ MarkAt(lex, p2, ":") /\ MarkAt(lex, p3, ".")
                    /\ HasDigits(lex, p3 + 1) /\ AtEnd(lex, p3 + 2)
           t(x) == IF short THEN [WithTime(x, a, b, 0) EXCEPT !.fsec = 0]
                   ELSE IF mmss THEN [WithTime(x, 0, a, b) EXCEPT !.fsec = fsec(p2)]
                   ELSE IF long THEN [WithTime(x, a, b, c) EXCEPT !.fsec = 0]
                   ELSE [WithTime(x, a, b, c) EXCEPT !.fsec = fsec(p3)]
           bad == ~ (MarkAt(lex, 2, ":") /\ (short \/ mmss \/ long \/ full))
           Result(x) == IF bad THEN Bad
                        ELSE IF t(x).min > 59 \/ t(x).sec > 60 THEN Fail("FIELD_OVERFLOW")
                        ELSE Got(TIME_M, t(x), FALSE)
<1>1. r = Result(tm) /\ r2 = Result(tm2)
  BY DEF DecodeTime
<1> HIDE DEF a, b, c, p2, p3, fsec, short, mmss, long, full, bad
<1>2. \A x : DOMAIN x = TmParts =>
        /\ DOMAIN t(x) = TmParts
        /\ Time(t(x)) = IF short THEN <<a, b, 0, 0>> ELSE IF mmss THEN <<0, a, b, fsec(p2)>>
                        ELSE IF long THEN <<a, b, c, 0>> ELSE <<a, b, c, fsec(p3)>>
  BY DEF WithTime, Time, TmParts
<1> HIDE DEF t
<1>3. \A x : Ok(Result(x)) => Result(x).tmask = TIME_M /\ Result(x).tm = t(x)
  BY DEF Ok, Bad, Fail, Got
<1> HIDE DEF Result
<1> QED BY <1>1, <1>2, <1>3

\* Digits read as a number have no point.
LEMMA DigitsRead ==
  ASSUME NEW l, IsDigits(l)
  PROVE  ~ Number(<<l>>).point
<1> DEFINE x == <<l>>
<1>1. Len(x) = 1 /\ x[1] = l OBVIOUS
<1> HIDE DEF x
<1>2. EndAt(x, 1) = 2 BY <1>1 DEF EndAt, HasDigits, Inside
<1>3. ~ MarkAt(x, 2, ".") BY <1>1 DEF MarkAt, Inside
<1>4. ~ Number(x).point BY <1>2, <1>3 DEF Number
<1> QED BY <1>4 DEF x

\* A number of a date that gives no time leaves the time alone.
LEMMA NumberRun ==
  ASSUME NEW n, NEW textMonth, NEW fmask, NEW order, NEW tm, NEW two, DOMAIN tm = TmParts,
         ~ n.point, NEW r, r = DecodeNumber(n, textMonth, fmask, order, tm, two), Ok(r)
  PROVE  /\ DOMAIN r.tm = TmParts
         /\ \/ r.tmask \cap TIME_M = {} /\ Time(r.tm) = Time(tm)
            \/ r.tmask = TIME_M /\ DATE_M \subseteq fmask
               /\ r = DecodeNumberField(n, fmask, tm, two)
<1> DEFINE known == fmask \cap DATE_M
           part  == PartOf(n, textMonth, known, order)
           doy   == Flen(n) = 3 /\ known = {"YEAR"} /\ n.val \in 1..366
           year  == DayWasYear(n, textMonth, known, two)
           f     == DecodeNumberField(n, fmask, tm, two)
<1>1. r = IF n.len = 0 THEN Bad
          ELSE IF doy THEN Got({"DOY", "MONTH", "DAY"}, [tm EXCEPT !.yday = n.val], two)
          ELSE IF known = DATE_M THEN f
          ELSE IF year THEN YearBehind(n, tm)
          ELSE IF part = "none" THEN Bad
          ELSE Got({part}, SetPart(tm, part, n.val),
                   IF part = "YEAR" THEN Flen(n) <= 2 ELSE two)
  BY DEF DecodeNumber
<1>2. part \in {"YEAR", "MONTH", "DAY", "none"} BY DEF PartOf
<1>3. \A x : part # "none" => /\ DOMAIN SetPart(tm, part, x) = TmParts
                              /\ Time(SetPart(tm, part, x)) = Time(tm)
  BY DEF SetPart, Time, TmParts
<1>4. /\ DOMAIN [tm EXCEPT !.yday = n.val] = TmParts
      /\ Time([tm EXCEPT !.yday = n.val]) = Time(tm)
  BY DEF Time, TmParts
<1>5. /\ DOMAIN YearBehind(n, tm).tm = TmParts /\ Time(YearBehind(n, tm).tm) = Time(tm)
      /\ YearBehind(n, tm).tmask = {"DAY"}
  BY DEF YearBehind, Got, Time, TmParts
<1>6. {"DOY", "MONTH", "DAY"} \cap TIME_M = {} /\ {"DAY"} \cap TIME_M = {}
      /\ (part # "none" => {part} \cap TIME_M = {})
  BY <1>2 DEF TIME_M, ALL_SECS_M
<1>7. CASE known = DATE_M /\ r = f
  <2>1. DATE_M \subseteq fmask BY <1>7
  <2>2. DOMAIN r.tm = TmParts /\ r.tmask = TIME_M BY <1>7, <2>1, RunTogetherRead
  <2> QED BY <1>7, <2>1, <2>2
<1>8. CASE r.tmask = {"DOY", "MONTH", "DAY"} /\ r.tm = [tm EXCEPT !.yday = n.val]
  BY <1>4, <1>6, <1>8
<1>9. CASE r = YearBehind(n, tm) BY <1>5, <1>6, <1>9
<1>10. CASE part # "none" /\ r.tmask = {part} /\ r.tm = SetPart(tm, part, n.val)
  BY <1>3, <1>6, <1>10
<1> HIDE DEF known, part, doy, year, f
<1> QED BY <1>1, <1>7, <1>8, <1>9, <1>10 DEF Got, Ok, Bad, Fail

\* What has been found of a date has left the time t alone, unless it holds a time.
Untimed(r, t) ==
  Ok(r) => DOMAIN r.tm = TmParts /\ (r.tmask \cap TIME_M = {} => Time(r.tm) = t)

\* One more number ...
LEMMA LexemeUntimed ==
  ASSUME NEW lex, NEW textMonth, NEW fmask, NEW order, NEW r, NEW t, NEW k, Untimed(r, t)
  PROVE  Untimed(LexemeRead(lex, textMonth, fmask, order, k, r), t)
<1> DEFINE n == Number(<<lex[k]>>)
           next == DecodeNumber(n, textMonth, fmask \cup r.tmask, order, r.tm, r.two)
           s == NumberAdded(r, fmask, next)
<1>1. LexemeRead(lex, textMonth, fmask, order, k, r)
        = IF ~ Ok(r) \/ ~ IsDigits(lex[k]) THEN r ELSE s
  BY DEF LexemeRead
<1>2. IsDigits(lex[k]) => ~ n.point BY DigitsRead
<1> HIDE DEF n
<1>3. Ok(r) /\ IsDigits(lex[k]) /\ Ok(next) =>
        DOMAIN next.tm = TmParts
        /\ ((next.tmask \cap TIME_M = {} /\ Time(next.tm) = Time(r.tm)) \/ next.tmask = TIME_M)
  BY <1>2, NumberRun DEF Untimed
<1> HIDE DEF next
<1>4. Ok(s) => Ok(next) /\ s.tmask = r.tmask \cup next.tmask /\ s.tm = next.tm
  BY DEF NumberAdded, Ok, Bad, Fail, Got
<1> HIDE DEF s
<1>5. Ok(r) /\ IsDigits(lex[k]) => Untimed(s, t)
  <2> SUFFICES ASSUME Ok(r), IsDigits(lex[k]), Ok(s) PROVE Untimed(s, t) BY DEF Untimed
  <2>1. DOMAIN s.tm = TmParts BY <1>3, <1>4
  <2>2. ASSUME s.tmask \cap TIME_M = {} PROVE Time(s.tm) = t
    <3>1. r.tmask \cap TIME_M = {} /\ next.tmask # TIME_M BY <1>4, <2>2, TimeNames
    <3> QED BY <1>3, <1>4, <3>1 DEF Untimed
  <2> QED BY <2>1, <2>2 DEF Untimed
<1> QED BY <1>1, <1>5

\* ... and all the numbers of a date.
LEMMA NumbersUntimed ==
  ASSUME NEW lex, Len(lex) \in Nat, NEW textMonth, NEW M, NEW order, NEW start, NEW t,
         Untimed(start, t)
  PROVE  Untimed(DateNumbers(lex, textMonth, M, order, start)[Len(lex)], t)
<1> DEFINE F == DateNumbers(lex, textMonth, M, order, start)
           S == {k \in 0..Len(lex) : ~ Untimed(F[k], t)}
<1>1. F[0] = start /\ \A k \in 1..Len(lex) :
        F[k] = LexemeRead(lex, textMonth, M, order, k, F[k - 1])
  BY NumbersInTurn
<1> HIDE DEF F
<1>2. SUFFICES ASSUME S # {} PROVE FALSE
  BY DEF F
<1>3. PICK m \in S : \A k \in S : m <= k
  <2>1. S \subseteq Nat OBVIOUS
  <2> HIDE DEF S
  <2> QED BY <1>2, <2>1, LeastNatural
<1>4. m # 0 /\ m \in 1..Len(lex) /\ m - 1 \in 0..Len(lex)
  BY <1>1, <1>3
<1>5. Untimed(F[m - 1], t)
  <2>1. m - 1 \notin S BY <1>3, <1>4
  <2> QED BY <1>4, <2>1
<1>6. Untimed(F[m], t) BY <1>1, <1>4, <1>5, LexemeUntimed
<1> QED BY <1>3, <1>6

\* A date holds no time and leaves it alone; if it begins with letters, they name a
\* month.
LEMMA DateUntimed ==
  ASSUME NEW str \in Seq(Lexemes), NEW M, NEW order, NEW tm, NEW two, DOMAIN tm = TmParts,
         NEW r, r = DecodeDate(str, M, order, tm, two), Ok(r)
  PROVE  /\ DOMAIN r.tm = TmParts /\ r.tmask \cap TIME_M = {} /\ Time(r.tm) = Time(tm)
         /\ str # <<>> /\ IsLetters(str[1]) => DecodeSpecial(str[1].w).type = "MONTH"
<1> DEFINE lex   == DateWords(str)
           words == {k \in DOMAIN lex : IsLetters(lex[k])}
           named == words # {}
           month == DecodeSpecial(lex[CHOOSE k \in words : TRUE].w)
           ok    == ~ EndsInSeparators(lex)
                    /\ (named => /\ \A j, k \in words : j = k
                                 /\ month.type = "MONTH" /\ "MONTH" \notin M)
           start == IF named THEN Got({"MONTH"}, [tm EXCEPT !.mon = month.val], two)
                    ELSE Got({}, tm, two)
           last  == DateNumbers(lex, named, M, order, start)[Len(lex)]
<1>1. r = IF ~ ok THEN Bad ELSE Complete(last, M)
  BY DEF DecodeDate
<1>2. ok
  <2> HIDE DEF ok
  <2> QED BY <1>1 DEF Ok, Bad, Fail
<1>3. Len(lex) \in Nat /\ DOMAIN lex = 1..Len(lex) /\ (str # <<>> => lex[1] = str[1])
      /\ Len(lex) = Len(str)
  BY WordsOfDate DEF Readable
<1> HIDE DEF lex
<1>4. str # <<>> /\ IsLetters(str[1]) => DecodeSpecial(str[1].w).type = "MONTH"
  <2> SUFFICES ASSUME str # <<>>, IsLetters(str[1])
               PROVE  DecodeSpecial(str[1].w).type = "MONTH"
    OBVIOUS
  <2>0. Len(lex) # 0 BY <1>3, EmptySeq
  <2>1. 1 \in words BY <1>3, <2>0
  <2>2. (CHOOSE k \in words : TRUE) \in words BY <2>1
  <2>3. (CHOOSE k \in words : TRUE) = 1 BY <1>2, <2>1, <2>2
  <2> QED BY <1>2, <1>3, <2>1, <2>3
<1>5. Untimed(start, Time(tm))
  <2>1. \A v : DOMAIN [tm EXCEPT !.mon = v] = TmParts /\ Time([tm EXCEPT !.mon = v]) = Time(tm)
    BY DEF Time, TmParts
  <2> HIDE DEF named, month
  <2> QED BY <2>1 DEF Untimed, Got
<1> HIDE DEF start, named
<1>6. Untimed(last, Time(tm)) BY <1>3, <1>5, NumbersUntimed
<1> HIDE DEF last, ok
<1>7. r = last /\ Ok(last) /\ (M \cup last.tmask) \ {"DOY", "TZ"} = DATE_M
  BY <1>1, <1>2 DEF Complete, Ok, Bad, Fail
<1>8. last.tmask \cap TIME_M = {}
  BY <1>7, TimeNames
<1> QED BY <1>4, <1>6, <1>7, <1>8 DEF Untimed

----------------------------------------------------------------------------
(* The fields *)

\* A field that looks like a time.
LEMMA TimePaired ==
  ASSUME NEW says, NEW e, NEW f, NEW lex, Paired(says, e, f),
         NEW e2, e2 = TimeField(e, lex), e2.err = "ok",
         NEW f2, f2 = TimeOnlyField(f, lex), f2.err = "ok"
  PROVE  Paired(says, e2, f2)
<1> DEFINE w == [e EXCEPT !.ptype = "none"]
           t == DecodeTime(lex, e.tm)
           u == DecodeTime(lex, f.tm)
<1>1. DOMAIN e = LocalNames /\ DOMAIN f = LocalNames /\ DOMAIN e.tm = TmParts
      /\ DOMAIN f.tm = TmParts
  BY DEF Paired
<1>2. e.ptype \in {"none", "TIME"} /\ e2 = AcceptTime(w, WithinDay(t))
  BY <1>1 DEF TimeField, Refused, LocalNames
<1>3. DOMAIN w = LocalNames /\ w.ptype = "none" /\ w.mer = e.mer /\ w.zone = e.zone
      /\ w.tz = e.tz /\ w.fmask = e.fmask /\ w.isjulian = e.isjulian
  BY <1>1 DEF LocalNames
<1> HIDE DEF w
<1>4. \A x, r : DOMAIN x = LocalNames /\ AcceptTime(x, r).err = "ok" =>
        Ok(r) /\ AcceptTime(x, r) = Sets(x, r.tmask, r.tm)
  BY DEF AcceptTime, Refused, Ok, LocalNames
<1>5. Ok(t) /\ e2 = Sets(w, t.tmask, t.tm)
  BY <1>2, <1>3, <1>4 DEF WithinDay, Ok, Fail
<1>6. Ok(u) /\ f2 = Sets(f, u.tmask, u.tm) BY <1>1, <1>4 DEF TimeOnlyField
<1>7. /\ t.tmask = TIME_M /\ u.tmask = TIME_M /\ DOMAIN t.tm = TmParts
      /\ DOMAIN u.tm = TmParts /\ Time(t.tm) = Time(u.tm)
  BY <1>1, <1>5, <1>6, TimeRead
<1> HIDE DEF t, u
<1>8. Took(w, e2, TIME_M) /\ SameRest(e2, w) /\ e2.tm = t.tm
  BY <1>3, <1>5, <1>7, SetsGives
<1>9. Took(f, f2, TIME_M) /\ SameRest(f2, f) /\ f2.tm = u.tm
  BY <1>1, <1>6, <1>7, SetsGives
<1>10. Took(e, e2, TIME_M) BY <1>3, <1>8 DEF Took
<1>11. SameLabel(e2, f2)
  BY <1>2, <1>3, <1>8, <1>9 DEF SameRest, SameLabel, Paired, Took
<1>12. SameZones(says, e, f) => SameZones(says, e2, f2)
  BY <1>3, <1>8, <1>9, <1>10, TimeNames, ZonesUntouched DEF SameRest
<1>13. e2.mer = f2.mer /\ Alike(TIME_M, TIME_M) /\ DATE_M \cap TIME_M \subseteq e.fmask
  BY <1>3, <1>8, <1>9, TimeNames DEF SameRest, Paired, Alike
<1> QED BY <1>7, <1>8, <1>9, <1>10, <1>11, <1>12, <1>13, PairKept

\* The locals v and w, made of e and f without a change to the parts found.
Unfound(v, e, w, f, X) ==
  /\ DOMAIN v = LocalNames /\ v.fmask = e.fmask /\ v.tm = e.tm
  /\ DOMAIN w = LocalNames /\ w.fmask = f.fmask /\ w.tm = f.tm
  /\ v.mer = w.mer /\ SameLabel(v, w)
  /\ \/ "DTZMOD" \in X
     \/ "TZ" \in X /\ (SameZone(e, f) => v.zone = w.zone /\ v.tz = w.tz)
     \/ "TZ" \notin X /\ v.zone = e.zone /\ v.tz = e.tz /\ w.zone = f.zone /\ w.tz = f.tz

\* A field that changes no part of the struct tm.
LEMMA AlsoPaired ==
  ASSUME NEW says, NEW e, NEW f, Paired(says, e, f), NEW v, NEW w, NEW X,
         Unfound(v, e, w, f, X), X \cap TIME_M = {}, X \cap DATE_M = {},
         Also(v, X).err = "ok", Also(w, X).err = "ok"
  PROVE  Paired(says, Also(v, X), Also(w, X))
<1> DEFINE e2 == Also(v, X)
           f2 == Also(w, X)
<1>1. DOMAIN v.tm = TmParts /\ DOMAIN w.tm = TmParts BY DEF Paired, Unfound
<1>2. Took(v, e2, X) /\ SameRest(e2, v) /\ e2.tm = v.tm
  BY <1>1, AlsoGives DEF Unfound
<1>3. Took(w, f2, X) /\ SameRest(f2, w) /\ f2.tm = w.tm
  BY <1>1, AlsoGives DEF Unfound
<1> HIDE DEF e2, f2
<1>4. Took(e, e2, X) /\ Took(f, f2, X) BY <1>2, <1>3 DEF Took, Unfound
<1>5. SameLabel(e2, f2) BY <1>2, <1>3 DEF SameRest, SameLabel, Unfound, Took
<1>6. SameZones(says, e, f) => SameZones(says, e2, f2)
  <2>1. CASE "DTZMOD" \in X BY <1>4, <2>1 DEF SameZones, Took
  <2>2. CASE "TZ" \in X /\ (SameZone(e, f) => v.zone = w.zone /\ v.tz = w.tz)
    BY <1>2, <1>3, <1>4, <2>2, ZonesTaken DEF SameRest
  <2>3. CASE /\ "TZ" \notin X /\ v.zone = e.zone /\ v.tz = e.tz
             /\ w.zone = f.zone /\ w.tz = f.tz
    BY <1>2, <1>3, <1>4, <2>3, ZonesUntouched DEF SameRest
  <2> QED BY <2>1, <2>2, <2>3 DEF Unfound
<1>7. e2.mer = f2.mer /\ Alike(X, X) /\ DATE_M \cap X \subseteq e.fmask
  BY <1>2, <1>3 DEF SameRest, Unfound, Alike
<1>8. SameTime(e, f) => Time(e2.tm) = Time(f2.tm) BY <1>2, <1>3 DEF SameTime, Unfound
<1>9. Paired(says, e2, f2) BY <1>4, <1>5, <1>6, <1>7, <1>8, PairKept
<1> QED BY <1>9 DEF e2, f2

\* A field that looks like a zone's offset.
LEMMA TzPaired ==
  ASSUME NEW says, NEW e, NEW f, NEW lex, Paired(says, e, f),
         NEW e2, e2 = TzField(e, lex), e2.err = "ok",
         NEW f2, f2 = TzField(f, lex), f2.err = "ok"
  PROVE  Paired(says, e2, f2)
<1> DEFINE z == DecodeTimezone(lex)
           v == [e EXCEPT !.tz = West(z.tz)]
           w == [f EXCEPT !.tz = West(z.tz)]
<1>1. DOMAIN e = LocalNames /\ DOMAIN f = LocalNames /\ DOMAIN e.tm = TmParts
      /\ DOMAIN f.tm = TmParts
  BY DEF Paired
<1>2. \A x : DOMAIN x = LocalNames /\ TzField(x, lex).err = "ok" =>
        TzField(x, lex) = Also([x EXCEPT !.tz = West(z.tz)], {"TZ"})
  BY DEF TzField, Refused, Ok, LocalNames
<1>3. e2 = Also(v, {"TZ"}) /\ f2 = Also(w, {"TZ"}) BY <1>1, <1>2
<1>4. Unfound(v, e, w, f, {"TZ"})
  BY <1>1 DEF Unfound, Paired, SameLabel, SameZone, LocalNames
<1> HIDE DEF v, w, z
<1>5. {"TZ"} \cap TIME_M = {} /\ {"TZ"} \cap DATE_M = {} BY TimeNames
<1> QED BY <1>3, <1>4, <1>5, AlsoPaired

\* A field that is a zone's name.
LEMMA NamedZonePaired ==
  ASSUME NEW says, NEW e, NEW f, NEW lex, Paired(says, e, f),
         NEW e2, e2 = NamedZone(e, lex), e2.err = "ok",
         NEW f2, f2 = NamedZone(f, lex), f2.err = "ok"
  PROVE  Paired(says, e2, f2)
<1> DEFINE v == [e EXCEPT !.zone = pg_tzset(lex)]
           w == [f EXCEPT !.zone = pg_tzset(lex)]
<1>1. DOMAIN e = LocalNames /\ DOMAIN f = LocalNames /\ DOMAIN e.tm = TmParts
      /\ DOMAIN f.tm = TmParts
  BY DEF Paired
<1>2. e2 = Also(v, {"TZ"}) /\ f2 = Also(w, {"TZ"}) BY DEF NamedZone
<1>3. Unfound(v, e, w, f, {"TZ"})
  BY <1>1 DEF Unfound, Paired, SameLabel, SameZone, LocalNames
<1> HIDE DEF v, w
<1>4. {"TZ"} \cap TIME_M = {} /\ {"TZ"} \cap DATE_M = {} BY TimeNames
<1> QED BY <1>2, <1>3, <1>4, AlsoPaired

\* The zone and the number in front of it, parted by the first dash.
Dashes(lex) == {k \in DOMAIN lex : lex[k] = Mark("-")}
FirstDash(lex) == CHOOSE k \in Dashes(lex) : \A j \in Dashes(lex) : k <= j
ZoneBehind(lex) == DecodeTimezone(SubSeq(lex, FirstDash(lex), Len(lex)))
NumberBefore(lex) == Number(SubSeq(lex, 1, FirstDash(lex) - 1))

\* What a run-together time with a zone gives.
TimeAndZone(e, e2, r, lex) ==
  /\ Ok(r) /\ Dashes(lex) # {} /\ ~ TIME_M \subseteq e.fmask
  /\ Took(e, e2, r.tmask \cup {"TZ"}) /\ e2.tm = r.tm
  /\ e2.tz = West(ZoneBehind(lex).tz) /\ e2.zone = e.zone /\ e2.ptype = e.ptype
  /\ e2.mer = e.mer /\ e2.isjulian = e.isjulian

LEMMA TimeWithZoneGives ==
  ASSUME NEW e, NEW lex, NEW fmask, DOMAIN e = LocalNames, DOMAIN e.tm = TmParts,
         NEW r, r = DecodeNumberField(NumberBefore(lex), fmask, e.tm, e.two),
         NEW e2, e2 = TimeWithZone(e, lex, fmask), e2.err = "ok"
  PROVE  TimeAndZone(e, e2, r, lex)
<1> DEFINE z  == ZoneBehind(lex)
           no == TIME_M \subseteq e.fmask \/ Dashes(lex) = {}
           w  == [e EXCEPT !.tz = West(z.tz)]
           g  == Got(r.tmask \cup {"TZ"}, r.tm, r.two)
<1>1. e2 = IF no THEN Refused(e, "BAD_FORMAT") ELSE IF ~ Ok(z) THEN Refused(e, z.err)
           ELSE IF ~ Ok(r) THEN Refused(e, r.err) ELSE Accept(w, g)
  BY DEF TimeWithZone, ZoneBehind, NumberBefore, FirstDash, Dashes
<1>2. \A err : Refused(e, err).err = err BY DEF Refused, LocalNames
<1>3. /\ DOMAIN w = LocalNames /\ w.fmask = e.fmask /\ w.zone = e.zone /\ w.tz = West(z.tz)
      /\ w.ptype = e.ptype /\ w.mer = e.mer /\ w.isjulian = e.isjulian
  BY DEF LocalNames
<1>4. Ok(r) => DOMAIN r.tm = TmParts BY RunTogetherRead
<1>5. g.tmask = r.tmask \cup {"TZ"} /\ g.tm = r.tm BY DEF Got
<1> HIDE DEF z, w, g
<1>6. ~ no /\ Ok(r) /\ e2 = Accept(w, g)
  BY <1>1, <1>2 DEF Ok
<1>7. Took(w, e2, g.tmask) /\ SameRest(e2, w) /\ e2.tm = g.tm
  <2>1. DOMAIN g.tm = TmParts BY <1>4, <1>5, <1>6
  <2>2. Accept(w, g).err = "ok" BY <1>6
  <2>3. Took(w, Accept(w, g), g.tmask) /\ SameRest(Accept(w, g), w) /\ Accept(w, g).tm = g.tm
    BY <1>3, <2>1, <2>2, AcceptGives
  <2> QED BY <1>6, <2>3
<1>8. Took(e, e2, r.tmask \cup {"TZ"}) BY <1>3, <1>5, <1>7 DEF Took
<1> QED BY <1>3, <1>5, <1>6, <1>7, <1>8 DEF SameRest, z, TimeAndZone

\* A run-together time with a zone, where DecodeTimeOnly takes it for a time only.
LEMMA TimeWithZonePaired ==
  ASSUME NEW says, NEW e, NEW f, NEW lex, Paired(says, e, f),
         NEW v, v = [e EXCEPT !.ptype = "none"], e.ptype \in {"none", "TIME"},
         NEW e2, e2 = TimeWithZone(v, lex, e.fmask), e2.err = "ok",
         NEW f2, f2 = TimeWithZone(f, lex, f.fmask \cup DATE_M), f2.err = "ok"
  PROVE  Paired(says, e2, f2)
<1> DEFINE z  == ZoneBehind(lex)
           n  == NumberBefore(lex)
           r  == DecodeNumberField(n, e.fmask, v.tm, v.two)
           s  == DecodeNumberField(n, f.fmask \cup DATE_M, f.tm, f.two)
           X  == r.tmask \cup {"TZ"}
           Y  == s.tmask \cup {"TZ"}
<1>1. DOMAIN e = LocalNames /\ DOMAIN f = LocalNames /\ DOMAIN e.tm = TmParts
      /\ DOMAIN f.tm = TmParts
  BY DEF Paired
<1>2. /\ DOMAIN v = LocalNames /\ v.tm = e.tm /\ v.fmask = e.fmask /\ v.zone = e.zone
      /\ v.mer = e.mer /\ v.isjulian = e.isjulian /\ v.ptype = "none"
  BY <1>1 DEF LocalNames
<1>3. /\ Ok(r) /\ Took(v, e2, X) /\ e2.tm = r.tm /\ e2.tz = West(z.tz)
      /\ e2.zone = v.zone /\ e2.ptype = v.ptype /\ e2.mer = v.mer /\ e2.isjulian = v.isjulian
  <2>1. TimeAndZone(v, e2, r, lex) BY <1>1, <1>2, TimeWithZoneGives
  <2> QED BY <2>1 DEF TimeAndZone
<1>4. /\ Ok(s) /\ Took(f, f2, Y) /\ f2.tm = s.tm /\ f2.tz = West(z.tz)
      /\ f2.zone = f.zone /\ f2.ptype = f.ptype /\ f2.mer = f.mer
      /\ ~ TIME_M \subseteq f.fmask
  <2>1. TimeAndZone(f, f2, s, lex) BY <1>1, TimeWithZoneGives
  <2> QED BY <2>1 DEF TimeAndZone
<1> HIDE DEF z, n
<1>5. \/ r.tmask = DATE_M
      \/ r.tmask = TIME_M /\ Time(r.tm) = TimeRun(n, e.tm.fsec)
  BY <1>1, <1>2, <1>3, RunTogetherRead
<1>6. s.tmask = TIME_M /\ Time(s.tm) = TimeRun(n, f.tm.fsec)
  <2>1. DATE_M \subseteq f.fmask \cup DATE_M OBVIOUS
  <2> QED BY <1>1, <1>4, <2>1, RunTogetherRead
<1> HIDE DEF r, s
<1>7. Took(e, e2, X) BY <1>2, <1>3 DEF Took
<1>8. SameLabel(e2, f2)
  <2>1. TIME_M \subseteq f2.fmask
    <3>1. TIME_M \subseteq Y BY <1>6
    <3> HIDE DEF Y
    <3> QED BY <1>4, <3>1 DEF Took
  <2>2. e.ptype = f.ptype \/ (e.ptype = "none" /\ TIME_M \subseteq f.fmask)
    BY DEF Paired, SameLabel
  <2>3. f2.ptype \in {"none", "TIME"} BY <1>4, <2>2
  <2>4. e2.ptype = "none" BY <1>2, <1>3
  <2> QED BY <2>1, <2>3, <2>4 DEF SameLabel
<1>9. SameZones(says, e, f) => SameZones(says, e2, f2)
  <2>1. SameZone(e, f) => e2.zone = f2.zone /\ e2.tz = f2.tz
    BY <1>2, <1>3, <1>4 DEF SameZone
  <2>2. "TZ" \in X /\ "TZ" \in Y OBVIOUS
  <2> HIDE DEF X, Y
  <2> QED BY <1>4, <1>7, <2>1, <2>2, ZonesTaken
<1>10. e2.mer = f2.mer /\ DATE_M \cap Y \subseteq e.fmask \cup X
  BY <1>2, <1>3, <1>4, <1>6, TimeNames DEF Paired
<1>11. CASE r.tmask = DATE_M
  <2>1. Apart(X, Y) BY <1>6, <1>11, TimeNames DEF Apart
  <2> HIDE DEF X, Y
  <2> QED BY <1>2, <1>3, <1>4, <1>7, <1>8, <1>10, <2>1, PairKept
<1>12. CASE r.tmask = TIME_M /\ Time(r.tm) = TimeRun(n, e.tm.fsec)
  <2>1. Alike(X, Y) BY <1>6, <1>12, TimeNames DEF Alike
  <2>2. SameTime(e, f) => Time(e2.tm) = Time(f2.tm)
    <3>1. Time(e.tm) = Time(f.tm) => e.tm.fsec = f.tm.fsec BY DEF Time
    <3> QED BY <1>3, <1>4, <1>6, <1>12, <3>1 DEF SameTime
  <2> HIDE DEF X, Y
  <2> QED BY <1>2, <1>3, <1>4, <1>7, <1>8, <1>9, <1>10, <2>1, <2>2, PairKept
<1> QED BY <1>5, <1>11, <1>12

\* A date that DecodeDateTime reads, where DecodeTimeOnly reads a time or a zone.
LEMMA DateAgainstTime ==
  ASSUME NEW says, NEW e, NEW f, Paired(says, e, f),
         NEW lex \in Seq(Lexemes), AlphaNum(lex[1]), lex # <<>>, NEW order,
         says => ~ (IsLetters(lex[1]) /\ DecodeSpecial(lex[1].w).type = "MONTH"),
         NEW r, r = DecodeDate(lex, e.fmask, order, e.tm, e.two), e.ptype = "none",
         NEW e2, e2 = Accept(e, r), e2.err = "ok",
         NEW f2, f2.err = "ok",
         f2 = IF IsDigits(lex[1]) THEN TimeWithZone(f, lex, f.fmask \cup DATE_M)
              ELSE NamedZone(f, lex)
  PROVE  Paired(says, e2, f2)
<1>1. DOMAIN e = LocalNames /\ DOMAIN f = LocalNames /\ DOMAIN e.tm = TmParts
      /\ DOMAIN f.tm = TmParts
  BY DEF Paired
<1>2. Ok(r) => /\ DOMAIN r.tm = TmParts /\ r.tmask \cap TIME_M = {}
               /\ Time(r.tm) = Time(e.tm)
               /\ IsLetters(lex[1]) => DecodeSpecial(lex[1].w).type = "MONTH"
  BY <1>1, DateUntimed
<1>3. Ok(r) /\ Took(e, e2, r.tmask) /\ SameRest(e2, e) /\ e2.tm = r.tm
  BY <1>1, <1>2, AcceptGives
<1>4. CASE IsDigits(lex[1])
  <2> DEFINE s == DecodeNumberField(NumberBefore(lex), f.fmask \cup DATE_M, f.tm, f.two)
             Y == s.tmask \cup {"TZ"}
  <2>1. TimeAndZone(f, f2, s, lex) BY <1>1, <1>4, TimeWithZoneGives
  <2>2. s.tmask = TIME_M
    <3>1. DATE_M \subseteq f.fmask \cup DATE_M /\ Ok(s) BY <2>1 DEF TimeAndZone
    <3> QED BY <1>1, <3>1, RunTogetherRead
  <2> HIDE DEF s
  <2>3. Took(f, f2, Y) /\ f2.ptype = f.ptype /\ f2.mer = f.mer /\ ~ TIME_M \subseteq f.fmask
    BY <2>1 DEF TimeAndZone
  <2>4. Apart(r.tmask, Y) /\ DATE_M \cap Y \subseteq e.fmask
    BY <1>2, <1>3, <2>2, TimeNames DEF Apart
  <2> HIDE DEF Y
  <2>5. e2.mer = f2.mer /\ SameLabel(e2, f2)
    BY <1>3, <2>3 DEF SameRest, Paired, SameLabel
  <2> QED BY <1>3, <2>3, <2>4, <2>5, PairKept
<1>5. CASE ~ IsDigits(lex[1])
  <2> DEFINE w == [f EXCEPT !.zone = pg_tzset(lex)]
  <2>1. f2 = Also(w, {"TZ"}) BY <1>5 DEF NamedZone
  <2>2. DOMAIN w = LocalNames /\ w.tm = f.tm /\ w.fmask = f.fmask /\ w.mer = f.mer
        /\ w.ptype = f.ptype
    BY <1>1 DEF LocalNames
  <2> HIDE DEF w
  <2>3. Took(w, f2, {"TZ"}) /\ SameRest(f2, w) /\ f2.tm = w.tm
    BY <1>1, <2>1, <2>2, AlsoGives
  <2>4. Took(f, f2, {"TZ"}) BY <2>2, <2>3 DEF Took
  <2>5. ~ says BY <1>2, <1>3, <1>5 DEF AlphaNum
  <2>6. SameZones(says, e2, f2) BY <2>5 DEF SameZones
  <2>7. Alike(r.tmask, {"TZ"}) /\ DATE_M \cap {"TZ"} \subseteq e.fmask
    BY <1>2, <1>3, TimeNames DEF Alike
  <2>8. e2.mer = f2.mer /\ SameLabel(e2, f2)
    <3>1. f.fmask \subseteq f2.fmask BY <2>4 DEF Took
    <3>2. e.mer = f.mer /\ SameLabel(e, f) BY DEF Paired
    <3>3. e2.mer = e.mer /\ e2.ptype = e.ptype BY <1>3 DEF SameRest
    <3>4. f2.mer = f.mer /\ f2.ptype = f.ptype BY <2>2, <2>3 DEF SameRest
    <3> QED BY <3>1, <3>2, <3>3, <3>4 DEF SameLabel
  <2>9. SameTime(e, f) => Time(e2.tm) = Time(f2.tm)
    <3>1. f2.tm = f.tm BY <2>2, <2>3
    <3> QED BY <1>2, <1>3, <3>1 DEF SameTime
  <2> QED BY <1>3, <2>4, <2>6, <2>7, <2>8, <2>9, PairKept
<1> QED BY <1>4, <1>5

\* A time with a zone begins with digits, as a run-together number has some.
LEMMA TimeBegins ==
  ASSUME NEW e, NEW fmask, NEW lex \in Seq(Lexemes),
         DOMAIN e = LocalNames, DOMAIN e.tm = TmParts, TimeWithZone(e, lex, fmask).err = "ok"
  PROVE  IsDigits(lex[1])
<1> DEFINE r == DecodeNumberField(NumberBefore(lex), fmask, e.tm, e.two)
           cp == FirstDash(lex)
           x  == SubSeq(lex, 1, cp - 1)
<1>1. TimeAndZone(e, TimeWithZone(e, lex, fmask), r, lex) BY TimeWithZoneGives
<1>2. Ok(r) /\ Dashes(lex) # {} BY <1>1 DEF TimeAndZone
<1>3. NumberBefore(lex).len # 0 BY <1>2, RunTogetherRead
<1>4. HasDigits(x, 1) BY <1>3 DEF NumberBefore, Number, Digits
<1>5. cp \in 1..Len(lex) /\ x \in Seq(Lexemes)
  BY <1>2, DashPlace DEF FirstDash, Dashes
<1>6. Len(lex) \in Nat BY LenProperties
<1>7. Len(x) = cp - 1 /\ \A k \in 1..(cp - 1) : x[k] = lex[k]
  <2> HIDE DEF cp
  <2>1. cp - 1 \in 0..Len(lex) BY <1>5, <1>6
  <2>2. \A k \in 1..(cp - 1) : lex[k] \in Lexemes
    <3> TAKE k \in 1..(cp - 1)
    <3>1. k \in 1..Len(lex) BY <1>5, <1>6
    <3> QED BY <3>1, ElementOfSeq
  <2> QED BY <1>5, <1>6, <2>1, <2>2, SubSeqProperties
<1> HIDE DEF x, cp
<1>8. 1 \in 1..(cp - 1) /\ IsDigits(x[1])
  BY <1>4, <1>7 DEF HasDigits, Inside
<1> QED BY <1>7, <1>8

\* Both read the first field as a date.
LEMMA FirstDatePaired ==
  ASSUME NEW says, NEW lex \in Seq(Lexemes), NEW order,
         NEW e, e = Fresh("DATE"), NEW f, f = Fresh("TIME"), Paired(says, e, f),
         NEW e2, e2 = Accept(e, DecodeDate(lex, e.fmask, order, e.tm, e.two)), e2.err = "ok",
         NEW f2, f2 = Accept(f, DecodeDate(lex, f.fmask, order, f.tm, f.two)), f2.err = "ok"
  PROVE  Paired(says, e2, f2)
<1> DEFINE r == DecodeDate(lex, e.fmask, order, e.tm, e.two)
<1>1. DOMAIN e = LocalNames /\ DOMAIN f = LocalNames /\ DOMAIN e.tm = TmParts
      /\ DOMAIN f.tm = TmParts
  BY DEF Paired
<1>2. /\ e.ptype = "none" /\ e.fmask = {} /\ e.two = f.two
      /\ f.fmask = {} /\ f.tm = e.tm /\ f.zone = e.zone /\ f.tz = e.tz
      /\ f.ptype = "none" /\ e.mer = f.mer /\ e.zone = NoZone /\ e.tz = West(0)
  BY DEF Fresh
<1>3. e2 = Accept(e, r) /\ f2 = Accept(f, r) BY <1>2
<1>4. Ok(r) => DOMAIN r.tm = TmParts BY <1>1, DateUntimed
<1> HIDE DEF r
<1>5. Took(e, e2, r.tmask) /\ SameRest(e2, e) /\ e2.tm = r.tm
  BY <1>1, <1>3, <1>4, AcceptGives
<1>6. Took(f, f2, r.tmask) /\ SameRest(f2, f) /\ f2.tm = r.tm
  BY <1>1, <1>3, <1>4, AcceptGives
<1>7. SameZones(says, e2, f2)
  <2>1. e2.zone = NoZone /\ e2.tz = West(0) BY <1>2, <1>5 DEF SameRest
  <2>2. f2.zone = NoZone /\ f2.tz = West(0) BY <1>2, <1>6 DEF SameRest
  <2>3. e2.fmask = f2.fmask BY <1>2, <1>5, <1>6 DEF Took
  <2> QED BY <2>1, <2>2, <2>3 DEF SameZones, SameZone
<1>8. e2.mer = f2.mer /\ SameLabel(e2, f2)
  BY <1>2, <1>5, <1>6 DEF SameRest, SameLabel
<1>9. Alike(r.tmask, r.tmask) /\ DATE_M \cap r.tmask \subseteq e.fmask \cup r.tmask
      /\ Time(e2.tm) = Time(f2.tm)
  BY <1>5, <1>6 DEF Alike
<1> QED BY <1>5, <1>6, <1>7, <1>8, <1>9, PairKept

\* A field that looks like a date.
LEMMA DatePaired ==
  ASSUME NEW says, NEW e, NEW f, Paired(says, e, f), NEW fs, NEW k, NEW order,
         fs[k].lex \in Seq(Lexemes), AlphaNum(fs[k].lex[1]), fs[k].lex # <<>>,
         fs[k].ftype = "DATE", says => ~ BeginsWithMonth(fs[k]),
         k = 1 => e = Fresh("DATE") /\ f = Fresh("TIME"),
         NEW e2, e2 = DateField(e, fs[k].lex, order), e2.err = "ok", ~ e2.isjulian,
         NEW f2, f2 = DateOrTimeField(f, fs, k, order), f2.err = "ok"
  PROVE  Paired(says, e2, f2)
<1> DEFINE lex  == fs[k].lex
           date == /\ k = 1 /\ Len(fs) >= 2
                   /\ fs[Len(fs)].ftype = "DATE" \/ fs[2].ftype = "TIME"
           r    == DecodeDate(lex, e.fmask, order, e.tm, e.two)
           s    == DecodeDate(lex, f.fmask, order, f.tm, f.two)
           v    == [e EXCEPT !.ptype = "none"]
           md   == {"MONTH", "DAY"} \subseteq e.fmask
<1>1. DOMAIN e = LocalNames /\ DOMAIN f = LocalNames /\ DOMAIN e.tm = TmParts
      /\ DOMAIN f.tm = TmParts
  BY DEF Paired
<1>2. e.ptype \in {"none", "TIME"}
  <2>1. e.ptype # "JULIAN"
    <3> SUFFICES ASSUME e.ptype = "JULIAN" PROVE FALSE OBVIOUS
    <3> DEFINE z == DecodeTimezone(SubSeq(lex, EndAt(lex, 1), Len(lex)))
               w == [e EXCEPT !.isjulian = TRUE, !.ptype = "none", !.tz = West(z.tz)]
               X == DATE_M \cup TIME_M \cup {"TZ"}
               t == OnDay(e.tm, j2date(ValAt(lex, 1)))
    <3>1. e2 = IF ~ Ok(z) THEN Refused(e, z.err) ELSE Sets(w, X, t)
      BY DEF DateField, JulianWithZone
    <3>2. DOMAIN w = LocalNames /\ w.isjulian = TRUE BY <1>1 DEF LocalNames
    <3>3. DOMAIN t = TmParts BY <1>1 DEF OnDay, WithDate
    <3> HIDE DEF z, w, X, t
    <3>4. e2 = Sets(w, X, t) BY <1>1, <3>1 DEF Refused, Ok, LocalNames
    <3>5. SameRest(e2, w) BY <3>2, <3>3, <3>4, SetsGives
    <3> QED BY <3>2, <3>5 DEF SameRest
  <2>2. e.ptype \notin {"none", "TIME"} /\ e.ptype # "JULIAN" => e2.err = "BAD_FORMAT"
    BY <1>1 DEF DateField, Refused, LocalNames
  <2> QED BY <2>1, <2>2
<1>3. e2 = IF e.ptype = "TIME" \/ (md /\ IsDigits(lex[1])) THEN TimeWithZone(v, lex, e.fmask)
           ELSE IF md THEN NamedZone(e, lex) ELSE Accept(e, r)
  BY <1>2 DEF DateField
<1>4. f2 = IF date THEN Accept(f, s)
           ELSE IF IsDigits(lex[1]) THEN TimeWithZone(f, lex, f.fmask \cup DATE_M)
           ELSE NamedZone(f, lex)
  BY DEF DateOrTimeField
<1>5. DOMAIN v = LocalNames /\ v.tm = e.tm BY <1>1 DEF LocalNames
<1> HIDE DEF lex, v
<1>6. CASE date
  <2>1. e = Fresh("DATE") /\ f = Fresh("TIME") BY <1>6
  <2>2. e.ptype = "none" /\ ~ md BY <2>1 DEF Fresh
  <2>3. e2 = Accept(e, r) /\ f2 = Accept(f, s) /\ lex \in Seq(Lexemes)
    BY <1>3, <1>4, <1>6, <2>2 DEF lex
  <2> QED BY <2>1, <2>3, FirstDatePaired
<1>7. CASE ~ date /\ (e.ptype = "TIME" \/ (md /\ IsDigits(lex[1])))
  <2>1. e2 = TimeWithZone(v, lex, e.fmask) BY <1>3, <1>7
  <2>2. IsDigits(lex[1]) 
    <3>1. lex \in Seq(Lexemes) /\ TimeWithZone(v, lex, e.fmask).err = "ok" BY <2>1 DEF lex
    <3> QED BY <1>1, <1>5, <3>1, TimeBegins
  <2>3. f2 = TimeWithZone(f, lex, f.fmask \cup DATE_M) BY <1>4, <1>7, <2>2
  <2> QED BY <1>2, <2>1, <2>3, TimeWithZonePaired DEF v
<1>8. CASE ~ date /\ md /\ e.ptype # "TIME" /\ ~ IsDigits(lex[1])
  <2>1. e2 = NamedZone(e, lex) /\ f2 = NamedZone(f, lex) BY <1>3, <1>4, <1>8
  <2> QED BY <2>1, NamedZonePaired
<1>9. CASE ~ date /\ ~ md /\ e.ptype = "none"
  <2>1. e2 = Accept(e, r) BY <1>3, <1>9
  <2>2. says => ~ (IsLetters(lex[1]) /\ DecodeSpecial(lex[1].w).type = "MONTH")
    BY DEF BeginsWithMonth, lex
  <2>3. f2 = IF IsDigits(lex[1]) THEN TimeWithZone(f, lex, f.fmask \cup DATE_M)
             ELSE NamedZone(f, lex)
    BY <1>4, <1>9
  <2>4. lex \in Seq(Lexemes) /\ AlphaNum(lex[1]) /\ lex # <<>> BY DEF lex
  <2> QED BY <1>9, <2>1, <2>2, <2>3, <2>4, DateAgainstTime
<1> QED BY <1>2, <1>6, <1>7, <1>8, <1>9

\* What a number behind a label gives, but for a Julian day.
LabelGives(n, ptype, fmask, tm, r) ==
  LET minute == ptype = "MINUTE" \/ (ptype = "MONTH" /\ {"MONTH", "HOUR"} \subseteq fmask)
  IN  \/ /\ minute /\ r.tmask = {"MINUTE"}
         /\ Time(r.tm) = <<tm.hour, n.val, tm.sec, tm.fsec>>
      \/ /\ ~ minute /\ ptype \in DATE_M /\ r.tmask = {ptype} /\ Time(r.tm) = Time(tm)
      \/ /\ ptype = "HOUR" /\ r.tmask = {"HOUR"}
         /\ Time(r.tm) = <<n.val, tm.min, tm.sec, tm.fsec>>
      \/ /\ ptype = "SECOND" /\ r.tmask = (IF n.point THEN ALL_SECS_M ELSE {"SECOND"})
         /\ Time(r.tm) = <<tm.hour, tm.min, n.val,
                           IF n.point THEN ParseFractionalSecond(n.frac) ELSE tm.fsec>>
      \/ /\ ptype = "TIME" /\ r.tmask = TIME_M /\ ~ TIME_M \subseteq fmask
         /\ Time(r.tm) = TimeRun(n, tm.fsec)

LEMMA LabelledGives ==
  ASSUME NEW n, NEW ptype, NEW fmask, NEW tm, NEW two, DOMAIN tm = TmParts,
         NEW r, r = Labelled(n, ptype, fmask, tm, two), Ok(r)
  PROVE  /\ DOMAIN r.tm = TmParts
         /\ ptype # "JULIAN" => LabelGives(n, ptype, fmask, tm, r)
<1> DEFINE minute == ptype = "MINUTE" \/ (ptype = "MONTH" /\ {"MONTH", "HOUR"} \subseteq fmask)
           fsec   == IF n.point THEN ParseFractionalSecond(n.frac) ELSE tm.fsec
           whole  == \/ n.point /\ n.frac.len = 0
                     \/ n.point /\ ptype \notin {"JULIAN", "TIME", "SECOND"}
           f      == DecodeNumberField(n, fmask \cup DATE_M, tm, two)
<1>1. r = IF whole THEN Bad
          ELSE IF minute THEN Got({"MINUTE"}, [tm EXCEPT !.min = n.val], two)
          ELSE IF ptype \in DATE_M THEN Got({ptype}, SetPart(tm, ptype, n.val), two)
          ELSE IF ptype = "HOUR" THEN Got({"HOUR"}, [tm EXCEPT !.hour = n.val], two)
          ELSE IF ptype = "SECOND"
          THEN Got(IF n.point THEN ALL_SECS_M ELSE {"SECOND"},
                   [tm EXCEPT !.sec = n.val, !.fsec = fsec], two)
          ELSE IF ptype = "JULIAN"
          THEN Got(IF n.point THEN DATE_M \cup TIME_M ELSE DATE_M, JulianDay(n, tm), two)
          ELSE IF ptype = "TIME" THEN f
          ELSE Bad
  BY DEF Labelled
<1> HIDE DEF minute, fsec, whole, f
<1>2. CASE minute /\ r = Got({"MINUTE"}, [tm EXCEPT !.min = n.val], two)
  <2>1. DOMAIN [tm EXCEPT !.min = n.val] = TmParts
        /\ Time([tm EXCEPT !.min = n.val]) = <<tm.hour, n.val, tm.sec, tm.fsec>>
    BY DEF Time, TmParts
  <2> QED BY <1>2, <2>1 DEF LabelGives, Got, minute
<1>3. CASE ~ minute /\ ptype \in DATE_M /\ r = Got({ptype}, SetPart(tm, ptype, n.val), two)
  <2>1. DOMAIN SetPart(tm, ptype, n.val) = TmParts /\ Time(SetPart(tm, ptype, n.val)) = Time(tm)
    BY DEF SetPart, Time, TmParts
  <2> QED BY <1>3, <2>1 DEF LabelGives, Got, minute
<1>4. CASE ptype = "HOUR" /\ r = Got({"HOUR"}, [tm EXCEPT !.hour = n.val], two)
  <2>1. DOMAIN [tm EXCEPT !.hour = n.val] = TmParts
        /\ Time([tm EXCEPT !.hour = n.val]) = <<n.val, tm.min, tm.sec, tm.fsec>>
    BY DEF Time, TmParts
  <2> QED BY <1>4, <2>1 DEF LabelGives, Got
<1>5. CASE ptype = "SECOND"
           /\ r = Got(IF n.point THEN ALL_SECS_M ELSE {"SECOND"},
                      [tm EXCEPT !.sec = n.val, !.fsec = fsec], two)
  <2>1. DOMAIN [tm EXCEPT !.sec = n.val, !.fsec = fsec] = TmParts
        /\ Time([tm EXCEPT !.sec = n.val, !.fsec = fsec]) = <<tm.hour, tm.min, n.val, fsec>>
    BY DEF Time, TmParts
  <2>2. r.tmask = (IF n.point THEN ALL_SECS_M ELSE {"SECOND"})
        /\ r.tm = [tm EXCEPT !.sec = n.val, !.fsec = fsec]
    BY <1>5 DEF Got
  <2>3. LabelGives(n, ptype, fmask, tm, r) BY <1>5, <2>1, <2>2 DEF LabelGives, fsec
  <2> QED BY <2>1, <2>2, <2>3
<1>6. CASE /\ ptype = "JULIAN"
           /\ r = Got(IF n.point THEN DATE_M \cup TIME_M ELSE DATE_M, JulianDay(n, tm), two)
  <2>1. DOMAIN JulianDay(n, tm) = TmParts
    BY DEF JulianDay, OnDay, WithDate, WithTime, TmParts
  <2> QED BY <1>6, <2>1 DEF Got
<1>7. CASE ptype = "TIME" /\ r = f
  <2>1. DATE_M \subseteq fmask \cup DATE_M OBVIOUS
  <2>2. /\ DOMAIN r.tm = TmParts /\ r.tmask = TIME_M /\ ~ TIME_M \subseteq fmask \cup DATE_M
        /\ Time(r.tm) = TimeRun(n, tm.fsec)
    BY <1>7, <2>1, RunTogetherRead DEF f
  <2>3. ~ TIME_M \subseteq fmask BY <2>2
  <2> QED BY <1>7, <2>2, <2>3 DEF LabelGives
<1> QED BY <1>1, <1>2, <1>3, <1>4, <1>5, <1>6, <1>7 DEF Ok, Bad, Fail

\* The locals after a number behind a label.
LabelRead(e, e2, r) ==
  /\ Ok(r) /\ Took(e, e2, r.tmask) /\ e2.tm = r.tm
  /\ e2.ptype = "none" /\ e2.mer = e.mer /\ e2.zone = e.zone /\ e2.tz = e.tz
  /\ e.ptype = "JULIAN" => e2.isjulian

LEMMA LabelledRead ==
  ASSUME NEW e, NEW lex, DOMAIN e = LocalNames, DOMAIN e.tm = TmParts,
         NEW r, r = Labelled(Number(lex), e.ptype, e.fmask, e.tm, e.two),
         NEW e2, e2 = LabelledNumber(e, lex), e2.err = "ok"
  PROVE  LabelRead(e, e2, r)
<1> DEFINE v == [e EXCEPT !.ptype = "none", !.dtype = "DATE",
                          !.isjulian = @ \/ e.ptype = "JULIAN"]
<1>1. e2 = Accept(v, r) BY DEF LabelledNumber
<1>2. /\ DOMAIN v = LocalNames /\ v.fmask = e.fmask /\ v.mer = e.mer /\ v.zone = e.zone
      /\ v.tz = e.tz /\ v.ptype = "none"
  BY DEF LocalNames
<1>j. e.ptype = "JULIAN" => v.isjulian BY DEF LocalNames
<1>3. Ok(r) => DOMAIN r.tm = TmParts BY LabelledGives
<1> HIDE DEF v
<1>4. Ok(r) /\ Took(v, e2, r.tmask) /\ SameRest(e2, v) /\ e2.tm = r.tm
  BY <1>1, <1>2, <1>3, AcceptGives
<1>5. Took(e, e2, r.tmask) BY <1>2, <1>4 DEF Took
<1> QED BY <1>2, <1>4, <1>5, <1>j DEF LabelRead, SameRest

\* A number behind the same label.
LEMMA LabelledPaired ==
  ASSUME NEW says, NEW e, NEW f, Paired(says, e, f), NEW lex, e.ptype = f.ptype,
         NEW e2, e2 = LabelledNumber(e, lex), e2.err = "ok", ~ e2.isjulian,
         NEW f2, f2 = LabelledNumber(f, lex), f2.err = "ok"
  PROVE  Paired(says, e2, f2)
<1> DEFINE n == Number(lex)
           p == e.ptype
           r == Labelled(n, p, e.fmask, e.tm, e.two)
           s == Labelled(n, p, f.fmask, f.tm, f.two)
           mh == {"MONTH", "HOUR"}
<1>1. DOMAIN e = LocalNames /\ DOMAIN f = LocalNames /\ DOMAIN e.tm = TmParts
      /\ DOMAIN f.tm = TmParts
  BY DEF Paired
<1>2. LabelRead(e, e2, r) BY <1>1, LabelledRead
<1>3. LabelRead(f, f2, s) BY <1>1, LabelledRead
<1>4. LabelGives(n, p, e.fmask, e.tm, r) /\ LabelGives(n, p, f.fmask, f.tm, s)
  <2>1. p # "JULIAN" /\ Ok(r) /\ Ok(s) BY <1>2, <1>3 DEF LabelRead
  <2> HIDE DEF n, p
  <2> QED BY <1>1, <2>1, LabelledGives
<1> HIDE DEF n, p, r, s
<1>5. Took(e, e2, r.tmask) /\ Took(f, f2, s.tmask) /\ e2.tm = r.tm /\ f2.tm = s.tm
  BY <1>2, <1>3 DEF LabelRead
<1>6. e2.mer = f2.mer /\ SameLabel(e2, f2)
  BY <1>2, <1>3 DEF LabelRead, SameLabel, Paired
<1>7. "TZ" \notin r.tmask /\ "TZ" \notin s.tmask
  BY <1>4 DEF LabelGives, DATE_M, TIME_M, ALL_SECS_M
<1>8. SameZones(says, e, f) => SameZones(says, e2, f2)
  BY <1>2, <1>3, <1>5, <1>7, ZonesUntouched DEF LabelRead
<1>9. Time(e.tm) = Time(f.tm) =>
        e.tm.hour = f.tm.hour /\ e.tm.min = f.tm.min /\ e.tm.sec = f.tm.sec
        /\ e.tm.fsec = f.tm.fsec
  BY DEF Time
<1>10. CASE r.tmask = s.tmask
  <2>1. Alike(r.tmask, s.tmask) /\ DATE_M \cap s.tmask \subseteq e.fmask \cup r.tmask
    BY <1>10 DEF Alike
  <2>2. SameTime(e, f) => Time(e2.tm) = Time(f2.tm)
    <3>1. Time(e.tm) = Time(f.tm) => Time(r.tm) = Time(s.tm)
      BY <1>4, <1>9, <1>10 DEF LabelGives, DATE_M, TIME_M, ALL_SECS_M
    <3> QED BY <1>5, <3>1 DEF SameTime
  <2> QED BY <1>5, <1>6, <1>8, <2>1, <2>2, PairKept
<1>11. CASE r.tmask = {"MINUTE"} /\ s.tmask = {"MONTH"} /\ mh \subseteq e.fmask
  <2>1. Minutes(e, r.tmask, s.tmask)
    BY <1>11, TimeNames DEF Minutes, TIME_M, ALL_SECS_M
  <2>2. DATE_M \cap s.tmask \subseteq e.fmask \cup r.tmask BY <1>11
  <2> QED BY <1>5, <1>6, <2>1, <2>2, PairKept
<1>12. r.tmask = {"MONTH"} => "MONTH" \notin f.fmask
  BY <1>5 DEF Took, Paired, DATE_M
<1>13. \/ r.tmask = s.tmask
       \/ r.tmask = {"MINUTE"} /\ s.tmask = {"MONTH"} /\ mh \subseteq e.fmask
  <2>1. CASE p # "MONTH"
    BY <1>4, <2>1 DEF LabelGives, DATE_M
  <2>2. CASE p = "MONTH"
    BY <1>4, <1>12, <2>2 DEF LabelGives, DATE_M
  <2> QED BY <2>1, <2>2
<1> QED BY <1>10, <1>11, <1>13

\* The label of a time that has been given finds no number.
LEMMA TimeGiven ==
  ASSUME NEW f, NEW lex, DOMAIN f = LocalNames, DOMAIN f.tm = TmParts,
         f.ptype = "TIME", TIME_M \subseteq f.fmask
  PROVE  LabelledNumber(f, lex).err # "ok"
<1> DEFINE s == Labelled(Number(lex), f.ptype, f.fmask, f.tm, f.two)
<1>1. SUFFICES ASSUME LabelledNumber(f, lex).err = "ok" PROVE FALSE OBVIOUS
<1>2. LabelRead(f, LabelledNumber(f, lex), s) BY <1>1, LabelledRead
<1>3. LabelGives(Number(lex), f.ptype, f.fmask, f.tm, s)
  <2>1. Ok(s) BY <1>2 DEF LabelRead
  <2> QED BY <2>1, LabelledGives
<1> QED BY <1>3 DEF LabelGives, DATE_M

\* A number with the date given is the time.
LEMMA NumberForTime ==
  ASSUME NEW n, NEW textMonth, NEW fmask, NEW order, NEW tm, NEW two, ~ n.point,
         DATE_M \subseteq fmask,
         NEW r, r = DecodeNumber(n, textMonth, fmask, order, tm, two), Ok(r)
  PROVE  r = DecodeNumberField(n, fmask, tm, two)
<1> DEFINE known == fmask \cap DATE_M
           f     == DecodeNumberField(n, fmask, tm, two)
           doy   == Flen(n) = 3 /\ known = {"YEAR"} /\ n.val \in 1..366
<1>1. known = DATE_M /\ ~ doy BY DEF DATE_M
<1>2. r = IF n.len = 0 THEN Bad ELSE f BY <1>1 DEF DecodeNumber
<1>3. ~ Ok(Bad) BY DEF Ok, Bad, Fail
<1> HIDE DEF f
<1> QED BY <1>2, <1>3 DEF f

\* What a number without a label gives: no time, or the time run together.
NumberGives(n, r, tm) ==
  Ok(r) => /\ DOMAIN r.tm = TmParts
           /\ \/ r.tmask \cap TIME_M = {}
              \/ r.tmask = TIME_M /\ Time(r.tm) = TimeRun(n, tm.fsec)

LEMMA PlainRead ==
  ASSUME NEW e, NEW lex \in Seq(Lexemes), NEW order, DOMAIN e = LocalNames,
         DOMAIN e.tm = TmParts, NEW e2, e2 = PlainNumber(e, lex, order), e2.err = "ok",
         NEW n, n = Number(lex), n.point => n.len > 2
  PROVE  \E r : /\ Took(e, e2, r.tmask) /\ SameRest(e2, e) /\ e2.tm = r.tm
                /\ Ok(r) /\ NumberGives(n, r, e.tm)
<1> DEFINE date == DecodeDate(lex, e.fmask, order, e.tm, e.two)
           run  == DecodeNumberField(n, e.fmask, e.tm, e.two)
           num  == DecodeNumber(n, e.textMonth, e.fmask, order, e.tm, e.two)
           A == n.point /\ e.fmask \cap DATE_M = {}
           B == (n.point /\ n.len > 2) \/ Flen(n) > 4
           r == IF A THEN date ELSE IF B THEN run ELSE num
<1>1. e2 = Accept(e, r) BY DEF PlainNumber
<1>2. NumberGives(n, run, e.tm)
  BY RunTogetherRead, TimeNames DEF NumberGives
<1>3. NumberGives(n, date, e.tm) BY DateUntimed DEF NumberGives
<1>4. NumberGives(n, num, e.tm) \/ n.point
  <2> SUFFICES ASSUME Ok(num), ~ n.point PROVE NumberGives(n, num, e.tm)
    BY DEF NumberGives
  <2>1. DOMAIN num.tm = TmParts /\ (num.tmask \cap TIME_M = {} \/ num = run)
    BY NumberRun
  <2> HIDE DEF num, run
  <2> QED BY <1>2, <2>1 DEF NumberGives
<1> HIDE DEF date, run, num
<1>5. NumberGives(n, r, e.tm) BY <1>2, <1>3, <1>4
<1> HIDE DEF r
<1>6. Ok(r) => DOMAIN r.tm = TmParts BY <1>5 DEF NumberGives
<1>7. Ok(r) /\ Took(e, e2, r.tmask) /\ SameRest(e2, e) /\ e2.tm = r.tm
  BY <1>1, <1>6, AcceptGives
<1> QED BY <1>5, <1>7

\* A number without a label.
LEMMA PlainPaired ==
  ASSUME NEW says, NEW e, NEW f, Paired(says, e, f), NEW fs, NEW k, NEW order,
         fs[k].lex \in Seq(Lexemes), e.ptype = "none", f.ptype = "none",
         k = 1 => e = Fresh("DATE") /\ f = Fresh("TIME"),
         NEW e2, e2 = PlainNumber(e, fs[k].lex, order), e2.err = "ok",
         NEW f2, f2 = PlainTime(f, fs, k, order), f2.err = "ok"
  PROVE  Paired(says, e2, f2)
<1> DEFINE lex  == fs[k].lex
           n    == Number(lex)
           all  == f.fmask \cup DATE_M
           date == k = 1 /\ Len(fs) >= 2 /\ fs[Len(fs)].ftype = "DATE"
           run  == DecodeNumberField(n, all, f.tm, f.two)
           s    == IF n.point /\ n.len <= 2 THEN Bad
                   ELSE IF n.point \/ Flen(n) > 4 THEN run
                   ELSE DecodeNumber(n, FALSE, all, order, f.tm, f.two)
<1>1. DOMAIN e = LocalNames /\ DOMAIN f = LocalNames /\ DOMAIN e.tm = TmParts
      /\ DOMAIN f.tm = TmParts
  BY DEF Paired
<1>2. CASE n.point /\ date
  <2>1. e = Fresh("DATE") /\ f = Fresh("TIME") BY <1>2
  <2>2. e.fmask = {} BY <2>1 DEF Fresh
  <2>3. e2 = Accept(e, DecodeDate(lex, e.fmask, order, e.tm, e.two))
    BY <1>2, <2>2 DEF PlainNumber
  <2>4. f2 = Accept(f, DecodeDate(lex, f.fmask, order, f.tm, f.two))
    BY <1>2 DEF PlainTime
  <2>5. lex \in Seq(Lexemes) OBVIOUS
  <2> HIDE DEF lex
  <2> QED BY <2>1, <2>3, <2>4, <2>5, FirstDatePaired
<1>3. CASE ~ (n.point /\ date)
  <2>1. f2 = Accept(f, s) BY <1>3 DEF PlainTime
  <2>2. \A r : Ok(r) /\ r = run =>
          DOMAIN r.tm = TmParts /\ r.tmask = TIME_M /\ Time(r.tm) = TimeRun(n, f.tm.fsec)
    <3>1. DATE_M \subseteq all OBVIOUS
    <3> HIDE DEF all, n
    <3> QED BY <1>1, <3>1, RunTogetherRead
  <2>3. Ok(s) => ~ (n.point /\ n.len <= 2) /\ s = run
    <3>1. DATE_M \subseteq all OBVIOUS
    <3> HIDE DEF all, n, run
    <3>2. ASSUME NEW m, NEW r, r = DecodeNumber(n, m, all, order, f.tm, f.two), Ok(r),
                 ~ n.point
          PROVE  r = run
      BY <3>1, <3>2, NumberForTime DEF run
    <3>3. ~ Ok(Bad) BY DEF Ok, Bad, Fail
    <3>4. CASE n.point /\ n.len <= 2 BY <3>3, <3>4
    <3>5. CASE ~ (n.point /\ n.len <= 2) /\ (n.point \/ Flen(n) > 4) BY <3>5
    <3>6. CASE ~ (n.point \/ Flen(n) > 4) BY <3>2, <3>6
    <3> QED BY <3>4, <3>5, <3>6
  <2>4. n.len \in Nat
    <3>1. HasDigits(lex, 1) => lex[1].len \in 1..9
      <4> SUFFICES ASSUME HasDigits(lex, 1) PROVE lex[1].len \in 1..9 OBVIOUS
      <4>1. 1 \in 1..Len(lex) /\ IsDigits(lex[1]) BY DEF HasDigits, Inside
      <4>2. lex[1] \in Lexemes BY <4>1, ElementOfSeq
      <4> QED BY <4>1, <4>2, DigitLexeme
    <3> QED BY <3>1 DEF Number, Digits
  <2>5. lex \in Seq(Lexemes) /\ e2 = PlainNumber(e, lex, order) OBVIOUS
  <2> HIDE DEF s, run, n, lex
  <2>6. Ok(s) => DOMAIN s.tm = TmParts BY <2>2, <2>3
  <2>7. Ok(s) /\ Took(f, f2, s.tmask) /\ SameRest(f2, f) /\ f2.tm = s.tm
    BY <1>1, <2>1, <2>6, AcceptGives
  <2>8. s.tmask = TIME_M /\ Time(s.tm) = TimeRun(n, f.tm.fsec) BY <2>2, <2>3, <2>7
  <2>9. n.point => n.len > 2 BY <2>3, <2>4, <2>7
  <2>10. PICK r : /\ Took(e, e2, r.tmask) /\ SameRest(e2, e) /\ e2.tm = r.tm
                  /\ Ok(r) /\ NumberGives(n, r, e.tm)
    BY <1>1, <2>5, <2>9, PlainRead DEF n
  <2>11. e2.mer = f2.mer /\ SameLabel(e2, f2)
    BY <2>7, <2>10 DEF SameRest, SameLabel, Paired
  <2>12. DATE_M \cap s.tmask \subseteq e.fmask BY <2>8, TimeNames
  <2>13. CASE r.tmask \cap TIME_M = {}
    <3>1. Apart(r.tmask, s.tmask) BY <2>8, <2>13 DEF Apart
    <3> QED BY <2>7, <2>10, <2>11, <2>12, <3>1, PairKept
  <2>14. CASE r.tmask = TIME_M /\ Time(r.tm) = TimeRun(n, e.tm.fsec)
    <3>1. Alike(r.tmask, s.tmask) BY <2>8, <2>14 DEF Alike
    <3>2. SameTime(e, f) => Time(e2.tm) = Time(f2.tm)
      <4>1. Time(e.tm) = Time(f.tm) => e.tm.fsec = f.tm.fsec BY DEF Time
      <4> QED BY <2>7, <2>8, <2>10, <2>14, <4>1 DEF SameTime
    <3>3. SameZones(says, e, f) => SameZones(says, e2, f2)
      BY <2>7, <2>8, <2>10, <2>14, TimeNames, ZonesUntouched DEF SameRest
    <3> QED BY <2>7, <2>10, <2>11, <2>12, <3>1, <3>2, <3>3, PairKept
  <2> QED BY <2>10, <2>13, <2>14 DEF NumberGives
<1> QED BY <1>2, <1>3

\* A field that looks like a number.
LEMMA NumberPaired ==
  ASSUME NEW says, NEW e, NEW f, Paired(says, e, f), NEW fs, NEW k, NEW order,
         fs[k].lex \in Seq(Lexemes), k = 1 => e = Fresh("DATE") /\ f = Fresh("TIME"),
         NEW e2, e2 = NumberField(e, fs[k].lex, order), e2.err = "ok", ~ e2.isjulian,
         NEW f2, f2.err = "ok",
         f2 = IF f.ptype # "none" THEN LabelledTime(f, fs[k].lex)
              ELSE PlainTime(f, fs, k, order)
  PROVE  Paired(says, e2, f2)
<1>1. CASE e.ptype = f.ptype /\ e.ptype # "none"
  <2>1. e2 = LabelledNumber(e, fs[k].lex) /\ f2 = LabelledNumber(f, fs[k].lex)
    BY <1>1 DEF NumberField, LabelledTime
  <2> QED BY <1>1, <2>1, LabelledPaired
<1>2. CASE e.ptype = "none" /\ f.ptype = "none"
  <2>1. e2 = PlainNumber(e, fs[k].lex, order) /\ f2 = PlainTime(f, fs, k, order)
    BY <1>2 DEF NumberField
  <2> QED BY <1>2, <2>1, PlainPaired
<1>3. CASE f.ptype = "TIME" /\ TIME_M \subseteq f.fmask
  <2>1. f2 = LabelledNumber(f, fs[k].lex) BY <1>3 DEF LabelledTime
  <2> QED BY <1>3, <2>1, TimeGiven DEF Paired
<1> QED BY <1>1, <1>2, <1>3 DEF Paired, SameLabel

\* A word that stands for a moment.
LEMMA ReservedPaired ==
  ASSUME NEW says, NEW e, NEW f, Paired(says, e, f), NEW val,
         NEW e2, e2 = ReservedWord(e, val), e2.err = "ok",
         NEW f2, f2 = ReservedTime(f, val), f2.err = "ok"
  PROVE  Paired(says, e2, f2)
<1>1. DOMAIN e = LocalNames /\ DOMAIN f = LocalNames /\ DOMAIN e.tm = TmParts
      /\ DOMAIN f.tm = TmParts
  BY DEF Paired
<1>2. val \in {"NOW", "ZULU"}
  <2> SUFFICES ASSUME val \notin {"NOW", "ZULU"} PROVE FALSE OBVIOUS
  <2>1. f2.err = "BAD_FORMAT" BY <1>1 DEF ReservedTime, Refused, LocalNames
  <2> QED BY <2>1
<1> DEFINE w == [f EXCEPT !.dtype = "TIME"]
<1>3. DOMAIN w = LocalNames /\ w.fmask = f.fmask /\ w.tm = f.tm /\ w.mer = f.mer
      /\ w.ptype = f.ptype /\ w.zone = f.zone /\ w.tz = f.tz
  BY <1>1 DEF LocalNames
<1>4. CASE val = "NOW"
  <2> DEFINE v == [[e EXCEPT !.dtype = "DATE"] EXCEPT !.tz = In(SessionZone)]
             t(x) == [Now EXCEPT !.wday = x.wday, !.yday = x.yday]
             X == DATE_M \cup TIME_M \cup {"TZ"}
  <2>1. e2 = Sets(v, X, t(e.tm)) /\ f2 = Sets(w, TIME_M, t(f.tm))
    BY <1>4 DEF ReservedWord, ReservedTime
  <2>2. DOMAIN v = LocalNames /\ v.fmask = e.fmask /\ v.tm = e.tm /\ v.mer = e.mer
        /\ v.ptype = e.ptype /\ v.zone = e.zone /\ v.tz = In(SessionZone)
    BY <1>1 DEF LocalNames
  <2>3. \A x : DOMAIN t(x) = TmParts /\ Time(t(x)) = Time(Now)
    <3>1. DOMAIN Now = TmParts BY DateInputAssumption DEF TmParts
    <3> QED BY <3>1 DEF Time, TmParts
  <2> HIDE DEF v, w, t
  <2>4. Took(v, e2, X) /\ SameRest(e2, v) /\ e2.tm = t(e.tm)
    BY <2>1, <2>2, <2>3, SetsGives
  <2>5. Took(w, f2, TIME_M) /\ SameRest(f2, w) /\ f2.tm = t(f.tm)
    BY <1>3, <2>1, <2>3, SetsGives
  <2>6. Took(e, e2, X) /\ Took(f, f2, TIME_M) BY <1>3, <2>2, <2>4, <2>5 DEF Took
  <2>7. SameZones(says, e, f) => SameZones(says, e2, f2)
    <3> SUFFICES ASSUME SameZones(says, e, f), says, "DTZMOD" \notin e2.fmask
                 PROVE  SaidNow(e2, f2)
      BY DEF SameZones
    <3>1. "TZ" \in X /\ "TZ" \notin e.fmask /\ "DTZMOD" \notin e.fmask BY <2>6 DEF Took
    <3>2. SameZone(e, f) BY <3>1 DEF SameZones, SaidNow
    <3>3. "TZ" \in e2.fmask /\ "TZ" \notin f2.fmask
      BY <2>6, <3>1, <3>2, TimeNames DEF Took, SameZone
    <3> QED BY <1>3, <2>2, <2>4, <2>5, <3>1, <3>2, <3>3 DEF SameRest, SameZone, SaidNow
  <2>8. e2.mer = f2.mer /\ SameLabel(e2, f2)
    <3>1. e.mer = f.mer /\ SameLabel(e, f) BY DEF Paired
    <3> QED BY <1>3, <2>2, <2>4, <2>5, <2>6, <3>1 DEF SameRest, SameLabel, Took
  <2>9. Alike(X, TIME_M) /\ DATE_M \cap TIME_M \subseteq e.fmask
    BY TimeNames DEF Alike
  <2>10. Time(e2.tm) = Time(f2.tm) BY <2>3, <2>4, <2>5
  <2> HIDE DEF X
  <2> QED BY <2>6, <2>7, <2>8, <2>9, <2>10, PairKept
<1>5. CASE val = "ZULU"
  <2> DEFINE v == [[e EXCEPT !.dtype = "DATE"] EXCEPT !.tz = West(0)]
             t(x) == WithTime(x, 0, 0, 0)
             X == TIME_M \cup {"TZ"}
  <2>1. e2 = Sets(v, X, t(e.tm)) /\ f2 = Sets(w, X, t(f.tm))
    BY <1>5 DEF ReservedWord, ReservedTime
  <2>2. DOMAIN v = LocalNames /\ v.fmask = e.fmask /\ v.tm = e.tm /\ v.mer = e.mer
        /\ v.ptype = e.ptype /\ v.zone = e.zone /\ v.tz = West(0)
    BY <1>1 DEF LocalNames
  <2>3. \A x : DOMAIN x = TmParts =>
          DOMAIN t(x) = TmParts /\ Time(t(x)) = <<0, 0, 0, x.fsec>>
    BY DEF WithTime, Time, TmParts
  <2> HIDE DEF v, w, t
  <2>4. Took(v, e2, X) /\ SameRest(e2, v) /\ e2.tm = t(e.tm)
    BY <1>1, <2>1, <2>2, <2>3, SetsGives
  <2>5. Took(w, f2, X) /\ SameRest(f2, w) /\ f2.tm = t(f.tm)
    BY <1>1, <1>3, <2>1, <2>3, SetsGives
  <2>6. Took(e, e2, X) /\ Took(f, f2, X) BY <1>3, <2>2, <2>4, <2>5 DEF Took
  <2>7. SameZones(says, e, f) => SameZones(says, e2, f2)
    <3>1. "TZ" \in X /\ "TZ" \notin e.fmask BY <2>6 DEF Took
    <3>2. SameZone(e, f) => e2.zone = f2.zone /\ e2.tz = f2.tz
      BY <1>3, <2>2, <2>4, <2>5, <3>1 DEF SameRest, SameZone
    <3> HIDE DEF X
    <3> QED BY <2>6, <3>1, <3>2, ZonesTaken
  <2>8. e2.mer = f2.mer /\ SameLabel(e2, f2)
    <3>1. e.mer = f.mer /\ SameLabel(e, f) BY DEF Paired
    <3> QED BY <1>3, <2>2, <2>4, <2>5, <2>6, <3>1 DEF SameRest, SameLabel, Took
  <2>9. Alike(X, X) /\ DATE_M \cap X \subseteq e.fmask
    BY TimeNames DEF Alike
  <2>10. SameTime(e, f) => Time(e2.tm) = Time(f2.tm)
    <3>1. Time(e.tm) = Time(f.tm) => e.tm.fsec = f.tm.fsec BY DEF Time
    <3> QED BY <1>1, <2>3, <2>4, <2>5, <3>1 DEF SameTime
  <2> HIDE DEF X
  <2> QED BY <2>6, <2>7, <2>8, <2>9, <2>10, PairKept
<1> QED BY <1>2, <1>4, <1>5

\* An abbreviation of a zone.
LEMMA ZoneWordPaired ==
  ASSUME NEW says, NEW e, NEW f, Paired(says, e, f), NEW type \in {"DTZMOD", "DTZ", "TZ"},
         NEW val, NEW e2, e2 = ZoneWord(e, type, val), e2.err = "ok",
         NEW f2, f2 = ZoneWord(f, type, val), f2.err = "ok"
  PROVE  Paired(says, e2, f2)
<1>1. DOMAIN e = LocalNames /\ DOMAIN f = LocalNames BY DEF Paired
<1>2. CASE type = "DTZMOD"
  <2> DEFINE v == [e EXCEPT !.tz.west = @ + val * 60]
             w == [f EXCEPT !.tz.west = @ + val * 60]
             X == {"DTZMOD", "DTZ"}
  <2>1. e2 = Also(v, X) /\ f2 = Also(w, X) BY <1>2 DEF ZoneWord
  <2>2. /\ DOMAIN v = LocalNames /\ v.fmask = e.fmask /\ v.tm = e.tm
        /\ DOMAIN w = LocalNames /\ w.fmask = f.fmask /\ w.tm = f.tm
        /\ v.mer = e.mer /\ w.mer = f.mer /\ v.ptype = e.ptype /\ w.ptype = f.ptype
    BY <1>1 DEF LocalNames
  <2> HIDE DEF v, w
  <2>3. Unfound(v, e, w, f, X) BY <2>2 DEF Unfound, Paired, SameLabel
  <2>4. X \cap TIME_M = {} /\ X \cap DATE_M = {} BY DEF TIME_M, DATE_M, ALL_SECS_M
  <2> HIDE DEF X
  <2> QED BY <2>1, <2>3, <2>4, AlsoPaired
<1>3. CASE type # "DTZMOD"
  <2> DEFINE v == [e EXCEPT !.tz = West(val * 60)]
             w == [f EXCEPT !.tz = West(val * 60)]
             X == {"TZ", type}
  <2>1. e2 = Also(v, X) /\ f2 = Also(w, X) BY <1>3 DEF ZoneWord
  <2>2. /\ DOMAIN v = LocalNames /\ v.fmask = e.fmask /\ v.tm = e.tm
        /\ DOMAIN w = LocalNames /\ w.fmask = f.fmask /\ w.tm = f.tm
        /\ v.mer = e.mer /\ w.mer = f.mer /\ v.ptype = e.ptype /\ w.ptype = f.ptype
        /\ v.zone = e.zone /\ w.zone = f.zone /\ v.tz = w.tz
    BY <1>1 DEF LocalNames
  <2> HIDE DEF v, w
  <2>3. Unfound(v, e, w, f, X) BY <2>2 DEF Unfound, Paired, SameLabel, SameZone
  <2>4. X \cap TIME_M = {} /\ X \cap DATE_M = {} BY <1>3 DEF TIME_M, DATE_M, ALL_SECS_M
  <2> HIDE DEF X
  <2> QED BY <2>1, <2>3, <2>4, AlsoPaired
<1> QED BY <1>2, <1>3

\* A word that says nothing of the date, the time or the zone.
LEMMA NotedPaired ==
  ASSUME NEW says, NEW e, NEW f, Paired(says, e, f), NEW v, NEW w, NEW X,
         X \cap (TIME_M \cup DATE_M \cup {"TZ"}) = {},
         DOMAIN v = LocalNames, v.fmask = e.fmask, v.tm = e.tm, v.zone = e.zone, v.tz = e.tz,
         DOMAIN w = LocalNames, w.fmask = f.fmask, w.tm = f.tm, w.zone = f.zone, w.tz = f.tz,
         v.mer = w.mer, SameLabel(v, w),
         NEW e2, e2 = Also(v, X), e2.err = "ok", NEW f2, f2 = Also(w, X), f2.err = "ok"
  PROVE  Paired(says, e2, f2)
<1>1. X \cap TIME_M = {} /\ X \cap DATE_M = {} /\ "TZ" \notin X OBVIOUS
<1>2. Unfound(v, e, w, f, X) BY <1>1 DEF Unfound
<1> QED BY <1>1, <1>2, AlsoPaired

\* A word.
LEMMA WordPaired ==
  ASSUME NEW says, NEW e, NEW f, Paired(says, e, f), NEW lex, NEW next,
         NEW e2, e2 = WordField(e, lex, next), e2.err = "ok",
         NEW f2, f2 = TimeWordField(f, lex, next), f2.err = "ok"
  PROVE  Paired(says, e2, f2)
<1> DEFINE s == DecodeSpecial(WordOf(lex))
<1>1. DOMAIN e = LocalNames /\ DOMAIN f = LocalNames BY DEF Paired
<1>2. \A x, err : DOMAIN x = LocalNames => Refused(x, err).err = err
  BY DEF Refused, LocalNames
<1>3. {} \cap (TIME_M \cup DATE_M \cup {"TZ"}) = {}
      /\ {"AMPM"} \cap (TIME_M \cup DATE_M \cup {"TZ"}) = {}
      /\ {"ADBC"} \cap (TIME_M \cup DATE_M \cup {"TZ"}) = {}
  BY DEF TIME_M, DATE_M, ALL_SECS_M
<1>4. e.mer = f.mer /\ SameLabel(e, f) BY DEF Paired
<1> DEFINE vl == [e EXCEPT !.ptype = s.val]
           wl == [f EXCEPT !.ptype = s.val]
<1>5. /\ DOMAIN vl = LocalNames /\ vl.fmask = e.fmask /\ vl.tm = e.tm /\ vl.zone = e.zone
      /\ vl.tz = e.tz /\ DOMAIN wl = LocalNames /\ wl.fmask = f.fmask /\ wl.tm = f.tm
      /\ wl.zone = f.zone /\ wl.tz = f.tz /\ vl.mer = wl.mer /\ vl.ptype = wl.ptype
  BY <1>1, <1>4 DEF LocalNames
<1>6. CASE s.type = "IGNORE_DTF"
  BY <1>6 DEF WordField, TimeWordField
<1>7. CASE s.type = "RESERV"
  <2>1. e2 = ReservedWord(e, s.val) /\ f2 = ReservedTime(f, s.val)
    BY <1>7 DEF WordField, TimeWordField
  <2> QED BY <2>1, ReservedPaired
<1>8. CASE s.type \in {"DTZMOD", "DTZ", "TZ"}
  <2>1. e2 = ZoneWord(e, s.type, s.val) /\ f2 = ZoneWord(f, s.type, s.val)
    BY <1>8 DEF WordField, TimeWordField
  <2> QED BY <1>8, <2>1, ZoneWordPaired
<1>9. CASE s.type = "AMPM"
  <2> DEFINE v == [e EXCEPT !.mer = s.val]
             w == [f EXCEPT !.mer = s.val]
  <2>1. e2 = Also(v, {"AMPM"}) /\ f2 = Also(w, {"AMPM"})
    BY <1>9 DEF WordField, TimeWordField
  <2>2. /\ DOMAIN v = LocalNames /\ v.fmask = e.fmask /\ v.tm = e.tm /\ v.zone = e.zone
        /\ v.tz = e.tz /\ DOMAIN w = LocalNames /\ w.fmask = f.fmask /\ w.tm = f.tm
        /\ w.zone = f.zone /\ w.tz = f.tz /\ v.mer = w.mer /\ SameLabel(v, w)
    BY <1>1, <1>4 DEF LocalNames, SameLabel
  <2> HIDE DEF v, w
  <2> QED BY <1>3, <2>1, <2>2, NotedPaired
<1>10. CASE s.type = "ADBC"
  <2> DEFINE v == [e EXCEPT !.bc = (s.val = "BC")]
             w == [f EXCEPT !.bc = (s.val = "BC")]
  <2>1. e2 = Also(v, {"ADBC"}) /\ f2 = Also(w, {"ADBC"})
    BY <1>10 DEF WordField, TimeWordField
  <2>2. /\ DOMAIN v = LocalNames /\ v.fmask = e.fmask /\ v.tm = e.tm /\ v.zone = e.zone
        /\ v.tz = e.tz /\ DOMAIN w = LocalNames /\ w.fmask = f.fmask /\ w.tm = f.tm
        /\ w.zone = f.zone /\ w.tz = f.tz /\ v.mer = w.mer /\ SameLabel(v, w)
    BY <1>1, <1>4 DEF LocalNames, SameLabel
  <2> HIDE DEF v, w
  <2> QED BY <1>3, <2>1, <2>2, NotedPaired
<1>11. CASE s.type = "UNITS"
  <2>1. e2 = Also(vl, {}) /\ f2 = Also(wl, {}) BY <1>11 DEF WordField, TimeWordField
  <2>2. SameLabel(vl, wl) BY <1>5 DEF SameLabel
  <2> HIDE DEF vl, wl
  <2> QED BY <1>3, <1>5, <2>1, <2>2, NotedPaired
<1>12. CASE s.type = "ISOTIME"
  <2>1. e2 = IsoTime(e, s.val, next) /\ f2 = IsoTimeOnly(f, s.val, next)
    BY <1>12 DEF WordField, TimeWordField
  <2>2. e2 = Also(vl, {}) /\ f2 = Also(wl, {})
    <3> HIDE DEF s
    <3> QED BY <1>1, <1>2, <2>1 DEF IsoTime, IsoTimeOnly
  <2>3. SameLabel(vl, wl) BY <1>5 DEF SameLabel
  <2> HIDE DEF vl, wl
  <2> QED BY <1>3, <1>5, <2>2, <2>3, NotedPaired
<1>13. CASE s.type = "UNKNOWN_FIELD"
  <2>1. e2 = UnknownWord(e, lex) /\ f2 = UnknownWord(f, lex)
    BY <1>13 DEF WordField, TimeWordField
  <2>2. e2 = NamedZone(e, lex) /\ f2 = NamedZone(f, lex)
    BY <1>1, <1>2, <2>1 DEF UnknownWord
  <2> QED BY <2>2, NamedZonePaired
<1>14. s.type \in {"IGNORE_DTF", "RESERV", "DTZMOD", "DTZ", "TZ", "AMPM", "ADBC", "UNITS",
                   "ISOTIME", "UNKNOWN_FIELD"}
  <2> HIDE DEF s
  <2> SUFFICES ASSUME s.type \notin {"IGNORE_DTF", "RESERV", "DTZMOD", "DTZ", "TZ", "AMPM",
                                     "ADBC", "UNITS", "ISOTIME", "UNKNOWN_FIELD"}
               PROVE  FALSE
    OBVIOUS
  <2>1. f2 = Refused(f, "BAD_FORMAT") BY DEF TimeWordField, s
  <2> QED BY <1>1, <1>2, <2>1
<1> QED BY <1>6, <1>7, <1>8, <1>9, <1>10, <1>11, <1>12, <1>13, <1>14

\* A Julian day among the fields is remembered.
Julian(e) == DOMAIN e = LocalNames /\ e.isjulian

LEMMA JulianAccepted ==
  ASSUME NEW e, Julian(e)
  PROVE  /\ \A r : Julian(Accept(e, r))
         /\ \A err : Julian(Refused(e, err))
         /\ \A X, tm : Julian(Sets(e, X, tm)) /\ Julian(Also(e, X))
<1>1. \A err : Julian(Refused(e, err)) BY DEF Julian, Refused, LocalNames
<1>2. \A r : Julian(Accept(e, r))
  <2> TAKE r
  <2> DEFINE a == [e EXCEPT !.fmask = @ \cup r.tmask, !.tm = r.tm, !.two = r.two]
  <2>1. Accept(e, r) \in {Refused(e, r.err), Refused(e, "BAD_FORMAT"), a} BY DEF Accept
  <2>2. Julian(a) BY DEF Julian, LocalNames
  <2> HIDE DEF a
  <2> QED BY <1>1, <2>1, <2>2
<1> QED BY <1>1, <1>2 DEF Sets, Also

LEMMA JulianChanged ==
  ASSUME NEW e, Julian(e), NEW v,
         NEW x \in {"ptype", "dtype", "mer", "textMonth", "bc", "zone", "tz"}
  PROVE  Julian([e EXCEPT ![x] = v])
BY DEF Julian, LocalNames

LEMMA JulianZone ==
  ASSUME NEW e, Julian(e), NEW lex, NEW fmask
  PROVE  Julian(TimeWithZone(e, lex, fmask)) /\ Julian(NamedZone(e, lex))
<1> DEFINE z  == ZoneBehind(lex)
           r  == DecodeNumberField(NumberBefore(lex), fmask, e.tm, e.two)
           no == TIME_M \subseteq e.fmask \/ Dashes(lex) = {}
           w  == [e EXCEPT !.tz = West(z.tz)]
           g  == Got(r.tmask \cup {"TZ"}, r.tm, r.two)
           v  == [e EXCEPT !.zone = pg_tzset(lex)]
<1>1. TimeWithZone(e, lex, fmask)
        = IF no THEN Refused(e, "BAD_FORMAT") ELSE IF ~ Ok(z) THEN Refused(e, z.err)
          ELSE IF ~ Ok(r) THEN Refused(e, r.err) ELSE Accept(w, g)
  BY DEF TimeWithZone, ZoneBehind, NumberBefore, FirstDash, Dashes
<1>2. NamedZone(e, lex) = Also(v, {"TZ"}) BY DEF NamedZone
<1> HIDE DEF z, r, g, no
<1>3. Julian(w) /\ Julian(v) BY JulianChanged
<1> HIDE DEF w, v
<1> QED BY <1>1, <1>2, <1>3, JulianAccepted

LEMMA JulianDate ==
  ASSUME NEW e, Julian(e), NEW lex, NEW order
  PROVE  Julian(DateField(e, lex, order))
<1> DEFINE w == [e EXCEPT !.ptype = "none"]
           z == DecodeTimezone(SubSeq(lex, EndAt(lex, 1), Len(lex)))
           j == [e EXCEPT !.isjulian = TRUE, !.ptype = "none", !.tz = West(z.tz)]
           X == DATE_M \cup TIME_M \cup {"TZ"}
           t == OnDay(e.tm, j2date(ValAt(lex, 1)))
<1>1. Julian(w) BY JulianChanged
<1>2. Julian(j) BY DEF Julian, LocalNames
<1>3. JulianWithZone(e, lex) = IF ~ Ok(z) THEN Refused(e, z.err) ELSE Sets(j, X, t)
  BY DEF JulianWithZone
<1>4. \/ DateField(e, lex, order) \in {JulianWithZone(e, lex), Refused(e, "BAD_FORMAT"),
                                       TimeWithZone(w, lex, e.fmask), NamedZone(e, lex)}
      \/ \E r : DateField(e, lex, order) = Accept(e, r)
  BY DEF DateField
<1> HIDE DEF w, z, j, X, t
<1>5. Julian(JulianWithZone(e, lex)) BY <1>2, <1>3, JulianAccepted
<1> QED BY <1>1, <1>4, <1>5, JulianAccepted, JulianZone

LEMMA JulianTime ==
  ASSUME NEW e, Julian(e), NEW lex
  PROVE  Julian(TimeField(e, lex)) /\ Julian(TzField(e, lex))
<1> DEFINE w == [e EXCEPT !.ptype = "none"]
           r == WithinDay(DecodeTime(lex, e.tm))
           z == DecodeTimezone(lex)
           v == [e EXCEPT !.tz = West(z.tz)]
<1>1. TimeField(e, lex) \in {Refused(e, "BAD_FORMAT"), Refused(w, r.err), Sets(w, r.tmask, r.tm)}
  BY DEF TimeField, AcceptTime
<1>2. TzField(e, lex) \in {Also(v, {"TZ"}), Refused(e, z.err)} BY DEF TzField
<1>3. Julian(w) /\ Julian(v) BY JulianChanged
<1> HIDE DEF w, v, r, z
<1> QED BY <1>1, <1>2, <1>3, JulianAccepted

LEMMA JulianNumber ==
  ASSUME NEW e, Julian(e), NEW lex, NEW order
  PROVE  Julian(NumberField(e, lex, order))
<1> DEFINE w == [e EXCEPT !.ptype = "none", !.dtype = "DATE",
                          !.isjulian = @ \/ e.ptype = "JULIAN"]
<1>1. Julian(w) BY DEF Julian, LocalNames
<1>2. \E r : NumberField(e, lex, order) \in {Accept(w, r), Accept(e, r)}
  BY DEF NumberField, LabelledNumber, PlainNumber
<1> HIDE DEF w
<1> QED BY <1>1, <1>2, JulianAccepted

LEMMA JulianWord ==
  ASSUME NEW e, Julian(e), NEW lex, NEW next
  PROVE  Julian(WordField(e, lex, next))
<1> DEFINE s == DecodeSpecial(WordOf(lex))
           w1 == [e EXCEPT !.mer = s.val]
           w2 == [e EXCEPT !.bc = (s.val = "BC")]
           w3 == [e EXCEPT !.ptype = s.val]
           w4 == [e EXCEPT !.textMonth = TRUE]
           w5 == [e EXCEPT !.tz.west = @ + s.val * 60]
           w6 == [e EXCEPT !.tz = West(s.val * 60)]
           now == [e EXCEPT !.dtype = "DATE"]
           w7 == [now EXCEPT !.tz = In(SessionZone)]
           w8 == [now EXCEPT !.tz = West(0)]
           w9 == [e EXCEPT !.dtype = s.val]
           bad == Refused(e, "BAD_FORMAT")
           zone == NamedZone(e, lex)
<1>1. \E X, Y, Z, t, u :
        WordField(e, lex, next)
          \in {e, ReservedWord(e, s.val), Sets(w4, X, t), Also(w5, Y), Also(w6, Z),
               Also(w1, {"AMPM"}), Also(w2, {"ADBC"}), Sets(e, {"DOW"}, u), Also(w3, {}),
               bad, zone}
  BY DEF WordField, MonthWord, ZoneWord, IsoTime, UnknownWord
<1>2. \E X, t : ReservedWord(e, s.val) \in {bad, Sets(w7, X, t), Sets(now, X, t),
                                            Sets(w8, X, t), Also(w9, {"RESERV"})}
  BY DEF ReservedWord
<1> HIDE DEF s
<1>3. /\ Julian(w1) /\ Julian(w2) /\ Julian(w3) /\ Julian(w4) /\ Julian(w5) /\ Julian(w6)
      /\ Julian(w7) /\ Julian(w8) /\ Julian(w9) /\ Julian(now)
  BY DEF Julian, LocalNames
<1>4. Julian(bad) /\ Julian(zone) BY JulianAccepted, JulianZone
<1> HIDE DEF w1, w2, w3, w4, w5, w6, w7, w8, w9, now, bad, zone
<1>5. Julian(ReservedWord(e, s.val)) BY <1>2, <1>3, <1>4, JulianAccepted
<1> QED BY <1>1, <1>3, <1>4, <1>5, JulianAccepted

LEMMA JulianStays ==
  ASSUME NEW e, Julian(e), NEW fs, NEW k, NEW order
  PROVE  Julian(DateTimeField(e, fs, k, order))
BY JulianDate, JulianTime, JulianNumber, JulianWord DEF DateTimeField

----------------------------------------------------------------------------
(* All the fields *)

\* One field, read by both.
LEMMA FieldPaired ==
  ASSUME NEW says, NEW e, NEW f, Paired(says, e, f), NEW fs, NEW k, NEW order,
         fs[k] \in FieldSet, says => ~ BeginsWithMonth(fs[k]),
         k = 1 => e = Fresh("DATE") /\ f = Fresh("TIME"),
         NEW e2, e2 = DateTimeField(e, fs, k, order), e2.err = "ok", ~ e2.isjulian,
         NEW f2, f2 = TimeOnlyRound(f, fs, k, order), f2.err = "ok"
  PROVE  Paired(says, e2, f2)
<1>1. fs[k].lex \in Seq(Lexemes)
      /\ (fs[k].ftype = "DATE" => fs[k].lex # <<>> /\ AlphaNum(fs[k].lex[1]))
  BY DEF FieldSet, Begins
<1>2. CASE fs[k].ftype = "DATE"
  <2>1. e2 = DateField(e, fs[k].lex, order) /\ f2 = DateOrTimeField(f, fs, k, order)
    BY <1>2 DEF DateTimeField, TimeOnlyRound
  <2> QED BY <1>1, <1>2, <2>1, DatePaired
<1>3. CASE fs[k].ftype = "TIME"
  <2>1. e2 = TimeField(e, fs[k].lex) /\ f2 = TimeOnlyField(f, fs[k].lex)
    BY <1>3 DEF DateTimeField, TimeOnlyRound
  <2> QED BY <2>1, TimePaired
<1>4. CASE fs[k].ftype = "TZ"
  <2>1. e2 = TzField(e, fs[k].lex) /\ f2 = TzField(f, fs[k].lex)
    BY <1>4 DEF DateTimeField, TimeOnlyRound
  <2> QED BY <2>1, TzPaired
<1>5. CASE fs[k].ftype = "NUMBER"
  <2>1. e2 = NumberField(e, fs[k].lex, order)
        /\ f2 = IF f.ptype # "none" THEN LabelledTime(f, fs[k].lex)
                ELSE PlainTime(f, fs, k, order)
    BY <1>5 DEF DateTimeField, TimeOnlyRound
  <2> QED BY <1>1, <2>1, NumberPaired
<1>6. CASE fs[k].ftype \notin {"DATE", "TIME", "TZ", "NUMBER"}
  <2>1. e2 = WordField(e, fs[k].lex, TypeBehind(fs, k))
        /\ f2 = TimeWordField(f, fs[k].lex, TypeBehind(fs, k))
    BY <1>6 DEF DateTimeField, TimeOnlyRound
  <2> QED BY <2>1, WordPaired
<1> QED BY <1>2, <1>3, <1>4, <1>5, <1>6

\* The rounds of DecodeTimeOnly, each of which depends on the one before, exist for
\* any number of fields ...
RoundsTo(g, n, fs, order) ==
  g = [k \in 0..n |-> IF k = 0 THEN Fresh("TIME") ELSE TimeRound(g[k - 1], fs, k, order)]

LEMMA RoundsFurther ==
  ASSUME NEW n \in Nat, NEW g, NEW fs, NEW order, RoundsTo(g, n, fs, order)
  PROVE  \E h : RoundsTo(h, n + 1, fs, order)
<1> DEFINE Step(k, r) == TimeRound(r, fs, k, order)
           start == Fresh("TIME")
           h == [k \in 0..(n + 1) |-> IF k = n + 1 THEN Step(n + 1, g[n]) ELSE g[k]]
<1> HIDE DEF Step, start
<1>1. g = [k \in 0..n |-> IF k = 0 THEN start ELSE Step(k, g[k - 1])]
  BY DEF RoundsTo, Step, start
<1>2. \A k \in 0..(n + 1) : h[k] = IF k = 0 THEN start ELSE Step(k, h[k - 1])
  <2> TAKE k \in 0..(n + 1)
  <2>1. CASE k = n + 1
    <3>1. n \in 0..(n + 1) /\ n # n + 1 /\ k # 0 /\ k - 1 = n /\ k \in 0..(n + 1) BY <2>1
    <3>2. h[k] = Step(n + 1, g[n]) /\ h[k - 1] = g[n] BY <2>1, <3>1
    <3> QED BY <2>1, <3>1, <3>2
  <2>2. CASE k # n + 1 /\ k # 0
    <3>1. k \in 0..n /\ k - 1 \in 0..(n + 1) /\ k - 1 # n + 1 BY <2>2
    <3>2. h[k] = g[k] /\ h[k - 1] = g[k - 1] BY <2>2, <3>1
    <3>3. g[k] = Step(k, g[k - 1]) BY ONLY <1>1, <2>2, <3>1
    <3> QED BY <2>2, <3>2, <3>3
  <2>3. CASE k = 0
    <3>1. k \in 0..n /\ k # n + 1 BY <2>3
    <3>2. h[k] = g[k] BY <3>1
    <3>3. g[k] = start BY ONLY <1>1, <2>3, <3>1
    <3> QED BY <2>3, <3>2, <3>3
  <2> QED BY <2>1, <2>2, <2>3
<1> HIDE DEF h
<1>3. h = [k \in 0..(n + 1) |-> h[k]] BY DEF h
<1>4. h = [k \in 0..(n + 1) |-> IF k = 0 THEN start ELSE Step(k, h[k - 1])]
  BY <1>2, <1>3, Zenon
<1> QED BY <1>4 DEF RoundsTo, Step, start

LEMMA RoundsToAny ==
  ASSUME NEW fs, NEW order, NEW n \in Nat
  PROVE  \E g : RoundsTo(g, n, fs, order)
<1> DEFINE P(k) == \E g : RoundsTo(g, k, fs, order)
           S == {k \in Nat : ~ P(k)}
<1>0. P(0)
  <2> DEFINE g == [k \in 0..0 |-> Fresh("TIME")]
  <2>1. g = [k \in 0..0 |-> IF k = 0 THEN Fresh("TIME") ELSE TimeRound(g[k - 1], fs, k, order)]
    OBVIOUS
  <2> HIDE DEF g
  <2> QED BY <2>1 DEF RoundsTo
<1>1. \A k \in Nat : P(k) => P(k + 1)
  BY RoundsFurther
<1> HIDE DEF P
<1>2. SUFFICES ASSUME S # {} PROVE FALSE
  BY DEF P
<1>3. PICK m \in S : \A k \in S : m <= k
  <2>1. S \subseteq Nat OBVIOUS
  <2> HIDE DEF S
  <2> QED BY <1>2, <2>1, LeastNatural
<1>4. m # 0 /\ m - 1 \in Nat BY <1>0, <1>3
<1>5. P(m - 1) BY <1>3, <1>4
<1> QED BY <1>1, <1>3, <1>4, <1>5

\* ... and TimeRounds are they.
LEMMA RoundsInTurn ==
  ASSUME NEW fs, NEW order, Len(fs) \in Nat
  PROVE  /\ TimeRounds(fs, order)[0] = Fresh("TIME")
         /\ \A k \in 1..Len(fs) :
              TimeRounds(fs, order)[k] = TimeRound(TimeRounds(fs, order)[k - 1], fs, k, order)
<1> DEFINE F == TimeRounds(fs, order)
           n == Len(fs)
           start == Fresh("TIME")
<1> HIDE DEF start
<1>1. F = CHOOSE g : RoundsTo(g, n, fs, order)
  BY DEF TimeRounds, RoundsTo
<1>2. RoundsTo(F, n, fs, order)
  BY <1>1, RoundsToAny
<1> HIDE DEF F
<1>3. F = [k \in 0..n |-> IF k = 0 THEN start ELSE TimeRound(F[k - 1], fs, k, order)]
  BY <1>2 DEF RoundsTo, start
<1>4. F[0] = start
  <2>1. 0 \in 0..n OBVIOUS
  <2> QED BY ONLY <1>3, <2>1
<1>5. \A k \in 1..n : F[k] = TimeRound(F[k - 1], fs, k, order)
  <2> TAKE k \in 1..n
  <2>1. k \in 0..n /\ k # 0 OBVIOUS
  <2> QED BY ONLY <1>3, <2>1
<1> QED BY <1>4, <1>5 DEF F, start

----------------------------------------------------------------------------
(* The ends *)

\* ValidateDate leaves the time but for "am" and "pm".
Checked(e, t) ==
  /\ DOMAIN t = LocalNames /\ t.fmask = e.fmask /\ t.zone = e.zone /\ t.tz = e.tz
  /\ t.isjulian = e.isjulian /\ t.dtype = e.dtype
  /\ Time(t.tm) = <<ApplyMeridiem(e.mer, e.tm.hour), e.tm.min, e.tm.sec, e.tm.fsec>>

LEMMA ValidatedChecked ==
  ASSUME NEW e, DOMAIN e = LocalNames, DOMAIN e.tm = TmParts, Validated(e).err = "ok"
  PROVE  Checked(e, Validated(e))
<1> DEFINE v == ValidateDate(e.fmask, e.isjulian, e.two, e.bc, e.tm)
           w == [v.tm EXCEPT !.hour = ApplyMeridiem(e.mer, v.tm.hour)]
           t == [e EXCEPT !.tm = w]
           y == IF "YEAR" \in e.fmask THEN SettledYear(e.tm.year, e.isjulian, e.bc, e.two)
                ELSE e.tm.year
           x == [e.tm EXCEPT !.year = y]
           u == IF "DOY" \in e.fmask THEN DayOfYear(x) ELSE x
<1>1. ~ Ok(v) => Validated(e) = Refused(e, v.err)
  BY DEF Validated, HourOfDay
<1>2. \A err : Refused(e, err).err = err BY DEF Refused, LocalNames
<1>3. v \in {Fail("FIELD_OVERFLOW"), DayInMonth(e.fmask, u)} BY DEF ValidateDate
<1>4. DOMAIN u = TmParts /\ Time(u) = Time(e.tm)
  <2> HIDE DEF y
  <2>1. DOMAIN x = TmParts /\ Time(x) = Time(e.tm) BY DEF TmParts, Time
  <2> HIDE DEF x
  <2>2. DOMAIN DayOfYear(x) = TmParts /\ Time(DayOfYear(x)) = Time(x)
    BY <2>1 DEF DayOfYear, OnDay, WithDate, Time, TmParts
  <2> QED BY <2>1, <2>2
<1> HIDE DEF u
<1>5. Ok(v) => v.tm = u BY <1>3 DEF DayInMonth, Ok, Fail
<1> HIDE DEF v, t
<1>6. Ok(v) /\ Validated(e) = t
  <2>1. Ok(v)
    <3> SUFFICES ASSUME ~ Ok(v) PROVE FALSE OBVIOUS
    <3>1. Validated(e).err = v.err BY <1>1, <1>2
    <3> QED BY <3>1 DEF Ok
  <2>2. Validated(e) = t \/ Validated(e) = Refused(e, "FIELD_OVERFLOW")
    BY <2>1 DEF Validated, HourOfDay, v, t
  <2> QED BY <1>2, <2>1, <2>2
<1>7. DOMAIN v.tm = TmParts /\ v.tm.hour = e.tm.hour /\ v.tm.min = e.tm.min
      /\ v.tm.sec = e.tm.sec /\ v.tm.fsec = e.tm.fsec
  BY <1>4, <1>5, <1>6 DEF Time
<1>8. Time(w) = <<ApplyMeridiem(e.mer, e.tm.hour), e.tm.min, e.tm.sec, e.tm.fsec>>
  <2> DEFINE h == ApplyMeridiem(e.mer, v.tm.hour)
  <2>1. h = ApplyMeridiem(e.mer, e.tm.hour) BY <1>7
  <2> HIDE DEF h
  <2>2. w.hour = h /\ w.min = v.tm.min /\ w.sec = v.tm.sec /\ w.fsec = v.tm.fsec
    BY <1>7 DEF TmParts, h
  <2> HIDE DEF w
  <2> QED BY <1>7, <2>1, <2>2 DEF Time
<1> HIDE DEF w
<1>9. Checked(e, t) BY <1>8 DEF Checked, LocalNames, t
<1> QED BY <1>6, <1>9

\* The zone of the whole: by name, that of the session, or as given.
Zoned(t, e2) ==
  /\ e2.tm = t.tm /\ e2.fmask = t.fmask /\ e2.isjulian = t.isjulian
  /\ e2.tz = IF t.zone # NoZone THEN In(t.zone)
             ELSE IF "TZ" \notin t.fmask THEN In(SessionZone) ELSE t.tz

LEMMA ZonesFound ==
  ASSUME NEW t, DOMAIN t = LocalNames, t.err = "ok"
  PROVE  /\ FullDate(t).err = "ok" => Zoned(t, FullDate(t))
         /\ FullTime(t).err = "ok" => Zoned(t, FullTime(t)) /\ TIME_M \subseteq t.fmask
<1> DEFINE z == IF t.zone # NoZone THEN In(t.zone)
                ELSE IF "TZ" \notin t.fmask THEN In(SessionZone) ELSE t.tz
           w == [t EXCEPT !.tz = z]
<1>1. \A err : Refused(t, err).err = err BY DEF Refused, LocalNames
<1>2. Zoned(t, w) BY DEF Zoned, LocalNames
<1>3. FullDate(t) \in {Refused(t, "TIME_ONLY"), Refused(t, "BAD_FORMAT"), w}
  BY DEF FullDate
<1>4. \/ FullTime(t) = Refused(t, "FIELD_OVERFLOW") \/ FullTime(t) = Refused(t, "BAD_FORMAT")
      \/ FullTime(t) = w /\ TIME_M \subseteq t.fmask
  <2>1. TimeZone(t) = Refused(t, "BAD_FORMAT") \/ TimeZone(t) = w BY DEF TimeZone
  <2> HIDE DEF w
  <2> QED BY <2>1 DEF FullTime
<1> HIDE DEF w, z
<1> QED BY <1>1, <1>2, <1>3, <1>4

\* What both accept in the end has the same time, and the same zone.
LEMMA EndsPaired ==
  ASSUME NEW says, NEW e, NEW f, Paired(says, e, f),
         NEW e2, e2 = DateTimeEnd(e), e2.err = "ok", e2.dtype = "DATE",
         TIME_M \subseteq e2.fmask, NEW f2, f2 = TimeEnd(f), f2.err = "ok"
  PROVE  /\ Time(e2.tm) = Time(f2.tm)
         /\ says /\ "DTZMOD" \notin e2.fmask => e2.tz = f2.tz
<1> DEFINE t == Validated(e)
           u == Validated(f)
<1>1. DOMAIN e = LocalNames /\ DOMAIN f = LocalNames /\ DOMAIN e.tm = TmParts
      /\ DOMAIN f.tm = TmParts /\ e.mer = f.mer
  BY DEF Paired
<1>2. e2 = IF t.err = "ok" /\ t.dtype = "DATE" THEN FullDate(t) ELSE t BY DEF DateTimeEnd
<1>3. f2 = FullTime(u) BY DEF TimeEnd
<1> HIDE DEF t, u
<1>4. t.err = "ok" /\ e2 = FullDate(t) BY <1>2
<1>5. u.err = "ok" BY <1>3 DEF FullTime
<1>6. Checked(e, t) /\ Checked(f, u) BY <1>1, <1>4, <1>5, ValidatedChecked DEF t, u
<1>7. Zoned(t, e2) /\ Zoned(u, f2) /\ TIME_M \subseteq u.fmask
  BY <1>3, <1>4, <1>5, <1>6, ZonesFound DEF Checked
<1>8. TIME_M \subseteq e.fmask /\ TIME_M \subseteq f.fmask
  BY <1>6, <1>7 DEF Checked, Zoned
<1>9. SameTime(e, f) /\ SameZones(says, e, f)
  <2>1. ~ Ahead(e, f) BY <1>8, TimeNames DEF Ahead, TimeIn
  <2>2. ~ Short(e, f) BY <1>8, TimeNames DEF Short
  <2> QED BY <2>1, <2>2 DEF Paired
<1>10. Time(e2.tm) = Time(f2.tm)
  <2>1. e.tm.hour = f.tm.hour /\ e.tm.min = f.tm.min /\ e.tm.sec = f.tm.sec
        /\ e.tm.fsec = f.tm.fsec
    BY <1>9 DEF SameTime, Time
  <2> QED BY <1>1, <1>6, <1>7, <2>1 DEF Checked, Zoned
<1>11. ASSUME says, "DTZMOD" \notin e2.fmask PROVE e2.tz = f2.tz
  <2>1. SameZone(e, f) \/ SaidNow(e, f) BY <1>6, <1>7, <1>9, <1>11 DEF SameZones, Checked, Zoned
  <2> QED BY <1>6, <1>7, <2>1 DEF SameZone, SaidNow, Checked, Zoned
<1> QED BY <1>10, <1>11

----------------------------------------------------------------------------
(* Both decoders through a whole call *)

\* No date begins with a month's name.
NoMonthFirst(fs) == \A k \in DOMAIN fs : ~ BeginsWithMonth(fs[k])

\* While timestamptz_in reads its fields, its locals and those DecodeTimeOnly would
\* have by then are a pair, unless a Julian day was read or DecodeTimeOnly has
\* reported an error.
Together ==
  entry = "timestamptz" =>
    LET f == TimeRounds(field, setting)[i - 1]
    IN  /\ pc = "fields" =>
             /\ i \in 1..(Len(field) + 1)
             /\ i = 1 => d = Fresh("DATE")
             /\ Julian(d) \/ f.err # "ok" \/ Paired(NoMonthFirst(field), d, f)
        /\ pc = "decoded" => EntriesAgree

\* At first nothing has been read.
LEMMA PairStart ==
  ASSUME NEW says
  PROVE  Paired(says, Fresh("DATE"), Fresh("TIME"))
<1> DEFINE e == Fresh("DATE")
           f == Fresh("TIME")
<1>1. /\ DOMAIN e = LocalNames /\ DOMAIN f = LocalNames /\ e.tm = NoTm /\ f.tm = NoTm
      /\ e.fmask = {} /\ f.fmask = {} /\ e.mer = f.mer /\ e.ptype = f.ptype
      /\ e.zone = NoZone /\ f.zone = NoZone /\ e.tz = West(0) /\ f.tz = West(0)
  BY DEF Fresh, LocalNames
<1>2. DOMAIN NoTm = TmParts BY DEF NoTm, TmParts
<1> HIDE DEF e, f
<1>3. SameTime(e, f) /\ SameZones(says, e, f) /\ SameLabel(e, f)
  BY <1>1 DEF SameTime, TimeIn, SameZones, SameZone, SameLabel
<1> QED BY <1>1, <1>2, <1>3 DEF Paired, e, f

\* A field read keeps the pair.
LEMMA ReadTogether ==
  ASSUME Dates, Dates', Together, NEW ftypes, Reading("timestamptz", ftypes),
         Read(DateTimeField(d, field, i, setting), 1)
  PROVE  Together'
<1> DEFINE e2 == DateTimeField(d, field, i, setting)
           F  == TimeRounds(field, setting)
           f  == F[i - 1]
           f2 == F[i]
           says == NoMonthFirst(field)
<1>1. entry = "timestamptz" /\ pc = "fields" /\ Inside(field, i) BY DEF Reading
<1>2. field \in Seq(FieldSet) /\ DOMAIN d = LocalNames /\ d.err = "ok"
  BY <1>1 DEF Dates, Sound
<1>3. Len(field) \in Nat /\ i \in 1..Len(field) /\ DOMAIN field = 1..Len(field)
  BY <1>1, <1>2, LenProperties DEF Inside
<1>4. field[i] \in FieldSet BY <1>2, <1>3, ElementOfSeq
<1>5. F[0] = Fresh("TIME") /\ f2 = TimeRound(f, field, i, setting)
  BY <1>3, RoundsInTurn
<1>6. i = 1 => d = Fresh("DATE") BY <1>1 DEF Together
<1>7. Julian(d) \/ f.err # "ok" \/ Paired(says, d, f) BY <1>1 DEF Together
<1>8. /\ entry' = entry /\ field' = field /\ setting' = setting /\ d' = e2 /\ i' = i + 1
      /\ pc' = IF e2.err = "ok" THEN "fields" ELSE "refused"
  BY <1>1 DEF Read, OnError
<1>9. i' \in 1..(Len(field) + 1) /\ i' # 1 /\ i' - 1 = i BY <1>3, <1>8
<1>10. i = 1 => f = Fresh("TIME") BY <1>5
<1> HIDE DEF F, e2
<1>11. e2.err = "ok" => DOMAIN e2 = LocalNames
  <2> SUFFICES ASSUME e2.err = "ok" PROVE DOMAIN e2 = LocalNames OBVIOUS
  <2>1. Sound(d)' BY <1>1, <1>8 DEF Dates
  <2> QED BY <1>8, <2>1 DEF Sound
<1>12. e2.err = "ok" => Julian(e2) \/ f2.err # "ok" \/ Paired(says, e2, f2)
  <2> SUFFICES ASSUME e2.err = "ok", f2.err = "ok", ~ Julian(e2) PROVE Paired(says, e2, f2)
    OBVIOUS
  <2>1. ~ Julian(d) BY JulianStays DEF e2
  <2>2. f.err = "ok" /\ f2 = TimeOnlyRound(f, field, i, setting)
    BY <1>5 DEF TimeRound
  <2>3. Paired(says, d, f) BY <1>7, <2>1, <2>2
  <2>4. ~ e2.isjulian BY <1>11 DEF Julian
  <2>5. says => ~ BeginsWithMonth(field[i]) BY <1>3 DEF NoMonthFirst
  <2>6. e2 = DateTimeField(d, field, i, setting) BY DEF e2
  <2> HIDE DEF says, f, f2
  <2> QED BY <1>4, <1>6, <1>10, <2>2, <2>3, <2>4, <2>5, <2>6, FieldPaired
<1>13. CASE e2.err # "ok" BY <1>1, <1>8, <1>13 DEF Together
<1>14. CASE e2.err = "ok"
  <2>1. Julian(d') \/ TimeRounds(field', setting')[i' - 1].err # "ok"
        \/ Paired(NoMonthFirst(field'), d', TimeRounds(field', setting')[i' - 1])
    BY <1>8, <1>9, <1>12, <1>14 DEF F
  <2>2. pc' = "fields" /\ i' \in 1..(Len(field') + 1) /\ i' # 1 BY <1>8, <1>9, <1>14
  <2> QED BY <2>1, <2>2 DEF Together
<1> QED BY <1>13, <1>14

\* The locals after the checks of the whole, which leave a Julian day remembered.
LEMMA EndRemembers ==
  ASSUME NEW e, DOMAIN e = LocalNames, DOMAIN e.tm = TmParts, DateTimeEnd(e).err = "ok"
  PROVE  DateTimeEnd(e).isjulian = e.isjulian
<1> DEFINE t == Validated(e)
<1>1. DateTimeEnd(e) = IF t.err = "ok" /\ t.dtype = "DATE" THEN FullDate(t) ELSE t
  BY DEF DateTimeEnd
<1> HIDE DEF t
<1>2. t.err = "ok" BY <1>1
<1>3. Checked(e, t) BY <1>2, ValidatedChecked DEF t
<1>4. FullDate(t).err = "ok" => Zoned(t, FullDate(t)) BY <1>2, <1>3, ZonesFound DEF Checked
<1> QED BY <1>1, <1>3, <1>4 DEF Checked, Zoned

\* The checks of the whole find the same in both.
LEMMA CloseTogether ==
  ASSUME Dates, Together, EndTimestamp
  PROVE  Together'
<1> DEFINE e2 == DateTimeEnd(d)
           f  == TimeRounds(field, setting)[Len(field)]
           says == NoMonthFirst(field)
<1>1. entry = "timestamptz" /\ pc = "fields" /\ ~ Inside(field, i)
  BY DEF EndTimestamp, Close
<1>2. field \in Seq(FieldSet) /\ DOMAIN d = LocalNames /\ d.err = "ok" /\ DOMAIN d.tm = TmParts
  BY <1>1 DEF Dates, Sound, Known
<1>3. Len(field) \in Nat BY <1>2, LenProperties
<1>4. i \in 1..(Len(field) + 1) BY <1>1 DEF Together
<1>5. i - 1 = Len(field) BY <1>1, <1>3, <1>4 DEF Inside
<1>6. Julian(d) \/ f.err # "ok" \/ Paired(says, d, f) BY <1>1, <1>5 DEF Together
<1>7. /\ entry' = entry /\ field' = field /\ setting' = setting /\ d' = e2
      /\ pc' = IF e2.err = "ok" THEN "decoded" ELSE "refused"
  BY <1>1 DEF EndTimestamp, Close, OnError
<1>8. DecodeTimeOnly(field, setting) = IF f.err # "ok" THEN f ELSE TimeEnd(f)
  BY DEF DecodeTimeOnly, TimeEnded
<1>9. e2.err = "ok" => e2.isjulian = d.isjulian BY <1>2, EndRemembers
<1> HIDE DEF e2, f
<1> DEFINE g == DecodeTimeOnly(field, setting)
<1>10. ASSUME e2.err = "ok", e2.dtype = "DATE", TIME_M \subseteq e2.fmask, ~ e2.isjulian,
              g.err = "ok"
       PROVE  Time(g.tm) = Time(e2.tm) /\ (says /\ "DTZMOD" \notin e2.fmask => g.tz = e2.tz)
  <2>1. f.err = "ok" /\ g = TimeEnd(f) BY <1>8, <1>10
  <2>2. ~ Julian(d) BY <1>9, <1>10 DEF Julian
  <2>3. Paired(says, d, f) BY <1>6, <2>1, <2>2
  <2> HIDE DEF says, g
  <2> QED BY <1>10, <2>1, <2>3, EndsPaired DEF e2
<1> HIDE DEF g
<1>11. EntriesAgree' \/ e2.err # "ok"
  <2> SUFFICES ASSUME e2.err = "ok", Accepted', TIME_M \subseteq d'.fmask, ~ d'.isjulian
               PROVE  SameTimeIfRead(DecodeTimeOnly(field, setting))'
    BY DEF EntriesAgree
  <2>1. DecodeTimeOnly(field', setting') = g BY <1>7 DEF g
  <2>2. e2.dtype = "DATE" BY <1>7 DEF Accepted
  <2>3. g.err = "ok" => Time(g.tm) = Time(d'.tm)
          /\ (says /\ "DTZMOD" \notin d'.fmask => g.tz = d'.tz)
    BY <1>7, <1>10, <2>2
  <2>4. SaysZone' => says /\ "DTZMOD" \notin d'.fmask
    BY <1>7 DEF SaysZone, NoMonthFirst
  <2> HIDE DEF says
  <2> QED BY <2>1, <2>3, <2>4 DEF SameTimeIfRead
<1> QED BY <1>7, <1>11 DEF Together

\* Every step keeps it.
LEMMA TogetherKept == Dates /\ Dates' /\ Together /\ [Next]_vars => Together'
<1> SUFFICES ASSUME Dates, Dates', Together, [Next]_vars PROVE Together' OBVIOUS
<1>1. CASE UNCHANGED vars
  BY <1>1 DEF Together, vars, EntriesAgree, Accepted, SameTimeIfRead, SaysZone
<1>2. CASE Parse
  <2>1. CASE pc' # "fields" \/ entry # "timestamptz"
    BY <1>2, <2>1 DEF Parse, OnError, Together
  <2>2. CASE pc' = "fields" /\ entry = "timestamptz"
    <3>1. i' = 1 /\ d' = d /\ pc = "parse" /\ entry' = entry
      BY <1>2, <2>2 DEF Parse, OnError
    <3>2. d = Fresh("DATE") /\ field' \in Seq(FieldSet) BY <2>2, <3>1 DEF Dates
    <3>3. Len(field') \in Nat BY <3>2, LenProperties
    <3>4. i' - 1 = 0 /\ i' \in 1..(Len(field') + 1) BY <3>1, <3>3
    <3>5. TimeRounds(field', setting')[0] = Fresh("TIME") BY <3>3, RoundsInTurn
    <3>6. Paired(NoMonthFirst(field'), d', TimeRounds(field', setting')[i' - 1])
      BY <3>1, <3>2, <3>4, <3>5, PairStart
    <3> QED BY <2>2, <3>1, <3>2, <3>4, <3>6 DEF Together
  <2> QED BY <2>1, <2>2
<1>3. CASE ReadDate
  <2>1. Reading("timestamptz", {"DATE"}) /\ Read(DateTimeField(d, field, i, setting), 1)
    BY <1>3 DEF ReadDate, Reading, DateTimeField
  <2> QED BY <2>1, ReadTogether
<1>4. CASE ReadTime
  <2>1. Reading("timestamptz", {"TIME"}) /\ Read(DateTimeField(d, field, i, setting), 1)
    BY <1>4 DEF ReadTime, Reading, DateTimeField
  <2> QED BY <2>1, ReadTogether
<1>5. CASE ReadZone
  <2>1. Reading("timestamptz", {"TZ"}) /\ Read(DateTimeField(d, field, i, setting), 1)
    BY <1>5 DEF ReadZone, Reading, DateTimeField
  <2> QED BY <2>1, ReadTogether
<1>6. CASE ReadNumber
  <2>1. Reading("timestamptz", {"NUMBER"}) /\ Read(DateTimeField(d, field, i, setting), 1)
    BY <1>6 DEF ReadNumber, Reading, DateTimeField
  <2> QED BY <2>1, ReadTogether
<1>7. CASE ReadWord
  <2>1. Reading("timestamptz", {"STRING", "SPECIAL"})
        /\ Read(DateTimeField(d, field, i, setting), 1)
    BY <1>7 DEF ReadWord, Reading, DateTimeField
  <2> QED BY <2>1, ReadTogether
<1>8. CASE EndTimestamp BY <1>8, CloseTogether
<1>9. CASE ReadTimeOnly \/ EndTime \/ ReadSpan \/ EndSpan
  <2>1. entry \in {"time", "interval"} /\ entry' = entry
    BY <1>9 DEF ReadTimeOnly, EndTime, ReadSpan, EndSpan, Reading, Read, Close
  <2> QED BY <2>1 DEF Together
<1>10. CASE TryIso \/ ReadIso
  <2>1. entry' = entry /\ pc \in {"iso", "iso_fields"} BY <1>10 DEF TryIso, ReadIso
  <2>2. entry' # "timestamptz" BY <2>1 DEF Dates
  <2> QED BY <2>2 DEF Together
<1>11. CASE Store \/ PlusMonths
  <2>1. pc' \in {"stored", "moved", "refused"} BY <1>11 DEF Store, PlusMonths
  <2> QED BY <2>1 DEF Together
<1> QED BY <1>1, <1>2, <1>3, <1>4, <1>5, <1>6, <1>7, <1>8, <1>9, <1>10, <1>11 DEF Next

\* A date and time that timestamptz_in and time_in's decoder both accept has the same
\* time of day under both, and the same zone unless a date in it begins with a month's
\* name or "dst" stands behind it: whatever the fields, their order and the tables of
\* words (DecodeDateTime.c against DecodeTimeOnly.c).
THEOREM EntriesReadAlike == Spec => []EntriesAgree
<1>1. Init => Together BY DEF Init, Together
<1>2. Together => EntriesAgree BY DEF Together, EntriesAgree, Accepted
<1> QED BY <1>1, <1>2, TogetherKept, DatesHeld, PTL DEF Spec

=============================================================================
