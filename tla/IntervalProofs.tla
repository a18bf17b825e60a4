--------------------------- MODULE IntervalProofs ---------------------------
(***************************************************************************)
(* The justification functions and the decomposition of an interval, for    *)
(* every width of int and every length of day, month and hour.              *)
(***************************************************************************)
EXTENDS Interval, TLAPS

----------------------------------------------------------------------------
(* Division towards zero, and wrapping *)

LEMMA EuclideanDivision ==
  ASSUME NEW a \in Nat, NEW b \in Nat \ {0}
  PROVE  /\ a \div b \in Nat /\ (a \div b) * b \in Nat
         /\ (a \div b) * b <= a /\ a < (a \div b) * b + b
  OBVIOUS

\* Quotient and remainder make up the dividend and share its sign.
LEMMA Division ==
  ASSUME NEW a \in Int, NEW b \in Nat \ {0}
  PROVE  /\ Quot(a, b) \in Int /\ Rem(a, b) \in Int /\ Quot(a, b) * b \in Int
         /\ a = Quot(a, b) * b + Rem(a, b)
         /\ Within(Rem(a, b), b)
         /\ a >= 0 => Quot(a, b) >= 0 /\ Rem(a, b) >= 0
         /\ a <= 0 => Quot(a, b) <= 0 /\ Rem(a, b) <= 0
<1>1. CASE a >= 0
  <2> DEFINE q == a \div b
  <2>1. q \in Nat /\ q * b \in Nat /\ q * b <= a /\ a < q * b + b
    BY <1>1, EuclideanDivision
  <2>2. Quot(a, b) = q BY <1>1 DEF Quot
  <2>3. Rem(a, b) = a - q * b BY <2>2 DEF Rem
  <2> HIDE DEF q
  <2>4. a <= 0 => q * b = 0 /\ a = 0
    BY <1>1, <2>1
  <2>5. q * b = 0 => q = 0
    BY <2>1
  <2> QED BY <1>1, <2>1, <2>2, <2>3, <2>4, <2>5 DEF Within
<1>2. CASE ~ (a >= 0)
  <2> DEFINE q == (-a) \div b
  <2>1. /\ -a \in Nat /\ -a > 0
    BY <1>2
  <2>2. q \in Nat /\ q * b \in Nat /\ q * b <= -a /\ -a < q * b + b
    BY <2>1, EuclideanDivision
  <2>3. Quot(a, b) = -q BY <1>2 DEF Quot
  <2> HIDE DEF q
  <2>4. (-q) * b = -(q * b) BY <2>2
  <2>5. Rem(a, b) = a + q * b BY <2>2, <2>3, <2>4 DEF Rem
  <2> QED BY <2>1, <2>2, <2>3, <2>4, <2>5 DEF Within
<1>3. QED BY <1>1, <1>2

\* There is one such quotient and remainder.
LEMMA DivisionUnique ==
  ASSUME NEW q \in Int, NEW r \in Int, NEW b \in Nat \ {0},
         Within(r, b), SameSign(q, r)
  PROVE  Quot(q * b + r, b) = q /\ Rem(q * b + r, b) = r
<1> DEFINE a == q * b + r
           p == Quot(a, b)
           s == Rem(a, b)
<1>1. a \in Int /\ q * b \in Int
  OBVIOUS
<1>2. /\ p \in Int /\ s \in Int /\ p * b \in Int /\ a = p * b + s
      /\ -b < s /\ s < b /\ -b < r /\ r < b
      /\ a >= 0 => p >= 0 /\ s >= 0
      /\ a <= 0 => p <= 0 /\ s <= 0
  BY <1>1, Division DEF Within
<1> HIDE DEF p, s
<1>3. q > 0 => q * b >= b
  OBVIOUS
<1>4. q < 0 => q * b <= -b
  OBVIOUS
<1>5. q = 0 => q * b = 0
  OBVIOUS
<1>6. q * b + r = p * b + s /\ q * b - p * b = s - r
  BY <1>1, <1>2
<1>7. -b < s - r /\ s - r < b
  <2>1. CASE q > 0
    <3>1. r >= 0 BY <2>1 DEF SameSign
    <3>2. a >= 0 BY <1>1, <1>3, <2>1, <3>1
    <3> QED BY <1>2, <3>1, <3>2
  <2>2. CASE q < 0
    <3>1. r <= 0 BY <2>2 DEF SameSign
    <3>2. a <= 0 BY <1>1, <1>4, <2>2, <3>1
    <3> QED BY <1>2, <3>1, <3>2
  <2>3. CASE q = 0
    <3>1. a = r BY <1>1, <1>5, <2>3
    <3> QED BY <1>2, <3>1
  <2> QED BY <2>1, <2>2, <2>3
<1>8. (q - p) * b = q * b - p * b
  BY <1>2
<1>9. q - p >= 1 => (q - p) * b >= b
  BY <1>2
<1>10. q - p <= -1 => (q - p) * b <= -b
  BY <1>2
<1>11. q = p
  BY <1>2, <1>6, <1>7, <1>8, <1>9, <1>10
<1>12. s = r
  BY <1>2, <1>6, <1>11
<1>13. QED BY <1>11, <1>12 DEF p, s

LEMMA WrapInt32 ==
  ASSUME NEW x \in Int
  PROVE  Wrap(x) \in Int32 /\ (x \in Int32 => Wrap(x) = x)
<1> DEFINE w == (x + INT_LIMIT) % (2 * INT_LIMIT)
<1>1. INT_LIMIT \in Nat \ {0}
  BY IntervalAssumption
<1>2. w \in 0..(2 * INT_LIMIT - 1)
  BY <1>1
<1>3. x \in Int32 => w = x + INT_LIMIT
  BY <1>1 DEF Int32
<1>4. QED BY <1>1, <1>2, <1>3 DEF Wrap, Int32

\* The quotient of an int is an int.
LEMMA QuotInt32 ==
  ASSUME NEW a \in Int32, NEW b \in Nat \ {0}
  PROVE  Quot(a, b) \in Int32 /\ Rem(a, b) \in Int32
<1>1. INT_LIMIT \in Nat \ {0} /\ a \in Int
  BY IntervalAssumption DEF Int32
<1> DEFINE q == Quot(a, b)
           r == Rem(a, b)
<1>2. /\ q \in Int /\ r \in Int /\ a = q * b + r /\ q * b \in Int
      /\ a >= 0 => q >= 0 /\ r >= 0
      /\ a <= 0 => q <= 0 /\ r <= 0
  BY <1>1, Division
<1> HIDE DEF q, r
<1>3. (q >= 0 => q * b >= q) /\ (q <= 0 => q * b <= q)
  BY <1>2
<1>4. QED BY <1>1, <1>2, <1>3 DEF Int32, q, r

----------------------------------------------------------------------------
(* The steps of a justification *)

\* Intervals by their fields.
LEMMA SpanFields ==
  ASSUME NEW m, NEW d, NEW t
  PROVE  /\ Span(m, d, t).month = m /\ Span(m, d, t).day = d
         /\ Span(m, d, t).time = t
         /\ m \in Int32 /\ d \in Int32 /\ t \in Int => Span(m, d, t) \in Intervals
BY DEF Span, Intervals

LEMMA IntervalFields ==
  ASSUME NEW s \in Intervals
  PROVE  /\ s.month \in Int32 /\ s.day \in Int32 /\ s.time \in Int
         /\ s.month \in Int /\ s.day \in Int
         /\ s = Span(s.month, s.day, s.time)
         /\ INT_LIMIT \in Nat \ {0}
BY IntervalAssumption DEF Intervals, Int32, Span

LEMMA WholeDaysFacts ==
  ASSUME NEW s \in Intervals
  PROVE  /\ WholeDays(s) \in Intervals
         /\ Within(WholeDays(s).time, USECS_PER_DAY)
         /\ ~ WrapsDay(s) => Total(WholeDays(s)) = Total(s)
<1> DEFINE U == USECS_PER_DAY
           q == Quot(s.time, U)
           r == Rem(s.time, U)
           D == DAYS_PER_MONTH
<1>1. /\ s.month \in Int32 /\ s.day \in Int /\ s.month \in Int /\ s.time \in Int
      /\ U \in Nat \ {0} /\ D \in Nat
  BY IntervalFields, IntervalAssumption
<1>2. /\ q \in Int /\ r \in Int /\ q * U \in Int /\ s.time = q * U + r
      /\ Within(r, U)
  BY <1>1, Division
<1> HIDE DEF q, r
<1>3. WholeDays(s) = Span(s.month, Wrap(s.day + q), r)
  BY DEF WholeDays, q, r
<1>4. Wrap(s.day + q) \in Int32 /\ (s.day + q \in Int32 => Wrap(s.day + q) = s.day + q)
  BY <1>1, <1>2, WrapInt32
<1>5. WholeDays(s) \in Intervals /\ WholeDays(s).time = r
  BY <1>1, <1>2, <1>3, <1>4, SpanFields
<1>6. ASSUME ~ WrapsDay(s) PROVE Total(WholeDays(s)) = Total(s)
  <2> DEFINE x == s.month * D + s.day
  <2>1. Wrap(s.day + q) = s.day + q
    BY <1>4, <1>6 DEF WrapsDay, q
  <2>2. x \in Int /\ s.month * D + (s.day + q) = x + q
    BY <1>1, <1>2
  <2>3. Total(WholeDays(s)) = (x + q) * U + r
    BY <1>3, <2>1, <2>2, SpanFields DEF Total
  <2> HIDE DEF x
  <2>4. (x + q) * U = x * U + q * U
    BY <1>1, <1>2, <2>2
  <2>5. Total(s) = x * U + s.time
    BY DEF Total, x
  <2> QED BY <1>1, <1>2, <2>2, <2>3, <2>4, <2>5
<1>7. QED BY <1>2, <1>5, <1>6

LEMMA WholeMonthsFacts ==
  ASSUME NEW s \in Intervals
  PROVE  /\ WholeMonths(s) \in Intervals
         /\ WholeMonths(s).time = s.time
         /\ Within(WholeMonths(s).day, DAYS_PER_MONTH)
         /\ ~ WrapsMonth(s) => Total(WholeMonths(s)) = Total(s)
<1> DEFINE U == USECS_PER_DAY
           D == DAYS_PER_MONTH
           q == Quot(s.day, D)
           r == Rem(s.day, D)
<1>1. /\ s.day \in Int32 /\ s.day \in Int /\ s.month \in Int /\ s.time \in Int
      /\ U \in Nat \ {0} /\ D \in Nat \ {0}
  BY IntervalFields, IntervalAssumption
<1>2. /\ q \in Int /\ r \in Int /\ q * D \in Int /\ s.day = q * D + r
      /\ Within(r, D) /\ r \in Int32
  BY <1>1, Division, QuotInt32
<1> HIDE DEF q, r
<1>3. WholeMonths(s) = Span(Wrap(s.month + q), r, s.time)
  BY DEF WholeMonths, q, r
<1>4. /\ Wrap(s.month + q) \in Int32
      /\ s.month + q \in Int32 => Wrap(s.month + q) = s.month + q
  BY <1>1, <1>2, WrapInt32
<1>5. /\ WholeMonths(s) \in Intervals /\ WholeMonths(s).day = r
      /\ WholeMonths(s).time = s.time
  BY <1>1, <1>2, <1>3, <1>4, SpanFields
<1>6. ASSUME ~ WrapsMonth(s) PROVE Total(WholeMonths(s)) = Total(s)
  <2>1. Wrap(s.month + q) = s.month + q
    BY <1>4, <1>6 DEF WrapsMonth, q
  <2>2. (s.month + q) * D = s.month * D + q * D
    BY <1>1, <1>2
  <2>3. (s.month + q) * D + r = s.month * D + s.day
    BY <1>1, <1>2, <2>2
  <2> QED BY <1>3, <2>1, <2>3, SpanFields DEF Total
<1>7. QED BY <1>2, <1>5, <1>6

LEMMA SettleTimeFacts ==
  ASSUME NEW s \in Intervals, Within(s.time, USECS_PER_DAY)
  PROVE  LET p == SettleTime(s) IN
         /\ p \in Intervals
         /\ Within(p.time, USECS_PER_DAY) /\ SameSign(p.day, p.time)
         /\ Total(p) = Total(s)
         /\ p.month = s.month
         /\ s.day > 0 /\ s.time < 0 => p.day = s.day - 1 /\ p.time > 0
         /\ s.day < 0 /\ s.time > 0 => p.day = s.day + 1 /\ p.time < 0
         /\ ~ (s.day > 0 /\ s.time < 0) /\ ~ (s.day < 0 /\ s.time > 0) =>
               p.day = s.day /\ p.time = s.time
<1> DEFINE U == USECS_PER_DAY
           x == s.month * DAYS_PER_MONTH
           p == SettleTime(s)
<1>1. /\ s.month \in Int32 /\ s.day \in Int32 /\ s.time \in Int
      /\ s.month \in Int /\ s.day \in Int
      /\ INT_LIMIT \in Nat \ {0} /\ U \in Nat \ {0} /\ DAYS_PER_MONTH \in Nat
      /\ -U < s.time /\ s.time < U
  BY IntervalFields, IntervalAssumption DEF Within
<1>2. x \in Int BY <1>1
<1>3. Total(s) = (x + s.day) * U + s.time
  BY DEF Total
<1> HIDE DEF x
<1>4. CASE s.day > 0 /\ s.time < 0
  <2>1. p = Span(s.month, s.day - 1, s.time + U)
    BY <1>4 DEF SettleTime
  <2>2. s.day - 1 \in Int32 /\ s.day - 1 >= 0 /\ s.time + U > 0 /\ s.time + U < U
    BY <1>1, <1>4 DEF Int32
  <2>3. /\ p \in Intervals /\ p.month = s.month
        /\ p.day = s.day - 1 /\ p.time = s.time + U
    BY <1>1, <2>1, <2>2, SpanFields
  <2>4. Total(p) = (x + (s.day - 1)) * U + (s.time + U)
    BY <2>3 DEF Total, x
  <2>5. (x + (s.day - 1)) * U = (x + s.day) * U - U
    BY <1>1, <1>2
  <2>6. Total(p) = Total(s)
    BY <1>1, <1>2, <1>3, <2>4, <2>5
  <2> HIDE DEF p
  <2> QED BY <1>1, <1>4, <2>2, <2>3, <2>6 DEF Within, SameSign, p
<1>5. CASE s.day < 0 /\ s.time > 0
  <2>1. p = Span(s.month, s.day + 1, s.time - U)
    BY <1>1, <1>5 DEF SettleTime
  <2>2. s.day + 1 \in Int32 /\ s.day + 1 <= 0 /\ s.time - U < 0 /\ -U < s.time - U
    BY <1>1, <1>5 DEF Int32
  <2>3. /\ p \in Intervals /\ p.month = s.month
        /\ p.day = s.day + 1 /\ p.time = s.time - U
    BY <1>1, <2>1, <2>2, SpanFields
  <2>4. Total(p) = (x + (s.day + 1)) * U + (s.time - U)
    BY <2>3 DEF Total, x
  <2>5. (x + (s.day + 1)) * U = (x + s.day) * U + U
    BY <1>1, <1>2
  <2>6. Total(p) = Total(s)
    BY <1>1, <1>2, <1>3, <2>4, <2>5
  <2> HIDE DEF p
  <2> QED BY <1>1, <1>5, <2>2, <2>3, <2>6 DEF Within, SameSign, p
<1>6. CASE ~ (s.day > 0 /\ s.time < 0) /\ ~ (s.day < 0 /\ s.time > 0)
  <2>1. p = s BY <1>6 DEF SettleTime
  <2> QED BY <1>1, <1>6, <2>1 DEF Within, SameSign
<1>7. QED BY <1>4, <1>5, <1>6

LEMMA SettleDayFacts ==
  ASSUME NEW s \in Intervals, Within(s.day, DAYS_PER_MONTH),
         NEW below \in BOOLEAN, NEW above \in BOOLEAN,
         below => s.day <= 0, above => s.day >= 0
  PROVE  LET p == SettleDay(s, below, above) IN
         /\ p \in Intervals /\ p.time = s.time
         /\ Total(p) = Total(s)
         /\ s.month > 0 /\ below =>
               p.month = s.month - 1 /\ p.day = s.day + DAYS_PER_MONTH
         /\ s.month < 0 /\ above =>
               p.month = s.month + 1 /\ p.day = s.day - DAYS_PER_MONTH
         /\ ~ (s.month > 0 /\ below) /\ ~ (s.month < 0 /\ above) => p = s
<1> DEFINE D == DAYS_PER_MONTH
           p == SettleDay(s, below, above)
<1>1. /\ s.month \in Int32 /\ s.day \in Int32 /\ s.time \in Int
      /\ s.month \in Int /\ s.day \in Int
      /\ INT_LIMIT \in Nat \ {0} /\ D \in Nat \ {0} /\ D < INT_LIMIT
      /\ USECS_PER_DAY \in Nat
      /\ -D < s.day /\ s.day < D
  BY IntervalFields, IntervalAssumption DEF Within
<1>2. CASE s.month > 0 /\ below
  <2>1. p = Span(s.month - 1, s.day + D, s.time)
    BY <1>2 DEF SettleDay
  <2>2. s.month - 1 \in Int32 /\ s.day + D \in Int32
    BY <1>1, <1>2 DEF Int32
  <2>3. /\ p \in Intervals /\ p.month = s.month - 1
        /\ p.day = s.day + D /\ p.time = s.time
    BY <1>1, <2>1, <2>2, SpanFields
  <2>4. (s.month - 1) * D = s.month * D - D /\ s.month * D \in Int
    BY <1>1
  <2>5. (s.month - 1) * D + (s.day + D) = s.month * D + s.day
    BY <1>1, <2>4
  <2>6. Total(p) = Total(s)
    BY <2>3, <2>5 DEF Total
  <2>7. ~ (s.month < 0) BY <1>1, <1>2
  <2> HIDE DEF p
  <2> QED BY <1>2, <2>3, <2>6, <2>7 DEF p
<1>3. CASE ~ (s.month > 0 /\ below) /\ s.month < 0 /\ above
  <2>1. p = Span(s.month + 1, s.day - D, s.time)
    BY <1>3 DEF SettleDay
  <2>2. s.month + 1 \in Int32 /\ s.day - D \in Int32
    BY <1>1, <1>3 DEF Int32
  <2>3. /\ p \in Intervals /\ p.month = s.month + 1
        /\ p.day = s.day - D /\ p.time = s.time
    BY <1>1, <2>1, <2>2, SpanFields
  <2>4. (s.month + 1) * D = s.month * D + D /\ s.month * D \in Int
    BY <1>1
  <2>5. (s.month + 1) * D + (s.day - D) = s.month * D + s.day
    BY <1>1, <2>4
  <2>6. Total(p) = Total(s)
    BY <2>3, <2>5 DEF Total
  <2> HIDE DEF p
  <2> QED BY <1>3, <2>3, <2>6 DEF p
<1>4. CASE ~ (s.month > 0 /\ below) /\ ~ (s.month < 0 /\ above)
  <2>1. p = s BY <1>4 DEF SettleDay
  <2> QED BY <1>4, <2>1
<1>5. QED BY <1>2, <1>3, <1>4

----------------------------------------------------------------------------
(* The justification functions *)

LEMMA HoursFacts ==
  ASSUME NEW s \in Intervals
  PROVE  LET p == interval_justify_hours(s) IN
         /\ p \in Intervals
         /\ Within(p.time, USECS_PER_DAY) /\ SameSign(p.day, p.time)
         /\ ~ WrapsDay(s) => Total(p) = Total(s)
BY WholeDaysFacts, SettleTimeFacts DEF interval_justify_hours

LEMMA DaysFacts ==
  ASSUME NEW s \in Intervals
  PROVE  LET p == interval_justify_days(s) IN
         /\ p \in Intervals
         /\ Within(p.day, DAYS_PER_MONTH) /\ SameSign(p.month, p.day)
         /\ ~ WrapsMonth(s) => Total(p) = Total(s)
<1> DEFINE m == WholeMonths(s)
           below == m.day < 0
           above == m.day > 0
           p == SettleDay(m, below, above)
           D == DAYS_PER_MONTH
<1>1. /\ m \in Intervals /\ Within(m.day, D)
      /\ ~ WrapsMonth(s) => Total(m) = Total(s)
  BY WholeMonthsFacts
<1>2. /\ m.month \in Int /\ m.day \in Int /\ D \in Nat \ {0}
      /\ -D < m.day /\ m.day < D
  BY <1>1, IntervalFields, IntervalAssumption DEF Within
<1>3. interval_justify_days(s) = p
  BY DEF interval_justify_days
<1> HIDE DEF m
<1>4. below \in BOOLEAN /\ above \in BOOLEAN
  OBVIOUS
<1>5. /\ p \in Intervals /\ Total(p) = Total(m)
      /\ m.month > 0 /\ m.day < 0 => p.month = m.month - 1 /\ p.day = m.day + D
      /\ m.month < 0 /\ m.day > 0 => p.month = m.month + 1 /\ p.day = m.day - D
      /\ ~ (m.month > 0 /\ m.day < 0) /\ ~ (m.month < 0 /\ m.day > 0) => p = m
  <2>1. (below => m.day <= 0) /\ (above => m.day >= 0)
    BY <1>2
  <2> QED BY <1>1, <1>4, <2>1, SettleDayFacts
<1> HIDE DEF p
<1>6. Within(p.day, D) /\ SameSign(p.month, p.day)
  <2>1. CASE m.month > 0 /\ m.day < 0
    BY <1>2, <1>5, <2>1 DEF Within, SameSign
  <2>2. CASE m.month < 0 /\ m.day > 0
    BY <1>2, <1>5, <2>2 DEF Within, SameSign
  <2>3. CASE ~ (m.month > 0 /\ m.day < 0) /\ ~ (m.month < 0 /\ m.day > 0)
    BY <1>2, <1>5, <2>3 DEF Within, SameSign
  <2> QED BY <2>1, <2>2, <2>3
<1>7. QED BY <1>1, <1>3, <1>5, <1>6

\* Both steps of borrowing leave all three fields in bounds and of one sign.
LEMMA IntervalFacts ==
  ASSUME NEW s \in Intervals
  PROVE  LET p == interval_justify_interval(s) IN
         /\ p \in Intervals
         /\ Within(p.time, USECS_PER_DAY) /\ Within(p.day, DAYS_PER_MONTH)
         /\ SameSign(p.day, p.time) /\ SameSign(p.month, p.day)
         /\ SameSign(p.month, p.time)
         /\ ~ WrapsDay(s) /\ ~ WrapsMonth(WholeDays(s)) => Total(p) = Total(s)
<1> DEFINE w == WholeDays(s)
           m == WholeMonths(w)
           below == m.day < 0 \/ (m.day = 0 /\ m.time < 0)
           above == m.day > 0 \/ (m.day = 0 /\ m.time > 0)
           d == SettleDay(m, below, above)
           p == SettleTime(d)
           D == DAYS_PER_MONTH
           U == USECS_PER_DAY
<1>1. /\ w \in Intervals /\ Within(w.time, U)
      /\ ~ WrapsDay(s) => Total(w) = Total(s)
  BY WholeDaysFacts
<1> HIDE DEF w
<1>2. /\ m \in Intervals /\ Within(m.day, D) /\ Within(m.time, U)
      /\ ~ WrapsMonth(w) => Total(m) = Total(w)
  BY <1>1, WholeMonthsFacts
<1>3. /\ m.month \in Int /\ m.day \in Int /\ m.time \in Int
      /\ D \in Nat \ {0} /\ U \in Nat \ {0}
      /\ -D < m.day /\ m.day < D /\ -U < m.time /\ m.time < U
  BY <1>2, IntervalFields, IntervalAssumption DEF Within
<1>4. interval_justify_interval(s) = p
  BY DEF interval_justify_interval, w
<1> HIDE DEF m
<1>5. /\ d \in Intervals /\ d.time = m.time /\ Total(d) = Total(m)
      /\ m.month > 0 /\ below => d.month = m.month - 1 /\ d.day = m.day + D
      /\ m.month < 0 /\ above => d.month = m.month + 1 /\ d.day = m.day - D
      /\ ~ (m.month > 0 /\ below) /\ ~ (m.month < 0 /\ above) => d = m
  <2>1. /\ below \in BOOLEAN /\ above \in BOOLEAN
        /\ below => m.day <= 0
        /\ above => m.day >= 0
    BY <1>3
  <2> HIDE DEF below, above
  <2> QED BY <1>2, <2>1, SettleDayFacts
<1> HIDE DEF d
<1>6. /\ d.month \in Int /\ d.day \in Int /\ d.time \in Int /\ Within(d.time, U)
  BY <1>2, <1>5, IntervalFields
<1>7. /\ p \in Intervals /\ Within(p.time, U) /\ SameSign(p.day, p.time)
      /\ Total(p) = Total(d) /\ p.month = d.month
  BY <1>5, <1>6, SettleTimeFacts
<1>8. /\ d.day > 0 /\ d.time < 0 => p.day = d.day - 1 /\ p.time > 0
      /\ d.day < 0 /\ d.time > 0 => p.day = d.day + 1 /\ p.time < 0
      /\ ~ (d.day > 0 /\ d.time < 0) /\ ~ (d.day < 0 /\ d.time > 0) =>
            p.day = d.day /\ p.time = d.time
  BY <1>5, <1>6, SettleTimeFacts
<1> HIDE DEF p
<1>9. p.month \in Int /\ p.day \in Int /\ p.time \in Int
  BY <1>7, IntervalFields
<1>10. \/ d.month > 0 /\ (d.day > 0 \/ (d.day = 0 /\ d.time >= 0))
       \/ d.month < 0 /\ (d.day < 0 \/ (d.day = 0 /\ d.time <= 0))
       \/ d.month = 0
  <2>1. CASE m.month > 0 /\ below
    <3>1. d.month >= 0 /\ d.day > 0 BY <1>3, <1>5, <2>1
    <3> QED BY <1>6, <3>1
  <2>2. CASE m.month < 0 /\ above
    <3>1. d.month <= 0 /\ d.day < 0 BY <1>3, <1>5, <2>2
    <3> QED BY <1>6, <3>1
  <2>3. CASE ~ (m.month > 0 /\ below) /\ ~ (m.month < 0 /\ above)
    BY <1>3, <1>5, <2>3
  <2> QED BY <2>1, <2>2, <2>3
<1>11. /\ -D <= d.day /\ d.day <= D
       /\ d.day = D => d.time < 0
       /\ d.day = -D => d.time > 0
  <2>1. CASE m.month > 0 /\ below
    BY <1>3, <1>5, <2>1
  <2>2. CASE m.month < 0 /\ above
    BY <1>3, <1>5, <2>2
  <2>3. CASE ~ (m.month > 0 /\ below) /\ ~ (m.month < 0 /\ above)
    BY <1>3, <1>5, <2>3
  <2> QED BY <2>1, <2>2, <2>3
<1>12. -D < p.day /\ p.day < D
  BY <1>3, <1>6, <1>8, <1>9, <1>11
<1>13. /\ p.month > 0 => p.day >= 0 /\ p.time >= 0
       /\ p.month < 0 => p.day <= 0 /\ p.time <= 0
  BY <1>6, <1>7, <1>8, <1>9, <1>10
<1>14. /\ Within(p.day, D) /\ SameSign(p.month, p.day) /\ SameSign(p.month, p.time)
  BY <1>9, <1>12, <1>13 DEF Within, SameSign
<1>15. ~ WrapsDay(s) /\ ~ WrapsMonth(w) => Total(p) = Total(s)
  BY <1>1, <1>2, <1>5, <1>7
<1>16. QED BY <1>4, <1>7, <1>14, <1>15 DEF w

\* An interval in bounds and of one sign is the customary form of its length.
LEMMA CustomaryUnique ==
  ASSUME NEW s \in Intervals,
         Within(s.time, USECS_PER_DAY), Within(s.day, DAYS_PER_MONTH),
         SameSign(s.day, s.time), SameSign(s.month, s.day),
         SameSign(s.month, s.time)
  PROVE  s = CustomaryForm(Total(s))
<1> DEFINE D == DAYS_PER_MONTH
           U == USECS_PER_DAY
           M == D * U
           rest == s.day * U + s.time
<1>1. /\ s.month \in Int /\ s.day \in Int /\ s.time \in Int
      /\ D \in Nat \ {0} /\ U \in Nat \ {0}
      /\ s = Span(s.month, s.day, s.time)
      /\ -U < s.time /\ s.time < U /\ -D < s.day /\ s.day < D
  BY IntervalFields, IntervalAssumption DEF Within
<1>2. M \in Nat \ {0} /\ s.day * U \in Int /\ rest \in Int
  BY <1>1
<1>3. Quot(rest, U) = s.day /\ Rem(rest, U) = s.time
  BY <1>1, DivisionUnique
<1>4. Within(rest, M)
  <2>1. s.day * U <= (D - 1) * U /\ -((D - 1) * U) <= s.day * U
    <3>1. s.day <= D - 1 => s.day * U <= (D - 1) * U
      BY <1>1
    <3>2. -(D - 1) <= s.day => (-(D - 1)) * U <= s.day * U
      BY <1>1
    <3>3. (-(D - 1)) * U = -((D - 1) * U) BY <1>1
    <3> QED BY <1>1, <3>1, <3>2, <3>3
  <2>2. (D - 1) * U = M - U BY <1>1
  <2> QED BY <1>1, <1>2, <2>1, <2>2 DEF Within
<1>5. SameSign(s.month, rest)
  <2>1. /\ s.day > 0 => s.day * U > 0
        /\ s.day < 0 => s.day * U < 0
        /\ s.day = 0 => s.day * U = 0
    BY <1>1
  <2> QED BY <1>1, <1>2, <2>1 DEF SameSign
<1>6. Total(s) = s.month * M + rest
  <2>1. (s.month * D + s.day) * U = s.month * M + s.day * U
    BY <1>1
  <2> QED BY <1>1, <2>1 DEF Total
<1> HIDE DEF rest, M
<1>7. Quot(Total(s), M) = s.month /\ Rem(Total(s), M) = rest
  BY <1>1, <1>2, <1>4, <1>5, <1>6, DivisionUnique
<1>8. QED
  BY <1>1, <1>3, <1>7 DEF CustomaryForm, M

----------------------------------------------------------------------------
(* Conversion to and from the decoded fields *)

LEMMA FromFields ==
  ASSUME NEW t, t.year \in Int32, t.mon \in Int32, t.mday \in Int32,
         t.hour \in Int32, t.usec \in Int
  PROVE  tm2interval(t) \in Intervals
<1>1. /\ t.year \in Int /\ t.mon \in Int /\ t.hour \in Int
      /\ MONTHS_PER_YEAR \in Nat /\ USECS_PER_HOUR \in Nat
  BY IntervalAssumption DEF Int32
<1>2. /\ t.year * MONTHS_PER_YEAR + t.mon \in Int
      /\ t.hour * USECS_PER_HOUR + t.usec \in Int
  BY <1>1
<1>3. QED BY <1>2, WrapInt32, SpanFields DEF tm2interval

\* The fields of an interval stand for it when the hours fit an int.
LEMMA OutAndBack ==
  ASSUME NEW s \in Intervals
  PROVE  /\ interval2tm(s) \in Times
         /\ Quot(s.time, USECS_PER_HOUR) \in Int32 => tm2interval(interval2tm(s)) = s
<1> DEFINE y == Quot(s.month, MONTHS_PER_YEAR)
           mo == Rem(s.month, MONTHS_PER_YEAR)
           h == Quot(s.time, USECS_PER_HOUR)
           u == Rem(s.time, USECS_PER_HOUR)
           t == interval2tm(s)
<1>1. /\ s.month \in Int32 /\ s.day \in Int32 /\ s.time \in Int /\ s.month \in Int
      /\ s = Span(s.month, s.day, s.time)
      /\ MONTHS_PER_YEAR \in Nat \ {0} /\ USECS_PER_HOUR \in Nat \ {0}
  BY IntervalFields, IntervalAssumption
<1>2. /\ y \in Int32 /\ mo \in Int32
      /\ s.month = y * MONTHS_PER_YEAR + mo
  BY <1>1, QuotInt32, Division
<1>3. h \in Int /\ u \in Int /\ s.time = h * USECS_PER_HOUR + u
  BY <1>1, Division
<1>4. t = [year |-> y, mon |-> mo, mday |-> s.day, hour |-> Wrap(h), usec |-> u]
  BY DEF interval2tm
<1> HIDE DEF y, mo, h, u, t
<1>5. Wrap(h) \in Int32 /\ (h \in Int32 => Wrap(h) = h)
  BY <1>3, WrapInt32
<1>6. t \in Times
  BY <1>1, <1>2, <1>3, <1>4, <1>5 DEF Times
<1>7. ASSUME h \in Int32 PROVE tm2interval(t) = s
  <2>1. /\ t.year = y /\ t.mon = mo /\ t.mday = s.day /\ t.hour = h /\ t.usec = u
    BY <1>4, <1>5, <1>7
  <2>2. tm2interval(t) = Span(Wrap(s.month), s.day, s.time)
    BY <1>2, <1>3, <2>1 DEF tm2interval
  <2>3. Wrap(s.month) = s.month BY <1>1, WrapInt32
  <2> QED BY <1>1, <2>2, <2>3
<1>8. QED BY <1>6, <1>7 DEF t, h

\* Less than a day of hours fits an int.
LEMMA HoursFit ==
  ASSUME NEW x \in Int, Within(x, USECS_PER_DAY)
  PROVE  Quot(x, USECS_PER_HOUR) \in Int32
<1> DEFINE H == USECS_PER_HOUR
           q == Quot(x, H)
           r == Rem(x, H)
           L == INT_LIMIT
<1>1. /\ H \in Nat \ {0} /\ L \in Nat \ {0} /\ USECS_PER_DAY \in Nat
      /\ USECS_PER_DAY < L * H /\ L * H \in Nat
  BY IntervalAssumption
<1>2. /\ q \in Int /\ r \in Int /\ q * H \in Int /\ x = q * H + r
      /\ x >= 0 => q >= 0 /\ r >= 0
      /\ x <= 0 => q <= 0 /\ r <= 0
  BY <1>1, Division
<1>3. -(L * H) < x /\ x < L * H
  BY <1>1 DEF Within
<1> HIDE DEF q, r
<1>4. -(L * H) < q * H /\ q * H < L * H
  <2>1. CASE x >= 0
    <3>1. q * H <= x /\ q * H >= 0 BY <1>1, <1>2, <2>1
    <3> QED BY <1>1, <1>2, <1>3, <3>1
  <2>2. CASE x <= 0
    <3>1. q * H >= x /\ q * H <= 0 BY <1>1, <1>2, <2>2
    <3> QED BY <1>1, <1>2, <1>3, <3>1
  <2> QED BY <2>1, <2>2
<1>5. q >= L => q * H >= L * H
  BY <1>1, <1>2
<1>6. q <= -L => q * H <= -(L * H)
  <2>1. (-L) * H = -(L * H) BY <1>1
  <2>2. q <= -L => q * H <= (-L) * H BY <1>1, <1>2
  <2> QED BY <2>1, <2>2
<1>7. QED BY <1>1, <1>2, <1>4, <1>5, <1>6 DEF Int32, q

----------------------------------------------------------------------------
(* The specification *)

\* The fields last shown are those of the interval.
Shown == tm # NoTm => span # Lost /\ tm = interval2tm(span)

Inv == TypeOK /\ Justified /\ TotalKept /\ Shown

\* An interval is not the lost result.
LEMMA NotLost == \A s \in Intervals : s # Lost
<1> SUFFICES ASSUME NEW s \in Intervals, s = Lost PROVE FALSE
  OBVIOUS
<1>1. DOMAIN s = {"month", "day", "time"} BY DEF Intervals
<1>2. DOMAIN s = {"lost"} BY DEF Lost
<1>3. QED BY <1>1, <1>2

LEMMA InitInv == Init => Inv
<1> SUFFICES ASSUME Init PROVE Inv
  OBVIOUS
<1>1. INT_LIMIT \in Nat \ {0} BY IntervalAssumption
<1>2. NoTm \in Times BY <1>1 DEF NoTm, Times, Int32
<1>3. QED
  BY <1>2 DEF Init, Inv, TypeOK, Justified, TotalKept, Shown

\* A justification that answers keeps the invariant.
LEMMA JustifyInv ==
  ASSUME Inv, NEW type \in {"hours", "days", "interval"},
         NEW p \in Intervals, NEW wraps \in BOOLEAN, Justify(type, p, wraps),
         ~ wraps => Total(p) = Total(span),
         type \in {"hours", "interval"} =>
           Within(p.time, USECS_PER_DAY) /\ SameSign(p.day, p.time),
         type \in {"days", "interval"} =>
           Within(p.day, DAYS_PER_MONTH) /\ SameSign(p.month, p.day),
         type = "interval" => SameSign(p.month, p.time)
  PROVE  Inv'
<1>1. /\ span # Lost /\ span' = p /\ call' = type /\ tm' = NoTm
      /\ overflowed' = (overflowed \/ wraps) /\ entered' = entered
  BY DEF Justify
<1>2. p # Lost BY NotLost
<1>3. NoTm \in Times /\ overflowed' \in BOOLEAN
  <2>1. INT_LIMIT \in Nat \ {0} BY IntervalAssumption
  <2> QED BY <1>1, <2>1 DEF NoTm, Times, Int32
<1>4. TypeOK'
  BY <1>1, <1>2, <1>3 DEF Inv, TypeOK
<1>5. Justified'
  BY <1>1 DEF Justified
<1>6. TotalKept'
  <2> SUFFICES ASSUME ~ overflowed' PROVE Total(span') = Total(entered')
    BY DEF TotalKept, Total
  <2>1. ~ overflowed /\ ~ wraps BY <1>1
  <2> QED BY <1>1, <2>1 DEF Inv, TotalKept
<1>7. Shown' BY <1>1 DEF Shown, NoTm
<1>8. QED BY <1>4, <1>5, <1>6, <1>7 DEF Inv

LEMMA NextInv == Inv /\ [Next]_vars => Inv'
<1> SUFFICES ASSUME Inv, [Next]_vars PROVE Inv'
  OBVIOUS
<1>1. span # Lost => span \in Intervals
  BY DEF Inv, TypeOK
<1>2. CASE interval_in
  <2>1. PICK y \in Years, m \in Months, d \in MDays, h \in Hours, u \in Usecs :
           span' = tm2interval([year |-> y, mon |-> m, mday |-> d,
                                hour |-> h, usec |-> u])
    BY <1>2 DEF interval_in
  <2>2. /\ y \in Int32 /\ m \in Int32 /\ d \in Int32 /\ h \in Int32 /\ u \in Int
    BY IntervalAssumption
  <2>3. span' \in Intervals
    BY <2>1, <2>2, FromFields
  <2>4. /\ entered' = span' /\ call' = "in" /\ tm' = tm
        /\ overflowed' = overflowed /\ call = "none"
    BY <1>2 DEF interval_in
  <2>5. span' # Lost BY <2>3, NotLost
  <2>6. TypeOK' BY <2>3, <2>4, <2>5 DEF Inv, TypeOK
  <2>7. tm = NoTm
    BY <2>4 DEF Inv, TypeOK, Shown
  <2> QED BY <2>4, <2>6, <2>7 DEF Inv, Justified, TotalKept, Shown, NoTm, Total
<1>3. CASE JustifyHours
  <2>1. /\ Justify("hours", interval_justify_hours(span), WrapsDay(span))
        /\ span \in Intervals
    BY <1>1, <1>3 DEF JustifyHours, Justify
  <2>2. WrapsDay(span) \in BOOLEAN BY DEF WrapsDay
  <2>3. LET p == interval_justify_hours(span) IN
        /\ p \in Intervals
        /\ Within(p.time, USECS_PER_DAY) /\ SameSign(p.day, p.time)
        /\ ~ WrapsDay(span) => Total(p) = Total(span)
    BY <2>1, HoursFacts
  <2> QED BY <2>1, <2>2, <2>3, JustifyInv
<1>4. CASE JustifyDays
  <2>1. /\ Justify("days", interval_justify_days(span), WrapsMonth(span))
        /\ span \in Intervals
    BY <1>1, <1>4 DEF JustifyDays, Justify
  <2>2. WrapsMonth(span) \in BOOLEAN BY DEF WrapsMonth
  <2>3. LET p == interval_justify_days(span) IN
        /\ p \in Intervals
        /\ Within(p.day, DAYS_PER_MONTH) /\ SameSign(p.month, p.day)
        /\ ~ WrapsMonth(span) => Total(p) = Total(span)
    BY <2>1, DaysFacts
  <2> QED BY <2>1, <2>2, <2>3, JustifyInv
<1>5. CASE JustifyInterval
  <2> DEFINE wraps == WrapsDay(span) \/ WrapsMonth(WholeDays(span))
             p == interval_justify_interval(span)
  <2>1. Justify("interval", p, wraps) /\ span \in Intervals
    BY <1>1, <1>5 DEF JustifyInterval, Justify
  <2>2. wraps \in BOOLEAN BY DEF WrapsDay, WrapsMonth
  <2>3. /\ p \in Intervals
        /\ Within(p.time, USECS_PER_DAY) /\ Within(p.day, DAYS_PER_MONTH)
        /\ SameSign(p.day, p.time) /\ SameSign(p.month, p.day)
        /\ SameSign(p.month, p.time)
        /\ ~ wraps => Total(p) = Total(span)
    BY <2>1, IntervalFacts
  <2> HIDE DEF wraps, p
  <2> QED BY <2>1, <2>2, <2>3, JustifyInv
<1>6. CASE JustifyOther
  <2>1. /\ span' = Lost /\ call' = "other" /\ tm' = NoTm
        /\ overflowed' = (overflowed \/ FALSE) /\ entered' = entered
    BY <1>6 DEF JustifyOther, Justify
  <2>2. NoTm \in Times /\ overflowed' \in BOOLEAN
    <3>1. INT_LIMIT \in Nat \ {0} BY IntervalAssumption
    <3> QED BY <2>1, <3>1 DEF NoTm, Times, Int32
  <2>3. TypeOK' BY <2>1, <2>2 DEF Inv, TypeOK
  <2> QED BY <2>1, <2>3 DEF Inv, Justified, TotalKept, Shown, NoTm, Lost
<1>7. CASE interval_out
  <2>1. /\ span # Lost /\ tm' = interval2tm(span) /\ span' = span /\ call' = call
        /\ entered' = entered /\ overflowed' = overflowed
    BY <1>7 DEF interval_out
  <2>2. tm' \in Times BY <1>1, <2>1, OutAndBack
  <2>3. TypeOK' BY <2>1, <2>2 DEF Inv, TypeOK
  <2>4. Shown' BY <2>1 DEF Shown, interval2tm
  <2> QED BY <2>1, <2>3, <2>4 DEF Inv, Justified, TotalKept
<1>8. CASE UNCHANGED vars
  BY <1>8 DEF vars, Inv, TypeOK, Justified, TotalKept, Shown, interval2tm
<1>9. QED
  BY <1>2, <1>3, <1>4, <1>5, <1>6, <1>7, <1>8 DEF Next

(***************************************************************************)
(* The inductive invariant of the operations of Datizo::Interval, for any   *)
(* length of the units and any width of int.                                *)
(***************************************************************************)
THEOREM InvHolds == Spec => []Inv
BY InitInv, NextInv, PTL DEF Spec

(***************************************************************************)
(* The fields of an interval stay ints, as Interval (datizo.h:46-52)        *)
(* declares them, and an interval is lost only by an unknown kind of        *)
(* justification.                                                           *)
(***************************************************************************)
THEOREM TypeCorrect == Spec => []TypeOK
<1>1. Inv => TypeOK BY DEF Inv
<1>2. QED BY <1>1, InvHolds, PTL

(***************************************************************************)
(* Every justification leaves its fields within bounds and of one sign      *)
(* (interval_justify_interval.c:8-19), whatever the width of an int and     *)
(* whether or not a field wrapped.                                          *)
(***************************************************************************)
THEOREM JustifiedHolds == Spec => []Justified
<1>1. Inv => Justified BY DEF Inv
<1>2. QED BY <1>1, InvHolds, PTL

(***************************************************************************)
(* No justification loses time unless a field wraps.                        *)
(***************************************************************************)
THEOREM TotalKeptHolds == Spec => []TotalKept
<1>1. Inv => TotalKept BY DEF Inv
<1>2. QED BY <1>1, InvHolds, PTL

(***************************************************************************)
(* interval_justify_interval comes to one form for one length entered.      *)
(***************************************************************************)
THEOREM OneFormHolds == Spec => []OneForm
<1>1. Inv => OneForm
  <2> SUFFICES ASSUME Inv, call = "interval", ~ overflowed
               PROVE  span = CustomaryForm(Total(entered))
    BY DEF OneForm
  <2>1. span # Lost /\ span \in Intervals
    BY DEF Inv, TypeOK
  <2>2. span = CustomaryForm(Total(span))
    BY <2>1, CustomaryUnique DEF Inv, Justified
  <2>3. Total(span) = Total(entered)
    BY <2>1 DEF Inv, TotalKept
  <2> QED BY <2>2, <2>3
<1>2. QED BY <1>1, InvHolds, PTL

(***************************************************************************)
(* What is shown of an interval stands for it, unless the hours overflow,   *)
(* which they do not once justified (interval2tm.c:10-49).                  *)
(***************************************************************************)
THEOREM PrintsBackHolds == Spec => []PrintsBack
<1>1. Inv => PrintsBack
  <2> SUFFICES ASSUME Inv, tm # NoTm
               PROVE  \/ tm2interval(tm) = span
                      \/ call \in {"in", "days"}
                         /\ Quot(span.time, USECS_PER_HOUR) \notin Int32
    BY DEF PrintsBack
  <2>1. span \in Intervals /\ tm = interval2tm(span) /\ span # Lost
    BY DEF Inv, TypeOK, Shown
  <2>2. CASE Quot(span.time, USECS_PER_HOUR) \in Int32
    BY <2>1, <2>2, OutAndBack
  <2>3. CASE call \in {"hours", "interval"}
    <3>1. Within(span.time, USECS_PER_DAY) /\ span.time \in Int
      BY <2>1, <2>3, IntervalFields DEF Inv, Justified
    <3> QED BY <2>1, <3>1, HoursFit, OutAndBack
  <2>4. call \in {"in", "days", "hours", "interval"}
    BY <2>1 DEF Inv, TypeOK
  <2> QED BY <2>2, <2>3, <2>4
<1>2. QED BY <1>1, InvHolds, PTL

=============================================================================
