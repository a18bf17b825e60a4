------------------------------ MODULE Interval ------------------------------
(***************************************************************************)
(* The Interval type: made of a decoded struct tm (tm2interval), brought to *)
(* customary bounds (interval_justify_hours, _days, _interval, behind the   *)
(* Perl method justify) and broken down again for output (interval2tm).     *)
(*                                                                          *)
(* month and day are ints and wrap; time is an int64, which no input of     *)
(* int fields can overflow.  Minutes, seconds and their fraction are one    *)
(* field here, in microseconds.                                             *)
(***************************************************************************)
EXTENDS Integers

CONSTANTS
  MONTHS_PER_YEAR, DAYS_PER_MONTH, USECS_PER_DAY, USECS_PER_HOUR,
  INT_LIMIT,                        \* 2^31
  Years, Months, MDays, Hours, Usecs   \* decoded fields of an input

Int32 == (-INT_LIMIT)..(INT_LIMIT - 1)

ASSUME IntervalAssumption ==
  /\ MONTHS_PER_YEAR \in Nat \ {0} /\ DAYS_PER_MONTH \in Nat \ {0}
  /\ USECS_PER_DAY \in Nat \ {0} /\ USECS_PER_HOUR \in Nat \ {0}
  /\ INT_LIMIT \in Nat \ {0}
  /\ DAYS_PER_MONTH < INT_LIMIT /\ MONTHS_PER_YEAR < INT_LIMIT
  /\ USECS_PER_DAY < INT_LIMIT * USECS_PER_HOUR
  /\ Years \subseteq Int32 /\ Months \subseteq Int32 /\ MDays \subseteq Int32
  /\ Hours \subseteq Int32 /\ Usecs \subseteq Int

VARIABLES
  span,        \* the client's interval, or Lost
  tm,          \* the struct tm it was last broken down into
  call,        \* the latest operation
  entered,     \* history: the interval as it was made
  overflowed   \* history: a justification of it wrapped round

vars == <<span, tm, call, entered, overflowed>>

----------------------------------------------------------------------------
\* Division as C defines it, towards zero, by a positive number.
Quot(a, b) == IF a >= 0 THEN a \div b ELSE -((-a) \div b)
Rem(a, b) == a - Quot(a, b) * b

\* Conversion to int.
Wrap(x) == ((x + INT_LIMIT) % (2 * INT_LIMIT)) - INT_LIMIT

Span(month, day, time) == [month |-> month, day |-> day, time |-> time]

\* The result pointer of justify is not assigned.
Lost == [lost |-> TRUE]

\* A day moves between day and time where their signs differ.
SettleTime(s) ==
  IF s.day > 0 /\ s.time < 0
  THEN Span(s.month, s.day - 1, s.time + USECS_PER_DAY)
  ELSE IF s.day < 0 /\ s.time > 0
  THEN Span(s.month, s.day + 1, s.time - USECS_PER_DAY)
  ELSE s

\* A month moves between month and day where their signs differ: below and
\* above say that what lies under the month is negative or positive.
SettleDay(s, below, above) ==
  IF s.month > 0 /\ below
  THEN Span(s.month - 1, s.day + DAYS_PER_MONTH, s.time)
  ELSE IF s.month < 0 /\ above
  THEN Span(s.month + 1, s.day - DAYS_PER_MONTH, s.time)
  ELSE s

\* Whole days leave time, "could overflow..."; whole months leave day.
WholeDays(s) ==
  Span(s.month, Wrap(s.day + Quot(s.time, USECS_PER_DAY)),
       Rem(s.time, USECS_PER_DAY))
WholeMonths(s) ==
  Span(Wrap(s.month + Quot(s.day, DAYS_PER_MONTH)),
       Rem(s.day, DAYS_PER_MONTH), s.time)

interval_justify_hours(s) == SettleTime(WholeDays(s))

\* Mutant: the month is not made up for the days borrowed.
DaysWithoutMonth(s) ==
  LET m == WholeMonths(s)
  IN  Span(m.month, SettleDay(m, m.day < 0, m.day > 0).day, m.time)

interval_justify_days(s) ==
  LET m == WholeMonths(s) IN SettleDay(m, m.day < 0, m.day > 0)

\* Mutant: the time is not looked at when no day is left.
JustifyIgnoringTime(s) ==
  LET m == WholeMonths(WholeDays(s))
  IN  SettleTime(SettleDay(m, m.day < 0, m.day > 0))

interval_justify_interval(s) ==
  LET m == WholeMonths(WholeDays(s))
  IN  SettleTime(SettleDay(m, m.day < 0 \/ (m.day = 0 /\ m.time < 0),
                              m.day > 0 \/ (m.day = 0 /\ m.time > 0)))

\* A justification wraps a field round.
WrapsDay(s) == s.day + Quot(s.time, USECS_PER_DAY) \notin Int32
WrapsMonth(s) == s.month + Quot(s.day, DAYS_PER_MONTH) \notin Int32

\* Mutant: a remainder that is never negative.
FlooredOut(s) ==
  [year |-> Quot(s.month, MONTHS_PER_YEAR), mon |-> Rem(s.month, MONTHS_PER_YEAR),
   mday |-> s.day,
   hour |-> Wrap(Quot(s.time, USECS_PER_HOUR)), usec |-> s.time % USECS_PER_HOUR]

\* The hour "could overflow ...".
interval2tm(s) ==
  [year |-> Quot(s.month, MONTHS_PER_YEAR), mon |-> Rem(s.month, MONTHS_PER_YEAR),
   mday |-> s.day,
   hour |-> Wrap(Quot(s.time, USECS_PER_HOUR)), usec |-> Rem(s.time, USECS_PER_HOUR)]

\* Mutant: months are kept in a wider type.
WideMonths(t) ==
  Span(t.year * MONTHS_PER_YEAR + t.mon, t.mday, t.hour * USECS_PER_HOUR + t.usec)

tm2interval(t) ==
  Span(Wrap(t.year * MONTHS_PER_YEAR + t.mon), t.mday,
       t.hour * USECS_PER_HOUR + t.usec)

----------------------------------------------------------------------------
NoTm == [year |-> 0, mon |-> 0, mday |-> 0, hour |-> 0, usec |-> 0]

Init ==
  /\ span = Lost /\ entered = Lost
  /\ tm = NoTm
  /\ call = "none"
  /\ overflowed = FALSE

interval_in ==
  /\ call = "none"
  /\ \E y \in Years, m \in Months, d \in MDays, h \in Hours, u \in Usecs :
        span' = tm2interval([year |-> y, mon |-> m, mday |-> d, hour |-> h, usec |-> u])
  /\ entered' = span'
  /\ call' = "in"
  /\ UNCHANGED <<tm, overflowed>>

\* justify(type): any other type (and "D") leaves RETVAL unassigned.
Justify(type, result, wraps) ==
  /\ span # Lost
  /\ span' = result
  /\ call' = type
  /\ tm' = NoTm
  /\ overflowed' = (overflowed \/ wraps)
  /\ UNCHANGED entered

JustifyHours ==
  Justify("hours", interval_justify_hours(span), WrapsDay(span))
JustifyDays ==
  Justify("days", interval_justify_days(span), WrapsMonth(span))
JustifyInterval ==
  Justify("interval", interval_justify_interval(span),
          WrapsDay(span) \/ WrapsMonth(WholeDays(span)))
JustifyOther == Justify("other", Lost, FALSE)

interval_out ==
  /\ span # Lost
  /\ tm' = interval2tm(span)
  /\ UNCHANGED <<span, call, entered, overflowed>>

Next ==
  \/ interval_in
  \/ JustifyHours \/ JustifyDays \/ JustifyInterval \/ JustifyOther
  \/ interval_out

Spec == Init /\ [][Next]_vars

----------------------------------------------------------------------------
Intervals == [month : Int32, day : Int32, time : Int]
Times == [year : Int32, mon : Int32, mday : Int32, hour : Int32, usec : Int]

TypeOK ==
  /\ span \in Intervals \cup {Lost}
  /\ entered \in Intervals \cup {Lost}
  /\ tm \in Times
  /\ call \in {"none", "in", "hours", "days", "interval", "other"}
  /\ overflowed \in BOOLEAN
  /\ call \in {"none", "other"} <=> span = Lost

\* Neither is positive while the other is negative.
SameSign(a, b) == ~ (a > 0 /\ b < 0) /\ ~ (a < 0 /\ b > 0)
Within(a, bound) == -bound < a /\ a < bound

(***************************************************************************)
(* "0 <= abs(time) < 24 hours, 0 <= abs(day) < 30 days ... either all three *)
(* fields are negative or all are positive"                                 *)
(* (interval_justify_interval.c:8-19), and what the other two say of their  *)
(* fields, even where a field has wrapped round.                            *)
(***************************************************************************)
Justified ==
  /\ call \in {"hours", "interval"} =>
       Within(span.time, USECS_PER_DAY) /\ SameSign(span.day, span.time)
  /\ call \in {"days", "interval"} =>
       Within(span.day, DAYS_PER_MONTH) /\ SameSign(span.month, span.day)
  /\ call = "interval" => SameSign(span.month, span.time)

Total(s) == (s.month * DAYS_PER_MONTH + s.day) * USECS_PER_DAY + s.time

(***************************************************************************)
(* Justifying moves time between the fields and loses none of it, in any    *)
(* order of calls, unless a field wraps.                                    *)
(***************************************************************************)
TotalKept ==
  span # Lost /\ ~ overflowed => Total(span) = Total(entered)

\* The one interval of a length that is within bounds and of one sign.
CustomaryForm(total) ==
  LET month == DAYS_PER_MONTH * USECS_PER_DAY
      rest == Rem(total, month)
  IN  Span(Quot(total, month), Quot(rest, USECS_PER_DAY), Rem(rest, USECS_PER_DAY))

(***************************************************************************)
(* Whatever was justified before it, interval_justify_interval comes to the *)
(* same interval for the same length entered, unless a field wraps.         *)
(***************************************************************************)
OneForm ==
  call = "interval" /\ ~ overflowed => span = CustomaryForm(Total(entered))

(***************************************************************************)
(* The fields shown for an interval stand for that interval; only an hour   *)
(* field that "could overflow" (interval2tm.c:23) breaks this, and it does  *)
(* not once the hours have been justified.                                  *)
(***************************************************************************)
PrintsBack ==
  tm # NoTm =>
    \/ tm2interval(tm) = span
    \/ call \in {"in", "days"} /\ Quot(span.time, USECS_PER_HOUR) \notin Int32

=============================================================================
