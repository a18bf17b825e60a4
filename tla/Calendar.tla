------------------------------ MODULE Calendar ------------------------------
(***************************************************************************)
(* Calendar arithmetic: dates of the Gregorian calendar, carried back       *)
(* before its adoption, as year, month and day and as Julian day numbers    *)
(* (date2j, j2date, j2day), and the addition of months that                 *)
(* timestamptz_pl_interval makes.  Year 0 is 1 BC.                          *)
(*                                                                          *)
(* j2date computes in unsigned int, which none of its results reaches from  *)
(* a day between 0 and the last valid one; other days are not given to it   *)
(* here.                                                                    *)
(***************************************************************************)
EXTENDS Integers, Sequences

MonthsPerYear == 12
SECS_PER_DAY == 86400
UNIX_EPOCH_JDATE == 2440588
JULIAN_MINYEAR == -4713
JULIAN_MINMONTH == 11
JULIAN_MINDAY == 24
JULIAN_MAXYEAR == 5874898

Date(y, m, d) == [year |-> y, mon |-> m, mday |-> d]

\* Division as C defines it, towards zero, by a positive number.
CDiv(a, b) == IF a >= 0 THEN a \div b ELSE -((-a) \div b)
CMod(a, b) == a - CDiv(a, b) * b

isleap(y) == y % 4 = 0 /\ (y % 100 # 0 \/ y % 400 = 0)

common_months == <<31, 28, 31, 30, 31, 30, 31, 31, 30, 31, 30, 31>>
leap_months   == <<31, 29, 31, 30, 31, 30, 31, 31, 30, 31, 30, 31>>

\* day_tab and mon_lengths, which hold the same numbers, by month 1 to 12.
day_tab(leap) == IF leap THEN leap_months ELSE common_months
MonthLength(y, m) == day_tab(isleap(y))[m]
YearLength(y) == IF isleap(y) THEN 366 ELSE 365

\* IS_VALID_JULIAN: exact below, "a bit sloppy" above.
ValidJulian(y, m, d) ==
  /\ \/ y > JULIAN_MINYEAR
     \/ y = JULIAN_MINYEAR /\ m > JULIAN_MINMONTH
     \/ y = JULIAN_MINYEAR /\ m = JULIAN_MINMONTH /\ d >= JULIAN_MINDAY
  /\ y < JULIAN_MAXYEAR

----------------------------------------------------------------------------
\* January and February count as months 14 and 15 of the year before.
Late(m) == IF m > 2 THEN m + 1 ELSE m + 13
Shifted(y, m) == IF m > 2 THEN y + 4800 ELSE y + 4799

date2j(y, m, d) ==
  LET s == Shifted(y, m)
      century == CDiv(s, 100)
  IN  s * 365 - 32167 + CDiv(s, 4) - century + CDiv(century, 4)
        + (7834 * Late(m)) \div 256 + d

j2date(jd) ==
  LET j0    == jd + 32044
      quad  == j0 \div 146097
      extra == (j0 % 146097) * 4 + 3
      j1    == j0 + 60 + quad * 3 + extra \div 146097
      left  == j1 % 1461
      y     == (left * 4) \div 1461
      j2    == (IF y # 0 THEN (left + 305) % 365 ELSE (left + 306) % 366) + 123
      q     == (j2 * 2141) \div 65536
  IN  Date(y + (j1 \div 1461) * 4 - 4800,
           ((q + 10) % MonthsPerYear) + 1,
           j2 - (7834 * q) \div 256)

\* Day of the week, 0 for Sunday.
j2day(jd) == (jd + 1) % 7

----------------------------------------------------------------------------
\* The month n months on, brought back into a year in either direction.
MonthsOn(y, m, n) ==
  LET mon == m + n
  IN  IF mon > MonthsPerYear
      THEN [year |-> y + (mon - 1) \div MonthsPerYear,
            mon |-> ((mon - 1) % MonthsPerYear) + 1]
      ELSE IF mon < 1
      THEN [year |-> y + CDiv(mon, MonthsPerYear) - 1,
            mon |-> CMod(mon, MonthsPerYear) + MonthsPerYear]
      ELSE [year |-> y, mon |-> mon]

\* Mutant: the day is not clipped to the month.
AddMonthsUnclipped(date, n) ==
  LET t == MonthsOn(date.year, date.mon, n) IN Date(t.year, t.mon, date.mday)

\* "adjust for end of month boundary problems..."
AddMonths(date, n) ==
  LET t == MonthsOn(date.year, date.mon, n)
      last == MonthLength(t.year, t.mon)
  IN  Date(t.year, t.mon, IF date.mday > last THEN last ELSE date.mday)

\* "Add days by converting to and from julian"
AddDays(date, n) == j2date(date2j(date.year, date.mon, date.mday) + n)

----------------------------------------------------------------------------
(* The calendar, said without day numbers *)

IsDate(date) ==
  /\ date.mon \in 1..MonthsPerYear
  /\ date.mday \in 1..MonthLength(date.year, date.mon)

NextDay(date) ==
  IF date.mday < MonthLength(date.year, date.mon)
  THEN Date(date.year, date.mon, date.mday + 1)
  ELSE IF date.mon < MonthsPerYear
  THEN Date(date.year, date.mon + 1, 1)
  ELSE Date(date.year + 1, 1, 1)

=============================================================================
