------------------------------ MODULE TimeSub -------------------------------
(***************************************************************************)
(* timesub of the zone library: the broken-down time shown for an instant   *)
(* at an offset, by years counted from 1970 and not by day numbers.         *)
(*                                                                          *)
(* An instant is a day since 1 January 1970 and a second of that day.  The  *)
(* leap second table is left out: the corrections of the loaded files are   *)
(* empty.  increment_overflow never reports an overflow of an int here.     *)
(***************************************************************************)
EXTENDS Calendar

EPOCH_YEAR == 1970
EPOCH_WDAY == 4
DAYSPERWEEK == 7
DAYSPERNYEAR == 365
DAYSPERLYEAR == 366

LeapsSince0(y) == y \div 4 - y \div 100 + y \div 400

\* Leap years through the end of y; zero for year zero.
leaps_thru_end_of(y) == IF y >= 0 THEN LeapsSince0(y) ELSE -(LeapsSince0(-(y + 1)) + 1)

----------------------------------------------------------------------------
\* A year and a day counted from its start, which may lie outside it.
InYear(p) == 0 <= p[2] /\ p[2] < YearLength(p[1])

\* "while (tdays < 0 || ...)": leaps of whole years, each at least one, until
\* the day falls into the year.
Leap(y, tdays) ==
  LET tdelta == CDiv(tdays, DAYSPERLYEAR)
      idelta == IF tdelta # 0 THEN tdelta ELSE IF tdays < 0 THEN -1 ELSE 1
      newy   == y + idelta
      leapdays == leaps_thru_end_of(newy - 1) - leaps_thru_end_of(y - 1)
  IN  <<newy, tdays - idelta * DAYSPERNYEAR - leapdays>>

YearOfDay[p \in Int \X Int] == IF InYear(p) THEN p ELSE YearOfDay[Leap(p[1], p[2])]

\* "while (rem < 0)" and "while (rem >= SECSPERDAY)", a day at a time.
DayOfSecond(idays, rem) == <<idays + rem \div SECS_PER_DAY, rem % SECS_PER_DAY>>

\* The offset may have moved the day out of its year: "while (idays < 0)" and
\* "while (idays >= year_lengths[isleap(y)])".
NextYear(y, idays) ==
  IF idays < 0 THEN <<y - 1, idays + YearLength(y - 1)>>
  ELSE <<y + 1, idays - YearLength(y)>>

IntoYear[p \in Int \X Int] == IF InYear(p) THEN p ELSE IntoYear[NextYear(p[1], p[2])]

\* "for (tmp->tm_mon = 0; idays >= ip[tmp->tm_mon]; ++(tmp->tm_mon))": the days
\* left at the start of each month, and the first month they fall into.
DaysLeft(ip, yday) ==
  LET Left[m \in 1..MonthsPerYear] ==
        IF m = 1 THEN yday ELSE Left[m - 1] - ip[m - 1]
  IN  Left

IntoMonth(ip, yday) ==
  LET left == DaysLeft(ip, yday)
      mon == CHOOSE m \in 1..MonthsPerYear :
               left[m] < ip[m] /\ \A k \in 1..(m - 1) : left[k] >= ip[k]
  IN  <<mon, left[mon]>>

WeekDay(y, idays) ==
  LET wday == CMod(EPOCH_WDAY
                     + CMod(y - EPOCH_YEAR, DAYSPERWEEK) * (DAYSPERNYEAR % DAYSPERWEEK)
                     + leaps_thru_end_of(y - 1) - leaps_thru_end_of(EPOCH_YEAR - 1)
                     + idays, DAYSPERWEEK)
  IN  IF wday < 0 THEN wday + DAYSPERWEEK ELSE wday

\* The instant, which C divides towards zero, in days and a rest.
Truncated(day, sec) ==
  IF day < 0 /\ sec > 0 THEN <<day + 1, sec - SECS_PER_DAY>> ELSE <<day, sec>>

\* tm_year and tm_mon as timestamp2tm passes them on: from year 0 and month 1.
timesub(day, sec, offset) ==
  LET t   == Truncated(day, sec)
      yd  == YearOfDay[<<EPOCH_YEAR, t[1]>>]
      ds  == DayOfSecond(yd[2], t[2] + offset)
      yd2 == IntoYear[<<yd[1], ds[1]>>]
      md  == IntoMonth(day_tab(isleap(yd2[1])), yd2[2])
  IN  [date |-> Date(yd2[1], md[1], md[2] + 1),
       hour |-> ds[2] \div 3600, min |-> (ds[2] % 3600) \div 60, sec |-> ds[2] % 60,
       wday |-> WeekDay(yd2[1], yd2[2]), yday |-> yd2[2]]

=============================================================================
