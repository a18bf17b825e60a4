--------------------------- MODULE FieldDecoding ----------------------------
(***************************************************************************)
(* What the decoders of dates, times and intervals share: the reading of    *)
(* one field in the context of the parts already seen (DecodeDate,          *)
(* DecodeNumber, DecodeNumberField, DecodeTime, DecodeTimezone) and the     *)
(* check of the whole (ValidateDate).                                       *)
(*                                                                          *)
(* A mask is the set of the parts it has bits for.  Left out are the words  *)
(* of a date behind the 25th, the sign of a part within a zone ("+5:-0")    *)
(* and the exponent of a fraction (".5e1").                                 *)
(***************************************************************************)
EXTENDS TextFields, Calendar

CONSTANT Unset   \* what a field of an uninitialised struct tm holds

ASSUME FieldDecodingAssumption == Unset \notin Int

DATE_M == {"YEAR", "MONTH", "DAY"}
ALL_SECS_M == {"SECOND", "MILLISECOND", "MICROSECOND"}
TIME_M == {"HOUR", "MINUTE"} \cup ALL_SECS_M

DateOrders == {"YMD", "DMY", "MDY"}

\* A decoder's result: an error, or the parts found with the struct tm and
\* is2digits they leave.
Fail(err) == [err |-> err]
Bad == Fail("BAD_FORMAT")
Got(tmask, tm, two) == [err |-> "ok", tmask |-> tmask, tm |-> tm, two |-> two]
Ok(r) == r.err = "ok"

\* strtoi at place p: the value, and where it stops.
HasDigits(lex, p) == Inside(lex, p) /\ IsDigits(lex[p])
ValAt(lex, p) == IF HasDigits(lex, p) THEN lex[p].val ELSE 0
EndAt(lex, p) == IF HasDigits(lex, p) THEN p + 1 ELSE p
MarkAt(lex, p, m) == Inside(lex, p) /\ lex[p] = Mark(m)
AtEnd(lex, p) == p > Len(lex)

----------------------------------------------------------------------------
\* A fraction of at most six digits, in microseconds.
ParseFractionalSecond(l) == l.val * 10 ^ (6 - l.len)

NoPoint == Digits(0, 0)

\* A numeric field: the digits before the point and those after it.
Number(lex) ==
  LET p == EndAt(lex, 1)
      whole == IF HasDigits(lex, 1) THEN lex[1] ELSE Digits(0, 0)
  IN  [len |-> whole.len, val |-> whole.val,
       point |-> MarkAt(lex, p, "."),
       frac |-> IF HasDigits(lex, p + 1) THEN lex[p + 1] ELSE NoPoint]

Flen(n) == n.len + (IF n.point THEN 1 + n.frac.len ELSE 0)

\* "+hh", "+hh:mm", "+hh:mm:ss" or "+hhmm"; seconds west of Greenwich.
DecodeTimezone(lex) ==
  LET h      == ValAt(lex, 2)
      p1     == EndAt(lex, 2)
      colon1 == MarkAt(lex, p1, ":")
      p2     == IF colon1 THEN EndAt(lex, p1 + 1) ELSE p1
      colon2 == colon1 /\ MarkAt(lex, p2, ":")
      p3     == IF colon2 THEN EndAt(lex, p2 + 1) ELSE p2
      together == HasDigits(lex, 2) /\ AtEnd(lex, p1) /\ lex[2].len > 2
      hr     == IF together THEN h \div 100 ELSE h
      min    == IF together THEN h % 100
                ELSE IF colon1 THEN ValAt(lex, p1 + 1) ELSE 0
      sec    == IF colon2 THEN ValAt(lex, p2 + 1) ELSE 0
      tz     == (hr * 60 + min) * 60 + sec
  IN  IF ~ (MarkAt(lex, 1, "+") \/ MarkAt(lex, 1, "-")) THEN Bad
      ELSE IF hr > 15 \/ min >= 60 \/ sec >= 60 THEN Fail("TZDISP_OVERFLOW")
      ELSE IF ~ AtEnd(lex, p3) THEN Bad
      ELSE [err |-> "ok", tz |-> IF lex[1] = Mark("-") THEN tz ELSE -tz]

----------------------------------------------------------------------------
WithDate(tm, y, m, d) == [tm EXCEPT !.year = y, !.mon = m, !.mday = d]
OnDay(tm, date) == WithDate(tm, date.year, date.mon, date.mday)
WithTime(tm, h, m, s) == [tm EXCEPT !.hour = h, !.min = m, !.sec = s]

\* A date or a time run together: yyyymmdd, yymmdd, hhmmss or hhmm.
DecodeNumberField(n, fmask, tm0, two) ==
  LET tm  == IF n.point THEN [tm0 EXCEPT !.fsec = ParseFractionalSecond(n.frac)] ELSE tm0
      hi  == n.val \div 10000
      mid == (n.val \div 100) % 100
      lo  == n.val % 100
      date == ~ n.point /\ ~ DATE_M \subseteq fmask
      time == ~ TIME_M \subseteq fmask
  IN  IF date /\ n.len = 8 THEN Got(DATE_M, WithDate(tm, hi, mid, lo), two)
      ELSE IF date /\ n.len = 6 THEN Got(DATE_M, WithDate(tm, hi, mid, lo), TRUE)
      ELSE IF time /\ n.len = 6 THEN Got(TIME_M, WithTime(tm, hi, mid, lo), two)
      ELSE IF time /\ n.len = 4 THEN Got(TIME_M, WithTime(tm, mid, lo, 0), two)
      ELSE Bad

\* One number of a date: which part it is follows from the parts known.
PartOf(n, textMonth, known, order) ==
  LET long == Flen(n) >= 3
  IN  IF known = {} THEN IF long \/ order = "YMD" THEN "YEAR"
                         ELSE IF order = "DMY" THEN "DAY" ELSE "MONTH"
      ELSE IF known = {"MONTH"} /\ textMonth /\ (long \/ order = "YMD") THEN "YEAR"
      ELSE IF known \in {{"MONTH"}, {"YEAR", "MONTH"}} THEN "DAY"
      ELSE IF known \in {{"YEAR"}, {"DAY"}} THEN "MONTH"
      ELSE IF known = {"MONTH", "DAY"} THEN "YEAR"
      ELSE "none"

\* Mutant: a month's number is put in the place of the day.
SetPartSwapped(tm, part, val) ==
  IF part = "YEAR" THEN [tm EXCEPT !.year = val] ELSE [tm EXCEPT !.mday = val]

SetPart(tm, part, val) ==
  IF part = "YEAR" THEN [tm EXCEPT !.year = val]
  ELSE IF part = "MONTH" THEN [tm EXCEPT !.mon = val]
  ELSE [tm EXCEPT !.mday = val]

\* "Guess that first numeric field is day was wrong".
DayWasYear(n, textMonth, known, two) ==
  known = {"YEAR", "MONTH"} /\ textMonth /\ Flen(n) >= 3 /\ two

\* Mutant: the year behind still counts as one of two digits.
YearBehindShort(n, tm) == Got({"DAY"}, [tm EXCEPT !.mday = tm.year, !.year = n.val], TRUE)

YearBehind(n, tm) == Got({"DAY"}, [tm EXCEPT !.mday = tm.year, !.year = n.val], FALSE)

DecodeNumber(n, textMonth, fmask, order, tm0, two) ==
  LET known == fmask \cap DATE_M
      tm    == IF n.point THEN [tm0 EXCEPT !.fsec = ParseFractionalSecond(n.frac)] ELSE tm0
      part  == PartOf(n, textMonth, known, order)
  IN  IF n.len = 0 THEN Bad
      ELSE IF n.point /\ n.len > 2
      THEN DecodeNumberField(n, fmask \cup DATE_M, tm0, two)
      ELSE IF Flen(n) = 3 /\ known = {"YEAR"} /\ n.val \in 1..366
      THEN Got({"DOY", "MONTH", "DAY"}, [tm EXCEPT !.yday = n.val], two)
      ELSE IF known = DATE_M THEN DecodeNumberField(n, fmask, tm, two)
      ELSE IF DayWasYear(n, textMonth, known, two) THEN YearBehind(n, tm)
      ELSE IF part = "none" THEN Bad
      ELSE Got({part}, SetPart(tm, part, n.val),
               IF part = "YEAR" THEN Flen(n) <= 2 ELSE two)

----------------------------------------------------------------------------
DecodeSpecial(w) ==
  IF w \in DOMAIN timezonetktbl THEN timezonetktbl[w]
  ELSE IF w \in DOMAIN datetktbl THEN datetktbl[w]
  ELSE [type |-> "UNKNOWN_FIELD", val |-> 0]

\* What the next number adds to the parts r of the same date.
NumberAdded(r, fmask, next) ==
  IF ~ Ok(next) THEN next
  ELSE IF next.tmask \cap (fmask \cup r.tmask) # {} THEN Bad
  ELSE Got(r.tmask \cup next.tmask, next.tm, next.two)

\* The numbers of a date in turn, each in the context of those before: what is
\* known behind each place.
DateNumbers(lex, textMonth, fmask, order, start) ==
  LET After[k \in 0..Len(lex)] ==
        IF k = 0 THEN start
        ELSE LET r == After[k - 1]
             IN  IF ~ Ok(r) \/ ~ IsDigits(lex[k]) THEN r
                 ELSE NumberAdded(r, fmask,
                        DecodeNumber(Number(<<lex[k]>>), textMonth, fmask \cup r.tmask,
                                     order, r.tm, r.two))
  IN  After

\* "done with everything... check for a complete date"
Complete(r, fmask) ==
  IF Ok(r) /\ (fmask \cup r.tmask) \ {"DOY", "TZ"} # DATE_M THEN Bad ELSE r

\* "end of string after separator"
EndsInSeparators(lex) ==
  /\ ~ AlphaNum(lex[Len(lex)])
  /\ Len(lex) > 1 => ~ AlphaNum(lex[Len(lex) - 1])

\* The powers of ten from the first on.
Tens == <<1, 10, 100, 1000, 10000, 100000, 1000000, 10000000, 100000000>>

OneLong(l) == IF IsDigits(l) THEN l.len = 1 ELSE Len(l.w) = 1
WithoutFirst(l) ==
  IF IsDigits(l) THEN Digits(l.len - 1, l.val % Tens[l.len]) ELSE Letters(Tail(l.w))

\* The character behind each word is overwritten, and it need not be a separator:
\* letters right behind digits, or digits behind letters, lose their first one,
\* unless what stands before them was lost whole.
LostFirst(lex) ==
  LET Lost[k \in 2..Len(lex)] ==
        /\ AlphaNum(lex[k]) /\ AlphaNum(lex[k - 1])
        /\ ~ (k > 2 /\ Lost[k - 1] /\ OneLong(lex[k - 1]))
  IN  Lost

\* "parse this string...": what is left of it, with its words apart.
DateWords(lex) ==
  LET left(k) == IF k = 1 \/ ~ LostFirst(lex)[k] THEN lex[k]
                 ELSE IF OneLong(lex[k]) THEN Mark("lost") ELSE WithoutFirst(lex[k])
  IN  [k \in 1..Len(lex) |-> left(k)]

\* A date with delimiters: a month name first, then the numbers.
DecodeDate(str, fmask, order, tm, two) ==
  LET lex   == DateWords(str)
      words == {k \in DOMAIN lex : IsLetters(lex[k])}
      named == words # {}
      month == DecodeSpecial(lex[CHOOSE k \in words : TRUE].w)
      ok    == ~ EndsInSeparators(lex)
               /\ (named => /\ \A j, k \in words : j = k
                            /\ month.type = "MONTH" /\ "MONTH" \notin fmask)
      start == IF named THEN Got({"MONTH"}, [tm EXCEPT !.mon = month.val], two)
               ELSE Got({}, tm, two)
  IN  IF ~ ok THEN Bad
      ELSE Complete(DateNumbers(lex, named, fmask, order, start)[Len(lex)], fmask)

\* "hh:mm", "hh:mm:ss" with or without a fraction, or "mm:ss.f".
DecodeTime(lex, tm) ==
  LET a  == ValAt(lex, 1)
      b  == ValAt(lex, 3)
      p2 == EndAt(lex, 3)
      p3 == EndAt(lex, p2 + 1)
      fsec(p) == ParseFractionalSecond(lex[p + 1])
      short == AtEnd(lex, p2)
      mmss  == MarkAt(lex, p2, ".") /\ HasDigits(lex, p2 + 1) /\ AtEnd(lex, p2 + 2)
      long  == MarkAt(lex, p2, ":") /\ AtEnd(lex, p3)
      full  == /\ MarkAt(lex, p2, ":") /\ MarkAt(lex, p3, ".")
               /\ HasDigits(lex, p3 + 1) /\ AtEnd(lex, p3 + 2)
      t == IF short THEN [WithTime(tm, a, b, 0) EXCEPT !.fsec = 0]
           ELSE IF mmss THEN [WithTime(tm, 0, a, b) EXCEPT !.fsec = fsec(p2)]
           ELSE IF long THEN [WithTime(tm, a, b, ValAt(lex, p2 + 1)) EXCEPT !.fsec = 0]
           ELSE [WithTime(tm, a, b, ValAt(lex, p2 + 1)) EXCEPT !.fsec = fsec(p3)]
  IN  IF ~ (MarkAt(lex, 2, ":") /\ (short \/ mmss \/ long \/ full)) THEN Bad
      ELSE IF t.min > 59 \/ t.sec > 60 THEN Fail("FIELD_OVERFLOW")
      ELSE Got(TIME_M, t, FALSE)

----------------------------------------------------------------------------
\* The year meant: 1 BC is year zero, and two digits lie in 1970 to 2069.
SettledYear(y, isjulian, bc, two) ==
  IF isjulian THEN y
  ELSE IF bc THEN -(y - 1)
  ELSE IF two /\ y < 70 THEN y + 2000
  ELSE IF two /\ y < 100 THEN y + 1900
  ELSE y

\* "there is no year zero in AD/BC notation"
YearRefused(y, isjulian, bc, two) ==
  ~ isjulian /\ (bc \/ ~ two) /\ y <= 0

\* "check for valid month", "minimal check for valid day" and the month's own length.
DayInMonth(fmask, t) ==
  IF "MONTH" \in fmask /\ t.mon \notin 1..MonthsPerYear THEN Fail("MD_FIELD_OVERFLOW")
  ELSE IF "DAY" \in fmask /\ t.mday \notin 1..31 THEN Fail("MD_FIELD_OVERFLOW")
  ELSE IF DATE_M \subseteq fmask /\ t.mday > MonthLength(t.year, t.mon)
  THEN Fail("FIELD_OVERFLOW")
  ELSE [err |-> "ok", tm |-> t]

\* Mutant: the first day of the year is day zero.
DayOfYearFromZero(tm) == OnDay(tm, j2date(date2j(tm.year, 1, 1) + tm.yday))

\* "now that we have correct year, decode DOY"
DayOfYear(tm) == OnDay(tm, j2date(date2j(tm.year, 1, 1) + tm.yday - 1))

ValidateDate(fmask, isjulian, two, bc, tm) ==
  LET hasYear == "YEAR" \in fmask
      y == IF hasYear THEN SettledYear(tm.year, isjulian, bc, two) ELSE tm.year
      t == [tm EXCEPT !.year = y]
  IN  IF hasYear /\ YearRefused(tm.year, isjulian, bc, two) THEN Fail("FIELD_OVERFLOW")
      ELSE DayInMonth(fmask, IF "DOY" \in fmask THEN DayOfYear(t) ELSE t)

\* "handle AM/PM"
Noon == 12
ApplyMeridiem(mer, hour) ==
  IF mer = "AM" /\ hour = Noon THEN 0
  ELSE IF mer = "PM" /\ hour # Noon THEN hour + Noon
  ELSE hour

=============================================================================
