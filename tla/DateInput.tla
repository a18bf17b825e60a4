----------------------------- MODULE DateInput -----------------------------
(***************************************************************************)
(* DecodeDateTime: the fields of a date with time of day and time zone, in  *)
(* any order, read one by one into a struct tm; the reader of dates and of  *)
(* timestamps with and without time zone.                                   *)
(*                                                                          *)
(* The locals of the call are the record d.  A time zone is the zone whose  *)
(* offset is to be taken (at the local time decoded, see LocalTime) and a   *)
(* number of seconds west of it.  All callers ask for a time zone.  Left    *)
(* out are letters in front of the zone behind "t" ("t abcdef-08"), which   *)
(* the code reads as a time of zeros and the model refuses.                 *)
(***************************************************************************)
EXTENDS FieldDecoding

CONSTANTS
  Now,           \* the current time, a struct tm
  SessionZone    \* session_timezone

ASSUME DateInputAssumption ==
  /\ SessionZone \in Zones
  /\ Now \in [year : Int, mon : 1..12, mday : 1..31, yday : Nat \cup {Unset},
             wday : Nat \cup {Unset}, hour : 0..23, min : 0..59, sec : 0..59, fsec : Nat]

West(secs) == [zone |-> NoZone, west |-> secs]
In(zone) == [zone |-> zone, west |-> 0]

NoTm == [year |-> Unset, mon |-> Unset, mday |-> Unset, yday |-> Unset,
         wday |-> Unset, hour |-> 0, min |-> 0, sec |-> 0, fsec |-> 0]

\* Before the first field.
Fresh(dtype) ==
  [err |-> "ok", fmask |-> {}, tm |-> NoTm, two |-> FALSE, ptype |-> "none",
   dtype |-> dtype, mer |-> "HR24", textMonth |-> FALSE, isjulian |-> FALSE,
   bc |-> FALSE, zone |-> NoZone, tz |-> West(0)]

Refused(d, err) == [d EXCEPT !.err = err]

\* The end of each round: no part may be given twice.
Accept(d, r) ==
  IF ~ Ok(r) THEN Refused(d, r.err)
  ELSE IF r.tmask \cap d.fmask # {} THEN Refused(d, "BAD_FORMAT")
  ELSE [d EXCEPT !.fmask = @ \cup r.tmask, !.tm = r.tm, !.two = r.two]

\* Found without a change to the struct tm, or with the one given.
Also(d, tmask) == Accept(d, Got(tmask, d.tm, d.two))
Sets(d, tmask, tm) == Accept(d, Got(tmask, tm, d.two))

----------------------------------------------------------------------------
\* "hhmmss-zz": a time run together, with a zone.
TimeWithZone(d, lex, fmask) ==
  LET dashes == {k \in DOMAIN lex : lex[k] = Mark("-")}
      cp == CHOOSE k \in dashes : \A j \in dashes : k <= j
      z  == DecodeTimezone(SubSeq(lex, cp, Len(lex)))
      r  == DecodeNumberField(Number(SubSeq(lex, 1, cp - 1)), fmask, d.tm, d.two)
  IN  IF TIME_M \subseteq d.fmask \/ dashes = {} THEN Refused(d, "BAD_FORMAT")
      ELSE IF ~ Ok(z) THEN Refused(d, z.err)
      ELSE IF ~ Ok(r) THEN Refused(d, r.err)
      ELSE Accept([d EXCEPT !.tz = West(z.tz)],
                  Got(r.tmask \cup {"TZ"}, r.tm, r.two))

\* A zone name that is not recognised is only warned about.
NamedZone(d, lex) == Also([d EXCEPT !.zone = pg_tzset(lex)], {"TZ"})

\* A Julian day with a time zone behind it.
JulianWithZone(d, lex) ==
  LET z == DecodeTimezone(SubSeq(lex, EndAt(lex, 1), Len(lex)))
  IN  IF ~ Ok(z) THEN Refused(d, z.err)
      ELSE Sets([d EXCEPT !.isjulian = TRUE, !.ptype = "none", !.tz = West(z.tz)],
                DATE_M \cup TIME_M \cup {"TZ"}, OnDay(d.tm, j2date(ValAt(lex, 1))))

\* case DTK_DATE: a date, or with month and day known a zone or a time and zone.
DateField(d, lex, order) ==
  IF d.ptype = "JULIAN" THEN JulianWithZone(d, lex)
  ELSE IF d.ptype \notin {"none", "TIME"} THEN Refused(d, "BAD_FORMAT")
  ELSE IF d.ptype = "TIME" \/ ({"MONTH", "DAY"} \subseteq d.fmask /\ IsDigits(lex[1]))
  THEN TimeWithZone([d EXCEPT !.ptype = "none"], lex, d.fmask)
  ELSE IF {"MONTH", "DAY"} \subseteq d.fmask THEN NamedZone(d, lex)
  ELSE Accept(d, DecodeDate(lex, d.fmask, order, d.tm, d.two))

\* "test for > 24:00:00"
PastMidnight(tm) ==
  tm.hour > 24 \/ (tm.hour = 24 /\ (tm.min > 0 \/ tm.sec > 0 \/ tm.fsec > 0))

\* A time leaves is2digits alone.
AcceptTime(d, r) == IF Ok(r) THEN Sets(d, r.tmask, r.tm) ELSE Refused(d, r.err)

WithinDay(r) == IF Ok(r) /\ PastMidnight(r.tm) THEN Fail("FIELD_OVERFLOW") ELSE r

\* case DTK_TIME
TimeField(d, lex) ==
  IF d.ptype \notin {"none", "TIME"} THEN Refused(d, "BAD_FORMAT")
  ELSE AcceptTime([d EXCEPT !.ptype = "none"], WithinDay(DecodeTime(lex, d.tm)))

\* case DTK_TZ
TzField(d, lex) ==
  LET z == DecodeTimezone(lex)
  IN  IF Ok(z) THEN Also([d EXCEPT !.tz = West(z.tz)], {"TZ"}) ELSE Refused(d, z.err)

----------------------------------------------------------------------------
\* "fractional Julian Day?" and dt2time.
JulianDay(n, tm) ==
  LET t  == OnDay(tm, j2date(n.val))
      x  == SECS_PER_DAY * n.frac.val
      k  == 10 ^ n.frac.len
      s  == x \div k
  IN  IF n.point
      THEN [WithTime(t, s \div 3600, (s % 3600) \div 60, s % 60)
              EXCEPT !.fsec = (x % k) * 10 ^ (6 - n.frac.len)]
      ELSE t

\* A number behind the label ptype.
Labelled(n, ptype, fmask, tm, two) ==
  LET minute == ptype = "MINUTE" \/ (ptype = "MONTH" /\ {"MONTH", "HOUR"} \subseteq fmask)
      fsec   == IF n.point THEN ParseFractionalSecond(n.frac) ELSE tm.fsec
      nothing == n.point /\ n.frac.len = 0
  IN  IF nothing \/ (n.point /\ ptype \notin {"JULIAN", "TIME", "SECOND"}) THEN Bad
      ELSE IF minute THEN Got({"MINUTE"}, [tm EXCEPT !.min = n.val], two)
      ELSE IF ptype \in DATE_M THEN Got({ptype}, SetPart(tm, ptype, n.val), two)
      ELSE IF ptype = "HOUR" THEN Got({"HOUR"}, [tm EXCEPT !.hour = n.val], two)
      ELSE IF ptype = "SECOND"
      THEN Got(IF n.point THEN ALL_SECS_M ELSE {"SECOND"},
               [tm EXCEPT !.sec = n.val, !.fsec = fsec], two)
      ELSE IF ptype = "JULIAN"
      THEN Got(IF n.point THEN DATE_M \cup TIME_M ELSE DATE_M, JulianDay(n, tm), two)
      ELSE IF ptype = "TIME" THEN DecodeNumberField(n, fmask \cup DATE_M, tm, two)
      ELSE Bad

LabelledNumber(d, lex) ==
  LET r == Labelled(Number(lex), d.ptype, d.fmask, d.tm, d.two)
  IN  Accept([d EXCEPT !.ptype = "none", !.dtype = "DATE",
                       !.isjulian = @ \/ d.ptype = "JULIAN"], r)

\* Without a label, what a number is follows from its length and its point.
PlainNumber(d, lex, order) ==
  LET n == Number(lex)
  IN  Accept(d, IF n.point /\ d.fmask \cap DATE_M = {}
                THEN DecodeDate(lex, d.fmask, order, d.tm, d.two)
                ELSE IF (n.point /\ n.len > 2) \/ Flen(n) > 4
                THEN DecodeNumberField(n, d.fmask, d.tm, d.two)
                ELSE DecodeNumber(n, d.textMonth, d.fmask, order, d.tm, d.two))

\* case DTK_NUMBER
NumberField(d, lex, order) ==
  IF d.ptype # "none" THEN LabelledNumber(d, lex) ELSE PlainNumber(d, lex, order)

----------------------------------------------------------------------------
Today == Date(Now.year, Now.mon, Now.mday)

\* case RESERV
ReservedWord(d, val) ==
  LET now == [d EXCEPT !.dtype = "DATE"]
      day(n) == Sets(now, DATE_M, OnDay(d.tm, AddDays(Today, n)))
  IN  IF val = "CURRENT" THEN Refused(d, "BAD_FORMAT")
      ELSE IF val = "NOW"
      THEN Sets([now EXCEPT !.tz = In(SessionZone)],
                DATE_M \cup TIME_M \cup {"TZ"},
                [Now EXCEPT !.wday = d.tm.wday, !.yday = d.tm.yday])
      ELSE IF val = "YESTERDAY" THEN day(-1)
      ELSE IF val = "TODAY" THEN day(0)
      ELSE IF val = "TOMORROW" THEN day(1)
      ELSE IF val = "ZULU"
      THEN Sets([now EXCEPT !.tz = West(0)], TIME_M \cup {"TZ"}, WithTime(d.tm, 0, 0, 0))
      ELSE Also([d EXCEPT !.dtype = val], {"RESERV"})

\* "already have a (numeric) month? then see if we can substitute..."
MonthWasDay(d) ==
  /\ "MONTH" \in d.fmask /\ ~ d.textMonth /\ "DAY" \notin d.fmask
  /\ d.tm.mon \in 1..31

MonthWord(d, val) ==
  LET m == [d EXCEPT !.textMonth = TRUE]
  IN  IF MonthWasDay(d)
      THEN Sets(m, {"DAY"}, [d.tm EXCEPT !.mday = d.tm.mon, !.mon = val])
      ELSE Sets(m, {"MONTH"}, [d.tm EXCEPT !.mon = val])

\* Abbreviations; val is in minutes.
ZoneWord(d, type, val) ==
  IF type = "DTZMOD" THEN Also([d EXCEPT !.tz.west = @ + val * 60], {"DTZMOD", "DTZ"})
  ELSE Also([d EXCEPT !.tz = West(val * 60)], {"TZ", type})

\* "t": needs a date before it and a time behind it.
IsoTime(d, val, next) ==
  IF DATE_M \subseteq d.fmask /\ next \in {"NUMBER", "TIME", "DATE"}
  THEN Also([d EXCEPT !.ptype = val], {})
  ELSE Refused(d, "BAD_FORMAT")

\* "check to see if it is an all-alpha timezone name"
UnknownWord(d, lex) ==
  IF pg_tzset(lex) = NoZone THEN Refused(d, "BAD_FORMAT") ELSE NamedZone(d, lex)

\* The word of a DTK_STRING or, with its sign, of a DTK_SPECIAL.
WordOf(lex) == IF IsLetters(lex[1]) THEN lex[1].w ELSE lex[1].p \o lex[2].w

\* cases DTK_STRING and DTK_SPECIAL; next is the type of the field behind.
WordField(d, lex, next) ==
  LET s == DecodeSpecial(WordOf(lex))
  IN  IF s.type = "IGNORE_DTF" THEN d
      ELSE IF s.type = "RESERV" THEN ReservedWord(d, s.val)
      ELSE IF s.type = "MONTH" THEN MonthWord(d, s.val)
      ELSE IF s.type \in {"DTZMOD", "DTZ", "TZ"} THEN ZoneWord(d, s.type, s.val)
      ELSE IF s.type = "AMPM" THEN Also([d EXCEPT !.mer = s.val], {"AMPM"})
      ELSE IF s.type = "ADBC" THEN Also([d EXCEPT !.bc = (s.val = "BC")], {"ADBC"})
      ELSE IF s.type = "DOW" THEN Sets(d, {"DOW"}, [d.tm EXCEPT !.wday = s.val])
      ELSE IF s.type = "UNITS" THEN Also([d EXCEPT !.ptype = s.val], {})
      ELSE IF s.type = "ISOTIME" THEN IsoTime(d, s.val, next)
      ELSE IF s.type = "UNKNOWN_FIELD" THEN UnknownWord(d, lex)
      ELSE Refused(d, "BAD_FORMAT")

TypeBehind(field, i) == IF i < Len(field) THEN field[i + 1].ftype ELSE "none"

\* One round of the loop over the fields.
DateTimeField(d, field, i, order) ==
  LET f == field[i]
  IN  IF f.ftype = "DATE" THEN DateField(d, f.lex, order)
      ELSE IF f.ftype = "TIME" THEN TimeField(d, f.lex)
      ELSE IF f.ftype = "TZ" THEN TzField(d, f.lex)
      ELSE IF f.ftype = "NUMBER" THEN NumberField(d, f.lex, order)
      ELSE WordField(d, f.lex, TypeBehind(field, i))

----------------------------------------------------------------------------
\* "additional checking for full date specs..."
FullDate(d) ==
  LET named == d.zone # NoZone
      local == "TZ" \notin d.fmask
  IN  IF ~ DATE_M \subseteq d.fmask
      THEN Refused(d, IF TIME_M \subseteq d.fmask THEN "TIME_ONLY" ELSE "BAD_FORMAT")
      ELSE IF (named \/ local) /\ "DTZMOD" \in d.fmask THEN Refused(d, "BAD_FORMAT")
      ELSE [d EXCEPT !.tz = IF named THEN In(d.zone)
                            ELSE IF local THEN In(SessionZone) ELSE @]

\* The hour of a date that was validated as v.
HourOfDay(d, v) ==
  IF ~ Ok(v) THEN Refused(d, v.err)
  ELSE IF d.mer # "HR24" /\ v.tm.hour > Noon THEN Refused(d, "FIELD_OVERFLOW")
  ELSE [d EXCEPT !.tm = [v.tm EXCEPT !.hour = ApplyMeridiem(d.mer, @)]]

Validated(d) == HourOfDay(d, ValidateDate(d.fmask, d.isjulian, d.two, d.bc, d.tm))

\* After the loop: the checks of the whole.
DateTimeEnd(d) ==
  LET t == Validated(d)
  IN  IF t.err = "ok" /\ t.dtype = "DATE" THEN FullDate(t) ELSE t

=============================================================================
