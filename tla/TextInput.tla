----------------------------- MODULE TextInput -----------------------------
(***************************************************************************)
(* The readers of text put together: timestamptz_in, time_in and            *)
(* interval_in cut a text into fields (ParseDateTime), read the fields one  *)
(* by one, check the whole, and make a value of it.  A timestamp is then    *)
(* stored (tm2timestamp), shown again, and moved by months.                 *)
(*                                                                          *)
(* timestamp_in and date_in read through DecodeDateTime as timestamptz_in   *)
(* does, timetz_in through DecodeTimeOnly as time_in.  A text that is not   *)
(* accepted ends the behaviour: what the callers make of it after their     *)
(* warning is left out.                                                     *)
(***************************************************************************)
EXTENDS TimeInput, SpanMeaning, TimeSub

CONSTANTS
  DateTexts,       \* texts given to timestamptz_in and time_in, as lexemes
  SpanTexts,       \* texts given to interval_in, as lexemes
  IsoTexts,        \* those that begin with "P", as numbers and characters
  DateOrderings,   \* values of DateOrder
  Styles,          \* values of IntervalStyle
  Months           \* months a timestamp may be moved by

ASSUME TextInputAssumption ==
  /\ DateOrderings \subseteq DateOrders
  /\ Styles \subseteq {"postgres", "sql_standard"}
  /\ Months \subseteq Int
  /\ \A x \in DateTexts \cup SpanTexts : x \in Seq(Lexemes) /\ x # <<>>
  /\ \A x \in IsoTexts : x[1].c \in {"num", "unit"}

VARIABLES
  entry,     \* the function called
  setting,   \* DateOrder or IntervalStyle
  text,      \* its argument
  pc,        \* where the call is
  field,     \* the fields found by ParseDateTime
  i,         \* the field to be read next
  d,         \* the locals of the decoder
  result     \* the timestamp stored: [day, sec], in local time

vars == <<entry, setting, text, pc, field, i, d, result>>

Nothing == [stored |-> FALSE]

\* What ParseDateTime makes of a "P" and what follows: a DTK_DATE of letters.
PField == [ftype |-> "DATE", lex |-> <<Letters("p"), Digits(1, 1)>>]
IsIso == text[1].c \in {"num", "unit"}

Init ==
  /\ \/ /\ entry \in {"timestamptz", "time"}
        /\ text \in DateTexts /\ setting \in DateOrderings
        /\ d = Fresh(IF entry = "time" THEN "TIME" ELSE "DATE")
     \/ /\ entry = "interval"
        /\ text \in SpanTexts \cup IsoTexts /\ setting \in Styles
        /\ d = FreshInterval
  /\ pc = "parse"
  /\ field = <<>>
  /\ i = 0
  /\ result = Nothing

----------------------------------------------------------------------------
\* Mutant: a zone's displacement out of range is not reported.
OnErrorMissed(err) == IF err = "TZDISP_OVERFLOW" THEN "fields" ELSE "refused"

\* Where a call goes on after an error: interval_in has a second try.
OnError(err) == IF entry = "interval" /\ err = "BAD_FORMAT" THEN "iso" ELSE "refused"

Parse ==
  /\ pc = "parse"
  /\ LET p == IF IsIso THEN [err |-> "ok", field |-> <<PField>>] ELSE ParseDateTime(text)
     IN  IF p.err = "ok"
         THEN /\ field' = p.field
              /\ i' = IF entry = "interval" THEN Len(p.field) ELSE 1
              /\ pc' = "fields" /\ UNCHANGED d
         ELSE /\ d' = [d EXCEPT !.err = p.err]
              /\ pc' = OnError(p.err) /\ UNCHANGED <<field, i>>
  /\ UNCHANGED <<entry, setting, text, result>>

\* One field is read, with the decoder's locals left at e.
Read(e, step) ==
  /\ d' = e
  /\ i' = i + step
  /\ pc' = IF e.err = "ok" THEN "fields" ELSE OnError(e.err)
  /\ UNCHANGED <<entry, setting, text, field, result>>

Reading(name, ftypes) ==
  pc = "fields" /\ entry = name /\ Inside(field, i) /\ field[i].ftype \in ftypes
AnyType == {"DATE", "TIME", "TZ", "NUMBER", "STRING", "SPECIAL"}

ReadDate ==
  Reading("timestamptz", {"DATE"}) /\ Read(DateField(d, field[i].lex, setting), 1)
ReadTime ==
  Reading("timestamptz", {"TIME"}) /\ Read(TimeField(d, field[i].lex), 1)
ReadZone ==
  Reading("timestamptz", {"TZ"}) /\ Read(TzField(d, field[i].lex), 1)
ReadNumber ==
  Reading("timestamptz", {"NUMBER"}) /\ Read(NumberField(d, field[i].lex, setting), 1)
ReadWord ==
  Reading("timestamptz", {"STRING", "SPECIAL"})
    /\ Read(WordField(d, field[i].lex, TypeBehind(field, i)), 1)

ReadTimeOnly == Reading("time", AnyType) /\ Read(TimeOnlyRound(d, field, i, setting), 1)
ReadSpan == Reading("interval", AnyType) /\ Read(SpanField(d, field[i]), -1)

\* No field is left: the checks of the whole.
Close(name, e) ==
  /\ pc = "fields" /\ entry = name /\ ~ Inside(field, i)
  /\ d' = e
  /\ pc' = IF e.err = "ok" THEN "decoded" ELSE OnError(e.err)
  /\ UNCHANGED <<entry, setting, text, field, i, result>>

EndTimestamp == Close("timestamptz", DateTimeEnd(d))
EndTime == Close("time", TimeEnd(d))
EndSpan == Close("interval", SpanEnd(d, field, setting))

\* "if those functions think it's a bad format, try ISO8601 style"
TryIso ==
  /\ pc = "iso"
  /\ d' = IF IsIso THEN FreshIso ELSE RefusedIso(FreshIso)
  /\ pc' = IF IsIso THEN "iso_fields" ELSE "refused"
  /\ UNCHANGED <<entry, setting, text, field, i, result>>

ReadIso ==
  /\ pc = "iso_fields"
  /\ d' = IsoField(d, text)
  /\ pc' = IF ~ d'.done THEN pc ELSE IF d'.err = "ok" THEN "decoded" ELSE "refused"
  /\ UNCHANGED <<entry, setting, text, field, i, result>>

----------------------------------------------------------------------------
Seconds(tm) == (tm.hour * 60 + tm.min) * 60 + tm.sec

\* tm2timestamp, in local time; the rest of the day may run into the next.
tm2timestamp(tm) ==
  LET s == Seconds(tm)
  IN  IF ~ ValidJulian(tm.year, tm.mon, tm.mday) THEN Nothing
      ELSE [stored |-> TRUE, sec |-> s % SECS_PER_DAY,
            day |-> date2j(tm.year, tm.mon, tm.mday) + s \div SECS_PER_DAY]

Store ==
  /\ pc = "decoded" /\ entry = "timestamptz" /\ d.dtype = "DATE"
  /\ result' = tm2timestamp(d.tm)
  /\ pc' = IF result'.stored THEN "stored" ELSE "refused"
  /\ UNCHANGED <<entry, setting, text, field, i, d>>

\* timestamptz_pl_interval with months only.
PlusMonths ==
  /\ pc = "stored"
  /\ \E n \in Months :
       LET at == j2date(result.day)
           to == AddMonths(at, n)
       IN  d' = [d EXCEPT !.tm = WithTime(OnDay(@, to), result.sec \div 3600,
                                          (result.sec % 3600) \div 60, result.sec % 60)]
  /\ result' = tm2timestamp(d'.tm)
  /\ pc' = IF result'.stored THEN "moved" ELSE "refused"
  /\ UNCHANGED <<entry, setting, text, field, i>>

Next ==
  \/ Parse
  \/ ReadDate \/ ReadTime \/ ReadZone \/ ReadNumber \/ ReadWord \/ EndTimestamp
  \/ ReadTimeOnly \/ EndTime
  \/ ReadSpan \/ EndSpan \/ TryIso \/ ReadIso
  \/ Store \/ PlusMonths

Spec == Init /\ [][Next]_vars

----------------------------------------------------------------------------
(* A whole call as one step *)

\* One round of the loop, unless an error has ended it.
DateTimeRound(e, fs, k, order) ==
  IF e.err # "ok" THEN e ELSE DateTimeField(e, fs, k, order)
TimeRound(e, fs, k, order) ==
  IF e.err # "ok" THEN e ELSE TimeOnlyRound(e, fs, k, order)

\* The locals after each round.
DateTimeRounds(fs, order) ==
  LET After[k \in 0..Len(fs)] ==
        IF k = 0 THEN Fresh("DATE") ELSE DateTimeRound(After[k - 1], fs, k, order)
  IN  After
TimeRounds(fs, order) ==
  LET After[k \in 0..Len(fs)] ==
        IF k = 0 THEN Fresh("TIME") ELSE TimeRound(After[k - 1], fs, k, order)
  IN  After

DateTimeEnded(e) == IF e.err # "ok" THEN e ELSE DateTimeEnd(e)
TimeEnded(e) == IF e.err # "ok" THEN e ELSE TimeEnd(e)

DecodeDateTime(fs, order) == DateTimeEnded(DateTimeRounds(fs, order)[Len(fs)])
DecodeTimeOnly(fs, order) == TimeEnded(TimeRounds(fs, order)[Len(fs)])

----------------------------------------------------------------------------
(* What a text says *)

Time(tm) == <<tm.hour, tm.min, tm.sec, tm.fsec>>
SameIfRead(e) == e.err = "ok" => e.tm = d.tm /\ e.tz = d.tz

\* A date that begins with a month's name is taken for a zone by DecodeTimeOnly,
\* and "allballs" ends a zone's "dst" in DecodeDateTime only.
BeginsWithMonth(f) ==
  f.ftype = "DATE" /\ IsLetters(f.lex[1]) /\ DecodeSpecial(f.lex[1].w).type = "MONTH"
SaysZone == "DTZMOD" \notin d.fmask /\ \A k \in DOMAIN field : ~ BeginsWithMonth(field[k])

SameTimeIfRead(e) ==
  e.err = "ok" => Time(e.tm) = Time(d.tm) /\ (SaysZone => e.tz = d.tz)

Accepted == entry = "timestamptz" /\ pc = "decoded" /\ d.dtype = "DATE"

\* A plain number with a length in lens; a word of one of the types.
IsNumber(f, lens) == f.ftype = "NUMBER" /\ Len(f.lex) = 1 /\ f.lex[1].len \in lens
IsWord(f, types) == f.ftype = "STRING" /\ DecodeSpecial(WordOf(f.lex)).type \in types

\* The date is a month by name, a year in full that is no day's number and a day;
\* the rest, if any, is a time and a zone.
NamesMonth(fs) ==
  LET One(P(_)) == \E k \in DOMAIN fs : P(fs[k]) /\ \A j \in DOMAIN fs \ {k} : ~ P(fs[j])
      month(f) == IsWord(f, {"MONTH"})
      year(f)  == IsNumber(f, {4}) /\ f.lex[1].val > 31
      day(f)   == IsNumber(f, {1, 2})
      other(f) == f.ftype \in {"TIME", "TZ"} \/ IsWord(f, {"TZ", "DTZ", "AMPM", "ADBC"})
  IN  /\ One(month) /\ One(year) /\ One(day)
      /\ \A k \in DOMAIN fs : month(fs[k]) \/ year(fs[k]) \/ day(fs[k]) \/ other(fs[k])

Orders(fs) ==
  {[k \in DOMAIN fs |-> fs[p[k]]] :
     p \in {q \in [DOMAIN fs -> DOMAIN fs] : \A j, k \in DOMAIN fs : q[j] = q[k] => j = k}}

\* The places of the numbers that a field gives for date and time, read with the
\* locals e: not the zone behind a run-together time, nor the fraction of a second or
\* of a day.
PlacesSaid(f, e) ==
  LET partly == {"MONTH", "DAY"} \subseteq e.fmask
      zone == f.ftype = "DATE" /\ (e.ptype # "none" \/ partly)
      time == \/ f.ftype = "TIME"
              \/ f.ftype = "NUMBER" /\ (e.ptype # "none" \/ e.fmask \cap DATE_M # {})
  IN  IF f.ftype \notin {"NUMBER", "DATE", "TIME"} THEN {}
      ELSE {k \in DOMAIN f.lex : /\ IsDigits(f.lex[k]) /\ (zone => k = 1)
                                 /\ time /\ k > 1 => f.lex[k - 1] # Mark(".")}

BehindLetters(lex, p) == p > 1 /\ IsLetters(lex[p - 1])

\* The parts a number may be found in.  Day 366 of a year of 365 days is taken,
\* for the first day of the year behind.
Shows(tm) ==
  LET y == IF tm.yday = 366 /\ tm.mon = 1 THEN tm.year - 1 ELSE tm.year
      century == IF y \in 1970..2069 THEN {y % 100} ELSE {}
      day == IF tm.yday = Unset THEN {}
             ELSE {date2j(tm.year, tm.mon, tm.mday) - date2j(y, 1, 1) + 1}
  IN  century \cup day \cup {y, 1 - y, tm.mon, tm.mday,
                            tm.hour, tm.hour - Noon, tm.hour + Noon, tm.min, tm.sec}

Kept(l, tm) ==
  LET pair == {(l.val \div 100) % 100, l.val % 100}
  IN  \/ l.val \in Shows(tm)
      \/ l.len \in {4, 6} /\ pair \cup {l.val \div 10000} \subseteq Shows(tm)
      \/ l.len = 4 /\ pair \subseteq Shows(tm)
      \/ l.len = 8 /\ pair \cup {l.val \div 10000} \subseteq Shows(tm)
      \/ l.val = date2j(tm.year, tm.mon, tm.mday)

----------------------------------------------------------------------------
Outcomes == {"ok", "BAD_FORMAT", "FIELD_OVERFLOW", "MD_FIELD_OVERFLOW",
             "TZDISP_OVERFLOW", "TIME_ONLY"}

TypeOK ==
  /\ pc \in {"parse", "fields", "iso", "iso_fields", "decoded", "stored", "moved",
             "refused"}
  /\ i \in 0..(Len(field) + 1)
  /\ d.err \in Outcomes
  /\ pc \in {"fields", "iso_fields", "decoded", "stored", "moved"} => d.err = "ok"
  /\ result.stored <=> pc \in {"stored", "moved"}

(***************************************************************************)
(* Each part in fmask has been set, and a date is never set without being   *)
(* noted there: no part of the uninitialised struct tm is read, nor is one  *)
(* overwritten by a later field (DecodeDateTime.c:592).  A day of the year  *)
(* stands for month and day until ValidateDate.                             *)
(***************************************************************************)
PartsKnown ==
  entry = "timestamptz" /\ d.err = "ok" /\ pc \in {"fields", "decoded"} =>
    LET doy == "DOY" \in d.fmask /\ pc = "fields"
    IN  /\ "YEAR" \in d.fmask <=> d.tm.year # Unset
        /\ "MONTH" \in d.fmask <=> d.tm.mon # Unset \/ doy
        /\ "DAY" \in d.fmask <=> d.tm.mday # Unset \/ doy
        /\ "DOY" \in d.fmask <=> d.tm.yday # Unset
        /\ doy \/ d.two => "YEAR" \in d.fmask

(***************************************************************************)
(* "We want to support the variants MON-DD-YYYY, DD-MON-YYYY, and           *)
(* YYYY-MON-DD as unambiguous inputs" (DecodeNumber.c:98): with the month   *)
(* by name, every order of the fields that is accepted, under every         *)
(* DateOrder, gives the same date, time and zone.  Not so a year before 32: *)
(* "12 0005 feb" is the fifth of February 2012 for YMD.                     *)
(***************************************************************************)
OrderFree ==
  Accepted /\ NamesMonth(field) =>
    \A fs \in Orders(field), order \in DateOrderings :
       SameIfRead(DecodeDateTime(fs, order))

(***************************************************************************)
(* No number of an accepted text is dropped, overwritten by another or      *)
(* changed: each is found again in the date and time made of it, a day of   *)
(* the year as the day counted in the year that ValidateDate settled.  But  *)
(* of digits right behind letters the first one may be lost, as DecodeDate  *)
(* writes over what follows a word (DecodeDate.c:58): 18-jan1999 is in the  *)
(* year 999.  Left out are fractions of a second or of a day, and zones     *)
(* with what is taken for the name of one (DecodeDateTime.c:177).           *)
(***************************************************************************)
NumbersKept ==
  Accepted => \A k \in DOMAIN field :
    LET f == field[k]
        e == DateTimeRounds(field, setting)[k - 1]
    IN  \A p \in PlacesSaid(f, e) :
          \/ Kept(f.lex[p], d.tm)
          \/ /\ BehindLetters(f.lex, p)
             /\ OneLong(f.lex[p]) \/ Kept(WithoutFirst(f.lex[p]), d.tm)

(***************************************************************************)
(* A date and time that DecodeDateTime and DecodeTimeOnly both accept has   *)
(* the same time of day under both, and the same zone but for a date that   *)
(* begins with a month's name and for "dst", which stays with "allballs" in *)
(* DecodeTimeOnly (DecodeTimeOnly.c:401).  Left out are Julian days, whose  *)
(* label DecodeTimeOnly ignores.                                            *)
(***************************************************************************)
EntriesAgree ==
  Accepted /\ TIME_M \subseteq d.fmask /\ ~ d.isjulian =>
    SameTimeIfRead(DecodeTimeOnly(field, setting))

(***************************************************************************)
(* An interval is the sum of what its numbers say, whatever the order they  *)
(* are read in and however fractions and signs are rolled through the parts *)
(* of the struct tm.  Left out are a fraction behind a time, which the time *)
(* overwrites, and the SQL standard's sign over sums (DecodeInterval.c:346).*)
(***************************************************************************)
IntervalMeans ==
  entry = "interval" /\ pc = "decoded" /\ d.dtype = "DELTA" =>
    IF IsIso THEN Held(d.tm) = IsoMeaning(text)
    ELSE Plain(field) /\ (Spread(field, setting) => SinglesOnly(field)) =>
           Held(d.tm) = SpanMeaning(field, setting)

(***************************************************************************)
(* A timestamp stored by its day number (date2j) is shown with the date and *)
(* time it was written with, by the zone library's count of years (timesub) *)
(* as by j2date; and after months are added it is still a date.             *)
(***************************************************************************)
ShownAsWritten ==
  result.stored =>
    LET s == timesub(result.day - UNIX_EPOCH_JDATE, result.sec, 0)
        j == j2date(result.day)
        w == Date(d.tm.year, d.tm.mon, d.tm.mday)
    IN  /\ s.date = j /\ s.wday = j2day(result.day)
        /\ IsDate(w) /\ IsDate(j)
        /\ Seconds(d.tm) < SECS_PER_DAY => j = w
        /\ d.tm.hour < 24 /\ d.tm.min < 60 /\ d.tm.sec < 60 =>
             <<s.hour, s.min, s.sec>> = <<d.tm.hour, d.tm.min, d.tm.sec>>

=============================================================================
