----------------------------- MODULE TimeInput -----------------------------
(***************************************************************************)
(* DecodeTimeOnly: the reader of times of day with and without time zone.   *)
(* It takes the same fields as DecodeDateTime, a date only "under limited   *)
(* circumstances", and reads numbers as if the date were complete.          *)
(*                                                                          *)
(* The types it notes for fields it has read (ftype[i] = ...) are never     *)
(* looked at again: the first field looks at the others, "t" at the next.   *)
(***************************************************************************)
EXTENDS DateInput

\* case DTK_DATE: "Under limited circumstances, we will accept a date..."
DateOrTimeField(d, field, i, order) ==
  LET lex == field[i].lex
      date == /\ i = 1 /\ Len(field) >= 2
              /\ field[Len(field)].ftype = "DATE" \/ field[2].ftype = "TIME"
  IN  IF date THEN Accept(d, DecodeDate(lex, d.fmask, order, d.tm, d.two))
      ELSE IF IsDigits(lex[1]) THEN TimeWithZone(d, lex, d.fmask \cup DATE_M)
      ELSE NamedZone(d, lex)

\* case DTK_TIME: the limit on the hour is looked at in the end.
TimeOnlyField(d, lex) == AcceptTime(d, DecodeTime(lex, d.tm))

\* case DTK_NUMBER behind a label: dtype becomes a date's.
LabelledTime(d, lex) == LabelledNumber(d, lex)

\* case DTK_NUMBER without a label.
PlainTime(d, field, i, order) ==
  LET lex == field[i].lex
      n   == Number(lex)
      all == d.fmask \cup DATE_M
      date == i = 1 /\ Len(field) >= 2 /\ field[Len(field)].ftype = "DATE"
  IN  Accept(d, IF n.point /\ date
                THEN DecodeDate(lex, d.fmask, order, d.tm, d.two)
                ELSE IF n.point /\ n.len <= 2 THEN Bad
                ELSE IF n.point \/ Flen(n) > 4
                THEN DecodeNumberField(n, all, d.tm, d.two)
                ELSE DecodeNumber(n, FALSE, all, order, d.tm, d.two))

\* case RESERV: only "now" and "allballs".
ReservedTime(d, val) ==
  LET time == [d EXCEPT !.dtype = "TIME"]
  IN  IF val = "NOW"
      THEN Sets(time, TIME_M, [Now EXCEPT !.wday = d.tm.wday, !.yday = d.tm.yday])
      ELSE IF val = "ZULU"
      THEN Sets(time, TIME_M \cup {"TZ"}, WithTime(d.tm, 0, 0, 0))
      ELSE Refused(d, "BAD_FORMAT")

\* "t" asks for no date here.
IsoTimeOnly(d, val, next) ==
  IF next \in {"NUMBER", "TIME", "DATE"} THEN Also([d EXCEPT !.ptype = val], {})
  ELSE Refused(d, "BAD_FORMAT")

\* cases DTK_STRING and DTK_SPECIAL: no month and no day of the week.
TimeWordField(d, lex, next) ==
  LET s == DecodeSpecial(WordOf(lex))
  IN  IF s.type = "IGNORE_DTF" THEN d
      ELSE IF s.type = "RESERV" THEN ReservedTime(d, s.val)
      ELSE IF s.type \in {"DTZMOD", "DTZ", "TZ"} THEN ZoneWord(d, s.type, s.val)
      ELSE IF s.type = "AMPM" THEN Also([d EXCEPT !.mer = s.val], {"AMPM"})
      ELSE IF s.type = "ADBC" THEN Also([d EXCEPT !.bc = (s.val = "BC")], {"ADBC"})
      ELSE IF s.type = "UNITS" THEN Also([d EXCEPT !.ptype = s.val], {})
      ELSE IF s.type = "ISOTIME" THEN IsoTimeOnly(d, s.val, next)
      ELSE IF s.type = "UNKNOWN_FIELD" THEN UnknownWord(d, lex)
      ELSE Refused(d, "BAD_FORMAT")

\* One round of the loop over the fields.
TimeOnlyRound(d, field, i, order) ==
  LET f == field[i]
  IN  IF f.ftype = "DATE" THEN DateOrTimeField(d, field, i, order)
      ELSE IF f.ftype = "TIME" THEN TimeOnlyField(d, f.lex)
      ELSE IF f.ftype = "TZ" THEN TzField(d, f.lex)
      ELSE IF f.ftype # "NUMBER" THEN TimeWordField(d, f.lex, TypeBehind(field, i))
      ELSE IF d.ptype # "none" THEN LabelledTime(d, f.lex)
      ELSE PlainTime(d, field, i, order)

----------------------------------------------------------------------------
TimeInRange(tm) == tm.min <= 59 /\ tm.sec <= 60 /\ ~ PastMidnight(tm)

\* Mutant: a zone given by name is not looked at.
ZoneUnread(d) ==
  IF "TZ" \notin d.fmask THEN [d EXCEPT !.tz = In(SessionZone)] ELSE d

\* The zone's offset at the time: a date is needed unless it is always the same.
\* The session zone's is that of today, of the date given or, with a part of a
\* date only, of whatever the other parts of the struct tm hold.
TimeZone(d) ==
  LET named == d.zone # NoZone
      local == "TZ" \notin d.fmask
  IN  IF (named \/ local) /\ "DTZMOD" \in d.fmask THEN Refused(d, "BAD_FORMAT")
      ELSE IF named /\ d.zone \notin FixedZones /\ ~ DATE_M \subseteq d.fmask
      THEN Refused(d, "BAD_FORMAT")
      ELSE [d EXCEPT !.tz = IF named THEN In(d.zone)
                            ELSE IF local THEN In(SessionZone) ELSE @]

FullTime(d) ==
  IF d.err # "ok" THEN d
  ELSE IF ~ TimeInRange(d.tm) THEN Refused(d, "FIELD_OVERFLOW")
  ELSE IF ~ TIME_M \subseteq d.fmask THEN Refused(d, "BAD_FORMAT")
  ELSE TimeZone(d)

\* After the loop: the checks of the whole.
TimeEnd(d) == FullTime(Validated(d))

=============================================================================
