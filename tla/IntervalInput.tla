--------------------------- MODULE IntervalInput ---------------------------
(***************************************************************************)
(* DecodeInterval: the fields of an interval, read from the last to the     *)
(* first so that a unit is known before its number; and                     *)
(* DecodeISO8601Interval, which interval_in tries when the first gives up.  *)
(*                                                                          *)
(* interval_in always asks for the full range of fields, so a bare number   *)
(* in the last place counts seconds.  Fractions are halves, which double    *)
(* holds exactly; ints do not overflow here.                                *)
(***************************************************************************)
EXTENDS FieldDecoding

ZeroTm == [year |-> 0, mon |-> 0, mday |-> 0, hour |-> 0, min |-> 0, sec |-> 0,
           fsec |-> 0]

FreshInterval ==
  [err |-> "ok", fmask |-> {}, tm |-> ZeroTm, type |-> "IGNORE_DTF",
   dtype |-> "DELTA", before |-> FALSE]

RefusedSpan(d, err) == [d EXCEPT !.err = err]

AcceptSpan(d, tmask, tm) ==
  IF tmask \cap d.fmask # {} THEN RefusedSpan(d, "BAD_FORMAT")
  ELSE [d EXCEPT !.fmask = @ \cup tmask, !.tm = tm]

----------------------------------------------------------------------------
\* half is the fraction in halves: -1, 0 or 1.
AdjustFractSeconds(half, tm, scale) ==
  LET frac == half * scale
  IN  [tm EXCEPT !.sec = @ + CDiv(frac, 2), !.fsec = @ + CMod(frac, 2) * 500000]

\* Mutant: the days of the fraction are counted and then counted as time too.
FractDaysTwice(half, tm, scale) ==
  AdjustFractSeconds(half * scale, [tm EXCEPT !.mday = @ + CDiv(half * scale, 2)],
                     SECS_PER_DAY)

AdjustFractDays(half, tm, scale) ==
  LET frac == half * scale
  IN  AdjustFractSeconds(CMod(frac, 2), [tm EXCEPT !.mday = @ + CDiv(frac, 2)],
                         SECS_PER_DAY)

\* rint of val and a half, to the even neighbour.
Rint(val, half) == IF half = 0 \/ val % 2 = 0 THEN val ELSE val + half

Years == [YEAR |-> 1, DECADE |-> 10, CENTURY |-> 100, MILLENNIUM |-> 1000]

MilliSeconds(tm, val, half) ==
  [tm EXCEPT !.sec = @ + CDiv(val, 1000),
             !.fsec = @ + CMod(val, 1000) * 1000 + half * 500]

\* val and half added in the unit type.
AddUnit(tm, type, val, half) ==
  IF type \in DOMAIN Years
  THEN [tm EXCEPT !.year = @ + val * Years[type], !.mon = @ + half * 6 * Years[type]]
  ELSE IF type = "MONTH" THEN AdjustFractDays(half, [tm EXCEPT !.mon = @ + val], 30)
  ELSE IF type = "WEEK" THEN AdjustFractDays(half, [tm EXCEPT !.mday = @ + val * 7], 7)
  ELSE IF type = "DAY"
  THEN AdjustFractSeconds(half, [tm EXCEPT !.mday = @ + val], SECS_PER_DAY)
  ELSE IF type = "HOUR" THEN AdjustFractSeconds(half, [tm EXCEPT !.hour = @ + val], 3600)
  ELSE IF type = "MINUTE" THEN AdjustFractSeconds(half, [tm EXCEPT !.min = @ + val], 60)
  ELSE IF type = "SECOND" THEN AdjustFractSeconds(half, [tm EXCEPT !.sec = @ + val], 1)
  ELSE IF type = "MILLISECOND" THEN MilliSeconds(tm, val, half)
  ELSE [tm EXCEPT !.fsec = @ + Rint(val, half)]

Units == DOMAIN Years \cup
         {"MONTH", "WEEK", "DAY", "HOUR", "MINUTE", "SECOND", "MILLISECOND", "MICROSECOND"}

----------------------------------------------------------------------------
NegTime(tm) == [tm EXCEPT !.hour = -@, !.min = -@, !.sec = -@, !.fsec = -@]

\* case DTK_TIME: overwrites the time; a number before it counts days.
SpanTime(d, lex) ==
  LET r == DecodeTime(lex, d.tm)
  IN  IF Ok(r) THEN AcceptSpan([d EXCEPT !.type = "DAY"], r.tmask, r.tm)
      ELSE RefusedSpan(d, r.err)

\* case DTK_TZ, "signed hh:mm or hh:mm:ss".
SignedTime(lex, tm) == DecodeTime(Tail(lex), tm)
IsSignedTime(lex, tm) == (\E k \in DOMAIN lex : lex[k] = Mark(":")) /\ Ok(SignedTime(lex, tm))

SpanSignedTime(d, lex) ==
  LET r == SignedTime(lex, d.tm)
  IN  AcceptSpan([d EXCEPT !.type = "DAY"], r.tmask,
                 IF lex[1] = Mark("-") THEN NegTime(r.tm) ELSE r.tm)

\* What a number says: its value, the unit it forces ("years-months"), or none.
Signed(lex) == MarkAt(lex, 1, "-") \/ MarkAt(lex, 1, "+")
SpanAmount(lex) ==
  LET first == IF Signed(lex) THEN 2 ELSE 1
      sign  == IF MarkAt(lex, 1, "-") THEN -1 ELSE 1
      val   == sign * ValAt(lex, first)
      p     == EndAt(lex, first)
      val2  == ValAt(lex, p + 1)
      num(v, half, forced) == [err |-> "ok", val |-> v, half |-> half, forced |-> forced]
  IN  IF MarkAt(lex, p, "-")
      THEN IF val2 >= MonthsPerYear THEN Fail("FIELD_OVERFLOW")
           ELSE IF ~ AtEnd(lex, EndAt(lex, p + 1)) THEN Bad
           ELSE num(val * MonthsPerYear + sign * val2, 0, {"MONTH"})
      ELSE IF MarkAt(lex, p, ".")
      THEN IF HasDigits(lex, p + 1) /\ AtEnd(lex, p + 2)
           THEN num(val, IF lex[p + 1].val = 5 THEN sign ELSE 0, {}) ELSE Bad
      ELSE IF AtEnd(lex, p) THEN num(val, 0, {}) ELSE Bad

\* "set for next field": a number before hours counts days.
TypeAfter(type) == IF type = "HOUR" THEN "DAY" ELSE type

\* "If any subseconds were specified, consider this microsecond and
\* millisecond input as well."
UnitMask(type, half) ==
  IF type = "SECOND" /\ half # 0 THEN ALL_SECS_M ELSE {type}

\* cases DTK_DATE and DTK_NUMBER, and a DTK_TZ that is not a time.
SpanNumber(d, lex) ==
  LET n == SpanAmount(lex)
      type == IF Ok(n) /\ "MONTH" \in n.forced THEN "MONTH"
              ELSE IF d.type = "IGNORE_DTF" THEN "SECOND" ELSE d.type
  IN  IF ~ Ok(n) THEN RefusedSpan(d, n.err)
      ELSE IF type \notin Units THEN RefusedSpan(d, "BAD_FORMAT")
      ELSE AcceptSpan([d EXCEPT !.type = TypeAfter(type)],
                      UnitMask(type, n.half), AddUnit(d.tm, type, n.val, n.half))

\* DecodeUnits.
DecodeUnits(w) ==
  IF w \in DOMAIN deltatktbl THEN deltatktbl[w]
  ELSE [type |-> "UNKNOWN_FIELD", val |-> "none"]

\* cases DTK_STRING and DTK_SPECIAL; "ago" is no unit for the number before it.
SpanWord(d, lex) ==
  LET s == IF IsLetters(lex[1]) THEN DecodeUnits(lex[1].w)
           ELSE [type |-> "UNKNOWN_FIELD", val |-> "none"]
  IN  IF s.type = "UNITS" THEN [d EXCEPT !.type = s.val]
      ELSE IF s.type = "AGO" THEN [d EXCEPT !.type = s.val, !.before = TRUE]
      ELSE IF s.type = "RESERV"
      THEN AcceptSpan([d EXCEPT !.type = "RESERV", !.dtype = s.val], DATE_M \cup TIME_M, d.tm)
      ELSE RefusedSpan(d, "BAD_FORMAT")

\* One round of the loop over the fields.
SpanField(d, f) ==
  IF f.ftype = "TIME" THEN SpanTime(d, f.lex)
  ELSE IF f.ftype = "TZ" /\ IsSignedTime(f.lex, d.tm) THEN SpanSignedTime(d, f.lex)
  ELSE IF f.ftype \in {"TZ", "DATE", "NUMBER"} THEN SpanNumber(d, f.lex)
  ELSE SpanWord(d, f.lex)

----------------------------------------------------------------------------
\* "ensure fractional seconds are fractional"
WholeSeconds(tm) ==
  [tm EXCEPT !.sec = @ + CDiv(tm.fsec, 1000000), !.fsec = CMod(@, 1000000)]

\* "just force 'em all negative"
ForceNegative(tm) == [x \in DOMAIN tm |-> IF tm[x] > 0 THEN -tm[x] ELSE tm[x]]
Negated(tm) == [x \in DOMAIN tm |-> -tm[x]]

\* The first field is negative and no other has a sign.
LeadingSign(field) ==
  /\ field[1].lex[1] = Mark("-")
  /\ \A i \in 2..Len(field) : ~ Signed(field[i].lex)

\* After the loop.
SpanEnd(d, field, style) ==
  LET w == WholeSeconds(d.tm)
      s == IF style = "sql_standard" /\ LeadingSign(field) THEN ForceNegative(w) ELSE w
  IN  IF d.fmask = {} THEN RefusedSpan(d, "BAD_FORMAT")
      ELSE [d EXCEPT !.tm = IF d.before THEN Negated(s) ELSE s]

=============================================================================
