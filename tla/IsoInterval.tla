---------------------------- MODULE IsoInterval -----------------------------
(***************************************************************************)
(* DecodeISO8601Interval: "P1Y2M10DT2H30M" and the alternative formats      *)
(* "P00021015T103020" and "P0002-10-15T10:30:20".                           *)
(*                                                                          *)
(* The text behind the "P" is a sequence of numbers, with their width in    *)
(* digits and their fraction in signed halves, and of single characters.    *)
(***************************************************************************)
EXTENDS IntervalInput

Num(width, val, half) == [c |-> "num", width |-> width, val |-> val, half |-> half]
Unit(u) == [c |-> "unit", u |-> u]

IsNum(iso, p) == Inside(iso, p) /\ iso[p].c = "num"

\* The character at p, or the end of the string.
CharAt(iso, p) ==
  IF ~ Inside(iso, p) THEN "end" ELSE IF IsNum(iso, p) THEN "digit" ELSE iso[p].u

\* ClearPgTm, and the part in front of "T".
FreshIso ==
  [err |-> "ok", tm |-> ZeroTm, dtype |-> "DELTA",
   at |-> 1, datepart |-> TRUE, havefield |-> FALSE, done |-> FALSE]

RefusedIso(d) == [d EXCEPT !.err = "BAD_FORMAT", !.done = TRUE]
FinishedIso(d, tm) == [d EXCEPT !.tm = tm, !.done = TRUE]
OnIso(d, tm, p, datepart, havefield) ==
  [d EXCEPT !.tm = tm, !.at = p, !.datepart = datepart, !.havefield = havefield]

Add(tm, type, n) == AddUnit(tm, type, n.val, n.half)

DateUnits == [Y |-> "YEAR", M |-> "MONTH", W |-> "WEEK", D |-> "DAY"]
TimeUnits == [H |-> "HOUR", M |-> "MINUTE", S |-> "SECOND"]

----------------------------------------------------------------------------
\* "Alternative Format / Basic": yyyymmdd.
BasicDate(tm, n) ==
  AddUnit([tm EXCEPT !.year = @ + CDiv(n.val, 10000),
                     !.mon = @ + CMod(CDiv(n.val, 100), 100)],
          "DAY", CMod(n.val, 100), n.half)

\* hhmmss.
BasicTime(tm, n) ==
  AddUnit([tm EXCEPT !.hour = @ + CDiv(n.val, 10000),
                     !.min = @ + CMod(CDiv(n.val, 100), 100)],
          "SECOND", CMod(n.val, 100), n.half)

\* "Alternative Format, Extended": year, then month, then day, with dashes; the
\* first number is at p.  What follows each is looked at in turn.
ExtendedDate(d, iso, p) ==
  LET y == Add(d.tm, "YEAR", iso[p])
      m == Add(y, "MONTH", iso[p + 2])
      w == Add(m, "DAY", iso[p + 4])
  IN  IF d.havefield THEN RefusedIso(d)
      ELSE IF CharAt(iso, p + 1) = "end" THEN FinishedIso(d, y)
      ELSE IF CharAt(iso, p + 1) = "T" THEN OnIso(d, y, p + 2, FALSE, FALSE)
      ELSE IF ~ IsNum(iso, p + 2) THEN RefusedIso(d)
      ELSE IF CharAt(iso, p + 3) = "end" THEN FinishedIso(d, m)
      ELSE IF CharAt(iso, p + 3) = "T" THEN OnIso(d, m, p + 3, FALSE, FALSE)
      ELSE IF CharAt(iso, p + 3) # "-" \/ ~ IsNum(iso, p + 4) THEN RefusedIso(d)
      ELSE IF CharAt(iso, p + 5) = "end" THEN FinishedIso(d, w)
      ELSE IF CharAt(iso, p + 5) = "T" THEN OnIso(d, w, p + 5, FALSE, FALSE)
      ELSE RefusedIso(d)

\* Hours, minutes and seconds, with colons.
ExtendedTime(d, iso, p) ==
  LET h == Add(d.tm, "HOUR", iso[p])
      m == Add(h, "MINUTE", iso[p + 2])
      s == Add(m, "SECOND", iso[p + 4])
  IN  IF d.havefield THEN RefusedIso(d)
      ELSE IF CharAt(iso, p + 1) = "end" THEN FinishedIso(d, h)
      ELSE IF ~ IsNum(iso, p + 2) THEN RefusedIso(d)
      ELSE IF CharAt(iso, p + 3) = "end" THEN FinishedIso(d, m)
      ELSE IF CharAt(iso, p + 3) # ":" \/ ~ IsNum(iso, p + 4) THEN RefusedIso(d)
      ELSE IF CharAt(iso, p + 5) = "end" THEN FinishedIso(d, s)
      ELSE RefusedIso(d)

\* "before T: Y M W D"
IsoDate(d, iso, p) ==
  LET n == iso[p]
      unit == CharAt(iso, p + 1)
      basic == unit \in {"T", "end"} /\ n.width = 8 /\ ~ d.havefield
  IN  IF unit \in DOMAIN DateUnits
      THEN OnIso(d, Add(d.tm, DateUnits[unit], n), p + 2, TRUE, TRUE)
      ELSE IF basic /\ unit = "end" THEN FinishedIso(d, BasicDate(d.tm, n))
      ELSE IF basic THEN OnIso(d, BasicDate(d.tm, n), p + 2, FALSE, FALSE)
      ELSE IF unit \in {"T", "end", "-"} THEN ExtendedDate(d, iso, p)
      ELSE RefusedIso(d)

\* "after T: H M S"
IsoTimePart(d, iso, p) ==
  LET n == iso[p]
      unit == CharAt(iso, p + 1)
  IN  IF unit \in DOMAIN TimeUnits
      THEN OnIso(d, Add(d.tm, TimeUnits[unit], n), p + 2, FALSE, TRUE)
      ELSE IF unit = "end" /\ n.width = 6 /\ ~ d.havefield
      THEN FinishedIso(d, BasicTime(d.tm, n))
      ELSE IF unit \in {"end", ":"} THEN ExtendedTime(d, iso, p)
      ELSE RefusedIso(d)

\* One round of the loop over the string.
IsoField(d, iso) ==
  LET p == d.at
  IN  IF CharAt(iso, p) = "end" THEN [d EXCEPT !.done = TRUE]
      ELSE IF CharAt(iso, p) = "T" THEN OnIso(d, d.tm, p + 1, FALSE, FALSE)
      ELSE IF ~ IsNum(iso, p) THEN RefusedIso(d)
      ELSE IF d.datepart THEN IsoDate(d, iso, p)
      ELSE IsoTimePart(d, iso, p)

=============================================================================
