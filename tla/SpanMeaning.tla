---------------------------- MODULE SpanMeaning -----------------------------
(***************************************************************************)
(* What the text of an interval says, number by number from the left: each  *)
(* counts its unit, and the interval is their sum.  DecodeInterval reads    *)
(* from the right with the unit carried along, and rolls fractions and      *)
(* signs through the parts of a struct tm.                                  *)
(*                                                                          *)
(* An amount is [months, days, secs, usecs]; half a month is 15 days, half  *)
(* a day 12 hours, and half a microsecond is rounded to an even number.     *)
(***************************************************************************)
EXTENDS IsoInterval

LOCAL INSTANCE FiniteSetsExt

Amount(mo, dy, s, us) == [months |-> mo, days |-> dy, secs |-> s, usecs |-> us]

\* val units, and half a unit more.
Counted(unit, val, half) ==
  IF unit \in DOMAIN Years THEN Amount((12 * val + 6 * half) * Years[unit], 0, 0, 0)
  ELSE IF unit = "MONTH"  THEN Amount(val, 15 * half, 0, 0)
  ELSE IF unit = "WEEK"   THEN Amount(0, 7 * val + 3 * half, 43200 * half, 0)
  ELSE IF unit = "DAY"    THEN Amount(0, val, 43200 * half, 0)
  ELSE IF unit = "HOUR"   THEN Amount(0, 0, 3600 * val + 1800 * half, 0)
  ELSE IF unit = "MINUTE" THEN Amount(0, 0, 60 * val + 30 * half, 0)
  ELSE IF unit = "SECOND" THEN Amount(0, 0, val, 500000 * half)
  ELSE IF unit = "MILLISECOND" THEN Amount(0, 0, 0, 1000 * val + 500 * half)
  ELSE Amount(0, 0, 0, CHOOSE us \in {val, val + half} : half # 0 => us % 2 = 0)

Times(sign, a) == [x \in DOMAIN a |-> sign * a[x]]

\* The sum, and the interval a struct tm holds; seconds and their fraction are
\* brought to one form.
Normal(mo, dy, s, us) == <<mo, dy, s + us \div 1000000, us % 1000000>>
Total(amount, S) ==
  Normal(MapThenSumSet(LAMBDA k : amount[k].months, S),
         MapThenSumSet(LAMBDA k : amount[k].days, S),
         MapThenSumSet(LAMBDA k : amount[k].secs, S),
         MapThenSumSet(LAMBDA k : amount[k].usecs, S))
Held(tm) ==
  Normal(12 * tm.year + tm.mon, tm.mday, (tm.hour * 60 + tm.min) * 60 + tm.sec, tm.fsec)

----------------------------------------------------------------------------
\* Fields of an interval: times of day, numbers and unit words.
IsTimeField(f) == f.ftype = "TIME" \/ (f.ftype = "TZ" /\ IsSignedTime(f.lex, ZeroTm))
IsNumberField(f) == ~ IsTimeField(f) /\ f.ftype \in {"TZ", "DATE", "NUMBER"}
IsUnit(f) == f.ftype = "STRING" /\ DecodeUnits(f.lex[1].w).type = "UNITS"
IsAgo(f)  == f.ftype = "STRING" /\ DecodeUnits(f.lex[1].w).type = "AGO"

\* The unit of the number in field k: the word behind it, days in front of a
\* time, seconds in the last place; "years-months" counts months.
UnitsOf(fs, k) ==
  LET rest == SelectSeq(SubSeq(fs, k + 1, Len(fs)), LAMBDA f : ~ IsAgo(f))
  IN  IF SpanAmount(fs[k].lex).forced # {} THEN SpanAmount(fs[k].lex).forced
      ELSE IF rest = <<>> /\ k = Len(fs) THEN {"SECOND"}
      ELSE IF rest # <<>> /\ IsUnit(rest[1]) THEN {DecodeUnits(rest[1].lex[1].w).val}
      ELSE IF rest # <<>> /\ IsTimeField(rest[1]) THEN {"DAY"}
      ELSE {}

\* Each number has its unit, and no number is a fraction behind a time, which
\* is read later and overwrites the seconds of the fraction.
Plain(fs) ==
  LET numbers == {k \in DOMAIN fs : IsNumberField(fs[k])}
      fraction(k) == SpanAmount(fs[k].lex).half # 0
  IN  /\ \A k \in numbers : Ok(SpanAmount(fs[k].lex)) /\ UnitsOf(fs, k) # {}
      /\ \A j \in DOMAIN fs, k \in numbers : j < k /\ IsTimeField(fs[j]) => ~ fraction(k)

AmountOf(fs, k) ==
  LET f == fs[k]
      t == (IF f.ftype = "TIME" THEN DecodeTime(f.lex, ZeroTm)
            ELSE SignedTime(f.lex, ZeroTm)).tm
      n == SpanAmount(f.lex)
  IN  IF IsTimeField(f)
      THEN Times(IF f.lex[1] = Mark("-") THEN -1 ELSE 1,
                 Amount(0, 0, (t.hour * 60 + t.min) * 60 + t.sec, t.fsec))
      ELSE Counted(CHOOSE u \in UnitsOf(fs, k) : TRUE, n.val, n.half)

\* The SQL standard's "-1 2:03": the sign in front is every number's.  That is
\* made of the sums of each part, so that it is only said of single numbers.
Spread(fs, style) == style = "sql_standard" /\ LeadingSign(fs)
SinglesOnly(fs) ==
  LET numbers == {k \in DOMAIN fs : IsNumberField(fs[k])}
      Part(k) == LET u == CHOOSE u \in UnitsOf(fs, k) : TRUE
                 IN  IF u \in DOMAIN Years THEN "YEAR" ELSE IF u = "WEEK" THEN "DAY"
                     ELSE IF u = "MICROSECOND" THEN "MILLISECOND" ELSE u
  IN  \A j, k \in numbers : /\ SpanAmount(fs[j].lex).half = 0
                            /\ j # k => Part(j) # Part(k)

SpanMeaning(fs, style) ==
  LET counted == {k \in DOMAIN fs : IsTimeField(fs[k]) \/ IsNumberField(fs[k])}
      ago == IF \E k \in DOMAIN fs : IsAgo(fs[k]) THEN -1 ELSE 1
      sign(k) == IF k # 1 /\ Spread(fs, style) THEN -ago ELSE ago
      amount == [k \in counted |-> Times(sign(k), AmountOf(fs, k))]
  IN  Total(amount, counted)

----------------------------------------------------------------------------
\* ISO 8601: a letter, or the place among the numbers of the date or the time.
IsoUnit(iso, k) ==
  LET intime(j) == \E t \in 1..(j - 1) : iso[t] = Unit("T")
      place == Cardinality({j \in 1..k : IsNum(iso, j) /\ intime(j) = intime(k)})
      letter == CharAt(iso, k + 1)
  IN  IF intime(k)
      THEN IF letter \in DOMAIN TimeUnits THEN TimeUnits[letter]
           ELSE <<"HOUR", "MINUTE", "SECOND">>[place]
      ELSE IF letter \in DOMAIN DateUnits THEN DateUnits[letter]
           ELSE <<"YEAR", "MONTH", "DAY">>[place]

\* Eight digits in front of "T" and six behind it are run together.
RunTogether(iso, k) ==
  /\ iso[k].width = (IF \E t \in 1..(k - 1) : iso[t] = Unit("T") THEN 6 ELSE 8)
  /\ CharAt(iso, k - 1) \in {"T", "end"} /\ CharAt(iso, k + 1) \in {"T", "end"}

IsoAmount(iso, k) ==
  LET n == iso[k]
      first == n.val \div 10000
      second == (n.val \div 100) % 100
      third == n.val % 100
  IN  IF ~ RunTogether(iso, k) THEN Counted(IsoUnit(iso, k), n.val, n.half)
      ELSE IF n.width = 8 THEN Amount(12 * first + second, third, 43200 * n.half, 0)
      ELSE Amount(0, 0, (first * 60 + second) * 60 + third, 500000 * n.half)

IsoMeaning(iso) ==
  LET numbers == {k \in DOMAIN iso : IsNum(iso, k)}
      amount == [k \in numbers |-> IsoAmount(iso, k)]
  IN  Total(amount, numbers)

=============================================================================
