---------------------------- MODULE MCTextInput -----------------------------
(***************************************************************************)
(* Texts for TextInput: every word that means something to the readers, in  *)
(* all pairs, the core ones in all triples, and longer texts in all orders. *)
(* No number occurs twice in a text, so that each can be told apart.        *)
(***************************************************************************)
EXTENDS TextInput, TLC

Word(type, val) == [type |-> type, val |-> val]

MCdatetktbl ==
  ("-infinity" :> Word("RESERV", "EARLY")) @@
  [infinity |-> Word("RESERV", "LATE"), now |-> Word("RESERV", "NOW"),
   today |-> Word("RESERV", "TODAY"), yesterday |-> Word("RESERV", "YESTERDAY"),
   tomorrow |-> Word("RESERV", "TOMORROW"), allballs |-> Word("RESERV", "ZULU"),
   current |-> Word("RESERV", "CURRENT"), on |-> Word("IGNORE_DTF", 0),
   am |-> Word("AMPM", "AM"), pm |-> Word("AMPM", "PM"), ad |-> Word("ADBC", "AD"),
   bc |-> Word("ADBC", "BC"), jan |-> Word("MONTH", 1), feb |-> Word("MONTH", 2),
   aug |-> Word("MONTH", 8), mon |-> Word("DOW", 1), dst |-> Word("DTZMOD", -90),
   t |-> Word("ISOTIME", "TIME"), y |-> Word("UNITS", "YEAR"), m |-> Word("UNITS", "MONTH"),
   d |-> Word("UNITS", "DAY"), h |-> Word("UNITS", "HOUR"), mm |-> Word("UNITS", "MINUTE"),
   s |-> Word("UNITS", "SECOND"), j |-> Word("UNITS", "JULIAN"),
   isoyear |-> Word("UNITS", "ISOYEAR")]

MCtimezonetktbl == [met |-> Word("TZ", -60), edt |-> Word("DTZ", 240)]

MCdeltatktbl ==
  [mil |-> Word("UNITS", "MILLENNIUM"), dec |-> Word("UNITS", "DECADE"),
   year |-> Word("UNITS", "YEAR"), mon |-> Word("UNITS", "MONTH"),
   week |-> Word("UNITS", "WEEK"), day |-> Word("UNITS", "DAY"),
   hour |-> Word("UNITS", "HOUR"), min |-> Word("UNITS", "MINUTE"),
   sec |-> Word("UNITS", "SECOND"), ms |-> Word("UNITS", "MILLISECOND"),
   us |-> Word("UNITS", "MICROSECOND"), qtr |-> Word("UNITS", "QUARTER"),
   ago |-> Word("AGO", "none"), invalid |-> Word("RESERV", "INVALID")]

\* Words of letters, of digits, of a sign and digits, of parts with marks between.
W(w) == <<Letters(w)>>
N(len, val) == <<Digits(len, val)>>
A \oplus B == A \o <<Space>> \o B
By(a, mark, b) == a \o <<Mark(mark)>> \o b
By3(a, mark, b, c) == By(By(a, mark, b), mark, c)
Plus(a) == <<Mark("+")>> \o a
Minus(a) == <<Mark("-")>> \o a

york == By(W("america"), "/", W("york"))
utc == W("utc")
MCZones == {york, utc}
MCFixedZones == {utc}
MCNow == [year |-> 2004, mon |-> 2, mday |-> 29, yday |-> Unset, wday |-> Unset,
          hour |-> 17, min |-> 32, sec |-> 1, fsec |-> 0]

----------------------------------------------------------------------------
t0405 == By(N(2, 4), ":", N(2, 5))

\* The words most often read in the context of others.
Core ==
  {N(1, 8), N(2, 13), N(2, 99), N(4, 1999), N(3, 38), N(6, 40506), N(8, 20011225),
   By3(N(4, 1999), "-", N(2, 1), N(2, 8)), By3(N(1, 8), "-", W("jan"), N(4, 1999)),
   By3(W("jan"), "-", N(1, 8), N(4, 1999)),
   t0405, Minus(N(2, 8)), W("jan"), W("y"), W("m"), W("d"), W("h"), W("t"), W("bc"),
   W("pm"), W("j"), york}

Rest ==
  {N(3, 366), N(4, 405), N(7, 2451187), By(N(4, 2001), ".", N(3, 38)),
   By(N(6, 40506), ".", N(1, 5)), By(N(1, 4), ".", N(1, 5)), By(N(7, 2451187), ".", N(1, 5)),
   By3(N(2, 99), "/", N(1, 1), N(1, 8)), By3(N(1, 8), ".", N(1, 1), N(2, 99)),
   By(N(6, 40506), "-", N(2, 8)), By(N(7, 2451187), "-", N(2, 8)),
   By(By3(N(2, 4), ":", N(2, 5), N(2, 6)), ".", N(1, 5)), By(t0405, ".", N(1, 5)),
   By(N(2, 24), ":", N(2, 0)), By(N(2, 12), ":", N(2, 5)), By(N(2, 13), ":", N(2, 5)),
   By(N(2, 4), ":", N(2, 60)), By(W("mars"), "/", W("phobos")), utc,
   Plus(N(4, 530)), Minus(By(N(2, 16), ":", N(2, 0))), Minus(W("infinity")),
   <<Mark("+"), Mark(":")>>, <<Mark(".")>> \o N(1, 5),
   W("mm"), W("s"), W("isoyear"), W("am"), W("today"), W("tomorrow"), W("yesterday"),
   W("now"), W("allballs"), W("infinity"), W("current"), W("mon"), W("on"), W("met"),
   W("edt"), W("dst"), W("cuba")}

Words == Core \cup Rest

\* The values of a text's numbers of one or two digits and more.
NumbersIn(w) == {w[k].val : k \in {j \in DOMAIN w : IsDigits(w[j])}}
Apart(a, b) == NumbersIn(a) \cap NumbersIn(b) = {}

Singles == Words
Pairs == {a \oplus b : a, b \in Words}
Triples(S) == UNION {{a \oplus b \oplus c : c \in {x \in S : Apart(a, x) /\ Apart(b, x)}} :
                       <<a, b>> \in {p \in S \X S : Apart(p[1], p[2])}}

\* All orders of the words of a sequence.
Mixed(ws) == LET P == {q \in [1..Len(ws) -> 1..Len(ws)] :
                         \A j, k \in 1..Len(ws) : q[j] = q[k] => j = k}
                 RECURSIVE Joined(_, _)
                 Joined(q, k) == IF k = Len(ws) THEN ws[q[k]]
                                 ELSE ws[q[k]] \oplus Joined(q, k + 1)
             IN  {Joined(q, 1) : q \in P}

\* A label and its number as one word.
L(w, n) == W(w) \oplus n

Long ==
  Mixed(<<W("jan"), N(1, 8), N(4, 1999), t0405, Minus(N(2, 9))>>)
    \cup Mixed(<<W("feb"), N(2, 29), N(4, 2000), t0405, W("bc")>>)
    \cup Mixed(<<W("feb"), N(2, 29), N(2, 1), t0405>>)
    \cup Mixed(<<W("aug"), N(1, 8), N(4, 1999), By(N(2, 12), ":", N(2, 5)), W("am")>>)
    \cup Mixed(<<W("jan"), N(1, 8), N(4, 1999), W("mon"), york>>)
    \cup Mixed(<<N(4, 1999), N(1, 8), N(2, 25), t0405>>)
    \cup Mixed(<<N(4, 1999), N(3, 366), t0405, W("bc")>>)
    \cup Mixed(<<N(4, 2001), N(3, 60), N(6, 40506), york>>)
    \cup Mixed(<<N(8, 20011225), N(6, 40506), W("pm"), Plus(N(2, 7))>>)
    \cup Mixed(<<N(4, 1), W("jan"), N(2, 31), W("bc"), W("allballs")>>)
    \cup Mixed(<<N(4, 60), W("feb"), N(1, 8)>>)
    \cup Mixed(<<L("y", N(4, 1999)), L("m", N(2, 12)), L("d", N(2, 31)), L("h", N(2, 4)),
                 L("mm", N(2, 5))>>)
    \cup Mixed(<<L("j", N(7, 2451187)), L("h", N(2, 4)), L("m", N(2, 5)),
                 L("s", By(N(2, 6), ".", N(1, 5)))>>)
    \cup Mixed(<<L("y", N(4, 1999)), L("m", N(2, 12)), L("d", N(2, 31)), L("t", N(6, 40506))>>)
    \cup Mixed(<<L("y", N(4, 1999)), L("m", N(2, 12)), L("d", N(2, 31)), W("allballs"),
                 W("dst")>>)
    \cup Mixed(<<N(2, 12), N(4, 5), W("feb")>>)

\* Left out are the texts that give a day of the year or a time of day twenty
\* million years or hours long, which overflow an int.
TooFar(x) ==
  LET Has(l) == \E k \in DOMAIN x : x[k] = l
  IN  Has(Digits(8, 20011225)) /\ (Has(Letters("h")) \/ (Has(Letters("y")) /\ Has(Digits(3, 38))))

\* Digits and letters side by side, and points with nothing behind them.
Unparted ==
  {By(N(2, 18), "-", W("jan") \o N(4, 1999)), By(N(4, 1999), "-", W("jan") \o N(2, 18)),
   By(W("jan"), "-", N(1, 8) \o W("f") \o N(4, 1999)),
   By(W("jan"), "-", By(N(1, 8) \o W("f"), "-", N(4, 1999))),
   <<Digits(1, 8), Mark("."), Mark(".")>> \o N(4, 1999) \o W("xjan"),
   By3(W("jan"), "-", N(1, 8), N(4, 1999) \o W("z")), By(W("jan"), "-", N(4, 1999) \o W("feb")),
   By(N(2, 18), "-", W("jan") \o N(1, 9)),
   By(t0405, ".", <<>>), By(By3(N(2, 4), ":", N(2, 5), N(2, 6)), ".", <<>>),
   W("s") \oplus <<Mark(".")>>, W("j") \oplus <<Mark(".")>>, By(N(2, 18), "-", <<>>),
   By3(N(2, 18), "-", W("jan"), <<Mark("-")>>)}
Odd ==
  Unparted \cup {a \oplus b : a \in Unparted, b \in Core} \cup {b \oplus a : a \in Unparted, b \in Core}

MCDateTexts == Singles \cup Pairs \cup {t \in Triples(Core) : ~ TooFar(t)} \cup Long \cup Odd

----------------------------------------------------------------------------
Half(a) == By(a, ".", N(1, 5))

Spans ==
  {N(1, 2), Half(N(1, 2)), Minus(N(1, 3)), Minus(Half(N(1, 3))), Plus(N(1, 4))}
UnitWords ==
  {W("mil"), W("dec"), W("year"), W("mon"), W("week"), W("day"), W("hour"), W("min"),
   W("sec"), W("ms"), W("us")}
Counts == {n \oplus u : n \in Spans, u \in UnitWords}
Times2 == {By(N(1, 2), ":", N(2, 3)), Minus(By3(N(1, 2), ":", N(2, 3), N(2, 4))),
           Half(By3(N(1, 2), ":", N(2, 3), N(2, 4)))}
YearsMonths == {By(N(1, 2), "-", N(1, 7)), Minus(By(N(1, 2), "-", N(1, 7)))}
OddSpans ==
  {W("ago"), W("invalid"), W("qtr"), W("nowhere"), N(1, 2) \oplus W("qtr"),
   By(N(1, 2), "-", N(2, 12)), By(N(1, 2), "-", N(1, 7)) \o <<Mark("-")>> \o N(1, 1),
   By(N(1, 2), ":", N(2, 60)), <<Mark("+"), Mark(":")>>, <<Mark(".")>> \o N(1, 5)}
Items == Counts \cup Times2 \cup YearsMonths \cup Spans

MCSpanTexts ==
  Items \cup OddSpans
    \cup {a \oplus b : a, b \in Items}
    \cup {a \oplus W("ago") : a \in Items}
    \cup {a \oplus b \oplus W("ago") : a \in Counts, b \in Times2 \cup {N(1, 2) \oplus W("sec")}}
    \cup {y \oplus n \oplus t : y \in YearsMonths, n \in Spans, t \in Times2}

----------------------------------------------------------------------------
n1 == {Num(1, 2, 0), Num(1, -3, -1), Num(1, 4, 1)}
Lettered(S) == {<<n, Unit(u)>> : n \in n1, u \in S}
DateParts == Lettered({"Y", "M", "W", "D"})
TimeParts == Lettered({"H", "M", "S"})
OnlyDates ==
  DateParts \cup {a \o b : a, b \in DateParts}
    \cup {<<Num(8, 20315, h)>> : h \in {0, 1}}
    \cup {<<Num(4, 2, 0), Unit("-"), Num(2, 10, 0)>>,
          <<Num(4, 2, 0)>>, <<Num(2, 5, 0), Unit("-")>>, <<Num(2, 5, 0), Unit("-"), Unit("T")>>}
    \cup {<<Num(4, 2, 0), Unit("-"), Num(2, 10, 0), Unit("-"), n>> : n \in n1}
OnlyTimes ==
  TimeParts \cup {a \o b : a, b \in TimeParts}
    \cup {<<Num(6, 103020, h)>> : h \in {0, 1}}
    \cup {<<Num(2, 10, 0)>>, <<Num(2, 10, 0), Unit(":"), Num(2, 30, 0)>>,
          <<Num(2, 10, 0), Unit(":"), Unit("T")>>}
    \cup {<<Num(2, 10, 0), Unit(":"), Num(2, 30, 0), Unit(":"), n>> : n \in n1}
T(times) == <<Unit("T")>> \o times

MCIsoTexts ==
  OnlyDates \cup {T(b) : b \in OnlyTimes} \cup {a \o T(b) : a \in OnlyDates, b \in TimeParts}
    \cup {a \o T(b) : a \in {<<Num(8, 20315, 0)>>}, b \in OnlyTimes}
    \cup {<<Num(1, 2, 0), Unit("X")>>, T(<<Num(1, 2, 0), Unit("X")>>), <<Unit("Y")>>}
    \cup {a \o <<Num(4, 2, 0)>> : a \in DateParts} \cup {T(a \o <<Num(2, 7, 0)>>) : a \in TimeParts}

MCMonths == {-1201, -13, -1, 0, 1, 11, 24}
=============================================================================
