---------------------------- MODULE TextFields -----------------------------
(***************************************************************************)
(* ParseDateTime: the text of a date, a time or an interval cut into        *)
(* fields, each with the type its first characters give it.                 *)
(*                                                                          *)
(* A text is a sequence of lexemes: a run of digits with its value, a run   *)
(* of letters, a punctuation mark, a space.  Case, the size of the work     *)
(* buffer and the limit on the number of fields are left out.               *)
(***************************************************************************)
EXTENDS Integers, Sequences

CONSTANTS
  datetktbl,       \* word |-> [type, val]: the built-in date words
  timezonetktbl,   \* word |-> [type, val]: the abbreviations installed, in minutes
  deltatktbl,      \* word |-> [type, val]: the units of intervals
  Zones,           \* the sequences of lexemes pg_tzset finds a zone for
  FixedZones       \* those with the same offset at all times

ASSUME TextFieldsAssumption ==
  /\ FixedZones \subseteq Zones
  /\ \A w \in DOMAIN datetktbl : datetktbl[w].type = "MONTH" => datetktbl[w].val \in 1..12
  /\ \A w \in DOMAIN timezonetktbl : timezonetktbl[w].type \in {"TZ", "DTZ"}

\* Lexemes.
Digits(len, val) == [c |-> "digits", len |-> len, val |-> val]
Letters(w) == [c |-> "letters", w |-> w]
Mark(p) == [c |-> "mark", p |-> p]
Space == [c |-> "space"]

\* What a text is made of.  A longer run of digits, which overflows an int, is
\* left out.
Lexemes ==
  [c : {"digits"}, len : 1..9, val : Nat] \cup [c : {"letters"}, w : STRING]
    \cup [c : {"mark"}, p : STRING] \cup [c : {"space"}]

IsDigits(l) == l.c = "digits"
IsLetters(l) == l.c = "letters"
IsMark(l, S) == l.c = "mark" /\ l.p \in S
AlphaNum(l) == IsDigits(l) \/ IsLetters(l)
Inside(lex, p) == p \in 1..Len(lex)

\* No zone has the name looked up.
NoZone == <<>>
pg_tzset(lex) == IF lex \in Zones THEN lex ELSE NoZone

----------------------------------------------------------------------------
\* What a lexeme is of: digits, letters, a space, or the mark itself.
Kind(l) == IF l.c = "mark" THEN l.p ELSE l.c

\* The first place from p on where a lexeme is of none of the kinds.
Past(lex, p, kinds) ==
  CHOOSE q \in p..(Len(lex) + 1) :
     /\ ~ (Inside(lex, q) /\ Kind(lex[q]) \in kinds)
     /\ \A r \in p..(q - 1) : Kind(lex[r]) \in kinds

Cut(ftype, lex, p, q) == [ftype |-> ftype, next |-> q, lex |-> SubSeq(lex, p, q - 1)]

Skip(q) == [ftype |-> "none", next |-> q]
NotAField == [ftype |-> "bad"]

\* "leading digit? then date or time"
DigitField(lex, p) ==
  LET delim == Kind(lex[p + 1])
      three == Inside(lex, p + 3) /\ Kind(lex[p + 3]) = delim
  IN  IF Inside(lex, p + 1) /\ IsMark(lex[p + 1], {":"})
      THEN Cut("TIME", lex, p, Past(lex, p, {"digits", ":", "."}))
      ELSE IF ~ (Inside(lex, p + 1) /\ IsMark(lex[p + 1], {"-", "/", "."}))
      THEN Cut("NUMBER", lex, p, p + 1)
      ELSE IF ~ (Inside(lex, p + 2) /\ IsDigits(lex[p + 2]))
      THEN Cut("DATE", lex, p, Past(lex, p + 1, {"digits", "letters", delim}))
      ELSE IF three THEN Cut("DATE", lex, p, Past(lex, p + 3, {"digits", delim}))
      ELSE Cut(IF delim = "." THEN "NUMBER" ELSE "DATE", lex, p, p + 3)

\* "Leading decimal point? Then fractional seconds..."
PointField(lex, p) == Cut("NUMBER", lex, p, Past(lex, p + 1, {"digits"}))

\* Letters go on to a date or a zone name at a dash, slash or point, and before
\* a digit or a plus sign unless they are a built-in word.
LettersField(lex, p) ==
  LET name == {"digits", "letters", "+", "-", "/", "_", ".", ":"}
      is_date ==
        /\ Inside(lex, p + 1)
        /\ \/ IsMark(lex[p + 1], {"-", "/", "."})
           \/ /\ IsMark(lex[p + 1], {"+"}) \/ IsDigits(lex[p + 1])
              /\ lex[p].w \notin DOMAIN datetktbl
  IN  IF is_date THEN Cut("DATE", lex, p, Past(lex, p + 1, name))
      ELSE Cut("STRING", lex, p, p + 1)

\* A field with the sign at p in front and no space between.
Behind(sign, f) == [f EXCEPT !.lex = <<sign>> \o @]

\* "sign? then special or numeric timezone"
SignField(lex, p) ==
  LET q == Past(lex, p + 1, {"space"})
  IN  IF ~ (Inside(lex, q) /\ AlphaNum(lex[q])) THEN NotAField
      ELSE IF IsDigits(lex[q])
      THEN Behind(lex[p], Cut("TZ", lex, q, Past(lex, q, {"digits", ":", ".", "-"})))
      ELSE Behind(lex[p], Cut("SPECIAL", lex, q, q + 1))

\* The field that starts at p; other punctuation is ignored.
FieldAt(lex, p) ==
  IF IsDigits(lex[p]) THEN DigitField(lex, p)
  ELSE IF IsLetters(lex[p]) THEN LettersField(lex, p)
  ELSE IF IsMark(lex[p], {"."}) THEN PointField(lex, p)
  ELSE IF IsMark(lex[p], {"+", "-"}) THEN SignField(lex, p)
  ELSE Skip(p + 1)

\* The fields from each place on.
FieldsOf(lex) ==
  LET From[p \in 1..(Len(lex) + 1)] ==
        IF p = Len(lex) + 1 THEN <<>>
        ELSE LET f == FieldAt(lex, p)
             IN  IF f.ftype = "bad" THEN <<f>>
                 ELSE IF f.ftype = "none" THEN From[f.next]
                 ELSE <<[ftype |-> f.ftype, lex |-> f.lex]>> \o From[f.next]
  IN  From

ParseDateTime(lex) ==
  LET fs == FieldsOf(lex)[1]
      bad == fs # <<>> /\ fs[Len(fs)] = NotAField
  IN  [err |-> IF bad THEN "BAD_FORMAT" ELSE "ok", field |-> fs]

=============================================================================
