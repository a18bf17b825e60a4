---------------------------- MODULE MCDateTokens ----------------------------
(***************************************************************************)
(* Instances of TzAbbrev and DateTokens for TLC: small sets of files with   *)
(* every kind of line, includes to the depth allowed and beyond, files that *)
(* include each other, and overrides on either side of an include.          *)
(***************************************************************************)
EXTENDS DateTokens, TLC

\* The words, in the order of strcmp.  "mon" is a day and a unit, and may be made
\* an abbreviation; nobody asks for "met".
dst == 1   ist == 2   met == 3   mon == 4

MCWords == {dst, ist, mon}
MCAbbrevs == {ist, met, mon}
MCdatetktbl ==
  <<[token |-> dst, type |-> "DTZMOD", value |-> 6],
    [token |-> mon, type |-> "DOW", value |-> 1]>>
MCdeltatktbl == <<[token |-> mon, type |-> "UNITS", value |-> 23]>>

Std(a, o) == [kind |-> "entry", abbrev |-> a, offset |-> o, is_dst |-> FALSE]
Dst(a, o) == [kind |-> "entry", abbrev |-> a, offset |-> o, is_dst |-> TRUE]
Inc(name) == [kind |-> "include", file |-> name]
Ovr == [kind |-> "override"]
Bad == [kind |-> "invalid"]

MCFiles ==
  [Default    |-> <<Std(mon, 34200), Dst(ist, 7200), Std(met, 3600)>>,
   India      |-> <<Inc("Default"), Ovr, Std(ist, 19800)>>,
   Clash      |-> <<Inc("Default"), Std(mon, 35100)>>,
   Inner      |-> <<Std(ist, -12600), Ovr, Dst(met, 50400)>>,
   Outer      |-> <<Std(met, -50400), Inc("Inner")>>,
   Middle     |-> <<Inc("Outer"), Inc("Inner")>>,
   Deep       |-> <<Inc("Middle")>>,
   Deeper     |-> <<Std(mon, 0), Inc("Deep")>>,
   Around     |-> <<Inc("Default"), Ovr, Inc("Inner")>>,
   Ping       |-> <<Inc("Pong")>>,
   Pong       |-> <<Ovr, Inc("Ping")>>,
   Odd        |-> <<Std(met, 1000)>>,
   Far        |-> <<Std(met, -51300)>>,
   Broken     |-> <<Bad>>,
   Slash      |-> <<Inc("../up")>>,
   Lost       |-> <<Inc("Gone")>>,
   Empty      |-> <<>>]

MCAlphabetic == DOMAIN MCFiles \cup {"Gone"}
MCNames == MCAlphabetic \cup {"../up"}
=============================================================================
