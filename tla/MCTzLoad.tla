------------------------------ MODULE MCTzLoad ------------------------------
(***************************************************************************)
(* Instances of TzLoad for TLC.  A Gregorian cycle is a year of 10 and one  *)
(* of 12 seconds, and a table has room for eight transitions, so that a     *)
(* file with none or few of its own is extended by more than a cycle and    *)
(* one with many is not.  Files are in order and out of it, with types in   *)
(* range and not; a few of them repeat after a cycle.                       *)
(***************************************************************************)
EXTENDS TzLoad

Type(gmtoff, isdst, std, gmt) ==
  [tt_gmtoff |-> gmtoff, tt_isdst |-> isdst,
   tt_abbr |-> IF isdst THEN "D" ELSE "S", tt_ttisstd |-> std, tt_ttisgmt |-> gmt]

MCTypeLists == {<<Type(0, FALSE, FALSE, FALSE)>>,
                <<Type(0, FALSE, FALSE, FALSE), Type(1, TRUE, FALSE, FALSE)>>,
                <<Type(1, TRUE, FALSE, TRUE), Type(0, FALSE, TRUE, FALSE),
                  Type(-1, FALSE, FALSE, FALSE)>>}

\* The years: 0..9, 10..21, 22..31, 32..43, ...
MCYearLengths == <<10, 12>>
North == [start |-> <<3, 4>>, end |-> <<7, 8>>]
South == [start |-> <<8, 9>>, end |-> <<2, 3>>]

Zone(std, dst, rule) ==
  [stdoffset |-> std, dstoffset |-> dst, rule |-> rule,
   stdname |-> "S", dstname |-> "D"]

MCSpecs == {Malformed, Zone(0, NoDst, NoRule), Zone(1, NoDst, NoRule),
            Zone(0, -1, NoRule), Zone(1, -1, NoRule),
            Zone(0, -1, North), Zone(1, -1, North), Zone(-1, -2, South),
            Zone(0, 1, South)}

MCTransitions == {<<>>, <<-19>>, <<5>>, <<12, 5>>, <<4, 4>>, <<-8, 14>>, <<3, 1, 6>>,
                  <<-3, 7, 19>>, <<-8, 1, 14, 23>>, <<3, 8, 13, 19, 25, 30>>,
                  [i \in 1..9 |-> i]}

\* Types in turn, from the first or the second one; once, past the last.
MCTypesOf(n, m) ==
  {[i \in 1..n |-> ((i + k) % m) + 1] : k \in 0..1} \cup {[i \in 1..n |-> i]}

MCFooters == (MCSpecs \ {Zone(1, NoDst, NoRule), Zone(0, 1, South)}) \cup {NoFooter}

MCFiles ==
  UNION {UNION {[ats : {a}, types : MCTypesOf(Len(a), Len(l)), ttis : {l},
                 footer : MCFooters]
                 : l \in MCTypeLists} : a \in MCTransitions}
    \cup [ats : {<<>>}, types : {<<>>}, ttis : {<<>>}, footer : {NoFooter}]

MCRules ==
  {f \in MCFiles : /\ f.footer = NoFooter
                   /\ f.ats \in {<<>>, <<4, 4>>, <<12, 5>>, <<-8, 14>>, <<-3, 7, 19>>,
                               <<-8, 1, 14, 23>>}}

MCInstants == (-25)..100
=============================================================================
