---------------------------- MODULE MCLocalTime ----------------------------
(***************************************************************************)
(* Instances of LocalTime for TLC.  A day has two seconds, so that an       *)
(* offset has three values; tables have up to three transitions, at the      *)
(* least distance the code assumes and at a greater one, and a Gregorian    *)
(* cycle is as long as the longest table, so that it extends both ways.     *)
(***************************************************************************)
EXTENDS LocalTime

MCOffsets == {-1, 0, 1}
MCTypes == [tt_gmtoff : MCOffsets, tt_isdst : BOOLEAN]
MCTypeLists == {<<a, b>> : a, b \in MCTypes} \ {<<a, a>> : a \in MCTypes}
MCTransitions == {<<>>, <<0>>, <<-4, 1>>, <<-4, 0, 4>>}

MCTables ==
  UNION {[ats : {a}, types : [1..Len(a) -> 1..2], ttis : MCTypeLists,
          goback : BOOLEAN, goahead : BOOLEAN] : a \in MCTransitions}

\* The flags are taken exactly where the table extends, as tzload sets them.
MCZones ==
  {sp \in MCTables :
     LET n == Len(sp.ats)
     IN  /\ sp.goback  <=> \E j \in 2..n : Extends(sp, 1, j)
         /\ sp.goahead <=> \E i \in 1..(n - 1) : Extends(sp, i, n)}

MCLocalTimes == -15..15
MCInstants == -16..16
MCDays == {0, 3}
MCTimes == {0, 2}
MCFirstTime == -14
=============================================================================
