---------------------------- MODULE MCZoneSearch ----------------------------
(***************************************************************************)
(* Instances of ZoneSearch for TLC: every list of up to three types and up  *)
(* to eight transitions, every other instant apart, so that each instant    *)
(* before, at, between and after the transitions is asked about and the     *)
(* binary search runs through each of its shapes, three deep.               *)
(***************************************************************************)
EXTENDS ZoneSearch

MCInstants == 0..17

\* Types told apart by their place: type k has offset k.
MCTypeLists ==
  UNION {{[k \in 1..n |-> [tt_gmtoff |-> k, tt_isdst |-> k \in dst]]
            : dst \in SUBSET (1..n)} : n \in 1..3}

\* Transitions go round the types.
MCZones ==
  {[ats |-> [k \in 1..n |-> 2 * k - 1],
    types |-> [k \in 1..n |-> (k % Len(l)) + 1], ttis |-> l,
    goback |-> FALSE, goahead |-> FALSE] : n \in 0..8, l \in MCTypeLists}
=============================================================================
