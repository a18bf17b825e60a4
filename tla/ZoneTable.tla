----------------------------- MODULE ZoneTable -----------------------------
(***************************************************************************)
(* The in-memory form of a time zone (struct state, datizo.h) and the two   *)
(* lookups the library makes in it: localsub, which finds the local time    *)
(* type in force at an instant, and pg_next_dst_boundary, which finds the   *)
(* type in force at an instant together with the next change of type.       *)
(*                                                                          *)
(* Instants (pg_time_t) and local times are integers counting seconds from  *)
(* the Unix epoch; a local time is the count a clock on the wall would give *)
(* if it were read as GMT.  The binary searches of the two functions are    *)
(* replaced here by what they find; module ZoneSearch shows that they do.   *)
(***************************************************************************)
EXTENDS Integers, Sequences

CONSTANTS
  SECS_PER_DAY,     \* length of a day
  SECSPERREPEAT     \* YEARSPERREPEAT * AVGSECSPERYEAR: the Gregorian cycle

ASSUME ZoneAssumption == /\ SECS_PER_DAY \in Nat \ {0}
                         /\ SECSPERREPEAT \in Nat \ {0}

\* struct ttinfo: a GMT offset and whether it is daylight-saving time.
ttinfo == [tt_gmtoff : Int, tt_isdst : BOOLEAN]

\* struct state: transition i happens at ats[i] and enters ttis[types[i]].
State == [ats : Seq(Int), types : Seq(Nat \ {0}), ttis : Seq(ttinfo),
          goback : BOOLEAN, goahead : BOOLEAN]

timecnt(sp) == Len(sp.ats)
TypeOf(sp, i) == sp.ttis[sp.types[i]]

(***************************************************************************)
(* What tzload and tzparse leave in a usable table.  goback and goahead are *)
(* raised only when some other transition lies exactly one cycle from the   *)
(* first (last) one and enters an equivalent type.                          *)
(***************************************************************************)
Extends(sp, i, j) == /\ sp.ats[j] - sp.ats[i] = SECSPERREPEAT
                     /\ TypeOf(sp, i) = TypeOf(sp, j)

Loaded(sp) ==
  /\ sp \in State
  /\ Len(sp.types) = timecnt(sp)
  /\ sp.ttis # <<>>
  /\ \A i \in 1..timecnt(sp) : sp.types[i] \in 1..Len(sp.ttis)
  /\ \A i, j \in 1..timecnt(sp) : i < j => sp.ats[i] < sp.ats[j]
  /\ sp.goback  => \E j \in 2..timecnt(sp) : Extends(sp, 1, j)
  /\ sp.goahead => \E i \in 1..(timecnt(sp) - 1) : Extends(sp, i, timecnt(sp))

(***************************************************************************)
(* "We assume that all zones have GMT offsets less than 24 hours, and that  *)
(* DST boundaries can't be closer together than 48 hours"                   *)
(* (DetermineTimeZoneOffset.c:59).                                          *)
(***************************************************************************)
Spaced(sp) ==
  /\ \A k \in 1..Len(sp.ttis) :
        /\ sp.ttis[k].tt_gmtoff < SECS_PER_DAY
        /\ -SECS_PER_DAY < sp.ttis[k].tt_gmtoff
  /\ \A i, j \in 1..timecnt(sp) :
        i < j => sp.ats[j] - sp.ats[i] >= 2 * SECS_PER_DAY

----------------------------------------------------------------------------
(* Lookups inside the table *)

\* The lowest-numbered standard type, or type 1 when every type is daylight.
DefaultType(sp) ==
  LET standard == {k \in 1..Len(sp.ttis) : ~ sp.ttis[k].tt_isdst}
  IN  IF standard = {} THEN sp.ttis[1]
      ELSE sp.ttis[CHOOSE k \in standard : \A m \in standard : k <= m]

\* The transition that opened the segment t lies in.
IsSegment(sp, t, i) ==
  /\ i \in 1..timecnt(sp)
  /\ sp.ats[i] <= t
  /\ i < timecnt(sp) => t < sp.ats[i + 1]

Segment(sp, t) == CHOOSE i \in 1..timecnt(sp) : IsSegment(sp, t, i)

\* localsub once t needs no extrapolation: the type in force at t.
TypeInTable(sp, t) ==
  IF timecnt(sp) = 0 \/ t < sp.ats[1]
  THEN DefaultType(sp)
  ELSE TypeOf(sp, Segment(sp, t))

(***************************************************************************)
(* The result of pg_next_dst_boundary is a record: res (1 when there is a   *)
(* boundary, 0 when there is none), before, boundary, after.  The last two  *)
(* are not assigned by the code when res = 0.                               *)
(***************************************************************************)
NoBoundary(type) == [res |-> 0, before |-> type]

Boundary(before, at, after) ==
  [res |-> 1, before |-> before, boundary |-> at, after |-> after]

NextInTable(sp, t) ==
  LET n == timecnt(sp)
  IN  IF n = 0 THEN NoBoundary(DefaultType(sp))
      ELSE IF t >= sp.ats[n] THEN NoBoundary(TypeOf(sp, n))
      ELSE IF t < sp.ats[1]
           THEN Boundary(DefaultType(sp), sp.ats[1], TypeOf(sp, 1))
           ELSE LET i == Segment(sp, t)
                IN  Boundary(TypeOf(sp, i), sp.ats[i + 1], TypeOf(sp, i + 1))

----------------------------------------------------------------------------
(* Extrapolation outside the table, by whole Gregorian cycles *)

Extrapolated(sp, t) ==
  \/ sp.goback  /\ t < sp.ats[1]
  \/ sp.goahead /\ t > sp.ats[timecnt(sp)]

\* Mutant: whole cycles only, without the "++tcycles".
WholeCycles(sp, t) ==
  IF t < sp.ats[1]
  THEN (((sp.ats[1] - t) - 1) \div SECSPERREPEAT) * SECSPERREPEAT
  ELSE - ((((t - sp.ats[timecnt(sp)]) - 1) \div SECSPERREPEAT) * SECSPERREPEAT)

\* How far t is moved to bring it into the table: positive before the first
\* transition, negative after the last.  The code counts "icycles" as one more
\* than the whole cycles in the distance less a second.
CycleShift(sp, t) ==
  IF t < sp.ats[1]
  THEN (((sp.ats[1] - t) - 1) \div SECSPERREPEAT + 1) * SECSPERREPEAT
  ELSE - ((((t - sp.ats[timecnt(sp)]) - 1) \div SECSPERREPEAT + 1) * SECSPERREPEAT)

\* "cannot happen": the moved instant still needs moving, and the lookup fails
\* (localsub returns NULL, pg_next_dst_boundary -1).
LookupFails(sp, t) ==
  /\ Extrapolated(sp, t)
  /\ LET newt == t + CycleShift(sp, t)
     IN  newt < sp.ats[1] \/ newt > sp.ats[timecnt(sp)]

\* The type localsub finds in force at t.
TypeAt(sp, t) ==
  IF Extrapolated(sp, t)
  THEN TypeInTable(sp, t + CycleShift(sp, t))
  ELSE TypeInTable(sp, t)

\* The broken-down local time localsub returns, as a count of local seconds:
\* adding 400 years per cycle back to tm_year undoes the shift.
localsub(sp, t) == t + TypeAt(sp, t).tt_gmtoff

\* The boundary found from t + s, as seen from t.
MovedBack(r, s) ==
  IF r.res = 1 THEN Boundary(r.before, r.boundary - s, r.after) ELSE r

pg_next_dst_boundary(sp, t) ==
  IF LookupFails(sp, t) THEN [res |-> -1]
  ELSE IF Extrapolated(sp, t)
  THEN LET s == CycleShift(sp, t)
       IN  MovedBack(NextInTable(sp, t + s), s)
  ELSE NextInTable(sp, t)

=============================================================================
