----------------------------- MODULE LocalTime -----------------------------
(***************************************************************************)
(* Conversion of a timestamp with time zone from and to local time under    *)
(* the session time zone: timestamptz_in (through DetermineTimeZoneOffset   *)
(* and tm2timestamp), timestamptz_out (through timestamp2tm), and           *)
(* timestamptz_pl_interval, which goes out to local time, moves the         *)
(* calendar fields and comes back in.                                       *)
(*                                                                          *)
(* The broken-down struct tm is kept as the count of local seconds it       *)
(* stands for, with tm_isdst and the offset computed for it; fractional     *)
(* seconds play no part in any decision here.  An interval has a part in    *)
(* days and a part in seconds.                                              *)
(***************************************************************************)
EXTENDS ZoneTable

CONSTANTS
  Zones,        \* the tables a session time zone may have
  LocalTimes,   \* local times a client may enter, and garbage that may be read
  Days,         \* day parts of intervals
  Times,        \* time parts of intervals
  Instants,     \* bound on the timestamps reached by adding intervals
  FIRST_TIME    \* the first second of Julian day 0

ASSUME LocalTimeAssumption ==
  /\ \A sp \in Zones : Loaded(sp) /\ Spaced(sp)
  /\ LocalTimes \subseteq Int /\ Days \subseteq Int /\ Times \subseteq Int
  /\ Instants \subseteq Int /\ FIRST_TIME \in Int

VARIABLES
  session_timezone,   \* fixed by the initial state
  timestamp,          \* the client's TimestampTz
  tm,                 \* the struct tm of the latest call: [local, isdst, tz]
  call                \* the latest call, and whether it reported an error

vars == <<session_timezone, timestamp, tm, call>>

----------------------------------------------------------------------------
\* IS_VALID_JULIAN, for the lower limit.
ValidJulian(local) == local >= FIRST_TIME

\* Mutant: the candidate under the later type is not looked at.
EarlierBefore(beforetime, aftertime, boundary) == beforetime <= boundary

\* The two candidate instants stand on the same side of the boundary.
BothBefore(beforetime, aftertime, boundary) ==
  beforetime <= boundary /\ aftertime < boundary

BothAfter(beforetime, aftertime, boundary) ==
  beforetime > boundary /\ aftertime >= boundary

\* Mutant: the type after the boundary is always taken.
LaterType(before, after) == after

\* Neither: the local time is skipped or repeated, and the type after the
\* boundary is taken when it is standard time, the one before it otherwise.
Preferred(before, after) == IF after.tt_isdst THEN before ELSE after

\* The type whose offset DetermineTimeZoneOffset applies to a local time, given
\* the result of looking one day back for the next boundary.
ChosenType(local, r) ==
  LET beforetime == local - r.before.tt_gmtoff
      aftertime  == local - r.after.tt_gmtoff
  IN  IF r.res = 0 THEN r.before
      ELSE IF BothBefore(beforetime, aftertime, r.boundary) THEN r.before
      ELSE IF BothAfter(beforetime, aftertime, r.boundary) THEN r.after
      ELSE Preferred(r.before, r.after)

\* "Given date is out of range, so assume UTC"
UTC == [tt_gmtoff |-> 0, tt_isdst |-> FALSE]

DetermineTimeZoneOffset(sp, local) ==
  IF ~ ValidJulian(local) THEN UTC
  ELSE LET r == pg_next_dst_boundary(sp, local - SECS_PER_DAY)
       IN  IF r.res < 0 THEN UTC ELSE ChosenType(local, r)

\* tm2timestamp: the value stored, zero with an error when out of range.
Stored(local, type) == IF ValidJulian(local) THEN local - type.tt_gmtoff ELSE 0

----------------------------------------------------------------------------
\* No struct tm was filled in by the latest call.
NoTm == [local |-> 0, isdst |-> FALSE, tz |-> 0]

Init ==
  /\ session_timezone \in Zones
  /\ timestamp = 0
  /\ tm = NoTm
  /\ call = [op |-> "none", warned |-> FALSE]

\* Decode local time l in the session zone and store the timestamp.
DecodeAndStore(l, op, warned, time) ==
  LET type == DetermineTimeZoneOffset(session_timezone, l)
  IN  /\ tm' = [local |-> l, isdst |-> type.tt_isdst, tz |-> -type.tt_gmtoff]
      /\ timestamp' = Stored(l, type) + time
      /\ call' = [op |-> op, warned |-> warned \/ ~ ValidJulian(l)]
      /\ UNCHANGED session_timezone

timestamptz_in(l) == DecodeAndStore(l, "in", FALSE, 0)

\* timestamp2tm fails before Julian day 0, and the caller only warns.
InRange == timestamp >= FIRST_TIME

timestamptz_out ==
  /\ IF InRange
     THEN LET type == TypeAt(session_timezone, timestamp)
          IN  tm' = [local |-> localsub(session_timezone, timestamp),
                     isdst |-> type.tt_isdst, tz |-> -type.tt_gmtoff]
     ELSE tm' = NoTm
  /\ call' = [op |-> "out", warned |-> ~ InRange]
  /\ UNCHANGED <<session_timezone, timestamp>>

\* Mutant: the offset found before the days were added is kept.
PlIntervalKeepOffset(day, time) ==
  LET type == TypeAt(session_timezone, timestamp)
      l == localsub(session_timezone, timestamp) + day * SECS_PER_DAY
  IN  /\ tm' = [local |-> l, isdst |-> type.tt_isdst, tz |-> -type.tt_gmtoff]
      /\ timestamp' = Stored(l, type) + time
      /\ call' = [op |-> "pl", warned |-> ~ InRange]
      /\ UNCHANGED session_timezone

\* Mutant: the offset is taken from the timestamp before the days were added.
PlIntervalStaleOffset(day, time) ==
  LET l == localsub(session_timezone, timestamp) + day * SECS_PER_DAY
  IN  /\ tm' = [local |-> l, isdst |-> FALSE, tz |-> timestamp - l]
      /\ timestamp' = timestamp + time
      /\ call' = [op |-> "pl", warned |-> FALSE]
      /\ UNCHANGED session_timezone

\* Days are added to the local date.  After an error from timestamp2tm the code
\* goes on with a struct tm it never filled in: any local time.
timestamptz_pl_interval(day, time) ==
  IF day = 0
  THEN /\ timestamp' = timestamp + time
       /\ tm' = NoTm
       /\ call' = [op |-> "pl", warned |-> FALSE]
       /\ UNCHANGED session_timezone
  ELSE IF InRange
  THEN DecodeAndStore(localsub(session_timezone, timestamp) + day * SECS_PER_DAY,
                      "pl", FALSE, time)
  ELSE \E garbage \in LocalTimes :
          DecodeAndStore(garbage + day * SECS_PER_DAY, "pl", TRUE, time)

timestamptz_mi_interval(day, time) == timestamptz_pl_interval(-day, -time)

\* A timestamp object is created once from a string; add and minus make the
\* next one from it.
In == call.op = "none" /\ \E l \in LocalTimes : timestamptz_in(l)
Out == timestamptz_out
PlInterval == /\ \E d \in Days, t \in Times : timestamptz_pl_interval(d, t)
              /\ timestamp' \in Instants
MiInterval == /\ \E d \in Days, t \in Times : timestamptz_mi_interval(d, t)
              /\ timestamp' \in Instants

Next == In \/ Out \/ PlInterval \/ MiInterval

Spec == Init /\ [][Next]_vars

----------------------------------------------------------------------------
(* What a local time means, said without the boundary search *)

\* Instants whose local time could be l: offsets are shorter than a day.
Window(l) == (l - SECS_PER_DAY + 1)..(l + SECS_PER_DAY - 1)

Shows(sp, u, l) == localsub(sp, u) = l

\* l is what the clock would have shown, had it not just been set back (or only
\* renamed) into daylight time at b: the one reading that BothBefore and
\* BothAfter both miss although it is neither skipped nor repeated.
TurnsIntoDaylight(sp, l) ==
  \E b \in Window(l) : LET p == TypeAt(sp, b - 1)
                           q == TypeAt(sp, b)
                       IN  /\ p # q
                           /\ q.tt_isdst /\ q.tt_gmtoff <= p.tt_gmtoff
                           /\ l = b + p.tt_gmtoff

\* l lies inside the readings the clock skips at b, past the first of them, and
\* one of the types around b is standard time.
SkippedNearStandard(sp, l, b) ==
  LET p == TypeAt(sp, b - 1)
      q == TypeAt(sp, b)
  IN  /\ b + p.tt_gmtoff < l /\ l < b + q.tt_gmtoff
      /\ ~ p.tt_isdst \/ ~ q.tt_isdst

----------------------------------------------------------------------------
TypeOK ==
  /\ session_timezone \in Zones
  /\ timestamp \in Int
  /\ tm \in [local : Int, isdst : BOOLEAN, tz : Int]
  /\ -SECS_PER_DAY < tm.tz /\ tm.tz < SECS_PER_DAY
  /\ call \in [op : {"none", "in", "out", "pl"}, warned : BOOLEAN]

Entered == call.op = "in" /\ ~ call.warned

\* u is what the library should make of l: it shows l, under the type recorded.
Means(sp, u, l) ==
  /\ Shows(sp, u, l)
  /\ tm.tz = -TypeAt(sp, u).tt_gmtoff
  /\ tm.isdst = TypeAt(sp, u).tt_isdst

(***************************************************************************)
(* A local time that occurs at all is stored as an instant at which it      *)
(* occurs, and tm_isdst and the offset are those in force at that instant   *)
(* (DetermineTimeZoneOffset.c:99-123), except for the reading described by  *)
(* TurnsIntoDaylight.                                                       *)
(***************************************************************************)
EnteredTimeOccurs ==
  Entered =>
    \/ Means(session_timezone, timestamp, tm.local)
    \/ \A u \in Window(tm.local) : ~ Shows(session_timezone, u, tm.local)
    \/ TurnsIntoDaylight(session_timezone, tm.local)

(***************************************************************************)
(* "Prefer the standard-time interpretation" (DetermineTimeZoneOffset.c:    *)
(* 113): a reading that occurs in standard time is never taken for daylight *)
(* time, and neither is a skipped one beside standard time.                 *)
(***************************************************************************)
StandardPreferred ==
  Entered /\ tm.isdst =>
    /\ \A u \in Window(tm.local) :
          Shows(session_timezone, u, tm.local) => TypeAt(session_timezone, u).tt_isdst
    /\ \A b \in Window(tm.local) :
          ~ SkippedNearStandard(session_timezone, tm.local, b)

\* The clock of the new timestamp, less the time part, after d days.
SameClock(d, time) ==
  LET l == localsub(session_timezone, timestamp) + d * SECS_PER_DAY
  IN  \/ Shows(session_timezone, timestamp' - time, l)
      \/ \A u \in Window(l) : ~ Shows(session_timezone, u, l)
      \/ TurnsIntoDaylight(session_timezone, l)

ClockKept ==
  call'.op = "pl" /\ ~ call'.warned =>
    \A d \in Days \ {0}, time \in Times :
       /\ timestamptz_pl_interval(d, time) => SameClock(d, time)
       /\ timestamptz_mi_interval(d, time) => SameClock(-d, -time)

(***************************************************************************)
(* Adding or subtracting days (timestamptz_pl_interval.c:59-77) keeps the   *)
(* wall clock across changes of offset whenever the resulting local time    *)
(* occurs; the time part is then added to the instant.                      *)
(***************************************************************************)
DaysKeepClock == [][ClockKept]_vars

(***************************************************************************)
(* Outside the table the lookups move an instant by whole cycles: the move  *)
(* never fails ("cannot happen", localsub.c:53 and pg_next_dst_boundary.c:  *)
(* 85), and from one cycle inside the table onwards the types repeat.       *)
(***************************************************************************)
ExtrapolationRepeats ==
  LET sp   == session_timezone
      last == sp.ats[timecnt(sp)]
  IN  /\ ~ LookupFails(sp, timestamp)
      /\ ~ LookupFails(sp, tm.local - SECS_PER_DAY)
      /\ sp.goahead /\ timestamp >= last - SECSPERREPEAT =>
            TypeAt(sp, timestamp + SECSPERREPEAT) = TypeAt(sp, timestamp)
      /\ sp.goback /\ timestamp <= sp.ats[1] + SECSPERREPEAT =>
            TypeAt(sp, timestamp - SECSPERREPEAT) = TypeAt(sp, timestamp)

(***************************************************************************)
(* What the comments of DetermineTimeZoneOffset.c:99-101 and 113-116 claim: *)
(* only a skipped or a repeated local time is left to the preference, so    *)
(* one that occurs at exactly one instant is stored as that instant.        *)
(***************************************************************************)
UnambiguousTimeIsExact ==
  Entered =>
    \A u \in Window(tm.local) :
       (\A w \in Window(tm.local) : Shows(session_timezone, w, tm.local) <=> w = u)
         => timestamp = u

=============================================================================
