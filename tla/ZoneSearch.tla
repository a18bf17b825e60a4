----------------------------- MODULE ZoneSearch -----------------------------
(***************************************************************************)
(* How localsub and pg_next_dst_boundary find their answer inside a zone    *)
(* table: a scan for the default type and a binary search of the            *)
(* transition times.  Indices count from 0 as in the code.  A question that *)
(* needs extrapolation has been moved into the table before this starts.    *)
(***************************************************************************)
EXTENDS ZoneTable

CONSTANTS
  Zones,      \* the tables searched
  Instants    \* the instants asked about

ASSUME SearchAssumption ==
  /\ \A z \in Zones : Loaded(z)
  /\ Instants \subseteq Int

VARIABLES
  sp, t,      \* the table and the instant: fixed by the initial state
  caller,     \* the function that asks: fixed by the initial state
  pc,         \* "start", "scan", "search" or "done"
  i,          \* the scan's index
  lo, hi,     \* the search's bounds
  answer      \* what the function assigns to its results

vars == <<sp, t, caller, pc, i, lo, hi, answer>>
asked == <<sp, t, caller>>

Callers == {"localsub", "boundary"}
NoAnswer == [res |-> "none"]

\* The arrays as the code indexes them.
ats(k) == sp.ats[k + 1]
ttis(k) == sp.ttis[k + 1]
typed(k) == TypeOf(sp, k + 1)
typecnt == Len(sp.ttis)

Init ==
  /\ sp \in Zones /\ t \in Instants /\ caller \in Callers
  /\ ~ Extrapolated(sp, t)
  /\ pc = "start"
  /\ i = 0 /\ lo = 0 /\ hi = 0
  /\ answer = NoAnswer

Goto(l) == pc' = l /\ UNCHANGED asked

Return(r) ==
  /\ answer' = r
  /\ Goto("done")

\* The first tests of both functions.
StartScan ==
  /\ pc = "start"
  /\ timecnt(sp) # 0 => t < ats(0)
  /\ i' = 0
  /\ Goto("scan")
  /\ UNCHANGED <<lo, hi, answer>>

\* "No known transition > t, so use last known segment's type"
AfterLast ==
  /\ pc = "start" /\ caller = "boundary"
  /\ timecnt(sp) # 0 /\ t >= ats(timecnt(sp) - 1)
  /\ Return(NoBoundary(typed(timecnt(sp) - 1)))
  /\ UNCHANGED <<i, lo, hi>>

\* Mutant: the upper bound of pg_next_dst_boundary for both.
SearchWholeTable ==
  /\ pc = "start"
  /\ timecnt(sp) # 0 /\ t >= ats(0)
  /\ caller = "boundary" => t < ats(timecnt(sp) - 1)
  /\ lo' = 1
  /\ hi' = timecnt(sp) - 1
  /\ Goto("search")
  /\ UNCHANGED <<i, answer>>

StartSearch ==
  /\ pc = "start"
  /\ timecnt(sp) # 0 /\ t >= ats(0)
  /\ caller = "boundary" => t < ats(timecnt(sp) - 1)
  /\ lo' = 1
  /\ hi' = IF caller = "boundary" THEN timecnt(sp) - 1 ELSE timecnt(sp)
  /\ Goto("search")
  /\ UNCHANGED <<i, answer>>

\* The answer made of the default type the scan found.
Default(type) ==
  IF caller = "boundary" /\ timecnt(sp) # 0
  THEN Boundary(type, ats(0), typed(0))
  ELSE NoBoundary(type)

\* Mutant: the scan runs one past the last type before it gives up.
ScanPastEnd ==
  /\ pc = "scan"
  /\ IF ttis(i).tt_isdst
     THEN IF i + 1 > typecnt
          THEN Return(Default(ttis(0))) /\ UNCHANGED i
          ELSE i' = i + 1 /\ Goto("scan") /\ UNCHANGED answer
     ELSE Return(Default(ttis(i))) /\ UNCHANGED i
  /\ UNCHANGED <<lo, hi>>

\* "while (sp->ttis[i].tt_isdst) if (++i >= sp->typecnt) { i = 0; break; }"
Scan ==
  /\ pc = "scan"
  /\ IF ttis(i).tt_isdst
     THEN IF i + 1 >= typecnt
          THEN Return(Default(ttis(0))) /\ UNCHANGED i
          ELSE i' = i + 1 /\ Goto("scan") /\ UNCHANGED answer
     ELSE Return(Default(ttis(i))) /\ UNCHANGED i
  /\ UNCHANGED <<lo, hi>>

mid == (lo + hi) \div 2

\* Mutant: the lower bound does not move past mid.
HalveKeepMid ==
  /\ pc = "search" /\ lo < hi
  /\ IF t < ats(mid) THEN hi' = mid /\ UNCHANGED lo
                     ELSE lo' = mid /\ UNCHANGED hi
  /\ Goto("search")
  /\ UNCHANGED <<i, answer>>

Halve ==
  /\ pc = "search" /\ lo < hi
  /\ IF t < ats(mid) THEN hi' = mid /\ UNCHANGED lo
                     ELSE lo' = mid + 1 /\ UNCHANGED hi
  /\ Goto("search")
  /\ UNCHANGED <<i, answer>>

Found ==
  /\ pc = "search" /\ ~ (lo < hi)
  /\ Return(IF caller = "boundary"
            THEN Boundary(typed(lo - 1), ats(lo), typed(lo))
            ELSE NoBoundary(typed(lo - 1)))
  /\ UNCHANGED <<i, lo, hi>>

Next == StartScan \/ AfterLast \/ StartSearch \/ Scan \/ Halve \/ Found

\* The functions run to their end once called.
Spec == Init /\ [][Next]_vars /\ WF_vars(Next)

----------------------------------------------------------------------------
TypeOK ==
  /\ sp \in Zones /\ t \in Instants /\ caller \in Callers
  /\ pc \in {"start", "scan", "search", "done"}
  /\ i \in 0..(typecnt - 1) /\ lo \in 0..timecnt(sp) /\ hi \in 0..timecnt(sp)

(***************************************************************************)
(* The binary search reads no element outside ats, and at each turn of its  *)
(* loop the transitions below lo have happened by t while those from hi on  *)
(* have not (localsub.c:82-94, pg_next_dst_boundary.c:132-144).             *)
(***************************************************************************)
Bracketed ==
  pc = "search" =>
       /\ 1 <= lo /\ lo <= hi
       /\ hi <= (IF caller = "boundary" THEN timecnt(sp) - 1 ELSE timecnt(sp))
       /\ \A k \in 0..(timecnt(sp) - 1) : /\ k < lo => ats(k) <= t
                                          /\ k >= hi => t < ats(k)

\* The right answer inside the table.
Lookup(c, z, u) ==
  IF c = "localsub" THEN NoBoundary(TypeInTable(z, u)) ELSE NextInTable(z, u)

Promise == INSTANCE ZoneLookup

(***************************************************************************)
(* The searches implement the lookup: they give one answer, the one that    *)
(* ZoneTable defines (localsub.c:70-97, pg_next_dst_boundary.c:41-55 and    *)
(* 100-155), and they come to an end.                                       *)
(***************************************************************************)
AnswersLookup == Promise!Spec

=============================================================================
