------------------------------- MODULE TzLoad -------------------------------
(***************************************************************************)
(* How a zone table comes into being: tzload reads a compiled zone file,    *)
(* drops what is out of sort, appends the transitions of the POSIX rule in  *)
(* the file's last line and notes whether the table repeats; tzparse turns  *)
(* a POSIX zone specification into a table, by its own rule or by that of   *)
(* the file posixrules.                                                     *)
(*                                                                          *)
(* A file is what its last data block says: the transitions, the types and  *)
(* the specification in the last line.  A specification is what the parser  *)
(* reads off it.  Leap seconds are left out, and abbreviations are short    *)
(* enough for the room in chars.                                            *)
(***************************************************************************)
EXTENDS ZoneTable, FiniteSets, FiniteSetsExt

CONSTANTS
  TZ_MAX_TIMES, TZ_MAX_TYPES,   \* room in a table
  YEARSPERREPEAT,               \* years in a Gregorian cycle
  year_lengths,                 \* their lengths, in seconds, from EPOCH_YEAR
  TZDEFRULESTRING,              \* the rule used without posixrules
  Files, Rules,                 \* zone files, and those posixrules may be
  Specs,                        \* zone specifications
  Instants,                     \* the instants the loaded zones are asked about
  Unreadable,                   \* no such file, or a damaged one
  Malformed,                    \* a specification that does not parse
  NoFooter,                     \* an old file, or one with an empty last line
  NoDst, NoRule                 \* missing parts of a specification

VARIABLES
  posixrules,   \* the file of that name: fixed by the initial state
  stack,        \* what an uninitialised indicator reads: fixed likewise
  source,       \* what is loaded, [file] or [spec]: fixed likewise
  pc,           \* "start", "extend", "flags" or "done"
  sp            \* the table so far, or Failed

vars == <<posixrules, stack, source, pc, sp>>

Failed == [failed |-> TRUE]

\* A struct ttinfo with its abbreviation and its two indicators.
LocalType == [tt_gmtoff : Int, tt_isdst : BOOLEAN, tt_abbr : STRING,
              tt_ttisstd : BOOLEAN, tt_ttisgmt : BOOLEAN]

\* The second of the year at which a rule takes effect, year by year: the
\* calendar and the days of the week have the same period.
YearRule == [1..YEARSPERREPEAT -> Int]
Rule == [start : YearRule, end : YearRule]

ZoneSpec == [stdoffset : Int, dstoffset : Int \cup {NoDst}, rule : Rule \cup {NoRule},
             stdname : STRING, dstname : STRING]

ASSUME LoadAssumption ==
  /\ YEARSPERREPEAT \in Nat \ {0}
  /\ year_lengths \in [1..YEARSPERREPEAT -> Nat \ {0}]
  /\ TZ_MAX_TIMES \in Nat /\ TZ_MAX_TIMES \div 2 > YEARSPERREPEAT
  /\ TZ_MAX_TYPES \in Nat /\ TZ_MAX_TYPES >= 2
  /\ TZDEFRULESTRING \in Rule /\ NoRule \notin Rule
  /\ Specs \subseteq ZoneSpec \cup {Malformed}
  /\ Instants \subseteq Int
  /\ \A f \in Files \cup Rules :
       /\ f \in [ats : Seq(Int), types : Seq(Int), ttis : Seq(LocalType),
                 footer : Specs \cup {NoFooter}]
       /\ Len(f.types) = Len(f.ats)

\* The year after the k-th of a cycle, and the k-th year's changes from and to
\* standard time, counted from its start.
NextYear(k) == (k % YEARSPERREPEAT) + 1
changes(spec, rule, k) ==
  {rule.start[k] + spec.stdoffset, rule.end[k] + spec.dstoffset}

\* Neither a time of day nor an offset exceeds a week (getsecs.c): a change is
\* no more than a year away from the year it is for.
NearYear(spec, rule) ==
  \A k \in 1..YEARSPERREPEAT :
    /\ \A a \in changes(spec, rule, k) : a < year_lengths[k] + year_lengths[NextYear(k)]
    /\ \A b \in changes(spec, rule, NextYear(k)) : -year_lengths[k] <= b

ASSUME RuleAssumption ==
  \A spec \in Specs \ {Malformed} : spec.dstoffset # NoDst =>
    \A rule \in {spec.rule, TZDEFRULESTRING} \ {NoRule} : NearYear(spec, rule)

----------------------------------------------------------------------------
(* Reading a file *)

\* The limits and ranges that are checked on the way.
Readable(file) ==
  /\ file # Unreadable
  /\ Len(file.ttis) \in 1..TZ_MAX_TYPES
  /\ Len(file.ats) <= TZ_MAX_TIMES
  /\ \A i \in 1..Len(file.types) : file.types[i] \in 1..Len(file.ttis)

\* Mutant: the loop stops one pair earlier still.
OutOfSortEarlier(ats) ==
  {i \in 1..(Len(ats) - 3) : ats[i] > ats[i + 1]}

\* "for (i = 0; i < sp->timecnt - 2; ++i) if (sp->ats[i] > sp->ats[i + 1])"
OutOfSort(ats) == {i \in 1..(Len(ats) - 2) : ats[i] > ats[i + 1]}

\* "Ignore the end (easy)."
SortedCount(ats) ==
  IF OutOfSort(ats) = {} THEN Len(ats) ELSE Min(OutOfSort(ats))

FileTable(file) ==
  LET n == SortedCount(file.ats)
  IN  [ats |-> SubSeq(file.ats, 1, n), types |-> SubSeq(file.types, 1, n),
       ttis |-> file.ttis, goback |-> FALSE, goahead |-> FALSE]

----------------------------------------------------------------------------
(* Does the table repeat? *)

\* All the fields of a type are compared.
typesequiv(z, i, j) == z.ttis[z.types[i]] = z.ttis[z.types[j]]

differ_by_repeat(t1, t0) == t1 - t0 = SECSPERREPEAT

Flagged(z) ==
  LET n == timecnt(z)
  IN  [z EXCEPT
        !.goback  = \E i \in 2..n : /\ typesequiv(z, i, 1)
                                    /\ differ_by_repeat(z.ats[i], z.ats[1]),
        !.goahead = \E i \in 1..(n - 1) : /\ typesequiv(z, n, i)
                                          /\ differ_by_repeat(z.ats[n], z.ats[i])]

\* tzload(TZDEFRULES, NULL, sp, FALSE)
DefRules == IF Readable(posixrules) THEN Flagged(FileTable(posixrules)) ELSE Failed

----------------------------------------------------------------------------
(* tzparse *)

\* The start of a year, counted from EPOCH_YEAR.
janfirst[y \in Nat] ==
  IF y = 0 THEN 0
  ELSE janfirst[y - 1] + year_lengths[((y - 1) % YEARSPERREPEAT) + 1]

\* A cycle is as long as its years.
ASSUME WholeCycle == janfirst[YEARSPERREPEAT] = SECSPERREPEAT

transtime(y, rule, offset) ==
  janfirst[y] + rule[(y % YEARSPERREPEAT) + 1] + offset

\* tt_ttisstd and tt_ttisgmt "need not be handled": they keep what the table of
\* posixrules, or the stack, left there.
ParsedType(k, gmtoff, isdst, abbr) ==
  LET old == IF DefRules # Failed /\ k <= Len(DefRules.ttis)
             THEN DefRules.ttis[k]
             ELSE [tt_ttisstd |-> stack, tt_ttisgmt |-> stack]
  IN  [tt_gmtoff |-> gmtoff, tt_isdst |-> isdst, tt_abbr |-> abbr,
       tt_ttisstd |-> old.tt_ttisstd, tt_ttisgmt |-> old.tt_ttisgmt]

\* goback and goahead are those of the load of posixrules.
ParsedTable(ats, types, ttis) ==
  [ats |-> ats, types |-> types, ttis |-> ttis,
   goback  |-> DefRules # Failed /\ DefRules.goback,
   goahead |-> DefRules # Failed /\ DefRules.goahead]

\* Two transitions a year from EPOCH_YEAR on, in order within the year.
RuleTable(spec, rule) ==
  LET start(y) == transtime(y, rule.start, spec.stdoffset)
      end(y)   == transtime(y, rule.end, spec.dstoffset)
      year(i)  == (i - 1) \div 2
      first(i) == i % 2 = 1
      isStart(i) == first(i) # (start(year(i)) > end(year(i)))
      count == 2 * (TZ_MAX_TIMES \div 2)
  IN  ParsedTable(
        [i \in 1..count |-> IF isStart(i) THEN start(year(i)) ELSE end(year(i))],
        [i \in 1..count |-> IF isStart(i) THEN 1 ELSE 2],
        <<ParsedType(1, -spec.dstoffset, TRUE, spec.dstname),
          ParsedType(2, -spec.stdoffset, FALSE, spec.stdname)>>)

\* theirstdoffset when transition i is adjusted: that of the latest change to
\* standard time before it, of the first one at all, or 0.
theirstdoffset(z, i) ==
  LET standard == {k \in 1..timecnt(z) : ~ TypeOf(z, k).tt_isdst}
      before == {k \in standard : k < i}
  IN  IF standard = {} THEN 0
      ELSE -TypeOf(z, IF before = {} THEN Min(standard) ELSE Max(before)).tt_gmtoff

\* By how much transition i is adjusted.
Shift(spec, z, i) ==
  IF TypeOf(z, i).tt_ttisgmt THEN 0 ELSE spec.stdoffset - theirstdoffset(z, i)

\* "juggle transition times and types": isdst stays FALSE throughout the loop,
\* so that only the standard offsets are ever exchanged.
AdjustedTable(spec, z) ==
  ParsedTable(
    [i \in 1..timecnt(z) |-> z.ats[i] + Shift(spec, z, i)],
    [i \in 1..timecnt(z) |-> IF TypeOf(z, i).tt_isdst THEN 2 ELSE 1],
    <<ParsedType(1, -spec.stdoffset, FALSE, spec.stdname),
      ParsedType(2, -spec.dstoffset, TRUE, spec.dstname)>>)

StandardTable(spec) ==
  ParsedTable(<<>>, <<>>, <<ParsedType(1, -spec.stdoffset, FALSE, spec.stdname)>>)

\* The rule the zone is made by; none when posixrules is adjusted.
RuleOf(spec) ==
  IF spec.rule = NoRule /\ DefRules = Failed THEN TZDEFRULESTRING ELSE spec.rule

tzparse(spec) ==
  IF spec = Malformed THEN Failed
  ELSE IF spec.dstoffset = NoDst THEN StandardTable(spec)
  ELSE IF RuleOf(spec) # NoRule THEN RuleTable(spec, RuleOf(spec))
  ELSE AdjustedTable(spec, DefRules)

----------------------------------------------------------------------------
(* The last line of a file *)

\* sp->ats[sp->timecnt - 1]; with no transition this reads the two flags that
\* lie before the array, both FALSE by then.
LastAt(z) == IF timecnt(z) = 0 THEN 0 ELSE z.ats[timecnt(z)]

\* Mutant: the types appended are not renumbered.
AppendedAsNumbered(z, ts) ==
  LET later == {i \in 1..timecnt(ts) : ts.ats[i] > LastAt(z)}
      skipped == IF later = {} THEN timecnt(ts) ELSE Min(later) - 1
      room == Min({timecnt(ts) - skipped, TZ_MAX_TIMES - timecnt(z)})
  IN  [z EXCEPT !.ats   = @ \o SubSeq(ts.ats, skipped + 1, skipped + room),
                !.types = @ \o SubSeq(ts.types, skipped + 1, skipped + room),
                !.ttis  = @ \o ts.ttis]

\* Mutant: the first transition appended is written over the last one.
AppendedOverLast(z, ts) ==
  LET later == {i \in 1..timecnt(ts) : ts.ats[i] > LastAt(z)}
      skipped == IF later = {} THEN timecnt(ts) ELSE Min(later) - 1
      own  == IF timecnt(z) = 0 THEN 0 ELSE timecnt(z) - 1
      room == Min({timecnt(ts) - skipped, TZ_MAX_TIMES - own})
  IN  [z EXCEPT !.ats   = SubSeq(@, 1, own) \o SubSeq(ts.ats, skipped + 1, skipped + room),
                !.types = SubSeq(@, 1, own) \o
                            [i \in 1..room |-> Len(z.ttis) + ts.types[skipped + i]],
                !.ttis  = @ \o ts.ttis]

\* The transitions of ts after the last of z, as far as there is room.
Appended(z, ts) ==
  LET later == {i \in 1..timecnt(ts) : ts.ats[i] > LastAt(z)}
      skipped == IF later = {} THEN timecnt(ts) ELSE Min(later) - 1
      room == Min({timecnt(ts) - skipped, TZ_MAX_TIMES - timecnt(z)})
  IN  [z EXCEPT !.ats   = @ \o SubSeq(ts.ats, skipped + 1, skipped + room),
                !.types = @ \o [i \in 1..room |-> Len(z.ttis) + ts.types[skipped + i]],
                !.ttis  = @ \o ts.ttis]

\* Mutant: room for the two types is not looked for.
ExtendedAlways(z, footer) ==
  IF footer # NoFooter
  THEN LET ts == tzparse(footer)
       IN  IF ts # Failed /\ Len(ts.ttis) = 2 THEN Appended(z, ts) ELSE z
  ELSE z

Extended(z, footer) ==
  IF footer # NoFooter /\ Len(z.ttis) + 2 <= TZ_MAX_TYPES
  THEN LET ts == tzparse(footer)
       IN  IF ts # Failed /\ Len(ts.ttis) = 2 THEN Appended(z, ts) ELSE z
  ELSE z

----------------------------------------------------------------------------
Init ==
  /\ posixrules \in Rules \cup {Unreadable}
  /\ stack \in BOOLEAN
  /\ source \in [file : Files \cup {Unreadable}] \cup [spec : Specs]
  /\ pc = "start"
  /\ sp = Failed

IsFile == "file" \in DOMAIN source

Step(from, to, table) ==
  /\ pc = from /\ pc' = to
  /\ sp' = table
  /\ UNCHANGED <<posixrules, stack, source>>

ReadFile ==
  /\ IsFile
  /\ IF Readable(source.file)
     THEN Step("start", "extend", FileTable(source.file))
     ELSE Step("start", "done", Failed)

Extend == Step("extend", "flags", Extended(sp, source.file.footer))

SetFlags == Step("flags", "done", Flagged(sp))

\* pg_tzset turns to tzparse for a name that is no file.
Parse == ~ IsFile /\ Step("start", "done", tzparse(source.spec))

Next == ReadFile \/ Extend \/ SetFlags \/ Parse

Spec == Init /\ [][Next]_vars

----------------------------------------------------------------------------
\* The table as ZoneTable sees it.
Table(z) ==
  [z EXCEPT !.ttis = [k \in 1..Len(z.ttis) |->
                        [tt_gmtoff |-> z.ttis[k].tt_gmtoff,
                         tt_isdst |-> z.ttis[k].tt_isdst]]]

TypeOK ==
  /\ pc \in {"start", "extend", "flags", "done"}
  /\ pc \in {"extend", "flags"} => sp # Failed
  /\ sp # Failed =>
       /\ Table(sp) \in State
       /\ Len(sp.types) = timecnt(sp)
       /\ timecnt(sp) <= TZ_MAX_TIMES /\ Len(sp.ttis) \in 1..TZ_MAX_TYPES

IsLoaded == pc = "done" /\ sp # Failed

\* Neighbours in a file that zic does not write and tzload lets pass: equal
\* ones, and the last two, which it never compares.
Unordered(file) ==
  LET n == Len(file.ats)
  IN  \/ \E i \in 1..(n - 1) : file.ats[i] = file.ats[i + 1]
      \/ n > 1 /\ file.ats[n - 1] > file.ats[n]

\* The table is made of the transitions of posixrules.
Adjusts(spec) ==
  /\ spec # Malformed /\ spec.dstoffset # NoDst /\ RuleOf(spec) = NoRule

\* Transitions of posixrules are in no order, or lose it when they are adjusted.
ChangesPlaces(spec) ==
  \E i \in 1..(timecnt(DefRules) - 1) :
     DefRules.ats[i] + Shift(spec, DefRules, i)
       >= DefRules.ats[i + 1] + Shift(spec, DefRules, i + 1)

\* Two changes a year, at different times, and those of one year before those
\* of the next.
InTurn(spec, rule) ==
  \A k \in 1..YEARSPERREPEAT :
    /\ rule.start[k] + spec.stdoffset # rule.end[k] + spec.dstoffset
    /\ \A a \in changes(spec, rule, k), b \in changes(spec, rule, NextYear(k)) :
         a < year_lengths[k] + b

\* A specification whose transitions the parser does not bring into order.
Disorderly(spec) ==
  \/ Adjusts(spec) /\ ChangesPlaces(spec)
  \/ /\ spec # Malformed /\ spec.dstoffset # NoDst
     /\ RuleOf(spec) # NoRule /\ ~ InTurn(spec, RuleOf(spec))

\* It has no transition, and what posixrules says of its own holds no longer.
FlagsWithoutTable(spec) ==
  /\ spec # Malformed /\ spec.dstoffset = NoDst /\ DefRules # Failed
  /\ DefRules.goback \/ DefRules.goahead

\* posixrules changes its standard offset, and the adjustment with it.
UnevenRules ==
  \E i, j \in 1..timecnt(DefRules) :
     ~ TypeOf(DefRules, i).tt_isdst /\ ~ TypeOf(DefRules, j).tt_isdst
       /\ TypeOf(DefRules, i).tt_gmtoff # TypeOf(DefRules, j).tt_gmtoff

\* The transitions are to be in order.
Orderly ==
  IF IsFile THEN /\ ~ Unordered(source.file)
                 /\ source.file.footer # NoFooter => ~ Disorderly(source.file.footer)
            ELSE ~ Disorderly(source.spec)

(***************************************************************************)
(* Every table that is handed out is one the lookups can rely on: indices   *)
(* in range, transitions in order, and goback and goahead raised only where *)
(* a cycle further on the table repeats (tzload.c:63-236, tzparse.c).       *)
(* The exceptions are the files and specifications named above, which the   *)
(* code does not catch; a specification takes its flags from posixrules.    *)
(***************************************************************************)
Usable ==
  IsLoaded /\ Orderly =>
    \/ Loaded(Table(sp))
    \/ ~ IsFile /\ FlagsWithoutTable(source.spec)
    \/ ~ IsFile /\ Adjusts(source.spec) /\ UnevenRules

(***************************************************************************)
(* Appending the rule's transitions changes nothing about the times the     *)
(* file's own transitions cover (tzload.c:180-217).                         *)
(***************************************************************************)
FileKept ==
  IsLoaded /\ IsFile /\ Orderly =>
    LET file == FileTable(source.file)
        n == timecnt(file)
    IN  n > 0 =>
          \A t \in file.ats[1]..file.ats[n] :
             TypeAt(sp, t) = TypeInTable(file, t)

\* The rule a zone follows in the end, and after how many transitions.
LastRule ==
  LET spec == IF IsFile THEN source.file.footer ELSE source.spec
  IN  IF spec \in {NoFooter, Malformed} THEN NoRule
      ELSE IF spec.dstoffset = NoDst THEN NoRule ELSE RuleOf(spec)

OwnTransitions == IF IsFile THEN timecnt(FileTable(source.file)) ELSE 0
RuleTransitions == timecnt(sp) - OwnTransitions

\* What the rule itself says of an instant t, after it has first taken effect.
IsDstByRule(spec, rule, t) ==
  LET cycle  == t \div SECSPERREPEAT
      years  == {y \in (cycle * YEARSPERREPEAT - 2)..((cycle + 1) * YEARSPERREPEAT) : y >= 0}
      begins == {transtime(y, rule.start, spec.stdoffset) : y \in years}
      ends   == {transtime(y, rule.end, spec.dstoffset) : y \in years}
      latest == Max({b \in begins \cup ends : b <= t})
  IN  latest \in begins

(***************************************************************************)
(* From its first transition on, the rule of a specification, or of a       *)
(* file's last line, is followed: as far as the table reaches, and for ever *)
(* once there was room for a whole cycle of it (localsub's extrapolation,   *)
(* tzload.c:198-236, tzparse.c:109-156).                                    *)
(***************************************************************************)
FollowsRule ==
  IsLoaded /\ Orderly /\ LastRule # NoRule /\ RuleTransitions > 0 =>
    LET spec == IF IsFile THEN source.file.footer ELSE source.spec
        from == sp.ats[OwnTransitions + 1]
        forever == IsFile /\ RuleTransitions > 2 * YEARSPERREPEAT
    IN  \A t \in Instants : from <= t /\ (t < sp.ats[timecnt(sp)] \/ forever) =>
          LET type == TypeAt(sp, t)
              isdst == IsDstByRule(spec, LastRule, t)
          IN  /\ type.tt_isdst = isdst
              /\ type.tt_gmtoff = -(IF isdst THEN spec.dstoffset ELSE spec.stdoffset)

(***************************************************************************)
(* "Out-of-sort ats should mean we're running on a signed time_t system but *)
(* using a data file with unsigned values": they are cut off ("Ignore the   *)
(* end", tzload.c:133-146), so that what was read is in order.              *)
(***************************************************************************)
ReadInOrder ==
  IsFile /\ pc = "extend" =>
    \A i \in 1..(timecnt(sp) - 1) : sp.ats[i] <= sp.ats[i + 1]

(***************************************************************************)
(* "If summer time is in effect, and the transition time was not specified  *)
(* as standard time, add the summer time offset to the transition time"     *)
(* (tzparse.c:214-220): a change from summer time that posixrules gives by  *)
(* the wall clock happens at the same reading in the zone made from it.     *)
(***************************************************************************)
WallClockKept ==
  IsLoaded /\ ~ IsFile /\ Adjusts(source.spec) =>
    \A i \in 2..timecnt(sp) :
       LET theirs == TypeOf(DefRules, i - 1)
           type   == TypeOf(DefRules, i)
       IN  theirs.tt_isdst /\ ~ type.tt_ttisstd /\ ~ type.tt_ttisgmt =>
             sp.ats[i] - source.spec.dstoffset = DefRules.ats[i] + theirs.tt_gmtoff

=============================================================================
