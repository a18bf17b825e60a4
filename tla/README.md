# datizo in TLA+

datizo is the date and time code of PostgreSQL 9.2, cut out of the server and made
into a C library (`lib/`) with a Perl module (`perl/Datizo`), a small command
(`bin`) and tests (`tap`, `perl/Datizo/t`).  Every `ereport(ERROR, ...)` of the
server became a `warnx(...)`, so that the program goes on after an error.  This
directory holds TLA+ modules translated from that code, configurations that check
them with TLC, and proofs checked with TLAPS.

The library is single-threaded.  What is hard about it is not interleaving but
arithmetic at boundaries (changes of offset, full tables, wrapping ints), state
that outlives a call (zone cache, session zone, token caches), files it does not
control, and going on after errors.

## Inventory

| component | state | operations | what makes it correct | modelled in |
|---|---|---|---|---|
| zone table lookups (`localsub.c`, `pg_next_dst_boundary.c`) | none: a `struct state` is read | type in force at an instant, next change of type | searches stay in the table, end, and find the right segment; extrapolation by Gregorian cycles repeats the table | ZoneTable, ZoneSearch, ZoneLookup |
| local time conversion (`DetermineTimeZoneOffset.c`, `timestamptz_*.c`, `timestamp2tm.c`, `tm2timestamp.c`) | the session zone, the client's timestamp | enter, show, add and subtract an interval | a local time that occurs is stored as an instant that shows it; standard time is preferred; days keep the clock | LocalTime |
| interval arithmetic (`interval_justify_*.c`, `interval2tm.c`, `tm2interval.c`) | the client's interval | make, justify three ways, show | bounds and signs as documented, no time lost, one customary form, output reads back | Interval |
| zone loading (`tzload.c`, `tzparse.c` and what they call) | the table being built | read a file, append the rule of its last line, flag it; parse a POSIX specification | transitions in order, flags truthful, file times kept, rule followed | TzLoad |
| zone cache (`pg_tzset.c`, `pg_timezone_initialize.c`, `Datizo.xs`) | `timezone_cache`, `session_timezone`, `log_timezone` | boot, `timezone(name)`, a zone name in a date | one zone per name for ever, log in GMT, pointers stay good | TzCache |
| abbreviation files (`ParseTzFile.c`, `addToArray.c`, ...) | the sorted array | parse with includes and overrides, convert, install | sorted, one entry per abbreviation, conflict is an error, every load ends | TzAbbrev, DateTokens |
| token caches (`DecodeSpecial.c`, `DecodeUnits.c`, `datebsearch.c`) | `datecache`, `deltacache`, `timezonetktbl` | look a token up, install a table | no pointer into an old table is followed | DateTokens |
| date and time input (`ParseDateTime.c`, `DecodeDateTime.c`, `DecodeTimeOnly.c`, `ValidateDate.c`, ...) | masks, prefix and flags of one call | split into fields, decode each, check the whole | each part set once and noted, no number lost, order of the fields free where it can be, both decoders agree | TextFields, FieldDecoding, DateInput, TimeInput, TextInput |
| interval input (`DecodeInterval.c`, `DecodeISO8601Interval.c`) | as above | decode from the last field to the first; ISO 8601 forms on a second try | the sum of what the numbers say, with units, signs and fractions | IntervalInput, IsoInterval, SpanMeaning, TextInput |
| calendar (`date2j.c`, `j2date.c`, `timesub.c`, months of `timestamptz_pl_interval.c`) | none | day number and date both ways, the year by guesses, months added | inverse, consecutive, and the two conversions agree | Calendar, TimeSub |
| hash table (`dynahash.c`) | geometry, chains, free list, registered scans | find, enter, remove, expand, scan, freeze | entries are in their bucket, stay where they are, and are returned once | HashTable, HashMap |
| output formatting, other types, clock, settings, text and path helpers, `bitmapset.c` | none that matters | | | not modelled; `PROJECT.json` says why for each |

How they interact: the Perl module's boot section asks the cache for GMT and for
the zone `/etc/localtime` names; the cache calls the loader; input decodes a
string, asks for named zones through the cache and turns the local time into an
instant with the lookups in the session zone's table; output and the addition of
days go the other way first.  The modules meet in the zone table: `Loaded` in
ZoneTable is what TzLoad shows about the tables it makes (invariant `Usable`) and
what the lookups and LocalTime assume.

The hazards, each at its line and with the properties that are about it, are
listed in `PROJECT.json`.  Not listed there, because the code promises nothing that
a property could state: what follows an error that is only warned about (an
unassigned text at `timestamptz_out.c:26`, an unassigned pointer for an unknown unit
at `Datizo.xs:70`, the zone lost to an unknown name at `Datizo.xs:125`, a null entry
linked at `dynahash.c:1000`, the 101st scan at `dynahash.c:1528`, date fields nobody
set at `DecodeTimeOnly.c:580`), the cache that is never emptied
(`pg_tzset.c:86`), weeks and centuries multiplied without a check
(`DecodeInterval.c:231`), and the fraction that a time to its left overwrites
(`DecodeInterval.c:44`).

Text goes the way `ParseDateTime` (fields), then `DecodeDateTime` (`date_in`,
`timestamp_in`, `timestamptz_in`), `DecodeTimeOnly` (`time_in`, `timetz_in`) or
`DecodeInterval` (`interval_in`, with `DecodeISO8601Interval` as the second try); a
timestamp is then stored as a day number and the time of day.  The zone cache keeps
its entries in a hash table and hands out pointers into it.

## Modules

**ZoneTable** is `struct state` as a record, and the two lookups as functions: what
they find, not how.  `TypeAt` and `localsub` are `localsub.c`,
`pg_next_dst_boundary` is the file of that name, `CycleShift` the extrapolation
both share, `Loaded` what tzload leaves, `Spaced` the assumption of
`DetermineTimeZoneOffset.c:59`.

**ZoneSearch** is how they find it: the scan for the default type and the binary
search, one action per turn of a loop, with the indices of the code.
**ZoneLookup** is the abstract promise: one right answer, in the end.  ZoneSearch
implements it (`AnswersLookup`, an INSTANCE without substitutions, as the
variables of the promise are among those of the search).

**LocalTime** is a client's timestamp under a session zone.  A `struct tm` is the
count of local seconds it stands for, with `tm_isdst` and the offset;
`timestamptz_in`, `timestamptz_out`, `timestamptz_pl_interval` and
`timestamptz_mi_interval` are actions.  After an error of `timestamp2tm` the code
goes on with a `struct tm` it never filled in, which is any local time here.

**Interval** is a client's interval with the width of int.  `call`, `entered` and
`overflowed` are history variables.

**TzLoad** is one load, of a file or of a POSIX specification, in the steps of
`tzload`: `ReadFile`, `Extend`, `SetFlags`; `Parse` is `tzparse`.  The files and
specifications are constants; `posixrules`, the file `tzparse` loads on its way,
is chosen in the initial state.  A rule is the second of the year at which it takes
effect, year by year in a cycle.

**TzAbbrev** is `load_tzoffsets`: the calls of `ParseTzFile` are a stack of frames,
each with its file, line and `override`; each line of a file is one action, and
the binary search of `addToArray` one action per turn.  The files are constants.
`Reading` states what a set of files says, by recursion over the files and
without the array; `LastWordWins` compares the two.

**DateTokens** adds the tables of words and the caches of `DecodeSpecial` and
`DecodeUnits`, and the installation of a loaded table.  A pointer into a table is
the entry it points to, as a table never changes and is never freed.  An offset
goes through its one byte (`TOVAL`, `FROMVAL`).  `installed` is a history variable.

**TzCache** is `pg_tzset` with its callers in the Perl module, and somebody who
replaces the zone files.  A `pg_tz` pointer is the key of its entry.

**Calendar** is pure: dates as records, `date2j`, `j2date` and the addition of months.
**TimeSub** adds `timesub`; its loops over years are recursive functions, with the
body of a loop an operator of its own (`Leap`, `NextYear`), the loop over months takes
the first month it would stop at, and those over whole days are a division.

A text is a sequence of lexemes: a run of letters (a word), a run of digits with its
length and value, a mark or a space.  That is what the functions tell apart: digits
are only counted and valued, words only looked up.  **TextFields** is `ParseDateTime`,
which groups lexemes into fields with a type; **FieldDecoding** has the operators
both decoders share (`DecodeDate` with the words it cuts, `DecodeTime`, `DecodeNumber`, `DecodeNumberField`,
`DecodeTimezone`, `ValidateDate`), over a record of the decoder's locals: the
`struct tm`, `fmask`, `ptype`, `bc`, `mer` and so on.  A part of the `struct tm`
nobody has set is `Unset`.  **DateInput** and **TimeInput** are the branches of the
loops of `DecodeDateTime` and `DecodeTimeOnly`, one operator per kind of field;
**IntervalInput** and **IsoInterval** those of the two interval readers.
**SpanMeaning** says what the text of an interval means, number by number from the
left, without any of the decoders' carrying.  **TextInput** puts them together: a
call is a process whose actions are the rounds of the loops, the checks at the end,
the second try of `interval_in`, `tm2timestamp` and the addition of months; a text
that is refused ends it.

**HashTable** is one private table of `dynahash.c`.  An element is its number in the
order of allocation, so that the same number is the same address; a bucket's chain
and the free list are sequences; any allocation may fail.  `registered` counts the
table in `seq_scan_tables`.  `visit` is a history variable, what each scan has
returned and has still to return.  **HashMap** is the promise: a finite map from keys
to elements that never move, and scans that return each entry that stays once; what
the comments leave undefined makes a scan unsure.  HashTable implements it by
`INSTANCE HashMap WITH entries <- ...`, the map of each key present to the element
`hash_search` finds for it.  TzCache takes the table for such a map.

Each of the modules `MCx` gives the constants of x small values.

## Runs

| run | what it asks | instance | why it is enough |
|---|---|---|---|
| `zone_search` | brackets, indices, termination, right answers | up to 3 types, 0 to 8 transitions, every instant before, at, between and after | each shape of the search, three deep, and each outcome of the scan |
| `local_time` | conversion and addition | days of 2 s, cycles of 8 s, up to 3 transitions, all offsets shorter than a day, all pairs of types, flags as tzload sets them | transitions at the least distance the code assumes and above; tables that repeat forwards, backwards, both ways and neither; times on both sides of Julian day 0 |
| `local_time_boundary` | does a local time that occurs once become its instant? No | as above | |
| `interval` | the justifications in any order | 5-bit ints, months of 3 days, days of 4 us | every field wraps and every combination of signs occurs |
| `tz_load` | are the tables usable, are files kept and rules followed? | cycles of two unequal years, room for 8 transitions and 4 types; files in order and out of it, readable and not | tables that are extended by more than a cycle, by less, and not at all |
| `tz_load_order` | are transitions out of order cut off? Not the last | as above | |
| `tz_load_clock` | does a zone made from posixrules keep its clock times? No | as above | |
| `date_tokens` | do loads end, with the last word on each abbreviation, and do lookups never answer from an older table? | 17 files with 3 abbreviations: includes three and four deep and in a cycle, overrides before, after and inside an include, conflicts, repeated entries, bad offsets, bad lines; an array that starts with room for 1; two fields; words that are an abbreviation, a day and a unit at once | every kind of line and every outcome of `addToArray`, with growth; four different tables installed in any order between lookups |
| `tz_cache` | one zone per name, pointers, log zone | a zone in two spellings and with a colon, GMT in two spellings and as a file, a POSIX name, a name too long; each file missing, old or new | every kind of name pg_tzset tells apart, before and after its file changed |
| `text_input` | what is accepted: are its parts noted, its numbers kept, its meaning free of the order and the same to both decoders; what does an interval come to; does a timestamp come back? | every word that means something to the readers in all pairs, 22 of them in all triples, sixteen longer texts in all orders of their words, fourteen with letters and digits side by side or a point with nothing behind it beside each of the 22, under three orders of dates; intervals of all pairs of five numbers with eleven units, times and years-months, with `ago`; ISO forms; 532,000 states | each branch of the decoders is taken in each context of one other field, the branches that depend on what came before in two; no number occurs twice in the pairs and triples, so that each can be found again |
| `hash_table` | are elements in their buckets, is none lost, and does the table behave as a map with stable elements and sound scans? | 3 keys whose hashes part under the first mask and under the second, 3 elements in chunks of 2, 2 scans, segments of 2 buckets; a growing table, one of fixed size, one with a fixed directory | two expansions, one over a power of two with a new segment and a longer directory; each allocation succeeds and fails; scans overlap with every operation |
| `tz_cache_boot` | does the session always have a zone after boot? No | as above | |

`interval`, `tz_load`, `text_input` and `hash_table` stop by nature (an interval may be
lost, a load or a call ends, memory runs out), so deadlock is not checked there.

The model of the text readers was compared with the compiled library: the 14,000 texts
of `text_input`, read by both decoders under three orders of dates, have the same outcome
in both, error by error and part by part, and so have 12,000 random texts but for what
Bounds leaves out.  Its properties were also tried on some 100,000
texts of up to seven random words and numbers.  That showed OrderFree and EntriesAgree
to be stated too widely (years before 32, and `dst` with `allballs`, see Bounds), and
each gave the run a text for the corrected statement.

### Disagreements between the code and its comments

* `DetermineTimeZoneOffset.c:102`: the candidate equal to the boundary counts as
  neither before nor after it.  When the type changes to daylight time without the
  clock going forward, the last reading before the change occurs once, and is
  stored as another instant.
* `tzload.c:137`: the loop that looks for transitions out of order never compares
  the last pair.
* `tzparse.c:226`: nothing sets `isdst`, so the branch for "summer time is in
  effect" is dead.
* `Datizo.xs:50`: an `/etc/localtime` that names no loadable zone leaves the
  session without any.

One more has no run of its own.  `DecodeDate.c:57` says "Just get rid of any non-digit,
non-alpha characters...", but the character behind each word of a date is overwritten
whatever it is: `18-jan1999`, one field to `ParseDateTime.c:121`, is accepted as the year
999, and `1999-jan18` as day 8.  `DateWords` says what is lost, and NumbersKept asks of
digits right behind letters only that the rest of them is kept.

## Fairness

ZoneSearch has weak fairness of its next step and TzAbbrev of `LoadStep` (but not of
the call of a load), as a C function that was called runs to its end; DateTokens has the same for the load in it.  Nothing in the
library waits for anything else.

## Proofs

The theorems hold for every value of the constants that satisfies the modules'
assumptions.  A few lemmas (least members, the segments of a table, whole cycles) stand
in more than one module, as their variables keep the modules apart.

* **LocalTimeProofs**, about tables: each instant lies in exactly one segment of a loaded table;
  moving an instant by whole cycles lands in the table (`LookupSucceeds`: the
  branch "cannot happen" does not); `pg_next_dst_boundary` is truthful up to and
  at the boundary it names (`NextBoundaryTruthful`), through the extrapolation,
  for tables that satisfy `Spaced`.
* **ZoneSearchProofs**: the inductive invariant adds to `Bracketed` that the scan
  has passed only daylight types and that an answer given is the right one.
  `SearchTyped` and `SearchBracketed` are the safety of the indices; `SearchAnswers` the refinement
  of ZoneLookup without its fairness.
* **LocalTimeProofs**, about conversion: an offset chosen for a local time is compared with every
  instant of the window of a day around it; `NextBoundaryTruthful` says that at most
  one boundary matters there.  The invariant records that the stored timestamp and
  offset are the chosen ones; `EnteredTimeOccurs`, `StandardPreferred` and
  `DaysKeepClock` follow.  `ExtrapolationRepeats` needs that one cycle more of
  distance is one more cycle of shift (`CyclesNext`), and, where the instant is just
  inside, that the repeated transition has the type of the one it repeats.
* **TzLoadProofs**: a table is made of a part of a file (`FileTable`), of a rule
  (`RuleTable`), of the transitions of posixrules moved (`AdjustedTable`), of none
  (`StandardTable`), or of a file with some of a rule's behind (`Appended`).  The
  invariant (`Invariance`) says at each step which of these the table is; each is
  `Proper`, which is `TypeOK`.
  * `UsableHolds`: cut at the first pair out of sort, a file is in order up to the last
    pair, which `Unordered` names; a rule's changes are in order as those of a year
    are before those of the next (`InTurn`), and what is appended is later than the
    file's last (`AppendedParts`).  Flags are true of any table just flagged
    (`FlaggedParts`); those a specification takes over from posixrules stay true as
    all transitions are moved alike, unless posixrules is uneven.
  * `FileKeptHolds`: a table that continues a file lies in the same segment of it at
    each instant up to the file's last transition (`ContinuedReading`).
  * `FollowsRuleHolds`: the changes of a rule are one row, two a year (`Change`), which
    ascends and repeats with the cycle.  The transitions appended are a part of that
    row without gaps (`RuleInTable`), so that within the table the latest change is the
    transition in force; beyond it, more than a cycle of them raises `goahead`
    (`RuleAhead`), `localsub` moves the instant by whole cycles, and the rule says there
    what it says here.  That no change is more than a year away from its year
    (`RuleAssumption`, as `getsecs.c` ends a time of day at a week) puts the latest
    change into the years looked at (`ChangeNearYear`).

  The starts of the years are summed by a recursive function; that there is one
  function with its equations, which the prover cannot take from the library, is
  proved by building its partial sums up to any year (`SumsExist`), with the least
  natural number at which they would fail.
* **IntervalProofs**: division towards zero is unique; each
  settling step keeps the total and the bounds; two intervals in customary form with
  the same total are equal.  The invariant is the conjunction of the properties with
  what is known of `tm`.
* **TzCacheProofs**: the invariant says that every answer on record is still in the
  cache under its key, and that the cache has GMT as boot made it.
* **DateTokensProofs**
  * TzAbbrev: `InsertAtProperties` says what an insertion does position by
    position; with the brackets of the search it keeps the array sorted.  That the
    recursion stays within `MAX_DEPTH` needs that a frame is only added below it.
  * `LastWordWinsHolds`: the calls in progress split the text of the files (`Context`):
    before each call stands what was read until then, and behind its file the rest.
    The invariant (`TextInv`) is that the array holds what the text read so far comes
    to.  `GoodLine` says what one more line does to the meaning of a text, `BadLine`
    that no line to come can make good a wrong one, so that a load may fail at once;
    that the array has each abbreviation once makes the entry found the last word.
    `Reading` and the concatenation of a file's lines are recursive functions: that
    they have their equations (`ReadingIs`, `JoinExists`) is proved by building them
    step by step up to the least number at which they would fail, and what holds of
    all their values (`ReadingType`) in the same way.
  * `AnswersByFileHolds`: `SearchFinds` says what the binary search finds in a table in
    order, by its recursive function; `OffsetKept` that the offsets that
    `validateTzEntry` admits survive in a byte.  The invariant (`TokensInv`) adds that
    an entry kept is one of the table installed, or a static word which that table does
    not have.  It rests on the table being the last word of its files, and so on
    `LoadsAsBefore`: DateTokens implements TzAbbrev.  Of the static tables it assumes
    what their comment says (`TokenAssumption`): they are in order and hold no TZ or DTZ.

* **HashTableProofs**: the inductive invariant `HashTableInv` has three parts.
  * `StoreInv` says where the elements are: the masks enclose the buckets and the
    directory has their segments (`ShapeInv`); every chain and the free list is a
    list without repetition whose elements hold keys of the chain's bucket
    (`Chained`); the lists share no element, together hold those allocated so far, and
    the keys held are those of the elements in chains, each once.  `Placed` does not
    follow from itself: a removal needs that no element is in two chains, an
    insertion that a free element is in none.  A split rests on `OneBucketSplits`
    (with one bucket more, a key stays or moves from the one bucket whose number
    `expand_table` masks out) and on what `Kept` leaves of a chain.  Of `my_log2`
    only that it rounds up is used (`RoundsUp`), as powers are beyond the provers.
  * `GuardedInv` adds to `Guarded` that until the table is frozen every open scan is
    registered; it goes by the cardinality of the set of open registered scans.
  * `ScanInv` relates each scan whose rules were kept to the chains: the keys it still
    owes are held by elements from its place on, and none it returned is.

  With it every step of HashTable is shown to be a step of HashMap or a stutter
  (`MapImplemented`): `OneBucketSplits` is why an expansion is a stutter, `Guarded` why
  none happens below a scan that counts on it.
* **TextInputProofs**, about the calendar: the day number is that of the years before
  (`Before`, years from March) and that of the days since 1 March (`Since`); with them
  `NextDayCounts` is a case distinction over the ends of months.  For the way back a
  year is written as cycles of 400, 100 and 4 years and a rest (`Cycles`), for which
  `j2date`'s divisions come out (`DayInCycle`); `DatesComeBack` and `NextDateShown`
  follow for every date from 4800 BC on, without bound above.  `MonthsCounted` and
  `MonthsGiveDate` are about the addition of months.  `TimesubShows`: each round of
  timesub's loops keeps the day (`DayOf`) and brings it closer to its year (`Closer`),
  so that the loops compute something (`LoopExists`) and end in the one year that has
  the day (`LoopFinds`, `OneYear`); the two counts of days agree (`YearStart`,
  `DateOfYearDay`).
* **TextInputProofs**, about the readers of text, for every text, table of words, date
  order and state of the clock:
  * `PartsAreKnown`: the invariant (`Dates`) says between two fields that a part of the
    date is set just when the mask notes it (`Known`).  It does not follow from itself
    field by field in `PartsKnown`'s words, as what is noted as month and day may be a
    day of the year, and as a sub-decoder sets parts before `DecodeDateTime` refuses
    them: what a sub-decoder finds (`Finds`) is asked only of parts the mask did not
    have.  The fields of a date are read number by number (`NumbersFind`).  That the
    parts handed to the decoder are fields at all is `FieldsCut`.
  * `DatesShownAsWritten`: at the end of DecodeDateTime the three parts of a date accepted
    are one of the calendar (`EndDecodes`), so that what is stored counts its days
    (`StoredAs`) and `TimesubShows` and `DatesComeBack` give it back; months added keep
    this (`MonthsMoved`).
  * `TypesHeld`: each operator reports one of the code's errors, or none (`Reported`); so
    for DecodeTimeOnly and the two readers of intervals as well.
  * `EntriesReadAlike`: the invariant (`Together`) runs DecodeTimeOnly over the same
    fields beside DecodeDateTime (`TimeRounds`, a recursive function whose equation is
    proved in `RoundsInTurn`) and says how their locals are related (`Paired`).  That
    they hold the same time and zone is not inductive: the one may read a date where
    the other reads a time (`Ahead`), or `m` may stand for minutes in the one and for
    the month in the other (`Short`).  Both are dead ends: a part given twice is
    refused, so that the one never gets, or the other always lacks, a whole time.
    After `now` the one has the zone noted and the other still takes the session's
    (`SaidNow`).  Each field has a lemma (`DatePaired`, `TimePaired`, `NumberPaired`,
    `WordPaired` ...), which tells what it took (`Took`) and leaves the rest to `PairKept`.
  It is assumed (`TextFieldsAssumption`, `DateInputAssumption`, `FieldDecodingAssumption`,
  `TextInputAssumption`) that the tables give months 1 to 12 and zones an offset's type,
  that the clock shows a month, a day and a time in their ranges, that a part nobody has
  set is no number, and that no text is empty.

Only model-checked, and why:

* the termination of the searches and of a load (liveness);
* what the readers of text make of a whole text: `OrderFree` compares a text with its
  permutations, whose runs pass through unrelated locals; `NumbersKept` and
  `IntervalMeans` its numbers with what several later fields have made of them.

## Bounds and omissions

Instants are unbounded integers in LocalTime and ZoneTable; `MCInstants` bounds the
timestamps reached by addition.  `HasCTZSet` is never set, so `CTimeZone` plays no
part.  Left out: the
infinite timestamps, letters beyond ASCII in abbreviations (`datebsearch` compares a
first letter as a plain char, while the array is sorted with strcmp), overflow of
int64, fractions of a second of timestamps (no decision of the modelled functions reads
them), leap seconds, and what follows input that does not parse, after which the code
reads variables it never set.

Of the readers of text: a fraction is a half or none; the buffer and the 25 fields
are not exhausted; texts whose numbers overflow an int are not given (`Lexemes` stops at nine digits,
`TooFar` names two texts that would); `tm_isdst` and the offset of a named zone, which LocalTime computes,
are left out, so that a zone is its name; "P" with nothing behind it is not given.
Left out too are the words of a date behind the 25th, where DecodeDate stops cutting, the
sign of a part within a zone (the code takes `+5:-0` and `8--0`, the model refuses them),
the exponent of a fraction (`.5e1`), and letters in front of the zone behind `t`
(`t abcdef-08`), which the code reads as a time of zeros and the model refuses.
`j2date` computes in unsigned int, which matters to no day between 4713 BC and the
last valid one.  OrderFree is about dates with the month by name, as only these are
promised to be free of order, and with a year after 31: `12 0005 feb` is the fifth of
February 2012 when years come first, as a number up to 31 may be a day's however many
digits it has.  EntriesAgree leaves out Julian days, whose label
`DecodeTimeOnly` ignores, and compares the zones only where no date begins with the
name of a month: DecodeTimeOnly may take it for a zone's name and only warn that there
is none; and where no `dst` stands, as `allballs` sets the zone in DecodeDateTime alone
(`DecodeTimeOnly.c:401` leaves `tz` as it was), so that a `dst` before or behind it moves
another zone.  NumbersKept leaves out what is taken for a zone, which DecodeDateTime does
with a date behind another one as well (`DecodeDateTime.c:177`; the word jan-8-1999 of
the run is such a date) and fractions of a second or of a day; of the digits right behind
the letters of a date it allows the first to be lost, as the code does.  IntervalMeans leaves out a fraction behind a time, which is
overwritten, and the leading sign of a standard interval over sums.

Of the hash table: memory for less than one chunk of elements (`MaxElems` is at least
`nelem_alloc`), so that `element_alloc` can succeed at least once; shared and partitioned tables, which nothing creates;
`hash_destroy`; subtransactions, which datizo does not have (`AtEOSubXact_HashTables`
warns and deregisters scans of a nesting level that is always 0); the 101st scan,
which is written past an array.

Not modelled at all, with the reasons in `PROJECT.json`: output formatting and the
helpers on strings (layout only), the types without a zone (one decode and one store
each, through the decoders modelled), the clock, the settings, the bit sets and the
older parser (not used), the command line and the tests.

## Plan

1. done: all components with state or with decisions that others depend on, and
   proofs for ZoneTable, ZoneSearch, LocalTime, Interval, TzLoad, TzCache, TzAbbrev,
   DateTokens, Calendar and HashTable with its refinement of HashMap.
2. done: TextInput as far as one run of a decoder goes, with TimeSub, and the two
   decoders against each other.
3. open: the order of the fields (`OrderFree`), and the meaning of intervals.
