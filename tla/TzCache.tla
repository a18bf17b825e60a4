------------------------------ MODULE TzCache ------------------------------
(***************************************************************************)
(* The cache of time zones behind pg_tzset, and the session's zone, as the  *)
(* Perl module uses them: its boot section, Datizo::TimestampTz::timezone   *)
(* and the zone names met while decoding a date.  The zone files may change *)
(* under the running program.                                               *)
(*                                                                          *)
(* A pg_tz pointer is the key of its cache entry: an entry is never moved.  *)
(* What tzload and tzparse make of a file and of a specification is the     *)
(* business of TzLoad; here it is enough to tell one outcome from another.  *)
(***************************************************************************)
CONSTANTS
  Names,         \* zone names as they are spelled
  upper,         \* pg_toupper of a whole name
  GMT,           \* the name "GMT"
  Files,         \* the zone files there may be, by upper-case name
  POSIXRULES,    \* the one with the default rules
  TooLong,       \* names longer than TZ_STRLEN_MAX
  Colon,         \* names that begin with a colon
  path,          \* the upper-case file name in a name, less the colon
  canonical,     \* the name of a file as the directory spells it
  Contents,      \* what a zone file may hold
  Unreadable,    \* no such file, or a damaged one
  Fixed, Ruled,  \* names that parse as a specification: complete by themselves,
                 \* and in want of the rules of posixrules
  NULL           \* no zone

Keys == {upper[n] : n \in Names}

ASSUME CacheAssumption ==
  /\ upper \in [Names -> Names] /\ \A n \in Names : upper[upper[n]] = upper[n]
  /\ Names \subseteq STRING /\ path \in [Names -> STRING]
  /\ canonical \in [Files -> STRING]
  /\ GMT \in Keys \ (TooLong \cup Colon) /\ POSIXRULES \in Files
  /\ TooLong \subseteq Names /\ Colon \subseteq Names
  /\ \A m, n \in Names : upper[m] = upper[n] => (m \in TooLong <=> n \in TooLong)
  /\ Unreadable \notin Contents /\ NULL \notin Names

VARIABLES
  files,             \* the zone files, by upper-case name
  cache,             \* timezone_cache: a function on the keys entered
  session_timezone, log_timezone,
  call,              \* the latest call into the library
  held               \* history: each name answered, with the zone it gave

vars == <<files, cache, session_timezone, log_timezone, call, held>>

----------------------------------------------------------------------------
\* tzload finds the file whatever the case of its name, and less the colon.
tzload(key) == IF path[key] \in Files THEN files[path[key]] ELSE Unreadable

\* tzparse, which loads posixrules on the way.
tzparse(key) ==
  [spec |-> key,
   rules |-> IF key \in Ruled THEN files[POSIXRULES] ELSE Unreadable]

Parses(key) == key \in Fixed \cup Ruled

Entry(name, state) == [TZname |-> name, state |-> state]

\* No such zone.
Unknown == [unknown |-> TRUE]

\* tzparse(uppername, &tzstate, TRUE): no file is looked at.
LastDitch == Entry(GMT, [spec |-> GMT, rules |-> Unreadable])

\* Mutant: GMT is a name like any other.
ReadWithoutGMT(key) ==
  IF tzload(key) # Unreadable THEN Entry(canonical[path[key]], tzload(key))
  ELSE IF key \in Colon \/ ~ Parses(key) THEN Unknown
  ELSE Entry(key, tzparse(key))

\* What pg_tzset makes of a name that is not in the cache.
Read(key) ==
  IF key = GMT THEN LastDitch
  ELSE IF tzload(key) # Unreadable THEN Entry(canonical[path[key]], tzload(key))
  ELSE IF key \in Colon \/ ~ Parses(key) THEN Unknown
  ELSE Entry(key, tzparse(key))

\* Mutant: names are not upcased before the search.
KeyAsSpelled(name) == name

KeyOf(name) == upper[name]

\* Mutant: a zone found in the cache is read again.
EnteredAgain(c, name) ==
  LET key == KeyOf(name)
  IN  IF name \in TooLong \/ Read(key) = Unknown THEN c
      ELSE [k \in DOMAIN c \cup {key} |-> IF k = key THEN Read(key) ELSE c[k]]

\* Mutant: a failure to read the zone is not noticed.
EnteredUnknown(c, name) ==
  LET key == KeyOf(name)
  IN  IF name \in TooLong \/ key \in DOMAIN c THEN c
      ELSE [k \in DOMAIN c \cup {key} |-> IF k = key THEN Read(key) ELSE c[k]]

\* The cache after pg_tzset(name): an entry is only ever added.
Entered(c, name) ==
  LET key == KeyOf(name)
  IN  IF name \in TooLong \/ key \in DOMAIN c \/ Read(key) = Unknown THEN c
      ELSE [k \in DOMAIN c \cup {key} |-> IF k = key THEN Read(key) ELSE c[k]]

\* The pointer pg_tzset(name) returns.
pg_tzset(c, name) ==
  IF name \notin TooLong /\ KeyOf(name) \in DOMAIN Entered(c, name)
  THEN KeyOf(name) ELSE NULL

\* The answer is on record once it is a zone.
Answered(h, c, name) ==
  IF pg_tzset(c, name) = NULL THEN h
  ELSE h \cup {<<name, Entered(c, name)[KeyOf(name)]>>}

----------------------------------------------------------------------------
Empty == [k \in {} |-> NULL]

Init ==
  /\ files \in [Files -> Contents \cup {Unreadable}]
  /\ cache = Empty
  /\ session_timezone = NULL /\ log_timezone = NULL
  /\ call = "none"
  /\ held = {}

\* pg_timezone_initialize: both zones are GMT.
Initialized == Entered(Empty, GMT)

\* BOOT: link is the name /etc/localtime points to, NULL without one.
Boot(link) ==
  /\ call = "none" /\ call' = "boot"
  /\ cache' = IF link = NULL THEN Initialized ELSE Entered(Initialized, link)
  /\ log_timezone' = pg_tzset(Empty, GMT)
  /\ session_timezone' = IF link = NULL THEN pg_tzset(Empty, GMT)
                         ELSE pg_tzset(Initialized, link)
  /\ held' = IF link = NULL THEN {} ELSE Answered({}, Initialized, link)
  /\ UNCHANGED files

\* timezone(name): a name that fails takes the session's zone away.
timezone(name) ==
  /\ call # "none" /\ call' = "timezone"
  /\ cache' = Entered(cache, name)
  /\ session_timezone' = pg_tzset(cache, name)
  /\ held' = Answered(held, cache, name)
  /\ UNCHANGED <<files, log_timezone>>

\* A zone named in a date being decoded.
DecodeZone(name) ==
  /\ call # "none" /\ call' = "decode"
  /\ cache' = Entered(cache, name)
  /\ held' = Answered(held, cache, name)
  /\ UNCHANGED <<files, session_timezone, log_timezone>>

\* The zone files are updated by somebody else.
UpdateFile(file, content) ==
  /\ files' = [files EXCEPT ![file] = content]
  /\ UNCHANGED <<cache, session_timezone, log_timezone, call, held>>

BootAny == \E link \in Names \cup {NULL} : Boot(link)
TimezoneAny == \E n \in Names : timezone(n)
DecodeAny == \E n \in Names : DecodeZone(n)
UpdateAny == \E k \in Files, c \in Contents \cup {Unreadable} : UpdateFile(k, c)

Next == BootAny \/ TimezoneAny \/ DecodeAny \/ UpdateAny

Spec == Init /\ [][Next]_vars

----------------------------------------------------------------------------
Outcomes ==
  Contents \cup [spec : Keys, rules : Contents \cup {Unreadable}]

Entries == [TZname : STRING, state : Outcomes]

TypeOK ==
  /\ files \in [Files -> Contents \cup {Unreadable}]
  /\ DOMAIN cache \subseteq Keys
  /\ \A k \in DOMAIN cache : cache[k] \in Entries
  /\ {session_timezone, log_timezone} \subseteq DOMAIN cache \cup {NULL}
  /\ call \in {"none", "boot", "timezone", "decode"}
  /\ held \subseteq Names \X Entries

(***************************************************************************)
(* Names that differ only in case are one zone: whoever asks, whenever, and *)
(* whatever became of the files since, gets the same name and the same      *)
(* table ("Upcase the given name to perform a case-insensitive hashtable    *)
(* search", pg_tzset.c:40).                                                 *)
(***************************************************************************)
OneZonePerName ==
  \A x, y \in held : upper[x[1]] = upper[y[1]] => x[2] = y[2]

EntriesKept ==
  \A k \in DOMAIN cache : k \in DOMAIN cache' /\ cache'[k] = cache[k]

(***************************************************************************)
(* A zone once handed out is never changed or taken away: the pointers that *)
(* the session and Perl objects hold stay good (pg_tzset.c:56-60).          *)
(***************************************************************************)
EntriesStay == [][EntriesKept]_vars

(***************************************************************************)
(* The log's zone is the built-in GMT, whatever the zone files say: "GMT is *)
(* always interpreted as the tzparse() definition" (pg_tzset.c:14).         *)
(***************************************************************************)
LogsInGMT ==
  call # "none" =>
    /\ log_timezone \in DOMAIN cache
    /\ cache[log_timezone] = LastDitch

(***************************************************************************)
(* "ensure default timezone and logging setting" (Datizo.xs:46): the boot   *)
(* section leaves the session a zone.                                       *)
(***************************************************************************)
BootEnsuresZone == call = "boot" => session_timezone # NULL

=============================================================================
