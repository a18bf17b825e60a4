--------------------------- MODULE TzCacheProofs ---------------------------
(***************************************************************************)
(* Proofs about TzCache.  The invariant ties every answer on record to the  *)
(* entry its name leads to: as entries stay, so do the answers.             *)
(***************************************************************************)
EXTENDS TzCache, TLAPS

\* A cache that only holds well-typed entries.
Caches == UNION {[D -> Entries] : D \in SUBSET Keys}

\* d holds what c holds, and perhaps more.
Keeps(c, d) == \A k \in DOMAIN c : k \in DOMAIN d /\ d[k] = c[k]

OnRecord ==
  \A x \in held : /\ KeyOf(x[1]) \in DOMAIN cache
                  /\ cache[KeyOf(x[1])] = x[2]

Booted ==
  IF call = "none"
  THEN held = {} /\ DOMAIN cache = {}
  ELSE /\ log_timezone = GMT
       /\ GMT \in DOMAIN cache
       /\ cache[GMT] = LastDitch

Inv ==
  /\ TypeOK
  /\ cache \in Caches
  /\ OnRecord
  /\ Booted

\* The upper-case form of a name is a key.
LEMMA KeyTypes ==
  ASSUME NEW n \in Names
  PROVE  KeyOf(n) \in Keys
BY DEF KeyOf, Keys

\* A key is a name of its own, and its own upper-case form.
LEMMA KeyFacts ==
  ASSUME NEW key \in Keys
  PROVE  key \in Names /\ key \in STRING /\ KeyOf(key) = key
<1>1. PICK n \in Names : key = upper[n] BY DEF Keys
<1>2. upper \in [Names -> Names] BY CacheAssumption
<1>3. key \in Names BY <1>1, <1>2
<1>4. key \in STRING BY <1>3, CacheAssumption
<1>5. KeyOf(key) = key BY <1>1, CacheAssumption DEF KeyOf
<1>6. QED BY <1>3, <1>4, <1>5

\* A zone and the lack of one are told apart.
LEMMA KnownZone == \A e \in Entries : e # Unknown
<1> SUFFICES ASSUME NEW e \in Entries, e = Unknown PROVE FALSE
  OBVIOUS
<1>1. DOMAIN e = {"TZname", "state"} BY DEF Entries
<1>2. DOMAIN e = {"unknown"} BY DEF Unknown
<1>3. QED BY <1>1, <1>2

\* A zone that was read is a well-typed entry, and GMT is the built-in one.
LEMMA ReadTypes ==
  ASSUME files \in [Files -> Contents \cup {Unreadable}], NEW key \in Keys
  PROVE  /\ Read(key) \in Entries \cup {Unknown}
         /\ Read(GMT) = LastDitch
         /\ LastDitch \in Entries
<1>1. key \in STRING /\ key \in Names /\ GMT \in STRING /\ GMT \in Keys
  BY CacheAssumption, KeyFacts
<1>2. tzload(key) \in Contents \cup {Unreadable}
  BY DEF tzload
<1>3. tzload(key) # Unreadable => canonical[path[key]] \in STRING
  BY <1>1, CacheAssumption DEF tzload
<1>4. tzparse(key) \in Outcomes
  BY CacheAssumption DEF tzparse, Outcomes
<1>5. LastDitch \in Entries
  BY <1>1 DEF LastDitch, Entry, Entries, Outcomes
<1>6. tzload(key) # Unreadable =>
        Entry(canonical[path[key]], tzload(key)) \in Entries
  BY <1>2, <1>3 DEF Entry, Entries, Outcomes
<1>7. Entry(key, tzparse(key)) \in Entries
  BY <1>1, <1>4 DEF Entry, Entries
<1>8. QED BY <1>5, <1>6, <1>7 DEF Read

\* pg_tzset adds at most one entry, changes none, and points to an entry.
LEMMA EnteredFacts ==
  ASSUME files \in [Files -> Contents \cup {Unreadable}],
         NEW c \in Caches, NEW name \in Names
  PROVE  /\ Entered(c, name) \in Caches
         /\ Keeps(c, Entered(c, name))
         /\ pg_tzset(c, name) \in DOMAIN Entered(c, name) \cup {NULL}
         /\ pg_tzset(c, name) # NULL =>
              KeyOf(name) \in DOMAIN Entered(c, name)
<1> DEFINE key == KeyOf(name)
<1>1. key \in Keys BY KeyTypes
<1>2. /\ DOMAIN c \subseteq Keys
      /\ \A k \in DOMAIN c : c[k] \in Entries
      /\ c = [k \in DOMAIN c |-> c[k]]
  BY DEF Caches
<1>3. Read(key) \in Entries \cup {Unknown} BY <1>1, ReadTypes
<1>4. CASE name \in TooLong \/ key \in DOMAIN c \/ Read(key) = Unknown
  <2>1. Entered(c, name) = c BY <1>4 DEF Entered
  <2>2. QED BY <2>1 DEF Keeps, pg_tzset
<1>5. CASE ~ (name \in TooLong \/ key \in DOMAIN c \/ Read(key) = Unknown)
  <2> DEFINE d == [k \in DOMAIN c \cup {key} |-> IF k = key THEN Read(key) ELSE c[k]]
  <2>1. Entered(c, name) = d BY <1>5 DEF Entered
  <2>2. \A k \in DOMAIN c \cup {key} : d[k] \in Entries BY <1>2, <1>3, <1>5
  <2>3. DOMAIN c \cup {key} \in SUBSET Keys BY <1>1, <1>2
  <2>4. d \in [DOMAIN c \cup {key} -> Entries] BY <2>2
  <2>5. d \in Caches BY <2>3, <2>4 DEF Caches
  <2>6. Keeps(c, d) BY <1>5 DEF Keeps
  <2>7. QED BY <2>1, <2>5, <2>6 DEF pg_tzset
<1>6. QED BY <1>4, <1>5

\* After the first step of the boot section GMT is in the cache.
LEMMA InitializedFacts ==
  ASSUME files \in [Files -> Contents \cup {Unreadable}]
  PROVE  /\ Initialized \in Caches
         /\ GMT \in DOMAIN Initialized /\ Initialized[GMT] = LastDitch
         /\ pg_tzset(Empty, GMT) = GMT
<1>1. GMT \in Names /\ KeyOf(GMT) = GMT /\ GMT \notin TooLong /\ GMT \in Keys
  BY CacheAssumption, KeyFacts
<1>2. Empty \in [{} -> Entries] BY DEF Empty
<1>3. Empty \in Caches BY <1>2 DEF Caches
<1>4. Initialized \in Caches BY <1>1, <1>3, EnteredFacts DEF Initialized
<1>5. Read(GMT) = LastDitch /\ LastDitch \in Entries BY <1>1, ReadTypes
<1>6. LastDitch # Unknown BY <1>5, KnownZone
<1>7. DOMAIN Empty = {} BY DEF Empty
<1>8. Entered(Empty, GMT) =
        [k \in {GMT} |-> IF k = GMT THEN LastDitch ELSE Empty[k]]
  BY <1>1, <1>5, <1>6, <1>7 DEF Entered
<1>9. GMT \in DOMAIN Initialized /\ Initialized[GMT] = LastDitch
  BY <1>8 DEF Initialized
<1>10. pg_tzset(Empty, GMT) = GMT
  BY <1>1, <1>8 DEF pg_tzset
<1>11. QED BY <1>4, <1>9, <1>10

\* A call of pg_tzset keeps the record of answers true.
LEMMA AnsweredFacts ==
  ASSUME files \in [Files -> Contents \cup {Unreadable}],
         NEW c \in Caches, NEW name \in Names, NEW h \in SUBSET (Names \X Entries),
         \A x \in h : KeyOf(x[1]) \in DOMAIN c /\ c[KeyOf(x[1])] = x[2]
  PROVE  /\ Answered(h, c, name) \in SUBSET (Names \X Entries)
         /\ \A x \in Answered(h, c, name) :
               /\ KeyOf(x[1]) \in DOMAIN Entered(c, name)
               /\ Entered(c, name)[KeyOf(x[1])] = x[2]
<1> DEFINE d == Entered(c, name)
<1>1. d \in Caches /\ Keeps(c, d)
  BY EnteredFacts
<1>2. \A x \in h : KeyOf(x[1]) \in DOMAIN d /\ d[KeyOf(x[1])] = x[2]
  BY <1>1 DEF Keeps
<1>3. CASE pg_tzset(c, name) = NULL
  BY <1>2, <1>3 DEF Answered
<1>4. CASE pg_tzset(c, name) # NULL
  <2>1. KeyOf(name) \in DOMAIN d BY <1>4, EnteredFacts
  <2>2. d[KeyOf(name)] \in Entries BY <1>1, <2>1 DEF Caches
  <2>3. Answered(h, c, name) = h \cup {<<name, d[KeyOf(name)]>>}
    BY <1>4 DEF Answered
  <2>4. QED BY <1>2, <2>1, <2>2, <2>3
<1>5. QED BY <1>3, <1>4

LEMMA InitInv == Init => Inv
<1> SUFFICES ASSUME Init PROVE Inv
  OBVIOUS
<1>1. cache \in [{} -> Entries] /\ DOMAIN cache = {} BY DEF Init, Empty
<1>2. cache \in Caches BY <1>1 DEF Caches
<1>3. TypeOK BY <1>1 DEF Init, TypeOK
<1>4. OnRecord /\ Booted BY <1>1 DEF Init, OnRecord, Booted
<1>5. QED BY <1>2, <1>3, <1>4 DEF Inv

LEMMA NextInv == Inv /\ [Next]_vars => Inv' /\ EntriesKept
<1> SUFFICES ASSUME Inv, [Next]_vars PROVE Inv' /\ EntriesKept
  OBVIOUS
<1>1. /\ files \in [Files -> Contents \cup {Unreadable}] /\ cache \in Caches
      /\ held \in SUBSET (Names \X Entries)
      /\ {session_timezone, log_timezone} \subseteq DOMAIN cache \cup {NULL}
      /\ \A x \in held : KeyOf(x[1]) \in DOMAIN cache /\ cache[KeyOf(x[1])] = x[2]
  BY DEF Inv, TypeOK, OnRecord
\* What a typed cache, typed pointers and a true record amount to.
<1>2. ASSUME cache' \in Caches, files' = files,
             {session_timezone', log_timezone'} \subseteq DOMAIN cache' \cup {NULL},
             call' \in {"none", "boot", "timezone", "decode"},
             held' \in SUBSET (Names \X Entries)
      PROVE  TypeOK'
  BY <1>1, <1>2 DEF TypeOK, Caches
\* A call of pg_tzset once the boot section has run.
<1>c. ASSUME NEW name \in Names, call # "none", cache' = Entered(cache, name),
             held' = Answered(held, cache, name), files' = files,
             session_timezone' \in {session_timezone, pg_tzset(cache, name)},
             log_timezone' = log_timezone, call' \in {"timezone", "decode"}
      PROVE  Inv' /\ EntriesKept
  <2>1. /\ Entered(cache, name) \in Caches
        /\ Keeps(cache, Entered(cache, name))
        /\ pg_tzset(cache, name) \in DOMAIN Entered(cache, name) \cup {NULL}
    BY <1>1, EnteredFacts
  <2>2. EntriesKept BY <1>c, <2>1 DEF EntriesKept, Keeps
  <2>3. /\ held' \in SUBSET (Names \X Entries)
        /\ \A x \in held' : KeyOf(x[1]) \in DOMAIN cache' /\ cache'[KeyOf(x[1])] = x[2]
    BY <1>1, <1>c, AnsweredFacts
  <2>4. {session_timezone', log_timezone'} \subseteq DOMAIN cache' \cup {NULL}
    BY <1>1, <1>c, <2>1 DEF Keeps
  <2>5. TypeOK' BY <1>2, <1>c, <2>1, <2>3, <2>4
  <2>6. OnRecord' BY <2>3 DEF OnRecord, KeyOf
  <2>7. Booted' BY <1>c, <2>2 DEF Inv, Booted, EntriesKept
  <2>8. QED BY <1>c, <2>1, <2>2, <2>5, <2>6, <2>7 DEF Inv
<1>3. CASE BootAny
  <2>1. PICK link \in Names \cup {NULL} : Boot(link) BY <1>3 DEF BootAny
  <2>2. /\ Initialized \in Caches /\ GMT \in DOMAIN Initialized
        /\ Initialized[GMT] = LastDitch /\ pg_tzset(Empty, GMT) = GMT
    BY <1>1, InitializedFacts
  <2>3. held = {} /\ DOMAIN cache = {}
    BY <2>1 DEF Boot, Inv, Booted
  <2>4. EntriesKept BY <2>3 DEF EntriesKept
  <2>5. /\ cache' \in Caches /\ GMT \in DOMAIN cache' /\ cache'[GMT] = LastDitch
        /\ session_timezone' \in DOMAIN cache' \cup {NULL}
        /\ held' \in SUBSET (Names \X Entries)
        /\ \A x \in held' : KeyOf(x[1]) \in DOMAIN cache' /\ cache'[KeyOf(x[1])] = x[2]
    <3>1. CASE link = NULL
      BY <2>1, <2>2, <3>1 DEF Boot
    <3>2. CASE link # NULL
      <4>1. link \in Names BY <2>1, <3>2
      <4>2. /\ cache' = Entered(Initialized, link)
            /\ session_timezone' = pg_tzset(Initialized, link)
            /\ held' = Answered({}, Initialized, link)
        BY <2>1, <3>2 DEF Boot
      <4>3. /\ cache' \in Caches /\ Keeps(Initialized, cache')
            /\ session_timezone' \in DOMAIN cache' \cup {NULL}
        BY <1>1, <2>2, <4>1, <4>2, EnteredFacts
      <4>4. GMT \in DOMAIN cache' /\ cache'[GMT] = LastDitch
        BY <2>2, <4>3 DEF Keeps
      <4>5. /\ held' \in SUBSET (Names \X Entries)
            /\ \A x \in held' : /\ KeyOf(x[1]) \in DOMAIN cache'
                                 /\ cache'[KeyOf(x[1])] = x[2]
        BY <1>1, <2>2, <4>1, <4>2, AnsweredFacts
      <4>6. QED BY <4>3, <4>4, <4>5
    <3>3. QED BY <3>1, <3>2
  <2>6. log_timezone' = GMT /\ call' = "boot" /\ files' = files
    BY <2>1, <2>2 DEF Boot
  <2>7. TypeOK' BY <1>2, <2>5, <2>6
  <2>8. OnRecord' BY <2>5 DEF OnRecord, KeyOf
  <2>9. Booted' BY <2>5, <2>6 DEF Booted
  <2>10. QED BY <2>4, <2>5, <2>7, <2>8, <2>9 DEF Inv
<1>4. CASE TimezoneAny
  BY <1>4, <1>c DEF TimezoneAny, timezone
<1>5. CASE DecodeAny
  BY <1>5, <1>c DEF DecodeAny, DecodeZone
<1>6. CASE UpdateAny
  <2>1. PICK f \in Files, content \in Contents \cup {Unreadable} : UpdateFile(f, content)
    BY <1>6 DEF UpdateAny
  <2>2. files' \in [Files -> Contents \cup {Unreadable}]
    BY <1>1, <2>1 DEF UpdateFile
  <2>3. /\ cache' = cache /\ held' = held /\ call' = call
        /\ session_timezone' = session_timezone /\ log_timezone' = log_timezone
    BY <2>1 DEF UpdateFile
  <2>4. TypeOK' BY <2>2, <2>3 DEF Inv, TypeOK
  <2>5. OnRecord' /\ Booted' BY <2>3 DEF Inv, OnRecord, Booted
  <2>6. EntriesKept BY <2>3 DEF EntriesKept
  <2>7. QED BY <2>3, <2>4, <2>5, <2>6 DEF Inv
<1>7. CASE UNCHANGED vars
  <2>1. /\ cache' = cache /\ held' = held /\ call' = call /\ files' = files
        /\ session_timezone' = session_timezone /\ log_timezone' = log_timezone
    BY <1>7 DEF vars
  <2>2. TypeOK' BY <2>1 DEF Inv, TypeOK
  <2>3. OnRecord' /\ Booted' BY <2>1 DEF Inv, OnRecord, Booted
  <2>4. EntriesKept BY <2>1 DEF EntriesKept
  <2>5. QED BY <2>1, <2>2, <2>3, <2>4 DEF Inv
<1>8. QED BY <1>3, <1>4, <1>5, <1>6, <1>7 DEF Next

(***************************************************************************)
(* In every reachable state the cache, the two zones and the record of      *)
(* answers agree, and GMT is in the cache from the boot section on.         *)
(***************************************************************************)
THEOREM InvHolds == Spec => []Inv
BY InitInv, NextInv, PTL DEF Spec

(***************************************************************************)
(* The session's zone and the log's always point to an entry or nowhere.    *)
(***************************************************************************)
THEOREM TypeCorrect == Spec => []TypeOK
BY InvHolds, PTL DEF Inv

(***************************************************************************)
(* Spellings of a name get one and the same zone for the life of the        *)
(* program, however the files change (pg_tzset.c:40-60).                    *)
(***************************************************************************)
THEOREM OneZonePerNameHolds == Spec => []OneZonePerName
<1>1. Inv => OneZonePerName BY DEF Inv, OnRecord, OneZonePerName, KeyOf
<1>2. QED BY <1>1, InvHolds, PTL

(***************************************************************************)
(* No step changes or removes a cached zone.                                *)
(***************************************************************************)
THEOREM EntriesStayHolds == Spec => EntriesStay
<1>1. Inv /\ [Next]_vars => [EntriesKept]_vars BY NextInv
<1>2. QED BY <1>1, InvHolds, PTL DEF Spec, EntriesStay

(***************************************************************************)
(* The log's zone is the built-in GMT, whatever the files (pg_tzset.c:14).  *)
(***************************************************************************)
THEOREM LogsInGMTHolds == Spec => []LogsInGMT
<1>1. Inv => LogsInGMT BY DEF Inv, Booted, LogsInGMT
<1>2. QED BY <1>1, InvHolds, PTL
=============================================================================
