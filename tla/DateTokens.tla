----------------------------- MODULE DateTokens -----------------------------
(***************************************************************************)
(* The words of dates and intervals: the static tables, the table of time   *)
(* zone abbreviations that a load of TzAbbrev makes, and the two caches of  *)
(* pointers into them, one place for each field of the input.               *)
(*                                                                          *)
(* Words are numbered in the order of strcmp by their first TOKMAXLEN       *)
(* characters, as no more are stored or compared.  A pointer into a table   *)
(* is the entry it points to: a table never changes and is never freed.     *)
(***************************************************************************)
EXTENDS TzAbbrev

CONSTANTS
  Fields,         \* the fields of an input, up to MAXDATEFIELDS
  Words,          \* what a field may say
  datetktbl,      \* the static words of dates
  deltatktbl,     \* and of intervals
  NULL

Types ==
  {"RESERV", "MONTH", "DOW", "AMPM", "ADBC", "UNITS", "AGO", "ISOTIME", "IGNORE_DTF",
   "TZ", "DTZ", "DTZMOD"}

\* The value is one byte.
datetkn == [token : Int, type : Types, value : 0..255]

Ascending(tbl) == \A i, j \in DOMAIN tbl : i < j => tbl[i].token < tbl[j].token

\* "The static table contains no TZ or DTZ entries."
ASSUME TokenAssumption ==
  /\ Words \subseteq Int /\ NULL \notin datetkn
  /\ \A tbl \in {datetktbl, deltatktbl} :
        /\ tbl \in Seq(datetkn) /\ Ascending(tbl)
        /\ \A tp \in Range(tbl) : tp.type \notin {"TZ", "DTZ"} /\ tp.value < 128
  /\ \A tp \in Range(deltatktbl) : tp.type # "DTZMOD"

VARIABLES
  timezonetktbl,         \* the table installed
  datecache, deltacache, \* for each field, the entry found there last, or NULL
  answer,                \* the latest answer of DecodeSpecial or DecodeUnits
  installed              \* history: what the files of the table came to

tokens == <<timezonetktbl, datecache, deltacache, answer, installed>>
vars == <<load, tokens>>

----------------------------------------------------------------------------
\* The one byte of an offset in minutes: a sign and quarters of an hour.
TOVAL(v) == IF v < 0 THEN (-v) \div 15 + 128 ELSE v \div 15

SIGNEDCHAR(c) == IF c >= 128 THEN -(c % 128) ELSE c
FROMVAL(tp) == -SIGNEDCHAR(tp.value) * 15

\* The quotient of offset and MINS_PER_HOUR is exact: validateTzEntry.
ConvertTimeZoneAbbrevs(abbrevs) ==
  [i \in DOMAIN abbrevs |->
     [token |-> abbrevs[i].abbrev,
      type  |-> IF abbrevs[i].is_dst THEN "DTZ" ELSE "TZ",
      value |-> TOVAL(abbrevs[i].offset \div 60)]]

datebsearch(key, tbl) ==
  LET Search[part \in (1..(Len(tbl) + 1)) \X (0..Len(tbl))] ==
        LET base == part[1]
            last == part[2]
            position == base + (last - base) \div 2
        IN  IF last < base THEN NULL
            ELSE IF tbl[position].token = key THEN tbl[position]
            ELSE IF key < tbl[position].token THEN Search[<<base, position - 1>>]
            ELSE Search[<<position + 1, last>>]
  IN  Search[<<1, Len(tbl)>>]

Hit(tp, lowtoken) == tp # NULL /\ tp.token = lowtoken

----------------------------------------------------------------------------
NoAnswer == [none |-> TRUE]

Answer(by, lowtoken, type, val) ==
  [by |-> by, lowtoken |-> lowtoken, type |-> type, val |-> val]

Unknown(by, lowtoken) == Answer(by, lowtoken, "UNKNOWN_FIELD", 0)

TokensInit ==
  /\ Init
  /\ timezonetktbl = <<>>
  /\ datecache = [f \in Fields |-> NULL] /\ deltacache = [f \in Fields |-> NULL]
  /\ answer = NoAnswer /\ installed = {}

\* A load goes on, and no table is touched.
Load ==
  /\ LoadAny \/ LoadStep
  /\ answer' = NoAnswer
  /\ UNCHANGED <<timezonetktbl, datecache, deltacache, installed>>

\* Mutant: the pointers into the table before are kept.
InstallKeepingCache ==
  /\ pc = "loaded"
  /\ timezonetktbl' = ConvertTimeZoneAbbrevs(array)
  /\ answer' = NoAnswer /\ installed' = Meaning(Text[filename])
  /\ UNCHANGED <<load, datecache, deltacache>>

\* The table load_tzoffsets has returned is installed.
InstallTimeZoneAbbrevs ==
  /\ pc = "loaded"
  /\ timezonetktbl' = ConvertTimeZoneAbbrevs(array)
  /\ datecache' = [f \in Fields |-> NULL]
  /\ answer' = NoAnswer /\ installed' = Meaning(Text[filename])
  /\ UNCHANGED <<load, deltacache>>

DecodeSpecial(field, lowtoken) ==
  LET zone == datebsearch(lowtoken, timezonetktbl)
      tp == IF Hit(datecache[field], lowtoken) THEN datecache[field]
            ELSE IF zone # NULL THEN zone
            ELSE datebsearch(lowtoken, datetktbl)
  IN  /\ ~ Loading
      /\ IF tp = NULL
         THEN /\ answer' = Unknown("DecodeSpecial", lowtoken)
              /\ UNCHANGED datecache
         ELSE /\ datecache' = [datecache EXCEPT ![field] = tp]
              /\ answer' = Answer("DecodeSpecial", lowtoken, tp.type,
                                  IF tp.type \in {"TZ", "DTZ", "DTZMOD"}
                                  THEN FROMVAL(tp) ELSE tp.value)
      /\ UNCHANGED <<load, timezonetktbl, deltacache, installed>>

DecodeUnits(field, lowtoken) ==
  LET tp == IF Hit(deltacache[field], lowtoken) THEN deltacache[field]
            ELSE datebsearch(lowtoken, deltatktbl)
  IN  /\ ~ Loading
      /\ IF tp = NULL
         THEN /\ answer' = Unknown("DecodeUnits", lowtoken)
              /\ UNCHANGED deltacache
         ELSE /\ deltacache' = [deltacache EXCEPT ![field] = tp]
              /\ answer' = Answer("DecodeUnits", lowtoken, tp.type,
                                  IF tp.type \in {"TZ", "DTZ"}
                                  THEN FROMVAL(tp) ELSE tp.value)
      /\ UNCHANGED <<load, timezonetktbl, datecache, installed>>

TokensNext ==
  \/ Load
  \/ InstallTimeZoneAbbrevs
  \/ \E field \in Fields, word \in Words :
        DecodeSpecial(field, word) \/ DecodeUnits(field, word)

TokensSpec == TokensInit /\ [][TokensNext]_vars /\ WF_load(LoadStep)

----------------------------------------------------------------------------
\* The entry of a static table for a word, by its definition.
Word(tbl, w) == CHOOSE tp \in Range(tbl) : tp.token = w
HasWord(tbl, w) == \E tp \in Range(tbl) : tp.token = w

ZonesOf(w) == {e \in installed : e.abbrev = w}

(***************************************************************************)
(* A word of a date is what the installed files say last of it, with the    *)
(* offset in minutes west of Greenwich; only when they say nothing is it    *)
(* the static word; and nothing an earlier table said of it, or the words   *)
(* of intervals, comes into it, whatever was decoded before, in whichever   *)
(* fields (InstallTimeZoneAbbrevs.c:15, DecodeSpecial.c:13-19).             *)
(***************************************************************************)
AnswersByFile ==
  answer # NoAnswer =>
    LET w == answer.lowtoken
        tbl == IF answer.by = "DecodeUnits" THEN deltatktbl ELSE datetktbl
    IN  IF answer.by = "DecodeSpecial" /\ ZonesOf(w) # {}
        THEN \E e \in ZonesOf(w) :
                /\ answer.type = IF e.is_dst THEN "DTZ" ELSE "TZ"
                /\ 60 * answer.val = -e.offset
        ELSE IF HasWord(tbl, w)
        THEN /\ answer.type = Word(tbl, w).type
             /\ answer.type # "DTZMOD" => answer.val = Word(tbl, w).value
             /\ answer.type = "DTZMOD" => answer.val = -15 * Word(tbl, w).value
        ELSE answer.type = "UNKNOWN_FIELD" /\ answer.val = 0
=============================================================================
