------------------------------ MODULE TzAbbrev ------------------------------
(***************************************************************************)
(* Loading a set of time zone abbreviations (load_tzoffsets): ParseTzFile   *)
(* reads a file line by line, calls itself for @INCLUDE, and keeps the      *)
(* entries in one array that addToArray searches and sorts.                 *)
(*                                                                          *)
(* Abbreviations are numbered in the order of strcmp, in lower case.  A     *)
(* file is its lines without the empty ones and the comments; a line that   *)
(* cannot be read or split, or whose abbreviation is too long, is invalid.  *)
(* The recursion is a stack of frames.                                      *)
(***************************************************************************)
EXTENDS Integers, SequencesExt

CONSTANTS
  Names,          \* file names
  Alphabetic,     \* those of letters only
  Files,          \* what each file there is holds
  Abbrevs,        \* abbreviations
  MAX_DEPTH,      \* 3
  ARRAY_SIZE      \* 128, the first size of the array

Lines ==
  [kind : {"entry"}, abbrev : Abbrevs, offset : Int, is_dst : BOOLEAN]
    \cup [kind : {"include"}, file : Names]
    \cup [kind : {"override", "invalid"}]

ASSUME AbbrevAssumption ==
  /\ Alphabetic \subseteq Names /\ Abbrevs \subseteq Int
  /\ DOMAIN Files \subseteq Names
  /\ \A name \in DOMAIN Files : Files[name] \in Seq(Lines)
  /\ MAX_DEPTH \in Nat /\ ARRAY_SIZE \in Nat \ {0}

VARIABLES
  filename,            \* the set being loaded
  stack,               \* the calls of ParseTzFile, innermost last
  array, arraysize,
  entry, low, high,    \* addToArray's argument and search, from 0
  pc                   \* "idle", "read", "search", "loaded" or "failed"

search == <<entry, low, high>>
load == <<filename, stack, array, arraysize, entry, low, high, pc>>

----------------------------------------------------------------------------
tzEntry == [abbrev : Abbrevs, offset : Int, is_dst : BOOLEAN]
NoEntry == [none |-> TRUE]
Entry(l) == [abbrev |-> l.abbrev, offset |-> l.offset, is_dst |-> l.is_dst]

\* Multiples of 15 minutes, of at most 14 hours.
validateTzEntry(e) ==
  /\ e.offset % 900 = 0
  /\ e.offset <= 14 * 60 * 60 /\ e.offset >= -(14 * 60 * 60)

\* Mutant: includes may go one level deeper.
OpensDeeper(name, depth) ==
  name \in Alphabetic /\ depth <= MAX_DEPTH + 1 /\ name \in DOMAIN Files

\* ParseTzFile(name, depth, ...) comes to its first line.
Opens(name, depth) ==
  name \in Alphabetic /\ depth <= MAX_DEPTH /\ name \in DOMAIN Files

Frame(name) == [file |-> name, line |-> 1, override |-> FALSE]

top == Last(stack)
content == Files[top.file]

\* The top frame goes on to its next line.
Advanced(override) ==
  [stack EXCEPT ![Len(stack)] = [file |-> top.file, line |-> top.line + 1,
                                 override |-> override]]

\* An error: each call in turn returns -1.
Fail ==
  /\ pc' = "failed" /\ stack' = <<>>
  /\ UNCHANGED <<filename, array, arraysize, search>>

line == content[top.line]

Reads(kind) ==
  /\ pc = "read"
  /\ top.line <= Len(content) /\ line.kind = kind

----------------------------------------------------------------------------
Init ==
  /\ filename \in Names
  /\ stack = <<>>
  /\ array = <<>> /\ arraysize = ARRAY_SIZE
  /\ entry = NoEntry /\ low = 0 /\ high = 0
  /\ pc = "idle"

Loading == pc \in {"read", "search"}

load_tzoffsets(name) ==
  /\ ~ Loading
  /\ filename' = name
  /\ array' = <<>> /\ arraysize' = ARRAY_SIZE
  /\ IF Opens(name, 0)
     THEN pc' = "read" /\ stack' = <<Frame(name)>>
     ELSE pc' = "failed" /\ stack' = <<>>
  /\ UNCHANGED search

\* Mutant: a file read from within another one inherits its override.
IncludeInheriting ==
  /\ Reads("include")
  /\ IF Opens(line.file, Len(stack))
     THEN /\ stack' = Append(Advanced(top.override),
                             [file |-> line.file, line |-> 1, override |-> top.override])
          /\ UNCHANGED <<filename, array, arraysize, search, pc>>
     ELSE Fail

Include ==
  /\ Reads("include")
  /\ IF Opens(line.file, Len(stack))
     THEN /\ stack' = Append(Advanced(top.override), Frame(line.file))
          /\ UNCHANGED <<filename, array, arraysize, search, pc>>
     ELSE Fail

Override ==
  /\ Reads("override")
  /\ stack' = Advanced(TRUE)
  /\ UNCHANGED <<filename, array, arraysize, search, pc>>

Invalid == Reads("invalid") /\ Fail

\* splitTzLine, validateTzEntry, and the call of addToArray.
EntryLine ==
  /\ Reads("entry")
  /\ IF validateTzEntry(Entry(line))
     THEN /\ pc' = "search"
          /\ entry' = Entry(line)
          /\ low' = 0 /\ high' = Len(array) - 1
          /\ UNCHANGED <<filename, stack, array, arraysize>>
     ELSE Fail

\* The end of a file, and of the load with the outermost one.
EndOfFile ==
  /\ pc = "read" /\ top.line > Len(content)
  /\ stack' = Front(stack)
  /\ pc' = IF Len(stack) = 1 THEN "loaded" ELSE "read"
  /\ UNCHANGED <<filename, array, arraysize, search>>

mid == (low + high) \div 2
midptr == array[mid + 1]

Searching == pc = "search" /\ low <= high

\* Mutant: the lower bound does not move past mid.
LaterKeepingMid ==
  /\ Searching /\ entry.abbrev > midptr.abbrev
  /\ low' = mid
  /\ UNCHANGED <<filename, stack, array, arraysize, entry, high, pc>>

\* Mutant: the place before mid is passed over.
EarlierTooFar ==
  /\ Searching /\ entry.abbrev < midptr.abbrev
  /\ high' = mid - 2
  /\ UNCHANGED <<filename, stack, array, arraysize, entry, low, pc>>

Earlier ==
  /\ Searching /\ entry.abbrev < midptr.abbrev
  /\ high' = mid - 1
  /\ UNCHANGED <<filename, stack, array, arraysize, entry, low, pc>>

Later ==
  /\ Searching /\ entry.abbrev > midptr.abbrev
  /\ low' = mid + 1
  /\ UNCHANGED <<filename, stack, array, arraysize, entry, high, pc>>

\* addToArray returns to its line with the array a.
Added(a) ==
  /\ array' = a
  /\ stack' = Advanced(top.override)
  /\ pc' = "read"
  /\ UNCHANGED <<filename, search>>

\* "Found a duplicate entry; complain unless it's the same."
Duplicate ==
  /\ Searching /\ entry.abbrev = midptr.abbrev
  /\ IF midptr = entry THEN Added(array) /\ UNCHANGED arraysize
     ELSE IF top.override
     THEN Added([array EXCEPT ![mid + 1] = entry]) /\ UNCHANGED arraysize
     ELSE Fail

\* Mutant: the array grows one entry too late.
InsertLate ==
  /\ pc = "search" /\ low > high
  /\ arraysize' = IF Len(array) > arraysize THEN 2 * arraysize ELSE arraysize
  /\ Added(InsertAt(array, low + 1, entry))

\* "No match, insert at position low."
Insert ==
  /\ pc = "search" /\ low > high
  /\ arraysize' = IF Len(array) >= arraysize THEN 2 * arraysize ELSE arraysize
  /\ Added(InsertAt(array, low + 1, entry))

LoadAny == \E name \in Names : load_tzoffsets(name)

\* What goes on by itself once a load is called.
LoadStep ==
  \/ Include \/ Override \/ Invalid \/ EntryLine \/ EndOfFile
  \/ Earlier \/ Later \/ Duplicate \/ Insert

Next == LoadAny \/ LoadStep

\* A function called runs to its end.
Spec == Init /\ [][Next]_load /\ WF_load(LoadStep)

----------------------------------------------------------------------------
Frames == [file : DOMAIN Files, line : Nat \ {0}, override : BOOLEAN]

TypeOK ==
  /\ filename \in Names
  /\ stack \in Seq(Frames) /\ Len(stack) <= MAX_DEPTH + 1
  /\ \A k \in DOMAIN stack : stack[k].line <= Len(Files[stack[k].file]) + 1
  /\ array \in Seq(tzEntry) /\ arraysize \in Nat \ {0}
  /\ entry \in tzEntry \cup {NoEntry}
  /\ low \in Nat /\ high \in Int
  /\ pc \in {"idle", "read", "search", "loaded", "failed"}
  /\ pc = "search" => entry # NoEntry
  /\ Loading <=> stack # <<>>

(***************************************************************************)
(* "The array is maintained in sorted order", with one entry for each       *)
(* abbreviation (addToArray.c:16-19), and the search for the place of an    *)
(* entry never leaves the array or passes that place.                       *)
(***************************************************************************)
Ordered ==
  /\ \A i, j \in DOMAIN array : i < j => array[i].abbrev < array[j].abbrev
  /\ pc = "search" =>
       /\ low <= high + 1 /\ high < Len(array)
       /\ \A i \in DOMAIN array :
             /\ i <= low => array[i].abbrev < entry.abbrev
             /\ i > high + 1 => array[i].abbrev > entry.abbrev

(***************************************************************************)
(* The entries never exceed the memory allocated for them                   *)
(* (addToArray.c:68-72).                                                    *)
(***************************************************************************)
HasRoom == Len(array) <= arraysize

----------------------------------------------------------------------------
(* What a set of files says, without the array *)

\* What line k of a file says, with what each file that it may include says.  An
\* entry is under override when @OVERRIDE stands before it in its own file.
LineText(inner, name, k) ==
  LET l == Files[name][k]
  IN  IF l.kind = "include" THEN inner[l.file]
      ELSE IF l.kind = "entry"
      THEN <<[kind |-> "entry", entry |-> Entry(l),
              override |-> \E j \in 1..(k - 1) : Files[name][j].kind = "override"]>>
      ELSE IF l.kind = "invalid" THEN <<l>> ELSE <<>>

FileText(inner, name) ==
  FlattenSeq([k \in 1..Len(Files[name]) |-> LineText(inner, name, k)])

\* The lines read for a file at a depth, those of its includes in their places.
Reading[room \in 0..(MAX_DEPTH + 1)] ==
  [name \in Names |->
     IF room = 0 \/ name \notin Alphabetic \cap DOMAIN Files
     THEN <<[kind |-> "invalid"]>>
     ELSE FileText(Reading[room - 1], name)]

Text == Reading[MAX_DEPTH + 1]

\* The places in a text that define an abbreviation.
Places(text, a) ==
  {k \in DOMAIN text : text[k].kind = "entry" /\ text[k].entry.abbrev = a}

\* Neither a bad line nor an entry that contradicts, without leave, the one
\* that was last.
WellFormed(text) ==
  /\ \A k \in DOMAIN text :
        text[k].kind = "entry" /\ validateTzEntry(text[k].entry)
  /\ \A a \in Abbrevs : \A k \in Places(text, a) :
        LET before == {j \in Places(text, a) : j < k}
        IN  before # {} /\ ~ text[k].override =>
              text[k].entry = text[Max(before)].entry

\* The entries a text comes to: the last word on each abbreviation.
Meaning(text) ==
  {text[Max(Places(text, a))].entry : a \in {b \in Abbrevs : Places(text, b) # {}}}

(***************************************************************************)
(* A load succeeds just when every line of the set is good, includes are at *)
(* most three deep, and an entry that contradicts an earlier one stands     *)
(* under an @OVERRIDE of its own file; the table then holds the last word   *)
(* on every abbreviation (ParseTzFile.c:111-175, addToArray.c:36-66).       *)
(***************************************************************************)
LastWordWins ==
  LET text == Text[filename]
  IN  /\ pc = "loaded" => WellFormed(text) /\ Range(array) = Meaning(text)
      /\ pc = "failed" => ~ WellFormed(text)

(***************************************************************************)
(* Every load comes to an end, whatever files include each other            *)
(* (ParseTzFile.c:59-69).                                                   *)
(***************************************************************************)
LoadEnds == Loading ~> ~ Loading
=============================================================================
