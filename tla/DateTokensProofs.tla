-------------------------- MODULE DateTokensProofs --------------------------
(***************************************************************************)
(* Proofs about TzAbbrev and DateTokens: the types, the bounded recursion,  *)
(* the sorted array with its search; that a load comes to the last word of  *)
(* its files; and that a word is answered by the table installed.           *)
(***************************************************************************)
EXTENDS DateTokens, SequenceTheorems, WellFoundedInduction, TLAPS

\* While an entry is searched, its line is still the line of the top frame.
AtLine == pc = "search" => top.line <= Len(content)

Typed == TypeOK /\ AtLine

Inv == Typed /\ Ordered /\ HasRoom

----------------------------------------------------------------------------
\* What insertion does, position by position.
LEMMA InsertAtProperties ==
  ASSUME NEW S, NEW a \in Seq(S), NEW e \in S, NEW i \in 1..(Len(a) + 1)
  PROVE  /\ InsertAt(a, i, e) \in Seq(S)
         /\ Len(InsertAt(a, i, e)) = Len(a) + 1
         /\ \A k \in 1..(Len(a) + 1) :
              InsertAt(a, i, e)[k] =
                IF k < i THEN a[k] ELSE IF k = i THEN e ELSE a[k - 1]
<1> DEFINE front == SubSeq(a, 1, i - 1)
           back == SubSeq(a, i, Len(a))
<1>1. /\ front \in Seq(S) /\ Len(front) = i - 1
      /\ \A k \in 1..(i - 1) : front[k] = a[k]
  <2>1. \A k \in 1..(i - 1) : a[k] \in S OBVIOUS
  <2>2. /\ front \in Seq(S)
        /\ Len(front) = IF 1 <= i - 1 THEN (i - 1) - 1 + 1 ELSE 0
        /\ \A k \in 1..((i - 1) - 1 + 1) : front[k] = a[1 + k - 1]
    BY <2>1, SubSeqProperties
  <2>3. QED BY <2>2
<1>2. /\ back \in Seq(S) /\ Len(back) = Len(a) - i + 1
      /\ \A k \in 1..(Len(a) - i + 1) : back[k] = a[i + k - 1]
  <2>1. \A k \in i..Len(a) : a[k] \in S OBVIOUS
  <2>2. /\ back \in Seq(S)
        /\ Len(back) = IF i <= Len(a) THEN Len(a) - i + 1 ELSE 0
        /\ \A k \in 1..(Len(a) - i + 1) : back[k] = a[i + k - 1]
    BY <2>1, SubSeqProperties
  <2>3. QED BY <2>2
<1>3. <<e>> \in Seq(S) /\ Len(<<e>>) = 1 /\ <<e>>[1] = e OBVIOUS
<1> HIDE DEF front, back
<1> DEFINE start == front \o <<e>>
<1>4. /\ start \in Seq(S) /\ Len(start) = i
      /\ \A k \in 1..i : start[k] = IF k <= i - 1 THEN front[k] ELSE <<e>>[k - (i - 1)]
  BY <1>1, <1>3, ConcatProperties
<1> HIDE DEF start
<1>5. /\ start \o back \in Seq(S) /\ Len(start \o back) = Len(a) + 1
      /\ \A k \in 1..(Len(a) + 1) :
           (start \o back)[k] = IF k <= i THEN start[k] ELSE back[k - i]
  <2>1. /\ start \o back \in Seq(S)
        /\ Len(start \o back) = Len(start) + Len(back)
        /\ \A k \in 1..(Len(start) + Len(back)) :
             (start \o back)[k] = IF k <= Len(start) THEN start[k]
                                  ELSE back[k - Len(start)]
    BY <1>2, <1>4, ConcatProperties
  <2>2. Len(start) = i /\ Len(start) + Len(back) = Len(a) + 1
    BY <1>2, <1>4
  <2>3. QED BY <2>1, <2>2
<1>6. InsertAt(a, i, e) = start \o back BY DEF InsertAt, start, front, back
<1>7. \A k \in 1..(Len(a) + 1) :
        (start \o back)[k] =
          IF k < i THEN a[k] ELSE IF k = i THEN e ELSE a[k - 1]
  <2> TAKE k \in 1..(Len(a) + 1)
  <2>1. CASE k < i BY <2>1, <1>1, <1>4, <1>5
  <2>2. CASE k = i BY <2>2, <1>3, <1>4, <1>5
  <2>3. CASE k > i BY <2>3, <1>2, <1>5
  <2>4. k < i \/ k = i \/ k > i OBVIOUS
  <2>5. QED BY <2>1, <2>2, <2>3, <2>4
<1>8. QED BY <1>5, <1>6, <1>7

\* The innermost call of a load.
LEMMA TopFrame ==
  ASSUME TypeOK, Loading
  PROVE  /\ Len(stack) \in Nat \ {0}
         /\ top \in Frames /\ top = stack[Len(stack)]
         /\ top.line <= Len(content) + 1
         /\ content \in Seq(Lines) /\ Len(content) \in Nat
<1>1. stack \in Seq(Frames) /\ stack # <<>> BY DEF TypeOK
<1>2. Len(stack) \in Nat \ {0} /\ Len(stack) \in DOMAIN stack BY <1>1
<1>3. top = stack[Len(stack)] BY DEF top, Last
<1>4. top \in Frames BY <1>1, <1>2, <1>3
<1>5. content \in Seq(Lines)
  BY <1>4, AbbrevAssumption DEF content, Frames
<1>6. top.line <= Len(content) + 1 BY <1>2, <1>3 DEF TypeOK, content
<1>7. QED BY <1>2, <1>3, <1>4, <1>5, <1>6

\* Going on to the next line of a file that has not come to its end.
LEMMA AdvancedType ==
  ASSUME TypeOK, Loading, top.line <= Len(content), NEW o \in BOOLEAN
  PROVE  /\ Advanced(o) \in Seq(Frames) /\ Len(Advanced(o)) = Len(stack)
         /\ Advanced(o) # <<>>
         /\ \A k \in DOMAIN Advanced(o) :
              Advanced(o)[k].line <= Len(Files[Advanced(o)[k].file]) + 1
<1>1. stack \in Seq(Frames) BY DEF TypeOK
<1> DEFINE f == [file |-> top.file, line |-> top.line + 1, override |-> o]
<1>2. f \in Frames BY TopFrame DEF Frames
<1>3. f.line <= Len(Files[f.file]) + 1 BY TopFrame DEF content, Frames
<1>4. Advanced(o) = [stack EXCEPT ![Len(stack)] = f] BY DEF Advanced
<1>5. Len(stack) \in DOMAIN stack BY <1>1, TopFrame
<1> HIDE DEF f
<1>6. Advanced(o) \in Seq(Frames) /\ Len(Advanced(o)) = Len(stack)
  BY <1>1, <1>2, <1>4, <1>5
<1>7. \A k \in DOMAIN Advanced(o) :
        Advanced(o)[k] = IF k = Len(stack) THEN f ELSE stack[k]
  BY <1>1, <1>4
<1>8. DOMAIN Advanced(o) = DOMAIN stack BY <1>4
<1>9. QED BY <1>3, <1>6, <1>7, <1>8, TopFrame DEF TypeOK

\* An entry line holds an entry.
LEMMA LineTypes ==
  ASSUME TypeOK, NEW kind, Reads(kind)
  PROVE  /\ line \in Lines /\ line.kind = kind
         /\ kind = "entry" => Entry(line) \in tzEntry
         /\ kind = "include" => line.file \in Names
<1>1. Loading BY DEF Reads, Loading
<1>2. line \in Lines /\ line.kind = kind
  <2>1. top.line \in Nat \ {0} BY <1>1, TopFrame DEF Frames
  <2>2. QED BY <1>1, <2>1, TopFrame DEF Reads, line
<1>3. kind = "entry" => Entry(line) \in tzEntry
  BY <1>2 DEF Lines, Entry, tzEntry
<1>4. kind = "include" => line.file \in Names
  BY <1>2 DEF Lines
<1>5. QED BY <1>2, <1>3, <1>4

----------------------------------------------------------------------------
\* A call that does not open a file, or a line in error.
LEMMA FailTyped == ASSUME TypeOK, Fail PROVE Typed'
<1>1. Typed' = (TypeOK' /\ AtLine') BY DEF Typed
<1>2. TypeOK'
  <2>1. stack' = <<>> /\ pc' = "failed" BY DEF Fail
  <2>2. /\ stack' \in Seq(Frames) /\ Len(stack') <= MAX_DEPTH + 1
        /\ \A k \in DOMAIN stack' :
             stack'[k].line <= Len(Files[stack'[k].file]) + 1
    BY <2>1, AbbrevAssumption
  <2>3. QED BY <2>1, <2>2 DEF Fail, TypeOK, Loading, search
<1>3. AtLine' BY DEF Fail, AtLine
<1>4. QED BY <1>1, <1>2, <1>3

LEMMA LoadTyped == ASSUME Typed, NEW name \in Names, load_tzoffsets(name) PROVE Typed'
<1> USE DEF Typed
<1>1. TypeOK'
  <2>1. CASE Opens(name, 0)
    <3>1. pc' = "read" /\ stack' = <<Frame(name)>> BY <2>1 DEF load_tzoffsets
    <3>2. Frame(name) \in Frames /\ Frame(name).line = 1 /\ Frame(name).file = name
      BY <2>1 DEF Frame, Frames, Opens
    <3>3. Len(Files[name]) \in Nat BY <2>1, AbbrevAssumption DEF Opens
    <3>4. /\ stack' \in Seq(Frames) /\ Len(stack') <= MAX_DEPTH + 1
          /\ stack' # <<>>
          /\ \A k \in DOMAIN stack' :
               stack'[k].line <= Len(Files[stack'[k].file]) + 1
      BY <3>1, <3>2, <3>3, AbbrevAssumption
    <3>5. QED
      BY <3>1, <3>4, AbbrevAssumption DEF load_tzoffsets, TypeOK, Loading, search
  <2>2. CASE ~ Opens(name, 0)
    <3>1. pc' = "failed" /\ stack' = <<>> BY <2>2 DEF load_tzoffsets
    <3>2. /\ stack' \in Seq(Frames) /\ Len(stack') <= MAX_DEPTH + 1
          /\ \A k \in DOMAIN stack' :
               stack'[k].line <= Len(Files[stack'[k].file]) + 1
      BY <3>1, AbbrevAssumption
    <3>3. QED
      BY <3>1, <3>2, AbbrevAssumption DEF load_tzoffsets, TypeOK, Loading, search
  <2>3. QED BY <2>1, <2>2
<1>2. pc' # "search" BY DEF load_tzoffsets
<1>3. QED BY <1>1, <1>2 DEF AtLine

LEMMA IncludeTyped == ASSUME Typed, Include PROVE Typed'
<1>1. CASE ~ Opens(line.file, Len(stack)) BY <1>1, FailTyped DEF Include, Typed
<1>2. CASE Opens(line.file, Len(stack))
  <2> DEFINE s == Advanced(top.override)
             f == Frame(line.file)
  <2>1. Reads("include") /\ stack' = Append(s, f) BY <1>2 DEF Include
  <2>2. Loading /\ top.line <= Len(content) BY <2>1 DEF Reads, Loading
  <2>3. top.override \in BOOLEAN BY <2>2, TopFrame DEF Frames, Typed
  <2>4. /\ s \in Seq(Frames) /\ Len(s) = Len(stack)
        /\ \A k \in DOMAIN s : s[k].line <= Len(Files[s[k].file]) + 1
    BY <2>2, <2>3, AdvancedType DEF Typed
  <2>5. f \in Frames /\ f.line = 1 /\ f.file = line.file
    BY <1>2 DEF Frame, Frames, Opens
  <2>6. Len(Files[f.file]) \in Nat BY <1>2, <2>5, AbbrevAssumption DEF Opens
  <2> HIDE DEF s, f
  <2>7. /\ stack' \in Seq(Frames) /\ stack' # <<>>
        /\ Len(stack') = Len(stack) + 1
        /\ \A k \in 1..Len(stack) : stack'[k] = s[k]
        /\ stack'[Len(stack) + 1] = f
    BY <2>1, <2>4, <2>5, AppendProperties
  <2>8. Len(stack') <= MAX_DEPTH + 1
    BY <1>2, <2>7, AbbrevAssumption DEF Opens, Typed, TypeOK
  <2>9. \A k \in DOMAIN stack' : stack'[k].line <= Len(Files[stack'[k].file]) + 1
    BY <2>4, <2>5, <2>6, <2>7
  <2>10. TypeOK'
    BY <1>2, <2>2, <2>7, <2>8, <2>9 DEF Include, Typed, TypeOK, Loading, search, Reads
  <2>11. pc' # "search" BY <1>2 DEF Include, Reads
  <2>12. QED BY <2>10, <2>11 DEF Typed, AtLine
<1>3. QED BY <1>1, <1>2

\* Back at the next line, with the array as it is or as addToArray left it.
LEMMA NextLineTyped ==
  ASSUME TypeOK, Loading, top.line <= Len(content), NEW o \in BOOLEAN,
         stack' = Advanced(o), pc' = "read",
         array' \in Seq(tzEntry), arraysize' \in Nat \ {0},
         UNCHANGED <<filename, search>>
  PROVE  Typed'
<1>1. /\ stack' \in Seq(Frames) /\ stack' # <<>> /\ Len(stack') <= MAX_DEPTH + 1
      /\ \A k \in DOMAIN stack' : stack'[k].line <= Len(Files[stack'[k].file]) + 1
  BY AdvancedType DEF TypeOK
<1>2. TypeOK' BY <1>1 DEF TypeOK, Loading, search
<1>3. QED BY <1>2 DEF Typed, AtLine

LEMMA OverrideTyped == ASSUME Typed, Override PROVE Typed'
<1>1. Loading /\ top.line <= Len(content) BY DEF Override, Reads, Loading
<1>2. pc' = "read" BY DEF Override, Reads
<1>3. array' \in Seq(tzEntry) /\ arraysize' \in Nat \ {0}
  BY DEF Override, Typed, TypeOK
<1>4. UNCHANGED <<filename, search>> BY DEF Override
<1>5. QED BY <1>1, <1>2, <1>3, <1>4, NextLineTyped DEF Override, Typed

LEMMA EntryLineTyped == ASSUME Typed, EntryLine PROVE Typed'
<1>1. CASE ~ validateTzEntry(Entry(line)) BY <1>1, FailTyped DEF EntryLine, Typed
<1>2. CASE validateTzEntry(Entry(line))
  <2>1. Reads("entry") /\ pc' = "search" /\ stack' = stack /\ entry' = Entry(line)
    BY <1>2 DEF EntryLine
  <2>2. entry' \in tzEntry BY <2>1, LineTypes DEF Typed
  <2>3. NoEntry \notin tzEntry
    <3> SUFFICES ASSUME NoEntry \in tzEntry PROVE FALSE OBVIOUS
    <3>1. DOMAIN NoEntry = {"none"} BY DEF NoEntry
    <3>2. DOMAIN NoEntry = {"abbrev", "offset", "is_dst"} BY DEF tzEntry
    <3>3. QED BY <3>1, <3>2
  <2>4. low' \in Nat /\ high' \in Int BY <1>2 DEF EntryLine, Typed, TypeOK
  <2>5. TypeOK'
    BY <1>2, <2>1, <2>2, <2>3, <2>4 DEF EntryLine, Typed, TypeOK, Loading, Reads
  <2>6. AtLine' BY <2>1 DEF Reads, AtLine, top, content
  <2>7. QED BY <2>5, <2>6 DEF Typed
<1>3. QED BY <1>1, <1>2

LEMMA EndOfFileTyped == ASSUME Typed, EndOfFile PROVE Typed'
<1> USE DEF Typed
<1>1. Loading BY DEF EndOfFile, Loading
<1>2. stack \in Seq(Frames) /\ Len(stack) \in Nat \ {0} BY <1>1, TopFrame DEF TypeOK
<1>3. /\ stack' \in Seq(Frames) /\ Len(stack') = Len(stack) - 1
      /\ \A k \in 1..(Len(stack) - 1) : stack'[k] = stack[k]
  <2>1. stack' = SubSeq(stack, 1, Len(stack) - 1) BY DEF EndOfFile, Front
  <2>2. \A k \in 1..(Len(stack) - 1) : stack[k] \in Frames BY <1>2
  <2> DEFINE n == Len(stack) - 1
  <2>3. n \in Nat BY <1>2
  <2>4. /\ SubSeq(stack, 1, n) \in Seq(Frames)
        /\ Len(SubSeq(stack, 1, n)) = IF 1 <= n THEN n - 1 + 1 ELSE 0
        /\ \A k \in 1..(n - 1 + 1) : SubSeq(stack, 1, n)[k] = stack[1 + k - 1]
    BY <2>2, <2>3, SubSeqProperties
  <2>5. QED BY <2>1, <2>3, <2>4
<1>4. /\ Len(stack') <= MAX_DEPTH + 1
      /\ \A k \in DOMAIN stack' : stack'[k].line <= Len(Files[stack'[k].file]) + 1
  <2>1. Len(stack') <= MAX_DEPTH + 1 BY <1>2, <1>3, AbbrevAssumption DEF TypeOK
  <2>2. DOMAIN stack' = 1..(Len(stack) - 1) BY <1>3
  <2>3. DOMAIN stack = 1..Len(stack) BY <1>2
  <2>4. \A k \in DOMAIN stack' : stack'[k] = stack[k] /\ k \in DOMAIN stack
    BY <1>2, <1>3, <2>2, <2>3
  <2>5. QED BY <2>1, <2>4 DEF TypeOK
<1>5. pc' = IF stack' = <<>> THEN "loaded" ELSE "read"
  BY <1>2, <1>3 DEF EndOfFile
<1>6. UNCHANGED <<filename, array, arraysize, entry, low, high>>
  BY DEF EndOfFile, search
<1>7. TypeOK' BY <1>3, <1>4, <1>5, <1>6 DEF TypeOK, Loading
<1>8. QED BY <1>5, <1>7 DEF AtLine

\* A search in progress: the middle entry is one of the array.
LEMMA Middle ==
  ASSUME Typed, Ordered, Searching
  PROVE  /\ mid \in Nat /\ low <= mid /\ mid <= high
         /\ mid + 1 \in DOMAIN array /\ midptr \in tzEntry
         /\ midptr.abbrev \in Int
         /\ entry \in tzEntry /\ entry.abbrev \in Int
<1>1. low \in Nat /\ high \in Int /\ low <= high BY DEF Typed, TypeOK, Searching
<1>2. high < Len(array) /\ array \in Seq(tzEntry)
  BY DEF Ordered, Searching, Typed, TypeOK
<1>3. mid \in Nat /\ low <= mid /\ mid <= high BY <1>1 DEF mid
<1>4. mid + 1 \in DOMAIN array BY <1>1, <1>2, <1>3
<1>5. midptr \in tzEntry BY <1>2, <1>4 DEF midptr
<1>6. entry \in tzEntry BY DEF Searching, Typed, TypeOK
<1>7. midptr.abbrev \in Int /\ entry.abbrev \in Int
  BY <1>5, <1>6, AbbrevAssumption DEF tzEntry
<1>8. QED BY <1>3, <1>4, <1>5, <1>6, <1>7

\* The abbreviations of the array are numbers.
LEMMA Numbers ==
  ASSUME TypeOK
  PROVE  \A i \in DOMAIN array : array[i] \in tzEntry /\ array[i].abbrev \in Int
<1>1. \A i \in DOMAIN array : array[i] \in tzEntry BY DEF TypeOK
<1>2. QED BY <1>1, AbbrevAssumption DEF tzEntry

LEMMA SearchStepInv ==
  ASSUME Inv, Earlier \/ Later
  PROVE  Inv'
<1> USE DEF Inv
<1>1. Searching /\ UNCHANGED <<filename, stack, array, arraysize, entry, pc>>
  BY DEF Earlier, Later
<1>2. /\ mid \in Nat /\ low <= mid /\ mid <= high
      /\ mid + 1 \in DOMAIN array
      /\ midptr.abbrev \in Int /\ entry.abbrev \in Int
  BY <1>1, Middle
<1>3. low \in Nat /\ high \in Int /\ low' \in Nat /\ high' \in Int
  BY <1>2 DEF Earlier, Later, Typed, TypeOK
<1>4. Typed'
  <2>1. TypeOK' BY <1>1, <1>3 DEF Typed, TypeOK, Loading
  <2>2. AtLine' BY <1>1 DEF Typed, AtLine, top, content
  <2>3. QED BY <2>1, <2>2 DEF Typed
<1>5. HasRoom' BY <1>1 DEF HasRoom
<1>6. midptr = array[mid + 1] BY DEF midptr
<1>7. /\ \A i, j \in DOMAIN array : i < j => array[i].abbrev < array[j].abbrev
      /\ low <= high + 1 /\ high < Len(array)
      /\ \A i \in DOMAIN array :
            /\ i <= low => array[i].abbrev < entry.abbrev
            /\ i > high + 1 => array[i].abbrev > entry.abbrev
  BY <1>1 DEF Ordered, Searching
<1>8. \A i \in DOMAIN array : i \in Int /\ array[i].abbrev \in Int
  BY Numbers DEF Typed, TypeOK
<1>9. Len(array) \in Nat BY DEF Typed, TypeOK
<1>10. /\ low' <= high' + 1 /\ high' < Len(array)
       /\ \A i \in DOMAIN array :
             /\ i <= low' => array[i].abbrev < entry.abbrev
             /\ i > high' + 1 => array[i].abbrev > entry.abbrev
  <2>1. CASE Earlier
    <3>1. entry.abbrev < midptr.abbrev /\ high' = mid - 1 /\ low' = low
      BY <2>1 DEF Earlier
    <3>2. \A i \in DOMAIN array : i > mid => array[i].abbrev > entry.abbrev
      <4> TAKE i \in DOMAIN array
      <4> HAVE i > mid
      <4>1. i = mid + 1 \/ mid + 1 < i BY <1>2, <1>8
      <4>2. QED BY <4>1, <1>2, <1>6, <1>7, <1>8, <3>1
    <3>3. QED BY <3>1, <3>2, <1>2, <1>3, <1>7, <1>8, <1>9
  <2>2. CASE Later
    <3>1. entry.abbrev > midptr.abbrev /\ low' = mid + 1 /\ high' = high
      BY <2>2 DEF Later
    <3>2. \A i \in DOMAIN array : i <= mid + 1 => array[i].abbrev < entry.abbrev
      <4> TAKE i \in DOMAIN array
      <4> HAVE i <= mid + 1
      <4>1. i = mid + 1 \/ i < mid + 1 BY <1>2, <1>8
      <4>2. QED BY <4>1, <1>2, <1>6, <1>7, <1>8, <3>1
    <3>3. QED BY <3>1, <3>2, <1>2, <1>3, <1>7, <1>8, <1>9
  <2>3. QED BY <2>1, <2>2
<1>11. Ordered' BY <1>1, <1>7, <1>10 DEF Ordered
<1>12. QED BY <1>4, <1>5, <1>11

\* The parts of the invariant about the array, when no search is on.
LEMMA SameArray ==
  ASSUME Inv, UNCHANGED <<array, arraysize>>, pc' # "search"
  PROVE  Ordered' /\ HasRoom'
BY DEF Inv, Ordered, HasRoom

LEMMA DuplicateInv == ASSUME Inv, Duplicate PROVE Inv'
<1> USE DEF Inv
<1>1. /\ Searching /\ entry.abbrev = midptr.abbrev BY DEF Duplicate
<1>2. Loading /\ top.line <= Len(content)
  BY <1>1 DEF Searching, Loading, Typed, AtLine
<1>3. top.override \in BOOLEAN BY <1>2, TopFrame DEF Frames, Typed
<1>4. mid + 1 \in DOMAIN array /\ entry \in tzEntry BY <1>1, Middle
<1>5. array \in Seq(tzEntry) BY DEF Typed, TypeOK
<1>6. CASE midptr = entry
  <2>1. Added(array) /\ UNCHANGED arraysize BY <1>1, <1>6 DEF Duplicate
  <2>2. Typed'
    BY <2>1, <1>2, <1>3, NextLineTyped DEF Added, Typed, TypeOK
  <2>3. array' = array /\ arraysize' = arraysize /\ pc' # "search" BY <2>1 DEF Added
  <2>4. QED BY <2>2, <2>3, SameArray
<1>7. CASE (midptr # entry) /\ top.override
  <2> DEFINE a == [array EXCEPT ![mid + 1] = entry]
  <2>1. Added(a) /\ UNCHANGED arraysize BY <1>1, <1>7 DEF Duplicate
  <2>2. a \in Seq(tzEntry) /\ Len(a) = Len(array) /\ DOMAIN a = DOMAIN array
    BY <1>4, <1>5
  <2>3. \A i \in DOMAIN array : a[i].abbrev = array[i].abbrev
    BY <1>1, <1>4 DEF midptr
  <2> HIDE DEF a
  <2>4. array' = a /\ pc' = "read" /\ arraysize' = arraysize BY <2>1 DEF Added
  <2>5. Typed'
    BY <2>1, <2>2, <1>2, <1>3, NextLineTyped DEF Added, Typed, TypeOK
  <2>6. Ordered' BY <2>2, <2>3, <2>4 DEF Ordered
  <2>7. HasRoom' BY <2>2, <2>4 DEF HasRoom
  <2>8. QED BY <2>5, <2>6, <2>7
<1>8. CASE (midptr # entry) /\ ~ top.override
  <2>1. Fail BY <1>1, <1>8 DEF Duplicate
  <2>2. Typed' BY <2>1, FailTyped DEF Typed
  <2>3. UNCHANGED <<array, arraysize>> /\ pc' # "search" BY <2>1 DEF Fail
  <2>4. QED BY <2>2, <2>3, SameArray
<1>9. QED BY <1>6, <1>7, <1>8

LEMMA InsertInv == ASSUME Inv, Insert PROVE Inv'
<1> USE DEF Inv
<1> DEFINE a == InsertAt(array, low + 1, entry)
<1>1. pc = "search" /\ low > high /\ Added(a)
      /\ arraysize' = IF Len(array) >= arraysize THEN 2 * arraysize ELSE arraysize
  BY DEF Insert
<1>2. Loading /\ top.line <= Len(content) BY <1>1 DEF Loading, Typed, AtLine
<1>3. top.override \in BOOLEAN BY <1>2, TopFrame DEF Frames, Typed
<1>4. /\ array \in Seq(tzEntry) /\ entry \in tzEntry
      /\ low \in Nat /\ high \in Int /\ arraysize \in Nat \ {0}
  BY <1>1 DEF Typed, TypeOK
<1>5. /\ low = high + 1 /\ low + 1 \in 1..(Len(array) + 1)
      /\ Len(array) \in Nat
  BY <1>1, <1>4 DEF Ordered
<1>6. /\ a \in Seq(tzEntry) /\ Len(a) = Len(array) + 1
      /\ \A k \in 1..(Len(array) + 1) :
           a[k] = IF k < low + 1 THEN array[k]
                  ELSE IF k = low + 1 THEN entry ELSE array[k - 1]
  BY <1>4, <1>5, InsertAtProperties
<1> HIDE DEF a
<1>7. arraysize' \in Nat \ {0} /\ Len(array) <= arraysize BY <1>1, <1>4 DEF HasRoom
<1>8. array' = a /\ pc' = "read" BY <1>1 DEF Added
<1>9. Typed'
  BY <1>1, <1>2, <1>3, <1>6, <1>7, NextLineTyped DEF Added, Typed
<1>10. HasRoom' BY <1>1, <1>4, <1>5, <1>6, <1>7, <1>8 DEF HasRoom
<1>11. \A i, j \in 1..Len(array) : i < j => array[i].abbrev < array[j].abbrev
  BY <1>4 DEF Ordered
<1>12. \A i \in 1..Len(array) : /\ i <= low => array[i].abbrev < entry.abbrev
                                /\ i > low => array[i].abbrev > entry.abbrev
  BY <1>1, <1>4, <1>5 DEF Ordered
<1>13. entry.abbrev \in Int /\ \A i \in 1..Len(array) : array[i].abbrev \in Int
  <2>1. entry.abbrev \in Int BY <1>4, AbbrevAssumption DEF tzEntry
  <2>2. DOMAIN array = 1..Len(array) BY <1>4
  <2>3. QED BY <2>1, <2>2, Numbers DEF Typed
<1>14. \A i, j \in 1..(Len(array) + 1) : i < j => a[i].abbrev < a[j].abbrev
  <2> TAKE i, j \in 1..(Len(array) + 1)
  <2> HAVE i < j
  <2>1. CASE j < low + 1
    <3>1. a[i] = array[i] /\ a[j] = array[j] BY <2>1, <1>5, <1>6
    <3>2. i \in 1..Len(array) /\ j \in 1..Len(array) BY <2>1, <1>5
    <3>3. QED BY <3>1, <3>2, <1>11
  <2>2. CASE j = low + 1
    <3>1. a[i] = array[i] /\ a[j] = entry BY <2>2, <1>5, <1>6
    <3>2. i \in 1..Len(array) /\ i <= low BY <2>2, <1>5
    <3>3. QED BY <3>1, <3>2, <1>12
  <2>3. CASE (j > low + 1) /\ (i < low + 1)
    <3>1. a[i] = array[i] /\ a[j] = array[j - 1] BY <2>3, <1>5, <1>6
    <3>2. i \in 1..Len(array) /\ j - 1 \in 1..Len(array) /\ i < j - 1
      BY <2>3, <1>5
    <3>3. QED BY <3>1, <3>2, <1>11
  <2>4. CASE (j > low + 1) /\ (i = low + 1)
    <3>1. a[i] = entry /\ a[j] = array[j - 1] BY <2>4, <1>5, <1>6
    <3>2. j - 1 \in 1..Len(array) /\ j - 1 > low BY <2>4, <1>5
    <3>3. QED BY <3>1, <3>2, <1>12, <1>13
  <2>5. CASE (j > low + 1) /\ (i > low + 1)
    <3>1. a[i] = array[i - 1] /\ a[j] = array[j - 1] BY <2>5, <1>5, <1>6
    <3>2. i - 1 \in 1..Len(array) /\ j - 1 \in 1..Len(array) /\ i - 1 < j - 1
      BY <2>5, <1>5
    <3>3. QED BY <3>1, <3>2, <1>11
  <2>6. QED BY <2>1, <2>2, <2>3, <2>4, <2>5, <1>5
<1>15. Ordered' BY <1>6, <1>8, <1>14 DEF Ordered
<1>16. QED BY <1>9, <1>10, <1>15

----------------------------------------------------------------------------
LEMMA InitInv == Init => Inv
<1> SUFFICES ASSUME Init PROVE Inv OBVIOUS
<1>1. stack \in Seq(Frames) /\ stack = <<>> /\ array \in Seq(tzEntry) /\ array = <<>>
  BY DEF Init
<1>2. TypeOK
  BY <1>1, AbbrevAssumption DEF Init, TypeOK, Loading
<1>3. Ordered BY <1>1 DEF Init, Ordered
<1>4. HasRoom BY <1>1, AbbrevAssumption DEF Init, HasRoom
<1>5. QED BY <1>2, <1>3, <1>4 DEF Init, Inv, Typed, AtLine

LEMMA LoadInv == ASSUME Inv, NEW name \in Names, load_tzoffsets(name) PROVE Inv'
<1>1. Typed' BY LoadTyped DEF Inv
<1>2. array' = <<>> /\ arraysize' = ARRAY_SIZE /\ pc' # "search"
  BY DEF load_tzoffsets
<1>3. Ordered' BY <1>2 DEF Ordered
<1>4. HasRoom' BY <1>2, AbbrevAssumption DEF HasRoom
<1>5. QED BY <1>1, <1>3, <1>4 DEF Inv

\* Lines that leave the array as it is.
LEMMA LineInv ==
  ASSUME Inv, Include \/ Override \/ Invalid \/ EndOfFile
  PROVE  Inv'
<1>1. CASE Include
  <2>1. Typed' BY <1>1, IncludeTyped DEF Inv
  <2>2. UNCHANGED <<array, arraysize>> /\ pc' # "search"
    BY <1>1 DEF Include, Reads, Fail
  <2>3. QED BY <2>1, <2>2, SameArray DEF Inv
<1>2. CASE Override
  <2>1. Typed' BY <1>2, OverrideTyped DEF Inv
  <2>2. UNCHANGED <<array, arraysize>> /\ pc' # "search"
    BY <1>2 DEF Override, Reads
  <2>3. QED BY <2>1, <2>2, SameArray DEF Inv
<1>3. CASE Invalid
  <2>1. Typed' BY <1>3, FailTyped DEF Invalid, Inv, Typed
  <2>2. UNCHANGED <<array, arraysize>> /\ pc' # "search"
    BY <1>3 DEF Invalid, Fail
  <2>3. QED BY <2>1, <2>2, SameArray DEF Inv
<1>4. CASE EndOfFile
  <2>1. Typed' BY <1>4, EndOfFileTyped DEF Inv
  <2>2. UNCHANGED <<array, arraysize>> /\ pc' # "search" BY <1>4 DEF EndOfFile
  <2>3. QED BY <2>1, <2>2, SameArray DEF Inv
<1>5. QED BY <1>1, <1>2, <1>3, <1>4

\* A search begins with the whole array.
LEMMA EntryLineInv == ASSUME Inv, EntryLine PROVE Inv'
<1>1. Typed' BY EntryLineTyped DEF Inv
<1>2. array' = array /\ arraysize' = arraysize BY DEF EntryLine, Fail
<1>3. HasRoom' BY <1>2 DEF Inv, HasRoom
<1>4. CASE pc' # "search" BY <1>2, <1>4, SameArray, <1>1 DEF Inv
<1>5. CASE pc' = "search"
  <2>1. low' = 0 /\ high' = Len(array) - 1 BY <1>5 DEF EntryLine, Fail
  <2>2. DOMAIN array = 1..Len(array) /\ Len(array) \in Nat
    BY DEF Inv, Typed, TypeOK
  <2>3. Ordered' BY <1>2, <2>1, <2>2 DEF Inv, Ordered
  <2>4. QED BY <1>1, <1>3, <2>3 DEF Inv
<1>6. QED BY <1>4, <1>5

LEMMA StepInv == ASSUME Inv, [Next]_load PROVE Inv'
<1>1. CASE LoadAny BY <1>1, LoadInv DEF LoadAny
<1>2. CASE LoadStep BY <1>2, LineInv, EntryLineInv, SearchStepInv, DuplicateInv,
                       InsertInv DEF LoadStep
<1>3. CASE UNCHANGED load
  BY <1>3 DEF load, search, Inv, Typed, TypeOK, AtLine, Ordered, HasRoom, Loading,
              top, content
<1>4. QED BY <1>1, <1>2, <1>3 DEF Next

\* The inductive invariant: the types, the line being searched, the order of the
\* array with the brackets of the search, and the room.
THEOREM LoadInvariant == Spec => []Inv
<1>1. Init => Inv BY InitInv
<1>2. Inv /\ [Next]_load => Inv' BY StepInv
<1>3. QED BY <1>1, <1>2, PTL DEF Spec

\* ParseTzFile never calls itself more than MAX_DEPTH deep, whatever the files
\* hold, and reads no line beyond a file's end (ParseTzFile.c:64).
THEOREM TypeCorrect == Spec => []TypeOK
<1>1. Inv => TypeOK BY DEF Inv, Typed
<1>2. QED BY <1>1, LoadInvariant, PTL

\* The array is sorted with no abbreviation twice, and the search of addToArray
\* stays in it and brackets the place of the entry (addToArray.c:25-62).
THEOREM ArrayOrdered == Spec => []Ordered
<1>1. Inv => Ordered BY DEF Inv
<1>2. QED BY <1>1, LoadInvariant, PTL

\* The array never holds more entries than were allocated (addToArray.c:67-71).
THEOREM ArrayHasRoom == Spec => []HasRoom
<1>1. Inv => HasRoom BY DEF Inv
<1>2. QED BY <1>1, LoadInvariant, PTL

----------------------------------------------------------------------------
(* Least numbers, and sequences one after the other *)

\* A set of naturals has a least one.
LEMMA LeastNatural ==
  ASSUME NEW T \in SUBSET Nat, T # {}
  PROVE  \E m \in T : \A n \in T : m <= n
<1> DEFINE R == {ss \in Nat \X Nat : ss[1] < ss[2]}
<1>1. IsWellFoundedOn(R, Nat)
  BY NatLessThanWellFounded DEF OpToRel
<1>2. PICK x \in T : \A y \in T : <<y, x>> \notin R
  <2> HIDE DEF R
  <2> QED BY <1>1, WFMin
<1>3. ASSUME NEW y \in T PROVE x <= y
  <2>1. <<y, x>> \notin R BY <1>2
  <2>2. ~ (<<y, x>>[1] < <<y, x>>[2]) BY <2>1
  <2> QED BY <2>2
<1> QED BY <1>3

\* f joins more and more of the first n parts.
Joins(f, n, parts) ==
  f = [i \in 1..n |-> IF i = 1 THEN parts[i] ELSE f[i - 1] \o parts[i]]

\* There is one such function.
LEMMA JoinUnique ==
  ASSUME NEW parts, NEW n \in Nat, NEW m \in Nat, n <= m,
         NEW f, Joins(f, n, parts), NEW g, Joins(g, m, parts)
  PROVE  \A i \in 1..n : f[i] = g[i]
<1> DEFINE T == {i \in 1..n : f[i] # g[i]}
<1> SUFFICES ASSUME T # {} PROVE FALSE OBVIOUS
<1>1. PICK i \in T : \A j \in T : i <= j
  <2>1. T \in SUBSET Nat OBVIOUS
  <2> QED BY <2>1, LeastNatural
<1>2. i \in 1..n /\ i \in 1..m /\ f[i] # g[i] BY <1>1
<1>3. CASE i = 1
  <2>1. f[i] = parts[i] /\ g[i] = parts[i] BY <1>2, <1>3 DEF Joins
  <2> QED BY <1>2, <2>1
<1>4. CASE i # 1
  <2>1. i - 1 \in 1..n /\ ~ (i <= i - 1) BY <1>2, <1>4
  <2>2. f[i - 1] = g[i - 1] BY <1>1, <2>1
  <2>3. f[i] = f[i - 1] \o parts[i] /\ g[i] = g[i - 1] \o parts[i]
    BY <1>2, <1>4 DEF Joins
  <2> QED BY <1>2, <2>2, <2>3
<1> QED BY <1>3, <1>4

\* There is one for any number of parts.
LEMMA JoinExists ==
  ASSUME NEW parts
  PROVE  \A n \in Nat : \E f : Joins(f, n, parts)
<1> DEFINE T == {n \in Nat : ~ \E f : Joins(f, n, parts)}
<1> SUFFICES ASSUME T # {} PROVE FALSE OBVIOUS
<1>1. PICK n \in T : \A x \in T : n <= x
  <2>1. T \in SUBSET Nat OBVIOUS
  <2> QED BY <2>1, LeastNatural
<1>2. n \in Nat /\ ~ \E f : Joins(f, n, parts) BY <1>1
<1>3. n # 0
  <2> DEFINE e == [i \in 1..0 |-> parts[i]]
  <2>1. e = [i \in 1..0 |-> IF i = 1 THEN parts[i] ELSE e[i - 1] \o parts[i]]
    OBVIOUS
  <2>2. Joins(e, 0, parts) BY <2>1 DEF Joins
  <2> QED BY <1>2, <2>2
<1>4. n - 1 \in Nat /\ n - 1 \notin T BY <1>1, <1>2, <1>3
<1>5. PICK f : Joins(f, n - 1, parts) BY <1>4
<1> DEFINE g == [i \in 1..n |-> IF i = n THEN IF n = 1 THEN parts[n] ELSE f[n - 1] \o parts[n]
                                ELSE f[i]]
<1>6. Joins(g, n, parts)
  <2>1. ASSUME NEW i \in 1..n
        PROVE  g[i] = IF i = 1 THEN parts[i] ELSE g[i - 1] \o parts[i]
    <3>1. CASE i = n
      <4>1. n # 1 => n - 1 \in 1..n /\ n - 1 # n BY <1>4
      <4> QED BY <3>1, <4>1
    <3>2. CASE i # n
      <4>1. i \in 1..(n - 1) BY <1>4, <3>2
      <4>2. i # 1 => i - 1 \in 1..n /\ i - 1 # n BY <1>4, <3>2
      <4>3. f[i] = IF i = 1 THEN parts[i] ELSE f[i - 1] \o parts[i]
        BY <1>5, <4>1 DEF Joins
      <4> QED BY <3>2, <4>2, <4>3
    <3> QED BY <3>1, <3>2
  <2>2. g = [i \in 1..n |-> g[i]] OBVIOUS
  <2> HIDE DEF g
  <2> QED BY <2>1, <2>2 DEF Joins
<1> QED BY <1>2, <1>6

\* The first n parts, one after the other.
Upto(parts, n) == FlattenSeq([k \in 1..n |-> parts[k]])

\* The function that joins them says what they come to.
LEMMA UptoIs ==
  ASSUME NEW parts, NEW n \in Nat \ {0}, NEW m \in Nat, n <= m,
         NEW f, Joins(f, m, parts)
  PROVE  Upto(parts, n) = f[n]
<1> DEFINE first == [k \in 1..n |-> parts[k]]
           h == CHOOSE g : g = [i \in 1..n |-> IF i = 1 THEN first[i] ELSE g[i - 1] \o first[i]]
<1>1. Len(first) = n OBVIOUS
<1>2. ASSUME NEW g
      PROVE  Joins(g, n, parts)
               <=> g = [i \in 1..n |-> IF i = 1 THEN first[i] ELSE g[i - 1] \o first[i]]
  <2>1. [i \in 1..n |-> IF i = 1 THEN first[i] ELSE g[i - 1] \o first[i]]
          = [i \in 1..n |-> IF i = 1 THEN parts[i] ELSE g[i - 1] \o parts[i]]
    OBVIOUS
  <2> QED BY <2>1 DEF Joins
<1>3. PICK g : Joins(g, n, parts) BY JoinExists
<1>4. Joins(h, n, parts)
  <2>1. h = [i \in 1..n |-> IF i = 1 THEN first[i] ELSE h[i - 1] \o first[i]]
    <3>1. g = [i \in 1..n |-> IF i = 1 THEN first[i] ELSE g[i - 1] \o first[i]]
      BY <1>2, <1>3
    <3> HIDE DEF first
    <3> QED BY <3>1
  <2> HIDE DEF h, first
  <2> QED BY <1>2, <2>1
<1>5. Upto(parts, n) = h[n]
  <2>1. Upto(parts, n) = FlattenSeq(first) BY DEF Upto
  <2> HIDE DEF first
  <2>2. FlattenSeq(first) = h[n] BY <1>1 DEF FlattenSeq
  <2> QED BY <2>1, <2>2
<1> HIDE DEF h
<1>6. h[n] = f[n] BY <1>4, JoinUnique
<1> QED BY <1>5, <1>6

\* Part by part.
LEMMA UptoNext ==
  ASSUME NEW S, NEW n \in Nat, NEW parts, \A k \in 1..n : parts[k] \in Seq(S)
  PROVE  /\ Upto(parts, 0) = <<>>
         /\ \A k \in 1..n : Upto(parts, k) = Upto(parts, k - 1) \o parts[k]
         /\ \A k \in 0..n : Upto(parts, k) \in Seq(S)
<1>1. Upto(parts, 0) = <<>> BY DEF Upto, FlattenSeq
<1>2. PICK f : Joins(f, n, parts) BY JoinExists
<1>3. \A k \in 1..n : Upto(parts, k) = f[k] BY <1>2, UptoIs
<1>4. ASSUME NEW k \in 1..n PROVE Upto(parts, k) = Upto(parts, k - 1) \o parts[k]
  <2>1. CASE k = 1
    <3>1. f[k] = parts[k] BY <1>2, <2>1 DEF Joins
    <3>2. <<>> \o parts[k] = parts[k] BY ConcatEmptySeq
    <3>3. k - 1 = 0 BY <2>1
    <3> QED BY <1>1, <1>3, <3>1, <3>2, <3>3
  <2>2. CASE k # 1
    <3>1. f[k] = f[k - 1] \o parts[k] BY <1>2, <2>2 DEF Joins
    <3>2. k - 1 \in 1..n BY <2>2
    <3> QED BY <1>3, <3>1, <3>2
  <2> QED BY <2>1, <2>2
<1> DEFINE T == {k \in 0..n : Upto(parts, k) \notin Seq(S)}
<1>5. T = {}
  <2> SUFFICES ASSUME T # {} PROVE FALSE OBVIOUS
  <2>1. PICK k \in T : \A x \in T : k <= x
    <3>1. T \in SUBSET Nat OBVIOUS
    <3> QED BY <3>1, LeastNatural
  <2>2. k \in 0..n /\ Upto(parts, k) \notin Seq(S) BY <2>1
  <2>3. <<>> \in Seq(S) OBVIOUS
  <2>4. k # 0 BY <1>1, <2>2, <2>3
  <2>5. k \in 1..n /\ k - 1 \in 0..n /\ ~ (k <= k - 1) BY <2>2, <2>4
  <2>6. Upto(parts, k - 1) \in Seq(S) BY <2>1, <2>5
  <2> HIDE DEF T
  <2>7. Upto(parts, k - 1) \o parts[k] \in Seq(S) BY <2>5, <2>6, ConcatProperties
  <2> QED BY <1>4, <2>2, <2>5, <2>7
<1> QED BY <1>1, <1>4, <1>5

----------------------------------------------------------------------------
(* What a text comes to *)

\* The lines of a text, as Reading gives them.
TextLines == [kind : {"entry"}, entry : tzEntry, override : BOOLEAN] \cup [kind : {"invalid"}]

\* Line k is the last word on its abbreviation.
LastWord(text, k) ==
  /\ k \in 1..Len(text) /\ text[k].kind = "entry"
  /\ \A j \in 1..Len(text) :
       j > k /\ text[j].kind = "entry" => text[j].entry.abbrev # text[k].entry.abbrev

\* An entry does not contradict what the text has said so far, or may do so.
Agrees(text, l) ==
  \A e \in Meaning(text) : e.abbrev = l.entry.abbrev => l.override \/ e = l.entry

\* A set of positions has a last one.
LEMMA MaxFacts ==
  ASSUME NEW n \in Nat, NEW S \in SUBSET (1..n), S # {}
  PROVE  Max(S) \in S /\ \A x \in S : x <= Max(S)
<1> DEFINE T == {n - x : x \in S}
<1>1. PICK m \in T : \A y \in T : m <= y
  <2>1. T \in SUBSET Nat OBVIOUS
  <2>2. T # {} OBVIOUS
  <2> HIDE DEF T
  <2> QED BY <2>1, <2>2, LeastNatural
<1>2. PICK k \in S : m = n - k
  BY <1>1
<1>3. \A x \in S : n - k <= n - x
  BY <1>1, <1>2
<1>4. \A x \in S : k >= x
  BY <1>3
<1>5. \E k1 \in S : \A x \in S : k1 >= x
  BY <1>4
<1>6. Max(S) \in S /\ \A x \in S : Max(S) >= x
  BY <1>5 DEF Max
<1>7. \A x \in S : x \in Int
  OBVIOUS
<1> QED BY <1>6, <1>7

\* There is only one.
LEMMA MaxIs ==
  ASSUME NEW n \in Nat, NEW S \in SUBSET (1..n), NEW k \in S, \A x \in S : x <= k
  PROVE  Max(S) = k
<1>1. Max(S) \in S /\ \A x \in S : x <= Max(S) BY MaxFacts
<1>2. Max(S) \in 1..n /\ k \in 1..n /\ Max(S) <= k /\ k <= Max(S)
  <2>1. \A x \in S : x \in 1..n OBVIOUS
  <2> QED BY <1>1, <2>1
<1> QED BY <1>2

\* What is in a line.
LEMMA LineParts ==
  ASSUME NEW text \in Seq(TextLines), NEW k \in 1..Len(text)
  PROVE  /\ text[k] \in TextLines
         /\ text[k].kind \in {"entry", "invalid"}
         /\ text[k].kind = "entry" =>
              /\ text[k].entry \in tzEntry /\ text[k].override \in BOOLEAN
              /\ text[k].entry.abbrev \in Abbrevs
<1>1. text[k] \in TextLines OBVIOUS
<1> QED BY <1>1 DEF TextLines, tzEntry

\* A text comes to its last words.
LEMMA MeaningIs ==
  ASSUME NEW text \in Seq(TextLines)
  PROVE  \A e : e \in Meaning(text) <=> \E k \in 1..Len(text) : LastWord(text, k) /\ e = text[k].entry
<1> DEFINE n == Len(text)
<1>1. n \in Nat /\ DOMAIN text = 1..n OBVIOUS
<1>2. ASSUME NEW a \in Abbrevs, Places(text, a) # {}
      PROVE  LET k == Max(Places(text, a))
             IN  k \in 1..n /\ LastWord(text, k) /\ text[k].entry.abbrev = a
  <2> DEFINE k == Max(Places(text, a))
  <2>1. Places(text, a) \in SUBSET (1..n) BY <1>1 DEF Places
  <2>2. k \in Places(text, a) /\ \A x \in Places(text, a) : x <= k
    BY <1>1, <1>2, <2>1, MaxFacts
  <2> HIDE DEF k
  <2>3. k \in 1..n /\ text[k].kind = "entry" /\ text[k].entry.abbrev = a
    BY <1>1, <2>2 DEF Places
  <2>4. \A j \in 1..n : j > k => j \notin Places(text, a)
    BY <2>2, <2>3
  <2>5. LastWord(text, k)
    BY <1>1, <2>3, <2>4 DEF LastWord, Places
  <2> QED BY <2>3, <2>5 DEF k
<1>3. ASSUME NEW k \in 1..n, LastWord(text, k)
      PROVE  LET a == text[k].entry.abbrev
             IN  a \in Abbrevs /\ Places(text, a) # {} /\ Max(Places(text, a)) = k
  <2> DEFINE a == text[k].entry.abbrev
  <2>1. a \in Abbrevs BY <1>3, LineParts DEF LastWord
  <2>2. k \in Places(text, a) BY <1>1, <1>3 DEF LastWord, Places
  <2>3. Places(text, a) \in SUBSET (1..n) BY <1>1 DEF Places
  <2>4. \A x \in Places(text, a) : x <= k
    BY <1>1, <1>3 DEF LastWord, Places
  <2>5. Max(Places(text, a)) = k BY <1>1, <2>2, <2>3, <2>4, MaxIs
  <2> QED BY <2>1, <2>2, <2>5
<1> HIDE DEF n
<1>4. ASSUME NEW e, e \in Meaning(text)
      PROVE  \E k \in 1..n : LastWord(text, k) /\ e = text[k].entry
  <2>1. PICK a \in Abbrevs : Places(text, a) # {} /\ e = text[Max(Places(text, a))].entry
    BY <1>4 DEF Meaning
  <2> QED BY <1>2, <2>1
<1>5. ASSUME NEW e, NEW k \in 1..n, LastWord(text, k), e = text[k].entry
      PROVE  e \in Meaning(text)
  BY <1>3, <1>5 DEF Meaning
<1> QED BY <1>4, <1>5 DEF n

\* A text and one line more.
LEMMA OneMore ==
  ASSUME NEW text \in Seq(TextLines), NEW l \in TextLines
  PROVE  /\ text \o <<l>> \in Seq(TextLines)
         /\ Len(text \o <<l>>) = Len(text) + 1
         /\ \A k \in 1..Len(text) : (text \o <<l>>)[k] = text[k]
         /\ (text \o <<l>>)[Len(text) + 1] = l
<1>1. <<l>> \in Seq(TextLines) /\ Len(<<l>>) = 1 /\ <<l>>[1] = l OBVIOUS
<1>2. Len(text) \in Nat OBVIOUS
<1>3. /\ text \o <<l>> \in Seq(TextLines)
      /\ Len(text \o <<l>>) = Len(text) + Len(<<l>>)
      /\ \A k \in 1..(Len(text) + Len(<<l>>)) :
           (text \o <<l>>)[k] = IF k <= Len(text) THEN text[k] ELSE <<l>>[k - Len(text)]
  BY <1>1, ConcatProperties
<1>4. (text \o <<l>>)[Len(text) + 1] = <<l>>[1]
  <2>1. Len(text) + 1 \in 1..(Len(text) + Len(<<l>>)) /\ ~ (Len(text) + 1 <= Len(text))
        /\ Len(text) + 1 - Len(text) = 1
    BY <1>1, <1>2
  <2> QED BY <1>3, <2>1
<1> QED BY <1>1, <1>2, <1>3, <1>4

\* A good line more: the text stays good, and the line is the last word.
LEMMA GoodLine ==
  ASSUME NEW text \in Seq(TextLines), NEW l \in TextLines, WellFormed(text),
         l.kind = "entry", validateTzEntry(l.entry), Agrees(text, l)
  PROVE  /\ WellFormed(text \o <<l>>)
         /\ Meaning(text \o <<l>>)
              = {e \in Meaning(text) : e.abbrev # l.entry.abbrev} \cup {l.entry}
<1> DEFINE n == Len(text)
           more == text \o <<l>>
<1>1. /\ n \in Nat /\ DOMAIN text = 1..n /\ more \in Seq(TextLines)
      /\ Len(more) = n + 1 /\ DOMAIN more = 1..(n + 1)
      /\ \A k \in 1..n : more[k] = text[k]
      /\ more[n + 1] = l
  BY OneMore
<1>2. l.entry \in tzEntry /\ l.entry.abbrev \in Abbrevs /\ l.override \in BOOLEAN
  BY DEF TextLines, tzEntry
<1> HIDE DEF n, more
<1>3. \A k \in 1..(n + 1) : more[k].kind = "entry" /\ validateTzEntry(more[k].entry)
  BY <1>1 DEF WellFormed
<1>4. ASSUME NEW a \in Abbrevs, NEW k \in Places(more, a),
             {j \in Places(more, a) : j < k} # {}, ~ more[k].override
      PROVE  more[k].entry = more[Max({j \in Places(more, a) : j < k})].entry
  <2> DEFINE before == {j \in Places(more, a) : j < k}
  <2>1. k \in 1..(n + 1) /\ before \subseteq 1..n BY <1>1 DEF Places
  <2>2. before = {j \in Places(text, a) : j < k} BY <1>1, <2>1 DEF Places
  <2>3. Max(before) \in before /\ \A x \in before : x <= Max(before)
    <3>1. before # {} /\ before \in SUBSET (1..n) BY <1>4, <2>1
    <3> HIDE DEF before
    <3> QED BY <1>1, <3>1, MaxFacts
  <2>4. more[Max(before)] = text[Max(before)] BY <1>1, <2>1, <2>3
  <2>5. CASE k \in 1..n
    <3>1. k \in Places(text, a) /\ more[k] = text[k] BY <1>1, <2>5 DEF Places
    <3>2. text[k].entry = text[Max(before)].entry
      BY <1>4, <2>2, <3>1 DEF WellFormed
    <3> QED BY <2>4, <3>1, <3>2
  <2>6. CASE k = n + 1
    <3>1. more[k] = l /\ l.entry.abbrev = a BY <1>1, <2>6 DEF Places
    <3> DEFINE m == Max(before)
    <3>2. m \in 1..n /\ text[m].kind = "entry" /\ text[m].entry.abbrev = a
      BY <1>1, <2>2, <2>3 DEF Places
    <3>3. \A j \in 1..n : j > m => j \notin before
      <4>1. \A x \in before : x <= m BY <2>3
      <4> HIDE DEF m, before
      <4> QED BY <1>1, <3>2, <4>1
    <3>4. \A j \in 1..n : j > m => j \notin Places(text, a)
      BY <1>1, <2>2, <2>6, <3>3
    <3>5. LastWord(text, m) BY <1>1, <3>2, <3>4 DEF LastWord, Places, n
    <3>6. text[m].entry \in Meaning(text) BY <3>2, <3>5, MeaningIs DEF n
    <3>7. text[m].entry = l.entry BY <1>4, <3>1, <3>2, <3>6 DEF Agrees
    <3> QED BY <2>4, <3>1, <3>7
  <2> QED BY <1>1, <2>1, <2>5, <2>6
<1>5. WellFormed(more)
  <2>1. \A k \in DOMAIN more : more[k].kind = "entry" /\ validateTzEntry(more[k].entry)
    BY <1>1, <1>3
  <2> QED BY <1>4, <2>1 DEF WellFormed
<1>6. LastWord(more, n + 1) BY <1>1 DEF LastWord
<1>7. ASSUME NEW k \in 1..n
      PROVE  LastWord(more, k)
               <=> LastWord(text, k) /\ text[k].entry.abbrev # l.entry.abbrev
  <2>1. \A x \in Nat : x \in 1..(n + 1) <=> x \in 1..n \/ x = n + 1 BY <1>1
  <2>2. LastWord(more, k) <=>
          /\ text[k].kind = "entry"
          /\ \A j \in 1..n :
               j > k /\ text[j].kind = "entry" => text[j].entry.abbrev # text[k].entry.abbrev
          /\ l.entry.abbrev # text[k].entry.abbrev
    <3>1. n + 1 > k /\ k \in 1..(n + 1) /\ more[k] = text[k] BY <1>1
    <3>2. ASSUME LastWord(more, k)
          PROVE  /\ text[k].kind = "entry"
                 /\ \A j \in 1..n :
                     j > k /\ text[j].kind = "entry" => text[j].entry.abbrev # text[k].entry.abbrev
                 /\ l.entry.abbrev # text[k].entry.abbrev
      BY <1>1, <2>1, <3>1, <3>2 DEF LastWord
    <3>3. ASSUME /\ text[k].kind = "entry"
                 /\ \A j \in 1..n :
                     j > k /\ text[j].kind = "entry" => text[j].entry.abbrev # text[k].entry.abbrev
                 /\ l.entry.abbrev # text[k].entry.abbrev
          PROVE  LastWord(more, k)
      <4>1. ASSUME NEW j \in 1..(n + 1), j > k, more[j].kind = "entry"
            PROVE  more[j].entry.abbrev # more[k].entry.abbrev
        BY <1>1, <2>1, <3>1, <3>3, <4>1
      <4> QED BY <1>1, <3>1, <3>3, <4>1 DEF LastWord
    <3> QED BY <3>2, <3>3
  <2>3. LastWord(text, k) <=>
          /\ text[k].kind = "entry"
          /\ \A j \in 1..n :
               j > k /\ text[j].kind = "entry" => text[j].entry.abbrev # text[k].entry.abbrev
    BY DEF LastWord, n
  <2> QED BY <2>2, <2>3
<1>8. \A e : e \in Meaning(more)
               <=> (e \in Meaning(text) /\ e.abbrev # l.entry.abbrev) \/ e = l.entry
  <2> TAKE e
  <2>1. e \in Meaning(more) <=> \E k \in 1..(n + 1) : LastWord(more, k) /\ e = more[k].entry
    BY <1>1, MeaningIs
  <2>2. e \in Meaning(text) <=> \E k \in 1..n : LastWord(text, k) /\ e = text[k].entry
    BY MeaningIs DEF n
  <2>3. ASSUME NEW k \in 1..(n + 1), LastWord(more, k), e = more[k].entry, k # n + 1
        PROVE  e \in Meaning(text) /\ e.abbrev # l.entry.abbrev
    <3>1. k \in 1..n BY <1>1, <2>3
    <3> QED BY <1>1, <1>7, <2>2, <2>3, <3>1
  <2>4. ASSUME e \in Meaning(text), e.abbrev # l.entry.abbrev PROVE e \in Meaning(more)
    <3>1. PICK k \in 1..n : LastWord(text, k) /\ e = text[k].entry BY <2>2, <2>4
    <3>2. LastWord(more, k) /\ e = more[k].entry BY <1>1, <1>7, <2>4, <3>1
    <3>3. k \in 1..(n + 1) BY <1>1
    <3> QED BY <2>1, <3>2, <3>3
  <2>5. n + 1 \in 1..(n + 1) BY <1>1
  <2> QED BY <1>1, <1>6, <2>1, <2>3, <2>4, <2>5
<1>9. Meaning(more) = {e \in Meaning(text) : e.abbrev # l.entry.abbrev} \cup {l.entry}
  BY <1>8
<1> QED BY <1>5, <1>9 DEF more

\* A bad line is never made good by what follows.
LEMMA BadLine ==
  ASSUME NEW text \in Seq(TextLines), NEW l \in TextLines, NEW rest \in Seq(TextLines),
         ~ (l.kind = "entry" /\ validateTzEntry(l.entry) /\ Agrees(text, l))
  PROVE  ~ WellFormed((text \o <<l>>) \o rest)
<1> DEFINE n == Len(text)
           start == text \o <<l>>
           more == start \o rest
<1>1. /\ n \in Nat /\ DOMAIN text = 1..n /\ start \in Seq(TextLines)
      /\ Len(start) = n + 1
      /\ \A k \in 1..n : start[k] = text[k]
      /\ start[n + 1] = l
  BY OneMore
<1> HIDE DEF n, start
<1>2. /\ more \in Seq(TextLines) /\ Len(rest) \in Nat
      /\ Len(more) = n + 1 + Len(rest) /\ DOMAIN more = 1..(n + 1 + Len(rest))
      /\ \A k \in 1..n : more[k] = text[k]
      /\ more[n + 1] = l
  <2>1. /\ more \in Seq(TextLines)
        /\ Len(more) = Len(start) + Len(rest)
        /\ \A k \in 1..(Len(start) + Len(rest)) :
             more[k] = IF k <= Len(start) THEN start[k] ELSE rest[k - Len(start)]
    BY <1>1, ConcatProperties
  <2>2. Len(rest) \in Nat OBVIOUS
  <2> HIDE DEF more
  <2> QED BY <1>1, <2>1, <2>2
<1> HIDE DEF more
<1> SUFFICES ASSUME WellFormed(more) PROVE FALSE BY DEF more, start
<1>3. n + 1 \in DOMAIN more BY <1>1, <1>2
<1>4. l.kind = "entry" /\ validateTzEntry(l.entry) BY <1>2, <1>3 DEF WellFormed
<1>5. PICK e \in Meaning(text) : e.abbrev = l.entry.abbrev /\ ~ l.override /\ e # l.entry
  BY <1>4 DEF Agrees
<1>6. PICK k \in 1..n : LastWord(text, k) /\ e = text[k].entry BY <1>5, MeaningIs DEF n
<1> DEFINE a == l.entry.abbrev
           before == {j \in Places(more, a) : j < n + 1}
<1>7. a \in Abbrevs BY <1>4 DEF TextLines, tzEntry
<1>8. n + 1 \in Places(more, a) BY <1>2, <1>3, <1>4 DEF Places
<1>9. k \in before BY <1>1, <1>2, <1>5, <1>6 DEF Places, LastWord
<1>10. before \in SUBSET (1..n) BY <1>1, <1>2 DEF Places
<1>11. \A x \in before : x <= k
  <2> TAKE x \in before
  <2>1. x \in 1..n /\ text[x].kind = "entry" /\ text[x].entry.abbrev = a
    BY <1>1, <1>2, <1>10 DEF Places
  <2>2. ~ (x > k) BY <1>5, <1>6, <2>1 DEF LastWord, n
  <2> QED BY <1>1, <2>1, <2>2
<1>12. Max(before) = k
  <2> HIDE DEF before
  <2> QED BY <1>1, <1>9, <1>10, <1>11, MaxIs
<1>13. more[n + 1].entry = more[Max(before)].entry
  <2>1. before # {} BY <1>9
  <2> QED BY <1>2, <1>5, <1>7, <1>8, <2>1 DEF WellFormed
<1> QED BY <1>2, <1>5, <1>6, <1>12, <1>13

----------------------------------------------------------------------------
(* What the files say *)

Bad == [kind |-> "invalid"]

\* What a file says, when f is what is said with less room.
Says(f, room) ==
  [name \in Names |->
     IF room = 0 \/ name \notin Alphabetic \cap DOMAIN Files
     THEN <<Bad>> ELSE FileText(f[room - 1], name)]

\* The recursion of Reading has a value.
LEMMA ReadingIs ==
  \A room \in 0..(MAX_DEPTH + 1) : Reading[room] = Says(Reading, room)
<1> DEFINE Upwards(f, n) == f = [room \in 0..n |-> Says(f, room)]
           T == {n \in Nat : ~ \E f : Upwards(f, n)}
<1>1. T = {}
  <2> SUFFICES ASSUME T # {} PROVE FALSE OBVIOUS
  <2>1. PICK n \in T : \A x \in T : n <= x
    <3>1. T \in SUBSET Nat OBVIOUS
    <3> HIDE DEF T
    <3> QED BY <3>1, LeastNatural
  <2>2. n \in Nat /\ ~ \E f : Upwards(f, n) BY <2>1
  <2>3. n # 0
    <3> DEFINE e == [room \in 0..0 |-> [name \in Names |-> <<Bad>>]]
    <3>1. \A room \in 0..0 : Says(e, room) = [name \in Names |-> <<Bad>>]
      BY DEF Says
    <3>2. Upwards(e, 0) BY <3>1
    <3> QED BY <2>2, <3>2
  <2>4. n - 1 \in Nat /\ ~ (n <= n - 1) BY <2>2, <2>3
  <2>5. n - 1 \notin T BY <2>1, <2>4
  <2>6. PICK f : Upwards(f, n - 1) BY <2>4, <2>5
  <2> DEFINE g == [room \in 0..n |-> IF room = n THEN Says(f, n) ELSE f[room]]
  <2>7. ASSUME NEW room \in 0..n PROVE Says(g, room) = Says(f, room)
    <3>1. CASE room = 0 BY <3>1 DEF Says
    <3>2. CASE room # 0
      <4>1. room - 1 \in 0..n /\ room - 1 # n BY <2>2, <3>2
      <4>2. g[room - 1] = f[room - 1] BY <4>1
      <4> QED BY <4>2 DEF Says
    <3> QED BY <3>1, <3>2
  <2>8. ASSUME NEW room \in 0..n PROVE g[room] = Says(g, room)
    <3>1. CASE room = n BY <2>7, <3>1
    <3>2. CASE room # n
      <4>1. room \in 0..(n - 1) BY <2>2, <3>2
      <4>2. f[room] = Says(f, room) BY <2>6, <4>1
      <4> QED BY <2>7, <3>2, <4>2
    <3> QED BY <3>1, <3>2
  <2>9. Upwards(g, n)
    <3>1. g = [room \in 0..n |-> g[room]] OBVIOUS
    <3> HIDE DEF g
    <3> QED BY <2>8, <3>1
  <2> QED BY <2>2, <2>9
<1>2. MAX_DEPTH + 1 \in Nat BY AbbrevAssumption
<1>3. PICK f : Upwards(f, MAX_DEPTH + 1) BY <1>1, <1>2
<1>4. f = [room \in 0..(MAX_DEPTH + 1) |->
             [name \in Names |->
                IF room = 0 \/ name \notin Alphabetic \cap DOMAIN Files
                THEN <<[kind |-> "invalid"]>>
                ELSE FileText(f[room - 1], name)]]
  BY <1>3 DEF Says, Bad
<1>5. Reading = [room \in 0..(MAX_DEPTH + 1) |->
             [name \in Names |->
                IF room = 0 \/ name \notin Alphabetic \cap DOMAIN Files
                THEN <<[kind |-> "invalid"]>>
                ELSE FileText(Reading[room - 1], name)]]
  BY <1>4 DEF Reading
<1> QED BY <1>5 DEF Says, Bad

\* The files that are read at all.
Readables == Alphabetic \cap DOMAIN Files

\* What each line of a file says.
FileLines(room, name) ==
  [k \in 1..Len(Files[name]) |-> LineText(Reading[room - 1], name, k)]

\* What its first k lines say.
Partial(room, name, k) == Upto(FileLines(room, name), k)

\* A line of a file.
LEMMA FileLine ==
  ASSUME NEW name \in Readables, NEW k \in 1..Len(Files[name])
  PROVE  /\ name \in Names /\ Len(Files[name]) \in Nat
         /\ Files[name][k] \in Lines
         /\ Files[name][k].kind \in {"entry", "include", "override", "invalid"}
         /\ Files[name][k].kind = "include" => Files[name][k].file \in Names
         /\ Files[name][k].kind = "invalid" => Files[name][k] = Bad
         /\ Files[name][k].kind = "entry" => Entry(Files[name][k]) \in tzEntry
<1>1. Files[name] \in Seq(Lines) /\ name \in Names
  BY AbbrevAssumption DEF Readables
<1>2. Files[name][k] \in Lines /\ Len(Files[name]) \in Nat BY <1>1
<1> DEFINE l == Files[name][k]
<1>3. l \in Lines BY <1>2
<1> HIDE DEF l
<1>4. /\ l.kind \in {"entry", "include", "override", "invalid"}
      /\ l.kind = "include" => l.file \in Names
      /\ l.kind = "entry" => Entry(l) \in tzEntry
  BY <1>3 DEF Lines, Entry, tzEntry
<1>5. l.kind = "invalid" => l = Bad
  <2> SUFFICES ASSUME l.kind = "invalid" PROVE l = Bad OBVIOUS
  <2>1. l \in [kind : {"override", "invalid"}] BY <1>3 DEF Lines
  <2> QED BY <2>1 DEF Bad
<1> QED BY <1>1, <1>2, <1>4, <1>5 DEF l

\* What a line says are lines of a text, if that is so of what it includes.
LEMMA LineTextType ==
  ASSUME NEW inner \in [Names -> Seq(TextLines)], NEW name \in Readables,
         NEW k \in 1..Len(Files[name])
  PROVE  LineText(inner, name, k) \in Seq(TextLines)
<1> DEFINE l == Files[name][k]
           o == \E j \in 1..(k - 1) : Files[name][j].kind = "override"
<1>1. /\ l.kind \in {"entry", "include", "override", "invalid"}
      /\ l.kind = "include" => l.file \in Names
      /\ l.kind = "invalid" => l = Bad
      /\ l.kind = "entry" => Entry(l) \in tzEntry
  BY FileLine
<1>2. LineText(inner, name, k) =
        IF l.kind = "include" THEN inner[l.file]
        ELSE IF l.kind = "entry"
        THEN <<[kind |-> "entry", entry |-> Entry(l), override |-> o]>>
        ELSE IF l.kind = "invalid" THEN <<l>> ELSE <<>>
  BY DEF LineText
<1>3. o \in BOOLEAN OBVIOUS
<1> HIDE DEF l, o
<1>4. CASE l.kind = "include" BY <1>1, <1>2, <1>4
<1>5. CASE l.kind = "entry"
  <2>1. [kind |-> "entry", entry |-> Entry(l), override |-> o] \in TextLines
    BY <1>1, <1>3, <1>5 DEF TextLines
  <2> QED BY <1>2, <1>5, <2>1
<1>6. CASE l.kind = "invalid"
  <2>1. Bad \in TextLines BY DEF Bad, TextLines
  <2> QED BY <1>1, <1>2, <1>6, <2>1
<1>7. CASE l.kind = "override" BY <1>2, <1>7
<1> QED BY <1>1, <1>4, <1>5, <1>6, <1>7

\* What all the lines of a file say.
LEMMA FileTextIs ==
  ASSUME NEW room \in 1..(MAX_DEPTH + 1), NEW name \in Readables
  PROVE  Reading[room][name] = Partial(room, name, Len(Files[name]))
<1>1. name \in Names /\ room \in 0..(MAX_DEPTH + 1) /\ room # 0
  BY AbbrevAssumption DEF Readables
<1>2. Reading[room][name] = FileText(Reading[room - 1], name)
  BY <1>1, ReadingIs DEF Says, Readables
<1> DEFINE n == Len(Files[name])
<1>3. [k \in 1..n |-> FileLines(room, name)[k]]
        = [k \in 1..n |-> LineText(Reading[room - 1], name, k)]
  BY DEF FileLines
<1> QED BY <1>2, <1>3 DEF FileText, Partial, Upto

\* What a file says are lines of a text.
LEMMA ReadingType ==
  \A room \in 0..(MAX_DEPTH + 1) : Reading[room] \in [Names -> Seq(TextLines)]
<1> DEFINE T == {room \in 0..(MAX_DEPTH + 1) : Reading[room] \notin [Names -> Seq(TextLines)]}
<1> SUFFICES ASSUME T # {} PROVE FALSE OBVIOUS
<1>0. MAX_DEPTH + 1 \in Nat BY AbbrevAssumption
<1>1. PICK room \in T : \A x \in T : room <= x
  <2>1. T \in SUBSET Nat BY <1>0
  <2> HIDE DEF T
  <2> QED BY <2>1, LeastNatural
<1>2. room \in 0..(MAX_DEPTH + 1) /\ Reading[room] \notin [Names -> Seq(TextLines)] BY <1>1
<1>3. <<Bad>> \in Seq(TextLines)
  <2>1. Bad \in TextLines BY DEF Bad, TextLines
  <2> QED BY <2>1
<1>4. ASSUME NEW name \in Names PROVE Says(Reading, room)[name] \in Seq(TextLines)
  <2>1. CASE room = 0 \/ name \notin Readables BY <1>3, <2>1 DEF Says, Readables
  <2>2. CASE room # 0 /\ name \in Readables
    <3>1. room \in 1..(MAX_DEPTH + 1) /\ room - 1 \in 0..(MAX_DEPTH + 1) /\ ~ (room <= room - 1)
      BY <1>0, <1>2, <2>2
    <3>2. Reading[room - 1] \in [Names -> Seq(TextLines)] BY <1>1, <3>1
    <3> DEFINE n == Len(Files[name])
    <3>3. \A k \in 1..n : FileLines(room, name)[k] \in Seq(TextLines)
      <4>1. \A k \in 1..n : LineText(Reading[room - 1], name, k) \in Seq(TextLines)
        BY <2>2, <3>2, LineTextType
      <4> QED BY <4>1 DEF FileLines
    <3>4. n \in Nat BY <2>2, AbbrevAssumption DEF Readables
    <3> HIDE DEF n
    <3>5. Upto(FileLines(room, name), n) \in Seq(TextLines)
      <4> DEFINE parts == FileLines(room, name)
      <4>1. \A k \in 1..n : parts[k] \in Seq(TextLines) BY <3>3
      <4> HIDE DEF parts
      <4>2. \A k \in 0..n : Upto(parts, k) \in Seq(TextLines) BY <3>4, <4>1, UptoNext
      <4>3. n \in 0..n BY <3>4
      <4> QED BY <4>2, <4>3 DEF parts
    <3>6. Reading[room][name] = Partial(room, name, n) BY <2>2, <3>1, FileTextIs DEF n
    <3>7. Reading[room] = Says(Reading, room) BY <1>2, ReadingIs
    <3> QED BY <3>5, <3>6, <3>7 DEF Partial
  <2> QED BY <2>1, <2>2
<1>5. Says(Reading, room) \in [Names -> Seq(TextLines)]
  <2>1. Says(Reading, room) = [name \in Names |-> Says(Reading, room)[name]] BY DEF Says
  <2> QED BY <1>4, <2>1
<1> QED BY <1>2, <1>5, ReadingIs

\* A file that is not opened reads as a line in error.
LEMMA NotOpened ==
  ASSUME NEW name \in Names, NEW depth \in 0..(MAX_DEPTH + 1), ~ Opens(name, depth)
  PROVE  Reading[MAX_DEPTH + 1 - depth][name] = <<Bad>>
<1>1. MAX_DEPTH + 1 - depth \in 0..(MAX_DEPTH + 1) BY AbbrevAssumption
<1>2. MAX_DEPTH + 1 - depth = 0 \/ name \notin Readables
  BY AbbrevAssumption DEF Opens, Readables
<1> QED BY <1>1, <1>2, ReadingIs DEF Says, Readables

\* Line by line, and with what is still to come.
LEMMA PartialFacts ==
  ASSUME NEW room \in 1..(MAX_DEPTH + 1), NEW name \in Readables
  PROVE  LET n == Len(Files[name])
             P(k) == Partial(room, name, k)
         IN  /\ P(0) = <<>> /\ P(n) = Reading[room][name]
             /\ \A k \in 1..n : P(k) = P(k - 1) \o LineText(Reading[room - 1], name, k)
             /\ \A k \in 0..n : P(k) \in Seq(TextLines)
             /\ \A k \in 1..n : LineText(Reading[room - 1], name, k) \in Seq(TextLines)
             /\ \A k \in 0..n : \E rest \in Seq(TextLines) : P(k) \o rest = Reading[room][name]
<1> DEFINE n == Len(Files[name])
           P(k) == Partial(room, name, k)
           L(k) == LineText(Reading[room - 1], name, k)
<1>1. n \in Nat BY AbbrevAssumption DEF Readables
<1>2. room - 1 \in 0..(MAX_DEPTH + 1) BY AbbrevAssumption
<1>3. \A k \in 1..n : L(k) \in Seq(TextLines) BY <1>2, LineTextType, ReadingType
<1>4. \A k \in 1..n : FileLines(room, name)[k] = L(k) BY DEF FileLines
<1>5. /\ P(0) = <<>>
      /\ \A k \in 1..n : P(k) = P(k - 1) \o L(k)
      /\ \A k \in 0..n : P(k) \in Seq(TextLines)
  <2>1. \A k \in 1..n : FileLines(room, name)[k] \in Seq(TextLines) BY <1>3, <1>4
  <2> HIDE DEF n, L
  <2>2. /\ Upto(FileLines(room, name), 0) = <<>>
        /\ \A k \in 1..n : Upto(FileLines(room, name), k)
                             = Upto(FileLines(room, name), k - 1) \o FileLines(room, name)[k]
        /\ \A k \in 0..n : Upto(FileLines(room, name), k) \in Seq(TextLines)
    BY <1>1, <2>1, UptoNext
  <2> QED BY <1>4, <2>2 DEF Partial
<1>6. P(n) = Reading[room][name] BY FileTextIs
<1> HIDE DEF n, P, L
<1> DEFINE T == {d \in 0..n : ~ \E rest \in Seq(TextLines) : P(n - d) \o rest = P(n)}
<1>7. T = {}
  <2> SUFFICES ASSUME T # {} PROVE FALSE OBVIOUS
  <2>1. PICK d \in T : \A x \in T : d <= x
    <3>1. T \in SUBSET Nat BY <1>1
    <3> HIDE DEF T
    <3> QED BY <3>1, LeastNatural
  <2>2. d \in 0..n /\ ~ \E rest \in Seq(TextLines) : P(n - d) \o rest = P(n) BY <2>1
  <2>3. d # 0
    <3>1. <<>> \in Seq(TextLines) /\ n \in 0..n /\ n - 0 = n BY <1>1
    <3>2. P(n) \o <<>> = P(n) BY <1>5, <3>1, ConcatEmptySeq
    <3> QED BY <2>2, <3>1, <3>2
  <2>4. d - 1 \in 0..n /\ ~ (d <= d - 1) /\ n - (d - 1) = n - d + 1
        /\ n - d + 1 \in 1..n /\ n - d \in 0..n /\ (n - d + 1) - 1 = n - d
    BY <1>1, <2>2, <2>3
  <2>5. d - 1 \notin T BY <2>1, <2>4
  <2>6. PICK rest \in Seq(TextLines) : P(n - d + 1) \o rest = P(n) BY <2>4, <2>5
  <2>7. P(n - d + 1) = P(n - d) \o L(n - d + 1) BY <1>5, <2>4
  <2>8. L(n - d + 1) \in Seq(TextLines) /\ P(n - d) \in Seq(TextLines) BY <1>3, <1>5, <2>4
  <2>9. (P(n - d) \o L(n - d + 1)) \o rest = P(n - d) \o (L(n - d + 1) \o rest)
    BY <2>8, ConcatAssociative
  <2>10. L(n - d + 1) \o rest \in Seq(TextLines) BY <2>8, ConcatProperties
  <2> QED BY <2>2, <2>6, <2>7, <2>9, <2>10
<1>8. ASSUME NEW k \in 0..n PROVE \E rest \in Seq(TextLines) : P(k) \o rest = P(n)
  <2>1. n - k \in 0..n /\ n - (n - k) = k BY <1>1
  <2>2. n - k \notin T BY <1>7
  <2> QED BY <2>1, <2>2
<1> QED BY <1>3, <1>5, <1>6, <1>8 DEF n, P, L

----------------------------------------------------------------------------
(* A load and the text of its files *)

\* The room left for the k-th call.
Room(k) == MAX_DEPTH + 2 - k

\* What an entry line says.
EntryText(name, k) ==
  [kind |-> "entry", entry |-> Entry(Files[name][k]),
   override |-> \E j \in 1..(k - 1) : Files[name][j].kind = "override"]

\* A call is for a file that is read; it is under override if it has passed
\* @OVERRIDE; and what its file says, behind what was read before the call, is a
\* part of the text.
Call(name, stk, before, k) ==
  /\ stk[k].file \in Readables
  /\ stk[k].line \in 1..(Len(Files[stk[k].file]) + 1)
  /\ stk[k].override
       = \E j \in 1..(stk[k].line - 1) : Files[stk[k].file][j].kind = "override"
  /\ \E rest \in Seq(TextLines) :
       (before[k] \o Reading[Room(k)][stk[k].file]) \o rest = Text[name]

\* The k-th call is at an include, that of the next call.
Calls(stk, before, k) ==
  /\ stk[k].line >= 2
  /\ Files[stk[k].file][stk[k].line - 1].kind = "include"
  /\ Files[stk[k].file][stk[k].line - 1].file = stk[k + 1].file
  /\ before[k + 1] = before[k] \o Partial(Room(k), stk[k].file, stk[k].line - 2)

\* The calls of a load, and what was read before each.
Context(name, stk, before) ==
  /\ Len(stk) \in 1..(MAX_DEPTH + 1)
  /\ before \in [1..Len(stk) -> Seq(TextLines)]
  /\ stk[1].file = name /\ before[1] = <<>>
  /\ \A k \in 1..Len(stk) : Call(name, stk, before, k)
  /\ \A k \in 1..(Len(stk) - 1) : Calls(stk, before, k)

\* What has been read.
ReadSoFar(stk, before) ==
  before[Len(stk)] \o Partial(Room(Len(stk)), stk[Len(stk)].file, stk[Len(stk)].line - 1)

\* The array holds what the text comes to as far as it was read.
Holds(name, stk, arr) ==
  \E before : /\ Context(name, stk, before)
              /\ WellFormed(ReadSoFar(stk, before))
              /\ Range(arr) = Meaning(ReadSoFar(stk, before))

\* The innermost call at its next line.
Onward(stk, o) ==
  [stk EXCEPT ![Len(stk)] = [file |-> stk[Len(stk)].file, line |-> stk[Len(stk)].line + 1,
                             override |-> o]]

TextInv ==
  /\ Loading => Holds(filename, stack, array)
  /\ pc = "search" =>
       /\ line.kind = "entry" /\ entry = Entry(line) /\ validateTzEntry(entry)
  /\ LastWordWins

\* Texts one after the other.
LEMMA Texts ==
  \A s, t, u \in Seq(TextLines) :
    s \o t \in Seq(TextLines) /\ (s \o t) \o u = s \o (t \o u)
BY ConcatProperties, ConcatAssociative

\* What a line says, by its kind.
LEMMA LineSays ==
  ASSUME NEW inner, NEW name \in Readables, NEW k \in 1..Len(Files[name])
  PROVE  LET l == Files[name][k]
             t == LineText(inner, name, k)
         IN  /\ l.kind = "include" => t = inner[l.file]
             /\ l.kind = "entry" => t = <<EntryText(name, k)>>
             /\ l.kind = "invalid" => t = <<Bad>>
             /\ l.kind = "override" => t = <<>>
BY FileLine DEF LineText, EntryText

\* What is in a line of the text that is an entry.
LEMMA EntryTextType ==
  ASSUME NEW name \in Readables, NEW k \in 1..Len(Files[name]), Files[name][k].kind = "entry"
  PROVE  /\ EntryText(name, k) \in TextLines
         /\ EntryText(name, k).kind = "entry"
         /\ EntryText(name, k).entry = Entry(Files[name][k])
         /\ EntryText(name, k).override
              = \E j \in 1..(k - 1) : Files[name][j].kind = "override"
<1> DEFINE o == \E j \in 1..(k - 1) : Files[name][j].kind = "override"
           e == Entry(Files[name][k])
<1>1. e \in tzEntry BY FileLine
<1>2. o \in BOOLEAN OBVIOUS
<1>3. EntryText(name, k) = [kind |-> "entry", entry |-> e, override |-> o]
  BY DEF EntryText
<1> HIDE DEF e, o
<1>4. [kind |-> "entry", entry |-> e, override |-> o] \in TextLines
  BY <1>1, <1>2 DEF TextLines
<1>5. EntryText(name, k).override = o BY <1>3
<1> QED BY <1>3, <1>4, <1>5 DEF e, o

\* The innermost call, what was read, and what its line adds.
LEMMA NextText ==
  ASSUME NEW name \in Names, NEW stk, NEW before, Context(name, stk, before)
  PROVE  LET n == Len(stk)
             file == stk[n].file
             k == stk[n].line
             R == ReadSoFar(stk, before)
             L == LineText(Reading[Room(n) - 1], file, k)
         IN  /\ n \in Nat \ {0} /\ k \in Nat \ {0} /\ Len(Files[file]) \in Nat
             /\ n \in 1..(MAX_DEPTH + 1) /\ Room(n) \in 1..(MAX_DEPTH + 1)
             /\ file \in Readables
             /\ k \in 1..(Len(Files[file]) + 1)
             /\ R \in Seq(TextLines)
             /\ k <= Len(Files[file]) =>
                  /\ k \in 1..Len(Files[file])
                  /\ L \in Seq(TextLines)
                  /\ before[n] \o Partial(Room(n), file, k) = R \o L
                  /\ \E rest \in Seq(TextLines) : (R \o L) \o rest = Text[name]
<1> DEFINE n == Len(stk)
           file == stk[n].file
           k == stk[n].line
           R == ReadSoFar(stk, before)
           L == LineText(Reading[Room(n) - 1], file, k)
           P(i) == Partial(Room(n), file, i)
           b == before[n]
<1>1. n \in 1..(MAX_DEPTH + 1) BY DEF Context
<1>2. Room(n) \in 1..(MAX_DEPTH + 1) BY <1>1, AbbrevAssumption DEF Room
<1>3. Call(name, stk, before, n) /\ b \in Seq(TextLines) BY <1>1 DEF Context
<1>4. /\ file \in Readables /\ k \in 1..(Len(Files[file]) + 1)
      /\ \E rest \in Seq(TextLines) : (b \o Reading[Room(n)][file]) \o rest = Text[name]
  BY <1>3 DEF Call
<1>5. Len(Files[file]) \in Nat BY <1>4, AbbrevAssumption DEF Readables
<1>6. /\ \A i \in 1..Len(Files[file]) : P(i) = P(i - 1) \o LineText(Reading[Room(n) - 1], file, i)
      /\ \A i \in 0..Len(Files[file]) : P(i) \in Seq(TextLines)
      /\ \A i \in 1..Len(Files[file]) : LineText(Reading[Room(n) - 1], file, i) \in Seq(TextLines)
      /\ \A i \in 0..Len(Files[file]) :
           \E rest \in Seq(TextLines) : P(i) \o rest = Reading[Room(n)][file]
  BY <1>2, <1>4, PartialFacts
<1>7. R = b \o P(k - 1) BY DEF ReadSoFar
<1>8. k - 1 \in 0..Len(Files[file]) BY <1>4, <1>5
<1> HIDE DEF P, b, R
<1>9. R \in Seq(TextLines) BY <1>3, <1>6, <1>7, <1>8, ConcatProperties
<1>10. ASSUME k <= Len(Files[file])
       PROVE  /\ k \in 1..Len(Files[file])
              /\ L \in Seq(TextLines)
              /\ b \o P(k) = R \o L
              /\ \E rest \in Seq(TextLines) : (R \o L) \o rest = Text[name]
  <2>1. k \in 1..Len(Files[file]) /\ k \in 0..Len(Files[file]) BY <1>4, <1>5, <1>10
  <2>2. L \in Seq(TextLines) /\ P(k) = P(k - 1) \o L /\ P(k) \in Seq(TextLines)
        /\ P(k - 1) \in Seq(TextLines)
    BY <1>6, <1>8, <2>1
  <2> HIDE DEF L, n, file, k
  <2>3. b \o P(k) = R \o L BY <1>3, <1>7, <2>2, Texts
  <2>4. PICK more \in Seq(TextLines) : P(k) \o more = Reading[Room(n)][file] BY <1>6, <2>1
  <2>5. PICK rest \in Seq(TextLines) : (b \o Reading[Room(n)][file]) \o rest = Text[name]
    BY <1>4
  <2>6. (b \o P(k)) \o more = b \o (P(k) \o more)
    <3> DEFINE p == P(k)
    <3>1. p \in Seq(TextLines) BY <2>2
    <3> HIDE DEF p
    <3>2. (b \o p) \o more = b \o (p \o more) BY <1>3, <3>1, Texts
    <3> QED BY <3>2 DEF p
  <2>7. b \o P(k) \in Seq(TextLines) BY <1>3, <2>2, Texts
  <2>8. ((b \o P(k)) \o more) \o rest = (b \o P(k)) \o (more \o rest)
    BY <2>7, Texts
  <2>9. more \o rest \in Seq(TextLines) BY Texts
  <2> QED BY <2>1, <2>2, <2>3, <2>4, <2>5, <2>6, <2>8, <2>9
<1>11. n \in Nat \ {0} /\ k \in Nat \ {0} BY <1>1, <1>4, <1>5, AbbrevAssumption
<1> QED BY <1>1, <1>2, <1>4, <1>5, <1>9, <1>10, <1>11 DEF R, P, b

\* The innermost call goes on to its next line.
LEMMA AdvancedContext ==
  ASSUME NEW name \in Names, NEW stk, NEW before, Context(name, stk, before),
         stk \in Seq(Frames), NEW o \in BOOLEAN,
         stk[Len(stk)].line <= Len(Files[stk[Len(stk)].file]),
         o = (\/ stk[Len(stk)].override
              \/ Files[stk[Len(stk)].file][stk[Len(stk)].line].kind = "override")
  PROVE  /\ Context(name, Onward(stk, o), before)
         /\ ReadSoFar(Onward(stk, o), before)
              = ReadSoFar(stk, before)
                  \o LineText(Reading[Room(Len(stk)) - 1], stk[Len(stk)].file,
                              stk[Len(stk)].line)
<1> DEFINE n == Len(stk)
           file == stk[n].file
           k == stk[n].line
           f == [file |-> file, line |-> k + 1, override |-> o]
           next == [stk EXCEPT ![n] = f]
<1>1. /\ n \in 1..(MAX_DEPTH + 1) /\ Room(n) \in 1..(MAX_DEPTH + 1)
      /\ file \in Readables /\ k \in 1..(Len(Files[file]) + 1) /\ k \in 1..Len(Files[file])
      /\ before[n] \o Partial(Room(n), file, k)
           = ReadSoFar(stk, before) \o LineText(Reading[Room(n) - 1], file, k)
  BY NextText
<1>2. Call(name, stk, before, n) /\ before \in [1..n -> Seq(TextLines)] BY <1>1 DEF Context
<1>3. /\ Len(next) = n /\ \A i \in 1..n : next[i] = IF i = n THEN f ELSE stk[i]
  <2>1. n \in 1..Len(stk) /\ DOMAIN stk = 1..n BY <1>1
  <2> HIDE DEF f
  <2> QED BY <2>1
<1>4. next[n].file = file /\ next[n].line = k + 1 /\ next[n].override = o BY <1>1, <1>3
<1>5. \A i \in 1..n : next[i].file = stk[i].file BY <1>3
<1>6. Len(Files[file]) \in Nat BY <1>1, AbbrevAssumption DEF Readables
<1> HIDE DEF next, f
<1>7. Call(name, next, before, n)
  <2>1. k + 1 \in 1..(Len(Files[file]) + 1) BY <1>1, <1>6
  <2>2. stk[n].override = \E j \in 1..(k - 1) : Files[file][j].kind = "override"
    BY <1>2 DEF Call
  <2>3. \A j \in Int : j \in 1..((k + 1) - 1) <=> j \in 1..(k - 1) \/ j = k BY <1>1
  <2>4. o = \E j \in 1..((k + 1) - 1) : Files[file][j].kind = "override"
    <3>1. o <=> stk[n].override \/ Files[file][k].kind = "override" OBVIOUS
    <3>2. (\E j \in 1..((k + 1) - 1) : Files[file][j].kind = "override")
            <=> (\E j \in 1..(k - 1) : Files[file][j].kind = "override")
                  \/ Files[file][k].kind = "override"
      BY <1>1, <2>3
    <3> HIDE DEF k, file
    <3> QED BY <2>2, <3>1, <3>2
  <2> QED BY <1>2, <1>4, <2>1, <2>4 DEF Call
<1>8. ASSUME NEW i \in 1..n PROVE Call(name, next, before, i)
  <2>1. CASE i = n BY <1>7, <2>1
  <2>2. CASE i # n
    <3>1. next[i] = stk[i] /\ Call(name, stk, before, i) BY <1>3, <2>2 DEF Context
    <3> QED BY <3>1 DEF Call
  <2> QED BY <2>1, <2>2
<1>9. ASSUME NEW i \in 1..(n - 1) PROVE Calls(next, before, i)
  <2>1. i \in 1..n /\ i # n /\ i + 1 \in 1..n BY <1>1
  <2>2. next[i] = stk[i] /\ next[i + 1].file = stk[i + 1].file BY <1>3, <1>5, <2>1
  <2>3. Calls(stk, before, i) BY DEF Context
  <2> QED BY <2>2, <2>3 DEF Calls
<1>10. Context(name, next, before)
  <2>1. 1 \in 1..n /\ next[1].file = name BY <1>1, <1>5 DEF Context
  <2> QED BY <1>1, <1>2, <1>3, <1>8, <1>9, <2>1 DEF Context
<1>11. ReadSoFar(next, before) = before[n] \o Partial(Room(n), file, k)
  <2>1. (k + 1) - 1 = k BY <1>1
  <2> QED BY <1>3, <1>4, <2>1 DEF ReadSoFar
<1>12. Onward(stk, o) = next BY DEF Onward, next, f
<1> QED BY <1>1, <1>10, <1>11, <1>12

----------------------------------------------------------------------------
(* Calls and returns *)

\* A call of ParseTzFile reads on where its caller was.
LEMMA CallContext ==
  ASSUME NEW name \in Names, NEW stk, NEW before, Context(name, stk, before),
         stk \in Seq(Frames), Len(stk) <= MAX_DEPTH,
         stk[Len(stk)].line <= Len(Files[stk[Len(stk)].file]),
         Files[stk[Len(stk)].file][stk[Len(stk)].line].kind = "include",
         NEW file, file = Files[stk[Len(stk)].file][stk[Len(stk)].line].file,
         file \in Readables
  PROVE  LET deeper == Append(Onward(stk, stk[Len(stk)].override), Frame(file))
         IN  \E more : /\ Context(name, deeper, more)
                       /\ ReadSoFar(deeper, more) = ReadSoFar(stk, before)
<1> DEFINE n == Len(stk)
           k == stk[n].line
           o == stk[n].override
           f == [file |-> stk[n].file, line |-> k + 1, override |-> o]
           next == [stk EXCEPT ![n] = f]
           deeper == Append(next, Frame(file))
           R == ReadSoFar(stk, before)
           L == LineText(Reading[Room(n) - 1], stk[n].file, k)
           more == [i \in 1..(n + 1) |-> IF i = n + 1 THEN R ELSE before[i]]
<1>1. /\ n \in Nat \ {0} /\ k \in Nat \ {0}
      /\ n \in 1..(MAX_DEPTH + 1) /\ Room(n) \in 1..(MAX_DEPTH + 1)
      /\ stk[n].file \in Readables /\ k \in 1..Len(Files[stk[n].file])
      /\ R \in Seq(TextLines) /\ L \in Seq(TextLines)
      /\ \E rest \in Seq(TextLines) : (R \o L) \o rest = Text[name]
  BY NextText
<1>2. stk[n] \in Frames /\ o \in BOOLEAN
  <2>1. stk[n] \in Frames BY <1>1
  <2> QED BY <2>1 DEF Frames
<1>0. next = Onward(stk, o) BY DEF Onward
<1>3. Context(name, next, before)
  <2>1. o = (\/ stk[n].override \/ Files[stk[n].file][k].kind = "override")
    <3>1. ~ (Files[stk[n].file][k].kind = "override") OBVIOUS
    <3> QED BY <1>2, <3>1
  <2>2. Context(name, Onward(stk, o), before)
    <3> HIDE DEF next, f, R, L, more, deeper
    <3> QED BY <1>2, <2>1, AdvancedContext
  <2> QED BY <1>0, <2>2
<1>4. /\ next \in Seq(Frames) /\ Len(next) = n
      /\ \A i \in 1..n : next[i] = IF i = n THEN f ELSE stk[i]
  <2>1. f \in Frames
    <3>1. stk[n].file \in DOMAIN Files BY <1>1 DEF Readables
    <3>2. k + 1 \in Nat \ {0} BY <1>1
    <3> HIDE DEF k, o
    <3> QED BY <1>2, <3>1, <3>2 DEF Frames
  <2> HIDE DEF f
  <2> QED BY <1>1, <2>1
<1>5. Frame(file) \in Frames /\ Frame(file).file = file /\ Frame(file).line = 1
      /\ Frame(file).override = FALSE
  BY DEF Frame, Frames, Readables
<1> HIDE DEF next, f
<1>6. /\ Len(deeper) = n + 1 /\ \A i \in 1..n : deeper[i] = next[i]
      /\ deeper[n + 1] = Frame(file)
  <2> DEFINE g == Frame(file)
  <2>1. g \in Frames BY <1>5
  <2> HIDE DEF g, n
  <2> QED BY <1>1, <1>4, <2>1, AppendProperties DEF g
<1> HIDE DEF deeper
<1>7. /\ before \in [1..n -> Seq(TextLines)]
      /\ more \in [1..(n + 1) -> Seq(TextLines)]
      /\ \A i \in 1..n : more[i] = before[i]
      /\ more[n + 1] = R
  <2>1. before \in [1..n -> Seq(TextLines)] BY DEF Context
  <2>2. \A i \in 1..(n + 1) : i # n + 1 => i \in 1..n BY <1>1
  <2>3. n + 1 \in 1..(n + 1) BY <1>1
  <2>4. \A i \in 1..n : i # n + 1 /\ i \in 1..(n + 1) BY <1>1
  <2> HIDE DEF R
  <2> QED BY <1>1, <2>1, <2>2, <2>3, <2>4
<1> HIDE DEF more
<1>8. Room(n + 1) = Room(n) - 1 /\ Room(n + 1) \in 1..(MAX_DEPTH + 1)
  BY <1>1, AbbrevAssumption DEF Room
<1>9. L = Reading[Room(n + 1)][file]
  <2>1. L = Reading[Room(n) - 1][file] BY <1>1, LineSays
  <2> QED BY <1>8, <2>1
<1>10. Call(name, deeper, more, n + 1)
  <2>1. Len(Files[file]) \in Nat BY AbbrevAssumption DEF Readables
  <2>2. 1 \in 1..(Len(Files[file]) + 1)
    <3> DEFINE len == Len(Files[file])
    <3>1. len \in Nat BY <2>1
    <3> HIDE DEF len
    <3>2. 1 \in 1..(len + 1) BY <3>1
    <3> QED BY <3>2 DEF len
  <2>3. \A j \in 1..(1 - 1) : FALSE OBVIOUS
  <2> HIDE DEF R, L, n
  <2> QED BY <1>1, <1>5, <1>6, <1>7, <1>9, <2>2, <2>3 DEF Call
<1>11. ASSUME NEW i \in 1..(n + 1) PROVE Call(name, deeper, more, i)
  <2>1. CASE i = n + 1 BY <1>10, <2>1
  <2>2. CASE i # n + 1
    <3>1. i \in 1..n BY <1>1, <2>2
    <3>2. deeper[i] = next[i] /\ more[i] = before[i] BY <1>6, <1>7, <3>1
    <3>3. Call(name, next, before, i) BY <1>3, <1>4, <3>1 DEF Context
    <3> QED BY <3>2, <3>3 DEF Call
  <2> QED BY <2>1, <2>2
<1>12. Calls(deeper, more, n)
  <2>1. deeper[n] = f /\ deeper[n + 1].file = file /\ more[n] = before[n]
    BY <1>1, <1>4, <1>5, <1>6, <1>7
  <2>2. f.line = k + 1 /\ f.file = stk[n].file BY DEF f
  <2>3. R = before[n] \o Partial(Room(n), stk[n].file, k - 1) BY DEF ReadSoFar
  <2>4. k + 1 >= 2 /\ (k + 1) - 1 = k /\ (k + 1) - 2 = k - 1 BY <1>1
  <2> QED BY <1>7, <2>1, <2>2, <2>3, <2>4 DEF Calls
<1>13. ASSUME NEW i \in 1..((n + 1) - 1) PROVE Calls(deeper, more, i)
  <2>1. CASE i = n BY <1>12, <2>1
  <2>2. CASE i # n
    <3>1. i \in 1..(n - 1) /\ i \in 1..n /\ i + 1 \in 1..n BY <1>1, <2>2
    <3>2. deeper[i] = next[i] /\ deeper[i + 1] = next[i + 1]
          /\ more[i] = before[i] /\ more[i + 1] = before[i + 1]
      BY <1>6, <1>7, <3>1
    <3>3. Calls(next, before, i) BY <1>3, <1>4, <3>1 DEF Context
    <3> QED BY <3>2, <3>3 DEF Calls
  <2> QED BY <2>1, <2>2
<1>14. Context(name, deeper, more)
  <2>1. deeper[1].file = name /\ more[1] = <<>>
    <3>1. 1 \in 1..n BY <1>1
    <3>2. next[1].file = name /\ before[1] = <<>> BY <1>3 DEF Context
    <3> QED BY <1>6, <1>7, <3>1, <3>2
  <2>2. n + 1 \in 1..(MAX_DEPTH + 1) BY <1>1, AbbrevAssumption
  <2> QED BY <1>6, <1>7, <1>11, <1>13, <2>1, <2>2 DEF Context
<1>15. ReadSoFar(deeper, more) = R
  <2>1. Partial(Room(n + 1), file, 0) = <<>> BY <1>8, PartialFacts
  <2>2. R \o <<>> = R BY <1>1, ConcatEmptySeq
  <2>3. 1 - 1 = 0 OBVIOUS
  <2> HIDE DEF R
  <2> QED BY <1>5, <1>6, <1>7, <2>1, <2>2, <2>3 DEF ReadSoFar
<1> QED BY <1>0, <1>14, <1>15 DEF deeper, R

\* At the end of a file its caller has read all of it.
LEMMA ReturnContext ==
  ASSUME NEW name \in Names, NEW stk, NEW before, Context(name, stk, before),
         stk \in Seq(Frames),
         stk[Len(stk)].line > Len(Files[stk[Len(stk)].file])
  PROVE  /\ Len(stk) = 1 => ReadSoFar(stk, before) = Text[name]
         /\ Len(stk) # 1 =>
              \E less : /\ Context(name, Front(stk), less)
                        /\ ReadSoFar(Front(stk), less) = ReadSoFar(stk, before)
<1> DEFINE n == Len(stk)
           file == stk[n].file
           R == ReadSoFar(stk, before)
<1>1. /\ n \in Nat \ {0} /\ stk[n].line \in Nat \ {0} /\ Len(Files[file]) \in Nat
      /\ n \in 1..(MAX_DEPTH + 1) /\ Room(n) \in 1..(MAX_DEPTH + 1)
      /\ file \in Readables /\ stk[n].line \in 1..(Len(Files[file]) + 1)
  BY NextText
<1>2. stk[n].line - 1 = Len(Files[file])
  <2>1. Len(Files[file]) \in Nat BY <1>1, AbbrevAssumption DEF Readables
  <2> QED BY <1>1, <2>1
<1>3. R = before[n] \o Reading[Room(n)][file]
  <2>1. R = before[n] \o Partial(Room(n), file, Len(Files[file])) BY <1>2 DEF ReadSoFar
  <2> QED BY <1>1, <2>1, FileTextIs
<1>4. before \in [1..n -> Seq(TextLines)] BY DEF Context
<1>5. Reading[Room(n)][file] \in Seq(TextLines)
  <2>1. file \in Names /\ Room(n) \in 0..(MAX_DEPTH + 1)
    BY <1>1, AbbrevAssumption DEF Readables
  <2> QED BY <2>1, ReadingType
<1>6. ASSUME n = 1 PROVE R = Text[name]
  <2>1. before[n] = <<>> /\ file = name BY <1>6 DEF Context
  <2>2. Room(n) = MAX_DEPTH + 1 BY <1>6, AbbrevAssumption DEF Room
  <2>3. <<>> \o Reading[Room(n)][file] = Reading[Room(n)][file] BY <1>5, ConcatEmptySeq
  <2> HIDE DEF R, n, file
  <2> QED BY <1>3, <2>1, <2>2, <2>3 DEF Text
<1>7. ASSUME n # 1
      PROVE  \E less : Context(name, Front(stk), less) /\ ReadSoFar(Front(stk), less) = R
  <2> DEFINE m == n - 1
             k == stk[m].line
             F == stk[m].file
             up == Front(stk)
             less == [i \in 1..m |-> before[i]]
             P(i) == Partial(Room(m), F, i)
  <2>1. m \in 1..(MAX_DEPTH + 1) /\ m \in 1..n /\ m \in 1..(n - 1) /\ m + 1 = n
        /\ m \in Nat /\ (n - 1) - 1 = m - 1
    <3> HIDE DEF n
    <3> QED BY <1>1, <1>7, AbbrevAssumption
  <2>2. /\ Len(up) = m /\ \A i \in 1..m : up[i] = stk[i]
    <3>1. up = SubSeq(stk, 1, m) BY DEF Front
    <3>2. \A i \in 1..m : stk[i] \in Frames BY <2>1
    <3> HIDE DEF up, m
    <3>3. /\ Len(SubSeq(stk, 1, m)) = IF 1 <= m THEN m - 1 + 1 ELSE 0
          /\ \A i \in 1..(m - 1 + 1) : SubSeq(stk, 1, m)[i] = stk[1 + i - 1]
      BY <2>1, <3>2, SubSeqProperties
    <3> QED BY <2>1, <3>1, <3>3
  <2> HIDE DEF up
  <2>3. /\ less \in [1..m -> Seq(TextLines)] /\ \A i \in 1..m : less[i] = before[i]
    <3>1. \A i \in 1..m : i \in 1..n BY <1>1, <2>1
    <3> HIDE DEF m, n
    <3> QED BY <1>4, <3>1
  <2> HIDE DEF less
  <2>4. Context(name, up, less)
    <3>1. ASSUME NEW i \in 1..m PROVE Call(name, up, less, i)
      <4>1. Call(name, stk, before, i) BY <1>1, <2>1 DEF Context
      <4> QED BY <2>2, <2>3, <4>1 DEF Call
    <3>2. ASSUME NEW i \in 1..(m - 1) PROVE Calls(up, less, i)
      <4>1. Calls(stk, before, i) /\ i \in 1..m /\ i + 1 \in 1..m BY <1>1, <2>1 DEF Context
      <4> QED BY <2>2, <2>3, <4>1 DEF Calls
    <3>3. up[1].file = name /\ less[1] = <<>>
      <4>1. 1 \in 1..m BY <2>1
      <4> QED BY <2>2, <2>3, <4>1 DEF Context
    <3> QED BY <2>1, <2>2, <2>3, <3>1, <3>2, <3>3 DEF Context
  <2>5. Calls(stk, before, m) /\ Call(name, stk, before, m) BY <2>1 DEF Context
  <2>6. /\ k >= 2 /\ Files[F][k - 1].kind = "include" /\ Files[F][k - 1].file = file
        /\ before[n] = before[m] \o P(k - 2)
        /\ F \in Readables /\ k \in 1..(Len(Files[F]) + 1)
    BY <2>1, <2>5 DEF Calls, Call
  <2>7. Room(m) \in 1..(MAX_DEPTH + 1) /\ Room(m) - 1 = Room(n)
    BY <2>1, AbbrevAssumption DEF Room
  <2>8. k - 1 \in 1..Len(Files[F]) /\ k - 2 \in 0..Len(Files[F]) /\ (k - 1) - 1 = k - 2
    <3> DEFINE len == Len(Files[F])
    <3>1. len \in Nat BY <2>6, AbbrevAssumption DEF Readables
    <3>2. k \in 1..(len + 1) /\ k >= 2 BY <2>6
    <3> HIDE DEF len, k
    <3>3. k - 1 \in 1..len /\ k - 2 \in 0..len /\ (k - 1) - 1 = k - 2 BY <3>1, <3>2
    <3> QED BY <3>3 DEF len
  <2>9. LineText(Reading[Room(m) - 1], F, k - 1) = Reading[Room(n)][file]
    BY <2>6, <2>7, <2>8, LineSays
  <2>10. P(k - 1) = P(k - 2) \o Reading[Room(n)][file] /\ P(k - 2) \in Seq(TextLines)
    <3>1. /\ \A i \in 1..Len(Files[F]) :
               P(i) = P(i - 1) \o LineText(Reading[Room(m) - 1], F, i)
          /\ \A i \in 0..Len(Files[F]) : P(i) \in Seq(TextLines)
      BY <2>6, <2>7, PartialFacts
    <3> HIDE DEF P
    <3> QED BY <2>8, <2>9, <3>1
  <2>11. ReadSoFar(up, less) = before[m] \o P(k - 1)
    <3>1. up[m] = stk[m] /\ less[m] = before[m]
      <4>1. m \in 1..m BY <2>1
      <4> QED BY <2>2, <2>3, <4>1
    <3> QED BY <2>2, <3>1 DEF ReadSoFar
  <2>12. before[m] \in Seq(TextLines) BY <1>4, <2>1
  <2> DEFINE b == before[m]
             p == P(k - 2)
             t == Reading[Room(n)][file]
  <2>13. b \o (p \o t) = (b \o p) \o t
    <3>1. b \in Seq(TextLines) /\ p \in Seq(TextLines) /\ t \in Seq(TextLines)
      BY <1>5, <2>10, <2>12
    <3> HIDE DEF b, p, t
    <3> QED BY <3>1, Texts
  <2>14. ReadSoFar(up, less) = R
    <3>1. R = (b \o p) \o t BY <1>3, <2>6
    <3>2. ReadSoFar(up, less) = b \o (p \o t) BY <2>10, <2>11
    <3> QED BY <2>13, <3>1, <3>2
  <2> QED BY <2>4, <2>14 DEF up
<1> QED BY <1>6, <1>7

----------------------------------------------------------------------------
(* The steps of a load *)

\* Where a load is, in the terms of its text.
LEMMA LoadText ==
  ASSUME Inv, Loading, NEW before, Context(filename, stack, before)
  PROVE  LET n == Len(stack)
             R == ReadSoFar(stack, before)
             L == LineText(Reading[Room(n) - 1], top.file, top.line)
         IN  /\ filename \in Names /\ stack \in Seq(Frames) /\ top = stack[n]
             /\ n \in 1..(MAX_DEPTH + 1) /\ top.file \in Readables
             /\ Room(n) - 1 = MAX_DEPTH + 1 - n
             /\ content = Files[top.file] /\ line = Files[top.file][top.line]
             /\ top.override \in BOOLEAN
             /\ R \in Seq(TextLines)
             /\ top.line <= Len(content) =>
                  /\ top.line \in 1..Len(Files[top.file])
                  /\ L \in Seq(TextLines)
                  /\ \E rest \in Seq(TextLines) : (R \o L) \o rest = Text[filename]
<1>1. filename \in Names /\ stack \in Seq(Frames) BY DEF Inv, Typed, TypeOK
<1>2. top = stack[Len(stack)] /\ top.override \in BOOLEAN
  <2>1. top = stack[Len(stack)] /\ top \in Frames BY TopFrame DEF Inv, Typed
  <2> QED BY <2>1 DEF Frames
<1>3. content = Files[top.file] /\ line = Files[top.file][top.line] BY DEF content, line
<1>4. Room(Len(stack)) - 1 = MAX_DEPTH + 1 - Len(stack)
  <2>1. Len(stack) \in Nat BY <1>1
  <2> QED BY <2>1, AbbrevAssumption DEF Room
<1> QED BY <1>1, <1>2, <1>3, <1>4, NextText

\* A load fails at a line that no text can hold there.
LEMMA FailText ==
  ASSUME Inv, Loading, top.line <= Len(content), Fail,
         NEW before, Context(filename, stack, before),
         NEW l \in TextLines,
         LineText(Reading[Room(Len(stack)) - 1], top.file, top.line) = <<l>>,
         ~ (l.kind = "entry" /\ validateTzEntry(l.entry) /\ Agrees(ReadSoFar(stack, before), l))
  PROVE  TextInv'
<1> DEFINE R == ReadSoFar(stack, before)
<1>1. PICK rest \in Seq(TextLines) : (R \o <<l>>) \o rest = Text[filename] BY LoadText
<1>2. R \in Seq(TextLines) BY LoadText
<1>3. ~ WellFormed(Text[filename]) BY <1>1, <1>2, BadLine
<1>4. pc' = "failed" /\ filename' = filename BY DEF Fail
<1> QED BY <1>3, <1>4 DEF TextInv, LastWordWins, Loading

\* A load goes on behind a line.
LEMMA PassedText ==
  ASSUME Inv, Loading, top.line <= Len(content),
         NEW before, Context(filename, stack, before),
         NEW o \in BOOLEAN, o = (top.override \/ line.kind = "override"),
         filename' = filename, stack' = Advanced(o), pc' = "read",
         NEW more,
         more = ReadSoFar(stack, before)
                  \o LineText(Reading[Room(Len(stack)) - 1], top.file, top.line),
         WellFormed(more), Range(array') = Meaning(more)
  PROVE  TextInv'
<1>1. /\ filename \in Names /\ stack \in Seq(Frames) /\ top = stack[Len(stack)]
      /\ content = Files[top.file] /\ line = Files[top.file][top.line]
  BY LoadText
<1>2. Advanced(o) = Onward(stack, o) BY <1>1 DEF Advanced, Onward
<1>3. Context(filename, Advanced(o), before) /\ ReadSoFar(Advanced(o), before) = more
  <2>1. stack[Len(stack)].line <= Len(Files[stack[Len(stack)].file]) BY <1>1
  <2>2. o = (\/ stack[Len(stack)].override
             \/ Files[stack[Len(stack)].file][stack[Len(stack)].line].kind = "override")
    BY <1>1
  <2>3. more = ReadSoFar(stack, before)
                 \o LineText(Reading[Room(Len(stack)) - 1], stack[Len(stack)].file,
                             stack[Len(stack)].line)
    BY <1>1
  <2> QED BY ONLY <1>1, <1>2, <2>1, <2>2, <2>3, AdvancedContext, o \in BOOLEAN,
                  Context(filename, stack, before)
<1>4. Holds(filename', stack', array') BY <1>3 DEF Holds
<1>5. Holds(filename, stack, array)' BY <1>4 DEF Holds, Context, ReadSoFar
<1> QED BY <1>5 DEF TextInv, LastWordWins

\* What an entry line that is being searched says.
LEMMA SearchedLine ==
  ASSUME Inv, TextInv, pc = "search", NEW before, Context(filename, stack, before)
  PROVE  \E l \in TextLines :
           /\ l.kind = "entry" /\ l.entry = entry /\ l.override = top.override
           /\ validateTzEntry(l.entry)
           /\ LineText(Reading[Room(Len(stack)) - 1], top.file, top.line) = <<l>>
<1>1. Loading /\ top.line <= Len(content) BY DEF Loading, Inv, Typed, AtLine
<1>2. /\ top.file \in Readables /\ top.line \in 1..Len(Files[top.file])
      /\ line = Files[top.file][top.line] /\ top = stack[Len(stack)]
      /\ Len(stack) \in 1..(MAX_DEPTH + 1)
  BY <1>1, LoadText
<1>3. line.kind = "entry" /\ entry = Entry(line) /\ validateTzEntry(entry) BY DEF TextInv
<1> DEFINE l == EntryText(top.file, top.line)
<1>4. /\ l \in TextLines /\ l.kind = "entry" /\ l.entry = entry
      /\ l.override = \E j \in 1..(top.line - 1) : Files[top.file][j].kind = "override"
  BY <1>2, <1>3, EntryTextType
<1>5. Call(filename, stack, before, Len(stack)) BY <1>2 DEF Context
<1>6. l.override = top.override BY <1>2, <1>4, <1>5 DEF Call
<1>7. LineText(Reading[Room(Len(stack)) - 1], top.file, top.line) = <<l>>
  BY <1>2, <1>3, LineSays
<1> HIDE DEF l
<1> QED BY <1>3, <1>4, <1>6, <1>7

LEMMA IncludeText == ASSUME Inv, TextInv, Include PROVE TextInv'
<1>1. Loading /\ top.line <= Len(content) /\ line.kind = "include"
  BY DEF Include, Reads, Loading
<1>2. PICK before : /\ Context(filename, stack, before)
                    /\ WellFormed(ReadSoFar(stack, before))
                    /\ Range(array) = Meaning(ReadSoFar(stack, before))
  BY <1>1 DEF TextInv, Holds
<1> DEFINE n == Len(stack)
<1>3. /\ filename \in Names /\ stack \in Seq(Frames) /\ top = stack[n]
      /\ n \in 1..(MAX_DEPTH + 1) /\ top.file \in Readables
      /\ Room(n) - 1 = MAX_DEPTH + 1 - n
      /\ content = Files[top.file] /\ line = Files[top.file][top.line]
      /\ top.override \in BOOLEAN
      /\ top.line \in 1..Len(Files[top.file])
  BY <1>1, <1>2, LoadText
<1>4. line.file \in Names BY <1>1, <1>3, FileLine
<1>5. CASE Opens(line.file, n)
  <2>1. line.file \in Readables /\ n <= MAX_DEPTH BY <1>5 DEF Opens, Readables
  <2>2. /\ stack' = Append(Advanced(top.override), Frame(line.file))
        /\ UNCHANGED <<filename, array, pc>> /\ pc = "read"
    BY <1>5 DEF Include, Reads
  <2>3. stack' = Append(Onward(stack, stack[n].override), Frame(line.file))
    BY <1>3, <2>2 DEF Advanced, Onward
  <2>4. \E more : /\ Context(filename, stack', more)
                  /\ ReadSoFar(stack', more) = ReadSoFar(stack, before)
    <3> DEFINE file == line.file
    <3>1. /\ Len(stack) <= MAX_DEPTH
          /\ stack[Len(stack)].line <= Len(Files[stack[Len(stack)].file])
          /\ Files[stack[Len(stack)].file][stack[Len(stack)].line].kind = "include"
          /\ file = Files[stack[Len(stack)].file][stack[Len(stack)].line].file
          /\ file \in Readables
      BY <1>1, <1>3, <2>1
    <3>2. stack' = Append(Onward(stack, stack[Len(stack)].override), Frame(file))
      BY <2>3
    <3> HIDE DEF file
    <3> QED BY ONLY <1>2, <1>3, <3>1, <3>2, CallContext
  <2>5. Holds(filename, stack', array) BY <1>2, <2>4 DEF Holds
  <2>6. Holds(filename, stack, array)'
    BY <2>2, <2>5 DEF Holds, Context, ReadSoFar
  <2> QED BY <2>2, <2>6 DEF TextInv, LastWordWins
<1>6. CASE ~ Opens(line.file, n)
  <2>1. Fail BY <1>6 DEF Include
  <2>2. n \in 0..(MAX_DEPTH + 1) BY <1>3, AbbrevAssumption
  <2>3. Reading[Room(n) - 1][line.file] = <<Bad>> BY <1>3, <1>4, <1>6, <2>2, NotOpened
  <2>4. LineText(Reading[Room(n) - 1], top.file, top.line) = <<Bad>>
    BY <1>1, <1>3, <2>3, LineSays
  <2>5. Bad \in TextLines /\ Bad.kind # "entry" BY DEF Bad, TextLines
  <2> QED BY <1>1, <1>2, <2>1, <2>4, <2>5, FailText
<1> QED BY <1>5, <1>6

LEMMA OverrideText == ASSUME Inv, TextInv, Override PROVE TextInv'
<1>1. Loading /\ top.line <= Len(content) /\ line.kind = "override"
  BY DEF Override, Reads, Loading
<1>2. PICK before : /\ Context(filename, stack, before)
                    /\ WellFormed(ReadSoFar(stack, before))
                    /\ Range(array) = Meaning(ReadSoFar(stack, before))
  BY <1>1 DEF TextInv, Holds
<1> DEFINE R == ReadSoFar(stack, before)
           L == LineText(Reading[Room(Len(stack)) - 1], top.file, top.line)
<1>3. /\ R \in Seq(TextLines) /\ top.file \in Readables
      /\ top.line \in 1..Len(Files[top.file]) /\ line = Files[top.file][top.line]
  BY <1>1, <1>2, LoadText
<1>4. L = <<>> BY <1>1, <1>3, LineSays
<1>5. R = R \o L BY <1>3, <1>4, ConcatEmptySeq
<1>6. /\ filename' = filename /\ stack' = Advanced(TRUE) /\ pc' = "read" /\ array' = array
  BY DEF Override, Reads
<1> HIDE DEF R, L
<1>7. WellFormed(R) /\ Range(array') = Meaning(R) BY <1>2, <1>6 DEF R
<1> QED BY <1>1, <1>2, <1>5, <1>6, <1>7, PassedText DEF R, L

LEMMA InvalidText == ASSUME Inv, TextInv, Invalid PROVE TextInv'
<1>1. Loading /\ top.line <= Len(content) /\ line.kind = "invalid" /\ Fail
  BY DEF Invalid, Reads, Loading
<1>2. PICK before : Context(filename, stack, before) BY <1>1 DEF TextInv, Holds
<1>3. /\ top.file \in Readables
      /\ top.line \in 1..Len(Files[top.file]) /\ line = Files[top.file][top.line]
  BY <1>1, <1>2, LoadText
<1>4. LineText(Reading[Room(Len(stack)) - 1], top.file, top.line) = <<Bad>>
  BY <1>1, <1>3, LineSays
<1>5. Bad \in TextLines /\ Bad.kind # "entry" BY DEF Bad, TextLines
<1> QED BY <1>1, <1>2, <1>4, <1>5, FailText

LEMMA EntryLineText == ASSUME Inv, TextInv, EntryLine PROVE TextInv'
<1>1. Loading /\ top.line <= Len(content) /\ line.kind = "entry" /\ pc = "read"
  BY DEF EntryLine, Reads, Loading
<1>2. CASE validateTzEntry(Entry(line))
  <2>1. /\ pc' = "search" /\ entry' = Entry(line)
        /\ UNCHANGED <<filename, stack, array>>
    BY <1>2 DEF EntryLine
  <2>2. line' = line BY <2>1 DEF line, content, top
  <2>3. Holds(filename, stack, array)' BY <1>1, <2>1 DEF TextInv, Holds, Context, ReadSoFar
  <2> QED BY <1>1, <1>2, <2>1, <2>2, <2>3 DEF TextInv, LastWordWins
<1>3. CASE ~ validateTzEntry(Entry(line))
  <2>1. Fail BY <1>3 DEF EntryLine
  <2>2. PICK before : Context(filename, stack, before) BY <1>1 DEF TextInv, Holds
  <2>3. /\ top.file \in Readables
        /\ top.line \in 1..Len(Files[top.file]) /\ line = Files[top.file][top.line]
    BY <1>1, <2>2, LoadText
  <2> DEFINE l == EntryText(top.file, top.line)
  <2>4. l \in TextLines /\ l.entry = Entry(line) BY <1>1, <2>3, EntryTextType
  <2>5. LineText(Reading[Room(Len(stack)) - 1], top.file, top.line) = <<l>>
    BY <1>1, <2>3, LineSays
  <2> HIDE DEF l
  <2> QED BY <1>1, <1>3, <2>1, <2>2, <2>4, <2>5, FailText
<1> QED BY <1>2, <1>3

LEMMA EndOfFileText == ASSUME Inv, TextInv, EndOfFile PROVE TextInv'
<1>1. Loading /\ pc = "read" /\ top.line > Len(content) BY DEF EndOfFile, Loading
<1>2. PICK before : /\ Context(filename, stack, before)
                    /\ WellFormed(ReadSoFar(stack, before))
                    /\ Range(array) = Meaning(ReadSoFar(stack, before))
  BY <1>1 DEF TextInv, Holds
<1>3. /\ filename \in Names /\ stack \in Seq(Frames) /\ top = stack[Len(stack)]
      /\ content = Files[top.file]
  BY <1>1, <1>2, LoadText
<1>4. stack' = Front(stack) /\ UNCHANGED <<filename, array>> BY DEF EndOfFile
<1>5. CASE Len(stack) = 1
  <2>1. pc' = "loaded" BY <1>5 DEF EndOfFile
  <2>2. ReadSoFar(stack, before) = Text[filename] BY <1>1, <1>2, <1>3, <1>5, ReturnContext
  <2> QED BY <1>2, <1>4, <2>1, <2>2 DEF TextInv, LastWordWins, Loading
<1>6. CASE Len(stack) # 1
  <2>1. pc' = "read" BY <1>6 DEF EndOfFile
  <2>2. \E less : /\ Context(filename, Front(stack), less)
                  /\ ReadSoFar(Front(stack), less) = ReadSoFar(stack, before)
    BY <1>1, <1>2, <1>3, <1>6, ReturnContext
  <2>3. Holds(filename, Front(stack), array) BY <1>2, <2>2 DEF Holds
  <2>4. Holds(filename, stack, array)' BY <1>4, <2>3 DEF Holds, Context, ReadSoFar
  <2> QED BY <2>1, <2>4 DEF TextInv, LastWordWins
<1> QED BY <1>5, <1>6

LEMMA SearchStepText == ASSUME Inv, TextInv, Earlier \/ Later PROVE TextInv'
<1>1. UNCHANGED <<filename, stack, array, entry, pc>> /\ pc = "search"
  BY DEF Earlier, Later, Searching
<1>2. line' = line BY <1>1 DEF line, content, top
<1>3. Holds(filename, stack, array)'
  BY <1>1 DEF TextInv, Loading, Holds, Context, ReadSoFar
<1> QED BY <1>1, <1>2, <1>3 DEF TextInv, LastWordWins

\* A search that ends, the array and the line it is for.
LEMMA AddedText ==
  ASSUME Inv, TextInv, pc = "search", NEW before, Context(filename, stack, before),
         WellFormed(ReadSoFar(stack, before)),
         NEW R, R = ReadSoFar(stack, before),
         NEW l \in TextLines, l.kind = "entry", l.entry = entry,
         validateTzEntry(l.entry), Agrees(R, l),
         LineText(Reading[Room(Len(stack)) - 1], top.file, top.line) = <<l>>,
         NEW a, Added(a),
         Range(a) = {e \in Meaning(R) : e.abbrev # entry.abbrev} \cup {entry}
  PROVE  TextInv'
<1>1. Loading /\ top.line <= Len(content) BY DEF Loading, Inv, Typed, AtLine
<1>2. R \in Seq(TextLines) /\ top.override \in BOOLEAN BY <1>1, LoadText
<1>3. WellFormed(R \o <<l>>) /\ Meaning(R \o <<l>>) = Range(a) BY <1>2, GoodLine
<1>4. /\ filename' = filename /\ stack' = Advanced(top.override) /\ pc' = "read"
      /\ array' = a
  BY DEF Added
<1>5. top.override = (top.override \/ line.kind = "override")
  <2>1. line.kind = "entry" BY DEF TextInv
  <2> QED BY <1>2, <2>1
<1>6. R \o <<l>> = ReadSoFar(stack, before)
                     \o LineText(Reading[Room(Len(stack)) - 1], top.file, top.line)
  OBVIOUS
<1> QED BY <1>1, <1>2, <1>3, <1>4, <1>5, <1>6, PassedText

LEMMA DuplicateText == ASSUME Inv, TextInv, Duplicate PROVE TextInv'
<1>1. pc = "search" /\ Searching /\ entry.abbrev = midptr.abbrev BY DEF Duplicate, Searching
<1>2. Loading /\ top.line <= Len(content) BY <1>1 DEF Loading, Inv, Typed, AtLine
<1>3. PICK before : /\ Context(filename, stack, before)
                    /\ WellFormed(ReadSoFar(stack, before))
                    /\ Range(array) = Meaning(ReadSoFar(stack, before))
  BY <1>2 DEF TextInv, Holds
<1>4. PICK l \in TextLines :
           /\ l.kind = "entry" /\ l.entry = entry /\ l.override = top.override
           /\ validateTzEntry(l.entry)
           /\ LineText(Reading[Room(Len(stack)) - 1], top.file, top.line) = <<l>>
  BY <1>1, <1>3, SearchedLine
<1> DEFINE R == ReadSoFar(stack, before)
           m == mid + 1
<1>5. m \in DOMAIN array /\ midptr = array[m] /\ array \in Seq(tzEntry)
  BY <1>1, Middle DEF Inv, Typed, TypeOK, midptr
<1>6. midptr \in Meaning(R) BY <1>3, <1>5 DEF Range
<1>7. \A i \in DOMAIN array : array[i].abbrev = entry.abbrev => i = m
  <2>1. \A i \in DOMAIN array : i \in Int /\ array[i].abbrev \in Int
    <3>1. DOMAIN array = 1..Len(array) BY <1>5
    <3> QED BY <3>1, Numbers DEF Inv, Typed
  <2>2. \A i, j \in DOMAIN array : i < j => array[i].abbrev < array[j].abbrev
    BY DEF Inv, Ordered
  <2>3. ASSUME NEW i \in DOMAIN array, array[i].abbrev = entry.abbrev PROVE i = m
    <3>1. i < m \/ m < i \/ i = m BY <1>5, <2>1
    <3>2. array[i].abbrev = array[m].abbrev BY <1>1, <1>5, <2>3
    <3>3. ~ (i < m) /\ ~ (m < i) BY <1>5, <2>1, <2>2, <3>2
    <3> QED BY <3>1, <3>3
  <2> QED BY <2>3
<1> HIDE DEF R, m
<1>8. Range(array) = Meaning(R) BY <1>3 DEF R
<1>9. \A e \in Meaning(R) : e.abbrev = entry.abbrev => e = midptr
  BY <1>5, <1>7, <1>8 DEF Range
<1>10. CASE midptr = entry
  <2>1. Added(array) BY <1>1, <1>10 DEF Duplicate
  <2>2. Agrees(R, l) BY <1>4, <1>9, <1>10 DEF Agrees
  <2>3. Range(array) = {e \in Meaning(R) : e.abbrev # entry.abbrev} \cup {entry}
    BY <1>6, <1>8, <1>9, <1>10
  <2> QED BY <1>1, <1>3, <1>4, <2>1, <2>2, <2>3, AddedText DEF R
<1>11. CASE (midptr # entry) /\ top.override
  <2> DEFINE a == [array EXCEPT ![m] = entry]
  <2>1. Added(a) BY <1>1, <1>11 DEF Duplicate, m
  <2>2. Agrees(R, l) BY <1>4, <1>11 DEF Agrees
  <2>3. DOMAIN a = DOMAIN array /\ \A i \in DOMAIN array : a[i] = IF i = m THEN entry ELSE array[i]
    BY <1>5
  <2> HIDE DEF a
  <2>4. Range(a) = {e \in Range(array) : e.abbrev # entry.abbrev} \cup {entry}
    <3>1. ASSUME NEW e \in Range(a)
          PROVE  e \in {x \in Range(array) : x.abbrev # entry.abbrev} \cup {entry}
      <4>1. PICK i \in DOMAIN array : e = a[i] BY <2>3 DEF Range
      <4>2. CASE i = m BY <2>3, <4>1, <4>2
      <4>3. CASE i # m BY <1>7, <2>3, <4>1, <4>3 DEF Range
      <4> QED BY <4>2, <4>3
    <3>2. ASSUME NEW e \in Range(array), e.abbrev # entry.abbrev PROVE e \in Range(a)
      <4>1. PICK i \in DOMAIN array : e = array[i] BY DEF Range
      <4>2. i # m BY <1>1, <1>5, <3>2, <4>1
      <4> QED BY <2>3, <4>1, <4>2 DEF Range
    <3>3. entry \in Range(a) BY <1>5, <2>3 DEF Range
    <3> QED BY <3>1, <3>2, <3>3
  <2>5. Range(a) = {e \in Meaning(R) : e.abbrev # entry.abbrev} \cup {entry}
    BY <1>8, <2>4
  <2> QED BY <1>1, <1>3, <1>4, <2>1, <2>2, <2>5, AddedText DEF R
<1>12. CASE (midptr # entry) /\ ~ top.override
  <2>1. Fail BY <1>1, <1>12 DEF Duplicate
  <2>2. ~ Agrees(R, l) BY <1>1, <1>4, <1>6, <1>12 DEF Agrees
  <2> QED BY <1>2, <1>3, <1>4, <2>1, <2>2, FailText DEF R
<1> QED BY <1>10, <1>11, <1>12

LEMMA InsertText == ASSUME Inv, TextInv, Insert PROVE TextInv'
<1>1. pc = "search" /\ low > high /\ Added(InsertAt(array, low + 1, entry)) BY DEF Insert
<1>2. Loading /\ top.line <= Len(content) BY <1>1 DEF Loading, Inv, Typed, AtLine
<1>3. PICK before : /\ Context(filename, stack, before)
                    /\ WellFormed(ReadSoFar(stack, before))
                    /\ Range(array) = Meaning(ReadSoFar(stack, before))
  BY <1>2 DEF TextInv, Holds
<1>4. PICK l \in TextLines :
           /\ l.kind = "entry" /\ l.entry = entry /\ l.override = top.override
           /\ validateTzEntry(l.entry)
           /\ LineText(Reading[Room(Len(stack)) - 1], top.file, top.line) = <<l>>
  BY <1>1, <1>3, SearchedLine
<1> DEFINE R == ReadSoFar(stack, before)
           a == InsertAt(array, low + 1, entry)
           n == Len(array)
<1>5. /\ array \in Seq(tzEntry) /\ entry \in tzEntry
      /\ low \in Nat /\ high \in Int /\ n \in Nat /\ DOMAIN array = 1..n
  BY <1>1 DEF Inv, Typed, TypeOK
<1>6. /\ low = high + 1 /\ low + 1 \in 1..(n + 1)
      /\ \A i \in DOMAIN array : /\ i <= low => array[i].abbrev < entry.abbrev
                                 /\ i > low => array[i].abbrev > entry.abbrev
  BY <1>1, <1>5 DEF Inv, Ordered
<1>7. /\ a \in Seq(tzEntry) /\ Len(a) = n + 1
      /\ \A k \in 1..(n + 1) :
           a[k] = IF k < low + 1 THEN array[k]
                  ELSE IF k = low + 1 THEN entry ELSE array[k - 1]
  BY <1>5, <1>6, InsertAtProperties
<1>8. Added(a) /\ Range(array) = Meaning(R) BY <1>1, <1>3
<1>9. DOMAIN a = 1..(n + 1) BY <1>5, <1>7
<1> HIDE DEF R, a, n
<1>10. \A e \in Meaning(R) : e.abbrev # entry.abbrev
  <2>1. \A i \in DOMAIN array : array[i].abbrev # entry.abbrev
    <3>1. entry.abbrev \in Int /\ \A i \in DOMAIN array : array[i].abbrev \in Int
      <4>1. entry.abbrev \in Int BY <1>5, AbbrevAssumption DEF tzEntry
      <4> QED BY <4>1, Numbers DEF Inv, Typed
    <3>2. \A i \in DOMAIN array : i <= low \/ i > low BY <1>5
    <3> QED BY <1>6, <3>1, <3>2
  <2> QED BY <1>8, <2>1 DEF Range
<1>11. Agrees(R, l) BY <1>4, <1>10 DEF Agrees
<1>12. Range(a) = Range(array) \cup {entry}
  <2>1. ASSUME NEW k \in 1..(n + 1) PROVE a[k] \in Range(array) \cup {entry}
    <3>1. CASE k < low + 1
      <4>1. k \in 1..n BY <1>5, <1>6, <3>1
      <4> QED BY <1>5, <1>7, <3>1, <4>1 DEF Range
    <3>2. CASE k = low + 1 BY <1>7, <3>2
    <3>3. CASE k > low + 1
      <4>1. k - 1 \in 1..n /\ ~ (k < low + 1) /\ k # low + 1 BY <1>5, <1>6, <3>3
      <4> QED BY <1>5, <1>7, <4>1 DEF Range
    <3> QED BY <1>5, <3>1, <3>2, <3>3
  <2>2. ASSUME NEW i \in 1..n PROVE array[i] \in Range(a)
    <3>1. CASE i <= low
      <4>1. i \in 1..(n + 1) /\ i < low + 1 BY <1>5, <3>1
      <4>2. a[i] = array[i] BY <1>7, <4>1
      <4> QED BY <1>9, <4>1, <4>2 DEF Range
    <3>2. CASE i > low
      <4>1. i + 1 \in 1..(n + 1) /\ ~ (i + 1 < low + 1) /\ i + 1 # low + 1 /\ (i + 1) - 1 = i
        BY <1>5, <3>2
      <4>2. a[i + 1] = array[i] BY <1>7, <4>1
      <4> QED BY <1>9, <4>1, <4>2 DEF Range
    <3> QED BY <1>5, <3>1, <3>2
  <2>3. entry \in Range(a)
    <3>1. a[low + 1] = entry /\ low + 1 \in 1..(n + 1) BY <1>5, <1>6, <1>7
    <3> QED BY <1>9, <3>1 DEF Range
  <2>4. \A e \in Range(a) : e \in Range(array) \cup {entry}
    <3>1. \A e \in Range(a) : \E k \in 1..(n + 1) : e = a[k] BY <1>9 DEF Range
    <3> QED BY <2>1, <3>1
  <2>5. \A e \in Range(array) : e \in Range(a)
    <3>1. \A e \in Range(array) : \E i \in 1..n : e = array[i] BY <1>5 DEF Range
    <3> QED BY <2>2, <3>1
  <2> QED BY <2>3, <2>4, <2>5
<1>13. Range(a) = {e \in Meaning(R) : e.abbrev # entry.abbrev} \cup {entry}
  BY <1>8, <1>10, <1>12
<1> QED BY <1>1, <1>3, <1>4, <1>8, <1>11, <1>13, AddedText DEF R

LEMMA LoadBegins ==
  ASSUME Inv, TextInv, NEW name \in Names, load_tzoffsets(name) PROVE TextInv'
<1>1. /\ filename' = name /\ array' = <<>>
      /\ IF Opens(name, 0) THEN pc' = "read" /\ stack' = <<Frame(name)>>
         ELSE pc' = "failed" /\ stack' = <<>>
  BY DEF load_tzoffsets
<1>2. MAX_DEPTH + 1 \in Nat /\ MAX_DEPTH + 1 - 0 = MAX_DEPTH + 1 /\ 0 \in 0..(MAX_DEPTH + 1)
  BY AbbrevAssumption
<1> DEFINE none == [i \in 1..1 |-> <<>>]
           stk == <<Frame(name)>>
<1>3. <<>> \in Seq(TextLines) /\ none \in [1..1 -> Seq(TextLines)] /\ none[1] = <<>>
  OBVIOUS
<1>4. Len(stk) = 1 /\ stk[1] = Frame(name) OBVIOUS
<1>5. Frame(name).file = name /\ Frame(name).line = 1 /\ Frame(name).override = FALSE
  BY DEF Frame
<1> HIDE DEF none, stk
<1>6. CASE Opens(name, 0)
  <2>1. name \in Readables BY <1>6 DEF Opens, Readables
  <2>2. Room(1) = MAX_DEPTH + 1 /\ Room(1) \in 1..(MAX_DEPTH + 1) /\ 1 \in 1..(MAX_DEPTH + 1)
    BY AbbrevAssumption DEF Room
  <2>3. Reading[Room(1)][name] = Text[name] BY <2>2 DEF Text
  <2>4. Text[name] \in Seq(TextLines)
    <3>1. MAX_DEPTH + 1 \in 0..(MAX_DEPTH + 1) BY <1>2
    <3>2. Reading[MAX_DEPTH + 1] \in [Names -> Seq(TextLines)] BY <3>1, ReadingType
    <3> QED BY <3>2 DEF Text
  <2>5. Call(name, stk, none, 1)
    <3>1. (<<>> \o Text[name]) \o <<>> = Text[name]
      <4> DEFINE t == Text[name]
      <4> HIDE DEF t
      <4>1. t \in Seq(TextLines) BY <2>4 DEF t
      <4>2. <<>> \o t = t /\ t \o <<>> = t BY <4>1, ConcatEmptySeq
      <4> QED BY <4>2 DEF t
    <3>2. \E rest \in Seq(TextLines) : (<<>> \o Text[name]) \o rest = Text[name]
      BY <1>3, <3>1
    <3> DEFINE len == Len(Files[name])
    <3>3. len \in Nat BY <2>1, AbbrevAssumption DEF Readables
    <3> HIDE DEF len
    <3>4. 1 \in 1..(len + 1) BY <3>3
    <3>5. \A j \in 1..(1 - 1) : FALSE OBVIOUS
    <3> QED BY <1>3, <1>4, <1>5, <2>1, <2>3, <3>2, <3>4, <3>5 DEF Call, len
  <2>6. Context(name, stk, none)
    <3>1. \A k \in 1..1 : k = 1 OBVIOUS
    <3>2. \A k \in 1..(1 - 1) : FALSE OBVIOUS
    <3> QED BY <1>3, <1>4, <1>5, <2>2, <2>5, <3>1, <3>2 DEF Context
  <2>7. ReadSoFar(stk, none) = <<>>
    <3>1. Partial(Room(1), name, 0) = <<>> BY <2>1, <2>2, PartialFacts
    <3>2. <<>> \o <<>> = <<>> BY <1>3, ConcatEmptySeq
    <3>3. 1 - 1 = 0 OBVIOUS
    <3> QED BY <1>3, <1>4, <1>5, <3>1, <3>2, <3>3 DEF ReadSoFar
  <2>8. WellFormed(<<>>) /\ Meaning(<<>>) = {}
    BY DEF WellFormed, Meaning, Places
  <2>9. array' = <<>> /\ Range(<<>>) = {} BY <1>1 DEF Range
  <2>10. Holds(filename', stack', array')
    <3>1. filename' = name /\ stack' = stk BY <1>1, <1>6 DEF stk
    <3> QED BY <2>6, <2>7, <2>8, <2>9, <3>1 DEF Holds
  <2>11. Holds(filename, stack, array)' BY <2>10 DEF Holds, Context, ReadSoFar
  <2> QED BY <1>1, <1>6, <2>11 DEF TextInv, LastWordWins
<1>7. CASE ~ Opens(name, 0)
  <2>1. Text[name] = <<Bad>> BY <1>2, <1>7, NotOpened DEF Text
  <2>2. ~ WellFormed(<<Bad>>)
    <3>1. 1 \in DOMAIN <<Bad>> /\ <<Bad>>[1] = Bad OBVIOUS
    <3>2. Bad.kind # "entry" BY DEF Bad
    <3> QED BY <3>1, <3>2 DEF WellFormed
  <2> QED BY <1>1, <1>7, <2>1, <2>2 DEF TextInv, LastWordWins, Loading
<1> QED BY <1>6, <1>7

LEMMA StepText == ASSUME Inv, TextInv, [Next]_load PROVE TextInv'
<1>1. CASE LoadAny BY <1>1, LoadBegins DEF LoadAny
<1>2. CASE LoadStep
  BY <1>2, IncludeText, OverrideText, InvalidText, EntryLineText, EndOfFileText,
     SearchStepText, DuplicateText, InsertText DEF LoadStep
<1>3. CASE UNCHANGED load
  <2>1. UNCHANGED <<filename, stack, array, entry, pc>> BY <1>3 DEF load
  <2>2. line' = line BY <2>1 DEF line, content, top
  <2>3. Holds(filename, stack, array)' = Holds(filename, stack, array)
    BY <2>1 DEF Holds, Context, ReadSoFar
  <2> QED BY <2>1, <2>2, <2>3 DEF TextInv, LastWordWins, Loading
<1> QED BY <1>1, <1>2, <1>3 DEF Next

\* The text of a load: at every step the array holds what the lines read so far
\* come to, and what is still to be read is the rest of the files' text.
THEOREM TextInvariant == Spec => []TextInv
<1>1. Init => TextInv BY DEF Init, TextInv, LastWordWins, Loading
<1>2. Inv /\ TextInv /\ [Next]_load => TextInv' BY StepText
<1> QED BY <1>1, <1>2, LoadInvariant, PTL DEF Spec

\* A load succeeds just on files with no bad line, no include too deep and no
\* contradiction without leave, whatever they hold and include; the table is then
\* the last word on each abbreviation (ParseTzFile.c:111-175, addToArray.c:36-66).
THEOREM LastWordWinsHolds == Spec => []LastWordWins
<1>1. TextInv => LastWordWins BY DEF TextInv
<1> QED BY <1>1, TextInvariant, PTL

----------------------------------------------------------------------------
(* Words and their tables *)

\* What a binary search finds from base to last, when the word is at place k.
Found(tbl, k, base, last) == IF base <= k /\ k <= last THEN tbl[k] ELSE NULL

\* A word is at one place of a table, or at none, which is taken as 0.
LEMMA PlaceExists ==
  ASSUME NEW tbl \in Seq(datetkn), Ascending(tbl), NEW key \in Int
  PROVE  \E k \in 0..Len(tbl) :
           /\ k = 0 => \A i \in 1..Len(tbl) : tbl[i].token # key
           /\ k # 0 => tbl[k].token = key
<1>1. Len(tbl) \in Nat OBVIOUS
<1>2. CASE \E k \in 1..Len(tbl) : tbl[k].token = key
  <2>1. PICK k \in 1..Len(tbl) : tbl[k].token = key BY <1>2
  <2> QED BY <1>1, <2>1
<1>3. CASE \A k \in 1..Len(tbl) : tbl[k].token # key
  <2>1. 0 \in 0..Len(tbl) BY <1>1
  <2> QED BY <1>3, <2>1
<1> QED BY <1>2, <1>3

\* What one step of the search, at place p, does to what it finds.
Halves(tbl, key, k, base, last, p) ==
  /\ p \in 1..Len(tbl) /\ p - 1 \in 0..Len(tbl) /\ p + 1 \in 1..(Len(tbl) + 1)
  /\ base <= p /\ p <= last
  /\ tbl[p].token = key => Found(tbl, k, base, last) = tbl[p]
  /\ key < tbl[p].token => Found(tbl, k, base, last) = Found(tbl, k, base, p - 1)
  /\ ~ (key < tbl[p].token) /\ tbl[p].token # key =>
       Found(tbl, k, base, last) = Found(tbl, k, p + 1, last)

\* One step of the search halves the places without losing the word.
LEMMA SearchHalves ==
  ASSUME NEW tbl \in Seq(datetkn), Ascending(tbl), NEW key \in Int,
         NEW k \in 0..Len(tbl),
         k = 0 => \A i \in 1..Len(tbl) : tbl[i].token # key,
         k # 0 => tbl[k].token = key,
         NEW base \in 1..(Len(tbl) + 1), NEW last \in 0..Len(tbl)
  PROVE  /\ last < base => Found(tbl, k, base, last) = NULL
         /\ ~ (last < base) =>
              Halves(tbl, key, k, base, last, base + (last - base) \div 2)
<1> DEFINE n == Len(tbl)
           p == base + (last - base) \div 2
<1>1. n \in Nat /\ DOMAIN tbl = 1..n OBVIOUS
<1>2. \A i \in 1..n : tbl[i].token \in Int
  <2>1. \A i \in 1..n : tbl[i] \in datetkn OBVIOUS
  <2> QED BY <2>1 DEF datetkn
<1>3. \A i, j \in 1..n : i < j => tbl[i].token < tbl[j].token BY <1>1 DEF Ascending
<1>4. /\ base \in Int /\ last \in Int /\ k \in Int
      /\ 1 <= base /\ base <= n + 1 /\ 0 <= last /\ last <= n /\ 0 <= k /\ k <= n
  BY <1>1
<1> HIDE DEF n
<1>5. last < base => Found(tbl, k, base, last) = NULL BY <1>4 DEF Found
<1>6. ASSUME ~ (last < base)
      PROVE  /\ p \in 1..n /\ base <= p /\ p <= last
             /\ p - 1 \in 0..n /\ p + 1 \in 1..(n + 1)
             /\ tbl[p].token = key => Found(tbl, k, base, last) = tbl[p]
             /\ key < tbl[p].token => Found(tbl, k, base, last) = Found(tbl, k, base, p - 1)
             /\ ~ (key < tbl[p].token) /\ tbl[p].token # key =>
                  Found(tbl, k, base, last) = Found(tbl, k, p + 1, last)
  <2>1. p \in Int /\ base <= p /\ p <= last BY <1>4, <1>6
  <2> HIDE DEF p
  <2>2. p \in 1..n /\ p - 1 \in 0..n /\ p + 1 \in 1..(n + 1) BY <1>1, <1>4, <2>1
  <2>3. tbl[p].token \in Int BY <1>2, <2>2
  <2>4. ASSUME tbl[p].token = key PROVE k = p
    <3>1. k # 0 BY <2>2, <2>4 DEF n
    <3>2. k \in 1..n /\ tbl[k].token = key BY <1>1, <3>1 DEF n
    <3>3. ~ (k < p) /\ ~ (p < k) BY <1>3, <2>2, <2>3, <2>4, <3>2
    <3> QED BY <1>4, <2>1, <3>3
  <2>5. ASSUME key < tbl[p].token PROVE ~ (p <= k)
    <3> SUFFICES ASSUME p <= k PROVE FALSE OBVIOUS
    <3>1. k # 0 /\ k \in 1..n BY <1>1, <1>4, <2>2
    <3>2. tbl[k].token = key BY <3>1
    <3>3. p = k \/ p < k BY <1>4, <2>1
    <3>4. CASE p = k BY <2>3, <2>5, <3>2, <3>4
    <3>5. CASE p < k
      <4>1. tbl[p].token < tbl[k].token BY <1>3, <2>2, <3>1, <3>5
      <4> QED BY <2>3, <2>5, <3>2, <4>1
    <3> QED BY <3>3, <3>4, <3>5
  <2>6. ASSUME tbl[p].token < key PROVE ~ (1 <= k /\ k <= p)
    <3> SUFFICES ASSUME 1 <= k, k <= p PROVE FALSE OBVIOUS
    <3>1. k # 0 /\ k \in 1..n BY <1>1, <1>4, <2>2
    <3>2. tbl[k].token = key BY <3>1
    <3>3. p = k \/ k < p BY <1>4, <2>1
    <3>4. CASE p = k BY <2>3, <2>6, <3>2, <3>4
    <3>5. CASE k < p
      <4>1. tbl[k].token < tbl[p].token BY <1>3, <2>2, <3>1, <3>5
      <4> QED BY <2>3, <2>6, <3>2, <4>1
    <3> QED BY <3>3, <3>4, <3>5
  <2>7. tbl[p].token = key => Found(tbl, k, base, last) = tbl[p]
    BY <1>4, <2>1, <2>4 DEF Found
  <2>8. key < tbl[p].token => Found(tbl, k, base, last) = Found(tbl, k, base, p - 1)
    BY <1>4, <2>1, <2>5 DEF Found
  <2>9. ~ (key < tbl[p].token) /\ tbl[p].token # key =>
          Found(tbl, k, base, last) = Found(tbl, k, p + 1, last)
    <3>1. ~ (key < tbl[p].token) /\ tbl[p].token # key => tbl[p].token < key BY <2>3
    <3> QED BY <1>4, <2>1, <2>6, <3>1 DEF Found
  <2> QED BY <2>1, <2>2, <2>7, <2>8, <2>9
<1> QED BY <1>5, <1>6 DEF n, Halves

\* The search of a table in order finds the word, or that it is not there.
LEMMA SearchFinds ==
  ASSUME NEW tbl \in Seq(datetkn), Ascending(tbl), NEW key \in Int
  PROVE  /\ (\E tp \in Range(tbl) : tp.token = key) =>
              /\ datebsearch(key, tbl) \in Range(tbl)
              /\ datebsearch(key, tbl).token = key
         /\ ~ (\E tp \in Range(tbl) : tp.token = key) => datebsearch(key, tbl) = NULL
<1> DEFINE n == Len(tbl)
           D == (1..(n + 1)) \X (0..n)
<1>1. n \in Nat /\ DOMAIN tbl = 1..n OBVIOUS
<1>2. PICK k \in 0..n : /\ k = 0 => \A i \in 1..n : tbl[i].token # key
                        /\ k # 0 => tbl[k].token = key
  BY PlaceExists
<1> DEFINE F(part) == Found(tbl, k, part[1], part[2])
           S == [part \in D |-> F(part)]
           step(f, part) ==
             LET base == part[1]
                 last == part[2]
                 position == base + (last - base) \div 2
             IN  IF last < base THEN NULL
                 ELSE IF tbl[position].token = key THEN tbl[position]
                 ELSE IF key < tbl[position].token THEN f[<<base, position - 1>>]
                 ELSE f[<<position + 1, last>>]
<1>3. ASSUME NEW f, NEW part \in D,
             \A q \in D : q[2] - q[1] < part[2] - part[1] => f[q] = F(q)
      PROVE  step(f, part) = F(part)
  <2> DEFINE base == part[1]
             last == part[2]
             p == base + (last - base) \div 2
  <2>1. base \in 1..(n + 1) /\ last \in 0..n OBVIOUS
  <2>2. /\ last < base => F(part) = NULL
        /\ ~ (last < base) =>
             /\ p \in 1..n /\ base \in 1..(n + 1) /\ p - 1 \in 0..n
             /\ p + 1 \in 1..(n + 1) /\ last \in 0..n
             /\ base <= p /\ p <= last
             /\ tbl[p].token = key => F(part) = tbl[p]
             /\ key < tbl[p].token => F(part) = Found(tbl, k, base, p - 1)
             /\ ~ (key < tbl[p].token) /\ tbl[p].token # key =>
                  F(part) = Found(tbl, k, p + 1, last)
    <3> HIDE DEF base, last
    <3>1. F(part) = Found(tbl, k, base, last) BY DEF base, last
    <3>2. /\ last < base => Found(tbl, k, base, last) = NULL
          /\ ~ (last < base) => Halves(tbl, key, k, base, last, p)
      <4>1. base \in 1..(Len(tbl) + 1) /\ last \in 0..Len(tbl) BY <2>1
      <4>2. /\ k \in 0..Len(tbl)
            /\ k = 0 => \A i \in 1..Len(tbl) : tbl[i].token # key
            /\ k # 0 => tbl[k].token = key
        BY <1>2
      <4>3. Ascending(tbl) /\ tbl \in Seq(datetkn) /\ key \in Int OBVIOUS
      <4> HIDE DEF F, S, D, n, step
      <4> QED BY ONLY <4>1, <4>2, <4>3, SearchHalves
    <3> HIDE DEF F, p
    <3> QED BY <2>1, <3>1, <3>2 DEF Halves
  <2>3. base \in Int /\ last \in Int BY <1>1, <2>1
  <2> HIDE DEF n, F
  <2>4. CASE last < base BY <2>2, <2>4
  <2>5. CASE ~ (last < base)
    <3> DEFINE left == <<base, p - 1>>
               right == <<p + 1, last>>
    <3>1. left \in D /\ right \in D /\ p \in Int BY <2>2, <2>5
    <3>2. /\ left[1] = base /\ left[2] = p - 1 /\ right[1] = p + 1 /\ right[2] = last
      OBVIOUS
    <3>3. left[2] - left[1] < last - base /\ right[2] - right[1] < last - base
      <4> HIDE DEF left, right, base, last, p, D
      <4> QED BY <2>2, <2>3, <2>5, <3>1, <3>2
    <3>4. f[left] = F(left) /\ f[right] = F(right) BY <1>3, <3>1, <3>3
    <3>5. F(left) = Found(tbl, k, base, p - 1) /\ F(right) = Found(tbl, k, p + 1, last)
      BY <3>2 DEF F
    <3>6. tbl[p].token \in Int
      <4>1. tbl[p] \in datetkn BY <2>2, <2>5 DEF n
      <4> QED BY <4>1 DEF datetkn
    <3>7. step(f, part) = IF tbl[p].token = key THEN tbl[p]
                          ELSE IF key < tbl[p].token THEN f[left] ELSE f[right]
      <4>1. step(f, part) = IF last < base THEN NULL
                            ELSE IF tbl[p].token = key THEN tbl[p]
                            ELSE IF key < tbl[p].token THEN f[left] ELSE f[right]
        BY ZenonT(30)
      <4> HIDE DEF step, p, base, last, left, right
      <4> QED BY <2>5, <4>1
    <3> HIDE DEF left, right, p, base, last, step, D
    <3>8. CASE tbl[p].token = key BY <2>2, <2>5, <3>7, <3>8
    <3>9. CASE key < tbl[p].token
      <4>1. tbl[p].token # key BY <3>6, <3>9
      <4> QED BY <2>2, <2>5, <3>4, <3>5, <3>7, <3>9, <4>1
    <3>10. CASE ~ (key < tbl[p].token) /\ tbl[p].token # key
      BY <2>2, <2>5, <3>4, <3>5, <3>7, <3>10
    <3> QED BY <3>8, <3>9, <3>10
  <2> QED BY <2>4, <2>5
<1>4. S = [part \in D |-> step(S, part)]
  <2>1. \A part \in D : S[part] = F(part) OBVIOUS
  <2>2. S = [part \in D |-> S[part]] OBVIOUS
  <2> HIDE DEF S, step, D, F
  <2>3. \A part \in D : step(S, part) = F(part) BY <1>3, <2>1
  <2> QED BY <2>1, <2>2, <2>3
<1> DEFINE g == CHOOSE f : f = [part \in D |-> step(f, part)]
<1>5. g = [part \in D |-> step(g, part)]
  <2> HIDE DEF S, step, D
  <2> QED BY <1>4
<1>6. datebsearch(key, tbl) = g[<<1, n>>] BY DEF datebsearch
<1>7. \A part \in D : part[1] \in 1..(n + 1) /\ part[2] \in 0..n OBVIOUS
<1>8. \A part \in D : part[2] - part[1] + n + 1 \in Nat
  <2> HIDE DEF D, n
  <2> QED BY <1>1, <1>7
<1>9. <<1, n>> \in D BY <1>1
<1> HIDE DEF g, step, F, D, n, S
<1>10. \A part \in D : g[part] = F(part)
  <2> DEFINE size(part) == part[2] - part[1] + n + 1
             T == {size(part) : part \in {q \in D : g[q] # F(q)}}
  <2> SUFFICES ASSUME T # {} PROVE FALSE OBVIOUS
  <2>1. T \in SUBSET Nat BY <1>8
  <2>2. PICK m \in T : \A x \in T : m <= x
    <3> HIDE DEF T
    <3> QED BY <2>1, LeastNatural
  <2>3. PICK part \in D : g[part] # F(part) /\ m = size(part) BY <2>2
  <2>4. \A q \in D : g[q] # F(q) => size(part) <= size(q) BY <2>2, <2>3
  <2>5. \A q \in D : q[2] - q[1] < part[2] - part[1] => ~ (size(part) <= size(q))
    BY <1>1, <1>7
  <2>6. step(g, part) = F(part) BY <1>3, <2>4, <2>5
  <2>7. g[part] = step(g, part) BY <1>5
  <2> QED BY <2>3, <2>6, <2>7
<1>11. datebsearch(key, tbl) = Found(tbl, k, 1, n)
  <2>1. <<1, n>>[1] = 1 /\ <<1, n>>[2] = n OBVIOUS
  <2> QED BY <1>6, <1>9, <1>10, <2>1 DEF F
<1>12. k = 0 \/ k \in 1..n BY <1>1
<1>13. CASE k = 0
  <2>1. datebsearch(key, tbl) = NULL BY <1>1, <1>11, <1>13 DEF Found
  <2>2. ~ \E tp \in Range(tbl) : tp.token = key BY <1>1, <1>2, <1>13 DEF Range
  <2> QED BY <2>1, <2>2
<1>14. CASE k \in 1..n
  <2>1. datebsearch(key, tbl) = tbl[k] BY <1>1, <1>11, <1>14 DEF Found
  <2>2. k # 0 BY <1>1, <1>14
  <2>3. tbl[k] \in Range(tbl) /\ tbl[k].token = key BY <1>1, <1>2, <1>14, <2>2 DEF Range
  <2> QED BY <2>1, <2>3
<1> QED BY <1>12, <1>13, <1>14

----------------------------------------------------------------------------
(* The table installed, and the pointers into it *)

\* A token of the table says what an entry of the files says.
Tells(tp, e) ==
  /\ tp.token = e.abbrev /\ tp.type = (IF e.is_dst THEN "DTZ" ELSE "TZ")
  /\ 60 * FROMVAL(tp) = -e.offset

\* A table that says what a set of entries says, in order.
TellsAll(tbl, entries) ==
  /\ tbl \in Seq(datetkn) /\ Ascending(tbl)
  /\ \A tp \in Range(tbl) : \E e \in entries : Tells(tp, e)
  /\ \A e \in entries : \E tp \in Range(tbl) : tp.token = e.abbrev

\* A pointer kept for a field is into the table installed, or to a static word
\* that the table does not have.
Kept(tp) ==
  \/ tp = NULL
  \/ tp \in Range(timezonetktbl)
  \/ /\ tp \in Range(datetktbl)
     /\ \A zone \in Range(timezonetktbl) : zone.token # tp.token

TokensInv ==
  /\ TellsAll(timezonetktbl, installed)
  /\ DOMAIN datecache = Fields /\ DOMAIN deltacache = Fields
  /\ \A f \in Fields : Kept(datecache[f])
  /\ \A f \in Fields : deltacache[f] = NULL \/ deltacache[f] \in Range(deltatktbl)
  /\ AnswersByFile

\* An offset of whole quarters of an hour, of at most 14 hours, survives in a byte.
LEMMA OffsetKept ==
  ASSUME NEW e \in tzEntry, validateTzEntry(e), NEW tp,
         tp.value = TOVAL(e.offset \div 60)
  PROVE  tp.value \in 0..255 /\ 60 * FROMVAL(tp) = -e.offset
<1> DEFINE q == e.offset \div 900
           v == e.offset \div 60
<1>1. e.offset \in Int BY DEF tzEntry
<1>2. e.offset % 900 = 0 /\ e.offset <= 50400 /\ e.offset >= -50400
  BY <1>1 DEF validateTzEntry
<1>3. q \in Int /\ e.offset = 900 * q BY <1>1, <1>2
<1>4. v \in Int /\ v = 15 * q
  <2> HIDE DEF q
  <2> QED BY <1>3
<1>5. q <= 56 /\ q >= -56
  <2> HIDE DEF q
  <2> QED BY <1>2, <1>3
<1>6. tp.value = TOVAL(v) OBVIOUS
<1> HIDE DEF q, v
<1>7. CASE q < 0
  <2>1. v < 0 /\ (-v) \div 15 = -q BY <1>3, <1>4, <1>7
  <2>2. tp.value = -q + 128 BY <1>6, <2>1 DEF TOVAL
  <2>3. tp.value \in 0..255 /\ tp.value >= 128 /\ tp.value % 128 = -q
    BY <1>3, <1>5, <1>7, <2>2
  <2>4. SIGNEDCHAR(tp.value) = q BY <1>3, <2>3 DEF SIGNEDCHAR
  <2>5. FROMVAL(tp) = -q * 15 BY <2>4 DEF FROMVAL
  <2> QED BY <1>3, <2>3, <2>5
<1>8. CASE q >= 0
  <2>1. ~ (v < 0) /\ v \div 15 = q BY <1>3, <1>4, <1>8
  <2>2. tp.value = q BY <1>6, <2>1 DEF TOVAL
  <2>3. tp.value \in 0..255 /\ ~ (tp.value >= 128) BY <1>3, <1>5, <1>8, <2>2
  <2>4. SIGNEDCHAR(tp.value) = q BY <2>2, <2>3 DEF SIGNEDCHAR
  <2>5. FROMVAL(tp) = -q * 15 BY <2>4 DEF FROMVAL
  <2> QED BY <1>3, <2>3, <2>5
<1> QED BY <1>3, <1>7, <1>8

\* The table made of an array in order says what the array says.
LEMMA ConvertTells ==
  ASSUME NEW arr \in Seq(tzEntry),
         \A i, j \in DOMAIN arr : i < j => arr[i].abbrev < arr[j].abbrev,
         \A e \in Range(arr) : validateTzEntry(e)
  PROVE  TellsAll(ConvertTimeZoneAbbrevs(arr), Range(arr))
<1> DEFINE tbl == ConvertTimeZoneAbbrevs(arr)
           n == Len(arr)
<1>1. n \in Nat /\ DOMAIN arr = 1..n OBVIOUS
<1>2. /\ DOMAIN tbl = 1..n
      /\ \A i \in 1..n :
           /\ tbl[i].token = arr[i].abbrev
           /\ tbl[i].type = (IF arr[i].is_dst THEN "DTZ" ELSE "TZ")
           /\ tbl[i].value = TOVAL(arr[i].offset \div 60)
           /\ tbl[i] = [token |-> tbl[i].token, type |-> tbl[i].type, value |-> tbl[i].value]
  BY <1>1 DEF ConvertTimeZoneAbbrevs
<1>3. tbl = [i \in 1..n |-> tbl[i]] BY <1>1 DEF ConvertTimeZoneAbbrevs
<1> HIDE DEF tbl, n
<1>4. ASSUME NEW i \in 1..n PROVE tbl[i] \in datetkn /\ Tells(tbl[i], arr[i])
  <2>1. arr[i] \in tzEntry /\ arr[i] \in Range(arr) BY <1>1, <1>4 DEF Range
  <2>2. validateTzEntry(arr[i]) BY <2>1
  <2>3. tbl[i].value \in 0..255 /\ 60 * FROMVAL(tbl[i]) = -arr[i].offset
    BY <1>2, <2>1, <2>2, OffsetKept
  <2>4. arr[i].abbrev \in Int BY <2>1, AbbrevAssumption DEF tzEntry
  <2>5. tbl[i].type \in Types
    <3>1. tbl[i].type = "DTZ" \/ tbl[i].type = "TZ" BY <1>2
    <3> QED BY <3>1 DEF Types
  <2>6. tbl[i] \in datetkn
    <3>1. tbl[i].token \in Int BY <1>2, <2>4
    <3> QED BY <1>2, <2>3, <2>5, <3>1 DEF datetkn
  <2> QED BY <1>2, <2>3, <2>6 DEF Tells
<1>5. tbl \in Seq(datetkn)
  <2>1. \A i \in 1..n : tbl[i] \in datetkn BY <1>4
  <2>2. tbl \in [1..n -> datetkn]
    <3>1. [i \in 1..n |-> tbl[i]] \in [1..n -> datetkn] BY <2>1
    <3> QED BY <1>3, <3>1, Zenon
  <2> QED BY <1>1, <2>2, SeqDef
<1>6. Ascending(tbl) BY <1>1, <1>2 DEF Ascending
<1>7. \A tp \in Range(tbl) : \E e \in Range(arr) : Tells(tp, e)
  BY <1>1, <1>2, <1>4 DEF Range
<1>8. \A e \in Range(arr) : \E tp \in Range(tbl) : tp.token = e.abbrev
  BY <1>1, <1>2 DEF Range
<1> QED BY <1>5, <1>6, <1>7, <1>8 DEF TellsAll, tbl

\* What a static table holds.
LEMMA StaticWords ==
  ASSUME NEW tbl \in {datetktbl, deltatktbl}
  PROVE  /\ tbl \in Seq(datetkn) /\ Ascending(tbl)
         /\ \A tp \in Range(tbl) :
              /\ tp \in datetkn /\ tp # NULL
              /\ tp.type \notin {"TZ", "DTZ"} /\ tp.value \in 0..127
              /\ Word(tbl, tp.token) = tp
<1>1. /\ tbl \in Seq(datetkn) /\ Ascending(tbl) /\ NULL \notin datetkn
      /\ \A tp \in Range(tbl) : tp.type \notin {"TZ", "DTZ"} /\ tp.value < 128
  BY TokenAssumption
<1>2. DOMAIN tbl = 1..Len(tbl) /\ Len(tbl) \in Nat BY <1>1
<1>3. ASSUME NEW tp \in Range(tbl), NEW other \in Range(tbl), other.token = tp.token
      PROVE  other = tp
  <2>1. PICK i \in DOMAIN tbl : tp = tbl[i] BY DEF Range
  <2>2. PICK j \in DOMAIN tbl : other = tbl[j] BY DEF Range
  <2>3. tbl[i] \in datetkn /\ tbl[j] \in datetkn BY <1>1
  <2>4. tbl[i].token \in Int /\ tbl[j].token = tbl[i].token
    BY <1>3, <2>1, <2>2, <2>3 DEF datetkn
  <2>5. ~ (i < j) /\ ~ (j < i) BY <1>1, <2>4 DEF Ascending
  <2>6. i = j
    <3>1. i \in 1..Len(tbl) /\ j \in 1..Len(tbl) BY <1>2
    <3> QED BY <1>2, <2>5, <3>1
  <2> QED BY <2>1, <2>2, <2>6
<1>4. ASSUME NEW tp \in Range(tbl)
      PROVE  /\ tp \in datetkn /\ tp # NULL
             /\ tp.type \notin {"TZ", "DTZ"} /\ tp.value \in 0..127
             /\ Word(tbl, tp.token) = tp
  <2>1. tp \in datetkn BY <1>1, <1>4 DEF Range
  <2>2. tp.value \in 0..255 BY <2>1 DEF datetkn
  <2>3. tp.value \in 0..127
    <3>1. tp.value < 128 BY <1>1
    <3> QED BY <2>2, <3>1
  <2>4. Word(tbl, tp.token) \in Range(tbl) /\ Word(tbl, tp.token).token = tp.token
    <3>1. \E other \in Range(tbl) : other.token = tp.token OBVIOUS
    <3> QED BY <3>1, Zenon DEF Word
  <2>5. Word(tbl, tp.token) = tp BY <1>3, <2>4
  <2> QED BY <1>1, <2>1, <2>3, <2>5
<1> QED BY <1>1, <1>4

LEMMA InstallTokens ==
  ASSUME Inv, TextInv, TokensInv, InstallTimeZoneAbbrevs PROVE TokensInv'
<1>1. /\ pc = "loaded" /\ timezonetktbl' = ConvertTimeZoneAbbrevs(array)
      /\ datecache' = [f \in Fields |-> NULL] /\ answer' = NoAnswer
      /\ installed' = Meaning(Text[filename]) /\ UNCHANGED deltacache
  BY DEF InstallTimeZoneAbbrevs
<1>2. WellFormed(Text[filename]) /\ Range(array) = Meaning(Text[filename])
  BY <1>1 DEF TextInv, LastWordWins
<1>3. Text[filename] \in Seq(TextLines)
  <2>1. filename \in Names /\ MAX_DEPTH + 1 \in 0..(MAX_DEPTH + 1)
    BY AbbrevAssumption DEF Inv, Typed, TypeOK
  <2> QED BY <2>1, ReadingType DEF Text
<1> DEFINE t == Text[filename]
<1>4. \A e \in Range(array) : validateTzEntry(e)
  <2> HIDE DEF t
  <2>1. t \in Seq(TextLines) /\ WellFormed(t) /\ Range(array) = Meaning(t)
    BY <1>2, <1>3 DEF t
  <2>2. \A k \in 1..Len(t) : validateTzEntry(t[k].entry)
    <3>1. DOMAIN t = 1..Len(t) BY <2>1
    <3> QED BY <2>1, <3>1 DEF WellFormed
  <2> QED BY <2>1, <2>2, MeaningIs
<1>5. /\ array \in Seq(tzEntry)
      /\ \A i, j \in DOMAIN array : i < j => array[i].abbrev < array[j].abbrev
  BY DEF Inv, Typed, TypeOK, Ordered
<1>6. TellsAll(timezonetktbl', installed') BY <1>1, <1>2, <1>4, <1>5, ConvertTells
<1>7. TellsAll(timezonetktbl, installed)'
  BY <1>6 DEF TellsAll, Ascending, Tells, Range, FROMVAL, SIGNEDCHAR
<1>8. \A f \in Fields : Kept(datecache[f])' BY <1>1 DEF Kept
<1>9. AnswersByFile' BY <1>1 DEF AnswersByFile
<1> QED BY <1>1, <1>7, <1>8, <1>9 DEF TokensInv

\* What DecodeSpecial finds, from the cache or from the tables.
LEMMA Finds ==
  ASSUME TokensInv, NEW field \in Fields, NEW w \in Int
  PROVE  LET zone == datebsearch(w, timezonetktbl)
             tp == IF Hit(datecache[field], w) THEN datecache[field]
                   ELSE IF zone # NULL THEN zone
                   ELSE datebsearch(w, datetktbl)
         IN  /\ Kept(tp)
             /\ tp # NULL => tp.token = w
             /\ tp = NULL => /\ ~ HasWord(datetktbl, w)
                             /\ \A zone1 \in Range(timezonetktbl) : zone1.token # w
<1> DEFINE zone == datebsearch(w, timezonetktbl)
           word == datebsearch(w, datetktbl)
<1>1. /\ (\E tp \in Range(timezonetktbl) : tp.token = w) =>
           zone \in Range(timezonetktbl) /\ zone.token = w
      /\ ~ (\E tp \in Range(timezonetktbl) : tp.token = w) => zone = NULL
  <2>1. timezonetktbl \in Seq(datetkn) /\ Ascending(timezonetktbl)
    BY DEF TokensInv, TellsAll
  <2> QED BY <2>1, SearchFinds
<1>2. /\ HasWord(datetktbl, w) => word \in Range(datetktbl) /\ word.token = w
      /\ ~ HasWord(datetktbl, w) => word = NULL
  <2>1. datetktbl \in Seq(datetkn) /\ Ascending(datetktbl) BY TokenAssumption
  <2> QED BY <2>1, SearchFinds DEF HasWord
<1>3. \A tp \in Range(timezonetktbl) : tp # NULL
  <2>1. timezonetktbl \in Seq(datetkn) BY DEF TokensInv, TellsAll
  <2>2. \A tp \in Range(timezonetktbl) : tp \in datetkn BY <2>1 DEF Range
  <2> QED BY <2>2, TokenAssumption
<1>4. \A tp \in Range(datetktbl) : tp # NULL BY StaticWords
<1>5. Kept(datecache[field]) BY DEF TokensInv
<1> HIDE DEF zone, word
<1>6. CASE Hit(datecache[field], w) BY <1>5, <1>6 DEF Hit, zone, word
<1>7. CASE ~ Hit(datecache[field], w) /\ zone # NULL
  BY <1>1, <1>7 DEF Kept, zone, word
<1>8. CASE ~ Hit(datecache[field], w) /\ zone = NULL
  <2>1. \A z \in Range(timezonetktbl) : z.token # w BY <1>1, <1>3, <1>8
  <2> QED BY <1>2, <1>4, <1>8, <2>1 DEF Kept, zone, word
<1> QED BY <1>6, <1>7, <1>8

LEMMA SpecialTokens ==
  ASSUME TokensInv, NEW field \in Fields, NEW w \in Int, DecodeSpecial(field, w)
  PROVE  TokensInv'
<1> DEFINE zone == datebsearch(w, timezonetktbl)
           tp == IF Hit(datecache[field], w) THEN datecache[field]
                 ELSE IF zone # NULL THEN zone
                 ELSE datebsearch(w, datetktbl)
           val == IF tp.type \in {"TZ", "DTZ", "DTZMOD"} THEN FROMVAL(tp) ELSE tp.value
<1>1. /\ UNCHANGED <<timezonetktbl, deltacache, installed>>
      /\ tp = NULL => answer' = Unknown("DecodeSpecial", w) /\ UNCHANGED datecache
      /\ tp # NULL => /\ datecache' = [datecache EXCEPT ![field] = tp]
                      /\ answer' = Answer("DecodeSpecial", w, tp.type, val)
  BY DEF DecodeSpecial
<1>2. /\ Kept(tp)
      /\ tp # NULL => tp.token = w
      /\ tp = NULL => /\ ~ HasWord(datetktbl, w)
                      /\ \A z \in Range(timezonetktbl) : z.token # w
  BY Finds
<1> HIDE DEF tp
<1>3. TellsAll(timezonetktbl, installed)' BY <1>1 DEF TokensInv, TellsAll
<1>4. DOMAIN datecache' = Fields /\ DOMAIN deltacache' = Fields
  BY <1>1 DEF TokensInv
<1>5. \A f \in Fields : Kept(datecache[f])'
  <2>1. \A f \in Fields : Kept(datecache'[f])
    <3>1. \A f \in Fields : datecache'[f] = datecache[f] \/ datecache'[f] = tp
      BY <1>1 DEF TokensInv
    <3> QED BY <1>2, <3>1 DEF TokensInv
  <2> QED BY <1>1, <2>1 DEF Kept
<1>6. AnswersByFile'
  <2>1. ZonesOf(w)' = ZonesOf(w) BY <1>1 DEF ZonesOf
  <2>2. \A z \in Range(timezonetktbl) : z.token = w => ZonesOf(w) # {}
    BY DEF TokensInv, TellsAll, Tells, ZonesOf
  <2>3. ZonesOf(w) # {} => \E z \in Range(timezonetktbl) : z.token = w
    BY DEF TokensInv, TellsAll, ZonesOf
  <2>4. CASE tp = NULL
    <3>1. answer' = Unknown("DecodeSpecial", w) BY <1>1, <2>4
    <3>2. /\ answer'.by = "DecodeSpecial" /\ answer'.lowtoken = w
          /\ answer'.type = "UNKNOWN_FIELD" /\ answer'.val = 0
      BY <3>1 DEF Unknown, Answer
    <3>3. ZonesOf(w) = {} /\ ~ HasWord(datetktbl, w) BY <1>2, <2>3, <2>4
    <3> QED BY <2>1, <3>2, <3>3 DEF AnswersByFile
  <2>5. CASE tp # NULL /\ tp \in Range(timezonetktbl)
    <3>1. answer' = Answer("DecodeSpecial", w, tp.type, val) BY <1>1, <2>5
    <3>2. /\ answer'.by = "DecodeSpecial" /\ answer'.lowtoken = w
          /\ answer'.type = tp.type /\ answer'.val = val
      BY <3>1 DEF Answer
    <3>3. PICK e \in installed : Tells(tp, e) BY <2>5 DEF TokensInv, TellsAll
    <3>4. e \in ZonesOf(w) BY <1>2, <2>5, <3>3 DEF ZonesOf, Tells
    <3>5. tp.type = (IF e.is_dst THEN "DTZ" ELSE "TZ") /\ val = FROMVAL(tp)
          /\ 60 * FROMVAL(tp) = -e.offset
      BY <3>3 DEF Tells
    <3> HIDE DEF val
    <3> QED BY <2>1, <3>2, <3>4, <3>5 DEF AnswersByFile
  <2>6. CASE tp # NULL /\ tp \notin Range(timezonetktbl)
    <3>1. answer' = Answer("DecodeSpecial", w, tp.type, val) BY <1>1, <2>6
    <3>2. /\ answer'.by = "DecodeSpecial" /\ answer'.lowtoken = w
          /\ answer'.type = tp.type /\ answer'.val = val
      BY <3>1 DEF Answer
    <3>3. /\ tp \in Range(datetktbl) /\ tp.token = w
          /\ \A z \in Range(timezonetktbl) : z.token # w
      BY <1>2, <2>6 DEF Kept
    <3>4. ZonesOf(w) = {} BY <2>3, <3>3
    <3>5. HasWord(datetktbl, w) /\ Word(datetktbl, w) = tp
      BY <3>3, StaticWords DEF HasWord
    <3>6. tp.type \notin {"TZ", "DTZ"} /\ tp.value \in 0..127 BY <3>3, StaticWords
    <3>7. /\ tp.type # "DTZMOD" => val = tp.value
          /\ tp.type = "DTZMOD" => val = -15 * tp.value
      <4>1. tp.type # "DTZMOD" => val = tp.value BY <3>6
      <4>2. FROMVAL(tp) = -15 * tp.value
        <5>1. ~ (tp.value >= 128) /\ tp.value \in Int BY <3>6
        <5> QED BY <5>1 DEF FROMVAL, SIGNEDCHAR
      <4> QED BY <4>1, <4>2
    <3> HIDE DEF val
    <3> QED BY <2>1, <3>2, <3>4, <3>5, <3>7 DEF AnswersByFile
  <2> QED BY <2>4, <2>5, <2>6
<1> QED BY <1>1, <1>3, <1>4, <1>5, <1>6 DEF TokensInv

LEMMA UnitsTokens ==
  ASSUME TokensInv, NEW field \in Fields, NEW w \in Int, DecodeUnits(field, w)
  PROVE  TokensInv'
<1> DEFINE tp == IF Hit(deltacache[field], w) THEN deltacache[field]
                 ELSE datebsearch(w, deltatktbl)
           val == IF tp.type \in {"TZ", "DTZ"} THEN FROMVAL(tp) ELSE tp.value
<1>1. /\ UNCHANGED <<timezonetktbl, datecache, installed>>
      /\ tp = NULL => answer' = Unknown("DecodeUnits", w) /\ UNCHANGED deltacache
      /\ tp # NULL => /\ deltacache' = [deltacache EXCEPT ![field] = tp]
                      /\ answer' = Answer("DecodeUnits", w, tp.type, val)
  BY DEF DecodeUnits
<1>2. /\ tp # NULL => tp \in Range(deltatktbl) /\ tp.token = w
      /\ tp = NULL => ~ HasWord(deltatktbl, w)
  <2>1. deltatktbl \in Seq(datetkn) /\ Ascending(deltatktbl) BY TokenAssumption
  <2>2. /\ HasWord(deltatktbl, w) => /\ datebsearch(w, deltatktbl) \in Range(deltatktbl)
                                    /\ datebsearch(w, deltatktbl).token = w
        /\ ~ HasWord(deltatktbl, w) => datebsearch(w, deltatktbl) = NULL
    BY <2>1, SearchFinds DEF HasWord
  <2>3. \A t \in Range(deltatktbl) : t # NULL BY StaticWords
  <2>4. deltacache[field] = NULL \/ deltacache[field] \in Range(deltatktbl)
    BY DEF TokensInv
  <2> QED BY <2>2, <2>3, <2>4 DEF Hit
<1> HIDE DEF tp
<1>3. TellsAll(timezonetktbl, installed)' BY <1>1 DEF TokensInv, TellsAll
<1>4. DOMAIN datecache' = Fields /\ DOMAIN deltacache' = Fields
  BY <1>1 DEF TokensInv
<1>5. \A f \in Fields : Kept(datecache[f])' BY <1>1 DEF TokensInv, Kept
<1>6. \A f \in Fields : deltacache'[f] = NULL \/ deltacache'[f] \in Range(deltatktbl)
  <2>1. \A f \in Fields : deltacache'[f] = deltacache[f] \/ (tp # NULL /\ deltacache'[f] = tp)
    BY <1>1 DEF TokensInv
  <2> QED BY <1>2, <2>1 DEF TokensInv
<1>7. AnswersByFile'
  <2>1. CASE tp = NULL
    <3>1. answer' = Unknown("DecodeUnits", w) BY <1>1, <2>1
    <3>2. /\ answer'.by = "DecodeUnits" /\ answer'.lowtoken = w
          /\ answer'.type = "UNKNOWN_FIELD" /\ answer'.val = 0
      BY <3>1 DEF Unknown, Answer
    <3> QED BY <1>2, <2>1, <3>2 DEF AnswersByFile
  <2>2. CASE tp # NULL
    <3>1. answer' = Answer("DecodeUnits", w, tp.type, val) BY <1>1, <2>2
    <3>2. /\ answer'.by = "DecodeUnits" /\ answer'.lowtoken = w
          /\ answer'.type = tp.type /\ answer'.val = val
      BY <3>1 DEF Answer
    <3>3. tp \in Range(deltatktbl) /\ tp.token = w BY <1>2, <2>2
    <3>4. HasWord(deltatktbl, w) /\ Word(deltatktbl, w) = tp
      BY <3>3, StaticWords DEF HasWord
    <3>5. tp.type \notin {"TZ", "DTZ", "DTZMOD"} BY <3>3, StaticWords, TokenAssumption
    <3>6. val = tp.value BY <3>5
    <3> HIDE DEF val
    <3> QED BY <3>2, <3>4, <3>5, <3>6 DEF AnswersByFile
  <2> QED BY <2>1, <2>2
<1> QED BY <1>1, <1>3, <1>4, <1>5, <1>6, <1>7 DEF TokensInv

LEMMA TokensStep ==
  ASSUME Inv, TextInv, TokensInv, [TokensNext]_vars PROVE TokensInv'
<1>1. CASE Load \/ UNCHANGED vars
  <2>1. UNCHANGED <<timezonetktbl, datecache, deltacache, installed>>
        /\ (answer' = NoAnswer \/ answer' = answer)
    BY <1>1 DEF Load, vars, tokens
  <2>2. TellsAll(timezonetktbl, installed)' BY <2>1 DEF TokensInv, TellsAll
  <2>3. \A f \in Fields : Kept(datecache[f])' BY <2>1 DEF TokensInv, Kept
  <2>4. AnswersByFile'
    <3>1. CASE answer' = NoAnswer BY <3>1 DEF AnswersByFile
    <3>2. CASE answer' = answer BY <2>1, <3>2 DEF TokensInv, AnswersByFile, ZonesOf
    <3> QED BY <2>1, <3>1, <3>2
  <2> QED BY <2>1, <2>2, <2>3, <2>4 DEF TokensInv
<1>2. CASE InstallTimeZoneAbbrevs BY <1>2, InstallTokens
<1>3. ASSUME NEW field \in Fields, NEW word \in Words,
             DecodeSpecial(field, word) \/ DecodeUnits(field, word)
      PROVE  TokensInv'
  <2>1. word \in Int BY TokenAssumption
  <2> QED BY <1>3, <2>1, SpecialTokens, UnitsTokens
<1> QED BY <1>1, <1>2, <1>3 DEF TokensNext

LEMMA TokensBegin == TokensInit => TokensInv
<1> SUFFICES ASSUME TokensInit PROVE TokensInv OBVIOUS
<1>1. timezonetktbl = <<>> /\ installed = {} BY DEF TokensInit
<1>2. TellsAll(timezonetktbl, installed)
  <2>1. <<>> \in Seq(datetkn) /\ Range(<<>>) = {} /\ DOMAIN <<>> = {} BY DEF Range
  <2> QED BY <1>1, <2>1 DEF TellsAll, Ascending
<1> QED BY <1>2 DEF TokensInit, TokensInv, Kept, AnswersByFile

\* A step of the tokens is a step of a load or leaves it alone.
LEMMA LoadsGoOn == [TokensNext]_vars => [Next]_load
<1>1. CASE Load BY <1>1 DEF Load, Next
<1> QED BY <1>1 DEF TokensNext, InstallTimeZoneAbbrevs, DecodeSpecial, DecodeUnits, vars, Next

\* Installing tables and decoding words does nothing to a load: the tokens
\* implement TzAbbrev (InstallTimeZoneAbbrevs.c:12-16).
THEOREM LoadsAsBefore == TokensSpec => Spec
<1>1. TokensInit => Init BY DEF TokensInit
<1> QED BY <1>1, LoadsGoOn, PTL DEF TokensSpec, Spec

\* A word of a date is what the table installed says of it, else the static word,
\* whatever the caches hold from before (DecodeSpecial.c:13-19,
\* InstallTimeZoneAbbrevs.c:15).
THEOREM AnswersByFileHolds == TokensSpec => []AnswersByFile
<1>1. Inv /\ TextInv /\ TokensInv /\ [TokensNext]_vars => TokensInv' BY TokensStep
<1>2. TokensInv => AnswersByFile BY DEF TokensInv
<1> QED BY <1>1, <1>2, TokensBegin, LoadsAsBefore, LoadInvariant, TextInvariant, PTL DEF TokensSpec
=============================================================================
