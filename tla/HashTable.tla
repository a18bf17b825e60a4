----------------------------- MODULE HashTable -----------------------------
(***************************************************************************)
(* dynahash.c: a table of chains that grows by one bucket at a time.  One   *)
(* private table (malloc, no partitions) with its registered scans.         *)
(*                                                                          *)
(* A pointer to an element is its number, in the order of allocation; each  *)
(* element is in one list, so that its link is what follows it there.  The  *)
(* masks are powers of two less one, so that "& mask" is "% (mask + 1)".    *)
(* Any allocation may fail; "out of memory" is only a warning, and the      *)
(* caller that did not ask for NULL halts at the null pointer.              *)
(***************************************************************************)
EXTENDS Integers, Sequences, FiniteSets, TLC

CONSTANTS
  Keys, Scans, NIL,
  hash,          \* the hash function, by key
  MaxElems,      \* bound: memory for so many elements
  nelem_alloc,   \* elements in a chunk
  MAX_SEQ_SCANS, \* registrations there is room for
  ssize,         \* buckets in a segment, a power of two
  Configs        \* what hash_create is called with

Elems == 1..MaxElems

ASSUME HashTableAssumption ==
  /\ hash \in [Keys -> Nat]
  /\ MaxElems \in Nat /\ MAX_SEQ_SCANS \in Nat \ {0}
  /\ nelem_alloc \in 1..MaxElems /\ ssize \in Nat \ {0}
  /\ NIL \notin Elems \cup Keys
  /\ IsFiniteSet(Scans)
  /\ Configs \subseteq [nelem : Nat \ {0}, ffactor : Nat \ {0}, dsize : Nat \ {0},
                        fixeddir : BOOLEAN, isfixed : BOOLEAN]

VARIABLES
  conf,        \* the parameters of the table
  hctl,        \* its geometry: max_bucket, the masks, nsegs and dsize
  chains,      \* bucket |-> the elements of its chain
  freeList,
  nentries,
  key,         \* the key in each element; what a freed one still holds is dead
  frozen,
  registered,  \* how often seq_scan_tables has the table
  scan,        \* per scan, curBucket and curEntry, or Idle
  visit,       \* history: what each scan has returned and still has to
  halted

store == <<hctl, chains, freeList, nentries, key>>
tracking == <<frozen, registered, scan, visit>>
vars == <<conf, hctl, chains, freeList, nentries, key, frozen, registered, scan,
          visit, halted>>

----------------------------------------------------------------------------
\* The smallest exponent of a power of two that is not less than num.
my_log2(num) ==
  CHOOSE i \in 0..num : 2^i >= num /\ \A j \in 0..(i - 1) : 2^j < num

calc_bucket(h, val) ==
  LET bucket == val % (h.high_mask + 1)
  IN  IF bucket > h.max_bucket THEN bucket % (h.low_mask + 1) ELSE bucket

Buckets(h) == 0..h.max_bucket

Elements(list) == {list[i] : i \in DOMAIN list}
InUse == UNION {Elements(chains[b]) : b \in Buckets(hctl)}
Unused == Elements(freeList)

\* FIND: the element met by following the chain of the key's bucket.
HASH_FIND(k) ==
  LET met == {e \in Elements(chains[calc_bucket(hctl, hash[k])]) : key[e] = k}
  IN  IF met = {} THEN NIL ELSE CHOOSE e \in met : TRUE

Place(list, e) == CHOOSE i \in DOMAIN list : list[i] = e

After(list, e) ==
  LET place == Place(list, e)
  IN  IF place = Len(list) THEN NIL ELSE list[place + 1]

link(e) ==
  IF e \in Unused THEN After(freeList, e)
  ELSE After(chains[CHOOSE b \in Buckets(hctl) : e \in Elements(chains[b])], e)

\* A chunk is linked from its last element to its first.
Chunk(used, n) == [i \in 1..n |-> used + n + 1 - i]

element_alloc(n) ==
  LET used == Cardinality(InUse \cup Unused)
  IN  IF conf.isfixed \/ used + n > MaxElems THEN {}
      ELSE {Chunk(used, n) \o freeList}

\* The buckets asked for, and the segments for so many buckets, in powers of two.
nbuckets(c) == 2^my_log2((c.nelem - 1) \div c.ffactor + 1)
nsegments(c) == 2^my_log2((nbuckets(c) - 1) \div ssize + 1)

\* The geometry init_htab computes.
init_htab(c) ==
  LET buckets == nbuckets(c)
      nsegs == nsegments(c)
  IN  [max_bucket |-> buckets - 1, low_mask |-> buckets - 1,
       high_mask |-> 2 * buckets - 1, nsegs |-> nsegs,
       dsize |-> IF nsegs > c.dsize THEN nsegs ELSE c.dsize]

\* my_log2 rounds up.
ASSUME RoundsUp ==
  \A c \in Configs :
    /\ nbuckets(c) \in Nat /\ nbuckets(c) >= 1
    /\ nsegments(c) \in Nat /\ nsegments(c) >= (nbuckets(c) - 1) \div ssize + 1

Closed == [state |-> "closed", seen |-> {}, due |-> {}, last |-> NIL]
Unsure == [Closed EXCEPT !.state = "unsure"]
Idle == [bucket |-> 0, entry |-> NIL, registers |-> FALSE]

\* Elements are allocated ahead if they are fewer than a chunk.
Preallocated(c) == IF c.nelem < nelem_alloc THEN Chunk(0, c.nelem) ELSE <<>>

\* hash_create, where the memory for it is there.
Init ==
  /\ conf \in Configs
  /\ hctl = init_htab(conf)
  /\ chains = [b \in Buckets(hctl) |-> <<>>]
  /\ freeList = Preallocated(conf)
  /\ nentries = 0
  /\ key = [e \in Elems |-> NIL]
  /\ frozen = FALSE /\ registered = 0
  /\ scan = [s \in Scans |-> Idle]
  /\ visit = [s \in Scans |-> Closed]
  /\ halted = FALSE

----------------------------------------------------------------------------
\* hash_search

\* What removing k does to what an open scan has promised.
Unsettled(k) ==
  [s \in Scans |-> IF visit[s].state = "sure" /\ visit[s].last # k
                   THEN Unsure ELSE visit[s]]

Without(list, e) ==
  LET place == Place(list, e)
  IN  [i \in 1..(Len(list) - 1) |-> IF i < place THEN list[i] ELSE list[i + 1]]

\* Mutant: the element is forgotten instead of kept for reuse.
HASH_REMOVE_dropping(k) ==
  /\ ~ halted /\ HASH_FIND(k) # NIL
  /\ chains' = [chains EXCEPT ![calc_bucket(hctl, hash[k])] = Without(@, HASH_FIND(k))]
  /\ nentries' = nentries - 1
  /\ key' = [key EXCEPT ![HASH_FIND(k)] = NIL]
  /\ visit' = Unsettled(k)
  /\ UNCHANGED <<conf, hctl, freeList, frozen, registered, scan, halted>>

HASH_REMOVE(k) ==
  /\ ~ halted /\ HASH_FIND(k) # NIL
  /\ chains' = [chains EXCEPT ![calc_bucket(hctl, hash[k])] = Without(@, HASH_FIND(k))]
  /\ freeList' = <<HASH_FIND(k)>> \o freeList
  /\ nentries' = nentries - 1
  /\ key' = [key EXCEPT ![HASH_FIND(k)] = NIL]
  /\ visit' = Unsettled(k)
  /\ UNCHANGED <<conf, hctl, frozen, registered, scan, halted>>

\* ENTER of a key that is there is FIND.

new_bucket == hctl.max_bucket + 1
NeedsSegment == new_bucket \div ssize >= hctl.nsegs
NeedsDirectory == NeedsSegment /\ new_bucket \div ssize >= hctl.dsize
DoubledDir == [hctl EXCEPT !.dsize = 2 * @]

\* Mutant: the masks are left when a power of two is crossed.
GrownNarrow(h) ==
  [(IF NeedsDirectory THEN DoubledDir ELSE h) EXCEPT
     !.max_bucket = new_bucket,
     !.nsegs = IF NeedsSegment THEN @ + 1 ELSE @]

\* The geometry with one more bucket.
Grown(h) ==
  LET crossed == new_bucket > h.high_mask
  IN  [(IF NeedsDirectory THEN DoubledDir ELSE h) EXCEPT
         !.max_bucket = new_bucket,
         !.nsegs = IF NeedsSegment THEN @ + 1 ELSE @,
         !.low_mask = IF crossed THEN h.high_mask ELSE @,
         !.high_mask = IF crossed THEN new_bucket + h.high_mask ELSE @]

\* The elements of a list that are in S, in its order.
Kept(list, S) ==
  LET P == {i \in DOMAIN list : list[i] \in S}
      rank(i) == Cardinality({j \in P : j <= i})
  IN  [n \in 1..Cardinality(P) |-> list[CHOOSE i \in P : rank(i) = n]]

\* Mutant: the masks are still the old ones when the chain is split.
SplitBefore(h, list, keys) ==
  LET old == new_bucket % (hctl.low_mask + 1)
      stay == {e \in Elements(list[old]) : calc_bucket(hctl, hash[keys[e]]) = old}
  IN  [b \in Buckets(h) |-> IF b = old THEN Kept(list[old], stay)
                            ELSE IF b = new_bucket
                            THEN Kept(list[old], Elements(list[old]) \ stay)
                            ELSE list[b]]

\* The chain of the one bucket whose elements may belong to the new one.
Split(h, list, keys) ==
  LET old == new_bucket % (hctl.low_mask + 1)
      stay == {e \in Elements(list[old]) : calc_bucket(h, hash[keys[e]]) = old}
  IN  [b \in Buckets(h) |-> IF b = old THEN Kept(list[old], stay)
                            ELSE IF b = new_bucket
                            THEN Kept(list[old], Elements(list[old]) \ stay)
                            ELSE list[b]]

\* Fails where there is no memory for a segment or a longer directory; the
\* directory may have been doubled by then.
expand_table(list, keys) ==
  \/ /\ NeedsSegment
     /\ hctl' \in {hctl} \cup (IF NeedsDirectory /\ ~ conf.fixeddir
                               THEN {DoubledDir} ELSE {})
     /\ chains' = list
  \/ /\ ~ (NeedsDirectory /\ conf.fixeddir)
     /\ hctl' = Grown(hctl)
     /\ chains' = Split(Grown(hctl), list, keys)

\* Mutant: a split is not put off while a scan is open.
CrowdedAlways(n) == n \div (hctl.max_bucket + 1) >= conf.ffactor

\* Is it time to split a bucket?
Crowded(n) ==
  /\ n \div (hctl.max_bucket + 1) >= conf.ffactor
  /\ registered = 0

\* The free list get_hash_entry takes an element from.
FreeLists ==
  IF freeList # <<>> THEN {freeList} ELSE element_alloc(nelem_alloc)

\* What a new entry does to the open scans: it is not one they have seen,
\* and a frozen table may be split under them.
Joined(k) ==
  [s \in Scans |-> IF visit[s].state # "sure" THEN visit[s]
                   ELSE IF frozen THEN Unsure
                   ELSE [visit[s] EXCEPT !.seen = @ \ {k}]]

\* "cannot insert into frozen hashtable" is a warning.
HASH_ENTER(k) ==
  /\ ~ halted /\ HASH_FIND(k) = NIL
  /\ \E list \in FreeLists :
       LET e == Head(list)
           linked == [chains EXCEPT ![calc_bucket(hctl, hash[k])] = Append(@, e)]
       IN  /\ freeList' = Tail(list)
           /\ nentries' = nentries + 1
           /\ key' = [key EXCEPT ![e] = k]
           /\ IF Crowded(nentries + 1) THEN expand_table(linked, key')
              ELSE chains' = linked /\ UNCHANGED hctl
  /\ visit' = Joined(k)
  /\ UNCHANGED <<conf, frozen, registered, scan, halted>>

\* HASH_ENTER_NULL returns NULL, which changes nothing; HASH_ENTER warns and
\* follows the null pointer.
HASH_ENTER_fails(k) ==
  /\ ~ halted /\ HASH_FIND(k) = NIL
  /\ freeList = <<>>
  /\ halted' = TRUE
  /\ UNCHANGED <<conf, store, tracking>>

----------------------------------------------------------------------------
\* hash_seq_init, hash_seq_search, hash_seq_term, hash_freeze

Open(s) == visit[s].state # "closed"

\* Bound: past MAX_SEQ_SCANS the code warns and writes beyond its array.
hash_seq_init(s) ==
  /\ ~ halted /\ ~ Open(s)
  /\ registered < MAX_SEQ_SCANS
  /\ scan' = [scan EXCEPT ![s] = [bucket |-> 0, entry |-> NIL, registers |-> ~ frozen]]
  /\ registered' = IF frozen THEN registered ELSE registered + 1
  /\ visit' = [visit EXCEPT ![s] = [state |-> "sure", seen |-> {},
                                    due |-> Keys \cap {key[e] : e \in Elems}, last |-> NIL]]
  /\ UNCHANGED <<conf, store, frozen, halted>>

\* The element the scan stands at, and its bucket.
Ahead(s) == {b \in Buckets(hctl) : b >= scan[s].bucket /\ chains[b] # <<>>}
AtBucket(s) ==
  IF scan[s].entry # NIL THEN scan[s].bucket
  ELSE CHOOSE b \in Ahead(s) : \A c \in Ahead(s) : b <= c
At(s) == IF scan[s].entry # NIL THEN scan[s].entry ELSE Head(chains[AtBucket(s)])

Passed(s) ==
  LET next == link(At(s))
  IN  [scan[s] EXCEPT !.entry = next,
                      !.bucket = IF next = NIL THEN AtBucket(s) + 1 ELSE AtBucket(s)]

hash_seq_search(s) ==
  /\ ~ halted /\ Open(s)
  /\ scan[s].entry # NIL \/ Ahead(s) # {}
  /\ scan' = [scan EXCEPT ![s] = Passed(s)]
  /\ visit' = LET k == key[At(s)] v == visit[s]
              IN  IF v = Unsure THEN visit
                  ELSE [visit EXCEPT ![s] = [v EXCEPT !.seen = @ \cup {k},
                                                      !.due = @ \ {k}, !.last = k]]
  /\ UNCHANGED <<conf, store, frozen, registered, halted>>

\* Mutant: a scan of a frozen table is deregistered as well.
TermAlways(s) ==
  /\ registered' = IF registered > 0 THEN registered - 1 ELSE 0
  /\ scan' = [scan EXCEPT ![s] = Idle]

\* Mutant: the registration is taken for granted.
TermUnmatched(s) ==
  /\ registered' = registered - 1
  /\ scan' = [scan EXCEPT ![s] = Idle]

\* deregister_seq_scan finds the table unless it was not registered.
Term(s) ==
  /\ registered' = IF ~ frozen /\ registered > 0 THEN registered - 1 ELSE registered
  /\ scan' = [scan EXCEPT ![s] = Idle]

\* The search that finds nothing more ends the scan; what it left out stays
\* on record.
EndOfScan(s) ==
  /\ ~ halted /\ Open(s)
  /\ scan[s].entry = NIL /\ Ahead(s) = {}
  /\ Term(s)
  /\ visit' = [visit EXCEPT ![s] = [Closed EXCEPT !.due = visit[s].due]]
  /\ UNCHANGED <<conf, store, frozen, halted>>

hash_seq_term(s) ==
  /\ ~ halted /\ Open(s)
  /\ Term(s)
  /\ visit' = [visit EXCEPT ![s] = Closed]
  /\ UNCHANGED <<conf, store, frozen, halted>>

\* "cannot freeze hashtable ... because it has active scans" is a warning.
hash_freeze ==
  /\ ~ halted /\ ~ frozen
  /\ frozen' = TRUE
  /\ UNCHANGED <<conf, store, registered, scan, visit, halted>>

\* The scans a transaction leaves open are forgotten by their users.
AtEOXact_HashTables ==
  /\ ~ halted /\ (registered > 0 \/ \E s \in Scans : Open(s))
  /\ registered' = 0
  /\ scan' = [s \in Scans |-> Idle]
  /\ visit' = [s \in Scans |-> Closed]
  /\ UNCHANGED <<conf, store, frozen, halted>>

----------------------------------------------------------------------------
Next ==
  \/ \E k \in Keys : HASH_REMOVE(k) \/ HASH_ENTER(k) \/ HASH_ENTER_fails(k)
  \/ \E s \in Scans : \/ hash_seq_init(s) \/ hash_seq_search(s)
                       \/ EndOfScan(s) \/ hash_seq_term(s)
  \/ hash_freeze
  \/ AtEOXact_HashTables

Spec == Init /\ [][Next]_vars

----------------------------------------------------------------------------
Geometries ==
  [max_bucket : Nat, low_mask : Nat, high_mask : Nat, nsegs : Nat, dsize : Nat]
Visits ==
  [state : {"closed", "unsure", "sure"}, seen : SUBSET Keys, due : SUBSET Keys,
   last : Keys \cup {NIL}]
Positions == [bucket : Nat, entry : Elems \cup {NIL}, registers : BOOLEAN]

TypeOK ==
  /\ conf \in Configs
  /\ hctl \in Geometries
  /\ DOMAIN chains = Buckets(hctl)
  /\ Elements(freeList) \subseteq Elems
  /\ \A b \in DOMAIN chains : Elements(chains[b]) \subseteq Elems
  /\ nentries \in Nat
  /\ key \in [Elems -> Keys \cup {NIL}]
  /\ frozen \in BOOLEAN /\ halted \in BOOLEAN
  /\ registered \in Nat
  /\ scan \in [Scans -> Positions]
  /\ visit \in [Scans -> Visits]

(***************************************************************************)
(* The masks enclose the buckets, and each bucket is in a segment of the    *)
(* directory, however the expansions before it failed (expand_table).       *)
(***************************************************************************)
Shape ==
  /\ hctl.high_mask = 2 * hctl.low_mask + 1
  /\ hctl.low_mask <= hctl.max_bucket /\ hctl.max_bucket <= hctl.high_mask
  /\ hctl.max_bucket < hctl.nsegs * ssize
  /\ hctl.nsegs <= hctl.dsize

(***************************************************************************)
(* Each element is in the bucket calc_bucket gives for its key, after any   *)
(* number of splits: "only one old bucket can need to be split"             *)
(* (dynahash.c:1300).                                                       *)
(***************************************************************************)
Placed ==
  \A b \in Buckets(hctl) : \A e \in Elements(chains[b]) :
    calc_bucket(hctl, hash[key[e]]) = b

(***************************************************************************)
(* Every element ever allocated is in one place of one list, a chain or the *)
(* free list, the entries are those in chains, and no key has two.          *)
(***************************************************************************)
NothingLost ==
  /\ InUse \cap Unused = {}
  /\ InUse \cup Unused = 1..Cardinality(InUse \cup Unused)
  /\ Cardinality(Unused) = Len(freeList)
  /\ nentries = Cardinality(InUse)
  /\ Cardinality({key[e] : e \in InUse}) = nentries
  /\ \A b \in Buckets(hctl) :
        /\ Cardinality(Elements(chains[b])) = Len(chains[b])
        /\ \A c \in Buckets(hctl) \ {b} : Elements(chains[b]) \cap Elements(chains[c]) = {}

(***************************************************************************)
(* A scan that registered stays counted while it is open, whatever other    *)
(* scans end, freeze or are forgotten in the meantime                       *)
(* (deregister_seq_scan, hash_freeze).                                      *)
(***************************************************************************)
Guarded == Cardinality({s \in Scans : Open(s) /\ scan[s].registers}) <= registered

Present == {key[e] : e \in Elems} \ {NIL}

Map == INSTANCE HashMap WITH
  Elems <- Elems,
  entries <- [k \in Present |-> HASH_FIND(k)]

(***************************************************************************)
(* The table is a map whose elements stay where they are ("hash_search      *)
(* already copied ...", pg_tzset.c:91, keeps pointers into it) and whose    *)
(* scans return each entry that stays exactly once.                         *)
(***************************************************************************)
ImplementsMap == Map!Spec
=============================================================================
