------------------------------ MODULE HashMap ------------------------------
(***************************************************************************)
(* What dynahash promises its users: a finite map from keys to elements,    *)
(* whose elements stay where they are while their key stays, and scans that *)
(* return each entry that stays once.  What its comments leave undefined    *)
(* (a removal of any but the returned element during a scan, an insertion   *)
(* into a frozen table) makes the open scans unsure, and nothing else.      *)
(***************************************************************************)
CONSTANTS Keys, Elems, Scans, NIL

VARIABLES
  entries,   \* key |-> element, for the keys present
  frozen,
  visit,     \* per scan: Closed, Unsure, or what it has done so far
  halted     \* out of memory where the caller did not expect it

vars == <<entries, frozen, visit, halted>>

Closed == [state |-> "closed", seen |-> {}, due |-> {}, last |-> NIL]
Unsure == [Closed EXCEPT !.state = "unsure"]
Sure(seen, due, last) ==
  [state |-> "sure", seen |-> seen, due |-> due, last |-> last]

Present == DOMAIN entries

Init ==
  /\ entries = [k \in {} |-> NIL]
  /\ frozen = FALSE
  /\ visit = [s \in Scans |-> Closed]
  /\ halted = FALSE

\* A new entry may or may not be visited by the scans that are open.
Enter(k) ==
  /\ k \notin Present
  /\ UNCHANGED <<frozen, halted>>
  /\ visit' = [s \in Scans |->
                 IF visit[s].state # "sure" THEN visit[s]
                 ELSE IF frozen THEN Unsure
                 ELSE [visit[s] EXCEPT !.seen = @ \ {k}]]
  /\ \E e \in Elems \ {entries[x] : x \in Present} :
        entries' = [x \in Present \cup {k} |-> IF x = k THEN e ELSE entries[x]]

Remove(k) ==
  /\ k \in Present
  /\ UNCHANGED <<frozen, halted>>
  /\ visit' = [s \in Scans |->
                 IF visit[s].state = "sure" /\ visit[s].last # k
                 THEN Unsure ELSE visit[s]]
  /\ entries' = [x \in Present \ {k} |-> entries[x]]

Begin(s) ==
  /\ UNCHANGED <<frozen, halted>>
  /\ visit[s] = Closed
  /\ visit' = [visit EXCEPT ![s] = Sure({}, Present, NIL)]
  /\ UNCHANGED entries

\* No entry twice.
Return(s) ==
  /\ UNCHANGED <<frozen, halted>>
  /\ visit[s].state = "sure"
  /\ \E k \in Present \ visit[s].seen :
        visit' = [visit EXCEPT ![s] =
                    Sure(visit[s].seen \cup {k}, visit[s].due \ {k}, k)]
  /\ UNCHANGED entries

\* The search that returns NULL leaves no entry out.
End(s) ==
  /\ UNCHANGED <<frozen, halted>>
  /\ visit[s].state \in {"sure", "unsure"} /\ visit[s].due = {}
  /\ visit' = [visit EXCEPT ![s] = Closed]
  /\ UNCHANGED entries

\* Scans given up by their users.
Abandon(S) ==
  /\ S # {} /\ \A s \in S : visit[s] # Closed
  /\ UNCHANGED <<frozen, halted>>
  /\ visit' = [s \in Scans |-> IF s \in S THEN Closed ELSE visit[s]]
  /\ UNCHANGED entries

Freeze ==
  /\ frozen' = TRUE
  /\ UNCHANGED <<entries, visit, halted>>

OutOfMemory ==
  /\ halted' = TRUE
  /\ UNCHANGED <<entries, frozen, visit>>

Next ==
  /\ ~ halted
  /\ \/ \E k \in Keys : Enter(k) \/ Remove(k)
     \/ \E s \in Scans : Begin(s) \/ Return(s) \/ End(s)
     \/ \E S \in SUBSET Scans : Abandon(S)
     \/ Freeze
     \/ OutOfMemory

Spec == Init /\ [][Next]_vars
=============================================================================
