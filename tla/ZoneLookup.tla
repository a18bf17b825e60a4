----------------------------- MODULE ZoneLookup -----------------------------
(***************************************************************************)
(* What a lookup in a zone table promises its caller: one answer, and the   *)
(* right one.                                                               *)
(***************************************************************************)
CONSTANTS
  Zones, Instants, Callers,   \* the tables, instants and functions asked
  Lookup(_, _, _),            \* the right answer to a caller's question
  NoAnswer                    \* no answer yet

VARIABLES
  sp, t, caller,    \* the question: fixed by the initial state
  answer

vars == <<sp, t, caller, answer>>

Init ==
  /\ sp \in Zones /\ t \in Instants /\ caller \in Callers
  /\ answer = NoAnswer

Answer ==
  /\ answer = NoAnswer
  /\ answer' = Lookup(caller, sp, t)
  /\ UNCHANGED <<sp, t, caller>>

Spec == Init /\ [][Answer]_vars /\ WF_vars(Answer)
=============================================================================
