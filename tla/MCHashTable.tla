---------------------------- MODULE MCHashTable ----------------------------
(***************************************************************************)
(* Instances of HashTable for TLC: keys whose hash values part under the    *)
(* first mask and under the second; a table that grows, one of fixed size,  *)
(* and one with room for no second segment.                                 *)
(***************************************************************************)
EXTENDS HashTable

\* The keys are 1, 2, 3.
MCHash == <<0, 2, 3>>

Conf(nelem, ffactor, dsize, fixeddir, isfixed) ==
  [nelem |-> nelem, ffactor |-> ffactor, dsize |-> dsize,
   fixeddir |-> fixeddir, isfixed |-> isfixed]
MCConfigs == {Conf(1, 1, 1, FALSE, FALSE), Conf(1, 2, 1, FALSE, TRUE),
              Conf(2, 1, 1, TRUE, FALSE)}

Symmetry == Permutations(Scans)
=============================================================================
