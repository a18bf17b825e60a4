----------------------------- MODULE MCTzCache -----------------------------
(***************************************************************************)
(* Instances of TzCache for TLC: a zone file in two spellings and by its    *)
(* name with a colon, GMT (for which there may be a file too) in two        *)
(* spellings, a specification that goes by posixrules, and a name that      *)
(* does not fit.  A file may be missing, or hold one of two tables.         *)
(***************************************************************************)
EXTENDS TzCache, TLC

MCNames == {"Area/Town", "AREA/TOWN", ":AREA/TOWN", "Gmt", "GMT", "XST5XDT",
            "too long"}
MCUpper ==
  [n \in MCNames |-> CASE n = "Area/Town" -> "AREA/TOWN"
                       [] n = "Gmt" -> "GMT"
                       [] OTHER -> n]
MCPath ==
  [n \in MCNames |-> IF n = ":AREA/TOWN" THEN "AREA/TOWN" ELSE MCUpper[n]]
MCFiles == {"AREA/TOWN", "GMT", "POSIXRULES"}
MCCanonical ==
  [f \in MCFiles |-> CASE f = "AREA/TOWN" -> "Area/Town"
                       [] f = "POSIXRULES" -> "posixrules"
                       [] OTHER -> f]
=============================================================================
