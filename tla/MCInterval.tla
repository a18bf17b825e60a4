----------------------------- MODULE MCInterval -----------------------------
(***************************************************************************)
(* Instances of Interval for TLC: an int has five bits, a month three days  *)
(* and a day two hours of two microseconds, so that every field wraps and   *)
(* every combination of signs and of whole units occurs.                    *)
(***************************************************************************)
EXTENDS Interval

MCYears == {-8, -1, 0, 5, 7}
MCMonths == {-5, -1, 0, 1, 15}
MCMDays == (-16)..15
MCHours == {-16, -5, -3, -2, -1, 0, 1, 2, 3, 4, 15}
MCUsecs == {-3, -1, 0, 1, 6}
=============================================================================
