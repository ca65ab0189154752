----------------------------- MODULE MCJobPages -----------------------------
(* Instances of JobPages for TLC. *)
EXTENDS JobPages

CONSTANTS j1, j2, f1, f2, r1, r2

\* Only j1 runs again.
MCMaxReruns == [j \in Jobs |-> IF j \in MayFail THEN 1 ELSE 0]
=============================================================================
