--------------------------- MODULE MCTaskSubmitter ---------------------------
(* Instances of TaskSubmitter for TLC. *)
EXTENDS TaskSubmitter

CONSTANTS f1, f2, ra, rb, rc, rd

\* ra is sent again as rb; the other keys are unique.
KeyOf(r) == IF r = rb THEN ra ELSE r
===============================================================================
