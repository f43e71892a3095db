------------------------------ MODULE MCJobQuery ------------------------------
(* Instances of JobQuery for TLC. *)
EXTENDS JobQuery

CONSTANTS t1, t2
===============================================================================
