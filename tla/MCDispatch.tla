------------------------------ MODULE MCDispatch ------------------------------
(* Instances of Dispatch for TLC. *)
EXTENDS Dispatch, TLC

CONSTANTS s1, s2, w1

Symm == Permutations(Sched)
===============================================================================
