---------------------------- MODULE MCDispatchPool ----------------------------
(* Instances of DispatchPool for TLC. *)
EXTENDS DispatchPool

CONSTANTS p1, p2, j1, j2, c1
===============================================================================
