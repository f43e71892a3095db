--------------------------- MODULE MCWorkerRegistry ---------------------------
(* Instances of WorkerRegistry for TLC. *)
EXTENDS WorkerRegistry

CONSTANTS w1, w2
===============================================================================
