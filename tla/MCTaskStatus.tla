----------------------------- MODULE MCTaskStatus -----------------------------
(* Instances of TaskStatus for TLC. *)
EXTENDS TaskStatus

CONSTANTS t1
===============================================================================
