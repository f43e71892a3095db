------------------------------- MODULE DagSpec -------------------------------
(***************************************************************************)
(* What the DAG engine promises for one job, with no Redis in it: a task   *)
(* is released to the task stream once, and only when all its parents have *)
(* finished.  DagEngine, which counts dependencies in a Redis hash while   *)
(* the submitting pipeline is still running, implements this.              *)
(***************************************************************************)
CONSTANTS Task,      \* the tasks of the job
          Graphs     \* the edge sets a request may carry

VARIABLES edges,     \* <<parent, child>> pairs of the submitted DAG
          released,  \* tasks that were put on the task stream
          done       \* tasks reported SUCCESS at least once

vars == <<edges, released, done>>

Parents(t) == {p \in Task : <<p, t>> \in edges}

Init == /\ edges \in Graphs
        /\ released = {}
        /\ done = {}

\* A root is released by the submission itself.
ReleaseRoot(t) == /\ t \notin released
                  /\ Parents(t) = {}
                  /\ released' = released \cup {t}
                  /\ UNCHANGED <<edges, done>>

\* A released task finishes and takes some of the tasks it unblocks with it.
Finish(t) == /\ t \in released
             /\ done' = done \cup {t}
             /\ \E next \in SUBSET (Task \ released) :
                  /\ \A c \in next : Parents(c) \subseteq done'
                  /\ released' = released \cup next
             /\ UNCHANGED edges

Next == \E t \in Task : ReleaseRoot(t) \/ Finish(t)

Spec == Init /\ [][Next]_vars
===============================================================================
