------------------------------ MODULE DagEngine ------------------------------
(***************************************************************************)
(* The Redis DAG engine of one job: the commands AppendDagToPipeline sends *)
(* (src/api-server/src/task_submitter.cpp) and the Lua script that a       *)
(* SUCCESS report runs (src/common/include/redis/scripts/complete_task.hpp)*)
(*                                                                         *)
(* The pipeline is not a MULTI/EXEC transaction: Redis executes its        *)
(* commands one after the other, and the script of another connection may  *)
(* run between any two of them.  Each command is therefore an action.  The *)
(* script itself is atomic in Redis and is one action.                     *)
(*                                                                         *)
(* A hash field that does not exist reads as 0 in HINCRBY, so deps[t] = 0  *)
(* stands for "absent" as well as for "0".                                 *)
(***************************************************************************)
EXTENDS Integers, FiniteSets

CONSTANTS
  Task,        \* the tasks of the job
  Graphs,      \* the edge sets a request may carry (the server checks no cycle)
  MayBreak,    \* may the connection break in the middle of the pipeline?
  MayExpire    \* may the 24-hour TTL of the keys run out during the job?

ASSUME DagAssumption == /\ IsFiniteSet(Task)
                        /\ Graphs \subseteq SUBSET (Task \X Task)
                        /\ MayBreak \in BOOLEAN
                        /\ MayExpire \in BOOLEAN

VARIABLES
  edges,       \* <<parent, child>> pairs of the request
  phase,       \* how far the pipeline is
  sent,        \* tasks whose HSET or XADD has run
  children,    \* dts:dag:children:<t>, a Redis set per task
  deps,        \* dts:dag:deps:<job>, the hash of open dependency counts
  meta,        \* tasks whose dts:task:meta:<t> exists
  xadds,       \* how often t was XADDed to dts:stream:tasks
  errors,      \* entries of dts:stream:errors
  completed,   \* tasks reported SUCCESS at least once
  expired      \* has any key run out? (history, no part of the program)

vars == <<edges, phase, sent, children, deps, meta, xadds, errors, completed,
          expired>>

Parents(t)  == {p \in Task : <<p, t>> \in edges}
Children(p) == {c \in Task : <<p, c>> \in edges}

Init == /\ edges \in Graphs
        /\ phase = "edges"
        /\ sent = {}
        /\ children = [t \in Task |-> {}]
        /\ deps = [t \in Task |-> 0]
        /\ meta = {}
        /\ xadds = [t \in Task |-> 0]
        /\ errors = {}
        /\ completed = {}
        /\ expired = FALSE

-----------------------------------------------------------------------------
(***************************************************************************)
(* Bugs the properties are meant to catch, each a variant of a definition  *)
(* below: they are used to test the properties, never by Next.             *)
(***************************************************************************)
BugPendingPlusOne(t)  == Cardinality(Parents(t)) + 1
BugPendingChildren(t) == Cardinality(Children(t))
BugReadyAtMost(p)     == {c \in children[p] : deps[c] - 1 <= 0}
BugNoUnderflow(p)     == {}
BugNoDel(p)           == children
BugErrorField(type, ts) == {[type |-> type, id |-> t] : t \in ts}

-----------------------------------------------------------------------------
(***************************************************************************)
(* The submitting pipeline: all SADDs first, then two commands per task.   *)
(***************************************************************************)

\* SADD children(p) c, one per edge of the request.
SendEdge(p, c) ==
  /\ phase = "edges"
  /\ <<p, c>> \in edges
  /\ c \notin children[p]
  /\ children' = [children EXCEPT ![p] = @ \cup {c}]
  /\ UNCHANGED <<edges, phase, sent, deps, meta, xadds, errors, completed, expired>>

EdgesSent ==
  /\ phase = "edges"
  /\ \A p \in Task : children[p] = Children(p)
  /\ phase' = "tasks"
  /\ UNCHANGED <<edges, sent, children, deps, meta, xadds, errors, completed, expired>>

\* SET meta(t), for the next task in request order (any order is possible).
SetMeta(t) ==
  /\ phase = "tasks"
  /\ meta \subseteq sent
  /\ t \notin sent
  /\ meta' = meta \cup {t}
  /\ UNCHANGED <<edges, phase, sent, children, deps, xadds, errors, completed, expired>>

\* dependency_map counts the edges into t.
Pending(t) == Cardinality(Parents(t))

\* HSET deps t Pending(t), whatever a script has left in the field.
HSetPending(t) ==
  /\ phase = "tasks"
  /\ t \in meta \ sent
  /\ Pending(t) > 0
  /\ deps' = [deps EXCEPT ![t] = Pending(t)]
  /\ sent' = sent \cup {t}
  /\ UNCHANGED <<edges, phase, children, meta, xadds, errors, completed, expired>>

\* XADD tasks t, for a task without parents.
XAddRoot(t) ==
  /\ phase = "tasks"
  /\ t \in meta \ sent
  /\ Pending(t) = 0
  /\ xadds' = [xadds EXCEPT ![t] = @ + 1]
  /\ sent' = sent \cup {t}
  /\ UNCHANGED <<edges, phase, children, deps, meta, errors, completed, expired>>

PipelineDone ==
  /\ phase = "tasks"
  /\ sent = Task
  /\ phase' = "sent"
  /\ UNCHANGED <<edges, sent, children, deps, meta, xadds, errors, completed, expired>>

\* The connection breaks: the rest of the pipeline is never executed.
\* ProcessBatch only logs the exception; nothing sends it again.
PipelineBreaks ==
  /\ MayBreak
  /\ phase \in {"edges", "tasks"}
  /\ phase' = "broken"
  /\ UNCHANGED <<edges, sent, children, deps, meta, xadds, errors, completed, expired>>

-----------------------------------------------------------------------------
(***************************************************************************)
(* The script of a SUCCESS report of p.  Only a task that was XADDed can   *)
(* run; it may be delivered, run and reported several times, so the script *)
(* may run again for a completed task.                                     *)
(***************************************************************************)
Error(type, ts) == {[type |-> type, task |-> t] : t \in ts}

\* HINCRBY -1 left 0, respectively less than 0.
Ready(p)     == {c \in children[p] : deps[c] - 1 = 0}
Underflow(p) == {c \in children[p] : deps[c] - 1 < 0}

\* DEL children(p): the next run of the script finds no child.
Consumed(p) == [children EXCEPT ![p] = {}]

CompleteTask(p) ==
  /\ xadds[p] > 0
  /\ deps' = [c \in Task |-> IF c \in children[p] THEN deps[c] - 1 ELSE deps[c]]
  /\ xadds' = [c \in Task |-> IF c \in Ready(p) \cap meta THEN xadds[c] + 1 ELSE xadds[c]]
  /\ errors' = errors \cup Error("MISSING_META", Ready(p) \ meta)
                      \cup Error("NEGATIVE_DEPS", Underflow(p))
  /\ children' = Consumed(p)
  /\ completed' = completed \cup {p}
  /\ UNCHANGED <<edges, phase, sent, meta, expired>>

-----------------------------------------------------------------------------
(***************************************************************************)
(* Redis drops a key whose TTL ran out.  The TTL is a day and the pipeline *)
(* takes milliseconds, so no key expires while it is being sent.           *)
(***************************************************************************)
PipelineOver == phase \in {"sent", "broken"}

ExpireChildren(p) ==
  /\ MayExpire /\ PipelineOver
  /\ children[p] # {}
  /\ children' = [children EXCEPT ![p] = {}]
  /\ expired' = TRUE
  /\ UNCHANGED <<edges, phase, sent, deps, meta, xadds, errors, completed>>

ExpireMeta(t) ==
  /\ MayExpire /\ PipelineOver
  /\ t \in meta
  /\ meta' = meta \ {t}
  /\ expired' = TRUE
  /\ UNCHANGED <<edges, phase, sent, children, deps, xadds, errors, completed>>

\* EXPIRE deps is the last command of the pipeline, sent if there are edges.
ExpireDeps ==
  /\ MayExpire
  /\ phase = "sent"
  /\ edges # {}
  /\ deps' = [t \in Task |-> 0]
  /\ expired' = TRUE
  /\ UNCHANGED <<edges, phase, sent, children, meta, xadds, errors, completed>>

-----------------------------------------------------------------------------
Pipeline == \/ \E p, c \in Task : SendEdge(p, c)
            \/ EdgesSent
            \/ \E t \in Task : SetMeta(t) \/ HSetPending(t) \/ XAddRoot(t)
            \/ PipelineDone

Next == \/ Pipeline
        \/ PipelineBreaks
        \/ \E t \in Task : CompleteTask(t) \/ ExpireChildren(t) \/ ExpireMeta(t)
        \/ ExpireDeps

Spec == Init /\ [][Next]_vars

\* The flusher thread runs the pipeline to its end, and every task that is on
\* the stream is eventually reported SUCCESS (Dispatch and TaskStatus examine
\* when that is so).
FairSpec == /\ Spec
            /\ WF_vars(Pipeline)
            /\ \A t \in Task : WF_vars(CompleteTask(t))

-----------------------------------------------------------------------------
(***************************************************************************)
(* Properties                                                              *)
(***************************************************************************)
\* The types of the variables.
TypeOK ==
  /\ edges \in SUBSET (Task \X Task)
  /\ phase \in {"edges", "tasks", "sent", "broken"}
  /\ sent \in SUBSET Task
  /\ children \in [Task -> SUBSET Task]
  /\ deps \in [Task -> Int]
  /\ meta \in SUBSET Task
  /\ xadds \in [Task -> Nat]
  /\ errors \in SUBSET [type : {"MISSING_META", "NEGATIVE_DEPS"}, task : Task]
  /\ completed \in SUBSET Task
  /\ expired \in BOOLEAN

\* However often parents are reported, in whatever order and however the
\* reports interleave with the pipeline, the engine puts a task on the stream
\* at most once (the DEL of complete_task.hpp:75 and the test remain == 0).
AtMostOnce == \A t \in Task : xadds[t] <= 1

\* A task is on the stream only when every parent has been reported SUCCESS.
ParentsFirst == \A e \in edges : xadds[e[2]] > 0 => e[1] \in completed

\* While no key expires and no error was recorded, the hash holds exactly the
\* number of parents that are still open, for every task the pipeline has sent
\* (the HSET of task_submitter.cpp:368 against the HINCRBY of the script).
CounterExact ==
  errors = {} /\ ~expired =>
    \A t \in sent : deps[t] = Cardinality(Parents(t) \ completed)

\* A task whose parents are all done and that is not on the stream, once the
\* pipeline has run to its end, has left an entry in the error stream: while
\* the keys live, the engine never loses a trigger silently (the errors the
\* script XADDs when HINCRBY leaves less than 0 or the meta key is missing).
NoSilentStall ==
  phase = "sent" /\ ~expired =>
    \A t \in Task : Parents(t) \subseteq completed /\ xadds[t] = 0
                      => \E e \in errors : e.task = t

\* README.md:129, "WAITING --> PENDING: Lua Trigger (Indegree=0)": a waiting
\* task whose parents are all done has been triggered.
TriggeredAtIndegreeZero ==
  phase = "sent" =>
    \A t \in Task : Parents(t) \subseteq completed => xadds[t] > 0

\* Reachability by at most n edges, for the premise of the next property.
Ancestors(t) ==
  LET up[n \in 0 .. Cardinality(Task)] ==
        IF n = 0 THEN Parents(t)
        ELSE up[n - 1] \cup UNION {Parents(p) : p \in up[n - 1]}
  IN  up[Cardinality(Task)]

Acyclic == \A t \in Task : t \notin Ancestors(t)

\* The engine implements the abstract specification.
Abs == INSTANCE DagSpec WITH released <- {t \in Task : xadds[t] > 0},
                             done <- completed
Implements == Abs!Spec
===============================================================================
