--------------------------- MODULE DagEngineProofs ---------------------------
(***************************************************************************)
(* For every finite set of tasks, every DAG (or cyclic graph), every       *)
(* interleaving of the pipeline with the script, and with or without       *)
(* broken connections and expired keys: the engine is type correct, never  *)
(* triggers a task twice, never triggers it before its parents are done,   *)
(* keeps exact counts unless it says so in the error stream, and implements*)
(* DagSpec; and the checks of both clients refuse exactly the cyclic       *)
(* graphs.                                                                 *)
(***************************************************************************)
EXTENDS DagClient, FiniteSetTheorems, WellFoundedInduction, TLAPS

\* A count is positive only between the HSET and the last decrement, and then
\* it bounds the number of parents that are still open from above.
CountCovers ==
  \A t \in Task : deps[t] > 0 => /\ t \in sent
                                 /\ deps[t] >= Cardinality(Parents(t) \ completed)

\* A task on the stream was put there once, with no open parent, and its count
\* cannot reach zero again.
OnStream ==
  \A t \in Task : xadds[t] # 0 => /\ xadds[t] = 1
                                  /\ t \in sent
                                  /\ deps[t] <= 0
                                  /\ Parents(t) \subseteq completed

\* The children key of a completed task is gone, and every other one lists
\* children of the task only.
KeysConsumed == /\ \A p \in Task : children[p] \subseteq Children(p)
                /\ \A p \in completed : children[p] = {}

\* No task runs before the SADDs are through.
EdgesFirst == phase = "edges" => completed = {} /\ sent = {}

IInv == TypeOK /\ CountCovers /\ OnStream /\ KeysConsumed /\ EdgesFirst

-----------------------------------------------------------------------------
\* The set of parents is finite, and so is what is left of it.
LEMMA ParentsFinite ==
  ASSUME NEW t \in Task, NEW S
  PROVE  /\ IsFiniteSet(Parents(t) \ S)
         /\ Cardinality(Parents(t) \ S) \in Nat
         /\ Cardinality(Parents(t) \ S) <= Cardinality(Parents(t))
         /\ Cardinality(Parents(t)) \in Nat
<1>1. IsFiniteSet(Parents(t))
  BY FS_Subset, DagAssumption DEF Parents
<1>2. Parents(t) \ S \in SUBSET Parents(t)
  OBVIOUS
<1> QED BY <1>1, <1>2, FS_Subset, FS_CardinalityType

\* A task with no pending dependency has no parent.
LEMMA NoParents ==
  ASSUME NEW t \in Task, Pending(t) = 0
  PROVE  Parents(t) = {}
<1>1. Parents(t) \ {} = Parents(t)
  OBVIOUS
<1> QED BY <1>1, ParentsFinite, FS_EmptySet DEF Pending

\* Completing one open parent closes exactly one; completing any task closes
\* at most one.
LEMMA OneParentLess ==
  ASSUME NEW t \in Task, NEW S, NEW p
  PROVE  /\ Cardinality(Parents(t) \ (S \cup {p})) <= Cardinality(Parents(t) \ S)
         /\ p \in Parents(t) \ S =>
              Cardinality(Parents(t) \ (S \cup {p})) = Cardinality(Parents(t) \ S) - 1
<1> DEFINE open == Parents(t) \ S
<1>1. Parents(t) \ (S \cup {p}) = open \ {p}
  OBVIOUS
<1>2. IsFiniteSet(open) /\ Cardinality(open) \in Nat
  BY ParentsFinite
<1>3. Cardinality(open \ {p}) = IF p \in open THEN Cardinality(open) - 1 ELSE Cardinality(open)
  <2> HIDE DEF open
  <2> QED BY <1>2, FS_RemoveElement
<1>4. Cardinality(open \ {p}) <= Cardinality(open)
  <2> HIDE DEF open
  <2> QED BY <1>2, <1>3
<1> QED BY <1>1, <1>3, <1>4

\* Once all but none are closed, all parents are done.
LEMMA NoneOpen ==
  ASSUME NEW t \in Task, NEW S, Cardinality(Parents(t) \ S) <= 0
  PROVE  Parents(t) \subseteq S
<1>1. Parents(t) \ S = {}
  BY ParentsFinite, FS_EmptySet
<1> QED BY <1>1

-----------------------------------------------------------------------------
LEMMA InitIInv == Init => IInv
<1> SUFFICES ASSUME Init PROVE IInv
  OBVIOUS
<1>1. TypeOK
  <2>1. errors \in SUBSET [type : {"MISSING_META", "NEGATIVE_DEPS"}, task : Task]
    BY DEF Init
  <2>2. edges \in SUBSET (Task \X Task)
    BY DagAssumption DEF Init
  <2>3. /\ children \in [Task -> SUBSET Task] /\ deps \in [Task -> Int]
        /\ xadds \in [Task -> Nat]
    BY DEF Init
  <2> QED BY <2>1, <2>2, <2>3 DEF Init, TypeOK
<1>2. CountCovers /\ OnStream
  BY DEF Init, CountCovers, OnStream
<1>3. KeysConsumed /\ EdgesFirst
  BY DEF Init, KeysConsumed, EdgesFirst
<1> QED BY <1>1, <1>2, <1>3 DEF IInv

\* The script of a SUCCESS report preserves the invariant.
LEMMA CompleteStep ==
  ASSUME IInv, NEW p \in Task, CompleteTask(p)
  PROVE  IInv'
<1> USE DEF IInv
<1>0. p \in sent /\ xadds[p] > 0 /\ phase # "edges"
  BY DEF CompleteTask, TypeOK, OnStream, EdgesFirst
<1>1. TypeOK'
  <2>1. children' \in [Task -> SUBSET Task] /\ completed' \in SUBSET Task
    BY DEF CompleteTask, TypeOK, Consumed
  <2>2. deps' \in [Task -> Int] /\ xadds' \in [Task -> Nat]
    BY DEF CompleteTask, TypeOK
  <2>3. errors' \in SUBSET [type : {"MISSING_META", "NEGATIVE_DEPS"}, task : Task]
    BY DEF CompleteTask, TypeOK, Error, Ready, Underflow
  <2> QED BY <2>1, <2>2, <2>3 DEF CompleteTask, TypeOK
<1>2. ASSUME NEW c \in Task, c \in children[p]
      PROVE  p \in Parents(c) \ completed
  BY <1>2 DEF KeysConsumed, Children, Parents, TypeOK
<1>3. ASSUME NEW c \in Task
      PROVE  /\ deps'[c] = IF c \in children[p] THEN deps[c] - 1 ELSE deps[c]
             /\ Parents(c)' = Parents(c)
             /\ completed' = completed \cup {p}
             /\ sent' = sent
  BY DEF CompleteTask, TypeOK, Parents
<1>4. CountCovers'
  <2> SUFFICES ASSUME NEW t \in Task, deps'[t] > 0
               PROVE  t \in sent' /\ deps'[t] >= Cardinality(Parents(t) \ completed)'
    BY DEF CountCovers
  <2>1. deps[t] > 0 /\ deps[t] \in Int
    BY <1>3 DEF TypeOK
  <2>2. t \in sent /\ deps[t] >= Cardinality(Parents(t) \ completed)
    BY <2>1 DEF CountCovers
  <2>3. Cardinality(Parents(t) \ completed)' = Cardinality(Parents(t) \ (completed \cup {p}))
    BY <1>3
  <2>4. Cardinality(Parents(t) \ completed) \in Nat
        /\ Cardinality(Parents(t) \ (completed \cup {p})) \in Nat
    BY ParentsFinite
  <2>5. CASE t \in children[p]
    <3>1. p \in Parents(t) \ completed
      BY <1>2, <2>5
    <3>2. Cardinality(Parents(t) \ (completed \cup {p})) = Cardinality(Parents(t) \ completed) - 1
      BY <3>1, OneParentLess
    <3>3. deps'[t] = deps[t] - 1
      BY <1>3, <2>5
    <3> QED BY <1>3, <2>1, <2>2, <2>3, <2>4, <3>2, <3>3
  <2>6. CASE t \notin children[p]
    <3>1. Cardinality(Parents(t) \ (completed \cup {p})) <= Cardinality(Parents(t) \ completed)
      BY OneParentLess
    <3>2. deps'[t] = deps[t]
      BY <1>3, <2>6
    <3> QED BY <1>3, <2>1, <2>2, <2>3, <2>4, <3>1, <3>2
  <2> QED BY <2>5, <2>6
<1>5. OnStream'
  <2> SUFFICES ASSUME NEW t \in Task, xadds'[t] # 0
               PROVE  /\ xadds'[t] = 1 /\ t \in sent' /\ deps'[t] <= 0
                      /\ Parents(t)' \subseteq completed'
    BY DEF OnStream
  <2>1. CASE t \in children[p] /\ deps[t] = 1
    <3>1. xadds[t] = 0
      BY <2>1 DEF OnStream, TypeOK
    <3>2. xadds'[t] = 1
      BY <2>1, <3>1 DEF CompleteTask, TypeOK, Ready
    <3>3. t \in sent /\ 1 >= Cardinality(Parents(t) \ completed)
      BY <2>1 DEF CountCovers
    <3>4. Cardinality(Parents(t) \ (completed \cup {p})) <= 0
      <4>1. p \in Parents(t) \ completed
        BY <1>2, <2>1
      <4>2. Cardinality(Parents(t) \ (completed \cup {p})) = Cardinality(Parents(t) \ completed) - 1
        BY <4>1, OneParentLess
      <4>3. Cardinality(Parents(t) \ completed) \in Nat
        BY ParentsFinite
      <4> QED BY <3>3, <4>2, <4>3
    <3>5. Parents(t) \subseteq completed \cup {p}
      BY <3>4, NoneOpen
    <3> QED BY <1>3, <2>1, <3>2, <3>3, <3>5
  <2>2. CASE ~ (t \in children[p] /\ deps[t] = 1)
    <3>1. xadds'[t] = xadds[t]
      BY <2>2 DEF CompleteTask, TypeOK, Ready
    <3> QED BY <1>3, <3>1 DEF OnStream, TypeOK
  <2> QED BY <2>1, <2>2
<1>6. KeysConsumed'
  <2>1. \A q \in Task : children'[q] = IF q = p THEN {} ELSE children[q]
    BY DEF CompleteTask, TypeOK, Consumed
  <2>2. \A q \in Task : Children(q)' = Children(q)
    BY DEF CompleteTask, Children
  <2> QED BY <1>3, <2>1, <2>2 DEF KeysConsumed, TypeOK
<1>7. EdgesFirst'
  BY <1>0 DEF EdgesFirst, CompleteTask
<1> QED BY <1>1, <1>4, <1>5, <1>6, <1>7

\* Every command of the pipeline preserves the invariant.
LEMMA PipelineStep ==
  ASSUME IInv, Pipeline
  PROVE  IInv'
<1> USE DEF IInv
<1>1. ASSUME NEW p \in Task, NEW c \in Task, SendEdge(p, c)
      PROVE  IInv'
  BY <1>1 DEF SendEdge, TypeOK, CountCovers, OnStream, KeysConsumed, EdgesFirst, Parents, Children
<1>2. CASE EdgesSent
  BY <1>2 DEF EdgesSent, TypeOK, CountCovers, OnStream, KeysConsumed, EdgesFirst, Parents, Children
<1>3. ASSUME NEW t \in Task, SetMeta(t)
      PROVE  IInv'
  BY <1>3 DEF SetMeta, TypeOK, CountCovers, OnStream, KeysConsumed, EdgesFirst, Parents, Children
<1>4. ASSUME NEW t \in Task, HSetPending(t)
      PROVE  IInv'
  <2>1. Cardinality(Parents(t)) \in Nat
        /\ Cardinality(Parents(t) \ completed) <= Cardinality(Parents(t))
    BY ParentsFinite
  <2>2. \A u \in Task : deps'[u] = IF u = t THEN Cardinality(Parents(t)) ELSE deps[u]
    BY <1>4 DEF HSetPending, Pending, TypeOK
  <2>3. /\ sent' = sent \cup {t} /\ t \notin sent /\ phase = "tasks"
        /\ UNCHANGED <<edges, phase, children, meta, xadds, errors, completed, expired>>
    BY <1>4 DEF HSetPending
  <2>4. \A u \in Task : Parents(u)' = Parents(u) /\ Children(u)' = Children(u)
    BY <2>3 DEF Parents, Children
  <2>5. TypeOK'
    BY <1>4, <2>1 DEF TypeOK, HSetPending, Pending
  <2>6. CountCovers'
    BY <2>1, <2>2, <2>3, <2>4 DEF CountCovers
  <2>7. OnStream'
    BY <2>2, <2>3, <2>4 DEF OnStream
  <2>8. KeysConsumed' /\ EdgesFirst'
    BY <2>3, <2>4 DEF KeysConsumed, EdgesFirst
  <2> QED BY <2>5, <2>6, <2>7, <2>8
<1>5. ASSUME NEW t \in Task, XAddRoot(t)
      PROVE  IInv'
  <2>1. xadds[t] = 0 /\ deps[t] <= 0 /\ Parents(t) = {} /\ phase = "tasks"
    <3>1. Parents(t) = {} /\ t \notin sent /\ phase = "tasks"
      BY <1>5, NoParents DEF XAddRoot
    <3>2. xadds[t] = 0
      BY <3>1 DEF OnStream
    <3>3. deps[t] \in Int /\ ~ deps[t] > 0
      BY <3>1 DEF CountCovers, TypeOK
    <3> QED BY <3>1, <3>2, <3>3
  <2>2. \A u \in Task : xadds'[u] = IF u = t THEN 1 ELSE xadds[u]
    BY <1>5, <2>1 DEF XAddRoot, TypeOK
  <2>3. /\ sent' = sent \cup {t}
        /\ UNCHANGED <<edges, phase, children, deps, meta, errors, completed, expired>>
    BY <1>5 DEF XAddRoot
  <2>4. \A u \in Task : Parents(u)' = Parents(u) /\ Children(u)' = Children(u)
    BY <2>3 DEF Parents, Children
  <2>5. TypeOK'
    BY <1>5 DEF TypeOK, XAddRoot
  <2>6. CountCovers'
    BY <2>3, <2>4 DEF CountCovers
  <2>7. OnStream'
    BY <2>1, <2>2, <2>3, <2>4 DEF OnStream
  <2>8. KeysConsumed' /\ EdgesFirst'
    BY <2>1, <2>3, <2>4 DEF KeysConsumed, EdgesFirst
  <2> QED BY <2>5, <2>6, <2>7, <2>8
<1>6. CASE PipelineDone
  BY <1>6 DEF PipelineDone, TypeOK, CountCovers, OnStream, KeysConsumed, EdgesFirst, Parents, Children
<1> QED BY <1>1, <1>2, <1>3, <1>4, <1>5, <1>6 DEF Pipeline

LEMMA NextIInv == IInv /\ [Next]_vars => IInv'
<1> SUFFICES ASSUME IInv, [Next]_vars PROVE IInv'
  OBVIOUS
<1> USE DEF IInv
<1>1. CASE Pipeline
  BY <1>1, PipelineStep
<1>2. CASE PipelineBreaks
  BY <1>2 DEF PipelineBreaks, TypeOK, CountCovers, OnStream, KeysConsumed, EdgesFirst, Parents, Children
<1>3. ASSUME NEW t \in Task, CompleteTask(t)
      PROVE  IInv'
  BY <1>3, CompleteStep
<1>4. ASSUME NEW t \in Task, ExpireChildren(t)
      PROVE  IInv'
  BY <1>4 DEF ExpireChildren, PipelineOver, TypeOK, CountCovers, OnStream, KeysConsumed, EdgesFirst, Parents, Children
<1>5. ASSUME NEW t \in Task, ExpireMeta(t)
      PROVE  IInv'
  BY <1>5 DEF ExpireMeta, TypeOK, CountCovers, OnStream, KeysConsumed, EdgesFirst, Parents, Children
<1>6. CASE ExpireDeps
  BY <1>6 DEF ExpireDeps, TypeOK, CountCovers, OnStream, KeysConsumed, EdgesFirst, Parents, Children
<1>7. CASE UNCHANGED vars
  BY <1>7 DEF vars, TypeOK, CountCovers, OnStream, KeysConsumed, EdgesFirst, Parents, Children
<1> QED BY <1>1, <1>2, <1>3, <1>4, <1>5, <1>6, <1>7 DEF Next

LEMMA Invariance == Spec => []IInv
BY InitIInv, NextIInv, PTL DEF Spec

-----------------------------------------------------------------------------
\* Type correctness of the engine's keys and of the pipeline.
THEOREM TypeCorrect == Spec => []TypeOK
<1>1. IInv => TypeOK
  BY DEF IInv
<1> QED BY <1>1, Invariance, PTL

\* However reports, pipeline, broken connections and expired keys interleave,
\* the engine XADDs a task at most once.
THEOREM TriggeredAtMostOnce == Spec => []AtMostOnce
<1>1. IInv => AtMostOnce
  BY DEF IInv, OnStream, AtMostOnce, TypeOK
<1> QED BY <1>1, Invariance, PTL

\* The engine XADDs a task only after each parent was reported SUCCESS.
THEOREM TriggeredAfterParents == Spec => []ParentsFirst
<1>1. ASSUME IInv PROVE ParentsFirst
  <2> SUFFICES ASSUME NEW e \in edges, xadds[e[2]] > 0
               PROVE  e[1] \in completed
    BY DEF ParentsFirst
  <2>1. e \in Task \X Task
    BY <1>1 DEF IInv, TypeOK
  <2>2. e[1] \in Parents(e[2])
    BY <2>1 DEF Parents
  <2> QED BY <1>1, <2>1, <2>2 DEF IInv, OnStream
<1> QED BY <1>1, Invariance, PTL

-----------------------------------------------------------------------------
(***************************************************************************)
(* Refinement.  The step of a root's XADD is ReleaseRoot, the script is    *)
(* Finish; every other command and every expiry is a stuttering step.      *)
(***************************************************************************)
Released == {t \in Task : xadds[t] > 0}

LEMMA AbsInit == Init => Abs!Init
BY DEF Init, Abs!Init

LEMMA AbsStutter ==
  ASSUME UNCHANGED <<edges, xadds, completed>>
  PROVE  UNCHANGED Abs!vars
BY DEF Abs!vars

LEMMA AbsXAddRoot ==
  ASSUME IInv, NEW t \in Task, XAddRoot(t)
  PROVE  Abs!ReleaseRoot(t)
<1>1. xadds[t] = 0
  BY DEF XAddRoot, IInv, OnStream, TypeOK
<1>2. \A u \in Task : xadds'[u] = IF u = t THEN 1 ELSE xadds[u]
  BY <1>1 DEF XAddRoot, IInv, TypeOK
<1>3. Released' = Released \cup {t} /\ t \notin Released
  BY <1>1, <1>2 DEF Released
<1>4. Abs!Parents(t) = {}
  BY NoParents DEF XAddRoot, Parents, Abs!Parents
<1> QED BY <1>3, <1>4 DEF XAddRoot, Abs!ReleaseRoot, Released

LEMMA AbsComplete ==
  ASSUME IInv, IInv', NEW p \in Task, CompleteTask(p)
  PROVE  Abs!Finish(p)
<1>1. p \in Released /\ completed' = completed \cup {p} /\ edges' = edges
  BY DEF CompleteTask, Released
<1>2. \A u \in Task : xadds'[u] >= xadds[u]
  BY DEF CompleteTask, IInv, TypeOK
<1>3. Released \subseteq Released' /\ Released' \subseteq Task
  BY <1>2 DEF Released, IInv, TypeOK
<1> DEFINE next == Released' \ Released
<1>4. next \in SUBSET (Task \ Released) /\ Released' = Released \cup next
  BY <1>3
<1>5. ASSUME NEW c \in next
      PROVE  Abs!Parents(c) \subseteq completed'
  <2>1. c \in Task /\ xadds'[c] # 0
    BY <1>5 DEF Released, IInv, TypeOK
  <2>2. Parents(c)' \subseteq completed'
    BY <2>1 DEF IInv, OnStream
  <2> QED BY <1>1, <2>2 DEF Parents, Abs!Parents
<1> HIDE DEF next
<1>6. \E S \in SUBSET (Task \ Released) :
        /\ \A c \in S : Abs!Parents(c) \subseteq completed'
        /\ Released' = Released \cup S
  BY <1>4, <1>5
<1> QED BY <1>1, <1>6 DEF Abs!Finish, Released

LEMMA AbsNext ==
  ASSUME IInv, IInv', [Next]_vars
  PROVE  [Abs!Next]_(Abs!vars)
<1>1. ASSUME NEW t \in Task, XAddRoot(t)
      PROVE  Abs!Next
  BY <1>1, AbsXAddRoot DEF Abs!Next
<1>2. ASSUME NEW t \in Task, CompleteTask(t)
      PROVE  Abs!Next
  BY <1>2, AbsComplete DEF Abs!Next
<1>3. CASE UNCHANGED <<edges, xadds, completed>>
  BY <1>3, AbsStutter
<1>4. UNCHANGED vars => UNCHANGED <<edges, xadds, completed>>
  BY DEF vars
<1>5. ASSUME NEW t \in Task,
             SetMeta(t) \/ HSetPending(t) \/ ExpireChildren(t) \/ ExpireMeta(t)
      PROVE  UNCHANGED <<edges, xadds, completed>>
  BY <1>5 DEF SetMeta, HSetPending, ExpireChildren, ExpireMeta
<1>6. ASSUME NEW p \in Task, NEW c \in Task, SendEdge(p, c)
      PROVE  UNCHANGED <<edges, xadds, completed>>
  BY <1>6 DEF SendEdge
<1>7. ASSUME EdgesSent \/ PipelineDone \/ PipelineBreaks \/ ExpireDeps
      PROVE  UNCHANGED <<edges, xadds, completed>>
  BY <1>7 DEF EdgesSent, PipelineDone, PipelineBreaks, ExpireDeps
<1> QED BY <1>1, <1>2, <1>3, <1>4, <1>5, <1>6, <1>7 DEF Next, Pipeline

\* Every behaviour of the engine is a behaviour of DagSpec: a task is released
\* once, when all its parents are done.
THEOREM EngineImplementsDagSpec == Spec => Implements
<1>1. IInv /\ IInv' /\ [Next]_vars => [Abs!Next]_(Abs!vars)
  BY AbsNext
<1> QED BY <1>1, AbsInit, Invariance, PTL DEF Spec, Abs!Spec, Implements

-----------------------------------------------------------------------------
(***************************************************************************)
(* The counters.  A parent may be reported before the HSET of its child,   *)
(* which then overwrites the decrement; but the decrement has left an      *)
(* entry in the error stream.  What is exact is therefore said per task:   *)
(* as long as none of its keys has expired and it has no entry.            *)
(***************************************************************************)
NoError(t) == ~ \E e \in errors : e.task = t

\* The children of a task that was not reported yet are all in its key.
KeysComplete ==
  ~expired /\ (phase \in {"tasks", "sent"} \/ sent # {}) =>
    \A p \in Task \ completed : children[p] = Children(p)

\* Before its HSET a task has seen no report of a parent; after it the field
\* counts the open parents, and the task is on the stream when none is.
Settled ==
  ~expired => \A t \in Task : NoError(t) =>
    /\ t \notin sent => deps[t] = 0 /\ Parents(t) \cap completed = {}
    /\ t \in sent => /\ deps[t] = Cardinality(Parents(t) \ completed)
                     /\ Parents(t) \subseteq completed => xadds[t] > 0

AllSent == phase = "sent" => sent = Task

Exact == KeysComplete /\ Settled /\ AllSent

\* An entry stays in the error stream.
LEMMA ErrorStays ==
  ASSUME errors \subseteq errors', NEW t, NoError(t)'
  PROVE  NoError(t)
BY DEF NoError

LEMMA InitExact == Init => Exact
BY DEF Init, Exact, KeysComplete, Settled, AllSent

\* The script keeps the counters of its children exact, or leaves an entry.
LEMMA CompleteExact ==
  ASSUME IInv, Exact, NEW p \in Task, CompleteTask(p)
  PROVE  Exact'
<1>1. TypeOK /\ OnStream /\ KeysConsumed
  BY DEF IInv
<1>2. /\ completed' = completed \cup {p} /\ xadds[p] > 0
      /\ UNCHANGED <<edges, phase, sent, meta, expired>>
  BY DEF CompleteTask
<1>3. \A t \in Task : Parents(t)' = Parents(t) /\ Children(t)' = Children(t)
  BY <1>2 DEF Parents, Children
<1>4. p \in sent
  BY <1>1, <1>2 DEF OnStream, TypeOK
<1>5. \A q \in Task : children'[q] = IF q = p THEN {} ELSE children[q]
  BY <1>1 DEF CompleteTask, Consumed, TypeOK
<1>6. \A c \in Task : /\ deps'[c] = IF c \in children[p] THEN deps[c] - 1 ELSE deps[c]
                      /\ xadds'[c] = IF c \in Ready(p) \cap meta THEN xadds[c] + 1 ELSE xadds[c]
  BY <1>1 DEF CompleteTask, TypeOK
<1>7. KeysComplete'
  BY <1>2, <1>3, <1>5 DEF Exact, KeysComplete
<1>8. Settled'
  <2> SUFFICES ASSUME ~expired, NEW t \in Task, NoError(t)'
               PROVE  /\ t \notin sent => deps'[t] = 0 /\ Parents(t) \cap completed' = {}
                      /\ t \in sent => /\ deps'[t] = Cardinality(Parents(t) \ completed')
                                       /\ Parents(t) \subseteq completed' => xadds'[t] > 0
    BY <1>2, <1>3 DEF Settled
  <2>1. NoError(t)
    <3>1. errors \subseteq errors'
      BY DEF CompleteTask
    <3> QED BY <3>1, ErrorStays
  <2>2. /\ t \notin sent => deps[t] = 0 /\ Parents(t) \cap completed = {}
        /\ t \in sent => /\ deps[t] = Cardinality(Parents(t) \ completed)
                         /\ Parents(t) \subseteq completed => xadds[t] > 0
    BY <2>1 DEF Exact, Settled
  <2>3. /\ deps[t] \in Int /\ xadds[t] \in Nat
    BY <1>1 DEF TypeOK
  <2>4. CASE t \in children[p]
    <3>1. t \notin Underflow(p)
      <4>1. t \in Underflow(p) => [type |-> "NEGATIVE_DEPS", task |-> t] \in errors'
        BY DEF CompleteTask, Error
      <4>2. [type |-> "NEGATIVE_DEPS", task |-> t].task = t
        OBVIOUS
      <4> QED BY <4>1, <4>2 DEF NoError
    <3>2. t \notin Ready(p) \ meta
      <4>1. t \in Ready(p) \ meta => [type |-> "MISSING_META", task |-> t] \in errors'
        BY DEF CompleteTask, Error
      <4>2. [type |-> "MISSING_META", task |-> t].task = t
        OBVIOUS
      <4> QED BY <4>1, <4>2 DEF NoError
    <3>3. deps[t] >= 1
      BY <2>3, <2>4, <3>1 DEF Underflow
    <3>4. t \in sent /\ deps[t] = Cardinality(Parents(t) \ completed)
      BY <2>2, <3>3
    <3>5. p \in Parents(t) \ completed
      BY <1>1, <2>4 DEF KeysConsumed, Children, Parents
    <3>6. Cardinality(Parents(t) \ completed') = Cardinality(Parents(t) \ completed) - 1
      BY <1>2, <3>5, OneParentLess
    <3>7. deps'[t] = deps[t] - 1
      BY <1>6, <2>4
    <3>8. Parents(t) \subseteq completed' => xadds'[t] > 0
      <4> SUFFICES ASSUME Parents(t) \subseteq completed' PROVE xadds'[t] > 0
        OBVIOUS
      <4>1. Parents(t) \ completed' = {}
        OBVIOUS
      <4>2. Cardinality(Parents(t) \ completed') = 0
        BY <4>1, FS_EmptySet
      <4>3. deps[t] - 1 = 0
        BY <2>3, <3>4, <3>6, <4>2
      <4>4. t \in Ready(p)
        BY <2>4, <4>3 DEF Ready
      <4>5. t \in Ready(p) \cap meta
        BY <3>2, <4>4
      <4> QED BY <1>6, <2>3, <4>5
    <3> QED BY <3>4, <3>6, <3>7, <3>8
  <2>5. CASE t \notin children[p]
    <3>1. deps'[t] = deps[t] /\ xadds'[t] = xadds[t]
      BY <1>6, <2>5 DEF Ready
    <3>2. p \in completed \/ p \notin Parents(t)
      BY <1>4, <2>5 DEF Exact, KeysComplete, Children, Parents
    <3>3. Parents(t) \ completed' = Parents(t) \ completed
            /\ Parents(t) \cap completed' = Parents(t) \cap completed
      BY <1>2, <3>2
    <3>4. Parents(t) \subseteq completed' => Parents(t) \subseteq completed
      BY <3>3
    <3> QED BY <2>2, <3>1, <3>3, <3>4
  <2> QED BY <2>4, <2>5
<1>9. AllSent'
  BY <1>2 DEF Exact, AllSent
<1> QED BY <1>7, <1>8, <1>9 DEF Exact

LEMMA PipelineExact ==
  ASSUME IInv, Exact, Pipeline
  PROVE  Exact'
<1>1. TypeOK /\ OnStream /\ EdgesFirst
  BY DEF IInv
<1>2. UNCHANGED <<edges, errors, completed, expired>>
  BY DEF Pipeline, SendEdge, EdgesSent, SetMeta, HSetPending, XAddRoot, PipelineDone
<1>3. \A t \in Task : /\ Parents(t)' = Parents(t) /\ Children(t)' = Children(t)
                      /\ NoError(t)' <=> NoError(t)
  BY <1>2 DEF Parents, Children, NoError
<1>4. ASSUME NEW p \in Task, NEW c \in Task, SendEdge(p, c)
      PROVE  Exact'
  <2>1. phase = "edges" /\ sent = {} /\ UNCHANGED <<phase, sent, deps, xadds>>
    BY <1>1, <1>4 DEF SendEdge, EdgesFirst
  <2> QED BY <1>2, <1>3, <2>1 DEF Exact, KeysComplete, Settled, AllSent
<1>5. ASSUME EdgesSent PROVE Exact'
  <2>1. phase' = "tasks" /\ UNCHANGED <<sent, children, deps, xadds>>
        /\ \A p \in Task : children[p] = Children(p)
    BY <1>5 DEF EdgesSent
  <2> QED BY <1>2, <1>3, <2>1 DEF Exact, KeysComplete, Settled, AllSent
<1>6. ASSUME NEW t \in Task, SetMeta(t) PROVE Exact'
  <2>1. UNCHANGED <<phase, sent, children, deps, xadds>>
    BY <1>6 DEF SetMeta
  <2> QED BY <1>2, <1>3, <2>1 DEF Exact, KeysComplete, Settled, AllSent
<1>7. ASSUME NEW t \in Task, HSetPending(t) PROVE Exact'
  <2>1. /\ phase = "tasks" /\ t \notin sent /\ sent' = sent \cup {t} /\ Pending(t) > 0
        /\ UNCHANGED <<phase, children, xadds>>
    BY <1>7 DEF HSetPending
  <2>2. \A u \in Task : deps'[u] = IF u = t THEN Cardinality(Parents(t)) ELSE deps[u]
    BY <1>1, <1>7 DEF HSetPending, Pending, TypeOK
  <2>3. Parents(t) # {}
    <3>1. Parents(t) = {} => Cardinality(Parents(t)) = 0
      BY FS_EmptySet
    <3> QED BY <2>1, <3>1 DEF Pending
  <2>4. Settled'
    <3> SUFFICES ASSUME ~expired, NEW u \in Task, NoError(u)
                 PROVE  /\ u \notin sent' => deps'[u] = 0 /\ Parents(u) \cap completed = {}
                        /\ u \in sent' => /\ deps'[u] = Cardinality(Parents(u) \ completed)
                                          /\ Parents(u) \subseteq completed => xadds'[u] > 0
      BY <1>2, <1>3 DEF Settled
    <3>1. CASE u = t
      <4>1. Parents(t) \cap completed = {}
        BY <2>1, <3>1 DEF Exact, Settled
      <4>2. Parents(t) \ completed = Parents(t)
        BY <4>1
      <4> QED BY <2>1, <2>2, <2>3, <3>1, <4>1, <4>2
    <3>2. CASE u # t
      BY <2>1, <2>2, <3>2 DEF Exact, Settled
    <3> QED BY <3>1, <3>2
  <2>5. KeysComplete' /\ AllSent'
    BY <1>2, <1>3, <2>1 DEF Exact, KeysComplete, AllSent
  <2> QED BY <2>4, <2>5 DEF Exact
<1>8. ASSUME NEW t \in Task, XAddRoot(t) PROVE Exact'
  <2>1. /\ phase = "tasks" /\ t \notin sent /\ sent' = sent \cup {t} /\ Parents(t) = {}
        /\ UNCHANGED <<phase, children, deps>>
    BY <1>8, NoParents DEF XAddRoot
  <2>2. \A u \in Task : xadds'[u] = IF u = t THEN xadds[u] + 1 ELSE xadds[u]
    BY <1>1, <1>8 DEF XAddRoot, TypeOK
  <2>3. Settled'
    <3> SUFFICES ASSUME ~expired, NEW u \in Task, NoError(u)
                 PROVE  /\ u \notin sent' => deps'[u] = 0 /\ Parents(u) \cap completed = {}
                        /\ u \in sent' => /\ deps'[u] = Cardinality(Parents(u) \ completed)
                                          /\ Parents(u) \subseteq completed => xadds'[u] > 0
      BY <1>2, <1>3 DEF Settled
    <3>1. CASE u = t
      <4>1. Cardinality(Parents(t) \ completed) = 0
        <5>1. Parents(t) \ completed = {}
          BY <2>1
        <5> QED BY <5>1, FS_EmptySet
      <4>2. deps'[t] = 0
        BY <2>1, <3>1 DEF Exact, Settled
      <4>3. xadds'[t] > 0
        BY <1>1, <2>2 DEF TypeOK
      <4> QED BY <2>1, <3>1, <4>1, <4>2, <4>3
    <3>2. CASE u # t
      BY <2>1, <2>2, <3>2 DEF Exact, Settled
    <3> QED BY <3>1, <3>2
  <2>4. KeysComplete' /\ AllSent'
    BY <1>2, <1>3, <2>1 DEF Exact, KeysComplete, AllSent
  <2> QED BY <2>3, <2>4 DEF Exact
<1>9. ASSUME PipelineDone PROVE Exact'
  <2>1. phase = "tasks" /\ sent = Task /\ phase' = "sent" /\ UNCHANGED <<sent, children, deps, xadds>>
    BY <1>9 DEF PipelineDone
  <2> QED BY <1>2, <1>3, <2>1 DEF Exact, KeysComplete, Settled, AllSent
<1> QED BY <1>4, <1>5, <1>6, <1>7, <1>8, <1>9 DEF Pipeline

LEMMA NextExact == IInv /\ Exact /\ [Next]_vars => Exact'
<1> SUFFICES ASSUME IInv, Exact, [Next]_vars PROVE Exact'
  OBVIOUS
<1>1. CASE Pipeline
  BY <1>1, PipelineExact
<1>2. ASSUME NEW t \in Task, CompleteTask(t) PROVE Exact'
  BY <1>2, CompleteExact
<1>3. CASE PipelineBreaks \/ UNCHANGED vars
  <2>1. /\ UNCHANGED <<edges, sent, children, deps, xadds, errors, completed, expired>>
        /\ phase' = "broken" \/ phase' = phase
    BY <1>3 DEF PipelineBreaks, vars
  <2>2. \A t \in Task : /\ Parents(t)' = Parents(t) /\ Children(t)' = Children(t)
                        /\ NoError(t)' <=> NoError(t)
    BY <2>1 DEF Parents, Children, NoError
  <2> QED BY <2>1, <2>2 DEF Exact, KeysComplete, Settled, AllSent
<1>4. ASSUME ExpireDeps \/ \E t \in Task : ExpireChildren(t) \/ ExpireMeta(t)
      PROVE  Exact'
  <2>1. expired' = TRUE /\ UNCHANGED <<phase, sent>>
    BY <1>4 DEF ExpireDeps, ExpireChildren, ExpireMeta
  <2> QED BY <2>1 DEF Exact, KeysComplete, Settled, AllSent
<1> QED BY <1>1, <1>2, <1>3, <1>4 DEF Next

LEMMA AlwaysExact == Spec => []Exact
BY InitIInv, NextIInv, InitExact, NextExact, PTL DEF Spec

\* complete_task.hpp:39-63 against task_submitter.cpp:368: while no key expires and no
\* error is recorded, each field of the hash is the number of open parents.
THEOREM CountersAreExact == Spec => []CounterExact
<1>1. IInv /\ Exact => CounterExact
  <2> SUFFICES ASSUME IInv, Exact, errors = {}, ~expired, NEW t \in sent
               PROVE  deps[t] = Cardinality(Parents(t) \ completed)
    BY DEF CounterExact
  <2>1. t \in Task
    BY DEF IInv, TypeOK
  <2>2. NoError(t)
    BY DEF NoError
  <2> QED BY <2>1, <2>2 DEF Exact, Settled
<1> QED BY <1>1, Invariance, AlwaysExact, PTL

\* complete_task.hpp:47-63: a task that was not triggered when its last parent was
\* reported is named in the error stream, or a key has expired.
THEOREM NoTriggerIsLostSilently == Spec => []NoSilentStall
<1>1. Exact => NoSilentStall
  <2> SUFFICES ASSUME Exact, phase = "sent", ~expired, NEW t \in Task,
                      Parents(t) \subseteq completed, xadds[t] = 0, NoError(t)
               PROVE  FALSE
    BY DEF NoSilentStall, NoError
  <2>1. t \in sent
    BY DEF Exact, AllSent
  <2>2. xadds[t] > 0
    BY <2>1 DEF Exact, Settled
  <2> QED BY <2>2
<1> QED BY <1>1, AlwaysExact, PTL

-----------------------------------------------------------------------------
(***************************************************************************)
(* DagClient: the searches for a cycle, for every graph.                   *)
(***************************************************************************)
\* Induction over an initial segment of the natural numbers, for a set.
LEMMA UpTo ==
  ASSUME NEW N \in Nat, NEW S, 0 \in S,
         \A k \in 0 .. N - 1 : k \in S => k + 1 \in S
  PROVE  \A k \in 0 .. N : k \in S
<1> DEFINE R == {ss \in Nat \X Nat : ss[1] < ss[2]}
           T == {k \in 0 .. N : k \notin S}
<1>1. IsWellFoundedOn(R, Nat)
  BY NatLessThanWellFounded DEF OpToRel
<1>2. SUFFICES ASSUME T # {} PROVE FALSE
  OBVIOUS
<1>3. T \subseteq Nat
  OBVIOUS
<1> HIDE DEF R, T
<1>4. PICK n \in T : \A m \in T : ~ (<<m, n>> \in R)
  BY <1>1, <1>2, <1>3, WFMin
<1>5. n \in 0 .. N /\ n \notin S
  BY DEF T
<1>6. n # 0 /\ n - 1 \in 0 .. N - 1
  BY <1>5
<1>7. n - 1 \in S
  <2>1. <<n - 1, n>> \in R
    BY <1>5, <1>6 DEF R
  <2> QED BY <1>4, <1>5, <1>6, <2>1 DEF T
<1> QED BY <1>5, <1>6, <1>7

\* An element of a nonempty set for which a natural number is least.
LEMMA Least ==
  ASSUME NEW S, S # {}, NEW f, \A s \in S : f[s] \in Nat
  PROVE  \E s \in S : \A r \in S : f[s] <= f[r]
<1> DEFINE R == {ss \in Nat \X Nat : ss[1] < ss[2]}
           T == {f[s] : s \in S}
<1>1. IsWellFoundedOn(R, Nat)
  BY NatLessThanWellFounded DEF OpToRel
<1>2. T \subseteq Nat /\ T # {}
  OBVIOUS
<1>3. \A r \in S : f[r] \in T
  OBVIOUS
<1>4. \A n \in T : \E s \in S : n = f[s]
  OBVIOUS
<1> HIDE DEF R, T
<1>5. PICK n \in T : \A m \in T : ~ (<<m, n>> \in R)
  BY <1>1, <1>2, WFMin
<1>6. PICK s \in S : n = f[s]
  BY <1>4
<1>7. ASSUME NEW r \in S PROVE f[s] <= f[r]
  <2>1. ~ (<<f[r], n>> \in R)
    BY <1>3, <1>5
  <2> QED BY <1>6, <2>1 DEF R
<1> QED BY <1>7

(***************************************************************************)
(* The ancestors of a task are the least set that contains its parents and *)
(* the parents of each of its members.                                     *)
(***************************************************************************)
Grow(S) == S \cup UNION {Parents(p) : p \in S}

Closed(S) == \A p \in S : Parents(p) \subseteq S

Back(t, up, N) == up = [n \in 0 .. N |-> IF n = 0 THEN Parents(t)
                                         ELSE up[n - 1] \cup UNION {Parents(p) : p \in up[n - 1]}]

Up(t) == CHOOSE up : Back(t, up, Cardinality(Task))

LEMMA AncestorsUp == \A t : Ancestors(t) = Up(t)[Cardinality(Task)]
BY DEF Ancestors, Back, Up

LEMMA UpExists ==
  ASSUME NEW t, NEW N \in Nat
  PROVE  \E up : Back(t, up, N)
<1> DEFINE S == {k \in Nat : \E up : Back(t, up, k)}
<1>1. 0 \in S
  <2> DEFINE z == [n \in 0 .. 0 |-> Parents(t)]
  <2>1. Back(t, z, 0)
    BY DEF Back
  <2> QED BY <2>1
<1>2. ASSUME NEW k \in 0 .. N - 1, k \in S PROVE k + 1 \in S
  <2>1. PICK g : Back(t, g, k)
    BY <1>2
  <2> DEFINE h == [n \in 0 .. k + 1 |-> IF n = k + 1 THEN Grow(g[k]) ELSE g[n]]
  <2>2. \A n \in 0 .. k : g[n] = IF n = 0 THEN Parents(t) ELSE Grow(g[n - 1])
    BY <2>1 DEF Back, Grow
  <2>3. ASSUME NEW n \in 0 .. k + 1
        PROVE  h[n] = IF n = 0 THEN Parents(t) ELSE Grow(h[n - 1])
    <3>1. CASE n = k + 1
      <4>1. n # 0 /\ n - 1 = k /\ k \in 0 .. k + 1 /\ k # k + 1
        BY <3>1
      <4> QED BY <3>1, <4>1
    <3>2. CASE n # k + 1 /\ n # 0
      <4>1. n \in 0 .. k /\ n - 1 \in 0 .. k + 1 /\ n - 1 # k + 1
        BY <3>2
      <4> QED BY <2>2, <3>2, <4>1
    <3>3. CASE n # k + 1 /\ n = 0
      <4>1. n \in 0 .. k
        BY <3>3
      <4> QED BY <2>2, <3>3, <4>1
    <3> QED BY <3>1, <3>2, <3>3
  <2>4. h = [n \in 0 .. k + 1 |-> h[n]]
    OBVIOUS
  <2> HIDE DEF h
  <2>5. h = [n \in 0 .. k + 1 |-> IF n = 0 THEN Parents(t) ELSE Grow(h[n - 1])]
    BY <2>3, <2>4
  <2>6. Back(t, h, k + 1)
    BY <2>5 DEF Back, Grow
  <2> QED BY <2>6
<1> HIDE DEF S
<1>3. N \in S
  BY <1>1, <1>2, UpTo
<1> QED BY <1>3 DEF S

LEMMA UpSteps ==
  ASSUME NEW t
  PROVE  /\ Cardinality(Task) \in Nat
         /\ Up(t)[0] = Parents(t)
         /\ \A k \in 0 .. Cardinality(Task) - 1 : Up(t)[k + 1] = Grow(Up(t)[k])
<1> DEFINE N == Cardinality(Task)
           up == Up(t)
<1>1. N \in Nat
  BY DagAssumption, FS_CardinalityType
<1>2. Back(t, up, N)
  BY <1>1, UpExists DEF Up
<1> HIDE DEF N, up
<1>3. \A n \in 0 .. N : up[n] = IF n = 0 THEN Parents(t) ELSE Grow(up[n - 1])
  BY <1>2 DEF Back, Grow
<1>4. up[0] = Parents(t)
  BY <1>1, <1>3
<1>5. ASSUME NEW k \in 0 .. N - 1 PROVE up[k + 1] = Grow(up[k])
  <2>1. k + 1 \in 0 .. N /\ k + 1 # 0 /\ (k + 1) - 1 = k
    BY <1>1
  <2> QED BY <1>3, <2>1
<1> QED BY <1>1, <1>4, <1>5 DEF N, up

LEMMA UpWithin ==
  ASSUME NEW t, NEW X, Parents(t) \subseteq X, Closed(X)
  PROVE  \A k \in 0 .. Cardinality(Task) : Up(t)[k] \subseteq X
<1> DEFINE N == Cardinality(Task)
           S == {k \in 0 .. N : Up(t)[k] \subseteq X}
<1>1. /\ N \in Nat
      /\ Up(t)[0] = Parents(t)
      /\ \A k \in 0 .. N - 1 : Up(t)[k + 1] = Grow(Up(t)[k])
  BY UpSteps
<1> HIDE DEF N
<1>2. 0 \in S
  BY <1>1
<1>3. ASSUME NEW k \in 0 .. N - 1, k \in S PROVE k + 1 \in S
  <2>1. k + 1 \in 0 .. N
    BY <1>1
  <2>2. Grow(Up(t)[k]) \subseteq X
    BY <1>3 DEF Closed, Grow
  <2> QED BY <1>1, <2>1, <2>2
<1> HIDE DEF S
<1>4. \A k \in 0 .. N : k \in S
  BY <1>1, <1>2, <1>3, UpTo
<1> QED BY <1>4 DEF S, N

\* A set of tasks that does not grow is closed, and it cannot grow more often
\* than there are tasks.
LEMMA UpCloses ==
  ASSUME NEW t
  PROVE  Closed(Up(t)[Cardinality(Task)])
<1> DEFINE N == Cardinality(Task)
           S == {k \in 0 .. N : Closed(Up(t)[k]) \/ Cardinality(Up(t)[k]) >= k}
<1>1. /\ N \in Nat
      /\ \A k \in 0 .. N - 1 : Up(t)[k + 1] = Grow(Up(t)[k])
  BY UpSteps
<1>2. \A k \in 0 .. N : Up(t)[k] \subseteq Task
  BY UpWithin DEF Closed, Parents
<1>3. \A X : X \subseteq Task => /\ IsFiniteSet(X) /\ Cardinality(X) \in Nat
                                 /\ Cardinality(X) = N => X = Task
  BY DagAssumption, FS_Subset, FS_CardinalityType
<1>3a. \A X : X \subseteq Task => Cardinality(X) <= N
  BY DagAssumption, FS_Subset
<1> HIDE DEF N
<1>4. 0 \in S
  BY <1>1, <1>2, <1>3
<1>5. ASSUME NEW k \in 0 .. N - 1, k \in S PROVE k + 1 \in S
  <2> DEFINE U == Up(t)[k]
             V == Up(t)[k + 1]
  <2>1. k \in 0 .. N /\ k + 1 \in 0 .. N /\ k \in Nat
    BY <1>1
  <2>2. U \subseteq Task /\ V \subseteq Task /\ V = Grow(U)
    BY <1>1, <1>2, <2>1
  <2>3. CASE Closed(U)
    <3>1. Grow(U) = U
      BY <2>3 DEF Closed, Grow
    <3> QED BY <2>1, <2>2, <2>3, <3>1
  <2>4. CASE ~ Closed(U)
    <3>1. U \subseteq V /\ U # V
      BY <2>2, <2>4 DEF Closed, Grow
    <3>2. Cardinality(U) < Cardinality(V)
      <4>1. IsFiniteSet(V) /\ Cardinality(V) \in Nat /\ Cardinality(U) \in Nat
        BY <1>3, <2>2
      <4>2. Cardinality(U) <= Cardinality(V) /\ (Cardinality(U) = Cardinality(V) => U = V)
        BY <3>1, <4>1, FS_Subset
      <4> QED BY <3>1, <4>1, <4>2
    <3>3. Cardinality(U) >= k
      BY <1>5, <2>4
    <3> DEFINE cu == Cardinality(U)
               cv == Cardinality(V)
    <3>4. cu \in Nat /\ cv \in Nat
      BY <1>3, <2>2
    <3> HIDE DEF cu, cv
    <3>5. cv >= k + 1
      BY <2>1, <3>2, <3>3, <3>4 DEF cu, cv
    <3> QED BY <2>1, <3>5 DEF cv
  <2> QED BY <2>3, <2>4
<1> HIDE DEF S
<1>6. \A k \in 0 .. N : k \in S
  BY <1>1, <1>4, <1>5, UpTo
<1>7. N \in S /\ N \in 0 .. N
  BY <1>1, <1>6
<1>8. Closed(Up(t)[N]) \/ Cardinality(Up(t)[N]) >= N
  BY <1>7 DEF S
<1>9. ASSUME Cardinality(Up(t)[N]) >= N PROVE Up(t)[N] = Task
  BY <1>1, <1>2, <1>3, <1>3a, <1>7, <1>9
<1>10. Closed(Task)
  BY DEF Closed, Parents
<1> QED BY <1>8, <1>9, <1>10 DEF N

LEMMA AncestorsLeast ==
  ASSUME NEW t
  PROVE  /\ Parents(t) \subseteq Ancestors(t)
         /\ Ancestors(t) \subseteq Task
         /\ Closed(Ancestors(t))
         /\ \A X : Parents(t) \subseteq X /\ Closed(X) => Ancestors(t) \subseteq X
<1> DEFINE N == Cardinality(Task)
           S == {k \in 0 .. N : Parents(t) \subseteq Up(t)[k]}
<1>1. /\ N \in Nat
      /\ Up(t)[0] = Parents(t)
      /\ \A k \in 0 .. N - 1 : Up(t)[k + 1] = Grow(Up(t)[k])
  BY UpSteps
<1>2. Ancestors(t) = Up(t)[N]
  BY AncestorsUp
<1>3. Closed(Ancestors(t))
  BY <1>2, UpCloses
<1>4. \A X : Parents(t) \subseteq X /\ Closed(X) => Ancestors(t) \subseteq X
  BY <1>1, <1>2, UpWithin
<1>5. Parents(t) \subseteq Task /\ Closed(Task)
  BY DEF Closed, Parents
<1> HIDE DEF N
<1>6. 0 \in S
  BY <1>1
<1>7. ASSUME NEW k \in 0 .. N - 1, k \in S PROVE k + 1 \in S
  <2>1. k + 1 \in 0 .. N
    BY <1>1
  <2>2. Parents(t) \subseteq Grow(Up(t)[k])
    BY <1>7 DEF Grow
  <2> QED BY <1>1, <2>1, <2>2
<1> HIDE DEF S
<1>8. N \in S
  BY <1>1, <1>6, <1>7, UpTo
<1> QED BY <1>2, <1>3, <1>4, <1>5, <1>8 DEF S

(***************************************************************************)
(* A graph has a cycle if and only if it has a core: a nonempty set in     *)
(* which each task has a parent, or one in which each has a child.         *)
(***************************************************************************)
ParentCore(C) == C \subseteq Task /\ C # {} /\ \A c \in C : Parents(c) \cap C # {}
ChildCore(C)  == C \subseteq Task /\ C # {} /\ \A c \in C : Children(c) \cap C # {}

LEMMA ParentCoreIsCyclic ==
  ASSUME NEW C, ParentCore(C)
  PROVE  ~ Acyclic
<1> SUFFICES ASSUME Acyclic PROVE FALSE
  OBVIOUS
<1> DEFINE size == [c \in C |-> Cardinality(Ancestors(c))]
<1>1. \A c : IsFiniteSet(Ancestors(c)) /\ Cardinality(Ancestors(c)) \in Nat
  BY AncestorsLeast, DagAssumption, FS_Subset, FS_CardinalityType
<1>2. \A c \in C : size[c] \in Nat
  BY <1>1
<1>3. C # {}
  BY DEF ParentCore
<1> HIDE DEF size
<1>4. PICK c \in C : \A p \in C : size[c] <= size[p]
  BY <1>2, <1>3, Least
<1>5. PICK p \in C : p \in Parents(c) /\ p \in Task
  BY DEF ParentCore
<1>6. p \in Ancestors(c) /\ Parents(p) \subseteq Ancestors(c) /\ Closed(Ancestors(c))
  BY <1>5, AncestorsLeast DEF Closed
<1>7. Ancestors(p) \subseteq Ancestors(c)
  BY <1>6, AncestorsLeast
<1>8. p \notin Ancestors(p)
  BY <1>5 DEF Acyclic
<1>9. Cardinality(Ancestors(p)) < Cardinality(Ancestors(c))
  <2>1. /\ Cardinality(Ancestors(p)) <= Cardinality(Ancestors(c))
        /\ Cardinality(Ancestors(p)) = Cardinality(Ancestors(c)) => Ancestors(p) = Ancestors(c)
    BY <1>1, <1>7, FS_Subset
  <2> QED BY <1>1, <1>6, <1>8, <2>1
<1>10. size[c] = Cardinality(Ancestors(c)) /\ size[p] = Cardinality(Ancestors(p))
  BY DEF size
<1> QED BY <1>1, <1>4, <1>9, <1>10

LEMMA CyclicHasCores ==
  ASSUME ~ Acyclic
  PROVE  /\ \E C : ParentCore(C)
         /\ \E C : ChildCore(C)
<1>1. PICK t \in Task : t \in Ancestors(t)
  BY DEF Acyclic
<1>2. ParentCore({u \in Task : t \in Ancestors(u)})
  <2> DEFINE C == {u \in Task : t \in Ancestors(u)}
  <2>1. ASSUME NEW u \in C PROVE \E p \in C : p \in Parents(u)
    <3> DEFINE X == Parents(u) \cup UNION {Ancestors(p) : p \in Parents(u)}
    <3>1. \A p : Parents(p) \subseteq Ancestors(p) /\ Closed(Ancestors(p))
      BY AncestorsLeast
    <3>2. Parents(u) \subseteq X
      OBVIOUS
    <3>3. Closed(X)
      BY <3>1 DEF Closed
    <3>4. Ancestors(u) \subseteq X
      BY <3>2, <3>3, AncestorsLeast
    <3>5. t \in X
      BY <3>4
    <3>6. CASE t \in Parents(u)
      BY <1>1, <3>6
    <3>7. CASE \E p \in Parents(u) : t \in Ancestors(p)
      BY <3>7 DEF Parents
    <3> QED BY <3>5, <3>6, <3>7
  <2> QED BY <1>1, <2>1 DEF ParentCore
<1>3. ChildCore(Ancestors(t))
  <2>1. ASSUME NEW u \in Ancestors(t), Children(u) \cap Ancestors(t) = {} PROVE FALSE
    <3> DEFINE X == Ancestors(t) \ {u}
    <3>1. /\ Parents(t) \subseteq Ancestors(t)
          /\ Ancestors(t) \subseteq Task
          /\ Closed(Ancestors(t))
      BY AncestorsLeast
    <3>2. \A p \in Ancestors(t) : u \notin Parents(p)
      BY <2>1, <3>1 DEF Parents, Children
    <3>3. Parents(t) \subseteq X
      BY <1>1, <3>1, <3>2
    <3>4. Closed(X)
      BY <3>1, <3>2 DEF Closed
    <3> QED BY <3>3, <3>4, AncestorsLeast
  <2> QED BY <1>1, <2>1, AncestorsLeast DEF ChildCore
<1> QED BY <1>2, <1>3

-----------------------------------------------------------------------------
(***************************************************************************)
(* The inductive invariant of the two searches.                            *)
(***************************************************************************)
\* The tasks that were popped: their in-degrees are gone from their children,
\* and no part of a cycle is among them.
Popped(R) ==
  /\ R \subseteq Task
  /\ \A u \in R : Parents(u) \subseteq R
  /\ kahn = [inDegree  |-> [u \in Task |-> Cardinality(Parents(u) \ R)],
             queue     |-> {u \in Task \ R : Parents(u) \subseteq R},
             processed |-> Cardinality(R)]
  /\ \A C : ParentCore(C) => C \cap R = {}

Kahn == client = "cli" => \E R : Popped(R)

Frame == [node : Task, rest : SUBSET Task]

\* The active calls: a path of the graph, innermost first, of the tasks that
\* are being visited.
Path ==
  /\ visited \in [Task -> 0 .. 2]
  /\ stack \in Seq(Frame)
  /\ \A u \in Task : visited[u] = 1 => \E i \in 1 .. Len(stack) : stack[i].node = u
  /\ \A i \in 1 .. Len(stack) : /\ visited[stack[i].node] = 1
                                /\ stack[i].rest \subseteq Children(stack[i].node)
  /\ \A i, j \in 1 .. Len(stack) : stack[i].node = stack[j].node => i = j
  /\ \A i \in 1 .. Len(stack) - 1 : stack[i].node \in Children(stack[i + 1].node)

\* What a call has gone through is visited, but for the child it waits for.
Explored ==
  \A i \in 1 .. Len(stack) : \A c \in Children(stack[i].node) \ stack[i].rest :
    visited[c] = 2 \/ (i > 1 /\ c = stack[i - 1].node)

\* A task that is visited is not part of a cycle, and leads to none.
CleanBehind == \A C : ChildCore(C) => \A c \in C : visited[c] # 2

Dfs == /\ client = "builder" => Path /\ Explored /\ CleanBehind
       /\ client # "builder" => stack = <<>>

Searching == Kahn /\ Dfs

LEMMA FiniteParents ==
  \A R, u : /\ IsFiniteSet(Parents(u) \ R)
            /\ Cardinality(Parents(u) \ R) \in Nat
            /\ Cardinality(Parents(u) \ R) = 0 <=> Parents(u) \subseteq R
<1> TAKE R, u
<1>1. IsFiniteSet(Parents(u) \ R)
  BY DagAssumption, FS_Subset DEF Parents
<1>2. /\ Cardinality(Parents(u) \ R) \in Nat
      /\ Cardinality(Parents(u) \ R) = 0 <=> Parents(u) \ R = {}
  BY <1>1, FS_CardinalityType, FS_EmptySet
<1> QED BY <1>1, <1>2

\* The in-degree of a child goes down by one when its parent is popped.
LEMMA InDegreeFalls ==
  ASSUME NEW R, NEW t \in Task, t \notin R, NEW u \in Task
  PROVE  Cardinality(Parents(u) \ (R \cup {t}))
           = Cardinality(Parents(u) \ R) - (IF u \in Children(t) THEN 1 ELSE 0)
<1> DEFINE before == Parents(u) \ R
           after  == Parents(u) \ (R \cup {t})
<1>1. IsFiniteSet(before) /\ Cardinality(before) \in Nat
  BY FiniteParents
<1>2. CASE t \in Parents(u) /\ u \in Children(t)
  <2>1. after = before \ {t} /\ t \in before
    BY <1>2
  <2>2. Cardinality(before \ {t}) = Cardinality(before) - 1
    BY <1>1, <2>1, FS_RemoveElement
  <2> QED BY <1>2, <2>1, <2>2
<1>3. CASE t \notin Parents(u) /\ u \notin Children(t)
  <2>1. after = before
    BY <1>3
  <2> HIDE DEF after
  <2>2. Cardinality(after) = Cardinality(before) - 0
    BY <1>1, <2>1
  <2> QED BY <1>3, <2>2 DEF after
<1>4. t \in Parents(u) <=> u \in Children(t)
  BY DEF Parents, Children
<1> QED BY <1>2, <1>3, <1>4

LEMMA PopStep ==
  ASSUME NEW t \in Task, Pop(t), NEW R, Popped(R)
  PROVE  Popped(R \cup {t})'
<1> DEFINE Q  == R \cup {t}
           in(u) == Cardinality(Parents(u) \ R)
           left == [u \in Task |-> kahn.inDegree[u] - (IF u \in Children(t) THEN 1 ELSE 0)]
<1>1. /\ R \subseteq Task
      /\ \A u \in R : Parents(u) \subseteq R
      /\ \A C : ParentCore(C) => C \cap R = {}
  BY DEF Popped
<1>2. /\ kahn.inDegree = [u \in Task |-> Cardinality(Parents(u) \ R)]
      /\ kahn.queue = {u \in Task \ R : Parents(u) \subseteq R}
      /\ kahn.processed = Cardinality(R)
  BY DEF Popped
<1>3. t \notin R /\ Parents(t) \subseteq R
  BY <1>2 DEF Pop
<1>4. edges' = edges
  BY DEF Pop, vars
<1>5. kahn' = [inDegree |-> left,
               queue |-> (kahn.queue \ {t}) \cup (Freed(left) \cap Children(t)),
               processed |-> kahn.processed + 1]
  BY DEF Pop
<1>6. left = [u \in Task |-> Cardinality(Parents(u) \ Q)]
  <2>1. ASSUME NEW u \in Task
        PROVE  kahn.inDegree[u] - (IF u \in Children(t) THEN 1 ELSE 0)
                 = Cardinality(Parents(u) \ Q)
    <3>1. kahn.inDegree[u] = Cardinality(Parents(u) \ R)
      BY <1>2
    <3> QED BY <1>3, <3>1, InDegreeFalls
  <2> QED BY <2>1
<1>7. (kahn.queue \ {t}) \cup (Freed(left) \cap Children(t)) = {u \in Task \ Q : Parents(u) \subseteq Q}
  <2>1. \A u \in Task : left[u] = 0 <=> Parents(u) \subseteq Q
    BY <1>6, FiniteParents
  <2>2. Freed(left) = {u \in Task : Parents(u) \subseteq Q}
    BY <2>1 DEF Freed
  <2>3. \A u \in Task : u \in Children(t) <=> t \in Parents(u)
    BY DEF Parents, Children
  <2>4. \A u \in Children(t) : u \in Task
    BY DEF Children
  <2> HIDE DEF left
  <2>5. ASSUME NEW u \in (kahn.queue \ {t}) \cup (Freed(left) \cap Children(t))
        PROVE  u \in Task \ Q /\ Parents(u) \subseteq Q
    <3>1. CASE u \in kahn.queue \ {t}
      BY <1>2, <3>1
    <3>2. CASE u \in Freed(left) \cap Children(t)
      BY <1>1, <1>3, <2>2, <2>3, <3>2
    <3> QED BY <3>1, <3>2
  <2>6. ASSUME NEW u \in Task \ Q, Parents(u) \subseteq Q
        PROVE  u \in (kahn.queue \ {t}) \cup (Freed(left) \cap Children(t))
    <3>1. CASE t \in Parents(u)
      BY <2>2, <2>3, <2>6, <3>1
    <3>2. CASE t \notin Parents(u)
      BY <1>2, <2>6, <3>2
    <3> QED BY <3>1, <3>2
  <2> QED BY <2>5, <2>6
<1>8. kahn.processed + 1 = Cardinality(Q)
  <2>1. IsFiniteSet(R)
    BY <1>1, DagAssumption, FS_Subset
  <2> QED BY <1>2, <1>3, <2>1, FS_AddElement
<1>9. \A u \in Q : Parents(u) \subseteq Q
  BY <1>1, <1>3
<1>10. \A C : ParentCore(C) => C \cap Q = {}
  BY <1>1, <1>3 DEF ParentCore
<1>11. \A u : Parents(u)' = Parents(u)
  BY <1>4 DEF Parents
<1>12. \A C : ParentCore(C)' <=> ParentCore(C)
  BY <1>11 DEF ParentCore
<1> HIDE DEF left
<1>13. kahn' = [inDegree  |-> [u \in Task |-> Cardinality(Parents(u) \ Q)],
                queue     |-> {u \in Task \ Q : Parents(u) \subseteq Q},
                processed |-> Cardinality(Q)]
  BY <1>5, <1>6, <1>7, <1>8
<1>14. Q \subseteq Task
  BY <1>1
<1> HIDE DEF Q
<1>15. Popped(Q)'
  BY <1>9, <1>10, <1>11, <1>12, <1>13, <1>14 DEF Popped
<1> QED BY <1>15 DEF Q

\* A call is begun in front of the others, or takes the place of the innermost.
LEMMA Pushed ==
  ASSUME NEW S, NEW x \in S, NEW s \in Seq(S)
  PROVE  /\ <<x>> \o s \in Seq(S)
         /\ Len(<<x>> \o s) = Len(s) + 1
         /\ (<<x>> \o s)[1] = x
         /\ \A i \in 2 .. Len(s) + 1 : (<<x>> \o s)[i] = s[i - 1]
OBVIOUS

LEMMA Popping ==
  ASSUME NEW S, NEW s \in Seq(S), s # <<>>
  PROVE  /\ Len(s) \in Nat /\ Len(s) > 0
         /\ Head(s) = s[1] /\ s[1] \in S
         /\ Tail(s) \in Seq(S)
         /\ Len(Tail(s)) = Len(s) - 1
         /\ \A i \in 1 .. Len(s) - 1 : Tail(s)[i] = s[i + 1]
OBVIOUS

\* A call that has looked at one more child.
LEMMA Replaced ==
  ASSUME NEW S, NEW x \in S, NEW s \in Seq(S), s # <<>>
  PROVE  /\ <<x>> \o Tail(s) \in Seq(S)
         /\ Len(<<x>> \o Tail(s)) = Len(s)
         /\ (<<x>> \o Tail(s))[1] = x
         /\ \A i \in 2 .. Len(s) : (<<x>> \o Tail(s))[i] = s[i]
<1>1. /\ Len(s) \in Nat /\ Len(s) > 0
      /\ Tail(s) \in Seq(S)
      /\ Len(Tail(s)) = Len(s) - 1
      /\ \A i \in 1 .. Len(s) - 1 : Tail(s)[i] = s[i + 1]
  BY Popping
<1> DEFINE r == Tail(s)
<1>2. /\ <<x>> \o r \in Seq(S)
      /\ Len(<<x>> \o r) = Len(r) + 1
      /\ (<<x>> \o r)[1] = x
      /\ \A i \in 2 .. Len(r) + 1 : (<<x>> \o r)[i] = r[i - 1]
  BY <1>1, Pushed
<1> HIDE DEF r
<1>3. ASSUME NEW i \in 2 .. Len(s) PROVE (<<x>> \o r)[i] = s[i]
  <2>1. i - 1 \in 1 .. Len(s) - 1 /\ (i - 1) + 1 = i /\ i \in 2 .. Len(r) + 1
    BY <1>1 DEF r
  <2> QED BY <1>1, <1>2, <2>1 DEF r
<1> QED BY <1>1, <1>2, <1>3 DEF r

LEMMA Concatenated ==
  ASSUME NEW S, NEW q \in Seq(S), NEW r \in Seq(S)
  PROVE  /\ q \o r \in Seq(S)
         /\ Len(q \o r) = Len(q) + Len(r)
         /\ \A i \in 1 .. Len(q) + Len(r) :
              (q \o r)[i] = IF i <= Len(q) THEN q[i] ELSE r[i - Len(q)]
OBVIOUS

LEMMA Entered ==
  ASSUME NEW S, NEW x \in S, NEW y \in S, NEW s \in Seq(S), s # <<>>
  PROVE  /\ <<x, y>> \o Tail(s) \in Seq(S)
         /\ Len(<<x, y>> \o Tail(s)) = Len(s) + 1
         /\ (<<x, y>> \o Tail(s))[1] = x
         /\ (<<x, y>> \o Tail(s))[2] = y
         /\ \A i \in 3 .. Len(s) + 1 : (<<x, y>> \o Tail(s))[i] = s[i - 1]
<1>1. /\ Len(s) \in Nat /\ Len(s) > 0
      /\ Tail(s) \in Seq(S)
      /\ Len(Tail(s)) = Len(s) - 1
      /\ \A i \in 1 .. Len(s) - 1 : Tail(s)[i] = s[i + 1]
  BY Popping
<1> DEFINE r == Tail(s)
           two == <<x, y>>
<1>2. two \in Seq(S) /\ Len(two) = 2 /\ two[1] = x /\ two[2] = y
  OBVIOUS
<1> HIDE DEF r, two
<1>3. /\ two \o r \in Seq(S)
      /\ Len(two \o r) = Len(r) + 2
      /\ \A i \in 1 .. Len(r) + 2 : (two \o r)[i] = IF i <= 2 THEN two[i] ELSE r[i - 2]
  <2>1. r \in Seq(S) /\ Len(r) \in Nat
    BY <1>1 DEF r
  <2>2. /\ two \o r \in Seq(S)
        /\ Len(two \o r) = Len(two) + Len(r)
        /\ \A i \in 1 .. Len(two) + Len(r) :
             (two \o r)[i] = IF i <= Len(two) THEN two[i] ELSE r[i - Len(two)]
    BY <1>2, <2>1, Concatenated
  <2> QED BY <1>2, <2>1, <2>2
<1>4. ASSUME NEW i \in 3 .. Len(s) + 1 PROVE (two \o r)[i] = s[i - 1]
  <2>1. i - 2 \in 1 .. Len(s) - 1 /\ (i - 2) + 1 = i - 1 /\ i \in 1 .. Len(r) + 2 /\ ~ (i <= 2)
    BY <1>1 DEF r
  <2> QED BY <1>1, <1>3, <2>1 DEF r
<1>5. /\ Len(r) = Len(s) - 1
      /\ 1 \in 1 .. Len(r) + 2 /\ 2 \in 1 .. Len(r) + 2
  BY <1>1 DEF r
<1>6. (two \o r)[1] = x /\ (two \o r)[2] = y
  BY <1>2, <1>3, <1>5
<1>7. Len(two \o r) = Len(s) + 1
  BY <1>1, <1>3, <1>5
<1> QED BY <1>3, <1>4, <1>6, <1>7 DEF r, two

(***************************************************************************)
(* The steps of the depth-first search.                                    *)
(***************************************************************************)
LEMMA StartStep ==
  ASSUME NEW u \in Task, StartSearch(u), Path, CleanBehind
  PROVE  (Path /\ Explored /\ CleanBehind)'
<1> DEFINE f == [node |-> u, rest |-> Children(u)]
           w == [visited EXCEPT ![u] = 1]
<1>1. edges' = edges /\ stack = <<>> /\ visited[u] = 0 /\ stack' = <<f>> \o stack /\ visited' = w
  BY DEF StartSearch, Visit, vars
<1>2. f \in Frame
  BY DEF Frame, Children
<1>3. stack' = <<f>>
  BY <1>1, <1>2
<1>4. stack' \in Seq(Frame) /\ Len(stack') = 1 /\ stack'[1] = f /\ f.node = u /\ f.rest = Children(u)
  BY <1>2, <1>3
<1>5. /\ w \in [Task -> 0 .. 2]
      /\ w[u] = 1
      /\ \A t \in Task : t # u => w[t] = visited[t]
  BY DEF Path
<1>6. \A t \in Task : visited[t] # 1
  BY <1>1 DEF Path
<1>7. \A t \in Task : Children(t)' = Children(t)
  BY <1>1 DEF Children
<1> HIDE DEF f, w
<1>8. Path'
  <2>1. \A t \in Task : visited'[t] = 1 => \E i \in 1 .. Len(stack') : stack'[i].node = t
    BY <1>1, <1>4, <1>5, <1>6
  <2>2. \A i \in 1 .. Len(stack') : i = 1 /\ stack'[i].node = u /\ stack'[i].rest = Children(u)
    BY <1>4
  <2>3. \A i \in 1 .. Len(stack') : /\ visited'[stack'[i].node] = 1
                                    /\ stack'[i].rest \subseteq Children(stack[i].node)'
    BY <1>1, <1>5, <2>2 DEF Children
  <2>4. \A i \in 1 .. Len(stack') - 1 : FALSE
    BY <1>4
  <2> QED BY <1>1, <1>4, <1>5, <2>1, <2>2, <2>3, <2>4 DEF Path
<1>9. Explored'
  BY <1>1, <1>4 DEF Explored, Children
<1>10. CleanBehind'
  <2>1. \A C : ChildCore(C)' <=> ChildCore(C)
    BY <1>1 DEF ChildCore, Children
  <2>2. \A C : ChildCore(C) => C \subseteq Task
    BY DEF ChildCore
  <2> QED BY <1>1, <1>5, <2>1, <2>2 DEF CleanBehind
<1> QED BY <1>8, <1>9, <1>10

\* What is known of the innermost call when it looks at its child v.
LEMMA Innermost ==
  ASSUME Path, NEW v, Looking(v)
  PROVE  /\ Len(stack) \in Nat /\ Len(stack) > 0 /\ 1 \in 1 .. Len(stack)
         /\ Head(stack) = stack[1] /\ stack[1] \in Frame
         /\ stack[1].node \in Task
         /\ v \in stack[1].rest
         /\ v \in Children(stack[1].node)
         /\ v \in Task
         /\ visited[v] \in 0 .. 2
<1>1. stack \in Seq(Frame) /\ stack # <<>> /\ v \in Head(stack).rest
  BY DEF Path, Looking
<1>2. /\ Len(stack) \in Nat /\ Len(stack) > 0
      /\ Head(stack) = stack[1] /\ stack[1] \in Frame
  BY <1>1, Popping
<1>3. 1 \in 1 .. Len(stack)
  BY <1>2
<1>4. v \in stack[1].rest /\ stack[1].rest \subseteq Children(stack[1].node)
  BY <1>1, <1>2, <1>3 DEF Path
<1>5. v \in Task /\ stack[1].node \in Task
  BY <1>2, <1>4 DEF Children, Frame
<1> QED BY <1>2, <1>3, <1>4, <1>5 DEF Path

LEMMA SkipStep ==
  ASSUME NEW v \in Task, SkipVisited(v), Path, Explored, CleanBehind
  PROVE  (Path /\ Explored /\ CleanBehind)'
<1> DEFINE g == [Head(stack) EXCEPT !.rest = @ \ {v}]
           q == <<g>> \o Tail(stack)
           L == Len(stack)
<1>1. Looking(v) /\ stack # <<>> /\ stack \in Seq(Frame)
  BY DEF SkipVisited, Looking, Path
<1>2. /\ L \in Nat /\ L > 0 /\ 1 \in 1 .. L
      /\ Head(stack) = stack[1] /\ stack[1] \in Frame
  BY <1>1, Innermost
<1>3. edges' = edges /\ visited' = visited /\ stack' = q /\ visited[v] = 2
  BY DEF SkipVisited, vars
<1>4. g \in Frame /\ g.node = stack[1].node /\ g.rest = stack[1].rest \ {v}
  BY <1>2 DEF Frame
<1> HIDE DEF g
<1>5. /\ q \in Seq(Frame) /\ Len(q) = L
      /\ q[1] = g
      /\ \A i \in 2 .. L : q[i] = stack[i]
  BY <1>1, <1>4, Replaced
<1> HIDE DEF q, L
<1>6. ASSUME NEW i \in 1 .. L
      PROVE  /\ q[i].node = stack[i].node
             /\ q[i].rest \subseteq stack[i].rest
             /\ \A c \in stack[i].rest \ q[i].rest : c = v
  <2>1. CASE i = 1
    BY <1>4, <1>5, <2>1
  <2>2. CASE i \in 2 .. L
    BY <1>5, <2>2
  <2> QED BY <1>2, <2>1, <2>2
<1>7. Path'
  <2>1. ASSUME NEW t \in Task, visited[t] = 1 PROVE \E i \in 1 .. L : q[i].node = t
    BY <1>6, <2>1 DEF Path, L
  <2>2. ASSUME NEW i \in 1 .. L
        PROVE  /\ visited[q[i].node] = 1
               /\ q[i].rest \subseteq Children(q[i].node)
    <3>1. visited[stack[i].node] = 1 /\ stack[i].rest \subseteq Children(stack[i].node)
      BY DEF Path, L
    <3> QED BY <1>6, <3>1
  <2>3. ASSUME NEW i \in 1 .. L, NEW j \in 1 .. L, q[i].node = q[j].node PROVE i = j
    <3>1. stack[i].node = stack[j].node
      BY <1>6, <2>3
    <3> QED BY <3>1 DEF Path, L
  <2>4. ASSUME NEW i \in 1 .. L - 1 PROVE q[i].node \in Children(q[i + 1].node)
    <3>1. i \in 1 .. L /\ i + 1 \in 1 .. L
      BY <1>2
    <3>2. stack[i].node \in Children(stack[i + 1].node)
      BY DEF Path, L
    <3> QED BY <1>6, <3>1, <3>2
  <2>5. visited \in [Task -> 0 .. 2]
    BY DEF Path
  <2> QED BY <1>3, <1>5, <2>1, <2>2, <2>3, <2>4, <2>5 DEF Path, Children
<1>8. Explored'
  <2>1. ASSUME NEW i \in 1 .. L, NEW c \in Children(q[i].node) \ q[i].rest
        PROVE  visited[c] = 2 \/ (i > 1 /\ c = q[i - 1].node)
    <3>1. c \in Children(stack[i].node)
      BY <1>6, <2>1
    <3>2. CASE c \in stack[i].rest
      BY <1>3, <1>6, <2>1, <3>2
    <3>3. CASE c \notin stack[i].rest
      <4>1. visited[c] = 2 \/ (i > 1 /\ c = stack[i - 1].node)
        BY <3>1, <3>3 DEF Explored, L
      <4>2. i > 1 => i - 1 \in 1 .. L
        BY <1>2
      <4> QED BY <1>6, <4>1, <4>2
    <3> QED BY <3>2, <3>3
  <2> QED BY <1>3, <1>5, <2>1 DEF Explored, Children
<1>9. CleanBehind'
  <2>1. \A C : ChildCore(C)' <=> ChildCore(C)
    BY <1>3 DEF ChildCore, Children
  <2> QED BY <1>3, <2>1 DEF CleanBehind
<1> QED BY <1>7, <1>8, <1>9

LEMMA DescendStep ==
  ASSUME NEW v \in Task, Descend(v), Path, Explored, CleanBehind
  PROVE  (Path /\ Explored /\ CleanBehind)'
<1> DEFINE f == [node |-> v, rest |-> Children(v)]
           g == [Head(stack) EXCEPT !.rest = @ \ {v}]
           q == <<f, g>> \o Tail(stack)
           w == [visited EXCEPT ![v] = 1]
           L == Len(stack)
<1>1. Looking(v) /\ stack # <<>> /\ stack \in Seq(Frame)
  BY DEF Descend, Looking, Path
<1>2. /\ L \in Nat /\ L > 0 /\ 1 \in 1 .. L
      /\ Head(stack) = stack[1] /\ stack[1] \in Frame
      /\ v \in Children(stack[1].node)
  BY <1>1, Innermost
<1>3. edges' = edges /\ visited' = w /\ stack' = q /\ visited[v] = 0
  BY DEF Descend, vars
<1>4. /\ g \in Frame /\ g.node = stack[1].node /\ g.rest = stack[1].rest \ {v}
      /\ f \in Frame /\ f.node = v /\ f.rest = Children(v)
  BY <1>2 DEF Frame, Children
<1>5. /\ w \in [Task -> 0 .. 2]
      /\ w[v] = 1
      /\ \A t \in Task : t # v => w[t] = visited[t]
  BY DEF Path
<1> HIDE DEF f, g, w
<1>6. /\ q \in Seq(Frame) /\ Len(q) = L + 1
      /\ q[1] = f /\ q[2] = g
      /\ \A i \in 3 .. L + 1 : q[i] = stack[i - 1]
  BY <1>1, <1>4, Entered
<1> HIDE DEF q, L
<1>7. ASSUME NEW i \in 2 .. L + 1
      PROVE  /\ i - 1 \in 1 .. L
             /\ q[i].node = stack[i - 1].node
             /\ q[i].rest \subseteq stack[i - 1].rest
             /\ \A c \in stack[i - 1].rest \ q[i].rest : i = 2 /\ c = v
  <2>1. CASE i = 2
    BY <1>2, <1>4, <1>6, <2>1
  <2>2. CASE i \in 3 .. L + 1
    BY <1>2, <1>6, <2>2
  <2> QED BY <1>2, <2>1, <2>2
<1>8. \A i \in 1 .. L : /\ visited[stack[i].node] = 1 /\ stack[i].node \in Task
                        /\ stack[i].node # v
                        /\ stack[i].rest \subseteq Children(stack[i].node)
  <2>1. \A i \in 1 .. L : stack[i] \in Frame
    BY <1>1 DEF L
  <2> QED BY <1>3, <2>1 DEF Path, L, Frame
<1>9. \A i \in 1 .. L + 1 : i = 1 \/ i \in 2 .. L + 1
  BY <1>2
<1>10. Path'
  <2>1. ASSUME NEW t \in Task, w[t] = 1 PROVE \E i \in 1 .. L + 1 : q[i].node = t
    <3>1. CASE t = v
      BY <1>2, <1>4, <1>6, <3>1
    <3>2. CASE t # v
      <4>1. PICK i \in 1 .. L : stack[i].node = t
        BY <1>5, <2>1, <3>2 DEF Path, L
      <4>2. i + 1 \in 2 .. L + 1 /\ i + 1 \in 1 .. L + 1 /\ (i + 1) - 1 = i
        BY <1>2
      <4> QED BY <1>7, <4>1, <4>2
    <3> QED BY <3>1, <3>2
  <2>2. ASSUME NEW i \in 1 .. L + 1
        PROVE  /\ w[q[i].node] = 1
               /\ q[i].rest \subseteq Children(q[i].node)
    <3>1. CASE i = 1
      BY <1>4, <1>5, <1>6, <3>1
    <3>2. CASE i \in 2 .. L + 1
      <4>1. w[stack[i - 1].node] = 1
        BY <1>5, <1>7, <1>8, <3>2
      <4> QED BY <1>7, <1>8, <3>2, <4>1
    <3> QED BY <1>9, <3>1, <3>2
  <2>3. ASSUME NEW i \in 1 .. L + 1, NEW j \in 1 .. L + 1, q[i].node = q[j].node PROVE i = j
    <3>1. CASE i = 1 /\ j = 1
      BY <3>1
    <3>2. CASE i = 1 /\ j \in 2 .. L + 1
      BY <1>4, <1>6, <1>7, <1>8, <2>3, <3>2
    <3>3. CASE j = 1 /\ i \in 2 .. L + 1
      BY <1>4, <1>6, <1>7, <1>8, <2>3, <3>3
    <3>4. CASE i \in 2 .. L + 1 /\ j \in 2 .. L + 1
      <4>1. /\ i - 1 \in 1 .. L /\ j - 1 \in 1 .. L
            /\ stack[i - 1].node = stack[j - 1].node
        BY <1>7, <2>3, <3>4
      <4>2. i - 1 = j - 1
        BY <4>1 DEF Path, L
      <4> QED BY <3>4, <4>2
    <3> QED BY <1>9, <3>1, <3>2, <3>3, <3>4
  <2>4. ASSUME NEW i \in 1 .. (L + 1) - 1 PROVE q[i].node \in Children(q[i + 1].node)
    <3>1. i + 1 \in 2 .. L + 1 /\ (i + 1) - 1 = i /\ i \in 1 .. L
      BY <1>2
    <3>2. q[i + 1].node = stack[i].node
      BY <1>7, <3>1
    <3>3. CASE i = 1
      BY <1>2, <1>4, <1>6, <3>2, <3>3
    <3>4. CASE i \in 2 .. L
      <4>1. i \in 2 .. L + 1 /\ i - 1 \in 1 .. L - 1 /\ (i - 1) + 1 = i
        BY <1>2, <3>4
      <4>2. stack[i - 1].node \in Children(stack[(i - 1) + 1].node)
        BY <4>1 DEF Path, L
      <4>3. q[i].node = stack[i - 1].node
        BY <1>7, <4>1
      <4> QED BY <3>2, <4>1, <4>2, <4>3
    <3> QED BY <1>2, <3>1, <3>3, <3>4
  <2> QED BY SMTT(30), <1>3, <1>5, <1>6, <2>1, <2>2, <2>3, <2>4 DEF Path, Children
<1>11. Explored'
  <2>1. ASSUME NEW i \in 1 .. L + 1, NEW c \in Children(q[i].node) \ q[i].rest
        PROVE  w[c] = 2 \/ (i > 1 /\ c = q[i - 1].node)
    <3>1. CASE i = 1
      BY <1>4, <1>6, <2>1, <3>1
    <3>2. CASE i \in 2 .. L + 1
      <4>1. i - 1 \in 1 .. L /\ c \in Children(stack[i - 1].node) /\ c \in Task
        BY <1>7, <2>1, <3>2 DEF Children
      <4>2. CASE c \in stack[i - 1].rest
        <5>1. i = 2 /\ c = v /\ i - 1 = 1
          BY <1>7, <2>1, <3>2, <4>2
        <5> QED BY <1>4, <1>6, <5>1
      <4>3. CASE c \notin stack[i - 1].rest
        <5>1. visited[c] = 2 \/ (i - 1 > 1 /\ c = stack[(i - 1) - 1].node)
          BY <4>1, <4>3 DEF Explored, L
        <5>2. ASSUME visited[c] = 2 PROVE w[c] = 2
          BY <1>3, <1>5, <4>1, <5>2
        <5>3. ASSUME i - 1 > 1, c = stack[(i - 1) - 1].node
              PROVE  i > 1 /\ c = q[i - 1].node
          <6>1. i - 1 \in 2 .. L + 1 /\ i > 1
            BY <1>2, <3>2, <5>3
          <6> QED BY <1>7, <5>3, <6>1
        <5> QED BY <5>1, <5>2, <5>3
      <4> QED BY <4>2, <4>3
    <3> QED BY <1>9, <3>1, <3>2
  <2> QED BY <1>3, <1>6, <2>1 DEF Explored, Children
<1>12. CleanBehind'
  <2>1. \A C : ChildCore(C)' <=> ChildCore(C)
    BY <1>3 DEF ChildCore, Children
  <2>2. \A C : ChildCore(C) => C \subseteq Task
    BY DEF ChildCore
  <2>3. \A t \in Task : w[t] = 2 => visited[t] = 2
    BY <1>5
  <2> QED BY <1>3, <2>1, <2>2, <2>3 DEF CleanBehind
<1> QED BY <1>10, <1>11, <1>12

LEMMA ReturnStep ==
  ASSUME ReturnFromSearch, Path, Explored, CleanBehind
  PROVE  (Path /\ Explored /\ CleanBehind)'
<1> DEFINE u == stack[1].node
           q == Tail(stack)
           w == [visited EXCEPT ![u] = 2]
           L == Len(stack)
<1>1. stack # <<>> /\ stack \in Seq(Frame) /\ Head(stack).rest = {}
  BY DEF ReturnFromSearch, Path
<1>2. /\ L \in Nat /\ L > 0 /\ 1 \in 1 .. L
      /\ Head(stack) = stack[1] /\ stack[1] \in Frame
      /\ q \in Seq(Frame) /\ Len(q) = L - 1
      /\ \A i \in 1 .. L - 1 : q[i] = stack[i + 1]
  BY <1>1, Popping
<1>3. edges' = edges /\ visited' = w /\ stack' = q /\ stack[1].rest = {} /\ u \in Task
  BY <1>1, <1>2 DEF ReturnFromSearch, vars, Frame
<1>4. /\ w \in [Task -> 0 .. 2]
      /\ w[u] = 2
      /\ \A t \in Task : t # u => w[t] = visited[t]
  BY <1>3 DEF Path
<1> HIDE DEF q, w, L
<1>5. ASSUME NEW i \in 1 .. L PROVE stack[i].node \in Task
  <2>1. stack[i] \in Frame
    BY <1>1 DEF L
  <2> QED BY <2>1 DEF Frame
<1>6. \A i \in 1 .. L - 1 : i \in 1 .. L /\ i + 1 \in 1 .. L /\ i + 1 # 1
  BY <1>2
<1>7. \A i \in 1 .. L - 1 : stack[i + 1].node # u /\ stack[i + 1].node \in Task
  BY <1>2, <1>5, <1>6 DEF Path, L
<1>8. ASSUME NEW c \in Children(u) PROVE visited[c] = 2
  <2>1. c \in Children(stack[1].node) \ stack[1].rest
    BY <1>3
  <2>2. visited[c] = 2 \/ (1 > 1 /\ c = stack[1 - 1].node)
    BY <1>2, <2>1 DEF Explored, L
  <2> QED BY <2>2
<1>9. Path'
  <2>1. ASSUME NEW t \in Task, w[t] = 1 PROVE \E i \in 1 .. L - 1 : q[i].node = t
    <3>1. t # u /\ visited[t] = 1
      BY <1>4, <2>1
    <3>2. PICK i \in 1 .. L : stack[i].node = t
      BY <3>1 DEF Path, L
    <3>3. i # 1 /\ i - 1 \in 1 .. L - 1 /\ (i - 1) + 1 = i
      BY <1>2, <3>1, <3>2
    <3> QED BY <1>2, <3>2, <3>3
  <2>2. ASSUME NEW i \in 1 .. L - 1
        PROVE  /\ w[q[i].node] = 1
               /\ q[i].rest \subseteq Children(q[i].node)
    <3>1. q[i] = stack[i + 1] /\ i + 1 \in 1 .. L
      BY <1>2, <1>6
    <3>2. visited[stack[i + 1].node] = 1 /\ stack[i + 1].rest \subseteq Children(stack[i + 1].node)
      BY <3>1 DEF Path, L
    <3> QED BY <1>4, <1>7, <3>1, <3>2
  <2>3. ASSUME NEW i \in 1 .. L - 1, NEW j \in 1 .. L - 1, q[i].node = q[j].node PROVE i = j
    <3>1. i + 1 \in 1 .. L /\ j + 1 \in 1 .. L /\ stack[i + 1].node = stack[j + 1].node
      BY <1>2, <1>6, <2>3
    <3>2. i + 1 = j + 1
      BY <3>1 DEF Path, L
    <3> QED BY <3>2
  <2>4. ASSUME NEW i \in 1 .. (L - 1) - 1 PROVE q[i].node \in Children(q[i + 1].node)
    <3>1. i \in 1 .. L - 1 /\ i + 1 \in 1 .. L - 1
      BY <1>2
    <3>2. stack[i + 1].node \in Children(stack[(i + 1) + 1].node)
      BY <3>1 DEF Path, L
    <3> QED BY <1>2, <3>1, <3>2
  <2> QED BY <1>2, <1>3, <1>4, <2>1, <2>2, <2>3, <2>4 DEF Path, Children
<1>10. Explored'
  <2>1. ASSUME NEW i \in 1 .. L - 1, NEW c \in Children(q[i].node) \ q[i].rest
        PROVE  w[c] = 2 \/ (i > 1 /\ c = q[i - 1].node)
    <3>1. /\ q[i] = stack[i + 1] /\ i + 1 \in 1 .. L /\ i + 1 > 1 /\ (i + 1) - 1 = i
          /\ c \in Task
      BY <1>2, <1>6, <2>1 DEF Children
    <3>2. visited[c] = 2 \/ c = stack[i].node
      BY <2>1, <3>1 DEF Explored, L
    <3>3. ASSUME visited[c] = 2 PROVE w[c] = 2
      BY <1>4, <3>1, <3>3
    <3>4. CASE c = stack[i].node /\ i = 1
      BY <1>4, <3>4
    <3>5. CASE c = stack[i].node /\ i # 1
      <4>1. i - 1 \in 1 .. L - 1 /\ (i - 1) + 1 = i /\ i > 1
        BY <1>2, <3>5
      <4> QED BY <1>2, <3>5, <4>1
    <3> QED BY <3>2, <3>3, <3>4, <3>5
  <2> QED BY <1>2, <1>3, <2>1 DEF Explored, Children
<1>11. CleanBehind'
  <2>1. \A C : ChildCore(C)' <=> ChildCore(C)
    BY <1>3 DEF ChildCore, Children
  <2>2. ASSUME NEW C, ChildCore(C), NEW c \in C PROVE w[c] # 2
    <3>1. c \in Task /\ visited[c] # 2
      BY <2>2 DEF ChildCore, CleanBehind
    <3>2. CASE c # u
      BY <1>4, <3>1, <3>2
    <3>3. CASE c = u
      <4>1. PICK d \in C : d \in Children(u)
        BY <2>2, <3>3 DEF ChildCore
      <4> QED BY <1>8, <2>2, <4>1 DEF CleanBehind
    <3> QED BY <3>2, <3>3
  <2> QED BY <1>3, <2>1, <2>2 DEF CleanBehind
<1> QED BY <1>9, <1>10, <1>11

(***************************************************************************)
(* The verdicts.                                                           *)
(***************************************************************************)
\* A task with an edge to itself is a cycle.
LEMMA LoopIsCyclic ==
  ASSUME NEW t \in Task, Loop(t)
  PROVE  ~ Acyclic
<1>1. ParentCore({t})
  BY DEF ParentCore, Loop, Parents
<1> QED BY <1>1, ParentCoreIsCyclic

\* A child that is being visited is on the stack: the calls down to it are a cycle.
LEMMA FoundIsCyclic ==
  ASSUME Path, NEW v \in Task, FindCycle(v)
  PROVE  ~ Acyclic
<1>1. /\ Len(stack) \in Nat /\ Len(stack) > 0 /\ 1 \in 1 .. Len(stack)
      /\ v \in Children(stack[1].node)
      /\ visited[v] = 1
  BY Innermost DEF FindCycle, BackEdge
<1>2. PICK j \in 1 .. Len(stack) : stack[j].node = v
  BY <1>1 DEF Path
<1> DEFINE C == {stack[i].node : i \in 1 .. j}
<1>3. ASSUME NEW i \in 1 .. j PROVE stack[i].node \in C /\ stack[i].node \in Task
  <2>1. i \in 1 .. Len(stack)
    BY <1>1, <1>2
  <2>2. stack[i] \in Frame
    BY <2>1 DEF Path
  <2> QED BY <2>2 DEF Frame
<1>4. ASSUME NEW i \in 1 .. j PROVE \E k \in 1 .. j : stack[k].node \in Parents(stack[i].node)
  <2>1. CASE i = j
    <3>1. 1 \in 1 .. j
      BY <1>1, <1>2
    <3> QED BY <1>1, <1>2, <1>3, <2>1, <3>1 DEF Parents, Children
  <2>2. CASE i # j
    <3>1. i + 1 \in 1 .. j /\ i \in 1 .. Len(stack) - 1
      BY <1>1, <1>2, <2>2
    <3>2. stack[i].node \in Children(stack[i + 1].node)
      BY <3>1 DEF Path
    <3> QED BY <1>3, <3>1, <3>2 DEF Parents, Children
  <2> QED BY <2>1, <2>2
<1>5. ParentCore(C)
  <2>1. C \subseteq Task /\ C # {}
    BY <1>1, <1>2, <1>3
  <2>2. ASSUME NEW c \in C PROVE Parents(c) \cap C # {}
    BY <1>3, <1>4
  <2> QED BY <2>1, <2>2 DEF ParentCore
<1> QED BY <1>5, ParentCoreIsCyclic

LEMMA SearchingInit == ClientInit => Searching
<1> SUFFICES ASSUME ClientInit PROVE Searching
  OBVIOUS
<1>1. Dfs
  <2>1. CASE client = "builder"
    <3>1. visited \in [Task -> 0 .. 2] /\ \A t \in Task : visited[t] = 0
      BY DEF ClientInit, Unvisited
    <3>2. stack \in Seq(Frame) /\ Len(stack) = 0
      BY DEF ClientInit
    <3>3. Path
      BY <3>1, <3>2 DEF Path
    <3>4. Explored
      BY <3>2 DEF Explored
    <3>5. CleanBehind
      BY <3>1 DEF CleanBehind, ChildCore
    <3> QED BY <2>1, <3>3, <3>4, <3>5 DEF Dfs
  <2>2. CASE client # "builder"
    BY <2>2 DEF Dfs, ClientInit
  <2> QED BY <2>1, <2>2
<1>2. ASSUME client = "cli" PROVE Popped({})
  <2>1. kahn = [inDegree |-> Indegrees, processed |-> 0,
                queue |-> {t \in Task : Indegrees[t] = 0}]
    BY <1>2 DEF ClientInit
  <2>2. \A t : Parents(t) \ {} = Parents(t)
    OBVIOUS
  <2>3. Indegrees = [u \in Task |-> Cardinality(Parents(u) \ {})]
    BY <2>2 DEF Indegrees
  <2>4. ASSUME NEW u \in Task PROVE Indegrees[u] = 0 <=> Parents(u) \subseteq {}
    <3>1. IsFiniteSet(Parents(u))
      BY DagAssumption, FS_Subset DEF Parents
    <3>2. Cardinality(Parents(u)) = 0 <=> Parents(u) = {}
      BY <3>1, FS_EmptySet
    <3>3. Indegrees[u] = Cardinality(Parents(u))
      BY DEF Indegrees
    <3> QED BY <3>2, <3>3
  <2>5. {t \in Task : Indegrees[t] = 0} = {u \in Task \ {} : Parents(u) \subseteq {}}
    BY <2>4
  <2>6. Cardinality({}) = 0
    BY FS_EmptySet
  <2> QED BY <2>1, <2>3, <2>5, <2>6 DEF Popped
<1> QED BY <1>1, <1>2 DEF Searching, Kahn

\* After the verdict there is no search.
LEMMA AfterVerdict ==
  ASSUME NEW v \in {"sent", "built", "refused"}, Verdict(v)
  PROVE  Searching'
BY DEF Verdict, Searching, Kahn, Dfs

LEMMA SearchingNext == Searching /\ [ClientNext]_allVars => Searching'
<1> SUFFICES ASSUME Searching, [ClientNext]_allVars PROVE Searching'
  OBVIOUS
<1>1. CASE AddDependencyThrows \/ (\E v \in Task : FindCycle(v)) \/ BuildProto \/ Validated
           \/ SendUnchecked
  <2>1. \E v \in {"sent", "built", "refused"} : Verdict(v)
    BY <1>1 DEF AddDependencyThrows, FindCycle, BuildProto, Validated, SendUnchecked, Accept, Refuse
  <2> QED BY <2>1, AfterVerdict
<1>2. CASE ReturnFromSearch \/ \E v \in Task : StartSearch(v) \/ Descend(v) \/ SkipVisited(v)
  <2>1. client = "builder" /\ client' = client
    <3>1. CASE ReturnFromSearch
      BY <3>1 DEF ReturnFromSearch, Searching, Dfs
    <3>2. CASE \E v \in Task : StartSearch(v) \/ Descend(v) \/ SkipVisited(v)
      BY <3>2 DEF StartSearch, Descend, SkipVisited, Looking
    <3> QED BY <1>2, <3>1, <3>2
  <2>2. Path /\ Explored /\ CleanBehind
    BY <2>1 DEF Searching, Dfs
  <2>3. (Path /\ Explored /\ CleanBehind)'
    BY <1>2, <2>2, StartStep, DescendStep, SkipStep, ReturnStep
  <2>4. client' = "builder" /\ client' # "cli"
    BY <2>1
  <2>5. Dfs'
    BY <2>3, <2>4 DEF Dfs
  <2> QED BY <2>4, <2>5 DEF Searching, Kahn
<1>3. ASSUME NEW t \in Task, Pop(t) PROVE Searching'
  <2>1. client = "cli" /\ client' = "cli" /\ client' # "builder" /\ stack' = stack
    BY <1>3 DEF Pop
  <2>2. PICK R : Popped(R)
    BY <2>1 DEF Searching, Kahn
  <2>3. Popped(R \cup {t})'
    BY <1>3, <2>2, PopStep
  <2>4. Kahn'
    BY <2>3 DEF Kahn
  <2>5. stack' = <<>>
    BY <2>1 DEF Searching, Dfs
  <2>6. Dfs'
    BY <2>1, <2>5 DEF Dfs
  <2> QED BY <2>4, <2>6 DEF Searching
<1>4. CASE \/ RunPipeline \/ LosePipeline \/ ExpireKey
           \/ \E t \in Task : ReportSuccess(t)
  <2>1. client = "sent" /\ client' = client /\ stack' = stack
    BY <1>4 DEF RunPipeline, LosePipeline, ExpireKey, ReportSuccess, Sent, clientVars
  <2>2. client' # "cli" /\ client' # "builder" /\ stack' = <<>>
    BY <2>1 DEF Searching, Dfs
  <2> QED BY <2>2 DEF Searching, Kahn, Dfs
<1>5. CASE UNCHANGED allVars
  <2>1. UNCHANGED <<edges, client, visited, stack, kahn>>
    BY <1>5 DEF allVars, clientVars, vars
  <2>2. \A C : /\ ParentCore(C)' <=> ParentCore(C)
               /\ ChildCore(C)' <=> ChildCore(C)
    BY <2>1 DEF ParentCore, ChildCore, Parents, Children
  <2>3. Kahn'
    <3>1. \A u : Parents(u)' = Parents(u)
      BY <2>1 DEF Parents
    <3>2. \A R : Popped(R) => Popped(R)'
      BY <2>1, <2>2, <3>1 DEF Popped
    <3> QED BY <2>1, <3>2 DEF Searching, Kahn
  <2>4. Path => Path'
    BY <2>1 DEF Path, Children
  <2>5. Explored => Explored'
    BY <2>1 DEF Explored, Children
  <2>6. CleanBehind => CleanBehind'
    BY <2>1, <2>2 DEF CleanBehind
  <2>7. Dfs'
    BY <2>1, <2>4, <2>5, <2>6 DEF Searching, Dfs
  <2> QED BY <2>3, <2>7 DEF Searching
<1> QED BY <1>1, <1>2, <1>3, <1>4, <1>5 DEF ClientNext, Submit

\* When the queue of Validate is empty, the tasks that were not popped are a core.
LEMMA ValidatedRight ==
  ASSUME NEW R, Popped(R), Validated
  PROVE  client' = "refused" <=> ~ Acyclic
<1>1. /\ R \subseteq Task
      /\ kahn.queue = {u \in Task \ R : Parents(u) \subseteq R}
      /\ kahn.processed = Cardinality(R)
      /\ \A C : ParentCore(C) => C \cap R = {}
  BY DEF Popped
<1>2. AllProcessed <=> R = Task
  <2>1. Cardinality(R) = Cardinality(Task) => R = Task
    BY <1>1, DagAssumption, FS_Subset
  <2> QED BY <1>1, <2>1 DEF AllProcessed
<1>3. CASE R = Task
  <2>1. ~ \E C : ParentCore(C)
    BY <1>1, <1>3 DEF ParentCore
  <2>2. Acyclic
    BY <2>1, CyclicHasCores
  <2>3. client' # "refused"
    BY <1>2, <1>3 DEF Validated, Accept, Verdict
  <2> QED BY <2>2, <2>3
<1>4. CASE R # Task
  <2>1. ASSUME NEW u \in Task \ R PROVE Parents(u) \cap (Task \ R) # {}
    <3>1. ~ (Parents(u) \subseteq R)
      BY <1>1, <2>1 DEF Validated
    <3> QED BY <3>1 DEF Parents
  <2>2. ParentCore(Task \ R)
    BY <1>1, <1>4, <2>1 DEF ParentCore
  <2>3. ~ Acyclic
    BY <2>2, ParentCoreIsCyclic
  <2>4. client' = "refused"
    BY <1>2, <1>4 DEF Validated, Refuse, Verdict
  <2> QED BY <2>3, <2>4
<1> QED BY <1>3, <1>4

LEMMA VerdictStep ==
  Searching /\ [ClientNext]_allVars
    => (client' # client /\ client \in Validators => (client' = "refused" <=> ~ Acyclic))
<1> SUFFICES ASSUME Searching, [ClientNext]_allVars, client' # client, client \in Validators
             PROVE  client' = "refused" <=> ~ Acyclic
  OBVIOUS
<1>1. CASE AddDependencyThrows
  <2>1. client' = "refused" /\ \E t \in Task : Loop(t)
    BY <1>1 DEF AddDependencyThrows, Refuse, Verdict
  <2> QED BY <2>1, LoopIsCyclic
<1>2. ASSUME NEW v \in Task, FindCycle(v) PROVE client' = "refused" <=> ~ Acyclic
  <2>1. client = "builder" /\ client' = "refused"
    BY <1>2 DEF FindCycle, Looking, Refuse, Verdict
  <2>2. Path
    BY <2>1 DEF Searching, Dfs
  <2> QED BY <1>2, <2>1, <2>2, FoundIsCyclic
<1>3. CASE BuildProto
  <2>1. /\ client = "builder" /\ client' # "refused"
        /\ \A t \in Task : visited[t] = 2
    BY <1>3 DEF BuildProto, Accept, Verdict
  <2>2. CleanBehind
    BY <2>1 DEF Searching, Dfs
  <2>3. ~ \E C : ChildCore(C)
    BY <2>1, <2>2 DEF CleanBehind, ChildCore
  <2>4. Acyclic
    BY <2>3, CyclicHasCores
  <2> QED BY <2>1, <2>4
<1>4. CASE Validated
  <2>1. \E R : Popped(R)
    BY <1>4 DEF Validated, Searching, Kahn
  <2> QED BY <1>4, <2>1, ValidatedRight
<1>5. CASE ReturnFromSearch \/ \E v \in Task : StartSearch(v) \/ Descend(v) \/ SkipVisited(v) \/ Pop(v)
  <2>1. client' = client
    BY <1>5 DEF ReturnFromSearch, StartSearch, Descend, SkipVisited, Pop
  <2> QED BY <2>1
<1>6. CASE SendUnchecked
  BY <1>6 DEF SendUnchecked, Validators
<1>7. CASE \/ RunPipeline \/ LosePipeline \/ ExpireKey
           \/ \E t \in Task : ReportSuccess(t)
  <2>1. client' = client
    BY <1>7 DEF RunPipeline, LosePipeline, ExpireKey, ReportSuccess, Sent, clientVars
  <2> QED BY <2>1
<1>8. CASE UNCHANGED allVars
  BY <1>8 DEF allVars, clientVars
<1> QED BY <1>1, <1>2, <1>3, <1>4, <1>5, <1>6, <1>7, <1>8 DEF ClientNext, Submit

\* dag_builder.cpp:127 and validator.go:74: whatever the order of their maps, the
\* depth-first search and the topological sort refuse a graph if and only if it
\* has a cycle, for every finite set of tasks.
THEOREM ValidatorsAreExact == ClientSpec => VerdictExact
<1>1. Searching /\ [ClientNext]_allVars
        => [client' # client /\ client \in Validators
              => (client' = "refused" <=> ~ Acyclic)]_allVars
  BY VerdictStep
<1> QED BY <1>1, SearchingInit, SearchingNext, PTL DEF ClientSpec, VerdictExact

\* task_submitter.cpp:302: whoever sends the graph, the engine is that of DagEngine,
\* so that every theorem about it holds of the jobs of each client.
THEOREM ClientRunsEngine == ClientSpec => Spec
<1>1. ClientInit => Init
  BY DEF ClientInit
<1>2. [ClientNext]_allVars => [Next]_vars
  <2> SUFFICES ASSUME [ClientNext]_allVars PROVE [Next]_vars
    OBVIOUS
  <2>1. CASE Submit
    BY <2>1 DEF Submit, AddDependencyThrows, ReturnFromSearch, BuildProto, StartSearch, FindCycle,
                Descend, SkipVisited, Pop, Validated, SendUnchecked
  <2>2. CASE \/ RunPipeline \/ LosePipeline \/ ExpireKey
             \/ \E t \in Task : ReportSuccess(t)
    BY <2>2 DEF RunPipeline, LosePipeline, ExpireKey, ReportSuccess, Next
  <2>3. CASE UNCHANGED allVars
    BY <2>3 DEF allVars
  <2> QED BY <2>1, <2>2, <2>3 DEF ClientNext
<1> QED BY <1>1, <1>2, PTL DEF ClientSpec, Spec
==============================================================================
