------------------------------ MODULE ThreadPool ------------------------------
(***************************************************************************)
(* The pool of src/common/include/thread_pool.h: a FIFO queue, a condition *)
(* variable and a destructor that drains.  The scheduler dispatches and    *)
(* the worker executes in one of these.                                    *)
(*                                                                         *)
(* Every critical section of queue_mutex_ is one action.  notify_one and   *)
(* notify_all are called after the mutex is released, so they are actions  *)
(* of their own; a waiter may also wake up for no reason.  DispatchPool    *)
(* says what the jobs of the scheduler do.                                 *)
(***************************************************************************)
EXTENDS Integers, FiniteSets, Sequences, SequencesExt

CONSTANTS Thread,   \* workers_
          Job,      \* the functions that callers enqueue, each once
          NoJob     \* what a thread holds that has taken nothing

ASSUME ThreadPoolAssumption ==
  /\ IsFiniteSet(Thread) /\ Thread # {}
  /\ IsFiniteSet(Job) /\ NoJob \notin Job

VARIABLES
  tasks,     \* tasks_
  stop,      \* stop_
  pc,        \* per thread: about to lock, asleep in wait(), running, returned
  job,       \* what the thread has taken
  owed,      \* calls of enqueue that have pushed and not yet notified
  dtor,      \* the destructor: not called, stop_ set, notified, joined
  accepted,  \* jobs whose enqueue returned
  rejected,  \* jobs whose enqueue threw
  done       \* jobs that ran to their end

vars == <<tasks, stop, pc, job, owed, dtor, accepted, rejected, done>>

Init == /\ tasks = <<>>
        /\ stop = FALSE
        /\ pc = [t \in Thread |-> "lock"]
        /\ job = [t \in Thread |-> NoJob]
        /\ owed = 0
        /\ dtor = "alive"
        /\ accepted = {} /\ rejected = {} /\ done = {}

Asleep == {t \in Thread : pc[t] = "asleep"}

-----------------------------------------------------------------------------
(* Variants with a bug, used to test the properties. *)
BugLeaves(t)    == stop
BugSleeps(t)    == TRUE

-----------------------------------------------------------------------------
(* The loop of a thread. *)

\* The predicate of wait() is false, and it is evaluated with the mutex held.
Sleeps(t) == ~stop /\ tasks = <<>>

Sleep(t) ==
  /\ pc[t] = "lock"
  /\ Sleeps(t)
  /\ pc' = [pc EXCEPT ![t] = "asleep"]
  /\ UNCHANGED <<tasks, stop, job, owed, dtor, accepted, rejected, done>>

\* The queue after front() and pop().
Rest == Tail(tasks)

Take(t) ==
  /\ pc[t] = "lock"
  /\ tasks # <<>>
  /\ job' = [job EXCEPT ![t] = Head(tasks)]
  /\ tasks' = Rest
  /\ pc' = [pc EXCEPT ![t] = "run"]
  /\ UNCHANGED <<stop, owed, dtor, accepted, rejected, done>>

\* A thread returns only when the pool is stopped and nothing is queued.
Leaves(t) == stop /\ tasks = <<>>

Return(t) ==
  /\ pc[t] = "lock"
  /\ Leaves(t)
  /\ pc' = [pc EXCEPT ![t] = "returned"]
  /\ UNCHANGED <<tasks, stop, job, owed, dtor, accepted, rejected, done>>

\* The job, outside the mutex; a packaged_task swallows what it throws.
RanJob(t) == job[t]

Run(t) ==
  /\ pc[t] = "run"
  /\ done' = done \cup {RanJob(t)}
  /\ job' = [job EXCEPT ![t] = NoJob]
  /\ pc' = [pc EXCEPT ![t] = "lock"]
  /\ UNCHANGED <<tasks, stop, owed, dtor, accepted, rejected>>

SpuriousWakeup(t) ==
  /\ pc[t] = "asleep"
  /\ pc' = [pc EXCEPT ![t] = "lock"]
  /\ UNCHANGED <<tasks, stop, job, owed, dtor, accepted, rejected, done>>

-----------------------------------------------------------------------------
(* enqueue, from any thread of the program, also while the destructor waits. *)

Enqueue(j) ==
  /\ dtor # "joined"
  /\ j \notin accepted \cup rejected
  /\ ~stop
  /\ tasks' = Append(tasks, j)
  /\ accepted' = accepted \cup {j}
  /\ owed' = owed + 1
  /\ UNCHANGED <<stop, pc, job, dtor, rejected, done>>

EnqueueThrows(j) ==
  /\ dtor # "joined"
  /\ j \notin accepted \cup rejected
  /\ stop
  /\ rejected' = rejected \cup {j}
  /\ UNCHANGED <<tasks, stop, pc, job, owed, dtor, accepted, done>>

\* Threads of S return from wait() and compete for the mutex.
Wake(S) == pc' = [t \in Thread |-> IF t \in S THEN "lock" ELSE pc[t]]

NotifyOne ==
  /\ owed > 0
  /\ owed' = owed - 1
  /\ \/ Asleep = {} /\ UNCHANGED pc
     \/ \E t \in Asleep : Wake({t})
  /\ UNCHANGED <<tasks, stop, job, dtor, accepted, rejected, done>>

-----------------------------------------------------------------------------
(* The destructor. *)

SetStop ==
  /\ dtor = "alive"
  /\ stop' = TRUE
  /\ dtor' = "stopped"
  /\ UNCHANGED <<tasks, pc, job, owed, accepted, rejected, done>>

WakeEveryone == Wake(Asleep)

NotifyAll ==
  /\ dtor = "stopped"
  /\ WakeEveryone
  /\ dtor' = "notified"
  /\ UNCHANGED <<tasks, stop, job, owed, accepted, rejected, done>>

Join ==
  /\ dtor = "notified"
  /\ \A t \in Thread : pc[t] = "returned"
  /\ dtor' = "joined"
  /\ UNCHANGED <<tasks, stop, pc, job, owed, accepted, rejected, done>>

-----------------------------------------------------------------------------
Loop(t) == Sleep(t) \/ Take(t) \/ Return(t) \/ Run(t)

Next == \/ \E t \in Thread : Loop(t) \/ SpuriousWakeup(t)
        \/ \E j \in Job : Enqueue(j) \/ EnqueueThrows(j)
        \/ NotifyOne
        \/ SetStop \/ NotifyAll \/ Join

Spec == Init /\ [][Next]_vars

-----------------------------------------------------------------------------
\* The types of the variables.
TypeOK ==
  /\ tasks \in Seq(Job)
  /\ stop \in BOOLEAN
  /\ pc \in [Thread -> {"lock", "asleep", "run", "returned"}]
  /\ job \in [Thread -> Job \cup {NoJob}]
  /\ owed \in Nat
  /\ dtor \in {"alive", "stopped", "notified", "joined"}
  /\ accepted \subseteq Job /\ rejected \subseteq Job /\ done \subseteq Job

\* thread_pool.h:109, the destructor waits for the remaining tasks: nothing
\* that enqueue has accepted is lost, whenever the destructor is called.
Drained == dtor = "joined" => accepted = done

\* No lost wakeup: while a thread sleeps, every queued job has a thread of its
\* own on the way to it, or a notification, although notify_one runs outside the
\* mutex and may find nobody waiting.  No job waits behind a long one while a
\* thread has nothing to do.
NoLostWakeup ==
  Asleep # {} => Len(tasks) <= owed + Cardinality({t \in Thread : pc[t] = "lock"})
===============================================================================
