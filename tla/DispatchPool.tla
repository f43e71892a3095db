----------------------------- MODULE DispatchPool -----------------------------
(***************************************************************************)
(* The two pools of the scheduler together.  A job of the dispatch pool is *)
(* DoDispatch (src/scheduler/src/scheduler_loop.cpp): when its call fails  *)
(* it reverts the task's row, and so a pool thread waits for a connection  *)
(* of the DatabasePool in the middle of a job, next to the handlers of the *)
(* gRPC server, the batcher and the patrol.  The destructor of the pool    *)
(* waits for all its threads, those that wait for a connection included.   *)
(***************************************************************************)
EXTENDS ThreadPool

CONSTANTS
  Other,     \* threads of the scheduler outside the pool that use the database
  Size, MaxCalls, MaxOutages  \* as in DatabasePool

ASSUME DispatchPoolAssumption ==
  /\ IsFiniteSet(Other) /\ Other \cap Thread = {}
  /\ Size \in Nat \ {0} /\ MaxCalls \in Nat /\ MaxOutages \in Nat

VARIABLES pool, at, conn, lost, dbUp, calls, outages  \* at is DatabasePool's pc

Db == INSTANCE DatabasePool WITH Caller <- Thread \cup Other, pc <- at

dbVars   == <<pool, at, conn, lost, dbUp, calls, outages>>
poolVars == <<vars, dbVars>>

PoolInit == Init /\ Db!Init

-----------------------------------------------------------------------------
(* A thread of the pool. *)

\* DoDispatch has failed: RevertTaskToPending.
RevertTask(t) == pc[t] = "run" /\ Db!Call(t) /\ UNCHANGED vars

\* A job ends when it is not, or no longer, in ExecuteTx.
EndJob(t) == Run(t) /\ at[t] = "idle" /\ UNCHANGED dbVars

Wait(t) == (Sleep(t) \/ Take(t) \/ Return(t)) /\ UNCHANGED dbVars

UseDb(c) == Db!ExecuteTx(c) /\ UNCHANGED vars

DispatchThread(t) == Wait(t) \/ EndJob(t) \/ UseDb(t)

-----------------------------------------------------------------------------
(* Everything else that happens to the two pools. *)

CallFromOutside(c) == c \in Other /\ Db!Call(c) /\ UNCHANGED vars

WakeForNothing == \/ (\E t \in Thread : SpuriousWakeup(t)) /\ UNCHANGED dbVars
                  \/ (\E c \in Thread \cup Other : Db!SpuriousWakeup(c)) /\ UNCHANGED vars

EnqueueDispatch == (\E j \in Job : Enqueue(j) \/ EnqueueThrows(j)) /\ UNCHANGED dbVars

Notify == NotifyOne /\ UNCHANGED dbVars

Outage  == Db!DbGoesAway /\ UNCHANGED vars
Restart == Db!DbComesBack /\ UNCHANGED vars

BeginDestructor  == SetStop /\ UNCHANGED dbVars
NotifyStopped    == NotifyAll /\ UNCHANGED dbVars
FinishDestructor == Join /\ UNCHANGED dbVars

-----------------------------------------------------------------------------
PoolNext == \/ \E t \in Thread : DispatchThread(t) \/ RevertTask(t)
            \/ \E c \in Other : CallFromOutside(c) \/ UseDb(c)
            \/ EnqueueDispatch \/ Notify \/ WakeForNothing
            \/ BeginDestructor \/ NotifyStopped \/ FinishDestructor
            \/ Outage \/ Restart

PoolSpec == PoolInit /\ [][PoolNext]_poolVars

\* Threads are scheduled, RPCs have a deadline, statements end, the database is
\* restarted, and a call of enqueue or of the destructor runs to its end.
\* Nobody has to make one.
FairPoolSpec == /\ PoolSpec
                /\ \A t \in Thread : WF_poolVars(DispatchThread(t))
                /\ \A c \in Other : WF_poolVars(UseDb(c))
                /\ WF_poolVars(Notify) /\ WF_poolVars(NotifyStopped)
                /\ WF_poolVars(FinishDestructor) /\ WF_poolVars(Restart)

-----------------------------------------------------------------------------
\* The types of the variables of both pools.
PoolTypeOK == TypeOK /\ Db!TypeOK

\* Connections are conserved, and a pool thread has one only inside a job: a
\* thread that sleeps, waits for a job or has returned holds no connection.
Conserved == /\ PoolTypeOK
             /\ Db!Conserved
             /\ \A t \in Thread : at[t] # "idle" => pc[t] = "run"

\* Neither condition variable loses a wakeup (thread_pool.h:174 and
\* database_pool.h:100, :163), although a thread may sleep in either.
NoWakeupLost == NoLostWakeup /\ Db!NoLostWakeup

\* As long as one connection is left, every call of ExecuteTx returns, and so
\* does a destructor that was called while jobs wait for connections.  (Once
\* none is, both wait forever, even when the database is back.)
EveryoneReturns ==
  /\ \A c \in Thread \cup Other : at[c] = "lock" ~> at[c] = "idle" \/ lost = Size
  /\ stop ~> dtor = "joined" \/ lost = Size
===============================================================================
