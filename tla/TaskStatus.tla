------------------------------ MODULE TaskStatus ------------------------------
(***************************************************************************)
(* The life of a task's row in PostgreSQL: what UpdateTaskStatus           *)
(* (src/scheduler/src/scheduler_service_impl.cpp), HandleTaskFailure and   *)
(* RevertTaskToPending (src/scheduler/src/task_repository.cpp), DbBatcher  *)
(* (src/scheduler/src/db_batcher.cpp) and the worker's report do to it     *)
(* when their steps interleave.                                            *)
(*                                                                         *)
(* Dispatch is reduced to what a row can notice: messages <<t, k>> (the    *)
(* k-th message of task t) in the pending list, and dispatch attempts on   *)
(* them, of which the rescue may start a second one.  Only SUCCESS goes    *)
(* through the batcher, so its queue is a number of operations per task.   *)
(***************************************************************************)
EXTENDS Integers, FiniteSets, Functions

CONSTANTS
  Task,         \* rows of the task table
  MaxRetry,     \* max_retry of every row
  MaxAttempts,  \* bound: attempts on a message at a time
  Faults,       \* kinds of faults that may happen
  MaxFaults     \* bound: faults in a behaviour

FaultKinds == {"rpc",    \* RunTask fails after, or without, reaching the worker
               "lost",   \* the worker dies, or its single report does not arrive
               "lua",    \* EvalSha fails; it is only logged
               "tx",     \* the transaction of HandleTaskFailure fails
               "xadd",   \* GetTaskById or XADD fails after the commit
               "flush",  \* FlushBatch throws; its batch is dropped
               "crash"}  \* the scheduler process dies

ASSUME TaskStatusAssumption ==
  /\ MaxRetry \in Nat /\ MaxAttempts \in Nat \ {0} /\ MaxFaults \in Nat
  /\ Faults \subseteq FaultKinds

Message == Task \X (1 .. MaxRetry + 1)

VARIABLES
  overlap,   \* does the rescue find entries that are still being dispatched?
             \* (a question of MIN_IDLE_MS and load, settled in the initial state)
  row,       \* state and retry_count of each row
  adds,      \* how many messages were XADDed for a task
  pel,       \* messages on the stream that are not acknowledged
  attempt,   \* DoDispatch calls per message: waiting, or inside RunTask
  exec,      \* executions of a task under way on workers
  handler,   \* UpdateTaskStatus calls under way, by their next step
  queue,     \* operations in DbBatcher::queue_
  flushing,  \* operations in the batch of DbBatcher::RunLoop
  triggered, \* tasks whose Lua script has run
  spoilt,    \* history: tasks whose report or result has been lost, or overwritten
             \* by a revert, since a worker last took them
  faults     \* how many faults of each kind there have been

vars == <<overlap, row, adds, pel, attempt, exec, handler, queue, flushing, triggered,
          spoilt, faults>>

\* RUNNING, TIMEOUT and CANCELLED exist in task.hpp; nothing ever writes them.
States == {"WAITING_DEPS", "PENDING", "SUCCESS", "FAILED"}
Steps  == {"lua", "add", "fail", "xadd"}
NoCall == [w \in {"queued", "called"} |-> 0]

Init ==
  /\ overlap \in BOOLEAN
  /\ row \in [Task -> [state : {"WAITING_DEPS", "PENDING"}, retry : {0}]]
  /\ adds = [t \in Task |-> 0]
  /\ pel = {}
  /\ attempt = [m \in Message |-> NoCall]
  /\ exec = [t \in Task |-> 0]
  /\ handler = [t \in Task |-> [p \in Steps |-> 0]]
  /\ queue = [t \in Task |-> 0]
  /\ flushing = [t \in Task |-> 0]
  /\ triggered = {} /\ spoilt = {}
  /\ faults = [k \in FaultKinds |-> 0]

\* A fault of kind k happens now; every other step leaves the count alone.
Fault(k) == /\ k \in Faults
            /\ FoldFunction(+, 0, faults) < MaxFaults
            /\ faults' = [faults EXCEPT ![k] = @ + 1]
Fine     == faults' = faults

\* What t was to get is lost for it, or nothing is.
Spoils(t)  == spoilt' = spoilt \cup {t}
SpoilsNone == spoilt' = spoilt

-----------------------------------------------------------------------------
(***************************************************************************)
(* Variants with a bug, used to test the properties.                       *)
(***************************************************************************)
BugKeepMessage(m)  == pel' = pel \ {m}
BugCallOkNoXAck(m) == attempt[m]["called"] > 0
                      /\ attempt' = [attempt EXCEPT ![m]["called"] = @ - 1]
                      /\ UNCHANGED <<overlap, row, adds, pel, exec, handler, queue, flushing,
                                     triggered, spoilt, faults>>
BugRetryKeepsCount(t) == [state |-> "PENDING", retry |-> row[t].retry]

-----------------------------------------------------------------------------
(***************************************************************************)
(* The stream and the dispatch pool.                                       *)
(***************************************************************************)
\* XADD of the next message of t.
XAdd(t) == /\ adds' = [adds EXCEPT ![t] = @ + 1]
           /\ pel' = pel \cup {<<t, adds[t] + 1>>}

\* The submission or the Lua script of the last parent: the first message.
\* The row keeps its state: nobody moves WAITING_DEPS to PENDING.
Release(t) ==
  /\ adds[t] = 0
  /\ XAdd(t)
  /\ UNCHANGED <<overlap, row, attempt, exec, handler, queue, flushing, triggered>>
  /\ Fine /\ SpoilsNone

Attempts(m) == attempt[m]["queued"] + attempt[m]["called"]

\* RunLoop or the rescue queues DoDispatch for a pending message.
StartAttempt(m) ==
  /\ m \in pel
  /\ Attempts(m) < (IF overlap THEN MaxAttempts ELSE 1)
  /\ attempt' = [attempt EXCEPT ![m]["queued"] = @ + 1]
  /\ UNCHANGED <<overlap, row, adds, pel, exec, handler, queue, flushing, triggered>>
  /\ Fine /\ SpoilsNone

\* RunTask reaches the worker, which starts the task before it answers.
Accept(m) ==
  /\ attempt[m]["queued"] > 0
  /\ attempt' = [attempt EXCEPT ![m]["queued"] = @ - 1, ![m]["called"] = @ + 1]
  /\ exec' = [exec EXCEPT ![m[1]] = @ + 1]
  /\ spoilt' = spoilt \ {m[1]}
  /\ UNCHANGED <<overlap, row, adds, pel, handler, queue, flushing, triggered>>
  /\ Fine

\* RunTask returns OK: XACK.
CallOk(m) ==
  /\ attempt[m]["called"] > 0
  /\ attempt' = [attempt EXCEPT ![m]["called"] = @ - 1]
  /\ pel' = pel \ {m}
  /\ UNCHANGED <<overlap, row, adds, exec, handler, queue, flushing, triggered>>
  /\ Fine /\ SpoilsNone

\* A failed dispatch does not acknowledge.
KeepMessage(m) == pel' = pel

\* Has another attempt on m, which nobody counts any more as to be dispatched,
\* got it to a worker?
TakenByAnother(m) == m \notin pel \/ attempt'[m]["called"] > 0

\* RevertTaskToPending, whatever the state of the row is by now.
Revert(m) ==
  /\ row' = [row EXCEPT ![m[1]].state = "PENDING"]
  /\ IF TakenByAnother(m) THEN Spoils(m[1]) ELSE SpoilsNone

\* RunTask fails, before or after the worker took the task.  The revert may fail
\* as well, and nobody looks at what it returns.
CallFails(m) ==
  /\ Fault("rpc")
  /\ \E w \in {"queued", "called"} :
       /\ attempt[m][w] > 0
       /\ attempt' = [attempt EXCEPT ![m][w] = @ - 1]
  /\ \/ Revert(m)
     \/ UNCHANGED row /\ SpoilsNone
  /\ KeepMessage(m)
  /\ UNCHANGED <<overlap, adds, exec, handler, queue, flushing, triggered>>

-----------------------------------------------------------------------------
(***************************************************************************)
(* The worker reports once; then the two branches of UpdateTaskStatus.     *)
(***************************************************************************)
FirstStep(ok) == IF ok THEN "lua" ELSE "fail"

Report(t, ok) ==
  /\ exec[t] > 0
  /\ exec' = [exec EXCEPT ![t] = @ - 1]
  /\ handler' = [handler EXCEPT ![t][FirstStep(ok)] = @ + 1]
  /\ UNCHANGED <<overlap, row, adds, pel, attempt, queue, flushing, triggered>>
  /\ Fine /\ SpoilsNone

ReportLost(t) ==
  /\ exec[t] > 0
  /\ Fault("lost") /\ Spoils(t)
  /\ exec' = [exec EXCEPT ![t] = @ - 1]
  /\ UNCHANGED <<overlap, row, adds, pel, attempt, handler, queue, flushing, triggered>>

\* SUCCESS, first the script; the handler goes on even if it failed.
AfterLua(t) == handler' = [handler EXCEPT ![t]["lua"] = @ - 1, ![t]["add"] = @ + 1]

RunLua(t) ==
  /\ handler[t]["lua"] > 0
  /\ AfterLua(t)
  /\ \/ triggered' = triggered \cup {t} /\ Fine
     \/ UNCHANGED triggered /\ Fault("lua")
  /\ SpoilsNone
  /\ UNCHANGED <<overlap, row, adds, pel, attempt, exec, queue, flushing>>

\* SUCCESS, then AddStatusUpdate.
AddStatusUpdate(t) ==
  /\ handler[t]["add"] > 0
  /\ handler' = [handler EXCEPT ![t]["add"] = @ - 1]
  /\ queue' = [queue EXCEPT ![t] = @ + 1]
  /\ UNCHANGED <<overlap, row, adds, pel, attempt, exec, flushing, triggered>>
  /\ Fine /\ SpoilsNone

\* FAILED: HandleTaskFailure, one transaction under the row's lock.
MayRetry(t) == row[t].retry < MaxRetry
Retried(t)  == [state |-> "PENDING", retry |-> row[t].retry + 1]
GivenUp(t)  == [row[t] EXCEPT !.state = "FAILED"]

HandleTaskFailure(t) ==
  /\ handler[t]["fail"] > 0
  /\ \/ /\ MayRetry(t)
        /\ row' = [row EXCEPT ![t] = Retried(t)]
        /\ handler' = [handler EXCEPT ![t]["fail"] = @ - 1, ![t]["xadd"] = @ + 1]
        /\ Fine /\ SpoilsNone
     \/ /\ ~ MayRetry(t)
        /\ row' = [row EXCEPT ![t] = GivenUp(t)]
        /\ handler' = [handler EXCEPT ![t]["fail"] = @ - 1]
        /\ Fine /\ SpoilsNone
     \/ /\ Fault("tx") /\ Spoils(t)
        /\ handler' = [handler EXCEPT ![t]["fail"] = @ - 1]
        /\ UNCHANGED row
  /\ UNCHANGED <<overlap, adds, pel, attempt, exec, queue, flushing, triggered>>

\* After the commit: GetTaskById and XADD, whose result is ignored.
XAddRetry(t) ==
  /\ handler[t]["xadd"] > 0
  /\ handler' = [handler EXCEPT ![t]["xadd"] = @ - 1]
  /\ \/ XAdd(t) /\ Fine /\ SpoilsNone
     \/ UNCHANGED <<adds, pel>> /\ Fault("xadd") /\ Spoils(t)
  /\ UNCHANGED <<overlap, row, attempt, exec, queue, flushing, triggered>>

-----------------------------------------------------------------------------
(***************************************************************************)
(* DbBatcher: move the queue into a batch, then write the batch.           *)
(***************************************************************************)
TakeBatch ==
  /\ flushing = [t \in Task |-> 0]
  /\ \E t \in Task : queue[t] > 0
  /\ flushing' = queue
  /\ queue' = [t \in Task |-> 0]
  /\ UNCHANGED <<overlap, row, adds, pel, attempt, exec, handler, triggered>>
  /\ Fine /\ SpoilsNone

InBatch(t) == flushing[t] > 0

FlushBatch ==
  /\ \E t \in Task : flushing[t] > 0
  /\ flushing' = [t \in Task |-> 0]
  /\ \/ /\ row' = [t \in Task |-> IF InBatch(t) THEN [row[t] EXCEPT !.state = "SUCCESS"]
                                                ELSE row[t]]
        /\ Fine /\ SpoilsNone
     \/ UNCHANGED row /\ Fault("flush") /\ spoilt' = spoilt \cup {t \in Task : InBatch(t)}
  /\ UNCHANGED <<overlap, adds, pel, attempt, exec, handler, queue, triggered>>

\* The process dies with its pool, its handlers and its queue.
InMemory(t) == queue[t] + flushing[t] > 0 \/ \E p \in Steps : handler[t][p] > 0

Crash ==
  /\ Fault("crash")
  /\ spoilt' = spoilt \cup {t \in Task : InMemory(t)}
  /\ attempt' = [m \in Message |-> NoCall]
  /\ handler' = [t \in Task |-> [p \in Steps |-> 0]]
  /\ queue' = [t \in Task |-> 0]
  /\ flushing' = [t \in Task |-> 0]
  /\ UNCHANGED <<overlap, row, adds, pel, exec, triggered>>

-----------------------------------------------------------------------------
Dispatching(m) == StartAttempt(m) \/ Accept(m) \/ CallOk(m)
Handling(t)    == RunLua(t) \/ AddStatusUpdate(t) \/ HandleTaskFailure(t) \/ XAddRetry(t)
Batcher        == TakeBatch \/ FlushBatch

Next ==
  \/ \E m \in Message : Dispatching(m) \/ CallFails(m)
  \/ \E t \in Task : \/ Release(t) \/ Handling(t) \/ ReportLost(t)
                     \/ \E ok \in BOOLEAN : Report(t, ok)
  \/ Batcher
  \/ Crash

Spec == Init /\ [][Next]_vars

-----------------------------------------------------------------------------
(***************************************************************************)
(* Properties                                                              *)
(***************************************************************************)
\* The types of the variables.
TypeOK ==
  /\ row \in [Task -> [state : States, retry : 0 .. MaxRetry]]
  /\ adds \in [Task -> 0 .. MaxRetry + 1]
  /\ pel \subseteq Message
  /\ attempt \in [Message -> [{"queued", "called"} -> 0 .. MaxAttempts]]
  /\ exec \in [Task -> Nat]
  /\ handler \in [Task -> [Steps -> Nat]]
  /\ queue \in [Task -> Nat] /\ flushing \in [Task -> Nat]
  /\ triggered \subseteq Task /\ spoilt \subseteq Task
  /\ faults \in [FaultKinds -> Nat] /\ overlap \in BOOLEAN

\* The retry budget covers the stream: counting the XADDs that are still to
\* come, a task never has more messages than its first one and one per counted
\* retry, whatever is duplicated, lost or killed.
MessagesWithinBudget ==
  /\ TypeOK
  /\ \A t \in Task : adds[t] + handler[t]["xadd"] <= 1 + row[t].retry

\* As long as a message is dispatched once, a task that is FAILED has not
\* triggered its downstream tasks, whatever reports, commits, XADDs or batches
\* are lost (HandleTaskFailure against the SUCCESS branch of UpdateTaskStatus).
FailedTriggersNothing ==
  ~overlap /\ faults["rpc"] = 0 /\ faults["crash"] = 0 =>
    \A t \in Task : row[t].state = "FAILED" => t \notin triggered

\* Something is still going to happen to t.
InProgress(t) ==
  \/ adds[t] = 0
  \/ \E m \in pel : m[1] = t
  \/ exec[t] + queue[t] + flushing[t] > 0
  \/ \E p \in Steps : handler[t][p] > 0

\* A task can be stranded in these ways and in no other, whatever fails, is
\* delivered twice, overlaps or dies: the report of its last execution, what the
\* handler was to do with it or the batch with its result is lost, or the row is
\* reverted by a dispatch that fails after another attempt has got the same
\* message to a worker.  Any other row that is not SUCCESS or FAILED has a
\* message, an execution, a report or a batch that will move it (DoDispatch
\* keeps the message when it reverts the row).
NotStranded ==
  \A t \in Task : row[t].state \in {"SUCCESS", "FAILED"} \/ InProgress(t) \/ t \in spoilt
===============================================================================
