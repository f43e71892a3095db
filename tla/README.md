# A TLA+ development of the distributed task system

This directory models the concurrent core of the distributed task system in
`src/` (C++ servers, a Go command-line tool, Redis and PostgreSQL): TLA+
modules translated from the code, TLC configurations that check them on small
instances, and TLAPS proofs that hold for every instance.  Paths below are
relative to `src/src/` unless they start with `src/`; line numbers are those of
the source.

- [1 The system](#1-the-system)
- [2 Modules and how they correspond to the code](#2-modules-and-how-they-correspond-to-the-code)
- [3 The runs](#3-the-runs)
- [4 Fairness](#4-fairness)
- [5 Proofs](#5-proofs)
- [6 Divergences between the code and what is said of it](#6-divergences-between-the-code-and-what-is-said-of-it)
- [7 What is not modelled](#7-what-is-not-modelled)
- [8 Plan](#8-plan)

## 1 The system

A client submits a DAG of tasks.  The API server stores it in PostgreSQL and
puts it into Redis; a task without open dependencies becomes an entry of the
Redis stream `dts:stream:tasks`.  Schedulers read the stream as one consumer
group and send each task to a worker by gRPC.  The worker runs it and reports
the outcome to the scheduler, which runs a Lua script in Redis on SUCCESS (the
script releases the children whose last parent this was) and a retry
transaction in PostgreSQL on FAILED.

    client --SubmitDag--> API server --INSERT--> PostgreSQL <--UPDATE-- DbBatcher
                              |                                            ^
                              +--pipeline--> Redis --XREADGROUP--> scheduler <--report-- worker
                                               ^                   |   |  ---RunTask-->
                                               +------Lua script---+   +--heartbeats------+

### Components, their state and their operations

| Component | Code | State | Operations | Interaction |
|---|---|---|---|---|
| DAG engine | `api-server/src/task_submitter.cpp:302-387`, `common/include/redis/scripts/complete_task.hpp` | Redis keys: a child set per task, one hash of dependency counts per job, metadata per task, the stream, an error stream | the commands of the submitting pipeline; the completion script; expiry of keys | pipeline (API server) and script (scheduler) interleave in Redis |
| TaskSubmitter | `api-server/src/task_submitter.cpp` | queue, eight flusher threads with a batch each, `running_` | submit, refuse, swap, transaction, pipeline, shutdown | handlers and flushers share the queue; PostgreSQL first, Redis second |
| Dispatch loop | `scheduler/src/scheduler_loop.cpp` | loop thread, dispatch pool, `inflight_tasks_`; in Redis the consumer group and its pending entries list | read, rescue (XPENDING, XCLAIM), skip, enqueue, RunTask, XACK, give up | all schedulers share the group; pool threads run beside the loop |
| Task status | `scheduler/src/scheduler_service_impl.cpp`, `task_repository.cpp` | a row per task: state, retry count | SUCCESS: script, then batcher; FAILED: transaction, then XADD; revert after a failed dispatch | handlers of several reports, the batcher and dispatch threads write one row |
| DbBatcher | `scheduler/src/db_batcher.cpp` | queue, local batch, `stop_flag_` | add, take a batch, UPDATE, Stop | handlers add, one thread writes |
| Worker registry | `scheduler/src/worker_manager.cpp`, `main.cpp:48-77`, `worker/src/worker_node.cpp` | map of workers with last heartbeat and load; the heartbeat loop of each worker | register, heartbeat, prune, list, prebook | calls that may get lost, restarts of either side |
| Worker execution | `worker/src/worker_service.cpp`, `worker_node.cpp` | tasks accepted and not finished | accept, execute, report once | reports go to the task status |
| ThreadPool | `common/include/thread_pool.h` | FIFO queue, `stop_`, one condition variable | enqueue, the thread loop, destructor | dispatch pool of the scheduler, execution pool of the worker |
| DatabasePool | `common/include/database_pool.h` | queue of connections, one condition variable | acquire, transaction, release with reconnect | used by every writer of PostgreSQL |
| Asynchronous gRPC server | `api-server/include/api_server.hpp`, `src/api_server.cpp` | call contexts (heap objects that are their own tags), completion queues with a thread each | wait, handle, finish, renew, delete; Shutdown | gRPC hands tags to the threads; the handlers call TaskSubmitter and JobQueryHandler |
| Job query | `api-server/src/job_query_handler.cpp` | none | ids of a job's tasks, their rows, aggregation | reads the rows that TaskSubmitter, DbBatcher and TaskRepository write |
| DAG validation | `client/src/dag_builder.cpp`, `dts-cli/pkg/dag/validator.go` | local to a call | depth-first search; Kahn's algorithm | before a graph is sent; the server does not check it |
| Web gateway and gRPC client | `api-web/src/api_web.cpp`, `main.cpp`, `client/src/grpc_client.cpp`, `common/include/coroutines/dts_coroutine.h` | HTTP threads with a future each, coroutine frames, the client's queue and thread | submit, suspend, resume, answer, stop | calls the API server; main, the web server and every frame own the client |

### What is hard, and what makes each part correct

- *DAG engine.*  A Redis pipeline is no transaction: the script of a root that
  has finished runs between any two commands of it, and a report may come twice
  or after the keys have expired.  Correct: a task is triggered at most once and
  only after all its parents; the counts are exact; a trigger that is lost
  leaves an entry in the error stream.
- *Dispatch loop.*  Nine places change `inflight_tasks_`; entries are read,
  claimed, queued, sent and acknowledged by different threads and processes, all
  of which may die.  Correct: the counter is exact, the pool is bounded, no
  delivered entry disappears unacknowledged, a rescue makes at most one more
  copy per idle period, and the stream drains.
- *Task status.*  Two copies of a task report in either order; SUCCESS reaches
  the row up to a second later than FAILED; a late failure of RunTask reverts
  the row.  Correct: the retry budget bounds the messages, a task that
  FAILED has not triggered its children, and a row is left without anything
  that moves it only if its last report or result was lost or reverted.
- *TaskSubmitter.*  Flushers race for the queue; COMMIT may be in doubt; the
  pipeline may be cut.  Correct: each request is in one place, Redis never runs
  ahead of PostgreSQL, a repeated graph is published once.
- *DbBatcher and job query.*  Batches that fail, work left behind at Stop(), a
  query that reads in two transactions while rows change.  Correct: results are
  written in their order, an answer never says more than the tasks reported, and
  a client that polls learns that its job is done, unless a result is lost or
  reverted.
- *The two pools.*  Lost wakeups, leaked connections, a destructor that waits for
  threads that wait for connections.  Correct: accepted jobs run, connections
  are conserved, every call returns as long as there is a connection.
- *Asynchronous server.*  A context deletes itself, in the right one of two
  states, while Shutdown fails others.  Correct: each is deleted once and not
  before gRPC is done with it, and the server never loses capacity.
- *Web gateway.*  Three kinds of threads share a call; deadlines, refusals and a
  shutdown of either side meet it at any point.  Correct: every request gets an
  answer, the answer is true, and both processes end.
- *DAG validation.*  Correct: it refuses exactly the cyclic graphs, whatever the
  order of its maps.
- *Worker registry.*  Lost calls, restarts, a patrol that races with heartbeats.
  Correct: it heals within a round, and forgets the dead.

Every hazard, at its line and with the properties about it, is listed in
`PROJECT.json` under `hazards`.

## 2 Modules and how they correspond to the code

Every module describes one component; an action is one critical section, one
Redis command or one RPC, with everything the code does in it.  Where threads
share a mutex, the section under the mutex is one action; where they do not,
each step is an action of its own.  Definitions keep the names of the source;
`PROJECT.json` gives the lines of each under `map`.  Operators named `Bug...`
are variants of a definition with a plausible bug; no specification uses them,
they are there to test that the properties fail when the code is wrong.

**DagSpec** — the promise of the engine, without Redis: a set of released tasks
and a set of done ones; roots are released in any order, and finishing a task
releases tasks all of whose parents are done.

**DagEngine** — one job in Redis.  `SendEdge` is the SADD of
`task_submitter.cpp:329`, `SetMeta`, `HSetPending` and `XAddRoot` are the
commands sent per task at :344-380, `CompleteTask` is the whole Lua script, and
`PipelineBreaks`, `ExpireChildren`, `ExpireMeta` and `ExpireDeps` are what
Redis and the network may do.  A missing hash field reads as 0, as HINCRBY does.
`SendEdge` and `SetMeta` may take edges and tasks in any order: the request
gives the order, and every request is possible.  `expired` is a history variable
that says whether a key has run out, for the properties that need the keys.

**Dispatch** — SchedulerLoop of any number of schedulers, the consumer group,
and as much of a worker as decides what an acknowledgement means.  The loop
thread is a program counter (`pc`): at the top, between XPENDING and XCLAIM,
processing a rescued batch, looking for workers, in XREADGROUP, processing a
read batch.  `jobs` counts the calls of DoDispatch in the pool; the order in
which pool threads take them is left open.  `accepted`, `skipped`, `reported`
and `idled` are history variables.  The choice of a worker (round robin over a
sorted list) is any worker of the list.

**TaskStatus** — the row of a task, between UpdateTaskStatus, HandleTaskFailure,
RevertTaskToPending, the batcher and the worker's report.  A handler is a count
of calls per next step; dispatch is reduced to attempts on a pending message.
The rigid variable `overlap` says whether the rescue finds entries that are
still being dispatched, a question of load.  `CallFails` is a dispatch that
fails, with the revert of the row (`Revert`), which may fail as well.  `spoilt`
is a history variable, set by every step that loses or overwrites what a task
was to get, and taken back when a worker takes the task again.

**TaskSubmitter** — queue, flushers, transaction, pipeline, shutdown.  When the
pipeline fails, the log has the whole batch as failed, though the commands of
any of its requests may have reached Redis (`partial`).  `Rejects` says which
batches the schema in `src/init.sql` refuses; a self-loop is not among them.

**DbBatcher**, **ThreadPool**, **DatabasePool** — the three condition-variable
components, one action per critical section, notifications outside the mutex as
actions of their own where the code has them there, and spurious wakeups.

**DispatchPool** — ThreadPool and DatabasePool together, as in the scheduler: a
job is DoDispatch, and may revert a row (`RevertTask`), so that a pool thread
waits on the condition variable of the other pool in the middle of a job, next
to the threads outside the pool (`Other`).  DatabasePool is instantiated with
those threads as its callers.

**JobQuery** — a client that polls one job, in composition with DbBatcher (which
it extends), the commit, the failure reports and the reverts of dispatches that
fail (`RevertTaskToPending`).  `FindTasks` and
`FetchTaskDetails` are the two transactions of a query, `JobState` is the
aggregation.  The lookups in Redis are not in the model: nothing in the
repository writes `dts:job:tasks` or `dts:task:runtime`, so they always miss.
Nothing writes the state RUNNING either.  `columns` is the schema of the table:
`JobInit` has that of `src/init.sql` and the one that the query expects.
`undone` is a history variable: the tasks whose written SUCCESS was reverted
and has not been written again.

**DagClient** — who sends a graph: DagBuilder, with its depth-first search one
turn of a loop at a time (`StartSearch`, `Descend`, `SkipVisited`, `FindCycle`,
`ReturnFromSearch`), the command line tool, with Kahn's algorithm one task at a
time (`Pop`), or anybody else.  The searches start from the keys of a map and
follow children in request order; the model takes any order, which includes
both.  An accepted graph goes on into DagEngine, which DagClient extends.

**AsyncServer** — contexts at addresses, of which `new` takes the lowest free
one, so that a tag that comes back too late would meet another context.  An
event is a tag and its `ok`; `Delete`, `BeginHandler`, `Handle` and `Renew` are
the parts of Proceed, and gRPC may do anything between them.  What gRPC does is
external and modelled from how the code uses it: it matches calls with
registered contexts, sends responses, fails what is registered at Shutdown, and
aborts the process on an operation on a queue that is shut down and drained
(`Takes`, `HandleTooLate`, `RenewTooLate`).

**WebGateway** — the gateway's HTTP threads, coroutines, completion-queue thread
and main, in composition with AsyncServer, which it extends.  `Owners` are the
references to the shared client; `DestroyFrame` drops the one of a coroutine
frame, in the thread of the queue, and if it was the last the destructor joins
its own thread and the process terminates (`aborted`).

**WorkerRegistry** — WorkerManager and the patrol against the heartbeat loops.
Time is counted in rounds of the heartbeat loop.

`MC...` modules give the constants of an instance; `...Proofs` modules hold the
theorems and proofs about a component (section 5): DagEngineProofs about
DagEngine and DagClient, DispatchPoolProofs about ThreadPool, DatabasePool and
their composition, JobQueryProofs about DbBatcher and JobQuery, WebGatewayProofs
about AsyncServer and WebGateway.

## 3 The runs

| Run | What it shows | Bounds, and why they are enough |
|---|---|---|
| `dag_engine` | Both clients' checks refuse exactly the cyclic graphs; at most one trigger per task, parents first, exact counts, no silent stall, an acyclic job runs out, DagSpec is implemented | The checks run on every graph of three tasks, loops included, next to a fourth task, on a cycle that only a path leads to, and on four shapes of four tasks.  The shapes go on into the engine: a diamond, a chain with a shortcut, two joins of the same roots, and cycles with a self-loop.  They have what matters: a task with several parents at different depths, several children of one parent, and requests that can never run out.  The pipeline may break and keys may expire.  The proofs (section 5) cover every graph. |
| `dag_lost_trigger` | *Violated:* a child is left untriggered when its root finishes too early | the same shapes, no faults |
| `dispatch_two` | Exact counter, bounded pool, nothing dropped, one copy per idle period | Two schedulers, one worker, two messages, batches of two on reading and one on rescue, a limit of 0 (so that a second batch meets the limit), one message that may be malformed, one fault of any of eight kinds.  Two entries are needed for a batch that is half processed, two schedulers for a claim that comes second. |
| `dispatch_drains` | The stream drains, every delivered task is reported | One scheduler that may die, two messages, two faults of the kinds the code recovers from: a failing RunTask, a lost reply of Redis, an exception in the loop thread, the death of the scheduler.  Two faults hit a recovery that is itself disturbed. |
| `dispatch_worker_crash` | *Violated:* a worker's death loses an acknowledged task | one message, one fault |
| `task_status` | Retry budget, no trigger by a FAILED task dispatched once, the only ways to strand a row | One row (rows do not interact), one retry, two attempts at a time, two faults of seven kinds.  Two attempts are the smallest overlap, and two faults spoil a task twice, or revert a row that another fault has left behind. |
| `dispatch_pool` | Accepted jobs run before the destructor returns, connections are conserved, no lost wakeup in either pool, everyone returns while a connection is left | Two pool threads with two jobs and one thread outside the pool for two connections, one call each, one outage: three callers for two connections, and a call that finds both lost |
| `job_query` | Results in order, nothing left behind, Stop returns, answers are true, a client learns that its job is done | Two tasks, three results in batches of two (a full batch and a rest), one failing transaction, any number of failure reports and of reverts, one polling client, both schemas |
| `task_submitter` | One place per request, commit before publish, one publication per key, progress | Two flushers, a queue of two, four requests of which one repeats a key and one is invalid, one fault |
| `submit_repeat` | *Violated:* a repeated request is not harmless | two requests with one key |
| `worker_registry` | A live worker is back after one undisturbed round, a dead one is forgotten | Two workers, a timeout of two rounds, two prebooked tasks, three faults |
| `rpc` | Contexts are deleted once and in time, capacity is kept, HTTP answers are true, every request is answered, both processes stop | One web request and one submission from elsewhere compete for the one context of SubmitDag; a second method, of which the context waits until the shutdown; one queue.  A call that is given up while the other one waits, a renewal that meets the shutdown, and an address that is reused all happen. |

`MaxFaults`, `MaxFailures`, `NMsg`, `MaxOps`, `MaxCalls`, `MaxOutages`,
`MaxAttempts`, `MaxLoad` and `IdleCap` are the bounds that make an instance
finite; each is a guard of the action it bounds.  `Submitted` bounds DagClient:
of the graphs that a check accepts, these go on into the engine.  Deadlock is checked where the component never
stops (the dispatch loop, the registry) and not where it ends: a job that has
run out, a pool whose destructor has returned, processes that have stopped, a
bound on calls that is used up.

The type invariant of a module is a run's property of its own or the first
conjunct of one: of `InflightExact`, `MessagesWithinBudget`, `InOnePlace`,
`InOrder` (DbBatcher) and `Conserved` (DispatchPool, for both pools).

Some properties name the faults under which they hold, because the code
promises no more: `CounterExact` and `NoSilentStall` while no key has expired,
`FailedTriggersNothing` while a message is dispatched once and no scheduler
dies, `NotStranded` for a task of which nothing was spoilt since a worker last
took it, `SeenInTheEnd` for a job none of whose tasks failed, whose results the
database took and of which none stays reverted, `EveryoneReturns` while a
connection is left, `EveryRequestAnswered` and `BothStop` up to an abort of the
process.  The instances contain the other faults as well, so the properties are
checked in states next to them.

## 4 Fairness

- Threads are scheduled: weak fairness on the loop of every thread of a pool,
  flusher, batcher, dispatch loop and heartbeat loop.
- Waits end: every `wait_for` has a timeout (200 ms, 1 s, 30 s), RunTask and
  UpdateTaskStatus have deadlines, XREADGROUP blocks for at most 2 s.  This is
  what makes weak fairness on the steps after a wait right.  The waits of
  ThreadPool and DatabasePool have no timeout; there, a sleeper moves only when
  a notification (or a spurious wakeup, which is not assumed) wakes it.
- Calls end: a call of the web client has a deadline of 5 s, and gRPC completes
  what it has begun (a match, a response, a refusal), so weak fairness on those
  steps of WebGateway; a handler returns; `main` goes on after `listen`.
- The client of JobQuery polls: its queries are weakly fair, their failures are
  bounded by `MaxFailures`.
- Processes come back: `docker-compose.yml` restarts every service always,
  so starting a scheduler or a worker is weakly fair in Dispatch, and the
  database comes back in DispatchPool.
- Nothing else is assumed of clients, nor of new messages, of faults, or of the
  beginning of a shutdown.
- DagEngine assumes that a task on the stream is eventually reported SUCCESS;
  when that is so is the subject of Dispatch and TaskStatus.

## 5 Proofs

Every invariant and every action property that a run checks is also a theorem,
for every value of the constants.  The proofs of a component are in a module of
their own:

| Module | Theorem | States |
|---|---|---|
| DagEngineProofs | `TypeCorrect`, `TriggeredAtMostOnce`, `TriggeredAfterParents` | `TypeOK`, `AtMostOnce`, `ParentsFirst` |
| | `CountersAreExact`, `NoTriggerIsLostSilently` | `CounterExact`, `NoSilentStall` |
| | `EngineImplementsDagSpec` | the engine implements DagSpec |
| | `ValidatorsAreExact`, `ClientRunsEngine` | `VerdictExact`; a client's job is a behaviour of the engine |
| DispatchProofs | `InflightStaysExact`, `PoolStaysBounded`, `OneCopyEachIdlePeriod`, `NothingDropped` | `InflightExact`, `PoolBounded`, `OneCopyPerIdlePeriod`, `NoMessageDropped` |
| TaskStatusProofs | `MessagesStayWithinBudget`, `FailureTriggersNothing`, `NoTaskStranded` | `MessagesWithinBudget`, `FailedTriggersNothing`, `NotStranded` |
| TaskSubmitterProofs | `RequestsInOnePlace`, `CommittedFirst`, `OnePerKey` | `InOnePlace`, `CommitThenPublish`, `PublishedOnce` |
| DispatchPoolProofs | `ThreadPoolCorrect` | `Drained` and `NoLostWakeup` of ThreadPool |
| | `BothPoolsImplemented` | DispatchPool implements ThreadPool and DatabasePool |
| | `ConnectionsConserved`, `NoWakeupIsLost`, `DispatchPoolDrains` | `Conserved`, `NoWakeupLost`, `Drained` of DispatchPool |
| JobQueryProofs | `BatcherInOrder`, `BatcherDrained`, `BatcherNewerWins` | `InOrder`, `Drained`, `NewerBatchesWin` of DbBatcher |
| | `AnswersAreTrue`, `BatcherInTheSystem` | `AnswerTrue`; the three of DbBatcher hold in JobQuery |
| WorkerRegistryProofs | `RegistryTypes`, `HealsAfterOneRound` | `TypeOK`, `HealedAfterOneRound` |
| WebGatewayProofs | `ContextsLiveLongEnough`, `CapacityIsKept`, `AnswersAreTrue`, `NoEventIsLeft` | `TagsLive`, `CapacityKept`, `AnswersTrue`, `NoEventLeft` |

The assumptions are the named ASSUMEs of the modules, which TLC evaluates in
every run: finite sets of tasks, threads, flushers, workers and calls, bounds
that are natural numbers, sizes of batches and pools that are positive, a NoJob
that is no job, web requests among the calls, whose names are not those of main
and the web server.  One theorem has a hypothesis of its own:
`InflightStaysExact` supposes that `"throw"` is not among the faults, for an
exception in the middle of a batch does leave the counter too large (section 6,
item 6); without the hypothesis the proof still gives that the counter is never
too small, which is all that `PoolStaysBounded` needs.

Each module has one inductive invariant, `IInv` (DagEngineProofs has `Exact` and
`Searching` besides, DispatchPoolProofs one for each pool), with a lemma for
each action, or group of like actions, that keeps it.  What it adds to the
properties, and why:

*DagEngine.*  `AtMostOnce` is not inductive: a second trigger would be the work
of an earlier step that left a count at 1 for a task already on the stream.
`CountCovers` says that a positive count belongs to a task whose HSET has run
and is at least the number of parents still open.  (It need not be equal: a
script that ran before the HSET has made it too large for good, and an expired
key has no effect on a count that is positive.)  `OnStream` says that a task on
the stream was put there once, its count is at most 0 and its parents are done;
`KeysConsumed` that the child set of a completed task is empty (the DEL of the
script) and every child set holds children only; `EdgesFirst` that nothing is
sent or completed before the SADDs are through.  In the step of the script, a
child in the set of p has p among its open parents (`KeysConsumed`), so
completing p closes exactly one (`OneParentLess`), the count goes from 1 to 0
only when none is left open (`NoneOpen`), and afterwards it is not positive.
The refinement needs `OnStream` of the state before, for a task to be released
for the first time, and of the state after, for its parents to be done.

The counts are exact per task (`Exact`): one underflow ruins the count of one
task only, so the invariant is about the tasks without an entry in the error
stream.  `Settled` says that such a task has seen no report of a parent before
its HSET, has its count at the number of open parents after it, and is on the
stream when there is none; `KeysComplete` that the child set of a task not yet
reported is whole.

*DagClient.*  `Ancestors` is a function of the number of steps; the proof first
shows that it exists and stops growing after as many steps as there are tasks
(`UpCloses`), so that the ancestors of a task are the least set closed under
parents that contains its own (`AncestorsLeast`).  A graph then has a cycle if
and only if it has a core, a nonempty set in which every task has a parent, or
one in which every task has a child (`ParentCoreIsCyclic`, `CyclicHasCores`).
For the topological sort (`Popped`), the popped tasks contain the parents of
each of them and no part of a core; when the queue is empty, the others are a
core.  For the depth-first search, the active calls are a path of the graph
(`Path`), the visited children of an active call are all but the one it waits
for (`Explored`), and no visited task is in a core (`CleanBehind`); a child that
is being visited closes a part of the path to a core.

*Dispatch.*  `Counted` weighs the counter against the batch and the pool,
`Bounded` says how far the counter may go at each place of the loop thread
(it is compared with the limit only at the top), `BatchSorted` that no entry is
twice in a batch, and `CopiesCovered` that a message has at most one copy more
than it was idle before, an idle entry being good for one more.  The sums over
pool jobs and workers are folds; what they do when one value changes
(`TotalAt`) is proved by a minimal counterexample.

*TaskStatus.*  `Budget` counts the XADDs that are still to come with those
done.  For `FailedTriggersNothing`, `OneTurn` says where a task may be as long as
nothing duplicates it: not released, in a message that nobody has taken, in one
execution, or in one handler; and that a task that has failed or triggered is
in none of them.  `NotStranded` holds under every fault, with or without overlap:
a row is final, something will still move it, or the task is spoilt.  It is not
inductive, for the message that is left may be one that a worker has taken and
that is acknowledged next.  `Unfinished` does not count such a message
(`Underway`).  A worker that takes a message leaves an execution in its place; a
revert leaves a message that nobody has taken, or the task is spoilt; and every
other step that takes something away puts a successor in its place, makes the
row final, or spoils the task.

*TaskSubmitter.*  Requests are in one place each (`QueueUnique`, `Disjoint`,
`Everywhere`), flushers hold a batch only from the swap to the end of the
pipeline, committed in the pipeline (`BatchLife`), and the table has a key once
(`KeysUnique`), which makes `PublishedOnce` a consequence of commit before
publish.

*The pools.*  For lost wakeups the invariant compares the number of queued jobs
(pooled connections) with that of the threads about to take the mutex plus the
notifications still owed, while anybody sleeps; each action changes both sides
by the same amount.  A thread holds a job only while it runs it (`JobHeld`), an
accepted job is queued, taken or done (`JobKept`), threads return in the order
of the destructor (`StopOrder`).  In the composition every step is a step of
each pool or leaves it alone (`StepOfThreads`, `StepOfDatabase`), which is the
refinement; `InJob` says that a pool thread is in ExecuteTx only inside a job.

*DbBatcher and JobQuery.*  What is in memory is always the newest operations,
one by one (`Consecutive`), the older ones were written or have thrown and no
row shows one of memory (`Settled`), and the thread and Stop() go in order
(`ShutdownOrder`).  The query needs only that rows in SUCCESS belong to tasks
that have reported (`JobInv`): reports are never taken back, so an answer that
is computed from old rows is still true.

*WorkerRegistry.*  `HealedAfterOneRound` speaks of an entry that is not too old,
which a tick of the clock might end.  `JustHeard` is stronger: a worker asleep
after an undisturbed round was heard in this very round, its entry has age 0,
and the clock ticks only when nobody sleeps.

*AsyncServer and WebGateway.*  Each context is in one place (registered with
gRPC, sending, in the event queue, in a handler), of the status that fits the
place (`Placed`, `QueuedOnce`, `InsideOwn`, `EventsRight`); it serves the call
it was matched with and nobody else does (`Serving`), a call is handled once
(`HandledOnce`), and a thread leaves when no context of its queue is left
(`ShutInOrder`).  `Capacity` needs that `new` always finds an address: contexts
that wait or are about to be replaced are at most as many as at the start
(`UnreplacedBounded`), and each of the others serves a call of its own other
than the one of the context that is being replaced (`FreeAddress`).  On the
client's side, what is told is what was received (`ToldTrue`), and an open call
has a frame that owns the client (`FramesHold`), so that the loop of the queue
cannot end over it.

Induction over natural numbers and finite sets is done with minimal elements
(`WFMin` of the library) and not with the induction theorems, which take an
operator as a parameter that the provers cannot instantiate.

Only model-checked: the properties under fairness (`JobRunsOut`,
`StreamDrains`, `ZeroLoss`, `EveryoneReturns`, `StopReturns`, `SeenInTheEnd`,
`EventuallyFlushed`, `DeadIsForgotten`, `EveryRequestAnswered`, `BothStop`),
because the prover handles neither ENABLED nor the arguments that lead from
fairness to progress.  The properties of the violation runs are false.

Some definitions have the form they have so that they can be reasoned about: the
replies of Redis as sequences in the order of the stream (`InOrder` of
Dispatch), its sums as folds (`Total`), `InOnePlace` of TaskSubmitter as a count
of places, and the addresses of AsyncServer as one for each initial context and
one for each call.

## 6 Divergences between the code and what is said of it

Shown by a run that finds the violation:

1. `dag_lost_trigger`: the HSET of a child at `task_submitter.cpp:368` overwrites
   a count that the script has already taken down; `src/README.md:129` promises
   the trigger.
2. `dispatch_worker_crash`: the XACK at `scheduler_loop.cpp:384` follows the
   acceptance of a task, and RequeueOrphanedTasks looks for rows in state
   RUNNING, which nothing writes; `src/README.md:39` promises no loss.
3. `submit_repeat`: the job row of a repeated key is left out at
   `task_submitter.cpp:217`, its tasks are not, and the foreign key makes the
   batch fail; `common/include/dag.hpp:32` calls the key a protection against
   repeated submissions.

Met on the way, visible in the models, and without a run of their own:

4. RevertTaskToPending (`task_repository.cpp:196`) does not look at the state.
   A RunTask that misses its deadline, or a second dispatch of the same message
   that fails, takes a row in SUCCESS back to PENDING
   (`scheduler_loop.cpp:364`); `src/README.md:155` makes SUCCESS final.  If the
   message has been acknowledged by then, nothing moves the row any more
   (`NotStranded` counts the task as spoilt), and a client that polls never
   learns that its job is done (`SeenInTheEnd` excepts it).
5. `src/README.md:232` says that XACK follows the report; the code acknowledges
   on acceptance (`DispatchOk`).
6. An exception in the middle of a batch (`scheduler_loop.cpp:210`) leaves the
   rest of the batch in `inflight_tasks_` (`BatchThrows`); more than 2000 such
   entries stop reading and rescue for good, because the pause at :121 skips
   both.  `StreamDrains` therefore is checked with a limit above what two
   exceptions can leave behind.
7. A connection that cannot be replaced is gone for good
   (`database_pool.h:144`); when all are, every call waits for ever, also after
   the database is back.  Hence the premise of `EveryoneReturns`.
8. A heartbeat always reports 0 running tasks (`worker_node.cpp:148`) and erases
   the prebooked load that `src/README.md:222` says it corrects.
9. The details query of a job names the column `result_payload`
   (`job_query_handler.cpp:223`); the table of `src/init.sql:52` calls it
   `result`.  The query throws, the exception is caught and logged, and every
   committed job is answered JOB_RUNNING for ever.  `JobInit` has both schemas;
   `SeenInTheEnd` is stated for the one with the column.
10. `api_web.cpp:243-247` says that an invalid graph is answered 400 and a
   failure of transport 503.  DagBuilder throws runtime_error for an invalid
   graph (`dag_builder.cpp:22`, `:49-55`, `:111`), which becomes 503, and a
   failed call is a GrpcError, which becomes 400 (`StatusOf`).  A sender of a
   400 whose call was given up may still have submitted a job (`AnswersTrue`
   says what each status does tell).
11. The branch of `api_web.cpp:195-225` for an error in the header is not
   reached: await_resume throws first (`dts_coroutine.h:98`).
12. `AsyncServer::Shutdown` (`api_server.cpp:91`) shuts the queues down once no
   call is open; a handler of a call that was given up may still run, and its
   Finish, or the registration of the next context, aborts the process if the
   queue is drained by then (`HandleTooLate`, `RenewTooLate`).
13. A coroutine frame that outlives the web server's reference to the client
   destroys the client in the thread that the destructor joins
   (`grpc_client.cpp:24`, `DestroyFrame`): the process terminates instead of
   exiting.

## 7 What is not modelled

- Values: function names, parameters, results, log lines, metrics, request ids.
- The order in which workers are chosen within the list, and the channel cache.
- Loading and caching of the Lua script: it runs or fails.
- Destruction order of members and statics at process exit, except that of the
  contexts in AsyncServer and of the client in WebGateway.
- The tests' and benchmarks' own code, the monitoring stack, the web page, the
  code under `src/drop/`, which no target builds.
- gRPC, Redis and PostgreSQL themselves, except by what the code sees of them.
- The callback interface of the client (`submit_dag_async`, `async_tags.hpp`):
  no binary calls it.
- The contents of HTTP and JSON messages, and the conversions between structs
  and protocol messages (`converters.cpp`), which copy field by field.
- `get`, `watch` and `bench` of the command line tool, which print what a query
  answers; requests that both clients refuse before they look at the graph.
- UpdateTaskToRunning and GetPendingTasks of TaskRepository, which nothing calls.

## 8 Plan

Done: DagSpec, DagEngine, DagClient, Dispatch, TaskStatus, TaskSubmitter,
DbBatcher, JobQuery, ThreadPool, DatabasePool, DispatchPool, WorkerRegistry,
AsyncServer, WebGateway, and the proofs of every invariant and every action
property of the passing runs.

To come: abstract specifications of more components (the promise of the stream
and its consumer group, of the submission path, of a call to the server), and
the proofs that Dispatch, TaskSubmitter and WebGateway implement them.
