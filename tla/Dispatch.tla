------------------------------- MODULE Dispatch -------------------------------
(***************************************************************************)
(* From the task stream to the workers: the loop thread, the rescue and    *)
(* the dispatch pool of SchedulerLoop                                      *)
(* (src/scheduler/src/scheduler_loop.cpp), the Redis consumer group they   *)
(* share, and as much of the worker as decides what an XACK stands for.    *)
(*                                                                         *)
(* Redis survives everything; a scheduler process loses its loop, its pool *)
(* and its in-flight counter when it dies, and a worker process loses the  *)
(* tasks it has accepted.  A message is its stream id 1, 2, ...            *)
(***************************************************************************)
EXTENDS Integers, FiniteSets, Sequences, SequencesExt, FiniteSetsExt

CONSTANTS
  Sched,        \* scheduler processes, consumers of one group
  Worker,       \* worker processes
  NMsg,         \* bound: messages ever XADDed
  Malformed,    \* messages that may turn out not to parse
  BatchSize,    \* BATCH_SIZE of RunLoop (20 in the code)
  RescueBatch,  \* BATCH_SIZE of DoRescue (50)
  MaxInflight,  \* MAX_INFLIGHT (2000)
  Faults,       \* the kinds of faults that may happen
  IdleCap,      \* bound: where the history variable idled stops counting
  MaxFaults     \* bound: how many faults happen in a behaviour

FaultKinds == {"rpc",       \* RunTask fails or misses its deadline
               "xack",      \* XACK does not reach Redis
               "read",      \* the reply of XREADGROUP, XPENDING or XCLAIM is lost
               "throw",     \* redis.get throws inside the loop thread
               "ttl",       \* the metadata of a message expires
               "sched",     \* a scheduler process dies
               "worker",    \* a worker process dies
               "swallow",   \* the worker answers OK but could not take the task
               "report"}    \* UpdateTaskStatus of a worker does not arrive

ASSUME DispatchAssumption ==
  /\ IsFiniteSet(Sched) /\ Sched # {}
  /\ IsFiniteSet(Worker) /\ Worker # {}
  /\ NMsg \in Nat /\ Malformed \subseteq 1 .. NMsg
  /\ BatchSize \in Nat \ {0} /\ RescueBatch \in Nat \ {0}
  /\ MaxInflight \in Nat /\ IdleCap \in Nat /\ MaxFaults \in Nat
  /\ Faults \subseteq FaultKinds

Msg == 1 .. NMsg

VARIABLES
  \* Redis: the stream and the consumer group
  published,  \* the ids 1 .. published are on the stream
  start,      \* last id when the group was created with "$", -1 before
  delivered,  \* last-delivered-id of the group
  pel,        \* pending entries list: delivered and not acknowledged
  idle,       \* those of pel idle for at least MIN_IDLE_MS
  meta,       \* messages that parse and whose metadata is in Redis
  \* one scheduler process each
  up,         \* is the process running?
  pc,         \* where its loop thread is
  due,        \* have 10 s passed since last_rescue_time?
  batch,      \* ids the loop thread still has to process
  snap,       \* workers of the snapshot taken before XREADGROUP
  jobs,       \* how many DoDispatch(m, w) are queued or running in the pool
  inflight,   \* inflight_tasks_
  reg,        \* workers its WorkerManager considers alive
  \* workers
  wup,        \* running worker processes
  running,    \* how many executions of a message a worker has accepted and not
              \* finished
  \* history
  accepted,   \* messages whose RunTask some worker answered with OK
  skipped,    \* messages AckAndSkip acknowledged
  reported,   \* messages whose outcome reached a scheduler
  idled,      \* how often a message became idle, counted up to IdleCap
  faults      \* faults so far

redis  == <<published, start, delivered, pel, idle, meta>>
loop   == <<pc, due, batch, snap>>
work   == <<wup, running>>
hist   == <<accepted, skipped, reported, idled>>
vars   == <<redis, up, loop, jobs, inflight, reg, work, hist, faults>>

NoJobs == [j \in Msg \X Worker |-> 0]
Idle   == [m \in Msg |-> 0]

Init ==
  /\ published = 0 /\ start = -1 /\ delivered = 0
  /\ pel = {} /\ idle = {}
  /\ meta \in {Msg, Msg \ Malformed}
  /\ up = [s \in Sched |-> FALSE]
  /\ pc = [s \in Sched |-> "top"]
  /\ due = [s \in Sched |-> FALSE]
  /\ batch = [s \in Sched |-> <<>>]
  /\ snap = [s \in Sched |-> {}]
  /\ jobs = [s \in Sched |-> NoJobs]
  /\ inflight = [s \in Sched |-> 0]
  /\ reg = [s \in Sched |-> {}]
  /\ wup = {} /\ running = [w \in Worker |-> Idle]
  /\ accepted = {} /\ skipped = {} /\ reported = {} /\ idled = [m \in Msg |-> 0]
  /\ faults = 0

\* A fault of kind k happens now; every other step leaves the count alone.
Fault(k) == k \in Faults /\ faults < MaxFaults /\ faults' = faults + 1
Fine == faults' = faults

\* A round of RunLoop ends: its snapshot goes out of scope.
Forget(s) == snap' = [snap EXCEPT ![s] = {}]

Goto(s, l) == pc[s] # l /\ pc' = [pc EXCEPT ![s] = l]
At(s, l)   == up[s] /\ pc[s] = l

-----------------------------------------------------------------------------
(***************************************************************************)
(* Variants with a bug, used to test the properties.                       *)
(***************************************************************************)
BugNoIdleFilter(S) == {}
BugNoBackpressure(s) == TRUE
BugClaimAnyPending(s, S) == S \cap pel
BugNoSettle(s) == inflight' = inflight
BugAckUndelivered(m) == pel' = pel \ {m} /\ idle' = idle \ {m}

-----------------------------------------------------------------------------
(***************************************************************************)
(* Redis and the clock.                                                    *)
(***************************************************************************)
\* The API server or the Lua script XADDs the next message.
Publish ==
  /\ published < NMsg
  /\ published' = published + 1
  /\ UNCHANGED <<start, delivered, pel, idle, meta, up, loop, jobs, inflight, reg, work, hist>>
  /\ Fine

\* A pending entry has been idle for MIN_IDLE_MS, still in a pool or not.
IdleTick(m) ==
  /\ m \in pel \ idle
  /\ idle' = idle \cup {m}
  /\ idled' = [idled EXCEPT ![m] = IF @ < IdleCap THEN @ + 1 ELSE @]
  /\ UNCHANGED <<published, start, delivered, pel, meta, up, loop, jobs, inflight, reg, work,
                 accepted, skipped, reported>>
  /\ Fine

MetaExpires(m) ==
  /\ Fault("ttl")
  /\ m \in meta /\ m <= published
  /\ meta' = meta \ {m}
  /\ UNCHANGED <<published, start, delivered, pel, idle, up, loop, jobs, inflight, reg, work, hist>>

\* Ten seconds since the last rescue.
RescueTimer(s) ==
  /\ up[s] /\ ~due[s]
  /\ due' = [due EXCEPT ![s] = TRUE]
  /\ UNCHANGED <<redis, up, pc, batch, snap, jobs, inflight, reg, work, hist>>
  /\ Fine

-----------------------------------------------------------------------------
(***************************************************************************)
(* Start, and the end of a scheduler process.  Stop() breaks out of the    *)
(* batch and leaves the rest to the pending list, as a crash does.         *)
(***************************************************************************)
SchedStart(s) ==
  /\ ~up[s]
  /\ up' = [up EXCEPT ![s] = TRUE]
  /\ IF start = -1
     THEN start' = published /\ delivered' = published   \* XGROUP CREATE ... $
     ELSE UNCHANGED <<start, delivered>>                  \* BUSYGROUP: it exists
  /\ UNCHANGED <<published, pel, idle, meta, loop, jobs, inflight, reg, work, hist>>
  /\ Fine

SchedDies(s) ==
  /\ Fault("sched")
  /\ up[s]
  /\ up' = [up EXCEPT ![s] = FALSE]
  /\ pc' = [pc EXCEPT ![s] = "top"]
  /\ due' = [due EXCEPT ![s] = FALSE]
  /\ batch' = [batch EXCEPT ![s] = <<>>]
  /\ snap' = [snap EXCEPT ![s] = {}]
  /\ jobs' = [jobs EXCEPT ![s] = NoJobs]
  /\ inflight' = [inflight EXCEPT ![s] = 0]
  /\ reg' = [reg EXCEPT ![s] = {}]
  /\ UNCHANGED <<redis, work, hist>>

-----------------------------------------------------------------------------
(***************************************************************************)
(* RunLoop.                                                                *)
(***************************************************************************)
\* The n oldest ids of S, as XPENDING - + n and XREADGROUP return them.
Oldest(S, n) == {m \in S : Cardinality({k \in S : k < m}) < n}
InOrder(S)   == CHOOSE q \in [1 .. Cardinality(S) -> S] :
                  \A i, j \in DOMAIN q : i < j => q[i] < q[j]

StillIdle(S) == S \cap idle

\* Backpressure: above the limit the loop sleeps and comes back to "top".
HasRoom(s) == inflight[s] <= MaxInflight

\* A rescue is due: XPENDING, and filter on the idle time.  A lost XPENDING reply makes
\* DoRescue return.  Without room there is no rescue either.
RescueScan(s) ==
  /\ At(s, "top")
  /\ HasRoom(s)
  /\ due[s]
  /\ due' = [due EXCEPT ![s] = FALSE]
  /\ LET ids == StillIdle(Oldest(pel, RescueBatch))
     IN  \/ /\ ids # {}
            /\ Goto(s, "claim")
            /\ batch' = [batch EXCEPT ![s] = InOrder(ids)]
            /\ Fine
         \/ /\ Goto(s, "workers")
            /\ UNCHANGED batch
            /\ (ids = {} /\ Fine) \/ (ids # {} /\ Fault("read"))
  /\ UNCHANGED <<redis, up, snap, jobs, inflight, reg, work, hist>>

\* XCLAIM takes the entries that are still pending and still idle.
Claimable(s, S) == S \cap pel \cap idle

RescueClaim(s) ==
  LET got == Claimable(s, ToSet(batch[s]))
  IN  /\ At(s, "claim")
      /\ idle' = idle \ got
      /\ \/ /\ got # {}
            /\ batch' = [batch EXCEPT ![s] = InOrder(got)]
            /\ inflight' = [inflight EXCEPT ![s] = @ + Cardinality(got)]
            /\ Goto(s, "rescue")
            /\ Fine
         \/ /\ batch' = [batch EXCEPT ![s] = <<>>]
            /\ Goto(s, "workers")
            /\ (got = {} /\ Fine) \/ (got # {} /\ Fault("read"))
            /\ UNCHANGED inflight
      /\ UNCHANGED <<published, start, delivered, pel, meta, up, due, snap, jobs, reg, work, hist>>

\* GetAvailableWorkersSorted, before the blocking read.
TakeSnapshot(s) ==
  /\ \/ At(s, "workers")
     \/ (At(s, "top") /\ HasRoom(s) /\ ~due[s])
  /\ reg[s] # {}
  /\ snap' = [snap EXCEPT ![s] = reg[s]]
  /\ Goto(s, "read")
  /\ UNCHANGED <<redis, up, due, batch, jobs, inflight, reg, work, hist>>
  /\ Fine

NoWorkers(s) ==
  /\ At(s, "workers")
  /\ reg[s] = {}
  /\ Goto(s, "top")
  /\ UNCHANGED <<redis, up, due, batch, snap, jobs, inflight, reg, work, hist>>
  /\ Fine

\* XREADGROUP >: new entries go to the pending list and into the batch.
ReadGroup(s) ==
  LET fresh == (delivered + 1) .. published
      new   == Oldest(fresh, BatchSize)
  IN  /\ At(s, "read")
      /\ new # {}
      /\ delivered' = delivered + Cardinality(new)
      /\ pel' = pel \cup new
      /\ \/ /\ batch' = [batch EXCEPT ![s] = InOrder(new)]
            /\ inflight' = [inflight EXCEPT ![s] = @ + Cardinality(new)]
            /\ Goto(s, "batch")
            /\ UNCHANGED snap
            /\ Fine
         \/ /\ Fault("read")      \* delivered, but the reply is lost
            /\ Goto(s, "top")
            /\ Forget(s)
            /\ UNCHANGED <<batch, inflight>>
      /\ UNCHANGED <<published, start, idle, meta, up, due, jobs, reg, work, hist>>

\* Nothing new for BLOCK_MS.
ReadTimeout(s) ==
  /\ At(s, "read")
  /\ delivered = published
  /\ Goto(s, "top")
  /\ Forget(s)
  /\ UNCHANGED <<redis, up, due, batch, jobs, inflight, reg, work, hist>>
  /\ Fine

(***************************************************************************)
(* One entry of a read batch, or of a rescued batch (ProcessStreamEntry).  *)
(***************************************************************************)
Entry(s)      == Head(batch[s])
Processing(s) == (At(s, "batch") \/ At(s, "rescue")) /\ batch[s] # <<>>

\* The snapshot of before the read, or a new one for a rescued entry.
Candidates(s) == IF pc[s] = "batch" THEN snap[s] ELSE reg[s]

\* inflight_tasks_.fetch_sub(1)
Settle(s) == inflight' = [inflight EXCEPT ![s] = @ - 1]

\* XACK, or not if it does not reach Redis.
Ack(m) == \/ pel' = pel \ {m} /\ idle' = idle \ {m} /\ Fine
          \/ UNCHANGED <<pel, idle>> /\ Fault("xack")

\* No XACK: the entry stays for the rescue.
Leave(m) == UNCHANGED <<pel, idle>>

NextEntry(s) == batch' = [batch EXCEPT ![s] = Tail(@)]

SkipEntry(s) ==
  /\ Processing(s)
  /\ Entry(s) \notin meta
  /\ Ack(Entry(s))
  /\ Settle(s)
  /\ NextEntry(s)
  /\ skipped' = skipped \cup {Entry(s)}
  /\ UNCHANGED <<published, start, delivered, meta, up, pc, due, snap, jobs, reg, work,
                 accepted, reported, idled>>

EnqueueEntry(s, w) ==
  /\ Processing(s)
  /\ Entry(s) \in meta
  /\ w \in Candidates(s)
  /\ jobs' = [jobs EXCEPT ![s][<<Entry(s), w>>] = @ + 1]
  /\ NextEntry(s)
  /\ UNCHANGED <<redis, up, pc, due, snap, inflight, reg, work, hist>>
  /\ Fine

\* A rescued entry with no worker left stays in the pending list.
RescueWithoutWorker(s) ==
  /\ Processing(s)
  /\ Entry(s) \in meta
  /\ Candidates(s) = {}
  /\ Settle(s)
  /\ NextEntry(s)
  /\ UNCHANGED <<redis, up, pc, due, snap, jobs, reg, work, hist>>
  /\ Fine

BatchEnds(s) ==
  /\ (At(s, "batch") \/ At(s, "rescue"))
  /\ batch[s] = <<>>
  /\ Goto(s, IF pc[s] = "batch" THEN "top" ELSE "workers")
  /\ Forget(s)
  /\ UNCHANGED <<redis, up, due, batch, jobs, inflight, reg, work, hist>>
  /\ Fine

\* redis.get throws: the rest of the batch is dropped, and inflight_tasks_ is
\* not corrected.
BatchThrows(s) ==
  /\ Processing(s)
  /\ Fault("throw")
  /\ batch' = [batch EXCEPT ![s] = <<>>]
  /\ Goto(s, IF pc[s] = "batch" THEN "top" ELSE "workers")
  /\ Forget(s)
  /\ UNCHANGED <<redis, up, due, jobs, inflight, reg, work, hist>>

-----------------------------------------------------------------------------
(***************************************************************************)
(* DoDispatch, in a thread of the pool.                                    *)
(***************************************************************************)
TakeJob(s, m, w) ==
  /\ up[s]
  /\ jobs[s][<<m, w>>] > 0
  /\ jobs' = [jobs EXCEPT ![s][<<m, w>>] = @ - 1]
  /\ Settle(s)

\* RunTask answers OK: acknowledge.  The worker has put the task in its pool,
\* unless converting the request threw: RunTask swallows the exception.
DispatchOk(s, m, w) ==
  /\ TakeJob(s, m, w)
  /\ w \in wup
  /\ accepted' = accepted \cup {m}
  /\ \/ running' = [running EXCEPT ![w][m] = @ + 1] /\ Ack(m)
     \/ Fault("swallow") /\ pel' = pel \ {m} /\ idle' = idle \ {m} /\ UNCHANGED running
  /\ UNCHANGED <<published, start, delivered, meta, up, loop, reg, wup,
                 skipped, reported, idled>>

\* The call fails: RevertTaskToPending on the row, the entry stays pending.
\* A worker that is up may have taken the task nevertheless.
DispatchFails(s, m, w) ==
  /\ TakeJob(s, m, w)
  /\ \/ w \notin wup /\ Fine /\ UNCHANGED running
     \/ /\ w \in wup /\ Fault("rpc")
        /\ running' \in {running, [running EXCEPT ![w][m] = @ + 1]}
  /\ Leave(m)
  /\ UNCHANGED <<published, start, delivered, meta, up, loop, reg, wup, hist>>

-----------------------------------------------------------------------------
(***************************************************************************)
(* Workers, and what the scheduler knows of them.                          *)
(***************************************************************************)
\* A worker process (re)starts; it registers with a scheduler that is up.
WorkerStart(w) ==
  /\ w \notin wup
  /\ wup' = wup \cup {w}
  /\ UNCHANGED <<redis, up, loop, jobs, inflight, reg, running, hist>>
  /\ Fine

\* Register, or a heartbeat that fails and is followed by Register.
Register(s, w) ==
  /\ up[s] /\ w \in wup /\ w \notin reg[s]
  /\ reg' = [reg EXCEPT ![s] = @ \cup {w}]
  /\ UNCHANGED <<redis, up, loop, jobs, inflight, work, hist>>
  /\ Fine

\* No heartbeat for the timeout: a dead worker is no longer offered.
HeartbeatTimeout(s, w) ==
  /\ up[s] /\ w \in reg[s] \ wup
  /\ reg' = [reg EXCEPT ![s] = @ \ {w}]
  /\ UNCHANGED <<redis, up, loop, jobs, inflight, work, hist>>
  /\ Fine

WorkerDies(w) ==
  /\ Fault("worker")
  /\ w \in wup
  /\ wup' = wup \ {w}
  /\ running' = [running EXCEPT ![w] = Idle]
  /\ UNCHANGED <<redis, up, loop, jobs, inflight, reg, hist>>

\* The task ends; its outcome is reported once, and not again if that fails.
Finish(w, m) ==
  /\ running[w][m] > 0
  /\ running' = [running EXCEPT ![w][m] = @ - 1]
  /\ \/ reported' = reported \cup {m} /\ Fine
     \/ UNCHANGED reported /\ Fault("report")
  /\ UNCHANGED <<redis, up, loop, jobs, inflight, reg, wup, accepted, skipped, idled>>

-----------------------------------------------------------------------------
RunLoop(s) ==
  \/ RescueScan(s) \/ RescueClaim(s) \/ TakeSnapshot(s) \/ NoWorkers(s)
  \/ ReadGroup(s) \/ ReadTimeout(s)
  \/ SkipEntry(s) \/ RescueWithoutWorker(s) \/ BatchEnds(s)
  \/ \E w \in Worker : EnqueueEntry(s, w)

DoDispatch(s, m, w) == DispatchOk(s, m, w) \/ DispatchFails(s, m, w)

Next ==
  \/ Publish
  \/ \E m \in Msg : IdleTick(m) \/ MetaExpires(m)
  \/ \E s \in Sched : \/ SchedStart(s) \/ SchedDies(s) \/ RescueTimer(s)
                      \/ RunLoop(s) \/ BatchThrows(s)
                      \/ \E m \in Msg, w \in Worker : DoDispatch(s, m, w)
                      \/ \E w \in Worker : Register(s, w) \/ HeartbeatTimeout(s, w)
  \/ \E w \in Worker : \/ WorkerStart(w) \/ WorkerDies(w)
                       \/ \E m \in Msg : Finish(w, m)

Spec == Init /\ [][Next]_vars

\* Threads run, timers fire, calls end, and docker-compose restarts processes.
\* Nothing is assumed of Publish and of faults.
Fairness ==
  /\ \A m \in Msg : WF_vars(IdleTick(m))
  /\ \A s \in Sched :
       /\ WF_vars(SchedStart(s)) /\ WF_vars(RescueTimer(s)) /\ WF_vars(RunLoop(s))
       /\ \A m \in Msg, w \in Worker : WF_vars(DoDispatch(s, m, w))
       /\ \A w \in Worker : WF_vars(Register(s, w)) /\ WF_vars(HeartbeatTimeout(s, w))
  /\ \A w \in Worker : /\ WF_vars(WorkerStart(w))
                       /\ \A m \in Msg : WF_vars(Finish(w, m))

FairSpec == Spec /\ Fairness

-----------------------------------------------------------------------------
(***************************************************************************)
(* Properties                                                              *)
(***************************************************************************)
\* The types of the variables.
TypeOK ==
  /\ published \in 0 .. NMsg /\ delivered \in 0 .. published
  /\ start \in -1 .. delivered
  /\ pel \subseteq 1 .. delivered /\ idle \subseteq pel
  /\ meta \subseteq Msg
  /\ up \in [Sched -> BOOLEAN] /\ due \in [Sched -> BOOLEAN]
  /\ pc \in [Sched -> {"top", "claim", "rescue", "workers", "read", "batch"}]
  /\ batch \in [Sched -> Seq(Msg)]
  /\ snap \in [Sched -> SUBSET Worker] /\ reg \in [Sched -> SUBSET Worker]
  /\ jobs \in [Sched -> [Msg \X Worker -> Nat]]
  /\ inflight \in [Sched -> Nat]
  /\ wup \subseteq Worker /\ running \in [Worker -> [Msg -> Nat]]
  /\ accepted \subseteq Msg /\ skipped \subseteq Msg /\ reported \subseteq Msg
  /\ idled \in [Msg -> 0 .. IdleCap]
  /\ faults \in 0 .. MaxFaults

\* Entries the loop thread holds; before XCLAIM it holds only ids.
Held(s)    == IF pc[s] \in {"batch", "rescue"} THEN batch[s] ELSE <<>>
Total(f)   == FoldFunction(+, 0, f)
NumJobs(s) == Total(jobs[s])

\* inflight_tasks_ counts exactly the entries in the loop thread's hands and in
\* the pool, along every early return of RunLoop, DoRescue and DoDispatch, as
\* long as redis.get does not throw.
InflightExact ==
  /\ TypeOK
  /\ \A s \in Sched : inflight[s] = Len(Held(s)) + NumJobs(s)

\* What MAX_INFLIGHT is for (scheduler_loop.h:85): the pool's queue is bounded,
\* by the limit plus one rescue and one read.
PoolBounded ==
  \A s \in Sched : NumJobs(s) + Len(Held(s)) <= MaxInflight + RescueBatch + BatchSize

\* A delivered message is never dropped on the way to a worker: it is pending,
\* or a worker answered OK, or its metadata was missing.
NoMessageDropped ==
  \A m \in 1 .. delivered : m > start => m \in pel \cup accepted \cup skipped

\* How many times m is being dispatched or executed right now.
InHand(s, m) == Cardinality({i \in DOMAIN Held(s) : Held(s)[i] = m})
InPool(s, m) == Total([w \in Worker |-> jobs[s][<<m, w>>]])
Copies(m) == Total([w \in Worker |-> running[w][m]])
             + Total([s \in Sched |-> InHand(s, m) + InPool(s, m)])

\* Each period of MIN_IDLE_MS makes at most one more copy of a message, even
\* with two schedulers rescuing at once (the recheck of XCLAIM).
OneCopyPerIdlePeriod ==
  \A m \in Msg : idled[m] < IdleCap => Copies(m) <= 1 + idled[m]

\* Once faults cease, everything on the stream is read and acknowledged, what a
\* dead scheduler or a lost reply left behind included, as long as the entries
\* that exceptions have left in inflight_tasks_ (BatchThrows) stay within
\* MaxInflight.  Beyond it the loop pauses for ever, and the rescue with it.
StreamDrains == <>[](pel = {} /\ delivered = published)

\* README.md:39 and README.md:236: a task that was delivered is not lost; its
\* outcome is reported in the end.
ZeroLoss == \A m \in Msg : m \in pel ~> m \in reported \cup skipped
===============================================================================
