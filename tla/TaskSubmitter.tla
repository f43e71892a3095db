---------------------------- MODULE TaskSubmitter ----------------------------
(***************************************************************************)
(* The asynchronous group commit of the API server,                        *)
(* src/api-server/src/task_submitter.cpp: SubmitDagAsync queues a request  *)
(* and answers with a job id; flusher threads swap the whole queue out,    *)
(* write it to PostgreSQL in one transaction and then send one Redis       *)
(* pipeline.                                                               *)
(*                                                                         *)
(* The pipeline's commands are the subject of DagEngine; here the requests *)
(* of a batch are published, or, when the connection breaks midway, some   *)
(* of them or of their commands may have reached Redis.                    *)
(* Requests have at least one task, so that a job row that ON CONFLICT DO  *)
(* NOTHING left out makes the foreign key of its tasks fail.               *)
(***************************************************************************)
EXTENDS Integers, FiniteSets, Sequences, SequencesExt

CONSTANTS
  Req,         \* SubmitDag requests, each sent once
  Key(_),      \* the idempotency key of a request
  Invalid,     \* requests no table accepts: an edge given twice, an edge to a
               \* task that is not there, func_params that are no JSON
  Flusher,     \* flusher threads
  MaxQueue,    \* MAX_QUEUE_SIZE
  Faults,      \* kinds of faults that may happen
  MaxFaults    \* bound: faults in a behaviour

FaultKinds == {"tx",       \* the transaction fails and is rolled back
               "indoubt",  \* it commits, but the answer to COMMIT is lost
               "redis"}    \* the pipeline throws, after any prefix of it

ASSUME TaskSubmitterAssumption ==
  /\ IsFiniteSet(Req) /\ IsFiniteSet(Flusher) /\ Flusher # {}
  /\ Invalid \subseteq Req
  /\ MaxQueue \in Nat /\ MaxFaults \in Nat
  /\ Faults \subseteq FaultKinds

VARIABLES
  serving,   \* does the gRPC server run handlers?
  running,   \* running_
  joined,    \* has the destructor joined every flusher?
  queue,     \* pending_queue_
  pc,        \* per flusher: testing running_, waiting, in the transaction,
             \* in the pipeline, returned
  batch,     \* per flusher: current_batch
  db,        \* requests committed to PostgreSQL
  published, \* requests of a batch whose pipeline went through
  partial,   \* requests whose pipeline broke when it may have run all or some
             \* of their commands
  accepted,  \* requests answered with a job id
  refused,   \* requests answered with "queue full"
  failed,    \* requests of a batch whose exception was logged
  faults

vars == <<serving, running, joined, queue, pc, batch, db, published, partial,
          accepted, refused, failed, faults>>

Init == /\ serving = TRUE /\ running = TRUE /\ joined = FALSE
        /\ queue = <<>>
        /\ pc = [f \in Flusher |-> "test"]
        /\ batch = [f \in Flusher |-> {}]
        /\ db = {} /\ published = {} /\ partial = {}
        /\ accepted = {} /\ refused = {} /\ failed = {}
        /\ faults = 0

Goto(f, l) == pc' = [pc EXCEPT ![f] = l]
Fault(k)   == k \in Faults /\ faults < MaxFaults /\ faults' = faults + 1
Fine       == faults' = faults

-----------------------------------------------------------------------------
(* Variants with a bug, used to test the properties. *)
BugEmptied    == queue
BugHasWork    == Len(queue) >= 2
BugAfterFailure(f) == Goto(f, "publish") /\ UNCHANGED batch
BugRejects(B) == B \cap Invalid # {}

-----------------------------------------------------------------------------
(* SubmitDagAsync, in the handler threads. *)

HasRoom == Len(queue) < MaxQueue

Submit(r) ==
  /\ serving
  /\ r \notin accepted \cup refused
  /\ HasRoom
  /\ queue' = Append(queue, r)
  /\ accepted' = accepted \cup {r}
  /\ UNCHANGED <<serving, running, joined, pc, batch, db, published, partial,
                 refused, failed>>
  /\ Fine

Refuse(r) ==
  /\ serving
  /\ r \notin accepted \cup refused
  /\ ~HasRoom
  /\ refused' = refused \cup {r}
  /\ UNCHANGED <<serving, running, joined, queue, pc, batch, db, published, partial,
                 accepted, failed>>
  /\ Fine

-----------------------------------------------------------------------------
(* FlusherLoop.  wait_for ends with a notification or after 200 ms, so a   *)
(* flusher may leave it at any time.                                       *)

Test(f) ==
  /\ pc[f] = "test"
  /\ Goto(f, IF running THEN "wait" ELSE "returned")
  /\ UNCHANGED <<serving, running, joined, queue, batch, db, published, partial,
                 accepted, refused, failed>>
  /\ Fine

\* After the wait, still with the mutex.
Leaves == ~running /\ queue = <<>>

Return(f) ==
  /\ pc[f] = "wait"
  /\ Leaves
  /\ Goto(f, "returned")
  /\ UNCHANGED <<serving, running, joined, queue, batch, db, published, partial,
                 accepted, refused, failed>>
  /\ Fine

\* Anything to flush?  It need not be a batch of MIN_BATCH_SIZE.
HasWork == queue # <<>>

NothingYet(f) ==
  /\ pc[f] = "wait"
  /\ ~Leaves /\ ~HasWork
  /\ Goto(f, "test")
  /\ UNCHANGED <<serving, running, joined, queue, batch, db, published, partial,
                 accepted, refused, failed>>
  /\ Fine

\* current_batch.swap(pending_queue_): current_batch was cleared before.
Emptied == <<>>

Swap(f) ==
  /\ pc[f] = "wait"
  /\ ~Leaves /\ HasWork
  /\ batch' = [batch EXCEPT ![f] = ToSet(queue)]
  /\ queue' = Emptied
  /\ Goto(f, "tx")
  /\ UNCHANGED <<serving, running, joined, db, published, partial,
                 accepted, refused, failed>>
  /\ Fine

-----------------------------------------------------------------------------
(* ProcessBatch: the transaction, then the pipeline.                       *)

\* PostgreSQL refuses the batch: a row no table takes, or a job whose key is
\* there already, in the table or in the batch itself.
Rejects(B) ==
  \/ B \cap Invalid # {}
  \/ \E r \in B, q \in B \cup db : q # r /\ Key(q) = Key(r)

Commit(f) ==
  /\ pc[f] = "tx"
  /\ ~Rejects(batch[f])
  /\ db' = db \cup batch[f]
  /\ Goto(f, "publish")
  /\ UNCHANGED <<serving, running, joined, queue, batch, published, partial,
                 accepted, refused, failed>>
  /\ Fine

\* The exception is logged, and current_batch.clear().
AfterFailure(f) == Goto(f, "test") /\ batch' = [batch EXCEPT ![f] = {}]

CommitFails(f) ==
  /\ pc[f] = "tx"
  /\ \/ Rejects(batch[f]) /\ UNCHANGED db /\ Fine
     \/ UNCHANGED db /\ Fault("tx")
     \/ ~Rejects(batch[f]) /\ db' = db \cup batch[f] /\ Fault("indoubt")
  /\ failed' = failed \cup batch[f]
  /\ AfterFailure(f)
  /\ UNCHANGED <<serving, running, joined, queue, published, partial,
                 accepted, refused>>

Publish(f) ==
  /\ pc[f] = "publish"
  /\ published' = published \cup batch[f]
  /\ batch' = [batch EXCEPT ![f] = {}]
  /\ Goto(f, "test")
  /\ UNCHANGED <<serving, running, joined, queue, db, partial,
                 accepted, refused, failed>>
  /\ Fine

\* "CRITICAL: Redis Batch Failed after DB Commit": some requests may be complete
\* in Redis or cut in two; the log has the whole batch as failed.
PublishFails(f) ==
  /\ pc[f] = "publish"
  /\ Fault("redis")
  /\ \E reached \in SUBSET batch[f] : partial' = partial \cup reached
  /\ failed' = failed \cup batch[f]
  /\ AfterFailure(f)
  /\ UNCHANGED <<serving, running, joined, queue, db, published, accepted, refused>>

-----------------------------------------------------------------------------
(* main() shuts the server down; the destructor of TaskSubmitter follows.  *)

ServerShutdown ==
  /\ serving
  /\ serving' = FALSE
  /\ UNCHANGED <<running, joined, queue, pc, batch, db, published, partial,
                 accepted, refused, failed>>
  /\ Fine

ClearRunning ==
  /\ ~serving /\ running
  /\ running' = FALSE
  /\ UNCHANGED <<serving, joined, queue, pc, batch, db, published, partial,
                 accepted, refused, failed>>
  /\ Fine

Join ==
  /\ ~running /\ ~joined
  /\ \A f \in Flusher : pc[f] = "returned"
  /\ joined' = TRUE
  /\ UNCHANGED <<serving, running, queue, pc, batch, db, published, partial,
                 accepted, refused, failed>>
  /\ Fine

-----------------------------------------------------------------------------
Loop(f) == \/ Test(f) \/ Return(f) \/ NothingYet(f) \/ Swap(f)
           \/ Commit(f) \/ CommitFails(f) \/ Publish(f) \/ PublishFails(f)

Next == \/ \E r \in Req : Submit(r) \/ Refuse(r)
        \/ \E f \in Flusher : Loop(f)
        \/ ServerShutdown \/ ClearRunning \/ Join

Spec == Init /\ [][Next]_vars

\* Flushers are scheduled, wait_for times out, statements and pipelines end.
FairSpec == /\ Spec
            /\ \A f \in Flusher : WF_vars(Loop(f))
            /\ WF_vars(Join)

-----------------------------------------------------------------------------
\* The types of the variables, the queue within its limit.
TypeOK ==
  /\ serving \in BOOLEAN /\ running \in BOOLEAN /\ joined \in BOOLEAN
  /\ queue \in Seq(Req) /\ Len(queue) <= MaxQueue
  /\ pc \in [Flusher -> {"test", "wait", "tx", "publish", "returned"}]
  /\ batch \in [Flusher -> SUBSET Req]
  /\ db \subseteq Req /\ published \subseteq Req /\ partial \subseteq Req
  /\ accepted \subseteq Req /\ refused \subseteq Req /\ failed \subseteq Req
  /\ faults \in 0 .. MaxFaults

Batched == UNION {batch[f] : f \in Flusher}

\* A request that was answered with a job id is in exactly one place, however
\* flushers race for the queue: queued, in the batch of one flusher, published
\* or reported as failed.
InOnePlace ==
  /\ TypeOK
  /\ accepted = ToSet(queue) \cup Batched \cup published \cup failed
  /\ Cardinality(accepted) = Len(queue) + Cardinality(published) + Cardinality(failed)
       + Cardinality({p \in Flusher \X Req : p[2] \in batch[p[1]]})

\* README.md:18, "Commit-then-Publish": what is in Redis is in PostgreSQL, so a
\* task that a worker reports always has a row.
CommitThenPublish == published \cup partial \subseteq db

\* dag.hpp:32: of the submissions of one graph at most one ever reaches Redis,
\* although the flushers commit concurrently.
PublishedOnce ==
  \A q, r \in published \cup partial : Key(q) = Key(r) => q = r

\* Without a shutdown every accepted request is published or logged as failed,
\* a batch that never reaches MIN_BATCH_SIZE included.
EventuallyFlushed ==
  \A r \in Req : r \in accepted ~> r \in published \cup failed \/ ~running

\* dag.hpp:32, dag_builder.hpp:21: the key protects a client that sends a graph
\* again.  A valid graph that was submitted, once or again, is kept.
RepeatIsHarmless ==
  \A r \in failed \ Invalid : \E q \in db : Key(q) = Key(r)
===============================================================================
