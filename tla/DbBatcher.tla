------------------------------ MODULE DbBatcher ------------------------------
(***************************************************************************)
(* The write-behind queue of task results, src/scheduler/src/db_batcher.cpp*)
(* Handlers of UpdateTaskStatus add operations, one thread moves them in   *)
(* batches into one UPDATE, and Stop() drains.                             *)
(*                                                                         *)
(* An operation is its position 1, 2, ... in the order in which the        *)
(* handlers got the mutex; arrived[k] is the task that operation k is      *)
(* about.  The notification of AddStatusUpdate depends on a size() read    *)
(* without the mutex, and wait_for() ends after kFlushIntervalMs anyway,   *)
(* so the thread may leave wait_for() at any time.                         *)
(***************************************************************************)
EXTENDS Integers, Sequences, SequencesExt

CONSTANTS
  Task,       \* tasks that are reported
  MaxOps,     \* bound: operations ever added
  BatchSize,  \* kBatchSize
  MaxFailures \* bound: how many UPDATEs throw

ASSUME DbBatcherAssumption ==
  MaxOps \in Nat /\ BatchSize \in Nat \ {0} /\ MaxFailures \in Nat

VARIABLES
  serving,   \* does the gRPC server still run handlers?
  arrived,   \* history: task of each operation, in order
  queue,     \* queue_
  batch,     \* the local batch of RunLoop
  pc,        \* RunLoop: testing its condition, in wait_for, flushing, returned
  stop,      \* stop_flag_
  joined,    \* has Stop() returned?
  row,       \* per task: the operation its row shows, 0 before the first
  flushed,   \* history: operations written
  dropped,   \* history: operations whose UPDATE threw
  failures   \* UPDATEs that threw so far

vars == <<serving, arrived, queue, batch, pc, stop, joined, row, flushed, dropped, failures>>

Init == /\ serving = TRUE
        /\ arrived = <<>> /\ queue = <<>> /\ batch = <<>>
        /\ pc = "test"
        /\ stop = FALSE /\ joined = FALSE
        /\ row = [t \in Task |-> 0]
        /\ flushed = {} /\ dropped = {}
        /\ failures = 0

-----------------------------------------------------------------------------
(* Variants with a bug, used to test the properties. *)
BugGoesOn    == ~stop
BugHasWork   == Len(queue) >= BatchSize
BugPushed(k) == <<k>> \o queue
BugLeft(n)   == <<>>

-----------------------------------------------------------------------------
(* AddStatusUpdate, from the handlers of the gRPC server. *)

Pushed(k) == Append(queue, k)

AddStatusUpdate(t) ==
  /\ serving
  /\ Len(arrived) < MaxOps
  /\ arrived' = Append(arrived, t)
  /\ queue' = Pushed(Len(arrived) + 1)
  /\ UNCHANGED <<serving, batch, pc, stop, joined, row, flushed, dropped, failures>>

-----------------------------------------------------------------------------
(* RunLoop. *)

\* "Even after stop, what is left is flushed."
GoesOn == ~stop \/ queue # <<>>

Test ==
  /\ pc = "test"
  /\ pc' = IF GoesOn THEN "wait" ELSE "returned"
  /\ UNCHANGED <<serving, arrived, queue, batch, stop, joined, row, flushed, dropped, failures>>

\* wait_for ends with nothing in the queue.
NothingToDo ==
  /\ pc = "wait"
  /\ queue = <<>>
  /\ pc' = IF stop THEN "returned" ELSE "test"
  /\ UNCHANGED <<serving, arrived, queue, batch, stop, joined, row, flushed, dropped, failures>>

Smaller(a, b) == IF a < b THEN a ELSE b
First(n)      == SubSeq(queue, 1, n)
Left(n)       == SubSeq(queue, n + 1, Len(queue))

\* Anything to flush?  A full batch is not waited for.
HasWork == queue # <<>>

\* Move at most kBatchSize operations into the local batch.
TakeBatch ==
  /\ pc = "wait"
  /\ HasWork
  /\ LET n == Smaller(BatchSize, Len(queue))
     IN  batch' = First(n) /\ queue' = Left(n)
  /\ pc' = "flush"
  /\ UNCHANGED <<serving, arrived, stop, joined, row, flushed, dropped, failures>>

\* UPDATE ... FROM (VALUES ...): of several values for a row, any one is taken.
Values(t)  == {k \in ToSet(batch) : arrived[k] = t}
NewRow(t)  == IF Values(t) = {} THEN {row[t]} ELSE Values(t)

Flush ==
  /\ pc = "flush"
  /\ row' \in {r \in [Task -> 0 .. MaxOps] : \A t \in Task : r[t] \in NewRow(t)}
  /\ flushed' = flushed \cup ToSet(batch)
  /\ batch' = <<>>
  /\ pc' = "test"
  /\ UNCHANGED <<serving, arrived, queue, stop, joined, dropped, failures>>

\* ExecuteTx throws: the exception is logged and the batch is cleared.
FlushThrows ==
  /\ pc = "flush"
  /\ failures < MaxFailures
  /\ failures' = failures + 1
  /\ dropped' = dropped \cup ToSet(batch)
  /\ batch' = <<>>
  /\ pc' = "test"
  /\ UNCHANGED <<serving, arrived, queue, stop, joined, row, flushed>>

-----------------------------------------------------------------------------
(* main(): the gRPC server has shut down when Wait() returns; then Stop().  *)

ServerShutdown ==
  /\ serving
  /\ serving' = FALSE
  /\ UNCHANGED <<arrived, queue, batch, pc, stop, joined, row, flushed, dropped, failures>>

Stop ==
  /\ ~serving /\ ~stop
  /\ stop' = TRUE
  /\ UNCHANGED <<serving, arrived, queue, batch, pc, joined, row, flushed, dropped, failures>>

Join ==
  /\ stop /\ pc = "returned" /\ ~joined
  /\ joined' = TRUE
  /\ UNCHANGED <<serving, arrived, queue, batch, pc, stop, row, flushed, dropped, failures>>

-----------------------------------------------------------------------------
RunLoop == Test \/ NothingToDo \/ TakeBatch \/ Flush \/ FlushThrows

Next == \/ \E t \in Task : AddStatusUpdate(t)
        \/ RunLoop
        \/ ServerShutdown \/ Stop \/ Join

Spec == Init /\ [][Next]_vars

-----------------------------------------------------------------------------
Op == 1 .. Len(arrived)

\* The types of the variables.
TypeOK ==
  /\ serving \in BOOLEAN /\ stop \in BOOLEAN /\ joined \in BOOLEAN
  /\ arrived \in Seq(Task)
  /\ queue \in Seq(Op) /\ batch \in Seq(Op)
  /\ pc \in {"test", "wait", "flush", "returned"}
  /\ row \in [Task -> 0 .. Len(arrived)]
  /\ flushed \subseteq Op /\ dropped \subseteq Op
  /\ failures \in 0 .. MaxFailures

\* What is in memory is always the newest operations in the order of arrival:
\* nothing is overtaken, written twice or skipped.
InOrder ==
  /\ TypeOK
  /\ batch \o queue = [i \in 1 .. Len(batch) + Len(queue) |->
                         Len(arrived) - Len(batch) - Len(queue) + i]
  /\ flushed \cup dropped = 1 .. Len(arrived) - Len(batch) - Len(queue)
  /\ flushed \cap dropped = {}

\* The row of a task never goes back to the result of an earlier batch.
NewerBatchesWin == [][\A t \in Task : row'[t] >= row[t]]_vars

\* db_batcher.hpp:35, Stop() waits until the rest is flushed: every operation
\* that a handler added has been written or its UPDATE has thrown.
Drained == joined => flushed \cup dropped = Op

\* Stop() returns, however the thread was interrupted by it.
StopReturns == stop ~> joined
===============================================================================
