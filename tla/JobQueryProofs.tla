---------------------------- MODULE JobQueryProofs ----------------------------
(***************************************************************************)
(* For every set of tasks, every batch size and every number of reports    *)
(* and of failing statements: the queue of DbBatcher keeps the order of    *)
(* arrival and loses nothing by itself, a newer batch wins, Stop() leaves  *)
(* nothing behind, and a client is never told more than is true.           *)
(***************************************************************************)
EXTENDS JobQuery, SequenceTheorems, TLAPS

\* How many operations have left the memory, by a commit or by an exception.
Gone == Len(arrived) - Len(batch) - Len(queue)

\* Positions are numbers; that they are positions of arrived follows from
\* Consecutive.
Types ==
  /\ serving \in BOOLEAN /\ stop \in BOOLEAN /\ joined \in BOOLEAN
  /\ arrived \in Seq(Task)
  /\ queue \in Seq(Nat) /\ batch \in Seq(Nat)
  /\ pc \in {"test", "wait", "flush", "returned"}
  /\ row \in [Task -> Nat]
  /\ failures \in 0 .. MaxFailures

\* The batch and then the queue hold the newest operations, one by one.
Consecutive ==
  /\ Gone \in Nat
  /\ \A i \in 1 .. Len(batch) : batch[i] = Gone + i
  /\ \A i \in 1 .. Len(queue) : queue[i] = Gone + Len(batch) + i

\* The older ones were written or have thrown, each once, and no row shows an
\* operation that is still in memory.
Settled ==
  /\ flushed \cup dropped = 1 .. Gone
  /\ flushed \cap dropped = {}
  /\ \A t \in Task : row[t] <= Gone

\* The thread holds a batch only while it flushes, returns only when Stop() has
\* been called and nothing is left, and Stop() is called when no handler runs.
ShutdownOrder ==
  /\ pc # "flush" => batch = <<>>
  /\ stop => ~serving
  /\ pc = "returned" => stop /\ queue = <<>>
  /\ joined => pc = "returned"

IInv == Types /\ Consecutive /\ Settled /\ ShutdownOrder

-----------------------------------------------------------------------------
\* The elements of a sequence are its values.
LEMMA ToSetSeq ==
  ASSUME NEW S, NEW s \in Seq(S)
  PROVE  ToSet(s) = {s[i] : i \in 1 .. Len(s)}
BY LenProperties DEF ToSet

\* The lengths are numbers.
LEMMA Lengths ==
  ASSUME IInv
  PROVE  /\ Len(batch) \in Nat /\ Len(queue) \in Nat /\ Len(arrived) \in Nat
         /\ Gone \in Nat /\ Gone + Len(batch) + Len(queue) = Len(arrived)
<1>1. Len(batch) \in Nat /\ Len(queue) \in Nat /\ Len(arrived) \in Nat
  BY LenProperties DEF IInv, Types
<1> QED BY <1>1 DEF IInv, Consecutive, Gone

\* The positions in the batch are the Len(batch) oldest ones in memory.
LEMMA BatchPositions ==
  ASSUME IInv
  PROVE  /\ ToSet(batch) = Gone + 1 .. Gone + Len(batch)
         /\ Gone + Len(batch) <= Len(arrived)
<1>0. Len(batch) \in Nat /\ Len(queue) \in Nat /\ Len(arrived) \in Nat /\ Gone \in Nat
  BY Lengths
<1>1. /\ ToSet(batch) = {batch[i] : i \in 1 .. Len(batch)}
      /\ \A i \in 1 .. Len(batch) : batch[i] = Gone + i
  BY ToSetSeq DEF IInv, Types, Consecutive
<1>2. ASSUME NEW k \in Gone + 1 .. Gone + Len(batch)
      PROVE  k \in ToSet(batch)
  <2> DEFINE i == k - Gone
  <2>1. i \in 1 .. Len(batch) /\ k = Gone + i
    BY <1>0
  <2> HIDE DEF i
  <2>2. batch[i] = k
    BY <1>1, <2>1
  <2> QED BY <1>1, <2>1, <2>2
<1>3. ASSUME NEW k \in ToSet(batch)
      PROVE  k \in Gone + 1 .. Gone + Len(batch)
  BY <1>0, <1>1
<1>4. Gone + Len(batch) <= Len(arrived)
  BY Lengths
<1> QED BY <1>2, <1>3, <1>4

\* The invariant implies the one that is checked.
LEMMA IInvInOrder == IInv => InOrder
<1> SUFFICES ASSUME IInv PROVE InOrder
  OBVIOUS
<1>0. /\ Len(batch) \in Nat /\ Len(queue) \in Nat /\ Len(arrived) \in Nat
      /\ Gone \in Nat /\ Gone + Len(batch) + Len(queue) = Len(arrived)
  BY Lengths
<1>1. TypeOK
  <2>1. \A i \in 1 .. Len(queue) : queue[i] \in 1 .. Len(arrived)
    BY <1>0 DEF IInv, Consecutive
  <2>2. \A i \in 1 .. Len(batch) : batch[i] \in 1 .. Len(arrived)
    BY <1>0 DEF IInv, Consecutive
  <2>3. queue \in [1 .. Len(queue) -> 1 .. Len(arrived)]
    BY <2>1, LenProperties DEF IInv, Types
  <2>4. batch \in [1 .. Len(batch) -> 1 .. Len(arrived)]
    BY <2>2, LenProperties DEF IInv, Types
  <2>5. queue \in Seq(Op) /\ batch \in Seq(Op)
    BY ZenonT(60), <1>0, <2>3, <2>4, SeqDef DEF Op
  <2>6. row \in [Task -> 0 .. Len(arrived)]
    BY <1>0 DEF IInv, Types, Settled
  <2>7. flushed \subseteq Op /\ dropped \subseteq Op
    BY <1>0 DEF IInv, Settled, Op
  <2> QED BY <2>5, <2>6, <2>7 DEF IInv, Types, TypeOK
<1>2. batch \o queue = [i \in 1 .. Len(batch) + Len(queue) |->
                         Len(arrived) - Len(batch) - Len(queue) + i]
  <2>1. /\ batch \o queue \in Seq(Nat)
        /\ Len(batch \o queue) = Len(batch) + Len(queue)
        /\ \A i \in 1 .. Len(batch) + Len(queue) :
             (batch \o queue)[i] = IF i <= Len(batch) THEN batch[i] ELSE queue[i - Len(batch)]
    BY ConcatProperties DEF IInv, Types
  <2>2. \A i \in 1 .. Len(batch) + Len(queue) : (batch \o queue)[i] = Gone + i
    BY <1>0, <2>1 DEF IInv, Consecutive
  <2>3. batch \o queue \in [1 .. Len(batch) + Len(queue) -> Nat]
    BY <2>1, LenProperties
  <2> QED BY <2>2, <2>3 DEF Gone
<1> QED BY <1>1, <1>2 DEF InOrder, IInv, Settled, Gone

-----------------------------------------------------------------------------
LEMMA InitIInv == Init => IInv
<1> SUFFICES ASSUME Init PROVE IInv
  OBVIOUS
<1>1. arrived \in Seq(Task) /\ Len(arrived) = 0
  BY DEF Init
<1>2. queue \in Seq(Nat) /\ Len(queue) = 0 /\ batch \in Seq(Nat) /\ Len(batch) = 0
  BY DEF Init
<1>3. Gone = 0 /\ Types
  <2>1. Gone = 0
    BY <1>1, <1>2 DEF Gone
  <2>2. row \in [Task -> Nat] /\ failures \in 0 .. MaxFailures
    BY DbBatcherAssumption DEF Init
  <2>3. /\ serving \in BOOLEAN /\ stop \in BOOLEAN /\ joined \in BOOLEAN
        /\ pc \in {"test", "wait", "flush", "returned"}
    BY DEF Init
  <2> QED BY <1>1, <1>2, <2>1, <2>2, <2>3 DEF Types
<1>4. Consecutive
  BY <1>2, <1>3 DEF Consecutive
<1>5. Settled
  BY <1>3 DEF Settled, Init
<1>6. ShutdownOrder
  BY DEF ShutdownOrder, Init
<1> QED BY <1>3, <1>4, <1>5, <1>6 DEF IInv

\* A handler's operation gets the next position, behind all others.
LEMMA AddStep ==
  ASSUME IInv, NEW t \in Task, AddStatusUpdate(t)
  PROVE  IInv'
<1>0. /\ Len(batch) \in Nat /\ Len(queue) \in Nat /\ Len(arrived) \in Nat
      /\ Gone \in Nat /\ Gone + Len(batch) + Len(queue) = Len(arrived)
  BY Lengths
<1>1. /\ queue' \in Seq(Nat) /\ Len(queue') = Len(queue) + 1
      /\ \A i \in 1 .. Len(queue) : queue'[i] = queue[i]
      /\ queue'[Len(queue) + 1] = Len(arrived) + 1
  BY <1>0, AppendProperties DEF AddStatusUpdate, Pushed, IInv, Types
<1>2. arrived' \in Seq(Task) /\ Len(arrived') = Len(arrived) + 1
  BY AppendProperties DEF AddStatusUpdate, IInv, Types
<1>3. Gone' = Gone
  <2>1. batch' = batch
    BY DEF AddStatusUpdate
  <2> QED BY <1>0, <1>1, <1>2, <2>1 DEF Gone
<1>4. Types'
  BY <1>1, <1>2 DEF IInv, Types, AddStatusUpdate
<1>5. Consecutive'
  <2>1. ASSUME NEW i \in 1 .. Len(queue')
        PROVE  queue'[i] = Gone + Len(batch) + i
    <3>1. CASE i = Len(queue) + 1
      BY <1>0, <1>1, <3>1
    <3>2. CASE i \in 1 .. Len(queue)
      BY <1>0, <1>1, <3>2 DEF IInv, Consecutive
    <3> QED BY <1>0, <1>1, <3>1, <3>2
  <2> QED BY <1>0, <1>3, <2>1 DEF IInv, Consecutive, AddStatusUpdate
<1>6. Settled' /\ ShutdownOrder'
  BY <1>3 DEF IInv, Settled, ShutdownOrder, AddStatusUpdate
<1> QED BY <1>4, <1>5, <1>6 DEF IInv

\* TakeBatch cuts the queue in two and keeps every operation in memory.
LEMMA TakeStep ==
  ASSUME IInv, TakeBatch
  PROVE  IInv'
<1>0. /\ Len(batch) \in Nat /\ Len(queue) \in Nat /\ Len(arrived) \in Nat
      /\ Gone \in Nat /\ Gone + Len(batch) + Len(queue) = Len(arrived)
  BY Lengths
<1>1. batch = <<>> /\ Len(batch) = 0
  BY EmptySeq DEF IInv, ShutdownOrder, TakeBatch
<1> DEFINE n == Smaller(BatchSize, Len(queue))
<1>2. n \in 0 .. Len(queue)
  BY <1>0, DbBatcherAssumption DEF Smaller
<1>3. batch' = SubSeq(queue, 1, n) /\ queue' = SubSeq(queue, n + 1, Len(queue))
  BY DEF TakeBatch, First, Left
<1>4. UNCHANGED <<serving, arrived, stop, joined, row, flushed, dropped, failures>>
  BY DEF TakeBatch
<1> HIDE DEF n
<1>5. \A i \in 1 .. Len(queue) : queue[i] \in Nat
  BY ElementOfSeq DEF IInv, Types
<1>6. /\ batch' \in Seq(Nat) /\ Len(batch') = n
      /\ \A i \in 1 .. n : batch'[i] = queue[i]
  <2>1. \A i \in 1 .. n : queue[i] \in Nat
    BY <1>0, <1>2, <1>5
  <2>2. /\ SubSeq(queue, 1, n) \in Seq(Nat)
        /\ Len(SubSeq(queue, 1, n)) = IF 1 <= n THEN n - 1 + 1 ELSE 0
        /\ \A i \in 1 .. n - 1 + 1 : SubSeq(queue, 1, n)[i] = queue[1 + i - 1]
    BY <1>2, <2>1, SubSeqProperties
  <2> QED BY <1>2, <1>3, <2>2
<1>7. /\ queue' \in Seq(Nat) /\ Len(queue') = Len(queue) - n
      /\ \A i \in 1 .. Len(queue) - n : queue'[i] = queue[n + i]
  <2>1. \A i \in n + 1 .. Len(queue) : queue[i] \in Nat
    BY <1>0, <1>2, <1>5
  <2>2. /\ SubSeq(queue, n + 1, Len(queue)) \in Seq(Nat)
        /\ Len(SubSeq(queue, n + 1, Len(queue))) =
             IF n + 1 <= Len(queue) THEN Len(queue) - (n + 1) + 1 ELSE 0
        /\ \A i \in 1 .. Len(queue) - (n + 1) + 1 :
             SubSeq(queue, n + 1, Len(queue))[i] = queue[n + 1 + i - 1]
    BY <1>0, <1>2, <2>1, SubSeqProperties
  <2> QED BY <1>0, <1>2, <1>3, <2>2
<1>8. Gone' = Gone
  BY <1>0, <1>1, <1>2, <1>4, <1>6, <1>7 DEF Gone
<1>9. Types'
  BY <1>4, <1>6, <1>7 DEF IInv, Types, TakeBatch
<1>10. Consecutive'
  <2>1. \A i \in 1 .. Len(queue) : queue[i] = Gone + i
    BY <1>0, <1>1 DEF IInv, Consecutive
  <2>2. \A i \in 1 .. n : batch'[i] = Gone + i
    <3>1. \A i \in 1 .. n : i \in 1 .. Len(queue)
      BY <1>0, <1>2
    <3>2. \A i \in 1 .. n : queue[i] = Gone + i
      BY <2>1, <3>1
    <3> QED BY <1>6, <3>2, Zenon
  <2>3. \A i \in 1 .. Len(queue) - n : queue'[i] = Gone + n + i
    <3>1. \A i \in 1 .. Len(queue) - n : n + i \in 1 .. Len(queue)
      BY <1>0, <1>2
    <3>2. \A i \in 1 .. Len(queue) - n : queue[n + i] = Gone + (n + i)
      BY <2>1, <3>1
    <3> QED BY <1>0, <1>2, <1>7, <3>2
  <2> QED BY <1>0, <1>6, <1>7, <1>8, <2>2, <2>3 DEF Consecutive
<1>11. Settled'
  BY <1>4, <1>8 DEF IInv, Settled
<1>12. ShutdownOrder'
  BY <1>4 DEF IInv, ShutdownOrder, TakeBatch
<1> QED BY <1>9, <1>10, <1>11, <1>12 DEF IInv

\* What both ends of a flush do: the batch is gone, and with it its operations.
LEMMA BatchCleared ==
  ASSUME IInv, batch' = <<>>, UNCHANGED <<arrived, queue>>
  PROVE  /\ Len(batch') = 0 /\ batch' \in Seq(Nat)
         /\ Gone' = Gone + Len(batch)
         /\ Consecutive'
         /\ 1 .. Gone' = (1 .. Gone) \cup ToSet(batch)
         /\ (1 .. Gone) \cap ToSet(batch) = {}
<1>0. /\ Len(batch) \in Nat /\ Len(queue) \in Nat /\ Len(arrived) \in Nat
      /\ Gone \in Nat /\ Gone + Len(batch) + Len(queue) = Len(arrived)
  BY Lengths
<1>1. Len(batch') = 0 /\ batch' \in Seq(Nat)
  OBVIOUS
<1>2. Len(queue') = Len(queue) /\ Len(arrived') = Len(arrived)
  OBVIOUS
<1>3. Gone' = Gone + Len(batch)
  BY <1>0, <1>1, <1>2 DEF Gone
<1>4. Consecutive'
  <2>1. \A i \in 1 .. Len(queue) : queue'[i] = Gone + Len(batch) + i
    BY DEF IInv, Consecutive
  <2> QED BY <1>0, <1>1, <1>2, <1>3, <2>1 DEF Consecutive
<1>5. ToSet(batch) = Gone + 1 .. Gone + Len(batch)
  BY BatchPositions
<1>6. 1 .. Gone' = (1 .. Gone) \cup (Gone + 1 .. Gone + Len(batch))
  BY <1>0, <1>3
<1>7. (1 .. Gone) \cap (Gone + 1 .. Gone + Len(batch)) = {}
  BY <1>0
<1> QED BY <1>1, <1>3, <1>4, <1>5, <1>6, <1>7

\* The row of a task shows an operation of the batch, or what it showed.
LEMMA FlushedRows ==
  ASSUME IInv, Flush, NEW t \in Task
  PROVE  /\ row'[t] \in Nat
         /\ row'[t] = row[t] \/ row'[t] \in ToSet(batch)
         /\ row[t] <= row'[t]
         /\ row'[t] <= Gone + Len(batch)
<1>0. /\ Len(batch) \in Nat /\ Gone \in Nat /\ row[t] \in Nat /\ row[t] <= Gone
  BY Lengths DEF IInv, Types, Settled
<1>1. row'[t] \in NewRow(t)
  BY DEF Flush
<1>2. row'[t] = row[t] \/ row'[t] \in ToSet(batch)
  BY <1>1 DEF NewRow, Values
<1>3. ToSet(batch) = Gone + 1 .. Gone + Len(batch)
  BY BatchPositions
<1> QED BY <1>0, <1>2, <1>3

LEMMA FlushStep ==
  ASSUME IInv, Flush
  PROVE  IInv'
<1>1. /\ batch' = <<>> /\ pc' = "test" /\ flushed' = flushed \cup ToSet(batch)
      /\ UNCHANGED <<serving, arrived, queue, stop, joined, dropped, failures>>
      /\ row' \in [Task -> 0 .. MaxOps]
  BY DEF Flush
<1>2. /\ batch' \in Seq(Nat)
      /\ Gone' = Gone + Len(batch)
      /\ Consecutive'
      /\ 1 .. Gone' = (1 .. Gone) \cup ToSet(batch)
      /\ (1 .. Gone) \cap ToSet(batch) = {}
  BY <1>1, BatchCleared
<1>3. Types'
  <2>1. row' \in [Task -> Nat]
    BY <1>1, DbBatcherAssumption
  <2> QED BY <1>1, <1>2, <2>1 DEF IInv, Types
<1>4. Settled'
  <2>1. flushed' \cup dropped' = 1 .. Gone' /\ flushed' \cap dropped' = {}
    BY <1>1, <1>2 DEF IInv, Settled
  <2>2. \A t \in Task : row'[t] <= Gone'
    BY <1>2, FlushedRows
  <2> QED BY <2>1, <2>2 DEF Settled
<1>5. ShutdownOrder'
  BY <1>1 DEF IInv, ShutdownOrder, Flush
<1> QED BY <1>2, <1>3, <1>4, <1>5 DEF IInv

LEMMA ThrowStep ==
  ASSUME IInv, FlushThrows
  PROVE  IInv'
<1>1. /\ batch' = <<>> /\ pc' = "test" /\ dropped' = dropped \cup ToSet(batch)
      /\ UNCHANGED <<serving, arrived, queue, stop, joined, row, flushed>>
      /\ failures < MaxFailures /\ failures' = failures + 1
  BY DEF FlushThrows
<1>2. /\ batch' \in Seq(Nat)
      /\ Gone' = Gone + Len(batch)
      /\ Consecutive'
      /\ 1 .. Gone' = (1 .. Gone) \cup ToSet(batch)
      /\ (1 .. Gone) \cap ToSet(batch) = {}
  BY <1>1, BatchCleared
<1>3. Types'
  <2>1. failures' \in 0 .. MaxFailures
    BY <1>1, DbBatcherAssumption DEF IInv, Types
  <2> QED BY <1>1, <1>2, <2>1 DEF IInv, Types
<1>4. Settled'
  <2>1. flushed' \cup dropped' = 1 .. Gone' /\ flushed' \cap dropped' = {}
    BY <1>1, <1>2 DEF IInv, Settled
  <2>2. \A t \in Task : row'[t] \in Nat /\ row'[t] <= Gone
    BY <1>1 DEF IInv, Settled, Types
  <2>3. Gone \in Nat /\ Len(batch) \in Nat
    BY Lengths
  <2> QED BY <1>2, <2>1, <2>2, <2>3 DEF Settled
<1>5. ShutdownOrder'
  BY <1>1 DEF IInv, ShutdownOrder, FlushThrows
<1> QED BY <1>2, <1>3, <1>4, <1>5 DEF IInv

\* The other steps move no operation.
LEMMA QuietStep ==
  ASSUME IInv, UNCHANGED <<arrived, queue, batch, row, flushed, dropped>>,
         Types', ShutdownOrder'
  PROVE  IInv'
<1>1. Gone' = Gone
  BY DEF Gone
<1>2. Consecutive'
  BY <1>1 DEF IInv, Consecutive
<1>3. Settled'
  BY <1>1 DEF IInv, Settled
<1> QED BY <1>2, <1>3 DEF IInv

LEMMA NextIInv == IInv /\ [Next]_vars => IInv'
<1> SUFFICES ASSUME IInv, [Next]_vars PROVE IInv'
  OBVIOUS
<1>1. ASSUME NEW t \in Task, AddStatusUpdate(t)
      PROVE  IInv'
  BY <1>1, AddStep
<1>2. CASE TakeBatch
  BY <1>2, TakeStep
<1>3. CASE Flush
  BY <1>3, FlushStep
<1>4. CASE FlushThrows
  BY <1>4, ThrowStep
<1> USE QuietStep DEF IInv, Types, ShutdownOrder
<1>5. CASE Test
  BY <1>5 DEF Test, GoesOn
<1>6. CASE NothingToDo
  BY <1>6 DEF NothingToDo
<1>7. CASE ServerShutdown
  BY <1>7 DEF ServerShutdown
<1>8. CASE Stop
  BY <1>8 DEF Stop
<1>9. CASE Join
  BY <1>9 DEF Join
<1>10. CASE UNCHANGED vars
  BY <1>10 DEF vars
<1> QED BY <1>1, <1>2, <1>3, <1>4, <1>5, <1>6, <1>7, <1>8, <1>9, <1>10 DEF Next, RunLoop

LEMMA Invariance == Spec => []IInv
BY InitIInv, NextIInv, PTL DEF Spec

\* Once Stop() has returned, nothing is in memory.
LEMMA IInvDrained == IInv => Drained
<1> SUFFICES ASSUME IInv, joined PROVE flushed \cup dropped = Op
  BY DEF Drained
<1>1. Len(queue) = 0 /\ Len(batch) = 0
  BY EmptySeq DEF IInv, ShutdownOrder
<1>2. Gone = Len(arrived)
  BY <1>1, Lengths
<1> QED BY <1>2 DEF IInv, Settled, Op

\* A step of the batcher never takes a row back to an older operation.
LEMMA RowsGrow ==
  ASSUME IInv, [Next]_vars
  PROVE  \A t \in Task : row'[t] >= row[t]
<1>0. \A t \in Task : row[t] \in Nat
  BY DEF IInv, Types
<1>1. CASE Flush
  BY <1>0, <1>1, FlushedRows
<1>2. CASE UNCHANGED row
  BY <1>0, <1>2
<1> QED BY <1>1, <1>2 DEF Next, RunLoop, vars, AddStatusUpdate, Test, NothingToDo,
                         TakeBatch, FlushThrows, ServerShutdown, Stop, Join

-----------------------------------------------------------------------------
\* What DbBatcher holds in memory is always the newest operations in the order
\* of arrival; every older one was written or its UPDATE threw, and never both.
THEOREM BatcherInOrder == Spec => []InOrder
BY Invariance, IInvInOrder, PTL

\* When Stop() has returned, every operation that a handler ever added was
\* written or its UPDATE threw.
THEOREM BatcherDrained == Spec => []Drained
BY Invariance, IInvDrained, PTL

\* A row is never taken back to the result of an earlier batch.
THEOREM BatcherNewerWins == Spec => NewerBatchesWin
<1>1. IInv /\ [Next]_vars => [\A t \in Task : row'[t] >= row[t]]_vars
  BY RowsGrow
<1> QED BY <1>1, Invariance, PTL DEF Spec, NewerBatchesWin

-----------------------------------------------------------------------------
(***************************************************************************)
(* The job query on top: a step of the composition is a step of the        *)
(* batcher, a failed transaction of the handler, or leaves it alone.       *)
(***************************************************************************)

\* A row shows SUCCESS only for a task that has reported, FAILED only when a
\* task was given up, and the last answer says no more.
JobInv ==
  /\ committed \in BOOLEAN /\ known \in BOOLEAN
  /\ state \in [Task -> {"PENDING", "SUCCESS", "FAILED"}]
  /\ \A t \in Task : /\ state[t] = "SUCCESS" => t \in ToSet(arrived)
                     /\ state[t] = "FAILED"  => failed = "given up"
  /\ AnswerTrue

\* Failing in the handler only counts.
LEMMA DatabaseFailsStep ==
  ASSUME IInv, DatabaseFails
  PROVE  IInv' /\ UNCHANGED <<arrived, row>>
<1>1. /\ failures < MaxFailures /\ failures' = failures + 1
      /\ UNCHANGED <<serving, arrived, queue, batch, pc, stop, joined, row, flushed, dropped>>
  BY DEF DatabaseFails
<1>2. failures' \in 0 .. MaxFailures
  BY <1>1, DbBatcherAssumption DEF IInv, Types
<1>3. Types' /\ ShutdownOrder'
  BY <1>1, <1>2 DEF IInv, Types, ShutdownOrder
<1> QED BY <1>1, <1>3, QuietStep

\* What a step of the composition is for the batcher.
LEMMA JobStepOfBatcher ==
  ASSUME [JobNext]_allVars
  PROVE  [Next]_vars \/ DatabaseFails
<1>1. CASE Writers
  BY <1>1 DEF Writers, Commit, ReportSuccess, ReportFailure, RevertTaskToPending, Next
<1>2. CASE Batcher
  BY <1>2 DEF Batcher, FlushRows, Next, RunLoop
<1>3. CASE Handle
  BY <1>3 DEF Handle, FindTasks, FindTasksThrows, FetchTaskDetails, FetchTaskDetailsThrows
<1>4. CASE ServerShutdown \/ Stop \/ Join
  BY <1>4 DEF Next
<1>5. CASE UNCHANGED allVars
  BY <1>5 DEF allVars
<1> QED BY <1>1, <1>2, <1>3, <1>4, <1>5 DEF JobNext

LEMMA JobStepIInv == IInv /\ [JobNext]_allVars => IInv'
BY JobStepOfBatcher, NextIInv, DatabaseFailsStep

\* Reports are never forgotten.
LEMMA ReportsGrow ==
  ASSUME IInv, [JobNext]_allVars
  PROVE  ToSet(arrived) \subseteq ToSet(arrived')
<1>1. ASSUME NEW t \in Task, AddStatusUpdate(t)
      PROVE  ToSet(arrived) \subseteq ToSet(arrived')
  <2>1. arrived \in Seq(Task) /\ arrived' = Append(arrived, t)
    BY <1>1 DEF AddStatusUpdate, IInv, Types
  <2>2. /\ arrived' \in Seq(Task) /\ Len(arrived') = Len(arrived) + 1
        /\ \A i \in 1 .. Len(arrived) : arrived'[i] = arrived[i]
    BY <2>1, AppendProperties
  <2>3. Len(arrived) \in Nat
    BY <2>1, LenProperties
  <2>4. /\ ToSet(arrived) = {arrived[i] : i \in 1 .. Len(arrived)}
        /\ ToSet(arrived') = {arrived'[i] : i \in 1 .. Len(arrived')}
    BY ZenonT(60), <2>1, <2>2, ToSetSeq
  <2>5. \A i \in 1 .. Len(arrived) : i \in 1 .. Len(arrived')
    BY <2>2, <2>3
  <2> QED BY <2>2, <2>4, <2>5, Zenon
<1>2. CASE UNCHANGED arrived
  BY <1>2
<1>3. [Next]_vars \/ DatabaseFails
  BY JobStepOfBatcher
<1> QED BY <1>1, <1>2, <1>3
        DEF Next, RunLoop, vars, DatabaseFails, Test, NothingToDo, TakeBatch, Flush,
            FlushThrows, ServerShutdown, Stop, Join

\* What JobState may conclude from the rows that came.
LEMMA JobStateTrue ==
  ASSUME NEW rows \in SUBSET Task
  PROVE  /\ JobState(rows) = "JOB_SUCCESS" => \A t \in Task : state[t] = "SUCCESS"
         /\ JobState(rows) = "JOB_FAILED" => \E t \in Task : state[t] = "FAILED"
         /\ JobState(rows) # "JOB_NOT_FOUND"
<1> DEFINE failedRows == {t \in rows : state[t] = "FAILED"}
           success == {t \in rows : state[t] = "SUCCESS"}
           pending == {t \in rows : state[t] = "PENDING"}
<1>1. JobState(rows) = IF failedRows # {} THEN "JOB_FAILED"
                       ELSE IF success = Task THEN "JOB_SUCCESS"
                       ELSE IF pending = Task THEN "JOB_PENDING"
                       ELSE "JOB_RUNNING"
  BY DEF JobState, Complete
<1>2. CASE failedRows # {}
  BY <1>1, <1>2
<1>3. CASE failedRows = {} /\ success = Task
  BY <1>1, <1>3
<1>4. CASE failedRows = {} /\ success # Task
  <2>1. JobState(rows) \in {"JOB_PENDING", "JOB_RUNNING"}
    BY <1>1, <1>4
  <2> QED BY <2>1
<1> QED BY <1>2, <1>3, <1>4

\* An answer computed from any of the rows is true when it is given.
LEMMA AnswerStep ==
  ASSUME JobInv, NEW rows \in SUBSET Task, Answer(rows), UNCHANGED arrived
  PROVE  JobInv'
<1>1. answer' = JobState(rows) /\ UNCHANGED <<committed, state, failed, known, arrived>>
  BY DEF Answer, rowVars
<1>2. answer' = "JOB_SUCCESS" => Reported'
  BY <1>1, JobStateTrue DEF JobInv, Reported
<1>3. answer' = "JOB_FAILED" => failed' = "given up"
  BY <1>1, JobStateTrue DEF JobInv
<1>4. answer' # "JOB_NOT_FOUND"
  BY <1>1, JobStateTrue
<1>5. AnswerTrue'
  BY <1>2, <1>3, <1>4 DEF AnswerTrue
<1> QED BY <1>1, <1>5 DEF JobInv

\* A batch that is written turns rows of tasks that have reported to SUCCESS.
LEMMA FlushRowsStep ==
  ASSUME IInv, JobInv, FlushRows
  PROVE  JobInv'
<1>1. /\ state' = [t \in Task |-> IF Values(t) # {} THEN "SUCCESS" ELSE state[t]]
      /\ UNCHANGED <<arrived, committed, failed, step, known, answer>>
  BY DEF FlushRows, Flush, queryVars
<1>2. ASSUME NEW t \in Task, Values(t) # {}
      PROVE  t \in ToSet(arrived)
  <2>1. PICK k \in ToSet(batch) : arrived[k] = t
    BY <1>2 DEF Values
  <2>2. k \in 1 .. Len(arrived)
    BY <2>1, BatchPositions, Lengths
  <2>3. ToSet(arrived) = {arrived[i] : i \in 1 .. Len(arrived)}
    BY ToSetSeq DEF IInv, Types
  <2> QED BY <2>1, <2>2, <2>3
<1>3. state' \in [Task -> {"PENDING", "SUCCESS", "FAILED"}]
  BY <1>1 DEF JobInv
<1>4. \A t \in Task : /\ state'[t] = "SUCCESS" => t \in ToSet(arrived')
                      /\ state'[t] = "FAILED"  => failed' = "given up"
  BY <1>1, <1>2 DEF JobInv
<1>5. AnswerTrue'
  BY <1>1 DEF JobInv, AnswerTrue, Reported
<1> QED BY <1>1, <1>3, <1>4, <1>5 DEF JobInv

LEMMA JobNextInv == IInv /\ JobInv /\ [JobNext]_allVars => JobInv'
<1> SUFFICES ASSUME IInv, JobInv, [JobNext]_allVars PROVE JobInv'
  OBVIOUS
<1>0. ToSet(arrived) \subseteq ToSet(arrived')
  BY ReportsGrow
<1>1. CASE UNCHANGED <<rowVars, queryVars>>
  BY <1>0, <1>1 DEF rowVars, queryVars, JobInv, AnswerTrue, Reported
<1>2. CASE Commit
  BY <1>0, <1>2 DEF Commit, queryVars, JobInv, AnswerTrue, Reported
<1>3. ASSUME NEW t \in Task, ReportFailure(t)
      PROVE  JobInv'
  BY <1>0, <1>3 DEF ReportFailure, queryVars, JobInv, AnswerTrue, Reported
<1>4. ASSUME NEW t \in Task, RevertTaskToPending(t)
      PROVE  JobInv'
  BY <1>0, <1>4 DEF RevertTaskToPending, queryVars, JobInv, AnswerTrue, Reported
<1>5. CASE FlushRows
  BY <1>5, FlushRowsStep
<1>6. CASE FindTasks
  BY <1>0, <1>6 DEF FindTasks, rowVars, JobInv, AnswerTrue
<1>7. CASE FindTasksThrows
  BY <1>0, <1>7 DEF FindTasksThrows, rowVars, JobInv, AnswerTrue
<1>8. CASE FetchTaskDetails
  BY <1>8, AnswerStep DEF FetchTaskDetails, vars
<1>9. CASE FetchTaskDetailsThrows
  BY <1>9, AnswerStep DEF FetchTaskDetailsThrows, vars, DatabaseFails
<1> QED BY <1>1, <1>2, <1>3, <1>4, <1>5, <1>6, <1>7, <1>8, <1>9
        DEF JobNext, Writers, Batcher, Handle, ReportSuccess, allVars

\* The handler, the batcher and the other writers of the rows.
JobSafetySpec == JobInit /\ [][JobNext]_allVars

LEMMA JobInvariance == JobSafetySpec => [](IInv /\ JobInv)
<1>1. JobInit => IInv
  BY InitIInv DEF JobInit
<1>2. JobInit => JobInv
  BY DEF JobInit, JobInv, AnswerTrue
<1> QED BY <1>1, <1>2, JobStepIInv, JobNextInv, PTL DEF JobSafetySpec

-----------------------------------------------------------------------------
\* However the two transactions of a query interleave with commits, batches, reverts and
\* failure reports, and whichever of them throws: JOB_SUCCESS means that every
\* task has reported success, JOB_FAILED that one was given up, JOB_NOT_FOUND
\* that the job was not committed when the query began.
THEOREM AnswersAreTrue == JobFairSpec => []AnswerTrue
<1>1. JobInv => AnswerTrue
  BY DEF JobInv
<1>2. JobFairSpec => JobSafetySpec
  BY PTL DEF JobFairSpec, JobSafetySpec
<1> QED BY <1>1, <1>2, JobInvariance, PTL

\* What is proved of the batcher holds of it among the other writers.
THEOREM BatcherInTheSystem == JobFairSpec => [](InOrder /\ Drained) /\ NewerBatchesWin
<1>1. JobFairSpec => JobSafetySpec
  BY PTL DEF JobFairSpec, JobSafetySpec
<1>2. IInv => InOrder /\ Drained
  BY IInvInOrder, IInvDrained
<1>3. IInv /\ [JobNext]_allVars => [\A t \in Task : row'[t] >= row[t]]_vars
  <2>1. ASSUME IInv, DatabaseFails PROVE \A t \in Task : row'[t] >= row[t]
    BY <2>1, DatabaseFailsStep DEF IInv, Types
  <2> QED BY <2>1, JobStepOfBatcher, RowsGrow
<1> QED BY <1>1, <1>2, <1>3, JobInvariance, PTL DEF JobSafetySpec, NewerBatchesWin
===============================================================================
