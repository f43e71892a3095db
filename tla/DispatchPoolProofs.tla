-------------------------- MODULE DispatchPoolProofs --------------------------
(***************************************************************************)
(* For every finite set of threads, jobs and other callers and every       *)
(* number of connections, calls and outages: the pool of the scheduler     *)
(* drains, the connections are conserved, neither condition variable loses *)
(* a wakeup, and the two pools together implement each of them alone.      *)
(***************************************************************************)
EXTENDS DispatchPool, FiniteSetTheorems, SequenceTheorems, TLAPS

\* A thread holds a job only while it runs it.
JobHeld == \A t \in Thread : pc[t] = "run" <=> job[t] # NoJob

\* An accepted job is queued, taken or done.
JobKept ==
  accepted = ToSet(tasks) \cup done \cup {job[t] : t \in {u \in Thread : pc[u] = "run"}}

\* Threads return only after stop_ is set and the queue is empty, and the
\* destructor is through only when all have returned.
StopOrder ==
  /\ stop <=> dtor # "alive"
  /\ \A t \in Thread : pc[t] = "returned" => stop /\ tasks = <<>>
  /\ dtor = "joined" => \A t \in Thread : pc[t] = "returned"

ThreadInv == TypeOK /\ JobHeld /\ JobKept /\ StopOrder /\ NoLostWakeup

-----------------------------------------------------------------------------
\* The threads that compete for the mutex.
Lockers == {t \in Thread : pc[t] = "lock"}

\* One locker more, or one less.
LEMMA CountOne ==
  ASSUME NEW S, NEW A \in SUBSET S, NEW x \in S, IsFiniteSet(S)
  PROVE  /\ Cardinality(A) \in Nat
         /\ x \notin A => Cardinality(A \cup {x}) = Cardinality(A) + 1
         /\ x \in A    => Cardinality(A \ {x}) = Cardinality(A) - 1
<1>1. IsFiniteSet(A)
  BY FS_Subset
<1> QED BY <1>1, FS_CardinalityType, FS_AddElement, FS_RemoveElement

\* The elements of a sequence, and what its operations do to them.
LEMMA SeqElements ==
  ASSUME NEW S, NEW s \in Seq(S)
  PROVE  /\ Len(s) \in Nat
         /\ ToSet(s) \subseteq S
         /\ \A x \in S : /\ Append(s, x) \in Seq(S) /\ Len(Append(s, x)) = Len(s) + 1
                         /\ ToSet(Append(s, x)) = ToSet(s) \cup {x}
         /\ s # <<>> => /\ Head(s) \in S /\ Tail(s) \in Seq(S) /\ Len(Tail(s)) = Len(s) - 1
                        /\ ToSet(s) = ToSet(Tail(s)) \cup {Head(s)}
<1>1. \A q \in Seq(S) : ToSet(q) = {q[i] : i \in 1 .. Len(q)} /\ Len(q) \in Nat
  BY LenProperties DEF ToSet
<1>2. ToSet(s) \subseteq S
  BY <1>1, ElementOfSeq
<1>3. ASSUME NEW x \in S
      PROVE  /\ Append(s, x) \in Seq(S) /\ Len(Append(s, x)) = Len(s) + 1
             /\ ToSet(Append(s, x)) = ToSet(s) \cup {x}
  <2> DEFINE a == Append(s, x)
  <2>1. /\ a \in Seq(S) /\ Len(a) = Len(s) + 1
        /\ \A i \in 1 .. Len(s) : a[i] = s[i]
        /\ a[Len(s) + 1] = x
    BY AppendProperties
  <2> HIDE DEF a
  <2>2. 1 .. Len(a) = (1 .. Len(s)) \cup {Len(s) + 1}
    BY <1>1, <2>1
  <2>3. ToSet(a) = {a[i] : i \in 1 .. Len(a)} /\ ToSet(s) = {s[i] : i \in 1 .. Len(s)}
    BY <1>1, <2>1
  <2>4. ToSet(a) = {a[i] : i \in 1 .. Len(s)} \cup {a[Len(s) + 1]}
    BY <2>2, <2>3, Zenon
  <2>5. {a[i] : i \in 1 .. Len(s)} = {s[i] : i \in 1 .. Len(s)}
    BY <2>1
  <2> QED BY <2>1, <2>3, <2>4, <2>5 DEF a
<1>4. ASSUME s # <<>>
      PROVE  /\ Head(s) \in S /\ Tail(s) \in Seq(S) /\ Len(Tail(s)) = Len(s) - 1
             /\ ToSet(s) = ToSet(Tail(s)) \cup {Head(s)}
  <2> DEFINE r == Tail(s)
  <2>1. /\ Head(s) \in S /\ r \in Seq(S) /\ Len(r) = Len(s) - 1
        /\ \A i \in 1 .. Len(r) : r[i] = s[i + 1]
    BY <1>4, HeadTailProperties
  <2>2. Head(s) = s[1] /\ Len(s) >= 1
    BY <1>4, <1>1, EmptySeq
  <2> HIDE DEF r
  <2>3. ToSet(r) = {r[i] : i \in 1 .. Len(r)} /\ ToSet(s) = {s[i] : i \in 1 .. Len(s)}
    BY <1>1, <2>1
  <2>4. ASSUME NEW x \in ToSet(s)
        PROVE  x = Head(s) \/ x \in ToSet(r)
    <3>1. PICK i \in 1 .. Len(s) : x = s[i]
      BY <2>3
    <3>2. CASE i = 1
      BY <2>2, <3>1, <3>2
    <3>3. CASE i # 1
      <4> DEFINE j == i - 1
      <4>1. j \in 1 .. Len(r) /\ j + 1 = i
        BY <1>1, <2>1, <3>1, <3>3
      <4> HIDE DEF j
      <4>2. r[j] = x
        BY <2>1, <3>1, <4>1
      <4> QED BY <2>3, <4>1, <4>2
    <3> QED BY <3>2, <3>3
  <2>5. Head(s) \in ToSet(s)
    BY <1>1, <2>2, <2>3
  <2>6. ToSet(r) \subseteq ToSet(s)
    <3>1. \A i \in 1 .. Len(r) : i + 1 \in 1 .. Len(s) /\ r[i] = s[i + 1]
      BY <1>1, <2>1
    <3> QED BY <2>3, <3>1
  <2> QED BY <2>1, <2>4, <2>5, <2>6 DEF r
<1> QED BY <1>1, <1>2, <1>3, <1>4

-----------------------------------------------------------------------------
(***************************************************************************)
(* The ThreadPool.                                                         *)
(***************************************************************************)
LEMMA ThreadInit == Init => ThreadInv
<1> SUFFICES ASSUME Init PROVE ThreadInv
  OBVIOUS
<1>1. /\ tasks \in Seq(Job) /\ Len(tasks) = 0 /\ ToSet(tasks) = {}
      /\ \A t \in Thread : pc[t] = "lock" /\ job[t] = NoJob
      /\ stop = FALSE /\ dtor = "alive" /\ accepted = {} /\ done = {}
  BY DEF Init, ToSet
<1>2. TypeOK
  <2>1. pc \in [Thread -> {"lock", "asleep", "run", "returned"}] /\ job \in [Thread -> Job \cup {NoJob}]
    BY DEF Init
  <2>2. owed = 0 /\ rejected = {}
    BY DEF Init
  <2> QED BY <1>1, <2>1, <2>2 DEF TypeOK
<1>3. JobHeld /\ JobKept /\ StopOrder
  BY <1>1 DEF JobHeld, JobKept, StopOrder
<1>4. NoLostWakeup
  BY <1>1 DEF NoLostWakeup, Asleep
<1> QED BY <1>2, <1>3, <1>4 DEF ThreadInv

\* A thread that changes its place and touches no job: what remains to be shown
\* is that it returns only when it may, and that no wakeup is lost.
LEMMA ThreadMoves ==
  ASSUME ThreadInv, NEW t \in Thread, NEW l \in {"lock", "asleep", "returned"},
         pc[t] \in {"lock", "asleep"},
         pc' = [pc EXCEPT ![t] = l],
         UNCHANGED <<tasks, stop, job, owed, dtor, accepted, rejected, done>>,
         l = "returned" => stop /\ tasks = <<>>,
         NoLostWakeup'
  PROVE  ThreadInv'
<1>1. \A u \in Thread : pc'[u] = IF u = t THEN l ELSE pc[u]
  BY DEF ThreadInv, TypeOK
<1>2. TypeOK'
  BY DEF ThreadInv, TypeOK
<1>3. JobHeld'
  BY <1>1 DEF ThreadInv, JobHeld
<1>4. JobKept'
  <2>1. {u \in Thread : pc'[u] = "run"} = {u \in Thread : pc[u] = "run"}
    BY <1>1
  <2> QED BY <2>1 DEF ThreadInv, JobKept
<1>5. StopOrder'
  BY <1>1 DEF ThreadInv, StopOrder
<1> QED BY <1>2, <1>3, <1>4, <1>5 DEF ThreadInv

\* A thread goes to sleep, or returns, only over an empty queue.
LEMMA SleepOrReturnStep ==
  ASSUME ThreadInv, NEW t \in Thread, Sleep(t) \/ Return(t)
  PROVE  ThreadInv'
<1>1. PICK l \in {"asleep", "returned"} : /\ pc' = [pc EXCEPT ![t] = l]
                                          /\ l = "returned" => stop
  BY DEF Sleep, Return, Leaves
<1>2. /\ tasks = <<>> /\ pc[t] = "lock"
      /\ UNCHANGED <<tasks, stop, job, owed, dtor, accepted, rejected, done>>
  BY DEF Sleep, Return, Sleeps, Leaves
<1>3. NoLostWakeup'
  <2>1. Len(tasks') = 0
    BY <1>2
  <2>2. IsFiniteSet(Lockers') /\ Cardinality(Lockers') \in Nat /\ owed' \in Nat
    BY <1>2, FS_Subset, FS_CardinalityType, ThreadPoolAssumption DEF Lockers, ThreadInv, TypeOK
  <2> QED BY <2>1, <2>2 DEF NoLostWakeup, Lockers
<1> QED BY <1>1, <1>2, <1>3, ThreadMoves

\* A thread that is awake again competes for the mutex: one locker more.
LEMMA LockerMore ==
  ASSUME ThreadInv, NEW t \in Thread, pc[t] # "lock", pc' = [pc EXCEPT ![t] = "lock"]
  PROVE  /\ Lockers' = Lockers \cup {t}
         /\ Cardinality(Lockers') = Cardinality(Lockers) + 1
         /\ Cardinality(Lockers) \in Nat
<1>1. Lockers' = Lockers \cup {t} /\ Lockers \in SUBSET Thread /\ t \notin Lockers
  BY DEF Lockers, ThreadInv, TypeOK
<1> QED BY <1>1, CountOne, ThreadPoolAssumption

LEMMA SpuriousStep ==
  ASSUME ThreadInv, NEW t \in Thread, SpuriousWakeup(t)
  PROVE  ThreadInv'
<1>1. /\ pc[t] = "asleep" /\ pc' = [pc EXCEPT ![t] = "lock"]
      /\ UNCHANGED <<tasks, stop, job, owed, dtor, accepted, rejected, done>>
  BY DEF SpuriousWakeup
<1>2. NoLostWakeup'
  <2>1. Len(tasks) <= owed + Cardinality(Lockers)
    BY <1>1 DEF ThreadInv, NoLostWakeup, Asleep, Lockers
  <2>2. Len(tasks) \in Nat /\ owed \in Nat
    BY SeqElements DEF ThreadInv, TypeOK
  <2>3. Cardinality(Lockers') = Cardinality(Lockers) + 1 /\ Cardinality(Lockers) \in Nat
    BY <1>1, LockerMore
  <2>4. Len(tasks') <= owed' + Cardinality(Lockers')
    BY <1>1, <2>1, <2>2, <2>3
  <2> QED BY <2>4 DEF NoLostWakeup, Lockers
<1> QED BY <1>1, <1>2, ThreadMoves

\* The thread that takes a job is the locker that the job had.
LEMMA TakeStep ==
  ASSUME ThreadInv, NEW t \in Thread, Take(t)
  PROVE  ThreadInv'
<1>1. /\ pc[t] = "lock" /\ tasks # <<>> /\ tasks' = Tail(tasks)
      /\ job' = [job EXCEPT ![t] = Head(tasks)] /\ pc' = [pc EXCEPT ![t] = "run"]
      /\ UNCHANGED <<stop, owed, dtor, accepted, rejected, done>>
  BY DEF Take, Rest
<1>2. /\ Len(tasks) \in Nat /\ Head(tasks) \in Job /\ tasks' \in Seq(Job) /\ Len(tasks') = Len(tasks) - 1
      /\ ToSet(tasks) = ToSet(tasks') \cup {Head(tasks)}
  BY <1>1, SeqElements DEF ThreadInv, TypeOK
<1>3. \A u \in Thread : /\ pc'[u] = IF u = t THEN "run" ELSE pc[u]
                        /\ job'[u] = IF u = t THEN Head(tasks) ELSE job[u]
  BY <1>1 DEF ThreadInv, TypeOK
<1>4. TypeOK'
  BY <1>1, <1>2 DEF ThreadInv, TypeOK
<1>5. JobHeld'
  BY <1>2, <1>3, ThreadPoolAssumption DEF ThreadInv, JobHeld
<1>6. JobKept'
  <2> DEFINE held == {job[u] : u \in {v \in Thread : pc[v] = "run"}}
             heldNext == {job'[u] : u \in {v \in Thread : pc'[v] = "run"}}
  <2>1. heldNext = held \cup {Head(tasks)}
    BY <1>1, <1>3
  <2>2. accepted = ToSet(tasks) \cup done \cup held
    BY DEF ThreadInv, JobKept
  <2>3. accepted' = ToSet(tasks') \cup done' \cup heldNext
    <3> HIDE DEF held, heldNext
    <3> QED BY <1>1, <1>2, <2>1, <2>2
  <2> QED BY <2>3 DEF JobKept
<1>7. StopOrder'
  BY <1>1, <1>3 DEF ThreadInv, StopOrder
<1>8. NoLostWakeup'
  <2>1. Lockers' = Lockers \ {t} /\ t \in Lockers /\ Lockers \in SUBSET Thread /\ Asleep' = Asleep
    BY <1>1, <1>3 DEF Lockers, Asleep
  <2>2. Cardinality(Lockers') = Cardinality(Lockers) - 1 /\ Cardinality(Lockers) \in Nat
    BY <2>1, CountOne, ThreadPoolAssumption
  <2>3. Asleep # {} => Len(tasks) <= owed + Cardinality(Lockers)
    BY DEF ThreadInv, NoLostWakeup, Lockers
  <2>4. owed \in Nat
    BY DEF ThreadInv, TypeOK
  <2>5. Asleep' # {} => Len(tasks') <= owed' + Cardinality(Lockers')
    BY <1>1, <1>2, <2>1, <2>2, <2>3, <2>4
  <2> QED BY <2>5 DEF NoLostWakeup, Lockers
<1> QED BY <1>4, <1>5, <1>6, <1>7, <1>8 DEF ThreadInv

\* A job that has run to its end is done, and its thread competes again.
LEMMA RunStep ==
  ASSUME ThreadInv, NEW t \in Thread, Run(t)
  PROVE  ThreadInv'
<1>1. /\ pc[t] = "run" /\ done' = done \cup {job[t]}
      /\ job' = [job EXCEPT ![t] = NoJob] /\ pc' = [pc EXCEPT ![t] = "lock"]
      /\ UNCHANGED <<tasks, stop, owed, dtor, accepted, rejected>>
  BY DEF Run, RanJob
<1>2. job[t] \in Job
  BY <1>1 DEF ThreadInv, TypeOK, JobHeld
<1>3. \A u \in Thread : /\ pc'[u] = IF u = t THEN "lock" ELSE pc[u]
                        /\ job'[u] = IF u = t THEN NoJob ELSE job[u]
  BY <1>1 DEF ThreadInv, TypeOK
<1>4. TypeOK'
  BY <1>1, <1>2 DEF ThreadInv, TypeOK
<1>5. JobHeld'
  BY <1>3 DEF ThreadInv, JobHeld
<1>6. JobKept'
  <2> DEFINE held == {job[u] : u \in {v \in Thread : pc[v] = "run"}}
             heldNext == {job'[u] : u \in {v \in Thread : pc'[v] = "run"}}
  <2>1. held = heldNext \cup {job[t]}
    BY <1>1, <1>3
  <2>2. accepted = ToSet(tasks) \cup done \cup held
    BY DEF ThreadInv, JobKept
  <2>3. accepted' = ToSet(tasks') \cup done' \cup heldNext
    <3> HIDE DEF held, heldNext
    <3> QED BY <1>1, <2>1, <2>2
  <2> QED BY <2>3 DEF JobKept
<1>7. StopOrder'
  BY <1>1, <1>3 DEF ThreadInv, StopOrder
<1>8. NoLostWakeup'
  <2>1. Asleep' = Asleep
    BY <1>1, <1>3 DEF Asleep
  <2>2. Cardinality(Lockers') = Cardinality(Lockers) + 1 /\ Cardinality(Lockers) \in Nat
    BY <1>1, LockerMore
  <2>3. Asleep # {} => Len(tasks) <= owed + Cardinality(Lockers)
    BY DEF ThreadInv, NoLostWakeup, Lockers
  <2>4. owed \in Nat /\ Len(tasks) \in Nat
    BY SeqElements DEF ThreadInv, TypeOK
  <2>5. Asleep' # {} => Len(tasks') <= owed' + Cardinality(Lockers')
    BY <1>1, <2>1, <2>2, <2>3, <2>4
  <2> QED BY <2>5 DEF NoLostWakeup, Lockers
<1> QED BY <1>4, <1>5, <1>6, <1>7, <1>8 DEF ThreadInv

\* A job that is enqueued comes with the notification that its caller owes.
LEMMA EnqueueStep ==
  ASSUME ThreadInv, NEW j \in Job, Enqueue(j)
  PROVE  ThreadInv'
<1>1. /\ ~stop /\ tasks' = Append(tasks, j) /\ accepted' = accepted \cup {j} /\ owed' = owed + 1
      /\ UNCHANGED <<stop, pc, job, dtor, rejected, done>>
  BY DEF Enqueue
<1>2. /\ Len(tasks) \in Nat /\ tasks' \in Seq(Job) /\ Len(tasks') = Len(tasks) + 1
      /\ ToSet(tasks') = ToSet(tasks) \cup {j}
  BY <1>1, SeqElements DEF ThreadInv, TypeOK
<1>3. TypeOK'
  BY <1>1, <1>2 DEF ThreadInv, TypeOK
<1>4. JobHeld' /\ StopOrder'
  BY <1>1 DEF ThreadInv, JobHeld, StopOrder
<1>5. JobKept'
  <2>1. {job'[u] : u \in {v \in Thread : pc'[v] = "run"}} = {job[u] : u \in {v \in Thread : pc[v] = "run"}}
    BY <1>1
  <2> QED BY <1>1, <1>2, <2>1 DEF ThreadInv, JobKept
<1>6. NoLostWakeup'
  <2>1. Asleep' = Asleep /\ Lockers' = Lockers
    BY <1>1 DEF Asleep, Lockers
  <2>2. Asleep # {} => Len(tasks) <= owed + Cardinality(Lockers)
    BY DEF ThreadInv, NoLostWakeup, Lockers
  <2>3. owed \in Nat /\ Cardinality(Lockers) \in Nat
    BY FS_Subset, FS_CardinalityType, ThreadPoolAssumption DEF Lockers, ThreadInv, TypeOK
  <2>4. Asleep' # {} => Len(tasks') <= owed' + Cardinality(Lockers')
    BY <1>1, <1>2, <2>1, <2>2, <2>3
  <2> QED BY <2>4 DEF NoLostWakeup, Lockers
<1> QED BY <1>3, <1>4, <1>5, <1>6 DEF ThreadInv

\* A notification that is no longer owed has woken a sleeper, if there was one.
LEMMA NotifyOneStep ==
  ASSUME ThreadInv, NotifyOne
  PROVE  ThreadInv'
<1>1. /\ owed > 0 /\ owed' = owed - 1
      /\ UNCHANGED <<tasks, stop, job, dtor, accepted, rejected, done>>
  BY DEF NotifyOne
<1>2. owed' \in Nat /\ owed \in Nat
  BY <1>1 DEF ThreadInv, TypeOK
<1>3. CASE Asleep = {} /\ UNCHANGED pc
  <2>1. TypeOK' /\ JobHeld' /\ StopOrder'
    BY <1>1, <1>2, <1>3 DEF ThreadInv, TypeOK, JobHeld, StopOrder
  <2>2. JobKept'
    BY <1>1, <1>3 DEF ThreadInv, JobKept
  <2>3. NoLostWakeup'
    BY <1>3 DEF NoLostWakeup, Asleep
  <2> QED BY <2>1, <2>2, <2>3 DEF ThreadInv
<1>4. ASSUME NEW t \in Asleep, Wake({t})
      PROVE  ThreadInv'
  <2>1. t \in Thread /\ pc[t] = "asleep"
    BY <1>4 DEF Asleep
  <2>2. pc' = [pc EXCEPT ![t] = "lock"]
    BY <1>4 DEF Wake, ThreadInv, TypeOK
  <2>3. \A u \in Thread : pc'[u] = IF u = t THEN "lock" ELSE pc[u]
    BY <2>2 DEF ThreadInv, TypeOK
  <2>4. TypeOK'
    BY <1>1, <1>2, <2>2 DEF ThreadInv, TypeOK
  <2>5. JobHeld' /\ StopOrder'
    BY <1>1, <2>1, <2>3 DEF ThreadInv, JobHeld, StopOrder
  <2>6. JobKept'
    <3>1. {u \in Thread : pc'[u] = "run"} = {u \in Thread : pc[u] = "run"}
      BY <2>1, <2>3
    <3> QED BY <1>1, <3>1 DEF ThreadInv, JobKept
  <2>7. NoLostWakeup'
    <3>1. Len(tasks) <= owed + Cardinality(Lockers)
      BY <1>4 DEF ThreadInv, NoLostWakeup, Lockers
    <3>2. Cardinality(Lockers') = Cardinality(Lockers) + 1 /\ Cardinality(Lockers) \in Nat
      BY <2>1, <2>2, LockerMore
    <3>3. Len(tasks) \in Nat
      BY SeqElements DEF ThreadInv, TypeOK
    <3>4. Len(tasks') <= owed' + Cardinality(Lockers')
      BY <1>1, <1>2, <3>1, <3>2, <3>3
    <3> QED BY <3>4 DEF NoLostWakeup, Lockers
  <2> QED BY <2>4, <2>5, <2>6, <2>7 DEF ThreadInv
<1> QED BY <1>3, <1>4 DEF NotifyOne

\* notify_all leaves nobody asleep.
LEMMA NotifyAllStep ==
  ASSUME ThreadInv, NotifyAll
  PROVE  ThreadInv'
<1>1. /\ dtor = "stopped" /\ dtor' = "notified"
      /\ UNCHANGED <<tasks, stop, job, owed, accepted, rejected, done>>
      /\ pc' = [t \in Thread |-> IF t \in Asleep THEN "lock" ELSE pc[t]]
  BY DEF NotifyAll, WakeEveryone, Wake
<1>2. \A t \in Thread : pc'[t] = IF pc[t] = "asleep" THEN "lock" ELSE pc[t]
  BY <1>1 DEF Asleep
<1>3. TypeOK'
  BY <1>1 DEF ThreadInv, TypeOK
<1>4. JobHeld' /\ StopOrder'
  BY <1>1, <1>2 DEF ThreadInv, JobHeld, StopOrder
<1>5. JobKept'
  <2>1. {u \in Thread : pc'[u] = "run"} = {u \in Thread : pc[u] = "run"}
    BY <1>2
  <2> QED BY <1>1, <2>1 DEF ThreadInv, JobKept
<1>6. NoLostWakeup'
  BY <1>2 DEF NoLostWakeup, Asleep
<1> QED BY <1>3, <1>4, <1>5, <1>6 DEF ThreadInv

\* The other steps touch neither queue, threads nor jobs.
LEMMA ThreadRest ==
  ASSUME ThreadInv, UNCHANGED <<tasks, pc, job, owed, accepted, done>>, TypeOK', StopOrder'
  PROVE  ThreadInv'
<1>1. JobHeld'
  BY DEF ThreadInv, JobHeld
<1>2. JobKept'
  BY DEF ThreadInv, JobKept
<1>3. NoLostWakeup'
  BY DEF ThreadInv, NoLostWakeup, Asleep
<1> QED BY <1>1, <1>2, <1>3 DEF ThreadInv

LEMMA ThreadNext == ThreadInv /\ [Next]_vars => ThreadInv'
<1> SUFFICES ASSUME ThreadInv, [Next]_vars PROVE ThreadInv'
  OBVIOUS
<1>1. ASSUME NEW t \in Thread, Loop(t) \/ SpuriousWakeup(t)
      PROVE  ThreadInv'
  BY <1>1, SleepOrReturnStep, TakeStep, RunStep, SpuriousStep DEF Loop
<1>2. ASSUME NEW j \in Job, Enqueue(j)
      PROVE  ThreadInv'
  BY <1>2, EnqueueStep
<1>3. ASSUME NEW j \in Job, EnqueueThrows(j)
      PROVE  ThreadInv'
  BY <1>3, ThreadRest DEF EnqueueThrows, ThreadInv, TypeOK, StopOrder
<1>4. CASE NotifyOne
  BY <1>4, NotifyOneStep
<1>5. CASE SetStop
  BY <1>5, ThreadRest DEF SetStop, ThreadInv, TypeOK, StopOrder
<1>6. CASE NotifyAll
  BY <1>6, NotifyAllStep
<1>7. CASE Join
  BY <1>7, ThreadRest DEF Join, ThreadInv, TypeOK, StopOrder
<1>8. CASE UNCHANGED vars
  BY <1>8, ThreadRest DEF vars, ThreadInv, TypeOK, StopOrder
<1> QED BY <1>1, <1>2, <1>3, <1>4, <1>5, <1>6, <1>7, <1>8 DEF Next

LEMMA ThreadInvariance == Spec => []ThreadInv
BY ThreadInit, ThreadNext, PTL DEF Spec

\* All threads have returned, so the queue is empty and nothing runs.
LEMMA ThreadInvDrained == ThreadInv => Drained
<1> SUFFICES ASSUME ThreadInv, dtor = "joined" PROVE accepted = done
  BY DEF Drained
<1>1. \A t \in Thread : pc[t] = "returned"
  BY DEF ThreadInv, StopOrder
<1>2. tasks = <<>>
  BY <1>1, ThreadPoolAssumption DEF ThreadInv, StopOrder
<1>3. ToSet(tasks) = {}
  BY <1>2 DEF ToSet
<1> QED BY <1>1, <1>3 DEF ThreadInv, JobKept

\* Whenever the destructor is called, every job that enqueue has accepted has
\* run when it ends; and no job waits for a sleeping thread without a thread or
\* a notification of its own on the way.
THEOREM ThreadPoolCorrect == Spec => [](Drained /\ NoLostWakeup)
<1>1. ThreadInv => Drained /\ NoLostWakeup
  BY ThreadInvDrained DEF ThreadInv
<1> QED BY <1>1, ThreadInvariance, PTL

-----------------------------------------------------------------------------
(***************************************************************************)
(* The DatabasePool, with the callers that it has in the scheduler.        *)
(***************************************************************************)
Caller == Thread \cup Other

DbInv == Db!TypeOK /\ Db!Conserved /\ Db!NoLostWakeup

\* The callers that compete for the mutex of the connections.
DbLockers == {c \in Caller : at[c] = "lock"}

\* The instance counts as this module does.
LEMMA DbCardinality == \A S : Db!Cardinality(S) = Cardinality(S)
BY DEF Db!Cardinality, Cardinality, Db!IsFiniteSet, IsFiniteSet

LEMMA CallerFinite == IsFiniteSet(Caller)
BY FS_Union, ThreadPoolAssumption, DispatchPoolAssumption DEF Caller

LEMMA DbInit == Db!Init => DbInv
<1> SUFFICES ASSUME Db!Init PROVE DbInv
  OBVIOUS
<1>1. pool \in [1 .. Size -> {"good"}] /\ Len(pool) = Size
  BY DispatchPoolAssumption DEF Db!Init
<1>2. pool \in Seq(Db!Connection \ {"closed"})
  BY <1>1, SeqDef, DispatchPoolAssumption DEF Db!Connection
<1>3. \A c \in Caller : at[c] = "idle" /\ conn[c] = "none"
  BY DEF Db!Init, Caller
<1>4. lost = 0 /\ dbUp = TRUE /\ outages = 0
  BY DEF Db!Init
<1>5. Db!TypeOK
  <2>1. /\ at \in [Thread \cup Other -> {"idle", "lock", "asleep", "tx", "release"}]
        /\ conn \in [Thread \cup Other -> Db!Connection \cup {"none"}]
        /\ calls \in [Thread \cup Other -> 0 .. MaxCalls]
    BY DispatchPoolAssumption DEF Db!Init
  <2> QED BY <1>2, <1>4, <2>1, DispatchPoolAssumption DEF Db!TypeOK
<1>6. Db!Conserved
  <2>1. Db!Holders = {} /\ {c \in Thread \cup Other : at[c] \in {"tx", "release"}} = {}
    BY <1>3 DEF Db!Holders, Caller
  <2>2. Len(pool) + Cardinality({}) + lost = Size
    BY <1>1, <1>4, FS_EmptySet, DispatchPoolAssumption
  <2> QED BY <2>1, <2>2, DbCardinality DEF Db!Conserved
<1>7. Db!NoLostWakeup
  BY <1>3 DEF Db!NoLostWakeup, Db!Asleep, Caller
<1> QED BY <1>5, <1>6, <1>7 DEF DbInv

\* What the invariant says, in terms of this module.
DbKept ==
  /\ at \in [Caller -> {"idle", "lock", "asleep", "tx", "release"}]
  /\ conn \in [Caller -> {"good", "dead", "closed", "none"}]
  /\ pool \in Seq({"good", "dead"}) /\ Len(pool) \in Nat /\ lost \in Nat
  /\ \A c \in Caller : conn[c] # "none" <=> at[c] \in {"tx", "release"}
  /\ Len(pool) + Cardinality({c \in Caller : conn[c] # "none"}) + lost = Size
  /\ (\E c \in Caller : at[c] = "asleep") => Len(pool) <= Cardinality(DbLockers)

LEMMA DbFacts == DbInv => DbKept
<1> SUFFICES ASSUME DbInv PROVE DbKept
  OBVIOUS
<1>1. /\ at \in [Caller -> {"idle", "lock", "asleep", "tx", "release"}]
      /\ conn \in [Caller -> {"good", "dead", "closed", "none"}] /\ lost \in Nat
  BY DEF DbInv, Db!TypeOK, Db!Connection, Caller
<1>2. pool \in Seq({"good", "dead"}) /\ Len(pool) \in Nat
  <2>1. Db!Connection \ {"closed"} = {"good", "dead"}
    BY DEF Db!Connection
  <2> QED BY <2>1, SeqElements DEF DbInv, Db!TypeOK
<1>3. Db!Holders = {c \in Caller : conn[c] # "none"}
  BY DEF Db!Holders, Caller
<1>4. /\ {c \in Caller : conn[c] # "none"} = {c \in Caller : at[c] \in {"tx", "release"}}
      /\ Len(pool) + Cardinality({c \in Caller : conn[c] # "none"}) + lost = Size
  BY <1>3, DbCardinality DEF DbInv, Db!Conserved, Caller
<1>5. (\E c \in Caller : at[c] = "asleep") => Len(pool) <= Cardinality(DbLockers)
  BY DbCardinality DEF DbInv, Db!NoLostWakeup, Db!Asleep, DbLockers, Caller
<1> QED BY <1>1, <1>2, <1>4, <1>5 DEF DbKept

\* The same the other way round, for the next state.
LEMMA DbInvNext ==
  ASSUME at' \in [Caller -> {"idle", "lock", "asleep", "tx", "release"}],
         conn' \in [Caller -> {"good", "dead", "closed", "none"}],
         pool' \in Seq({"good", "dead"}), lost' \in Nat, dbUp' \in BOOLEAN,
         calls' \in [Caller -> 0 .. MaxCalls], outages' \in 0 .. MaxOutages,
         \A c \in Caller : conn'[c] # "none" <=> at'[c] \in {"tx", "release"},
         Len(pool') + Cardinality({c \in Caller : conn'[c] # "none"}) + lost' = Size,
         (\E c \in Caller : at'[c] = "asleep") => Len(pool') <= Cardinality(DbLockers')
  PROVE  DbInv'
<1>1. Db!TypeOK'
  <2>1. Db!Connection \ {"closed"} = {"good", "dead"}
        /\ Db!Connection \cup {"none"} = {"good", "dead", "closed", "none"}
    BY DEF Db!Connection
  <2> QED BY <2>1 DEF Db!TypeOK, Caller
<1>2. Db!Conserved'
  <2>1. Db!Holders' = {c \in Caller : conn'[c] # "none"}
    BY DEF Db!Holders, Caller
  <2>2. {c \in Caller : conn'[c] # "none"} = {c \in Caller : at'[c] \in {"tx", "release"}}
    OBVIOUS
  <2>3. Len(pool') + Db!Cardinality(Db!Holders') + lost' = Size
    BY <2>1, DbCardinality
  <2> QED BY <2>1, <2>2, <2>3 DEF Db!Conserved, Caller
<1>3. Db!NoLostWakeup'
  <2>1. (\E c \in Caller : at'[c] = "asleep") => Len(pool') <= Db!Cardinality(DbLockers')
    BY DbCardinality
  <2> QED BY <2>1 DEF Db!NoLostWakeup, Db!Asleep, DbLockers, Caller
<1> QED BY <1>1, <1>2, <1>3 DEF DbInv

\* A caller that moves without a connection: to the mutex, or to sleep over an
\* empty pool.
LEMMA DbWaiters ==
  ASSUME DbInv, NEW c \in Caller, Db!Call(c) \/ Db!Sleep(c) \/ Db!SpuriousWakeup(c)
  PROVE  DbInv'
<1>0. DbKept
  BY DbFacts
<1> USE DEF DbKept
<1>1. PICK l \in {"lock", "asleep"} : at' = [at EXCEPT ![c] = l]
  BY DEF Db!Call, Db!Sleep, Db!SpuriousWakeup, Db!Goto
<1>2. /\ at[c] \in {"idle", "lock", "asleep"} /\ UNCHANGED <<pool, conn, lost, dbUp, outages>>
      /\ l = "asleep" => pool = <<>> /\ at[c] = "lock"
      /\ l = "lock" => at[c] # "lock"
  BY <1>0, <1>1 DEF Db!Call, Db!Sleep, Db!SpuriousWakeup, Db!Goto
<1>3. \A d \in Caller : at'[d] = IF d = c THEN l ELSE at[d]
  BY <1>0, <1>1
<1>4. DbLockers \in SUBSET Caller /\ DbLockers' \in SUBSET Caller
  BY DEF DbLockers
<1>5. (\E d \in Caller : at'[d] = "asleep") => Len(pool') <= Cardinality(DbLockers')
  <2>1. CASE l = "asleep"
    <3>1. Len(pool') = 0
      BY <1>2, <2>1
    <3>2. Cardinality(DbLockers') \in Nat
      BY <1>4, CallerFinite, CountOne
    <3> QED BY <3>1, <3>2
  <2>2. CASE l = "lock"
    <3>1. DbLockers' = DbLockers \cup {c} /\ c \notin DbLockers
      BY <1>2, <1>3, <2>2 DEF DbLockers
    <3>2. Cardinality(DbLockers') = Cardinality(DbLockers) + 1 /\ Cardinality(DbLockers) \in Nat
      BY <1>4, <3>1, CallerFinite, CountOne
    <3>3. (\E d \in Caller : at'[d] = "asleep") => \E d \in Caller : at[d] = "asleep"
      BY <1>3, <2>2
    <3>4. Len(pool') = Len(pool)
      BY <1>2
    <3> QED BY <1>0, <3>2, <3>3, <3>4
  <2> QED BY <2>1, <2>2
<1>6. at' \in [Caller -> {"idle", "lock", "asleep", "tx", "release"}]
  BY <1>0, <1>1
<1>7. /\ dbUp' \in BOOLEAN /\ outages' \in 0 .. MaxOutages
      /\ calls' \in [Caller -> 0 .. MaxCalls]
  BY DispatchPoolAssumption
     DEF DbInv, Db!TypeOK, Db!Call, Db!Sleep, Db!SpuriousWakeup, Caller
<1>8. \A d \in Caller : conn'[d] # "none" <=> at'[d] \in {"tx", "release"}
  BY <1>0, <1>1, <1>2, <1>3
<1>9. /\ conn' \in [Caller -> {"good", "dead", "closed", "none"}]
      /\ pool' \in Seq({"good", "dead"}) /\ lost' \in Nat
      /\ Len(pool') + Cardinality({d \in Caller : conn'[d] # "none"}) + lost' = Size
  BY <1>0, <1>2
<1> QED BY <1>5, <1>6, <1>7, <1>8, <1>9, DbInvNext

\* The connections in the hands of callers.
Held == {c \in Caller : conn[c] # "none"}

LEMMA HeldType == Held \in SUBSET Caller /\ IsFiniteSet(Held) /\ Cardinality(Held) \in Nat
<1>1. Held \in SUBSET Caller
  BY DEF Held
<1> QED BY <1>1, CallerFinite, FS_Subset, FS_CardinalityType

\* A caller takes the first connection: one locker and one connection less in
\* the pool, one more holder.
LEMMA DbAcquire ==
  ASSUME DbInv, NEW c \in Caller, Db!Acquire(c)
  PROVE  DbInv'
<1>0. DbKept
  BY DbFacts
<1> USE DEF DbKept
<1>1. /\ at[c] = "lock" /\ pool # <<>> /\ pool' = Tail(pool)
      /\ conn' = [conn EXCEPT ![c] = Head(pool)] /\ at' = [at EXCEPT ![c] = "tx"]
      /\ UNCHANGED <<lost, dbUp, calls, outages>>
  BY DEF Db!Acquire, Db!Goto, Db!Popped
<1>2. Head(pool) \in {"good", "dead"} /\ pool' \in Seq({"good", "dead"}) /\ Len(pool') = Len(pool) - 1
  BY <1>0, <1>1, SeqElements
<1>3. \A d \in Caller : /\ at'[d] = IF d = c THEN "tx" ELSE at[d]
                        /\ conn'[d] = IF d = c THEN Head(pool) ELSE conn[d]
  BY <1>0, <1>1
<1>4. /\ Held' = Held \cup {c} /\ c \notin Held /\ Held \in SUBSET Caller
      /\ DbLockers' = DbLockers \ {c} /\ c \in DbLockers /\ DbLockers \in SUBSET Caller
  BY <1>0, <1>1, <1>2, <1>3 DEF Held, DbLockers
<1>5. /\ Cardinality(Held') = Cardinality(Held) + 1 /\ Cardinality(Held) \in Nat
      /\ Cardinality(DbLockers') = Cardinality(DbLockers) - 1 /\ Cardinality(DbLockers) \in Nat
  BY <1>4, CallerFinite, CountOne
<1>6. Len(pool') + Cardinality(Held') + lost' = Size
  BY <1>0, <1>1, <1>2, <1>5 DEF Held
<1>7. (\E d \in Caller : at'[d] = "asleep") => Len(pool') <= Cardinality(DbLockers')
  BY <1>0, <1>2, <1>3, <1>5
<1>8. /\ at' \in [Caller -> {"idle", "lock", "asleep", "tx", "release"}]
      /\ conn' \in [Caller -> {"good", "dead", "closed", "none"}]
      /\ \A d \in Caller : conn'[d] # "none" <=> at'[d] \in {"tx", "release"}
  BY <1>0, <1>1, <1>2, <1>3
<1>9. /\ lost' \in Nat /\ dbUp' \in BOOLEAN /\ outages' \in 0 .. MaxOutages
      /\ calls' \in [Caller -> 0 .. MaxCalls]
  BY <1>0, <1>1 DEF DbInv, Db!TypeOK, Caller
<1> QED BY <1>2, <1>6, <1>7, <1>8, <1>9, DbInvNext DEF Held

\* Neither a transaction nor an outage changes who holds or who waits, nor how
\* many connections there are.
LEMMA DbSamePlaces ==
  ASSUME DbInv,
         at' \in [Caller -> {"idle", "lock", "asleep", "tx", "release"}],
         conn' \in [Caller -> {"good", "dead", "closed", "none"}],
         pool' \in Seq({"good", "dead"}), Len(pool') = Len(pool), lost' = lost,
         dbUp' \in BOOLEAN, calls' \in [Caller -> 0 .. MaxCalls], outages' \in 0 .. MaxOutages,
         \A c \in Caller : /\ conn'[c] # "none" <=> conn[c] # "none"
                           /\ at'[c] = at[c] \/ {at[c], at'[c]} = {"tx", "release"}
  PROVE  DbInv'
<1>0. DbKept
  BY DbFacts
<1> USE DEF DbKept
<1>1. \A d \in Caller : /\ conn'[d] # "none" <=> at'[d] \in {"tx", "release"}
                        /\ at'[d] = "asleep" <=> at[d] = "asleep"
                        /\ at'[d] = "lock" <=> at[d] = "lock"
  <2> SUFFICES ASSUME NEW d \in Caller
               PROVE  /\ conn'[d] # "none" <=> at'[d] \in {"tx", "release"}
                      /\ at'[d] = "asleep" <=> at[d] = "asleep"
                      /\ at'[d] = "lock" <=> at[d] = "lock"
    OBVIOUS
  <2>1. CASE at'[d] = at[d]
    BY <1>0, <2>1
  <2>2. CASE {at[d], at'[d]} = {"tx", "release"}
    <3>1. at[d] \in {"tx", "release"} /\ at'[d] \in {"tx", "release"}
      BY <2>2
    <3> QED BY <1>0, <3>1
  <2> QED BY <2>1, <2>2
<1>2. Held' = Held /\ DbLockers' = DbLockers
  BY <1>1 DEF Held, DbLockers
<1>3. Len(pool') + Cardinality(Held') + lost' = Size
  BY <1>0, <1>2 DEF Held
<1>4. (\E d \in Caller : at'[d] = "asleep") => Len(pool') <= Cardinality(DbLockers')
  BY <1>0, <1>1, <1>2
<1> QED BY <1>0, <1>1, <1>3, <1>4, DbInvNext DEF Held

LEMMA DbInTransaction ==
  ASSUME DbInv, NEW c \in Caller,
         Db!Transaction(c) \/ Db!ConnectionBreaks(c) \/ Db!Reconnect(c)
  PROVE  DbInv'
<1>0. DbKept
  BY DbFacts
<1> USE DEF DbKept
<1>1. UNCHANGED <<pool, lost, dbUp, calls, outages>>
  BY DEF Db!Transaction, Db!ConnectionBreaks, Db!Reconnect
<1>2. \/ at' = at
      \/ at[c] = "tx" /\ at' = [at EXCEPT ![c] = "release"]
  BY DEF Db!Transaction, Db!ConnectionBreaks, Db!Reconnect, Db!Goto
<1>3. \/ conn' = conn
      \/ \E k \in {"good", "closed"} : conn[c] # "none" /\ conn' = [conn EXCEPT ![c] = k]
  BY DEF Db!Transaction, Db!ConnectionBreaks, Db!Reconnect
<1>4. /\ at' \in [Caller -> {"idle", "lock", "asleep", "tx", "release"}]
      /\ \A d \in Caller : at'[d] = at[d] \/ {at[d], at'[d]} = {"tx", "release"}
  BY <1>0, <1>2
<1>5. /\ conn' \in [Caller -> {"good", "dead", "closed", "none"}]
      /\ \A d \in Caller : conn'[d] # "none" <=> conn[d] # "none"
  BY <1>0, <1>3
<1>6. /\ dbUp' \in BOOLEAN /\ outages' \in 0 .. MaxOutages
      /\ calls' \in [Caller -> 0 .. MaxCalls]
  BY <1>1 DEF DbInv, Db!TypeOK, Caller
<1> QED BY <1>0, <1>1, <1>4, <1>5, <1>6, DbSamePlaces

\* A connection that cannot be replaced is counted as lost.
LEMMA DbGiveUp ==
  ASSUME DbInv, NEW c \in Caller, Db!GiveUp(c)
  PROVE  DbInv'
<1>0. DbKept
  BY DbFacts
<1> USE DEF DbKept
<1>1. /\ at[c] = "release" /\ conn[c] = "closed" /\ lost' = lost + 1
      /\ conn' = [conn EXCEPT ![c] = "none"] /\ at' = [at EXCEPT ![c] = "idle"]
      /\ UNCHANGED <<pool, dbUp, calls, outages>>
  BY DEF Db!GiveUp, Db!Goto
<1>2. \A d \in Caller : /\ at'[d] = IF d = c THEN "idle" ELSE at[d]
                        /\ conn'[d] = IF d = c THEN "none" ELSE conn[d]
  BY <1>0, <1>1
<1>3. Held' = Held \ {c} /\ c \in Held /\ Held \in SUBSET Caller /\ DbLockers' = DbLockers
  BY <1>1, <1>2 DEF Held, DbLockers
<1>4. Cardinality(Held') = Cardinality(Held) - 1 /\ Cardinality(Held) \in Nat
  BY <1>3, CallerFinite, CountOne
<1>5. Len(pool') + Cardinality(Held') + lost' = Size
  <2>1. Len(pool) + Cardinality(Held) + lost = Size
    BY <1>0 DEF Held
  <2> QED BY SMTT(30), <1>0, <1>1, <1>4, <2>1
<1>6. (\E d \in Caller : at'[d] = "asleep") => Len(pool') <= Cardinality(DbLockers')
  BY <1>0, <1>1, <1>2, <1>3
<1>7. /\ at' \in [Caller -> {"idle", "lock", "asleep", "tx", "release"}]
      /\ conn' \in [Caller -> {"good", "dead", "closed", "none"}]
      /\ \A d \in Caller : conn'[d] # "none" <=> at'[d] \in {"tx", "release"}
      /\ pool' \in Seq({"good", "dead"}) /\ lost' \in Nat
  BY <1>0, <1>1, <1>2
<1>8. /\ dbUp' \in BOOLEAN /\ outages' \in 0 .. MaxOutages
      /\ calls' \in [Caller -> 0 .. MaxCalls]
  BY <1>1 DEF DbInv, Db!TypeOK, Caller
<1> QED BY <1>5, <1>6, <1>7, <1>8, DbInvNext DEF Held

\* A connection that comes back wakes a sleeper for it, if there is one.
LEMMA DbRelease ==
  ASSUME DbInv, NEW c \in Caller, Db!Release(c)
  PROVE  DbInv'
<1>0. DbKept
  BY DbFacts
<1> USE DEF DbKept
<1>1. /\ at[c] = "release" /\ conn[c] \in {"good", "dead"} /\ pool' = Append(pool, conn[c])
      /\ conn' = [conn EXCEPT ![c] = "none"]
      /\ UNCHANGED <<lost, dbUp, calls, outages>>
  BY DEF Db!Release
<1>2. pool' \in Seq({"good", "dead"}) /\ Len(pool') = Len(pool) + 1
  BY <1>0, <1>1, SeqElements
<1>3. \A d \in Caller : conn'[d] = IF d = c THEN "none" ELSE conn[d]
  BY <1>0, <1>1
<1>4. Held' = Held \ {c} /\ c \in Held /\ Held \in SUBSET Caller
  BY <1>1, <1>3 DEF Held
<1>5. Cardinality(Held') = Cardinality(Held) - 1 /\ Cardinality(Held) \in Nat
  BY <1>4, CallerFinite, CountOne
<1>6. Len(pool') + Cardinality(Held') + lost' = Size
  BY <1>0, <1>1, <1>2, <1>5 DEF Held
<1>7. /\ conn' \in [Caller -> {"good", "dead", "closed", "none"}] /\ lost' \in Nat
      /\ dbUp' \in BOOLEAN /\ outages' \in 0 .. MaxOutages
      /\ calls' \in [Caller -> 0 .. MaxCalls]
  BY <1>0, <1>1 DEF DbInv, Db!TypeOK, Caller
<1>8. CASE \A d \in Caller : at[d] # "asleep"
  <2>1. at' = [at EXCEPT ![c] = "idle"]
    BY <1>8 DEF Db!Release, Db!WakeOne, Db!Asleep, Db!Goto, Caller
  <2>2. \A d \in Caller : at'[d] = IF d = c THEN "idle" ELSE at[d]
    BY <1>0, <2>1
  <2>3. /\ at' \in [Caller -> {"idle", "lock", "asleep", "tx", "release"}]
        /\ \A d \in Caller : conn'[d] # "none" <=> at'[d] \in {"tx", "release"}
        /\ ~ \E d \in Caller : at'[d] = "asleep"
    BY <1>0, <1>3, <1>8, <2>1, <2>2
  <2> QED BY <1>2, <1>6, <1>7, <2>3, DbInvNext DEF Held
<1>9. CASE \E d \in Caller : at[d] = "asleep"
  <2>1. PICK s \in Caller : at[s] = "asleep" /\ at' = [at EXCEPT ![c] = "idle", ![s] = "lock"]
    BY <1>9 DEF Db!Release, Db!WakeOne, Db!Asleep, Caller
  <2>2. s # c
    BY <1>1, <2>1
  <2>3. \A d \in Caller : at'[d] = IF d = c THEN "idle" ELSE IF d = s THEN "lock" ELSE at[d]
    BY <1>0, <2>1, <2>2
  <2>4. DbLockers' = DbLockers \cup {s} /\ s \notin DbLockers /\ DbLockers \in SUBSET Caller
    <3>1. \A d \in Caller : at'[d] = "lock" <=> at[d] = "lock" \/ d = s
      BY <1>1, <2>2, <2>3
    <3> QED BY <2>1, <3>1 DEF DbLockers
  <2>5. Cardinality(DbLockers') = Cardinality(DbLockers) + 1 /\ Cardinality(DbLockers) \in Nat
    BY <2>4, CallerFinite, CountOne
  <2>6. Len(pool') <= Cardinality(DbLockers')
    BY <1>0, <1>2, <1>9, <2>5
  <2>7. at' \in [Caller -> {"idle", "lock", "asleep", "tx", "release"}]
    BY <1>0, <2>1
  <2>8. \A d \in Caller : conn'[d] # "none" <=> at'[d] \in {"tx", "release"}
    BY <1>0, <1>3, <2>1, <2>3
  <2> QED BY <1>2, <1>6, <1>7, <2>6, <2>7, <2>8, DbInvNext DEF Held
<1> QED BY <1>8, <1>9

\* An outage turns good connections into dead ones, wherever they are.
LEMMA DbOutage ==
  ASSUME DbInv, Db!DbGoesAway \/ Db!DbComesBack
  PROVE  DbInv'
<1>0. DbKept
  BY DbFacts
<1> USE DEF DbKept
<1>1. /\ UNCHANGED <<at, lost, calls>> /\ dbUp' \in BOOLEAN /\ outages' \in 0 .. MaxOutages
  <2>1. outages \in 0 .. MaxOutages /\ MaxOutages \in Nat
    BY DispatchPoolAssumption DEF DbInv, Db!TypeOK
  <2>2. \/ outages' = outages
        \/ outages < MaxOutages /\ outages' = outages + 1
    BY DEF Db!DbGoesAway, Db!DbComesBack
  <2>3. outages' \in 0 .. MaxOutages
    BY <2>1, <2>2
  <2> QED BY <2>3 DEF Db!DbGoesAway, Db!DbComesBack
<1>2. calls' \in [Caller -> 0 .. MaxCalls]
  BY <1>1 DEF DbInv, Db!TypeOK, Caller
<1>3. CASE Db!DbComesBack
  <2>1. UNCHANGED <<pool, conn>>
    BY <1>3 DEF Db!DbComesBack
  <2> QED BY <1>0, <1>1, <1>2, <2>1, DbSamePlaces
<1>4. CASE Db!DbGoesAway
  <2>1. \A k \in {"good", "dead"} : Db!Dead(k) = "dead"
    BY DEF Db!Dead
  <2>2. /\ pool \in [1 .. Len(pool) -> {"good", "dead"}] /\ DOMAIN pool = 1 .. Len(pool)
    BY <1>0, LenProperties
  <2>3. pool' = [i \in 1 .. Len(pool) |-> Db!Dead(pool[i])]
    BY <1>4, <2>2 DEF Db!DbGoesAway
  <2>4. pool' \in [1 .. Len(pool) -> {"good", "dead"}]
    BY <2>1, <2>2, <2>3
  <2>5. pool' \in Seq({"good", "dead"}) /\ Len(pool') = Len(pool)
    BY <1>0, <2>4, SeqDef
  <2>6. conn' = [d \in Caller |-> Db!Dead(conn[d])]
    BY <1>4 DEF Db!DbGoesAway, Caller
  <2>7. /\ conn' \in [Caller -> {"good", "dead", "closed", "none"}]
        /\ \A d \in Caller : conn'[d] # "none" <=> conn[d] # "none"
    BY <1>0, <2>6 DEF Db!Dead
  <2> QED BY <1>0, <1>1, <1>2, <2>5, <2>7, DbSamePlaces
<1> QED BY <1>3, <1>4

LEMMA DbNext == DbInv /\ [Db!Next]_(Db!vars) => DbInv'
<1> SUFFICES ASSUME DbInv, [Db!Next]_(Db!vars) PROVE DbInv'
  OBVIOUS
<1>1. ASSUME NEW c \in Caller, Db!Call(c) \/ Db!ExecuteTx(c) \/ Db!SpuriousWakeup(c)
      PROVE  DbInv'
  BY <1>1, DbWaiters, DbAcquire, DbInTransaction, DbGiveUp, DbRelease DEF Db!ExecuteTx
<1>2. CASE Db!DbGoesAway \/ Db!DbComesBack
  BY <1>2, DbOutage
<1>3. CASE UNCHANGED Db!vars
  BY <1>3 DEF Db!vars, DbInv, Db!TypeOK, Db!Conserved, Db!Holders, Db!NoLostWakeup, Db!Asleep
<1> QED BY <1>1, <1>2, <1>3 DEF Db!Next, Caller

-----------------------------------------------------------------------------
(***************************************************************************)
(* The two together: each step is a step of one and leaves the other alone.*)
(***************************************************************************)

\* A thread of the pool is in ExecuteTx only in the middle of a job.
InJob == \A t \in Thread : at[t] # "idle" => pc[t] = "run"

LEMMA StepOfThreads == [PoolNext]_poolVars => [Next]_vars
<1> SUFFICES ASSUME [PoolNext]_poolVars PROVE [Next]_vars
  OBVIOUS
<1>1. ASSUME NEW t \in Thread, DispatchThread(t) \/ RevertTask(t)
      PROVE  [Next]_vars
  BY <1>1 DEF DispatchThread, Wait, EndJob, UseDb, RevertTask, Next, Loop
<1>2. ASSUME NEW c \in Other, CallFromOutside(c) \/ UseDb(c)
      PROVE  [Next]_vars
  BY <1>2 DEF CallFromOutside, UseDb
<1>3. CASE EnqueueDispatch \/ Notify \/ WakeForNothing
  BY <1>3 DEF EnqueueDispatch, Notify, WakeForNothing, Next
<1>4. CASE BeginDestructor \/ NotifyStopped \/ FinishDestructor
  BY <1>4 DEF BeginDestructor, NotifyStopped, FinishDestructor, Next
<1>5. CASE Outage \/ Restart \/ UNCHANGED poolVars
  BY <1>5 DEF Outage, Restart, poolVars
<1> QED BY <1>1, <1>2, <1>3, <1>4, <1>5 DEF PoolNext

LEMMA StepOfDatabase == [PoolNext]_poolVars => [Db!Next]_(Db!vars)
<1> SUFFICES ASSUME [PoolNext]_poolVars PROVE [Db!Next]_(Db!vars)
  OBVIOUS
<1>0. UNCHANGED dbVars => UNCHANGED Db!vars
  BY DEF dbVars, Db!vars
<1>1. ASSUME NEW t \in Thread, DispatchThread(t) \/ RevertTask(t)
      PROVE  [Db!Next]_(Db!vars)
  BY <1>0, <1>1 DEF DispatchThread, Wait, EndJob, UseDb, RevertTask, Db!Next
<1>2. ASSUME NEW c \in Other, CallFromOutside(c) \/ UseDb(c)
      PROVE  [Db!Next]_(Db!vars)
  BY <1>2 DEF CallFromOutside, UseDb, Db!Next
<1>3. CASE EnqueueDispatch \/ Notify \/ WakeForNothing
  BY <1>0, <1>3 DEF EnqueueDispatch, Notify, WakeForNothing, Db!Next
<1>4. CASE BeginDestructor \/ NotifyStopped \/ FinishDestructor
  BY <1>0, <1>4 DEF BeginDestructor, NotifyStopped, FinishDestructor
<1>5. CASE Outage \/ Restart \/ UNCHANGED poolVars
  BY <1>0, <1>5 DEF Outage, Restart, poolVars, Db!Next
<1> QED BY <1>1, <1>2, <1>3, <1>4, <1>5 DEF PoolNext

\* Only Call takes anybody into ExecuteTx.
LEMMA OnlyCallEnters ==
  ASSUME DbInv, NEW c \in Caller, Db!ExecuteTx(c) \/ Db!SpuriousWakeup(c), NEW d \in Caller,
         at[d] = "idle"
  PROVE  at'[d] = "idle"
<1>0. at \in [Caller -> {"idle", "lock", "asleep", "tx", "release"}]
  BY DbFacts DEF DbKept
<1>1. CASE Db!Release(c)
  <2>1. CASE at' = [at EXCEPT ![c] = "idle"]
    BY <1>0, <2>1
  <2>2. ASSUME NEW s \in Db!Asleep, at' = [at EXCEPT ![c] = "idle", ![s] = "lock"]
        PROVE  at'[d] = "idle"
    BY <1>0, <2>2 DEF Db!Asleep, Caller
  <2> QED BY <1>1, <2>1, <2>2 DEF Db!Release, Db!WakeOne, Db!Goto
<1>2. CASE \/ Db!Sleep(c) \/ Db!Acquire(c) \/ Db!Transaction(c) \/ Db!ConnectionBreaks(c)
           \/ Db!Reconnect(c) \/ Db!GiveUp(c) \/ Db!SpuriousWakeup(c)
  <2>1. at' = at \/ \E l : at' = [at EXCEPT ![c] = l] /\ at[c] # "idle"
    BY <1>2 DEF Db!Sleep, Db!Acquire, Db!Transaction, Db!ConnectionBreaks,
                Db!Reconnect, Db!GiveUp, Db!SpuriousWakeup, Db!Goto
  <2> QED BY <1>0, <2>1
<1> QED BY <1>1, <1>2 DEF Db!ExecuteTx

LEMMA InJobStep == ThreadInv /\ DbInv /\ InJob /\ [PoolNext]_poolVars => InJob'
<1> SUFFICES ASSUME ThreadInv, DbInv, InJob, [PoolNext]_poolVars, NEW t \in Thread,
                    at'[t] # "idle"
             PROVE  pc'[t] = "run"
  BY DEF InJob
<1>0. /\ pc \in [Thread -> {"lock", "asleep", "run", "returned"}]
      /\ at \in [Caller -> {"idle", "lock", "asleep", "tx", "release"}]
      /\ Thread \subseteq Caller /\ Other \subseteq Caller
  BY DbFacts DEF DbKept, ThreadInv, TypeOK, Caller
<1>1. ASSUME UNCHANGED pc, NEW c \in Caller, Db!ExecuteTx(c) \/ Db!SpuriousWakeup(c)
      PROVE  pc'[t] = "run"
  BY <1>0, <1>1, OnlyCallEnters DEF InJob
<1>2. ASSUME UNCHANGED at, UNCHANGED pc
      PROVE  pc'[t] = "run"
  BY <1>2 DEF InJob
\* What a thread of the pool does in its own loop, it does outside ExecuteTx.
<1>3. ASSUME NEW u \in Thread, pc[u] # "run" \/ at[u] = "idle", UNCHANGED at,
             \E l : pc' = [pc EXCEPT ![u] = l]
      PROVE  pc'[t] = "run"
  BY <1>0, <1>3 DEF InJob
<1>4. ASSUME NEW u \in Thread, RevertTask(u)
      PROVE  pc'[t] = "run"
  BY <1>0, <1>4 DEF RevertTask, Db!Call, Db!Goto, InJob, vars
<1>5. ASSUME NEW c \in Other, CallFromOutside(c)
      PROVE  pc'[t] = "run"
  BY <1>0, <1>5, DispatchPoolAssumption DEF CallFromOutside, Db!Call, Db!Goto, InJob, vars
<1>6. ASSUME NEW u \in Thread, Wait(u) \/ EndJob(u)
      PROVE  pc'[t] = "run"
  <2>1. UNCHANGED at /\ (pc[u] # "run" \/ at[u] = "idle")
    BY <1>6 DEF Wait, EndJob, Sleep, Take, Return, dbVars
  <2>2. \E l : pc' = [pc EXCEPT ![u] = l]
    BY <1>6 DEF Wait, EndJob, Sleep, Take, Return, Run
  <2> QED BY <1>3, <2>1, <2>2
<1>7. ASSUME NEW c \in Caller, UseDb(c)
      PROVE  pc'[t] = "run"
  BY <1>1, <1>7 DEF UseDb, vars
<1>8. CASE EnqueueDispatch
  BY <1>2, <1>8 DEF EnqueueDispatch, Enqueue, EnqueueThrows, dbVars
<1>9. ASSUME UNCHANGED at, NEW S \in SUBSET Asleep, Wake(S)
      PROVE  pc'[t] = "run"
  BY <1>0, <1>9 DEF Asleep, Wake, InJob
<1>10. CASE Notify
  <2>1. UNCHANGED at /\ (UNCHANGED pc \/ \E u \in Asleep : Wake({u}))
    BY <1>10 DEF Notify, NotifyOne, dbVars
  <2>2. \A u \in Asleep : {u} \in SUBSET Asleep
    OBVIOUS
  <2> QED BY <1>2, <1>9, <2>1, <2>2
<1>11. CASE NotifyStopped
  <2>1. UNCHANGED at /\ Wake(Asleep) /\ Asleep \in SUBSET Asleep
    BY <1>11 DEF NotifyStopped, NotifyAll, WakeEveryone, dbVars
  <2> QED BY <1>9, <2>1
<1>12. CASE WakeForNothing
  <2>1. ASSUME NEW u \in Thread, SpuriousWakeup(u), UNCHANGED dbVars
        PROVE  pc'[t] = "run"
    BY <1>3, <2>1 DEF SpuriousWakeup, dbVars
  <2>2. ASSUME NEW c \in Caller, Db!SpuriousWakeup(c), UNCHANGED vars
        PROVE  pc'[t] = "run"
    BY <1>1, <2>2 DEF vars
  <2> QED BY <1>12, <2>1, <2>2 DEF WakeForNothing, Caller
<1>13. CASE BeginDestructor \/ FinishDestructor \/ Outage \/ Restart \/ UNCHANGED poolVars
  BY <1>2, <1>13 DEF BeginDestructor, FinishDestructor, Outage, Restart, SetStop, Join,
                     Db!DbGoesAway, Db!DbComesBack, dbVars, vars, poolVars
<1> QED BY <1>0, <1>4, <1>5, <1>6, <1>7, <1>8, <1>10, <1>11, <1>12, <1>13
        DEF PoolNext, DispatchThread

\* Each pool keeps its invariant, since a step of both is a step of each.
LEMMA PoolInvariance == PoolSpec => [](ThreadInv /\ DbInv /\ InJob)
<1>1. PoolInit => ThreadInv /\ DbInv /\ InJob
  <2>1. Db!Init => InJob
    BY DEF Db!Init, InJob
  <2> QED BY <2>1, ThreadInit, DbInit DEF PoolInit
<1>2. ThreadInv /\ DbInv /\ InJob /\ [PoolNext]_poolVars => (ThreadInv /\ DbInv /\ InJob)'
  BY StepOfThreads, ThreadNext, StepOfDatabase, DbNext, InJobStep
<1> QED BY <1>1, <1>2, PTL DEF PoolSpec

\* The scheduler's dispatch pool and connection pool run next to each other
\* (DoDispatch in src/scheduler/src/scheduler_loop.cpp calls
\* RevertTaskToPending in the middle of a job), and still each of them is the
\* pool that its own module describes: the composition implements both.
THEOREM BothPoolsImplemented == PoolSpec => Spec /\ Db!Spec
<1>1. PoolInit => Init /\ Db!Init
  BY DEF PoolInit
<1> QED BY <1>1, StepOfThreads, StepOfDatabase, PTL DEF PoolSpec, Spec, Db!Spec

\* src/common/include/database_pool.h: every connection is pooled, in one
\* caller's hands or given up, whatever the outages; and a thread of the
\* dispatch pool has one only while it runs a job.
THEOREM ConnectionsConserved == PoolSpec => []Conserved
<1>1. ThreadInv /\ DbInv /\ InJob => Conserved
  BY DEF ThreadInv, DbInv, InJob, Conserved, PoolTypeOK
<1> QED BY <1>1, PoolInvariance, PTL

\* thread_pool.h:174, database_pool.h:100 and :163: neither condition variable
\* loses a wakeup, although a thread of the dispatch pool may sleep in either.
THEOREM NoWakeupIsLost == PoolSpec => []NoWakeupLost
<1>1. ThreadInv /\ DbInv => NoWakeupLost
  BY DEF ThreadInv, DbInv, NoWakeupLost
<1> QED BY <1>1, PoolInvariance, PTL

\* thread_pool.h:109: the destructor loses no accepted job, although jobs wait
\* for connections.
THEOREM DispatchPoolDrains == PoolSpec => []Drained
BY BothPoolsImplemented, ThreadPoolCorrect, PTL
==============================================================================
