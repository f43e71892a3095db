------------------------- MODULE WorkerRegistryProofs -------------------------
(***************************************************************************)
(* For every finite set of workers, every timeout of at least one round    *)
(* and every number of lost calls, crashes and restarts: the registry      *)
(* heals after one undisturbed round.                                      *)
(***************************************************************************)
EXTENDS WorkerRegistry, FiniteSetTheorems, SequenceTheorems, TLAPS

\* A worker that has gone to sleep after a round in which nothing was lost has
\* been heard in this very round: its entry is there, and as young as can be.
\* (That it is younger than the timeout is not inductive: the clock ticks.)
JustHeard ==
  \A w \in Worker : pc[w] = "asleep" /\ ~disturbed[w] => w \in known /\ age[w] = 0

IInv == TypeOK /\ JustHeard

-----------------------------------------------------------------------------
LEMMA Initially == Init => IInv
<1> SUFFICES ASSUME Init PROVE IInv
  OBVIOUS
<1>1. TypeOK
  BY WorkerRegistryAssumption DEF Init, TypeOK
<1>2. JustHeard
  BY DEF Init, JustHeard
<1> QED BY <1>1, <1>2 DEF IInv

-----------------------------------------------------------------------------
(* The patrol and RunLoop. *)

\* The patrol removes old entries only, and one that was just heard is not.
LEMMA PruneStep == IInv /\ Prune => IInv'
<1> SUFFICES ASSUME IInv, Prune PROVE IInv'
  OBVIOUS
<1>1. UNCHANGED <<age, count, list, pc, disturbed, faults>> /\ known' \subseteq known
  BY DEF Prune, Fine
<1>2. TypeOK'
  BY <1>1 DEF IInv, TypeOK
<1>3. JustHeard'
  <2>1. \A w \in known : age[w] = 0 => w \in known'
    BY WorkerRegistryAssumption DEF Prune, TooOld
  <2> QED BY <1>1, <2>1 DEF IInv, JustHeard
<1> QED BY <1>2, <1>3 DEF IInv

LEMMA LoopStep == IInv /\ (TakeList \/ Prebook \/ BatchEnds) => IInv'
<1> SUFFICES ASSUME IInv, TakeList \/ Prebook \/ BatchEnds PROVE IInv'
  OBVIOUS
<1>1. UNCHANGED <<known, age, pc, disturbed, faults>>
  BY DEF TakeList, Prebook, BatchEnds, Fine
<1>2. list' \in Seq(Worker)
  <2>1. CASE TakeList
    <3>1. Available \subseteq Worker
      BY DEF Available, IInv, TypeOK
    <3>2. Cardinality(Available) \in Nat
      BY <3>1, WorkerRegistryAssumption, FS_Subset, FS_CardinalityType
    <3>3. list' \in [1 .. Cardinality(Available) -> Available]
      BY <2>1 DEF TakeList
    <3>4. list' \in Seq(Available)
      BY <3>2, <3>3, SeqDef
    <3> QED BY <3>1, <3>3, <3>2, SeqDef
  <2>2. CASE Prebook
    <3>1. Head(list) \in Worker /\ Tail(list) \in Seq(Worker)
      BY <2>2, HeadTailProperties DEF Prebook, IInv, TypeOK
    <3> QED BY <2>2, <3>1, AppendProperties DEF Prebook
  <2>3. CASE BatchEnds
    BY <2>3, EmptySeq DEF BatchEnds
  <2> QED BY <2>1, <2>2, <2>3
<1>3. count' \in [Worker -> 0 .. MaxLoad]
  <2>1. CASE UNCHANGED count
    BY <2>1 DEF IInv, TypeOK
  <2>2. CASE Prebook
    <3> DEFINE w == Head(list)
    <3>1. w \in Worker
      BY <2>2, HeadTailProperties DEF Prebook, IInv, TypeOK
    <3>2. count[w] < MaxLoad /\ count' = [count EXCEPT ![w] = Booked(w)]
      BY <2>2 DEF Prebook
    <3>3. Booked(w) \in 0 .. MaxLoad
      BY <3>1, <3>2, WorkerRegistryAssumption DEF Booked, IInv, TypeOK
    <3> HIDE DEF w
    <3> QED BY <3>2, <3>3 DEF IInv, TypeOK
  <2> QED BY <2>1, <2>2 DEF TakeList, BatchEnds
<1>4. TypeOK'
  BY <1>1, <1>2, <1>3 DEF IInv, TypeOK
<1>5. JustHeard'
  BY <1>1 DEF IInv, JustHeard
<1> QED BY <1>4, <1>5 DEF IInv

\* A restart takes every entry away, and counts as a disturbance of every worker.
LEMMA RestartStep == IInv /\ SchedulerRestarts => IInv'
<1> SUFFICES ASSUME IInv, SchedulerRestarts PROVE IInv'
  OBVIOUS
<1>1. TypeOK'
  <2>1. list' \in Seq(Worker)
    BY EmptySeq DEF SchedulerRestarts
  <2>2. faults' \in 0 .. MaxFaults
    BY WorkerRegistryAssumption DEF SchedulerRestarts, Fault, IInv, TypeOK
  <2> QED BY <2>1, <2>2 DEF SchedulerRestarts, IInv, TypeOK
<1>2. JustHeard'
  BY DEF SchedulerRestarts, JustHeard
<1> QED BY <1>1, <1>2 DEF IInv

-----------------------------------------------------------------------------
(* The workers. *)

\* A worker that comes up or dies is not asleep, and touches no other.
LEMMA UpAndDown ==
  ASSUME IInv, NEW w \in Worker, Start(w) \/ WorkerDies(w)
  PROVE  IInv'
<1>1. PICK l \in {"start", "down"} : pc' = [pc EXCEPT ![w] = l]
  BY DEF Start, WorkerDies, Goto
<1>2. UNCHANGED <<known, age, count, list, disturbed>> /\ faults' \in 0 .. MaxFaults
  BY WorkerRegistryAssumption DEF Start, WorkerDies, Fault, Fine, IInv, TypeOK
<1>3. TypeOK'
  BY <1>1, <1>2 DEF IInv, TypeOK
<1>4. JustHeard'
  BY <1>1, <1>2 DEF IInv, TypeOK, JustHeard
<1> QED BY <1>3, <1>4 DEF IInv

\* What the scheduler does with a call of w concerns w alone, and at most makes
\* its entry young.
LEMMA CallHandled ==
  ASSUME IInv, NEW w \in Worker, HandleRegister(w) \/ HandleHeartbeat(w) \/ Untouched
  PROVE  /\ known \subseteq known' /\ known' \subseteq Worker
         /\ age' \in [Worker -> 0 .. Timeout + 1] /\ count' \in [Worker -> 0 .. MaxLoad]
         /\ \A u \in Worker : age'[u] = age[u] \/ age'[u] = 0
         /\ HandleRegister(w) \/ (HandleHeartbeat(w) /\ HeartbeatOk(w))
              => w \in known' /\ age'[w] = 0
<1>1. ASSUME w \in known', known' = known \cup {w},
             age' = [age EXCEPT ![w] = 0], count' = [count EXCEPT ![w] = 0]
      PROVE  /\ known \subseteq known' /\ known' \subseteq Worker
             /\ age' \in [Worker -> 0 .. Timeout + 1] /\ count' \in [Worker -> 0 .. MaxLoad]
             /\ \A u \in Worker : age'[u] = age[u] \/ age'[u] = 0
             /\ w \in known' /\ age'[w] = 0
  BY <1>1, WorkerRegistryAssumption DEF IInv, TypeOK
<1>2. CASE HandleRegister(w)
  BY <1>1, <1>2 DEF HandleRegister
<1>3. CASE HandleHeartbeat(w) /\ HeartbeatOk(w)
  BY <1>1, <1>3 DEF HandleHeartbeat, HeartbeatOk
<1>4. CASE UNCHANGED <<known, age, count>> /\ ~ HandleRegister(w)
                                            /\ ~ (HandleHeartbeat(w) /\ HeartbeatOk(w))
  BY <1>4 DEF IInv, TypeOK
<1> QED BY <1>2, <1>3, <1>4 DEF HandleHeartbeat, Untouched

\* A worker whose call was answered, and that goes to sleep, was heard; one whose
\* call was lost is disturbed.
LEMMA BeatStep ==
  ASSUME IInv, NEW w \in Worker, Beat(w)
  PROVE  IInv'
<1>1. /\ HandleRegister(w) \/ HandleHeartbeat(w) \/ Untouched
      /\ UNCHANGED list
      /\ \E l \in {"beat", "down", "asleep", "register"} : pc' = [pc EXCEPT ![w] = l]
  BY DEF Beat, FirstRegister, Heartbeat, Reregister, Answered, Lost, Goto
<1>2. /\ faults' \in 0 .. MaxFaults
      /\ \/ UNCHANGED disturbed
         \/ disturbed' = [disturbed EXCEPT ![w] = TRUE]
  BY WorkerRegistryAssumption
     DEF Beat, FirstRegister, Heartbeat, Reregister, Answered, Lost, Fault, Fine, IInv, TypeOK
<1>3. /\ known \subseteq known' /\ known' \subseteq Worker
      /\ age' \in [Worker -> 0 .. Timeout + 1] /\ count' \in [Worker -> 0 .. MaxLoad]
      /\ \A u \in Worker : age'[u] = age[u] \/ age'[u] = 0
      /\ HandleRegister(w) \/ (HandleHeartbeat(w) /\ HeartbeatOk(w))
           => w \in known' /\ age'[w] = 0
  BY <1>1, CallHandled
<1>4. TypeOK'
  <2>1. pc' \in [Worker -> {"down", "start", "beat", "register", "asleep"}]
    BY <1>1 DEF IInv, TypeOK
  <2>2. disturbed' \in [Worker -> BOOLEAN]
    BY <1>2 DEF IInv, TypeOK
  <2> QED BY <1>1, <1>2, <1>3, <2>1, <2>2 DEF IInv, TypeOK
<1>5. ASSUME pc'[w] = "asleep", ~ disturbed'[w]
      PROVE  w \in known' /\ age'[w] = 0
  <2>1. ASSUME Lost(w, HandleRegister(w)) \/ Lost(w, HandleHeartbeat(w))
        PROVE  FALSE
    <3>1. disturbed'[w] = TRUE
      BY <2>1 DEF Lost, IInv, TypeOK
    <3> QED BY <1>5, <3>1
  <2>2. CASE HandleRegister(w) /\ ~ Heartbeat(w)
    BY <1>3, <2>2
  <2>3. CASE Heartbeat(w)
    <3>1. HandleHeartbeat(w) /\ Goto(w, IF HeartbeatOk(w) THEN "asleep" ELSE "register")
      BY <2>1, <2>3 DEF Heartbeat, Answered
    <3>2. HeartbeatOk(w)
      BY <1>5, <3>1 DEF Goto, IInv, TypeOK
    <3> QED BY <1>3, <3>1, <3>2
  <2> QED BY <2>1, <2>2, <2>3 DEF Beat, FirstRegister, Reregister, Answered
<1>6. ASSUME NEW u \in Worker, u # w, pc'[u] = "asleep", ~ disturbed'[u]
      PROVE  u \in known' /\ age'[u] = 0
  <2>1. pc[u] = "asleep" /\ ~ disturbed[u]
    BY <1>1, <1>2, <1>6 DEF IInv, TypeOK
  <2>2. u \in known /\ age[u] = 0
    BY <2>1 DEF IInv, JustHeard
  <2> QED BY <1>3, <2>2
<1> QED BY <1>4, <1>5, <1>6 DEF IInv, JustHeard

\* The clock ticks only when nobody is between two calls, and nobody sleeps then.
LEMMA RoundStep == IInv /\ NextRound => IInv'
<1> SUFFICES ASSUME IInv, NextRound PROVE IInv'
  OBVIOUS
<1>1. \A w \in Worker : pc'[w] \in {"down", "beat"}
  BY DEF NextRound
<1>2. TypeOK'
  BY <1>1, WorkerRegistryAssumption DEF NextRound, Fine, IInv, TypeOK
<1>3. JustHeard'
  BY <1>1 DEF JustHeard
<1> QED BY <1>2, <1>3 DEF IInv

LEMMA Invariance == Spec => []IInv
<1>1. IInv /\ [Next]_vars => IInv'
  <2> SUFFICES ASSUME IInv, [Next]_vars PROVE IInv'
    OBVIOUS
  <2>1. CASE Prune \/ TakeList \/ Prebook \/ BatchEnds \/ SchedulerRestarts \/ NextRound
    BY <2>1, PruneStep, LoopStep, RestartStep, RoundStep
  <2>2. ASSUME NEW w \in Worker, Start(w) \/ Beat(w) \/ WorkerDies(w)
        PROVE  IInv'
    BY <2>2, UpAndDown, BeatStep
  <2>3. CASE UNCHANGED vars
    BY <2>3 DEF vars, IInv, TypeOK, JustHeard
  <2> QED BY <2>1, <2>2, <2>3 DEF Next
<1> QED BY <1>1, Initially, PTL DEF Spec

-----------------------------------------------------------------------------
\* The load of a worker stays within its bound and the list RunLoop works from
\* names workers only (worker_manager.cpp), whoever leaves the map meanwhile.
THEOREM RegistryTypes == Spec => []TypeOK
<1>1. IInv => TypeOK
  BY DEF IInv
<1> QED BY <1>1, Invariance, PTL

\* worker_node.cpp, HeartbeatLoop: a heartbeat that fails is followed by a
\* registration, and so one round without a lost call is enough for a live
\* worker to be on offer again, whatever was lost before, whoever restarted and
\* whenever the patrol runs.
THEOREM HealsAfterOneRound == Spec => []HealedAfterOneRound
<1>1. IInv => HealedAfterOneRound
  BY WorkerRegistryAssumption
     DEF IInv, JustHeard, HealedAfterOneRound, Available, TooOld
<1> QED BY <1>1, Invariance, PTL
===============================================================================
