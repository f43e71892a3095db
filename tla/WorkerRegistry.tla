---------------------------- MODULE WorkerRegistry ----------------------------
(***************************************************************************)
(* What the scheduler knows of its workers: WorkerManager and the patrol   *)
(* thread (src/scheduler/src/worker_manager.cpp, main.cpp) against the     *)
(* heartbeat loop of each worker (src/worker/src/worker_node.cpp), with    *)
(* calls that get lost on the way there or on the way back, and restarts   *)
(* of either side.                                                         *)
(*                                                                         *)
(* Time is counted in rounds of the heartbeat loop: a round ends when      *)
(* every live worker has gone to sleep.                                    *)
(***************************************************************************)
EXTENDS Integers, FiniteSets, Sequences, SequencesExt

CONSTANTS
  Worker,     \* worker ids
  Timeout,    \* worker_timeout_, in rounds
  MaxLoad,    \* bound: prebooked tasks of a worker
  MaxFaults   \* bound: lost calls, crashes and restarts

ASSUME WorkerRegistryAssumption ==
  /\ IsFiniteSet(Worker)
  /\ Timeout \in Nat \ {0} /\ MaxLoad \in Nat /\ MaxFaults \in Nat

VARIABLES
  \* WorkerManager
  known,     \* the keys of workers_
  age,       \* rounds since last_heartbeat_time
  count,     \* running_task_count
  list,      \* the sorted workers RunLoop is handing a batch to
  \* workers
  pc,        \* down, starting, about to send a heartbeat, about to register
             \* again, asleep
  disturbed, \* history: in its last round, did a call of w get lost, or did
             \* the scheduler restart?
  faults

vars == <<known, age, count, list, pc, disturbed, faults>>

Init == /\ known = {}
        /\ age = [w \in Worker |-> 0]
        /\ count = [w \in Worker |-> 0]
        /\ list = <<>>
        /\ pc = [w \in Worker |-> "down"]
        /\ disturbed = [w \in Worker |-> FALSE]
        /\ faults = 0

Fault      == faults < MaxFaults /\ faults' = faults + 1
Fine       == faults' = faults
Goto(w, l) == pc' = [pc EXCEPT ![w] = l]

-----------------------------------------------------------------------------
(* Variants with a bug, used to test the properties. *)
BugHeartbeatOk(w) == TRUE
BugNeverOld(w)    == FALSE
BugBooked(w)      == IF w \in known THEN count[w] - 1 ELSE count[w]

-----------------------------------------------------------------------------
(* WorkerManager.                                                          *)

\* HandleRegister: a new entry, or the old one reset.
HandleRegister(w) ==
  /\ known' = known \cup {w}
  /\ age' = [age EXCEPT ![w] = 0]
  /\ count' = [count EXCEPT ![w] = 0]

\* HandleHeartbeat succeeds for a worker in the map.
HeartbeatOk(w) == w \in known

\* It takes over running_task_count, which every worker sends as 0.
HandleHeartbeat(w) ==
  /\ UNCHANGED known
  /\ IF HeartbeatOk(w)
     THEN age' = [age EXCEPT ![w] = 0] /\ count' = [count EXCEPT ![w] = 0]
     ELSE UNCHANGED <<age, count>>

Untouched == UNCHANGED <<known, age, count>>

TooOld(w) == age[w] > Timeout

\* The patrol thread: PruneDeadWorkers.  (RequeueOrphanedTasks, which follows,
\* changes rows in state RUNNING; there are none.)
Prune ==
  /\ \E w \in known : TooOld(w)
  /\ known' = {w \in known : ~TooOld(w)}
  /\ UNCHANGED <<age, count, list, pc, disturbed>>
  /\ Fine

-----------------------------------------------------------------------------
(* RunLoop: GetAvailableWorkersSorted, then PrebookTask per entry.         *)

Available == {w \in known : ~TooOld(w)}

TakeList ==
  /\ list = <<>>
  /\ Available # {}
  /\ list' \in {q \in [1 .. Cardinality(Available) -> Available] :
                  /\ ToSet(q) = Available
                  /\ \A i, j \in DOMAIN q : i < j => count[q[i]] <= count[q[j]]}
  /\ UNCHANGED <<known, age, count, pc, disturbed>>
  /\ Fine

\* The worker may have left the map since the list was made.
Booked(w) == IF w \in known THEN count[w] + 1 ELSE count[w]

\* An entry goes to the worker at the head of the list, which joins it again at
\* the end.  Nothing takes a prebooked task off again but the next heartbeat.
Prebook ==
  /\ list # <<>>
  /\ LET w == Head(list)
     IN  /\ count[w] < MaxLoad
         /\ count' = [count EXCEPT ![w] = Booked(w)]
         /\ list' = Append(Tail(list), w)
  /\ UNCHANGED <<known, age, pc, disturbed>>
  /\ Fine

\* The batch is finished.
BatchEnds ==
  /\ list # <<>>
  /\ list' = <<>>
  /\ UNCHANGED <<known, age, count, pc, disturbed>>
  /\ Fine

\* The scheduler restarts with an empty map.
SchedulerRestarts ==
  /\ Fault
  /\ known' = {}
  /\ list' = <<>>
  /\ disturbed' = [w \in Worker |-> TRUE]
  /\ UNCHANGED <<age, count, pc>>

-----------------------------------------------------------------------------
(* A worker: Start, HeartbeatLoop and its end.                             *)

Start(w) ==
  /\ pc[w] = "down"
  /\ Goto(w, "start")
  /\ UNCHANGED <<known, age, count, list, disturbed>>
  /\ Fine

\* A call of w gets an answer, or gets lost before or after it was handled.
Answered(w, handled) == handled /\ UNCHANGED disturbed /\ Fine
Lost(w, handled)     == /\ handled \/ Untouched
                        /\ disturbed' = [disturbed EXCEPT ![w] = TRUE]
                        /\ Fault

\* Start() exits the process when the first registration fails.
FirstRegister(w) ==
  /\ pc[w] = "start"
  /\ \/ Answered(w, HandleRegister(w)) /\ Goto(w, "beat")
     \/ Lost(w, HandleRegister(w)) /\ Goto(w, "down")
  /\ UNCHANGED list

\* SendHeartbeat: false sends the loop to RegisterWorker.
Heartbeat(w) ==
  /\ pc[w] = "beat"
  /\ \/ /\ Answered(w, HandleHeartbeat(w))
        /\ Goto(w, IF HeartbeatOk(w) THEN "asleep" ELSE "register")
     \/ /\ Lost(w, HandleHeartbeat(w))
        /\ Goto(w, "register")
  /\ UNCHANGED list

Reregister(w) ==
  /\ pc[w] = "register"
  /\ Answered(w, HandleRegister(w)) \/ Lost(w, HandleRegister(w))
  /\ Goto(w, "asleep")
  /\ UNCHANGED list

WorkerDies(w) ==
  /\ Fault
  /\ pc[w] # "down"
  /\ Goto(w, "down")
  /\ UNCHANGED <<known, age, count, list, disturbed>>

\* sleep_for(5 s) ends, everywhere: one round more on every clock.
NextRound ==
  /\ \A w \in Worker : pc[w] \in {"down", "asleep"}
  /\ age' = [w \in Worker |-> IF age[w] <= Timeout THEN age[w] + 1 ELSE age[w]]
  /\ pc' = [w \in Worker |-> IF pc[w] = "asleep" THEN "beat" ELSE pc[w]]
  /\ disturbed' = [w \in Worker |-> FALSE]
  /\ UNCHANGED <<known, count, list>>
  /\ Fine

-----------------------------------------------------------------------------
Beat(w) == FirstRegister(w) \/ Heartbeat(w) \/ Reregister(w)

Next == \/ Prune \/ TakeList \/ Prebook \/ BatchEnds \/ SchedulerRestarts
        \/ \E w \in Worker : Start(w) \/ Beat(w) \/ WorkerDies(w)
        \/ NextRound

Spec == Init /\ [][Next]_vars

\* The threads run and time passes.  No worker has to be started again.
FairSpec == /\ Spec
            /\ WF_vars(Prune) /\ WF_vars(NextRound) /\ WF_vars(BatchEnds)
            /\ \A w \in Worker : WF_vars(Beat(w))

-----------------------------------------------------------------------------
\* The types of the variables.
TypeOK ==
  /\ known \subseteq Worker
  /\ age \in [Worker -> 0 .. Timeout + 1]
  /\ count \in [Worker -> 0 .. MaxLoad]
  /\ list \in Seq(Worker)
  /\ pc \in [Worker -> {"down", "start", "beat", "register", "asleep"}]
  /\ disturbed \in [Worker -> BOOLEAN]
  /\ faults \in 0 .. MaxFaults

\* Self-healing: after a round in which no call of it was lost and the scheduler
\* did not restart, a live worker is registered and on offer, whatever happened
\* in earlier rounds and whenever the patrol runs.
HealedAfterOneRound ==
  \A w \in Worker : pc[w] = "asleep" /\ ~disturbed[w] => w \in Available

\* A worker that stays down is forgotten, and no batch offers it any more.
DeadIsForgotten ==
  \A w \in Worker : pc[w] = "down" ~> \/ pc[w] # "down"
                                      \/ w \notin known \cup ToSet(list)
===============================================================================
