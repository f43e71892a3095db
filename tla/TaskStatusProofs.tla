--------------------------- MODULE TaskStatusProofs ---------------------------
(***************************************************************************)
(* For every set of tasks and every number of retries, attempts and        *)
(* faults: the messages of a task stay within its retry budget, a failed   *)
(* task has triggered nothing, and one that is stranded has had a report,  *)
(* a result or its row spoilt in one of the listed ways.                   *)
(***************************************************************************)
EXTENDS TaskStatus, TLAPS

\* One attempt at a time on a message, or MaxAttempts if the rescue overlaps.
AttemptsBounded == \A m \in Message : Attempts(m) <= IF overlap THEN MaxAttempts ELSE 1

\* Nothing happens for a message that is not on the stream yet, nor for a task
\* that has none.
NothingBeforehand ==
  /\ \A m \in Message : m[2] > adds[m[1]] => m \notin pel /\ Attempts(m) = 0
  /\ \A t \in Task : adds[t] = 0 => exec[t] = 0 /\ \A p \in Steps : handler[t][p] = 0

Budget == \A t \in Task : adds[t] + handler[t]["xadd"] <= 1 + row[t].retry

\* What is being dispatched once is not acknowledged yet.
AttemptPending == ~overlap => \A m \in Message : Attempts(m) > 0 => m \in pel

\* Without overlap, failed calls and crashes, a task is in one place at a time:
\* not released, in a message that no worker has taken, in an execution, or in a
\* handler that has not decided yet.  A task that has failed, or triggered its
\* downstream tasks, is in none.
Quiet    == ~overlap /\ faults["rpc"] = 0 /\ faults["crash"] = 0
Taken(m) == attempt[m]["called"] > 0
Fresh(t) == adds[t] = 0 \/ (<<t, adds[t]>> \in pel /\ ~ Taken(<<t, adds[t]>>))
Turns(t) == (IF Fresh(t) THEN 1 ELSE 0) + exec[t]
              + handler[t]["lua"] + handler[t]["fail"] + handler[t]["xadd"]

OneTurn ==
  Quiet => /\ \A t \in Task : /\ Turns(t) <= 1
                              /\ row[t].state = "FAILED" \/ t \in triggered => Turns(t) = 0
                              /\ row[t].state = "FAILED" => t \notin triggered
           /\ \A m \in pel : Taken(m) \/ m[2] = adds[m[1]]

\* A row that is not final and was not spoilt has something on its way to it,
\* other than a message some worker has taken already: that one may be
\* acknowledged any time.
Underway(t) ==
  \/ adds[t] = 0
  \/ \E m \in pel : m[1] = t /\ ~ Taken(m)
  \/ exec[t] + queue[t] + flushing[t] > 0
  \/ \E p \in Steps : handler[t][p] > 0

Final(t)   == row[t].state \in {"SUCCESS", "FAILED"}
Unfinished == \A t \in Task : Final(t) \/ Underway(t) \/ t \in spoilt

IInv == /\ TypeOK /\ AttemptsBounded /\ NothingBeforehand /\ Budget
        /\ AttemptPending /\ OneTurn /\ Unfinished

-----------------------------------------------------------------------------
LEMMA Initially == Init => IInv
<1> SUFFICES ASSUME Init PROVE IInv
  OBVIOUS
<1>1. /\ \A t \in Task : /\ row[t].state \in {"WAITING_DEPS", "PENDING"} /\ row[t].retry = 0
                         /\ adds[t] = 0 /\ exec[t] = 0
                         /\ \A p \in Steps : handler[t][p] = 0
      /\ \A m \in Message : Attempts(m) = 0 /\ ~ Taken(m)
      /\ pel = {} /\ triggered = {}
  BY DEF Init, Attempts, Taken, NoCall
<1>2. TypeOK
  <2>1. row \in [Task -> [state : States, retry : 0 .. MaxRetry]]
    BY TaskStatusAssumption DEF Init, States
  <2>2. attempt \in [Message -> [{"queued", "called"} -> 0 .. MaxAttempts]]
    BY TaskStatusAssumption DEF Init, NoCall
  <2>3. handler \in [Task -> [Steps -> Nat]] /\ faults \in [FaultKinds -> Nat]
    BY DEF Init
  <2>4. /\ adds \in [Task -> 0 .. MaxRetry + 1] /\ exec \in [Task -> Nat]
        /\ queue \in [Task -> Nat] /\ flushing \in [Task -> Nat]
        /\ pel \subseteq Message /\ triggered \subseteq Task /\ spoilt \subseteq Task
        /\ overlap \in BOOLEAN
    BY TaskStatusAssumption DEF Init
  <2> QED BY <2>1, <2>2, <2>3, <2>4 DEF TypeOK
<1>3. AttemptsBounded /\ NothingBeforehand /\ AttemptPending
  BY <1>1, TaskStatusAssumption DEF AttemptsBounded, NothingBeforehand, AttemptPending
<1>4. Budget
  BY <1>1 DEF Budget, Steps
<1>5. OneTurn
  <2>1. \A t \in Task : Turns(t) = 1
    BY <1>1 DEF Turns, Fresh, Steps
  <2> QED BY <1>1, <2>1 DEF OneTurn
<1>6. Unfinished
  BY <1>1 DEF Unfinished, Underway
<1> QED BY <1>2, <1>3, <1>4, <1>5, <1>6 DEF IInv

-----------------------------------------------------------------------------
\* Faults are only ever counted up.
LEMMA FaultsGrow ==
  ASSUME TypeOK, Fine \/ \E k \in FaultKinds : Fault(k)
  PROVE  /\ faults' \in [FaultKinds -> Nat]
         /\ \A k \in FaultKinds : faults'[k] = 0 => faults[k] = 0
<1>1. \/ faults' = faults
      \/ \E k \in FaultKinds : faults' = [faults EXCEPT ![k] = @ + 1]
  BY Zenon DEF Fine, Fault
<1> QED BY <1>1 DEF TypeOK

\* What a call of UpdateTaskStatus for t changes, seen from every task.
LEMMA HandlerMoves ==
  ASSUME TypeOK, NEW t \in Task, NEW p \in Steps, NEW q \in Steps, p # q, handler[t][p] > 0,
         handler' = [handler EXCEPT ![t][p] = @ - 1, ![t][q] = @ + 1]
  PROVE  /\ handler' \in [Task -> [Steps -> Nat]]
         /\ \A u \in Task, s \in Steps :
              handler'[u][s] = IF u = t /\ s = p THEN handler[u][s] - 1
                               ELSE IF u = t /\ s = q THEN handler[u][s] + 1 ELSE handler[u][s]
<1> DEFINE h == [handler[t] EXCEPT ![p] = @ - 1, ![q] = @ + 1]
<1>1. handler \in [Task -> [Steps -> Nat]]
  BY DEF TypeOK
<1>2. /\ h \in [Steps -> Nat]
      /\ \A s \in Steps : h[s] = IF s = p THEN handler[t][s] - 1
                                ELSE IF s = q THEN handler[t][s] + 1 ELSE handler[t][s]
  BY <1>1
<1>3. handler' = [handler EXCEPT ![t] = h]
  BY <1>1
<1> HIDE DEF h
<1>4. handler' \in [Task -> [Steps -> Nat]] /\ \A u \in Task : handler'[u] = IF u = t THEN h ELSE handler[u]
  BY <1>1, <1>2, <1>3
<1> QED BY <1>2, <1>4

\* A handler whose first step for t is p.
LEMMA HandlerBegins ==
  ASSUME TypeOK, NEW t \in Task, NEW p \in Steps, handler' = [handler EXCEPT ![t][p] = @ + 1]
  PROVE  /\ handler' \in [Task -> [Steps -> Nat]]
         /\ \A u \in Task, s \in Steps :
              handler'[u][s] = handler[u][s] + IF u = t /\ s = p THEN 1 ELSE 0
<1> DEFINE h == [handler[t] EXCEPT ![p] = @ + 1]
<1>1. handler \in [Task -> [Steps -> Nat]]
  BY DEF TypeOK
<1>2. /\ h \in [Steps -> Nat]
      /\ \A s \in Steps : h[s] = handler[t][s] + IF s = p THEN 1 ELSE 0
  BY <1>1
<1>3. handler' = [handler EXCEPT ![t] = h]
  BY <1>1
<1> HIDE DEF h
<1>4. handler' \in [Task -> [Steps -> Nat]] /\ \A u \in Task : handler'[u] = IF u = t THEN h ELSE handler[u]
  BY <1>1, <1>2, <1>3
<1> QED BY <1>1, <1>2, <1>4

\* A handler whose last step for t was p.
LEMMA HandlerEnds ==
  ASSUME TypeOK, NEW t \in Task, NEW p \in Steps, handler[t][p] > 0,
         handler' = [handler EXCEPT ![t][p] = @ - 1]
  PROVE  /\ handler' \in [Task -> [Steps -> Nat]]
         /\ \A u \in Task, s \in Steps :
              handler'[u][s] = IF u = t /\ s = p THEN handler[u][s] - 1 ELSE handler[u][s]
<1> DEFINE h == [handler[t] EXCEPT ![p] = @ - 1]
<1>1. handler \in [Task -> [Steps -> Nat]]
  BY DEF TypeOK
<1>2. /\ h \in [Steps -> Nat]
      /\ \A s \in Steps : h[s] = IF s = p THEN handler[t][s] - 1 ELSE handler[t][s]
  BY <1>1
<1>3. handler' = [handler EXCEPT ![t] = h]
  BY <1>1
<1> HIDE DEF h
<1>4. handler' \in [Task -> [Steps -> Nat]] /\ \A u \in Task : handler'[u] = IF u = t THEN h ELSE handler[u]
  BY <1>1, <1>2, <1>3
<1> QED BY <1>2, <1>4

\* With no fault of these kinds after a step, there was none before it.
LEMMA QuietBefore ==
  ASSUME TypeOK, Fine \/ \E k \in FaultKinds : Fault(k), UNCHANGED overlap
  PROVE  /\ faults' \in [FaultKinds -> Nat]
         /\ Quiet' => Quiet
         /\ \A k \in FaultKinds : Fault(k) => faults'[k] > 0
<1>1. \A k \in FaultKinds : Fault(k) => faults'[k] > 0
  <2> SUFFICES ASSUME NEW k \in FaultKinds, Fault(k) PROVE faults'[k] > 0
    OBVIOUS
  <2>1. faults' = [faults EXCEPT ![k] = @ + 1]
    BY Zenon DEF Fault
  <2> QED BY <2>1 DEF TypeOK
<1> QED BY <1>1, FaultsGrow DEF Quiet, FaultKinds

\* A step that spoils nothing, or only t.
LEMMA SpoiltTypes ==
  ASSUME TypeOK, NEW t \in Task, SpoilsNone \/ Spoils(t)
  PROVE  /\ spoilt' \subseteq Task /\ spoilt \subseteq spoilt'
         /\ \A u \in Task \ {t} : u \in spoilt' <=> u \in spoilt
BY DEF TypeOK, SpoilsNone, Spoils

-----------------------------------------------------------------------------
(* The stream and the dispatch pool. *)

\* The types of messages and attempts, as they are used below.
LEMMA MessageTypes ==
  ASSUME TypeOK
  PROVE  /\ \A m \in Message : /\ m[1] \in Task /\ m[2] \in 1 .. MaxRetry + 1
                               /\ attempt[m]["queued"] \in Nat /\ attempt[m]["called"] \in Nat
                               /\ Attempts(m) = attempt[m]["queued"] + attempt[m]["called"]
                               /\ Attempts(m) \in Nat
         /\ \A t \in Task : adds[t] \in Nat /\ exec[t] \in Nat /\ row[t].retry \in Nat
         /\ \A t \in Task, p \in Steps : handler[t][p] \in Nat
BY TaskStatusAssumption DEF TypeOK, Attempts, Message

\* An attempt starts only while there are few enough.
LEMMA StartStep ==
  ASSUME IInv, NEW m \in Message, StartAttempt(m)
  PROVE  IInv'
<1>1. /\ m \in pel /\ Attempts(m) < (IF overlap THEN MaxAttempts ELSE 1)
      /\ attempt' = [attempt EXCEPT ![m]["queued"] = @ + 1]
      /\ UNCHANGED <<overlap, row, adds, pel, exec, handler, queue, flushing, triggered, spoilt,
                     faults>>
  BY DEF StartAttempt, Fine, SpoilsNone
<1>2. \A n \in Message :
        /\ attempt'[n]["queued"] = attempt[n]["queued"] + IF n = m THEN 1 ELSE 0
        /\ attempt'[n]["called"] = attempt[n]["called"]
  BY <1>1 DEF IInv, TypeOK
<1>3. \A n \in Message : /\ Attempts(n)' = Attempts(n) + IF n = m THEN 1 ELSE 0
                         /\ Taken(n)' = Taken(n)
  BY <1>2, MessageTypes DEF IInv, Attempts, Taken
<1>4. AttemptsBounded' /\ NothingBeforehand' /\ AttemptPending'
  BY <1>1, <1>3, MessageTypes, TaskStatusAssumption
     DEF IInv, AttemptsBounded, NothingBeforehand, AttemptPending
<1>5. TypeOK'
  <2>1. attempt' \in [Message -> [{"queued", "called"} -> 0 .. MaxAttempts]]
    BY <1>1, MessageTypes, TaskStatusAssumption DEF IInv, TypeOK, AttemptsBounded
  <2> QED BY <1>1, <2>1 DEF IInv, TypeOK
<1>6. Budget'
  BY <1>1 DEF IInv, Budget
<1>7. OneTurn'
  <2>1. (Quiet' <=> Quiet) /\ \A t \in Task : Turns(t)' = Turns(t)
    <3>1. \A t \in Task : <<t, adds[t]>> \in pel => <<t, adds[t]>> \in Message
      BY DEF IInv, TypeOK
    <3>2. \A t \in Task : Fresh(t)' = Fresh(t)
      BY <1>1, <1>3, <3>1 DEF Fresh
    <3> QED BY <1>1, <3>2 DEF Quiet, Turns
  <2> QED BY <1>1, <1>3, <2>1 DEF IInv, TypeOK, OneTurn
<1>8. Unfinished'
  BY <1>1, <1>3 DEF IInv, TypeOK, Unfinished, Final, Underway
<1> QED BY <1>4, <1>5, <1>6, <1>7, <1>8 DEF IInv

\* The worker takes the message: its turn goes to the execution.
LEMMA AcceptStep ==
  ASSUME IInv, NEW m \in Message, Accept(m)
  PROVE  IInv'
<1> DEFINE t == m[1]
<1>0. t \in Task /\ m[2] \in Nat \ {0} /\ m = <<t, m[2]>>
  BY DEF Message
<1> HIDE DEF t
<1>1. /\ attempt[m]["queued"] > 0
      /\ attempt' = [attempt EXCEPT ![m]["queued"] = @ - 1, ![m]["called"] = @ + 1]
      /\ exec' = [exec EXCEPT ![t] = @ + 1]
      /\ spoilt' = spoilt \ {t}
      /\ UNCHANGED <<overlap, row, adds, pel, handler, queue, flushing, triggered, faults>>
  BY DEF Accept, Fine, t
<1>2. \A n \in Message :
        /\ attempt'[n]["queued"] = attempt[n]["queued"] - IF n = m THEN 1 ELSE 0
        /\ attempt'[n]["called"] = attempt[n]["called"] + IF n = m THEN 1 ELSE 0
  BY <1>1 DEF IInv, TypeOK
<1>3. /\ \A n \in Message : /\ Attempts(n)' = Attempts(n)
                            /\ Taken(n)' <=> Taken(n) \/ n = m
      /\ \A u \in Task : exec'[u] = exec[u] + IF u = t THEN 1 ELSE 0
  <2>1. \A u \in Task : exec'[u] = exec[u] + IF u = t THEN 1 ELSE 0
    BY <1>1, MessageTypes DEF IInv, TypeOK
  <2> QED BY <1>2, <2>1, MessageTypes DEF IInv, Attempts, Taken
<1>4. Attempts(m) > 0 /\ adds[t] # 0
  <2>1. Attempts(m) > 0
    BY <1>1, MessageTypes DEF IInv
  <2> QED BY <1>0, <2>1, MessageTypes DEF IInv, NothingBeforehand, t
<1>5. AttemptsBounded' /\ NothingBeforehand' /\ AttemptPending'
  BY <1>1, <1>3, <1>4, MessageTypes
     DEF IInv, AttemptsBounded, NothingBeforehand, AttemptPending
<1>6. TypeOK'
  <2>1. attempt[m]["called"] < MaxAttempts
    BY <1>1, MessageTypes, TaskStatusAssumption DEF IInv, AttemptsBounded
  <2>2. attempt' \in [Message -> [{"queued", "called"} -> 0 .. MaxAttempts]]
    BY <1>1, <2>1, TaskStatusAssumption DEF IInv, TypeOK
  <2>3. exec' \in [Task -> Nat]
    BY <1>0, <1>1 DEF IInv, TypeOK
  <2> QED BY <1>1, <2>2, <2>3 DEF IInv, TypeOK
<1>7. Budget'
  BY <1>1 DEF IInv, Budget
<1>8. OneTurn'
  <2> SUFFICES ASSUME Quiet PROVE OneTurn'
    BY <1>1 DEF OneTurn, Quiet
  <2>1. m \in pel /\ ~ Taken(m) /\ m[2] = adds[t]
    <3>1. m \in pel /\ attempt[m]["called"] = 0
      BY <1>1, <1>4, MessageTypes DEF IInv, Quiet, AttemptPending, AttemptsBounded
    <3> QED BY <3>1 DEF IInv, OneTurn, Taken, t
  <2>2. Fresh(t) /\ ~ Fresh(t)'
    BY <1>0, <1>1, <1>3, <1>4, <2>1 DEF Fresh
  <2>3. ASSUME NEW u \in Task, u # t
        PROVE  Fresh(u)' <=> Fresh(u)
    <3>1. <<u, adds[u]>> # m /\ (<<u, adds[u]>> \in pel => <<u, adds[u]>> \in Message)
      BY <1>0, <2>3 DEF IInv, TypeOK
    <3> QED BY <1>1, <1>3, <3>1 DEF Fresh
  <2>4. \A u \in Task : Turns(u)' = Turns(u)
    BY <1>1, <1>3, <2>2, <2>3, MessageTypes DEF IInv, Turns, Steps
  <2>5. \A n \in pel' : Taken(n)' \/ n[2] = adds'[n[1]]
    BY <1>1, <1>3 DEF IInv, TypeOK, OneTurn
  <2> QED BY <1>1, <2>4, <2>5 DEF IInv, OneTurn
<1>9. Unfinished'
  <2> SUFFICES ASSUME NEW u \in Task PROVE Final(u)' \/ Underway(u)' \/ u \in spoilt'
    BY DEF Unfinished
  <2>1. CASE u = t
    <3>1. exec'[u] + queue'[u] + flushing'[u] > 0
      BY <1>0, <1>1, <1>3, <2>1, MessageTypes DEF IInv, TypeOK
    <3> QED BY <3>1 DEF Underway
  <2>2. CASE u # t
    <3>1. Underway(u) => Underway(u)'
      BY <1>1, <1>3, <2>2 DEF IInv, TypeOK, Underway, t
    <3> QED BY <1>1, <2>2, <3>1 DEF IInv, Unfinished, Final
  <2> QED BY <2>1, <2>2
<1> QED BY <1>5, <1>6, <1>7, <1>8, <1>9 DEF IInv

\* A call that ends leaves one attempt less, on a message that was taken.
LEMMA CallOkStep ==
  ASSUME IInv, NEW m \in Message, CallOk(m)
  PROVE  IInv'
<1>1. /\ attempt[m]["called"] > 0 /\ pel' = pel \ {m}
      /\ attempt' = [attempt EXCEPT ![m]["called"] = @ - 1]
      /\ UNCHANGED <<overlap, row, adds, exec, handler, queue, flushing, triggered, spoilt, faults>>
  BY DEF CallOk, Fine, SpoilsNone
<1>2. \A n \in Message :
        /\ attempt'[n]["queued"] = attempt[n]["queued"]
        /\ attempt'[n]["called"] = attempt[n]["called"] - IF n = m THEN 1 ELSE 0
  BY <1>1 DEF IInv, TypeOK
<1>3. \A n \in Message : /\ Attempts(n)' = Attempts(n) - IF n = m THEN 1 ELSE 0
                         /\ n # m => Taken(n)' = Taken(n)
  BY <1>2, MessageTypes DEF IInv, Attempts, Taken
<1>4. Taken(m) /\ Attempts(m) > 0 /\ adds[m[1]] # 0
  <2>1. Attempts(m) > 0
    BY <1>1, MessageTypes DEF IInv
  <2> QED BY <1>1, <2>1, MessageTypes DEF IInv, NothingBeforehand, Taken
<1>5. AttemptsBounded' /\ NothingBeforehand' /\ AttemptPending'
  <2>1. AttemptsBounded' /\ NothingBeforehand'
    BY <1>1, <1>3, <1>4, MessageTypes, TaskStatusAssumption
       DEF IInv, AttemptsBounded, NothingBeforehand
  <2>2. ASSUME ~overlap, NEW n \in Message, Attempts(n)' > 0
        PROVE  n \in pel'
    <3>1. n # m
      BY <1>3, <1>4, <2>2, MessageTypes DEF IInv, AttemptsBounded
    <3> QED BY <1>1, <1>3, <2>2, <3>1, MessageTypes DEF IInv, AttemptPending
  <2> QED BY <1>1, <2>1, <2>2 DEF AttemptPending
<1>6. TypeOK'
  <2>1. attempt' \in [Message -> [{"queued", "called"} -> 0 .. MaxAttempts]]
    BY <1>1, TaskStatusAssumption DEF IInv, TypeOK
  <2> QED BY <1>1, <2>1 DEF IInv, TypeOK
<1>7. Budget'
  BY <1>1 DEF IInv, Budget
<1>8. OneTurn'
  <2>1. \A u \in Task : Fresh(u)' <=> Fresh(u)
    <3> SUFFICES ASSUME NEW u \in Task PROVE Fresh(u)' <=> Fresh(u)
      OBVIOUS
    <3> DEFINE n == <<u, adds[u]>>
    <3>1. n \in pel => n \in Message
      BY DEF IInv, TypeOK
    <3>2. n # m => (n \in pel' /\ ~ Taken(n)' <=> n \in pel /\ ~ Taken(n))
      BY <1>1, <1>3, <3>1
    <3>3. n = m => ~ (n \in pel /\ ~ Taken(n)) /\ n \notin pel'
      BY <1>1, <1>4
    <3>4. n' = n /\ adds'[u] = adds[u]
      BY <1>1
    <3> QED BY <3>2, <3>3, <3>4 DEF Fresh
  <2>2. (Quiet' <=> Quiet) /\ \A u \in Task : Turns(u)' = Turns(u)
    BY <1>1, <2>1 DEF Quiet, Turns
  <2> QED BY <1>1, <1>3, <2>2 DEF IInv, TypeOK, OneTurn
<1>9. Unfinished'
  <2>1. \A u \in Task : Underway(u) => Underway(u)'
    BY <1>1, <1>3, <1>4 DEF IInv, TypeOK, Underway
  <2> QED BY <1>1, <2>1 DEF IInv, Unfinished, Final
<1> QED BY <1>5, <1>6, <1>7, <1>8, <1>9 DEF IInv

\* A call that fails makes the row PENDING whatever it was: its message is still
\* there and no worker has it, or the task is spoilt.
LEMMA CallFailsStep ==
  ASSUME IInv, NEW m \in Message, CallFails(m)
  PROVE  IInv'
<1> DEFINE t == m[1]
<1>0. t \in Task
  BY DEF Message
<1> HIDE DEF t
<1>1. /\ \/ /\ row' = [row EXCEPT ![t].state = "PENDING"]
            /\ IF TakenByAnother(m) THEN Spoils(t) ELSE SpoilsNone
         \/ row' = row /\ SpoilsNone
      /\ UNCHANGED <<overlap, adds, pel, exec, handler, queue, flushing, triggered>>
  BY DEF CallFails, Revert, KeepMessage, t
<1>2. /\ row' \in [Task -> [state : States, retry : 0 .. MaxRetry]]
      /\ \A u \in Task : row'[u].retry = row[u].retry
  <2>1. CASE row' = [row EXCEPT ![t].state = "PENDING"]
    BY <1>0, <2>1 DEF IInv, TypeOK, States
  <2>2. CASE row' = row
    BY <2>2 DEF IInv, TypeOK
  <2> QED BY <1>1, <2>1, <2>2
<1>3. PICK w \in {"queued", "called"} :
        attempt[m][w] > 0 /\ attempt' = [attempt EXCEPT ![m][w] = @ - 1]
  BY DEF CallFails
<1>4. faults' \in [FaultKinds -> Nat] /\ faults'["rpc"] > 0
  <2>1. Fault("rpc") /\ "rpc" \in FaultKinds
    BY DEF CallFails, FaultKinds
  <2> QED BY <1>1, <2>1, QuietBefore DEF IInv
<1>5. \A n \in Message, v \in {"queued", "called"} :
        attempt'[n][v] = attempt[n][v] - IF n = m /\ v = w THEN 1 ELSE 0
  BY <1>3 DEF IInv, TypeOK
<1>6. /\ \A n \in Message : /\ Attempts(n)' = Attempts(n) - IF n = m THEN 1 ELSE 0
                            /\ n # m => Taken(n)' = Taken(n)
      /\ Attempts(m) > 0
  BY <1>3, <1>5, MessageTypes DEF IInv, Attempts, Taken
<1>7. AttemptsBounded' /\ NothingBeforehand' /\ AttemptPending'
  BY <1>1, <1>6, MessageTypes, TaskStatusAssumption
     DEF IInv, AttemptsBounded, NothingBeforehand, AttemptPending
<1>8. TypeOK'
  <2>1. attempt' \in [Message -> [{"queued", "called"} -> 0 .. MaxAttempts]]
    BY <1>3, TaskStatusAssumption DEF IInv, TypeOK
  <2>2. row' \in [Task -> [state : States, retry : 0 .. MaxRetry]]
    BY <1>2
  <2>3. spoilt' \subseteq Task
    BY <1>0, <1>1, SpoiltTypes DEF IInv
  <2> QED BY <1>1, <1>4, <2>1, <2>2, <2>3 DEF IInv, TypeOK
<1>9. Budget'
  <2>1. \A u \in Task : row'[u].retry = row[u].retry
    BY <1>2
  <2> QED BY <1>1, <2>1 DEF IInv, Budget
<1>10. OneTurn'
  BY <1>4 DEF OneTurn, Quiet
<1>11. Unfinished'
  <2> SUFFICES ASSUME NEW u \in Task PROVE Final(u)' \/ Underway(u)' \/ u \in spoilt'
    BY DEF Unfinished
  <2>1. Underway(u) => Underway(u)'
    <3>1. ASSUME NEW n \in pel, n[1] = u, ~ Taken(n)
          PROVE  ~ Taken(n)'
      <4>1. n \in Message
        BY DEF IInv, TypeOK
      <4>2. attempt[n]["called"] = 0 /\ attempt'[n]["called"] \in 0 .. MaxAttempts
        BY <1>8, <3>1, <4>1, MessageTypes DEF IInv, TypeOK, Taken
      <4>3. attempt'[n]["called"] <= attempt[n]["called"]
        BY <1>5, <4>1, <4>2
      <4> QED BY <4>2, <4>3, TaskStatusAssumption DEF Taken
    <3> QED BY <1>1, <3>1 DEF Underway
  <2>2. CASE row'[u] = row[u] \/ u # t
    <3>1. row'[u] = row[u]
      BY <1>1, <2>2 DEF IInv, TypeOK
    <3>2. u \in spoilt => u \in spoilt'
      BY <1>1 DEF Spoils, SpoilsNone
    <3>3. Final(u) \/ Underway(u) \/ u \in spoilt
      BY DEF IInv, Unfinished
    <3>4. Final(u)' <=> Final(u)
      BY <3>1 DEF Final
    <3> QED BY <2>1, <3>2, <3>3, <3>4
  <2>3. CASE row'[u] # row[u] /\ u = t
    <3>1. IF TakenByAnother(m) THEN Spoils(t) ELSE SpoilsNone
      BY <1>1, <2>3
    <3>2. CASE TakenByAnother(m)
      BY <2>3, <3>1, <3>2 DEF Spoils
    <3>3. CASE ~ TakenByAnother(m)
      <4>1. m \in pel' /\ ~ Taken(m)'
        BY <1>1, <3>3 DEF TakenByAnother, Taken
      <4> QED BY <2>3, <4>1 DEF Underway, t
    <3> QED BY <3>2, <3>3
  <2> QED BY <2>2, <2>3
<1> QED BY <1>7, <1>8, <1>9, <1>10, <1>11 DEF IInv

\* What XADD of the next message of t changes.
OneMoreMessage(t) ==
  /\ adds' \in [Task -> 0 .. MaxRetry + 1] /\ pel' \subseteq Message
  /\ \A u \in Task : adds'[u] = adds[u] + IF u = t THEN 1 ELSE 0
  /\ \A m \in Message : Attempts(m)' = Attempts(m) /\ Taken(m)' = Taken(m)
  /\ \A m \in Message : m[2] > adds'[m[1]] => m \notin pel' /\ Attempts(m)' = 0
  /\ AttemptsBounded' /\ AttemptPending'
  /\ Fresh(t)' /\ \A u \in Task \ {t} : Fresh(u)' = Fresh(u)
  /\ \E m \in pel' : m[1] = t /\ ~ Taken(m)'
  /\ \A m \in pel' : m \in pel \/ m[2] = adds'[m[1]]
  /\ pel \subseteq pel'

LEMMA Published ==
  ASSUME IInv, NEW t \in Task, adds[t] <= MaxRetry, XAdd(t), UNCHANGED <<overlap, attempt>>
  PROVE  OneMoreMessage(t)
<1>1. PICK n \in Message : n = <<t, adds[t] + 1>> /\ n[1] = t /\ n[2] = adds[t] + 1
  <2>1. adds[t] + 1 \in 1 .. MaxRetry + 1
    BY MessageTypes, TaskStatusAssumption DEF IInv
  <2>2. <<t, adds[t] + 1>> \in Message
    BY <2>1 DEF Message
  <2> QED BY <2>2
<1>2. adds' = [adds EXCEPT ![t] = @ + 1] /\ pel' = pel \cup {n}
  BY <1>1 DEF XAdd
<1>3. /\ adds' \in [Task -> 0 .. MaxRetry + 1] /\ pel' \subseteq Message
      /\ \A u \in Task : adds'[u] = adds[u] + IF u = t THEN 1 ELSE 0
  <2>1. adds[t] + 1 \in 0 .. MaxRetry + 1
    BY MessageTypes, TaskStatusAssumption DEF IInv
  <2>2. adds' \in [Task -> 0 .. MaxRetry + 1]
    BY <1>2, <2>1 DEF IInv, TypeOK
  <2>3. \A u \in Task : adds'[u] = adds[u] + IF u = t THEN 1 ELSE 0
    BY <1>2, MessageTypes DEF IInv, TypeOK
  <2>4. pel' \subseteq Message
    BY <1>2 DEF IInv, TypeOK
  <2> QED BY <2>2, <2>3, <2>4
<1>4. \A m \in Message : Attempts(m)' = Attempts(m) /\ Taken(m)' = Taken(m)
  BY DEF Attempts, Taken
<1>5. Attempts(n) = 0 /\ ~ Taken(n)
  <2>1. Attempts(n) = 0
    BY <1>1, MessageTypes DEF IInv, NothingBeforehand
  <2> QED BY <1>1, <2>1, MessageTypes DEF IInv, Taken
<1>6. ASSUME NEW m \in Message, m[2] > adds'[m[1]]
      PROVE  m \notin pel' /\ Attempts(m)' = 0
  <2>1. m[2] > adds[m[1]] /\ m # n
    BY <1>1, <1>3, <1>6, MessageTypes DEF IInv
  <2> QED BY <1>2, <1>4, <2>1 DEF IInv, NothingBeforehand
<1>7. AttemptsBounded' /\ AttemptPending'
  BY <1>2, <1>4 DEF IInv, AttemptsBounded, AttemptPending
<1>8. n \in pel' /\ ~ Taken(n)' /\ n = <<t, adds'[t]>>
  <2>1. n = <<t, adds'[t]>>
    BY <1>1, <1>3
  <2> QED BY <1>2, <1>1, <1>4, <1>5, <2>1
<1>9. Fresh(t)'
  BY <1>8 DEF Fresh
<1>10. ASSUME NEW u \in Task \ {t}
       PROVE  Fresh(u)' = Fresh(u)
  <2>1. adds'[u] = adds[u] /\ <<u, adds[u]>> # n
    BY <1>1, <1>3, MessageTypes DEF IInv
  <2>2. <<u, adds[u]>> \in pel => <<u, adds[u]>> \in Message
    BY DEF IInv, TypeOK
  <2> QED BY <1>2, <1>4, <2>1, <2>2 DEF Fresh
<1>11. \E m \in pel' : m[1] = t /\ ~ Taken(m)'
  BY <1>1, <1>8
<1>12. \A m \in pel' : m \in pel \/ m[2] = adds'[m[1]]
  BY <1>2, <1>1, <1>3
<1> QED BY <1>2, <1>3, <1>4, <1>6, <1>7, <1>9, <1>10, <1>11, <1>12 DEF OneMoreMessage

\* The first message: the task had its turn in not having been released.
LEMMA ReleaseStep ==
  ASSUME IInv, NEW t \in Task, Release(t)
  PROVE  IInv'
<1>1. /\ adds[t] = 0 /\ XAdd(t)
      /\ UNCHANGED <<overlap, row, attempt, exec, handler, queue, flushing, triggered, spoilt, faults>>
  BY DEF Release, Fine, SpoilsNone
<1>2. OneMoreMessage(t)
  BY <1>1, Published, TaskStatusAssumption DEF IInv, TypeOK
<1> USE DEF OneMoreMessage
<1>3. TypeOK'
  BY <1>1, <1>2 DEF IInv, TypeOK
<1>4. NothingBeforehand'
  BY <1>1, <1>2, MessageTypes DEF IInv, NothingBeforehand
<1>5. Budget'
  <2>1. handler[t]["xadd"] = 0
    BY <1>1 DEF IInv, NothingBeforehand, Steps
  <2> QED BY <1>1, <1>2, <2>1, MessageTypes DEF IInv, Budget
<1>6. OneTurn'
  <2>1. \A u \in Task : Fresh(u)' <=> Fresh(u)
    BY <1>1, <1>2 DEF Fresh
  <2>2. (Quiet' <=> Quiet) /\ \A u \in Task : Turns(u)' = Turns(u)
    BY <1>1, <2>1 DEF Quiet, Turns
  <2>3. ASSUME Quiet, NEW m \in pel'
        PROVE  Taken(m)' \/ m[2] = adds'[m[1]]
    <3>1. CASE m \in pel
      <4>1. m[2] <= adds[m[1]] /\ m[1] \in Task /\ m[2] \in Nat \ {0}
        BY <3>1, MessageTypes DEF IInv, TypeOK, NothingBeforehand
      <4>2. m[1] # t
        BY <1>1, <4>1
      <4> QED BY <1>2, <2>3, <3>1, <4>1, <4>2, MessageTypes DEF IInv, TypeOK, OneTurn
    <3> QED BY <1>2, <3>1
  <2> QED BY <1>1, <2>2, <2>3 DEF IInv, OneTurn
<1>7. Unfinished'
  <2>1. ASSUME NEW u \in Task, Underway(u)
        PROVE  Underway(u)'
    <3>1. CASE u = t
      BY <1>2, <3>1 DEF Underway
    <3>2. CASE u # t
      <4>1. adds[u] = 0 => adds'[u] = 0
        BY <1>2, <3>2
      <4>2. (\E m \in pel : m[1] = u /\ ~ Taken(m)) => \E m \in pel' : m[1] = u /\ ~ Taken(m)'
        BY <1>2 DEF IInv, TypeOK
      <4> QED BY <1>1, <2>1, <4>1, <4>2 DEF Underway
    <3> QED BY <3>1, <3>2
  <2> QED BY <1>1, <2>1 DEF IInv, Unfinished, Final
<1> QED BY <1>2, <1>3, <1>4, <1>5, <1>6, <1>7 DEF IInv

-----------------------------------------------------------------------------
(* The worker's report and UpdateTaskStatus. *)

\* A step that leaves the stream and every task but t alone: what remains to be
\* shown is what it does to t, which has a message.
Elsewhere(t) ==
  /\ UNCHANGED <<overlap, adds, pel, attempt>>
  /\ \A u \in Task \ {t} : /\ exec'[u] = exec[u] /\ handler'[u] = handler[u]
                           /\ row'[u] = row[u] /\ (u \in triggered' <=> u \in triggered)
                           /\ queue'[u] = queue[u] /\ flushing'[u] = flushing[u]
  /\ SpoilsNone \/ Spoils(t)
  /\ adds[t] # 0

LEMMA ConcernsOne ==
  ASSUME IInv, NEW t \in Task, Elsewhere(t), TypeOK',
         Fine \/ \E k \in FaultKinds : Fault(k),
         adds[t] + handler'[t]["xadd"] <= 1 + row'[t].retry,
         Quiet' => /\ Turns(t)' <= 1
                   /\ row'[t].state = "FAILED" \/ t \in triggered' => Turns(t)' = 0
                   /\ row'[t].state = "FAILED" => t \notin triggered',
         Final(t)' \/ Underway(t)' \/ t \in spoilt'
  PROVE  IInv'
<1>1. Quiet' => Quiet
  BY QuietBefore DEF IInv, Elsewhere
<1>2. \A m \in Message : Attempts(m)' = Attempts(m) /\ Taken(m)' = Taken(m)
  BY DEF Attempts, Taken, Elsewhere
<1>3. AttemptsBounded' /\ NothingBeforehand' /\ AttemptPending'
  BY <1>2 DEF IInv, AttemptsBounded, NothingBeforehand, AttemptPending, Elsewhere
<1>4. Budget'
  BY DEF IInv, Budget, Elsewhere
<1>5. OneTurn'
  <2>1. \A u \in Task \ {t} : Turns(u)' = Turns(u)
    BY DEF Turns, Fresh, Taken, Elsewhere
  <2>2. \A m \in pel' : Taken(m)' = Taken(m) /\ adds' = adds /\ m \in pel
    BY <1>2 DEF IInv, TypeOK, Elsewhere
  <2> QED BY <1>1, <2>1, <2>2 DEF IInv, OneTurn, Elsewhere
<1>6. Unfinished'
  <2>1. \A u \in Task \ {t} : Underway(u) => Underway(u)'
    BY DEF Underway, Taken, Elsewhere
  <2>2. \A u \in Task \ {t} : u \in spoilt => u \in spoilt'
    BY SpoiltTypes DEF IInv, Elsewhere
  <2> QED BY <2>1, <2>2 DEF IInv, Unfinished, Final, Elsewhere
<1> QED BY <1>3, <1>4, <1>5, <1>6 DEF IInv

\* A report, or its loss, ends an execution.
LEMMA ReportStep ==
  ASSUME IInv, NEW t \in Task, ReportLost(t) \/ \E ok \in BOOLEAN : Report(t, ok)
  PROVE  IInv'
<1>1. /\ exec[t] > 0 /\ exec' = [exec EXCEPT ![t] = @ - 1]
      /\ UNCHANGED <<overlap, row, adds, pel, attempt, queue, flushing, triggered>>
  BY DEF Report, ReportLost
<1>2. exec' \in [Task -> Nat] /\ \A u \in Task : exec'[u] = exec[u] - IF u = t THEN 1 ELSE 0
  BY <1>1 DEF IInv, TypeOK
<1>3. adds[t] # 0
  BY <1>1 DEF IInv, NothingBeforehand
<1>4. (Quiet => Turns(t) = 1) /\ \A u \in Task : Fresh(u)' = Fresh(u)
  <2>1. \A u \in Task : Fresh(u)' = Fresh(u)
    BY <1>1 DEF Fresh, Taken
  <2>2. Turns(t) \in Nat /\ Turns(t) > 0
    BY <1>1, MessageTypes DEF IInv, Turns, Steps
  <2> QED BY <2>1, <2>2 DEF IInv, OneTurn
<1>5. Budget => adds[t] + handler[t]["xadd"] <= 1 + row[t].retry
  BY DEF Budget
<1>6. CASE ReportLost(t)
  <2>1. Fault("lost") /\ "lost" \in FaultKinds /\ UNCHANGED handler /\ Spoils(t)
    BY <1>6 DEF ReportLost, FaultKinds
  <2>2. /\ faults' \in [FaultKinds -> Nat] /\ faults'["lost"] > 0
        /\ Quiet' => Quiet
    BY <1>1, <2>1, QuietBefore DEF IInv
  <2>3. TypeOK'
    BY <1>1, <1>2, <2>1, <2>2, SpoiltTypes DEF IInv, TypeOK
  <2>4. Elsewhere(t)
    BY <1>1, <1>2, <1>3, <2>1 DEF Elsewhere
  <2>5. Turns(t)' = Turns(t) - 1
    BY <1>2, <1>4, <2>1, MessageTypes DEF IInv, Turns, Steps
  <2>6. Quiet' => /\ Turns(t)' <= 1
                  /\ row'[t].state = "FAILED" \/ t \in triggered' => Turns(t)' = 0
                  /\ row'[t].state = "FAILED" => t \notin triggered'
    BY <1>1, <1>4, <2>2, <2>5 DEF IInv, OneTurn
  <2>7. t \in spoilt'
    BY <2>1 DEF Spoils
  <2> QED BY <1>1, <1>5, <2>1, <2>3, <2>4, <2>6, <2>7, ConcernsOne DEF IInv
<1>7. ASSUME NEW ok \in BOOLEAN, Report(t, ok)
      PROVE  IInv'
  <2>1. PICK p \in {"lua", "fail"} : handler' = [handler EXCEPT ![t][p] = @ + 1]
    BY <1>7 DEF Report, FirstStep
  <2>2. Fine /\ SpoilsNone
    BY <1>7 DEF Report
  <2>3. /\ handler' \in [Task -> [Steps -> Nat]]
        /\ \A u \in Task, s \in Steps :
             handler'[u][s] = handler[u][s] + IF u = t /\ s = p THEN 1 ELSE 0
    <3>1. p \in Steps
      BY DEF Steps
    <3> QED BY <2>1, <3>1, HandlerBegins DEF IInv
  <2>4. \A u \in Task \ {t} : handler'[u] = handler[u]
    BY <2>1 DEF IInv, TypeOK
  <2>5. TypeOK'
    BY <1>1, <1>2, <2>2, <2>3, SpoiltTypes DEF IInv, TypeOK, Fine
  <2>6. Elsewhere(t)
    BY <1>1, <1>2, <1>3, <2>2, <2>4 DEF Elsewhere
  <2>7. Turns(t)' = Turns(t)
    <3>1. /\ handler'[t]["lua"] + handler'[t]["fail"] = handler[t]["lua"] + handler[t]["fail"] + 1
          /\ handler'[t]["xadd"] = handler[t]["xadd"] /\ exec'[t] = exec[t] - 1
      BY <1>2, <2>3, MessageTypes DEF IInv, Steps
    <3>2. /\ exec[t] \in Nat /\ exec'[t] \in Int
          /\ \A s \in {"lua", "fail", "xadd"} : handler[t][s] \in Nat /\ handler'[t][s] \in Nat
      BY <1>2, <2>3, MessageTypes DEF IInv, Steps
    <3> QED BY <1>4, <3>1, <3>2 DEF Turns
  <2>8. Quiet' => Quiet
    BY <1>1, <2>2 DEF Quiet, Fine
  <2>9. Quiet' => /\ Turns(t)' <= 1
                  /\ row'[t].state = "FAILED" \/ t \in triggered' => Turns(t)' = 0
                  /\ row'[t].state = "FAILED" => t \notin triggered'
    BY <1>1, <1>4, <2>7, <2>8 DEF IInv, OneTurn
  <2>10. handler'[t]["xadd"] = handler[t]["xadd"] /\ handler'[t][p] > 0 /\ p \in Steps
    BY <2>3, MessageTypes DEF IInv, Steps
  <2>11. Underway(t)'
    BY <2>10 DEF Underway
  <2> QED BY <1>1, <1>5, <2>2, <2>5, <2>6, <2>9, <2>10, <2>11, ConcernsOne DEF IInv
<1> QED BY <1>6, <1>7

\* A task with a handler at work has a message, and in a quiet run its turn is
\* that handler's.
LEMMA HandlerAtWork ==
  ASSUME IInv, NEW t \in Task, NEW p \in Steps, handler[t][p] > 0
  PROVE  /\ adds[t] # 0
         /\ adds[t] + handler[t]["xadd"] <= 1 + row[t].retry
         /\ Quiet /\ p # "add" => /\ Turns(t) = 1
                                  /\ row[t].state # "FAILED" /\ t \notin triggered
         /\ Quiet => /\ Turns(t) <= 1
                     /\ row[t].state = "FAILED" \/ t \in triggered => Turns(t) = 0
                     /\ row[t].state = "FAILED" => t \notin triggered
<1>1. adds[t] # 0
  BY DEF IInv, NothingBeforehand
<1>2. Turns(t) \in Nat /\ (p # "add" => Turns(t) > 0)
  BY MessageTypes DEF IInv, Turns, Steps
<1> QED BY <1>1, <1>2 DEF IInv, OneTurn, Budget

\* The script: it triggers the downstream tasks, or fails.
LEMMA RunLuaStep ==
  ASSUME IInv, NEW t \in Task, RunLua(t)
  PROVE  IInv'
<1>1. /\ handler[t]["lua"] > 0 /\ "lua" \in Steps /\ "add" \in Steps
      /\ handler' = [handler EXCEPT ![t]["lua"] = @ - 1, ![t]["add"] = @ + 1]
      /\ UNCHANGED <<overlap, row, adds, pel, attempt, exec, queue, flushing>>
  BY DEF RunLua, AfterLua, Steps
<1>2. /\ Fine \/ \E k \in FaultKinds : Fault(k)
      /\ \/ triggered' = triggered \cup {t}
         \/ triggered' = triggered
      /\ SpoilsNone
  BY DEF RunLua, FaultKinds
<1>3. /\ handler' \in [Task -> [Steps -> Nat]]
      /\ \A u \in Task, s \in Steps :
           handler'[u][s] = IF u = t /\ s = "lua" THEN handler[u][s] - 1
                            ELSE IF u = t /\ s = "add" THEN handler[u][s] + 1 ELSE handler[u][s]
  <2>1. "lua" # "add" /\ TypeOK
    BY DEF IInv
  <2> QED BY <1>1, <2>1, HandlerMoves, ZenonT(90)
<1>4. faults' \in [FaultKinds -> Nat] /\ (Quiet' => Quiet)
  BY <1>1, <1>2, QuietBefore DEF IInv
<1>5. TypeOK'
  BY <1>1, <1>2, <1>3, <1>4, SpoiltTypes DEF IInv, TypeOK
<1>6. Elsewhere(t)
  <2>1. \A u \in Task \ {t} : handler'[u] = handler[u]
    BY <1>1 DEF IInv, TypeOK
  <2> QED BY <1>1, <1>2, <2>1, HandlerAtWork DEF Elsewhere
<1>7. Quiet => Turns(t)' = 0
  <2>1. /\ handler'[t]["lua"] = handler[t]["lua"] - 1
        /\ handler'[t]["fail"] = handler[t]["fail"] /\ handler'[t]["xadd"] = handler[t]["xadd"]
    BY <1>3 DEF Steps
  <2>2. Fresh(t)' = Fresh(t)
    BY <1>1 DEF Fresh, Taken
  <2>3. Turns(t)' = Turns(t) - 1
    BY <1>1, <2>1, <2>2, MessageTypes DEF IInv, Turns, Steps
  <2> QED BY <1>1, <2>3, HandlerAtWork
<1>8. handler'[t]["xadd"] = handler[t]["xadd"] /\ handler'[t]["add"] > 0
  BY <1>1, <1>3, MessageTypes DEF IInv, Steps
<1>9. Underway(t)'
  BY <1>1, <1>8 DEF Underway
<1>10. adds[t] + handler'[t]["xadd"] <= 1 + row'[t].retry
  BY <1>1, <1>8, HandlerAtWork
<1>11. Quiet' => /\ Turns(t)' <= 1
                 /\ row'[t].state = "FAILED" \/ t \in triggered' => Turns(t)' = 0
                 /\ row'[t].state = "FAILED" => t \notin triggered'
  BY <1>1, <1>4, <1>7, HandlerAtWork
<1> QED BY <1>2, <1>5, <1>6, <1>9, <1>10, <1>11, ConcernsOne

\* The operation goes from the handler to the batcher's queue.
LEMMA AddStatusUpdateStep ==
  ASSUME IInv, NEW t \in Task, AddStatusUpdate(t)
  PROVE  IInv'
<1>1. /\ handler[t]["add"] > 0 /\ "add" \in Steps
      /\ handler' = [handler EXCEPT ![t]["add"] = @ - 1]
      /\ queue' = [queue EXCEPT ![t] = @ + 1]
      /\ UNCHANGED <<overlap, row, adds, pel, attempt, exec, flushing, triggered>>
      /\ Fine /\ SpoilsNone
  BY DEF AddStatusUpdate, Steps
<1>2. /\ handler' \in [Task -> [Steps -> Nat]]
      /\ \A u \in Task, s \in Steps :
           handler'[u][s] = IF u = t /\ s = "add" THEN handler[u][s] - 1 ELSE handler[u][s]
  BY ZenonT(60), <1>1, HandlerEnds DEF IInv
<1>3. faults' \in [FaultKinds -> Nat] /\ (Quiet' => Quiet)
  BY <1>1, QuietBefore DEF IInv
<1>4. queue' \in [Task -> Nat] /\ \A u \in Task : queue'[u] = queue[u] + IF u = t THEN 1 ELSE 0
  BY <1>1 DEF IInv, TypeOK
<1>5. TypeOK'
  BY <1>1, <1>2, <1>3, <1>4, SpoiltTypes DEF IInv, TypeOK
<1>6. Elsewhere(t)
  <2>1. \A u \in Task \ {t} : handler'[u] = handler[u] /\ queue'[u] = queue[u]
    BY <1>1 DEF IInv, TypeOK
  <2> QED BY <1>1, <2>1, HandlerAtWork DEF Elsewhere
<1>7. Turns(t)' = Turns(t) /\ handler'[t]["xadd"] = handler[t]["xadd"]
  <2>1. /\ handler'[t]["lua"] = handler[t]["lua"]
        /\ handler'[t]["fail"] = handler[t]["fail"] /\ handler'[t]["xadd"] = handler[t]["xadd"]
    BY <1>2 DEF Steps
  <2>2. Fresh(t)' = Fresh(t)
    BY <1>1 DEF Fresh, Taken
  <2> QED BY <1>1, <2>1, <2>2 DEF Turns
<1>8. Underway(t)'
  <2>1. exec'[t] + queue'[t] + flushing'[t] > 0
    BY <1>1, <1>4 DEF IInv, TypeOK
  <2> QED BY <2>1 DEF Underway
<1>9. adds[t] + handler'[t]["xadd"] <= 1 + row'[t].retry
  BY <1>1, <1>7, HandlerAtWork
<1>10. Quiet' => /\ Turns(t)' <= 1
                 /\ row'[t].state = "FAILED" \/ t \in triggered' => Turns(t)' = 0
                 /\ row'[t].state = "FAILED" => t \notin triggered'
  BY <1>1, <1>3, <1>7, HandlerAtWork
<1> QED BY <1>1, <1>5, <1>6, <1>8, <1>9, <1>10, ConcernsOne

\* HandleTaskFailure: a retry that is counted, the end, or nothing at all.
LEMMA FailureStep ==
  ASSUME IInv, NEW t \in Task, HandleTaskFailure(t)
  PROVE  IInv'
<1>1. /\ handler[t]["fail"] > 0 /\ "fail" \in Steps /\ "xadd" \in Steps /\ "fail" # "xadd"
      /\ UNCHANGED <<overlap, adds, pel, attempt, exec, queue, flushing, triggered>>
      /\ Fine \/ \E k \in FaultKinds : Fault(k)
      /\ SpoilsNone \/ Spoils(t)
  BY Zenon DEF HandleTaskFailure, Steps, FaultKinds
<1>2. /\ faults' \in [FaultKinds -> Nat] /\ (Quiet' => Quiet)
      /\ \A k \in FaultKinds : Fault(k) => faults'[k] > 0
  BY <1>1, QuietBefore DEF IInv
<1>3. Fresh(t)' = Fresh(t)
  BY <1>1 DEF Fresh, Taken
<1>4. CASE MayRetry(t) /\ row' = [row EXCEPT ![t] = Retried(t)]
           /\ handler' = [handler EXCEPT ![t]["fail"] = @ - 1, ![t]["xadd"] = @ + 1]
  <2>1. /\ handler' \in [Task -> [Steps -> Nat]]
        /\ \A u \in Task, s \in Steps :
             handler'[u][s] = IF u = t /\ s = "fail" THEN handler[u][s] - 1
                              ELSE IF u = t /\ s = "xadd" THEN handler[u][s] + 1 ELSE handler[u][s]
    BY <1>1, <1>4, HandlerMoves, ZenonT(90) DEF IInv
  <2>2. /\ row'[t].state = "PENDING" /\ row'[t].retry = row[t].retry + 1
        /\ row' \in [Task -> [state : States, retry : 0 .. MaxRetry]]
        /\ \A u \in Task \ {t} : row'[u] = row[u]
    BY <1>4, TaskStatusAssumption DEF IInv, TypeOK, MayRetry, Retried, States
  <2>3. TypeOK'
    BY <1>1, <1>2, <2>1, <2>2, SpoiltTypes DEF IInv, TypeOK
  <2>4. Elsewhere(t)
    <3>1. \A u \in Task \ {t} : handler'[u] = handler[u]
      BY <1>4 DEF IInv, TypeOK
    <3> QED BY <1>1, <2>2, <3>1, HandlerAtWork DEF Elsewhere
  <2>5. /\ handler'[t]["lua"] = handler[t]["lua"]
        /\ handler'[t]["fail"] = handler[t]["fail"] - 1
        /\ handler'[t]["xadd"] = handler[t]["xadd"] + 1
    BY <2>1 DEF Steps
  <2>6. Turns(t)' = Turns(t)
    BY <1>1, <1>3, <2>5, MessageTypes DEF IInv, Turns, Steps
  <2>7. Underway(t)'
    BY <1>1, <2>5, MessageTypes DEF IInv, Underway
  <2>8. adds[t] + handler'[t]["xadd"] <= 1 + row'[t].retry
    <3>1. adds[t] + handler[t]["xadd"] <= 1 + row[t].retry
      BY <1>1, HandlerAtWork
    <3> QED BY <1>1, <2>2, <2>5, <3>1, MessageTypes DEF IInv
  <2>9. Quiet' => /\ Turns(t)' <= 1
                  /\ row'[t].state = "FAILED" \/ t \in triggered' => Turns(t)' = 0
                  /\ row'[t].state = "FAILED" => t \notin triggered'
    BY <1>1, <1>2, <2>2, <2>6, HandlerAtWork
  <2> QED BY <1>1, <2>3, <2>4, <2>7, <2>8, <2>9, ConcernsOne
<1>5. CASE /\ handler' = [handler EXCEPT ![t]["fail"] = @ - 1]
           /\ \/ row' = [row EXCEPT ![t] = GivenUp(t)]
              \/ row' = row /\ Spoils(t)
  <2>1. /\ handler' \in [Task -> [Steps -> Nat]]
        /\ \A u \in Task, s \in Steps :
             handler'[u][s] = IF u = t /\ s = "fail" THEN handler[u][s] - 1 ELSE handler[u][s]
    BY <1>1, <1>5, HandlerEnds, ZenonT(60) DEF IInv
  <2>2. /\ row'[t].retry = row[t].retry
        /\ row' = row \/ row'[t].state = "FAILED"
        /\ row' \in [Task -> [state : States, retry : 0 .. MaxRetry]]
        /\ \A u \in Task \ {t} : row'[u] = row[u]
    BY ZenonT(60), <1>5 DEF IInv, TypeOK, GivenUp, States
  <2>3. TypeOK'
    BY <1>1, <1>2, <2>1, <2>2, SpoiltTypes DEF IInv, TypeOK
  <2>4. Elsewhere(t)
    <3>1. \A u \in Task \ {t} : handler'[u] = handler[u]
      BY <1>5 DEF IInv, TypeOK
    <3> QED BY <1>1, <2>2, <3>1, HandlerAtWork DEF Elsewhere
  <2>5. /\ handler'[t]["lua"] = handler[t]["lua"]
        /\ handler'[t]["fail"] = handler[t]["fail"] - 1
        /\ handler'[t]["xadd"] = handler[t]["xadd"]
    BY <2>1 DEF Steps
  <2>6. Turns(t)' = Turns(t) - 1
    BY <1>1, <1>3, <2>5, MessageTypes DEF IInv, Turns, Steps
  <2>7. Final(t)' \/ t \in spoilt'
    <3>1. CASE Spoils(t)
      BY <3>1 DEF Spoils
    <3>2. CASE row' = [row EXCEPT ![t] = GivenUp(t)]
      BY <3>2 DEF IInv, TypeOK, GivenUp, Final
    <3> QED BY <1>5, <3>1, <3>2
  <2>8. adds[t] + handler'[t]["xadd"] <= 1 + row'[t].retry
    BY <1>1, <2>2, <2>5, HandlerAtWork
  <2>9. Quiet' => /\ Turns(t)' <= 1
                  /\ row'[t].state = "FAILED" \/ t \in triggered' => Turns(t)' = 0
                  /\ row'[t].state = "FAILED" => t \notin triggered'
    BY <1>1, <1>2, <2>6, HandlerAtWork
  <2> QED BY <1>1, <2>3, <2>4, <2>7, <2>8, <2>9, ConcernsOne
<1> QED BY <1>4, <1>5 DEF HandleTaskFailure

\* The XADD of a retry: the budget has room for it.
LEMMA XAddRetryStep ==
  ASSUME IInv, NEW t \in Task, XAddRetry(t)
  PROVE  IInv'
<1>1. /\ handler[t]["xadd"] > 0 /\ "xadd" \in Steps
      /\ handler' = [handler EXCEPT ![t]["xadd"] = @ - 1]
      /\ UNCHANGED <<overlap, row, attempt, exec, queue, flushing, triggered>>
  BY DEF XAddRetry, Steps
<1>2. /\ handler' \in [Task -> [Steps -> Nat]]
      /\ \A u \in Task, s \in Steps :
           handler'[u][s] = IF u = t /\ s = "xadd" THEN handler[u][s] - 1 ELSE handler[u][s]
  BY <1>1, HandlerEnds, ZenonT(60) DEF IInv
<1>3. /\ handler'[t]["lua"] = handler[t]["lua"]
      /\ handler'[t]["fail"] = handler[t]["fail"]
      /\ handler'[t]["xadd"] = handler[t]["xadd"] - 1
      /\ \A u \in Task \ {t} : handler'[u] = handler[u]
  <2>1. \A u \in Task \ {t} : handler'[u] = handler[u]
    BY <1>1 DEF IInv, TypeOK
  <2> QED BY <1>2, <2>1 DEF Steps
<1>4. Fresh(t) \in BOOLEAN /\ (Quiet => ~ Fresh(t))
  BY <1>1, HandlerAtWork, MessageTypes DEF IInv, Turns, Steps, Fresh
<1>5. CASE XAdd(t) /\ Fine /\ SpoilsNone
  <2>1. adds[t] <= MaxRetry
    <3>1. adds[t] + handler[t]["xadd"] <= 1 + row[t].retry
      BY <1>1, HandlerAtWork
    <3>2. row[t].retry \in 0 .. MaxRetry /\ adds[t] \in Nat /\ handler[t]["xadd"] \in Nat
      BY <1>1, MessageTypes DEF IInv, TypeOK
    <3> QED BY <1>1, <3>1, <3>2, TaskStatusAssumption
  <2>2. OneMoreMessage(t)
    BY <1>1, <1>5, <2>1, Published
  <2> USE DEF OneMoreMessage
  <2>3. TypeOK'
    BY <1>1, <1>2, <1>5, <2>2, SpoiltTypes DEF IInv, TypeOK, Fine
  <2>4. NothingBeforehand'
    <3>1. \A u \in Task : adds'[u] = 0 => u # t /\ adds[u] = 0
      BY <2>2, MessageTypes DEF IInv
    <3> QED BY <1>1, <1>3, <2>2, <3>1 DEF IInv, NothingBeforehand
  <2>5. Budget'
    BY <1>1, <1>3, <2>2, MessageTypes DEF IInv, Budget
  <2>6. OneTurn'
    <3> SUFFICES ASSUME Quiet PROVE OneTurn'
      BY <1>1, <1>5 DEF OneTurn, Quiet, Fine
    <3>1. Turns(t)' = Turns(t)
      BY <1>1, <1>3, <1>4, <2>2, MessageTypes DEF IInv, Turns, Steps
    <3>2. \A u \in Task \ {t} : Turns(u)' = Turns(u)
      BY <1>1, <1>3, <2>2 DEF Turns
    <3>3. ASSUME NEW m \in pel'
          PROVE  Taken(m)' \/ m[2] = adds'[m[1]]
      <4>1. CASE m \in pel /\ m[1] # t
        BY <2>2, <4>1, MessageTypes DEF IInv, TypeOK, OneTurn
      <4>2. CASE m \in pel /\ m[1] = t
        <5>1. m \in Message /\ m = <<m[1], m[2]>>
          BY <4>2 DEF IInv, TypeOK, Message
        <5>2. Taken(m)
          BY <1>4, <4>2, <5>1 DEF IInv, OneTurn, Fresh
        <5> QED BY <2>2, <5>1, <5>2
      <4> QED BY <2>2, <4>1, <4>2
    <3> QED BY <1>1, <3>1, <3>2, <3>3 DEF IInv, OneTurn
  <2>7. Unfinished'
    <3>1. ASSUME NEW u \in Task, Underway(u)
          PROVE  Underway(u)'
      <4>1. CASE u = t
        BY <2>2, <4>1 DEF Underway
      <4>2. CASE u # t
        <5>1. adds[u] = 0 => adds'[u] = 0
          BY <2>2, <4>2
        <5>2. (\E m \in pel : m[1] = u /\ ~ Taken(m)) => \E m \in pel' : m[1] = u /\ ~ Taken(m)'
          BY <2>2 DEF IInv, TypeOK
        <5> QED BY <1>1, <1>3, <3>1, <4>2, <5>1, <5>2 DEF Underway
      <4> QED BY <4>1, <4>2
    <3> QED BY <1>1, <1>5, <3>1 DEF IInv, Unfinished, Final, SpoilsNone
  <2> QED BY <2>2, <2>3, <2>4, <2>5, <2>6, <2>7 DEF IInv
<1>6. CASE UNCHANGED <<adds, pel>> /\ Fault("xadd") /\ Spoils(t)
  <2>1. "xadd" \in FaultKinds /\ "xadd" # "rpc"
    BY DEF FaultKinds
  <2>2. /\ faults' \in [FaultKinds -> Nat] /\ faults'["xadd"] > 0
        /\ Quiet' => Quiet
    BY <1>1, <1>6, <2>1, QuietBefore DEF IInv
  <2>3. TypeOK'
    BY <1>1, <1>2, <1>6, <2>2, SpoiltTypes DEF IInv, TypeOK
  <2>4. Elsewhere(t)
    BY <1>1, <1>3, <1>6, HandlerAtWork DEF Elsewhere
  <2>5. Turns(t)' = Turns(t) - 1
    <3>1. Fresh(t)' = Fresh(t)
      BY <1>1, <1>6 DEF Fresh, Taken
    <3> QED BY <1>1, <1>3, <3>1, MessageTypes DEF IInv, Turns, Steps
  <2>6. Quiet' => /\ Turns(t)' <= 1
                  /\ row'[t].state = "FAILED" \/ t \in triggered' => Turns(t)' = 0
                  /\ row'[t].state = "FAILED" => t \notin triggered'
    BY <1>1, <2>2, <2>5, HandlerAtWork
  <2>7. t \in spoilt'
    BY <1>6 DEF Spoils
  <2>8. adds[t] + handler'[t]["xadd"] <= 1 + row'[t].retry
    BY <1>1, <1>3, HandlerAtWork, MessageTypes DEF IInv
  <2> QED BY <1>6, <2>1, <2>3, <2>4, <2>6, <2>7, <2>8, ConcernsOne
<1> QED BY <1>5, <1>6 DEF XAddRetry

-----------------------------------------------------------------------------
(* The batcher, and the end of the process. *)

\* Batches touch neither the stream nor the handlers, and move operations on to
\* the row they are for.
LEMMA BatcherStep == IInv /\ Batcher => IInv'
<1> SUFFICES ASSUME IInv, Batcher PROVE IInv'
  OBVIOUS
<1>1. /\ UNCHANGED <<overlap, adds, pel, attempt, exec, handler, triggered>>
      /\ Fine \/ \E k \in FaultKinds : Fault(k)
  BY Zenon DEF Batcher, TakeBatch, FlushBatch, FaultKinds
<1>2. /\ faults' \in [FaultKinds -> Nat] /\ (Quiet' => Quiet)
  BY <1>1, QuietBefore DEF IInv
<1>3. /\ \A m \in Message : Attempts(m)' = Attempts(m) /\ Taken(m)' = Taken(m)
      /\ \A t \in Task : Turns(t)' = Turns(t)
  BY <1>1 DEF Attempts, Taken, Turns, Fresh
<1>4. /\ row' \in [Task -> [state : States, retry : 0 .. MaxRetry]]
      /\ queue' \in [Task -> Nat] /\ flushing' \in [Task -> Nat]
      /\ \A t \in Task : /\ row'[t].retry = row[t].retry
                         /\ row'[t] = row[t] \/ row'[t].state = "SUCCESS"
  <2>1. CASE TakeBatch
    BY <2>1 DEF TakeBatch, IInv, TypeOK
  <2>2. CASE FlushBatch
    <3>1. \/ row' = row
          \/ row' = [t \in Task |-> IF InBatch(t) THEN [row[t] EXCEPT !.state = "SUCCESS"]
                                                  ELSE row[t]]
      BY <2>2 DEF FlushBatch
    <3>2. /\ row' \in [Task -> [state : States, retry : 0 .. MaxRetry]]
          /\ \A t \in Task : /\ row'[t].retry = row[t].retry
                             /\ row'[t] = row[t] \/ row'[t].state = "SUCCESS"
      BY <3>1 DEF IInv, TypeOK, States
    <3>3. flushing' = [t \in Task |-> 0] /\ queue' = queue
      BY <2>2 DEF FlushBatch
    <3> QED BY <3>2, <3>3 DEF IInv, TypeOK
  <2> QED BY <2>1, <2>2 DEF Batcher
<1>5. TypeOK'
  <2>1. spoilt' \subseteq Task
    BY DEF Batcher, TakeBatch, FlushBatch, SpoilsNone, IInv, TypeOK
  <2> QED BY <1>1, <1>2, <1>4, <2>1 DEF IInv, TypeOK
<1>6. AttemptsBounded' /\ NothingBeforehand' /\ AttemptPending'
  BY <1>1, <1>3 DEF IInv, AttemptsBounded, NothingBeforehand, AttemptPending
<1>7. Budget'
  BY <1>1, <1>4 DEF IInv, Budget
<1>8. OneTurn'
  <2>1. \A t \in Task : row'[t].state = "FAILED" => row[t].state = "FAILED"
    BY <1>4
  <2>2. \A m \in pel' : m \in pel /\ Taken(m)' = Taken(m) /\ adds' = adds
    BY <1>1, <1>3 DEF IInv, TypeOK
  <2> QED BY <1>1, <1>2, <1>3, <2>1, <2>2 DEF IInv, OneTurn
<1>9. Unfinished'
  <2> SUFFICES ASSUME NEW t \in Task, ~ Final(t)', t \notin spoilt'
               PROVE  Underway(t)'
    BY DEF Unfinished
  <2>1. ~ Final(t)
    BY <1>4 DEF Final
  <2>2. Underway(t)
    <3>1. t \notin spoilt
      BY DEF Batcher, TakeBatch, FlushBatch, SpoilsNone
    <3> QED BY <2>1, <3>1 DEF IInv, Unfinished
  <2>3. exec[t] + queue[t] + flushing[t] > 0 => exec'[t] + queue'[t] + flushing'[t] > 0
    <3>1. exec[t] \in Nat /\ queue[t] \in Nat /\ flushing[t] \in Nat
      BY DEF IInv, TypeOK
    <3>2. CASE TakeBatch
      BY <1>1, <3>1, <3>2 DEF TakeBatch
    <3>3. CASE FlushBatch
      <4>1. queue' = queue /\ flushing' = [u \in Task |-> 0]
        BY <3>3 DEF FlushBatch
      <4>2. ~ InBatch(t)
        <5>1. \/ row' = [u \in Task |-> IF InBatch(u) THEN [row[u] EXCEPT !.state = "SUCCESS"]
                                                      ELSE row[u]]
              \/ spoilt' = spoilt \cup {u \in Task : InBatch(u)}
          BY <3>3 DEF FlushBatch
        <5> QED BY <5>1 DEF IInv, TypeOK, Final
      <4> QED BY <1>1, <3>1, <4>1, <4>2 DEF InBatch
    <3> QED BY <3>2, <3>3 DEF Batcher
  <2>4. \A m \in pel : Taken(m)' = Taken(m)
    BY <1>3 DEF IInv, TypeOK
  <2> QED BY <1>1, <2>2, <2>3, <2>4 DEF Underway
<1> QED BY <1>5, <1>6, <1>7, <1>8, <1>9 DEF IInv

\* After a crash nobody is dispatching and no handler is at work.
LEMMA CrashStep == IInv /\ Crash => IInv'
<1> SUFFICES ASSUME IInv, Crash PROVE IInv'
  OBVIOUS
<1>1. /\ Fault("crash") /\ "crash" \in FaultKinds /\ "crash" # "rpc"
      /\ attempt' = [m \in Message |-> NoCall]
      /\ handler' = [t \in Task |-> [p \in Steps |-> 0]]
      /\ queue' = [t \in Task |-> 0] /\ flushing' = [t \in Task |-> 0]
      /\ spoilt' = spoilt \cup {t \in Task : InMemory(t)}
      /\ UNCHANGED <<overlap, row, adds, pel, exec, triggered>>
  BY DEF Crash, FaultKinds
<1>2. faults' \in [FaultKinds -> Nat] /\ faults'["crash"] > 0
  BY <1>1, QuietBefore DEF IInv
<1>3. \A m \in Message : Attempts(m)' = 0
  BY <1>1 DEF Attempts, NoCall
<1>4. TypeOK'
  <2>1. attempt' \in [Message -> [{"queued", "called"} -> 0 .. MaxAttempts]]
    BY <1>1, TaskStatusAssumption DEF NoCall
  <2>2. handler' \in [Task -> [Steps -> Nat]]
    BY <1>1
  <2>3. queue' \in [Task -> Nat] /\ flushing' \in [Task -> Nat]
    BY <1>1
  <2> QED BY <1>1, <1>2, <2>1, <2>2, <2>3 DEF IInv, TypeOK
<1>5. AttemptsBounded' /\ AttemptPending' /\ NothingBeforehand'
  BY <1>1, <1>3, TaskStatusAssumption
     DEF IInv, AttemptsBounded, AttemptPending, NothingBeforehand
<1>6. Budget'
  <2>1. \A t \in Task : handler'[t]["xadd"] = 0 /\ handler[t]["xadd"] \in Nat
    BY <1>1, MessageTypes DEF IInv, Steps
  <2> QED BY <1>1, <2>1, MessageTypes DEF IInv, Budget
<1>7. OneTurn'
  BY <1>2 DEF OneTurn, Quiet
<1>8. Unfinished'
  <2> SUFFICES ASSUME NEW t \in Task, ~ Final(t)', t \notin spoilt'
               PROVE  Underway(t)'
    BY DEF Unfinished
  <2>1. Underway(t) /\ ~ InMemory(t)
    BY <1>1 DEF IInv, Unfinished, Final
  <2>2. \A m \in pel : ~ Taken(m)'
    BY <1>1 DEF IInv, TypeOK, Taken, NoCall
  <2>3. CASE exec[t] > 0
    BY <1>1, <2>3, MessageTypes DEF IInv, Underway
  <2>4. CASE exec[t] = 0
    <3>1. adds[t] = 0 \/ \E m \in pel : m[1] = t
      BY <2>1, <2>4 DEF IInv, TypeOK, Underway, InMemory
    <3> QED BY <1>1, <2>2, <3>1 DEF Underway
  <2> QED BY <2>3, <2>4, MessageTypes DEF IInv
<1> QED BY <1>4, <1>5, <1>6, <1>7, <1>8 DEF IInv

LEMMA Invariance == Spec => []IInv
<1>1. IInv /\ [Next]_vars => IInv'
  <2> SUFFICES ASSUME IInv, [Next]_vars PROVE IInv'
    OBVIOUS
  <2>1. ASSUME NEW m \in Message, Dispatching(m) \/ CallFails(m)
        PROVE  IInv'
    BY <2>1, StartStep, AcceptStep, CallOkStep, CallFailsStep DEF Dispatching
  <2>2. ASSUME NEW t \in Task, Release(t) \/ Handling(t)
        PROVE  IInv'
    BY <2>2, ReleaseStep, RunLuaStep, AddStatusUpdateStep, FailureStep, XAddRetryStep DEF Handling
  <2>3. ASSUME NEW t \in Task, ReportLost(t) \/ \E ok \in BOOLEAN : Report(t, ok)
        PROVE  IInv'
    BY <2>3, ReportStep
  <2>4. CASE Batcher \/ Crash
    BY <2>4, BatcherStep, CrashStep
  <2>5. CASE UNCHANGED vars
    <3>1. UNCHANGED <<overlap, row, adds, pel, attempt, exec, handler, queue, flushing,
                      triggered, spoilt, faults>>
      BY <2>5 DEF vars
    <3>2. TypeOK' /\ Budget'
      BY <3>1 DEF IInv, TypeOK, Budget
    <3>3. AttemptsBounded' /\ NothingBeforehand' /\ AttemptPending'
      BY <3>1 DEF IInv, AttemptsBounded, NothingBeforehand, AttemptPending, Attempts
    <3>4. OneTurn' /\ Unfinished'
      BY <3>1 DEF IInv, OneTurn, Quiet, Turns, Fresh, Taken, Unfinished, Final, Underway
    <3> QED BY <3>2, <3>3, <3>4 DEF IInv
  <2> QED BY <2>1, <2>2, <2>3, <2>4, <2>5 DEF Next
<1> QED BY <1>1, Initially, PTL DEF Spec

-----------------------------------------------------------------------------
\* scheduler_service_impl.cpp and task_repository.cpp: every message of a task
\* but the first is paid for by a retry that is counted in its row, whatever is
\* duplicated, lost or killed between the commit and the XADD.
THEOREM MessagesStayWithinBudget == Spec => []MessagesWithinBudget
<1>1. IInv => MessagesWithinBudget
  BY DEF IInv, Budget, MessagesWithinBudget
<1> QED BY <1>1, Invariance, PTL

\* HandleTaskFailure against the SUCCESS branch of UpdateTaskStatus: dispatched
\* once, a task does not both fail for good and trigger what depends on it.
THEOREM FailureTriggersNothing == Spec => []FailedTriggersNothing
<1>1. IInv => FailedTriggersNothing
  BY DEF IInv, OneTurn, Quiet, FailedTriggersNothing
<1> QED BY <1>1, Invariance, PTL

\* These are all the ways to strand a task: a report or a batch that is lost, a
\* handler that fails or dies with the process, and a dispatch that reverts the
\* row of a task some worker has already got (scheduler_loop.cpp:364).  Whatever
\* else fails, is delivered twice, overlaps or dies, a row that is not final has
\* something on the way to it.
THEOREM NoTaskStranded == Spec => []NotStranded
<1>1. IInv => NotStranded
  <2> SUFFICES ASSUME IInv, NEW t \in Task,
                      row[t].state \notin {"SUCCESS", "FAILED"}, t \notin spoilt
               PROVE  InProgress(t)
    BY DEF NotStranded
  <2>1. Underway(t)
    BY DEF IInv, Unfinished, Final
  <2> QED BY <2>1 DEF Underway, InProgress
<1> QED BY <1>1, Invariance, PTL
==============================================================================
