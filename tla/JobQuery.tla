------------------------------ MODULE JobQuery ------------------------------
(***************************************************************************)
(* What a client learns of its job: JobQueryHandler of the API server,     *)
(* src/api-server/src/job_query_handler.cpp, composed with the writers of  *)
(* the task rows it reads: the commit of TaskSubmitter, DbBatcher, and     *)
(* HandleTaskFailure and RevertTaskToPending of TaskRepository.            *)
(*                                                                         *)
(* One client polls one job.  The handler first looks into Redis, but      *)
(* nothing writes dts:job:tasks or dts:task:runtime, so every lookup       *)
(* misses or fails, and the database answers: in one transaction for the   *)
(* ids of the tasks, in another one for their rows.                        *)
(***************************************************************************)
EXTENDS DbBatcher, FiniteSets

VARIABLES
  columns,   \* the columns of the table task, the same throughout
  committed, \* are the rows of the job in the database?
  state,     \* per task: the column state
  step,      \* of the handler: idle, or between its two transactions
  known,     \* was the job committed when the query began?
  answer,    \* the answer of this query, or of the last one; none before
  failed,    \* history of the job: no failure report, some, a task given up
  undone     \* history: tasks whose written SUCCESS was reverted and not written again

rowVars   == <<committed, state, failed, undone>>
queryVars == <<step, known, answer>>
allVars   == <<vars, columns, rowVars, queryVars>>

\* init.sql:52, as far as the queries name them.
TaskColumns == {"task_id", "job_id", "state", "worker_id", "error_msg", "result", "retry_count"}

\* The database may have been set up with the column that the handler expects.
JobInit ==
  /\ Init
  /\ columns \in {TaskColumns, TaskColumns \cup {"result_payload"}}
  /\ committed = FALSE
  /\ state = [t \in Task |-> "PENDING"]
  /\ step = "idle" /\ known = FALSE /\ answer = "none"
  /\ failed = "never" /\ undone = {}

-----------------------------------------------------------------------------
(* Variants with a bug, used to test the properties. *)
BugComplete(rows) == rows

-----------------------------------------------------------------------------
(* The writers.                                                            *)

\* FlushDBBatch of TaskSubmitter: all tasks of the job, PENDING or WAITING_DEPS.
Commit ==
  /\ ~committed
  /\ committed' = TRUE
  /\ UNCHANGED <<vars, columns, state, failed, undone, queryVars>>

\* A task that succeeded; it has been published, hence committed.
ReportSuccess(t) ==
  /\ committed
  /\ AddStatusUpdate(t)
  /\ UNCHANGED <<columns, rowVars, queryVars>>

FlushRows ==
  /\ Flush
  /\ state' = [t \in Task |-> IF Values(t) # {} THEN "SUCCESS" ELSE state[t]]
  /\ undone' = {t \in undone : Values(t) = {}}
  /\ UNCHANGED <<columns, committed, failed, queryVars>>

\* HandleTaskFailure: the row is PENDING for a retry, or FAILED.
ReportFailure(t) ==
  /\ serving /\ committed
  /\ \/ /\ state' = [state EXCEPT ![t] = "PENDING"]
        /\ failed' = IF failed = "never" THEN "retried" ELSE failed
     \/ /\ state' = [state EXCEPT ![t] = "FAILED"]
        /\ failed' = "given up"
  /\ UNCHANGED <<vars, columns, committed, undone, queryVars>>

\* DoDispatch after a RunTask that failed, or that missed its deadline though the
\* worker has the task: the row is PENDING again, whatever it was.  The pool
\* still does this when the server and the batcher have stopped.
RevertTaskToPending(t) ==
  /\ committed
  /\ state' = [state EXCEPT ![t] = "PENDING"]
  /\ undone' = IF state[t] = "SUCCESS" THEN undone \cup {t} ELSE undone
  /\ UNCHANGED <<vars, columns, committed, failed, queryVars>>

-----------------------------------------------------------------------------
(* Handle.                                                                 *)

\* A transaction of the handler fails.
DatabaseFails ==
  /\ failures < MaxFailures
  /\ failures' = failures + 1
  /\ UNCHANGED <<serving, arrived, queue, batch, pc, stop, joined, row, flushed, dropped>>

\* GetTaskIdsFromDB: nothing found ends the query.
FindTasks ==
  /\ step = "idle"
  /\ known' = committed
  /\ IF committed THEN step' = "found" /\ answer' = "none"
                  ELSE answer' = "JOB_NOT_FOUND" /\ UNCHANGED step
  /\ UNCHANGED <<vars, columns, rowVars>>

\* Its exception leaves the handler, and SafeExecute answers.
FindTasksThrows ==
  /\ step = "idle"
  /\ DatabaseFails
  /\ known' = committed
  /\ answer' = "SYS_INTERNAL"
  /\ UNCHANGED <<columns, rowVars, step>>

\* The second statement of FetchTaskDetails names these.
Selected == {"task_id", "state", "worker_id", "error_msg", "result_payload", "retry_count"}

\* How many tasks must have succeeded: task_ids.size(), not the rows that came.
Complete(rows) == Task

\* The aggregation over the rows that came; none is ever RUNNING, TIMEOUT or
\* CANCELLED, which nothing writes.
JobState(rows) ==
  LET InState(x) == {t \in rows : state[t] = x}
  IN  IF InState("FAILED") # {} THEN "JOB_FAILED"
      ELSE IF InState("SUCCESS") = Complete(rows) THEN "JOB_SUCCESS"
      ELSE IF InState("PENDING") = Task THEN "JOB_PENDING"
      ELSE "JOB_RUNNING"

Answer(rows) ==
  /\ step = "found"
  /\ step' = "idle"
  /\ answer' = JobState(rows)
  /\ UNCHANGED <<columns, rowVars, known>>

FetchTaskDetails == Selected \subseteq columns /\ Answer(Task) /\ UNCHANGED vars

\* Its exception is caught, and no row comes.
FetchTaskDetailsThrows ==
  \/ ~(Selected \subseteq columns) /\ Answer({}) /\ UNCHANGED vars
  \/ DatabaseFails /\ Answer({})

-----------------------------------------------------------------------------
Writers == \/ Commit
           \/ \E t \in Task : \/ ReportSuccess(t) \/ ReportFailure(t)
                              \/ RevertTaskToPending(t)

Batcher == \/ FlushRows
           \/ (Test \/ NothingToDo \/ TakeBatch \/ FlushThrows)
                /\ UNCHANGED <<columns, rowVars, queryVars>>

Handle == FindTasks \/ FindTasksThrows \/ FetchTaskDetails \/ FetchTaskDetailsThrows

JobNext == \/ Writers \/ Batcher \/ Handle
           \/ (ServerShutdown \/ Stop \/ Join) /\ UNCHANGED <<columns, rowVars, queryVars>>

\* The client polls, and the batcher's thread runs: wait_for has a timeout and
\* statements end.
JobFairSpec ==
  /\ JobInit /\ [][JobNext]_allVars
  /\ WF_allVars(Batcher)
  /\ WF_allVars(Join /\ UNCHANGED <<columns, rowVars, queryVars>>)
  /\ WF_allVars(Handle)

-----------------------------------------------------------------------------
Reported == Task \subseteq ToSet(arrived)

\* job_query_handler.cpp:48 and :97-114, an answer never says more than is true,
\* though its two transactions see different rows and either may fail: a job is
\* successful only if every task has reported success, failed only if a task was
\* given up, and not found only if it was not committed when the query began.
AnswerTrue ==
  /\ answer = "JOB_SUCCESS"   => Reported
  /\ answer = "JOB_FAILED"    => failed = "given up"
  /\ answer = "JOB_NOT_FOUND" => ~known

\* A client that polls learns in the end that its job is done, without a full
\* batch in DbBatcher, unless an UPDATE throws, a task has also reported a
\* failure, or the SUCCESS of some task stays reverted by a dispatch that failed
\* (scheduler_loop.cpp:364); and if the table has the columns that the handler
\* asks for.  That of init.sql has not: there every committed job is answered
\* JOB_RUNNING for ever.
SeenInTheEnd ==
  (Reported /\ Selected \subseteq columns)
     ~> (answer = "JOB_SUCCESS" \/ dropped # {} \/ failed # "never" \/ [](undone # {}))
===============================================================================
