----------------------------- MODULE WebGateway -----------------------------
(***************************************************************************)
(* The web gateway and its gRPC client, composed with the asynchronous     *)
(* server: src/api-web/src/api_web.cpp and main.cpp,                       *)
(* src/client/src/grpc_client.cpp and                                      *)
(* src/common/include/coroutines/dts_coroutine.h.                          *)
(*                                                                         *)
(* An HTTP thread starts a coroutine that makes the call, suspends, and is *)
(* resumed by the thread of the client's completion queue; the HTTP thread *)
(* sleeps on a future until then.  The client is shared: main, the web     *)
(* server and every coroutine frame own it, and whoever drops the last     *)
(* reference destroys it and joins its thread.                             *)
(***************************************************************************)
EXTENDS AsyncServer

CONSTANT Web       \* the calls made for HTTP requests; the others come from elsewhere

ASSUME WebGatewayAssumption == Web \subseteq Call /\ Web \cap {"main", "server"} = {}

VARIABLES
  http,       \* per request: none, waiting, or the status of its answer
  coroutine,  \* per request: none, suspended, satisfied (the future is), gone
  operation,  \* the call on the client's queue: none, open, event
  result,     \* ok, header (an error in it) or status (gRPC failed)
  poller,     \* the thread of the queue: in AsyncNext, in a coroutine, left
  web,        \* running, stopping, stopped, main's client dropped,
              \* the server's dropped, exited
  clientShut, \* shutdown_, and the shutdown of the queue
  aborted     \* has std::terminate been called?

clientVars == <<http, coroutine, operation, result, poller, web, clientShut, aborted>>
vars       == <<serverVars, clientVars>>

\* What a step of the client does not touch of the server.
serverOnly == <<server, object, registered, serves, event, sending, thread, cqDown,
                crashed, reply, accepted>>

Init ==
  /\ ServerInit
  /\ http = [r \in Web |-> "none"]
  /\ coroutine = [r \in Web |-> "none"]
  /\ operation = [r \in Web |-> "none"]
  /\ result = [r \in Web |-> "none"]
  /\ poller = "next"
  /\ web = "running"
  /\ clientShut = FALSE
  /\ aborted = FALSE

-----------------------------------------------------------------------------
(* Variants with a bug, used to test the properties. *)
BugResumes(x) == x # "status"
BugAtSignal   == clientShut' = TRUE
BugStatusOf(x) == IF x = "ok" THEN "200" ELSE "503"

-----------------------------------------------------------------------------
(* handle_dag_submit, in an HTTP thread.                                   *)

Running == ~aborted /\ web # "exited"

\* await_suspend: StartCall and Finish.
SubmitDag(r) ==
  /\ Running /\ web = "running"
  /\ http[r] = "none"
  /\ http' = [http EXCEPT ![r] = "waiting"]
  /\ coroutine' = [coroutine EXCEPT ![r] = "suspended"]
  /\ operation' = [operation EXCEPT ![r] = "open"]
  /\ rpc' = [rpc EXCEPT ![r] = "sent"]
  /\ UNCHANGED <<serverOnly, result, poller, web, clientShut, aborted>>

\* The JSON is not valid, or DagBuilder throws: nothing is sent.
RefuseRequest(r) ==
  /\ Running /\ web = "running"
  /\ http[r] = "none"
  /\ \E s \in {"400", "503"} : http' = [http EXCEPT ![r] = s]
  /\ UNCHANGED <<serverVars, coroutine, operation, result, poller, web, clientShut, aborted>>

\* A GrpcError is caught before runtime_error, which an error in the header is.
StatusOf(x) == CASE x = "ok" -> "200" [] x = "header" -> "503" [] x = "status" -> "400"

\* future.get() returns.
AnswerRequest(r) ==
  /\ Running
  /\ http[r] = "waiting"
  /\ coroutine[r] \in {"satisfied", "gone"}
  /\ http' = [http EXCEPT ![r] = StatusOf(result[r])]
  /\ UNCHANGED <<serverVars, coroutine, operation, result, poller, web, clientShut, aborted>>

-----------------------------------------------------------------------------
(* gRPC in the client: an answer, a broken call, or the deadline of 5 s.   *)

Finishes(r, x) ==
  /\ operation' = [operation EXCEPT ![r] = "event"]
  /\ result' = [result EXCEPT ![r] = x]
  /\ UNCHANGED <<serverOnly, http, coroutine, poller, web, clientShut, aborted>>

ReceiveAnswer(r) ==
  /\ Running /\ operation[r] = "open"
  /\ \/ rpc[r] = "answered" /\ Finishes(r, IF reply[r] = "ok" THEN "ok" ELSE "header")
     \/ rpc[r] = "refused"  /\ Finishes(r, "status")
  /\ UNCHANGED rpc

DeadlineExpires(r) ==
  /\ Running /\ operation[r] = "open"
  /\ rpc[r] \in {"sent", "matched"}
  /\ Finishes(r, "status")
  /\ rpc' = [rpc EXCEPT ![r] = "given up"]

-----------------------------------------------------------------------------
(* CompleteRpc, the thread of the client's queue.                          *)

\* Proceed resumes the coroutine, whatever the status is.
Resumes(x) == TRUE

\* The coroutine keeps the response or the exception, and set_value wakes the
\* HTTP thread; its frame is still there.
TakeEvent(r) ==
  /\ Running /\ poller = "next"
  /\ operation[r] = "event"
  /\ operation' = [operation EXCEPT ![r] = "none"]
  /\ IF Resumes(result[r])
     THEN poller' = r /\ coroutine' = [coroutine EXCEPT ![r] = "satisfied"]
     ELSE UNCHANGED <<poller, coroutine>>
  /\ UNCHANGED <<serverVars, http, result, web, clientShut, aborted>>

\* The owners of the client.
Frames == {r \in Web : coroutine[r] \in {"suspended", "satisfied"}}
Owners == Frames \cup (IF web \in {"running", "stopping", "stopped"} THEN {"main"} ELSE {})
                 \cup (IF web \in {"running", "stopping", "stopped", "main dropped"}
                       THEN {"server"} ELSE {})

\* The frame is destroyed, and its client with it; if that was the last one,
\* ~GrpcClient runs here and joins the thread it runs in.
DestroyFrame(r) ==
  /\ Running /\ poller = r
  /\ coroutine[r] = "satisfied"
  /\ coroutine' = [coroutine EXCEPT ![r] = "gone"]
  /\ IF Owners = {r}
     THEN aborted' = TRUE /\ clientShut' = TRUE /\ UNCHANGED poller
     ELSE /\ poller' = IF clientShut THEN "left" ELSE "next"
          /\ UNCHANGED <<aborted, clientShut>>
  /\ UNCHANGED <<serverVars, http, operation, result, web>>

\* AsyncNext times out after a second, or the queue is shut down.
LeavePolling ==
  /\ Running /\ poller = "next"
  /\ clientShut
  /\ poller' = "left"
  /\ UNCHANGED <<serverVars, http, coroutine, operation, result, web, clientShut, aborted>>

-----------------------------------------------------------------------------
(* main of the web gateway.                                                *)

\* What SignalHandler does with the client: nothing.
AtSignal == UNCHANGED clientShut

SignalStops ==
  /\ Running /\ web = "running"
  /\ web' = "stopping"
  /\ AtSignal
  /\ UNCHANGED <<serverVars, http, coroutine, operation, result, poller, aborted>>

\* listen() returns when the HTTP threads have finished their requests.
RunReturns ==
  /\ Running /\ web = "stopping"
  /\ \A r \in Web : http[r] # "waiting"
  /\ web' = "stopped"
  /\ UNCHANGED <<serverVars, http, coroutine, operation, result, poller, clientShut, aborted>>

\* grpc_client of main leaves its scope, then the static g_server is destroyed;
\* if no frame is left, its reference is the last one.
DropClient ==
  /\ Running
  /\ \/ web = "stopped" /\ web' = "main dropped" /\ UNCHANGED clientShut
     \/ /\ web = "main dropped"
        /\ web' = "server dropped"
        /\ clientShut' = (clientShut \/ Owners = {"server"})
  /\ UNCHANGED <<serverVars, http, coroutine, operation, result, poller, aborted>>

\* After ~GrpcClient has joined its thread.  If a frame owns the client, no
\* destructor waits, and the process ends under its coroutine.
Exit ==
  /\ Running /\ web = "server dropped"
  /\ clientShut => poller = "left"
  /\ web' = "exited"
  /\ UNCHANGED <<serverVars, http, coroutine, operation, result, poller, clientShut, aborted>>

\* A call of some other client, GetJobStatus for instance.
OtherCall(k) ==
  /\ rpc[k] = "none"
  /\ rpc' = [rpc EXCEPT ![k] = "sent"]
  /\ UNCHANGED <<serverOnly, clientVars>>

-----------------------------------------------------------------------------
HttpThread(r) == SubmitDag(r) \/ RefuseRequest(r) \/ AnswerRequest(r)
Poller        == (\E r \in Web : TakeEvent(r) \/ DestroyFrame(r)) \/ LeavePolling
Main          == SignalStops \/ RunReturns \/ DropClient \/ Exit

Next == \/ ServerNext /\ UNCHANGED clientVars
        \/ \E r \in Web : HttpThread(r) \/ ReceiveAnswer(r) \/ DeadlineExpires(r)
        \/ \E k \in Call \ Web : OtherCall(k)
        \/ Poller \/ Main

Spec == Init /\ [][Next]_vars

\* Threads run, deadlines expire, gRPC completes what it has begun, and a
\* destructor goes on; nobody has to send a request or a signal.
FairSpec ==
  /\ Spec
  /\ \A q \in Cq : WF_vars(DriveCompletionQueue(q) /\ UNCHANGED clientVars)
  /\ WF_vars(Grpc /\ UNCHANGED clientVars)
  /\ WF_vars(Shutdown /\ UNCHANGED clientVars)
  /\ \A r \in Web : /\ WF_vars(AnswerRequest(r))
                    /\ WF_vars(ReceiveAnswer(r) \/ DeadlineExpires(r))
  /\ WF_vars(Poller)
  /\ WF_vars(RunReturns \/ DropClient \/ Exit)

-----------------------------------------------------------------------------
\* api_web.cpp:235-250, what an answer tells its sender is true: after a 200 the
\* job has been accepted, after a 503 it has not been and will not be.  (After a
\* 400, which is the code of a failed call, both are possible.)
AnswersTrue == \A r \in Web : /\ http[r] = "200" => r \in accepted
                              /\ http[r] = "503" => r \notin accepted

\* grpc_client.cpp:32, the loop ends on shutdown_ without draining the queue: no
\* call is open, and no event queued, when the client is shut down, or coroutines
\* would never be resumed and gRPC would write into memory that is gone.
NoEventLeft == clientShut => \A r \in Web : operation[r] = "none"

\* dts_coroutine.h:116, a coroutine is always resumed and the HTTP thread that
\* waits for it answers, though calls are refused, broken or late, and though
\* either process is stopping; only std::terminate keeps it from that.
EveryRequestAnswered ==
  \A r \in Web : http[r] = "waiting" ~> (http[r] # "waiting" \/ aborted)

\* Both processes come to an end once they have been told to stop: no thread is
\* waited for that waits for something else (or the process aborts).
BothStop == /\ server = "closing" ~> (server = "joined" \/ crashed)
            /\ web = "stopping" ~> (web = "exited" \/ aborted)
===============================================================================
