----------------------------- MODULE AsyncServer -----------------------------
(***************************************************************************)
(* The asynchronous gRPC server of the API process,                        *)
(* src/api-server/include/api_server.hpp and src/api-server/src/*.cpp.     *)
(* A call is an AsyncCallContext: an object that waits for a request, is   *)
(* handed to the thread of its completion queue as the tag of an event,    *)
(* runs the handler there, starts to send the response, registers a new    *)
(* object in its place, and deletes itself when the response is out.       *)
(*                                                                         *)
(* gRPC is external: it matches a call with a registered object, sends     *)
(* responses, and queues events.  Its Shutdown fails what is registered,   *)
(* and returns once no call is open; an operation on a completion queue    *)
(* that is shut down aborts the process.  Each address is a number; `new`  *)
(* takes the lowest one that is free, so that addresses are reused at once.*)
(***************************************************************************)
EXTENDS Integers, FiniteSets, FiniteSetsExt

CONSTANTS
  Call,            \* calls of clients, each made once
  MethodOf(_),     \* the method of a call
  Method,          \* the methods a context is set up for
  Cq,              \* completion queues, each with one thread
  InitialContexts  \* DTS_INITIAL_CONTEXT, per method and queue

ASSUME AsyncServerAssumption ==
  /\ IsFiniteSet(Call) /\ IsFiniteSet(Method) /\ IsFiniteSet(Cq)
  /\ \A k \in Call : MethodOf(k) \in Method
  /\ InitialContexts \in Nat \ {0}

VARIABLES
  server,     \* serving, in server_->Shutdown, shutting the queues down, joined
  object,     \* per address: free, or a context with its status, method and queue
  registered, \* contexts that gRPC may give a call to
  serves,     \* the call of a context
  event,      \* queued events: tag and ok
  sending,    \* contexts whose Finish is under way
  thread,     \* per queue: in Next, or in Proceed of a context, or left
  cqDown,     \* queues that are shut down
  crashed,    \* has an operation on such a queue aborted the process?
  rpc,        \* per call: not made, sent, matched, answered, refused, given up
  reply,      \* what the handler put into the response of a call
  accepted    \* calls whose handler accepted a job

serverVars == <<server, object, registered, serves, event, sending, thread, cqDown,
                crashed, rpc, reply, accepted>>

\* Run() makes the first contexts: address i belongs to place[i].
Places == Cq \X Method \X (1 .. InitialContexts)
Place  == CHOOSE f \in [1 .. Cardinality(Places) -> Places] :
            \A p \in Places : \E i \in 1 .. Cardinality(Places) : f[i] = p

\* An address is needed for each context that waits and for each call.
Address == 1 .. Cardinality(Places) + Cardinality(Call)

Free      == [status |-> "free"]
Allocated == {c \in Address : object[c] # Free}
InNext    == [in |-> "Next"]

Context(s, m, q) == [status |-> s, method |-> m, cq |-> q]

ServerInit ==
  /\ server = "serving"
  /\ object = [c \in Address |-> IF c \in DOMAIN Place
                                 THEN Context("CREATE", Place[c][2], Place[c][1]) ELSE Free]
  /\ registered = DOMAIN Place
  /\ serves = [c \in Address |-> {}]
  /\ event = {}
  /\ sending = {}
  /\ thread = [q \in Cq |-> InNext]
  /\ cqDown = {}
  /\ crashed = FALSE
  /\ rpc = [k \in Call |-> "none"]
  /\ reply = [k \in Call |-> "none"]
  /\ accepted = {}

-----------------------------------------------------------------------------
(* Variants with a bug, used to test the properties. *)
BugAfterFinish(c)  == Free
BugRenews(r)       == r = "ok"
BugToShut          == {}

-----------------------------------------------------------------------------
(* gRPC gives a call to a registered context.                              *)

Match(k, c) ==
  /\ ~crashed /\ server = "serving"
  /\ rpc[k] = "sent"
  /\ c \in registered /\ object[c].method = MethodOf(k)
  /\ rpc' = [rpc EXCEPT ![k] = "matched"]
  /\ serves' = [serves EXCEPT ![c] = {k}]
  /\ registered' = registered \ {c}
  /\ event' = event \cup {[tag |-> c, ok |-> TRUE]}
  /\ UNCHANGED <<server, object, sending, thread, cqDown, crashed, reply, accepted>>

-----------------------------------------------------------------------------
(* DriveCompletionQueue and Proceed, in the thread of queue q.             *)

\* The queue an event is in is that of its context.
At(e, q) == object[e.tag] # Free /\ object[e.tag].cq = q

\* Shutdown, or the response is out: delete this.
Delete(q, e) ==
  /\ ~crashed /\ thread[q] = InNext
  /\ e \in event /\ At(e, q)
  /\ ~e.ok \/ object[e.tag].status = "FINISH"
  /\ object' = [object EXCEPT ![e.tag] = Free]
  /\ serves' = [serves EXCEPT ![e.tag] = {}]
  /\ event' = event \ {e}
  /\ UNCHANGED <<server, registered, sending, thread, cqDown, crashed, rpc, reply, accepted>>

BeginHandler(q, e) ==
  /\ ~crashed /\ thread[q] = InNext
  /\ e \in event /\ At(e, q)
  /\ e.ok /\ object[e.tag].status = "CREATE"
  /\ event' = event \ {e}
  /\ thread' = [thread EXCEPT ![q] = [in |-> "handler", this |-> e.tag]]
  /\ UNCHANGED <<server, object, registered, serves, sending, cqDown, crashed, rpc, reply, accepted>>

\* Is an operation of q open, whose event is not in the queue yet?
Pending(q) == \E c \in registered \cup sending : object[c] # Free /\ object[c].cq = q

\* gRPC asserts that a queue takes one more operation: it is not shut down, or
\* not drained yet.
Takes(q) == q \notin cqDown \/ Pending(q)

Abort == /\ crashed' = TRUE
         /\ UNCHANGED <<server, object, registered, serves, event, sending, thread,
                        cqDown, rpc, reply, accepted>>

\* After Finish the context waits for its event; only then may it be deleted.
AfterFinish(c) == [object[c] EXCEPT !.status = "FINISH"]

\* The handler: a job id, or an error in the header of the response, also when
\* it throws (SafeExecute).  Then Finish.
Handle(q, r) ==
  /\ ~crashed /\ thread[q].in = "handler"
  /\ Takes(q)
  /\ LET c == thread[q].this
         k == CHOOSE x \in serves[c] : TRUE
     IN  /\ reply' = [reply EXCEPT ![k] = r]
         /\ accepted' = IF r = "ok" THEN accepted \cup {k} ELSE accepted
         /\ object' = [object EXCEPT ![c] = AfterFinish(c)]
         /\ sending' = sending \cup {c}
         /\ thread' = [thread EXCEPT ![q] = [in |-> "renew", this |-> c, reply |-> r]]
  /\ UNCHANGED <<server, registered, serves, event, cqDown, crashed, rpc>>

HandleTooLate(q) ==
  /\ ~crashed /\ thread[q].in = "handler"
  /\ ~Takes(q)
  /\ Abort

\* Whatever the handler answered.
Renews(r) == TRUE

\* new AsyncCallContext: it registers itself, for the same method and queue.
Renew(q) ==
  /\ ~crashed /\ thread[q].in = "renew"
  /\ Takes(q)
  /\ LET n == Min(Address \ Allocated)
     IN  IF ~Renews(thread[q].reply) THEN UNCHANGED <<object, registered, event>>
         ELSE /\ object' = [object EXCEPT
                              ![n] = Context("CREATE", object[thread[q].this].method, q)]
              /\ IF server = "serving"
                 THEN registered' = registered \cup {n} /\ UNCHANGED event
                 ELSE event' = event \cup {[tag |-> n, ok |-> FALSE]} /\ UNCHANGED registered
  /\ thread' = [thread EXCEPT ![q] = InNext]
  /\ UNCHANGED <<server, serves, sending, cqDown, crashed, rpc, reply, accepted>>

RenewTooLate(q) ==
  /\ ~crashed /\ thread[q].in = "renew"
  /\ ~Takes(q)
  /\ Abort

\* gRPC has sent the response, or found the call given up.
Sent(c) ==
  /\ ~crashed /\ c \in sending
  /\ sending' = sending \ {c}
  /\ \E k \in serves[c] :
       /\ event' = event \cup {[tag |-> c, ok |-> rpc[k] = "matched"]}
       /\ rpc' = [rpc EXCEPT ![k] = IF @ = "matched" THEN "answered" ELSE @]
  /\ UNCHANGED <<server, object, registered, serves, thread, cqDown, crashed, reply, accepted>>

-----------------------------------------------------------------------------
(* Shutdown.                                                               *)

ServerShutdown ==
  /\ server = "serving"
  /\ server' = "closing"
  /\ event' = event \cup {[tag |-> c, ok |-> FALSE] : c \in registered}
  /\ registered' = {}
  /\ UNCHANGED <<object, serves, sending, thread, cqDown, crashed, rpc, reply, accepted>>

\* A server that is closing or gone refuses; a connection to it breaks.
RefuseCall(k) ==
  /\ \/ rpc[k] = "sent" /\ server # "serving"
     \/ rpc[k] \in {"sent", "matched"} /\ crashed
  /\ rpc' = [rpc EXCEPT ![k] = "refused"]
  /\ UNCHANGED <<server, object, registered, serves, event, sending, thread, cqDown,
                 crashed, reply, accepted>>

\* server_->Shutdown() returns: a call that was given up is not open any more.
ShutdownReturns ==
  /\ ~crashed /\ server = "closing"
  /\ \A k \in Call : rpc[k] # "matched"
  /\ server' = "closed"
  /\ UNCHANGED <<object, registered, serves, event, sending, thread, cqDown, crashed,
                 rpc, reply, accepted>>

\* for (auto& cq : cqs_) cq->Shutdown().
ToShut == Cq \ cqDown

ShutdownQueue(q) ==
  /\ ~crashed /\ server = "closed"
  /\ q \in ToShut
  /\ cqDown' = cqDown \cup {q}
  /\ UNCHANGED <<server, object, registered, serves, event, sending, thread, crashed,
                 rpc, reply, accepted>>

\* Next returns false when the queue is shut down and no operation is open.
LeaveLoop(q) ==
  /\ ~crashed /\ thread[q] = InNext
  /\ q \in cqDown
  /\ ~\E e \in event : At(e, q)
  /\ ~Pending(q)
  /\ thread' = [thread EXCEPT ![q] = [in |-> "left"]]
  /\ UNCHANGED <<server, object, registered, serves, event, sending, cqDown, crashed,
                 rpc, reply, accepted>>

JoinThreads ==
  /\ ~crashed /\ server = "closed"
  /\ \A q \in Cq : thread[q].in = "left"
  /\ server' = "joined"
  /\ UNCHANGED <<object, registered, serves, event, sending, thread, cqDown, crashed,
                 rpc, reply, accepted>>

-----------------------------------------------------------------------------
DriveCompletionQueue(q) ==
  \/ \E e \in event : Delete(q, e) \/ BeginHandler(q, e)
  \/ (\E r \in {"ok", "error"} : Handle(q, r)) \/ HandleTooLate(q)
  \/ Renew(q) \/ RenewTooLate(q)
  \/ LeaveLoop(q)

\* What gRPC does by itself.
Grpc == \/ \E k \in Call, c \in Address : Match(k, c)
        \/ \E c \in Address : Sent(c)
        \/ \E k \in Call : RefuseCall(k)

Shutdown == ShutdownReturns \/ (\E q \in Cq : ShutdownQueue(q)) \/ JoinThreads

ServerNext == (\E q \in Cq : DriveCompletionQueue(q)) \/ Grpc \/ ServerShutdown \/ Shutdown

-----------------------------------------------------------------------------
\* The operations gRPC has open for a context: its tag comes back once for each.
Open(c) == (IF c \in registered THEN 1 ELSE 0) + (IF c \in sending THEN 1 ELSE 0)
             + Cardinality({e \in event : e.tag = c})

Inside(c, step) == Cardinality({q \in Cq : thread[q].in = step /\ thread[q].this = c})

\* api_server.hpp:86, "only when gRPC says that the sending is complete can it be
\* destroyed safely": a context that gRPC will still hand out, or that a thread
\* is inside of, is allocated, one that is allocated has exactly one operation
\* open or is in its handler (none leaks, none is deleted twice), and after a
\* shutdown all are gone.
TagsLive ==
  /\ \A c \in Address :
       IF c \in Allocated THEN Open(c) + Inside(c, "handler") = 1
                          ELSE Open(c) + Inside(c, "handler") + Inside(c, "renew") = 0
  /\ server = "joined" => Allocated = {}

\* While it serves, the server never loses capacity, whatever its handlers answer
\* or throw: for each method every queue has its initial number of contexts that
\* wait for a call, have just got one, or are about to be replaced.
CapacityKept ==
  server = "serving" =>
    \A q \in Cq, m \in Method :
      InitialContexts = Cardinality(
        {c \in Allocated : /\ object[c].method = m /\ object[c].cq = q
                           /\ \/ object[c].status = "CREATE"
                              \/ thread[q].in = "renew" /\ thread[q].this = c})
===============================================================================
