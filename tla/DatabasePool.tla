----------------------------- MODULE DatabasePool -----------------------------
(***************************************************************************)
(* The PostgreSQL connection pool, src/common/include/database_pool.h:     *)
(* callers of ExecuteTx share a fixed number of connections, wait for one  *)
(* on a condition variable, and replace a broken one when they return it.  *)
(*                                                                         *)
(* A connection is "good", or "dead" when the server has gone away and     *)
(* nobody has noticed, or "closed" once libpqxx has (is_open() is false).  *)
(* DispatchPool runs this pool next to the one whose jobs call it.         *)
(***************************************************************************)
EXTENDS Integers, FiniteSets, Sequences, SequencesExt

CONSTANTS
  Caller,    \* threads that call ExecuteTx
  Size,      \* pool_size
  MaxCalls,  \* bound: calls of each caller
  MaxOutages \* bound: how often the database goes away

VARIABLES
  pool,    \* m_pool, a queue of connections
  pc,      \* per caller: not calling, about to lock, asleep, in the transaction, returning
  conn,    \* the connection a caller holds
  lost,    \* connections given up: ReleaseConnection could not reconnect
  dbUp,    \* is the database reachable?
  calls,   \* calls made, per caller
  outages  \* outages so far

vars == <<pool, pc, conn, lost, dbUp, calls, outages>>

Init == /\ pool = [i \in 1 .. Size |-> "good"]
        /\ pc = [c \in Caller |-> "idle"]
        /\ conn = [c \in Caller |-> "none"]
        /\ lost = 0
        /\ dbUp = TRUE
        /\ calls = [c \in Caller |-> 0]
        /\ outages = 0

Asleep == {c \in Caller : pc[c] = "asleep"}
Goto(c, l) == pc' = [pc EXCEPT ![c] = l]

-----------------------------------------------------------------------------
(* Variants with a bug, used to test the properties. *)
BugWakeOne(c) == pc' = [pc EXCEPT ![c] = "idle"]
BugPopped     == pool

-----------------------------------------------------------------------------
(* ExecuteTx. *)

Call(c) ==
  /\ pc[c] = "idle"
  /\ calls[c] < MaxCalls
  /\ calls' = [calls EXCEPT ![c] = @ + 1]
  /\ Goto(c, "lock")
  /\ UNCHANGED <<pool, conn, lost, dbUp, outages>>

\* AcquireConnection: wait() sleeps while the pool is empty.
Sleep(c) ==
  /\ pc[c] = "lock"
  /\ pool = <<>>
  /\ Goto(c, "asleep")
  /\ UNCHANGED <<pool, conn, lost, dbUp, calls, outages>>

\* The queue after front() and pop().
Popped == Tail(pool)

Acquire(c) ==
  /\ pc[c] = "lock"
  /\ pool # <<>>
  /\ conn' = [conn EXCEPT ![c] = Head(pool)]
  /\ pool' = Popped
  /\ Goto(c, "tx")
  /\ UNCHANGED <<lost, dbUp, calls, outages>>

SpuriousWakeup(c) ==
  /\ pc[c] = "asleep"
  /\ Goto(c, "lock")
  /\ UNCHANGED <<pool, conn, lost, dbUp, calls, outages>>

\* Committed, or rolled back because tx_logic threw: the connection is as good.
Transaction(c) ==
  /\ pc[c] = "tx"
  /\ conn[c] = "good"
  /\ Goto(c, "release")
  /\ UNCHANGED <<pool, conn, lost, dbUp, calls, outages>>

\* broken_connection, or another exception that leaves the connection closed.
ConnectionBreaks(c) ==
  /\ pc[c] = "tx"
  /\ conn[c] = "dead"
  /\ conn' = [conn EXCEPT ![c] = "closed"]
  /\ Goto(c, "release")
  /\ UNCHANGED <<pool, lost, dbUp, calls, outages>>

\* ReleaseConnection, outside the mutex: replace a closed connection.
Reconnect(c) ==
  /\ pc[c] = "release"
  /\ conn[c] = "closed"
  /\ dbUp
  /\ conn' = [conn EXCEPT ![c] = "good"]
  /\ UNCHANGED <<pool, pc, lost, dbUp, calls, outages>>

\* It cannot be replaced: nothing is pushed, and nobody is notified.
GiveUp(c) ==
  /\ pc[c] = "release"
  /\ conn[c] = "closed"
  /\ ~dbUp
  /\ conn' = [conn EXCEPT ![c] = "none"]
  /\ lost' = lost + 1
  /\ Goto(c, "idle")
  /\ UNCHANGED <<pool, dbUp, calls, outages>>

\* The caller is back, and notify_one wakes one of those asleep, if any.
WakeOne(c) ==
  IF Asleep = {} THEN Goto(c, "idle")
  ELSE \E s \in Asleep : pc' = [pc EXCEPT ![c] = "idle", ![s] = "lock"]

\* ReleaseConnection, with the mutex: push and notify.
Release(c) ==
  /\ pc[c] = "release"
  /\ conn[c] \in {"good", "dead"}
  /\ pool' = Append(pool, conn[c])
  /\ conn' = [conn EXCEPT ![c] = "none"]
  /\ WakeOne(c)
  /\ UNCHANGED <<lost, dbUp, calls, outages>>

-----------------------------------------------------------------------------
(* The database. *)

Dead(k) == IF k = "good" THEN "dead" ELSE k

DbGoesAway ==
  /\ dbUp
  /\ outages < MaxOutages
  /\ outages' = outages + 1
  /\ dbUp' = FALSE
  /\ pool' = [i \in DOMAIN pool |-> Dead(pool[i])]
  /\ conn' = [c \in Caller |-> Dead(conn[c])]
  /\ UNCHANGED <<pc, lost, calls>>

DbComesBack ==
  /\ ~dbUp
  /\ dbUp' = TRUE
  /\ UNCHANGED <<pool, pc, conn, lost, calls, outages>>

-----------------------------------------------------------------------------
ExecuteTx(c) == \/ Sleep(c) \/ Acquire(c)
                \/ Transaction(c) \/ ConnectionBreaks(c)
                \/ Reconnect(c) \/ GiveUp(c) \/ Release(c)

Next == \/ \E c \in Caller : Call(c) \/ ExecuteTx(c) \/ SpuriousWakeup(c)
        \/ DbGoesAway \/ DbComesBack

Spec == Init /\ [][Next]_vars

-----------------------------------------------------------------------------
Connection == {"good", "dead", "closed"}

\* The types of the variables.
TypeOK ==
  /\ pool \in Seq(Connection \ {"closed"})
  /\ pc \in [Caller -> {"idle", "lock", "asleep", "tx", "release"}]
  /\ conn \in [Caller -> Connection \cup {"none"}]
  /\ lost \in Nat
  /\ dbUp \in BOOLEAN
  /\ calls \in [Caller -> 0 .. MaxCalls]
  /\ outages \in 0 .. MaxOutages

Holders == {c \in Caller : conn[c] # "none"}

\* No connection leaks and none is shared: every one the constructor opened is
\* pooled, held by exactly one caller or given up, and those who hold one are
\* those in the middle of a transaction.
Conserved ==
  /\ Len(pool) + Cardinality(Holders) + lost = Size
  /\ Holders = {c \in Caller : pc[c] \in {"tx", "release"}}

\* No lost wakeup: while somebody sleeps, every pooled connection has a caller
\* on the way to it.
NoLostWakeup ==
  Asleep # {} => Len(pool) <= Cardinality({c \in Caller : pc[c] = "lock"})
===============================================================================
