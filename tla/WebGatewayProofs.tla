--------------------------- MODULE WebGatewayProofs ---------------------------
(***************************************************************************)
(* Proofs about AsyncServer and WebGateway, for every number of calls,     *)
(* methods, queues and initial contexts.                                   *)
(***************************************************************************)
EXTENDS WebGateway, FiniteSetTheorems, WellFoundedInduction, TLAPS

-----------------------------------------------------------------------------
(***************************************************************************)
(* The inductive invariant of the server.                                  *)
(***************************************************************************)
ContextSet == [status : {"CREATE", "FINISH"}, method : Method, cq : Cq]
ThreadSet  == {InNext, [in |-> "left"]}
                \cup [in : {"handler"}, this : Address]
                \cup [in : {"renew"}, this : Address, reply : {"ok", "error"}]

EventSet == [tag : Address, ok : BOOLEAN]

ServerTypes ==
  /\ server \in {"serving", "closing", "closed", "joined"}
  /\ object \in [Address -> {Free} \cup ContextSet]
  /\ registered \subseteq Address /\ sending \subseteq Address
  /\ serves \in [Address -> SUBSET Call]
  /\ event \subseteq EventSet
  /\ thread \in [Cq -> ThreadSet]
  /\ cqDown \subseteq Cq /\ crashed \in BOOLEAN
  /\ rpc \in [Call -> {"none", "sent", "matched", "answered", "refused", "given up"}]
  /\ reply \in [Call -> {"none", "ok", "error"}]
  /\ accepted \subseteq Call

\* Where a context may be.
Queued(c)    == \E e \in event : e.tag = c
Handling(c)  == \E q \in Cq : thread[q].in = "handler" /\ thread[q].this = c
Renewing(c)  == \E q \in Cq : thread[q].in = "renew" /\ thread[q].this = c
IsCreate(c)  == object[c] # Free /\ object[c].status = "CREATE"
IsFinish(c)  == object[c] # Free /\ object[c].status = "FINISH"

\* Each context is in one place, and each place has a context of the right status.
Placed ==
  \A c \in Address :
    /\ c \in registered => IsCreate(c) /\ c \notin sending /\ ~Queued(c) /\ ~Handling(c)
    /\ c \in sending => IsFinish(c) /\ ~Queued(c) /\ ~Handling(c)
    /\ Queued(c) => object[c] # Free /\ ~Handling(c)
    /\ object[c] # Free => c \in registered \/ c \in sending \/ Queued(c) \/ Handling(c)

\* A tag is queued once.
QueuedOnce == \A e1, e2 \in event : e1.tag = e2.tag => e1 = e2

\* A thread is inside of a context of its own queue.
InsideOwn ==
  \A q \in Cq :
    /\ thread[q].in = "handler" => IsCreate(thread[q].this) /\ object[thread[q].this].cq = q
    /\ thread[q].in = "renew" => IsFinish(thread[q].this) /\ object[thread[q].this].cq = q

\* What the events of a context that waits say.
EventsRight ==
  /\ \A e \in event : IsCreate(e.tag) /\ ~e.ok => server # "serving"
  /\ \A e \in event : IsCreate(e.tag) => (e.ok <=> serves[e.tag] # {})

\* A context serves the call that it was matched with, and no other does.
Serving ==
  /\ \A c \in Address : \A j, k \in serves[c] : j = k
  /\ \A c, d \in Address : \A k \in serves[c] \cap serves[d] : c = d
  /\ \A c \in Address : c \in registered \/ object[c] = Free => serves[c] = {}
  /\ \A c \in Address : IsFinish(c) \/ Handling(c) => serves[c] # {}

\* A call is handled once; only then is it replied to, accepted and answered.
HandledOnce ==
  /\ \A c \in Address : \A k \in serves[c] : /\ rpc[k] \notin {"none", "sent"}
                                             /\ IsCreate(c) => reply[k] = "none"
                                             /\ IsFinish(c) => reply[k] # "none"
  /\ \A k \in Call : /\ rpc[k] \in {"none", "sent"} => reply[k] = "none"
                     /\ rpc[k] = "answered" => reply[k] # "none"
                     /\ k \in accepted <=> reply[k] = "ok"

\* Shutdown goes in order: a thread leaves when its queue has no context any more.
ShutInOrder ==
  /\ cqDown # {} => server \in {"closed", "joined"}
  /\ \A q \in Cq : thread[q].in = "left" =>
       /\ q \in cqDown
       /\ \A c \in Address : object[c] # Free => object[c].cq # q
  /\ server = "joined" => \A q \in Cq : thread[q].in = "left"
  /\ server # "serving" => registered = {}

\* The contexts of a queue and a method that wait, or are about to be replaced.
Waiting(q, m) == {c \in Allocated : /\ object[c].method = m /\ object[c].cq = q
                                    /\ \/ object[c].status = "CREATE"
                                       \/ thread[q].in = "renew" /\ thread[q].this = c}

Capacity ==
  \A q \in Cq, m \in Method :
    /\ Cardinality(Waiting(q, m)) <= InitialContexts
    /\ server = "serving" => Cardinality(Waiting(q, m)) = InitialContexts

ServerInv == /\ ServerTypes /\ Placed /\ QueuedOnce /\ InsideOwn /\ EventsRight /\ Serving
             /\ HandledOnce /\ ShutInOrder /\ Capacity

-----------------------------------------------------------------------------
(***************************************************************************)
(* The inductive invariant of the client.                                  *)
(***************************************************************************)
ClientTypes ==
  /\ http \in [Web -> {"none", "waiting", "200", "400", "503"}]
  /\ coroutine \in [Web -> {"none", "suspended", "satisfied", "gone"}]
  /\ operation \in [Web -> {"none", "open", "event"}]
  /\ result \in [Web -> {"none", "ok", "header", "status"}]
  /\ web \in {"running", "stopping", "stopped", "main dropped", "server dropped", "exited"}
  /\ clientShut \in BOOLEAN

\* A request that was not sent has no call.
Unsent == \A r \in Web : /\ http[r] = "none" => rpc[r] = "none" /\ coroutine[r] = "none"
                         /\ coroutine[r] = "none" => result[r] = "none"
                         /\ coroutine[r] = "suspended" /\ operation[r] = "open" => result[r] = "none"
                         /\ coroutine[r] \in {"satisfied", "gone"} => result[r] # "none"
                         /\ operation[r] = "event" => result[r] # "none"

\* What the client was told, and told its sender.
ToldTrue ==
  \A r \in Web : /\ result[r] = "ok" => reply[r] = "ok"
                 /\ result[r] = "header" => reply[r] = "error"
                 /\ http[r] = "200" => result[r] = "ok"
                 /\ http[r] = "503" => result[r] = "header" \/ rpc[r] = "none"

\* A call that is open has its frame, and the frame its share of the client.
FramesHold ==
  /\ \A r \in Web : operation[r] # "none" => coroutine[r] = "suspended"
  /\ clientShut => web \in {"server dropped", "exited"}

ClientInv == ClientTypes /\ Unsent /\ ToldTrue /\ FramesHold /\ NoEventLeft

IInv == ServerInv /\ ClientInv

-----------------------------------------------------------------------------
(***************************************************************************)
(* Addresses.                                                              *)
(***************************************************************************)
USE AsyncServerAssumption

LEMMA PlacesFinite == /\ IsFiniteSet(Places) /\ Cardinality(Places) \in Nat
                      /\ Cardinality(Call) \in Nat
<1> DEFINE I == 1 .. InitialContexts
<1>1. IsFiniteSet(Cq \X Method) /\ IsFiniteSet(I)
  <2>1. IsFiniteSet(Cq \X Method)
    BY FS_Product
  <2>2. 1 \in Int /\ InitialContexts \in Int
    OBVIOUS
  <2> QED BY <2>1, <2>2, FS_Interval
<1>2. IsFiniteSet((Cq \X Method) \X I)
  BY <1>1, FS_Product
<1> DEFINE f == [t \in (Cq \X Method) \X I |-> <<t[1][1], t[1][2], t[2]>>]
           P == Cq \X Method \X I
<1>3. f \in Surjection((Cq \X Method) \X I, P)
  <2>1. f \in [(Cq \X Method) \X I -> P]
    BY SMTT(30)
  <2>2. ASSUME NEW p \in P PROVE \E t \in (Cq \X Method) \X I : f[t] = p
    <3>1. PICK q \in Cq, m \in Method, i \in I : p = <<q, m, i>>
      OBVIOUS
    <3>2. <<<<q, m>>, i>> \in (Cq \X Method) \X I
      OBVIOUS
    <3>3. f[<<<<q, m>>, i>>] = p
      BY <3>1, <3>2
    <3> QED BY <3>2, <3>3
  <2> QED BY <2>1, <2>2 DEF Surjection
<1> HIDE DEF f, I, P
<1>4. IsFiniteSet(P)
  BY <1>2, <1>3, FS_Surjection
<1>5. P = Places
  BY DEF P, I, Places
<1> QED BY <1>4, <1>5, FS_CardinalityType

\* `new` finds the lowest free address.
LEMMA LowestExists ==
  ASSUME NEW S \in SUBSET Address, S # {}
  PROVE  Min(S) \in S
<1>1. S \subseteq Nat
  BY PlacesFinite DEF Address
<1> DEFINE R == {ss \in Nat \X Nat : ss[1] < ss[2]}
<1>2. IsWellFoundedOn(R, Nat)
  BY NatLessThanWellFounded DEF OpToRel
<1> HIDE DEF R
<1>3. PICK n \in S : \A m \in S : ~ (<<m, n>> \in R)
  BY <1>1, <1>2, WFMin
<1>4. \A m \in S : n <= m
  <2> SUFFICES ASSUME NEW m \in S PROVE n <= m
    OBVIOUS
  <2>1. m \in Nat /\ n \in Nat /\ ~ (<<m, n>> \in R)
    BY <1>1, <1>3
  <2>2. ~ (m < n)
    BY <2>1 DEF R
  <2> QED BY <2>1, <2>2
<1> QED BY <1>4 DEF Min

LEMMA AllocatedTypes ==
  ASSUME ServerTypes, NEW c \in Address, object[c] # Free
  PROVE  /\ object[c] \in ContextSet
         /\ object[c].status \in {"CREATE", "FINISH"} /\ object[c].method \in Method
         /\ object[c].cq \in Cq
         /\ object[c] = Context(object[c].status, object[c].method, object[c].cq)
<1>1. object[c] \in ContextSet
  BY DEF ServerTypes
<1> QED BY <1>1 DEF ContextSet, Context

LEMMA ThreadTypes ==
  ASSUME ServerTypes, NEW q \in Cq
  PROVE  /\ thread[q].in \in {"Next", "left", "handler", "renew"}
         /\ thread[q].in = "Next" <=> thread[q] = InNext
         /\ thread[q].in \in {"handler", "renew"} => thread[q].this \in Address
         /\ thread[q].in = "renew" => thread[q].reply \in {"ok", "error"}
<1>1. thread[q] \in ThreadSet
  BY DEF ServerTypes
<1>2. CASE thread[q] = InNext \/ thread[q] = [in |-> "left"]
  BY <1>2 DEF InNext
<1>3. CASE thread[q] \in [in : {"handler"}, this : Address]
  BY <1>3 DEF InNext
<1>4. CASE thread[q] \in [in : {"renew"}, this : Address, reply : {"ok", "error"}]
  BY <1>4 DEF InNext
<1> QED BY <1>1, <1>2, <1>3, <1>4 DEF ThreadSet

\* The contexts that wait, or are about to be replaced, are not more than there
\* were at the start.
Unreplaced == {c \in Allocated : object[c].status = "CREATE" \/ Renewing(c)}

LEMMA UnreplacedBounded ==
  ASSUME ServerTypes, InsideOwn, Capacity
  PROVE  IsFiniteSet(Unreplaced) /\ Cardinality(Unreplaced) <= Cardinality(Places)
<1> DEFINE n(q, m) == Cardinality(Waiting(q, m))
           b(q, m) == CHOOSE f : f \in Bijection(1 .. n(q, m), Waiting(q, m))
           P == {p \in Places : p[3] <= n(p[1], p[2])}
           g == [p \in P |-> b(p[1], p[2])[p[3]]]
<1>0. IsFiniteSet(Address)
  <2>1. 1 \in Int /\ Cardinality(Places) + Cardinality(Call) \in Int
    BY PlacesFinite
  <2> QED BY <2>1, FS_Interval DEF Address
<1>1. ASSUME NEW q \in Cq, NEW m \in Method
      PROVE  /\ n(q, m) \in Nat /\ n(q, m) <= InitialContexts
             /\ b(q, m) \in Bijection(1 .. n(q, m), Waiting(q, m))
  <2>1. Waiting(q, m) \in SUBSET Address
    BY DEF Waiting, Allocated
  <2>2. IsFiniteSet(Waiting(q, m))
    BY <1>0, <2>1, FS_Subset
  <2>3. n(q, m) \in Nat /\ ExistsBijection(1 .. n(q, m), Waiting(q, m))
    BY <2>2, FS_CardinalityType
  <2>4. n(q, m) <= InitialContexts
    BY DEF Capacity
  <2> HIDE DEF n
  <2> QED BY <2>3, <2>4 DEF ExistsBijection
<1>2. ASSUME NEW q \in Cq, NEW m \in Method, NEW c \in Waiting(q, m)
      PROVE  c \in Unreplaced
  BY DEF Waiting, Unreplaced, Renewing
<1>3. ASSUME NEW c \in Unreplaced
      PROVE  \E q \in Cq, m \in Method : c \in Waiting(q, m)
  <2>1. c \in Address /\ c \in Allocated /\ object[c] # Free
    BY DEF Unreplaced, Allocated
  <2>2. object[c].method \in Method /\ object[c].cq \in Cq
    BY <2>1, AllocatedTypes
  <2>3. Renewing(c) => thread[object[c].cq].in = "renew" /\ thread[object[c].cq].this = c
    BY DEF Renewing, InsideOwn
  <2>4. c \in Waiting(object[c].cq, object[c].method)
    BY <2>1, <2>3 DEF Waiting, Unreplaced
  <2> QED BY <2>2, <2>4
<1> HIDE DEF n, b
<1>4. ASSUME NEW p \in P
      PROVE  p[1] \in Cq /\ p[2] \in Method /\ p[3] \in 1 .. n(p[1], p[2])
  <2>1. p[1] \in Cq /\ p[2] \in Method /\ p[3] \in 1 .. InitialContexts
    BY DEF Places
  <2>2. n(p[1], p[2]) \in Nat
    BY <1>1, <2>1
  <2> QED BY <2>1, <2>2
<1>5. g \in Surjection(P, Unreplaced)
  <2>1. ASSUME NEW p \in P PROVE g[p] \in Unreplaced
    <3>1. b(p[1], p[2]) \in Bijection(1 .. n(p[1], p[2]), Waiting(p[1], p[2]))
      BY <1>1, <1>4
    <3>2. g[p] \in Waiting(p[1], p[2])
      BY <3>1, <1>4 DEF Bijection, Injection
    <3> QED BY <3>2, <1>2, <1>4
  <2>2. ASSUME NEW c \in Unreplaced PROVE \E p \in P : g[p] = c
    <3>1. PICK q \in Cq, m \in Method : c \in Waiting(q, m)
      BY <1>3
    <3>2. b(q, m) \in Surjection(1 .. n(q, m), Waiting(q, m))
      BY <1>1 DEF Bijection
    <3>3. PICK i \in 1 .. n(q, m) : b(q, m)[i] = c
      BY <3>1, <3>2 DEF Surjection
    <3>4. i \in 1 .. InitialContexts /\ i <= n(q, m)
      BY <1>1, <3>3
    <3>5. <<q, m, i>> \in P
      BY <3>4 DEF Places
    <3> QED BY <3>3, <3>5
  <2> QED BY <2>1, <2>2 DEF Surjection
<1>6. P \in SUBSET Places
  OBVIOUS
<1> HIDE DEF P, g
<1>7. IsFiniteSet(P) /\ Cardinality(P) <= Cardinality(Places)
  BY <1>6, PlacesFinite, FS_Subset
<1>8. IsFiniteSet(Unreplaced) /\ Cardinality(Unreplaced) <= Cardinality(P)
  BY <1>5, <1>7, FS_Surjection
<1> QED BY <1>7, <1>8, PlacesFinite, FS_CardinalityType

\* Where a context is to be replaced an address is free: one of the calls is
\* served by the context that is replaced.
LEMMA FreeAddress ==
  ASSUME ServerTypes, InsideOwn, Serving, Capacity, NEW q \in Cq, thread[q].in = "renew"
  PROVE  Min(Address \ Allocated) \in Address /\ object[Min(Address \ Allocated)] = Free
<1> DEFINE c0 == thread[q].this
           k0 == CHOOSE k \in serves[c0] : TRUE
           R  == Allocated \ Unreplaced
           C  == Call \ {k0}
           h  == [c \in R |-> CHOOSE k \in serves[c] : TRUE]
<1>1. thread[q].this \in Address
  BY ThreadTypes
<1>2. c0 \in Address /\ IsFinish(c0) /\ Renewing(c0)
  BY <1>1 DEF InsideOwn, Renewing
<1>3. k0 \in serves[c0] /\ k0 \in Call
  <2>1. serves[c0] # {}
    BY <1>2 DEF Serving
  <2>2. serves[c0] \subseteq Call
    BY <1>2 DEF ServerTypes
  <2> QED BY <2>1, <2>2
<1>4. ASSUME NEW c \in R
      PROVE  c \in Address /\ h[c] \in serves[c] /\ h[c] \in Call /\ c # c0
  <2>1. c \in Address /\ object[c] # Free /\ object[c].status # "CREATE" /\ ~Renewing(c)
    BY DEF Allocated, Unreplaced
  <2>2. IsFinish(c)
    BY <2>1, AllocatedTypes DEF IsFinish
  <2>3. serves[c] # {} /\ serves[c] \subseteq Call
    BY <2>1, <2>2 DEF Serving, ServerTypes
  <2>4. h[c] \in serves[c]
    BY <2>3
  <2> QED BY <2>1, <2>3, <2>4, <1>2
<1> HIDE DEF k0
<1>5. h \in Injection(R, C)
  <2>1. ASSUME NEW c \in R PROVE h[c] \in C
    <3>1. h[c] # k0
      BY <1>2, <1>3, <1>4 DEF Serving
    <3> QED BY <3>1, <1>4
  <2>2. ASSUME NEW c \in R, NEW d \in R, h[c] = h[d] PROVE c = d
    BY <2>2, <1>4 DEF Serving
  <2> HIDE DEF R, C
  <2>3. h \in [R -> C]
    BY <2>1
  <2> HIDE DEF h
  <2> QED BY <2>2, <2>3 DEF Injection, IsInjective
<1>6. IsFiniteSet(C) /\ Cardinality(C) = Cardinality(Call) - 1
  BY <1>3, FS_RemoveElement
<1>7. Allocated = Unreplaced \cup R /\ Unreplaced \cap R = {}
  BY DEF Unreplaced
<1> HIDE DEF R, C, h
<1>8. IsFiniteSet(R) /\ Cardinality(R) <= Cardinality(C)
  BY <1>5, <1>6, FS_Injection
<1>9. Cardinality(Allocated) = Cardinality(Unreplaced) + Cardinality(R)
  <2>1. IsFiniteSet(Unreplaced) /\ Cardinality(Unreplaced) \in Nat /\ Cardinality(R) \in Nat
    BY <1>8, UnreplacedBounded, FS_CardinalityType
  <2>2. Cardinality(Unreplaced \cup R)
          = Cardinality(Unreplaced) + Cardinality(R) - Cardinality(Unreplaced \cap R)
    BY <1>8, <2>1, FS_Union
  <2>3. Cardinality(Unreplaced \cap R) = 0
    BY <1>7, FS_EmptySet
  <2> QED BY <1>7, <2>1, <2>2, <2>3
<1>10. Cardinality(Allocated) < Cardinality(Places) + Cardinality(Call)
  <2>1. /\ Cardinality(Unreplaced) \in Nat /\ Cardinality(R) \in Nat
        /\ Cardinality(Unreplaced) <= Cardinality(Places)
    BY <1>8, UnreplacedBounded, FS_CardinalityType
  <2> QED BY <2>1, <1>6, <1>8, <1>9, PlacesFinite
<1>11. Cardinality(Address) = Cardinality(Places) + Cardinality(Call)
  <2> DEFINE N == Cardinality(Places) + Cardinality(Call)
  <2>1. N \in Nat /\ 1 \in Int
    BY PlacesFinite
  <2> HIDE DEF N
  <2>2. Cardinality(1 .. N) = N
    BY <2>1, FS_Interval
  <2> QED BY <2>2 DEF Address, N
<1>12. Allocated # Address
  BY <1>10, <1>11, PlacesFinite
<1>13. Address \ Allocated # {}
  BY <1>12 DEF Allocated
<1>14. Min(Address \ Allocated) \in Address \ Allocated
  <2> DEFINE F == Address \ Allocated
  <2>1. F \in SUBSET Address /\ F # {}
    BY <1>13
  <2> HIDE DEF F
  <2>2. Min(F) \in F
    BY <2>1, LowestExists
  <2> QED BY <2>2 DEF F
<1> QED BY <1>14 DEF Allocated

-----------------------------------------------------------------------------
(***************************************************************************)
(* The steps of the server, and what their updates are.                    *)
(***************************************************************************)
\* A step of a thread that is in a handler or about to renew is inside of an
\* allocated context; the call that a handler answers is its own.
LEMMA HandleIs ==
  ASSUME ServerTypes, InsideOwn, Serving, NEW q \in Cq, NEW r \in {"ok", "error"}, Handle(q, r)
  PROVE  \E c \in Address, k \in Call :
           /\ thread[q].in = "handler" /\ thread[q].this = c /\ serves[c] = {k}
           /\ IsCreate(c) /\ object[c].cq = q
           /\ object' = [object EXCEPT ![c] = Context("FINISH", object[c].method, q)]
           /\ reply' = [reply EXCEPT ![k] = r]
           /\ accepted' = IF r = "ok" THEN accepted \cup {k} ELSE accepted
           /\ sending' = sending \cup {c}
           /\ thread' = [thread EXCEPT ![q] = [in |-> "renew", this |-> c, reply |-> r]]
           /\ UNCHANGED <<server, registered, serves, event, cqDown, crashed, rpc>>
<1> DEFINE c == thread[q].this
           k == CHOOSE x \in serves[c] : TRUE
<1>1. c \in Address /\ thread[q].in = "handler"
  BY ThreadTypes DEF Handle
<1>2. IsCreate(c) /\ object[c].cq = q /\ Handling(c)
  BY <1>1 DEF InsideOwn, Handling
<1>3. serves[c] \subseteq Call /\ serves[c] # {} /\ \A i, j \in serves[c] : i = j
  BY <1>1, <1>2 DEF ServerTypes, Serving
<1>4. k \in Call /\ serves[c] = {k}
  BY <1>3
<1>5. object[c] \in ContextSet
  BY <1>1, <1>2, AllocatedTypes DEF IsCreate
<1>6. AfterFinish(c) = Context("FINISH", object[c].method, q)
  BY <1>2, <1>5 DEF AfterFinish, Context, ContextSet
<1>7. /\ reply' = [reply EXCEPT ![k] = r]
      /\ accepted' = IF r = "ok" THEN accepted \cup {k} ELSE accepted
      /\ object' = [object EXCEPT ![c] = AfterFinish(c)]
      /\ sending' = sending \cup {c}
      /\ thread' = [thread EXCEPT ![q] = [in |-> "renew", this |-> c, reply |-> r]]
      /\ UNCHANGED <<server, registered, serves, event, cqDown, crashed, rpc>>
  BY Zenon DEF Handle
<1> HIDE DEF c, k
<1> QED BY <1>1, <1>2, <1>4, <1>6, <1>7 DEF c

LEMMA RenewIs ==
  ASSUME ServerTypes, InsideOwn, Serving, Capacity, NEW q \in Cq, Renew(q)
  PROVE  \E n \in Address, c \in Address :
           /\ object[n] = Free
           /\ thread[q].in = "renew" /\ thread[q].this = c
           /\ IsFinish(c) /\ object[c].cq = q
           /\ object' = [object EXCEPT ![n] = Context("CREATE", object[c].method, q)]
           /\ IF server = "serving"
              THEN registered' = registered \cup {n} /\ event' = event
              ELSE event' = event \cup {[tag |-> n, ok |-> FALSE]} /\ registered' = registered
           /\ thread' = [thread EXCEPT ![q] = InNext]
           /\ UNCHANGED <<server, serves, sending, cqDown, crashed, rpc, reply, accepted>>
<1> DEFINE n == Min(Address \ Allocated)
           c == thread[q].this
<1>1. c \in Address /\ thread[q].in = "renew"
  BY ThreadTypes DEF Renew
<1>2. IsFinish(c) /\ object[c].cq = q
  BY <1>1 DEF InsideOwn
<1>3. n \in Address /\ object[n] = Free
  BY <1>1, FreeAddress
<1>4. /\ object' = [object EXCEPT ![n] = Context("CREATE", object[c].method, q)]
      /\ IF server = "serving"
         THEN registered' = registered \cup {n} /\ event' = event
         ELSE event' = event \cup {[tag |-> n, ok |-> FALSE]} /\ registered' = registered
      /\ thread' = [thread EXCEPT ![q] = InNext]
      /\ UNCHANGED <<server, serves, sending, cqDown, crashed, rpc, reply, accepted>>
  BY Zenon DEF Renew, Renews
<1> HIDE DEF n, c
<1> QED BY <1>1, <1>2, <1>3, <1>4 DEF c

LEMMA ContextType ==
  ASSUME NEW s \in {"CREATE", "FINISH"}, NEW m \in Method, NEW q \in Cq
  PROVE  /\ Context(s, m, q) \in ContextSet /\ Context(s, m, q) # Free
         /\ Context(s, m, q).status = s /\ Context(s, m, q).method = m /\ Context(s, m, q).cq = q
<1>1. Context(s, m, q) \in ContextSet
  BY DEF Context, ContextSet
<1>2. "cq" \in DOMAIN Context(s, m, q) /\ "cq" \notin DOMAIN Free
  BY DEF Context, Free
<1> QED BY <1>1, <1>2 DEF Context

LEMMA EventType ==
  ASSUME NEW c \in Address, NEW b \in BOOLEAN
  PROVE  [tag |-> c, ok |-> b] \in EventSet
BY DEF EventSet

LEMMA ServerTypesKept ==
  ASSUME ServerTypes, InsideOwn, Serving, Capacity, ServerNext
  PROVE  ServerTypes'
<1>1. ASSUME NEW k \in Call, NEW c \in Address, Match(k, c) PROVE ServerTypes'
  <2>1. serves' \in [Address -> SUBSET Call] /\ rpc' \in [Call -> {"none", "sent", "matched", "answered", "refused", "given up"}]
    BY <1>1 DEF Match, ServerTypes
  <2>2. event' \subseteq EventSet
    <3>1. [tag |-> c, ok |-> TRUE] \in EventSet
      BY EventType
    <3> QED BY <1>1, <3>1 DEF Match, ServerTypes
  <2> QED BY <1>1, <2>1, <2>2 DEF Match, ServerTypes
<1>2. ASSUME NEW q \in Cq, NEW e \in event, Delete(q, e) PROVE ServerTypes'
  <2>1. object' \in [Address -> {Free} \cup ContextSet] /\ serves' \in [Address -> SUBSET Call]
    BY <1>2 DEF Delete, ServerTypes
  <2>2. event' \subseteq EventSet
    BY <1>2 DEF Delete, ServerTypes
  <2> QED BY <1>2, <2>1, <2>2 DEF Delete, ServerTypes
<1>3. ASSUME NEW q \in Cq, NEW e \in event, BeginHandler(q, e) PROVE ServerTypes'
  <2>1. e.tag \in Address
    BY DEF ServerTypes, EventSet
  <2>2. thread' \in [Cq -> ThreadSet]
    BY <1>3, <2>1 DEF BeginHandler, ServerTypes, ThreadSet
  <2>3. event' \subseteq EventSet
    BY <1>3 DEF BeginHandler, ServerTypes
  <2> QED BY <1>3, <2>2, <2>3 DEF BeginHandler, ServerTypes
<1>4. ASSUME NEW q \in Cq, NEW r \in {"ok", "error"}, Handle(q, r) PROVE ServerTypes'
  <2>1. PICK c \in Address, k \in Call :
           /\ thread[q].in = "handler" /\ thread[q].this = c /\ serves[c] = {k}
           /\ IsCreate(c) /\ object[c].cq = q
           /\ object' = [object EXCEPT ![c] = Context("FINISH", object[c].method, q)]
           /\ reply' = [reply EXCEPT ![k] = r]
           /\ accepted' = IF r = "ok" THEN accepted \cup {k} ELSE accepted
           /\ sending' = sending \cup {c}
           /\ thread' = [thread EXCEPT ![q] = [in |-> "renew", this |-> c, reply |-> r]]
           /\ UNCHANGED <<server, registered, serves, event, cqDown, crashed, rpc>>
    BY SMTT(30), <1>4, HandleIs
  <2>2. Context("FINISH", object[c].method, q) \in ContextSet
    BY <2>1, AllocatedTypes, ContextType DEF IsCreate
  <2>3. object' \in [Address -> {Free} \cup ContextSet]
    BY <2>1, <2>2 DEF ServerTypes
  <2>4. thread' \in [Cq -> ThreadSet]
    BY <2>1 DEF ServerTypes, ThreadSet
  <2>5. reply' \in [Call -> {"none", "ok", "error"}]
    BY <2>1 DEF ServerTypes
  <2>6. sending' \subseteq Address /\ accepted' \subseteq Call
    BY <2>1 DEF ServerTypes
  <2> QED BY <2>1, <2>3, <2>4, <2>5, <2>6 DEF ServerTypes
<1>5. ASSUME NEW q \in Cq, Renew(q) PROVE ServerTypes'
  <2>1. PICK n \in Address, c \in Address :
           /\ object[n] = Free
           /\ thread[q].in = "renew" /\ thread[q].this = c
           /\ IsFinish(c) /\ object[c].cq = q
           /\ object' = [object EXCEPT ![n] = Context("CREATE", object[c].method, q)]
           /\ IF server = "serving"
              THEN registered' = registered \cup {n} /\ event' = event
              ELSE event' = event \cup {[tag |-> n, ok |-> FALSE]} /\ registered' = registered
           /\ thread' = [thread EXCEPT ![q] = InNext]
           /\ UNCHANGED <<server, serves, sending, cqDown, crashed, rpc, reply, accepted>>
    BY <1>5, RenewIs
  <2>2. Context("CREATE", object[c].method, q) \in ContextSet
    BY <2>1, AllocatedTypes, ContextType DEF IsFinish
  <2>3. object' \in [Address -> {Free} \cup ContextSet]
    BY <2>1, <2>2 DEF ServerTypes
  <2>4. thread' \in [Cq -> ThreadSet]
    BY <2>1 DEF ServerTypes, ThreadSet
  <2>5. registered' \subseteq Address /\ event' \subseteq EventSet
    <3>1. [tag |-> n, ok |-> FALSE] \in EventSet
      BY EventType
    <3> QED BY <2>1, <3>1 DEF ServerTypes
  <2> QED BY <2>1, <2>3, <2>4, <2>5 DEF ServerTypes
<1>6. ASSUME NEW c \in Address, Sent(c) PROVE ServerTypes'
  <2>1. PICK k \in serves[c] :
          /\ event' = event \cup {[tag |-> c, ok |-> rpc[k] = "matched"]}
          /\ rpc' = [rpc EXCEPT ![k] = IF @ = "matched" THEN "answered" ELSE @]
    BY <1>6 DEF Sent
  <2>2. rpc' \in [Call -> {"none", "sent", "matched", "answered", "refused", "given up"}]
    BY <2>1 DEF ServerTypes
  <2>3. event' \subseteq EventSet
    <3>1. [tag |-> c, ok |-> rpc[k] = "matched"] \in EventSet
      <4> DEFINE b == (rpc[k] = "matched")
      <4>1. b \in BOOLEAN
        OBVIOUS
      <4> HIDE DEF b
      <4>2. [tag |-> c, ok |-> b] \in EventSet
        BY <4>1, EventType
      <4> QED BY <4>2 DEF b
    <3>2. event \subseteq EventSet
      BY DEF ServerTypes
    <3> QED BY <2>1, <3>1, <3>2, Zenon
  <2> QED BY <1>6, <2>2, <2>3 DEF Sent, ServerTypes
<1>7. ASSUME NEW k \in Call, RefuseCall(k) PROVE ServerTypes'
  BY <1>7 DEF RefuseCall, ServerTypes
<1>8. ASSUME ServerShutdown PROVE ServerTypes'
  <2>1. event' \subseteq EventSet
    <3>1. \A c \in Address : [tag |-> c, ok |-> FALSE] \in EventSet
      BY EventType
    <3> QED BY <1>8, <3>1 DEF ServerShutdown, ServerTypes
  <2> QED BY <1>8, <2>1 DEF ServerShutdown, ServerTypes
<1>9. ASSUME NEW q \in Cq, LeaveLoop(q) PROVE ServerTypes'
  <2>1. thread' \in [Cq -> ThreadSet]
    BY <1>9 DEF LeaveLoop, ServerTypes, ThreadSet
  <2> QED BY <1>9, <2>1 DEF LeaveLoop, ServerTypes
<1>10. ASSUME NEW q \in Cq, ShutdownQueue(q) PROVE ServerTypes'
  BY <1>10 DEF ShutdownQueue, ServerTypes
<1>11. ASSUME ShutdownReturns \/ JoinThreads PROVE ServerTypes'
  BY <1>11 DEF ShutdownReturns, JoinThreads, ServerTypes
<1>12. ASSUME NEW q \in Cq, HandleTooLate(q) \/ RenewTooLate(q) PROVE ServerTypes'
  BY <1>12 DEF HandleTooLate, RenewTooLate, Abort, ServerTypes
<1> QED BY <1>1, <1>2, <1>3, <1>4, <1>5, <1>6, <1>7, <1>8, <1>9, <1>10, <1>11, <1>12
        DEF ServerNext, DriveCompletionQueue, Grpc, Shutdown

-----------------------------------------------------------------------------
(***************************************************************************)
(* One lemma per step: the places of the contexts, what they serve, and    *)
(* the order of the shutdown.  Capacity is left for later.                 *)
(***************************************************************************)
Core == Placed /\ QueuedOnce /\ InsideOwn /\ EventsRight /\ Serving /\ HandledOnce /\ ShutInOrder

LEMMA EventTag == ASSUME ServerTypes, NEW e \in event PROVE e.tag \in Address /\ e.ok \in BOOLEAN
BY DEF ServerTypes, EventSet

LEMMA MatchKeeps ==
  ASSUME ServerTypes, Core, NEW k \in Call, NEW c \in Address, Match(k, c)
  PROVE  Core'
<1> DEFINE x == [tag |-> c, ok |-> TRUE]
<1>1. /\ server = "serving" /\ rpc[k] = "sent" /\ c \in registered
      /\ rpc' = [rpc EXCEPT ![k] = "matched"] /\ serves' = [serves EXCEPT ![c] = {k}]
      /\ registered' = registered \ {c} /\ event' = event \cup {x}
      /\ UNCHANGED <<server, object, sending, thread, cqDown, crashed, reply, accepted>>
  BY Zenon DEF Match
<1>2. x.tag = c /\ x.ok = TRUE
  OBVIOUS
<1> HIDE DEF x
<1>3. \A d \in Address : Queued(d)' <=> Queued(d) \/ d = c
  BY <1>1, <1>2 DEF Queued
<1>4. \A d \in Address : /\ Handling(d)' <=> Handling(d)
                         /\ IsCreate(d)' <=> IsCreate(d)
                         /\ IsFinish(d)' <=> IsFinish(d)
  BY <1>1 DEF Handling, IsCreate, IsFinish
<1>5. /\ IsCreate(c) /\ ~Queued(c) /\ ~Handling(c) /\ c \notin sending /\ serves[c] = {}
      /\ object[c] # Free
  BY <1>1 DEF Core, Placed, Serving, IsCreate
<1>6. Placed'
  BY <1>1, <1>3, <1>4, <1>5 DEF Core, Placed
<1>7. QueuedOnce'
  BY <1>1, <1>2, <1>5 DEF Core, QueuedOnce, Queued
<1>8. InsideOwn'
  <2>1. \A q \in Cq : thread[q].in \in {"handler", "renew"} => thread[q].this \in Address
    BY ThreadTypes
  <2> QED BY <1>1, <1>4, <2>1 DEF Core, InsideOwn
<1>9. \A d \in Address : serves'[d] = IF d = c THEN {k} ELSE serves[d]
  BY <1>1 DEF ServerTypes
<1>10. EventsRight'
  <2>1. \A e \in event' : e.tag \in Address /\ (e = x \/ (e \in event /\ e.tag # c))
    BY <1>1, <1>2, <1>5, EventTag DEF Queued
  <2> QED BY <1>1, <1>2, <1>4, <1>9, <2>1 DEF Core, EventsRight
<1>11. \A d \in Address : k \notin serves[d]
  BY <1>1 DEF Core, HandledOnce
<1>12. Serving'
  BY <1>1, <1>4, <1>5, <1>9, <1>11 DEF Core, Serving
<1>13. \A j \in Call : rpc'[j] = IF j = k THEN "matched" ELSE rpc[j]
  BY <1>1 DEF ServerTypes
<1>14. HandledOnce'
  <2>1. \A d \in Address : serves[d] \subseteq Call
    BY DEF ServerTypes
  <2>2. reply[k] = "none"
    BY <1>1 DEF Core, HandledOnce
  <2>3. ~IsFinish(c)
    BY <1>5 DEF IsCreate, IsFinish
  <2> QED BY <1>1, <1>4, <1>5, <1>9, <1>13, <2>1, <2>2, <2>3 DEF Core, HandledOnce
<1>15. ShutInOrder'
  BY <1>1 DEF Core, ShutInOrder
<1> QED BY <1>6, <1>7, <1>8, <1>10, <1>12, <1>14, <1>15 DEF Core

LEMMA ThreadInside ==
  ASSUME ServerTypes
  PROVE  \A q \in Cq : thread[q].in \in {"handler", "renew"} => thread[q].this \in Address
BY ThreadTypes

LEMMA DeleteKeeps ==
  ASSUME ServerTypes, Core, NEW q \in Cq, NEW e \in event, Delete(q, e)
  PROVE  Core'
<1> DEFINE c == e.tag
<1>1. /\ thread[q] = InNext /\ object[c] # Free /\ object[c].cq = q
      /\ ~e.ok \/ object[c].status = "FINISH"
      /\ object' = [object EXCEPT ![c] = Free] /\ serves' = [serves EXCEPT ![c] = {}]
      /\ event' = event \ {e}
      /\ UNCHANGED <<server, registered, sending, thread, cqDown, crashed, rpc, reply, accepted>>
  BY Zenon DEF Delete, At
<1>2. c \in Address /\ Queued(c)
  BY EventTag DEF Queued
<1> HIDE DEF c
<1>3. \A d \in Address : Queued(d)' <=> Queued(d) /\ d # c
  BY <1>1 DEF Queued, Core, QueuedOnce, c
<1>4. \A d \in Address : /\ object'[d] = IF d = c THEN Free ELSE object[d]
                         /\ serves'[d] = IF d = c THEN {} ELSE serves[d]
  BY <1>1, <1>2 DEF ServerTypes
<1>5. \A d \in Address : /\ Handling(d)' <=> Handling(d)
                         /\ IsCreate(d)' <=> IsCreate(d) /\ d # c
                         /\ IsFinish(d)' <=> IsFinish(d) /\ d # c
  BY <1>1, <1>4 DEF Handling, IsCreate, IsFinish
<1>6. c \notin registered /\ c \notin sending /\ ~Handling(c)
  BY <1>2 DEF Core, Placed
<1>7. Placed'
  BY <1>1, <1>3, <1>4, <1>5, <1>6 DEF Core, Placed
<1>8. QueuedOnce'
  BY <1>1 DEF Core, QueuedOnce
<1>9. InsideOwn'
  <2>1. \A p \in Cq : thread[p].in \in {"handler", "renew"} => thread[p].this # c
    <3> SUFFICES ASSUME NEW p \in Cq, thread[p].in \in {"handler", "renew"}, thread[p].this = c
                 PROVE  FALSE
      OBVIOUS
    <3>1. p = q
      BY <1>1 DEF Core, InsideOwn
    <3> QED BY <1>1, <3>1 DEF InNext
  <2> QED BY <1>1, <1>4, <1>5, <2>1, ThreadInside DEF Core, InsideOwn
<1>10. \A d \in event' : d.tag \in Address /\ d \in event /\ d.tag # c
  BY <1>1, EventTag DEF Core, QueuedOnce, c
<1>11. EventsRight'
  BY <1>1, <1>4, <1>5, <1>10 DEF Core, EventsRight
<1>12. Serving'
  BY <1>1, <1>4, <1>5, <1>6 DEF Core, Serving
<1>13. HandledOnce'
  BY <1>1, <1>4, <1>5 DEF Core, HandledOnce
<1>14. ShutInOrder'
  BY <1>1, <1>4 DEF Core, ShutInOrder
<1> QED BY <1>7, <1>8, <1>9, <1>11, <1>12, <1>13, <1>14 DEF Core

LEMMA BeginHandlerKeeps ==
  ASSUME ServerTypes, Core, NEW q \in Cq, NEW e \in event, BeginHandler(q, e)
  PROVE  Core'
<1> DEFINE c == e.tag
<1>1. /\ thread[q] = InNext /\ object[c] # Free /\ object[c].cq = q
      /\ e.ok /\ object[c].status = "CREATE"
      /\ event' = event \ {e}
      /\ thread' = [thread EXCEPT ![q] = [in |-> "handler", this |-> c]]
      /\ UNCHANGED <<server, object, registered, serves, sending, cqDown, crashed, rpc, reply, accepted>>
  BY Zenon DEF BeginHandler, At
<1>2. c \in Address /\ Queued(c) /\ IsCreate(c)
  BY <1>1, EventTag DEF Queued, IsCreate
<1>3. serves[c] # {}
  BY <1>1, <1>2 DEF Core, EventsRight, c
<1>4. \A d \in Address : Queued(d)' <=> Queued(d) /\ d # c
  BY <1>1 DEF Queued, Core, QueuedOnce
<1> HIDE DEF c
<1>5. \A p \in Cq : /\ p = q => thread'[p].in = "handler" /\ thread'[p].this = c
                    /\ p # q => thread'[p] = thread[p]
  BY <1>1 DEF ServerTypes
<1>6. thread[q].in = "Next"
  BY <1>1 DEF InNext
<1>7. \A d \in Address : Handling(d)' <=> (Handling(d) \/ d = c)
  BY <1>5, <1>6 DEF Handling
<1>8. \A d \in Address : /\ IsCreate(d)' <=> IsCreate(d)
                         /\ IsFinish(d)' <=> IsFinish(d)
  BY <1>1 DEF IsCreate, IsFinish
<1>9. c \notin registered /\ c \notin sending
  BY <1>2 DEF Core, Placed
<1>10. Placed'
  BY <1>1, <1>2, <1>4, <1>7, <1>8, <1>9 DEF Core, Placed
<1>11. QueuedOnce'
  BY <1>1 DEF Core, QueuedOnce
<1>12. InsideOwn'
  BY <1>1, <1>2, <1>5, <1>8, ThreadInside DEF Core, InsideOwn
<1>13. EventsRight'
  BY <1>1, <1>8, EventTag DEF Core, EventsRight
<1>14. Serving'
  BY <1>1, <1>3, <1>7, <1>8 DEF Core, Serving
<1>15. HandledOnce'
  BY <1>1, <1>8 DEF Core, HandledOnce
<1>16. ShutInOrder'
  <2>1. q \in cqDown => server # "serving"
    BY DEF Core, ShutInOrder
  <2>2. server # "joined"
    BY <1>6 DEF Core, ShutInOrder
  <2> QED BY <1>1, <1>5, <2>1, <2>2 DEF Core, ShutInOrder
<1> QED BY <1>10, <1>11, <1>12, <1>13, <1>14, <1>15, <1>16 DEF Core

LEMMA HandleKeeps ==
  ASSUME ServerTypes, Core, NEW q \in Cq, NEW r \in {"ok", "error"}, Handle(q, r)
  PROVE  Core'
<1>1. PICK c \in Address, k \in Call :
        /\ thread[q].in = "handler" /\ thread[q].this = c /\ serves[c] = {k}
        /\ IsCreate(c) /\ object[c].cq = q
        /\ object' = [object EXCEPT ![c] = Context("FINISH", object[c].method, q)]
        /\ reply' = [reply EXCEPT ![k] = r]
        /\ accepted' = IF r = "ok" THEN accepted \cup {k} ELSE accepted
        /\ sending' = sending \cup {c}
        /\ thread' = [thread EXCEPT ![q] = [in |-> "renew", this |-> c, reply |-> r]]
        /\ UNCHANGED <<server, registered, serves, event, cqDown, crashed, rpc>>
  BY SMTT(30), HandleIs DEF Core
<1>2. /\ Context("FINISH", object[c].method, q) # Free
      /\ Context("FINISH", object[c].method, q).status = "FINISH"
      /\ Context("FINISH", object[c].method, q).cq = q
  BY <1>1, AllocatedTypes, ContextType DEF IsCreate
<1>3. \A d \in Address : /\ d = c => object'[d] # Free /\ object'[d].status = "FINISH" /\ object'[d].cq = q
                         /\ d # c => object'[d] = object[d]
  BY <1>1, <1>2 DEF ServerTypes
<1>4. \A p \in Cq : /\ p = q => thread'[p].in = "renew" /\ thread'[p].this = c
                    /\ p # q => thread'[p] = thread[p]
  BY <1>1 DEF ServerTypes
<1>5. \A j \in Call : reply'[j] = IF j = k THEN r ELSE reply[j]
  BY <1>1 DEF ServerTypes
<1>6. \A p \in Cq : thread[p].in = "handler" /\ thread[p].this = c => p = q
  BY <1>1 DEF Core, InsideOwn
<1>7. \A d \in Address : /\ Handling(d)' <=> Handling(d) /\ d # c
                         /\ IsCreate(d)' <=> IsCreate(d) /\ d # c
                         /\ IsFinish(d)' <=> (IsFinish(d) \/ d = c)
  <2>1. \A d \in Address : Handling(d)' <=> Handling(d) /\ d # c
    BY <1>1, <1>4, <1>6 DEF Handling
  <2>2. \A d \in Address : IsCreate(d)' <=> IsCreate(d) /\ d # c
    BY <1>3 DEF IsCreate
  <2>3. \A d \in Address : IsFinish(d)' <=> (IsFinish(d) \/ d = c)
    BY <1>3 DEF IsFinish
  <2> QED BY <2>1, <2>2, <2>3
<1>8. \A d \in Address : Queued(d)' <=> Queued(d)
  BY <1>1 DEF Queued
<1>9. Handling(c) /\ object[c] # Free /\ ~IsFinish(c)
  BY <1>1 DEF Handling, IsCreate, IsFinish
<1>10. c \notin registered /\ c \notin sending /\ ~Queued(c)
  BY <1>9 DEF Core, Placed
<1>11. Placed'
  BY <1>1, <1>3, <1>7, <1>8, <1>10 DEF Core, Placed
<1>12. QueuedOnce'
  BY <1>1 DEF Core, QueuedOnce
<1>13. InsideOwn'
  <2>1. \A p \in Cq : p # q /\ thread[p].in \in {"handler", "renew"} => thread[p].this # c
    BY <1>1, ThreadInside DEF Core, InsideOwn
  <2>2. \A p \in Cq : p # q /\ thread[p].in \in {"handler", "renew"} =>
           thread[p].this \in Address /\ object'[thread[p].this] = object[thread[p].this]
    BY <2>1, <1>3, ThreadInside
  <2>3. IsFinish(c)' /\ object'[c].cq = q
    BY <1>3, <1>7
  <2>4. ASSUME NEW p \in Cq, p # q
        PROVE  /\ thread[p].in = "handler" => /\ IsCreate(thread[p].this)'
                                              /\ object'[thread[p].this].cq = p
               /\ thread[p].in = "renew" => /\ IsFinish(thread[p].this)'
                                            /\ object'[thread[p].this].cq = p
    BY <1>4, <2>2, <2>4 DEF Core, InsideOwn, IsCreate, IsFinish
  <2> QED BY <1>4, <2>3, <2>4 DEF InsideOwn
<1>14. EventsRight'
  BY <1>1, <1>7, EventTag DEF Core, EventsRight
<1>15. Serving'
  BY <1>1, <1>3, <1>7 DEF Core, Serving
<1>16. HandledOnce'
  <2>1. \A d \in Address : d # c => k \notin serves[d]
    BY <1>1 DEF Core, Serving
  <2>2. \A d \in Address : serves[d] \subseteq Call
    BY DEF ServerTypes
  <2>3. reply[k] = "none" /\ rpc[k] \notin {"none", "sent"}
    BY <1>1 DEF Core, HandledOnce
  <2>4. \A d \in Address : \A j \in serves'[d] : /\ rpc'[j] \notin {"none", "sent"}
                                                 /\ IsCreate(d)' => reply'[j] = "none"
                                                 /\ IsFinish(d)' => reply'[j] # "none"
    BY <1>1, <1>5, <1>7, <2>1, <2>2, <2>3 DEF Core, HandledOnce
  <2>5. \A j \in Call : /\ rpc'[j] \in {"none", "sent"} => reply'[j] = "none"
                        /\ rpc'[j] = "answered" => reply'[j] # "none"
                        /\ j \in accepted' <=> reply'[j] = "ok"
    BY <1>1, <1>5, <2>3 DEF Core, HandledOnce
  <2> QED BY <2>4, <2>5 DEF HandledOnce
<1>17. ShutInOrder'
  <2>1. \A p \in Cq : thread'[p].in = "left" => p # q /\ thread[p].in = "left"
    BY <1>4
  <2>2. server # "joined"
    BY <1>1 DEF Core, ShutInOrder
  <2>3. \A p \in Cq : p # q => \A d \in Address :
           object'[d] # Free /\ object'[d].cq = p => object[d] # Free /\ object[d].cq = p
    BY <1>3
  <2> QED BY <1>1, <2>1, <2>2, <2>3 DEF Core, ShutInOrder
<1> QED BY <1>11, <1>12, <1>13, <1>14, <1>15, <1>16, <1>17 DEF Core

LEMMA RenewKeeps ==
  ASSUME ServerTypes, Core, Capacity, NEW q \in Cq, Renew(q)
  PROVE  Core'
<1>1. PICK n \in Address, c \in Address :
        /\ object[n] = Free
        /\ thread[q].in = "renew" /\ thread[q].this = c
        /\ IsFinish(c) /\ object[c].cq = q
        /\ object' = [object EXCEPT ![n] = Context("CREATE", object[c].method, q)]
        /\ IF server = "serving"
           THEN registered' = registered \cup {n} /\ event' = event
           ELSE event' = event \cup {[tag |-> n, ok |-> FALSE]} /\ registered' = registered
        /\ thread' = [thread EXCEPT ![q] = InNext]
        /\ UNCHANGED <<server, serves, sending, cqDown, crashed, rpc, reply, accepted>>
  BY RenewIs DEF Core
<1> DEFINE x == [tag |-> n, ok |-> FALSE]
<1>2. x.tag = n /\ x.ok = FALSE
  OBVIOUS
<1>3. IF server = "serving" THEN registered' = registered \cup {n} /\ event' = event
                            ELSE event' = event \cup {x} /\ registered' = registered
  BY <1>1
<1> HIDE DEF x
<1>4. /\ Context("CREATE", object[c].method, q) # Free
      /\ Context("CREATE", object[c].method, q).status = "CREATE"
      /\ Context("CREATE", object[c].method, q).cq = q
  BY <1>1, AllocatedTypes, ContextType DEF IsFinish
<1>5. \A d \in Address : /\ d = n => object'[d] # Free /\ object'[d].status = "CREATE" /\ object'[d].cq = q
                         /\ d # n => object'[d] = object[d]
  BY <1>1, <1>4 DEF ServerTypes
<1>6. \A p \in Cq : /\ p = q => thread'[p] = InNext
                    /\ p # q => thread'[p] = thread[p]
  BY <1>1 DEF ServerTypes
<1>7. /\ ~IsCreate(n) /\ ~IsFinish(n) /\ ~Queued(n) /\ n \notin registered /\ n \notin sending
      /\ serves[n] = {} /\ n # c /\ ~Handling(n)
  BY <1>1 DEF IsCreate, IsFinish, Core, Placed, Serving, InsideOwn, Handling
<1>8. \A d \in Address : /\ IsCreate(d)' <=> (IsCreate(d) \/ d = n)
                         /\ IsFinish(d)' <=> IsFinish(d)
  BY <1>5, <1>7 DEF IsCreate, IsFinish
<1>9. \A d \in Address : Handling(d)' <=> Handling(d)
  BY <1>1, <1>6 DEF Handling, InNext
<1>10. \A d \in Address : Queued(d)' <=> (Queued(d) \/ (d = n /\ server # "serving"))
  BY <1>2, <1>3 DEF Queued
<1>11. Placed'
  BY <1>1, <1>3, <1>5, <1>7, <1>8, <1>9, <1>10 DEF Core, Placed
<1>12. QueuedOnce'
  <2>1. \A e \in event : e.tag # n
    BY <1>7 DEF Queued
  <2> QED BY <1>2, <1>3, <2>1 DEF Core, QueuedOnce
<1>13. InsideOwn'
  <2>1. \A p \in Cq : thread[p].in \in {"handler", "renew"} =>
           thread[p].this \in Address /\ thread[p].this # n
    BY <1>7, ThreadInside DEF Core, InsideOwn
  <2>2. ASSUME NEW p \in Cq, p # q
        PROVE  /\ thread[p].in = "handler" => /\ IsCreate(thread[p].this)'
                                              /\ object'[thread[p].this].cq = p
               /\ thread[p].in = "renew" => /\ IsFinish(thread[p].this)'
                                            /\ object'[thread[p].this].cq = p
    BY <1>5, <1>6, <2>1, <2>2 DEF Core, InsideOwn, IsCreate, IsFinish
  <2>3. thread'[q].in = "Next"
    BY <1>6 DEF InNext
  <2> QED BY <1>6, <2>2, <2>3 DEF InsideOwn
<1>14. EventsRight'
  <2>1. \A e \in event' : e.tag \in Address /\ ((e = x /\ server # "serving") \/ (e \in event /\ e.tag # n))
    BY <1>2, <1>3, <1>7, EventTag DEF Queued
  <2> QED BY <1>1, <1>2, <1>7, <1>8, <2>1 DEF Core, EventsRight
<1>15. Serving'
  BY <1>1, <1>3, <1>5, <1>7, <1>8, <1>9 DEF Core, Serving
<1>16. HandledOnce'
  BY <1>1, <1>7, <1>8 DEF Core, HandledOnce
<1>17. ShutInOrder'
  <2>1. \A p \in Cq : thread'[p].in = "left" => p # q /\ thread[p].in = "left"
    BY <1>6 DEF InNext
  <2>2. server # "joined"
    BY <1>1 DEF Core, ShutInOrder
  <2>3. \A p \in Cq : p # q => \A d \in Address :
           object'[d] # Free /\ object'[d].cq = p => object[d] # Free /\ object[d].cq = p
    BY <1>5
  <2> QED BY <1>1, <1>3, <2>1, <2>2, <2>3 DEF Core, ShutInOrder
<1> QED BY <1>11, <1>12, <1>13, <1>14, <1>15, <1>16, <1>17 DEF Core

LEMMA SentKeeps ==
  ASSUME ServerTypes, Core, NEW c \in Address, Sent(c)
  PROVE  Core'
<1>1. PICK k \in serves[c] :
        /\ event' = event \cup {[tag |-> c, ok |-> rpc[k] = "matched"]}
        /\ rpc' = [rpc EXCEPT ![k] = IF @ = "matched" THEN "answered" ELSE @]
  BY DEF Sent
<1>2. /\ c \in sending /\ sending' = sending \ {c}
      /\ UNCHANGED <<server, object, registered, serves, thread, cqDown, crashed, reply, accepted>>
  BY DEF Sent
<1> DEFINE x == [tag |-> c, ok |-> rpc[k] = "matched"]
<1>3. x.tag = c /\ event' = event \cup {x}
  BY <1>1
<1> HIDE DEF x
<1>4. k \in Call
  BY DEF ServerTypes
<1>5. IsFinish(c) /\ ~Queued(c) /\ ~Handling(c) /\ object[c] # Free /\ c \notin registered /\ ~IsCreate(c)
  BY <1>2 DEF Core, Placed, IsFinish, IsCreate
<1>6. \A d \in Address : Queued(d)' <=> Queued(d) \/ d = c
  BY <1>3 DEF Queued
<1>7. \A d \in Address : /\ Handling(d)' <=> Handling(d)
                         /\ IsCreate(d)' <=> IsCreate(d)
                         /\ IsFinish(d)' <=> IsFinish(d)
  BY <1>2 DEF Handling, IsCreate, IsFinish
<1>8. Placed'
  BY <1>2, <1>5, <1>6, <1>7 DEF Core, Placed
<1>9. QueuedOnce'
  BY <1>3, <1>5 DEF Core, QueuedOnce, Queued
<1>10. InsideOwn'
  BY <1>2, <1>7, ThreadInside DEF Core, InsideOwn
<1>11. EventsRight'
  <2>1. \A e \in event' : e.tag \in Address /\ (e = x \/ e \in event)
    BY <1>3, EventTag
  <2> QED BY <1>2, <1>3, <1>5, <1>7, <2>1 DEF Core, EventsRight
<1>12. Serving'
  BY <1>2, <1>7 DEF Core, Serving
<1>13. HandledOnce'
  <2>1. \A j \in Call : \/ rpc'[j] = rpc[j]
                        \/ j = k /\ rpc[j] = "matched" /\ rpc'[j] = "answered"
    BY <1>1, <1>4 DEF ServerTypes
  <2>2. reply[k] # "none"
    BY <1>5 DEF Core, HandledOnce
  <2>3. \A d \in Address : serves[d] \subseteq Call
    BY DEF ServerTypes
  <2> QED BY <1>2, <1>7, <2>1, <2>2, <2>3 DEF Core, HandledOnce
<1>14. ShutInOrder'
  BY <1>2 DEF Core, ShutInOrder
<1> QED BY <1>8, <1>9, <1>10, <1>11, <1>12, <1>13, <1>14 DEF Core

\* A call becomes refused or is given up, or is sent for the first time.
LEMMA CallKeeps ==
  ASSUME ServerTypes, Core, NEW k \in Call,
         UNCHANGED <<server, object, registered, serves, event, sending, thread, cqDown,
                     crashed, reply, accepted>>,
         \/ rpc[k] = "none" /\ rpc' = [rpc EXCEPT ![k] = "sent"]
         \/ rpc[k] \in {"sent", "matched"} /\ \E s \in {"refused", "given up"} : rpc' = [rpc EXCEPT ![k] = s]
  PROVE  ServerTypes' /\ Core'
<1>1. \A j \in Call : \/ rpc'[j] = rpc[j]
                      \/ j = k /\ rpc[j] = "none" /\ rpc'[j] = "sent"
                      \/ j = k /\ rpc[j] \in {"sent", "matched"} /\ rpc'[j] \in {"refused", "given up"}
  BY DEF ServerTypes
<1>2. ServerTypes'
  <2>1. rpc' \in [Call -> {"none", "sent", "matched", "answered", "refused", "given up"}]
    BY DEF ServerTypes
  <2> QED BY <2>1 DEF ServerTypes
<1>3. \A d \in Address : /\ Handling(d)' <=> Handling(d)
                         /\ IsCreate(d)' <=> IsCreate(d)
                         /\ IsFinish(d)' <=> IsFinish(d)
                         /\ Queued(d)' <=> Queued(d)
  BY DEF Handling, IsCreate, IsFinish, Queued
<1>4. Placed'
  BY <1>3 DEF Core, Placed
<1>5. InsideOwn'
  BY <1>3, ThreadInside DEF Core, InsideOwn
<1>6. QueuedOnce' /\ EventsRight'
  BY <1>3, EventTag DEF Core, EventsRight, QueuedOnce
<1>7. Serving'
  BY <1>3 DEF Core, Serving
<1>8. HandledOnce'
  <2>1. \A d \in Address : serves[d] \subseteq Call
    BY DEF ServerTypes
  <2> QED BY <1>1, <1>3, <2>1 DEF Core, HandledOnce
<1>9. ShutInOrder'
  BY DEF Core, ShutInOrder
<1> QED BY <1>2, <1>4, <1>5, <1>6, <1>7, <1>8, <1>9 DEF Core

LEMMA ServerShutdownKeeps ==
  ASSUME ServerTypes, Core, ServerShutdown
  PROVE  Core'
<1>1. /\ server = "serving" /\ server' = "closing" /\ registered' = {}
      /\ event' = event \cup {[tag |-> c, ok |-> FALSE] : c \in registered}
      /\ UNCHANGED <<object, serves, sending, thread, cqDown, crashed, rpc, reply, accepted>>
  BY DEF ServerShutdown
<1>2. registered \subseteq Address
  BY DEF ServerTypes
<1>3. \A e \in event' : \/ e \in event
                        \/ e.tag \in registered /\ e.ok = FALSE /\ e = [tag |-> e.tag, ok |-> FALSE]
  BY <1>1
<1>4. \A e \in event : e.tag \notin registered
  BY <1>2 DEF Core, Placed, Queued
<1>5. \A d \in Address : Queued(d)' <=> (Queued(d) \/ d \in registered)
  <2>1. ASSUME NEW d \in registered PROVE \E e \in event' : e.tag = d
    <3>1. [tag |-> d, ok |-> FALSE] \in event'
      BY <1>1
    <3> QED BY <3>1
  <2>2. \A e \in event : e \in event'
    BY <1>1
  <2> QED BY <1>3, <2>1, <2>2 DEF Queued
<1>6. \A d \in Address : /\ Handling(d)' <=> Handling(d)
                         /\ IsCreate(d)' <=> IsCreate(d)
                         /\ IsFinish(d)' <=> IsFinish(d)
  BY <1>1 DEF Handling, IsCreate, IsFinish
<1>7. Placed'
  <2>1. \A d \in registered : object[d] # Free
    BY <1>2 DEF Core, Placed, IsCreate
  <2> QED BY <1>1, <1>2, <1>5, <1>6, <2>1 DEF Core, Placed
<1>8. QueuedOnce'
  BY <1>3, <1>4 DEF Core, QueuedOnce
<1>9. InsideOwn'
  BY <1>1, <1>6, ThreadInside DEF Core, InsideOwn
<1>10. EventsRight'
  <2>1. \A d \in registered : d \in Address /\ serves[d] = {}
    BY <1>2 DEF Core, Serving
  <2> QED BY <1>1, <1>3, <1>6, <2>1, EventTag DEF Core, EventsRight
<1>11. Serving'
  BY <1>1, <1>6 DEF Core, Serving
<1>12. HandledOnce'
  BY <1>1, <1>6 DEF Core, HandledOnce
<1>13. ShutInOrder'
  BY <1>1 DEF Core, ShutInOrder
<1> QED BY <1>7, <1>8, <1>9, <1>10, <1>11, <1>12, <1>13 DEF Core

\* The steps that only shut down, leave or abort.
LEMMA ShutdownKeeps ==
  ASSUME ServerTypes, Core,
         \/ ShutdownReturns \/ JoinThreads
         \/ \E q \in Cq : ShutdownQueue(q) \/ LeaveLoop(q) \/ HandleTooLate(q) \/ RenewTooLate(q)
  PROVE  Core'
<1>1. UNCHANGED <<object, registered, serves, event, sending, rpc, reply, accepted>>
  BY DEF ShutdownReturns, JoinThreads, ShutdownQueue, LeaveLoop, HandleTooLate, RenewTooLate, Abort
<1>2. server' = server \/ (server = "closing" /\ server' = "closed")
        \/ (server = "closed" /\ server' = "joined" /\ thread' = thread
             /\ \A q \in Cq : thread[q].in = "left")
  BY DEF ShutdownReturns, JoinThreads, ShutdownQueue, LeaveLoop, HandleTooLate, RenewTooLate, Abort
<1>3. /\ cqDown \subseteq cqDown'
      /\ cqDown' # cqDown => server = "closed" /\ server' = "closed"
  BY DEF ShutdownReturns, JoinThreads, ShutdownQueue, LeaveLoop, HandleTooLate, RenewTooLate, Abort
<1>4. \A q \in Cq : \/ thread'[q] = thread[q]
                    \/ /\ thread[q] = InNext /\ thread'[q] = [in |-> "left"]
                       /\ q \in cqDown
                       /\ ~\E e \in event : At(e, q)
                       /\ \A c \in registered \cup sending : object[c] # Free => object[c].cq # q
  BY DEF ShutdownReturns, JoinThreads, ShutdownQueue, LeaveLoop, Pending, HandleTooLate, RenewTooLate, Abort,
         ServerTypes
<1>5. \A q \in Cq : \/ thread'[q] = thread[q]
                    \/ thread[q].in = "Next" /\ thread'[q].in = "left"
  BY <1>4 DEF InNext
<1>6. \A d \in Address : /\ Handling(d)' <=> Handling(d)
                         /\ IsCreate(d)' <=> IsCreate(d)
                         /\ IsFinish(d)' <=> IsFinish(d)
                         /\ Queued(d)' <=> Queued(d)
  <2>1. \A d \in Address : Handling(d)' <=> Handling(d)
    BY <1>5 DEF Handling
  <2> QED BY <1>1, <2>1 DEF IsCreate, IsFinish, Queued
<1>7. Placed'
  BY <1>1, <1>6 DEF Core, Placed
<1>8. QueuedOnce'
  BY <1>1 DEF Core, QueuedOnce
<1>9. InsideOwn'
  BY <1>1, <1>5 DEF Core, InsideOwn, IsCreate, IsFinish
<1>10. EventsRight'
  BY <1>1, <1>2, <1>6, EventTag DEF Core, EventsRight
<1>11. Serving'
  BY <1>1, <1>6 DEF Core, Serving
<1>12. HandledOnce'
  BY <1>1, <1>6 DEF Core, HandledOnce
<1>13. ShutInOrder'
  <2>1. cqDown' # {} => server' \in {"closed", "joined"}
    BY <1>2, <1>3 DEF Core, ShutInOrder
  <2>2. ASSUME NEW q \in Cq, thread'[q].in = "left"
        PROVE  q \in cqDown' /\ \A c \in Address : object'[c] # Free => object'[c].cq # q
    <3>1. CASE thread'[q] = thread[q]
      BY <1>1, <1>3, <2>2, <3>1 DEF Core, ShutInOrder
    <3>2. CASE thread'[q] # thread[q]
      <4>1. /\ thread[q] = InNext /\ q \in cqDown /\ ~\E e \in event : At(e, q)
            /\ \A c \in registered \cup sending : object[c] # Free => object[c].cq # q
        BY <1>4, <3>2
      <4>2. ASSUME NEW c \in Address, object[c] # Free, object[c].cq = q
            PROVE  FALSE
        <5>1. ~Handling(c)
          <6>1. ASSUME NEW p \in Cq, thread[p].in = "handler", thread[p].this = c PROVE FALSE
            <7>1. p = q
              BY <4>2, <6>1 DEF Core, InsideOwn
            <7> QED BY <4>1, <6>1, <7>1 DEF InNext
          <6> QED BY <6>1 DEF Handling
        <5>2. ~Queued(c)
          BY <4>1, <4>2 DEF Queued, At
        <5>3. c \in registered \/ c \in sending
          BY <4>2, <5>1, <5>2 DEF Core, Placed
        <5> QED BY <4>1, <4>2, <5>3
      <4> QED BY <1>1, <1>3, <4>1, <4>2
    <3> QED BY <3>1, <3>2
  <2>3. server' = "joined" => \A q \in Cq : thread'[q].in = "left"
    BY <1>2, <1>5 DEF Core, ShutInOrder
  <2>4. server' # "serving" => registered' = {}
    BY <1>1, <1>2 DEF Core, ShutInOrder
  <2> QED BY <2>1, <2>2, <2>3, <2>4 DEF ShutInOrder
<1> QED BY <1>7, <1>8, <1>9, <1>10, <1>11, <1>12, <1>13 DEF Core

-----------------------------------------------------------------------------
(***************************************************************************)
(* Capacity.                                                               *)
(***************************************************************************)
LEMMA WaitingFinite ==
  ASSUME NEW q \in Cq, NEW m \in Method
  PROVE  /\ IsFiniteSet(Waiting(q, m)) /\ Cardinality(Waiting(q, m)) \in Nat
         /\ \A c : c \in Waiting(q, m) <=>
              /\ c \in Address /\ object[c] # Free
              /\ object[c].method = m /\ object[c].cq = q
              /\ object[c].status = "CREATE" \/ (thread[q].in = "renew" /\ thread[q].this = c)
<1>1. IsFiniteSet(Address)
  <2>1. 1 \in Int /\ Cardinality(Places) + Cardinality(Call) \in Int
    BY PlacesFinite
  <2> QED BY <2>1, FS_Interval DEF Address
<1>2. Waiting(q, m) \in SUBSET Address
  BY DEF Waiting, Allocated
<1>3. IsFiniteSet(Waiting(q, m)) /\ Cardinality(Waiting(q, m)) \in Nat
  BY <1>1, <1>2, FS_Subset, FS_CardinalityType
<1> QED BY <1>3 DEF Waiting, Allocated

\* Nothing changes when no context does and no thread begins or ends a renewal.
LEMMA CapacityUnchanged ==
  ASSUME ServerTypes, Capacity, object' = object,
         server' = "serving" => server = "serving",
         \A q \in Cq : \/ thread'[q] = thread[q]
                       \/ thread[q].in # "renew" /\ thread'[q].in # "renew"
  PROVE  Capacity'
<1> SUFFICES ASSUME NEW q \in Cq, NEW m \in Method PROVE Waiting(q, m)' = Waiting(q, m)
  BY DEF Capacity
<1> QED BY DEF Waiting, Allocated

LEMMA CapacityKeptByDelete ==
  ASSUME ServerTypes, Core, Capacity, NEW q \in Cq, NEW e \in event, Delete(q, e)
  PROVE  Capacity'
<1> DEFINE c == e.tag
<1>1. /\ thread[q] = InNext /\ object[c] # Free /\ object[c].cq = q
      /\ ~e.ok \/ object[c].status = "FINISH"
      /\ object' = [object EXCEPT ![c] = Free]
      /\ UNCHANGED <<server, thread>>
  BY Zenon DEF Delete, At
<1>2. c \in Address
  BY EventTag
<1>3. object[c].status = "CREATE" => server # "serving"
  BY <1>1 DEF Core, EventsRight, IsCreate
<1> HIDE DEF c
<1>4. \A d \in Address : object'[d] = IF d = c THEN Free ELSE object[d]
  BY <1>1, <1>2 DEF ServerTypes
<1> SUFFICES ASSUME NEW p \in Cq, NEW m \in Method
             PROVE  /\ Cardinality(Waiting(p, m))' <= InitialContexts
                    /\ server' = "serving" => Cardinality(Waiting(p, m))' = InitialContexts
  BY DEF Capacity
<1>5. Waiting(p, m)' = Waiting(p, m) \ {c}
  BY <1>1, <1>4 DEF Waiting, Allocated
<1>6. server = "serving" => c \notin Waiting(p, m)
  BY <1>1, <1>3 DEF Waiting, InNext
<1>7. /\ IsFiniteSet(Waiting(p, m)) /\ Cardinality(Waiting(p, m)) \in Nat
      /\ Cardinality(Waiting(p, m)) <= InitialContexts
      /\ server = "serving" => Cardinality(Waiting(p, m)) = InitialContexts
  BY WaitingFinite DEF Capacity
<1> DEFINE S == Waiting(p, m)
<1>8. Cardinality(S \ {c}) = IF c \in S THEN Cardinality(S) - 1 ELSE Cardinality(S)
  <2>1. IsFiniteSet(S)
    BY <1>7
  <2> HIDE DEF S
  <2> QED BY <2>1, FS_RemoveElement
<1> QED BY <1>1, <1>5, <1>6, <1>7, <1>8

LEMMA CapacityKeptByHandle ==
  ASSUME ServerTypes, Core, Capacity, NEW q \in Cq, NEW r \in {"ok", "error"}, Handle(q, r)
  PROVE  Capacity'
<1>1. PICK c \in Address, k \in Call :
        /\ thread[q].in = "handler" /\ thread[q].this = c /\ serves[c] = {k}
        /\ IsCreate(c) /\ object[c].cq = q
        /\ object' = [object EXCEPT ![c] = Context("FINISH", object[c].method, q)]
        /\ reply' = [reply EXCEPT ![k] = r]
        /\ accepted' = IF r = "ok" THEN accepted \cup {k} ELSE accepted
        /\ sending' = sending \cup {c}
        /\ thread' = [thread EXCEPT ![q] = [in |-> "renew", this |-> c, reply |-> r]]
        /\ UNCHANGED <<server, registered, serves, event, cqDown, crashed, rpc>>
  BY SMTT(30), HandleIs DEF Core
<1>2. /\ Context("FINISH", object[c].method, q) # Free
      /\ Context("FINISH", object[c].method, q).method = object[c].method
      /\ Context("FINISH", object[c].method, q).status = "FINISH"
      /\ Context("FINISH", object[c].method, q).cq = q
  BY <1>1, AllocatedTypes, ContextType DEF IsCreate
<1>3. \A d \in Address :
        /\ d = c => /\ object'[d] # Free /\ object'[d].status = "FINISH"
                    /\ object'[d].cq = q /\ object'[d].method = object[c].method
        /\ d # c => object'[d] = object[d]
  BY <1>1, <1>2 DEF ServerTypes
<1>4. \A p \in Cq : /\ p = q => thread'[p].in = "renew" /\ thread'[p].this = c
                    /\ p # q => thread'[p] = thread[p]
  BY <1>1 DEF ServerTypes
<1> SUFFICES ASSUME NEW p \in Cq, NEW m \in Method PROVE Waiting(p, m)' = Waiting(p, m)
  BY <1>1 DEF Capacity
<1>5. ASSUME NEW d \in Address PROVE (d \in Waiting(p, m))' <=> d \in Waiting(p, m)
  BY <1>1, <1>3, <1>4 DEF Waiting, Allocated, IsCreate
<1>6. Waiting(p, m) \subseteq Address /\ Waiting(p, m)' \subseteq Address
  BY DEF Waiting, Allocated
<1> QED BY <1>5, <1>6

LEMMA CapacityKeptByRenew ==
  ASSUME ServerTypes, Core, Capacity, NEW q \in Cq, Renew(q)
  PROVE  Capacity'
<1>1. PICK n \in Address, c \in Address :
        /\ object[n] = Free
        /\ thread[q].in = "renew" /\ thread[q].this = c
        /\ IsFinish(c) /\ object[c].cq = q
        /\ object' = [object EXCEPT ![n] = Context("CREATE", object[c].method, q)]
        /\ IF server = "serving"
           THEN registered' = registered \cup {n} /\ event' = event
           ELSE event' = event \cup {[tag |-> n, ok |-> FALSE]} /\ registered' = registered
        /\ thread' = [thread EXCEPT ![q] = InNext]
        /\ UNCHANGED <<server, serves, sending, cqDown, crashed, rpc, reply, accepted>>
  BY RenewIs DEF Core
<1>2. /\ Context("CREATE", object[c].method, q) # Free
      /\ Context("CREATE", object[c].method, q).method = object[c].method
      /\ Context("CREATE", object[c].method, q).status = "CREATE"
      /\ Context("CREATE", object[c].method, q).cq = q
  BY <1>1, AllocatedTypes, ContextType DEF IsFinish
<1>3. \A d \in Address :
        /\ d = n => /\ object'[d] # Free /\ object'[d].status = "CREATE"
                    /\ object'[d].cq = q /\ object'[d].method = object[c].method
        /\ d # n => object'[d] = object[d]
  BY <1>1, <1>2 DEF ServerTypes
<1>4. \A p \in Cq : /\ p = q => thread'[p].in = "Next"
                    /\ p # q => thread'[p] = thread[p]
  BY <1>1 DEF ServerTypes, InNext
<1>5. c # n /\ object[c] # Free /\ object[c].status = "FINISH"
  BY <1>1 DEF IsFinish
<1> SUFFICES ASSUME NEW p \in Cq, NEW m \in Method
             PROVE  Cardinality(Waiting(p, m))' = Cardinality(Waiting(p, m))
  BY <1>1 DEF Capacity
<1> DEFINE S == Waiting(p, m)
<1>6. ASSUME NEW d \in Address
      PROVE  (d \in Waiting(p, m))' <=> IF p = q /\ m = object[c].method
                                        THEN d = n \/ (d \in S /\ d # c) ELSE d \in S
  BY <1>1, <1>3, <1>4, <1>5 DEF Waiting, Allocated
<1>7. S \subseteq Address /\ S' \subseteq Address
  BY DEF Waiting, Allocated
<1>8. IsFiniteSet(S) /\ Cardinality(S) \in Nat
  BY WaitingFinite
<1>9. CASE p = q /\ m = object[c].method
  <2>1. S' = (S \ {c}) \cup {n}
    BY <1>6, <1>7, <1>9
  <2>2. c \in S /\ n \notin S
    BY <1>1, <1>5, <1>9 DEF Waiting, Allocated
  <2>3. Cardinality((S \ {c}) \cup {n}) = Cardinality(S)
    <3> HIDE DEF S
    <3>1. IsFiniteSet(S \ {c}) /\ Cardinality(S \ {c}) = Cardinality(S) - 1
      BY <1>8, <2>2, FS_RemoveElement
    <3> DEFINE R == S \ {c}
    <3>2. n \notin R /\ IsFiniteSet(R)
      BY <2>2, <3>1
    <3> HIDE DEF R
    <3>3. Cardinality(R \cup {n}) = Cardinality(R) + 1
      BY <3>2, FS_AddElement
    <3> QED BY <1>8, <3>1, <3>3 DEF R
  <2> QED BY <2>1, <2>3
<1>10. CASE ~(p = q /\ m = object[c].method)
  <2>1. S' = S
    BY <1>6, <1>7, <1>10
  <2> QED BY <2>1
<1> QED BY <1>9, <1>10

-----------------------------------------------------------------------------
(***************************************************************************)
(* The start: Place enumerates the places, each of which has one address.  *)
(***************************************************************************)
LEMMA PlaceEnumerates ==
  /\ Place \in [1 .. Cardinality(Places) -> Places]
  /\ \A p \in Places : \E i \in 1 .. Cardinality(Places) : Place[i] = p
  /\ \A i, j \in 1 .. Cardinality(Places) : Place[i] = Place[j] => i = j
<1> DEFINE N == Cardinality(Places)
<1>1. IsFiniteSet(Places) /\ N \in Nat /\ 1 \in Int /\ N \in Int
  BY PlacesFinite
<1>2. PICK g \in Bijection(1 .. N, Places) : TRUE
  BY <1>1, FS_CardinalityType DEF ExistsBijection
<1>3. g \in [1 .. N -> Places] /\ \A p \in Places : \E i \in 1 .. N : g[i] = p
  BY <1>2 DEF Bijection, Surjection
<1>4. Place \in [1 .. N -> Places] /\ \A p \in Places : \E i \in 1 .. N : Place[i] = p
  BY <1>3 DEF Place
<1>5. Place \in Surjection(1 .. N, Places)
  <2> HIDE DEF N
  <2> QED BY <1>4 DEF Surjection
<1>6. IsFiniteSet(1 .. N) /\ Cardinality(1 .. N) = N
  <2> HIDE DEF N
  <2> QED BY <1>1, FS_Interval
<1>7. Place \in Injection(1 .. N, Places)
  <2> DEFINE D == 1 .. N
  <2>1. IsFiniteSet(D) /\ Cardinality(D) = Cardinality(Places) /\ Place \in Surjection(D, Places)
    BY <1>5, <1>6
  <2> HIDE DEF D
  <2>2. Place \in Injection(D, Places)
    BY <2>1, FS_SurjSameCardinalityImpliesInj
  <2> QED BY <2>2 DEF D
<1> QED BY <1>4, <1>7 DEF Injection, IsInjective

LEMMA InitObjects ==
  ASSUME ServerInit
  PROVE  /\ DOMAIN Place = 1 .. Cardinality(Places) /\ DOMAIN Place \subseteq Address
         /\ \A c \in Address :
              /\ c \in DOMAIN Place => /\ object[c] \in ContextSet /\ object[c] # Free
                                       /\ object[c].status = "CREATE"
                                       /\ object[c].cq = Place[c][1] /\ object[c].method = Place[c][2]
              /\ c \notin DOMAIN Place => object[c] = Free
<1>1. DOMAIN Place = 1 .. Cardinality(Places)
  BY PlaceEnumerates
<1>2. DOMAIN Place \subseteq Address
  BY <1>1, PlacesFinite DEF Address
<1>3. ASSUME NEW c \in DOMAIN Place PROVE Place[c][1] \in Cq /\ Place[c][2] \in Method
  <2>1. Place[c] \in Places
    BY <1>1, PlaceEnumerates
  <2> QED BY <2>1 DEF Places
<1>4. ASSUME NEW c \in Address, c \in DOMAIN Place
      PROVE  /\ object[c] \in ContextSet /\ object[c] # Free
             /\ object[c].status = "CREATE"
             /\ object[c].cq = Place[c][1] /\ object[c].method = Place[c][2]
  <2>1. object[c] = Context("CREATE", Place[c][2], Place[c][1])
    BY <1>4 DEF ServerInit
  <2> QED BY <1>3, <1>4, <2>1, ContextType
<1>5. ASSUME NEW c \in Address, c \notin DOMAIN Place PROVE object[c] = Free
  BY <1>5 DEF ServerInit
<1> QED BY <1>1, <1>2, <1>4, <1>5

LEMMA InitCapacity ==
  ASSUME ServerInit, NEW q \in Cq, NEW m \in Method
  PROVE  Cardinality(Waiting(q, m)) = InitialContexts
<1> DEFINE I == 1 .. InitialContexts
           S == Waiting(q, m)
           f == [c \in S |-> Place[c][3]]
           N == Cardinality(Places)
<1>1. thread[q].in = "Next"
  BY DEF ServerInit, InNext
<1>2. ASSUME NEW c PROVE c \in S <=> c \in 1 .. N /\ Place[c][1] = q /\ Place[c][2] = m
  BY <1>1, InitObjects, WaitingFinite
<1>3. \A c \in 1 .. N : Place[c] \in Places /\ Place[c] = <<Place[c][1], Place[c][2], Place[c][3]>>
                        /\ Place[c][3] \in I
  BY SMTT(30), PlaceEnumerates DEF Places
<1> HIDE DEF S, N
<1>4. f \in [S -> I]
  BY <1>2, <1>3
<1>5. ASSUME NEW c \in S, NEW d \in S, f[c] = f[d] PROVE c = d
  <2>1. c \in 1 .. N /\ d \in 1 .. N /\ Place[c] = Place[d]
    BY <1>2, <1>3, <1>5
  <2> QED BY <2>1, PlaceEnumerates DEF N
<1>6. ASSUME NEW i \in I PROVE \E c \in S : f[c] = i
  <2>1. <<q, m, i>> \in Places
    BY DEF Places
  <2>2. PICK c \in 1 .. N : Place[c] = <<q, m, i>>
    BY <2>1, PlaceEnumerates DEF N
  <2>3. c \in S
    BY <1>2, <2>2
  <2> QED BY <2>2, <2>3
<1> HIDE DEF f
<1>7. f \in Bijection(S, I)
  BY <1>4, <1>5, <1>6 DEF Bijection, Injection, IsInjective, Surjection
<1>8. IsFiniteSet(S)
  BY WaitingFinite DEF S
<1>9. Cardinality(I) = Cardinality(S)
  <2> HIDE DEF I
  <2> QED BY <1>7, <1>8, FS_Bijection DEF ExistsBijection
<1>10. Cardinality(I) = InitialContexts
  <2>1. 1 \in Int /\ InitialContexts \in Int /\ InitialContexts >= 1
    OBVIOUS
  <2>2. Cardinality(1 .. InitialContexts) = InitialContexts
    BY <2>1, FS_Interval
  <2> QED BY <2>2
<1> QED BY <1>9, <1>10 DEF S

LEMMA ServerInitially ==
  ASSUME ServerInit
  PROVE  ServerInv
<1>1. ServerTypes
  <2>1. object \in [Address -> {Free} \cup ContextSet]
    <3>1. \A c \in Address : object[c] \in {Free} \cup ContextSet
      BY InitObjects
    <3>2. object = [c \in Address |-> object[c]]
      BY DEF ServerInit
    <3> QED BY <3>1, <3>2
  <2>2. registered \subseteq Address
    BY InitObjects DEF ServerInit
  <2>3. thread \in [Cq -> ThreadSet]
    BY DEF ServerInit, ThreadSet
  <2>4. event = {}
    BY DEF ServerInit
  <2> QED BY <2>1, <2>2, <2>3, <2>4 DEF ServerInit, ServerTypes
<1>2. /\ server = "serving" /\ event = {} /\ sending = {} /\ cqDown = {} /\ accepted = {}
      /\ registered = DOMAIN Place
      /\ \A q \in Cq : thread[q].in = "Next"
      /\ \A c \in Address : serves[c] = {}
      /\ \A k \in Call : rpc[k] = "none" /\ reply[k] = "none"
  BY DEF ServerInit, InNext
<1>3. \A c \in Address : /\ ~Handling(c) /\ ~Queued(c) /\ ~IsFinish(c)
                         /\ IsCreate(c) <=> c \in DOMAIN Place
                         /\ object[c] # Free <=> c \in DOMAIN Place
  BY <1>2, InitObjects DEF Handling, Queued, IsFinish, IsCreate
<1>4. Placed /\ QueuedOnce
  BY <1>2, <1>3 DEF Placed, QueuedOnce
<1>5. InsideOwn /\ EventsRight
  BY <1>2 DEF InsideOwn, EventsRight
<1>6. Serving /\ HandledOnce
  BY <1>2, <1>3 DEF Serving, HandledOnce
<1>7. ShutInOrder
  BY <1>2 DEF ShutInOrder
<1>8. Capacity
  BY InitCapacity DEF Capacity
<1> QED BY <1>1, <1>4, <1>5, <1>6, <1>7, <1>8 DEF ServerInv

LEMMA ServerSteps ==
  ASSUME ServerInv, ServerNext
  PROVE  ServerInv'
<1>1. ServerTypes /\ Core /\ Capacity
  BY DEF ServerInv, Core
<1>2. ServerTypes'
  BY <1>1, ServerTypesKept DEF Core
<1> SUFFICES Core' /\ Capacity'
  BY <1>2 DEF ServerInv, Core
<1>3. ASSUME NEW k \in Call, NEW c \in Address, Match(k, c) PROVE Core' /\ Capacity'
  <2>1. Core'
    BY <1>1, <1>3, MatchKeeps
  <2>2. UNCHANGED <<server, object, thread>>
    BY <1>3 DEF Match
  <2> QED BY <1>1, <2>1, <2>2, CapacityUnchanged
<1>4. ASSUME NEW q \in Cq, NEW e \in event, Delete(q, e) PROVE Core' /\ Capacity'
  BY <1>1, <1>4, DeleteKeeps, CapacityKeptByDelete
<1>5. ASSUME NEW q \in Cq, NEW e \in event, BeginHandler(q, e) PROVE Core' /\ Capacity'
  <2>1. Core'
    BY <1>1, <1>5, BeginHandlerKeeps
  <2>2. UNCHANGED <<server, object>>
    BY <1>5 DEF BeginHandler
  <2>3. \A p \in Cq : thread'[p] = thread[p] \/ (thread[p].in = "Next" /\ thread'[p].in = "handler")
    <3>1. thread \in [Cq -> ThreadSet]
      BY <1>1 DEF ServerTypes
    <3>2. /\ thread[q] = InNext
          /\ thread' = [thread EXCEPT ![q] = [in |-> "handler", this |-> e.tag]]
      BY <1>5 DEF BeginHandler
    <3> QED BY <3>1, <3>2 DEF InNext
  <2> QED BY <1>1, <2>1, <2>2, <2>3, CapacityUnchanged
<1>6. ASSUME NEW q \in Cq, NEW r \in {"ok", "error"}, Handle(q, r) PROVE Core' /\ Capacity'
  BY <1>1, <1>6, HandleKeeps, CapacityKeptByHandle
<1>7. ASSUME NEW q \in Cq, Renew(q) PROVE Core' /\ Capacity'
  BY <1>1, <1>7, RenewKeeps, CapacityKeptByRenew
<1>8. ASSUME NEW c \in Address, Sent(c) PROVE Core' /\ Capacity'
  <2>1. Core'
    BY <1>1, <1>8, SentKeeps
  <2>2. UNCHANGED <<server, object, thread>>
    BY <1>8 DEF Sent
  <2> QED BY <1>1, <2>1, <2>2, CapacityUnchanged
<1>9. ASSUME NEW k \in Call, RefuseCall(k) PROVE Core' /\ Capacity'
  <2>1. /\ rpc[k] \in {"sent", "matched"} /\ rpc' = [rpc EXCEPT ![k] = "refused"]
        /\ UNCHANGED <<server, object, registered, serves, event, sending, thread, cqDown,
                       crashed, reply, accepted>>
    BY <1>9 DEF RefuseCall
  <2>2. Core'
    BY <1>1, <2>1, CallKeeps
  <2> QED BY <1>1, <2>1, <2>2, CapacityUnchanged
<1>10. ASSUME ServerShutdown PROVE Core' /\ Capacity'
  <2>1. Core'
    BY <1>1, <1>10, ServerShutdownKeeps
  <2>2. UNCHANGED <<object, thread>> /\ server' = "closing"
    BY <1>10 DEF ServerShutdown
  <2> QED BY <1>1, <2>1, <2>2, CapacityUnchanged
<1>11. ASSUME \/ ShutdownReturns \/ JoinThreads
              \/ \E q \in Cq : ShutdownQueue(q) \/ LeaveLoop(q) \/ HandleTooLate(q) \/ RenewTooLate(q)
       PROVE  Core' /\ Capacity'
  <2>1. Core'
    BY <1>1, <1>11, ShutdownKeeps
  <2>2. object' = object /\ (server' = "serving" => server = "serving")
    BY <1>11 DEF ShutdownReturns, JoinThreads, ShutdownQueue, LeaveLoop, HandleTooLate, RenewTooLate, Abort
  <2>3. \A q \in Cq : thread'[q] = thread[q] \/ (thread[q].in = "Next" /\ thread'[q].in = "left")
    <3>1. thread \in [Cq -> ThreadSet]
      BY <1>1 DEF ServerTypes
    <3>2. \/ thread' = thread
          \/ \E p \in Cq : thread[p] = InNext /\ thread' = [thread EXCEPT ![p] = [in |-> "left"]]
      BY <1>11 DEF ShutdownReturns, JoinThreads, ShutdownQueue, LeaveLoop, HandleTooLate,
                   RenewTooLate, Abort
    <3> QED BY <3>1, <3>2 DEF InNext
  <2> QED BY <1>1, <2>1, <2>2, <2>3, CapacityUnchanged
<1> QED BY <1>3, <1>4, <1>5, <1>6, <1>7, <1>8, <1>9, <1>10, <1>11
        DEF ServerNext, DriveCompletionQueue, Grpc, Shutdown

-----------------------------------------------------------------------------
(***************************************************************************)
(* The client.                                                             *)
(***************************************************************************)
\* What a step of the server may do to a call: one that was not made stays so,
\* and one that was replied to keeps its reply.
LEMMA ServerKeepsReplies ==
  ASSUME ServerInv, ServerNext
  PROVE  \A k \in Call : /\ rpc[k] = "none" => rpc'[k] = "none"
                         /\ reply[k] # "none" => reply'[k] = reply[k]
<1>0. ServerTypes /\ Core
  BY DEF ServerInv, Core
<1>1. ASSUME NEW k \in Call, NEW c \in Address, Match(k, c)
      PROVE  rpc[k] = "sent" /\ rpc' = [rpc EXCEPT ![k] = "matched"] /\ reply' = reply
  BY <1>1 DEF Match
<1>2. ASSUME NEW q \in Cq, NEW r \in {"ok", "error"}, Handle(q, r)
      PROVE  rpc' = rpc /\ \E k \in Call : reply[k] = "none" /\ reply' = [reply EXCEPT ![k] = r]
  <2>1. PICK c \in Address, k \in Call :
          /\ thread[q].in = "handler" /\ thread[q].this = c /\ serves[c] = {k}
          /\ IsCreate(c) /\ object[c].cq = q
          /\ object' = [object EXCEPT ![c] = Context("FINISH", object[c].method, q)]
          /\ reply' = [reply EXCEPT ![k] = r]
          /\ accepted' = IF r = "ok" THEN accepted \cup {k} ELSE accepted
          /\ sending' = sending \cup {c}
          /\ thread' = [thread EXCEPT ![q] = [in |-> "renew", this |-> c, reply |-> r]]
          /\ UNCHANGED <<server, registered, serves, event, cqDown, crashed, rpc>>
    BY <1>0, <1>2, HandleIs DEF Core
  <2>2. reply[k] = "none"
    BY <1>0, <2>1 DEF Core, HandledOnce
  <2> QED BY <2>1, <2>2
<1>3. ASSUME NEW c \in Address, Sent(c)
      PROVE  /\ reply' = reply
             /\ \E k \in Call : rpc' = [rpc EXCEPT ![k] = IF @ = "matched" THEN "answered" ELSE @]
  <2>1. serves[c] \subseteq Call
    BY <1>0 DEF ServerTypes
  <2> QED BY <1>3, <2>1 DEF Sent
<1>4. ASSUME NEW k \in Call, RefuseCall(k)
      PROVE  rpc[k] \in {"sent", "matched"} /\ rpc' = [rpc EXCEPT ![k] = "refused"] /\ reply' = reply
  BY <1>4 DEF RefuseCall
<1>5. ASSUME NEW q \in Cq, Renew(q) PROVE rpc' = rpc /\ reply' = reply
  BY <1>5 DEF Renew
<1>6. ASSUME NEW q \in Cq, NEW e \in event, Delete(q, e) \/ BeginHandler(q, e)
      PROVE  rpc' = rpc /\ reply' = reply
  BY <1>6 DEF Delete, BeginHandler
<1>7. ASSUME \/ ShutdownReturns \/ JoinThreads \/ ServerShutdown
             \/ \E q \in Cq : ShutdownQueue(q) \/ LeaveLoop(q) \/ HandleTooLate(q) \/ RenewTooLate(q)
      PROVE  rpc' = rpc /\ reply' = reply
  BY <1>7 DEF ShutdownReturns, JoinThreads, ServerShutdown, ShutdownQueue, LeaveLoop,
              HandleTooLate, RenewTooLate, Abort
<1>8. rpc \in [Call -> {"none", "sent", "matched", "answered", "refused", "given up"}]
        /\ reply \in [Call -> {"none", "ok", "error"}]
  BY <1>0 DEF ServerTypes
<1>9. \/ \E k \in Call : rpc[k] # "none" /\ (\E s \in {"matched", "answered", "refused"} : rpc' = [rpc EXCEPT ![k] = s])
            /\ reply' = reply
      \/ rpc' = rpc /\ \E k \in Call, r \in {"ok", "error"} : reply[k] = "none" /\ reply' = [reply EXCEPT ![k] = r]
      \/ rpc' = rpc /\ reply' = reply
  <2>1. ASSUME NEW k \in Call, rpc' = [rpc EXCEPT ![k] = IF @ = "matched" THEN "answered" ELSE @]
        PROVE  rpc' = rpc \/ (rpc[k] # "none" /\ rpc' = [rpc EXCEPT ![k] = "answered"])
    BY <1>8, <2>1
  <2>2. CASE \E k \in Call, c \in Address : Match(k, c)
    BY <1>1, <2>2
  <2>3. CASE \E q \in Cq, r \in {"ok", "error"} : Handle(q, r)
    BY <1>2, <2>3
  <2>4. CASE \E c \in Address : Sent(c)
    BY <1>3, <2>1, <2>4
  <2>5. CASE \E k \in Call : RefuseCall(k)
    BY <1>4, <2>5
  <2>6. CASE \E q \in Cq : Renew(q) \/ \E e \in event : Delete(q, e) \/ BeginHandler(q, e)
    BY <1>5, <1>6, <2>6
  <2>7. CASE \/ ShutdownReturns \/ JoinThreads \/ ServerShutdown
             \/ \E q \in Cq : ShutdownQueue(q) \/ LeaveLoop(q) \/ HandleTooLate(q) \/ RenewTooLate(q)
    BY <1>7, <2>7
  <2> QED BY <2>2, <2>3, <2>4, <2>5, <2>6, <2>7
          DEF ServerNext, DriveCompletionQueue, Grpc, Shutdown
<1> QED BY <1>8, <1>9

LEMMA ServerUnchanged ==
  ASSUME ServerInv, UNCHANGED serverVars
  PROVE  ServerInv'
<1>1. ServerTypes'
  BY DEF ServerInv, ServerTypes, serverVars
<1>2. Placed' /\ QueuedOnce' /\ InsideOwn' /\ EventsRight'
  BY DEF ServerInv, Placed, QueuedOnce, InsideOwn, EventsRight, serverVars, Queued, Handling,
         IsCreate, IsFinish
<1>3. Serving' /\ HandledOnce' /\ ShutInOrder'
  BY DEF ServerInv, Serving, HandledOnce, ShutInOrder, serverVars, Handling, IsCreate, IsFinish
<1>4. Capacity'
  BY CapacityUnchanged DEF ServerInv, serverVars
<1> QED BY <1>1, <1>2, <1>3, <1>4 DEF ServerInv

\* The steps of the client that the server sees: a call is sent, or given up.
LEMMA ServerKeptByCall ==
  ASSUME ServerInv, NEW k \in Call, UNCHANGED serverOnly,
         \/ rpc[k] = "none" /\ rpc' = [rpc EXCEPT ![k] = "sent"]
         \/ rpc[k] \in {"sent", "matched"} /\ rpc' = [rpc EXCEPT ![k] = "given up"]
  PROVE  ServerInv'
<1>1. UNCHANGED <<server, object, registered, serves, event, sending, thread, cqDown,
                  crashed, reply, accepted>>
  BY DEF serverOnly
<1>2. ServerTypes' /\ Core'
  BY <1>1, CallKeeps DEF ServerInv, Core
<1>3. Capacity'
  BY <1>1, CapacityUnchanged DEF ServerInv
<1> QED BY <1>2, <1>3 DEF ServerInv, Core

\* A step of the server leaves what the client knows of its calls true.
LEMMA ClientKeptByServer ==
  ASSUME ServerInv, ClientInv, ServerNext, UNCHANGED clientVars
  PROVE  ClientInv'
<1> USE WebGatewayAssumption
<1>1. \A r \in Web : /\ rpc[r] = "none" => rpc'[r] = "none"
                     /\ reply[r] # "none" => reply'[r] = reply[r]
  BY ServerKeepsReplies
<1>2. ClientTypes'
  BY DEF ClientInv, ClientTypes, clientVars
<1>3. Unsent'
  BY <1>1 DEF ClientInv, Unsent, clientVars
<1>4. ToldTrue'
  BY <1>1 DEF ClientInv, ToldTrue, clientVars
<1>5. FramesHold' /\ NoEventLeft'
  BY DEF ClientInv, FramesHold, NoEventLeft, clientVars
<1> QED BY <1>2, <1>3, <1>4, <1>5 DEF ClientInv

LEMMA SubmitDagKeeps ==
  ASSUME IInv, NEW r \in Web, SubmitDag(r)
  PROVE  IInv'
<1> USE WebGatewayAssumption
<1>1. /\ web = "running" /\ http[r] = "none"
      /\ http' = [http EXCEPT ![r] = "waiting"]
      /\ coroutine' = [coroutine EXCEPT ![r] = "suspended"]
      /\ operation' = [operation EXCEPT ![r] = "open"]
      /\ rpc' = [rpc EXCEPT ![r] = "sent"]
      /\ UNCHANGED <<result, poller, web, clientShut, aborted>> /\ UNCHANGED serverOnly
  BY DEF SubmitDag
<1>2. ServerInv'
  <2>1. rpc[r] = "none" /\ r \in Call
    BY <1>1 DEF IInv, ClientInv, Unsent
  <2> QED BY <1>1, <2>1, ServerKeptByCall DEF IInv
<1>3. \A s \in Web : /\ http'[s] = IF s = r THEN "waiting" ELSE http[s]
                     /\ coroutine'[s] = IF s = r THEN "suspended" ELSE coroutine[s]
                     /\ operation'[s] = IF s = r THEN "open" ELSE operation[s]
                     /\ rpc'[s] = IF s = r THEN "sent" ELSE rpc[s]
  BY <1>1 DEF IInv, ClientInv, ClientTypes, ServerInv, ServerTypes
<1>4. ClientTypes'
  BY <1>1 DEF IInv, ClientInv, ClientTypes
<1>5. result[r] = "none"
  BY <1>1 DEF IInv, ClientInv, Unsent
<1>6. Unsent'
  BY <1>1, <1>3, <1>5 DEF IInv, ClientInv, Unsent
<1>7. ToldTrue'
  BY <1>1, <1>3, <1>5 DEF IInv, ClientInv, ToldTrue, serverOnly
<1>8. FramesHold' /\ NoEventLeft'
  BY <1>1, <1>3 DEF IInv, ClientInv, FramesHold, NoEventLeft
<1> QED BY <1>2, <1>4, <1>6, <1>7, <1>8 DEF IInv, ClientInv

LEMMA FinishesKeeps ==
  ASSUME IInv, NEW r \in Web, NEW x \in {"ok", "header", "status"}, Finishes(r, x),
         operation[r] = "open",
         \/ x = "ok" /\ rpc' = rpc /\ reply[r] = "ok"
         \/ x = "header" /\ rpc' = rpc /\ reply[r] = "error"
         \/ x = "status" /\ rpc' = rpc /\ rpc[r] # "none"
         \/ x = "status" /\ rpc[r] \in {"sent", "matched"} /\ rpc' = [rpc EXCEPT ![r] = "given up"]
  PROVE  IInv'
<1> USE WebGatewayAssumption
<1>1. /\ operation' = [operation EXCEPT ![r] = "event"] /\ result' = [result EXCEPT ![r] = x]
      /\ UNCHANGED serverOnly
      /\ UNCHANGED <<http, coroutine, poller, web, clientShut, aborted>>
  BY DEF Finishes
<1>2. ServerInv'
  <2>1. CASE rpc' = rpc
    BY <1>1, <2>1, ServerUnchanged DEF IInv, serverOnly, serverVars
  <2>2. CASE rpc' # rpc
    BY <1>1, <2>2, ServerKeptByCall DEF IInv
  <2> QED BY <2>1, <2>2
<1>3. \A s \in Web : /\ operation'[s] = IF s = r THEN "event" ELSE operation[s]
                     /\ result'[s] = IF s = r THEN x ELSE result[s]
                     /\ rpc'[s] = "none" <=> rpc[s] = "none"
                     /\ reply'[s] = reply[s]
  <2>1. \A s \in Web : rpc'[s] = "none" <=> rpc[s] = "none"
    BY DEF IInv, ServerInv, ServerTypes
  <2> QED BY <1>1, <2>1 DEF IInv, ClientInv, ClientTypes, serverOnly
<1>4. ClientTypes'
  BY <1>1 DEF IInv, ClientInv, ClientTypes
<1>5. coroutine[r] = "suspended" /\ result[r] = "none" /\ ~clientShut
  BY DEF IInv, ClientInv, Unsent, FramesHold, NoEventLeft
<1>6. x # "none" /\ \A s \in Web : /\ http'[s] = http[s] /\ coroutine'[s] = coroutine[s]
  BY <1>1
<1>7. Unsent'
  <2>1. Unsent
    BY DEF IInv, ClientInv
  <2>2. ASSUME NEW s \in Web, s # r
        PROVE  /\ http[s] = "none" => rpc[s] = "none" /\ coroutine[s] = "none"
               /\ operation'[s] = operation[s] /\ result'[s] = result[s]
    BY <1>3, <2>1, <2>2 DEF Unsent
  <2>3. operation'[r] = "event" /\ result'[r] = x
    BY <1>3
  <2> SUFFICES ASSUME NEW s \in Web
               PROVE  /\ http'[s] = "none" => rpc'[s] = "none" /\ coroutine'[s] = "none"
                      /\ coroutine'[s] = "none" => result'[s] = "none"
                      /\ coroutine'[s] = "suspended" /\ operation'[s] = "open" => result'[s] = "none"
                      /\ coroutine'[s] \in {"satisfied", "gone"} => result'[s] # "none"
                      /\ operation'[s] = "event" => result'[s] # "none"
    BY DEF Unsent
  <2>4. CASE s = r
    BY <1>5, <1>6, <2>1, <2>3, <2>4 DEF Unsent
  <2>5. CASE s # r
    BY ZenonT(60), <1>3, <1>6, <2>1, <2>2, <2>5 DEF Unsent
  <2> QED BY <2>4, <2>5
<1>8. ToldTrue'
  <2>1. rpc[r] # "none"
    BY DEF IInv, ServerInv, HandledOnce
  <2>2. ToldTrue
    BY DEF IInv, ClientInv
  <2>3. http[r] # "200" /\ http[r] # "503"
    BY <1>5, <2>1, <2>2 DEF ToldTrue
  <2>4. /\ x = "ok" => reply[r] = "ok"
        /\ x = "header" => reply[r] = "error"
    OBVIOUS
  <2> SUFFICES ASSUME NEW s \in Web
               PROVE  /\ result'[s] = "ok" => reply'[s] = "ok"
                      /\ result'[s] = "header" => reply'[s] = "error"
                      /\ http'[s] = "200" => result'[s] = "ok"
                      /\ http'[s] = "503" => result'[s] = "header" \/ rpc'[s] = "none"
    BY DEF ToldTrue
  <2>5. CASE s = r
    BY <1>3, <1>6, <2>3, <2>4, <2>5
  <2>6. CASE s # r
    BY ZenonT(60), <1>3, <1>6, <2>2, <2>6 DEF ToldTrue
  <2> QED BY <2>5, <2>6
<1>9. FramesHold' /\ NoEventLeft'
  BY <1>1, <1>3, <1>5 DEF IInv, ClientInv, FramesHold, NoEventLeft
<1> QED BY <1>2, <1>4, <1>7, <1>8, <1>9 DEF IInv, ClientInv

\* The answers to the HTTP requests; the server is not concerned.
LEMMA AnswerKeeps ==
  ASSUME IInv, NEW r \in Web, RefuseRequest(r) \/ AnswerRequest(r)
  PROVE  IInv'
<1> USE WebGatewayAssumption
<1>1. UNCHANGED serverVars /\ UNCHANGED <<coroutine, operation, result, poller, web, clientShut, aborted>>
  BY DEF RefuseRequest, AnswerRequest
<1>2. UNCHANGED <<rpc, reply>>
  BY <1>1 DEF serverVars
<1>3. PICK s \in {"200", "400", "503"} :
        /\ http' = [http EXCEPT ![r] = s]
        /\ s = "200" => result[r] = "ok"
        /\ s = "503" => result[r] = "header" \/ rpc[r] = "none"
  <2>1. CASE RefuseRequest(r)
    BY <2>1 DEF RefuseRequest, IInv, ClientInv, Unsent
  <2>2. CASE AnswerRequest(r)
    <3>1. result[r] \in {"ok", "header", "status"} /\ http' = [http EXCEPT ![r] = StatusOf(result[r])]
      BY <2>2 DEF AnswerRequest, IInv, ClientInv, ClientTypes, Unsent
    <3>2. /\ result[r] = "ok" => StatusOf(result[r]) = "200"
          /\ result[r] = "header" => StatusOf(result[r]) = "503"
          /\ result[r] = "status" => StatusOf(result[r]) = "400"
      BY DEF StatusOf
    <3> QED BY <3>1, <3>2
  <2> QED BY <2>1, <2>2
<1>4. http[r] \in {"none", "waiting"}
  BY DEF RefuseRequest, AnswerRequest
<1>5. \A t \in Web : http'[t] = IF t = r THEN s ELSE http[t]
  BY <1>3 DEF IInv, ClientInv, ClientTypes
<1>6. ServerInv'
  BY <1>1, ServerUnchanged DEF IInv
<1>7. ClientTypes'
  BY <1>1, <1>3 DEF IInv, ClientInv, ClientTypes
<1>8. Unsent'
  BY <1>1, <1>2, <1>5 DEF IInv, ClientInv, Unsent
<1>9. ToldTrue'
  BY <1>1, <1>2, <1>3, <1>5 DEF IInv, ClientInv, ToldTrue
<1>10. FramesHold' /\ NoEventLeft'
  BY <1>1 DEF IInv, ClientInv, FramesHold, NoEventLeft
<1> QED BY <1>6, <1>7, <1>8, <1>9, <1>10 DEF IInv, ClientInv

LEMMA TakeEventKeeps ==
  ASSUME IInv, NEW r \in Web, TakeEvent(r)
  PROVE  IInv'
<1>1. /\ operation[r] = "event" /\ operation' = [operation EXCEPT ![r] = "none"]
      /\ coroutine' = [coroutine EXCEPT ![r] = "satisfied"]
      /\ UNCHANGED serverVars /\ UNCHANGED <<http, result, web, clientShut, aborted>>
  BY DEF TakeEvent, Resumes
<1>2. UNCHANGED <<rpc, reply>>
  BY <1>1 DEF serverVars
<1>3. \A s \in Web : /\ operation'[s] = IF s = r THEN "none" ELSE operation[s]
                     /\ coroutine'[s] = IF s = r THEN "satisfied" ELSE coroutine[s]
  BY <1>1 DEF IInv, ClientInv, ClientTypes
<1>4. ServerInv'
  BY <1>1, ServerUnchanged DEF IInv
<1>5. ClientTypes'
  BY <1>1 DEF IInv, ClientInv, ClientTypes
<1>6. result[r] # "none" /\ coroutine[r] = "suspended"
  BY <1>1 DEF IInv, ClientInv, Unsent, FramesHold
<1>7. Unsent'
  BY <1>1, <1>2, <1>3, <1>6 DEF IInv, ClientInv, Unsent
<1>8. ToldTrue'
  BY <1>1, <1>2 DEF IInv, ClientInv, ToldTrue
<1>9. FramesHold' /\ NoEventLeft'
  BY <1>1, <1>3 DEF IInv, ClientInv, FramesHold, NoEventLeft
<1> QED BY <1>4, <1>5, <1>7, <1>8, <1>9 DEF IInv, ClientInv

\* The last owner of the client is the frame itself: no other frame has a call.
LEMMA DestroyFrameKeeps ==
  ASSUME IInv, NEW r \in Web, DestroyFrame(r)
  PROVE  IInv'
<1> USE WebGatewayAssumption
<1>1. /\ coroutine[r] = "satisfied" /\ coroutine' = [coroutine EXCEPT ![r] = "gone"]
      /\ UNCHANGED serverVars /\ UNCHANGED <<http, operation, result, web>>
      /\ (Owners = {r} /\ clientShut' = TRUE) \/ clientShut' = clientShut
  BY DEF DestroyFrame
<1>2. UNCHANGED <<rpc, reply>>
  BY <1>1 DEF serverVars
<1>3. \A s \in Web : coroutine'[s] = IF s = r THEN "gone" ELSE coroutine[s]
  BY <1>1 DEF IInv, ClientInv, ClientTypes
<1>4. ServerInv'
  BY <1>1, ServerUnchanged DEF IInv
<1>5. ClientTypes'
  BY <1>1 DEF IInv, ClientInv, ClientTypes
<1>6. Unsent'
  BY <1>1, <1>2, <1>3 DEF IInv, ClientInv, Unsent
<1>7. ToldTrue'
  BY <1>1, <1>2 DEF IInv, ClientInv, ToldTrue
<1>8. \A s \in Web : operation[s] # "none" => s # r /\ coroutine[s] = "suspended"
  BY <1>1 DEF IInv, ClientInv, FramesHold
<1>9. Owners = {r} => /\ web \in {"server dropped", "exited"}
                      /\ \A s \in Web : operation[s] = "none"
  <2> SUFFICES ASSUME Owners = {r} PROVE web \in {"server dropped", "exited"} /\ Frames \subseteq {r}
    BY <1>8 DEF Frames
  <2>1. "server" \notin Owners /\ Frames \subseteq {r}
    BY DEF Owners
  <2>2. web \notin {"running", "stopping", "stopped", "main dropped"}
    BY <2>1 DEF Owners
  <2> QED BY <2>1, <2>2 DEF IInv, ClientInv, ClientTypes
<1>10. FramesHold' /\ NoEventLeft'
  <2>1. FramesHold /\ NoEventLeft
    BY DEF IInv, ClientInv
  <2>2. clientShut' => clientShut \/ Owners = {r}
    BY <1>1
  <2>3. \A s \in Web : operation'[s] # "none" => coroutine'[s] = "suspended"
    BY <1>1, <1>3, <1>8
  <2>4. clientShut' => web' \in {"server dropped", "exited"}
    BY <1>1, <1>9, <2>1, <2>2 DEF FramesHold
  <2>5. clientShut' => \A s \in Web : operation'[s] = "none"
    BY <1>1, <1>9, <2>1, <2>2 DEF NoEventLeft
  <2> QED BY <2>3, <2>4, <2>5 DEF FramesHold, NoEventLeft
<1> QED BY <1>4, <1>5, <1>6, <1>7, <1>10 DEF IInv, ClientInv

LEMMA MainKeeps ==
  ASSUME IInv, Main \/ LeavePolling
  PROVE  IInv'
<1> USE WebGatewayAssumption
<1>1. UNCHANGED serverVars /\ UNCHANGED <<http, coroutine, operation, result>>
  BY DEF Main, LeavePolling, SignalStops, RunReturns, DropClient, Exit
<1>2. \/ clientShut' = clientShut /\ web' = web
      \/ /\ clientShut' = clientShut
         /\ web' \in {"stopping", "stopped", "main dropped", "exited"}
         /\ web \in {"running", "stopping", "stopped", "server dropped"}
         /\ web = "server dropped" => web' = "exited"
      \/ /\ web = "main dropped" /\ web' = "server dropped"
         /\ clientShut' = (clientShut \/ Owners = {"server"})
  BY DEF Main, LeavePolling, SignalStops, AtSignal, RunReturns, DropClient, Exit
<1>3. UNCHANGED <<rpc, reply>>
  BY <1>1 DEF serverVars
<1>4. ServerInv'
  BY <1>1, ServerUnchanged DEF IInv
<1>5. clientShut' \in BOOLEAN
  BY <1>2 DEF IInv, ClientInv, ClientTypes
<1>6. ClientTypes'
  BY <1>1, <1>2, <1>5 DEF IInv, ClientInv, ClientTypes
<1>7. Unsent' /\ ToldTrue'
  BY <1>1, <1>3 DEF IInv, ClientInv, Unsent, ToldTrue
<1>8. FramesHold'
  <2>1. FramesHold /\ ClientTypes
    BY DEF IInv, ClientInv
  <2>2. clientShut' => web' \in {"server dropped", "exited"}
    <3>1. CASE web' = "server dropped"
      BY <3>1
    <3>2. CASE web' # "server dropped"
      <4>1. clientShut' => clientShut
        BY <1>2, <3>2
      <4>2. clientShut => web \in {"server dropped", "exited"}
        BY <2>1 DEF FramesHold
      <4>3. web \in {"server dropped", "exited"} => web' \in {"server dropped", "exited"}
        BY <1>2
      <4> QED BY <4>1, <4>2, <4>3
    <3> QED BY <3>1, <3>2
  <2> QED BY <1>1, <2>1, <2>2 DEF FramesHold
<1>9. NoEventLeft'
  <2>1. Owners = {"server"} => \A s \in Web : operation[s] = "none"
    <3>1. Owners = {"server"} => Frames = {}
      BY DEF Owners, Frames
    <3> QED BY <3>1 DEF Frames, IInv, ClientInv, FramesHold, ClientTypes
  <2>2. clientShut' => clientShut \/ Owners = {"server"}
    BY <1>2
  <2> QED BY <1>1, <2>1, <2>2 DEF IInv, ClientInv, NoEventLeft
<1> QED BY <1>4, <1>6, <1>7, <1>8, <1>9 DEF IInv, ClientInv

LEMMA InitIInv == Init => IInv
<1> SUFFICES ASSUME Init PROVE IInv
  OBVIOUS
<1> USE WebGatewayAssumption
<1>1. ServerInv /\ \A r \in Web : rpc[r] = "none"
  BY ServerInitially DEF Init, ServerInit
<1>2. ClientTypes
  BY DEF Init, ClientTypes
<1>3. Unsent /\ ToldTrue
  BY <1>1 DEF Init, Unsent, ToldTrue
<1>4. FramesHold /\ NoEventLeft
  BY DEF Init, FramesHold, NoEventLeft
<1> QED BY <1>1, <1>2, <1>3, <1>4 DEF IInv, ClientInv

LEMMA NextIInv == IInv /\ [Next]_vars => IInv'
<1> SUFFICES ASSUME IInv, [Next]_vars PROVE IInv'
  OBVIOUS
<1> USE WebGatewayAssumption
<1>1. CASE ServerNext /\ UNCHANGED clientVars
  BY <1>1, ServerSteps, ClientKeptByServer DEF IInv
<1>2. ASSUME NEW r \in Web, SubmitDag(r) PROVE IInv'
  BY <1>2, SubmitDagKeeps
<1>3. ASSUME NEW r \in Web, RefuseRequest(r) \/ AnswerRequest(r) PROVE IInv'
  BY <1>3, AnswerKeeps
<1>4. ASSUME NEW r \in Web, ReceiveAnswer(r) PROVE IInv'
  <2>1. operation[r] = "open" /\ rpc' = rpc
    BY <1>4 DEF ReceiveAnswer
  <2>2. CASE rpc[r] = "answered" /\ Finishes(r, IF reply[r] = "ok" THEN "ok" ELSE "header")
    <3>1. reply[r] \in {"ok", "error"}
      BY <2>2 DEF IInv, ServerInv, HandledOnce, ServerTypes
    <3>2. CASE reply[r] = "ok"
      <4>1. Finishes(r, "ok")
        BY <2>2, <3>2
      <4> QED BY <2>1, <3>2, <4>1, FinishesKeeps
    <3>3. CASE reply[r] = "error"
      <4>1. Finishes(r, "header")
        BY <2>2, <3>3
      <4> QED BY <2>1, <3>3, <4>1, FinishesKeeps
    <3> QED BY <3>1, <3>2, <3>3
  <2>3. CASE rpc[r] = "refused" /\ Finishes(r, "status")
    BY <2>1, <2>3, FinishesKeeps
  <2> QED BY <1>4, <2>2, <2>3 DEF ReceiveAnswer
<1>5. ASSUME NEW r \in Web, DeadlineExpires(r) PROVE IInv'
  BY <1>5, FinishesKeeps DEF DeadlineExpires
<1>6. ASSUME NEW k \in Call \ Web, OtherCall(k) PROVE IInv'
  <2>1. /\ rpc[k] = "none" /\ rpc' = [rpc EXCEPT ![k] = "sent"]
        /\ UNCHANGED serverOnly /\ UNCHANGED clientVars
    BY <1>6 DEF OtherCall
  <2>2. ServerInv'
    BY <2>1, ServerKeptByCall DEF IInv
  <2>3. reply' = reply /\ \A r \in Web : rpc'[r] = rpc[r]
    BY <2>1 DEF IInv, ServerInv, ServerTypes, serverOnly
  <2>4. ClientTypes' /\ Unsent' /\ ToldTrue'
    BY ZenonT(60), <2>1, <2>3 DEF IInv, ClientInv, ClientTypes, Unsent, ToldTrue, clientVars
  <2>5. FramesHold' /\ NoEventLeft'
    BY <2>1 DEF IInv, ClientInv, FramesHold, NoEventLeft, clientVars
  <2> QED BY <2>2, <2>4, <2>5 DEF IInv, ClientInv
<1>7. CASE Poller
  BY <1>7, TakeEventKeeps, DestroyFrameKeeps, MainKeeps DEF Poller
<1>8. CASE Main
  BY <1>8, MainKeeps
<1>9. CASE UNCHANGED vars
  <2>1. UNCHANGED serverVars /\ UNCHANGED clientVars
    BY <1>9 DEF vars
  <2>2. ServerInv'
    BY <2>1, ServerUnchanged DEF IInv
  <2>3. rpc' = rpc /\ reply' = reply
    BY <2>1 DEF serverVars
  <2>4. ClientTypes' /\ Unsent' /\ ToldTrue'
    BY <2>1, <2>3 DEF IInv, ClientInv, ClientTypes, Unsent, ToldTrue, clientVars
  <2>5. FramesHold' /\ NoEventLeft'
    BY <2>1 DEF IInv, ClientInv, FramesHold, NoEventLeft, clientVars
  <2> QED BY <2>2, <2>4, <2>5 DEF IInv, ClientInv
<1> QED BY <1>1, <1>2, <1>3, <1>4, <1>5, <1>6, <1>7, <1>8, <1>9 DEF Next, HttpThread

LEMMA Invariance == Spec => []IInv
BY InitIInv, NextIInv, PTL DEF Spec

-----------------------------------------------------------------------------
(***************************************************************************)
(* What the invariant says of the operations that are open.                *)
(***************************************************************************)
\* A context is queued as often as it has an event: never or once.
LEMMA QueuedCount ==
  ASSUME ServerTypes, QueuedOnce, NEW c \in Address
  PROVE  Cardinality({e \in event : e.tag = c}) = IF Queued(c) THEN 1 ELSE 0
<1> DEFINE E == {e \in event : e.tag = c}
<1>1. CASE Queued(c)
  <2>1. PICK e \in event : e.tag = c
    BY <1>1 DEF Queued
  <2>2. E = {e}
    BY <2>1 DEF QueuedOnce
  <2> HIDE DEF E
  <2>3. Cardinality(E) = 1
    BY <2>2, FS_Singleton
  <2> QED BY <1>1, <2>3 DEF E
<1>2. CASE ~Queued(c)
  <2>1. E = {}
    BY <1>2 DEF Queued
  <2> QED BY <1>2, <2>1, FS_EmptySet
<1> QED BY <1>1, <1>2

\* At most one thread is inside of a context.
LEMMA HandlingCount ==
  ASSUME ServerTypes, InsideOwn, NEW c \in Address
  PROVE  Inside(c, "handler") = IF Handling(c) THEN 1 ELSE 0
<1> DEFINE Q == {q \in Cq : thread[q].in = "handler" /\ thread[q].this = c}
<1>1. CASE Handling(c)
  <2>1. PICK q \in Cq : thread[q].in = "handler" /\ thread[q].this = c
    BY <1>1 DEF Handling
  <2>2. Q = {q}
    BY <2>1 DEF InsideOwn
  <2> HIDE DEF Q
  <2>3. Cardinality(Q) = 1
    BY <2>2, FS_Singleton
  <2> QED BY <1>1, <2>3 DEF Q, Inside
<1>2. CASE ~Handling(c)
  <2>1. Q = {}
    BY <1>2 DEF Handling
  <2> QED BY <1>2, <2>1, FS_EmptySet DEF Inside
<1> QED BY <1>1, <1>2

LEMMA NotRenewing ==
  ASSUME InsideOwn, NEW c \in Address, object[c] = Free
  PROVE  Inside(c, "renew") = 0 /\ ~Handling(c)
<1>1. {q \in Cq : thread[q].in = "renew" /\ thread[q].this = c} = {}
  BY DEF InsideOwn, IsFinish
<1> QED BY <1>1, FS_EmptySet DEF Inside, InsideOwn, IsCreate, Handling

LEMMA IInvTagsLive == IInv => TagsLive
<1> SUFFICES ASSUME IInv PROVE TagsLive
  OBVIOUS
<1>1. ServerTypes /\ Placed /\ QueuedOnce /\ InsideOwn /\ ShutInOrder
  BY DEF IInv, ServerInv
<1>2. ASSUME NEW c \in Address
      PROVE  /\ Open(c) = (IF c \in registered THEN 1 ELSE 0) + (IF c \in sending THEN 1 ELSE 0)
                            + (IF Queued(c) THEN 1 ELSE 0)
             /\ Inside(c, "handler") = IF Handling(c) THEN 1 ELSE 0
  BY <1>1, QueuedCount, HandlingCount DEF Open
<1>3. ASSUME NEW c \in Address, c \in Allocated
      PROVE  Open(c) + Inside(c, "handler") = 1
  <2>1. c \in registered \/ c \in sending \/ Queued(c) \/ Handling(c)
    BY <1>1, <1>3 DEF Placed, Allocated
  <2>2. /\ c \in registered => c \notin sending /\ ~Queued(c) /\ ~Handling(c)
        /\ c \in sending => ~Queued(c) /\ ~Handling(c)
        /\ Queued(c) => ~Handling(c)
    BY <1>1 DEF Placed
  <2> QED BY <1>2, <2>1, <2>2
<1>4. ASSUME NEW c \in Address, c \notin Allocated
      PROVE  Open(c) + Inside(c, "handler") + Inside(c, "renew") = 0
  <2>1. object[c] = Free
    BY <1>4 DEF Allocated
  <2>2. c \notin registered /\ c \notin sending /\ ~Queued(c)
    BY <1>1, <2>1 DEF Placed, IsCreate, IsFinish
  <2>3. Inside(c, "renew") = 0 /\ ~Handling(c)
    BY <1>1, <2>1, NotRenewing
  <2> QED BY <1>2, <2>2, <2>3
<1>5. server = "joined" => Allocated = {}
  <2>1. ASSUME server = "joined", NEW c \in Address, object[c] # Free PROVE FALSE
    <3>1. object[c].cq \in Cq
      BY <1>1, <2>1, AllocatedTypes
    <3> QED BY <1>1, <2>1, <3>1 DEF ShutInOrder
  <2> QED BY <2>1 DEF Allocated
<1> QED BY <1>3, <1>4, <1>5 DEF TagsLive

-----------------------------------------------------------------------------
(***************************************************************************)
(* The theorems.                                                           *)
(***************************************************************************)
\* api_server.hpp:64 and :92 (delete this): every context has exactly one operation
\* open or is in its handler, gRPC holds the address of no context that is gone, and a
\* server that has been shut down and joined has leaked none, for every number of
\* queues, methods and calls and although addresses are reused at once.
THEOREM ContextsLiveLongEnough == Spec => []TagsLive
BY Invariance, IInvTagsLive, PTL

\* api_server.hpp:85: the handler may answer, refuse or throw, but the contexts
\* of a method and a queue that wait, were just given a call or are about to be
\* replaced stay as many as DTS_INITIAL_CONTEXT while the server serves.
THEOREM CapacityIsKept == Spec => []CapacityKept
<1>1. IInv => CapacityKept
  BY DEF IInv, ServerInv, Capacity, CapacityKept, Waiting
<1> QED BY <1>1, Invariance, PTL

\* api_web.cpp:235-250: the sender of a DAG that is told 200 has a job, the one
\* that is told 503 has none, whatever is refused, late or given up on the way.
THEOREM AnswersAreTrue == Spec => []AnswersTrue
<1>1. IInv => AnswersTrue
  <2> SUFFICES ASSUME IInv, NEW r \in Web
               PROVE  /\ http[r] = "200" => r \in accepted
                      /\ http[r] = "503" => r \notin accepted
    BY DEF AnswersTrue
  <2>1. /\ r \in accepted <=> reply[r] = "ok"
        /\ rpc[r] = "none" => reply[r] = "none"
    BY WebGatewayAssumption DEF IInv, ServerInv, HandledOnce
  <2>2. /\ http[r] = "200" => reply[r] = "ok"
        /\ http[r] = "503" => reply[r] = "error" \/ rpc[r] = "none"
    BY DEF IInv, ClientInv, ToldTrue
  <2> QED BY <2>1, <2>2
<1> QED BY <1>1, Invariance, PTL

\* grpc_client.cpp:32: though the loop of CompleteRpc ends without draining its
\* queue, no call is open and no event queued then, because each call has a
\* coroutine frame that owns the client.
THEOREM NoEventIsLeft == Spec => []NoEventLeft
<1>1. IInv => NoEventLeft
  BY DEF IInv, ClientInv
<1> QED BY <1>1, Invariance, PTL
==============================================================================
