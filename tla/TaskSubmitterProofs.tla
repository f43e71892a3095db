------------------------- MODULE TaskSubmitterProofs -------------------------
(***************************************************************************)
(* For every finite set of requests and of flushers, every assignment of   *)
(* idempotency keys, every queue limit and every combination of faults: an *)
(* accepted request is in exactly one place, what is in Redis is in        *)
(* PostgreSQL, and of the requests with one key at most one gets to Redis. *)
(***************************************************************************)
EXTENDS TaskSubmitter, FiniteSetTheorems, SequenceTheorems, TLAPS

\* A flusher holds a batch only from the swap to the end of its pipeline, and
\* in the pipeline its batch is committed.
BatchLife ==
  \A f \in Flusher : /\ pc[f] \notin {"tx", "publish"} => batch[f] = {}
                     /\ pc[f] = "publish" => batch[f] \subseteq db

\* The queue holds no request twice.
QueueUnique == \A i, j \in 1 .. Len(queue) : queue[i] = queue[j] => i = j

\* No request is in two places, nor in the batches of two flushers.
Disjoint ==
  /\ \A f \in Flusher : batch[f] \cap (ToSet(queue) \cup published \cup failed) = {}
  /\ \A f, g \in Flusher : f # g => batch[f] \cap batch[g] = {}
  /\ ToSet(queue) \cap (published \cup failed) = {}
  /\ published \cap failed = {}

\* Every accepted request is somewhere, and nothing else is anywhere.
Everywhere == accepted = ToSet(queue) \cup Batched \cup published \cup failed

\* The unique index on the idempotency key.
KeysUnique == \A q, r \in db : Key(q) = Key(r) => q = r

IInv == /\ TypeOK /\ BatchLife /\ QueueUnique /\ Disjoint /\ Everywhere
        /\ KeysUnique /\ CommitThenPublish

-----------------------------------------------------------------------------
\* The elements of a sequence are its values.
LEMMA ToSetSeq ==
  ASSUME NEW S, NEW s \in Seq(S)
  PROVE  ToSet(s) = {s[i] : i \in 1 .. Len(s)} /\ ToSet(s) \subseteq S
BY LenProperties, ElementOfSeq DEF ToSet

\* A sequence without duplicates has as many elements as positions.
LEMMA UniqueLength ==
  ASSUME NEW S, NEW s \in Seq(S), \A i, j \in 1 .. Len(s) : s[i] = s[j] => i = j
  PROVE  IsFiniteSet(ToSet(s)) /\ Cardinality(ToSet(s)) = Len(s)
<1>1. Len(s) \in Nat /\ s \in [1 .. Len(s) -> ToSet(s)] /\ \A x \in ToSet(s) : \E i \in 1 .. Len(s) : s[i] = x
  BY ToSetSeq, LenProperties
<1>2. s \in Bijection(1 .. Len(s), ToSet(s))
  BY <1>1 DEF Bijection, Injection, Surjection, IsInjective
<1>3. ExistsBijection(1 .. Len(s), ToSet(s))
  BY <1>2 DEF ExistsBijection
<1>4. IsFiniteSet(1 .. Len(s)) /\ Cardinality(1 .. Len(s)) = Len(s)
  <2>1. ASSUME NEW n \in Nat
        PROVE  IsFiniteSet(1 .. n) /\ Cardinality(1 .. n) = n
    BY FS_Interval
  <2> QED BY <1>1, <2>1
<1> QED BY <1>3, <1>4, FS_Bijection

\* The requests in batches, one pair for each.
Pairs == {p \in Flusher \X Req : p[2] \in batch[p[1]]}

\* As no two flushers hold the same request, there are as many pairs as requests.
LEMMA PairsCount ==
  ASSUME TypeOK, Disjoint
  PROVE  IsFiniteSet(Batched) /\ Cardinality(Pairs) = Cardinality(Batched)
<1> DEFINE second == [p \in Pairs |-> p[2]]
<1>1. Batched \subseteq Req
  BY DEF TypeOK, Batched
<1>2. IsFiniteSet(Batched)
  BY <1>1, FS_Subset, TaskSubmitterAssumption
<1>3. \A p \in Pairs : p = <<p[1], p[2]>> /\ p[1] \in Flusher /\ p[2] \in batch[p[1]]
  BY DEF Pairs
<1>4. second \in [Pairs -> Batched]
  BY <1>3 DEF Batched
<1>5. \A p, q \in Pairs : second[p] = second[q] => p = q
  <2> SUFFICES ASSUME NEW p \in Pairs, NEW q \in Pairs, p[2] = q[2] PROVE p = q
    OBVIOUS
  <2>1. p[1] = q[1]
    BY <1>3 DEF Disjoint
  <2> QED BY <1>3, <2>1
<1>6. \A r \in Batched : \E p \in Pairs : second[p] = r
  <2> SUFFICES ASSUME NEW r \in Batched PROVE \E p \in Pairs : p[2] = r
    OBVIOUS
  <2>1. PICK f \in Flusher : r \in batch[f]
    BY DEF Batched
  <2>2. <<f, r>> \in Pairs
    BY <1>1, <2>1 DEF Pairs
  <2> QED BY <2>2
<1> HIDE DEF second
<1>7. second \in Bijection(Pairs, Batched)
  BY <1>4, <1>5, <1>6 DEF Bijection, Injection, Surjection, IsInjective
<1>8. IsFiniteSet(Pairs) /\ Cardinality(Pairs) = Cardinality(Batched)
  BY <1>2, <1>7, FS_Injection DEF Bijection
<1> QED BY <1>2, <1>8

\* Two sets that have nothing in common count separately.
LEMMA DisjointUnion ==
  ASSUME NEW A, NEW B, IsFiniteSet(A), IsFiniteSet(B), A \cap B = {}
  PROVE  /\ IsFiniteSet(A \cup B)
         /\ Cardinality(A \cup B) = Cardinality(A) + Cardinality(B)
<1>1. Cardinality(A \cap B) = 0
  BY FS_EmptySet
<1>2. Cardinality(A) \in Nat /\ Cardinality(B) \in Nat
  BY FS_CardinalityType
<1>3. /\ IsFiniteSet(A \cup B)
      /\ Cardinality(A \cup B) = Cardinality(A) + Cardinality(B) - Cardinality(A \cap B)
  BY FS_Union
<1> QED BY <1>1, <1>2, <1>3

\* Nothing in two places, so the counts of the places add up.
LEMMA IInvInOnePlace == IInv => InOnePlace
<1> SUFFICES ASSUME IInv PROVE InOnePlace
  OBVIOUS
<1>1. IsFiniteSet(ToSet(queue)) /\ Cardinality(ToSet(queue)) = Len(queue)
  BY UniqueLength DEF IInv, TypeOK, QueueUnique
<1>2. IsFiniteSet(Batched) /\ Cardinality(Pairs) = Cardinality(Batched)
  BY PairsCount DEF IInv
<1>3. IsFiniteSet(published) /\ IsFiniteSet(failed)
  BY FS_Subset, TaskSubmitterAssumption DEF IInv, TypeOK
<1> DEFINE a == ToSet(queue) \cup Batched
           b == a \cup published
<1>4. ToSet(queue) \cap Batched = {} /\ a \cap published = {} /\ b \cap failed = {}
  BY DEF IInv, Disjoint, Batched
<1>5. IsFiniteSet(a) /\ Cardinality(a) = Cardinality(ToSet(queue)) + Cardinality(Batched)
  BY <1>1, <1>2, <1>4, DisjointUnion
<1>6. IsFiniteSet(b) /\ Cardinality(b) = Cardinality(a) + Cardinality(published)
  <2> HIDE DEF a
  <2> QED BY <1>3, <1>4, <1>5, DisjointUnion
<1>7. Cardinality(b \cup failed) = Cardinality(b) + Cardinality(failed)
  <2> HIDE DEF b
  <2> QED BY <1>3, <1>4, <1>6, DisjointUnion
<1>8. accepted = b \cup failed
  BY DEF IInv, Everywhere
<1>9. /\ Cardinality(ToSet(queue)) \in Nat /\ Cardinality(Batched) \in Nat
      /\ Cardinality(published) \in Nat /\ Cardinality(failed) \in Nat
  BY <1>1, <1>2, <1>3, FS_CardinalityType
<1>10. Cardinality(accepted) = Len(queue) + Cardinality(published) + Cardinality(failed)
                                 + Cardinality(Pairs)
  <2> HIDE DEF a, b
  <2> QED BY <1>1, <1>2, <1>5, <1>6, <1>7, <1>8, <1>9
<1> QED BY <1>10 DEF IInv, Everywhere, InOnePlace, Pairs

-----------------------------------------------------------------------------
LEMMA InitIInv == Init => IInv
<1> SUFFICES ASSUME Init PROVE IInv
  OBVIOUS
<1>1. /\ queue = <<>> /\ queue \in Seq(Req) /\ Len(queue) = 0 /\ ToSet(queue) = {}
      /\ \A f \in Flusher : batch[f] = {} /\ pc[f] = "test"
  BY DEF Init, ToSet
<1>2. TypeOK
  <2>1. queue \in Seq(Req) /\ Len(queue) <= MaxQueue
    BY <1>1, TaskSubmitterAssumption
  <2>2. pc \in [Flusher -> {"test"}] /\ batch \in [Flusher -> {{}}] /\ faults \in 0 .. MaxFaults
    BY TaskSubmitterAssumption DEF Init
  <2>3. /\ pc \in [Flusher -> {"test", "wait", "tx", "publish", "returned"}]
        /\ batch \in [Flusher -> SUBSET Req]
    BY <2>2
  <2>4. /\ serving \in BOOLEAN /\ running \in BOOLEAN /\ joined \in BOOLEAN
        /\ db = {} /\ published = {} /\ partial = {}
        /\ accepted = {} /\ refused = {} /\ failed = {}
    BY DEF Init
  <2> QED BY <2>1, <2>2, <2>3, <2>4 DEF TypeOK
<1>3. BatchLife /\ QueueUnique /\ Disjoint /\ Everywhere
  BY <1>1 DEF Init, BatchLife, QueueUnique, Disjoint, Everywhere, Batched
<1>4. KeysUnique /\ CommitThenPublish
  BY DEF Init, KeysUnique, CommitThenPublish
<1> QED BY <1>2, <1>3, <1>4 DEF IInv

\* A request that is accepted is new, and goes to the end of the queue.
LEMMA SubmitStep ==
  ASSUME IInv, NEW r \in Req, Submit(r)
  PROVE  IInv'
<1>1. /\ r \notin accepted
      /\ queue' = Append(queue, r) /\ accepted' = accepted \cup {r} /\ faults' = faults
      /\ UNCHANGED <<serving, running, joined, pc, batch, db, published, partial, refused, failed>>
      /\ Len(queue) < MaxQueue /\ queue \in Seq(Req) /\ Len(queue) \in Nat
  BY LenProperties DEF Submit, HasRoom, Fine, IInv, TypeOK
<1>2. /\ queue' \in Seq(Req) /\ Len(queue') = Len(queue) + 1
      /\ \A i \in 1 .. Len(queue) : queue'[i] = queue[i]
      /\ queue'[Len(queue) + 1] = r
  BY <1>1, AppendProperties
<1>3. ToSet(queue) = {queue[i] : i \in 1 .. Len(queue)}
  BY <1>1, ToSetSeq
<1>4. 1 .. Len(queue') = (1 .. Len(queue)) \cup {Len(queue) + 1}
  BY <1>1, <1>2
<1>5. ToSet(queue') = ToSet(queue) \cup {r}
  <2>1. ToSet(queue') = {queue'[i] : i \in 1 .. Len(queue')}
    BY <1>2, ToSetSeq
  <2>2. ToSet(queue') = {queue'[i] : i \in 1 .. Len(queue)} \cup {queue'[Len(queue) + 1]}
    BY <1>4, <2>1, Zenon
  <2>3. {queue'[i] : i \in 1 .. Len(queue)} = {queue[i] : i \in 1 .. Len(queue)}
    BY <1>2
  <2> QED BY <1>2, <1>3, <2>2, <2>3
<1>6. r \notin ToSet(queue) \cup Batched \cup published \cup failed
  BY <1>1 DEF IInv, Everywhere
<1>7. TypeOK'
  BY <1>1, <1>2, TaskSubmitterAssumption DEF IInv, TypeOK
<1>8. QueueUnique'
  <2>1. \A i \in 1 .. Len(queue) : queue'[i] # r
    BY <1>2, <1>3, <1>6
  <2>2. \A i, j \in 1 .. Len(queue) : queue'[i] = queue'[j] => i = j
    BY <1>2 DEF IInv, QueueUnique
  <2> QED BY <1>2, <1>4, <2>1, <2>2, Zenon DEF QueueUnique
<1>9. Disjoint'
  BY <1>1, <1>5, <1>6 DEF IInv, Disjoint, Batched
<1>10. Everywhere'
  BY <1>1, <1>5 DEF IInv, Everywhere, Batched
<1>11. BatchLife' /\ KeysUnique' /\ CommitThenPublish'
  BY <1>1 DEF IInv, BatchLife, KeysUnique, CommitThenPublish
<1> QED BY <1>7, <1>8, <1>9, <1>10, <1>11 DEF IInv

\* The swap moves the whole queue into the batch of one flusher, which is empty.
LEMMA SwapStep ==
  ASSUME IInv, NEW f \in Flusher, Swap(f)
  PROVE  IInv'
<1>1. /\ batch' = [batch EXCEPT ![f] = ToSet(queue)] /\ pc' = [pc EXCEPT ![f] = "tx"]
      /\ queue' = <<>> /\ pc[f] = "wait" /\ faults' = faults
      /\ UNCHANGED <<serving, running, joined, db, published, partial, accepted, refused, failed>>
  BY DEF Swap, Emptied, Goto, Fine
<1>2. ToSet(queue) \subseteq Req /\ batch[f] = {}
  BY <1>1, ToSetSeq DEF IInv, TypeOK, BatchLife
<1>3. queue' \in Seq(Req) /\ Len(queue') = 0 /\ ToSet(queue') = {}
  BY <1>1 DEF ToSet
<1>4. \A g \in Flusher : /\ batch'[g] = IF g = f THEN ToSet(queue) ELSE batch[g]
                         /\ pc'[g] = IF g = f THEN "tx" ELSE pc[g]
  BY <1>1 DEF IInv, TypeOK
<1>5. TypeOK'
  <2>1. /\ batch' \in [Flusher -> SUBSET Req]
        /\ pc' \in [Flusher -> {"test", "wait", "tx", "publish", "returned"}]
    BY <1>1, <1>2 DEF IInv, TypeOK
  <2>2. queue' \in Seq(Req) /\ Len(queue') <= MaxQueue
    BY <1>3, TaskSubmitterAssumption
  <2> QED BY <1>1, <2>1, <2>2 DEF IInv, TypeOK
<1>6. BatchLife' /\ QueueUnique'
  BY <1>1, <1>3, <1>4 DEF IInv, BatchLife, QueueUnique
<1>7. Disjoint'
  BY <1>1, <1>3, <1>4 DEF IInv, Disjoint
<1>8. Everywhere'
  <2>1. Batched' = Batched \cup ToSet(queue)
    BY <1>2, <1>4 DEF Batched
  <2> QED BY <1>1, <1>3, <2>1 DEF IInv, Everywhere
<1>9. KeysUnique' /\ CommitThenPublish'
  BY <1>1 DEF IInv, KeysUnique, CommitThenPublish
<1> QED BY <1>5, <1>6, <1>7, <1>8, <1>9 DEF IInv

\* What a transaction that is not refused does to the table.
LEMMA CommittedKeys ==
  ASSUME IInv, NEW f \in Flusher, ~Rejects(batch[f]), db' = db \cup batch[f]
  PROVE  KeysUnique' /\ db' \subseteq Req
<1>1. batch[f] \subseteq Req /\ db \subseteq Req
  BY DEF IInv, TypeOK
<1>2. \A r \in batch[f], q \in batch[f] \cup db : q = r \/ Key(q) # Key(r)
  BY DEF Rejects
<1>3. \A q, r \in db : Key(q) = Key(r) => q = r
  BY DEF IInv, KeysUnique
<1> QED BY <1>1, <1>2, <1>3 DEF KeysUnique

LEMMA CommitStep ==
  ASSUME IInv, NEW f \in Flusher, Commit(f)
  PROVE  IInv'
<1>1. /\ ~Rejects(batch[f]) /\ db' = db \cup batch[f] /\ pc' = [pc EXCEPT ![f] = "publish"]
      /\ pc[f] = "tx" /\ faults' = faults
      /\ UNCHANGED <<serving, running, joined, queue, batch, published, partial,
                     accepted, refused, failed>>
  BY DEF Commit, Goto, Fine
<1>2. KeysUnique' /\ db' \subseteq Req
  BY <1>1, CommittedKeys
<1>3. \A g \in Flusher : pc'[g] = IF g = f THEN "publish" ELSE pc[g]
  BY <1>1 DEF IInv, TypeOK
<1>4. TypeOK'
  BY <1>1, <1>2 DEF IInv, TypeOK
<1>5. BatchLife'
  BY <1>1, <1>3 DEF IInv, BatchLife
<1>6. QueueUnique' /\ Disjoint' /\ Everywhere'
  BY <1>1 DEF IInv, QueueUnique, Disjoint, Everywhere, Batched
<1>7. CommitThenPublish'
  BY <1>1 DEF IInv, CommitThenPublish
<1> QED BY <1>2, <1>4, <1>5, <1>6, <1>7 DEF IInv

\* A flusher that is through with its batch has moved each request to exactly
\* one of published and failed, and those that it published are in the table.
LEMMA BatchEnds ==
  ASSUME IInv, NEW f \in Flusher, NEW P \in SUBSET batch[f],
         batch' = [batch EXCEPT ![f] = {}], pc' = [pc EXCEPT ![f] = "test"],
         published' = published \cup P, failed' = failed \cup (batch[f] \ P),
         db \subseteq db', db' \subseteq Req, KeysUnique',
         partial' \subseteq Req, published' \cup partial' \subseteq db',
         faults' \in 0 .. MaxFaults,
         UNCHANGED <<serving, running, joined, queue, accepted, refused>>
  PROVE  IInv'
<1>1. \A g \in Flusher : /\ batch'[g] = IF g = f THEN {} ELSE batch[g]
                         /\ pc'[g] = IF g = f THEN "test" ELSE pc[g]
  BY DEF IInv, TypeOK
<1>2. batch[f] \subseteq Req
  BY DEF IInv, TypeOK
<1>3. TypeOK'
  <2>1. /\ batch' \in [Flusher -> SUBSET Req]
        /\ pc' \in [Flusher -> {"test", "wait", "tx", "publish", "returned"}]
    BY DEF IInv, TypeOK
  <2>2. published' \subseteq Req /\ failed' \subseteq Req
    BY <1>2 DEF IInv, TypeOK
  <2> QED BY <2>1, <2>2 DEF IInv, TypeOK
<1>4. BatchLife'
  BY <1>1 DEF IInv, BatchLife
<1>5. Disjoint'
  BY <1>1 DEF IInv, Disjoint
<1>6. Everywhere'
  <2>1. Batched = Batched' \cup batch[f]
    BY <1>1 DEF Batched
  <2>2. P \cup (batch[f] \ P) = batch[f]
    OBVIOUS
  <2> QED BY <2>1, <2>2 DEF IInv, Everywhere
<1>7. QueueUnique' /\ CommitThenPublish'
  BY DEF IInv, QueueUnique, CommitThenPublish
<1> QED BY <1>3, <1>4, <1>5, <1>6, <1>7 DEF IInv

LEMMA CommitFailsStep ==
  ASSUME IInv, NEW f \in Flusher, CommitFails(f)
  PROVE  IInv'
<1>1. /\ batch' = [batch EXCEPT ![f] = {}] /\ pc' = [pc EXCEPT ![f] = "test"]
      /\ failed' = failed \cup batch[f]
      /\ UNCHANGED <<serving, running, joined, queue, published, partial, accepted, refused>>
  BY DEF CommitFails, AfterFailure, Goto
<1>2. faults' \in 0 .. MaxFaults
  BY TaskSubmitterAssumption DEF CommitFails, Fault, Fine, IInv, TypeOK
<1>3. db \subseteq db' /\ db' \subseteq Req /\ KeysUnique'
  <2>1. CASE UNCHANGED db
    BY <2>1 DEF IInv, TypeOK, KeysUnique
  <2>2. CASE ~Rejects(batch[f]) /\ db' = db \cup batch[f]
    BY <2>2, CommittedKeys
  <2> QED BY <2>1, <2>2 DEF CommitFails
<1>4. partial' \subseteq Req /\ published' \cup partial' \subseteq db'
  BY <1>1, <1>3 DEF IInv, TypeOK, CommitThenPublish
<1>5. /\ {} \in SUBSET batch[f]
      /\ published' = published \cup {} /\ failed' = failed \cup (batch[f] \ {})
  BY <1>1
<1> QED BY <1>1, <1>2, <1>3, <1>4, <1>5, BatchEnds

LEMMA PublishStep ==
  ASSUME IInv, NEW f \in Flusher, Publish(f)
  PROVE  IInv'
<1>1. /\ batch' = [batch EXCEPT ![f] = {}] /\ pc' = [pc EXCEPT ![f] = "test"]
      /\ published' = published \cup batch[f] /\ pc[f] = "publish" /\ faults' = faults
      /\ UNCHANGED <<serving, running, joined, queue, db, partial, accepted, refused, failed>>
  BY DEF Publish, Goto, Fine
<1>2. batch[f] \in SUBSET batch[f] /\ failed' = failed \cup (batch[f] \ batch[f])
  BY <1>1
<1>3. /\ db \subseteq db' /\ db' \subseteq Req /\ KeysUnique'
      /\ partial' \subseteq Req /\ published' \cup partial' \subseteq db'
      /\ faults' \in 0 .. MaxFaults
  BY <1>1 DEF IInv, TypeOK, BatchLife, KeysUnique, CommitThenPublish
<1> QED BY <1>1, <1>2, <1>3, BatchEnds

\* A pipeline that breaks has reached Redis with some requests of the batch, all
\* of which are in the table.
LEMMA PublishFailsStep ==
  ASSUME IInv, NEW f \in Flusher, PublishFails(f)
  PROVE  IInv'
<1>1. /\ batch' = [batch EXCEPT ![f] = {}] /\ pc' = [pc EXCEPT ![f] = "test"]
      /\ pc[f] = "publish" /\ failed' = failed \cup batch[f]
      /\ UNCHANGED <<serving, running, joined, queue, db, published, accepted, refused>>
  BY DEF PublishFails, AfterFailure, Goto
<1>2. PICK reached \in SUBSET batch[f] : partial' = partial \cup reached
  BY DEF PublishFails
<1>3. faults' \in 0 .. MaxFaults
  BY TaskSubmitterAssumption DEF PublishFails, Fault, IInv, TypeOK
<1>4. batch[f] \subseteq db /\ db \subseteq Req /\ published \cup partial \subseteq db
  BY <1>1 DEF IInv, TypeOK, BatchLife, CommitThenPublish
<1>5. partial' \subseteq Req /\ published' \cup partial' \subseteq db'
  BY <1>1, <1>2, <1>4
<1>6. db \subseteq db' /\ db' \subseteq Req /\ KeysUnique'
  BY <1>1 DEF IInv, TypeOK, KeysUnique
<1>7. /\ {} \in SUBSET batch[f]
      /\ published' = published \cup {} /\ failed' = failed \cup (batch[f] \ {})
  BY <1>1
<1> QED BY <1>1, <1>3, <1>5, <1>6, <1>7, BatchEnds

LEMMA NextIInv == IInv /\ [Next]_vars => IInv'
<1> SUFFICES ASSUME IInv, [Next]_vars PROVE IInv'
  OBVIOUS
<1>1. ASSUME NEW r \in Req, Submit(r)
      PROVE  IInv'
  BY <1>1, SubmitStep
<1>2. ASSUME NEW f \in Flusher, Swap(f) \/ Commit(f) \/ CommitFails(f) \/ Publish(f) \/ PublishFails(f)
      PROVE  IInv'
  BY <1>2, SwapStep, CommitStep, CommitFailsStep, PublishStep, PublishFailsStep
<1>3. ASSUME UNCHANGED <<queue, batch, db, published, partial, accepted, failed>>, TypeOK', BatchLife'
      PROVE  IInv'
  BY <1>3 DEF IInv, QueueUnique, Disjoint, Everywhere, Batched, KeysUnique, CommitThenPublish
<1>4. ASSUME NEW r \in Req, Refuse(r)
      PROVE  IInv'
  BY <1>3, <1>4 DEF Refuse, Fine, IInv, TypeOK, BatchLife
<1>5. ASSUME NEW f \in Flusher, Test(f) \/ Return(f) \/ NothingYet(f)
      PROVE  IInv'
  <2>1. UNCHANGED <<queue, batch, db, published, partial, accepted, failed>>
    BY <1>5 DEF Test, Return, NothingYet
  <2>2. \E l \in {"test", "wait", "returned"} : pc' = [pc EXCEPT ![f] = l]
    BY <1>5 DEF Test, Return, NothingYet, Goto
  <2>3. pc[f] \in {"test", "wait"}
    BY <1>5 DEF Test, Return, NothingYet
  <2>4. TypeOK'
    BY <1>5, <2>2 DEF Test, Return, NothingYet, Fine, IInv, TypeOK
  <2>5. BatchLife'
    BY <2>1, <2>2, <2>3 DEF IInv, TypeOK, BatchLife
  <2> QED BY <1>3, <2>1, <2>4, <2>5
<1>6. CASE ServerShutdown
  BY <1>3, <1>6 DEF ServerShutdown, Fine, IInv, TypeOK, BatchLife
<1>7. CASE ClearRunning
  BY <1>3, <1>7 DEF ClearRunning, Fine, IInv, TypeOK, BatchLife
<1>8. CASE Join
  BY <1>3, <1>8 DEF Join, Fine, IInv, TypeOK, BatchLife
<1>9. CASE UNCHANGED vars
  BY <1>3, <1>9 DEF vars, IInv, TypeOK, BatchLife
<1> QED BY <1>1, <1>2, <1>4, <1>5, <1>6, <1>7, <1>8, <1>9 DEF Next, Loop

LEMMA Invariance == Spec => []IInv
BY InitIInv, NextIInv, PTL DEF Spec

-----------------------------------------------------------------------------
\* However flushers race for the queue and fail, a request that was answered
\* with a job id is queued, in the batch of one flusher, published or reported
\* as failed, and never two of these.
THEOREM RequestsInOnePlace == Spec => []InOnePlace
BY Invariance, IInvInOnePlace, PTL

\* Redis never has a command of a request that PostgreSQL does not have.
THEOREM CommittedFirst == Spec => []CommitThenPublish
<1>1. IInv => CommitThenPublish
  BY DEF IInv
<1> QED BY <1>1, Invariance, PTL

\* Of the submissions with one idempotency key at most one gets to Redis.
THEOREM OnePerKey == Spec => []PublishedOnce
<1>1. IInv => PublishedOnce
  BY DEF IInv, KeysUnique, CommitThenPublish, PublishedOnce
<1> QED BY <1>1, Invariance, PTL
==============================================================================
