--------------------------- MODULE QueueOpsProofs ---------------------------
(***************************************************************************)
(* What the operators of QueueOps return, for every queue value.  The      *)
(* proofs about the modules that use a queue cite these lemmas and never   *)
(* expand the operators.                                                   *)
(***************************************************************************)
EXTENDS QueueOps, FiniteSetTheorems, TLAPS

\* A time or a duration in milliseconds.  (The lemmas state it by a name so that
\* citing them is a matter of matching terms, not of arithmetic.)
IsMs(t) == t \in Nat

\* QueueEnqueue adds one item, under an id that was never in use, and leaves
\* the others alone (queue.go:38-54).
LEMMA EnqueueLemma ==
    ASSUME NEW Payload, NEW q, IsQueue(q, Payload), NEW p \in Payload,
           NEW now, IsMs(now)
    PROVE  LET r == Enqueue(q, p, now) IN
             /\ IsQueue(r, Payload)
             /\ r.seq = q.seq + 1
             /\ q.seq + 1 \notin Ids(q)
             /\ Ids(r) = Ids(q) \cup {q.seq + 1}
             /\ r.items[q.seq + 1] = Item(p, 0, now, 0)
             /\ \A i \in Ids(q) : r.items[i] = q.items[i]
<1> DEFINE r == Enqueue(q, p, now)
           id == q.seq + 1
           f  == [i \in Ids(q) \cup {id} |-> IF i = id THEN Item(p, 0, now, 0) ELSE q.items[i]]
<1>1. /\ r = [seq |-> id, items |-> f]
      /\ r.seq = id
      /\ r.items = f
      /\ Ids(r) = Ids(q) \cup {id}
  BY DEF Enqueue, Ids
<1>2. id \notin Ids(q)
  BY DEF IsQueue
<1>3. Item(p, 0, now, 0) \in ItemType(Payload)
  BY DEF Item, ItemType, IsMs
<1>4. f \in [Ids(q) \cup {id} -> ItemType(Payload)]
  BY <1>3 DEF IsQueue
<1>5. Ids(q) \cup {id} \subseteq 1 .. id /\ id \in Nat
  BY DEF IsQueue
<1>6. IsQueue(r, Payload)
  BY <1>1, <1>4, <1>5 DEF IsQueue
<1>7. /\ r.items[id] = Item(p, 0, now, 0)
      /\ \A i \in Ids(q) : r.items[i] = q.items[i]
  BY <1>1, <1>2
<1> QED
  BY <1>1, <1>2, <1>6, <1>7

\* The items a lease takes are due (queue.go:75).
LEMMA LeasableLemma ==
    ASSUME NEW q, NEW max, NEW now, NEW i \in Leasable(q, max, now)
    PROVE  i \in Ids(q) /\ q.items[i].notBefore <= now /\ q.items[i].leaseUntil <= now
  BY DEF Leasable, Due

\* QueueLease leaves a queue with the same ids, each with an item
\* (queue.go:69-90).
LEMMA LeaseTypeLemma ==
    ASSUME NEW Payload, NEW q, IsQueue(q, Payload), NEW max,
           NEW leaseMs, IsMs(leaseMs), NEW now, IsMs(now)
    PROVE  /\ IsQueue(Lease(q, max, leaseMs, now), Payload)
           /\ Lease(q, max, leaseMs, now).seq = q.seq
           /\ Ids(Lease(q, max, leaseMs, now)) = Ids(q)
<1> DEFINE L == Leasable(q, max, now)
           f == [i \in Ids(q) |-> IF i \in L THEN LeaseTo(q.items[i], now + leaseMs) ELSE q.items[i]]
<1>1. Lease(q, max, leaseMs, now) = [seq |-> q.seq, items |-> f]
  BY DEF Lease
<1>2. \A i \in Ids(q) : LeaseTo(q.items[i], now + leaseMs) \in ItemType(Payload)
  BY DEF IsQueue, LeaseTo, ItemType, IsMs
<1>3. f \in [Ids(q) -> ItemType(Payload)] /\ DOMAIN f = Ids(q)
  BY <1>2 DEF IsQueue
<1> HIDE DEF f
<1> QED
  BY <1>1, <1>3 DEF IsQueue, Ids

\* QueueLease changes nothing but the lease of the items it takes
\* (queue.go:75-84).
LEMMA LeaseItemsLemma ==
    ASSUME NEW q, NEW max, NEW leaseMs, NEW now, NEW i \in Ids(q)
    PROVE  Lease(q, max, leaseMs, now).items[i] =
             IF i \in Leasable(q, max, now) THEN LeaseTo(q.items[i], now + leaseMs)
                                            ELSE q.items[i]
  BY DEF Lease

\* The copies QueueLease returns are those it leaves in the bucket
\* (queue.go:78-86).
LEMMA LeaseResultLemma ==
    ASSUME NEW Payload, NEW q, IsQueue(q, Payload), NEW max,
           NEW leaseMs, IsMs(leaseMs), NEW now, IsMs(now)
    PROVE  /\ Leasable(q, max, now) \subseteq Ids(q)
           /\ DOMAIN LeaseResult(q, max, leaseMs, now) = Leasable(q, max, now)
           /\ LeaseResult(q, max, leaseMs, now) \in
                [Leasable(q, max, now) -> ItemType(Payload)]
<1> DEFINE L == Leasable(q, max, now)
<1>1. L \subseteq Ids(q)
  BY DEF Leasable, Due
<1>2. \A i \in Ids(q) : LeaseTo(q.items[i], now + leaseMs) \in ItemType(Payload)
  BY DEF IsQueue, LeaseTo, ItemType, IsMs
<1> HIDE DEF L
<1> QED
  BY <1>1, <1>2 DEF LeaseResult, L

\* (The copies, one by one.)
LEMMA LeaseCopiesLemma ==
    ASSUME NEW q, NEW max, NEW leaseMs, NEW now, NEW i \in Leasable(q, max, now)
    PROVE  LeaseResult(q, max, leaseMs, now)[i] = LeaseTo(q.items[i], now + leaseMs)
  BY DEF LeaseResult

\* The fields of a leased item.
LEMMA LeaseToLemma ==
    ASSUME NEW Payload, NEW item \in ItemType(Payload), NEW until \in Nat
    PROVE  /\ LeaseTo(item, until).payload = item.payload
           /\ LeaseTo(item, until).attempts = item.attempts
           /\ LeaseTo(item, until).notBefore = item.notBefore
           /\ LeaseTo(item, until).leaseUntil = until
  BY DEF LeaseTo, ItemType

\* QueueAck, and the QueueNack of a last attempt, delete one item
\* (queue.go:104 and 133).
LEMMA RemoveLemma ==
    ASSUME NEW Payload, NEW q, IsQueue(q, Payload), NEW id
    PROVE  LET r == Remove(q, id) IN
             /\ IsQueue(r, Payload)
             /\ r.seq = q.seq
             /\ Ids(r) = Ids(q) \ {id}
             /\ \A i \in Ids(r) : r.items[i] = q.items[i]
<1> DEFINE r == Remove(q, id)
           f == [i \in Ids(q) \ {id} |-> q.items[i]]
<1>1. /\ r = [seq |-> q.seq, items |-> f]
      /\ r.seq = q.seq
      /\ r.items = f
      /\ Ids(r) = Ids(q) \ {id}
  BY DEF Remove, Ids
<1>2. f \in [Ids(q) \ {id} -> ItemType(Payload)]
  BY DEF IsQueue
<1> QED
  BY <1>1, <1>2 DEF IsQueue

\* QueueNack of an attempt that is not the last keeps the item, counts the
\* attempt, clears the lease and sets the backoff (queue.go:130-142).
LEMMA NackLemma ==
    ASSUME NEW Payload, NEW q, IsQueue(q, Payload), NEW id \in Ids(q),
           NEW backoffMs, IsMs(backoffMs), NEW now, IsMs(now), NEW maxAttempts,
           ~Exhausted(q.items[id].attempts + 1, maxAttempts)
    PROVE  LET r == Nack(q, id, backoffMs, now, maxAttempts) IN
             /\ IsQueue(r, Payload)
             /\ r.seq = q.seq
             /\ Ids(r) = Ids(q)
             /\ r.items[id] = Item(q.items[id].payload, q.items[id].attempts + 1,
                                   now + backoffMs, 0)
             /\ \A i \in Ids(q) \ {id} : r.items[i] = q.items[i]
<1> DEFINE r == Nack(q, id, backoffMs, now, maxAttempts)
           v == Item(q.items[id].payload, q.items[id].attempts + 1, now + backoffMs, 0)
           f == [q.items EXCEPT ![id] = v]
<1>1. r = [seq |-> q.seq, items |-> f]
  BY DEF Nack
<1>2. v \in ItemType(Payload)
  BY DEF IsQueue, Item, ItemType, IsMs
<1>3. f \in [Ids(q) -> ItemType(Payload)] /\ DOMAIN f = Ids(q)
  BY <1>2 DEF IsQueue, Ids
<1>4. f[id] = v /\ \A i \in Ids(q) \ {id} : f[i] = q.items[i]
  BY DEF IsQueue, Ids
<1> HIDE DEF v, f
<1>5. r.seq = q.seq /\ r.items = f /\ Ids(r) = Ids(q)
  BY <1>1, <1>3 DEF Ids
<1>6. IsQueue(r, Payload)
  BY <1>1, <1>3, <1>5 DEF IsQueue
<1> QED
  BY <1>4, <1>5, <1>6 DEF v

\* A nack of an item that is gone, or of a last attempt (queue.go:122-133).
LEMMA NackGoneLemma ==
    ASSUME NEW q, NEW id, NEW backoffMs, NEW now, NEW maxAttempts
    PROVE  /\ id \notin Ids(q) => Nack(q, id, backoffMs, now, maxAttempts) = q
           /\ (id \in Ids(q) /\ Exhausted(q.items[id].attempts + 1, maxAttempts))
                => Nack(q, id, backoffMs, now, maxAttempts) = Remove(q, id)
  BY DEF Nack

\* Leases are in the order of the ids: an item that is due is taken before the
\* items behind it (queue.go:70).
LEMMA LeaseOrderLemma ==
    ASSUME NEW Payload, NEW q, IsQueue(q, Payload), NEW max \in Nat, NEW now \in Nat,
           NEW j \in Leasable(q, max, now), NEW i \in Due(q, now), i < j
    PROVE  i \in Leasable(q, max, now)
<1> DEFINE D    == Due(q, now)
           A(n) == {k \in D : k < n}
<1>1. IsFiniteSet(D) /\ D \subseteq Nat
  <2>1. D \subseteq 1 .. q.seq /\ 1 .. q.seq \subseteq Nat
    BY DEF Due, IsQueue
  <2>2. IsFiniteSet(1 .. q.seq)
    <3>1. q.seq \in Int /\ 1 \in Int
      BY DEF IsQueue
    <3> QED
      BY <3>1, FS_Interval, Zenon
  <2> QED
    BY <2>1, <2>2, FS_Subset
<1>2. i \in D /\ j \in D /\ i \in Nat /\ j \in Nat
  BY <1>1 DEF Leasable
<1>3. IsFiniteSet(A(j)) /\ A(i) \subseteq A(j)
  <2>1. A(j) \subseteq D
    OBVIOUS
  <2>2. A(i) \subseteq A(j)
    BY <1>1, <1>2
  <2> QED
    BY <1>1, <2>1, <2>2, FS_Subset
<1>4. /\ Cardinality(A(i)) \in Nat
      /\ Cardinality(A(j)) \in Nat
      /\ Cardinality(A(i)) <= Cardinality(A(j))
  BY <1>3, FS_Subset, FS_CardinalityType
<1>5. Cardinality(A(j)) < max
  BY DEF Leasable
<1> QED
  BY <1>2, <1>4, <1>5 DEF Leasable
=============================================================================
