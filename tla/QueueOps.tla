------------------------------ MODULE QueueOps ------------------------------
(***************************************************************************)
(* The durable queue of internal/store/queue.go as operators on a value.   *)
(* Each exported method of the store runs in one bbolt Update transaction, *)
(* so each is one function from the queue to the queue.                    *)
(*                                                                         *)
(* A queue is the bucket "queues/<name>": its persisted sequence counter   *)
(* (bbolt NextSequence) and its items, keyed by id.  bbolt iterates keys   *)
(* in byte order and seqKey is big-endian, hence in the order of the ids.  *)
(* An item that cannot be unmarshalled is never written by this code and   *)
(* is left out.                                                            *)
(***************************************************************************)
EXTENDS Naturals, FiniteSets

EmptyQueue == [seq |-> 0, items |-> [i \in {} |-> 0]]

Ids(q) == DOMAIN q.items

Item(payload, attempts, notBefore, leaseUntil) ==
    [payload    |-> payload,    attempts   |-> attempts,
     notBefore  |-> notBefore,  leaseUntil |-> leaseUntil]

\* The set of the items that QueueEnqueue, QueueLease and QueueNack write.
ItemType(Payload) ==
    [payload : Payload, attempts : Nat, notBefore : Nat, leaseUntil : Nat]

\* A queue value: the ids in use were all given by the sequence.
IsQueue(q, Payload) ==
    /\ q = [seq |-> q.seq, items |-> q.items]
    /\ q.seq \in Nat
    /\ Ids(q) \subseteq 1 .. q.seq
    /\ q.items \in [Ids(q) -> ItemType(Payload)]

Remove(q, id) ==
    [seq |-> q.seq, items |-> [i \in Ids(q) \ {id} |-> q.items[i]]]

---------------------------------------------------------------------------
\* A bug that derives the next id from the keys present would hand the id of
\* a deleted last item out again.
EnqueueReusingIds(q, payload, now) ==
    LET id == CHOOSE n \in 1 .. Cardinality(Ids(q)) + 1 : n \notin Ids(q)
    IN  [seq   |-> IF id > q.seq THEN id ELSE q.seq,
         items |-> [i \in Ids(q) \cup {id} |->
                      IF i = id THEN Item(payload, 0, now, 0) ELSE q.items[i]]]

\* QueueEnqueue: the id is the next value of the bucket's sequence.
Enqueue(q, payload, now) ==
    LET id == q.seq + 1
    IN  [seq   |-> id,
         items |-> [i \in Ids(q) \cup {id} |->
                      IF i = id THEN Item(payload, 0, now, 0) ELSE q.items[i]]]

---------------------------------------------------------------------------
\* The items a lease may take: past their backoff and not invisible.
DueIgnoringLease(q, now) == {i \in Ids(q) : q.items[i].notBefore <= now}

\* A consumer that only looked for leaseUntil = 0 would never see the items of
\* a consumer that died.
DueUnleasedOnly(q, now) ==
    {i \in Ids(q) : q.items[i].notBefore <= now /\ q.items[i].leaseUntil = 0}

Due(q, now) ==
    {i \in Ids(q) : q.items[i].notBefore <= now /\ q.items[i].leaseUntil <= now}

\* A cursor that ran from the last key would take the newest items first.
LeasableNewestFirst(q, max, now) ==
    {i \in Due(q, now) : Cardinality({j \in Due(q, now) : j > i}) < max}

\* QueueLease walks the keys in order and stops after max items.
Leasable(q, max, now) ==
    {i \in Due(q, now) : Cardinality({j \in Due(q, now) : j < i}) < max}

LeaseTo(item, until) == [item EXCEPT !.leaseUntil = until]

\* A lease that takes the items out of the bucket: at-most-once.
LeaseByRemoval(q, max, leaseMs, now) ==
    [seq   |-> q.seq,
     items |-> [i \in Ids(q) \ Leasable(q, max, now) |-> q.items[i]]]

\* QueueLease: what the transaction leaves in the queue ...
Lease(q, max, leaseMs, now) ==
    [seq   |-> q.seq,
     items |-> [i \in Ids(q) |-> IF i \in Leasable(q, max, now)
                                   THEN LeaseTo(q.items[i], now + leaseMs)
                                   ELSE q.items[i]]]

\* ... and the copies it returns to the consumer.
LeaseResult(q, max, leaseMs, now) ==
    [i \in Leasable(q, max, now) |-> LeaseTo(q.items[i], now + leaseMs)]

---------------------------------------------------------------------------
\* QueueAck: deletes by id alone, an absent id is no error.
Ack(q, id) == Remove(q, id)

Exhausted(attempts, maxAttempts) == maxAttempts > 0 /\ attempts >= maxAttempts

\* A bug that gives up one attempt too early.
NackTooEarly(q, id, backoffMs, now, maxAttempts) ==
    IF id \notin Ids(q) THEN q
    ELSE LET attempts == q.items[id].attempts + 1
         IN  IF Exhausted(attempts + 1, maxAttempts) THEN Remove(q, id)
             ELSE [q EXCEPT !.items[id] =
                     Item(@.payload, attempts, now + backoffMs, 0)]

\* A nack that counts the attempt in a copy only.
NackUncounted(q, id, backoffMs, now, maxAttempts) ==
    IF id \notin Ids(q) \/ Exhausted(q.items[id].attempts + 1, maxAttempts) THEN Remove(q, id)
    ELSE [q EXCEPT !.items[id] =
            Item(@.payload, @.attempts, now + backoffMs, 0)]

\* A nack that wrote the zero item back when the lookup found nothing.
NackBlindly(q, id, backoffMs, now, maxAttempts) ==
    LET found    == id \in Ids(q)
        attempts == IF found THEN q.items[id].attempts + 1 ELSE 1
        payload  == IF found THEN q.items[id].payload ELSE <<>>
    IN  IF Exhausted(attempts, maxAttempts) THEN Remove(q, id)
        ELSE [seq   |-> q.seq,
              items |-> [i \in Ids(q) \cup {id} |->
                           IF i = id THEN Item(payload, attempts, now + backoffMs, 0)
                                     ELSE q.items[i]]]

\* QueueNack: an absent id is left alone; the last attempt deletes the item;
\* otherwise the item waits for its backoff, without a lease.
Nack(q, id, backoffMs, now, maxAttempts) ==
    IF id \notin Ids(q) THEN q
    ELSE LET attempts == q.items[id].attempts + 1
         IN  IF Exhausted(attempts, maxAttempts) THEN Remove(q, id)
             ELSE [seq   |-> q.seq,
                   items |-> [q.items EXCEPT ![id] =
                                Item(q.items[id].payload, attempts, now + backoffMs, 0)]]

\* QueueDepth.
Depth(q) == Cardinality(Ids(q))
=============================================================================
