------------------------- MODULE DurableQueueProofs -------------------------
(***************************************************************************)
(* Theorems about DurableQueue for any number of producers, consumers,     *)
(* messages, faults and any lease, backoff and attempt limit: types, that  *)
(* nothing is lost, leases, the order of the first hand-outs, and that the *)
(* queue implements AtLeastOnce.                                           *)
(***************************************************************************)
EXTENDS DurableQueue, QueueOpsProofs, FiniteSetTheorems

\* The updates of one field of a history entry.
LEMMA EntryUpdate ==
    ASSUME NEW e \in EntryType, NEW n \in Nat
    PROVE  /\ [e EXCEPT !.handed = n] = Entry(e.payload, e.at, n, e.nacks, e.acks)
           /\ [e EXCEPT !.nacks = n] = Entry(e.payload, e.at, e.handed, n, e.acks)
           /\ [e EXCEPT !.acks = n] = Entry(e.payload, e.at, e.handed, e.nacks, n)
           /\ [e EXCEPT !.handed = n] \in EntryType
           /\ [e EXCEPT !.nacks = n] \in EntryType
           /\ [e EXCEPT !.acks = n] \in EntryType
  BY DEF EntryType, Entry

\* An item a consumer holds.
LEMMA HoldsOfType ==
    ASSUME TypeOK, NEW c \in Consumers, NEW i \in DOMAIN hold[c]
    PROVE  i \in 1 .. queue.seq /\ i \in Nat /\ hold[c][i] \in ItemType(Producers)
  BY DEF TypeOK

\* What a consumer holds after it settled an item.
LEMMA SettledType ==
    ASSUME TypeOK, NEW c \in Consumers, NEW id, Settled(c, id), queue'.seq = queue.seq
    PROVE  /\ hold' = [d \in Consumers |-> hold'[d]]
           /\ \A d \in Consumers :
                /\ DOMAIN hold'[d] \subseteq DOMAIN hold[d]
                /\ \A i \in DOMAIN hold'[d] : hold'[d][i] = hold[d][i]
                /\ DOMAIN hold'[d] \subseteq 1 .. queue'.seq
                /\ hold'[d] \in [DOMAIN hold'[d] -> ItemType(Producers)]
<1> DEFINE f == [i \in DOMAIN hold[c] \ {id} |-> hold[c][i]]
<1>1. hold' = [hold EXCEPT ![c] = f]
  BY DEF Settled
<1>2. hold' = [d \in Consumers |-> IF d = c THEN f ELSE hold[d]]
  BY <1>1 DEF TypeOK
<1>3. /\ DOMAIN f \subseteq DOMAIN hold[c]
      /\ \A i \in DOMAIN f : f[i] = hold[c][i]
      /\ f \in [DOMAIN f -> ItemType(Producers)]
  BY DEF TypeOK
<1> HIDE DEF f
<1>4. /\ hold'[c] = f
      /\ \A d \in Consumers \ {c} : hold'[d] = hold[d]
      /\ hold' = [d \in Consumers |-> hold'[d]]
  BY <1>2
<1> QED
  BY <1>3, <1>4 DEF TypeOK

\* An empty bucket and idle clients have the types (store.go:35-58).
LEMMA TypeInit == Init => TypeOK
<1> SUFFICES ASSUME Init PROVE TypeOK
  OBVIOUS
<1>1. IsQueue(queue, Producers)
  BY DEF Init, EmptyQueue, IsQueue, Ids
<1>2. stamp \in [Producers -> Nat \cup {None}] /\ cnow \in [Consumers -> Nat \cup {None}]
  BY DEF Init
<1>3. hold = [c \in Consumers |-> hold[c]]
  BY DEF Init
<1>4. \A c \in Consumers : /\ DOMAIN hold[c] \subseteq 1 .. queue.seq
                           /\ hold[c] \in [DOMAIN hold[c] -> ItemType(Producers)]
  BY DEF Init, NoItems
<1>5. hist \in [1 .. queue.seq -> EntryType]
  <2>1. queue.seq = 0
    BY DEF Init, EmptyQueue
  <2>2. 1 .. 0 = {}
    OBVIOUS
  <2> QED
    BY <2>1, <2>2 DEF Init, NoItems
<1> QED
  BY <1>1, <1>2, <1>3, <1>4, <1>5 DEF Init, TypeOK

\* Every call of the store, every clock read, a restart and a clock change keep them.
LEMMA TypeStep == TypeOK /\ [Next]_vars => TypeOK'
<1> SUFFICES ASSUME TypeOK, [Next]_vars PROVE TypeOK'
  OBVIOUS
<1> USE LeaseMsAssumption, BackoffMsAssumption, MaxAttemptsAssumption
<1>1. ASSUME NEW p \in Producers, ReadStamp(p) PROVE TypeOK'
  BY <1>1 DEF ReadStamp, TypeOK
<1>2. ASSUME NEW p \in Producers, EnqueueMsg(p) PROVE TypeOK'
  <2>1. stamp[p] \in Nat
    BY <1>2 DEF EnqueueMsg, TypeOK
  <2>2. /\ IsQueue(queue', Producers)
        /\ queue'.seq = queue.seq + 1
    <3>1. IsMs(stamp[p]) /\ IsQueue(queue, Producers)
      BY <2>1 DEF TypeOK, IsMs
    <3> QED
      BY <1>2, <3>1, EnqueueLemma DEF EnqueueMsg
  <2>3. 1 .. queue'.seq = (1 .. queue.seq) \cup {queue'.seq} /\ queue.seq \in Nat
    BY <2>2 DEF TypeOK, IsQueue
  <2>4. hist' \in [1 .. queue'.seq -> EntryType]
    <3>1. Entry(p, stamp[p], 0, 0, 0) \in EntryType
      BY <2>1 DEF Entry, EntryType
    <3> QED
      BY <1>2, <2>3, <3>1 DEF EnqueueMsg, TypeOK
  <2>5. stamp' \in [Producers -> Nat \cup {None}]
    BY <1>2 DEF EnqueueMsg, TypeOK
  <2> QED
    BY <1>2, <2>2, <2>3, <2>4, <2>5 DEF EnqueueMsg, TypeOK
<1>3. ASSUME NEW c \in Consumers, ReadNow(c) PROVE TypeOK'
  BY <1>3 DEF ReadNow, TypeOK
<1>4. ASSUME NEW c \in Consumers, LeaseBatch(c) PROVE TypeOK'
  <2> DEFINE L == Leasable(queue, BatchSize, cnow[c])
             h == LeaseResult(queue, BatchSize, LeaseMs, cnow[c])
  <2>1. cnow[c] \in Nat
    BY <1>4 DEF LeaseBatch, TypeOK
  <2>2. /\ IsQueue(queue', Producers)
        /\ queue'.seq = queue.seq
        /\ DOMAIN h = L
        /\ L \subseteq 1 .. queue.seq
        /\ h \in [L -> ItemType(Producers)]
    <3>1. IsQueue(queue, Producers) /\ Ids(queue) \subseteq 1 .. queue.seq
      BY DEF TypeOK, IsQueue
    <3>2. queue' = Lease(queue, BatchSize, LeaseMs, cnow[c])
      BY <1>4 DEF LeaseBatch
    <3>3. IsMs(LeaseMs) /\ IsMs(cnow[c])
      BY <2>1 DEF IsMs
    <3>4. /\ IsQueue(Lease(queue, BatchSize, LeaseMs, cnow[c]), Producers)
          /\ Lease(queue, BatchSize, LeaseMs, cnow[c]).seq = queue.seq
      BY <3>1, <3>3, LeaseTypeLemma
    <3>5. /\ L \subseteq Ids(queue)
          /\ DOMAIN h = L
          /\ h \in [L -> ItemType(Producers)]
      BY <3>1, <3>3, LeaseResultLemma
    <3> QED
      BY <3>1, <3>2, <3>4, <3>5
  <2>3. hist' \in [1 .. queue'.seq -> EntryType]
    <3>1. \A i \in 1 .. queue.seq :
            [hist[i] EXCEPT !.handed = hist[i].handed + 1] \in EntryType
      <4> SUFFICES ASSUME NEW i \in 1 .. queue.seq
                   PROVE  [hist[i] EXCEPT !.handed = hist[i].handed + 1] \in EntryType
        OBVIOUS
      <4>1. hist[i] \in EntryType
        BY DEF TypeOK
      <4>2. hist[i].handed + 1 \in Nat
        BY <4>1 DEF EntryType
      <4> QED
        BY <4>1, <4>2, EntryUpdate
    <3> QED
      BY <1>4, <2>2, <3>1 DEF LeaseBatch, TypeOK
  <2> HIDE DEF L, h
  <2>4. hold' = [d \in Consumers |-> IF d = c THEN h ELSE hold[d]]
    BY <1>4 DEF LeaseBatch, TypeOK, h
  <2>5. /\ hold' = [d \in Consumers |-> hold'[d]]
        /\ \A d \in Consumers :
             /\ DOMAIN hold'[d] \subseteq 1 .. queue'.seq
             /\ hold'[d] \in [DOMAIN hold'[d] -> ItemType(Producers)]
    BY <2>2, <2>4 DEF TypeOK
  <2>6. cnow' \in [Consumers -> Nat \cup {None}]
    BY <1>4 DEF LeaseBatch, TypeOK
  <2> QED
    BY <1>4, <2>2, <2>3, <2>5, <2>6 DEF LeaseBatch, TypeOK
<1>5. ASSUME NEW c \in Consumers, NEW id \in DOMAIN hold[c], AckMsg(c, id) PROVE TypeOK'
  <2>1. IsQueue(queue', Producers) /\ queue'.seq = queue.seq
    BY <1>5, RemoveLemma DEF AckMsg, Ack, TypeOK
  <2>2. hist' \in [1 .. queue'.seq -> EntryType]
    <3>1. id \in 1 .. queue.seq
      BY HoldsOfType
    <3>2. [hist[id] EXCEPT !.acks = hist[id].acks + Removes(id)] \in EntryType
      <4>1. hist[id] \in EntryType
        BY <3>1 DEF TypeOK
      <4>2. hist[id].acks + Removes(id) \in Nat
        BY <4>1 DEF EntryType, Removes
      <4> QED
        BY <4>1, <4>2, EntryUpdate
    <3>3. hist' = [hist EXCEPT ![id] =
                     [hist[id] EXCEPT !.acks = hist[id].acks + Removes(id)]]
      BY <1>5 DEF AckMsg
    <3> QED
      BY <2>1, <3>2, <3>3 DEF TypeOK
  <2> QED
    BY <1>5, <2>1, <2>2, SettledType DEF AckMsg, TypeOK
<1>6. ASSUME NEW c \in Consumers, NEW id \in DOMAIN hold[c], NackMsg(c, id) PROVE TypeOK'
  <2>1. IsQueue(queue', Producers) /\ queue'.seq = queue.seq
    <3>1. CASE id \notin Ids(queue) \/ Exhausted(queue.items[id].attempts + 1, MaxAttempts)
      BY <1>6, <3>1, NackGoneLemma, RemoveLemma DEF NackMsg, TypeOK
    <3>2. CASE id \in Ids(queue) /\ ~Exhausted(queue.items[id].attempts + 1, MaxAttempts)
      <4>1. IsMs(BackoffMs) /\ IsMs(clock)
        BY DEF IsMs, TypeOK
      <4> QED
        BY <1>6, <3>2, <4>1, NackLemma DEF NackMsg, TypeOK
    <3> QED
      BY <3>1, <3>2
  <2>2. hist' \in [1 .. queue'.seq -> EntryType]
    <3>1. id \in 1 .. queue.seq
      BY HoldsOfType
    <3>2. [hist[id] EXCEPT !.nacks = hist[id].nacks + 1] \in EntryType
      <4>1. hist[id] \in EntryType
        BY <3>1 DEF TypeOK
      <4>2. hist[id].nacks + 1 \in Nat
        BY <4>1 DEF EntryType
      <4> QED
        BY <4>1, <4>2, EntryUpdate
    <3>3. hist' = [hist EXCEPT ![id] = [hist[id] EXCEPT !.nacks = hist[id].nacks + 1]]
      BY <1>6 DEF NackMsg
    <3> QED
      BY <2>1, <3>2, <3>3 DEF TypeOK
  <2> QED
    BY <1>6, <2>1, <2>2, SettledType DEF NackMsg, TypeOK
<1>7. ASSUME Tick PROVE TypeOK'
  BY <1>7 DEF Tick, TypeOK
<1>8. ASSUME SetBack PROVE TypeOK'
  BY <1>8 DEF SetBack, TypeOK
<1>9. ASSUME Restart PROVE TypeOK'
  <2>1. \A c \in Consumers : hold'[c] = NoItems
    BY <1>9 DEF Restart
  <2>2. DOMAIN NoItems = {} /\ NoItems \in [{} -> ItemType(Producers)]
    BY DEF NoItems
  <2>3. hold' = [c \in Consumers |-> hold'[c]]
    BY <1>9 DEF Restart
  <2> QED
    BY <1>9, <2>1, <2>2, <2>3 DEF Restart, TypeOK
<1>10. CASE UNCHANGED vars
  BY <1>10 DEF vars, TypeOK
<1> QED
  BY <1>1, <1>2, <1>3, <1>4, <1>5, <1>6, <1>7, <1>8, <1>9, <1>10
  DEF Next, Produce, Consume

\* The state has its types in every execution: ids in use, leased or remembered
\* were all given by the persisted sequence (queue.go:20-47).
THEOREM TypeCorrect == Spec => []TypeOK
<1>1. Init => TypeOK
  BY TypeInit
<1>2. TypeOK /\ [Next]_vars => TypeOK'
  BY TypeStep
<1> QED
  BY <1>1, <1>2, PTL DEF Spec
---------------------------------------------------------------------------
(* What each action changes, field by field. *)

\* The fields of an item and of a history entry that the code writes.
LEMMA Fields ==
    ASSUME NEW a, NEW b, NEW x, NEW y, NEW z
    PROVE  /\ Item(a, b, x, y).payload = a /\ Item(a, b, x, y).attempts = b
           /\ Item(a, b, x, y).notBefore = x /\ Item(a, b, x, y).leaseUntil = y
           /\ Entry(a, b, x, y, z).payload = a /\ Entry(a, b, x, y, z).at = b
           /\ Entry(a, b, x, y, z).handed = x /\ Entry(a, b, x, y, z).nacks = y
           /\ Entry(a, b, x, y, z).acks = z
  BY DEF Item, Entry

\* EnqueueMsg adds one fresh item and its history.
LEMMA EnqueueStep ==
    ASSUME TypeOK, NEW p \in Producers, EnqueueMsg(p)
    PROVE  LET id == queue.seq + 1 IN
           /\ queue'.seq = id /\ id \in Nat /\ id \notin Ids(queue)
           /\ Ids(queue') = Ids(queue) \cup {id}
           /\ queue'.items[id].payload = p /\ queue'.items[id].attempts = 0
           /\ queue'.items[id].notBefore = stamp[p] /\ queue'.items[id].leaseUntil = 0
           /\ \A i \in Ids(queue) : queue'.items[i] = queue.items[i]
           /\ DOMAIN hist = 1 .. queue.seq
           /\ DOMAIN hist' = DOMAIN hist \cup {id}
           /\ id \notin DOMAIN hist
           /\ hist'[id].payload = p /\ hist'[id].at = stamp[p]
           /\ hist'[id].handed = 0 /\ hist'[id].nacks = 0 /\ hist'[id].acks = 0
           /\ \A i \in DOMAIN hist : hist'[i] = hist[i]
           /\ hold' = hold
           /\ stamp[p] \in Nat
<1>1. stamp[p] \in Nat
  BY DEF EnqueueMsg, TypeOK
<1>2. IsMs(stamp[p]) /\ IsQueue(queue, Producers) /\ queue' = Enqueue(queue, p, stamp[p])
  BY <1>1 DEF EnqueueMsg, TypeOK, IsMs
<1> DEFINE id == queue.seq + 1
<1>3. /\ queue'.seq = id /\ id \notin Ids(queue)
      /\ Ids(queue') = Ids(queue) \cup {id}
      /\ queue'.items[id] = Item(p, 0, stamp[p], 0)
      /\ \A i \in Ids(queue) : queue'.items[i] = queue.items[i]
  BY <1>2, EnqueueLemma
<1>4. queue.seq \in Nat /\ id \in Nat /\ DOMAIN hist = 1 .. queue.seq /\ id \notin DOMAIN hist
  BY DEF TypeOK, IsQueue
<1>5. hist' = [i \in DOMAIN hist \cup {id} |->
                 IF i = id THEN Entry(p, stamp[p], 0, 0, 0) ELSE hist[i]]
  BY <1>3 DEF EnqueueMsg
<1>6. hold' = hold
  BY DEF EnqueueMsg
<1>7. /\ DOMAIN hist' = DOMAIN hist \cup {id}
      /\ hist'[id] = Entry(p, stamp[p], 0, 0, 0)
      /\ \A i \in DOMAIN hist : hist'[i] = hist[i]
  BY <1>4, <1>5
<1>8. /\ hist'[id].payload = p /\ hist'[id].at = stamp[p]
      /\ hist'[id].handed = 0 /\ hist'[id].nacks = 0 /\ hist'[id].acks = 0
  BY <1>7, Fields
<1>9. /\ queue'.items[id].payload = p /\ queue'.items[id].attempts = 0
      /\ queue'.items[id].notBefore = stamp[p] /\ queue'.items[id].leaseUntil = 0
  BY <1>3, Fields
<1> QED
  BY <1>1, <1>3, <1>4, <1>6, <1>7, <1>8, <1>9

\* LeaseBatch sets the lease of the items it takes, counts the hand-out, and
\* leaves the consumer with copies.
LEMMA LeaseStep ==
    ASSUME TypeOK, NEW c \in Consumers, LeaseBatch(c)
    PROVE  LET L == Leasable(queue, BatchSize, cnow[c]) IN
           /\ cnow[c] \in Nat
           /\ queue'.seq = queue.seq /\ Ids(queue') = Ids(queue)
           /\ DOMAIN hist' = DOMAIN hist /\ DOMAIN hist = 1 .. queue.seq
           /\ L \subseteq Ids(queue)
           /\ DOMAIN hold'[c] = L
           /\ \A d \in Consumers \ {c} : hold'[d] = hold[d]
           /\ \A i \in L :
                /\ queue.items[i].notBefore <= cnow[c]
                /\ queue.items[i].leaseUntil <= cnow[c]
                /\ queue'.items[i].payload = queue.items[i].payload
                /\ queue'.items[i].attempts = queue.items[i].attempts
                /\ queue'.items[i].leaseUntil = cnow[c] + LeaseMs
                /\ hold'[c][i].payload = queue.items[i].payload
                /\ hold'[c][i].attempts = queue.items[i].attempts
                /\ hold'[c][i].leaseUntil = cnow[c] + LeaseMs
                /\ hist'[i] = Entry(hist[i].payload, hist[i].at, hist[i].handed + 1,
                                    hist[i].nacks, hist[i].acks)
           /\ \A i \in Ids(queue) \ L : queue'.items[i] = queue.items[i]
           /\ \A i \in DOMAIN hist \ L : hist'[i] = hist[i]
<1> DEFINE L == Leasable(queue, BatchSize, cnow[c])
           h == LeaseResult(queue, BatchSize, LeaseMs, cnow[c])
<1>1. /\ cnow[c] \in Nat
      /\ IsQueue(queue, Producers)
      /\ queue' = Lease(queue, BatchSize, LeaseMs, cnow[c])
      /\ DOMAIN hist = 1 .. queue.seq
  BY DEF LeaseBatch, TypeOK
<1>2. IsMs(cnow[c]) /\ IsMs(LeaseMs)
  BY <1>1, LeaseMsAssumption DEF IsMs
<1>3. queue'.seq = queue.seq /\ Ids(queue') = Ids(queue)
  BY <1>1, <1>2, LeaseTypeLemma
<1>4. /\ L \subseteq Ids(queue)
      /\ DOMAIN h = L
      /\ \A i \in L : h[i] = LeaseTo(queue.items[i], cnow[c] + LeaseMs)
  BY <1>1, <1>2, LeaseResultLemma, LeaseCopiesLemma
<1>5. \A i \in Ids(queue) :
        queue'.items[i] = IF i \in L THEN LeaseTo(queue.items[i], cnow[c] + LeaseMs)
                                     ELSE queue.items[i]
  BY <1>1, LeaseItemsLemma
<1>6. \A i \in L : queue.items[i].notBefore <= cnow[c] /\ queue.items[i].leaseUntil <= cnow[c]
  BY LeasableLemma
<1>7. \A i \in L :
        LET t == LeaseTo(queue.items[i], cnow[c] + LeaseMs) IN
          /\ t.payload = queue.items[i].payload
          /\ t.attempts = queue.items[i].attempts
          /\ t.leaseUntil = cnow[c] + LeaseMs
  <2>1. cnow[c] + LeaseMs \in Nat
    BY <1>1, LeaseMsAssumption
  <2>2. \A i \in L : queue.items[i] \in ItemType(Producers)
    BY <1>1, <1>4 DEF IsQueue
  <2> QED
    BY <2>1, <2>2, LeaseToLemma
<1>8. /\ DOMAIN hist' = DOMAIN hist
      /\ \A i \in DOMAIN hist : hist'[i] = IF i \in L
                                   THEN [hist[i] EXCEPT !.handed = hist[i].handed + 1]
                                   ELSE hist[i]
  BY DEF LeaseBatch
<1>9. /\ \A i \in L : hist'[i] = Entry(hist[i].payload, hist[i].at, hist[i].handed + 1,
                                       hist[i].nacks, hist[i].acks)
      /\ \A i \in DOMAIN hist \ L : hist'[i] = hist[i]
  <2>1. \A i \in L : i \in DOMAIN hist /\ hist[i] \in EntryType
    BY <1>1, <1>4 DEF TypeOK, IsQueue
  <2>2. \A i \in L : hist[i].handed + 1 \in Nat
    BY <2>1 DEF EntryType
  <2> QED
    BY <1>8, <2>1, <2>2, EntryUpdate
<1> HIDE DEF L, h
<1>10. hold'[c] = h /\ \A d \in Consumers \ {c} : hold'[d] = hold[d]
  BY DEF LeaseBatch, TypeOK, h
<1> QED
  BY <1>1, <1>3, <1>4, <1>5, <1>6, <1>7, <1>8, <1>9, <1>10 DEF L


\* AckMsg deletes at most the settled item.
LEMMA AckStep ==
    ASSUME TypeOK, NEW c \in Consumers, NEW id \in DOMAIN hold[c], AckMsg(c, id)
    PROVE  /\ queue'.seq = queue.seq /\ Ids(queue') = Ids(queue) \ {id}
           /\ \A i \in Ids(queue') : queue'.items[i] = queue.items[i]
           /\ id \in DOMAIN hist /\ DOMAIN hist' = DOMAIN hist
           /\ DOMAIN hist = 1 .. queue.seq
           /\ hist'[id] = Entry(hist[id].payload, hist[id].at, hist[id].handed,
                                hist[id].nacks, hist[id].acks + Removes(id))
           /\ \A i \in DOMAIN hist \ {id} : hist'[i] = hist[i]
           /\ \A d \in Consumers :
                /\ DOMAIN hold'[d] \subseteq DOMAIN hold[d]
                /\ \A i \in DOMAIN hold'[d] : hold'[d][i] = hold[d][i]
<1>1. queue' = Remove(queue, id) /\ IsQueue(queue, Producers)
  BY DEF AckMsg, Ack, TypeOK
<1>2. /\ queue'.seq = queue.seq /\ Ids(queue') = Ids(queue) \ {id}
      /\ \A i \in Ids(queue') : queue'.items[i] = queue.items[i]
  BY <1>1, RemoveLemma
<1>3. DOMAIN hist = 1 .. queue.seq /\ id \in DOMAIN hist /\ hist[id] \in EntryType
  BY HoldsOfType DEF TypeOK
<1>4. hist' = [hist EXCEPT ![id] = [hist[id] EXCEPT !.acks = hist[id].acks + Removes(id)]]
  BY DEF AckMsg
<1>5. hist[id].acks + Removes(id) \in Nat
  BY <1>3 DEF EntryType, Removes
<1>6. /\ DOMAIN hist' = DOMAIN hist
      /\ hist'[id] = Entry(hist[id].payload, hist[id].at, hist[id].handed,
                           hist[id].nacks, hist[id].acks + Removes(id))
      /\ \A i \in DOMAIN hist \ {id} : hist'[i] = hist[i]
  BY <1>3, <1>4, <1>5, EntryUpdate
<1>7. Settled(c, id)
  BY DEF AckMsg
<1> QED
  BY <1>2, <1>3, <1>6, <1>7, SettledType

\* NackMsg keeps the item, with one attempt more, or deletes it.
LEMMA NackStep ==
    ASSUME TypeOK, NEW c \in Consumers, NEW id \in DOMAIN hold[c], NackMsg(c, id)
    PROVE  LET kept == id \in Ids(queue)
                       /\ ~Exhausted(queue.items[id].attempts + 1, MaxAttempts) IN
           /\ queue'.seq = queue.seq
           /\ kept => /\ Ids(queue') = Ids(queue)
                      /\ queue'.items[id] = Item(queue.items[id].payload,
                           queue.items[id].attempts + 1, clock + BackoffMs, 0)
           /\ ~kept => Ids(queue') = Ids(queue) \ {id}
           /\ \A i \in Ids(queue) \ {id} : queue'.items[i] = queue.items[i]
           /\ id \in DOMAIN hist /\ DOMAIN hist' = DOMAIN hist
           /\ DOMAIN hist = 1 .. queue.seq
           /\ hist'[id] = Entry(hist[id].payload, hist[id].at, hist[id].handed,
                                hist[id].nacks + 1, hist[id].acks)
           /\ \A i \in DOMAIN hist \ {id} : hist'[i] = hist[i]
           /\ \A d \in Consumers :
                /\ DOMAIN hold'[d] \subseteq DOMAIN hold[d]
                /\ \A i \in DOMAIN hold'[d] : hold'[d][i] = hold[d][i]
<1> DEFINE kept == id \in Ids(queue)
                   /\ ~Exhausted(queue.items[id].attempts + 1, MaxAttempts)
<1>1. /\ queue' = Nack(queue, id, BackoffMs, clock, MaxAttempts)
      /\ IsQueue(queue, Producers) /\ IsMs(BackoffMs) /\ IsMs(clock)
  BY BackoffMsAssumption DEF NackMsg, TypeOK, IsMs
<1>2. ASSUME kept
      PROVE  /\ queue'.seq = queue.seq /\ Ids(queue') = Ids(queue)
             /\ queue'.items[id] = Item(queue.items[id].payload,
                  queue.items[id].attempts + 1, clock + BackoffMs, 0)
             /\ \A i \in Ids(queue) \ {id} : queue'.items[i] = queue.items[i]
  BY <1>1, <1>2, MaxAttemptsAssumption, NackLemma
<1>3. ASSUME ~kept
      PROVE  /\ queue'.seq = queue.seq /\ Ids(queue') = Ids(queue) \ {id}
             /\ \A i \in Ids(queue) \ {id} : queue'.items[i] = queue.items[i]
  <2>1. CASE id \in Ids(queue)
    BY <1>1, <1>3, <2>1, NackGoneLemma, RemoveLemma
  <2>2. CASE id \notin Ids(queue)
    BY <1>1, <2>2, NackGoneLemma
  <2> QED
    BY <2>1, <2>2
<1>4. DOMAIN hist = 1 .. queue.seq /\ id \in DOMAIN hist /\ hist[id] \in EntryType
  BY HoldsOfType DEF TypeOK
<1>5. hist' = [hist EXCEPT ![id] = [hist[id] EXCEPT !.nacks = hist[id].nacks + 1]]
  BY DEF NackMsg
<1>6. hist[id].nacks + 1 \in Nat
  BY <1>4 DEF EntryType
<1>7. /\ DOMAIN hist' = DOMAIN hist
      /\ hist'[id] = Entry(hist[id].payload, hist[id].at, hist[id].handed,
                           hist[id].nacks + 1, hist[id].acks)
      /\ \A i \in DOMAIN hist \ {id} : hist'[i] = hist[i]
  BY <1>4, <1>5, <1>6, EntryUpdate
<1>8. Settled(c, id)
  BY DEF NackMsg
<1>9. queue'.seq = queue.seq
  BY <1>2, <1>3
<1>10. \A d \in Consumers : /\ DOMAIN hold'[d] \subseteq DOMAIN hold[d]
                            /\ \A i \in DOMAIN hold'[d] : hold'[d][i] = hold[d][i]
  BY <1>8, <1>9, SettledType
<1> QED
  BY <1>2, <1>3, <1>4, <1>7, <1>10

\* ReadStamp, ReadNow, Tick, SetBack and stuttering leave the messages alone; a
\* restart only empties the hands of the consumers.
LEMMA QuietStep ==
    ASSUME TypeOK,
           \/ \E p \in Producers : ReadStamp(p)
           \/ \E c \in Consumers : ReadNow(c)
           \/ Tick \/ SetBack \/ Restart \/ UNCHANGED vars
    PROVE  /\ queue' = queue /\ hist' = hist
           /\ \A c \in Consumers : \/ hold'[c] = hold[c]
                                   \/ hold'[c] = NoItems
  BY DEF ReadStamp, ReadNow, Tick, SetBack, Restart, vars

---------------------------------------------------------------------------
(* Nothing is lost, and an id names one message. *)

\* Giving up more often does not undo giving up.
LEMMA ExhaustedGrows ==
    ASSUME NEW n \in Nat, Exhausted(n, MaxAttempts)
    PROVE  Exhausted(n + 1, MaxAttempts)
  BY MaxAttemptsAssumption DEF Exhausted

\* Nothing was enqueued yet.
LEMMA LossInit == Init => NoSilentLoss /\ PayloadStable
  BY DEF Init, NoSilentLoss, PayloadStable, NoItems, EmptyQueue, Ids

\* An item leaves by an ack that finds it, or by its last nack; no other step touches
\* its attempts (queue.go:94-145).
LEMMA LossStep ==
    ASSUME TypeOK, NoSilentLoss, [Next]_vars
    PROVE  NoSilentLoss'
<1> USE Fields
<1> DEFINE Q == \/ \E p \in Producers : ReadStamp(p)
                \/ \E c \in Consumers : ReadNow(c)
                \/ Tick \/ SetBack \/ Restart \/ UNCHANGED vars
<1>0. /\ \A i \in DOMAIN hist : hist[i].nacks \in Nat /\ hist[i].acks \in Nat
      /\ Ids(queue) \subseteq DOMAIN hist
      /\ DOMAIN hist = 1 .. queue.seq
  BY DEF TypeOK, EntryType, IsQueue
<1>1. ASSUME NEW p \in Producers, EnqueueMsg(p) PROVE NoSilentLoss'
  <2> DEFINE id == queue.seq + 1
  <2>1. ~Exhausted(0, MaxAttempts)
    BY MaxAttemptsAssumption DEF Exhausted
  <2>2. id \in Ids(queue') /\ hist'[id].acks = 0 /\ hist'[id].nacks = 0
        /\ queue'.items[id].attempts = 0
    BY <1>1, EnqueueStep
  <2>3. \A i \in DOMAIN hist : /\ hist'[i] = hist[i]
                               /\ i \in Ids(queue) <=> i \in Ids(queue')
                               /\ i \in Ids(queue) => queue'.items[i] = queue.items[i]
    BY <1>1, EnqueueStep
  <2>4. DOMAIN hist' = DOMAIN hist \cup {id}
    BY <1>1, EnqueueStep
  <2> QED
    BY <2>1, <2>2, <2>3, <2>4 DEF NoSilentLoss
<1>2. ASSUME NEW c \in Consumers, LeaseBatch(c) PROVE NoSilentLoss'
  <2>1. \A i \in DOMAIN hist :
          /\ hist'[i].acks = hist[i].acks /\ hist'[i].nacks = hist[i].nacks
          /\ i \in Ids(queue) => queue'.items[i].attempts = queue.items[i].attempts
    <3> SUFFICES ASSUME NEW i \in DOMAIN hist
                 PROVE  /\ hist'[i].acks = hist[i].acks /\ hist'[i].nacks = hist[i].nacks
                        /\ i \in Ids(queue) =>
                             queue'.items[i].attempts = queue.items[i].attempts
      OBVIOUS
    <3>1. CASE i \in Leasable(queue, BatchSize, cnow[c])
      BY <1>2, <3>1, LeaseStep
    <3>2. CASE i \notin Leasable(queue, BatchSize, cnow[c])
      BY <1>2, <3>2, LeaseStep
    <3> QED
      BY <3>1, <3>2
  <2>2. Ids(queue') = Ids(queue) /\ DOMAIN hist' = DOMAIN hist
    BY <1>2, LeaseStep
  <2> QED
    BY <2>1, <2>2 DEF NoSilentLoss
<1>3. ASSUME NEW c \in Consumers, NEW id \in DOMAIN hold[c], AckMsg(c, id) PROVE NoSilentLoss'
  <2>1. hist'[id].acks = hist[id].acks + Removes(id) /\ hist'[id].nacks = hist[id].nacks
    BY <1>3, AckStep
  <2>2. id \in DOMAIN hist /\ id \notin Ids(queue')
    BY <1>3, AckStep
  <2>3. hist'[id].acks = 1 \/ Exhausted(hist'[id].nacks, MaxAttempts)
    BY <1>0, <2>1, <2>2 DEF NoSilentLoss, Removes
  <2>4. \A i \in DOMAIN hist \ {id} :
          /\ hist'[i] = hist[i]
          /\ i \in Ids(queue) <=> i \in Ids(queue')
          /\ i \in Ids(queue) => queue'.items[i] = queue.items[i]
    BY <1>3, AckStep
  <2>5. DOMAIN hist' = DOMAIN hist
    BY <1>3, AckStep
  <2> QED
    BY <2>2, <2>3, <2>4, <2>5 DEF NoSilentLoss
<1>4. ASSUME NEW c \in Consumers, NEW id \in DOMAIN hold[c], NackMsg(c, id) PROVE NoSilentLoss'
  <2> DEFINE kept == id \in Ids(queue)
                     /\ ~Exhausted(queue.items[id].attempts + 1, MaxAttempts)
  <2>1. /\ id \in DOMAIN hist /\ hist'[id].acks = hist[id].acks
        /\ hist'[id].nacks = hist[id].nacks + 1
    BY <1>4, NackStep
  <2>2. \A i \in DOMAIN hist \ {id} :
          /\ hist'[i] = hist[i]
          /\ i \in Ids(queue) <=> i \in Ids(queue')
          /\ i \in Ids(queue) => queue'.items[i] = queue.items[i]
    BY <1>4, NackStep
  <2>3. DOMAIN hist' = DOMAIN hist
    BY <1>4, NackStep
  <2>4. CASE kept
    <3>1. id \in Ids(queue') /\ queue'.items[id].attempts = queue.items[id].attempts + 1
      BY <1>4, <2>4, NackStep
    <3> QED
      BY <2>1, <2>2, <2>3, <2>4, <3>1 DEF NoSilentLoss
  <2>5. CASE ~kept
    <3>1. id \notin Ids(queue')
      BY <1>4, <2>5, NackStep
    <3>2. hist'[id].acks = 1 \/ Exhausted(hist'[id].nacks, MaxAttempts)
      BY <1>0, <2>1, <2>5, ExhaustedGrows DEF NoSilentLoss
    <3> QED
      BY <2>1, <2>2, <2>3, <3>1, <3>2 DEF NoSilentLoss
  <2> QED
    BY <2>4, <2>5
<1>5. ASSUME Q PROVE NoSilentLoss'
  BY <1>5, QuietStep DEF NoSilentLoss
<1> QED
  BY <1>1, <1>2, <1>3, <1>4, <1>5 DEF Next, Produce, Consume

\* The payload of an item is written once, by QueueEnqueue, under a fresh id
\* (queue.go:45-51, 75-86).
LEMMA PayloadStep ==
    ASSUME TypeOK, PayloadStable, [Next]_vars
    PROVE  PayloadStable'
<1> USE Fields
<1> DEFINE Q == \/ \E p \in Producers : ReadStamp(p)
                \/ \E c \in Consumers : ReadNow(c)
                \/ Tick \/ SetBack \/ Restart \/ UNCHANGED vars
<1>0. /\ Ids(queue) \subseteq DOMAIN hist
      /\ \A c \in Consumers : DOMAIN hold[c] \subseteq DOMAIN hist
  BY DEF TypeOK, IsQueue
<1>1. ASSUME NEW p \in Producers, EnqueueMsg(p) PROVE PayloadStable'
  <2> DEFINE id == queue.seq + 1
  <2>1. /\ id \in Ids(queue') /\ queue'.items[id].payload = p /\ hist'[id].payload = p
        /\ Ids(queue') = Ids(queue) \cup {id} /\ hold' = hold
        /\ \A i \in Ids(queue) : queue'.items[i] = queue.items[i]
        /\ \A i \in DOMAIN hist : hist'[i] = hist[i]
    BY <1>1, EnqueueStep
  <2> QED
    BY <1>0, <2>1 DEF PayloadStable
<1>2. ASSUME NEW c \in Consumers, LeaseBatch(c) PROVE PayloadStable'
  <2> DEFINE L == Leasable(queue, BatchSize, cnow[c])
  <2>1. \A i \in DOMAIN hist : hist'[i].payload = hist[i].payload
    BY <1>2, LeaseStep
  <2>2. \A i \in Ids(queue') : queue'.items[i].payload = hist'[i].payload
    BY <1>0, <1>2, <2>1, LeaseStep DEF PayloadStable
  <2>3. \A i \in DOMAIN hold'[c] : hold'[c][i].payload = hist'[i].payload
    BY <1>0, <1>2, <2>1, LeaseStep DEF PayloadStable
  <2>4. \A d \in Consumers \ {c} : \A i \in DOMAIN hold'[d] :
          hold'[d][i].payload = hist'[i].payload
    BY <1>0, <1>2, <2>1, LeaseStep DEF PayloadStable
  <2> QED
    BY <2>2, <2>3, <2>4 DEF PayloadStable
<1>3. ASSUME NEW c \in Consumers, NEW id \in DOMAIN hold[c], AckMsg(c, id) PROVE PayloadStable'
  <2>1. \A i \in DOMAIN hist : hist'[i].payload = hist[i].payload
    BY <1>3, AckStep
  <2> QED
    BY <1>0, <1>3, <2>1, AckStep DEF PayloadStable
<1>4. ASSUME NEW c \in Consumers, NEW id \in DOMAIN hold[c], NackMsg(c, id) PROVE PayloadStable'
  <2>1. \A i \in DOMAIN hist : hist'[i].payload = hist[i].payload
    BY <1>4, NackStep
  <2>2. \A i \in Ids(queue') : i \in Ids(queue)
                               /\ queue'.items[i].payload = queue.items[i].payload
    BY <1>4, NackStep
  <2> QED
    BY <1>0, <1>4, <2>1, <2>2, NackStep DEF PayloadStable
<1>5. ASSUME Q PROVE PayloadStable'
  BY <1>5, QuietStep DEF PayloadStable, NoItems
<1> QED
  BY <1>1, <1>2, <1>3, <1>4, <1>5 DEF Next, Produce, Consume

\* No message is lost: one that left the bucket was acked or exhausted its
\* attempts, one that is there was not (queue.go:93-146).
THEOREM NothingLost == Spec => []NoSilentLoss
<1>1. Init => TypeOK /\ NoSilentLoss
  BY TypeInit, LossInit
<1>2. TypeOK /\ NoSilentLoss /\ [Next]_vars => (TypeOK /\ NoSilentLoss)'
  BY TypeStep, LossStep
<1> QED
  BY <1>1, <1>2, PTL DEF Spec

\* An id names one message for ever, so QueueAck and QueueNack, which take only
\* the id, never settle another message (queue.go:45, 94, 111).
THEOREM IdsKeepTheirPayload == Spec => []PayloadStable
<1>1. Init => TypeOK /\ PayloadStable
  BY TypeInit, LossInit
<1>2. TypeOK /\ PayloadStable /\ [Next]_vars => (TypeOK /\ PayloadStable)'
  BY TypeStep, PayloadStep
<1> QED
  BY <1>1, <1>2, PTL DEF Spec

---------------------------------------------------------------------------
(* Leases are exclusive, for the same attempt. *)

\* What a consumer knows of an item that is still there is not ahead of the
\* bucket: of an older attempt, or of a lease that the bucket's lease outlasts.
\* LeaseExclusive alone is not inductive: a new lease must end later than every
\* hold of that attempt, which only the bucket's own leaseUntil shows.
StaleHolds ==
    \A c \in Consumers : \A i \in DOMAIN hold[c] \cap Ids(queue) :
        /\ hold[c][i].attempts <= queue.items[i].attempts
        /\ hold[c][i].attempts = queue.items[i].attempts =>
             hold[c][i].leaseUntil <= queue.items[i].leaseUntil

\* The numbers in items and holds.
LEMMA Numbers ==
    ASSUME TypeOK
    PROVE  /\ \A i \in Ids(queue) : /\ queue.items[i].attempts \in Nat
                                    /\ queue.items[i].notBefore \in Nat
                                    /\ queue.items[i].leaseUntil \in Nat
           /\ \A c \in Consumers : \A i \in DOMAIN hold[c] :
                hold[c][i].attempts \in Nat /\ hold[c][i].leaseUntil \in Nat
           /\ \A i \in DOMAIN hist : hist[i].handed \in Nat /\ hist[i].at \in Nat
<1>1. \A i \in Ids(queue) : queue.items[i] \in ItemType(Producers)
  BY DEF TypeOK, IsQueue
<1>2. \A c \in Consumers : \A i \in DOMAIN hold[c] : hold[c][i] \in ItemType(Producers)
  BY HoldsOfType
<1>3. \A i \in DOMAIN hist : hist[i] \in EntryType
  BY DEF TypeOK
<1> QED
  BY <1>1, <1>2, <1>3 DEF ItemType, EntryType

\* Nobody holds anything yet.
LEMMA LeaseInit == Init => LeaseExclusive /\ StaleHolds
  BY DEF Init, LeaseExclusive, StaleHolds, NoItems

\* A copy that a consumer holds is never ahead of the item: same attempt and lease, or
\* an earlier one (queue.go:78-86, 130-136).
LEMMA StaleStep ==
    ASSUME TypeOK, StaleHolds, [Next]_vars
    PROVE  StaleHolds'
<1> DEFINE Q == \/ \E p \in Producers : ReadStamp(p)
                \/ \E c \in Consumers : ReadNow(c)
                \/ Tick \/ SetBack \/ Restart \/ UNCHANGED vars
<1>0. \A c \in Consumers : DOMAIN hold[c] \subseteq 1 .. queue.seq
  BY DEF TypeOK
<1>1. ASSUME NEW p \in Producers, EnqueueMsg(p) PROVE StaleHolds'
  <2>1. \A c \in Consumers : \A i \in DOMAIN hold'[c] \cap Ids(queue') : i \in Ids(queue)
    <3>1. queue.seq \in Nat
      BY DEF TypeOK, IsQueue
    <3> QED
      BY <1>0, <1>1, <3>1, EnqueueStep
  <2>2. hold' = hold /\ \A i \in Ids(queue) : queue'.items[i] = queue.items[i]
    BY <1>1, EnqueueStep
  <2> QED
    BY <2>1, <2>2 DEF StaleHolds
<1>2. ASSUME NEW c \in Consumers, LeaseBatch(c) PROVE StaleHolds'
  <2> DEFINE L == Leasable(queue, BatchSize, cnow[c])
             until == cnow[c] + LeaseMs
  <2>1. /\ Ids(queue') = Ids(queue) /\ DOMAIN hold'[c] = L /\ L \subseteq Ids(queue)
        /\ \A d \in Consumers \ {c} : hold'[d] = hold[d]
        /\ \A i \in Ids(queue) \ L : queue'.items[i] = queue.items[i]
    BY <1>2, LeaseStep
  <2>2. \A i \in L :
          /\ queue.items[i].leaseUntil <= cnow[c]
          /\ queue'.items[i].attempts = queue.items[i].attempts
          /\ queue'.items[i].leaseUntil = until
          /\ hold'[c][i].attempts = queue.items[i].attempts
          /\ hold'[c][i].leaseUntil = until
    BY <1>2, LeaseStep
  <2>3. cnow[c] \in Nat /\ LeaseMs \in Nat
    BY <1>2, LeaseStep, LeaseMsAssumption
  <2> HIDE DEF L
  <2> SUFFICES ASSUME NEW d \in Consumers, NEW i \in DOMAIN hold'[d] \cap Ids(queue')
               PROVE  /\ hold'[d][i].attempts <= queue'.items[i].attempts
                      /\ hold'[d][i].attempts = queue'.items[i].attempts =>
                           hold'[d][i].leaseUntil <= queue'.items[i].leaseUntil
    BY DEF StaleHolds
  <2>4. CASE d = c
    BY <2>1, <2>2, <2>3, <2>4, Numbers
  <2>5. CASE d /= c /\ i \in L
    <3>1. /\ hold[d][i].attempts <= queue.items[i].attempts
          /\ hold[d][i].attempts = queue.items[i].attempts =>
               hold[d][i].leaseUntil <= queue.items[i].leaseUntil
      BY <2>1, <2>5 DEF StaleHolds
    <3>2. queue.items[i].leaseUntil <= until
      BY <2>1, <2>2, <2>3, <2>5, Numbers
    <3>3. hold[d][i].leaseUntil \in Nat /\ queue.items[i].leaseUntil \in Nat /\ until \in Nat
      BY <2>1, <2>3, <2>5, Numbers
    <3> QED
      BY <2>1, <2>2, <2>5, <3>1, <3>2, <3>3
  <2>6. CASE d /= c /\ i \notin L
    BY <2>1, <2>6 DEF StaleHolds
  <2> QED
    BY <2>4, <2>5, <2>6
<1>3. ASSUME NEW c \in Consumers, NEW id \in DOMAIN hold[c], AckMsg(c, id) PROVE StaleHolds'
  BY <1>3, AckStep DEF StaleHolds
<1>4. ASSUME NEW c \in Consumers, NEW id \in DOMAIN hold[c], NackMsg(c, id) PROVE StaleHolds'
  <2> SUFFICES ASSUME NEW d \in Consumers, NEW i \in DOMAIN hold'[d] \cap Ids(queue')
               PROVE  /\ hold'[d][i].attempts <= queue'.items[i].attempts
                      /\ hold'[d][i].attempts = queue'.items[i].attempts =>
                           hold'[d][i].leaseUntil <= queue'.items[i].leaseUntil
    BY DEF StaleHolds
  <2>1. i \in DOMAIN hold[d] /\ hold'[d][i] = hold[d][i] /\ i \in Ids(queue)
    BY <1>4, NackStep
  <2>2. CASE i /= id
    BY <1>4, <2>1, <2>2, NackStep DEF StaleHolds
  <2>3. CASE i = id
    <3>1. queue'.items[id] = Item(queue.items[id].payload,
                                  queue.items[id].attempts + 1, clock + BackoffMs, 0)
      BY <1>4, <2>3, NackStep
    <3>2. queue'.items[id].attempts = queue.items[id].attempts + 1
      BY <3>1, Fields
    <3>3. hold[d][id].attempts <= queue.items[id].attempts
      BY <2>1, <2>3 DEF StaleHolds
    <3>4. hold[d][id].attempts \in Nat /\ queue.items[id].attempts \in Nat
      BY <2>1, <2>3, Numbers
    <3> QED
      BY <2>1, <2>3, <3>2, <3>3, <3>4
  <2> QED
    BY <2>2, <2>3
<1>5. ASSUME Q PROVE StaleHolds'
  BY <1>5, QuietStep DEF StaleHolds, NoItems
<1> QED
  BY <1>1, <1>2, <1>3, <1>4, <1>5 DEF Next, Produce, Consume

\* No step but a lease gives a consumer something to hold.
LEMMA HoldsShrink ==
    ASSUME TypeOK, [Next]_vars, ~ \E c \in Consumers : LeaseBatch(c)
    PROVE  \A d \in Consumers : /\ DOMAIN hold'[d] \subseteq DOMAIN hold[d]
                                /\ \A i \in DOMAIN hold'[d] : hold'[d][i] = hold[d][i]
<1>1. ASSUME NEW p \in Producers, EnqueueMsg(p) PROVE hold' = hold
  BY <1>1 DEF EnqueueMsg
<1> QED
  BY <1>1, AckStep, NackStep, QuietStep DEF Next, Produce, Consume, NoItems

\* Only QueueLease hands copies out, and it takes no item whose lease runs
\* (queue.go:75-78).
LEMMA ExclusiveStep ==
    ASSUME TypeOK, StaleHolds, LeaseExclusive, [Next]_vars
    PROVE  LeaseExclusive'
<1>1. CASE ~ \E c \in Consumers : LeaseBatch(c)
  BY <1>1, HoldsShrink DEF LeaseExclusive
<1>2. ASSUME NEW c \in Consumers, LeaseBatch(c) PROVE LeaseExclusive'
  <2> DEFINE L == Leasable(queue, BatchSize, cnow[c])
             until == cnow[c] + LeaseMs
  <2>1. /\ DOMAIN hold'[c] = L /\ L \subseteq Ids(queue)
        /\ \A d \in Consumers \ {c} : hold'[d] = hold[d]
        /\ cnow[c] \in Nat /\ LeaseMs \in Nat
    BY <1>2, LeaseStep, LeaseMsAssumption
  <2>2. \A i \in L : /\ queue.items[i].leaseUntil <= cnow[c]
                     /\ hold'[c][i].attempts = queue.items[i].attempts
                     /\ hold'[c][i].leaseUntil = until
    BY <1>2, LeaseStep
  <2> HIDE DEF L
  <2>3. ASSUME NEW d \in Consumers \ {c}, NEW i \in DOMAIN hold'[c] \cap DOMAIN hold'[d],
               hold'[c][i].attempts = hold'[d][i].attempts
        PROVE  hold'[d][i].leaseUntil + LeaseMs <= hold'[c][i].leaseUntil
    <3>1. i \in L /\ i \in Ids(queue) /\ i \in DOMAIN hold[d] /\ hold'[d][i] = hold[d][i]
      BY <2>1, <2>3
    <3>2. hold[d][i].leaseUntil <= queue.items[i].leaseUntil
      BY <2>2, <2>3, <3>1 DEF StaleHolds
    <3>3. hold[d][i].leaseUntil \in Nat /\ queue.items[i].leaseUntil \in Nat
      BY <3>1, Numbers
    <3> QED
      BY <2>1, <2>2, <3>1, <3>2, <3>3
  <2> SUFFICES ASSUME NEW d \in Consumers, NEW e \in Consumers,
                      NEW i \in DOMAIN hold'[d] \cap DOMAIN hold'[e],
                      d /= e, hold'[d][i].attempts = hold'[e][i].attempts
               PROVE  \/ hold'[d][i].leaseUntil + LeaseMs <= hold'[e][i].leaseUntil
                      \/ hold'[e][i].leaseUntil + LeaseMs <= hold'[d][i].leaseUntil
    BY DEF LeaseExclusive
  <2>4. CASE d = c
    BY <2>3, <2>4
  <2>5. CASE e = c
    BY <2>3, <2>5
  <2>6. CASE d /= c /\ e /= c
    BY <2>1, <2>6 DEF LeaseExclusive
  <2> QED
    BY <2>4, <2>5, <2>6
<1> QED
  BY <1>1, <1>2

\* Two consumers never work on the same attempt of a message at once, unless the
\* lease of one had run out when the other leased it (queue.go:75-78), whatever
\* the clock does and however stale the time passed to QueueLease is.
THEOREM LeasesAreExclusive == Spec => []LeaseExclusive
<1>1. Init => TypeOK /\ StaleHolds /\ LeaseExclusive
  BY TypeInit, LeaseInit
<1>2. TypeOK /\ StaleHolds /\ LeaseExclusive /\ [Next]_vars
        => (TypeOK /\ StaleHolds /\ LeaseExclusive)'
  BY TypeStep, StaleStep, ExclusiveStep
<1> QED
  BY <1>1, <1>2, PTL DEF Spec

---------------------------------------------------------------------------
(* Messages that are gone, and the order of the first hand-outs. *)

\* A step takes ids out of the bucket, and puts in none but the next one: an ack or
\* a nack of an id that is gone writes nothing (queue.go:93-106, 122-125).
LEMMA GoneStep ==
    ASSUME TypeOK, [Next]_vars
    PROVE  \A i \in 1 .. queue.seq : i \notin Ids(queue) => i \notin Ids(queue')
<1> DEFINE Q == \/ \E p \in Producers : ReadStamp(p)
                \/ \E c \in Consumers : ReadNow(c)
                \/ Tick \/ SetBack \/ Restart \/ UNCHANGED vars
           Goal == \A i \in 1 .. queue.seq : i \notin Ids(queue) => i \notin Ids(queue')
<1>1. ASSUME NEW p \in Producers, EnqueueMsg(p) PROVE Goal
  <2>1. queue.seq \in Nat
    BY DEF TypeOK, IsQueue
  <2> QED
    BY <1>1, <2>1, EnqueueStep
<1>2. ASSUME NEW c \in Consumers, LeaseBatch(c) PROVE Goal
  BY <1>2, LeaseStep
<1>3. ASSUME NEW c \in Consumers, NEW id \in DOMAIN hold[c], AckMsg(c, id) PROVE Goal
  BY <1>3, AckStep
<1>4. ASSUME NEW c \in Consumers, NEW id \in DOMAIN hold[c], NackMsg(c, id) PROVE Goal
  BY <1>4, NackStep
<1>5. ASSUME Q PROVE Goal
  BY <1>5, QuietStep
<1> QED
  BY <1>1, <1>2, <1>3, <1>4, <1>5 DEF Next, Produce, Consume

\* A message that was acked or dropped never comes back, whichever consumer settles
\* it again (queue.go:93-146).
THEOREM GoneForGood == Spec => NoResurrection
<1>1. TypeOK /\ [Next]_vars
        => [\A i \in 1 .. queue.seq : i \notin Ids(queue) => i \notin Ids(queue)']_vars
  <2>1. ASSUME TypeOK, [Next]_vars
        PROVE  \A i \in 1 .. queue.seq : i \notin Ids(queue) => i \notin Ids(queue)'
    BY <2>1, GoneStep DEF Ids
  <2> QED
    BY <2>1
<1> QED
  BY <1>1, TypeCorrect, PTL DEF Spec, NoResurrection

---------------------------------------------------------------------------
(* First hand-outs. *)

\* A message that was never handed out is as it was enqueued, and what a consumer
\* holds was handed out.  FirstHandFIFO alone does not say that the message in
\* front is still there to be leased.
Untouched ==
    /\ \A i \in DOMAIN hist : hist[i].handed = 0 =>
         /\ i \in Ids(queue)
         /\ queue.items[i].notBefore = hist[i].at
         /\ queue.items[i].leaseUntil = 0
    /\ \A c \in Consumers : \A i \in DOMAIN hold[c] : hist[i].handed > 0

\* Nothing was handed out at the start.
LEMMA OrderInit == Init => Untouched /\ FirstHandFIFO
  BY DEF Init, NoItems, Untouched, FirstHandFIFO

\* The numbers in the history.
LEMMA Counts ==
    ASSUME TypeOK
    PROVE  /\ DOMAIN hist = 1 .. queue.seq /\ queue.seq \in Nat
           /\ \A i \in DOMAIN hist : hist[i].handed \in Nat /\ hist[i].at \in Nat
           /\ \A c \in Consumers : DOMAIN hold[c] \subseteq DOMAIN hist
           /\ \A i \in Ids(queue) : queue.items[i].notBefore \in Nat
  BY DEF TypeOK, EntryType, IsQueue, ItemType, Ids

\* Only a lease touches a message for the first time; an ack or a nack is of one
\* that was leased (queue.go:56-145).
LEMMA UntouchedStep ==
    ASSUME TypeOK, Untouched, [Next]_vars
    PROVE  Untouched'
<1> USE Fields
<1> DEFINE Q == \/ \E p \in Producers : ReadStamp(p)
                \/ \E c \in Consumers : ReadNow(c)
                \/ Tick \/ SetBack \/ Restart \/ UNCHANGED vars
<1>1. ASSUME NEW p \in Producers, EnqueueMsg(p) PROVE Untouched'
  BY <1>1, EnqueueStep, Counts DEF Untouched
<1>2. ASSUME NEW c \in Consumers, LeaseBatch(c) PROVE Untouched'
  <2> DEFINE L == Leasable(queue, BatchSize, cnow[c])
  <2>1. /\ Ids(queue') = Ids(queue) /\ DOMAIN hist' = DOMAIN hist
        /\ L \subseteq Ids(queue) /\ Ids(queue) \subseteq DOMAIN hist
        /\ DOMAIN hold'[c] = L
        /\ \A d \in Consumers \ {c} : hold'[d] = hold[d]
        /\ \A i \in Ids(queue) \ L : queue'.items[i] = queue.items[i]
        /\ \A i \in DOMAIN hist \ L : hist'[i] = hist[i]
    BY <1>2, LeaseStep DEF TypeOK, IsQueue
  <2>2. \A i \in L : hist'[i].handed = hist[i].handed + 1 /\ hist[i].handed \in Nat
    BY <1>2, <2>1, LeaseStep, Counts
  <2>3. \A i \in DOMAIN hist' : hist'[i].handed = 0 =>
          i \notin L /\ i \in Ids(queue) /\ hist'[i] = hist[i]
    BY <2>1, <2>2 DEF Untouched
  <2>4. \A d \in Consumers : \A i \in DOMAIN hold'[d] : hist'[i].handed > 0
    BY <2>1, <2>2, Counts DEF Untouched
  <2> QED
    BY <2>1, <2>3, <2>4 DEF Untouched
<1>3. ASSUME NEW c \in Consumers, NEW id \in DOMAIN hold[c], AckMsg(c, id)
      PROVE  Untouched'
  <2>1. hist[id].handed > 0 /\ hist'[id].handed = hist[id].handed
    BY <1>3, AckStep DEF Untouched
  <2> QED
    BY <1>3, <2>1, AckStep, Counts DEF Untouched
<1>4. ASSUME NEW c \in Consumers, NEW id \in DOMAIN hold[c], NackMsg(c, id)
      PROVE  Untouched'
  <2>1. hist[id].handed > 0 /\ hist'[id].handed = hist[id].handed
    BY <1>4, NackStep DEF Untouched
  <2>2. Ids(queue) \ {id} \subseteq Ids(queue')
    BY <1>4, NackStep
  <2> QED
    BY <1>4, <2>1, <2>2, NackStep, Counts DEF Untouched
<1>5. ASSUME Q PROVE Untouched'
  BY <1>5, QuietStep DEF Untouched, NoItems
<1> QED
  BY <1>1, <1>2, <1>3, <1>4, <1>5 DEF Next, Produce, Consume

\* A lease takes what is due from the smallest id on; what it passes over is not due
\* yet (queue.go:69-77).
LEMMA OrderStep ==
    ASSUME TypeOK, Untouched, FirstHandFIFO, [Next]_vars
    PROVE  FirstHandFIFO'
<1> USE Fields
<1> DEFINE Q == \/ \E p \in Producers : ReadStamp(p)
                \/ \E c \in Consumers : ReadNow(c)
                \/ Tick \/ SetBack \/ Restart \/ UNCHANGED vars
<1>1. ASSUME NEW p \in Producers, EnqueueMsg(p) PROVE FirstHandFIFO'
  BY <1>1, EnqueueStep, Counts DEF FirstHandFIFO
<1>2. ASSUME NEW c \in Consumers, LeaseBatch(c) PROVE FirstHandFIFO'
  <2> DEFINE L == Leasable(queue, BatchSize, cnow[c])
  <2>1. /\ cnow[c] \in Nat /\ DOMAIN hist' = DOMAIN hist /\ DOMAIN hist = 1 .. queue.seq
        /\ L \subseteq Ids(queue) /\ Ids(queue) \subseteq DOMAIN hist
        /\ \A i \in DOMAIN hist \ L : hist'[i] = hist[i]
    BY <1>2, LeaseStep DEF TypeOK, IsQueue
  <2>2. \A i \in L : /\ hist'[i].handed = hist[i].handed + 1 /\ hist[i].handed \in Nat
                     /\ hist'[i].at = hist[i].at
                     /\ queue.items[i].notBefore <= cnow[c]
    BY <1>2, <2>1, LeaseStep, Counts
  <2> SUFFICES ASSUME NEW i \in DOMAIN hist, NEW j \in DOMAIN hist,
                      i < j, hist'[j].handed > 0, hist'[i].handed = 0
               PROVE  hist'[i].at > hist'[j].at
    BY <2>1 DEF FirstHandFIFO
  <2>3. i \notin L /\ hist'[i] = hist[i] /\ hist[i].handed = 0 /\ hist'[j].at = hist[j].at
    BY <2>1, <2>2
  <2>4. CASE hist[j].handed > 0
    BY <2>3, <2>4 DEF FirstHandFIFO
  <2>5. CASE hist[j].handed = 0
    <3>1. j \in L
      BY <2>1, <2>5
    <3>2. /\ i \in Ids(queue) /\ queue.items[i].notBefore = hist[i].at
          /\ queue.items[i].leaseUntil = 0 /\ queue.items[j].notBefore = hist[j].at
      BY <2>3, <2>5 DEF Untouched
    <3>3. i \notin Due(queue, cnow[c])
      <4>1. IsQueue(queue, Producers) /\ BatchSize \in Nat
        BY BatchSizeAssumption DEF TypeOK
      <4> QED
        BY <2>1, <2>3, <3>1, <4>1, LeaseOrderLemma
    <3>4. hist[i].at > cnow[c]
      BY <2>1, <3>2, <3>3, Counts DEF Due
    <3>5. hist[j].at <= cnow[c]
      BY <2>2, <3>1, <3>2
    <3> QED
      BY <2>1, <2>3, <3>4, <3>5, Counts
  <2>6. hist[j].handed \in Nat
    BY Counts
  <2> QED
    BY <2>4, <2>5, <2>6
<1>3. ASSUME NEW c \in Consumers, NEW id \in DOMAIN hold[c], AckMsg(c, id)
      PROVE  FirstHandFIFO'
  BY <1>3, AckStep DEF FirstHandFIFO
<1>4. ASSUME NEW c \in Consumers, NEW id \in DOMAIN hold[c], NackMsg(c, id)
      PROVE  FirstHandFIFO'
  BY <1>4, NackStep DEF FirstHandFIFO
<1>5. ASSUME Q PROVE FirstHandFIFO'
  BY <1>5, QuietStep DEF FirstHandFIFO
<1> QED
  BY <1>1, <1>2, <1>3, <1>4, <1>5 DEF Next, Produce, Consume

\* First hand-outs are in the order of the ids, except past a message with a later
\* stamp, also with several consumers, restarts and a clock that is set back
\* (queue.go:46, 56-57, 70-77).
THEOREM FirstHandsFollowIds == Spec => []FirstHandFIFO
<1>1. Init => TypeOK /\ Untouched /\ FirstHandFIFO
  BY TypeInit, OrderInit
<1>2. TypeOK /\ Untouched /\ FirstHandFIFO /\ [Next]_vars
        => (TypeOK /\ Untouched /\ FirstHandFIFO)'
  BY TypeStep, UntouchedStep, OrderStep
<1> QED
  BY <1>1, <1>2, PTL DEF Spec

---------------------------------------------------------------------------
(* The refinement of AtLeastOnce. *)

\* The consumers that have still to settle a copy of message i.
Holders(i) == {c \in Consumers : i \in DOMAIN hold[c]}

\* Each hand-out is given back at most once: the nacks a message received and
\* the copies still in hand are no more than its hand-outs (queue.go:57-90).
Owed ==
    \A i \in DOMAIN hist : hist[i].nacks + Cardinality(Holders(i)) <= hist[i].handed

\* What the abstract queue sees of the messages.
Seen == [i \in DOMAIN hist |->
           [payload |-> hist[i].payload, handed |-> hist[i].handed, status |-> Outcome(i)]]

---------------------------------------------------------------------------
\* The holders of a message are finite in number, and a subset of them is no larger.
LEMMA HoldersFinite ==
    ASSUME NEW i, NEW S \in SUBSET Holders(i)
    PROVE  /\ IsFiniteSet(Holders(i)) /\ IsFiniteSet(S)
           /\ Cardinality(Holders(i)) \in Nat /\ Cardinality(S) \in Nat
           /\ Cardinality(S) <= Cardinality(Holders(i))
<1>1. IsFiniteSet(Holders(i))
  <2>1. Holders(i) \in SUBSET Consumers
    BY DEF Holders
  <2> QED
    BY <2>1, ConsumersAssumption, FS_Subset
<1>2. IsFiniteSet(S) /\ Cardinality(S) <= Cardinality(Holders(i))
  BY <1>1, FS_Subset
<1> QED
  BY <1>1, <1>2, FS_CardinalityType

\* The numbers of a history entry.
LEMMA EntryNumbers ==
    ASSUME TypeOK
    PROVE  \A i \in DOMAIN hist :
             hist[i].handed \in Nat /\ hist[i].nacks \in Nat /\ hist[i].acks \in Nat
  BY DEF TypeOK, EntryType

\* Nothing was handed out yet.
LEMMA OwedInit == Init => Owed
  BY DEF Init, Owed, NoItems

\* A step that counts nothing for a message and hands it to nobody keeps its account.
LEMMA OwedKept ==
    ASSUME TypeOK, Owed, NEW i \in DOMAIN hist,
           hist'[i].nacks = hist[i].nacks, hist'[i].handed = hist[i].handed,
           Holders(i)' \subseteq Holders(i)
    PROVE  hist'[i].nacks + Cardinality(Holders(i)') <= hist'[i].handed
<1>1. /\ Cardinality(Holders(i)') <= Cardinality(Holders(i))
      /\ Cardinality(Holders(i)') \in Nat /\ Cardinality(Holders(i)) \in Nat
  BY HoldersFinite
<1>2. hist[i].nacks + Cardinality(Holders(i)) <= hist[i].handed
  BY DEF Owed
<1> QED
  BY <1>1, <1>2, EntryNumbers

\* A lease counts a hand-out for each new copy; a nack gives one copy back; an ack,
\* a restart and an expired lease only reduce the copies in hand.
LEMMA OwedStep ==
    ASSUME TypeOK, Owed, [Next]_vars
    PROVE  Owed'
<1> USE Fields
<1> DEFINE Q == \/ \E p \in Producers : ReadStamp(p)
                \/ \E c \in Consumers : ReadNow(c)
                \/ Tick \/ SetBack \/ Restart \/ UNCHANGED vars
<1>1. ASSUME NEW p \in Producers, EnqueueMsg(p) PROVE Owed'
  <2> DEFINE new == queue.seq + 1
  <2>1. /\ DOMAIN hist' = DOMAIN hist \cup {new} /\ hold' = hold
        /\ \A i \in DOMAIN hist : hist'[i] = hist[i]
        /\ hist'[new].handed = 0 /\ hist'[new].nacks = 0
    BY <1>1, EnqueueStep
  <2>2. \A i : Holders(i)' = Holders(i)
    BY <2>1 DEF Holders
  <2>3. Holders(new) = {}
    <3>1. \A c \in Consumers : DOMAIN hold[c] \subseteq 1 .. queue.seq
      BY DEF TypeOK
    <3>2. new \notin 1 .. queue.seq
      BY DEF TypeOK, IsQueue
    <3> QED
      BY <3>1, <3>2 DEF Holders
  <2>4. ASSUME NEW i \in DOMAIN hist'
        PROVE  hist'[i].nacks + Cardinality(Holders(i)') <= hist'[i].handed
    <3>1. CASE i \in DOMAIN hist
      BY <2>1, <2>2, <3>1, OwedKept
    <3>2. CASE i = new
      <4>1. Cardinality(Holders(i)') = 0
        BY <2>2, <2>3, <3>2, FS_EmptySet
      <4> QED
        BY <2>1, <3>2, <4>1
    <3> QED
      BY <2>1, <3>1, <3>2
  <2> QED
    BY <2>4 DEF Owed
<1>2. ASSUME NEW c \in Consumers, LeaseBatch(c) PROVE Owed'
  <2> DEFINE L == Leasable(queue, BatchSize, cnow[c])
  <2>1. /\ DOMAIN hist' = DOMAIN hist /\ DOMAIN hold'[c] = L
        /\ \A d \in Consumers \ {c} : hold'[d] = hold[d]
        /\ \A i \in L : hist'[i] = Entry(hist[i].payload, hist[i].at, hist[i].handed + 1,
                                         hist[i].nacks, hist[i].acks)
        /\ \A i \in DOMAIN hist \ L : hist'[i] = hist[i]
    BY <1>2, LeaseStep
  <2> HIDE DEF L
  <2>2. ASSUME NEW i \in DOMAIN hist'
        PROVE  hist'[i].nacks + Cardinality(Holders(i)') <= hist'[i].handed
    <3>1. CASE i \notin L
      <4>1. Holders(i)' \subseteq Holders(i)
        BY <2>1, <3>1 DEF Holders
      <4> QED
        BY <2>1, <3>1, <4>1, OwedKept
    <3>2. CASE i \in L
      <4>1. Holders(i)' \subseteq Holders(i) \cup {c}
        BY <2>1 DEF Holders
      <4>2. /\ IsFiniteSet(Holders(i)) /\ Cardinality(Holders(i)) \in Nat
        BY HoldersFinite
      <4>3. /\ IsFiniteSet(Holders(i) \cup {c})
            /\ Cardinality(Holders(i) \cup {c}) <= Cardinality(Holders(i)) + 1
            /\ Cardinality(Holders(i) \cup {c}) \in Nat
        <5>1. /\ IsFiniteSet(Holders(i) \cup {c})
              /\ Cardinality(Holders(i) \cup {c}) =
                   IF c \in Holders(i) THEN Cardinality(Holders(i))
                                       ELSE Cardinality(Holders(i)) + 1
          BY <4>2, FS_AddElement
        <5> QED
          BY <4>2, <5>1
      <4>4. /\ Cardinality(Holders(i)') <= Cardinality(Holders(i) \cup {c})
            /\ Cardinality(Holders(i)') \in Nat
        BY <4>1, <4>3, FS_Subset, FS_CardinalityType
      <4>5. /\ hist'[i].nacks = hist[i].nacks /\ hist'[i].handed = hist[i].handed + 1
        BY <2>1, <3>2
      <4>6. hist[i].nacks + Cardinality(Holders(i)) <= hist[i].handed
        BY <2>1 DEF Owed
      <4>7. hist[i].nacks \in Nat /\ hist[i].handed \in Nat
        BY <2>1, EntryNumbers
      <4> QED
        BY <4>2, <4>3, <4>4, <4>5, <4>6, <4>7
    <3> QED
      BY <3>1, <3>2
  <2> QED
    BY <2>2 DEF Owed
<1>3. ASSUME NEW c \in Consumers, NEW id \in DOMAIN hold[c], AckMsg(c, id) PROVE Owed'
  <2>1. /\ DOMAIN hist' = DOMAIN hist
        /\ \A i \in DOMAIN hist : /\ hist'[i].nacks = hist[i].nacks
                                  /\ hist'[i].handed = hist[i].handed
        /\ \A d \in Consumers : DOMAIN hold'[d] \subseteq DOMAIN hold[d]
    BY <1>3, AckStep
  <2>2. \A i : Holders(i)' \subseteq Holders(i)
    BY <2>1 DEF Holders
  <2> QED
    BY <2>1, <2>2, OwedKept DEF Owed
<1>4. ASSUME NEW c \in Consumers, NEW id \in DOMAIN hold[c], NackMsg(c, id) PROVE Owed'
  <2>1. /\ DOMAIN hist' = DOMAIN hist /\ id \in DOMAIN hist
        /\ hist'[id].nacks = hist[id].nacks + 1 /\ hist'[id].handed = hist[id].handed
        /\ \A i \in DOMAIN hist \ {id} : hist'[i] = hist[i]
        /\ \A d \in Consumers : DOMAIN hold'[d] \subseteq DOMAIN hold[d]
    BY <1>4, NackStep
  <2>2. \A i : Holders(i)' \subseteq Holders(i)
    BY <2>1 DEF Holders
  <2>3. Holders(id)' \subseteq Holders(id) \ {c}
    <3>1. id \notin DOMAIN hold'[c]
      BY <1>4 DEF NackMsg, Settled, TypeOK
    <3> QED
      BY <2>2, <3>1 DEF Holders
  <2>4. hist'[id].nacks + Cardinality(Holders(id)') <= hist'[id].handed
    <3>1. c \in Holders(id)
      BY DEF Holders
    <3>2. IsFiniteSet(Holders(id)) /\ Cardinality(Holders(id)) \in Nat
      BY HoldersFinite
    <3>3. /\ IsFiniteSet(Holders(id) \ {c})
          /\ Cardinality(Holders(id) \ {c}) = Cardinality(Holders(id)) - 1
      BY <3>1, <3>2, FS_RemoveElement
    <3>4. /\ Cardinality(Holders(id)') <= Cardinality(Holders(id) \ {c})
          /\ Cardinality(Holders(id)') \in Nat
      BY <2>3, <3>3, FS_Subset, FS_CardinalityType
    <3>5. hist[id].nacks + Cardinality(Holders(id)) <= hist[id].handed
      BY <2>1 DEF Owed
    <3>6. hist[id].nacks \in Nat /\ hist[id].handed \in Nat
      BY <2>1, EntryNumbers
    <3> QED
      BY <2>1, <3>2, <3>3, <3>4, <3>5, <3>6
  <2> QED
    BY <2>1, <2>2, <2>4, OwedKept DEF Owed
<1>5. CASE Q
  <2>1. hist' = hist /\ \A d \in Consumers : DOMAIN hold'[d] \subseteq DOMAIN hold[d]
    BY <1>5, QuietStep DEF NoItems
  <2>2. \A i : Holders(i)' \subseteq Holders(i)
    BY <2>1 DEF Holders
  <2> QED
    BY <2>1, <2>2, OwedKept DEF Owed
<1> QED
  BY <1>1, <1>2, <1>3, <1>4, <1>5 DEF Next, Produce, Consume

---------------------------------------------------------------------------
(* Each step of the code's queue is a step of the abstract queue, or none. *)

\* A message that somebody holds was handed out; a nack of it leaves at least
\* as many hand-outs as nacks.
LEMMA HeldWasHanded ==
    ASSUME TypeOK, Owed, NEW c \in Consumers, NEW id \in DOMAIN hold[c]
    PROVE  id \in DOMAIN hist /\ hist[id].nacks + 1 <= hist[id].handed
<1>1. id \in DOMAIN hist
  BY DEF TypeOK
<1>2. c \in Holders(id)
  BY DEF Holders
<1>3. Cardinality(Holders(id)) \in Nat /\ Cardinality(Holders(id)) /= 0
  BY <1>2, HoldersFinite, FS_EmptySet
<1>4. hist[id].nacks + Cardinality(Holders(id)) <= hist[id].handed
  BY <1>1 DEF Owed
<1> QED
  BY <1>1, <1>3, <1>4, EntryNumbers

\* The abstract queue sees no step if the entries and the ids keep their values.
LEMMA SeenKept ==
    ASSUME DOMAIN hist' = DOMAIN hist,
           \A i \in DOMAIN hist : /\ hist'[i].payload = hist[i].payload
                                  /\ hist'[i].handed = hist[i].handed
                                  /\ Outcome(i)' = Outcome(i)
    PROVE  Seen' = Seen
  BY DEF Seen

\* QueueEnqueue puts the message (queue.go:36-48).
LEMMA PutStep ==
    ASSUME TypeOK, NoSilentLoss, NEW p \in Producers, EnqueueMsg(p)
    PROVE  Promise!Put(p)
<1> DEFINE new == queue.seq + 1
<1>1. /\ DOMAIN hist = 1 .. queue.seq /\ DOMAIN hist' = DOMAIN hist \cup {new}
      /\ Ids(queue') = Ids(queue) \cup {new}
      /\ new \notin DOMAIN hist /\ new \notin Ids(queue)
      /\ \A i \in DOMAIN hist : hist'[i] = hist[i]
      /\ hist'[new].payload = p /\ hist'[new].handed = 0
  BY EnqueueStep
<1>2. Cardinality(DOMAIN Seen) + 1 = new
  <2>1. queue.seq \in Nat /\ DOMAIN Seen = 1 .. queue.seq
    BY <1>1 DEF Seen, TypeOK, IsQueue
  <2>2. Cardinality(1 .. queue.seq) = queue.seq
    BY <2>1, FS_Interval
  <2> QED
    BY <2>1, <2>2
<1>3. PICK id : id = new
  OBVIOUS
<1>4. Outcome(id)' = "pending"
  BY <1>1, <1>3 DEF Outcome
<1>5. \A i \in DOMAIN hist : Outcome(i)' = Outcome(i)
  BY <1>1 DEF Outcome
<1>6. Seen' = [i \in DOMAIN Seen \cup {id} |->
                 IF i = id THEN Promise!Message(p, 0, "pending") ELSE Seen[i]]
  BY <1>1, <1>3, <1>4, <1>5 DEF Seen, Promise!Message
<1>7. Promise!Cardinality(DOMAIN Seen) + 1 = id
  BY <1>2, <1>3 DEF Promise!Cardinality, Cardinality
<1> QED
  BY <1>6, <1>7 DEF Promise!Put, Seen

\* QueueLease hands out the items it leases (queue.go:69-90).
LEMMA HandStep ==
    ASSUME TypeOK, NEW c \in Consumers, LeaseBatch(c)
    PROVE  \E ids \in SUBSET Promise!Pending : Promise!Hand(ids)
<1> DEFINE L == Leasable(queue, BatchSize, cnow[c])
<1>1. /\ Ids(queue') = Ids(queue) /\ DOMAIN hist' = DOMAIN hist /\ L \subseteq Ids(queue)
      /\ \A i \in L : hist'[i] = Entry(hist[i].payload, hist[i].at, hist[i].handed + 1,
                                       hist[i].nacks, hist[i].acks)
      /\ \A i \in DOMAIN hist \ L : hist'[i] = hist[i]
  BY LeaseStep
<1>2. Ids(queue) \subseteq DOMAIN hist
  BY DEF TypeOK, IsQueue
<1> HIDE DEF L
<1>3. PICK ids : ids = L
  OBVIOUS
<1>4. ids \in SUBSET Promise!Pending
  BY <1>1, <1>2, <1>3 DEF Promise!Pending, Outcome
<1>5. /\ \A i \in ids : /\ hist'[i].payload = hist[i].payload
                        /\ hist'[i].handed = hist[i].handed + 1
                        /\ Outcome(i)' = "pending"
      /\ \A i \in DOMAIN hist \ ids : hist'[i] = hist[i] /\ Outcome(i)' = Outcome(i)
  BY <1>1, <1>3, Fields DEF Outcome
<1>6. Seen' = [i \in DOMAIN Seen |->
                 IF i \in ids THEN Promise!Message(Seen[i].payload, Seen[i].handed + 1, "pending")
                              ELSE Seen[i]]
  BY <1>1, <1>2, <1>3, <1>5 DEF Seen, Promise!Message
<1>7. Promise!Hand(ids)
  BY <1>6 DEF Promise!Hand, Seen
<1> QED
  BY <1>4, <1>7

\* An ack that finds the item settles it; a late one changes nothing
\* (queue.go:93-106).
LEMMA SettleStep ==
    ASSUME TypeOK, NoSilentLoss, Owed,
           NEW c \in Consumers, NEW id \in DOMAIN hold[c], AckMsg(c, id)
    PROVE  (\E i \in Promise!Pending : Promise!Settle(i)) \/ Seen' = Seen
<1>1. /\ Ids(queue') = Ids(queue) \ {id} /\ DOMAIN hist' = DOMAIN hist /\ id \in DOMAIN hist
      /\ hist'[id] = Entry(hist[id].payload, hist[id].at, hist[id].handed,
                           hist[id].nacks, hist[id].acks + Removes(id))
      /\ \A i \in DOMAIN hist \ {id} : hist'[i] = hist[i]
  BY AckStep
<1>2. /\ hist'[id].payload = hist[id].payload /\ hist'[id].handed = hist[id].handed
      /\ hist'[id].acks = hist[id].acks + Removes(id)
  BY <1>1, Fields
<1>3. hist[id].acks \in Nat /\ hist[id].handed > 0
  BY <1>1, EntryNumbers, HeldWasHanded
<1>4. \A i \in DOMAIN hist \ {id} : Outcome(i)' = Outcome(i)
  BY <1>1 DEF Outcome
<1>5. CASE id \notin Ids(queue)
  <2>1. Outcome(id)' = Outcome(id)
    BY <1>1, <1>2, <1>3, <1>5 DEF Outcome, Removes
  <2> QED
    BY <1>1, <1>2, <1>4, <2>1, SeenKept
<1>6. CASE id \in Ids(queue)
  <2>1. Outcome(id)' = "acked" /\ Outcome(id) = "pending"
    BY <1>1, <1>2, <1>3, <1>6 DEF Outcome, Removes
  <2>2. id \in Promise!Pending
    BY <1>1, <2>1 DEF Promise!Pending
  <2>3. Seen' = [Seen EXCEPT ![id] =
                   Promise!Message(Seen[id].payload, Seen[id].handed, "acked")]
    BY <1>1, <1>2, <1>4, <2>1 DEF Seen, Promise!Message
  <2>4. Seen[id].handed > 0
    BY <1>1, <1>3 DEF Seen
  <2>5. Promise!Settle(id)
    BY <2>3, <2>4 DEF Promise!Settle, Seen
  <2> QED
    BY <2>2, <2>5
<1> QED
  BY <1>5, <1>6

\* The nack of a last attempt discards the item; any other is invisible
\* (queue.go:117-143).
LEMMA DiscardStep ==
    ASSUME TypeOK, NoSilentLoss, Owed,
           NEW c \in Consumers, NEW id \in DOMAIN hold[c], NackMsg(c, id)
    PROVE  (\E i \in Promise!Pending : Promise!Discard(i)) \/ Seen' = Seen
<1> DEFINE kept == id \in Ids(queue) /\ ~Exhausted(queue.items[id].attempts + 1, MaxAttempts)
<1>1. /\ kept => Ids(queue') = Ids(queue)
      /\ ~kept => Ids(queue') = Ids(queue) \ {id}
      /\ DOMAIN hist' = DOMAIN hist /\ id \in DOMAIN hist
      /\ hist'[id] = Entry(hist[id].payload, hist[id].at, hist[id].handed,
                           hist[id].nacks + 1, hist[id].acks)
      /\ \A i \in DOMAIN hist \ {id} : hist'[i] = hist[i]
  BY NackStep
<1>2. /\ hist'[id].payload = hist[id].payload /\ hist'[id].handed = hist[id].handed
      /\ hist'[id].acks = hist[id].acks
  BY <1>1, Fields
<1>3. \A i \in DOMAIN hist \ {id} : Outcome(i)' = Outcome(i)
  BY <1>1 DEF Outcome
<1>4. CASE kept \/ id \notin Ids(queue)
  <2>1. id \in Ids(queue') <=> id \in Ids(queue)
    BY <1>1, <1>4
  <2>2. Outcome(id)' = Outcome(id)
    BY <1>2, <2>1 DEF Outcome
  <2> QED
    BY <1>1, <1>2, <1>3, <2>2, SeenKept
<1>5. CASE id \in Ids(queue) /\ Exhausted(queue.items[id].attempts + 1, MaxAttempts)
  <2>1. hist[id].acks = 0 /\ queue.items[id].attempts = hist[id].nacks
    BY <1>1, <1>5 DEF NoSilentLoss
  <2>2. Outcome(id)' = "dropped" /\ Outcome(id) = "pending"
    BY <1>1, <1>2, <1>5, <2>1 DEF Outcome
  <2>3. id \in Promise!Pending
    BY <1>1, <2>2 DEF Promise!Pending
  <2>4. MaxAttempts > 0 /\ hist[id].handed >= MaxAttempts
    <3>1. hist[id].nacks + 1 <= hist[id].handed
      BY HeldWasHanded
    <3>2. MaxAttempts > 0 /\ hist[id].nacks + 1 >= MaxAttempts
      BY <1>5, <2>1 DEF Exhausted
    <3> QED
      BY <1>1, <3>1, <3>2, EntryNumbers, MaxAttemptsAssumption
  <2>5. Seen' = [Seen EXCEPT ![id] =
                   Promise!Message(Seen[id].payload, Seen[id].handed, "dropped")]
    BY <1>1, <1>2, <1>3, <2>2 DEF Seen, Promise!Message
  <2>6. Seen[id].handed >= MaxAttempts
    BY <1>1, <2>4 DEF Seen
  <2>7. Promise!Discard(id)
    BY <2>4, <2>5, <2>6 DEF Promise!Discard, Seen
  <2> QED
    BY <2>3, <2>7
<1> QED
  BY <1>4, <1>5

\* Every step of the queue's clients and of the process maps to a step or a stutter.
LEMMA RefinementStep ==
    ASSUME TypeOK, NoSilentLoss, Owed, [Next]_vars
    PROVE  Promise!Next \/ Seen' = Seen
<1> DEFINE Q == \/ \E p \in Producers : ReadStamp(p)
                \/ \E c \in Consumers : ReadNow(c)
                \/ Tick \/ SetBack \/ Restart \/ UNCHANGED vars
<1>1. ASSUME NEW p \in Producers, EnqueueMsg(p) PROVE Promise!Next
  BY <1>1, PutStep DEF Promise!Next
<1>2. ASSUME NEW c \in Consumers, LeaseBatch(c) PROVE Promise!Next
  BY <1>2, HandStep DEF Promise!Next
<1>3. ASSUME NEW c \in Consumers, NEW id \in DOMAIN hold[c], AckMsg(c, id) \/ NackMsg(c, id)
      PROVE  Promise!Next \/ Seen' = Seen
  BY <1>3, SettleStep, DiscardStep DEF Promise!Next
<1>4. CASE Q
  BY <1>4, QuietStep, SeenKept DEF Outcome
<1> QED
  BY <1>1, <1>2, <1>3, <1>4 DEF Next, Produce, Consume

\* The durable queue keeps the promise of AtLeastOnce, "at-least-once : enqueue ->
\* lease -> ack ou nack" (queue.go:11-14): a message leaves only by an ack of a
\* hand-out or after MaxAttempts hand-outs, with any number of stale consumers,
\* restarts and clock changes.
THEOREM QueueKeepsPromise == Spec => ImplementsPromise
<1>1. Init => TypeOK /\ NoSilentLoss /\ Owed
  BY TypeInit, LossInit, OwedInit
<1>2. TypeOK /\ NoSilentLoss /\ Owed /\ [Next]_vars => (TypeOK /\ NoSilentLoss /\ Owed)'
  BY TypeStep, LossStep, OwedStep
<1>3. Init => Promise!Init
  BY DEF Init, Promise!Init, NoItems
<1>4. TypeOK /\ NoSilentLoss /\ Owed /\ [Next]_vars
        => [Promise!Next]_([i \in DOMAIN hist |->
             [payload |-> hist[i].payload, handed |-> hist[i].handed,
              status  |-> Outcome(i)]])
  BY RefinementStep DEF Seen
<1> QED
  BY <1>1, <1>2, <1>3, <1>4, PTL DEF Spec, ImplementsPromise, Promise!Spec
=============================================================================
