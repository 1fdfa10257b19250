---------------------------- MODULE DurableQueue ----------------------------
(***************************************************************************)
(* internal/store/queue.go under concurrent use.  Producers and consumers  *)
(* are goroutines of one process.  Every one of them reads the wall clock  *)
(* first and calls the store afterwards (the time is an argument,          *)
(* queue.go:14), so the clock may move between the two.  The transactions  *)
(* themselves are serialised by bbolt.  A restart loses everything but the *)
(* queue; the wall clock may be set back.                                  *)
(*                                                                         *)
(* A consumer follows worker/batch.go's drain: it leases a batch, and then *)
(* acks or nacks the items one by one in the order of the list it got.     *)
(***************************************************************************)
EXTENDS QueueOps, Integers

CONSTANTS Producers,    \* goroutines that enqueue; the payload is the producer
          Consumers,    \* goroutines that lease
          BatchSize,    \* max of QueueLease
          LeaseMs,      \* invisibility of a leased item
          BackoffMs,    \* backoff of QueueNack
          MaxAttempts,  \* maxAttempts of QueueNack, 0 for no limit
          MaxItems,     \* bound: how many messages are enqueued
          MaxClock,     \* bound: the clock stops here unless an item waits
          MaxFaults     \* bound: restarts plus clock set-backs

ASSUME ProducersAssumption == Producers /= {}
ASSUME ConsumersAssumption == IsFiniteSet(Consumers)
ASSUME BatchSizeAssumption == BatchSize \in Nat \ {0}
ASSUME LeaseMsAssumption == LeaseMs \in Nat \ {0}
ASSUME BackoffMsAssumption == BackoffMs \in Nat
ASSUME MaxAttemptsAssumption == MaxAttempts \in Nat
ASSUME BoundsAssumption == MaxItems \in Nat /\ MaxClock \in Nat /\ MaxFaults \in Nat

VARIABLES
    queue,   \* the durable bucket: survives a restart
    clock,   \* time.Now().UnixMilli()
    stamp,   \* stamp[p]: the clock a producer read and has not used yet
    cnow,    \* cnow[c]: the clock a consumer read and has not used yet
    hold,    \* hold[c]: the leased copies a consumer has still to settle
    faults,  \* how many faults have happened
    hist     \* history, read by properties only: what became of each id

vars == <<queue, clock, stamp, cnow, hold, faults, hist>>

\* "no clock read": not a time
None == -1
NoItems == [i \in {} |-> 0]

\* What a property may know of one message.
Entry(payload, at, handed, nacks, acks) ==
    [payload |-> payload, at |-> at, handed |-> handed, nacks |-> nacks, acks |-> acks]

Init ==
    /\ queue  = EmptyQueue
    /\ clock  = 0
    /\ stamp  = [p \in Producers |-> None]
    /\ cnow   = [c \in Consumers |-> None]
    /\ hold   = [c \in Consumers |-> NoItems]
    /\ faults = 0
    /\ hist   = NoItems

---------------------------------------------------------------------------
\* A producer evaluates time.Now() for the call of QueueEnqueue ...
ReadStamp(p) ==
    /\ stamp[p] = None
    /\ queue.seq < MaxItems
    /\ stamp' = [stamp EXCEPT ![p] = clock]
    /\ UNCHANGED <<queue, clock, cnow, hold, faults, hist>>

\* ... and the transaction runs, possibly later and after another producer's.
EnqueueMsg(p) ==
    /\ stamp[p] /= None
    /\ queue.seq < MaxItems
    /\ queue' = Enqueue(queue, p, stamp[p])
    /\ hist'  = [i \in DOMAIN hist \cup {queue'.seq} |->
                   IF i = queue'.seq THEN Entry(p, stamp[p], 0, 0, 0) ELSE hist[i]]
    /\ stamp' = [stamp EXCEPT ![p] = None]
    /\ UNCHANGED <<clock, cnow, hold, faults>>

\* A consumer with nothing left to settle starts a pass.
ReadNow(c) ==
    /\ hold[c] = NoItems
    /\ cnow[c] = None
    /\ cnow' = [cnow EXCEPT ![c] = clock]
    /\ UNCHANGED <<queue, clock, stamp, hold, faults, hist>>

LeaseBatch(c) ==
    /\ cnow[c] /= None
    /\ queue' = Lease(queue, BatchSize, LeaseMs, cnow[c])
    /\ hold'  = [hold EXCEPT ![c] = LeaseResult(queue, BatchSize, LeaseMs, cnow[c])]
    /\ hist'  = [i \in DOMAIN hist |->
                   IF i \in Leasable(queue, BatchSize, cnow[c])
                     THEN [hist[i] EXCEPT !.handed = hist[i].handed + 1] ELSE hist[i]]
    /\ cnow'  = [cnow EXCEPT ![c] = None]
    /\ UNCHANGED <<clock, stamp, faults>>

\* The next item of the returned list.
IsNext(c, id) ==
    /\ id \in DOMAIN hold[c]
    /\ \A j \in DOMAIN hold[c] : id <= j

Settled(c, id) ==
    hold' = [hold EXCEPT ![c] = [i \in DOMAIN hold[c] \ {id} |-> hold[c][i]]]

Removes(id) == IF id \in Ids(queue) THEN 1 ELSE 0

\* The item was processed: QueueAck.
AckMsg(c, id) ==
    /\ IsNext(c, id)
    /\ queue' = Ack(queue, id)
    /\ hist'  = [hist EXCEPT ![id].acks = hist[id].acks + Removes(id)]
    /\ Settled(c, id)
    /\ UNCHANGED <<clock, stamp, cnow, faults>>

\* Processing failed: QueueNack.  (The clock read of this call only moves the
\* end of the backoff, it is taken together with the transaction.)
NackMsg(c, id) ==
    /\ IsNext(c, id)
    /\ queue' = Nack(queue, id, BackoffMs, clock, MaxAttempts)
    /\ hist'  = [hist EXCEPT ![id].nacks = hist[id].nacks + 1]
    /\ Settled(c, id)
    /\ UNCHANGED <<clock, stamp, cnow, faults>>

---------------------------------------------------------------------------
\* Some item becomes due, or visible again, only if time passes.
Waiting == \E i \in Ids(queue) : \/ queue.items[i].notBefore > clock
                                 \/ queue.items[i].leaseUntil > clock

Tick ==
    /\ clock < MaxClock \/ Waiting
    /\ clock' = clock + 1
    /\ UNCHANGED <<queue, stamp, cnow, hold, faults, hist>>

\* The wall clock is set back (NTP, an operator).
SetBack ==
    /\ faults < MaxFaults
    /\ clock > 0
    /\ \E t \in 0 .. clock - 1 : clock' = t
    /\ faults' = faults + 1
    /\ UNCHANGED <<queue, stamp, cnow, hold, hist>>

\* The process stops and starts again: only the bbolt file is kept.
Restart ==
    /\ faults < MaxFaults
    /\ stamp'  = [p \in Producers |-> None]
    /\ cnow'   = [c \in Consumers |-> None]
    /\ hold'   = [c \in Consumers |-> NoItems]
    /\ faults' = faults + 1
    /\ UNCHANGED <<queue, clock, hist>>

Produce(p) == ReadStamp(p) \/ EnqueueMsg(p)
Consume(c) ==
    \/ ReadNow(c)
    \/ LeaseBatch(c)
    \/ \E id \in DOMAIN hold[c] : AckMsg(c, id) \/ NackMsg(c, id)

Next ==
    \/ \E p \in Producers : Produce(p)
    \/ \E c \in Consumers : Consume(c)
    \/ Tick
    \/ SetBack
    \/ Restart

Spec == Init /\ [][Next]_vars

---------------------------------------------------------------------------
(* Properties. *)

\* The types of the state: every hold is a copy of items of the queue's type,
\* every id below the sequence has a history (QueueItem, queue.go:20-27).
EntryType == [payload : Producers, at : Nat, handed : Nat, nacks : Nat, acks : Nat]

TypeOK ==
    /\ IsQueue(queue, Producers)
    /\ clock \in Nat
    /\ stamp \in [Producers -> Nat \cup {None}]
    /\ cnow \in [Consumers -> Nat \cup {None}]
    /\ hold = [c \in Consumers |-> hold[c]]
    /\ \A c \in Consumers :
          /\ DOMAIN hold[c] \subseteq 1 .. queue.seq
          /\ hold[c] \in [DOMAIN hold[c] -> ItemType(Producers)]
    /\ faults \in Nat
    /\ hist \in [1 .. queue.seq -> EntryType]

\* No message is lost without a trace (queue.go:93-146): an id that is no longer
\* in the bucket was acked once while it was there or was nacked MaxAttempts times;
\* one that is there was neither, and its attempts are the nacks it received,
\* whatever the leases, the stale consumers, the restarts and the clock did.
NoSilentLoss ==
    \A i \in DOMAIN hist :
        IF i \in Ids(queue)
          THEN /\ hist[i].acks = 0
               /\ queue.items[i].attempts = hist[i].nacks
               /\ ~Exhausted(hist[i].nacks, MaxAttempts)
          ELSE hist[i].acks = 1 \/ Exhausted(hist[i].nacks, MaxAttempts)

\* An id names one message for ever: what the bucket holds under it, and what a
\* consumer works on under it (even one whose lease ran out), is what was
\* enqueued under it.  QueueAck and QueueNack take nothing but the id, so this
\* is what keeps a late ack from deleting another message.
PayloadStable ==
    /\ \A i \in Ids(queue) : queue.items[i].payload = hist[i].payload
    /\ \A c \in Consumers : \A i \in DOMAIN hold[c] : hold[c][i].payload = hist[i].payload

\* A lease keeps other consumers away (queue.go:75-78): if two of them hold the
\* same attempt of a message, one leased it after the lease of the other had
\* ended.  A nack starts a new attempt, even one by a consumer whose own lease
\* had ended.
LeaseExclusive ==
    \A c, d \in Consumers :
        \A i \in DOMAIN hold[c] \cap DOMAIN hold[d] :
            (c /= d /\ hold[c][i].attempts = hold[d][i].attempts) =>
                \/ hold[c][i].leaseUntil + LeaseMs <= hold[d][i].leaseUntil
                \/ hold[d][i].leaseUntil + LeaseMs <= hold[c][i].leaseUntil

\* First hand-outs are in the order of the ids, except past a message whose
\* producer read a later clock than the producer behind it: "Ordre FIFO"
\* (queue.go:14, 57) up to the NotBefore stamp of line 46.
FirstHandFIFO ==
    \A i, j \in DOMAIN hist :
        (i < j /\ hist[j].handed > 0 /\ hist[i].handed = 0) => hist[i].at > hist[j].at

\* An id that has left the bucket never comes back (queue.go:122-125: a nack that
\* comes after the ack of another consumer finds nothing and writes nothing).
NoResurrection ==
    [][\A i \in 1 .. queue.seq : i \notin Ids(queue) => i \notin Ids(queue)']_vars

\* The queue keeps the promise of AtLeastOnce: a message is pending while it is
\* in the bucket.
Outcome(i) ==
    IF i \in Ids(queue) THEN "pending" ELSE IF hist[i].acks > 0 THEN "acked" ELSE "dropped"

Promise == INSTANCE AtLeastOnce WITH
    Payload <- Producers,
    msgs    <- [i \in DOMAIN hist |->
                  [payload |-> hist[i].payload, handed |-> hist[i].handed,
                   status  |-> Outcome(i)]]

\* The code's queue implements the abstract at-least-once queue (queue.go:11-14).
ImplementsPromise == Promise!Spec
=============================================================================
