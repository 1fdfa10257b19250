----------------------------- MODULE BatchUplink -----------------------------
(***************************************************************************)
(* The reporting half of internal/worker/batch.go: the drain goroutine     *)
(* that carries the reports of the durable queue to the parent through     *)
(* tunnel.Client.PushBatchReport, and the parent as drain sees it.         *)
(*                                                                         *)
(* A push is a unary RPC with a 30 s limit.  It may fail before the parent *)
(* got the report, and it may fail after (the reply is lost or late, the   *)
(* context is cancelled); drain sees an error in both cases.               *)
(***************************************************************************)
EXTENDS QueueOps, Process

CONSTANTS LeaseMax,      \* 5 in the code
          LeaseMs,       \* batchLeaseMs: 60 s
          BackoffMs,     \* 15 s
          MaxAttempts,   \* 20
          MaxReports     \* bound: how many reports are enqueued

ASSUME UplinkAssumption ==
    /\ LeaseMax \in Nat \ {0} /\ LeaseMs \in Nat \ {0} /\ BackoffMs \in Nat
    /\ MaxAttempts \in Nat \ {0} /\ MaxReports \in Nat

VARIABLES
    queue,      \* durable: the file "batch_reports"
    sent,       \* durable: the counter batch_reports_sent
    clock,      \* time.Now().UnixMilli()
    drain,      \* the drain goroutine: its pc and the leased items it has left
    received,   \* the parent: received[r] is how often it got the report r
    errors,     \* history: how many pushes returned an error
    gone        \* history: gone[i] is how the item i left the queue

uplinkVars == <<sent, clock, drain, received, errors, gone>>
vars == <<queue, processVars, uplinkVars>>

Nothing == [i \in {} |-> 0]

UplinkInit ==
    /\ sent = 0
    /\ clock = 0
    /\ drain = [pc |-> "off", items |-> Nothing]
    /\ received = Nothing
    /\ errors = 0
    /\ gone = Nothing

Init == ProcessInit /\ queue = EmptyQueue /\ UplinkInit

---------------------------------------------------------------------------
\* Run starts the goroutine once its persisted configuration is loaded.
DrainStart ==
    /\ phase = "up" /\ drain.pc = "off"
    /\ drain' = [drain EXCEPT !.pc = "tick"]
    /\ UNCHANGED <<queue, processVars, sent, clock, received, errors, gone>>

DrainStop ==
    /\ phase \in {"stopping", "closed"} /\ drain.pc = "tick"
    /\ drain' = [drain EXCEPT !.pc = "off"]
    /\ UNCHANGED <<queue, processVars, sent, clock, received, errors, gone>>

\* A tick of the 3 s ticker.  (The select may take it although the context is
\* cancelled.)
DrainLease ==
    /\ Alive /\ drain.pc = "tick" /\ StoreOpen
    /\ Leasable(queue, LeaseMax, clock) /= {}
    /\ queue' = Lease(queue, LeaseMax, LeaseMs, clock)
    /\ drain' = [pc |-> "push", items |-> LeaseResult(queue, LeaseMax, LeaseMs, clock)]
    /\ UNCHANGED <<processVars, sent, clock, received, errors, gone>>

\* The loop over the leased items is in the order of the lease.
Current == CHOOSE i \in DOMAIN drain.items : \A j \in DOMAIN drain.items : i <= j
Payload == drain.items[Current].payload

Rest == [i \in DOMAIN drain.items \ {Current} |-> drain.items[i]]

\* The end of the loop's body.
NextItem == [pc |-> IF Rest = Nothing THEN "tick" ELSE "push", items |-> Rest]

Times(r) == IF r \in DOMAIN received THEN received[r] ELSE 0

ParentGets(r) ==
    received' = [x \in DOMAIN received \cup {r} |-> IF x = r THEN Times(r) + 1 ELSE received[x]]

Pushing == Alive /\ drain.pc = "push"

\* The parent has the report and its reply arrives.
PushOk ==
    /\ Pushing /\ phase = "up"
    /\ ParentGets(Payload)
    /\ drain' = [drain EXCEPT !.pc = "ack"]
    /\ UNCHANGED <<queue, processVars, sent, clock, errors, gone>>

\* The parent has the report, the RPC returns an error.
PushReplyLost ==
    /\ Pushing
    /\ ParentGets(Payload)
    /\ errors' = errors + 1
    /\ drain' = [drain EXCEPT !.pc = "nack"]
    /\ UNCHANGED <<queue, processVars, sent, clock, gone>>

\* The parent does not have the report.  (With a cancelled context, always.)
PushFails ==
    /\ Pushing
    /\ errors' = errors + 1
    /\ drain' = [drain EXCEPT !.pc = "nack"]
    /\ UNCHANGED <<queue, processVars, sent, clock, received, gone>>

Leaves(i, how) ==
    gone' = [k \in DOMAIN gone \cup {i} |->
               IF k = i THEN [how |-> how, report |-> queue.items[i].payload,
                              attempts |-> queue.items[i].attempts]
                        ELSE gone[k]]

\* An error of QueueAck, QueueNack or Incr is ignored: the store is closed.
DrainAck ==
    /\ Alive /\ drain.pc = "ack"
    /\ IF StoreOpen /\ Current \in Ids(queue)
         THEN queue' = Ack(queue, Current) /\ Leaves(Current, "acked")
         ELSE UNCHANGED <<queue, gone>>
    /\ drain' = [drain EXCEPT !.pc = "count"]
    /\ UNCHANGED <<processVars, sent, clock, received, errors>>

DrainCount ==
    /\ Alive /\ drain.pc = "count"
    /\ sent' = IF StoreOpen THEN sent + 1 ELSE sent
    /\ drain' = NextItem
    /\ UNCHANGED <<queue, processVars, clock, received, errors, gone>>

\* A drain that acks whatever the push returned.
DrainAckAnyway ==
    /\ Alive /\ drain.pc = "nack"
    /\ IF StoreOpen /\ Current \in Ids(queue)
         THEN queue' = Ack(queue, Current) /\ Leaves(Current, "acked")
         ELSE UNCHANGED <<queue, gone>>
    /\ drain' = NextItem
    /\ UNCHANGED <<processVars, sent, clock, received, errors>>

\* QueueNack with the backoff, at most MaxAttempts times.
DrainNack ==
    /\ Alive /\ drain.pc = "nack"
    /\ IF StoreOpen
         THEN LET i == Current
                  q == Nack(queue, i, BackoffMs, clock, MaxAttempts)
              IN  /\ queue' = q
                  /\ IF i \in Ids(queue) \ Ids(q) THEN Leaves(i, "dropped") ELSE UNCHANGED gone
         ELSE UNCHANGED <<queue, gone>>
    /\ drain' = NextItem
    /\ UNCHANGED <<processVars, sent, clock, received, errors>>

---------------------------------------------------------------------------
\* Time matters only while an item waits for its backoff or its lease.
Waiting == \E i \in Ids(queue) : \/ queue.items[i].notBefore > clock
                                 \/ queue.items[i].leaseUntil > clock
Tick ==
    /\ Waiting
    /\ clock' = clock + 1
    /\ UNCHANGED <<queue, processVars, sent, drain, received, errors, gone>>

\* The process ends: what drain had leased stays leased.
Forget ==
    /\ drain' = [pc |-> "off", items |-> Nothing]
    /\ UNCHANGED <<sent, clock, received, errors, gone>>

DrainStep ==
    \/ DrainStart \/ DrainStop
    \/ DrainLease
    \/ PushOk \/ PushReplyLost \/ PushFails
    \/ DrainAck \/ DrainCount \/ DrainNack

\* The scheduler as drain sees it: some goroutine enqueues the next report.
NewReport ==
    /\ StoreOpen /\ queue.seq < MaxReports
    /\ queue' = Enqueue(queue, queue.seq + 1, clock)
    /\ UNCHANGED <<processVars, uplinkVars>>

ProcessStep ==
    /\ \/ (Sigterm \/ CloseStore \/ Boot) /\ UNCHANGED uplinkVars
       \/ (Exit \/ Crash) /\ Forget
    /\ UNCHANGED queue

Next == NewReport \/ DrainStep \/ Tick \/ ProcessStep

Spec == Init /\ [][Next]_vars

\* drain is a loop over a ticker whose every step ends (a push by its 30 s
\* limit); time passes; systemd starts the agent again (Restart=always), and a
\* shutdown goes on once it began.
FairSpec ==
    /\ Spec
    /\ WF_vars(DrainStep)
    /\ WF_vars(Tick)
    /\ WF_vars(ProcessStep /\ ~Sigterm /\ ~Crash)

---------------------------------------------------------------------------
(* Properties. *)

\* The types of the state (QueueItem, and the locals of drain, batch.go:213-219).
TypeOK ==
    /\ phase \in Phases /\ faults \in 0 .. MaxFaults
    /\ IsQueue(queue, 1 .. MaxReports)
    /\ sent \in Nat /\ clock \in Nat /\ errors \in Nat
    /\ drain = [pc |-> drain.pc, items |-> drain.items]
    /\ drain.pc \in {"off", "tick", "push", "ack", "count", "nack"}
    /\ DOMAIN drain.items \subseteq 1 .. queue.seq
    /\ drain.items \in [DOMAIN drain.items -> ItemType(1 .. MaxReports)]
    /\ received \in [DOMAIN received -> Nat]
    /\ gone \in [(1 .. queue.seq) \ Ids(queue) ->
                  [how : {"acked", "dropped"}, report : 1 .. MaxReports, attempts : Nat]]

Delivered(r) == Times(r) > 0

\* A report leaves the queue after the parent got it, or after MaxAttempts errors
\* (batch.go:224-228, queue.go:132): never by a crash, a stop, a lost reply or a
\* write that failed.
NoReportLost ==
    \A i \in DOMAIN gone :
        IF gone[i].how = "acked" THEN Delivered(gone[i].report)
                                 ELSE gone[i].attempts + 1 = MaxAttempts /\ errors >= MaxAttempts

\* The parent gets a report again only after an error or a stop: each attempt
\* that the item counts, each fault, and the attempt under way account for one
\* delivery (batch.go:224-228; the parent drops the others by their run id).
DuplicatesBounded ==
    /\ \A i \in Ids(queue) :
         Times(queue.items[i].payload) <=
           queue.items[i].attempts + faults
             + (IF drain.pc \in {"ack", "nack"} /\ Current = i THEN 1 ELSE 0)
    /\ \A i \in DOMAIN gone : Times(gone[i].report) <= gone[i].attempts + 1 + faults

\* Every report is delivered in the end, unless pushes failed MaxAttempts times:
\* also the one that a dead process had leased (batch.go:203-204).
EventuallyDelivered ==
    \A i \in 1 .. MaxReports :
        i \in Ids(queue) ~> (Delivered(i) \/ errors >= MaxAttempts)
=============================================================================
