-------------------------- MODULE BatchUplinkProofs --------------------------
(***************************************************************************)
(* Theorems about BatchUplink for any number of reports, pushes, stops and *)
(* crashes and any lease, backoff, batch size and attempt limit.           *)
(***************************************************************************)
EXTENDS BatchUplink, QueueOpsProofs, WellFoundedInduction

\* A set of ids has a first one.
LEMMA Smallest ==
    ASSUME NEW S \in SUBSET Nat, S /= {}
    PROVE  \E m \in S : \A j \in S : m <= j
<1> DEFINE R == {ss \in Nat \X Nat : ss[1] < ss[2]}
<1>1. IsWellFoundedOn(R, Nat)
  BY NatLessThanWellFounded DEF OpToRel
<1> HIDE DEF R
<1>2. PICK m \in S : \A y \in S : ~ (<<y, m>> \in R)
  BY <1>1, WFMin
<1>3. \A j \in S : ~(j < m)
  BY <1>2 DEF R
<1> QED
  BY <1>3

\* The item drain works on is one that it has left.
LEMMA CurrentIsLeft ==
    ASSUME TypeOK, DOMAIN drain.items /= {}
    PROVE  Current \in DOMAIN drain.items
<1>1. DOMAIN drain.items \in SUBSET Nat
  BY DEF TypeOK
<1>2. \E m \in DOMAIN drain.items : \A j \in DOMAIN drain.items : m <= j
  BY <1>1, Smallest
<1> QED
  BY <1>2 DEF Current

\* What is left after the current item.
LEMMA RestLemma ==
    ASSUME TypeOK
    PROVE  /\ NextItem = [pc |-> NextItem.pc, items |-> NextItem.items]
           /\ NextItem.items = Rest /\ NextItem.pc \in {"tick", "push"}
           /\ DOMAIN Rest = DOMAIN drain.items \ {Current}
           /\ \A i \in DOMAIN Rest : Rest[i] = drain.items[i]
           /\ Rest \in [DOMAIN Rest -> ItemType(1 .. MaxReports)]
           /\ NextItem.pc = "push" => DOMAIN Rest /= {}
<1>1. /\ DOMAIN Rest = DOMAIN drain.items \ {Current}
      /\ \A i \in DOMAIN Rest : Rest[i] = drain.items[i]
      /\ Rest \in [DOMAIN Rest -> ItemType(1 .. MaxReports)]
  BY DEF Rest, TypeOK
<1>2. DOMAIN Rest = {} => Rest = Nothing
  BY DEF Rest, Nothing
<1>3. /\ NextItem.items = Rest
      /\ NextItem.pc = IF Rest = Nothing THEN "tick" ELSE "push"
      /\ NextItem = [pc |-> NextItem.pc, items |-> NextItem.items]
  BY DEF NextItem
<1> QED
  BY <1>1, <1>2, <1>3

\* A step that only moves drain's pc.
LEMMA PcUpdate ==
    ASSUME TypeOK, NEW x, drain' = [drain EXCEPT !.pc = x]
    PROVE  /\ drain' = [pc |-> x, items |-> drain.items]
           /\ drain'.pc = x /\ drain'.items = drain.items
  BY DEF TypeOK

\* An item that leaves is recorded once, with what it carried.
LEMMA LeavesLemma ==
    ASSUME TypeOK, NEW i \in Ids(queue), NEW how \in {"acked", "dropped"}, Leaves(i, how)
    PROVE  /\ DOMAIN gone' = DOMAIN gone \cup {i}
           /\ gone'[i].how = how /\ gone'[i].report = queue.items[i].payload
           /\ gone'[i].attempts = queue.items[i].attempts
           /\ \A k \in DOMAIN gone : k /= i /\ gone'[k] = gone[k]
           /\ gone' \in [DOMAIN gone' ->
                [how : {"acked", "dropped"}, report : 1 .. MaxReports, attempts : Nat]]
<1>1. queue.items[i] \in ItemType(1 .. MaxReports)
  BY DEF TypeOK, IsQueue
<1>2. queue.items[i].payload \in 1 .. MaxReports /\ queue.items[i].attempts \in Nat
  BY <1>1 DEF ItemType
<1>3. i \notin DOMAIN gone
  BY DEF TypeOK
<1> DEFINE e == [how |-> how, report |-> queue.items[i].payload,
                 attempts |-> queue.items[i].attempts]
<1>4. /\ e \in [how : {"acked", "dropped"}, report : 1 .. MaxReports, attempts : Nat]
      /\ e.how = how /\ e.report = queue.items[i].payload
      /\ e.attempts = queue.items[i].attempts
  BY <1>2
<1>5. gone' = [k \in DOMAIN gone \cup {i} |-> IF k = i THEN e ELSE gone[k]]
  BY DEF Leaves
<1> HIDE DEF e
<1>6. gone \in [DOMAIN gone -> [how : {"acked", "dropped"}, report : 1 .. MaxReports,
                                attempts : Nat]]
  BY DEF TypeOK
<1> QED
  BY <1>3, <1>4, <1>5, <1>6

---------------------------------------------------------------------------
(* What each step changes. *)

\* The steps that touch neither a report nor a push.
Quiet == DrainStart \/ DrainStop \/ Tick \/ ProcessStep \/ UNCHANGED vars

LEMMA QuietEffect ==
    ASSUME TypeOK, Quiet
    PROVE  /\ queue' = queue /\ sent' = sent /\ received' = received
           /\ errors' = errors /\ gone' = gone
           /\ clock' \in Nat /\ phase' \in Phases /\ faults' \in 0 .. MaxFaults
           /\ drain' = [pc |-> drain'.pc, items |-> drain'.items]
           /\ \/ drain' = drain /\ phase' = phase /\ faults' = faults
              \/ /\ drain.pc \in {"off", "tick"} /\ drain'.pc \in {"off", "tick"}
                 /\ drain'.items = drain.items /\ phase' = phase /\ faults' = faults
              \/ /\ drain' = drain /\ phase' = "stopping" /\ faults' = faults + 1
              \/ /\ drain' = drain /\ phase = "stopping" /\ phase' = "closed"
                 /\ faults' = faults
              \/ /\ drain' = drain /\ phase' = "up" /\ faults' = faults
              \/ /\ drain'.pc = "off" /\ drain'.items = Nothing /\ phase' = "down"
                 /\ (phase = "closed" /\ faults' = faults) \/ faults' = faults + 1
<1>1. CASE DrainStart
  <2>1. /\ drain'.pc = "tick" /\ drain'.items = drain.items
        /\ drain' = [pc |-> "tick", items |-> drain.items]
    BY <1>1, PcUpdate DEF DrainStart
  <2> QED
    BY <1>1, <2>1 DEF DrainStart, TypeOK, processVars
<1>2. CASE DrainStop
  <2>1. /\ drain'.pc = "off" /\ drain'.items = drain.items
        /\ drain' = [pc |-> "off", items |-> drain.items]
    BY <1>2, PcUpdate DEF DrainStop
  <2> QED
    BY <1>2, <2>1 DEF DrainStop, TypeOK, processVars
<1>3. CASE Tick
  BY <1>3 DEF Tick, TypeOK, processVars
<1>4. CASE ProcessStep
  <2>1. phase' \in Phases /\ faults' \in 0 .. MaxFaults /\ queue' = queue
    BY <1>4, MaxFaultsAssumption
    DEF ProcessStep, Sigterm, CloseStore, Boot, Exit, Crash, Alive, Phases, TypeOK
  <2>2. CASE (Sigterm \/ CloseStore \/ Boot) /\ UNCHANGED uplinkVars
    BY <2>1, <2>2 DEF Sigterm, CloseStore, Boot, uplinkVars, TypeOK
  <2>3. CASE (Exit \/ Crash) /\ Forget
    BY <2>1, <2>3 DEF Exit, Crash, Forget, TypeOK
  <2> QED
    BY <1>4, <2>2, <2>3 DEF ProcessStep
<1>5. CASE UNCHANGED vars
  BY <1>5 DEF vars, processVars, uplinkVars, TypeOK
<1> QED
  BY <1>1, <1>2, <1>3, <1>4, <1>5 DEF Quiet

\* A goroutine of the scheduler enqueues a report under a fresh id.
LEMMA ReportEffect ==
    ASSUME TypeOK, NewReport
    PROVE  LET id == queue.seq + 1 IN
           /\ queue'.seq = id /\ id \in Nat /\ id \notin Ids(queue) /\ id \in 1 .. MaxReports
           /\ Ids(queue') = Ids(queue) \cup {id}
           /\ queue'.items[id].payload = id /\ queue'.items[id].attempts = 0
           /\ \A i \in Ids(queue) : queue'.items[i] = queue.items[i]
           /\ IsQueue(queue', 1 .. MaxReports)
           /\ UNCHANGED <<sent, clock, drain, received, errors, gone, phase, faults>>
<1> DEFINE id == queue.seq + 1
<1>1. id \in 1 .. MaxReports /\ id \in Nat
  BY UplinkAssumption DEF NewReport, TypeOK, IsQueue
<1>2. IsQueue(queue, 1 .. MaxReports) /\ IsMs(clock) /\ queue' = Enqueue(queue, id, clock)
  BY DEF NewReport, TypeOK, IsMs
<1>3. /\ IsQueue(queue', 1 .. MaxReports) /\ queue'.seq = id /\ id \notin Ids(queue)
      /\ Ids(queue') = Ids(queue) \cup {id} /\ queue'.items[id] = Item(id, 0, clock, 0)
      /\ \A i \in Ids(queue) : queue'.items[i] = queue.items[i]
  <2>1. PICK n : n = id
    OBVIOUS
  <2>2. n \in 1 .. MaxReports /\ queue' = Enqueue(queue, n, clock)
    BY <1>1, <1>2, <2>1
  <2>3. /\ IsQueue(queue', 1 .. MaxReports) /\ queue'.seq = queue.seq + 1
        /\ queue.seq + 1 \notin Ids(queue)
        /\ Ids(queue') = Ids(queue) \cup {queue.seq + 1}
        /\ queue'.items[queue.seq + 1] = Item(n, 0, clock, 0)
        /\ \A i \in Ids(queue) : queue'.items[i] = queue.items[i]
    <3> DEFINE Reports == 1 .. MaxReports
    <3>1. n \in Reports /\ IsQueue(queue, Reports)
      BY <1>2, <2>2
    <3> HIDE DEF Reports
    <3>2. LET q == Enqueue(queue, n, clock) IN
          /\ IsQueue(q, Reports) /\ q.seq = queue.seq + 1
          /\ queue.seq + 1 \notin Ids(queue)
          /\ Ids(q) = Ids(queue) \cup {queue.seq + 1}
          /\ q.items[queue.seq + 1] = Item(n, 0, clock, 0)
          /\ \A i \in Ids(queue) : q.items[i] = queue.items[i]
      BY <1>2, <3>1, EnqueueLemma
    <3> USE DEF Reports
    <3> QED
      BY <2>2, <3>2
  <2> QED
    BY <2>1, <2>3
<1>4. queue'.items[id].payload = id /\ queue'.items[id].attempts = 0
  BY <1>3 DEF Item
<1>5. UNCHANGED <<sent, clock, drain, received, errors, gone, phase, faults>>
  BY DEF NewReport, processVars, uplinkVars
<1> QED
  BY <1>1, <1>3, <1>4, <1>5

\* A lease keeps every report and its attempts and leaves drain with copies.
LEMMA LeaseEffect ==
    ASSUME TypeOK, DrainLease
    PROVE  /\ IsQueue(queue', 1 .. MaxReports)
           /\ queue'.seq = queue.seq /\ Ids(queue') = Ids(queue)
           /\ \A i \in Ids(queue) : /\ queue'.items[i].payload = queue.items[i].payload
                                    /\ queue'.items[i].attempts = queue.items[i].attempts
           /\ drain = [pc |-> "tick", items |-> drain.items]
           /\ drain' = [pc |-> "push", items |-> drain'.items] /\ drain'.pc = "push"
           /\ DOMAIN drain'.items /= {} /\ DOMAIN drain'.items \subseteq Ids(queue)
           /\ drain'.items \in [DOMAIN drain'.items -> ItemType(1 .. MaxReports)]
           /\ \A i \in DOMAIN drain'.items :
                drain'.items[i].payload = queue.items[i].payload
           /\ phase \in {"up", "stopping"}
           /\ UNCHANGED <<sent, clock, received, errors, gone, phase, faults>>
<1> DEFINE L == Leasable(queue, LeaseMax, clock)
           h == LeaseResult(queue, LeaseMax, LeaseMs, clock)
<1>1. /\ IsQueue(queue, 1 .. MaxReports) /\ IsMs(clock) /\ IsMs(LeaseMs)
      /\ queue' = Lease(queue, LeaseMax, LeaseMs, clock)
      /\ clock + LeaseMs \in Nat
  BY UplinkAssumption DEF DrainLease, TypeOK, IsMs
<1>2. /\ IsQueue(queue', 1 .. MaxReports)
      /\ queue'.seq = queue.seq /\ Ids(queue') = Ids(queue)
  BY <1>1, LeaseTypeLemma
<1>3. /\ L \subseteq Ids(queue) /\ DOMAIN h = L
      /\ h \in [L -> ItemType(1 .. MaxReports)]
      /\ \A i \in L : h[i] = LeaseTo(queue.items[i], clock + LeaseMs)
  <2>1. /\ L \subseteq Ids(queue) /\ DOMAIN h = L
        /\ h \in [L -> ItemType(1 .. MaxReports)]
    BY <1>1, LeaseResultLemma
  <2>2. \A i \in L : h[i] = LeaseTo(queue.items[i], clock + LeaseMs)
    BY LeaseCopiesLemma
  <2> QED
    BY <2>1, <2>2
<1>4. \A i \in Ids(queue) :
        /\ queue.items[i] \in ItemType(1 .. MaxReports)
        /\ LeaseTo(queue.items[i], clock + LeaseMs).payload = queue.items[i].payload
        /\ LeaseTo(queue.items[i], clock + LeaseMs).attempts = queue.items[i].attempts
  <2>1. \A i \in Ids(queue) : queue.items[i] \in ItemType(1 .. MaxReports)
    BY <1>1 DEF IsQueue
  <2> QED
    BY <1>1, <2>1, LeaseToLemma
<1>5. \A i \in Ids(queue) : /\ queue'.items[i].payload = queue.items[i].payload
                            /\ queue'.items[i].attempts = queue.items[i].attempts
  BY <1>1, <1>4, LeaseItemsLemma
<1> HIDE DEF h, L
<1>6. /\ drain' = [pc |-> "push", items |-> h] /\ drain.pc = "tick" /\ L /= {}
      /\ phase \in {"up", "stopping"}
      /\ UNCHANGED <<sent, clock, received, errors, gone, phase, faults>>
  BY DEF DrainLease, processVars, StoreOpen, h, L
<1>7. drain = [pc |-> "tick", items |-> drain.items]
  BY <1>6 DEF TypeOK
<1>8. drain'.pc = "push" /\ drain'.items = h
  BY <1>6
<1> QED
  BY <1>2, <1>3, <1>4, <1>5, <1>6, <1>7, <1>8

\* The parent's count of one report goes up.
LEMMA ParentLemma ==
    ASSUME TypeOK, NEW r, ParentGets(r)
    PROVE  /\ received' \in [DOMAIN received' -> Nat]
           /\ Times(r)' = Times(r) + 1
           /\ \A x : x /= r => Times(x)' = Times(x)
<1>1. /\ DOMAIN received' = DOMAIN received \cup {r}
      /\ \A x \in DOMAIN received' : received'[x] = IF x = r THEN Times(r) + 1 ELSE received[x]
      /\ received' = [x \in DOMAIN received' |-> received'[x]]
  BY DEF ParentGets
<1>2. \A x : Times(x) \in Nat
  BY DEF Times, TypeOK
<1>3. received' \in [DOMAIN received' -> Nat]
  BY <1>1, <1>2 DEF TypeOK
<1> QED
  BY <1>1, <1>3 DEF Times

\* A push ends well, or with an error that drain cannot tell from a lost reply.
Push == PushOk \/ PushReplyLost \/ PushFails

LEMMA PushEffect ==
    ASSUME TypeOK, Push
    PROVE  /\ UNCHANGED <<queue, sent, clock, gone, phase, faults>>
           /\ received' \in [DOMAIN received' -> Nat]
           /\ drain.pc = "push" /\ drain'.items = drain.items
           /\ drain' = [pc |-> drain'.pc, items |-> drain'.items]
           /\ \E r : /\ r = Payload
                    /\ \/ drain'.pc = "ack" /\ errors' = errors /\ phase = "up"
                            /\ Times(r)' = Times(r) + 1
                       \/ drain'.pc = "nack" /\ errors' = errors + 1
                            /\ Times(r)' \in {Times(r), Times(r) + 1}
                    /\ \A x : x /= r => Times(x)' = Times(x)
           /\ phase /= "down"
<1>1. PICK r : r = Payload
  OBVIOUS
<1>2. CASE PushOk
  <2>1. /\ drain'.pc = "ack" /\ drain'.items = drain.items
        /\ drain' = [pc |-> "ack", items |-> drain.items]
    BY <1>2, PcUpdate DEF PushOk
  <2>2. ParentGets(r)
    BY <1>1, <1>2 DEF PushOk, ParentGets
  <2>3. /\ received' \in [DOMAIN received' -> Nat]
        /\ Times(r)' = Times(r) + 1
        /\ \A x : x /= r => Times(x)' = Times(x)
    BY <2>2, ParentLemma
  <2> QED
    BY <1>1, <1>2, <2>1, <2>3 DEF PushOk, Pushing, Alive, processVars
<1>3. CASE PushReplyLost
  <2>1. /\ drain'.pc = "nack" /\ drain'.items = drain.items
        /\ drain' = [pc |-> "nack", items |-> drain.items]
    BY <1>3, PcUpdate DEF PushReplyLost
  <2>2. ParentGets(r)
    BY <1>1, <1>3 DEF PushReplyLost, ParentGets
  <2>3. /\ received' \in [DOMAIN received' -> Nat]
        /\ Times(r)' = Times(r) + 1
        /\ \A x : x /= r => Times(x)' = Times(x)
    BY <2>2, ParentLemma
  <2> QED
    BY <1>1, <1>3, <2>1, <2>3 DEF PushReplyLost, Pushing, Alive, processVars
<1>4. CASE PushFails
  <2>1. /\ drain'.pc = "nack" /\ drain'.items = drain.items
        /\ drain' = [pc |-> "nack", items |-> drain.items]
    BY <1>4, PcUpdate DEF PushFails
  <2>2. received' = received /\ \A x : Times(x)' = Times(x)
    BY <1>4 DEF PushFails, Times
  <2>3. received' \in [DOMAIN received' -> Nat]
    BY <2>2 DEF TypeOK
  <2> QED
    BY <1>1, <1>4, <2>1, <2>2, <2>3 DEF PushFails, Pushing, Alive, processVars
<1> QED
  BY <1>2, <1>3, <1>4 DEF Push

\* An ack deletes the item on which drain works, if it is there and the store is open.
LEMMA AckEffect ==
    ASSUME TypeOK, DrainAck
    PROVE  /\ UNCHANGED <<sent, clock, received, errors, phase, faults>>
           /\ drain.pc = "ack" /\ drain'.pc = "count" /\ drain'.items = drain.items
           /\ drain' = [pc |-> "count", items |-> drain.items]
           /\ phase /= "down" /\ queue'.seq = queue.seq
           /\ IsQueue(queue', 1 .. MaxReports)
           /\ \/ /\ queue' = queue /\ gone' = gone
                 /\ phase = "closed" \/ Current \notin Ids(queue)
              \/ /\ Current \in Ids(queue) /\ Ids(queue') = Ids(queue) \ {Current}
                 /\ \A i \in Ids(queue') : queue'.items[i] = queue.items[i]
                 /\ Leaves(Current, "acked")
<1>1. /\ drain.pc = "ack" /\ drain'.pc = "count" /\ drain'.items = drain.items
      /\ drain' = [pc |-> "count", items |-> drain.items]
  BY PcUpdate DEF DrainAck
<1>2. CASE StoreOpen /\ Current \in Ids(queue)
  <2>1. queue' = Remove(queue, Current) /\ IsQueue(queue, 1 .. MaxReports)
    BY <1>2 DEF DrainAck, Ack, TypeOK
  <2>2. /\ IsQueue(queue', 1 .. MaxReports) /\ queue'.seq = queue.seq
        /\ Ids(queue') = Ids(queue) \ {Current}
        /\ \A i \in Ids(queue') : queue'.items[i] = queue.items[i]
    BY <2>1, RemoveLemma
  <2> QED
    BY <1>1, <1>2, <2>2 DEF DrainAck, Alive, processVars
<1>3. CASE ~(StoreOpen /\ Current \in Ids(queue))
  <2>1. queue' = queue /\ gone' = gone
    BY <1>3 DEF DrainAck
  <2>2. phase = "closed" \/ Current \notin Ids(queue)
    BY <1>3 DEF DrainAck, StoreOpen, Alive, TypeOK, Phases
  <2> QED
    BY <1>1, <2>1, <2>2 DEF DrainAck, Alive, processVars, TypeOK
<1> QED
  BY <1>2, <1>3

\* After the ack drain counts the report and goes on.
LEMMA CountEffect ==
    ASSUME TypeOK, DrainCount
    PROVE  /\ UNCHANGED <<queue, clock, received, errors, gone, phase, faults>>
           /\ sent' \in Nat
           /\ drain.pc = "count" /\ drain' = NextItem
  BY DEF DrainCount, TypeOK, processVars

\* A nack of the current item keeps it, with one attempt more, or deletes it.
LEMMA NackEffect ==
    ASSUME TypeOK, DrainNack
    PROVE  /\ UNCHANGED <<sent, clock, received, errors, phase, faults>>
           /\ drain.pc = "nack" /\ drain' = NextItem
           /\ phase /= "down" /\ queue'.seq = queue.seq
           /\ IsQueue(queue', 1 .. MaxReports)
           /\ \/ /\ queue' = queue /\ gone' = gone
                 /\ phase = "closed" \/ Current \notin Ids(queue)
              \/ /\ Current \in Ids(queue) /\ Ids(queue') = Ids(queue) /\ gone' = gone
                 /\ ~Exhausted(queue.items[Current].attempts + 1, MaxAttempts)
                 /\ queue'.items[Current].payload = queue.items[Current].payload
                 /\ queue'.items[Current].attempts = queue.items[Current].attempts + 1
                 /\ \A i \in Ids(queue) \ {Current} : queue'.items[i] = queue.items[i]
              \/ /\ Current \in Ids(queue) /\ Ids(queue') = Ids(queue) \ {Current}
                 /\ Exhausted(queue.items[Current].attempts + 1, MaxAttempts)
                 /\ \A i \in Ids(queue') : queue'.items[i] = queue.items[i]
                 /\ Leaves(Current, "dropped")
<1>1. /\ UNCHANGED <<sent, clock, received, errors, phase, faults>>
      /\ drain.pc = "nack" /\ drain' = NextItem /\ phase /= "down"
  BY DEF DrainNack, processVars, Alive
<1>2. PICK i : i = Current
  OBVIOUS
<1>3. IsQueue(queue, 1 .. MaxReports)
  BY DEF TypeOK
<1>4. StoreOpen => queue' = Nack(queue, i, BackoffMs, clock, MaxAttempts)
  BY <1>2 DEF DrainNack
<1>5. CASE ~StoreOpen
  <2>1. queue' = queue /\ gone' = gone /\ phase = "closed"
    BY <1>5 DEF DrainNack, StoreOpen, Alive, TypeOK, Phases
  <2> QED
    BY <1>1, <1>3, <2>1
<1>6. CASE StoreOpen /\ i \notin Ids(queue)
  <2>1. queue' = queue
    BY <1>4, <1>6, NackGoneLemma
  <2>2. gone' = gone
    BY <1>2, <1>6, <2>1 DEF DrainNack
  <2> QED
    BY <1>1, <1>2, <1>3, <1>6, <2>1, <2>2
<1>7. CASE /\ StoreOpen /\ i \in Ids(queue)
           /\ ~Exhausted(queue.items[i].attempts + 1, MaxAttempts)
  <2>1. IsMs(BackoffMs) /\ IsMs(clock)
    BY UplinkAssumption DEF TypeOK, IsMs
  <2>2. /\ IsQueue(queue', 1 .. MaxReports) /\ queue'.seq = queue.seq
        /\ Ids(queue') = Ids(queue)
        /\ queue'.items[i] = Item(queue.items[i].payload, queue.items[i].attempts + 1,
                                  clock + BackoffMs, 0)
        /\ \A j \in Ids(queue) \ {i} : queue'.items[j] = queue.items[j]
    BY <1>3, <1>4, <1>7, <2>1, NackLemma
  <2>3. /\ queue'.items[i].payload = queue.items[i].payload
        /\ queue'.items[i].attempts = queue.items[i].attempts + 1
    BY <2>2 DEF Item
  <2>4. gone' = gone
    BY <1>2, <1>4, <1>7, <2>2 DEF DrainNack
  <2> QED
    BY <1>1, <1>2, <1>7, <2>2, <2>3, <2>4
<1>8. CASE /\ StoreOpen /\ i \in Ids(queue)
           /\ Exhausted(queue.items[i].attempts + 1, MaxAttempts)
  <2>1. queue' = Remove(queue, i)
    BY <1>4, <1>8, NackGoneLemma
  <2>2. /\ IsQueue(queue', 1 .. MaxReports) /\ queue'.seq = queue.seq
        /\ Ids(queue') = Ids(queue) \ {i}
        /\ \A j \in Ids(queue') : queue'.items[j] = queue.items[j]
    BY <1>3, <2>1, RemoveLemma
  <2>3. Leaves(Current, "dropped")
    BY <1>2, <1>4, <1>8, <2>2 DEF DrainNack
  <2> QED
    BY <1>1, <1>2, <1>8, <2>2, <2>3
<1> QED
  BY <1>5, <1>6, <1>7, <1>8

\* The steps of the agent and of the time, as the lemmas above group them.
LEMMA StepKinds ==
    ASSUME [Next]_vars
    PROVE  Quiet \/ NewReport \/ DrainLease \/ Push \/ DrainAck \/ DrainCount \/ DrainNack
  BY DEF Next, DrainStep, Quiet, Push
---------------------------------------------------------------------------
(* Types. *)

\* An empty queue, a goroutine not started, a parent that got nothing.
LEMMA TypeInit == Init => TypeOK
<1> SUFFICES ASSUME Init PROVE TypeOK
  OBVIOUS
<1>1. IsQueue(queue, 1 .. MaxReports) /\ Ids(queue) = {} /\ queue.seq = 0
  BY DEF Init, EmptyQueue, IsQueue, Ids
<1>2. (1 .. 0) \ {} = {}
  OBVIOUS
<1> QED
  BY <1>1, <1>2, MaxFaultsAssumption
  DEF Init, ProcessInit, UplinkInit, TypeOK, Phases, Nothing

\* Every step of drain, of the scheduler and of the process keeps the types.
LEMMA TypeStep == TypeOK /\ [Next]_vars => TypeOK'
<1> SUFFICES ASSUME TypeOK, [Next]_vars PROVE TypeOK'
  OBVIOUS
<1> DEFINE G == [how : {"acked", "dropped"}, report : 1 .. MaxReports, attempts : Nat]
<1>0. /\ gone \in [(1 .. queue.seq) \ Ids(queue) -> G] /\ Ids(queue) \subseteq 1 .. queue.seq
      /\ queue.seq \in Nat /\ errors \in Nat
  BY DEF TypeOK, IsQueue
<1> HIDE DEF G
<1>1. CASE Quiet
  <2>1. DOMAIN Nothing = {} /\ Nothing \in [{} -> ItemType(1 .. MaxReports)]
    BY DEF Nothing
  <2> QED
    BY <1>1, <2>1, QuietEffect DEF TypeOK
<1>2. CASE NewReport
  <2> DEFINE id == queue.seq + 1
  <2>1. /\ queue'.seq = id /\ id \in Nat /\ Ids(queue') = Ids(queue) \cup {id}
        /\ IsQueue(queue', 1 .. MaxReports)
        /\ UNCHANGED <<sent, clock, drain, received, errors, gone, phase, faults>>
    BY <1>2, ReportEffect
  <2>2. (1 .. queue'.seq) \ Ids(queue') = (1 .. queue.seq) \ Ids(queue)
    BY <1>0, <2>1
  <2>3. DOMAIN drain.items \subseteq 1 .. queue'.seq
    BY <1>0, <2>1 DEF TypeOK
  <2> QED
    BY <2>1, <2>2, <2>3 DEF TypeOK
<1>3. CASE DrainLease
  <2>1. /\ IsQueue(queue', 1 .. MaxReports)
        /\ queue'.seq = queue.seq /\ Ids(queue') = Ids(queue)
        /\ drain' = [pc |-> "push", items |-> drain'.items] /\ drain'.pc = "push"
        /\ DOMAIN drain'.items \subseteq Ids(queue)
        /\ drain'.items \in [DOMAIN drain'.items -> ItemType(1 .. MaxReports)]
        /\ UNCHANGED <<sent, clock, received, errors, gone, phase, faults>>
    BY <1>3, LeaseEffect
  <2> QED
    BY <1>0, <2>1 DEF TypeOK
<1>4. CASE Push
  <2>1. /\ UNCHANGED <<queue, sent, clock, gone, phase, faults>>
        /\ received' \in [DOMAIN received' -> Nat]
        /\ drain'.items = drain.items
        /\ drain' = [pc |-> drain'.pc, items |-> drain'.items]
        /\ drain'.pc \in {"ack", "nack"} /\ errors' \in {errors, errors + 1}
    BY <1>4, PushEffect
  <2> QED
    BY <1>0, <2>1 DEF TypeOK
<1>5. ASSUME NEW i \in Ids(queue), NEW how \in {"acked", "dropped"}, Leaves(i, how),
             queue'.seq = queue.seq, Ids(queue') = Ids(queue) \ {i}
      PROVE  gone' \in [(1 .. queue'.seq) \ Ids(queue') -> G]
  <2>1. DOMAIN gone' = DOMAIN gone \cup {i} /\ gone' \in [DOMAIN gone' -> G]
    BY <1>5, LeavesLemma DEF G
  <2>2. DOMAIN gone \cup {i} = (1 .. queue'.seq) \ Ids(queue')
    BY <1>0, <1>5
  <2> QED
    BY <2>1, <2>2
<1>6. CASE DrainAck
  <2>1. gone' \in [(1 .. queue'.seq) \ Ids(queue') -> G]
    BY <1>0, <1>5, <1>6, AckEffect
  <2>2. /\ UNCHANGED <<sent, clock, received, errors, phase, faults>>
        /\ drain'.pc = "count" /\ drain'.items = drain.items
        /\ drain' = [pc |-> "count", items |-> drain.items]
        /\ queue'.seq = queue.seq /\ IsQueue(queue', 1 .. MaxReports)
    BY <1>6, AckEffect
  <2> QED
    BY <2>1, <2>2 DEF TypeOK, G
<1>7. CASE DrainCount
  <2>1. /\ UNCHANGED <<queue, clock, received, errors, gone, phase, faults>>
        /\ sent' \in Nat /\ drain' = NextItem
    BY <1>7, CountEffect
  <2> QED
    BY <2>1, RestLemma DEF TypeOK
<1>8. CASE DrainNack
  <2>1. gone' \in [(1 .. queue'.seq) \ Ids(queue') -> G]
    BY <1>0, <1>5, <1>8, NackEffect
  <2>2. /\ UNCHANGED <<sent, clock, received, errors, phase, faults>>
        /\ drain' = NextItem
        /\ queue'.seq = queue.seq /\ IsQueue(queue', 1 .. MaxReports)
    BY <1>8, NackEffect
  <2> QED
    BY <2>1, <2>2, RestLemma DEF TypeOK, G
<1> QED
  BY <1>1, <1>2, <1>3, <1>4, <1>6, <1>7, <1>8, StepKinds

\* The locals of drain, the queue and the history have their types in every
\* execution: what drain holds was enqueued before (batch.go:213-219).
THEOREM UplinkTypeCorrect == Spec => []TypeOK
<1>1. Init => TypeOK
  BY TypeInit
<1>2. TypeOK /\ [Next]_vars => TypeOK'
  BY TypeStep
<1> QED
  BY <1>1, <1>2, PTL DEF Spec
---------------------------------------------------------------------------
(* No report is lost. *)

\* drain is at an item only if it has one left.
Working == drain.pc \in {"push", "ack", "count", "nack"} => DOMAIN drain.items /= {}

\* The report of an item is the one enqueued under its id, also in drain's copy.
ReportsAreIds ==
    /\ \A i \in Ids(queue) : queue.items[i].payload = i
    /\ \A i \in DOMAIN drain.items : drain.items[i].payload = i
    /\ \A i \in DOMAIN gone : gone[i].report = i

\* Between the push and the ack the parent has the current report.
AckedIsDelivered == drain.pc = "ack" => Delivered(Current)

\* The item at which drain has seen an error, or a success, and not yet settled it.
UnderWay(i) == IF drain.pc \in {"ack", "nack"} /\ Current = i THEN 1 ELSE 0

\* Each attempt that an item counts was a push that returned an error.
AttemptsAreErrors ==
    \A i \in Ids(queue) :
        /\ queue.items[i].attempts < MaxAttempts
        /\ queue.items[i].attempts <= errors
        /\ drain.pc = "nack" /\ Current = i => queue.items[i].attempts < errors

UplinkInv ==
    Working /\ ReportsAreIds /\ AckedIsDelivered /\ AttemptsAreErrors /\ NoReportLost

\* The current item, its report and its copy.
LEMMA CurrentReport ==
    ASSUME TypeOK, Working, ReportsAreIds, drain.pc \in {"push", "ack", "count", "nack"}
    PROVE  Current \in DOMAIN drain.items /\ Payload = Current
  BY CurrentIsLeft DEF Working, ReportsAreIds, Payload

\* What the history and the counters hold are numbers.
LEMMA UplinkNumbers ==
    ASSUME TypeOK
    PROVE  /\ \A i \in Ids(queue) : queue.items[i].attempts \in Nat
           /\ \A i \in DOMAIN gone : gone[i].attempts \in Nat
           /\ \A r : Times(r) \in Nat
           /\ errors \in Nat /\ faults \in Nat /\ MaxAttempts \in Nat /\ MaxAttempts > 0
           /\ Ids(queue) \cap DOMAIN gone = {}
<1>1. \A i \in Ids(queue) : queue.items[i] \in ItemType(1 .. MaxReports)
  BY DEF TypeOK, IsQueue
<1>2. \A i \in DOMAIN gone : gone[i].attempts \in Nat
  BY DEF TypeOK
<1>3. \A r : Times(r) \in Nat
  BY DEF TypeOK, Times
<1>4. errors \in Nat /\ faults \in Nat /\ Ids(queue) \cap DOMAIN gone = {}
  BY MaxFaultsAssumption DEF TypeOK
<1> QED
  BY <1>1, <1>2, <1>3, <1>4, UplinkAssumption DEF ItemType

\* Nothing was enqueued, leased, pushed or settled.
LEMMA UplinkInit0 == Init => UplinkInv
  BY DEF Init, UplinkInit, EmptyQueue, Ids, Nothing, UplinkInv, Working, ReportsAreIds,
         AckedIsDelivered, AttemptsAreErrors, NoReportLost

\* A lease leaves drain with an item; it goes on while one is left (batch.go:219).
LEMMA WorkingStep ==
    ASSUME TypeOK, Working, [Next]_vars
    PROVE  Working'
<1>1. CASE Quiet
  BY <1>1, QuietEffect DEF Working
<1>2. CASE NewReport
  BY <1>2, ReportEffect DEF Working
<1>3. CASE DrainLease
  BY <1>3, LeaseEffect DEF Working
<1>4. CASE Push
  BY <1>4, PushEffect DEF Working
<1>5. CASE DrainAck
  BY <1>5, AckEffect DEF Working
<1>6. CASE DrainCount \/ DrainNack
  BY <1>6, CountEffect, NackEffect, RestLemma DEF Working
<1> QED
  BY <1>1, <1>2, <1>3, <1>4, <1>5, <1>6, StepKinds

\* Only the id of a report is ever given back to the store (batch.go:227, 230).
LEMMA ReportsStep ==
    ASSUME TypeOK, Working, ReportsAreIds, [Next]_vars
    PROVE  ReportsAreIds'
<1>1. CASE Quiet
  BY <1>1, QuietEffect DEF ReportsAreIds, Nothing
<1>2. CASE NewReport
  BY <1>2, ReportEffect DEF ReportsAreIds
<1>3. CASE DrainLease
  BY <1>3, LeaseEffect DEF ReportsAreIds
<1>4. CASE Push
  BY <1>4, PushEffect DEF ReportsAreIds
<1>5. ASSUME NEW i \in Ids(queue), NEW how \in {"acked", "dropped"}, Leaves(i, how)
      PROVE  \A k \in DOMAIN gone' : gone'[k].report = k
  <2>1. /\ DOMAIN gone' = DOMAIN gone \cup {i} /\ gone'[i].report = queue.items[i].payload
        /\ \A k \in DOMAIN gone : gone'[k] = gone[k]
    BY <1>5, LeavesLemma
  <2> QED
    BY <2>1 DEF ReportsAreIds
<1>6. CASE DrainAck
  <2>1. \A k \in DOMAIN gone' : gone'[k].report = k
    BY <1>5, <1>6, AckEffect DEF ReportsAreIds
  <2> QED
    BY <1>6, <2>1, AckEffect DEF ReportsAreIds
<1>7. CASE DrainCount
  BY <1>7, CountEffect, RestLemma DEF ReportsAreIds
<1>8. CASE DrainNack
  <2>1. \A k \in DOMAIN gone' : gone'[k].report = k
    BY <1>5, <1>8, NackEffect DEF ReportsAreIds
  <2>2. \A i \in Ids(queue') : queue'.items[i].payload = i
    BY <1>8, NackEffect DEF ReportsAreIds
  <2>3. \A i \in DOMAIN drain'.items : drain'.items[i].payload = i
    BY <1>8, NackEffect, RestLemma DEF ReportsAreIds
  <2> QED
    BY <2>1, <2>2, <2>3 DEF ReportsAreIds
<1> QED
  BY <1>1, <1>2, <1>3, <1>4, <1>6, <1>7, <1>8, StepKinds

\* The parent never forgets a report.
LEMMA DeliveredStays ==
    ASSUME TypeOK, [Next]_vars, NEW r, Delivered(r)
    PROVE  Delivered(r)'
<1>1. Times(r) \in Nat /\ Times(r) > 0
  BY UplinkNumbers DEF Delivered
<1>2. CASE Push
  <2>1. PICK x : /\ Times(x)' \in {Times(x), Times(x) + 1}
                 /\ \A y : y /= x => Times(y)' = Times(y)
    BY <1>2, PushEffect
  <2>2. Times(r)' \in {Times(r), Times(r) + 1}
    BY <2>1
  <2> QED
    BY <1>1, <2>2 DEF Delivered
<1>3. CASE Quiet \/ NewReport \/ DrainLease \/ DrainAck \/ DrainCount \/ DrainNack
  <2>1. received' = received
    BY <1>3, QuietEffect, ReportEffect, LeaseEffect, AckEffect, CountEffect, NackEffect
  <2> QED
    BY <1>1, <2>1 DEF Delivered, Times
<1> QED
  BY <1>2, <1>3, StepKinds

\* drain acks only after a push that returned no error (batch.go:224-227).
LEMMA AckedStep ==
    ASSUME TypeOK, Working, ReportsAreIds, AckedIsDelivered, [Next]_vars
    PROVE  AckedIsDelivered'
<1>1. CASE Push
  <2>1. PICK r : /\ r = Payload
                 /\ drain'.pc = "ack" => Times(r)' = Times(r) + 1
    BY <1>1, PushEffect
  <2>2. r = Current /\ drain'.items = drain.items
    BY <1>1, <2>1, PushEffect, CurrentReport
  <2>3. Current' = r
    BY <2>2 DEF Current
  <2>4. drain'.pc = "ack" => Delivered(r)'
    BY <2>1, UplinkNumbers DEF Delivered
  <2> QED
    BY <2>3, <2>4 DEF AckedIsDelivered, Delivered, Times
<1>2. CASE drain' = drain
  <2>1. PICK r : r = Current
    OBVIOUS
  <2>2. Current' = r
    BY <1>2, <2>1 DEF Current
  <2>3. drain.pc = "ack" => Delivered(r)'
    BY <2>1, DeliveredStays DEF AckedIsDelivered, Delivered
  <2> QED
    BY <1>2, <2>2, <2>3 DEF AckedIsDelivered, Delivered, Times
<1>3. CASE drain'.pc /= "ack"
  BY <1>3 DEF AckedIsDelivered
<1>4. CASE Quiet \/ NewReport \/ DrainLease \/ DrainAck \/ DrainCount \/ DrainNack
  <2>1. drain' = drain \/ drain'.pc /= "ack"
    BY <1>4, QuietEffect, ReportEffect, LeaseEffect, AckEffect, CountEffect, NackEffect,
       RestLemma
  <2> QED
    BY <1>2, <1>3, <2>1
<1> QED
  BY <1>1, <1>4, StepKinds

\* A nack counts an attempt after an error, and never beyond the last
\* (batch.go:230, queue.go:130-133).
LEMMA AttemptsStep ==
    ASSUME TypeOK, Working, AttemptsAreErrors, [Next]_vars
    PROVE  AttemptsAreErrors'
<1> USE UplinkNumbers
<1>1. CASE Quiet
  <2>1. \/ drain'.pc /= "nack"
        \/ drain'.pc = drain.pc /\ Current' = Current
    BY <1>1, QuietEffect DEF Current
  <2> QED
    BY <1>1, <2>1, QuietEffect DEF AttemptsAreErrors
<1>2. CASE NewReport
  <2> DEFINE id == queue.seq + 1
  <2>1. /\ Ids(queue') = Ids(queue) \cup {id} /\ id \notin Ids(queue)
        /\ queue'.items[id].attempts = 0
        /\ \A i \in Ids(queue) : queue'.items[i] = queue.items[i]
        /\ drain' = drain /\ errors' = errors
    BY <1>2, ReportEffect
  <2>2. Current' = Current
    BY <2>1 DEF Current
  <2>3. drain.pc = "nack" => Current /= id
    <3>1. drain.pc = "nack" => Current \in 1 .. queue.seq
      BY CurrentIsLeft DEF Working, TypeOK
    <3> QED
      BY <3>1 DEF TypeOK, IsQueue
  <2> QED
    BY <2>1, <2>2, <2>3 DEF AttemptsAreErrors
<1>3. CASE DrainLease
  <2>1. /\ Ids(queue') = Ids(queue) /\ errors' = errors /\ drain'.pc = "push"
        /\ \A i \in Ids(queue) : queue'.items[i].attempts = queue.items[i].attempts
    BY <1>3, LeaseEffect
  <2> QED
    BY <2>1 DEF AttemptsAreErrors
<1>4. CASE Push
  <2>1. /\ queue' = queue
        /\ \/ drain'.pc = "ack" /\ errors' = errors
           \/ drain'.pc = "nack" /\ errors' = errors + 1
    BY <1>4, PushEffect
  <2> QED
    BY <2>1 DEF AttemptsAreErrors
<1>5. CASE DrainAck
  <2>1. /\ Ids(queue') \subseteq Ids(queue) /\ errors' = errors /\ drain'.pc = "count"
        /\ \A i \in Ids(queue') : queue'.items[i] = queue.items[i]
    BY <1>5, AckEffect
  <2> QED
    BY <2>1 DEF AttemptsAreErrors
<1>6. CASE DrainCount
  BY <1>6, CountEffect, RestLemma DEF AttemptsAreErrors
<1>7. CASE DrainNack
  <2>1. /\ Ids(queue') \subseteq Ids(queue) /\ errors' = errors /\ drain.pc = "nack"
        /\ drain'.pc \in {"tick", "push"}
        /\ \A i \in Ids(queue') :
             \/ queue'.items[i] = queue.items[i]
             \/ /\ i = Current /\ ~Exhausted(queue.items[i].attempts + 1, MaxAttempts)
                /\ queue'.items[i].attempts = queue.items[i].attempts + 1
    BY <1>7, NackEffect, RestLemma
  <2>2. ASSUME NEW i \in Ids(queue')
        PROVE  queue'.items[i].attempts < MaxAttempts /\ queue'.items[i].attempts <= errors
    <3>1. CASE queue'.items[i] = queue.items[i]
      BY <2>1, <3>1 DEF AttemptsAreErrors
    <3>2. CASE /\ i = Current /\ ~Exhausted(queue.items[i].attempts + 1, MaxAttempts)
               /\ queue'.items[i].attempts = queue.items[i].attempts + 1
      BY <2>1, <3>2 DEF AttemptsAreErrors, Exhausted
    <3> QED
      BY <2>1, <3>1, <3>2
  <2> QED
    BY <2>1, <2>2 DEF AttemptsAreErrors
<1> QED
  BY <1>1, <1>2, <1>3, <1>4, <1>5, <1>6, <1>7, StepKinds

\* How one item left: NoReportLost says this of each.
LeftRightly(i) ==
    IF gone[i].how = "acked" THEN Delivered(gone[i].report)
                             ELSE gone[i].attempts + 1 = MaxAttempts /\ errors >= MaxAttempts

\* An item leaves by the ack of a delivered report or by its last nack.
LEMMA LostStep ==
    ASSUME TypeOK, UplinkInv, [Next]_vars
    PROVE  NoReportLost'
<1> USE UplinkNumbers
<1>0. errors' \in {errors, errors + 1}
  BY StepKinds, QuietEffect, ReportEffect, LeaseEffect, PushEffect, AckEffect, CountEffect,
     NackEffect
<1>1. ASSUME NEW i \in DOMAIN gone, gone'[i] = gone[i]
      PROVE  LeftRightly(i)'
  <2>1. PICK r : r = gone[i].report
    OBVIOUS
  <2>2. LeftRightly(i)
    BY DEF UplinkInv, NoReportLost, LeftRightly
  <2>3. CASE gone[i].how = "acked"
    <3>1. Delivered(r)
      BY <2>1, <2>2, <2>3 DEF LeftRightly, Delivered, Times
    <3>2. Delivered(r)'
      BY <3>1, DeliveredStays
    <3>3. gone'[i].report = r /\ gone'[i].how = "acked"
      BY <1>1, <2>1, <2>3
    <3> QED
      BY <3>2, <3>3 DEF LeftRightly, Delivered, Times
  <2>4. CASE gone[i].how /= "acked"
    <3>1. gone[i].attempts + 1 = MaxAttempts /\ errors' >= MaxAttempts
      BY <1>0, <2>2, <2>4 DEF LeftRightly
    <3> QED
      BY <1>1, <2>4, <3>1 DEF LeftRightly
  <2> QED
    BY <2>3, <2>4
<1>2. CASE gone' = gone
  <2>1. \A i \in DOMAIN gone : LeftRightly(i)'
    BY <1>1, <1>2
  <2> QED
    BY <1>2, <2>1 DEF NoReportLost, LeftRightly
<1>3. CASE DrainAck /\ Current \in Ids(queue) /\ Leaves(Current, "acked")
  <2>1. PICK c : c = Current
    OBVIOUS
  <2>2. /\ DOMAIN gone' = DOMAIN gone \cup {c}
        /\ gone'[c].how = "acked" /\ gone'[c].report = queue.items[c].payload
        /\ \A k \in DOMAIN gone : gone'[k] = gone[k]
    BY <1>3, <2>1, LeavesLemma
  <2>3. Delivered(c)' /\ gone'[c].report = c
    BY <1>3, <2>1, <2>2, AckEffect, DeliveredStays
    DEF UplinkInv, AckedIsDelivered, ReportsAreIds
  <2>4. LeftRightly(c)'
    BY <2>2, <2>3 DEF LeftRightly, Delivered, Times
  <2>5. \A i \in DOMAIN gone' : LeftRightly(i)'
    BY <1>1, <2>2, <2>4
  <2> QED
    BY <2>5 DEF NoReportLost, LeftRightly
<1>4. CASE /\ DrainNack /\ Current \in Ids(queue) /\ Leaves(Current, "dropped")
           /\ Exhausted(queue.items[Current].attempts + 1, MaxAttempts)
  <2>1. PICK c : c = Current
    OBVIOUS
  <2>2. /\ DOMAIN gone' = DOMAIN gone \cup {c}
        /\ gone'[c].how = "dropped" /\ gone'[c].attempts = queue.items[c].attempts
        /\ \A k \in DOMAIN gone : gone'[k] = gone[k]
    BY <1>4, <2>1, LeavesLemma
  <2>3. /\ drain.pc = "nack" /\ errors' = errors
    BY <1>4, NackEffect
  <2>4. /\ queue.items[c].attempts + 1 >= MaxAttempts
        /\ queue.items[c].attempts < MaxAttempts /\ queue.items[c].attempts < errors
    BY <1>4, <2>1, <2>3 DEF UplinkInv, AttemptsAreErrors, Exhausted
  <2>5. gone'[c].attempts + 1 = MaxAttempts /\ errors' >= MaxAttempts
    BY <1>4, <2>1, <2>2, <2>3, <2>4
  <2>6. LeftRightly(c)'
    BY <2>2, <2>5 DEF LeftRightly
  <2>7. \A i \in DOMAIN gone' : LeftRightly(i)'
    BY <1>1, <2>2, <2>6
  <2> QED
    BY <2>7 DEF NoReportLost, LeftRightly
<1>5. \/ gone' = gone
      \/ DrainAck /\ Current \in Ids(queue) /\ Leaves(Current, "acked")
      \/ /\ DrainNack /\ Current \in Ids(queue) /\ Leaves(Current, "dropped")
         /\ Exhausted(queue.items[Current].attempts + 1, MaxAttempts)
  BY StepKinds, QuietEffect, ReportEffect, LeaseEffect, PushEffect, AckEffect, CountEffect,
     NackEffect
<1> QED
  BY <1>2, <1>3, <1>4, <1>5

\* Every step keeps the invariant.
LEMMA UplinkInvStep == TypeOK /\ UplinkInv /\ [Next]_vars => UplinkInv'
  BY WorkingStep, ReportsStep, AckedStep, AttemptsStep, LostStep DEF UplinkInv

\* A report leaves the queue after the parent got it, or after MaxAttempts pushes that
\* returned an error (batch.go:224-231): no crash, stop, lost reply, failed write or
\* expired lease removes it, whatever the number of reports.
THEOREM ReportsAreNotLost == Spec => []NoReportLost
<1>1. Init => TypeOK /\ UplinkInv
  BY TypeInit, UplinkInit0
<1>2. TypeOK /\ UplinkInv /\ [Next]_vars => (TypeOK /\ UplinkInv)'
  BY TypeStep, UplinkInvStep
<1>3. UplinkInv => NoReportLost
  BY DEF UplinkInv
<1> QED
  BY <1>1, <1>2, <1>3, PTL DEF Spec
---------------------------------------------------------------------------
(* Duplicates are accounted for. *)

\* What drain has left is in the queue, but for an item it has just acked.
LeftIsQueued ==
    \A i \in DOMAIN drain.items : i \in Ids(queue) \/ (drain.pc = "count" /\ Current = i)

\* The parent knows only reports that were enqueued.
OnlyQueuedReceived == \A r : r \notin 1 .. queue.seq => Times(r) = 0

\* A stop was counted as a fault before its effects are seen.
StopIsFault == phase \in {"stopping", "closed"} => faults >= 1

\* The delivery that a stop under way still allows for item i: until the store is closed,
\* and afterwards while drain has i left.
Reserve(i) ==
    IF \/ phase = "stopping"
       \/ phase = "closed" /\ i \in DOMAIN drain.items /\ ~(drain.pc = "count" /\ Current = i)
      THEN 1 ELSE 0

\* The account of one item that is queued, and of one that is gone.
Account(i) ==
    Times(i) + Reserve(i) <= queue.items[i].attempts + faults + UnderWay(i)
Settled(i) == Times(i) <= gone[i].attempts + 1 + faults

Accounts ==
    /\ \A i \in Ids(queue) : Account(i)
    /\ \A i \in DOMAIN gone : Settled(i)

DuplicatesInv ==
    /\ Working /\ ReportsAreIds
    /\ LeftIsQueued /\ OnlyQueuedReceived /\ StopIsFault /\ Accounts

\* Nothing was delivered yet.
LEMMA DuplicatesInit == Init => DuplicatesInv
<1> SUFFICES ASSUME Init PROVE DuplicatesInv
  OBVIOUS
<1>1. Working /\ ReportsAreIds
  BY UplinkInit0 DEF UplinkInv
<1>2. LeftIsQueued /\ OnlyQueuedReceived /\ StopIsFault
  BY DEF Init, ProcessInit, UplinkInit, Nothing, LeftIsQueued, OnlyQueuedReceived,
         StopIsFault, Times
<1>3. Accounts
  BY DEF Init, UplinkInit, EmptyQueue, Ids, Nothing, Accounts
<1> QED
  BY <1>1, <1>2, <1>3 DEF DuplicatesInv

\* drain leases what is queued, and only drain settles (batch.go:213, 227, 230).
LEMMA LeftStep ==
    ASSUME TypeOK, Working, LeftIsQueued, [Next]_vars
    PROVE  LeftIsQueued'
<1>1. CASE Quiet
  <2>1. \/ drain' = drain
        \/ drain.pc \in {"off", "tick"} /\ drain'.items = drain.items
        \/ drain'.items = Nothing
    BY <1>1, QuietEffect
  <2>2. queue' = queue /\ DOMAIN Nothing = {}
    BY <1>1, QuietEffect DEF Nothing
  <2> QED
    BY <2>1, <2>2 DEF LeftIsQueued, Current
<1>2. CASE NewReport
  <2>1. drain' = drain /\ Ids(queue) \subseteq Ids(queue')
    BY <1>2, ReportEffect
  <2> QED
    BY <2>1 DEF LeftIsQueued, Current
<1>3. CASE DrainLease
  BY <1>3, LeaseEffect DEF LeftIsQueued
<1>4. CASE Push
  <2>1. drain.pc = "push" /\ drain'.items = drain.items /\ queue' = queue
    BY <1>4, PushEffect
  <2> QED
    BY <2>1 DEF LeftIsQueued
<1>5. CASE DrainAck
  <2>1. /\ drain.pc = "ack" /\ drain'.pc = "count" /\ drain'.items = drain.items
        /\ \A i \in Ids(queue) : i \in Ids(queue') \/ i = Current
    BY <1>5, AckEffect
  <2>2. Current' = Current
    BY <2>1 DEF Current
  <2> QED
    BY <2>1, <2>2 DEF LeftIsQueued
<1>6. CASE DrainCount
  <2>1. queue' = queue /\ drain.pc = "count" /\ drain' = NextItem
    BY <1>6, CountEffect
  <2> QED
    BY <2>1, RestLemma DEF LeftIsQueued
<1>7. CASE DrainNack
  <2>1. /\ drain.pc = "nack" /\ drain' = NextItem
        /\ \A i \in Ids(queue) : i \in Ids(queue') \/ i = Current
    BY <1>7, NackEffect
  <2> QED
    BY <2>1, RestLemma DEF LeftIsQueued
<1> QED
  BY <1>1, <1>2, <1>3, <1>4, <1>5, <1>6, <1>7, StepKinds

\* A push carries a report that drain has left, hence one of the queue.
LEMMA ReceivedStep ==
    ASSUME TypeOK, Working, ReportsAreIds, OnlyQueuedReceived, [Next]_vars
    PROVE  OnlyQueuedReceived'
<1>1. CASE Push
  <2>1. PICK r : r = Payload /\ \A x : x /= r => Times(x)' = Times(x)
    BY <1>1, PushEffect
  <2>2. r \in 1 .. queue.seq /\ queue' = queue
    BY <1>1, <2>1, PushEffect, CurrentReport DEF TypeOK
  <2> QED
    BY <2>1, <2>2 DEF OnlyQueuedReceived
<1>2. CASE Quiet \/ NewReport \/ DrainLease \/ DrainAck \/ DrainCount \/ DrainNack
  <2>1. received' = received /\ queue'.seq \in {queue.seq, queue.seq + 1}
    BY <1>2, QuietEffect, ReportEffect, LeaseEffect, AckEffect, CountEffect, NackEffect
  <2>2. 1 .. queue.seq \subseteq 1 .. queue'.seq
    BY <2>1 DEF TypeOK, IsQueue
  <2>3. \A r : Times(r)' = Times(r)
    BY <2>1 DEF Times
  <2> QED
    BY <2>2, <2>3 DEF OnlyQueuedReceived
<1> QED
  BY <1>1, <1>2, StepKinds

\* SIGTERM counts as a fault; no other step begins a stop.
LEMMA StopStep ==
    ASSUME TypeOK, StopIsFault, [Next]_vars
    PROVE  StopIsFault'
<1> USE UplinkNumbers
<1>1. CASE Quiet
  BY <1>1, QuietEffect DEF StopIsFault
<1>2. CASE NewReport \/ DrainLease \/ Push \/ DrainAck \/ DrainCount \/ DrainNack
  <2>1. phase' = phase /\ faults' = faults
    BY <1>2, ReportEffect, LeaseEffect, PushEffect, AckEffect, CountEffect, NackEffect
  <2> QED
    BY <2>1 DEF StopIsFault
<1> QED
  BY <1>1, <1>2, StepKinds

\* The reserve and the delivery under way are 0 or 1.
LEMMA Bits ==
    \A i : /\ Reserve(i) \in {0, 1} /\ UnderWay(i) \in {0, 1}
          /\ Reserve(i)' \in {0, 1} /\ UnderWay(i)' \in {0, 1}
  BY DEF Reserve, UnderWay

\* The account of a queued item in a step that changes neither queue nor parent.
LEMMA AccountQuiet ==
    ASSUME TypeOK, DuplicatesInv, Quiet, NEW i \in Ids(queue)
    PROVE  Account(i)'
<1> USE UplinkNumbers, Bits
<1>1. /\ queue' = queue /\ Times(i)' = Times(i)
  BY QuietEffect DEF Times
<1>2. Account(i)
  BY DEF DuplicatesInv, Accounts
<1>3. CASE drain' = drain /\ phase' = phase /\ faults' = faults
  <2>1. Reserve(i)' = Reserve(i) /\ UnderWay(i)' = UnderWay(i)
    BY <1>3 DEF Reserve, UnderWay, Current
  <2> QED
    BY <1>1, <1>2, <1>3, <2>1 DEF Account
<1>4. CASE /\ drain.pc \in {"off", "tick"} /\ drain'.pc \in {"off", "tick"}
           /\ drain'.items = drain.items /\ phase' = phase /\ faults' = faults
  <2>1. Reserve(i)' = Reserve(i) /\ UnderWay(i)' = UnderWay(i)
    BY <1>4 DEF Reserve, UnderWay
  <2> QED
    BY <1>1, <1>2, <1>4, <2>1 DEF Account
<1>5. CASE drain' = drain /\ phase' = "stopping" /\ faults' = faults + 1
  <2>1. UnderWay(i)' = UnderWay(i)
    BY <1>5 DEF UnderWay, Current
  <2> QED
    BY <1>1, <1>2, <1>5, <2>1 DEF Account
<1>6. CASE /\ drain' = drain /\ phase = "stopping" /\ phase' = "closed" /\ faults' = faults
  <2>1. UnderWay(i)' = UnderWay(i) /\ Reserve(i) = 1
    BY <1>6 DEF UnderWay, Current, Reserve
  <2> QED
    BY <1>1, <1>2, <1>6, <2>1 DEF Account
<1>7. CASE drain' = drain /\ phase' = "up" /\ faults' = faults
  <2>1. UnderWay(i)' = UnderWay(i) /\ Reserve(i)' = 0
    BY <1>7 DEF UnderWay, Current, Reserve
  <2> QED
    BY <1>1, <1>2, <1>7, <2>1 DEF Account
<1>8. CASE /\ drain'.pc = "off" /\ drain'.items = Nothing /\ phase' = "down"
           /\ (phase = "closed" /\ faults' = faults) \/ faults' = faults + 1
  <2>1. UnderWay(i)' = 0 /\ Reserve(i)' = 0
    BY <1>8 DEF UnderWay, Reserve
  <2>2. CASE faults' = faults + 1
    BY <1>1, <1>2, <2>1, <2>2 DEF Account
  <2>3. CASE phase = "closed" /\ faults' = faults
    <3>1. UnderWay(i) = 1 => Reserve(i) = 1
      BY <2>3, CurrentReport DEF UnderWay, Reserve, DuplicatesInv
    <3> QED
      BY <1>1, <1>2, <2>1, <2>3, <3>1 DEF Account
  <2> QED
    BY <1>8, <2>2, <2>3
<1> QED
  BY <1>3, <1>4, <1>5, <1>6, <1>7, <1>8, QuietEffect

\* The account of a queued item that drain does not work on, or that it settles.
LEMMA AccountStep ==
    ASSUME TypeOK, DuplicatesInv, [Next]_vars, NEW i \in Ids(queue')
    PROVE  Account(i)'
<1> USE UplinkNumbers, Bits
<1>0. i \in Ids(queue) => Account(i)
  BY DEF DuplicatesInv, Accounts
<1>1. CASE Quiet
  BY <1>1, AccountQuiet, QuietEffect
<1>2. CASE NewReport
  <2> DEFINE id == queue.seq + 1
  <2>1. /\ Ids(queue') = Ids(queue) \cup {id} /\ queue'.items[id].attempts = 0
        /\ \A k \in Ids(queue) : queue'.items[k] = queue.items[k]
        /\ UNCHANGED <<drain, received, phase, faults>>
    BY <1>2, ReportEffect
  <2>2. /\ Times(i)' = Times(i) /\ Reserve(i)' = Reserve(i) /\ UnderWay(i)' = UnderWay(i)
    BY <2>1 DEF Times, Reserve, UnderWay, Current
  <2>3. CASE i \in Ids(queue)
    BY <1>0, <2>1, <2>2, <2>3 DEF Account
  <2>4. CASE i = id
    <3>1. id \notin 1 .. queue.seq
      BY DEF TypeOK, IsQueue
    <3>2. Times(i) = 0
      BY <2>4, <3>1 DEF DuplicatesInv, OnlyQueuedReceived
    <3>3. Reserve(i) <= faults
      <4>1. i \notin DOMAIN drain.items
        BY <2>4, <3>1 DEF TypeOK
      <4> QED
        BY <4>1 DEF Reserve, DuplicatesInv, StopIsFault
    <3> QED
      BY <2>1, <2>2, <2>4, <3>2, <3>3 DEF Account
  <2> QED
    BY <2>1, <2>3, <2>4
<1>3. CASE DrainLease
  <2>1. /\ Ids(queue') = Ids(queue) /\ queue'.items[i].attempts = queue.items[i].attempts
        /\ drain.pc = "tick" /\ drain'.pc = "push" /\ phase \in {"up", "stopping"}
        /\ UNCHANGED <<received, phase, faults>>
    BY <1>3, LeaseEffect
  <2>2. /\ Times(i)' = Times(i) /\ Reserve(i)' = Reserve(i) /\ UnderWay(i)' = UnderWay(i)
    BY <2>1 DEF Times, Reserve, UnderWay
  <2> QED
    BY <1>0, <2>1, <2>2 DEF Account
<1>4. CASE Push
  <2>1. PICK r : /\ r = Payload /\ Times(r)' \in {Times(r), Times(r) + 1}
                 /\ \A x : x /= r => Times(x)' = Times(x)
    BY <1>4, PushEffect
  <2>2. /\ drain.pc = "push" /\ drain'.pc \in {"ack", "nack"} /\ drain'.items = drain.items
        /\ UNCHANGED <<queue, phase, faults>>
    BY <1>4, PushEffect
  <2>3. r = Current
    BY <2>1, <2>2, CurrentReport DEF DuplicatesInv
  <2>4. Current' = Current
    BY <2>2 DEF Current
  <2>5. /\ Reserve(i)' = Reserve(i) /\ UnderWay(i) = 0
        /\ UnderWay(i)' = IF i = r THEN 1 ELSE 0
    BY <2>2, <2>3, <2>4 DEF Reserve, UnderWay
  <2>6. Times(i)' \in Nat /\ Times(i)' <= Times(i) + UnderWay(i)'
    BY <2>1, <2>5
  <2>7. /\ queue'.items[i].attempts = queue.items[i].attempts /\ faults' = faults
        /\ i \in Ids(queue) /\ Account(i)
    BY <1>0, <2>2
  <2> QED
    BY <2>5, <2>6, <2>7 DEF Account
<1>5. CASE DrainAck
  <2>1. /\ Ids(queue') \subseteq Ids(queue) /\ queue'.items[i] = queue.items[i]
        /\ drain.pc = "ack" /\ drain'.pc = "count" /\ drain'.items = drain.items
        /\ i = Current => phase = "closed"
        /\ UNCHANGED <<received, phase, faults>>
    BY <1>5, AckEffect
  <2>2. Current' = Current /\ Times(i)' = Times(i)
    BY <2>1 DEF Current, Times
  <2>3. UnderWay(i)' = 0
    BY <2>1 DEF UnderWay
  <2>4. CASE i /= Current
    <3>1. Reserve(i)' = Reserve(i) /\ UnderWay(i) = 0
      BY <2>1, <2>2, <2>4 DEF Reserve, UnderWay
    <3> QED
      BY <1>0, <2>1, <2>2, <2>3, <3>1 DEF Account
  <2>5. CASE i = Current
    <3>1. i \in DOMAIN drain.items
      BY <2>1, <2>5, CurrentReport DEF DuplicatesInv
    <3>2. Reserve(i) = 1 /\ Reserve(i)' = 0
      BY <2>1, <2>2, <2>5, <3>1 DEF Reserve
    <3> QED
      BY <1>0, <2>1, <2>2, <2>3, <3>2 DEF Account
  <2> QED
    BY <2>4, <2>5
<1>6. CASE DrainCount
  <2>1. /\ drain.pc = "count" /\ drain'.pc \in {"tick", "push"}
        /\ DOMAIN drain'.items = DOMAIN drain.items \ {Current}
        /\ UNCHANGED <<queue, received, phase, faults>>
    BY <1>6, CountEffect, RestLemma
  <2>2. Times(i)' = Times(i) /\ UnderWay(i) = 0 /\ UnderWay(i)' = 0
    BY <2>1 DEF Times, UnderWay
  <2>3. Reserve(i)' <= Reserve(i)
    BY <2>1 DEF Reserve
  <2> QED
    BY <1>0, <2>1, <2>2, <2>3 DEF Account
<1>7. CASE DrainNack
  <2>1. /\ drain.pc = "nack" /\ drain'.pc \in {"tick", "push"}
        /\ DOMAIN drain'.items = DOMAIN drain.items \ {Current}
        /\ Ids(queue') \subseteq Ids(queue)
        /\ UNCHANGED <<received, phase, faults>>
    BY <1>7, NackEffect, RestLemma
  <2>2. Times(i)' = Times(i) /\ UnderWay(i)' = 0
    BY <2>1 DEF Times, UnderWay
  <2>3. Reserve(i)' <= Reserve(i)
    BY <2>1 DEF Reserve
  <2>4. CASE i /= Current
    <3>1. UnderWay(i) = 0 /\ queue'.items[i] = queue.items[i]
      BY <1>7, <2>4, NackEffect DEF UnderWay
    <3> QED
      BY <1>0, <2>1, <2>2, <2>3, <3>1 DEF Account
  <2>5. CASE i = Current
    <3>1. CASE queue'.items[i].attempts = queue.items[i].attempts + 1
      BY <1>0, <2>1, <2>2, <2>3, <3>1 DEF Account
    <3>2. CASE queue' = queue /\ phase = "closed"
      <4>1. i \in DOMAIN drain.items
        BY <2>1, <2>5, CurrentReport DEF DuplicatesInv
      <4>2. Reserve(i) = 1 /\ Reserve(i)' = 0
        BY <2>1, <2>5, <3>2, <4>1 DEF Reserve
      <4> QED
        BY <1>0, <2>1, <2>2, <3>2, <4>2 DEF Account
    <3> QED
      BY <1>7, <2>5, <3>1, <3>2, NackEffect
  <2> QED
    BY <2>4, <2>5
<1> QED
  BY <1>1, <1>2, <1>3, <1>4, <1>5, <1>6, <1>7, StepKinds

\* The account of an item that is gone: drain does not push it again.
LEMMA SettledStep ==
    ASSUME TypeOK, DuplicatesInv, [Next]_vars, NEW i \in DOMAIN gone'
    PROVE  Settled(i)'
<1> USE UplinkNumbers, Bits
<1>1. faults' \in {faults, faults + 1}
  BY StepKinds, QuietEffect, ReportEffect, LeaseEffect, PushEffect, AckEffect, CountEffect,
     NackEffect
<1>2. ASSUME NEW c \in Ids(queue), NEW how \in {"acked", "dropped"}, Leaves(c, how),
             received' = received
      PROVE  Settled(i)'
  <2>1. /\ DOMAIN gone' = DOMAIN gone \cup {c}
        /\ gone'[c].attempts = queue.items[c].attempts
        /\ \A k \in DOMAIN gone : gone'[k] = gone[k]
    BY <1>2, LeavesLemma
  <2>2. Times(i)' = Times(i)
    BY <1>2 DEF Times
  <2>3. CASE i \in DOMAIN gone
    <3>1. Settled(i)
      BY <2>3 DEF DuplicatesInv, Accounts
    <3> QED
      BY <1>1, <2>1, <2>2, <2>3, <3>1 DEF Settled
  <2>4. CASE i = c
    <3>1. Account(i)
      BY <2>4 DEF DuplicatesInv, Accounts
    <3> QED
      BY <1>1, <2>1, <2>2, <2>4, <3>1 DEF Settled, Account
  <2> QED
    BY <2>1, <2>3, <2>4
<1>3. CASE DrainAck \/ DrainNack
  <2>1. received' = received
    BY <1>3, AckEffect, NackEffect
  <2>2. CASE gone' = gone
    <3>1. Settled(i) /\ Times(i)' = Times(i)
      BY <2>1, <2>2 DEF DuplicatesInv, Accounts, Times
    <3> QED
      BY <1>1, <2>2, <3>1 DEF Settled
  <2> QED
    BY <1>2, <1>3, <2>1, <2>2, AckEffect, NackEffect
<1>4. CASE Push
  <2>1. PICK r : r = Payload /\ \A x : x /= r => Times(x)' = Times(x)
    BY <1>4, PushEffect
  <2>2. drain.pc = "push" /\ gone' = gone
    BY <1>4, PushEffect
  <2>3. r \in Ids(queue)
    BY <2>1, <2>2, CurrentReport DEF DuplicatesInv, LeftIsQueued
  <2>4. Times(i)' = Times(i) /\ Settled(i)
    BY <2>1, <2>2, <2>3 DEF DuplicatesInv, Accounts
  <2> QED
    BY <1>1, <2>2, <2>4 DEF Settled
<1>5. CASE Quiet \/ NewReport \/ DrainLease \/ DrainCount
  <2>1. received' = received /\ gone' = gone
    BY <1>5, QuietEffect, ReportEffect, LeaseEffect, CountEffect
  <2>2. Times(i)' = Times(i) /\ Settled(i)
    BY <2>1 DEF DuplicatesInv, Accounts, Times
  <2> QED
    BY <1>1, <2>1, <2>2 DEF Settled
<1> QED
  BY <1>3, <1>4, <1>5, StepKinds

\* Every step keeps the accounts.
LEMMA DuplicatesStep == TypeOK /\ DuplicatesInv /\ [Next]_vars => DuplicatesInv'
<1> SUFFICES ASSUME TypeOK, DuplicatesInv, [Next]_vars PROVE DuplicatesInv'
  OBVIOUS
<1>1. Working' /\ ReportsAreIds'
  BY WorkingStep, ReportsStep DEF DuplicatesInv
<1>2. LeftIsQueued' /\ OnlyQueuedReceived' /\ StopIsFault'
  BY LeftStep, ReceivedStep, StopStep DEF DuplicatesInv
<1>3. Accounts'
  BY AccountStep, SettledStep DEF Accounts
<1> QED
  BY <1>1, <1>2, <1>3 DEF DuplicatesInv

\* The parent gets a report at most once for each attempt the item counts, each stop or
\* crash, and the attempt under way (batch.go:219-231): nothing else sends it twice,
\* whatever the leases, the batch and the number of reports.
THEOREM DuplicatesAccounted == Spec => []DuplicatesBounded
<1>1. Init => TypeOK /\ DuplicatesInv
  BY TypeInit, DuplicatesInit
<1>2. TypeOK /\ DuplicatesInv /\ [Next]_vars => (TypeOK /\ DuplicatesInv)'
  BY TypeStep, DuplicatesStep
<1>3. TypeOK /\ DuplicatesInv => DuplicatesBounded
  <2> SUFFICES ASSUME TypeOK, DuplicatesInv PROVE DuplicatesBounded
    OBVIOUS
  <2> USE UplinkNumbers, Bits
  <2>1. \A i \in Ids(queue) : Times(queue.items[i].payload)
                             <= queue.items[i].attempts + faults + UnderWay(i)
    BY DEF DuplicatesInv, Accounts, Account, ReportsAreIds
  <2>2. \A i \in DOMAIN gone : Times(gone[i].report) <= gone[i].attempts + 1 + faults
    BY DEF DuplicatesInv, Accounts, Settled, ReportsAreIds
  <2> QED
    BY <2>1, <2>2 DEF DuplicatesBounded, UnderWay
<1> QED
  BY <1>1, <1>2, <1>3, PTL DEF Spec
=============================================================================
