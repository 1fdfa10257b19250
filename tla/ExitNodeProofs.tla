--------------------------- MODULE ExitNodeProofs ---------------------------
(***************************************************************************)
(* Proofs about ExitNode, for any clients, rotations, size of the bus and  *)
(* number of faults: whose stream is whose, and what the gauges count.     *)
(***************************************************************************)
EXTENDS ExitNode, FiniteSetTheorems, SequenceTheorems, TLAPS

---------------------------------------------------------------------------
(* Whose stream is whose. *)

\* Conn_ids are numbers that the counter has reached, and no two clients have the same;
\* a client has none before it is registered, and waits under none but its own.
IdsInv ==
    /\ connSeq \in Nat /\ cid \in [Clients -> Nat]
    /\ front \in [Clients -> {"none", "open", "push", "done", "refused"}]
    /\ owner \in [Clients -> Clients \cup {Nobody}]
    /\ \A c \in Clients : cid[c] <= connSeq
    /\ \A c \in Clients : front[c] \in {"none", "open"} => cid[c] = 0
    /\ \A c, d \in Clients : cid[c] = cid[d] /\ cid[c] /= 0 => c = d
    /\ \A n \in DOMAIN pending : n /= 0 /\ pending[n] \in Clients /\ cid[pending[n]] = n
    /\ OwnStream

\* Nobody is registered.
LEMMA IdsInit == Init => IdsInv
  BY DEF Init, IdsInv, OwnStream

\* The steps of the parent's front ends (main.go:152-176).
LEMMA IdsFront ==
    ASSUME IdsInv, NEW c \in Clients, Handshake(c) \/ Front(c)
    PROVE  IdsInv'
<1>1. CASE Handshake(c) \/ NoChild(c)
  BY <1>1 DEF Handshake, HandleSocks, HandleConnect, NoChild, Refuses, IdsInv, OwnStream, relayVars
<1>2. CASE Register(c)
  <2>1. /\ connSeq' = connSeq + 1 /\ cid' = [cid EXCEPT ![c] = connSeq + 1]
        /\ pending' = With(pending, connSeq + 1, c)
        /\ front' = [front EXCEPT ![c] = "push"] /\ owner' = owner
        /\ front[c] = "open"
    BY <1>2 DEF Register, relayVars
  <2>2. cid[c] = 0
    BY <2>1 DEF IdsInv
  <2>3. /\ cid' \in [Clients -> Nat] /\ cid'[c] = connSeq + 1
        /\ \A d \in Clients \ {c} : cid'[d] = cid[d] /\ cid'[d] <= connSeq
    BY <2>1 DEF IdsInv
  <2>4. \A n \in DOMAIN pending' : n /= 0 /\ pending'[n] \in Clients /\ cid'[pending'[n]] = n
    BY <2>1, <2>2, <2>3 DEF IdsInv, With
  <2> QED
    BY <2>1, <2>3, <2>4 DEF IdsInv, OwnStream
<1>3. CASE Push(c)
  BY <1>3 DEF Push, IdsInv, OwnStream, relayVars
<1>4. CASE PushFails(c)
  BY <1>4 DEF PushFails, Refuses, Without, IdsInv, OwnStream, relayVars
<1> QED
  BY <1>1, <1>2, <1>3, <1>4 DEF Front

\* takePending (main.go:176): the client under the stream's conn_id is the stream's own.
LEMMA IdsAccepts ==
    ASSUME IdsInv, NEW c \in Clients, Accepts(c)
    PROVE  IdsInv'
<1>1. /\ pending' = Without(pending, cid[c]) /\ UNCHANGED <<front, connSeq, cid>>
      /\ owner' = IF cid[c] \in DOMAIN pending THEN [owner EXCEPT ![c] = pending[cid[c]]]
                                               ELSE owner
  BY DEF Accepts
<1>2. cid[c] \in DOMAIN pending => pending[cid[c]] = c
  BY DEF IdsInv
<1> QED
  BY <1>1, <1>2 DEF IdsInv, OwnStream, Without

\* Nothing else touches conn_ids, the waiting clients or whom a stream relays.
LEMMA IdsUntouched ==
    ASSUME IdsInv, UNCHANGED <<parentVars, owner>>
    PROVE  IdsInv'
  BY DEF IdsInv, OwnStream, parentVars

\* The steps that leave them alone.
LEMMA Elsewhere ==
    ASSUME [Next]_vars,
           ~\E c \in Clients : Handshake(c) \/ Front(c) \/ Accepts(c)
    PROVE  UNCHANGED <<parentVars, owner>>
<1> USE DEF relayVars
<1>1. CASE MainStep
  BY <1>1 DEF MainStep, Others, Initialise, ProcessEnds
<1>2. CASE TunnelStep \/ ProxyStep \/ Breaks
  BY <1>2 DEF TunnelStep, ProxyStep, Connects, SessionEnds, HandleCommand, TakesEgress,
              TakesRotate, ProxyStops, Breaks
<1>3. CASE \/ OpenFails /\ UNCHANGED Others
           \/ Sigterm /\ Fault /\ UNCHANGED <<parentVars, poll, wire, busVars, relayVars, torVars, lost>>
           \/ Stalls \/ \E w \in Workers : Supervises(w)
  BY <1>3 DEF Others, Supervises, Stalls
<1>4. CASE \E c \in Clients :
             HandleStep(c) \/ AnnounceFails(c) \/ Returns(c) \/ RelayEnds(c) \/ BreaksUnread(c)
  BY <1>4 DEF HandleStep, Announces, Dials, DialFails, AnnounceFails, Returns, RelayEnds, BreaksUnread
<1>5. CASE \E r \in Rotations : ParentRotates(r) \/ RotateStep(r)
  BY <1>5 DEF ParentRotates, RotateStep, RotateFails, Newnym, CountsRotation
<1>6. CASE UNCHANGED vars
  BY <1>6 DEF vars
<1> QED
  BY <1>1, <1>2, <1>3, <1>4, <1>5, <1>6 DEF Next

\* A stream relays the client whose command opened it, whatever waits, breaks and
\* reconnects (parent-stub main.go:152-176).
THEOREM StreamsAreOwn == Spec => []OwnStream
<1>1. Init => IdsInv
  BY IdsInit
<1>2. IdsInv /\ [Next]_vars => IdsInv'
  BY IdsFront, IdsAccepts, IdsUntouched, Elsewhere
<1>3. IdsInv => OwnStream
  BY DEF IdsInv
<1> QED
  BY <1>1, <1>2, <1>3, PTL DEF Spec

---------------------------------------------------------------------------
(* Each command is handled once. *)

Has(q, e)  == \E i \in 1 .. Len(q) : q[i] = e
Once(q, e) == \A i, j \in 1 .. Len(q) : q[i] = e /\ q[j] = e => i = j

\* What is in a sequence when an element is added at its end ...
LEMMA AppendHas ==
    ASSUME NEW S, NEW q \in Seq(S), NEW e \in S, NEW x
    PROVE  /\ Append(q, e) \in Seq(S)
           /\ Has(Append(q, e), x) => Has(q, x) \/ x = e
           /\ Once(q, x) /\ (x = e => ~Has(q, x)) => Once(Append(q, e), x)
<1> DEFINE a == Append(q, e)
<1>1. /\ a \in Seq(S) /\ Len(a) = Len(q) + 1 /\ Len(q) \in Nat
      /\ \A i \in 1 .. Len(q) : a[i] = q[i]
      /\ a[Len(q) + 1] = e
  BY AppendProperties, LenProperties
<1> HIDE DEF a
<1>2. \A i \in 1 .. Len(a) : (i \in 1 .. Len(q) /\ a[i] = q[i]) \/ (i = Len(q) + 1 /\ a[i] = e)
  BY <1>1
<1>3. Has(a, x) => Has(q, x) \/ x = e
  BY <1>2 DEF Has
<1>4. Once(q, x) /\ (x = e => ~Has(q, x)) => Once(a, x)
  BY <1>2 DEF Has, Once
<1> QED
  BY <1>1, <1>3, <1>4 DEF a

\* ... and when its first is taken.
LEMMA TailHas ==
    ASSUME NEW S, NEW q \in Seq(S), q /= <<>>, NEW x
    PROVE  /\ Tail(q) \in Seq(S) /\ Head(q) \in S
           /\ Has(q, Head(q))
           /\ Has(Tail(q), x) => Has(q, x)
           /\ Once(q, x) => Once(Tail(q), x)
           /\ Once(q, Head(q)) => ~Has(Tail(q), Head(q))
<1> DEFINE t == Tail(q)
           h == Head(q)
<1>1. Len(q) \in Nat \ {0}
  BY EmptySeq
<1>2. /\ h \in S /\ h = q[1] /\ t \in Seq(S) /\ Len(t) = Len(q) - 1
      /\ \A i \in 1 .. Len(t) : t[i] = q[i + 1]
  BY <1>1, HeadTailProperties
<1> HIDE DEF t, h
<1>3. \A i \in 1 .. Len(t) : i + 1 \in 1 .. Len(q) /\ i + 1 /= 1 /\ t[i] = q[i + 1]
  BY <1>1, <1>2
<1>4. 1 \in 1 .. Len(q)
  BY <1>1
<1>5. Has(t, x) => Has(q, x)
  BY <1>3 DEF Has
<1>6. Once(q, x) => Once(t, x)
  <2> SUFFICES ASSUME Once(q, x), NEW i \in 1 .. Len(t), NEW j \in 1 .. Len(t), t[i] = x, t[j] = x
               PROVE  i = j
    BY DEF Once
  <2>1. i + 1 = j + 1
    BY <1>3 DEF Once
  <2> QED
    BY <2>1, <1>1, <1>2
<1>7. Once(q, h) => ~Has(t, h)
  <2> SUFFICES ASSUME Once(q, h), NEW i \in 1 .. Len(t), t[i] = h PROVE FALSE
    BY DEF Has
  <2> QED
    BY <1>2, <1>3, <1>4 DEF Once
<1>8. Has(q, h)
  BY <1>2, <1>4 DEF Has
<1> QED
  BY <1>2, <1>5, <1>6, <1>7, <1>8 DEF t, h

Egresses  == [topic : {"egress"}, of : Clients]
Rotates   == [topic : {"rotate"}, of : Rotations]
Commands  == Egresses \cup Rotates

InWire(c) == Has(wire, EgressOpen(c))
InBus(c)  == Has(bus["egress"], EgressOpen(c))

\* The command of a client is written when its front end has registered it; from then
\* on it is, once, on the stream, in the bus or with a goroutine, or it is lost.
CommandsInv ==
    /\ front \in [Clients -> {"none", "open", "push", "done", "refused"}]
    /\ handle \in [Clients -> {"none", "open", "dial", "relay", "returned"}]
    /\ wire \in Seq(Commands)
    /\ bus \in [Topics -> Seq(Commands)]
    /\ bus["egress"] \in Seq(Egresses) /\ bus["rotate"] \in Seq(Rotates)
    /\ \A c \in Clients :
         /\ InWire(c) => front[c] = "done" /\ handle[c] = "none" /\ ~InBus(c)
         /\ InBus(c) => front[c] = "done" /\ handle[c] = "none"
         /\ handle[c] /= "none" => front[c] = "done"
         /\ Once(wire, EgressOpen(c)) /\ Once(bus["egress"], EgressOpen(c))

\* Nothing was sent.
LEMMA CommandsInit == Init => CommandsInv
<1> SUFFICES ASSUME Init PROVE CommandsInv
  OBVIOUS
<1>1. /\ wire = <<>> /\ bus = [t \in Topics |-> <<>>]
      /\ front = [c \in Clients |-> "none"] /\ handle = [c \in Clients |-> "none"]
  BY DEF Init
<1>2. \A S : <<>> \in Seq(S) /\ Len(<<>>) = 0
  BY EmptySeq
<1> QED
  BY <1>1, <1>2 DEF CommandsInv, InWire, InBus, Has, Once, Topics

\* A front end that has not written its command, and does not.
LEMMA FrontMoves ==
    ASSUME CommandsInv, NEW c \in Clients, front[c] /= "done",
           NEW x \in {"none", "open", "push", "done", "refused"},
           front' = [front EXCEPT ![c] = x], UNCHANGED <<wire, bus, handle>>
    PROVE  CommandsInv'
  BY DEF CommandsInv, InWire, InBus

\* A goroutine that has its command.
LEMMA HandleMoves ==
    ASSUME CommandsInv, NEW c \in Clients, handle[c] /= "none",
           NEW x \in {"dial", "relay", "returned"},
           handle' = [handle EXCEPT ![c] = x], UNCHANGED <<front, wire, bus>>
    PROVE  CommandsInv'
  BY DEF CommandsInv, InWire, InBus

\* A stream that breaks or ends loses what is on it.
LEMMA WireCleared ==
    ASSUME CommandsInv, wire' = <<>>, UNCHANGED <<front, bus, handle>>
    PROVE  CommandsInv'
<1>1. wire' \in Seq(Commands) /\ Len(wire') = 0
  BY EmptySeq
<1> QED
  BY <1>1 DEF CommandsInv, InWire, InBus, Has, Once

\* A command is added to the stream.
LEMMA WireAppended ==
    ASSUME CommandsInv, NEW msg \in Commands, wire' = Append(wire, msg)
    PROVE  /\ wire' \in Seq(Commands)
           /\ \A c \in Clients :
                /\ InWire(c)' => InWire(c) \/ msg = EgressOpen(c)
                /\ (msg = EgressOpen(c) => ~InWire(c)) => Once(wire', EgressOpen(c))
<1>1. wire \in Seq(Commands)
  BY DEF CommandsInv
<1>2. \A c \in Clients : Once(wire, EgressOpen(c))
  BY DEF CommandsInv
<1> QED
  BY <1>1, <1>2, AppendHas DEF InWire

\* The front ends (main.go:152-176).
LEMMA CommandsFront ==
    ASSUME CommandsInv, NEW c \in Clients, Handshake(c) \/ Front(c)
    PROVE  CommandsInv'
<1>1. CASE Handshake(c) \/ NoChild(c) \/ Register(c) \/ PushFails(c)
  <2>1. /\ front[c] /= "done" /\ UNCHANGED <<wire, bus, handle>>
        /\ \E x \in {"open", "push", "refused"} : front' = [front EXCEPT ![c] = x]
    BY <1>1 DEF Handshake, HandleSocks, HandleConnect, NoChild, Register, PushFails, Refuses,
                busVars, relayVars
  <2> QED
    BY <2>1, FrontMoves
<1>2. CASE Push(c) /\ poll = "up"
  <2>1. /\ front[c] = "push" /\ front' = [front EXCEPT ![c] = "done"]
        /\ wire' = Append(wire, EgressOpen(c)) /\ UNCHANGED <<bus, handle>>
    BY <1>2 DEF Push, busVars, relayVars
  <2>2. handle[c] = "none" /\ ~InWire(c) /\ ~InBus(c)
    BY <2>1 DEF CommandsInv
  <2>3. EgressOpen(c) \in Commands /\ \A d \in Clients : EgressOpen(c) = EgressOpen(d) => c = d
    BY DEF EgressOpen, Commands, Egresses
  <2>4. /\ wire' \in Seq(Commands)
        /\ \A d \in Clients : Once(wire', EgressOpen(d)) /\ (InWire(d)' => InWire(d) \/ d = c)
    BY <2>1, <2>2, <2>3, WireAppended
  <2>5. \A d \in Clients : InBus(d)' <=> InBus(d)
    BY <2>1 DEF InBus
  <2> QED
    BY <2>1, <2>2, <2>4, <2>5 DEF CommandsInv
<1>3. CASE Push(c) /\ poll /= "up"
  <2>1. /\ front[c] = "push" /\ front' = [front EXCEPT ![c] = "done"]
        /\ UNCHANGED <<wire, bus, handle>>
    BY <1>3 DEF Push, busVars, relayVars
  <2> QED
    BY <2>1, FrontMoves
<1> QED
  BY <1>1, <1>2, <1>3 DEF Front

\* The parent sends a rotate command.
LEMMA CommandsRotate ==
    ASSUME CommandsInv, NEW r \in Rotations, ParentRotates(r)
    PROVE  CommandsInv'
<1>1. wire' = Append(wire, RotateEgress(r)) /\ UNCHANGED <<front, bus, handle>>
  BY DEF ParentRotates, parentVars, busVars, relayVars
<1>2. RotateEgress(r) \in Commands /\ \A c \in Clients : RotateEgress(r) /= EgressOpen(c)
  BY DEF RotateEgress, EgressOpen, Commands, Rotates
<1>3. /\ wire' \in Seq(Commands)
      /\ \A c \in Clients : Once(wire', EgressOpen(c)) /\ (InWire(c)' => InWire(c))
  BY <1>1, <1>2, WireAppended
<1> QED
  BY <1>1, <1>3 DEF CommandsInv, InBus

\* handleCommand publishes the oldest command, or the bus drops it (bus.go:46-58).
LEMMA CommandsHandled ==
    ASSUME CommandsInv, HandleCommand
    PROVE  CommandsInv'
<1> DEFINE msg == Head(wire)
           t   == msg.topic
<1>1. /\ wire /= <<>> /\ wire' = Tail(wire) /\ UNCHANGED <<front, handle>>
      /\ bus' = bus \/ bus' = [bus EXCEPT ![t] = Append(@, msg)]
  BY DEF HandleCommand, Publish, parentVars, relayVars
<1>2. wire \in Seq(Commands)
  BY DEF CommandsInv
<1>3. /\ wire' \in Seq(Commands) /\ msg \in Commands /\ Has(wire, msg)
      /\ \A c \in Clients :
           /\ InWire(c)' => InWire(c)
           /\ Once(wire', EgressOpen(c))
           /\ msg = EgressOpen(c) => ~InWire(c)'
  BY <1>1, <1>2, TailHas DEF CommandsInv, InWire
<1>4. CASE bus' = bus
  BY <1>1, <1>3, <1>4 DEF CommandsInv, InBus
<1>5. CASE bus' = [bus EXCEPT ![t] = Append(@, msg)] /\ msg \in Rotates
  <2>1. t = "rotate" /\ t \in Topics
    BY <1>5 DEF Rotates, Topics
  <2>2. Append(bus["rotate"], msg) \in Seq(Rotates) /\ Append(bus["rotate"], msg) \in Seq(Commands)
    BY <1>3, <1>5, AppendProperties, <2>1 DEF CommandsInv
  <2>3. bus' \in [Topics -> Seq(Commands)] /\ bus'["egress"] = bus["egress"]
        /\ bus'["rotate"] \in Seq(Rotates)
    BY <1>5, <2>1, <2>2 DEF CommandsInv, Topics
  <2> QED
    BY <1>1, <1>3, <2>3 DEF CommandsInv, InBus
<1>6. CASE bus' = [bus EXCEPT ![t] = Append(@, msg)] /\ msg \in Egresses
  <2>1. t = "egress" /\ t \in Topics
    BY <1>6 DEF Egresses, Topics
  <2>2. PICK c \in Clients : msg = EgressOpen(c)
    BY <1>6 DEF Egresses, EgressOpen
  <2>3. \A d \in Clients : EgressOpen(c) = EgressOpen(d) => c = d
    BY DEF EgressOpen
  <2> DEFINE b == bus["egress"]
  <2>4. b \in Seq(Egresses) /\ b \in Seq(Commands)
    BY <2>1 DEF CommandsInv
  <2>5. Append(b, msg) \in Seq(Egresses) /\ Append(b, msg) \in Seq(Commands)
    BY <1>3, <1>6, <2>4, AppendProperties
  <2>6. /\ bus' \in [Topics -> Seq(Commands)] /\ bus'["egress"] = Append(b, msg)
        /\ bus'["rotate"] = bus["rotate"]
    BY <1>6, <2>1, <2>5 DEF CommandsInv, Topics
  <2>7. front[c] = "done" /\ handle[c] = "none" /\ ~InBus(c)
    BY <1>3, <2>2 DEF CommandsInv, InWire
  <2>8. \A d \in Clients :
          /\ InBus(d)' => InBus(d) \/ d = c
          /\ Once(bus'["egress"], EgressOpen(d))
    <3>1. \A d \in Clients : Once(b, EgressOpen(d))
      BY DEF CommandsInv
    <3> QED
      BY <1>6, <2>2, <2>3, <2>4, <2>6, <2>7, <3>1, AppendHas DEF InBus
  <2> QED
    BY <1>1, <1>3, <2>2, <2>5, <2>6, <2>7, <2>8 DEF CommandsInv
<1> QED
  BY <1>1, <1>3, <1>4, <1>5, <1>6 DEF Commands

\* The proxy worker starts a goroutine for the oldest command (proxy.go:41-54).
LEMMA CommandsTaken ==
    ASSUME CommandsInv, TakesEgress
    PROVE  /\ CommandsInv'
           /\ \E c \in Clients : handle[c] = "none" /\ handle' = [handle EXCEPT ![c] = "open"]
<1> DEFINE b == bus["egress"]
<1>1. /\ b /= <<>> /\ bus' = [bus EXCEPT !["egress"] = Tail(b)]
      /\ handle' = [handle EXCEPT ![Head(b).of] = "open"] /\ UNCHANGED <<front, wire>>
  BY DEF TakesEgress, parentVars
<1>2. b \in Seq(Egresses) /\ b \in Seq(Commands)
  BY DEF CommandsInv, Topics
<1>3. /\ Tail(b) \in Seq(Egresses) /\ Head(b) \in Egresses /\ Has(b, Head(b))
      /\ \A d \in Clients :
           /\ Has(Tail(b), EgressOpen(d)) => InBus(d)
           /\ Once(Tail(b), EgressOpen(d))
           /\ Head(b) = EgressOpen(d) => ~Has(Tail(b), EgressOpen(d))
  BY <1>1, <1>2, TailHas DEF CommandsInv, InBus
<1>4. Tail(b) \in Seq(Commands)
  BY <1>1, <1>2, HeadTailProperties
<1>5. PICK c \in Clients : Head(b) = EgressOpen(c) /\ Head(b).of = c
  BY <1>3 DEF Egresses, EgressOpen
<1>6. front[c] = "done" /\ handle[c] = "none" /\ ~InWire(c)
  BY <1>3, <1>5 DEF CommandsInv, InBus
<1>7. /\ bus' \in [Topics -> Seq(Commands)] /\ bus'["egress"] = Tail(b)
      /\ bus'["rotate"] = bus["rotate"]
  BY <1>1, <1>4 DEF CommandsInv, Topics
<1>8. handle' = [handle EXCEPT ![c] = "open"]
  BY <1>1, <1>5
<1>9. \A d \in Clients : (InBus(d)' => InBus(d) /\ d /= c) /\ (InWire(d)' <=> InWire(d))
  BY <1>1, <1>3, <1>5, <1>7 DEF InBus, InWire
<1>10. CommandsInv'
  BY <1>1, <1>3, <1>6, <1>7, <1>8, <1>9 DEF CommandsInv
<1> QED
  BY <1>6, <1>8, <1>10

\* ... or for a rotation.
LEMMA CommandsTurned ==
    ASSUME CommandsInv, TakesRotate
    PROVE  CommandsInv'
<1> DEFINE b == bus["rotate"]
<1>1. /\ b /= <<>> /\ bus' = [bus EXCEPT !["rotate"] = Tail(b)]
      /\ UNCHANGED <<front, handle, wire>>
  BY DEF TakesRotate, parentVars, relayVars
<1>2. b \in Seq(Rotates) /\ b \in Seq(Commands)
  BY DEF CommandsInv, Topics
<1>3. Tail(b) \in Seq(Rotates) /\ Tail(b) \in Seq(Commands)
  BY <1>1, <1>2, HeadTailProperties
<1>4. /\ bus' \in [Topics -> Seq(Commands)] /\ bus'["egress"] = bus["egress"]
      /\ bus'["rotate"] = Tail(b)
  BY <1>1, <1>3 DEF CommandsInv, Topics
<1> QED
  BY <1>1, <1>3, <1>4 DEF CommandsInv, InWire, InBus

\* The other steps: those that lose a stream, end a goroutine or touch nothing of it.
LEMMA CommandsElsewhere ==
    ASSUME CommandsInv, [Next]_vars,
           ~(HandleCommand \/ TakesEgress \/ TakesRotate),
           ~\E c \in Clients : Handshake(c) \/ Front(c),
           ~\E r \in Rotations : ParentRotates(r)
    PROVE  CommandsInv'
<1>1. CASE ProcessEnds
  <2>1. /\ front' = front /\ wire' = <<>> /\ bus' = [t \in Topics |-> <<>>]
        /\ handle' = [c \in Clients |-> IF handle[c] = "none" THEN "none" ELSE "returned"]
    BY <1>1 DEF ProcessEnds, parentVars
  <2>2. \A S : <<>> \in Seq(S) /\ Len(<<>>) = 0
    BY EmptySeq
  <2>3. /\ bus' \in [Topics -> Seq(Commands)] /\ bus'["egress"] = <<>> /\ bus'["rotate"] = <<>>
    BY <2>1, <2>2 DEF Topics
  <2>4. wire' \in Seq(Commands) /\ bus'["egress"] \in Seq(Egresses) /\ bus'["rotate"] \in Seq(Rotates)
    BY <2>1, <2>2, <2>3
  <2>5. /\ handle' \in [Clients -> {"none", "open", "dial", "relay", "returned"}]
        /\ \A c \in Clients : handle'[c] /= "none" => handle[c] /= "none"
    BY <2>1 DEF CommandsInv
  <2>6. \A c \in Clients : /\ ~InWire(c)' /\ ~InBus(c)'
                          /\ Once(wire', EgressOpen(c)) /\ Once(bus'["egress"], EgressOpen(c))
    BY <2>1, <2>2, <2>3 DEF InWire, InBus, Has, Once
  <2> QED
    BY <2>1, <2>3, <2>4, <2>5, <2>6 DEF CommandsInv
<1>2. CASE SessionEnds \/ Breaks
  BY <1>2, WireCleared DEF SessionEnds, Breaks, parentVars, busVars, relayVars
<1>3. CASE \E c \in Clients : HandleStep(c) \/ AnnounceFails(c) \/ Returns(c)
  <2> PICK c \in Clients : HandleStep(c) \/ AnnounceFails(c) \/ Returns(c)
    BY <1>3
  <2>1. /\ handle[c] /= "none" /\ UNCHANGED <<front, wire, bus>>
        /\ \E x \in {"dial", "relay", "returned"} : handle' = [handle EXCEPT ![c] = x]
    BY DEF HandleStep, Announces, Dials, DialFails, AnnounceFails, Returns, parentVars, busVars
  <2> QED
    BY <2>1, HandleMoves
<1>4. CASE UNCHANGED <<front, wire, bus, handle>>
  BY <1>4 DEF CommandsInv, InWire, InBus
<1>5. ASSUME ~ProcessEnds, ~SessionEnds, ~Breaks,
             ~\E c \in Clients : HandleStep(c) \/ AnnounceFails(c) \/ Returns(c)
      PROVE  UNCHANGED <<front, wire, bus, handle>>
  <2> USE <1>5 DEF parentVars, busVars, relayVars
  <2>1. CASE MainStep
    BY <2>1 DEF MainStep, Others, Initialise
  <2>2. CASE Connects \/ ProxyStops \/ UNCHANGED vars
    BY <2>2 DEF Connects, ProxyStops, vars
  <2>3. CASE \/ OpenFails /\ UNCHANGED Others
             \/ Sigterm /\ Fault /\ UNCHANGED <<parentVars, poll, wire, busVars, relayVars, torVars, lost>>
             \/ Stalls \/ \E w \in Workers : Supervises(w)
    BY <2>3 DEF Others, Supervises, Stalls
  <2>4. CASE \E c \in Clients : Accepts(c) \/ RelayEnds(c) \/ BreaksUnread(c)
    BY <2>4 DEF Accepts, RelayEnds, BreaksUnread
  <2>5. CASE \E r \in Rotations : RotateStep(r)
    BY <2>5 DEF RotateStep, RotateFails, Newnym, CountsRotation
  <2> QED
    BY <2>1, <2>2, <2>3, <2>4, <2>5 DEF Next, TunnelStep, ProxyStep
<1> QED
  BY <1>1, <1>2, <1>3, <1>4, <1>5

LEMMA CommandsStep == CommandsInv /\ [Next]_vars => CommandsInv'
  BY CommandsFront, CommandsRotate, CommandsHandled, CommandsTaken, CommandsTurned,
     CommandsElsewhere

---------------------------------------------------------------------------
(* What the agent reports of itself. *)

Relaying(s) == {c \in Clients : Service(c) = s /\ handle[c] = "relay"}
Counting    == {r \in Rotations : rot[r] = "count"}

\* A goroutine is counted by its service while it relays.
GaugeInv ==
    /\ gauge \in [Services -> Int]
    /\ \A s \in Services : IsFiniteSet(Relaying(s)) /\ gauge[s] = Cardinality(Relaying(s))

\* A rotation that is about to be counted has been made.
RotationsInv ==
    /\ rot \in [Rotations -> {"none", "sent", "run", "count", "done", "failed"}]
    /\ newnyms \in Nat /\ counted \in Nat
    /\ IsFiniteSet(Counting) /\ counted + Cardinality(Counting) <= newnyms

LEMMA FiguresInit == Init => GaugeInv /\ RotationsInv
<1> SUFFICES ASSUME Init PROVE GaugeInv /\ RotationsInv
  OBVIOUS
<1>1. \A s \in Services : Relaying(s) = {}
  BY DEF Init, Relaying
<1>2. Counting = {}
  BY DEF Init, Counting
<1>3. IsFiniteSet({}) /\ Cardinality({}) = 0
  BY FS_EmptySet
<1>4. GaugeInv
  <2>1. gauge = [s \in Services |-> 0]
    BY DEF Init
  <2>2. \A s \in Services : IsFiniteSet(Relaying(s)) /\ Cardinality(Relaying(s)) = 0
    BY <1>1, <1>3
  <2> QED
    BY <2>1, <2>2 DEF GaugeInv
<1>5. RotationsInv
  <2>1. rot = [r \in Rotations |-> "none"] /\ newnyms = 0 /\ counted = 0
    BY DEF Init
  <2>2. IsFiniteSet(Counting) /\ Cardinality(Counting) = 0
    BY <1>2, <1>3
  <2> QED
    BY <2>1, <2>2 DEF RotationsInv
<1> QED
  BY <1>4, <1>5

\* A goroutine that does not relay before or after a step does not count.
LEMMA GaugeKept ==
    ASSUME GaugeInv, gauge' = gauge,
           \A c \in Clients : handle'[c] = "relay" <=> handle[c] = "relay"
    PROVE  GaugeInv'
<1>1. \A s : Relaying(s)' = Relaying(s)
  BY DEF Relaying
<1> QED
  BY <1>1 DEF GaugeInv

\* egressBegin (sysload.go:22-33).
LEMMA GaugeBegins ==
    ASSUME GaugeInv, CommandsInv, NEW c \in Clients, Dials(c)
    PROVE  GaugeInv'
<1> DEFINE s == Service(c)
<1>1. s \in Services
  BY DEF Service, Services
<1>2. /\ handle[c] = "dial" /\ handle' = [handle EXCEPT ![c] = "relay"]
      /\ gauge' = [gauge EXCEPT ![s] = @ + 1]
  BY DEF Dials
<1>3. c \notin Relaying(s) /\ Relaying(s)' = Relaying(s) \cup {c}
  BY <1>2 DEF Relaying, CommandsInv
<1>4. IsFiniteSet(Relaying(s)') /\ Cardinality(Relaying(s)') = Cardinality(Relaying(s)) + 1
  BY <1>1, <1>3, FS_AddElement DEF GaugeInv
<1>5. \A t \in Services \ {s} : Relaying(t)' = Relaying(t)
  BY <1>2 DEF Relaying, CommandsInv
<1> HIDE DEF s
<1> QED
  BY <1>1, <1>2, <1>4, <1>5 DEF GaugeInv

\* The deferred egressEnd (proxy.go:119-121).
LEMMA GaugeEnds ==
    ASSUME GaugeInv, CommandsInv, NEW c \in Clients, Returns(c)
    PROVE  GaugeInv'
<1> DEFINE s == Service(c)
<1>1. s \in Services
  BY DEF Service, Services
<1>2. /\ handle[c] = "relay" /\ handle' = [handle EXCEPT ![c] = "returned"]
      /\ gauge' = [gauge EXCEPT ![s] = @ - 1]
  BY DEF Returns
<1>3. c \in Relaying(s) /\ Relaying(s)' = Relaying(s) \ {c}
  BY <1>2 DEF Relaying, CommandsInv
<1>4. IsFiniteSet(Relaying(s)') /\ Cardinality(Relaying(s)') = Cardinality(Relaying(s)) - 1
  BY <1>1, <1>3, FS_RemoveElement DEF GaugeInv
<1>5. \A t \in Services \ {s} : Relaying(t)' = Relaying(t)
  BY <1>2 DEF Relaying, CommandsInv
<1> HIDE DEF s
<1> QED
  BY <1>1, <1>2, <1>4, <1>5 DEF GaugeInv

\* The end of the process ends all relays.
LEMMA GaugeEmptied ==
    ASSUME ProcessEnds
    PROVE  GaugeInv'
<1>1. gauge' = [s \in Services |-> 0]
  BY DEF ProcessEnds
<1>2. \A s \in Services : Relaying(s)' = {}
  BY DEF ProcessEnds, Relaying
<1> QED
  BY <1>1, <1>2, FS_EmptySet DEF GaugeInv

LEMMA GaugeStep == GaugeInv /\ CommandsInv /\ [Next]_vars => GaugeInv'
<1> SUFFICES ASSUME GaugeInv, CommandsInv, [Next]_vars PROVE GaugeInv'
  OBVIOUS
<1>1. CASE \E c \in Clients : Dials(c) \/ Returns(c)
  BY <1>1, GaugeBegins, GaugeEnds
<1>2. CASE ProcessEnds
  BY <1>2, GaugeEmptied
<1>3. CASE TakesEgress
  <2>1. gauge' = gauge
    BY <1>3 DEF TakesEgress
  <2> QED
    BY <1>3, <2>1, CommandsTaken, GaugeKept DEF CommandsInv
<1>4. CASE \E c \in Clients : Announces(c) \/ AnnounceFails(c) \/ DialFails(c)
  <2> PICK c \in Clients : Announces(c) \/ AnnounceFails(c) \/ DialFails(c)
    BY <1>4
  <2>1. /\ handle[c] \in {"open", "dial"} /\ gauge' = gauge
        /\ \E x \in {"dial", "returned"} : handle' = [handle EXCEPT ![c] = x]
    BY DEF Announces, AnnounceFails, DialFails
  <2> QED
    BY <2>1, GaugeKept DEF CommandsInv
<1>5. CASE UNCHANGED <<handle, gauge>>
  BY <1>5, GaugeKept
<1>6. ASSUME ~ProcessEnds, ~TakesEgress,
             ~\E c \in Clients : Dials(c) \/ Returns(c) \/ Announces(c) \/ AnnounceFails(c) \/ DialFails(c)
      PROVE  UNCHANGED <<handle, gauge>>
  <2> USE <1>6 DEF relayVars
  <2>1. CASE MainStep
    BY <2>1 DEF MainStep, Others, Initialise
  <2>2. CASE TunnelStep \/ ProxyStep \/ Breaks \/ UNCHANGED vars
    BY <2>2 DEF TunnelStep, ProxyStep, Connects, SessionEnds, HandleCommand, TakesRotate,
                ProxyStops, Breaks, vars
  <2>3. CASE \/ OpenFails /\ UNCHANGED Others
             \/ Sigterm /\ Fault /\ UNCHANGED <<parentVars, poll, wire, busVars, relayVars, torVars, lost>>
             \/ Stalls \/ \E w \in Workers : Supervises(w)
    BY <2>3 DEF Others, Supervises, Stalls
  <2>4. CASE \E c \in Clients : Handshake(c) \/ Front(c)
    BY <2>4 DEF Handshake, HandleSocks, HandleConnect, Front, NoChild, Register, Push, PushFails
  <2>5. CASE \E c \in Clients : Accepts(c) \/ RelayEnds(c) \/ BreaksUnread(c)
    BY <2>5 DEF Accepts, RelayEnds, BreaksUnread
  <2>6. CASE \E r \in Rotations : ParentRotates(r) \/ RotateStep(r)
    BY <2>6 DEF ParentRotates, RotateStep, RotateFails, Newnym, CountsRotation
  <2> QED
    BY <2>1, <2>2, <2>3, <2>4, <2>5, <2>6 DEF Next, HandleStep
<1> QED
  BY <1>1, <1>2, <1>3, <1>4, <1>5, <1>6

\* A rotation that stops being about to be counted.
LEMMA RotationLeaves ==
    ASSUME RotationsInv, NEW r \in Rotations, NEW x \in {"sent", "run", "done", "failed"},
           rot' = [rot EXCEPT ![r] = x]
    PROVE  /\ Counting' = Counting \ {r} /\ IsFiniteSet(Counting')
           /\ Cardinality(Counting') = IF rot[r] = "count" THEN Cardinality(Counting) - 1
                                                            ELSE Cardinality(Counting)
           /\ Cardinality(Counting') \in Nat
           /\ rot' \in [Rotations -> {"none", "sent", "run", "count", "done", "failed"}]
<1>1. Counting' = Counting \ {r} /\ (r \in Counting <=> rot[r] = "count")
  BY DEF RotationsInv, Counting
<1>2. rot' \in [Rotations -> {"none", "sent", "run", "count", "done", "failed"}]
  BY DEF RotationsInv
<1> QED
  BY <1>1, <1>2, FS_RemoveElement, FS_CardinalityType DEF RotationsInv

\* rotateTor and the counter (proxy.go:68-80).
LEMMA RotationsRotate ==
    ASSUME RotationsInv, NEW r \in Rotations, ParentRotates(r) \/ RotateStep(r)
    PROVE  RotationsInv'
<1>0. Cardinality(Counting) \in Nat
  BY FS_CardinalityType DEF RotationsInv
<1>1. CASE ParentRotates(r) \/ RotateFails(r)
  <2>1. /\ UNCHANGED <<newnyms, counted>> /\ rot[r] /= "count"
        /\ \E x \in {"sent", "failed"} : rot' = [rot EXCEPT ![r] = x]
    BY <1>1 DEF ParentRotates, RotateFails
  <2> QED
    BY <2>1, RotationLeaves DEF RotationsInv
<1>2. CASE Newnym(r)
  <2>1. /\ newnyms' = newnyms + 1 /\ counted' = counted /\ rot[r] = "run"
        /\ rot' = [rot EXCEPT ![r] = "count"] \/ rot' = [rot EXCEPT ![r] = "failed"]
    BY <1>2 DEF Newnym
  <2>2. CASE rot' = [rot EXCEPT ![r] = "failed"]
    <3>1. /\ IsFiniteSet(Counting') /\ Cardinality(Counting') = Cardinality(Counting)
          /\ rot' \in [Rotations -> {"none", "sent", "run", "count", "done", "failed"}]
      BY <2>1, <2>2, RotationLeaves
    <3> QED
      BY <1>0, <2>1, <3>1 DEF RotationsInv
  <2>3. CASE rot' = [rot EXCEPT ![r] = "count"]
    <3>1. r \notin Counting /\ Counting' = Counting \cup {r}
      BY <2>1, <2>3 DEF RotationsInv, Counting
    <3>2. IsFiniteSet(Counting') /\ Cardinality(Counting') = Cardinality(Counting) + 1
      BY <3>1, FS_AddElement DEF RotationsInv
    <3>3. rot' \in [Rotations -> {"none", "sent", "run", "count", "done", "failed"}]
      BY <2>3 DEF RotationsInv
    <3> QED
      BY <1>0, <2>1, <3>2, <3>3 DEF RotationsInv
  <2> QED
    BY <2>1, <2>2, <2>3
<1>3. CASE CountsRotation(r)
  <2>1. /\ newnyms' = newnyms /\ counted' \in {counted, counted + 1} /\ rot[r] = "count"
        /\ rot' = [rot EXCEPT ![r] = "done"]
    BY <1>3 DEF CountsRotation
  <2>2. /\ IsFiniteSet(Counting') /\ Cardinality(Counting') = Cardinality(Counting) - 1
        /\ rot' \in [Rotations -> {"none", "sent", "run", "count", "done", "failed"}]
    BY <2>1, RotationLeaves
  <2> QED
    BY <1>0, <2>1, <2>2 DEF RotationsInv
<1> QED
  BY <1>1, <1>2, <1>3 DEF RotateStep

\* The proxy worker starts the goroutine of a rotation.
LEMMA RotationsTaken ==
    ASSUME RotationsInv, CommandsInv, TakesRotate
    PROVE  RotationsInv'
<1> DEFINE b == bus["rotate"]
<1>1. /\ b /= <<>> /\ rot' = [rot EXCEPT ![Head(b).of] = "run"] /\ UNCHANGED <<newnyms, counted>>
  BY DEF TakesRotate
<1>2. b \in Seq(Rotates)
  BY DEF CommandsInv
<1>3. Head(b) \in Rotates
  BY <1>1, <1>2, HeadTailProperties
<1>4. PICK r \in Rotations : Head(b).of = r
  BY <1>3 DEF Rotates
<1>5. Cardinality(Counting) \in Nat
  BY FS_CardinalityType DEF RotationsInv
<1>6. rot' = [rot EXCEPT ![r] = "run"]
  BY <1>1, <1>4
<1>7. /\ IsFiniteSet(Counting') /\ Cardinality(Counting') \in Nat
      /\ Cardinality(Counting') \in {Cardinality(Counting) - 1, Cardinality(Counting)}
      /\ rot' \in [Rotations -> {"none", "sent", "run", "count", "done", "failed"}]
  BY <1>6, RotationLeaves
<1> QED
  BY <1>1, <1>5, <1>7 DEF RotationsInv

\* The end of the process ends them.
LEMMA RotationsEmptied ==
    ASSUME RotationsInv, ProcessEnds
    PROVE  RotationsInv'
<1>1. UNCHANGED <<newnyms, counted>>
  BY DEF ProcessEnds
<1>2. Counting' = {} /\ rot' \in [Rotations -> {"none", "sent", "run", "count", "done", "failed"}]
  BY DEF ProcessEnds, Counting, RotationsInv
<1>3. Cardinality(Counting) \in Nat
  BY FS_CardinalityType DEF RotationsInv
<1> QED
  BY <1>1, <1>2, <1>3, FS_EmptySet DEF RotationsInv

LEMMA RotationsStep == RotationsInv /\ CommandsInv /\ [Next]_vars => RotationsInv'
<1> SUFFICES ASSUME RotationsInv, CommandsInv, [Next]_vars PROVE RotationsInv'
  OBVIOUS
<1>1. CASE \E r \in Rotations : ParentRotates(r) \/ RotateStep(r)
  BY <1>1, RotationsRotate
<1>2. CASE TakesRotate
  BY <1>2, RotationsTaken
<1>3. CASE ProcessEnds
  BY <1>3, RotationsEmptied
<1>4. CASE UNCHANGED torVars
  BY <1>4 DEF torVars, RotationsInv, Counting
<1>5. ASSUME ~ProcessEnds, ~TakesRotate, ~\E r \in Rotations : ParentRotates(r) \/ RotateStep(r)
      PROVE  UNCHANGED torVars
  <2> USE <1>5
  <2>1. CASE MainStep
    BY <2>1 DEF MainStep, Others, Initialise
  <2>2. CASE TunnelStep \/ ProxyStep \/ Breaks \/ UNCHANGED vars
    BY <2>2 DEF TunnelStep, ProxyStep, Connects, SessionEnds, HandleCommand, TakesEgress,
                ProxyStops, Breaks, vars
  <2>3. CASE \/ OpenFails /\ UNCHANGED Others
             \/ Sigterm /\ Fault /\ UNCHANGED <<parentVars, poll, wire, busVars, relayVars, torVars, lost>>
             \/ Stalls \/ \E w \in Workers : Supervises(w)
    BY <2>3 DEF Others, Supervises, Stalls
  <2>4. CASE \E c \in Clients : Handshake(c) \/ Front(c)
    BY <2>4 DEF Handshake, HandleSocks, HandleConnect, Front, NoChild, Register, Push, PushFails
  <2>5. CASE \E c \in Clients : HandleStep(c) \/ AnnounceFails(c) \/ Returns(c) \/ Accepts(c)
                                  \/ RelayEnds(c) \/ BreaksUnread(c)
    BY <2>5 DEF HandleStep, Announces, Dials, DialFails, AnnounceFails, Returns, Accepts,
                RelayEnds, BreaksUnread
  <2> QED
    BY <2>1, <2>2, <2>3, <2>4, <2>5 DEF Next
<1> QED
  BY <1>1, <1>2, <1>3, <1>4, <1>5

\* A service counts its relays, also those that ended in the middle, and rotations are
\* counted only when tor has made them (sysload.go:22-46, proxy.go:75-79).
THEOREM FiguresAreTrue == Spec => []FiguresTrue
<1> DEFINE IInv == CommandsInv /\ GaugeInv /\ RotationsInv
<1>1. Init => IInv
  BY CommandsInit, FiguresInit
<1>2. IInv /\ [Next]_vars => IInv'
  BY CommandsStep, GaugeStep, RotationsStep
<1>3. IInv => FiguresTrue
  <2> SUFFICES ASSUME IInv PROVE FiguresTrue
    OBVIOUS
  <2>1. Cardinality(Counting) \in Nat
    BY FS_CardinalityType DEF RotationsInv
  <2> QED
    BY <2>1 DEF GaugeInv, RotationsInv, FiguresTrue, Relaying
<1> QED
  BY <1>1, <1>2, <1>3, PTL DEF Spec
=============================================================================
