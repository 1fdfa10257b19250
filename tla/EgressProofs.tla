----------------------------- MODULE EgressProofs -----------------------------
(***************************************************************************)
(* Proofs about Egress: the bytes of a relayed connection stay in order,   *)
(* and a target's complete answer reaches the client.  In each direction   *)
(* the invariant places a number at each hand-over, from the sender's      *)
(* socket to the receiver's, such that what lies between two of them are   *)
(* the bytes from the one number to the other.                             *)
(***************************************************************************)
EXTENDS Egress, SequenceTheorems, TLAPS

---------------------------------------------------------------------------
(* Which states the goroutines can be in together. *)

Clients == [sent : 0 .. MaxData, early : Nat, fin : {"no", "half", "full"},
            toProxy : Seq(Nat), got : Seq(Nat), open : BOOLEAN]
Targets == [sent : 0 .. MaxData, fin : BOOLEAN, toAgent : Seq(Nat), got : Seq(Nat),
            open : BOOLEAN]

TypeOK ==
    /\ client \in Clients /\ target \in Targets
    /\ front \in {"request", "push", "reply", "done", "failed"}
    /\ pending \in BOOLEAN /\ command \in BOOLEAN
    /\ stream \in {"none", "announced", "open", "over", "broken"}
    /\ up \in Seq(Nat) /\ down \in Seq(Nat)
    /\ srv \in {"none", "relay", "returned"} /\ srvReader \in {"none", "run", "done"}
    /\ mmh \in {"none", "dial", "relay", "returned"} /\ mmhReader \in {"none", "run", "done"}

\* The parent: a client whose command is on its way waits in pending until the stream
\* comes, and its connection is open as long as the stream is.
ParentInv ==
    /\ command => front \in {"reply", "done"} /\ (srv = "none" => pending)
    /\ front = "push" => pending
    /\ front = "request" => client.early = client.sent
    /\ front \in {"request", "push"} => client.open
    /\ ~client.open => ~command \/ srv = "returned"
    /\ stream /= "none" => command
    /\ stream \in {"none", "announced"} <=> srv = "none"
    /\ stream = "open" => srv = "relay" /\ srvReader /= "none"
    /\ srv = "none" => srvReader = "none"

\* The agent: a target speaks only when it is dialed.
AgentInv ==
    /\ mmh = "none" => stream = "none"
    /\ mmh \in {"none", "dial"} => mmhReader = "none"
    /\ mmhReader = "none" => /\ mmh /= "relay"
                             /\ ~target.open /\ ~target.fin /\ target.sent = 0
    /\ mmh = "dial" \/ mmhReader /= "none" => stream /= "none"
    /\ ~target.open /\ mmhReader = "run" => mmh = "returned"

---------------------------------------------------------------------------
(* The bytes on their way. *)

\* s holds the bytes a + 1 .. b, and then e times Fin: once or not at all.
Frames(s, a, b, e) ==
    /\ a <= b
    /\ Len(s) = b - a + e
    /\ \A i \in 1 .. Len(s) : s[i] = IF i <= b - a THEN a + i ELSE Fin

ClientEnd == IF client.fin = "no" THEN 0 ELSE 1
TargetEnd == IF target.fin THEN 1 ELSE 0

\* Client to target: the target has got the bytes f + 1 .. h, down holds those up to d,
\* the parent has taken those up to t.
ClientBytes(f, h, d, t) ==
    /\ f <= client.early /\ client.early <= client.sent
    /\ Frames(target.got, f, h, 0)
    /\ mmh /= "returned" =>
         \E e \in {0, 1} : /\ Frames(down, h, d, e)
                           /\ e = 1 => client.fin /= "no" /\ srvReader = "done"
    /\ h <= d /\ d <= t
    /\ stream = "open" /\ srvReader = "run" => d = t
    /\ srvReader = "none" => f = t /\ h = t /\ d = t /\ down = <<>>
    /\ Frames(client.toProxy, t, client.sent, ClientEnd)

DownInv == \E f, h, d, t \in 0 .. MaxData : ClientBytes(f, h, d, t)

\* The client has got exactly the first n bytes, in their order.
Has(n) ==
    /\ \A b \in Bytes : Relayed(b) <=> b <= n
    /\ \A i, j \in DOMAIN client.got :
         i < j /\ client.got[i] \in Bytes /\ client.got[j] \in Bytes
           => client.got[i] < client.got[j]

\* Why the stream may end before the target's answer does: the client ended its side,
\* no target was reached, or the agent gave up with a byte that it could not write.
Excused ==
    \/ client.fin /= "no"
    \/ mmh = "returned" /\ (mmhReader = "none" \/ Len(target.got) < client.sent)

\* Target to client: the client has got the bytes 1 .. n, up holds those up to m, and
\* the agent has taken those up to m.
TargetBytes(n, m) ==
    /\ Has(n) /\ n <= m
    /\ Live => \E e \in {0, 1} :
                 /\ Frames(up, n, m, e)
                 /\ e = 1 => /\ mmhReader /= "run"
                             /\ mmhReader = "none" => mmh = "returned"
                             /\ Excused \/ (target.fin /\ m = target.sent)
    /\ Live /\ mmh = "returned" => Excused
    /\ stream = "over" => Excused \/ (target.fin /\ n = target.sent)
    /\ stream = "none" => up = <<>> /\ n = m
    /\ Frames(target.toAgent, m, target.sent, TargetEnd)

UpInv == \E n, m \in 0 .. MaxData : TargetBytes(n, m)

---------------------------------------------------------------------------
(* Frames under the operations of the goroutines. *)

LEMMA NoFrames ==
    ASSUME NEW a \in Nat PROVE Frames(<<>>, a, a, 0)
  BY EmptySeq DEF Frames

LEMMA FramesAppend ==
    ASSUME NEW s \in Seq(Nat), NEW a \in Nat, NEW b \in Nat, Frames(s, a, b, 0)
    PROVE  /\ Frames(Append(s, b + 1), a, b + 1, 0)
           /\ Frames(Append(s, Fin), a, b, 1)
<1>1. /\ Len(Append(s, b + 1)) = Len(s) + 1
      /\ \A i \in 1 .. Len(s) + 1 : Append(s, b + 1)[i] = IF i <= Len(s) THEN s[i] ELSE b + 1
  BY AppendProperties
<1>2. /\ Len(Append(s, Fin)) = Len(s) + 1
      /\ \A i \in 1 .. Len(s) + 1 : Append(s, Fin)[i] = IF i <= Len(s) THEN s[i] ELSE Fin
  BY AppendProperties DEF Fin
<1>3. a <= b /\ Len(s) = b - a /\ \A i \in 1 .. Len(s) : s[i] = a + i
  BY DEF Frames
<1>4. Frames(Append(s, b + 1), a, b + 1, 0)
  BY <1>1, <1>3 DEF Frames
<1>5. Frames(Append(s, Fin), a, b, 1)
  BY <1>2, <1>3 DEF Frames
<1> QED
  BY <1>4, <1>5

LEMMA FramesTail ==
    ASSUME NEW s \in Seq(Nat), NEW a \in Nat, NEW b \in Nat, NEW e \in {0, 1},
           Frames(s, a, b, e), s /= <<>>
    PROVE  /\ Head(s) = Fin => a = b /\ e = 1
           /\ Head(s) /= Fin => /\ Head(s) = a + 1 /\ a + 1 <= b
                                /\ Frames(Tail(s), a + 1, b, e)
<1>1. /\ Head(s) = s[1] /\ Len(s) \in Nat /\ Len(s) >= 1
      /\ Len(Tail(s)) = Len(s) - 1
      /\ \A i \in 1 .. Len(s) - 1 : Tail(s)[i] = s[i + 1]
  BY HeadTailProperties, EmptySeq, LenProperties
<1>2. a <= b /\ \A i \in 1 .. Len(s) : s[i] = IF i <= b - a THEN a + i ELSE 0
  BY DEF Frames, Fin
<1>3. Len(s) = b - a + e
  BY DEF Frames
<1>4. CASE b = a
  BY <1>1, <1>2, <1>3, <1>4 DEF Fin
<1>5. CASE b > a
  <2>1. Head(s) = a + 1
    BY <1>1, <1>2, <1>5
  <2>2. Frames(Tail(s), a + 1, b, e)
    <3>1. \A i \in 1 .. Len(Tail(s)) : Tail(s)[i] = IF i <= b - (a + 1) THEN (a + 1) + i ELSE 0
      BY <1>1, <1>2
    <3> QED
      BY <1>1, <1>3, <1>5, <3>1 DEF Frames, Fin
  <2> QED
    BY <1>5, <2>1, <2>2 DEF Fin
<1> QED
  BY <1>2, <1>4, <1>5

\* What is skipped of the client's bytes (Buffered).
LEMMA FramesSkip ==
    ASSUME NEW s \in Seq(Nat), NEW a \in Nat, NEW b \in Nat, NEW e \in {0, 1},
           Frames(s, a, b, e), NEW k \in Nat, k <= Len(s), \A i \in 1 .. k : s[i] /= Fin
    PROVE  a + k <= b /\ Frames(SubSeq(s, k + 1, Len(s)), a + k, b, e)
<1>1. /\ Len(SubSeq(s, k + 1, Len(s))) = Len(s) - k /\ Len(s) \in Nat
      /\ \A i \in 1 .. Len(s) - k : SubSeq(s, k + 1, Len(s))[i] = s[k + i]
  BY SubSeqProperties, LenProperties
<1>2. a <= b /\ \A i \in 1 .. Len(s) : s[i] = IF i <= b - a THEN a + i ELSE 0
  BY DEF Frames, Fin
<1>3. Len(s) = b - a + e
  BY DEF Frames
<1>4. k <= b - a
  BY <1>2, <1>3 DEF Fin
<1>5. \A i \in 1 .. Len(s) - k :
        SubSeq(s, k + 1, Len(s))[i] = IF i <= b - (a + k) THEN (a + k) + i ELSE 0
  BY <1>1, <1>2, <1>4
<1> QED
  BY <1>1, <1>2, <1>3, <1>4, <1>5 DEF Frames, Fin

---------------------------------------------------------------------------
(* Types. *)

LEMMA TypeInit == Init => TypeOK
<1> SUFFICES ASSUME Init PROVE TypeOK
  OBVIOUS
<1>1. <<>> \in Seq(Nat) /\ 0 \in 0 .. MaxData
  BY MaxDataAssumption, EmptySeq
<1>2. client \in Clients /\ target \in Targets
  BY <1>1 DEF Init, Clients, Targets
<1> QED
  BY <1>1, <1>2 DEF Init, TypeOK

LEMMA ClientTypes ==
    ASSUME TypeOK, Client \/ Target
    PROVE  TypeOK'
<1>0. client \in Clients /\ target \in Targets
  BY DEF TypeOK
<1>1. CASE ClientSends
  <2>1. client.sent + 1 \in Nat /\ client.sent + 1 \in 0 .. MaxData
    BY <1>0, <1>1, MaxDataAssumption DEF ClientSends, Clients
  <2>2. Append(client.toProxy, client.sent + 1) \in Seq(Nat)
    BY <1>0, <2>1, AppendProperties DEF Clients
  <2>3. (IF front = "request" THEN client.early + 1 ELSE client.early) \in Nat
    BY <1>0 DEF Clients
  <2>4. client' \in Clients
    BY <1>0, <1>1, <2>1, <2>2, <2>3 DEF ClientSends, Clients
  <2> QED
    BY <1>1, <2>4 DEF ClientSends, TypeOK
<1>2. CASE ClientEnds
  <2>1. Append(client.toProxy, Fin) \in Seq(Nat)
    BY <1>0, AppendProperties DEF Clients, Fin
  <2>2. client' \in Clients
    BY <1>0, <1>2, <2>1 DEF ClientEnds, Clients
  <2> QED
    BY <1>2, <2>2 DEF ClientEnds, TypeOK
<1>3. CASE TargetSends
  <2>1. target.sent + 1 \in Nat /\ target.sent + 1 \in 0 .. MaxData
    BY <1>0, <1>3, MaxDataAssumption DEF TargetSends, Targets
  <2>2. Append(target.toAgent, target.sent + 1) \in Seq(Nat)
    BY <1>0, <2>1, AppendProperties DEF Targets
  <2>3. target' \in Targets
    BY <1>0, <1>3, <2>1, <2>2 DEF TargetSends, Targets
  <2> QED
    BY <1>3, <2>3 DEF TargetSends, TypeOK
<1>4. CASE TargetEnds
  <2>1. Append(target.toAgent, Fin) \in Seq(Nat)
    BY <1>0, AppendProperties DEF Targets, Fin
  <2>2. target' \in Targets
    BY <1>0, <1>4, <2>1 DEF TargetEnds, Targets
  <2> QED
    BY <1>4, <2>2 DEF TargetEnds, TypeOK
<1> QED
  BY <1>1, <1>2, <1>3, <1>4 DEF Client, Target

LEMMA FrontTypes ==
    ASSUME TypeOK, Front
    PROVE  TypeOK'
<1>0. client \in Clients
  BY DEF TypeOK
<1>1. Ok \in Nat /\ Refusal \in Nat
  BY MaxDataAssumption DEF Ok, Refusal
<1>2. Append(client.got, Ok) \in Seq(Nat) /\ Append(client.got, Refusal) \in Seq(Nat)
  BY <1>0, <1>1, AppendProperties DEF Clients
<1>3. Refused \in Clients /\ [client EXCEPT !.got = Append(@, Ok)] \in Clients
  BY <1>0, <1>2 DEF Refused, Clients
<1>4. CASE FrontRegisters
  <2>1. PICK k \in 0 .. MaxData :
          client' = [client EXCEPT !.toProxy = SubSeq(@, k + 1, Len(@))]
    BY <1>4 DEF FrontRegisters
  <2>2. SubSeq(client.toProxy, k + 1, Len(client.toProxy)) \in Seq(Nat)
    BY <1>0, SubSeqProperties, LenProperties DEF Clients
  <2>3. client' \in Clients
    BY <1>0, <2>1, <2>2 DEF Clients
  <2> QED
    BY <1>4, <2>3 DEF FrontRegisters, TypeOK
<1>5. CASE FrontHasNoChild
  BY <1>3, <1>5 DEF FrontHasNoChild, TypeOK
<1>6. CASE FrontPushes
  BY <1>6 DEF FrontPushes, TypeOK
<1>7. CASE FrontPushFails
  BY <1>3, <1>7 DEF FrontPushFails, TypeOK
<1>8. CASE FrontReplies
  <2>1. client' \in Clients
    BY <1>0, <1>3, <1>8 DEF FrontReplies
  <2> QED
    BY <1>8, <2>1 DEF FrontReplies, TypeOK
<1> QED
  BY <1>4, <1>5, <1>6, <1>7, <1>8 DEF Front

LEMMA AgentTypes ==
    ASSUME TypeOK, Mmh \/ MmhReads
    PROVE  TypeOK'
<1>0. target \in Targets
  BY DEF TypeOK
<1>1. ASSUME NEW frame \in Nat PROVE Append(up, frame) \in Seq(Nat)
  BY <1>1, AppendProperties DEF TypeOK
<1>2. down /= <<>> => /\ Tail(down) \in Seq(Nat)
                      /\ Append(target.got, Head(down)) \in Seq(Nat)
  BY <1>0, HeadTailProperties, AppendProperties DEF TypeOK, Targets
<1>3. target.toAgent /= <<>> => Head(target.toAgent) \in Nat /\ Tail(target.toAgent) \in Seq(Nat)
  BY <1>0, HeadTailProperties DEF Targets
<1>4. /\ [target EXCEPT !.open = TRUE] \in Targets /\ [target EXCEPT !.open = FALSE] \in Targets
      /\ down /= <<>> => [target EXCEPT !.got = Append(@, Head(down))] \in Targets
      /\ target.toAgent /= <<>> => [target EXCEPT !.toAgent = Tail(@)] \in Targets
  BY <1>0, <1>2, <1>3 DEF Targets
<1>5. CASE MmhAnnounces
  BY <1>5 DEF MmhAnnounces, TypeOK
<1>6. CASE MmhDials
  BY <1>4, <1>6 DEF MmhDials, TypeOK
<1>7. CASE MmhDialFails
  BY <1>1, <1>7 DEF MmhDialFails, SendUp, TypeOK, Fin
<1>8. CASE MmhRecv
  <2>1. target' \in Targets /\ mmh' \in {"relay", "returned"} /\ down' \in Seq(Nat)
    BY <1>2, <1>4, <1>8 DEF MmhRecv, MmhReturns
  <2> QED
    BY <1>8, <2>1 DEF MmhRecv, TypeOK
<1>9. CASE MmhRecvFails
  BY <1>4, <1>9 DEF MmhRecvFails, MmhReturns, TypeOK
<1>10. CASE MmhReads
  <2>1. up' \in Seq(Nat)
    BY <1>1, <1>3, <1>10 DEF MmhReads, SendUp, TypeOK, Fin
  <2>2. target' \in Targets /\ mmhReader' \in {"run", "done"}
    BY <1>0, <1>4, <1>10 DEF MmhReads
  <2> QED
    BY <1>10, <2>1, <2>2 DEF MmhReads, TypeOK
<1> QED
  BY <1>5, <1>6, <1>7, <1>8, <1>9, <1>10 DEF Mmh

LEMMA ParentTypes ==
    ASSUME TypeOK, Srv \/ SrvReads \/ StreamBreaks
    PROVE  TypeOK'
<1>0. client \in Clients /\ <<>> \in Seq(Nat)
  BY EmptySeq DEF TypeOK
<1>1. ASSUME NEW frame \in Nat PROVE Append(down, frame) \in Seq(Nat)
  BY <1>1, AppendProperties DEF TypeOK
<1>2. up /= <<>> => Tail(up) \in Seq(Nat) /\ Append(client.got, Head(up)) \in Seq(Nat)
  BY <1>0, HeadTailProperties, AppendProperties DEF TypeOK, Clients
<1>3. client.toProxy /= <<>> => Head(client.toProxy) \in Nat /\ Tail(client.toProxy) \in Seq(Nat)
  BY <1>0, HeadTailProperties DEF Clients
<1>4. /\ [client EXCEPT !.open = FALSE] \in Clients
      /\ up /= <<>> => [client EXCEPT !.got = Append(@, Head(up))] \in Clients
      /\ client.toProxy /= <<>> => [client EXCEPT !.toProxy = Tail(@)] \in Clients
  BY <1>0, <1>2, <1>3 DEF Clients
<1>5. CASE SrvAccepts
  BY <1>5 DEF SrvAccepts, TypeOK
<1>6. CASE SrvRecv
  <2>1. /\ client' \in Clients /\ up' \in Seq(Nat) /\ srv' \in {"relay", "returned"}
        /\ stream' \in {"open", "over"}
    BY <1>0, <1>2, <1>4, <1>6 DEF SrvRecv, SrvReturns
  <2> QED
    BY <1>6, <2>1 DEF SrvRecv, TypeOK
<1>7. CASE SrvRecvFails
  BY <1>0, <1>4, <1>7 DEF SrvRecvFails, SrvReturns, TypeOK
<1>8. CASE SrvReads
  <2>1. down' \in Seq(Nat)
    BY <1>1, <1>3, <1>8 DEF SrvReads, SendDown, TypeOK, Fin
  <2>2. client' \in Clients /\ srvReader' \in {"run", "done"}
    BY <1>0, <1>4, <1>8 DEF SrvReads
  <2> QED
    BY <1>8, <2>1, <2>2 DEF SrvReads, TypeOK
<1>9. CASE StreamBreaks
  BY <1>0, <1>9 DEF StreamBreaks, TypeOK
<1> QED
  BY <1>5, <1>6, <1>7, <1>8, <1>9 DEF Srv

LEMMA TypeStep ==
    ASSUME TypeOK, [Next]_vars
    PROVE  TypeOK'
<1>1. CASE UNCHANGED vars
  BY <1>1 DEF vars, TypeOK
<1> QED
  BY <1>1, ClientTypes, FrontTypes, AgentTypes, ParentTypes DEF Next

---------------------------------------------------------------------------
(* The goroutines. *)

LEMMA ControlInit == Init => ParentInv /\ AgentInv
  BY DEF Init, ParentInv, AgentInv

LEMMA ParentStep ==
    ASSUME TypeOK, ParentInv, AgentInv, [Next]_vars
    PROVE  ParentInv'
<1>0. client \in Clients
  BY DEF TypeOK
<1>1. CASE UNCHANGED vars \/ Target \/ MmhDials \/ MmhDialFails \/ MmhRecv \/ MmhRecvFails \/ MmhReads
  <2>1. UNCHANGED <<client, front, pending, command, stream, srv, srvReader>>
    BY <1>1 DEF vars, Target, TargetSends, TargetEnds, MmhDials, MmhDialFails, MmhRecv,
                MmhRecvFails, MmhReads
  <2> QED
    BY <2>1 DEF ParentInv
<1>2. CASE Client
  <2>1. /\ UNCHANGED <<front, pending, command, stream, srv, srvReader>>
        /\ client'.open = client.open
        /\ (front = "request" /\ client.early = client.sent) => client'.early = client'.sent
    BY <1>0, <1>2 DEF Client, ClientSends, ClientEnds, Clients
  <2> QED
    BY <2>1 DEF ParentInv
<1>3. CASE Front
  <2>1. /\ UNCHANGED <<stream, srv, srvReader>>
        /\ client'.early = client.early /\ client'.sent = client.sent
        /\ front \in {"request", "push"} \/ client'.open = client.open
        /\ front' \in {"done", "push", "reply"} => client'.open = client.open
    BY <1>0, <1>3 DEF Front, FrontRegisters, FrontHasNoChild, FrontPushes, FrontPushFails,
                      FrontReplies, Refused, Clients
  <2>2. CASE FrontRegisters
    BY <2>1, <2>2 DEF FrontRegisters, ParentInv
  <2>3. CASE FrontHasNoChild
    BY <2>1, <2>3 DEF FrontHasNoChild, ParentInv
  <2>4. CASE FrontPushes
    BY <2>1, <2>4 DEF FrontPushes, ParentInv
  <2>5. CASE FrontPushFails
    BY <2>1, <2>5 DEF FrontPushFails, ParentInv
  <2>6. CASE FrontReplies
    BY <2>1, <2>6 DEF FrontReplies, ParentInv
  <2> QED
    BY <1>3, <2>2, <2>3, <2>4, <2>5, <2>6 DEF Front
<1>4. CASE MmhAnnounces
  BY <1>4 DEF MmhAnnounces, ParentInv, AgentInv
<1>5. CASE SrvAccepts
  BY <1>5 DEF SrvAccepts, ParentInv
<1>6. CASE SrvRecv \/ SrvRecvFails
  <2>1. /\ UNCHANGED <<front, pending, command, srvReader>>
        /\ client'.early = client.early /\ client'.sent = client.sent
        /\ srv = "relay" /\ srv' \in {"relay", "returned"}
        /\ srv' = "relay" => client'.open = client.open /\ stream' = stream
        /\ stream' \in {stream, "over"} /\ (srv' = "returned" => stream' /= "open")
    BY <1>0, <1>6 DEF SrvRecv, SrvRecvFails, SrvReturns, Clients
  <2> QED
    BY <2>1 DEF ParentInv
<1>7. CASE SrvReads
  <2>1. /\ UNCHANGED <<front, pending, command, stream, srv>>
        /\ client'.early = client.early /\ client'.sent = client.sent /\ client'.open = client.open
        /\ srvReader' /= "none" /\ srvReader /= "none"
    BY <1>0, <1>7 DEF SrvReads, Clients
  <2> QED
    BY <2>1 DEF ParentInv
<1>8. CASE StreamBreaks
  BY <1>8 DEF StreamBreaks, Live, ParentInv, TypeOK
<1> QED
  BY <1>1, <1>2, <1>3, <1>4, <1>5, <1>6, <1>7, <1>8 DEF Next, Mmh, Srv

LEMMA AgentStep ==
    ASSUME TypeOK, ParentInv, AgentInv, [Next]_vars
    PROVE  AgentInv'
<1>0. target \in Targets
  BY DEF TypeOK
<1>1. CASE UNCHANGED vars \/ Client \/ Front \/ SrvReads
  <2>1. UNCHANGED <<target, stream, mmh, mmhReader>>
    BY <1>1 DEF vars, Client, ClientSends, ClientEnds, Front, FrontRegisters, FrontHasNoChild,
                FrontPushes, FrontPushFails, FrontReplies, SrvReads
  <2> QED
    BY <2>1 DEF AgentInv
<1>2. CASE Target
  <2>1. /\ UNCHANGED <<stream, mmh, mmhReader>> /\ target.open /\ target'.open
    BY <1>0, <1>2 DEF Target, TargetSends, TargetEnds, Targets
  <2> QED
    BY <2>1 DEF AgentInv
<1>3. CASE MmhAnnounces
  BY <1>3 DEF MmhAnnounces, AgentInv
<1>4. CASE MmhDials
  <2>1. target'.open
    BY <1>0, <1>4 DEF MmhDials, Targets
  <2>2. stream /= "none"
    BY <1>4 DEF MmhDials, AgentInv
  <2> QED
    BY <1>4, <2>1 DEF MmhDials, AgentInv
<1>5. CASE MmhDialFails
  BY <1>5 DEF MmhDialFails, AgentInv
<1>6. CASE MmhRecv \/ MmhRecvFails
  <2>1. /\ UNCHANGED <<stream, mmhReader>> /\ mmh = "relay" /\ mmh' \in {"relay", "returned"}
        /\ mmh' = "relay" => target'.open = target.open
    BY <1>0, <1>6 DEF MmhRecv, MmhRecvFails, MmhReturns, Targets
  <2> QED
    BY <2>1 DEF AgentInv
<1>7. CASE MmhReads
  <2>1. /\ UNCHANGED <<stream, mmh>> /\ target'.open = target.open
        /\ mmhReader = "run" /\ mmhReader' \in {"run", "done"}
    BY <1>0, <1>7 DEF MmhReads, Targets
  <2> QED
    BY <2>1 DEF AgentInv
<1>8. CASE Srv \/ StreamBreaks
  <2>1. /\ UNCHANGED <<target, mmh, mmhReader>>
        /\ stream = stream' \/ (stream /= "none" /\ stream' /= "none")
    BY <1>8 DEF ParentInv, Srv, SrvAccepts, SrvRecv, SrvRecvFails, SrvReturns, StreamBreaks, Live
  <2> QED
    BY <2>1 DEF AgentInv
<1> QED
  BY <1>1, <1>2, <1>3, <1>4, <1>5, <1>6, <1>7, <1>8 DEF Next, Mmh

---------------------------------------------------------------------------
(* Client to target. *)

LEMMA DownInit == Init => DownInv
<1> SUFFICES ASSUME Init PROVE DownInv
  OBVIOUS
<1>1. 0 \in 0 .. MaxData /\ Frames(<<>>, 0, 0, 0)
  BY MaxDataAssumption, NoFrames
<1>2. ClientBytes(0, 0, 0, 0)
  BY <1>1 DEF Init, ClientBytes, ClientEnd
<1> QED
  BY <1>1, <1>2 DEF DownInv

LEMMA DownKept ==
    ASSUME DownInv, UNCHANGED <<target.got, down, srvReader, client.sent, client.early, client.fin,
                                client.toProxy>>,
           mmh' \in {mmh, "returned"} \/ mmh /= "returned",
           stream' = "open" => stream = "open"
    PROVE  DownInv'
<1>1. PICK f, h, d, t \in 0 .. MaxData : ClientBytes(f, h, d, t)
  BY DEF DownInv
<1>2. ClientBytes(f, h, d, t)'
  BY <1>1 DEF ClientBytes, Frames, ClientEnd
<1> QED
  BY <1>2 DEF DownInv

\* The client sends, or ends its side.
LEMMA DownClient ==
    ASSUME TypeOK, DownInv, Client
    PROVE  DownInv'
<1>0. client \in Clients /\ client.sent \in 0 .. MaxData /\ MaxData \in Nat
  BY MaxDataAssumption DEF TypeOK, Clients
<1>1. PICK f, h, d, t \in 0 .. MaxData : ClientBytes(f, h, d, t)
  BY DEF DownInv
<1>2. /\ client.fin = "no" /\ Frames(client.toProxy, t, client.sent, 0)
      /\ UNCHANGED <<target, down, srvReader, mmh, stream>>
  BY <1>1 DEF Client, ClientSends, ClientEnds, ClientBytes, ClientEnd
<1>3. /\ Frames(Append(client.toProxy, client.sent + 1), t, client.sent + 1, 0)
      /\ Frames(Append(client.toProxy, Fin), t, client.sent, 1)
  BY <1>0, <1>2, FramesAppend DEF Clients
<1>4. CASE ClientSends
  <2>1. /\ client'.sent = client.sent + 1 /\ client'.fin = client.fin
        /\ client'.toProxy = Append(client.toProxy, client.sent + 1)
        /\ client'.early = IF front = "request" THEN client.early + 1 ELSE client.early
    BY <1>0, <1>4 DEF ClientSends, Clients
  <2>2. f <= client'.early /\ client'.early <= client'.sent
    BY <1>0, <1>1, <2>1 DEF ClientBytes, Clients
  <2>3. Frames(client.toProxy, t, client.sent, ClientEnd)'
    BY <1>2, <1>3, <2>1 DEF ClientEnd
  <2>4. ClientBytes(f, h, d, t)'
    BY <1>1, <1>2, <2>1, <2>2, <2>3 DEF ClientBytes, ClientEnd
  <2> QED
    BY <2>4 DEF DownInv
<1>5. CASE ClientEnds
  <2>1. /\ client'.sent = client.sent /\ client'.fin /= "no"
        /\ client'.toProxy = Append(client.toProxy, Fin) /\ client'.early = client.early
    BY <1>0, <1>5 DEF ClientEnds, Clients
  <2>2. Frames(client.toProxy, t, client.sent, ClientEnd)'
    BY <1>3, <2>1 DEF ClientEnd
  <2>3. ClientBytes(f, h, d, t)'
    BY <1>1, <1>2, <2>1, <2>2 DEF ClientBytes
  <2> QED
    BY <2>3 DEF DownInv
<1> QED
  BY <1>4, <1>5 DEF Client

\* Bytes that came ahead of the reply stay behind in the front end's reader.
LEMMA DownRegister ==
    ASSUME TypeOK, ParentInv, DownInv, FrontRegisters
    PROVE  DownInv'
<1>0. client \in Clients /\ client.sent \in 0 .. MaxData /\ MaxData \in Nat
  BY MaxDataAssumption DEF TypeOK, Clients
<1>1. PICK f, h, d, t \in 0 .. MaxData : ClientBytes(f, h, d, t)
  BY DEF DownInv
<1>2. PICK k \in 0 .. MaxData :
        Buffered(k) /\ client' = [client EXCEPT !.toProxy = SubSeq(@, k + 1, Len(@))]
  BY DEF FrontRegisters
<1>3. /\ client'.sent = client.sent /\ client'.fin = client.fin /\ client'.early = client.early
      /\ client'.toProxy = SubSeq(client.toProxy, k + 1, Len(client.toProxy))
  BY <1>0, <1>2 DEF Clients
<1>4. t + k <= client.sent /\ Frames(client'.toProxy, t + k, client.sent, ClientEnd)
  <2>1. Frames(client.toProxy, t, client.sent, ClientEnd)
    BY <1>1 DEF ClientBytes
  <2> QED
    BY <1>0, <1>2, <1>3, <2>1, FramesSkip DEF Buffered, Clients, ClientEnd
<1>5. srvReader = "none" /\ client.early = client.sent
  BY DEF FrontRegisters, ParentInv, TypeOK
<1>6. target.got = <<>> /\ down = <<>>
  <2>1. f = h /\ down = <<>> /\ Frames(target.got, f, h, 0) /\ target.got \in Seq(Nat)
    BY <1>1, <1>5 DEF ClientBytes, TypeOK, Targets
  <2> QED
    BY <2>1, EmptySeq DEF Frames
<1>7. Frames(<<>>, t + k, t + k, 0) /\ t + k \in 0 .. MaxData
  BY <1>0, <1>4, NoFrames
<1>8. PICK a \in 0 .. MaxData : a = t + k
  BY <1>7
<1>9. ClientBytes(a, a, a, a)'
  BY <1>0, <1>3, <1>4, <1>5, <1>6, <1>7, <1>8 DEF ClientBytes, FrontRegisters, ClientEnd
<1> QED
  BY <1>9 DEF DownInv

\* The agent takes a frame from the stream; what it says of the target and the client.
LEMMA DownRecv ==
    ASSUME TypeOK, DownInv, MmhRecv
    PROVE  /\ DownInv'
           /\ Head(down) = Fin => client.fin /= "no"
           /\ Head(down) /= Fin => Len(target.got) < client.sent
<1>0. /\ target \in Targets /\ target.got \in Seq(Nat) /\ down \in Seq(Nat) /\ MaxData \in Nat
      /\ client.sent \in 0 .. MaxData
  BY MaxDataAssumption DEF TypeOK, Targets, Clients
<1>1. PICK f, h, d, t \in 0 .. MaxData : ClientBytes(f, h, d, t)
  BY DEF DownInv
<1>2. PICK e \in {0, 1} :
        Frames(down, h, d, e) /\ (e = 1 => client.fin /= "no" /\ srvReader = "done")
  BY <1>1 DEF ClientBytes, MmhRecv
<1>3. /\ Head(down) = Fin => e = 1
      /\ Head(down) /= Fin => /\ Head(down) = h + 1 /\ h + 1 <= d
                              /\ Frames(Tail(down), h + 1, d, e)
  BY <1>0, <1>1, <1>2, FramesTail DEF MmhRecv
<1>4. /\ srvReader /= "none" /\ UNCHANGED <<client, srvReader, stream>>
      /\ down' = Tail(down) /\ mmh = "relay"
  BY <1>1 DEF MmhRecv, ClientBytes
<1>5. Frames(target.got, f, h, 0) /\ d <= t /\ t <= client.sent
  BY <1>1 DEF ClientBytes, Frames
<1>6. Head(down) /= Fin => Len(target.got) < client.sent
  BY <1>0, <1>3, <1>5 DEF Frames
<1>7. CASE MmhReturns
  <2>1. mmh' = "returned" /\ target'.got = target.got
    BY <1>0, <1>7 DEF MmhReturns, Targets
  <2>2. ClientBytes(f, h, d, t)'
    BY <1>1, <1>4, <2>1 DEF ClientBytes, ClientEnd
  <2> QED
    BY <1>2, <1>3, <1>6, <2>2 DEF DownInv
<1>8. CASE /\ Head(down) /= Fin
           /\ target' = [target EXCEPT !.got = Append(@, Head(down))]
           /\ UNCHANGED mmh
  <2>1. target'.got = Append(target.got, h + 1)
    BY <1>0, <1>3, <1>8 DEF Targets
  <2>2. Frames(Append(target.got, h + 1), f, h + 1, 0)
    BY <1>0, <1>5, FramesAppend
  <2>3. PICK a \in 0 .. MaxData : a = h + 1
    BY <1>0, <1>3, <1>8
  <2>4. ClientBytes(f, a, d, t)'
    BY <1>1, <1>2, <1>3, <1>4, <1>8, <2>1, <2>2, <2>3 DEF ClientBytes, ClientEnd
  <2> QED
    BY <1>6, <1>8, <2>4 DEF DownInv
<1> QED
  BY <1>7, <1>8 DEF MmhRecv

\* The parent puts what the client sent on the stream.
LEMMA DownRead ==
    ASSUME TypeOK, ParentInv, DownInv, SrvReads
    PROVE  DownInv'
<1>0. /\ client \in Clients /\ client.toProxy \in Seq(Nat) /\ down \in Seq(Nat)
      /\ client.sent \in 0 .. MaxData /\ MaxData \in Nat
  BY MaxDataAssumption DEF TypeOK, Clients
<1>1. PICK f, h, d, t \in 0 .. MaxData : ClientBytes(f, h, d, t)
  BY DEF DownInv
<1>2. PICK e \in {0, 1} :
        /\ mmh /= "returned" => Frames(down, h, d, e)
        /\ mmh /= "returned" /\ e = 1 => client.fin /= "no" /\ srvReader = "done"
  BY <1>1 DEF ClientBytes
<1>3. Frames(client.toProxy, t, client.sent, ClientEnd)
  BY <1>1 DEF ClientBytes
<1>4. srvReader = "run" /\ UNCHANGED <<target, mmh, stream>> /\ (stream = "open" => d = t)
  BY <1>1 DEF SrvReads, ClientBytes
<1>5. CASE /\ client.toProxy /= <<>> /\ Head(client.toProxy) /= Fin
           /\ SendDown(Head(client.toProxy))
           /\ client' = [client EXCEPT !.toProxy = Tail(@)]
           /\ srvReader' = IF stream = "open" THEN "run" ELSE "done"
  <2>1. /\ Head(client.toProxy) = t + 1 /\ t + 1 <= client.sent
        /\ Frames(Tail(client.toProxy), t + 1, client.sent, ClientEnd)
    BY <1>0, <1>3, <1>5, FramesTail DEF ClientEnd
  <2>2. /\ client'.toProxy = Tail(client.toProxy) /\ client'.sent = client.sent
        /\ client'.early = client.early /\ client'.fin = client.fin
    BY <1>0, <1>5 DEF Clients
  <2>3. PICK a \in 0 .. MaxData : a = t + 1
    BY <1>0, <2>1
  <2>4. CASE stream = "open"
    <3>1. mmh /= "returned" => Frames(Append(down, d + 1), h, d + 1, 0)
      BY <1>0, <1>2, <1>4, FramesAppend
    <3>2. down' = Append(down, d + 1)
      BY <1>4, <1>5, <2>1, <2>4 DEF SendDown
    <3>3. ClientBytes(f, h, a, a)'
      BY <1>1, <1>4, <1>5, <2>1, <2>2, <2>3, <2>4, <3>1, <3>2 DEF ClientBytes, ClientEnd
    <3> QED
      BY <3>3 DEF DownInv
  <2>5. CASE stream /= "open"
    <3>1. down' = down /\ srvReader' = "done"
      BY <1>5, <2>5 DEF SendDown
    <3>2. ClientBytes(f, h, d, a)'
      BY <1>1, <1>4, <2>1, <2>2, <2>3, <2>5, <3>1 DEF ClientBytes, ClientEnd
    <3> QED
      BY <3>2 DEF DownInv
  <2> QED
    BY <2>4, <2>5
<1>6. CASE /\ ~client.open \/ (client.toProxy /= <<>> /\ Head(client.toProxy) = Fin)
           /\ SendDown(Fin)
           /\ srvReader' = "done"
           /\ UNCHANGED client
  <2>1. stream = "open" => client.fin /= "no"
    <3>1. stream = "open" => client.open
      BY DEF ParentInv
    <3>2. client.toProxy /= <<>> /\ Head(client.toProxy) = Fin => client.fin /= "no"
      BY <1>0, <1>3, FramesTail DEF ClientEnd
    <3> QED
      BY <1>6, <3>1, <3>2
  <2>2. stream = "open" /\ mmh /= "returned" => Frames(Append(down, Fin), h, d, 1)
    BY <1>0, <1>2, <1>4, FramesAppend
  <2>3. down' = IF stream = "open" THEN Append(down, Fin) ELSE down
    BY <1>6 DEF SendDown
  <2>4. ClientBytes(f, h, d, t)'
    BY <1>1, <1>4, <1>6, <2>1, <2>2, <2>3 DEF ClientBytes, ClientEnd
  <2> QED
    BY <2>4 DEF DownInv
<1> QED
  BY <1>5, <1>6 DEF SrvReads

LEMMA DownStep ==
    ASSUME TypeOK, ParentInv, AgentInv, DownInv, [Next]_vars
    PROVE  DownInv'
<1>0. client \in Clients /\ target \in Targets
  BY DEF TypeOK
<1>1. CASE UNCHANGED vars
  BY <1>1, DownKept DEF vars
<1>2. CASE Target
  <2>1. target'.got = target.got
    BY <1>0, <1>2 DEF Target, TargetSends, TargetEnds, Targets
  <2> QED
    BY <1>2, <2>1, DownKept DEF Target, TargetSends, TargetEnds
<1>3. CASE Front /\ ~FrontRegisters
  <2>1. /\ client'.sent = client.sent /\ client'.early = client.early /\ client'.fin = client.fin
        /\ client'.toProxy = client.toProxy
    BY <1>0, <1>3 DEF Front, FrontHasNoChild, FrontPushes, FrontPushFails, FrontReplies,
                      Refused, Clients
  <2>2. UNCHANGED <<target, down, srvReader, mmh, stream>>
    BY <1>3 DEF Front, FrontHasNoChild, FrontPushes, FrontPushFails, FrontReplies
  <2> QED
    BY <2>1, <2>2, DownKept
<1>4. CASE MmhAnnounces \/ MmhDials \/ MmhDialFails \/ MmhRecvFails \/ MmhReads
  <2>1. target'.got = target.got
    BY <1>0, <1>4 DEF MmhAnnounces, MmhDials, MmhDialFails, MmhRecvFails, MmhReturns, MmhReads,
                      Targets
  <2>2. /\ UNCHANGED <<down, srvReader, client>>
        /\ mmh' \in {mmh, "returned"} \/ mmh /= "returned"
        /\ stream' = "open" => stream = "open"
    BY <1>4 DEF MmhAnnounces, MmhDials, MmhDialFails, MmhRecvFails, MmhReturns, MmhReads
  <2> QED
    BY <2>1, <2>2, DownKept
<1>5. CASE SrvAccepts
  <2>1. PICK f, h, d, t \in 0 .. MaxData : ClientBytes(f, h, d, t)
    BY DEF DownInv
  <2>2. srvReader = "none" /\ UNCHANGED <<client, target, down, mmh>>
        /\ srvReader' \in {"none", "run"}
    BY <1>5 DEF SrvAccepts, ParentInv
  <2>3. mmh /= "returned" => Frames(down, h, d, 0)
    BY <2>1, <2>2 DEF ClientBytes
  <2>4. ClientBytes(f, h, d, t)'
    BY <2>1, <2>2, <2>3 DEF ClientBytes, ClientEnd
  <2> QED
    BY <2>4 DEF DownInv
<1>6. CASE SrvRecv \/ SrvRecvFails
  <2>1. /\ client'.sent = client.sent /\ client'.early = client.early /\ client'.fin = client.fin
        /\ client'.toProxy = client.toProxy
    BY <1>0, <1>6 DEF SrvRecv, SrvRecvFails, SrvReturns, Clients
  <2>2. UNCHANGED <<target, down, srvReader, mmh>> /\ (stream' = "open" => stream = "open")
    BY <1>6 DEF SrvRecv, SrvRecvFails, SrvReturns
  <2> QED
    BY <2>1, <2>2, DownKept
<1>7. CASE StreamBreaks
  <2>1. PICK f, h, d, t \in 0 .. MaxData : ClientBytes(f, h, d, t)
    BY DEF DownInv
  <2>2. Frames(<<>>, h, h, 0)
    BY NoFrames
  <2>3. ClientBytes(f, h, h, t)'
    BY <1>7, <2>1, <2>2 DEF ClientBytes, StreamBreaks, ClientEnd
  <2> QED
    BY <2>3 DEF DownInv
<1> QED
  BY <1>1, <1>2, <1>3, <1>4, <1>5, <1>6, <1>7, DownClient, DownRegister, DownRecv, DownRead
     DEF Next, Front, Mmh, Srv

---------------------------------------------------------------------------
(* Target to client. *)

LEMMA HasNext ==
    ASSUME TypeOK, NEW n \in 0 .. MaxData, Has(n), n < MaxData,
           client'.got = Append(client.got, n + 1)
    PROVE  Has(n + 1)'
<1> PICK g \in Seq(Nat) : g = client.got
  BY DEF TypeOK, Clients
<1>0. n + 1 \in Nat /\ n + 1 \in Bytes /\ MaxData \in Nat
  BY MaxDataAssumption DEF Bytes
<1>1. /\ DOMAIN Append(g, n + 1) = 1 .. Len(g) + 1 /\ DOMAIN g = 1 .. Len(g) /\ Len(g) \in Nat
      /\ \A i \in 1 .. Len(g) : Append(g, n + 1)[i] = g[i]
      /\ Append(g, n + 1)[Len(g) + 1] = n + 1
  BY <1>0, AppendProperties, LenProperties
<1>2. \A i \in DOMAIN g : g[i] \in Bytes => g[i] <= n
  BY DEF Has, Relayed
<1>3. ASSUME NEW b \in Bytes
      PROVE  (\E i \in DOMAIN Append(g, n + 1) : Append(g, n + 1)[i] = b) <=> b <= n + 1
  <2>1. (\E i \in DOMAIN g : g[i] = b) <=> b <= n
    BY DEF Has, Relayed
  <2>2. (\E i \in DOMAIN Append(g, n + 1) : Append(g, n + 1)[i] = b)
           <=> (\E i \in DOMAIN g : g[i] = b) \/ b = n + 1
    BY <1>1
  <2> QED
    BY <1>0, <2>1, <2>2 DEF Bytes
<1>4. \A i, j \in DOMAIN g : i < j /\ g[i] \in Bytes /\ g[j] \in Bytes => g[i] < g[j]
  BY DEF Has
<1>5. ASSUME NEW i \in DOMAIN Append(g, n + 1), NEW j \in DOMAIN Append(g, n + 1), i < j,
             Append(g, n + 1)[i] \in Bytes, Append(g, n + 1)[j] \in Bytes
      PROVE  Append(g, n + 1)[i] < Append(g, n + 1)[j]
  <2>1. i \in DOMAIN g /\ (j \in DOMAIN g \/ j = Len(g) + 1)
    BY <1>1, <1>5
  <2>2. g[i] \in Bytes /\ g[i] <= n
    BY <1>1, <1>2, <1>5, <2>1
  <2>3. CASE j = Len(g) + 1
    BY <1>0, <1>1, <2>1, <2>2, <2>3 DEF Bytes
  <2>4. CASE j \in DOMAIN g
    BY <1>1, <1>4, <1>5, <2>1, <2>4
  <2> QED
    BY <2>1, <2>3, <2>4
<1> QED
  BY <1>3, <1>5 DEF Has, Relayed

LEMMA HasReply ==
    ASSUME TypeOK, NEW n \in 0 .. MaxData, Has(n), NEW x \in {Ok, Refusal},
           client'.got = Append(client.got, x)
    PROVE  Has(n)'
<1> PICK g \in Seq(Nat) : g = client.got
  BY DEF TypeOK, Clients
<1>0. x \in Nat /\ x \notin Bytes
  BY MaxDataAssumption DEF Ok, Refusal, Bytes
<1>1. /\ DOMAIN Append(g, x) = 1 .. Len(g) + 1 /\ DOMAIN g = 1 .. Len(g) /\ Len(g) \in Nat
      /\ \A i \in 1 .. Len(g) : Append(g, x)[i] = g[i]
      /\ Append(g, x)[Len(g) + 1] = x
  BY <1>0, AppendProperties, LenProperties
<1>2. \A b \in Bytes : (\E i \in DOMAIN Append(g, x) : Append(g, x)[i] = b)
                          <=> (\E i \in DOMAIN g : g[i] = b)
  BY <1>0, <1>1
<1>3. \A i, j \in DOMAIN g : i < j /\ g[i] \in Bytes /\ g[j] \in Bytes => g[i] < g[j]
  BY DEF Has
<1>4. \A i, j \in DOMAIN Append(g, x) :
        i < j /\ Append(g, x)[i] \in Bytes /\ Append(g, x)[j] \in Bytes
          => Append(g, x)[i] < Append(g, x)[j]
  BY <1>0, <1>1, <1>3
<1> QED
  BY <1>2, <1>4 DEF Has, Relayed

\* An excuse is never taken back.
LEMMA ExcusedKept ==
    ASSUME TypeOK, AgentInv, Next, Excused
    PROVE  Excused'
<1>0. client \in Clients /\ target \in Targets /\ client.sent \in Nat
  BY MaxDataAssumption DEF TypeOK, Clients
<1>1. CASE Client
  <2>1. /\ client.fin /= "no" => client'.fin /= "no"
        /\ client'.sent \in {client.sent, client.sent + 1}
        /\ UNCHANGED <<target, mmh, mmhReader>>
    BY <1>0, <1>1 DEF Client, ClientSends, ClientEnds, Clients
  <2>2. Len(target.got) \in Nat
    BY <1>0, LenProperties DEF Targets
  <2> QED
    BY <1>0, <2>1, <2>2 DEF Excused
<1>2. CASE Target \/ Front \/ SrvReads \/ Srv \/ StreamBreaks
  <2>1. /\ client'.fin = client.fin /\ client'.sent = client.sent /\ target'.got = target.got
        /\ UNCHANGED <<mmh, mmhReader>>
    <3>1. CASE Target
      BY <1>0, <3>1 DEF Target, TargetSends, TargetEnds, Targets
    <3>2. CASE Front
      BY <1>0, <3>2 DEF Front, FrontRegisters, FrontHasNoChild, FrontPushes, FrontPushFails,
                        FrontReplies, Refused, Clients
    <3>3. CASE SrvReads \/ Srv \/ StreamBreaks
      BY <1>0, <3>3 DEF SrvReads, Srv, SrvAccepts, SrvRecv, SrvRecvFails, SrvReturns,
                        StreamBreaks, Clients
    <3> QED
      BY <1>2, <3>1, <3>2, <3>3
  <2> QED
    BY <2>1 DEF Excused
<1>3. CASE MmhAnnounces \/ MmhDials \/ MmhDialFails \/ MmhRecv \/ MmhRecvFails
  <2>1. mmh /= "returned" /\ UNCHANGED client
    BY <1>3 DEF MmhAnnounces, MmhDials, MmhDialFails, MmhRecv, MmhRecvFails
  <2> QED
    BY <2>1 DEF Excused
<1>4. CASE MmhReads
  <2>1. target'.got = target.got /\ UNCHANGED <<client, mmh>> /\ mmhReader = "run"
    BY <1>0, <1>4 DEF MmhReads, Targets
  <2> QED
    BY <2>1 DEF Excused
<1> QED
  BY <1>1, <1>2, <1>3, <1>4 DEF Next, Mmh

LEMMA UpInit == Init => UpInv
<1> SUFFICES ASSUME Init PROVE UpInv
  OBVIOUS
<1>1. 0 \in 0 .. MaxData /\ Frames(<<>>, 0, 0, 0)
  BY MaxDataAssumption, NoFrames
<1>2. Has(0)
  BY MaxDataAssumption DEF Init, Has, Relayed, Bytes
<1>3. TargetBytes(0, 0)
  BY <1>1, <1>2 DEF Init, TargetBytes, TargetEnd, Live
<1> QED
  BY <1>1, <1>3 DEF UpInv

\* A step that touches neither the stream's end nor what the target sent.
LEMMA UpKept ==
    ASSUME NEW n \in 0 .. MaxData, NEW m \in 0 .. MaxData, TargetBytes(n, m), Has(n)',
           UNCHANGED <<up, target.toAgent, target.sent, target.fin, mmh, mmhReader>>,
           Excused => Excused',
           stream' = stream \/ (stream' = "open" /\ Live) \/ stream' = "broken"
    PROVE  UpInv'
<1>1. TargetBytes(n, m)'
  BY DEF TargetBytes, TargetEnd, Live
<1> QED
  BY <1>1 DEF UpInv

LEMMA UpTarget ==
    ASSUME TypeOK, AgentInv, UpInv, Target
    PROVE  UpInv'
<1>0. target \in Targets /\ target.sent \in 0 .. MaxData /\ MaxData \in Nat
  BY MaxDataAssumption DEF TypeOK, Targets
<1>1. PICK n, m \in 0 .. MaxData : TargetBytes(n, m)
  BY DEF UpInv
<1>2. /\ ~target.fin /\ UNCHANGED <<client, stream, up, mmh, mmhReader>> /\ target'.got = target.got
      /\ Frames(target.toAgent, m, target.sent, 0)
  BY <1>0, <1>1 DEF Target, TargetSends, TargetEnds, TargetBytes, TargetEnd, Targets
<1>3. (Excused <=> Excused') /\ (Has(n) <=> Has(n)') /\ (Live <=> Live')
  BY <1>2 DEF Excused, Has, Relayed, Live
<1>4. /\ Frames(Append(target.toAgent, target.sent + 1), m, target.sent + 1, 0)
      /\ Frames(Append(target.toAgent, Fin), m, target.sent, 1)
  BY <1>0, <1>2, FramesAppend DEF Targets
<1>5. Frames(target.toAgent, m, target.sent, TargetEnd)'
  <2>1. CASE TargetSends
    BY <1>0, <1>4, <2>1 DEF TargetSends, Targets, TargetEnd
  <2>2. CASE TargetEnds
    BY <1>0, <1>4, <2>2 DEF TargetEnds, Targets, TargetEnd
  <2> QED
    BY <2>1, <2>2 DEF Target
<1>6. TargetBytes(n, m)'
  BY <1>1, <1>2, <1>3, <1>5 DEF TargetBytes
<1> QED
  BY <1>6 DEF UpInv

LEMMA UpFront ==
    ASSUME TypeOK, AgentInv, UpInv, Next, Front
    PROVE  UpInv'
<1>0. client \in Clients
  BY DEF TypeOK
<1>1. PICK n, m \in 0 .. MaxData : TargetBytes(n, m)
  BY DEF UpInv
<1>2. UNCHANGED <<target, stream, up, mmh, mmhReader>>
  BY DEF Front, FrontRegisters, FrontHasNoChild, FrontPushes, FrontPushFails, FrontReplies
<1>3. \/ client'.got = client.got
      \/ \E x \in {Ok, Refusal} : client'.got = Append(client.got, x)
  BY <1>0 DEF Front, FrontRegisters, FrontHasNoChild, FrontPushes, FrontPushFails, FrontReplies,
              Refused, Clients
<1>4. Has(n)'
  <2>1. Has(n)
    BY <1>1 DEF TargetBytes
  <2>2. CASE client'.got = client.got
    BY <2>1, <2>2 DEF Has, Relayed
  <2> QED
    BY <1>3, <2>1, <2>2, HasReply
<1> QED
  BY <1>1, <1>2, <1>4, UpKept, ExcusedKept

\* The agent's handle: each way in which it returns is an excuse.
LEMMA UpAgent ==
    ASSUME TypeOK, ParentInv, AgentInv, DownInv, UpInv, Next, Mmh
    PROVE  UpInv'
<1>0. target \in Targets /\ up \in Seq(Nat) /\ MaxData \in Nat
  BY MaxDataAssumption DEF TypeOK
<1>1. PICK n, m \in 0 .. MaxData : TargetBytes(n, m)
  BY DEF UpInv
<1>2. /\ UNCHANGED client /\ target'.toAgent = target.toAgent /\ target'.sent = target.sent
      /\ target'.fin = target.fin
  BY <1>0 DEF Mmh, MmhAnnounces, MmhDials, MmhDialFails, MmhRecv, MmhRecvFails, MmhReturns, Targets
<1>3. (Has(n) <=> Has(n)') /\ (Excused => Excused')
  BY <1>2, ExcusedKept DEF Has, Relayed
<1>4. (TargetEnd = TargetEnd') /\ (stream' = stream => (Live <=> Live'))
  BY <1>2 DEF TargetEnd, Live
<1>5. CASE MmhAnnounces
  <2>1. stream = "none" /\ mmh = "none" /\ mmhReader = "none" /\ UNCHANGED <<up, mmhReader>>
    BY <1>5 DEF MmhAnnounces, AgentInv
  <2>2. Frames(up, n, m, 0) /\ n = m
    BY <1>1, <2>1, NoFrames DEF TargetBytes
  <2>3. stream' = "none" \/ (stream' = "announced" /\ mmh' = "dial")
    BY <1>5, <2>1 DEF MmhAnnounces
  <2>4. TargetBytes(n, m)'
    BY <1>1, <1>2, <1>3, <1>4, <2>1, <2>2, <2>3 DEF TargetBytes, Live
  <2> QED
    BY <2>4 DEF UpInv
<1>6. CASE MmhDials
  <2>1. mmh = "dial" /\ mmhReader = "none" /\ stream /= "none" /\ mmh' = "relay"
        /\ UNCHANGED <<up, stream>>
    BY <1>6 DEF MmhDials, AgentInv
  <2>2. Live => Frames(up, n, m, 0)
    BY <1>1, <2>1 DEF TargetBytes
  <2>3. TargetBytes(n, m)'
    BY <1>1, <1>2, <1>3, <1>4, <2>1, <2>2 DEF TargetBytes
  <2> QED
    BY <2>3 DEF UpInv
<1>7. CASE MmhDialFails
  <2>1. /\ mmh = "dial" /\ mmhReader = "none" /\ stream /= "none" /\ mmh' = "returned"
        /\ UNCHANGED <<stream, mmhReader>> /\ up' = IF Live THEN Append(up, Fin) ELSE up
    BY <1>7 DEF MmhDialFails, AgentInv, SendUp
  <2>2. Live => Frames(up, n, m, 0)
    BY <1>1, <2>1 DEF TargetBytes
  <2>3. Live => Frames(up', n, m, 1)
    BY <1>0, <2>1, <2>2, FramesAppend
  <2>4. Excused'
    BY <2>1 DEF Excused
  <2>5. TargetBytes(n, m)'
    BY <1>1, <1>2, <1>3, <1>4, <2>1, <2>3, <2>4 DEF TargetBytes
  <2> QED
    BY <2>5 DEF UpInv
<1>8. CASE MmhRecv
  <2>1. mmh = "relay" /\ mmh' \in {"relay", "returned"} /\ UNCHANGED <<stream, up, mmhReader>>
    BY <1>8 DEF MmhRecv, MmhReturns
  <2>2. mmh' = "returned" => Excused'
    <3>1. CASE Head(down) = Fin
      BY <1>2, <1>8, <3>1, DownRecv DEF Excused
    <3>2. CASE Head(down) /= Fin
      <4>1. Len(target.got) < client.sent
        BY <1>8, <3>2, DownRecv
      <4>2. mmh' = "returned" => target'.got = target.got
        BY <1>0, <1>8, <2>1, <3>2 DEF MmhRecv, MmhReturns, Targets
      <4> QED
        BY <1>2, <4>1, <4>2 DEF Excused
    <3> QED
      BY <3>1, <3>2
  <2>3. mmhReader /= "none"
    BY <2>1 DEF AgentInv
  <2>4. TargetBytes(n, m)'
    BY <1>1, <1>2, <1>3, <1>4, <2>1, <2>2, <2>3 DEF TargetBytes
  <2> QED
    BY <2>4 DEF UpInv
<1>9. CASE MmhRecvFails
  <2>1. /\ mmh' = "returned" /\ ~Live /\ stream /= "none" /\ UNCHANGED <<stream, up, mmhReader>>
    BY <1>9 DEF MmhRecvFails, MmhReturns, Live
  <2>2. TargetBytes(n, m)'
    BY <1>1, <1>2, <1>3, <1>4, <2>1 DEF TargetBytes
  <2> QED
    BY <2>2 DEF UpInv
<1> QED
  BY <1>5, <1>6, <1>7, <1>8, <1>9 DEF Mmh

\* The agent puts what the target sent on the stream.
LEMMA UpRead ==
    ASSUME TypeOK, AgentInv, UpInv, Next, MmhReads
    PROVE  UpInv'
<1>0. /\ target \in Targets /\ target.toAgent \in Seq(Nat) /\ up \in Seq(Nat)
      /\ target.sent \in 0 .. MaxData /\ MaxData \in Nat
  BY MaxDataAssumption DEF TypeOK, Targets
<1>1. PICK n, m \in 0 .. MaxData : TargetBytes(n, m)
  BY DEF UpInv
<1>2. /\ mmhReader = "run" /\ stream /= "none" /\ UNCHANGED <<client, stream, mmh>>
      /\ target'.sent = target.sent /\ target'.fin = target.fin /\ target'.got = target.got
  BY <1>0 DEF MmhReads, AgentInv, Targets
<1>3. (Has(n) <=> Has(n)') /\ (Excused => Excused') /\ TargetEnd' = TargetEnd /\ (Live <=> Live')
  BY <1>2, ExcusedKept DEF Has, Relayed, TargetEnd, Live
<1>4. /\ Live => Frames(up, n, m, 0)
      /\ Frames(target.toAgent, m, target.sent, TargetEnd) /\ n <= m
  BY <1>1, <1>2 DEF TargetBytes
<1>5. CASE /\ target.toAgent /= <<>> /\ Head(target.toAgent) /= Fin
           /\ SendUp(Head(target.toAgent))
           /\ target' = [target EXCEPT !.toAgent = Tail(@)]
           /\ mmhReader' = IF Live THEN "run" ELSE "done"
  <2>1. /\ Head(target.toAgent) = m + 1 /\ m + 1 <= target.sent
        /\ Frames(Tail(target.toAgent), m + 1, target.sent, TargetEnd)
    BY <1>0, <1>4, <1>5, FramesTail DEF TargetEnd
  <2>2. PICK a \in 0 .. MaxData : a = m + 1
    BY <1>0, <2>1
  <2>3. Live => Frames(up', n, a, 0)
    BY <1>0, <1>4, <1>5, <2>1, <2>2, FramesAppend DEF SendUp
  <2>4. target'.toAgent = Tail(target.toAgent) /\ mmhReader' /= "none"
    BY <1>0, <1>5 DEF Targets
  <2>5. TargetBytes(n, a)'
    BY <1>1, <1>2, <1>3, <1>4, <2>1, <2>2, <2>3, <2>4 DEF TargetBytes
  <2> QED
    BY <2>5 DEF UpInv
<1>6. CASE /\ ~target.open \/ (target.toAgent /= <<>> /\ Head(target.toAgent) = Fin)
           /\ SendUp(Fin)
           /\ mmhReader' = "done"
           /\ UNCHANGED target
  <2>1. Live => Frames(up', n, m, 1)
    BY <1>0, <1>4, <1>6, FramesAppend DEF SendUp
  <2>2. Live => Excused \/ (target.fin /\ m = target.sent)
    <3>1. CASE ~target.open
      BY <1>1, <1>2, <3>1 DEF AgentInv, TargetBytes
    <3>2. CASE target.toAgent /= <<>> /\ Head(target.toAgent) = Fin
      <4>1. m = target.sent /\ TargetEnd = 1
        BY <1>0, <1>4, <3>2, FramesTail DEF TargetEnd
      <4> QED
        BY <4>1 DEF TargetEnd
    <3> QED
      BY <1>6, <3>1, <3>2
  <2>3. TargetBytes(n, m)'
    BY <1>1, <1>2, <1>3, <1>4, <1>6, <2>1, <2>2 DEF TargetBytes
  <2> QED
    BY <2>3 DEF UpInv
<1> QED
  BY <1>5, <1>6 DEF MmhReads

\* The parent's handler: it returns when the answer is complete, or with an excuse.
LEMMA UpRecv ==
    ASSUME TypeOK, AgentInv, UpInv, Next, SrvRecv
    PROVE  UpInv'
<1>0. /\ client \in Clients /\ up \in Seq(Nat) /\ target.sent \in 0 .. MaxData /\ MaxData \in Nat
  BY MaxDataAssumption DEF TypeOK, Targets
<1>1. PICK n, m \in 0 .. MaxData : TargetBytes(n, m)
  BY DEF UpInv
<1>2. /\ stream = "open" /\ Live /\ up /= <<>> /\ UNCHANGED <<target, mmh, mmhReader>>
      /\ m <= target.sent /\ Has(n)
  BY <1>1 DEF SrvRecv, Live, TargetBytes, Frames
<1>3. PICK e \in {0, 1} :
        /\ Frames(up, n, m, e)
        /\ e = 1 => /\ mmhReader /= "run"
                    /\ mmhReader = "none" => mmh = "returned"
                    /\ Excused \/ (target.fin /\ m = target.sent)
  BY <1>1, <1>2 DEF TargetBytes
<1>4. /\ Head(up) = Fin => n = m /\ e = 1
      /\ Head(up) /= Fin => Head(up) = n + 1 /\ n + 1 <= m /\ Frames(Tail(up), n + 1, m, e)
  BY <1>0, <1>2, <1>3, FramesTail
<1>5. (Excused => Excused') /\ TargetEnd' = TargetEnd
  BY <1>2, ExcusedKept DEF TargetEnd
<1>6. CASE SrvReturns /\ (Head(up) = Fin \/ client.fin = "full")
  <2>1. client'.got = client.got /\ stream' = "over"
    BY <1>0, <1>2, <1>6 DEF SrvReturns, Clients
  <2>2. Excused \/ (target.fin /\ n = target.sent)
    BY <1>3, <1>4, <1>6 DEF Excused
  <2>3. Has(n)'
    BY <1>2, <2>1 DEF Has, Relayed
  <2>4. TargetBytes(n, m)'
    BY <1>1, <1>2, <1>5, <2>1, <2>2, <2>3 DEF TargetBytes, Live
  <2> QED
    BY <2>4 DEF UpInv
<1>7. CASE /\ Head(up) /= Fin
           /\ client' = [client EXCEPT !.got = Append(@, Head(up))]
           /\ up' = Tail(up)
           /\ UNCHANGED <<srv, stream>>
  <2>1. client'.got = Append(client.got, n + 1) /\ n < MaxData
    BY <1>0, <1>2, <1>4, <1>7 DEF Clients
  <2>2. Has(n + 1)'
    BY <1>2, <2>1, HasNext
  <2>3. PICK a \in 0 .. MaxData : a = n + 1
    BY <1>0, <2>1
  <2>4. Has(a)'
    BY <2>2, <2>3
  <2>5. TargetBytes(a, m)'
    BY <1>1, <1>2, <1>3, <1>4, <1>5, <1>7, <2>3, <2>4 DEF TargetBytes, Live
  <2> QED
    BY <2>5 DEF UpInv
<1> QED
  BY <1>6, <1>7 DEF SrvRecv

LEMMA UpStep ==
    ASSUME TypeOK, ParentInv, AgentInv, DownInv, UpInv, [Next]_vars
    PROVE  UpInv'
<1>0. client \in Clients
  BY DEF TypeOK
<1>1. PICK n, m \in 0 .. MaxData : TargetBytes(n, m)
  BY DEF UpInv
<1>2. CASE UNCHANGED vars
  <2>1. Has(n)' /\ (Excused => Excused')
    BY <1>1, <1>2 DEF vars, Has, Relayed, TargetBytes, Excused
  <2> QED
    BY <1>1, <1>2, <2>1, UpKept DEF vars
<1>3. CASE Client \/ SrvAccepts \/ SrvRecvFails \/ SrvReads \/ StreamBreaks
  <2>1. client'.got = client.got
    BY <1>0, <1>3 DEF Client, ClientSends, ClientEnds, SrvAccepts, SrvRecvFails, SrvReturns,
                      SrvReads, StreamBreaks, Clients
  <2>2. Has(n)'
    BY <1>1, <2>1 DEF TargetBytes, Has, Relayed
  <2>3. UNCHANGED <<target, mmh, mmhReader>>
    BY <1>3 DEF Client, ClientSends, ClientEnds, SrvAccepts, SrvRecvFails, SrvReads, StreamBreaks
  <2>4. Excused => Excused'
    BY <1>3, ExcusedKept DEF Next, Srv
  <2>5. CASE stream' /= "broken" /\ up' = up
    <3>1. stream' = stream \/ (stream' = "open" /\ Live)
      BY <1>3, <2>5 DEF Client, ClientSends, ClientEnds, SrvAccepts, SrvRecvFails, SrvReturns,
                        SrvReads, StreamBreaks, ParentInv, Live
    <3> QED
      BY <1>1, <2>2, <2>3, <2>4, <2>5, <3>1, UpKept
  <2>6. CASE stream' = "broken"
    <3>1. TargetBytes(n, m)'
      BY <1>1, <2>2, <2>3, <2>6 DEF TargetBytes, TargetEnd, Live
    <3> QED
      BY <3>1 DEF UpInv
  <2>7. stream' = "broken" \/ up' = up
    BY <1>3 DEF Client, ClientSends, ClientEnds, SrvAccepts, SrvRecvFails, SrvReturns,
                SrvReads, StreamBreaks
  <2> QED
    BY <2>5, <2>6, <2>7
<1> QED
  BY <1>2, <1>3, UpTarget, UpFront, UpAgent, UpRead, UpRecv DEF Next, Srv

---------------------------------------------------------------------------
IInv == TypeOK /\ ParentInv /\ AgentInv /\ DownInv /\ UpInv

LEMMA Inductive ==
    /\ Init => IInv
    /\ IInv /\ [Next]_vars => IInv'
<1>1. Init => IInv
  BY TypeInit, ControlInit, DownInit, UpInit DEF IInv
<1>2. IInv /\ [Next]_vars => IInv'
  BY TypeStep, ParentStep, AgentStep, DownStep, UpStep DEF IInv
<1> QED
  BY <1>1, <1>2

\* Through the four goroutines of a connection no byte is lost, doubled or overtaken,
\* in either direction, but for what the client sent ahead of the proxy's answer
\* (proxy.go:126-156, main.go:119-149, 206).
THEOREM BytesInOrder == Spec => []InOrder
<1>1. IInv => InOrder
  <2> SUFFICES ASSUME IInv PROVE InOrder
    OBVIOUS
  <2>1. PICK f, h, d, t \in 0 .. MaxData : ClientBytes(f, h, d, t)
    BY DEF IInv, DownInv
  <2>2. PICK n, m \in 0 .. MaxData : TargetBytes(n, m)
    BY DEF IInv, UpInv
  <2>3. /\ Frames(target.got, f, h, 0) /\ f <= client.early
        /\ target.got \in Seq(Nat) /\ client.early \in Nat /\ MaxData \in Nat
    BY <2>1, MaxDataAssumption DEF ClientBytes, IInv, TypeOK, Clients, Targets
  <2>4. \A i \in 1 .. Len(target.got) : target.got[i] = f + i
    BY <2>3 DEF Frames
  <2>5. target.got /= <<>> => Len(target.got) \in Nat /\ 1 \in 1 .. Len(target.got)
    BY <2>3, EmptySeq
  <2>6. /\ target.got /= <<>> => target.got[1] <= client.early + 1
        /\ \A i \in 1 .. Len(target.got) : target.got[i] = target.got[1] + i - 1
    BY <2>3, <2>4, <2>5
  <2>7. Has(n)
    BY <2>2 DEF TargetBytes
  <2>8. \A b \in Bytes : Relayed(b) => \A c \in 1 .. b : Relayed(c)
    BY <2>3, <2>7 DEF Has, Bytes
  <2> QED
    BY <2>6, <2>7, <2>8 DEF InOrder, Has
<1> QED
  BY <1>1, Inductive, PTL DEF Spec

\* When the target alone ended the connection, with nothing of the client's unread, the
\* client has its whole answer before its connection is closed (proxy.go:129-138).
THEOREM AnswersAreComplete == Spec => []AnswerComplete
<1>1. IInv => AnswerComplete
  <2> SUFFICES ASSUME IInv, srv = "returned", stream = "over", target.fin, client.fin = "no",
                      Len(target.got) = client.sent
               PROVE  \A b \in Bytes : Relayed(b) <=> b <= target.sent
    BY DEF AnswerComplete
  <2>1. PICK n, m \in 0 .. MaxData : TargetBytes(n, m)
    BY DEF IInv, UpInv
  <2>2. mmhReader /= "none" /\ client.sent \in Nat
    BY MaxDataAssumption DEF IInv, AgentInv, TypeOK, Clients
  <2>3. ~Excused
    BY <2>2 DEF Excused
  <2>4. n = target.sent /\ Has(n)
    BY <2>1, <2>3 DEF TargetBytes
  <2> QED
    BY <2>4 DEF Has
<1> QED
  BY <1>1, Inductive, PTL DEF Spec
=============================================================================
