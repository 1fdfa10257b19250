-------------------------------- MODULE Egress --------------------------------
(***************************************************************************)
(* One connection through the exit node: a proxy client of                 *)
(* cmd/parent-stub/main.go, the parent's front end (handleSocks or         *)
(* handleConnect, then openEgress) and its EgressStream handler, the       *)
(* agent's handle of internal/worker/proxy.go, and the target.             *)
(*                                                                         *)
(*   client <=TCP=> srv (parent) <=EgressStream=> mmh (agent) <=TCP=> target *)
(*                                                                         *)
(* Both ends of the stream have two goroutines, one per direction.         *)
(* Connections have distinct conn_ids (connSeq is atomic) and share        *)
(* nothing else, so one is modelled.  Bytes are numbered in the order they *)
(* are sent; Fin is the end of a TCP direction, or a frame with Close.     *)
(* The choice of SOCKS5 through tor or a direct dial is left out: either   *)
(* succeeds or fails.                                                      *)
(***************************************************************************)
EXTENDS Naturals, Sequences

CONSTANT MaxData      \* bound: what each end sends

ASSUME MaxDataAssumption == MaxData \in Nat

Fin   == 0
Bytes == 1 .. MaxData
Ok    == MaxData + 1    \* the proxy's reply to the client
Refusal == MaxData + 2

VARIABLES
    client,     \* [sent, early, fin, toProxy, got, open]: the client and its TCP connection
    front,      \* handleSocks / handleConnect of the parent
    pending,    \* whether s.pending has the client
    command,    \* whether the egress_open command is on its way to the agent
    stream,     \* the EgressStream: none, announced, open, over, broken
    up, down,   \* the frames on it, agent to parent and parent to agent
    srv,        \* the parent's EgressStream handler
    srvReader,  \* its goroutine client -> stream
    mmh,        \* the agent's handle
    mmhReader,  \* its goroutine target -> stream
    target      \* [sent, fin, toAgent, got, open]: the target and its TCP connection

vars == <<client, front, pending, command, stream, up, down, srv, srvReader,
          mmh, mmhReader, target>>

Init ==
    /\ client = [sent |-> 0, early |-> 0, fin |-> "no", toProxy |-> <<>>, got |-> <<>>, open |-> TRUE]
    /\ front = "request" /\ pending = FALSE /\ command = FALSE
    /\ stream = "none" /\ up = <<>> /\ down = <<>>
    /\ srv = "none" /\ srvReader = "none" /\ mmh = "none" /\ mmhReader = "none"
    /\ target = [sent |-> 0, fin |-> FALSE, toAgent |-> <<>>, got |-> <<>>, open |-> FALSE]

---------------------------------------------------------------------------
(* The client and the target. *)

\* early: what the client has sent before its request was read to the end.
ClientSends ==
    /\ client.fin = "no" /\ client.open /\ client.sent < MaxData
    /\ client' = [client EXCEPT !.sent = @ + 1, !.toProxy = Append(@, client.sent + 1),
                                !.early = IF front = "request" THEN @ + 1 ELSE @]
    /\ UNCHANGED <<front, pending, command, stream, up, down, srv, srvReader, mmh, mmhReader, target>>

\* "half": the client has sent everything and still reads.
ClientEnds ==
    /\ client.fin = "no" /\ client.open
    /\ \E how \in {"half", "full"} :
         client' = [client EXCEPT !.fin = how, !.toProxy = Append(@, Fin)]
    /\ UNCHANGED <<front, pending, command, stream, up, down, srv, srvReader, mmh, mmhReader, target>>

TargetSends ==
    /\ target.open /\ ~target.fin /\ target.sent < MaxData
    /\ target' = [target EXCEPT !.sent = @ + 1, !.toAgent = Append(@, target.sent + 1)]
    /\ UNCHANGED <<client, front, pending, command, stream, up, down, srv, srvReader, mmh, mmhReader>>

TargetEnds ==
    /\ target.open /\ ~target.fin
    /\ target' = [target EXCEPT !.fin = TRUE, !.toAgent = Append(@, Fin)]
    /\ UNCHANGED <<client, front, pending, command, stream, up, down, srv, srvReader, mmh, mmhReader>>

---------------------------------------------------------------------------
(* The parent's front end. *)

\* What the client has sent ahead of the reply may be in the bufio.Reader of the
\* handshake, which nobody reads again.
Buffered(k) == k <= Len(client.toProxy) /\ \A i \in 1 .. k : client.toProxy[i] /= Fin

Refused == [client EXCEPT !.got = Append(@, Refusal), !.open = FALSE]

\* openEgress registers the client ...
FrontRegisters ==
    /\ front = "request"
    /\ \E k \in 0 .. MaxData :
         /\ Buffered(k)
         /\ client' = [client EXCEPT !.toProxy = SubSeq(@, k + 1, Len(@))]
    /\ pending' = TRUE
    /\ front' = "push"
    /\ UNCHANGED <<command, stream, up, down, srv, srvReader, mmh, mmhReader, target>>

\* ... unless no child is connected ...
FrontHasNoChild ==
    /\ front = "request"
    /\ client' = Refused
    /\ front' = "failed"
    /\ UNCHANGED <<pending, command, stream, up, down, srv, srvReader, mmh, mmhReader, target>>

\* ... and pushes the command, which the bus of the agent may drop.
FrontPushes ==
    /\ front = "push"
    /\ command' \in BOOLEAN
    /\ front' = "reply"
    /\ UNCHANGED <<client, pending, stream, up, down, srv, srvReader, mmh, mmhReader, target>>

FrontPushFails ==
    /\ front = "push"
    /\ pending' = FALSE
    /\ client' = Refused
    /\ front' = "failed"
    /\ UNCHANGED <<command, stream, up, down, srv, srvReader, mmh, mmhReader, target>>

FrontReplies ==
    /\ front = "reply"
    /\ client' = IF client.open THEN [client EXCEPT !.got = Append(@, Ok)] ELSE client
    /\ front' = "done"
    /\ UNCHANGED <<pending, command, stream, up, down, srv, srvReader, mmh, mmhReader, target>>

---------------------------------------------------------------------------
(* The agent. *)

Live == stream \in {"announced", "open"}

MmhAnnounces ==
    /\ command /\ mmh = "none"
    /\ \/ stream' = "announced" /\ mmh' = "dial"
       \/ stream' = stream /\ mmh' = "returned"       \* EgressStream or Send fails
    /\ UNCHANGED <<client, front, pending, command, up, down, srv, srvReader, mmhReader, target>>

MmhDials ==
    /\ mmh = "dial"
    /\ mmh' = "relay" /\ mmhReader' = "run"
    /\ target' = [target EXCEPT !.open = TRUE]
    /\ UNCHANGED <<client, front, pending, command, stream, up, down, srv, srvReader>>

SendUp(frame) == up' = IF Live THEN Append(up, frame) ELSE up

MmhDialFails ==
    /\ mmh = "dial"
    /\ SendUp(Fin)
    /\ mmh' = "returned"
    /\ UNCHANGED <<client, front, pending, command, stream, down, srv, srvReader, mmhReader, target>>

\* The deferred conn.Close().
MmhReturns == mmh' = "returned" /\ target' = [target EXCEPT !.open = FALSE]

\* A write to a target that has closed may fail.
MmhRecv ==
    /\ mmh = "relay" /\ down /= <<>>
    /\ down' = Tail(down)
    /\ \/ Head(down) = Fin /\ MmhReturns
       \/ Head(down) /= Fin /\ target.fin /\ MmhReturns
       \/ /\ Head(down) /= Fin
          /\ target' = [target EXCEPT !.got = Append(@, Head(down))]
          /\ UNCHANGED mmh
    /\ UNCHANGED <<client, front, pending, command, stream, up, srv, srvReader, mmhReader>>

MmhRecvFails ==
    /\ mmh = "relay"
    /\ stream = "broken" \/ (stream = "over" /\ down = <<>>)
    /\ MmhReturns
    /\ UNCHANGED <<client, front, pending, command, stream, up, down, srv, srvReader, mmhReader>>

\* A reader that ends without a word.
MmhReadsNoClose ==
    /\ mmhReader = "run"
    /\ IF target.open /\ target.toAgent /= <<>> /\ Head(target.toAgent) /= Fin /\ Live
         THEN /\ SendUp(Head(target.toAgent))
              /\ target' = [target EXCEPT !.toAgent = Tail(@)]
              /\ UNCHANGED mmhReader
         ELSE /\ ~target.open \/ target.toAgent /= <<>>
              /\ mmhReader' = "done"
              /\ UNCHANGED <<up, target>>
    /\ UNCHANGED <<client, front, pending, command, stream, down, srv, srvReader, mmh>>

\* A reader that looks at the state of the connection before its data.
MmhReadsFinFirst ==
    /\ mmhReader = "run"
    /\ IF target.open /\ ~target.fin
         THEN /\ target.toAgent /= <<>> /\ SendUp(Head(target.toAgent))
              /\ target' = [target EXCEPT !.toAgent = Tail(@)]
              /\ UNCHANGED mmhReader
         ELSE /\ SendUp(Fin)
              /\ mmhReader' = "done"
              /\ UNCHANGED target
    /\ UNCHANGED <<client, front, pending, command, stream, down, srv, srvReader, mmh>>

\* target -> stream: data until the target's end, or until handle closes the
\* connection; then a frame with Close.  A Send on a stream that is over fails.
MmhReads ==
    /\ mmhReader = "run"
    /\ \/ /\ target.open /\ target.toAgent /= <<>> /\ Head(target.toAgent) /= Fin
          /\ SendUp(Head(target.toAgent))
          /\ target' = [target EXCEPT !.toAgent = Tail(@)]
          /\ mmhReader' = IF Live THEN "run" ELSE "done"
       \/ /\ ~target.open \/ (target.toAgent /= <<>> /\ Head(target.toAgent) = Fin)
          /\ SendUp(Fin)
          /\ mmhReader' = "done"
          /\ UNCHANGED target
    /\ UNCHANGED <<client, front, pending, command, stream, down, srv, srvReader, mmh>>

---------------------------------------------------------------------------
(* The parent's EgressStream handler. *)

\* The first frame names the connection: takePending.
SrvAccepts ==
    /\ stream = "announced" /\ srv = "none"
    /\ IF pending
         THEN stream' = "open" /\ srv' = "relay" /\ srvReader' = "run"
         ELSE stream' = "over" /\ srv' = "returned" /\ UNCHANGED srvReader
    /\ pending' = FALSE
    /\ UNCHANGED <<client, front, command, up, down, mmh, mmhReader, target>>

\* The handler returns: the stream is over, the client's connection is closed.
SrvReturns ==
    /\ srv' = "returned"
    /\ stream' = IF stream = "open" THEN "over" ELSE stream
    /\ client' = [client EXCEPT !.open = FALSE]
    /\ up' = <<>>

\* A write to a client that has closed both ways may fail.
SrvRecv ==
    /\ srv = "relay" /\ stream = "open" /\ up /= <<>>
    /\ \/ Head(up) = Fin /\ SrvReturns
       \/ Head(up) /= Fin /\ client.fin = "full" /\ SrvReturns
       \/ /\ Head(up) /= Fin
          /\ client' = [client EXCEPT !.got = Append(@, Head(up))]
          /\ up' = Tail(up)
          /\ UNCHANGED <<srv, stream>>
    /\ UNCHANGED <<front, pending, command, down, srvReader, mmh, mmhReader, target>>

SrvRecvFails ==
    /\ srv = "relay" /\ stream = "broken"
    /\ SrvReturns
    /\ UNCHANGED <<front, pending, command, down, srvReader, mmh, mmhReader, target>>

SendDown(frame) == down' = IF stream = "open" THEN Append(down, frame) ELSE down

\* A reader that sends again what is still in its buffer.
SrvReadsAgain ==
    /\ srvReader = "run" /\ client.toProxy /= <<>>
    /\ \E b \in {"keep", "drop"} :
         client' = [client EXCEPT !.toProxy = IF b = "drop" THEN Tail(@) ELSE @]
    /\ stream = "open" /\ Len(down) < 2
    /\ SendDown(Head(client.toProxy))
    /\ srvReader' = IF Head(client.toProxy) = Fin THEN "done" ELSE "run"
    /\ UNCHANGED <<front, pending, command, stream, up, srv, mmh, mmhReader, target>>

\* client -> stream.
SrvReads ==
    /\ srvReader = "run"
    /\ \/ /\ client.open /\ client.toProxy /= <<>> /\ Head(client.toProxy) /= Fin
          /\ SendDown(Head(client.toProxy))
          /\ client' = [client EXCEPT !.toProxy = Tail(@)]
          /\ srvReader' = IF stream = "open" THEN "run" ELSE "done"
       \/ /\ ~client.open \/ (client.toProxy /= <<>> /\ Head(client.toProxy) = Fin)
          /\ SendDown(Fin)
          /\ srvReader' = "done"
          /\ UNCHANGED client
    /\ UNCHANGED <<front, pending, command, stream, up, srv, mmh, mmhReader, target>>

\* The connection between agent and parent breaks.
StreamBreaks ==
    /\ Live
    /\ stream' = "broken" /\ up' = <<>> /\ down' = <<>>
    /\ srv' = IF srv = "none" THEN "returned" ELSE srv
    /\ UNCHANGED <<client, front, pending, command, srvReader, mmh, mmhReader, target>>

---------------------------------------------------------------------------
Client == ClientSends \/ ClientEnds
Target == TargetSends \/ TargetEnds
Front  == FrontRegisters \/ FrontHasNoChild \/ FrontPushes \/ FrontPushFails \/ FrontReplies
Mmh    == MmhAnnounces \/ MmhDials \/ MmhDialFails \/ MmhRecv \/ MmhRecvFails
Srv    == SrvAccepts \/ SrvRecv \/ SrvRecvFails

Next == Client \/ Target \/ Front \/ Mmh \/ MmhReads \/ Srv \/ SrvReads \/ StreamBreaks

Spec == Init /\ [][Next]_vars

\* Goroutines run; a read, a write, a dial returns.  The client, the target and
\* the network owe nothing.
FairSpec ==
    /\ Spec
    /\ WF_vars(Front) /\ WF_vars(Mmh) /\ WF_vars(MmhReads)
    /\ WF_vars(Srv) /\ WF_vars(SrvReads)

---------------------------------------------------------------------------
(* Properties. *)

Relayed(b) == \E i \in DOMAIN client.got : client.got[i] = b

\* What either end gets is a run of what the other sent, in its order, without a
\* hole or a repetition, through four goroutines (proxy.go:126-156, main.go:119-149);
\* only bytes the client sent ahead of the front end may be missing (main.go:206).
InOrder ==
    /\ \A i, j \in DOMAIN client.got :
         i < j /\ client.got[i] \in Bytes /\ client.got[j] \in Bytes
           => client.got[i] < client.got[j]
    /\ \A b \in Bytes : Relayed(b) => \A c \in 1 .. b : Relayed(c)
    /\ target.got /= <<>> => target.got[1] <= client.early + 1
    /\ \A i \in 1 .. Len(target.got) : target.got[i] = target.got[1] + i - 1

\* If the target alone ends the connection, and nothing was sent to it that it had
\* not read, the client has got all of the target's data before its connection is
\* closed (proxy.go:129-138: data, then Close, on one stream).
AnswerComplete ==
    (srv = "returned" /\ stream = "over" /\ target.fin /\ client.fin = "no"
       /\ Len(target.got) = client.sent)
      => \A b \in Bytes : Relayed(b) <=> b <= target.sent

\* When either end of a relayed connection closes, all four goroutines end and both
\* TCP connections are closed (the gauge of active connections goes down,
\* proxy.go:119-121), even if the other end never closes.
RelaysEnd ==
    (srv = "relay" /\ mmh = "relay" /\ (client.fin /= "no" \/ target.fin))
      ~> /\ srv = "returned" /\ srvReader = "done"
         /\ mmh = "returned" /\ mmhReader = "done"
         /\ ~client.open /\ ~target.open
=============================================================================
