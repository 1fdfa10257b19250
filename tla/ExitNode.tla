------------------------------ MODULE ExitNode ------------------------------
(***************************************************************************)
(* The exit node as a whole: the clients of the parent's two proxies       *)
(* (cmd/parent-stub/main.go), the command stream to the agent, its tunnel  *)
(* and proxy workers under the supervisor (internal/worker/tunnel.go,      *)
(* proxy.go), the bus between them (internal/bus/bus.go), and the tor      *)
(* daemon behind (internal/worker/tor.go).                                 *)
(*                                                                         *)
(* A client is named; its conn_id, cid[c], is what the parent knows it by  *)
(* in s.pending and what the agent's stream announces.  What goes over a   *)
(* relayed connection, and the reply to the client, is in Egress; here a   *)
(* stream relays or is over.                                               *)
(***************************************************************************)
EXTENDS Supervisor, Sequences, FiniteSets

CONSTANTS Clients,      \* clients of the proxies
          Socks,        \* those that talk SOCKS5, the others HTTP CONNECT
          ViaTor,       \* those whose command says via_tor
          Rotations,    \* rotate commands
          BusSize,      \* what a channel of the bus holds (128)
          MaxFaults     \* bound: connections that break, and SIGTERM

\* The state worker, which every agent has too, only reads counters for the log.
ASSUME ExitNodeAssumption ==
    /\ Workers = {"tunnel", "proxy"}
    /\ Socks \subseteq Clients /\ ViaTor \subseteq Clients
    /\ BusSize \in Nat \ {0} /\ MaxFaults \in Nat

VARIABLES
    front,     \* front[c]: the parent's goroutine of the client: none, open, push,
               \* done, refused (and its connection closed)
    connSeq,   \* the parent's counter of conn_ids
    cid,       \* cid[c]: the conn_id in the command of c, 0 for none
    pending,   \* the parent: conn_id -> client, the clients without a stream
    poll,      \* the PollCommand stream: none, up, broken but still registered
    wire,      \* the commands on it
    subs, bus, \* topics the proxy worker has subscribed to; what is in their channels
    handle,    \* handle[c]: the agent's goroutine for the command of c: none, open,
               \* dial, relay, returned
    stream,    \* stream[c]: its EgressStream: none, announced, relaying, over
    owner,     \* owner[c]: the client that the parent relays on it
    gauge,     \* activeProxy and activeProxyTor
    rot,       \* rot[r]: a rotate command and the agent's goroutine for it: none,
               \* sent, run, count, done, failed
    newnyms,   \* tor: how many NEWNYM it has executed
    counted,   \* the durable counter egress_rotations
    lost,      \* history: clients whose command a fault or a full channel took
    faults     \* how many connections broke, SIGTERM included

parentVars == <<front, connSeq, cid, pending>>
busVars    == <<subs, bus>>
relayVars  == <<handle, stream, owner, gauge>>
torVars    == <<rot, newnyms, counted>>
vars == <<supervisorVars, parentVars, poll, wire, busVars, relayVars, torVars, lost, faults>>

Topics   == {"egress", "rotate"}
Services == {"proxy", "proxy-tor"}
Service(c) == IF c \in ViaTor THEN "proxy-tor" ELSE "proxy"

EgressOpen(c)   == [topic |-> "egress", of |-> c]
RotateEgress(r) == [topic |-> "rotate", of |-> r]
Nobody == "nobody"

Init ==
    /\ SupervisorInit
    /\ front = [c \in Clients |-> "none"]
    /\ connSeq = 0 /\ cid = [c \in Clients |-> 0]
    /\ pending = <<>>
    /\ poll = "none" /\ wire = <<>>
    /\ subs = {} /\ bus = [t \in Topics |-> <<>>]
    /\ handle = [c \in Clients |-> "none"] /\ stream = [c \in Clients |-> "none"]
    /\ owner = [c \in Clients |-> Nobody]
    /\ gauge = [s \in Services |-> 0]
    /\ rot = [r \in Rotations |-> "none"] /\ newnyms = 0 /\ counted = 0
    /\ lost = {} /\ faults = 0

Fault == faults < MaxFaults /\ faults' = faults + 1

---------------------------------------------------------------------------
(* The parent's proxies. *)

Refuses(c) == front' = [front EXCEPT ![c] = "refused"]

\* Greeting and request are read in a goroutine of their own.  The connection is
\* closed if they are not of SOCKS5 or not a CONNECT; after its first four bytes, a
\* request that ends early is taken as it is.
HandleSocks(c) ==
    /\ c \in Socks /\ front[c] = "none"
    /\ Refuses(c) \/ front' = [front EXCEPT ![c] = "open"]
    /\ UNCHANGED <<supervisorVars, connSeq, cid, pending, poll, wire, busVars, relayVars, torVars, lost, faults>>

\* The request line and the headers; 405, or no word, if it is not a CONNECT.
HandleConnect(c) ==
    /\ c \notin Socks /\ front[c] = "none"
    /\ Refuses(c) \/ front' = [front EXCEPT ![c] = "open"]
    /\ UNCHANGED <<supervisorVars, connSeq, cid, pending, poll, wire, busVars, relayVars, torVars, lost, faults>>

\* openEgress: no child.
NoChild(c) ==
    /\ front[c] = "open" /\ poll = "none"
    /\ Refuses(c)
    /\ UNCHANGED <<supervisorVars, connSeq, cid, pending, poll, wire, busVars, relayVars, torVars, lost, faults>>

\* Entry n of a map.
With(map, n, value) == [k \in DOMAIN map \cup {n} |-> IF k = n THEN value ELSE map[k]]
Without(map, n)     == [k \in DOMAIN map \ {n} |-> map[k]]

\* Ids from the counter's value, without the addition.
RegisterUncounted(c) ==
    /\ front[c] = "open" /\ poll /= "none"
    /\ cid' = [cid EXCEPT ![c] = connSeq + 1]
    /\ pending' = With(pending, connSeq + 1, c)
    /\ front' = [front EXCEPT ![c] = "push"]
    /\ UNCHANGED <<supervisorVars, connSeq, poll, wire, busVars, relayVars, torVars, lost, faults>>

\* openEgress: a fresh conn_id, under which the client waits.
Register(c) ==
    /\ front[c] = "open" /\ poll /= "none"
    /\ connSeq' = connSeq + 1
    /\ cid' = [cid EXCEPT ![c] = connSeq']
    /\ pending' = With(pending, connSeq', c)
    /\ front' = [front EXCEPT ![c] = "push"]
    /\ UNCHANGED <<supervisorVars, poll, wire, busVars, relayVars, torVars, lost, faults>>

\* The command is sent to the child that was read before; on a stream that has broken
\* it is lost, with an error or without.
Push(c) ==
    /\ front[c] = "push"
    /\ IF poll = "up" THEN wire' = Append(wire, EgressOpen(c)) /\ UNCHANGED lost
                      ELSE lost' = lost \cup {c} /\ UNCHANGED wire
    /\ front' = [front EXCEPT ![c] = "done"]
    /\ UNCHANGED <<supervisorVars, connSeq, cid, pending, poll, busVars, relayVars, torVars, faults>>

PushFails(c) ==
    /\ front[c] = "push" /\ poll /= "up"
    /\ pending' = Without(pending, cid[c])
    /\ Refuses(c)
    /\ UNCHANGED <<supervisorVars, connSeq, cid, poll, wire, busVars, relayVars, torVars, lost, faults>>

---------------------------------------------------------------------------
(* The command stream. *)

TunnelRuns == worker["tunnel"] = "run"

\* A session opens its stream, and the parent registers it.
Connects ==
    /\ TunnelRuns /\ ctx = "live" /\ poll = "none"
    /\ poll' = "up"
    /\ UNCHANGED <<supervisorVars, parentVars, wire, busVars, relayVars, torVars, lost, faults>>

OnWire == {wire[i].of : i \in DOMAIN wire} \cap Clients

Breaks ==
    /\ poll = "up" /\ Fault
    /\ poll' = "broken"
    /\ wire' = <<>> /\ lost' = lost \cup OnWire
    /\ UNCHANGED <<supervisorVars, parentVars, busVars, relayVars, torVars>>

\* The session returns: Poll's error, or the end of the context.  The parent's handler
\* ends too.
SessionEnds ==
    /\ poll = "broken" \/ ctx = "cancelled"
    /\ RunReturns("tunnel")
    /\ poll' = "none"
    /\ wire' = <<>> /\ lost' = lost \cup OnWire
    /\ UNCHANGED <<parentVars, busVars, relayVars, torVars, faults>>

\* The parent of production sends these.
ParentRotates(r) ==
    /\ rot[r] = "none" /\ poll = "up"
    /\ rot' = [rot EXCEPT ![r] = "sent"]
    /\ wire' = Append(wire, RotateEgress(r))
    /\ UNCHANGED <<supervisorVars, parentVars, poll, busVars, relayVars, newnyms, counted, lost, faults>>

\* Publish does not wait: a channel that is full drops the message.
Publish(t, msg) ==
    IF t \notin subs THEN UNCHANGED <<bus, lost>>
    ELSE IF Len(bus[t]) < BusSize
           THEN bus' = [bus EXCEPT ![t] = Append(@, msg)] /\ UNCHANGED lost
           ELSE lost' = lost \cup ({msg.of} \cap Clients) /\ UNCHANGED bus

\* handleCommand.
HandleCommand ==
    /\ TunnelRuns /\ wire /= <<>>
    /\ wire' = Tail(wire)
    /\ Publish(Head(wire).topic, Head(wire))
    /\ UNCHANGED <<supervisorVars, parentVars, poll, subs, relayVars, torVars, faults>>

---------------------------------------------------------------------------
(* The proxy worker. *)

ProxyRuns == worker["proxy"] = "run"

\* Init of a worker; the proxy worker subscribes.
Initialise(w) ==
    /\ InitWorker(w)
    /\ subs' = IF w = "proxy" THEN Topics ELSE subs
    /\ UNCHANGED <<parentVars, poll, wire, bus, relayVars, torVars, lost, faults>>

\* Run: a goroutine for each command ...
TakesEgress ==
    /\ ProxyRuns /\ bus["egress"] /= <<>>
    /\ bus' = [bus EXCEPT !["egress"] = Tail(@)]
    /\ handle' = [handle EXCEPT ![Head(bus["egress"]).of] = "open"]
    /\ UNCHANGED <<supervisorVars, parentVars, poll, wire, subs, stream, owner, gauge, torVars, lost, faults>>

\* ... of either kind.
TakesRotate ==
    /\ ProxyRuns /\ bus["rotate"] /= <<>>
    /\ bus' = [bus EXCEPT !["rotate"] = Tail(@)]
    /\ rot' = [rot EXCEPT ![Head(bus["rotate"]).of] = "run"]
    /\ UNCHANGED <<supervisorVars, parentVars, poll, wire, subs, relayVars, newnyms, counted, lost, faults>>

ProxyStops ==
    /\ ctx = "cancelled" /\ RunReturns("proxy")
    /\ UNCHANGED <<parentVars, poll, wire, busVars, relayVars, torVars, lost, faults>>

\* handle: the stream, and the first frame, which says the conn_id.
Announces(c) ==
    /\ handle[c] = "open" /\ ctx = "live"
    /\ handle' = [handle EXCEPT ![c] = "dial"]
    /\ stream' = [stream EXCEPT ![c] = "announced"]
    /\ UNCHANGED <<supervisorVars, parentVars, poll, wire, busVars, owner, gauge, torVars, lost, faults>>

AnnounceFails(c) ==
    /\ handle[c] = "open"
    /\ (ctx = "cancelled" /\ UNCHANGED faults) \/ Fault
    /\ handle' = [handle EXCEPT ![c] = "returned"]
    /\ lost' = lost \cup {c}
    /\ UNCHANGED <<supervisorVars, parentVars, poll, wire, busVars, stream, owner, gauge, torVars>>

\* The target is reached, directly or through tor: egressBegin.
Dials(c) ==
    /\ handle[c] = "dial"
    /\ handle' = [handle EXCEPT ![c] = "relay"]
    /\ gauge' = [gauge EXCEPT ![Service(c)] = @ + 1]
    /\ UNCHANGED <<supervisorVars, parentVars, poll, wire, busVars, stream, owner, torVars, lost, faults>>

\* It is not: Close, with the reason.
DialFails(c) ==
    /\ handle[c] = "dial"
    /\ handle' = [handle EXCEPT ![c] = "returned"]
    /\ UNCHANGED <<supervisorVars, parentVars, poll, wire, busVars, stream, owner, gauge, torVars, lost, faults>>

\* An egressEnd of the wrong service.
ReturnsPlain(c) ==
    /\ handle[c] = "relay" /\ stream[c] \in {"relaying", "over"}
    /\ handle' = [handle EXCEPT ![c] = "returned"]
    /\ gauge' = [gauge EXCEPT !["proxy"] = @ - 1]
    /\ UNCHANGED <<supervisorVars, parentVars, poll, wire, busVars, stream, owner, torVars, lost, faults>>

\* The stream is over, or the client has closed it, or the target does not take what
\* it is sent: the deferred egressEnd.
Returns(c) ==
    /\ handle[c] = "relay" /\ stream[c] \in {"relaying", "over"}
    /\ handle' = [handle EXCEPT ![c] = "returned"]
    /\ gauge' = [gauge EXCEPT ![Service(c)] = @ - 1]
    /\ UNCHANGED <<supervisorVars, parentVars, poll, wire, busVars, stream, owner, torVars, lost, faults>>

---------------------------------------------------------------------------
(* The parent's EgressStream handler. *)

\* takePending: whoever waits under the conn_id of the first frame.
Accepts(c) ==
    /\ stream[c] = "announced"
    /\ IF cid[c] \in DOMAIN pending
         THEN /\ stream' = [stream EXCEPT ![c] = "relaying"]
              /\ owner' = [owner EXCEPT ![c] = pending[cid[c]]]
         ELSE stream' = [stream EXCEPT ![c] = "over"] /\ UNCHANGED owner
    /\ pending' = Without(pending, cid[c])
    /\ UNCHANGED <<supervisorVars, front, connSeq, cid, poll, wire, busVars, handle, gauge, torVars, lost, faults>>

\* The relay ends: Close from the agent or from the client, or the stream breaks.
RelayEnds(c) ==
    /\ stream[c] = "relaying"
    /\ stream' = [stream EXCEPT ![c] = "over"]
    /\ UNCHANGED <<supervisorVars, parentVars, poll, wire, busVars, handle, owner, gauge, torVars, lost, faults>>

\* The stream breaks, or the context of handle is over, before the parent has read the
\* first frame: it never hears of the client.
BreaksUnread(c) ==
    /\ stream[c] = "announced"
    /\ (ctx = "cancelled" /\ UNCHANGED faults) \/ Fault
    /\ stream' = [stream EXCEPT ![c] = "over"]
    /\ lost' = lost \cup {c}
    /\ UNCHANGED <<supervisorVars, parentVars, poll, wire, busVars, handle, owner, gauge, torVars>>

---------------------------------------------------------------------------
(* rotateTor, and the counter. *)

\* A step before the last fails: the cookie, the dial, AUTHENTICATE.
RotateFails(r) ==
    /\ rot[r] = "run"
    /\ rot' = [rot EXCEPT ![r] = "failed"]
    /\ UNCHANGED <<supervisorVars, parentVars, poll, wire, busVars, relayVars, newnyms, counted, lost, faults>>

\* tor executes SIGNAL NEWNYM; its 250 may come too late or not at all.
Newnym(r) ==
    /\ rot[r] = "run"
    /\ newnyms' = newnyms + 1
    /\ \E outcome \in {"count", "failed"} : rot' = [rot EXCEPT ![r] = outcome]
    /\ UNCHANGED <<supervisorVars, parentVars, poll, wire, busVars, relayVars, counted, lost, faults>>

\* egress_rotations, if the store is still open; it waits for a disk that hangs.
CountsRotation(r) ==
    /\ rot[r] = "count" /\ disk = "answers"
    /\ rot' = [rot EXCEPT ![r] = "done"]
    /\ counted' = IF StoreOpen THEN counted + 1 ELSE counted
    /\ UNCHANGED <<supervisorVars, parentVars, poll, wire, busVars, relayVars, newnyms, lost, faults>>

---------------------------------------------------------------------------
(* The process. *)

Others == <<parentVars, poll, wire, busVars, relayVars, torVars, lost, faults>>

\* The end of the process ends its connections and its goroutines.
ProcessEnds ==
    /\ Exits
    /\ handle' = [c \in Clients |-> IF handle[c] = "none" THEN "none" ELSE "returned"]
    /\ stream' = [c \in Clients |-> IF stream[c] = "none" THEN "none" ELSE "over"]
    /\ rot' = [r \in Rotations |-> IF rot[r] \in {"none", "done"} THEN rot[r] ELSE "failed"]
    /\ bus' = [t \in Topics |-> <<>>] /\ wire' = <<>> /\ poll' = "none"
    /\ gauge' = [s \in Services |-> 0]
    /\ UNCHANGED <<parentVars, subs, owner, newnyms, counted, lost, faults>>

MainStep ==
    \/ Opens /\ UNCHANGED Others
    \/ \E w \in Workers : Initialise(w)
    \/ StartWorkers /\ UNCHANGED Others
    \/ Drain /\ UNCHANGED Others
    \/ Drained /\ UNCHANGED Others
    \/ ShutdownLimit /\ UNCHANGED Others
    \/ Closes /\ UNCHANGED Others
    \/ ProcessEnds

Supervises(w) == (CallRun(w) \/ BackoffEnds(w) \/ RunResumes(w)) /\ UNCHANGED Others

\* The tunnel worker writes before it opens its stream.
Stalls ==
    /\ DiskHangs \/ DiskAnswers \/ \E w \in Workers : RunHangs(w) /\ poll = "none"
    /\ UNCHANGED Others

TunnelStep == Connects \/ SessionEnds \/ HandleCommand
ProxyStep  == TakesEgress \/ TakesRotate \/ ProxyStops
Handshake(c) == HandleSocks(c) \/ HandleConnect(c)
Front(c)   == NoChild(c) \/ Register(c) \/ Push(c) \/ PushFails(c)
HandleStep(c) == Announces(c) \/ Dials(c) \/ DialFails(c)
RotateStep(r) == RotateFails(r) \/ Newnym(r) \/ CountsRotation(r)

Next ==
    \/ MainStep \/ TunnelStep \/ ProxyStep \/ Breaks
    \/ OpenFails /\ UNCHANGED Others
    \/ Sigterm /\ Fault /\ UNCHANGED <<parentVars, poll, wire, busVars, relayVars, torVars, lost>>
    \/ Stalls
    \/ \E w \in Workers : Supervises(w)
    \/ \E c \in Clients :
         \/ Handshake(c) \/ Front(c) \/ HandleStep(c) \/ AnnounceFails(c) \/ Returns(c)
         \/ Accepts(c) \/ RelayEnds(c) \/ BreaksUnread(c)
    \/ \E r \in Rotations : ParentRotates(r) \/ RotateStep(r)

Spec == Init /\ [][Next]_vars

\* Goroutines go on, dials and timers end.  Faults, SIGTERM, the disk, clients and
\* targets owe nothing.
FairSpec ==
    /\ Spec
    /\ WF_vars(MainStep) /\ WF_vars(TunnelStep)
    /\ WF_vars(TakesEgress) /\ WF_vars(TakesRotate) /\ WF_vars(ProxyStops)
    /\ \A w \in Workers : WF_vars(Supervises(w))
    /\ \A c \in Clients :
         WF_vars(Front(c)) /\ WF_vars(HandleStep(c)) /\ WF_vars(Accepts(c))
    /\ \A r \in Rotations : WF_vars(RotateStep(r))

---------------------------------------------------------------------------
(* Properties. *)

Waits(c) == \E n \in DOMAIN pending : pending[n] = c

\* A client that was registered and told to go on is taken by a stream or closed,
\* unless its command or its stream was lost to a break or to a full channel of the
\* bus, or the agent stops (parent-stub main.go:176: nothing else takes it out of
\* s.pending): no command falls between the Init and the Run of two workers
\* (bus.go:2, "Abonnement uniquement dans Worker.Init()").
ClientsServedOrLost ==
    \A c \in Clients : Waits(c) ~> (~Waits(c) \/ c \in lost \/ ctx = "cancelled")

\* Whatever waits, breaks and reconnects, a stream relays the client whose command
\* opened it, and no other stream does (parent-stub main.go:152-176).
OwnStream ==
    \A c \in Clients : owner[c] \in {Nobody, c}

\* What the agent reports of itself: a service counts its relays, also those that
\* ended in the middle (sysload.go:22-46); rotations are counted only when tor has
\* made them (proxy.go:75-79).
FiguresTrue ==
    /\ \A s \in Services : gauge[s] = Cardinality({c \in Clients : Service(c) = s /\ handle[c] = "relay"})
    /\ counted <= newnyms

\* After SIGTERM the supervisor returns, also when a worker does not ("R12",
\* supervisor.go:64), and the process ends, unless a transaction of the store is
\* under way for ever: then main is in st.Close (main.go:52), after all else.
StopEnds ==
    (ctx = "cancelled") ~> (main = "exited" \/ (main = "close" /\ disk = "hangs"))
=============================================================================
