---------------------------- MODULE TunnelSession ----------------------------
(***************************************************************************)
(* The control channel to the parent: internal/worker/tunnel.go under the  *)
(* supervisor of internal/mop/supervisor.go, with Heartbeat and Poll of    *)
(* internal/tunnel/client.go, and the parent's PollCommand handler of      *)
(* cmd/parent-stub/main.go.                                                *)
(*                                                                         *)
(* A session is one call of TunnelWorker.session: a heartbeat goroutine, a *)
(* poll goroutine and a buffered error channel.  The session returns with  *)
(* the first error; its goroutines end later, on the cancelled context.    *)
(* The supervisor then starts the next session, so goroutines of an ended  *)
(* session and handlers of its stream still run beside the new ones.       *)
(*                                                                         *)
(* Left out: what a heartbeat carries and the cadence the parent dictates, *)
(* the store's counters and events (best effort), commands other than by   *)
(* their number.                                                           *)
(***************************************************************************)
EXTENDS Naturals, Sequences, FiniteSets

CONSTANTS MaxFailures,   \* bound: RPCs that fail and streams that break
          MaxCommands    \* bound: commands the parent sends

ASSUME TunnelAssumption == MaxFailures \in Nat /\ MaxCommands \in Nat

VARIABLES
    ctx,        \* the process's context: "live" or "cancelled"
    sup,        \* superviseRun of the tunnel worker: [pc, backoff]
    ses,        \* ses[s]: the s-th session and its stream
    child,      \* the parent: the session whose stream is s.child, 0 for nil
    latest,     \* history: the stream that was registered last
    sent,       \* the parent: how many commands it has sent
    handled,    \* history: the commands handled, in order, with their session
    failures    \* how many failures there were

vars == <<ctx, sup, ses, child, latest, sent, handled, failures>>

Sessions == DOMAIN ses

\* hb: the heartbeat goroutine; poll: the poll goroutine, cmd the command it has
\* received; errs: what is in errCh; handler, broken, buffer: the PollCommand
\* stream, at the parent and in between.
NewSession ==
    [cancelled |-> FALSE, hb |-> "send", poll |-> "open", cmd |-> 0, errs |-> 0,
     handler |-> "none", broken |-> FALSE, buffer |-> <<>>]

Init ==
    /\ ctx = "live"
    /\ sup = [pc |-> "run", backoff |-> 1]
    /\ ses = <<>>
    /\ child = 0 /\ latest = 0
    /\ sent = 0
    /\ handled = <<>>
    /\ failures = 0

\* The context of a session derives from the process's.
Cancelled(s) == ses[s].cancelled \/ ctx = "cancelled"

\* An RPC fails at once on a cancelled context, and otherwise now and then.
Fails(s) ==
    \/ Cancelled(s) /\ UNCHANGED failures
    \/ ~Cancelled(s) /\ failures < MaxFailures /\ failures' = failures + 1

Set(s, field, value) == ses' = [ses EXCEPT ![s][field] = value]

---------------------------------------------------------------------------
(* The supervisor and session. *)

\* superviseRun calls Run, which starts the two goroutines.
StartSession ==
    /\ sup.pc = "run" /\ ctx = "live"
    /\ ses' = Append(ses, NewSession)
    /\ sup' = [sup EXCEPT !.pc = "session"]
    /\ UNCHANGED <<ctx, child, latest, sent, handled, failures>>

Current == Len(ses)

\* A session without its deferred cancel.
SessionFailsUncancelled ==
    /\ sup.pc = "session" /\ ses[Current].errs > 0
    /\ Set(Current, "errs", ses[Current].errs - 1)
    /\ sup' = [sup EXCEPT !.pc = IF ctx = "live" THEN "backoff" ELSE "returned"]
    /\ UNCHANGED <<ctx, child, latest, sent, handled, failures>>

\* The first error ends the session; the deferred cancel tells its goroutines.
SessionFails ==
    /\ sup.pc = "session" /\ ses[Current].errs > 0
    /\ ses' = [ses EXCEPT ![Current].errs = @ - 1, ![Current].cancelled = TRUE]
    /\ sup' = [sup EXCEPT !.pc = IF ctx = "live" THEN "backoff" ELSE "returned"]
    /\ UNCHANGED <<ctx, child, latest, sent, handled, failures>>

SessionStops ==
    /\ sup.pc = "session" /\ ctx = "cancelled"
    /\ Set(Current, "cancelled", TRUE)
    /\ sup' = [sup EXCEPT !.pc = "returned"]
    /\ UNCHANGED <<ctx, child, latest, sent, handled, failures>>

MaxBackoff == 30

\* A supervisor that starts again at once.
NoBackoff(backoff) == 0

Doubled(backoff) == IF 2 * backoff > MaxBackoff THEN MaxBackoff ELSE 2 * backoff

\* The backoff doubles after each session and is never reset.
BackoffEnds ==
    /\ sup.pc = "backoff" /\ ctx = "live"
    /\ sup' = [pc |-> "run", backoff |-> Doubled(sup.backoff)]
    /\ UNCHANGED <<ctx, ses, child, latest, sent, handled, failures>>

SupervisorStops ==
    /\ sup.pc \in {"run", "backoff"} /\ ctx = "cancelled"
    /\ sup' = [sup EXCEPT !.pc = "returned"]
    /\ UNCHANGED <<ctx, ses, child, latest, sent, handled, failures>>

---------------------------------------------------------------------------
(* The heartbeat goroutine. *)

\* A channel that holds one error.
ErrRoomForOne(s) == ses[s].errs < 1

\* errCh has room for the error of either goroutine.
ErrRoom(s) == ses[s].errs < 2

HeartbeatOk(s) ==
    /\ ses[s].hb = "send" /\ ~Cancelled(s)
    /\ Set(s, "hb", "wait")
    /\ UNCHANGED <<ctx, sup, child, latest, sent, handled, failures>>

HeartbeatFails(s) ==
    /\ ses[s].hb = "send" /\ Fails(s)
    /\ Set(s, "hb", "post")
    /\ UNCHANGED <<ctx, sup, child, latest, sent, handled>>

\* The ticker; the select may prefer it to the cancelled context.
HeartbeatTick(s) ==
    /\ ses[s].hb = "wait"
    /\ Set(s, "hb", "send")
    /\ UNCHANGED <<ctx, sup, child, latest, sent, handled, failures>>

HeartbeatStops(s) ==
    /\ ses[s].hb = "wait" /\ Cancelled(s)
    /\ Set(s, "hb", "done")
    /\ UNCHANGED <<ctx, sup, child, latest, sent, handled, failures>>

HeartbeatPosts(s) ==
    /\ ses[s].hb = "post" /\ ErrRoom(s)
    /\ ses' = [ses EXCEPT ![s].hb = "done", ![s].errs = @ + 1]
    /\ UNCHANGED <<ctx, sup, child, latest, sent, handled, failures>>

---------------------------------------------------------------------------
(* The poll goroutine and its stream. *)

PollOpens(s) ==
    /\ ses[s].poll = "open" /\ ~Cancelled(s)
    /\ Set(s, "poll", "recv")
    /\ UNCHANGED <<ctx, sup, child, latest, sent, handled, failures>>

PollOpenFails(s) ==
    /\ ses[s].poll = "open" /\ Fails(s)
    /\ Set(s, "poll", "post")
    /\ UNCHANGED <<ctx, sup, child, latest, sent, handled>>

\* The connection breaks under an open stream.
StreamBreaks(s) ==
    /\ ses[s].poll \in {"recv", "handle"} /\ ~ses[s].broken
    /\ failures < MaxFailures /\ failures' = failures + 1
    /\ Set(s, "broken", TRUE)
    /\ UNCHANGED <<ctx, sup, child, latest, sent, handled>>

\* A poll that handles each command in a goroutine of its own.
PollRecvAnyOrder(s) ==
    /\ ses[s].poll = "recv"
    /\ \E i \in DOMAIN ses[s].buffer :
         ses' = [ses EXCEPT ![s].poll = "handle", ![s].cmd = ses[s].buffer[i],
                            ![s].buffer = SelectSeq(@, LAMBDA c : c /= ses[s].buffer[i])]
    /\ UNCHANGED <<ctx, sup, child, latest, sent, handled, failures>>

\* Recv returns a command; what has arrived may still be returned after the
\* stream has failed or was cancelled.
PollRecv(s) ==
    /\ ses[s].poll = "recv" /\ ses[s].buffer /= <<>>
    /\ ses' = [ses EXCEPT ![s].poll = "handle", ![s].cmd = Head(ses[s].buffer),
                          ![s].buffer = Tail(@)]
    /\ UNCHANGED <<ctx, sup, child, latest, sent, handled, failures>>

\* A poll that ends in silence when its stream does.
PollRecvFailsSilently(s) ==
    /\ ses[s].poll = "recv" /\ (ses[s].broken \/ Cancelled(s))
    /\ Set(s, "poll", "done")
    /\ UNCHANGED <<ctx, sup, child, latest, sent, handled, failures>>

PollRecvFails(s) ==
    /\ ses[s].poll = "recv" /\ (ses[s].broken \/ Cancelled(s))
    /\ Set(s, "poll", "post")
    /\ UNCHANGED <<ctx, sup, child, latest, sent, handled, failures>>

\* onCommand, whatever became of the session meanwhile.
HandleCommand(s) ==
    /\ ses[s].poll = "handle"
    /\ handled' = Append(handled, [cmd |-> ses[s].cmd, session |-> s])
    /\ ses' = [ses EXCEPT ![s].poll = "recv", ![s].cmd = 0]
    /\ UNCHANGED <<ctx, sup, child, latest, sent, failures>>

PollPosts(s) ==
    /\ ses[s].poll = "post" /\ ErrRoom(s)
    /\ ses' = [ses EXCEPT ![s].poll = "done", ![s].errs = @ + 1]
    /\ UNCHANGED <<ctx, sup, child, latest, sent, handled, failures>>

---------------------------------------------------------------------------
(* The parent. *)

\* PollCommand of the parent starts for a stream, perhaps one that the child has
\* given up already.
HandlerStarts(s) ==
    /\ ses[s].poll \notin {"open"} /\ ses[s].handler = "none"
    /\ Set(s, "handler", "serving")
    /\ child' = s /\ latest' = s
    /\ UNCHANGED <<ctx, sup, sent, handled, failures>>

StreamOver(s) == ses[s].broken \/ ses[s].poll \in {"post", "done"} \/ Cancelled(s)

\* A handler that clears the registration whoever holds it.
HandlerEndsBlindly(s) ==
    /\ ses[s].handler = "serving" /\ StreamOver(s)
    /\ Set(s, "handler", "over")
    /\ child' = 0
    /\ UNCHANGED <<ctx, sup, latest, sent, handled, failures>>

\* The context of the stream is done: the handler clears its own registration.
HandlerEnds(s) ==
    /\ ses[s].handler = "serving" /\ StreamOver(s)
    /\ Set(s, "handler", "over")
    /\ child' = IF child = s THEN 0 ELSE child
    /\ UNCHANGED <<ctx, sup, latest, sent, handled, failures>>

\* A command is written to a stream that was registered: the pings of a handler go
\* to its own, openEgress uses the child it read before.  It is lost if that
\* stream is over.
ParentSends(s) ==
    /\ ses[s].handler /= "none" /\ sent < MaxCommands
    /\ sent' = sent + 1
    /\ ses' = IF StreamOver(s) \/ ses[s].handler = "over" THEN ses
              ELSE [ses EXCEPT ![s].buffer = Append(@, sent')]
    /\ UNCHANGED <<ctx, sup, child, latest, handled, failures>>

Sigterm ==
    /\ ctx = "live"
    /\ ctx' = "cancelled"
    /\ UNCHANGED <<sup, ses, child, latest, sent, handled, failures>>

---------------------------------------------------------------------------
Supervise == StartSession \/ SessionFails \/ SessionStops \/ BackoffEnds \/ SupervisorStops

Heartbeats(s) ==
    HeartbeatOk(s) \/ HeartbeatFails(s) \/ HeartbeatTick(s) \/ HeartbeatStops(s) \/ HeartbeatPosts(s)

Polls(s) ==
    PollOpens(s) \/ PollOpenFails(s) \/ PollRecv(s) \/ PollRecvFails(s) \/ HandleCommand(s) \/ PollPosts(s)

Next ==
    \/ Supervise
    \/ \E s \in Sessions : Heartbeats(s) \/ Polls(s) \/ StreamBreaks(s)
    \/ \E s \in Sessions : HandlerStarts(s) \/ HandlerEnds(s) \/ ParentSends(s)
    \/ Sigterm

Spec == Init /\ [][Next]_vars

SessionNumbers == 1 .. MaxFailures + 1

On(s, A) == s \in Sessions /\ A

\* Goroutines and handlers run, a backoff of at most 30 s ends.  Nothing is owed by
\* failures, SIGTERM or the parent's commands.
FairSpec ==
    /\ Spec
    /\ WF_vars(Supervise)
    /\ \A s \in SessionNumbers :
         /\ WF_vars(On(s, Heartbeats(s)))
         /\ WF_vars(On(s, Polls(s)))
         /\ WF_vars(On(s, HandlerStarts(s) \/ HandlerEnds(s)))

---------------------------------------------------------------------------
(* Properties. *)

SessionType ==
    [cancelled : BOOLEAN, hb : {"send", "wait", "post", "done"},
     poll : {"open", "recv", "handle", "post", "done"}, cmd : 0 .. MaxCommands,
     errs : 0 .. 2, handler : {"none", "serving", "over"}, broken : BOOLEAN,
     buffer : Seq(1 .. MaxCommands)]

\* The types of the state (TunnelWorker, and the locals of session); a session that
\* ends by an error has used up a failure.
TypeOK ==
    /\ ctx \in {"live", "cancelled"}
    /\ sup \in [pc : {"run", "session", "backoff", "returned"}, backoff : 1 .. MaxBackoff]
    /\ ses \in Seq(SessionType) /\ Sessions \subseteq SessionNumbers
    /\ child \in {0} \cup Sessions /\ latest \in {0} \cup Sessions
    /\ sent \in 0 .. MaxCommands /\ failures \in 0 .. MaxFailures
    /\ handled \in Seq([cmd : 1 .. MaxCommands, session : SessionNumbers])

\* Only the last session is ever live, and none is while the supervisor waits
\* (tunnel.go:66-67, supervisor.go:78-99). The poll goroutine of one that ended may still receive what
\* its stream has buffered: InversionsAreStale says what may come of that.
OneSession ==
    \A s \in Sessions :
        ~ses[s].cancelled => s = Current /\ sup.pc = "session"

\* While the handler that registered last is serving, it is the registered one:
\* an older handler that ends late does not unregister it (parent-stub main.go:82).
LatestIsChild ==
    latest /= 0 /\ ses[latest].handler = "serving" => child = latest

\* Commands are handled in the order they were sent, once each, except that the poll
\* goroutine of an earlier session may hand one over after a later session has
\* (client.go:190-196: nothing looks at the session before onCommand).
InversionsAreStale ==
    \A i, j \in DOMAIN handled :
        i < j => /\ handled[i].cmd /= handled[j].cmd
                 /\ handled[i].cmd > handled[j].cmd => handled[j].session < handled[i].session

\* Both goroutines of an ended session end: neither waits for ever on errCh
\* (tunnel.go:69, a buffer of two).
GoroutinesEnd ==
    \A s \in SessionNumbers :
        On(s, Cancelled(s)) ~> On(s, ses[s].hb = "done" /\ ses[s].poll = "done")

\* Unless it is stopped, the agent has a served stream again after every failure
\* ("D-13 : declenche reconnexion", client.go:193).
Connected ==
    /\ sup.pc = "session"
    /\ ses[Current].handler = "serving" /\ ses[Current].poll = "recv" /\ ~ses[Current].broken

Reconnects == []<>(Connected \/ ctx = "cancelled")
=============================================================================
