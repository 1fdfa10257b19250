------------------------- MODULE TunnelSessionProofs -------------------------
(***************************************************************************)
(* Proofs about TunnelSession, for every number of failures and commands,  *)
(* and about the load figures of its heartbeats (SysLoad), for counters of *)
(* any width.                                                              *)
(***************************************************************************)
EXTENDS TunnelSession, SysLoad, SequenceTheorems, TLAPS

Trouble(r) == r.hb = "post" \/ r.poll = "post" \/ r.broken \/ r.errs > 0

\* The steps of a session that concern neither commands nor the parent's handler.
QuietStep(s) ==
    Heartbeats(s) \/ PollOpens(s) \/ PollOpenFails(s) \/ PollRecvFails(s) \/ PollPosts(s)
      \/ StreamBreaks(s)

\* What TypeOK says of one session.
LEMMA SessionTyped ==
    ASSUME TypeOK, NEW s \in Sessions
    PROVE  /\ ses[s] \in SessionType
           /\ s \in Nat \ {0} /\ s <= Len(ses)
           /\ Sessions = 1 .. Len(ses) /\ Len(ses) \in Nat
  BY LenProperties, ElementOfSeq DEF TypeOK, Sessions

\* One session changes, the others do not.
LEMMA Update ==
    ASSUME TypeOK, NEW s \in Sessions, NEW rec \in SessionType, ses' = [ses EXCEPT ![s] = rec]
    PROVE  /\ ses' \in Seq(SessionType) /\ Len(ses') = Len(ses) /\ Sessions' = Sessions
           /\ ses'[s] = rec /\ \A t \in Sessions \ {s} : ses'[t] = ses[t]
<1>1. ses \in Seq(SessionType) /\ s \in 1 .. Len(ses) /\ Sessions = 1 .. Len(ses)
  BY SessionTyped DEF TypeOK
<1>2. /\ ses' \in Seq(SessionType) /\ Len(ses') = Len(ses)
      /\ \A t \in 1 .. Len(ses) : ses'[t] = IF t = s THEN rec ELSE ses[t]
  BY <1>1, ExceptSeq
<1>3. Sessions' = 1 .. Len(ses')
  BY <1>2, LenProperties DEF Sessions
<1> QED
  BY <1>1, <1>2, <1>3

\* A quiet step changes no command and no handler, and trouble costs a failure, unless
\* the session is over (tunnel.go:72-113, client.go:139-197).
LEMMA QuietEffect ==
    ASSUME TypeOK, NEW s \in Sessions, QuietStep(s)
    PROVE  \E rec \in SessionType :
             /\ ses' = [ses EXCEPT ![s] = rec]
             /\ rec.cancelled = ses[s].cancelled /\ rec.handler = ses[s].handler
             /\ rec.cmd = ses[s].cmd /\ rec.buffer = ses[s].buffer
             /\ rec.poll = "handle" <=> ses[s].poll = "handle"
             /\ failures' \in failures .. MaxFailures
             /\ Trouble(rec) => Trouble(ses[s]) \/ Cancelled(s) \/ failures' = failures + 1
             /\ UNCHANGED <<ctx, sup, child, latest, sent, handled>>
<1> DEFINE r == ses[s]
           Good(rec) ==
             /\ ses' = [ses EXCEPT ![s] = rec]
             /\ rec.cancelled = r.cancelled /\ rec.handler = r.handler
             /\ rec.cmd = r.cmd /\ rec.buffer = r.buffer
             /\ rec.poll = "handle" <=> r.poll = "handle"
             /\ failures' \in failures .. MaxFailures
             /\ Trouble(rec) => Trouble(r) \/ Cancelled(s) \/ failures' = failures + 1
             /\ UNCHANGED <<ctx, sup, child, latest, sent, handled>>
<1> SUFFICES \E rec \in SessionType : Good(rec)
  OBVIOUS
<1>0. r \in SessionType /\ failures \in Nat /\ MaxFailures \in Nat /\ failures <= MaxFailures
  BY SessionTyped, TunnelAssumption DEF TypeOK
<1>1. CASE HeartbeatOk(s)
  <2> DEFINE rec == [r EXCEPT !.hb = "wait"]
  <2>1. ses' = [ses EXCEPT ![s] = rec] /\ UNCHANGED <<ctx, sup, child, latest, sent, handled>>
    BY <1>1 DEF HeartbeatOk, Set
  <2>2. failures' \in failures .. MaxFailures
    BY <1>0, <1>1 DEF HeartbeatOk
  <2>3. /\ rec \in SessionType /\ rec.cancelled = r.cancelled /\ rec.handler = r.handler
        /\ rec.cmd = r.cmd /\ rec.buffer = r.buffer
        /\ rec.poll = "handle" <=> r.poll = "handle"
    BY <1>0, <1>1 DEF HeartbeatOk, SessionType
  <2>4. Trouble(rec) => Trouble(r) \/ Cancelled(s) \/ failures' = failures + 1
    BY <1>0, <1>1 DEF HeartbeatOk, SessionType, Trouble
  <2> QED
    BY <2>1, <2>2, <2>3, <2>4
<1>2. CASE HeartbeatFails(s)
  <2> DEFINE rec == [r EXCEPT !.hb = "post"]
  <2>1. ses' = [ses EXCEPT ![s] = rec] /\ UNCHANGED <<ctx, sup, child, latest, sent, handled>>
    BY <1>2 DEF HeartbeatFails, Set
  <2>2. failures' \in failures .. MaxFailures
    BY <1>0, <1>2 DEF HeartbeatFails, Fails
  <2>3. /\ rec \in SessionType /\ rec.cancelled = r.cancelled /\ rec.handler = r.handler
        /\ rec.cmd = r.cmd /\ rec.buffer = r.buffer
        /\ rec.poll = "handle" <=> r.poll = "handle"
    BY <1>0, <1>2 DEF HeartbeatFails, SessionType
  <2>4. Trouble(rec) => Trouble(r) \/ Cancelled(s) \/ failures' = failures + 1
    BY <1>0, <1>2 DEF HeartbeatFails, SessionType, Trouble, Fails
  <2> QED
    BY <2>1, <2>2, <2>3, <2>4
<1>3. CASE HeartbeatTick(s)
  <2> DEFINE rec == [r EXCEPT !.hb = "send"]
  <2>1. ses' = [ses EXCEPT ![s] = rec] /\ UNCHANGED <<ctx, sup, child, latest, sent, handled>>
    BY <1>3 DEF HeartbeatTick, Set
  <2>2. failures' \in failures .. MaxFailures
    BY <1>0, <1>3 DEF HeartbeatTick
  <2>3. /\ rec \in SessionType /\ rec.cancelled = r.cancelled /\ rec.handler = r.handler
        /\ rec.cmd = r.cmd /\ rec.buffer = r.buffer
        /\ rec.poll = "handle" <=> r.poll = "handle"
    BY <1>0, <1>3 DEF HeartbeatTick, SessionType
  <2>4. Trouble(rec) => Trouble(r) \/ Cancelled(s) \/ failures' = failures + 1
    BY <1>0, <1>3 DEF HeartbeatTick, SessionType, Trouble
  <2> QED
    BY <2>1, <2>2, <2>3, <2>4
<1>4. CASE HeartbeatStops(s)
  <2> DEFINE rec == [r EXCEPT !.hb = "done"]
  <2>1. ses' = [ses EXCEPT ![s] = rec] /\ UNCHANGED <<ctx, sup, child, latest, sent, handled>>
    BY <1>4 DEF HeartbeatStops, Set
  <2>2. failures' \in failures .. MaxFailures
    BY <1>0, <1>4 DEF HeartbeatStops
  <2>3. /\ rec \in SessionType /\ rec.cancelled = r.cancelled /\ rec.handler = r.handler
        /\ rec.cmd = r.cmd /\ rec.buffer = r.buffer
        /\ rec.poll = "handle" <=> r.poll = "handle"
    BY <1>0, <1>4 DEF HeartbeatStops, SessionType
  <2>4. Trouble(rec) => Trouble(r) \/ Cancelled(s) \/ failures' = failures + 1
    BY <1>0, <1>4 DEF HeartbeatStops, SessionType, Trouble
  <2> QED
    BY <2>1, <2>2, <2>3, <2>4
<1>5. CASE HeartbeatPosts(s)
  <2> DEFINE rec == [r EXCEPT !.hb = "done", !.errs = @ + 1]
  <2>1. ses' = [ses EXCEPT ![s] = rec] /\ UNCHANGED <<ctx, sup, child, latest, sent, handled>>
    BY <1>5 DEF HeartbeatPosts
  <2>2. failures' \in failures .. MaxFailures
    BY <1>0, <1>5 DEF HeartbeatPosts
  <2>3. /\ rec \in SessionType /\ rec.cancelled = r.cancelled /\ rec.handler = r.handler
        /\ rec.cmd = r.cmd /\ rec.buffer = r.buffer
        /\ rec.poll = "handle" <=> r.poll = "handle"
    <3>1. r.errs + 1 \in 0 .. 2
      BY <1>0, <1>5 DEF HeartbeatPosts, ErrRoom, SessionType
    <3>2. rec \in SessionType
      BY <1>0, <3>1, Zenon DEF SessionType
    <3> QED
      BY <1>0, <1>5, <3>2 DEF HeartbeatPosts, SessionType
  <2>4. Trouble(rec) => Trouble(r) \/ Cancelled(s) \/ failures' = failures + 1
    BY <1>0, <1>5 DEF HeartbeatPosts, SessionType, Trouble
  <2> QED
    BY <2>1, <2>2, <2>3, <2>4
<1>6. CASE PollOpens(s)
  <2> DEFINE rec == [r EXCEPT !.poll = "recv"]
  <2>1. ses' = [ses EXCEPT ![s] = rec] /\ UNCHANGED <<ctx, sup, child, latest, sent, handled>>
    BY <1>6 DEF PollOpens, Set
  <2>2. failures' \in failures .. MaxFailures
    BY <1>0, <1>6 DEF PollOpens
  <2>3. /\ rec \in SessionType /\ rec.cancelled = r.cancelled /\ rec.handler = r.handler
        /\ rec.cmd = r.cmd /\ rec.buffer = r.buffer
        /\ rec.poll = "handle" <=> r.poll = "handle"
    BY <1>0, <1>6 DEF PollOpens, SessionType
  <2>4. Trouble(rec) => Trouble(r) \/ Cancelled(s) \/ failures' = failures + 1
    BY <1>0, <1>6 DEF PollOpens, SessionType, Trouble
  <2> QED
    BY <2>1, <2>2, <2>3, <2>4
<1>7. CASE PollOpenFails(s)
  <2> DEFINE rec == [r EXCEPT !.poll = "post"]
  <2>1. ses' = [ses EXCEPT ![s] = rec] /\ UNCHANGED <<ctx, sup, child, latest, sent, handled>>
    BY <1>7 DEF PollOpenFails, Set
  <2>2. failures' \in failures .. MaxFailures
    BY <1>0, <1>7 DEF PollOpenFails, Fails
  <2>3. /\ rec \in SessionType /\ rec.cancelled = r.cancelled /\ rec.handler = r.handler
        /\ rec.cmd = r.cmd /\ rec.buffer = r.buffer
        /\ rec.poll = "handle" <=> r.poll = "handle"
    BY <1>0, <1>7 DEF PollOpenFails, SessionType
  <2>4. Trouble(rec) => Trouble(r) \/ Cancelled(s) \/ failures' = failures + 1
    BY <1>0, <1>7 DEF PollOpenFails, SessionType, Trouble, Fails
  <2> QED
    BY <2>1, <2>2, <2>3, <2>4
<1>8. CASE PollRecvFails(s)
  <2> DEFINE rec == [r EXCEPT !.poll = "post"]
  <2>1. ses' = [ses EXCEPT ![s] = rec] /\ UNCHANGED <<ctx, sup, child, latest, sent, handled>>
    BY <1>8 DEF PollRecvFails, Set
  <2>2. failures' \in failures .. MaxFailures
    BY <1>0, <1>8 DEF PollRecvFails
  <2>3. /\ rec \in SessionType /\ rec.cancelled = r.cancelled /\ rec.handler = r.handler
        /\ rec.cmd = r.cmd /\ rec.buffer = r.buffer
        /\ rec.poll = "handle" <=> r.poll = "handle"
    BY <1>0, <1>8 DEF PollRecvFails, SessionType
  <2>4. Trouble(rec) => Trouble(r) \/ Cancelled(s) \/ failures' = failures + 1
    BY <1>0, <1>8 DEF PollRecvFails, SessionType, Trouble
  <2> QED
    BY <2>1, <2>2, <2>3, <2>4
<1>9. CASE PollPosts(s)
  <2> DEFINE rec == [r EXCEPT !.poll = "done", !.errs = @ + 1]
  <2>1. ses' = [ses EXCEPT ![s] = rec] /\ UNCHANGED <<ctx, sup, child, latest, sent, handled>>
    BY <1>9 DEF PollPosts
  <2>2. failures' \in failures .. MaxFailures
    BY <1>0, <1>9 DEF PollPosts
  <2>3. /\ rec \in SessionType /\ rec.cancelled = r.cancelled /\ rec.handler = r.handler
        /\ rec.cmd = r.cmd /\ rec.buffer = r.buffer
        /\ rec.poll = "handle" <=> r.poll = "handle"
    <3>1. r.errs + 1 \in 0 .. 2
      BY <1>0, <1>9 DEF PollPosts, ErrRoom, SessionType
    <3>2. rec \in SessionType
      BY <1>0, <3>1, Zenon DEF SessionType
    <3> QED
      BY <1>0, <1>9, <3>2 DEF PollPosts, SessionType
  <2>4. Trouble(rec) => Trouble(r) \/ Cancelled(s) \/ failures' = failures + 1
    BY <1>0, <1>9 DEF PollPosts, SessionType, Trouble
  <2> QED
    BY <2>1, <2>2, <2>3, <2>4
<1>10. CASE StreamBreaks(s)
  <2> DEFINE rec == [r EXCEPT !.broken = TRUE]
  <2>1. ses' = [ses EXCEPT ![s] = rec] /\ UNCHANGED <<ctx, sup, child, latest, sent, handled>>
    BY <1>10 DEF StreamBreaks, Set
  <2>2. failures' \in failures .. MaxFailures
    BY <1>0, <1>10 DEF StreamBreaks
  <2>3. /\ rec \in SessionType /\ rec.cancelled = r.cancelled /\ rec.handler = r.handler
        /\ rec.cmd = r.cmd /\ rec.buffer = r.buffer
        /\ rec.poll = "handle" <=> r.poll = "handle"
    BY <1>0, <1>10 DEF StreamBreaks, SessionType
  <2>4. Trouble(rec) => Trouble(r) \/ Cancelled(s) \/ failures' = failures + 1
    BY <1>0, <1>10 DEF StreamBreaks, SessionType, Trouble
  <2> QED
    BY <2>1, <2>2, <2>3, <2>4
<1> QED
  BY <1>1, <1>2, <1>3, <1>4, <1>5, <1>6, <1>7, <1>8, <1>9, <1>10 DEF QuietStep, Heartbeats

---------------------------------------------------------------------------
(* Types, sessions and the registered stream. *)

Handled == [cmd : 1 .. MaxCommands, session : SessionNumbers]

\* The poll goroutine has a command exactly while it handles one.
Handling == \A s \in Sessions : ses[s].poll = "handle" <=> ses[s].cmd /= 0

SessionStep(s) ==
    Heartbeats(s) \/ Polls(s) \/ StreamBreaks(s) \/ HandlerStarts(s) \/ HandlerEnds(s)
      \/ ParentSends(s)

\* What a registration at the parent and its end change (parent-stub main.go:66-88).
Registration(s, rec) ==
    \/ rec.handler = ses[s].handler /\ child' = child /\ latest' = latest
    \/ rec.handler = "serving" /\ child' = s /\ latest' = s
    \/ rec.handler = "over" /\ latest' = latest /\ child' = IF child = s THEN 0 ELSE child

\* What all steps of a session have in common.
LEMMA SessionEffect ==
    ASSUME TypeOK, Handling, NEW s \in Sessions, SessionStep(s)
    PROVE  \E rec \in SessionType :
             /\ ses' = [ses EXCEPT ![s] = rec]
             /\ rec.cancelled = ses[s].cancelled
             /\ rec.poll = "handle" <=> rec.cmd /= 0
             /\ failures' \in failures .. MaxFailures
             /\ Trouble(rec) => Trouble(ses[s]) \/ Cancelled(s) \/ failures' = failures + 1
             /\ Registration(s, rec)
             /\ sent' \in 0 .. MaxCommands
             /\ handled' \in Seq(Handled)
             /\ UNCHANGED <<ctx, sup>>
<1> DEFINE r == ses[s]
           Good(rec) ==
             /\ ses' = [ses EXCEPT ![s] = rec]
             /\ rec.cancelled = r.cancelled
             /\ rec.poll = "handle" <=> rec.cmd /= 0
             /\ failures' \in failures .. MaxFailures
             /\ Trouble(rec) => Trouble(r) \/ Cancelled(s) \/ failures' = failures + 1
             /\ Registration(s, rec)
             /\ sent' \in 0 .. MaxCommands
             /\ handled' \in Seq(Handled)
             /\ UNCHANGED <<ctx, sup>>
<1> SUFFICES \E rec \in SessionType : Good(rec)
  OBVIOUS
<1>0. /\ r \in SessionType /\ failures \in Nat /\ MaxFailures \in Nat /\ failures <= MaxFailures
      /\ sent \in 0 .. MaxCommands /\ MaxCommands \in Nat /\ handled \in Seq(Handled)
      /\ r.poll = "handle" <=> r.cmd /= 0
  BY SessionTyped, TunnelAssumption DEF TypeOK, Handled, Handling
<1>1. CASE QuietStep(s)
  <2>1. PICK rec \in SessionType :
             /\ ses' = [ses EXCEPT ![s] = rec]
             /\ rec.cancelled = r.cancelled /\ rec.handler = r.handler
             /\ rec.cmd = r.cmd /\ rec.buffer = r.buffer
             /\ rec.poll = "handle" <=> r.poll = "handle"
             /\ failures' \in failures .. MaxFailures
             /\ Trouble(rec) => Trouble(r) \/ Cancelled(s) \/ failures' = failures + 1
             /\ UNCHANGED <<ctx, sup, child, latest, sent, handled>>
    BY <1>1, QuietEffect
  <2>2. Good(rec)
    BY <1>0, <2>1 DEF Registration
  <2> QED
    BY <2>2
<1>2. CASE PollRecv(s)
  <2> DEFINE rec == [r EXCEPT !.poll = "handle", !.cmd = Head(r.buffer), !.buffer = Tail(@)]
  <2>1. /\ ses' = [ses EXCEPT ![s] = rec]
        /\ UNCHANGED <<ctx, sup, child, latest, sent, handled, failures>>
        /\ r.buffer /= <<>>
    BY <1>2 DEF PollRecv
  <2>2. Head(r.buffer) \in 1 .. MaxCommands /\ Tail(r.buffer) \in Seq(1 .. MaxCommands)
    BY <1>0, <2>1, HeadTailProperties DEF SessionType
  <2>3. Head(r.buffer) \in 0 .. MaxCommands /\ Head(r.buffer) /= 0
    BY <1>0, <2>2
  <2>4. /\ rec \in SessionType /\ rec.cancelled = r.cancelled /\ rec.handler = r.handler
        /\ rec.poll = "handle" /\ rec.cmd /= 0 /\ (Trouble(rec) => Trouble(r))
    BY <1>0, <2>2, <2>3 DEF SessionType, Trouble
  <2>5. Good(rec)
    BY <1>0, <2>1, <2>4 DEF Registration
  <2> QED
    BY <2>4, <2>5
<1>3. CASE HandleCommand(s)
  <2> DEFINE rec == [r EXCEPT !.poll = "recv", !.cmd = 0]
  <2>1. /\ ses' = [ses EXCEPT ![s] = rec] /\ r.poll = "handle"
        /\ handled' = Append(handled, [cmd |-> r.cmd, session |-> s])
        /\ UNCHANGED <<ctx, sup, child, latest, sent, failures>>
    BY <1>3 DEF HandleCommand
  <2>2. [cmd |-> r.cmd, session |-> s] \in Handled
    BY <1>0, <2>1 DEF Handled, SessionType, TypeOK
  <2>3. handled' \in Seq(Handled)
    BY <1>0, <2>1, <2>2, AppendProperties
  <2>4. /\ rec \in SessionType /\ rec.cancelled = r.cancelled /\ rec.handler = r.handler
        /\ rec.poll = "recv" /\ rec.cmd = 0 /\ (Trouble(rec) => Trouble(r))
    <3>1. 0 \in 0 .. MaxCommands
      BY <1>0
    <3>2. rec \in SessionType
      BY <1>0, <3>1, Zenon DEF SessionType
    <3> QED
      BY <1>0, <3>2 DEF SessionType, Trouble
  <2>5. Good(rec)
    BY <1>0, <2>1, <2>3, <2>4 DEF Registration
  <2> QED
    BY <2>4, <2>5
<1>4. CASE HandlerStarts(s)
  <2> DEFINE rec == [r EXCEPT !.handler = "serving"]
  <2>1. /\ ses' = [ses EXCEPT ![s] = rec] /\ child' = s /\ latest' = s
        /\ UNCHANGED <<ctx, sup, sent, handled, failures>>
    BY <1>4 DEF HandlerStarts, Set
  <2>2. /\ rec \in SessionType /\ rec.cancelled = r.cancelled /\ rec.handler = "serving"
        /\ rec.poll = r.poll /\ rec.cmd = r.cmd /\ (Trouble(rec) => Trouble(r))
    BY <1>0 DEF SessionType, Trouble
  <2>3. Good(rec)
    BY <1>0, <2>1, <2>2 DEF Registration
  <2> QED
    BY <2>2, <2>3
<1>5. CASE HandlerEnds(s)
  <2> DEFINE rec == [r EXCEPT !.handler = "over"]
  <2>1. /\ ses' = [ses EXCEPT ![s] = rec] /\ child' = IF child = s THEN 0 ELSE child
        /\ UNCHANGED <<ctx, sup, latest, sent, handled, failures>>
    BY <1>5 DEF HandlerEnds, Set
  <2>2. /\ rec \in SessionType /\ rec.cancelled = r.cancelled /\ rec.handler = "over"
        /\ rec.poll = r.poll /\ rec.cmd = r.cmd /\ (Trouble(rec) => Trouble(r))
    BY <1>0 DEF SessionType, Trouble
  <2>3. Good(rec)
    BY <1>0, <2>1, <2>2 DEF Registration
  <2> QED
    BY <2>2, <2>3
<1>6. CASE ParentSends(s)
  <2>1. /\ sent' = sent + 1 /\ sent < MaxCommands
        /\ UNCHANGED <<ctx, sup, child, latest, handled, failures>>
    BY <1>6 DEF ParentSends
  <2>2. sent' \in 1 .. MaxCommands /\ sent' \in 0 .. MaxCommands
    BY <1>0, <2>1
  <2>3. CASE ses' = ses
    <3>1. ses' = [ses EXCEPT ![s] = r]
      BY <2>3, SessionTyped DEF TypeOK
    <3>2. Good(r)
      BY <1>0, <2>1, <2>2, <3>1 DEF Registration
    <3> QED
      BY <1>0, <3>2
  <2>4. CASE ses' /= ses
    <3> DEFINE rec == [r EXCEPT !.buffer = Append(@, sent')]
    <3>1. ses' = [ses EXCEPT ![s] = rec]
      BY <1>6, <2>4 DEF ParentSends
    <3>2. Append(r.buffer, sent') \in Seq(1 .. MaxCommands)
      BY <1>0, <2>2, AppendProperties DEF SessionType
    <3>3. /\ rec \in SessionType /\ rec.cancelled = r.cancelled /\ rec.handler = r.handler
          /\ rec.poll = r.poll /\ rec.cmd = r.cmd /\ (Trouble(rec) => Trouble(r))
      BY <1>0, <3>2 DEF SessionType, Trouble
    <3>4. Good(rec)
      BY <1>0, <2>1, <2>2, <3>1, <3>3 DEF Registration
    <3> QED
      BY <3>3, <3>4
  <2> QED
    BY <2>3, <2>4
<1> QED
  BY <1>1, <1>2, <1>3, <1>4, <1>5, <1>6 DEF SessionStep, Polls, QuietStep

\* The end of a session cancels its context and leaves its goroutines where they are
\* (tunnel.go:66-67, 116-121).
LEMMA SessionEnds ==
    ASSUME TypeOK, SessionFails \/ SessionStops, NEW k \in Sessions, k = Len(ses)
    PROVE  \E rec \in SessionType :
             /\ ses' = [ses EXCEPT ![k] = rec] /\ rec.cancelled
             /\ rec.poll = ses[k].poll /\ rec.cmd = ses[k].cmd /\ rec.handler = ses[k].handler
             /\ rec.buffer = ses[k].buffer
<1>0. ses[k] \in SessionType
  BY SessionTyped
<1>1. CASE SessionFails
  <2> DEFINE rec == [ses[k] EXCEPT !.errs = @ - 1, !.cancelled = TRUE]
  <2>1. ses' = [ses EXCEPT ![k] = rec] /\ ses[k].errs > 0
    BY <1>1 DEF SessionFails, Current
  <2>2. ses[k].errs - 1 \in 0 .. 2
    BY <1>0, <2>1 DEF SessionType
  <2>3. rec \in SessionType
    BY <1>0, <2>2, Zenon DEF SessionType
  <2>4. /\ rec.cancelled
        /\ rec.poll = ses[k].poll /\ rec.cmd = ses[k].cmd /\ rec.handler = ses[k].handler
        /\ rec.buffer = ses[k].buffer
    BY <1>0 DEF SessionType
  <2> QED
    BY <2>1, <2>3, <2>4
<1>2. CASE SessionStops
  <2> DEFINE rec == [ses[k] EXCEPT !.cancelled = TRUE]
  <2>1. ses' = [ses EXCEPT ![k] = rec]
    BY <1>2 DEF SessionStops, Current, Set
  <2>2. /\ rec \in SessionType /\ rec.cancelled
        /\ rec.poll = ses[k].poll /\ rec.cmd = ses[k].cmd /\ rec.handler = ses[k].handler
        /\ rec.buffer = ses[k].buffer
    BY <1>0 DEF SessionType
  <2> QED
    BY <2>1, <2>2
<1> QED
  BY <1>1, <1>2

\* What makes the session numbers and the registration right: exactly the last session
\* is live, and only while the supervisor waits for it; each session that ended while
\* the process was not stopped has used up a failure.
SessionInv ==
    /\ Handling
    /\ sup.pc = "session" => Len(ses) > 0
    /\ \A s \in Sessions : ~ses[s].cancelled <=> s = Current /\ sup.pc = "session"
    /\ ctx = "live" /\ sup.pc \in {"run", "backoff"} => Len(ses) <= failures
    /\ ctx = "live" /\ sup.pc = "session" =>
         /\ Len(ses) <= failures + 1
         /\ Trouble(ses[Current]) => Len(ses) <= failures
    /\ LatestIsChild

\* Nothing has begun.
LEMMA SessionInit == Init => TypeOK /\ SessionInv
<1> SUFFICES ASSUME Init PROVE TypeOK /\ SessionInv
  OBVIOUS
<1>1. ses = <<>> /\ ses \in Seq(SessionType) /\ Len(ses) = 0 /\ Sessions = {}
  <2>1. ses = <<>>
    BY DEF Init
  <2>2. ses \in Seq(SessionType) /\ Len(ses) = 0
    BY <2>1, EmptySeq
  <2> QED
    BY <2>1, <2>2, LenProperties DEF Sessions
<1>2. handled \in Seq(Handled)
  BY EmptySeq DEF Init
<1>3. TypeOK
  BY <1>1, <1>2, TunnelAssumption DEF Init, TypeOK, Handled, MaxBackoff
<1> QED
  BY <1>1, <1>3, TunnelAssumption
     DEF Init, SessionInv, Handling, LatestIsChild

\* A step of a session or of its handler.
LEMMA SessionStepKeeps ==
    ASSUME TypeOK, SessionInv, NEW s \in Sessions, SessionStep(s)
    PROVE  TypeOK' /\ SessionInv'
<1>1. PICK rec \in SessionType :
             /\ ses' = [ses EXCEPT ![s] = rec]
             /\ rec.cancelled = ses[s].cancelled
             /\ rec.poll = "handle" <=> rec.cmd /= 0
             /\ failures' \in failures .. MaxFailures
             /\ Trouble(rec) => Trouble(ses[s]) \/ Cancelled(s) \/ failures' = failures + 1
             /\ Registration(s, rec)
             /\ sent' \in 0 .. MaxCommands
             /\ handled' \in Seq(Handled)
             /\ UNCHANGED <<ctx, sup>>
  BY SessionEffect DEF SessionInv
<1>2. /\ ses' \in Seq(SessionType) /\ Len(ses') = Len(ses) /\ Sessions' = Sessions
      /\ ses'[s] = rec /\ \A t \in Sessions \ {s} : ses'[t] = ses[t]
  BY <1>1, Update
<1>3. failures \in Nat /\ MaxFailures \in Nat /\ failures <= failures' /\ failures' \in 0 .. MaxFailures
      /\ Len(ses) \in Nat /\ Sessions = 1 .. Len(ses)
  <2>1. failures \in Nat /\ MaxFailures \in Nat /\ Len(ses) \in Nat /\ Sessions = 1 .. Len(ses)
    BY TunnelAssumption, LenProperties DEF TypeOK, Sessions
  <2> QED
    BY <1>1, <2>1
<1>4. TypeOK'
  <2>1. child' \in {0} \cup Sessions /\ latest' \in {0} \cup Sessions
    BY <1>1 DEF Registration, TypeOK
  <2> QED
    BY <1>1, <1>2, <1>3, <2>1 DEF TypeOK, Handled
<1>5. Handling'
  BY <1>1, <1>2 DEF SessionInv, Handling
<1>6. \A t \in Sessions' : ~ses'[t].cancelled <=> t = Current' /\ sup'.pc = "session"
  BY <1>1, <1>2 DEF SessionInv, Current
<1>7. LatestIsChild'
  BY <1>1, <1>2 DEF SessionInv, LatestIsChild, Registration, TypeOK
<1>8. ctx' = "live" /\ sup'.pc = "session" =>
         /\ Len(ses') <= failures' + 1
         /\ Trouble(ses'[Current']) => Len(ses') <= failures'
  <2> SUFFICES ASSUME ctx = "live", sup.pc = "session"
               PROVE  /\ Len(ses) <= failures' + 1
                      /\ Trouble(ses'[Len(ses)]) => Len(ses) <= failures'
    BY <1>1, <1>2 DEF Current
  <2>1. Len(ses) \in Sessions /\ ~ses[Len(ses)].cancelled
    BY <1>3 DEF SessionInv, Current
  <2>2. Len(ses) <= failures + 1 /\ (Trouble(ses[Len(ses)]) => Len(ses) <= failures)
    BY DEF SessionInv, Current
  <2>3. CASE s = Len(ses)
    <3>1. Trouble(rec) => Trouble(ses[s]) \/ failures' = failures + 1
      BY <1>1, <2>1, <2>3 DEF Cancelled
    <3> QED
      BY <1>2, <1>3, <2>2, <2>3, <3>1
  <2>4. CASE s /= Len(ses)
    BY <1>2, <1>3, <2>1, <2>2, <2>4
  <2> QED
    BY <2>3, <2>4
<1>9. ctx' = "live" /\ sup'.pc \in {"run", "backoff"} => Len(ses') <= failures'
  BY <1>1, <1>2, <1>3 DEF SessionInv
<1> QED
  BY <1>1, <1>2, <1>4, <1>5, <1>6, <1>7, <1>8, <1>9 DEF SessionInv

\* The steps of the supervisor and of SIGTERM (supervisor.go:69-103, tunnel.go:66, 116-121).
LEMMA SupervisorKeeps ==
    ASSUME TypeOK, SessionInv, Supervise \/ Sigterm \/ UNCHANGED vars
    PROVE  TypeOK' /\ SessionInv'
<1>0. /\ failures \in Nat /\ MaxFailures \in Nat /\ failures <= MaxFailures
      /\ Len(ses) \in Nat /\ Sessions = 1 .. Len(ses) /\ ses \in Seq(SessionType)
  BY TunnelAssumption, LenProperties DEF TypeOK, Sessions
<1>1. CASE StartSession
  <2>1. /\ sup.pc = "run" /\ ctx = "live" /\ ses' = Append(ses, NewSession)
        /\ sup' = [sup EXCEPT !.pc = "session"]
        /\ UNCHANGED <<ctx, child, latest, sent, handled, failures>>
    BY <1>1 DEF StartSession
  <2>2. NewSession \in SessionType /\ ~Trouble(NewSession) /\ ~NewSession.cancelled
        /\ NewSession.poll /= "handle" /\ NewSession.cmd = 0
    BY EmptySeq, TunnelAssumption DEF NewSession, SessionType, Trouble
  <2>3. PICK n \in Nat : n = Len(ses) + 1
    BY <1>0
  <2>4. /\ ses' \in Seq(SessionType) /\ Len(ses') = n /\ ses'[n] = NewSession
        /\ \A t \in Sessions : ses'[t] = ses[t]
    BY <1>0, <2>1, <2>2, <2>3, AppendProperties
  <2>5. Sessions' = 1 .. n /\ \A t \in 1 .. n : t \in Sessions \/ t = n
    BY <1>0, <2>3, <2>4, LenProperties DEF Sessions
  <2>6. n <= failures + 1
    BY <1>0, <2>1, <2>3 DEF SessionInv
  <2>7. TypeOK'
    <3>1. Sessions' \subseteq SessionNumbers /\ Sessions \subseteq Sessions'
      BY <1>0, <2>3, <2>5, <2>6 DEF SessionNumbers
    <3>2. sup' \in [pc : {"run", "session", "backoff", "returned"}, backoff : 1 .. MaxBackoff]
      BY <2>1 DEF TypeOK
    <3> QED
      BY <2>1, <2>4, <3>1, <3>2 DEF TypeOK
  <2>8. sup'.pc = "session"
    BY <2>1 DEF TypeOK
  <2>9. Handling'
    BY <2>2, <2>4, <2>5 DEF SessionInv, Handling
  <2>10. \A t \in Sessions' : ~ses'[t].cancelled <=> t = n
    <3>1. \A t \in Sessions : ses'[t].cancelled /\ t /= n
      BY <1>0, <2>1, <2>3, <2>4 DEF SessionInv
    <3> QED
      BY <2>2, <2>4, <2>5, <3>1
  <2>11. LatestIsChild'
    BY <2>1, <2>4 DEF SessionInv, LatestIsChild, TypeOK
  <2>12. Current' = n /\ ~Trouble(ses'[n]) /\ n > 0 /\ n <= failures' + 1
    BY <1>0, <2>1, <2>2, <2>3, <2>4, <2>6 DEF Current
  <2>13. \A t \in Sessions' : ~ses'[t].cancelled <=> t = Current' /\ sup'.pc = "session"
    BY <2>8, <2>10, <2>12
  <2> QED
    BY <2>4, <2>7, <2>8, <2>9, <2>11, <2>12, <2>13 DEF SessionInv
<1>2. CASE SessionFails \/ SessionStops
  <2>1. PICK k \in Nat : k = Len(ses)
    BY <1>0
  <2>2. /\ sup.pc = "session" /\ k \in Sessions /\ ses[k] \in SessionType
        /\ ctx = "live" => Trouble(ses[k])
    <3>1. sup.pc = "session" /\ (ctx = "live" => ses[k].errs > 0)
      BY <1>2, <2>1 DEF SessionFails, SessionStops, Current
    <3>2. k \in Sessions
      BY <1>0, <2>1, <3>1 DEF SessionInv
    <3> QED
      BY <3>1, <3>2, SessionTyped DEF Trouble
  <2>3. PICK rec \in SessionType :
          /\ ses' = [ses EXCEPT ![k] = rec] /\ rec.cancelled
          /\ rec.poll = ses[k].poll /\ rec.cmd = ses[k].cmd /\ rec.handler = ses[k].handler
          /\ rec.buffer = ses[k].buffer
    BY <1>2, <2>1, <2>2, SessionEnds
  <2>4. /\ ses' \in Seq(SessionType) /\ Len(ses') = Len(ses) /\ Sessions' = Sessions
        /\ ses'[k] = rec /\ \A t \in Sessions \ {k} : ses'[t] = ses[t]
    BY <2>2, <2>3, Update
  <2>5. /\ sup' \in [pc : {"run", "session", "backoff", "returned"}, backoff : 1 .. MaxBackoff]
        /\ sup'.pc \in {"backoff", "returned"}
        /\ UNCHANGED <<ctx, child, latest, sent, handled, failures>>
    BY <1>2 DEF SessionFails, SessionStops, TypeOK
  <2>6. TypeOK'
    BY <2>4, <2>5 DEF TypeOK
  <2>7. Handling' /\ LatestIsChild'
    BY <2>2, <2>3, <2>4, <2>5 DEF SessionInv, Handling, LatestIsChild, TypeOK
  <2>8. \A t \in Sessions' : ses'[t].cancelled
    BY <2>1, <2>3, <2>4 DEF SessionInv, Current
  <2>9. ctx = "live" => Len(ses) <= failures
    BY <2>1, <2>2 DEF SessionInv, Current
  <2> QED
    BY <2>4, <2>5, <2>6, <2>7, <2>8, <2>9 DEF SessionInv
<1>3. CASE BackoffEnds
  <2>1. /\ sup.pc = "backoff" /\ sup' = [pc |-> "run", backoff |-> Doubled(sup.backoff)]
        /\ UNCHANGED <<ctx, ses, child, latest, sent, handled, failures>>
    BY <1>3 DEF BackoffEnds
  <2>2. Doubled(sup.backoff) \in 1 .. MaxBackoff
    <3>1. sup.backoff \in 1 .. 30
      BY DEF MaxBackoff, TypeOK
    <3> QED
      BY <3>1 DEF Doubled, MaxBackoff
  <2>3. TypeOK'
    BY <2>1, <2>2 DEF TypeOK, Sessions
  <2> QED
    BY <2>1, <2>3 DEF SessionInv, Handling, LatestIsChild, Current, Sessions
<1>4. CASE SupervisorStops \/ Sigterm \/ UNCHANGED vars
  <2>1. /\ UNCHANGED <<ses, child, latest, sent, handled, failures>>
        /\ ctx' \in {ctx, "cancelled"} /\ (ctx' = "live" => sup' = sup)
        /\ sup' \in [pc : {"run", "session", "backoff", "returned"}, backoff : 1 .. MaxBackoff]
        /\ sup'.pc = "session" <=> sup.pc = "session"
    BY <1>4 DEF SupervisorStops, Sigterm, vars, TypeOK
  <2>2. TypeOK'
    BY <2>1 DEF TypeOK, Sessions
  <2> QED
    BY <2>1, <2>2 DEF SessionInv, Handling, LatestIsChild, Current, Sessions
<1> QED
  BY <1>1, <1>2, <1>3, <1>4 DEF Supervise

\* Every step keeps the types and the invariant.
LEMMA TunnelStep ==
    ASSUME TypeOK, SessionInv, [Next]_vars
    PROVE  TypeOK' /\ SessionInv'
  BY SessionStepKeeps, SupervisorKeeps DEF Next, SessionStep

\* The state of the tunnel worker keeps its types; a session that begins has been paid
\* for by a failure, so that their number is bounded (tunnel.go:64-128).
THEOREM TunnelTypeCorrect == Spec => []TypeOK
<1>1. Init => TypeOK /\ SessionInv
  BY SessionInit
<1>2. TypeOK /\ SessionInv /\ [Next]_vars => (TypeOK /\ SessionInv)'
  BY TunnelStep
<1> QED
  BY <1>1, <1>2, PTL DEF Spec

\* Only the last session is ever live: the goroutines of all earlier ones have a
\* cancelled context before the next one begins (tunnel.go:66-67, supervisor.go:78-99).
THEOREM OneLiveSession == Spec => []OneSession
<1>1. Init => TypeOK /\ SessionInv
  BY SessionInit
<1>2. TypeOK /\ SessionInv /\ [Next]_vars => (TypeOK /\ SessionInv)'
  BY TunnelStep
<1>3. SessionInv => OneSession
  BY DEF SessionInv, OneSession
<1> QED
  BY <1>1, <1>2, <1>3, PTL DEF Spec

\* However late the handler of an ended stream runs or ends, it does not unregister the
\* stream that was registered last (parent-stub main.go:66-88).
THEOREM LatestStreamStays == Spec => []LatestIsChild
<1>1. Init => TypeOK /\ SessionInv
  BY SessionInit
<1>2. TypeOK /\ SessionInv /\ [Next]_vars => (TypeOK /\ SessionInv)'
  BY TunnelStep
<1>3. SessionInv => LatestIsChild
  BY DEF SessionInv
<1> QED
  BY <1>1, <1>2, <1>3, PTL DEF Spec

---------------------------------------------------------------------------
(* The order of the commands. *)

\* Command c has reached session s and is not handled yet; s has handled c.
Waits(s, c) ==
    \/ c = ses[s].cmd /\ c /= 0
    \/ \E i \in 1 .. Len(ses[s].buffer) : ses[s].buffer[i] = c
Was(s, c) == \E i \in 1 .. Len(handled) : handled[i].session = s /\ handled[i].cmd = c
Known(s, c) == Waits(s, c) \/ Was(s, c)

\* A session has its commands in the order they were sent, and all of them were sent
\* before those of a later session: the parent writes to a live stream only, and that
\* is the last one.
OrderInv ==
    /\ \A s \in Sessions : \A c : Known(s, c) => c \in 1 .. sent
    /\ \A s, t \in Sessions : s < t => \A c, d : Known(s, c) /\ Known(t, d) => c < d
    /\ \A s \in Sessions : \A c, d : Was(s, c) /\ Waits(s, d) => c < d
    /\ \A s \in Sessions : \A i \in 1 .. Len(ses[s].buffer) :
         /\ ses[s].cmd /= 0 => ses[s].cmd < ses[s].buffer[i]
         /\ \A k \in 1 .. Len(ses[s].buffer) : i < k => ses[s].buffer[i] < ses[s].buffer[k]
    /\ \A i, j \in 1 .. Len(handled) :
         i < j /\ handled[i].session = handled[j].session => handled[i].cmd < handled[j].cmd
    /\ \A i \in 1 .. Len(handled) : handled[i].session \in Sessions

\* No command at the start.
LEMMA OrderInit == Init => OrderInv
<1> SUFFICES ASSUME Init PROVE OrderInv
  OBVIOUS
<1>1. Len(handled) = 0 /\ Sessions = {}
  BY EmptySeq, LenProperties DEF Init, Sessions
<1> QED
  BY <1>1 DEF OrderInv

\* A step that moves no command.
LEMMA OrderKept ==
    ASSUME TypeOK, OrderInv, handled' = handled, sent' \in Nat, sent <= sent',
           Sessions' \subseteq Nat, Sessions \subseteq Sessions',
           \A s \in Sessions : ses'[s].cmd = ses[s].cmd /\ ses'[s].buffer = ses[s].buffer,
           \A s \in Sessions' \ Sessions : ses'[s].cmd = 0 /\ Len(ses'[s].buffer) = 0
    PROVE  OrderInv'
<1>1. \A s \in Sessions : \A c : /\ Waits(s, c)' <=> Waits(s, c)
                                 /\ Was(s, c)' <=> Was(s, c)
                                 /\ Known(s, c)' <=> Known(s, c)
  BY DEF Waits, Was, Known
<1>2. \A s \in Sessions' \ Sessions : \A c : ~Known(s, c)' /\ ~Was(s, c)'
  BY DEF OrderInv, Waits, Was, Known
<1>3. sent \in Nat
  BY DEF TypeOK
<1>4. \A s \in Sessions' : \A c : Known(s, c)' => c \in 1 .. sent'
  BY <1>1, <1>2, <1>3 DEF OrderInv
<1>5. \A s, t \in Sessions' : s < t => \A c, d : Known(s, c)' /\ Known(t, d)' => c < d
  BY <1>1, <1>2 DEF OrderInv
<1>6. \A s \in Sessions' : \A c, d : Was(s, c)' /\ Waits(s, d)' => c < d
  BY <1>1, <1>2 DEF OrderInv
<1>7. \A s \in Sessions' : \A i \in 1 .. Len(ses'[s].buffer) :
         /\ ses'[s].cmd /= 0 => ses'[s].cmd < ses'[s].buffer[i]
         /\ \A k \in 1 .. Len(ses'[s].buffer) : i < k => ses'[s].buffer[i] < ses'[s].buffer[k]
  <2>1. ASSUME NEW s \in Sessions' \ Sessions, NEW i \in 1 .. Len(ses'[s].buffer) PROVE FALSE
    BY <2>1
  <2> QED
    BY <2>1 DEF OrderInv
<1> QED
  BY <1>4, <1>5, <1>6, <1>7 DEF OrderInv

\* The first element of a sequence and the others.
LEMMA HeadFacts ==
    ASSUME NEW S, NEW q \in Seq(S), q /= <<>>
    PROVE  /\ Len(q) \in Nat \ {0} /\ Head(q) = q[1] /\ q[1] \in S /\ Tail(q) \in Seq(S)
           /\ Len(Tail(q)) = Len(q) - 1 /\ \A i \in 1 .. Len(Tail(q)) : Tail(q)[i] = q[i + 1]
<1>1. Len(q) \in Nat \ {0}
  BY EmptySeq
<1>2. 1 \in 1 .. Len(q)
  BY <1>1
<1>3. q[1] \in S
  BY <1>2, ElementOfSeq
<1> QED
  BY <1>1, <1>3, HeadTailProperties

\* Recv takes the oldest command of its stream (client.go:188-196).
LEMMA OrderRecv ==
    ASSUME TypeOK, Handling, OrderInv, NEW s \in Sessions, PollRecv(s)
    PROVE  OrderInv'
<1> DEFINE r == ses[s]
           b == r.buffer
<1>1. /\ r \in SessionType /\ r.cmd = 0 /\ b \in Seq(1 .. MaxCommands) /\ b /= <<>>
      /\ UNCHANGED <<handled, sent>>
  <2>1. r \in SessionType
    BY SessionTyped
  <2> QED
    BY <2>1 DEF PollRecv, Handling, SessionType
<1>2. /\ Len(b) \in Nat \ {0} /\ Head(b) = b[1] /\ Tail(b) \in Seq(1 .. MaxCommands)
      /\ Len(Tail(b)) = Len(b) - 1 /\ \A i \in 1 .. Len(Tail(b)) : Tail(b)[i] = b[i + 1]
      /\ b[1] \in 1 .. MaxCommands
  BY <1>1, HeadFacts
<1>3. PICK rec \in SessionType :
        ses' = [ses EXCEPT ![s] = rec] /\ rec.cmd = b[1] /\ rec.buffer = Tail(b)
  <2> DEFINE rec == [r EXCEPT !.poll = "handle", !.cmd = Head(b), !.buffer = Tail(b)]
  <2>1. ses' = [ses EXCEPT ![s] = rec]
    BY DEF PollRecv
  <2>2. b[1] \in 0 .. MaxCommands
    BY <1>2, TunnelAssumption
  <2>3. rec \in SessionType /\ rec.cmd = b[1] /\ rec.buffer = Tail(b)
    BY <1>1, <1>2, <2>2 DEF SessionType
  <2> QED
    BY <2>1, <2>3
<1>4. /\ Sessions' = Sessions /\ ses'[s] = rec /\ \A t \in Sessions \ {s} : ses'[t] = ses[t]
  BY <1>3, Update
<1> HIDE DEF r, b
<1>5. \A c : Waits(s, c)' <=> Waits(s, c)
  <2>1. ASSUME NEW c, Waits(s, c)' PROVE Waits(s, c)
    <3>0. \/ c = rec.cmd
          \/ \E i \in 1 .. Len(rec.buffer) : rec.buffer[i] = c
      BY <1>4, <2>1 DEF Waits
    <3>1. \/ c = b[1]
          \/ \E i \in 1 .. Len(Tail(b)) : c = b[i + 1]
      BY <1>2, <1>3, <3>0
    <3>2. \E i \in 1 .. Len(b) : c = b[i]
      BY <1>2, <3>1
    <3> QED
      BY <3>2 DEF Waits, b, r
  <2>2. ASSUME NEW c, Waits(s, c) PROVE Waits(s, c)'
    <3>1. PICK i \in 1 .. Len(b) : c = b[i]
      BY <1>1, <2>2 DEF Waits, b, r
    <3>2. CASE i = 1
      BY <1>2, <1>3, <1>4, <3>1, <3>2 DEF Waits
    <3>3. CASE i /= 1
      <4>1. i - 1 \in 1 .. Len(Tail(b)) /\ Tail(b)[i - 1] = c
        BY <1>2, <3>1, <3>3
      <4> QED
        BY <1>3, <1>4, <4>1 DEF Waits
    <3> QED
      BY <3>2, <3>3
  <2> QED
    BY <2>1, <2>2
<1>6. \A t \in Sessions : \A c : /\ Waits(t, c)' <=> Waits(t, c)
                                 /\ Was(t, c)' <=> Was(t, c)
                                 /\ Known(t, c)' <=> Known(t, c)
  <2>1. \A t \in Sessions : \A c : Was(t, c)' <=> Was(t, c)
    BY <1>1 DEF Was
  <2>2. \A t \in Sessions \ {s} : \A c : Waits(t, c)' <=> Waits(t, c)
    BY <1>4 DEF Waits
  <2> QED
    BY <1>5, <2>1, <2>2 DEF Known
<1>7. \A i, k \in 1 .. Len(b) : i < k => b[i] < b[k]
  BY DEF OrderInv, b, r
<1>8. \A t \in Sessions' : \A i \in 1 .. Len(ses'[t].buffer) :
         /\ ses'[t].cmd /= 0 => ses'[t].cmd < ses'[t].buffer[i]
         /\ \A k \in 1 .. Len(ses'[t].buffer) : i < k => ses'[t].buffer[i] < ses'[t].buffer[k]
  <2>1. \A i \in 1 .. Len(Tail(b)) :
          /\ b[1] < Tail(b)[i]
          /\ \A k \in 1 .. Len(Tail(b)) : i < k => Tail(b)[i] < Tail(b)[k]
    BY <1>2, <1>7
  <2>2. \A i \in 1 .. Len(ses'[s].buffer) :
         /\ ses'[s].cmd /= 0 => ses'[s].cmd < ses'[s].buffer[i]
         /\ \A k \in 1 .. Len(ses'[s].buffer) : i < k => ses'[s].buffer[i] < ses'[s].buffer[k]
    BY <1>3, <1>4, <2>1
  <2> QED
    BY <1>4, <2>2 DEF OrderInv
<1> QED
  BY <1>1, <1>4, <1>6, <1>8 DEF OrderInv

\* The command that is handled is older than those that wait in its session
\* (client.go:196).
LEMMA OrderHandle ==
    ASSUME TypeOK, Handling, OrderInv, NEW s \in Sessions, HandleCommand(s)
    PROVE  OrderInv'
<1> DEFINE r == ses[s]
<1>1. /\ r \in SessionType /\ r.cmd /= 0 /\ r.cmd \in 1 .. MaxCommands /\ s \in SessionNumbers
      /\ sent' = sent
  <2>1. r \in SessionType /\ r.cmd /= 0
    BY SessionTyped DEF HandleCommand, Handling
  <2>2. r.cmd \in 1 .. MaxCommands
    BY <2>1, TunnelAssumption DEF SessionType
  <2> QED
    BY <2>1, <2>2 DEF HandleCommand, TypeOK
<1>2. PICK rec \in SessionType :
        ses' = [ses EXCEPT ![s] = rec] /\ rec.cmd = 0 /\ rec.buffer = r.buffer
  <2> DEFINE rec == [r EXCEPT !.poll = "recv", !.cmd = 0]
  <2>1. ses' = [ses EXCEPT ![s] = rec]
    BY DEF HandleCommand
  <2>2. 0 \in 0 .. MaxCommands
    BY TunnelAssumption
  <2>3. rec \in SessionType
    BY <1>1, <2>2, Zenon DEF SessionType
  <2>4. rec.cmd = 0 /\ rec.buffer = r.buffer
    BY <1>1 DEF SessionType
  <2> QED
    BY <2>1, <2>3, <2>4
<1>3. Sessions' = Sessions /\ ses'[s] = rec /\ \A t \in Sessions \ {s} : ses'[t] = ses[t]
  BY <1>2, Update
<1>4. PICK n \in Nat : n = Len(handled) + 1
  BY LenProperties DEF TypeOK
<1>5. /\ Len(handled) \in Nat /\ Len(handled') = n
      /\ \A i \in 1 .. Len(handled) : handled'[i] = handled[i]
      /\ handled'[n].cmd = r.cmd /\ handled'[n].session = s
  <2> DEFINE h == [cmd |-> r.cmd, session |-> s]
  <2>1. h \in Handled /\ handled \in Seq(Handled)
    BY <1>1 DEF Handled, TypeOK
  <2>2. handled' = Append(handled, h) /\ h.cmd = r.cmd /\ h.session = s
    BY DEF HandleCommand
  <2> HIDE DEF h
  <2> QED
    BY <1>4, <2>1, <2>2, AppendProperties, LenProperties
<1>6. \A i \in 1 .. n : i \in 1 .. Len(handled) \/ i = n
  BY <1>4, <1>5
<1>7. /\ n \in 1 .. Len(handled') /\ \A i \in 1 .. Len(handled) : i \in 1 .. Len(handled')
  BY <1>4, <1>5
<1> HIDE DEF r
<1>8. /\ \A c : Was(s, c)' <=> Was(s, c) \/ c = r.cmd
      /\ \A t \in Sessions \ {s} : \A c : Was(t, c)' <=> Was(t, c)
  BY <1>5, <1>6, <1>7 DEF Was
<1>9. /\ \A c : Waits(s, c)' => Waits(s, c) /\ \E i \in 1 .. Len(r.buffer) : r.buffer[i] = c
      /\ \A c : Waits(s, c) => Waits(s, c)' \/ c = r.cmd
      /\ Waits(s, r.cmd)
      /\ \A t \in Sessions \ {s} : \A c : Waits(t, c)' <=> Waits(t, c)
  BY <1>1, <1>2, <1>3 DEF Waits, r
<1>10. \A t \in Sessions : \A c : Known(t, c)' <=> Known(t, c)
  BY <1>8, <1>9 DEF Known
<1>11. \A i \in 1 .. Len(r.buffer) : r.cmd < r.buffer[i]
  BY <1>1 DEF OrderInv, r
<1>12. \A t \in Sessions' : \A c, d : Was(t, c)' /\ Waits(t, d)' => c < d
  BY <1>3, <1>8, <1>9, <1>11 DEF OrderInv
<1>13. \A i, j \in 1 .. Len(handled') :
         i < j /\ handled'[i].session = handled'[j].session => handled'[i].cmd < handled'[j].cmd
  <2>1. \A c : Was(s, c) => c < r.cmd
    BY <1>9 DEF OrderInv
  <2>2. \A i \in 1 .. Len(handled) : handled[i].session = s => handled[i].cmd < r.cmd
    BY <2>1 DEF Was
  <2> QED
    BY <1>4, <1>5, <1>6, <2>2 DEF OrderInv
<1>14. \A t \in Sessions' : \A i \in 1 .. Len(ses'[t].buffer) :
         /\ ses'[t].cmd /= 0 => ses'[t].cmd < ses'[t].buffer[i]
         /\ \A k \in 1 .. Len(ses'[t].buffer) : i < k => ses'[t].buffer[i] < ses'[t].buffer[k]
  BY <1>2, <1>3 DEF OrderInv, r
<1>15. \A i \in 1 .. Len(handled') : handled'[i].session \in Sessions'
  BY <1>3, <1>5, <1>6 DEF OrderInv
<1> QED
  BY <1>1, <1>3, <1>10, <1>12, <1>13, <1>14, <1>15 DEF OrderInv

\* A command that is not lost goes to the stream of the last session, behind all others
\* (parent-stub main.go:166-180).
LEMMA OrderSend ==
    ASSUME TypeOK, SessionInv, OrderInv, NEW s \in Sessions, ParentSends(s), ses' /= ses
    PROVE  OrderInv'
<1> DEFINE r == ses[s]
           b == r.buffer
<1>1. /\ ses' = [ses EXCEPT ![s].buffer = Append(@, sent')] /\ ~ses[s].cancelled
      /\ sent' = sent + 1 /\ sent < MaxCommands /\ handled' = handled
  BY DEF ParentSends, StreamOver, Cancelled
<1>2. s = Len(ses) /\ Sessions = 1 .. Len(ses) /\ Len(ses) \in Nat /\ r \in SessionType
  BY <1>1, SessionTyped DEF SessionInv, Current
<1>3. sent \in Nat /\ sent' \in 1 .. MaxCommands /\ sent < sent'
  BY <1>1, TunnelAssumption DEF TypeOK
<1>4. /\ b \in Seq(1 .. MaxCommands) /\ Len(b) \in Nat
      /\ Append(b, sent') \in Seq(1 .. MaxCommands) /\ Len(Append(b, sent')) = Len(b) + 1
      /\ \A i \in 1 .. Len(b) : Append(b, sent')[i] = b[i]
      /\ Append(b, sent')[Len(b) + 1] = sent'
  <2>1. b \in Seq(1 .. MaxCommands)
    BY <1>2 DEF SessionType
  <2> QED
    BY <1>3, <2>1, AppendProperties, LenProperties
<1>5. PICK rec \in SessionType :
        ses' = [ses EXCEPT ![s] = rec] /\ rec.cmd = r.cmd /\ rec.buffer = Append(b, sent')
  <2> DEFINE rec == [r EXCEPT !.buffer = Append(b, sent')]
  <2>1. ses' = [ses EXCEPT ![s] = rec]
    BY <1>1
  <2>2. rec \in SessionType /\ rec.cmd = r.cmd /\ rec.buffer = Append(b, sent')
    BY <1>2, <1>4 DEF SessionType
  <2> QED
    BY <2>1, <2>2
<1>6. Sessions' = Sessions /\ ses'[s] = rec /\ \A t \in Sessions \ {s} : ses'[t] = ses[t]
  BY <1>5, Update
<1>7. PICK n \in Nat : n = Len(b) + 1
  BY <1>4
<1> HIDE DEF r, b
<1>8. /\ Len(rec.buffer) = n /\ rec.buffer[n] = sent'
      /\ \A i \in 1 .. Len(b) : rec.buffer[i] = b[i] /\ i \in 1 .. n
      /\ \A i \in 1 .. n : i \in 1 .. Len(b) \/ i = n
      /\ n \in 1 .. n
  BY <1>4, <1>5, <1>7
<1>9. /\ \A c : Waits(s, c)' <=> Waits(s, c) \/ c = sent'
      /\ \A t \in Sessions \ {s} : \A c : Waits(t, c)' <=> Waits(t, c)
      /\ \A t \in Sessions : \A c : Was(t, c)' <=> Was(t, c)
  <2>1. ASSUME NEW c, Waits(s, c)' PROVE Waits(s, c) \/ c = sent'
    <3>1. \/ c = r.cmd /\ c /= 0
          \/ \E i \in 1 .. n : c = rec.buffer[i]
      BY <1>5, <1>6, <1>8, <2>1 DEF Waits
    <3>2. \/ c = r.cmd /\ c /= 0
          \/ \E i \in 1 .. Len(b) : c = b[i]
          \/ c = sent'
      BY <1>8, <3>1
    <3> QED
      BY <3>2 DEF Waits, r, b
  <2>2. ASSUME NEW c, Waits(s, c) \/ c = sent' PROVE Waits(s, c)'
    <3>1. \/ c = r.cmd /\ c /= 0
          \/ \E i \in 1 .. Len(b) : c = b[i]
          \/ c = sent'
      BY <2>2 DEF Waits, r, b
    <3>2. \/ c = rec.cmd /\ c /= 0
          \/ \E i \in 1 .. Len(rec.buffer) : c = rec.buffer[i]
      BY <1>5, <1>8, <3>1
    <3> QED
      BY <1>6, <3>2 DEF Waits
  <2>3. \A t \in Sessions \ {s} : \A c : Waits(t, c)' <=> Waits(t, c)
    BY <1>6 DEF Waits
  <2>4. \A t \in Sessions : \A c : Was(t, c)' <=> Was(t, c)
    BY <1>1 DEF Was
  <2> QED
    BY <2>1, <2>2, <2>3, <2>4
<1>10. /\ \A c : Known(s, c)' <=> Known(s, c) \/ c = sent'
       /\ \A t \in Sessions \ {s} : \A c : Known(t, c)' <=> Known(t, c)
  BY <1>9 DEF Known
<1>11. \A t \in Sessions : \A c : Known(t, c) => c \in 1 .. sent /\ c \in 1 .. sent' /\ c < sent'
  BY <1>3 DEF OrderInv
<1>12. \A t \in Sessions' : \A c : Known(t, c)' => c \in 1 .. sent'
  BY <1>3, <1>6, <1>10, <1>11
<1>13. \A t, u \in Sessions' : t < u => \A c, d : Known(t, c)' /\ Known(u, d)' => c < d
  <2> SUFFICES ASSUME NEW t \in Sessions, NEW u \in Sessions, t < u, NEW c, NEW d,
                      Known(t, c)', Known(u, d)'
               PROVE  c < d
    BY <1>6
  <2>1. t /= s
    BY <1>2
  <2>2. Known(t, c)
    BY <1>10, <2>1
  <2>3. CASE Known(u, d)
    BY <2>2, <2>3 DEF OrderInv
  <2>4. CASE ~Known(u, d)
    BY <1>10, <1>11, <2>2, <2>4
  <2> QED
    BY <2>3, <2>4
<1>14. \A t \in Sessions' : \A c, d : Was(t, c)' /\ Waits(t, d)' => c < d
  <2>1. \A t \in Sessions : \A c : Was(t, c) => c < sent'
    BY <1>11 DEF Known
  <2> QED
    BY <1>6, <1>9, <2>1 DEF OrderInv
<1>15. \A t \in Sessions' : \A i \in 1 .. Len(ses'[t].buffer) :
         /\ ses'[t].cmd /= 0 => ses'[t].cmd < ses'[t].buffer[i]
         /\ \A k \in 1 .. Len(ses'[t].buffer) : i < k => ses'[t].buffer[i] < ses'[t].buffer[k]
  <2>1. r.cmd /= 0 => r.cmd < sent'
    BY <1>11 DEF Known, Waits, r
  <2>2. \A i \in 1 .. Len(b) : b[i] < sent'
    BY <1>11 DEF Known, Waits, r, b
  <2>3. \A i \in 1 .. Len(b) :
         /\ r.cmd /= 0 => r.cmd < b[i]
         /\ \A k \in 1 .. Len(b) : i < k => b[i] < b[k]
    BY DEF OrderInv, r, b
  <2>4. \A i \in 1 .. n :
         /\ rec.cmd /= 0 => rec.cmd < rec.buffer[i]
         /\ \A k \in 1 .. n : i < k => rec.buffer[i] < rec.buffer[k]
    BY <1>4, <1>5, <1>7, <1>8, <2>1, <2>2, <2>3
  <2> QED
    BY <1>6, <1>8, <2>4 DEF OrderInv
<1> QED
  BY <1>1, <1>6, <1>12, <1>13, <1>14, <1>15 DEF OrderInv

\* Every step keeps the order.
LEMMA OrderStep ==
    ASSUME TypeOK, SessionInv, OrderInv, [Next]_vars
    PROVE  OrderInv'
<1>0. /\ sent \in Nat /\ Len(ses) \in Nat /\ Sessions = 1 .. Len(ses) /\ ses \in Seq(SessionType)
      /\ Sessions \subseteq Nat /\ Handling
  BY LenProperties DEF TypeOK, Sessions, SessionInv
<1>1. ASSUME NEW s \in Sessions, QuietStep(s) \/ HandlerStarts(s) \/ HandlerEnds(s)
      PROVE  OrderInv'
  <2>1. PICK rec \in SessionType :
          /\ ses' = [ses EXCEPT ![s] = rec] /\ rec.cmd = ses[s].cmd /\ rec.buffer = ses[s].buffer
          /\ UNCHANGED <<sent, handled>>
    <3>1. CASE QuietStep(s)
      BY <3>1, QuietEffect
    <3>2. CASE HandlerStarts(s)
      <4> DEFINE rec == [ses[s] EXCEPT !.handler = "serving"]
      <4>1. ses' = [ses EXCEPT ![s] = rec] /\ UNCHANGED <<sent, handled>>
        BY <3>2 DEF HandlerStarts, Set
      <4>2. rec \in SessionType /\ rec.cmd = ses[s].cmd /\ rec.buffer = ses[s].buffer
        BY SessionTyped DEF SessionType
      <4> QED
        BY <4>1, <4>2
    <3>3. CASE HandlerEnds(s)
      <4> DEFINE rec == [ses[s] EXCEPT !.handler = "over"]
      <4>1. ses' = [ses EXCEPT ![s] = rec] /\ UNCHANGED <<sent, handled>>
        BY <3>3 DEF HandlerEnds, Set
      <4>2. rec \in SessionType /\ rec.cmd = ses[s].cmd /\ rec.buffer = ses[s].buffer
        BY SessionTyped DEF SessionType
      <4> QED
        BY <4>1, <4>2
    <3> QED
      BY <1>1, <3>1, <3>2, <3>3
  <2>2. Sessions' = Sessions /\ ses'[s] = rec /\ \A t \in Sessions \ {s} : ses'[t] = ses[t]
    BY <2>1, Update
  <2> QED
    BY <1>0, <2>1, <2>2, OrderKept
<1>2. ASSUME NEW s \in Sessions, ParentSends(s) PROVE OrderInv'
  <2>1. CASE ses' = ses
    <3>1. handled' = handled /\ sent' \in Nat /\ sent <= sent' /\ Sessions' = Sessions
      BY <1>0, <1>2, <2>1 DEF ParentSends, Sessions
    <3> QED
      BY <1>0, <2>1, <3>1, OrderKept
  <2>2. CASE ses' /= ses
    BY <1>2, <2>2, OrderSend
  <2> QED
    BY <2>1, <2>2
<1>3. CASE StartSession
  <2>1. ses' = Append(ses, NewSession) /\ UNCHANGED <<sent, handled>>
    BY <1>3 DEF StartSession
  <2>2. NewSession \in SessionType /\ NewSession.cmd = 0 /\ Len(NewSession.buffer) = 0
    BY EmptySeq, TunnelAssumption DEF NewSession, SessionType
  <2>3. PICK n \in Nat : n = Len(ses) + 1
    BY <1>0
  <2>4. /\ ses' \in Seq(SessionType) /\ Len(ses') = n /\ ses'[n] = NewSession
        /\ \A t \in Sessions : ses'[t] = ses[t]
    BY <1>0, <2>1, <2>2, <2>3, AppendProperties
  <2>5. Sessions' = 1 .. n /\ \A t \in 1 .. n : t \in Sessions \/ t = n
    BY <1>0, <2>3, <2>4, LenProperties DEF Sessions
  <2>6. \A t \in Sessions : ses'[t].cmd = ses[t].cmd /\ ses'[t].buffer = ses[t].buffer
    BY <2>4
  <2>7. \A t \in Sessions' \ Sessions : ses'[t].cmd = 0 /\ Len(ses'[t].buffer) = 0
    BY <2>2, <2>4, <2>5
  <2>8. Sessions' \subseteq Nat /\ Sessions \subseteq Sessions'
    BY <1>0, <2>3, <2>5
  <2>9. handled' = handled /\ sent' \in Nat /\ sent <= sent'
    BY <1>0, <2>1
  <2> QED
    BY <2>6, <2>7, <2>8, <2>9, OrderKept
<1>4. CASE SessionFails \/ SessionStops
  <2>1. PICK k \in Sessions : k = Len(ses)
    <3>1. sup.pc = "session"
      BY <1>4 DEF SessionFails, SessionStops
    <3>2. Len(ses) > 0
      BY <3>1 DEF SessionInv
    <3> QED
      BY <1>0, <3>2
  <2>2. PICK rec \in SessionType :
          /\ ses' = [ses EXCEPT ![k] = rec] /\ rec.cmd = ses[k].cmd /\ rec.buffer = ses[k].buffer
    BY <1>4, <2>1, SessionEnds
  <2>3. UNCHANGED <<sent, handled>>
    BY <1>4 DEF SessionFails, SessionStops
  <2>4. Sessions' = Sessions /\ ses'[k] = rec /\ \A t \in Sessions \ {k} : ses'[t] = ses[t]
    BY <2>2, Update
  <2>5. \A t \in Sessions : ses'[t].cmd = ses[t].cmd /\ ses'[t].buffer = ses[t].buffer
    BY <2>2, <2>4
  <2>6. handled' = handled /\ sent' \in Nat /\ sent <= sent' /\ Sessions' = Sessions
    BY <1>0, <2>3, <2>4
  <2> QED
    BY <1>0, <2>5, <2>6, OrderKept
<1>5. CASE BackoffEnds \/ SupervisorStops \/ Sigterm \/ UNCHANGED vars
  <2>1. UNCHANGED <<ses, sent, handled>>
    BY <1>5 DEF BackoffEnds, SupervisorStops, Sigterm, vars
  <2> QED
    BY <1>0, <2>1, OrderKept DEF Sessions
<1> QED
  BY <1>0, <1>1, <1>2, <1>3, <1>4, <1>5, OrderRecv, OrderHandle
     DEF Next, Supervise, Polls, QuietStep

\* Commands are handled in the order they were sent, once each, except that a command
\* of an earlier session may be handled after those of a later one (client.go:188-196):
\* for any number of sessions, failures and commands.
THEOREM InversionsOnlyAcrossSessions == Spec => []InversionsAreStale
<1>1. Init => TypeOK /\ SessionInv /\ OrderInv
  BY SessionInit, OrderInit
<1>2. TypeOK /\ SessionInv /\ OrderInv /\ [Next]_vars => (TypeOK /\ SessionInv /\ OrderInv)'
  BY TunnelStep, OrderStep
<1>3. TypeOK /\ OrderInv => InversionsAreStale
  <2> SUFFICES ASSUME TypeOK, OrderInv, NEW i \in DOMAIN handled, NEW j \in DOMAIN handled, i < j
               PROVE  /\ handled[i].cmd /= handled[j].cmd
                      /\ handled[i].cmd > handled[j].cmd => handled[j].session < handled[i].session
    BY DEF InversionsAreStale
  <2>1. i \in 1 .. Len(handled) /\ j \in 1 .. Len(handled)
    BY LenProperties DEF TypeOK
  <2>2. handled[i].session \in Sessions /\ handled[j].session \in Sessions
    BY <2>1 DEF OrderInv
  <2>3. /\ Known(handled[i].session, handled[i].cmd) /\ Known(handled[j].session, handled[j].cmd)
        /\ handled[i].cmd \in Nat /\ handled[j].cmd \in Nat
    <3>1. handled \in Seq(Handled)
      BY DEF TypeOK, Handled
    <3>2. handled[i] \in Handled /\ handled[j] \in Handled
      BY <2>1, <3>1, ElementOfSeq
    <3>3. handled[i].cmd \in Nat /\ handled[j].cmd \in Nat
      BY <3>2 DEF Handled
    <3> QED
      BY <2>1, <3>3 DEF Known, Was
  <2>4. handled[i].session \in Nat /\ handled[j].session \in Nat
    BY <2>2, SessionTyped
  <2>5. CASE handled[i].session = handled[j].session
    BY <2>1, <2>3, <2>5 DEF OrderInv
  <2>6. CASE handled[i].session < handled[j].session
    <3>1. handled[i].cmd < handled[j].cmd
      BY <2>2, <2>3, <2>6 DEF OrderInv
    <3> QED
      BY <2>3, <3>1
  <2>7. CASE handled[j].session < handled[i].session
    <3>1. handled[j].cmd < handled[i].cmd
      BY <2>2, <2>3, <2>7 DEF OrderInv
    <3> QED
      BY <2>3, <2>7, <3>1
  <2> QED
    BY <2>4, <2>5, <2>6, <2>7
<1> QED
  BY <1>1, <1>2, <1>3, PTL DEF Spec

---------------------------------------------------------------------------
(* The load figures: the busy share, rounded to the nearest, of two samples
   between which the idle time grew by no more than the total; and 100 whenever a
   counter of idle time went back or grew by more, which the kernel's iowait may. *)

\* r is 100 * n / d, rounded to the nearest, halves up.
Nearest(r, n, d) == 2 * d * r <= 200 * n + d /\ 200 * n + d < 2 * d * (r + 1)

\* Division with remainder, for the quotient in clampPct (sysload.go:137).
LEMMA Quotient ==
    ASSUME NEW a \in Nat, NEW b \in Nat \ {0}
    PROVE  /\ a \div b \in Nat
           /\ b * (a \div b) <= a
           /\ a < b * (a \div b + 1)
  BY Z3

\* A quotient of at most 1 becomes a figure in 0 .. 100, rounded to the nearest
\* (clampPct, sysload.go:137).
LEMMA ClampRounds ==
    ASSUME NEW n \in Nat, NEW d \in Nat \ {0}, n <= d
    PROVE  ClampPct(n, d) \in 0 .. 100 /\ Nearest(ClampPct(n, d), n, d)
<1> DEFINE a == 200 * n + d
           b == 2 * d
           r == a \div b
<1>1. a \in Nat /\ b \in Nat \ {0}
  OBVIOUS
<1>2. r \in Nat /\ b * r <= a /\ a < b * (r + 1)
  BY <1>1, Quotient
<1>3. ClampPct(n, d) = r
  BY DEF ClampPct
<1>4. r <= 100
  <2>1. SUFFICES ASSUME r >= 101 PROVE FALSE
    BY <1>2
  <2>2. b * r >= b * 101
    BY <1>1, <1>2, <2>1
  <2>3. a <= 201 * d
    OBVIOUS
  <2> QED BY <1>2, <2>2, <2>3
<1> QED BY <1>2, <1>3, <1>4 DEF Nearest

\* Every figure is a percentage (clampPct, sysload.go:137).
LEMMA ClampInRange ==
    ASSUME NEW n \in Nat, NEW d \in Nat \ {0}
    PROVE  ClampPct(n, d) \in 0 .. 100
<1>1. CASE n <= d
  BY <1>1, ClampRounds
<1>2. CASE n > d
  BY <1>2 DEF ClampPct
<1> QED BY <1>1, <1>2

\* Unsigned subtraction stays among the counters.
LEMMA MinusType ==
    ASSUME NEW a \in Counter, NEW b \in Counter
    PROVE  Minus(a, b) \in Counter
  BY ModulusAssumption DEF Minus, Counter

\* cpuPct (sysload.go:85) is the busy share of the time between two samples, to the
\* nearest, if the idle time grew by no more than the total did.
THEOREM CpuIsBusyShare ==
    ASSUME NEW prev \in Sample, NEW cur \in Sample, Comparable(prev, cur),
           prev.idle <= cur.idle, cur.idle - prev.idle <= cur.total - prev.total
    PROVE  /\ CpuPct(prev, cur) \in 0 .. 100
           /\ Nearest(CpuPct(prev, cur),
                      (cur.total - prev.total) - (cur.idle - prev.idle),
                      cur.total - prev.total)
<1> DEFINE dt == cur.total - prev.total
           di == cur.idle - prev.idle
<1>1. /\ prev.total \in Nat /\ cur.total \in Nat
      /\ prev.idle \in Nat /\ cur.idle \in Nat
  BY ModulusAssumption DEF Sample, Counter
<1>2. dt \in Nat \ {0} /\ di \in Nat /\ dt - di \in Nat /\ dt - di <= dt
  BY <1>1 DEF Comparable
<1>3. Minus(cur.total, prev.total) = dt /\ Minus(cur.idle, prev.idle) = di /\ Minus(dt, di) = dt - di
  BY <1>1, <1>2 DEF Minus, Comparable
<1>4. CpuPct(prev, cur) = ClampPct(dt - di, dt)
  BY <1>3 DEF CpuPct
<1> HIDE DEF dt, di
<1>5. CpuPct(prev, cur) \in 0 .. 100 /\ Nearest(CpuPct(prev, cur), dt - di, dt)
  BY <1>2, <1>4, ClampRounds
<1> QED BY <1>5 DEF dt, di

\* Whatever the counters do, the figure of the heartbeat is a percentage
\* (sysload.go:91: no wrapped difference gets through).
THEOREM CpuInRange ==
    ASSUME NEW prev \in Sample, NEW cur \in Sample, Comparable(prev, cur)
    PROVE  CpuPct(prev, cur) \in 0 .. 100
<1> DEFINE dt == Minus(cur.total, prev.total)
           di == Minus(cur.idle, prev.idle)
<1>1. dt \in Counter /\ di \in Counter /\ Minus(dt, di) \in Counter
  BY MinusType DEF Sample
<1>2. dt > 0
  BY ModulusAssumption DEF Sample, Counter, Comparable, Minus
<1>3. dt \in Nat \ {0} /\ Minus(dt, di) \in Nat
  BY <1>1, <1>2, ModulusAssumption DEF Counter
<1> HIDE DEF dt, di
<1>4. ClampPct(Minus(dt, di), dt) \in 0 .. 100
  BY <1>3, ClampInRange
<1> QED BY <1>4 DEF CpuPct, dt, di

\* Idle time that goes back, as iowait may, or that grows by more than the total makes
\* cpuPct report a full processor (sysload.go:87-91: only the totals are compared).
THEOREM IdleJumpReadsFull ==
    ASSUME NEW prev \in Sample, NEW cur \in Sample, Comparable(prev, cur),
           prev.idle <= prev.total,
           cur.idle < prev.idle \/ cur.idle - prev.idle > cur.total - prev.total
    PROVE  CpuPct(prev, cur) = 100
<1> DEFINE dt == cur.total - prev.total
           di == Minus(cur.idle, prev.idle)
<1>1. /\ prev.total \in Nat /\ cur.total \in Nat /\ cur.total < Modulus
      /\ prev.idle \in Nat /\ cur.idle \in Nat /\ cur.idle < Modulus /\ Modulus \in Nat
      /\ prev.total < cur.total
  BY ModulusAssumption DEF Sample, Counter, Comparable
<1>2. Minus(cur.total, prev.total) = dt
  BY <1>1 DEF Minus
<1>3. Minus(dt, di) > dt
  <2>1. CASE cur.idle < prev.idle
    <3>1. di = cur.idle - prev.idle + Modulus
      BY <1>1, <2>1 DEF Minus
    <3>2. dt < di
      BY <1>1, <3>1
    <3> QED BY <1>1, <2>1, <3>1, <3>2 DEF Minus
  <2>2. CASE cur.idle >= prev.idle /\ cur.idle - prev.idle > dt
    <3>1. di = cur.idle - prev.idle
      BY <1>1, <2>2 DEF Minus
    <3> QED BY <1>1, <2>2, <3>1 DEF Minus
  <2> QED BY <1>1, <2>1, <2>2
<1>4. CpuPct(prev, cur) = ClampPct(Minus(dt, di), dt)
  BY <1>2 DEF CpuPct
<1> QED BY <1>3, <1>4 DEF ClampPct

\* memPct and diskPct (sysload.go:95, 128) are the used share, to the nearest.  When more
\* is free than there is, the difference wraps to a number beyond the total: 100.
THEOREM UsedIsUsedShare ==
    ASSUME NEW total \in Counter \ {0}, NEW free \in Counter
    PROVE  /\ UsedPct(total, free) \in 0 .. 100
           /\ free <= total => Nearest(UsedPct(total, free), total - free, total)
           /\ free > total => UsedPct(total, free) = 100
<1>1. total \in Nat \ {0} /\ free \in Nat /\ free < Modulus /\ Modulus \in Nat
  BY ModulusAssumption DEF Counter
<1>2. UsedPct(total, free) = ClampPct(Minus(total, free), total)
  BY <1>1 DEF UsedPct
<1>3. CASE free <= total
  <2>1. Minus(total, free) = total - free /\ total - free \in Nat /\ total - free <= total
    BY <1>1, <1>3 DEF Minus
  <2> QED BY <1>1, <1>2, <1>3, <2>1, ClampRounds
<1>4. CASE free > total
  <2>1. Minus(total, free) > total
    BY <1>1, <1>4 DEF Minus
  <2> QED BY <1>1, <1>2, <1>4, <2>1 DEF ClampPct
<1> QED BY <1>1, <1>3, <1>4
=============================================================================
