------------------------------ MODULE CallProofs ------------------------------
(***************************************************************************)
(* Proofs about the two calls in which the agent acts for its parent and   *)
(* tells it how that went: a run of an AI agent (Runner) and a mail        *)
(* (SmtpDelivery).  In both, what the parent is told follows from what the *)
(* call had waited for or had counted when it returned.                    *)
(***************************************************************************)
EXTENDS Runner, SmtpDelivery, FiniteSetTheorems, SequenceTheorems, FunctionTheorems, TLAPS

---------------------------------------------------------------------------
(* The run. *)

RunResults == [status : {"none", "success", "failed", "timeout"}, parts : Nat]

RunTypeOK ==
    /\ kind \in Kinds
    /\ cctx \in {"live", "deadline", "cancelled"}
    /\ Exec => /\ run \in {"call", "wait", "copy", "judge", "done"}
               /\ agent \in {"none", "running", "exit0", "exit1", "killed"}
               /\ heir \in {"none", "running", "gone"}
    /\ ~Exec => /\ run \in {"call", "headers", "body", "done"}
                /\ agent \in {"none", "running", "answering", "complete", "broken"}
                /\ heir = "none"
    /\ err \in BOOLEAN
    /\ claim \in {"report", "error", "errorOnly"}
    /\ answer \in {"2xx", "other"}
    /\ written \in Nat /\ read \in Nat
    /\ result \in RunResults

\* Nothing was started: nothing can have been written, or have inherited the pipe.
NothingStarted ==
    /\ run = "call" => agent = "none"
    /\ agent = "none" => written = 0 /\ heir = "none" /\ (run = "judge" => err)
    /\ agent = "none" => run \in {"call", "judge", "done"}

\* What exec.Cmd.Run has waited for is over, and stays over: first the child, then all
\* who have the pipe; and only then is the pipe known to be drained.
Waited ==
    /\ read <= written
    /\ Exec /\ run \in {"copy", "judge", "done"} => agent /= "running"
    /\ Exec /\ run \in {"judge", "done"} => heir /= "running" /\ read = written
    /\ Exec /\ run \in {"copy", "judge"} /\ ~err => agent = "exit0"
    /\ run = "body" => agent \in {"answering", "complete", "broken"}

\* What a success was judged from, all of it final when Run returns.
Judged ==
    result.status = "success" =>
        /\ run = "done" /\ result.parts = read
        /\ IF Exec THEN agent = "exit0" /\ ~(kind = "claude_code" /\ claim = "error")
                   ELSE /\ answer = "2xx" /\ agent \in {"answering", "complete", "broken"}
                        /\ BodyCut \/ (agent = "complete" /\ read = written)

RunInv == RunTypeOK /\ NothingStarted /\ Waited /\ Judged

LEMMA RunStart == RunInit => RunInv
<1> SUFFICES ASSUME RunInit PROVE RunInv
  OBVIOUS
<1>1. result \in RunResults /\ result.status = "none"
  BY DEF RunInit, NoResult, RunResults
<1>2. RunTypeOK
  BY <1>1 DEF RunInit, RunTypeOK, Kinds, Exec
<1>3. NothingStarted /\ Waited /\ Judged
  BY <1>1 DEF RunInit, NothingStarted, Waited, Judged, Exec
<1>4. QED
  BY <1>2, <1>3 DEF RunInv

LEMMA ReturnsResult ==
    ASSUME NEW s \in {"success", "failed", "timeout"}, NEW n \in Nat, Returns(s, n)
    PROVE  run' = "done" /\ result' \in RunResults /\ result'.status = s /\ result'.parts = n
BY DEF Returns, RunResults

\* The child, its descendants and the server.
LEMMA AgentKeeps == ASSUME RunInv, Agent PROVE RunInv'
<1> USE DEF Kinds, Exec, RunInv
<1>1. CASE Writes
  BY <1>1 DEF Writes, RunTypeOK, NothingStarted, Waited, Judged, BodyCut
<1>2. CASE Forks
  BY <1>2 DEF Forks, RunTypeOK, NothingStarted, Waited, Judged, BodyCut
<1>3. CASE HeirEnds
  BY <1>3 DEF HeirEnds, RunTypeOK, NothingStarted, Waited, Judged, BodyCut
<1>4. CASE ChildExits
  BY <1>4 DEF ChildExits, RunTypeOK, NothingStarted, Waited, Judged, BodyCut
<1>5. CASE ServerSteps
  BY <1>5 DEF ServerSteps, RunTypeOK, NothingStarted, Waited, Judged, BodyCut
<1>6. QED
  BY <1>1, <1>2, <1>3, <1>4, <1>5 DEF Agent

\* Run of claude_code and custom_exec, and the refusal of all runners.
LEMMA WaitKeeps == ASSUME RunInv, Wait \/ Copies PROVE RunInv'
<1> USE DEF Kinds, Exec, RunInv
<1>1. CASE Rejects
  <2>1. run' = "done" /\ result' \in RunResults /\ result'.status = "failed"
    BY <1>1, ReturnsResult DEF Rejects
  <2>2. QED
    BY <1>1, <2>1 DEF Rejects, RunTypeOK, NothingStarted, Waited, Judged, BodyCut
<1>2. CASE StartsChild
  BY <1>2 DEF StartsChild, RunTypeOK, NothingStarted, Waited, Judged, BodyCut
<1>3. CASE StartFails
  BY <1>3 DEF StartFails, RunTypeOK, NothingStarted, Waited, Judged, BodyCut
<1>4. CASE Kills
  BY <1>4 DEF Kills, RunTypeOK, NothingStarted, Waited, Judged, BodyCut
<1>5. CASE Reaps
  BY <1>5 DEF Reaps, RunTypeOK, NothingStarted, Waited, Judged, BodyCut
<1>6. CASE CopyEnds
  BY <1>6 DEF CopyEnds, RunTypeOK, NothingStarted, Waited, Judged, BodyCut
<1>7. CASE Judges
  <2> DEFINE n == IF cctx = "deadline" \/ (err /\ kind = "claude_code") THEN 0 ELSE read
  <2>1. n \in Nat /\ (Status = "success" => n = read)
    BY DEF RunTypeOK, Status
  <2>2. Status \in {"success", "failed", "timeout"}
    BY DEF RunTypeOK, Status
  <2>3. /\ run' = "done" /\ result' \in RunResults
        /\ result'.status = Status /\ result'.parts = n
    BY <1>7, <2>1, <2>2, ReturnsResult DEF Judges
  <2>4. Status = "success" => ~err /\ ~(kind = "claude_code" /\ claim = "error")
    BY DEF RunTypeOK, Status
  <2>5. Judged'
    BY <1>7, <2>1, <2>3, <2>4 DEF Judges, RunTypeOK, Waited, Judged
  <2>6. QED
    BY <1>7, <2>3, <2>5 DEF Judges, RunTypeOK, NothingStarted, Waited
<1>8. CASE Copies
  BY <1>8 DEF Copies, RunTypeOK, NothingStarted, Waited, Judged, BodyCut
<1>9. QED
  BY <1>1, <1>2, <1>3, <1>4, <1>5, <1>6, <1>7, <1>8 DEF Wait

\* httpRun.
LEMMA HttpKeeps == ASSUME RunInv, Http \/ ReadsBody PROVE RunInv'
<1> USE RunnerAssumption DEF Kinds, Exec, RunInv
<1>1. CASE Posts
  BY <1>1 DEF Posts, RunTypeOK, NothingStarted, Waited, Judged, BodyCut
<1>2. CASE DoFails
  <2>1. /\ run' = "done" /\ result' \in RunResults
        /\ result'.status \in {"failed", "timeout"}
    BY <1>2, ReturnsResult DEF DoFails
  <2>2. QED
    BY <1>2, <2>1 DEF DoFails, RunTypeOK, NothingStarted, Waited, Judged, BodyCut
<1>3. CASE GetsHeaders
  BY <1>3 DEF GetsHeaders, RunTypeOK, NothingStarted, Waited, Judged, BodyCut
<1>4. CASE BodyEnds
  <2>1. CASE answer = "2xx"
    <3>1. /\ run' = "done" /\ result' \in RunResults
          /\ result'.status = "success" /\ result'.parts = read
      BY <1>4, <2>1, ReturnsResult DEF BodyEnds, RunTypeOK
    <3>2. QED
      BY <1>4, <2>1, <3>1
      DEF BodyEnds, RunTypeOK, NothingStarted, Waited, Judged, BodyCut
  <2>2. CASE answer /= "2xx"
    <3>1. run' = "done" /\ result' \in RunResults /\ result'.status = "failed"
      BY <1>4, <2>2, ReturnsResult DEF BodyEnds
    <3>2. QED
      BY <1>4, <2>2, <3>1 DEF BodyEnds, RunTypeOK, NothingStarted, Waited, Judged, BodyCut
  <2>3. QED
    BY <2>1, <2>2
<1>5. CASE ReadsBody
  BY <1>5 DEF ReadsBody, RunTypeOK, NothingStarted, Waited, Judged, BodyCut
<1>6. QED
  BY <1>1, <1>2, <1>3, <1>4, <1>5 DEF Http

THEOREM RunInvariant == RunSpec => []RunInv
<1>1. RunInv /\ [RunNext]_runVars => RunInv'
  <2> SUFFICES ASSUME RunInv, [RunNext]_runVars PROVE RunInv'
    OBVIOUS
  <2>1. CASE Deadline
    BY <2>1 DEF Deadline, RunInv, RunTypeOK, NothingStarted, Waited, Judged, BodyCut, Exec
  <2>2. CASE Cancel
    BY <2>2 DEF Cancel, RunInv, RunTypeOK, NothingStarted, Waited, Judged, BodyCut, Exec
  <2>3. CASE UNCHANGED runVars
    BY <2>3 DEF runVars, RunInv, RunTypeOK, NothingStarted, Waited, Judged, BodyCut, Exec
  <2>4. QED
    BY <2>1, <2>2, <2>3, AgentKeeps, WaitKeeps, HttpKeeps DEF RunNext
<1>2. QED
  BY <1>1, RunStart, PTL DEF RunSpec

\* A run is reported successful only with all that the agent wrote, and if the agent
\* did not fail (Status and BodyEnds of runner.go), whatever the deadline, descendants
\* and SIGTERM did, for outputs and body limits of any size.
THEOREM SuccessesAreTrue == RunSpec => []SuccessIsTrue
<1>1. RunInv => SuccessIsTrue
  BY DEF RunInv, RunTypeOK, Judged, Waited, SuccessIsTrue, AgentFailed, Whole, Kinds, Exec
<1>2. QED
  BY <1>1, RunInvariant, PTL

\* When Run returns, neither the child nor a descendant is left that writes into its
\* output: exec.Cmd.Run waits for the child and for the end of the pipe.
THEOREM NobodyIsLeft == RunSpec => []NobodyLeft
<1>1. RunInv => NobodyLeft
  BY DEF RunInv, Waited, NobodyLeft
<1>2. QED
  BY <1>1, RunInvariant, PTL

---------------------------------------------------------------------------
(* The mail. *)

MailTypeOK ==
    /\ pref \in UNION {[M -> Preferences] : M \in SUBSET MX}
    /\ hosts \in Seq(Hosts) /\ tried \in Seq(Hosts)
    /\ stage \in {"start", "next", "session", "final", "done"}
    /\ code \in {"none", "2", "4", "5"}
    /\ mxHost \in Hosts \cup {"none"}
    /\ taken \in SUBSET (Hosts \cup {"none"}) /\ IsFiniteSet(taken)
    /\ lostAcks \in Nat

\* The order of handle is fixed when the hosts are resolved: what was tried and what
\* is left are together one order that resolveMX may return, or the domain alone.
OneOrder ==
    /\ stage = "start" => tried = <<>> /\ hosts = <<>>
    /\ \/ tried \o hosts = <<>>
       \/ tried \o hosts = <<DomainItself>>
       \/ tried \o hosts \in ResolveMX(pref)

\* Each copy was paid for with a lost reply, but for the one that ended the loop; what
\* was told to the parent is told by the code of that end.
CopiesPaid ==
    /\ Cardinality(taken) <= IF code = "2" THEN lostAcks + 1 ELSE lostAcks
    /\ code = "2" => stage = "done"
    /\ \A r \in results : r.status /= "SENT" => code /= "2"
    /\ stage /= "done" => results = {}

MailInv == MailTypeOK /\ OneOrder /\ CopiesPaid

LEMMA MailStart == Init => MailInv
<1> SUFFICES ASSUME Init PROVE MailInv
  OBVIOUS
<1>1. MailTypeOK
  BY FS_EmptySet, EmptySeq DEF Init, MailTypeOK
<1>2. OneOrder
  BY EmptySeq, ConcatEmptySeq DEF Init, OneOrder
<1>3. CopiesPaid
  BY FS_EmptySet DEF Init, CopiesPaid
<1>4. QED
  BY <1>1, <1>2, <1>3 DEF MailInv

\* An order of the hosts is a sequence of them, each there exactly once.
LEMMA OrderOfMX ==
    ASSUME pref \in UNION {[M -> Preferences] : M \in SUBSET MX}, NEW s \in ResolveMX(pref)
    PROVE  /\ s \in Seq(Hosts)
           /\ \A m \in DOMAIN pref : \E k \in 1 .. Len(s) : s[k] = m
           /\ \A k \in 1 .. Len(s) : s[k] \in DOMAIN pref
           /\ \A i, j \in 1 .. Len(s) : i < j => s[i] /= s[j] /\ pref[s[i]] <= pref[s[j]]
<1> DEFINE D == DOMAIN pref
           n == Cardinality(D)
<1>1. D \in SUBSET MX /\ IsFiniteSet(D)
  BY SmtpAssumption, FS_Subset
<1>2. n \in Nat
  BY <1>1, FS_CardinalityType
<1>3. s \in [1 .. n -> D] /\ \A i, j \in 1 .. n : i /= j => s[i] /= s[j]
  BY DEF ResolveMX, SetToSeqs
<1>4. s \in Seq(D) /\ Len(s) = n
  BY <1>2, <1>3
<1>5. s \in Seq(Hosts)
  BY <1>1, <1>2, <1>3 DEF Hosts
<1>6. IsFiniteSet(1 .. n) /\ Cardinality(1 .. n) = n
  BY <1>2, FS_Interval
<1>7. s \in Injection(1 .. n, D)
  <2>1. DOMAIN s = 1 .. n /\ IsInjective(s)
    BY <1>3 DEF IsInjective
  <2>2. QED
    BY <1>3, <2>1 DEF Injection
<1>8. s \in Surjection(1 .. n, D)
  BY <1>1, <1>6, <1>7, FS_Injection
<1>9. \A i, j \in 1 .. Len(s) : i < j => pref[s[i]] <= pref[s[j]]
  BY DEF ResolveMX
<1>10. QED
  <2>1. \A m \in D : \E k \in 1 .. Len(s) : s[k] = m
    BY <1>4, <1>8 DEF Surjection
  <2>2. QED
    BY <1>2, <1>3, <1>4, <1>5, <1>9, <2>1

\* The loop takes the first of the hosts that are left.
LEMMA LoopKeepsOrder ==
    ASSUME NEW S, NEW t \in Seq(S), NEW h \in Seq(S), h /= <<>>
    PROVE  /\ Append(t, Head(h)) \in Seq(S) /\ Tail(h) \in Seq(S)
           /\ Append(t, Head(h)) \o Tail(h) = t \o h
<1>1. Head(h) \in S /\ Tail(h) \in Seq(S) /\ h = <<Head(h)>> \o Tail(h)
  OBVIOUS
<1>2. <<Head(h)>> \in Seq(S)
  BY <1>1
<1>3. Append(t, Head(h)) = t \o <<Head(h)>>
  BY <1>1, AppendIsConcat
<1>4. (t \o <<Head(h)>>) \o Tail(h) = t \o (<<Head(h)>> \o Tail(h))
  BY <1>1, <1>2, ConcatAssociative
<1>5. QED
  BY <1>1, <1>2, <1>3, <1>4, ConcatProperties

LEMMA OrderKept == ASSUME MailInv, [Next]_vars PROVE OneOrder'
<1> USE DEF MailInv
<1>1. CASE Resolve
  <2>1. tried' = <<>> /\ pref' = pref /\ stage' /= "start"
    BY <1>1 DEF Resolve, OneOrder
  <2>2. hosts' \in ResolveMX(pref) \/ hosts' = <<DomainItself>>
    BY <1>1 DEF Resolve
  <2>3. hosts' \in Seq(Hosts)
    <3>1. \A s \in ResolveMX(pref) : s \in Seq(Hosts)
      BY OrderOfMX DEF MailTypeOK
    <3>2. <<DomainItself>> \in Seq(Hosts)
      BY DEF Hosts
    <3>3. QED
      BY <2>2, <3>1, <3>2
  <2>4. tried' \o hosts' = hosts'
    BY <2>1, <2>3, ConcatEmptySeq
  <2>5. tried' \o hosts' \in ResolveMX(pref') \/ tried' \o hosts' = <<DomainItself>>
    BY <2>1, <2>2, <2>4
  <2>6. QED
    BY <2>1, <2>5 DEF OneOrder
<1>2. CASE TryNext
  <2>1. tried' \o hosts' = tried \o hosts
    BY <1>2, LoopKeepsOrder DEF TryNext, MailTypeOK
  <2>2. QED
    BY <1>2, <2>1 DEF TryNext, OneOrder
<1>3. CASE UNCHANGED <<tried, hosts, pref>> /\ stage' /= "start"
  BY <1>3 DEF OneOrder
<1>4. CASE UNCHANGED vars
  BY <1>4 DEF vars, OneOrder
<1>5. QED
  <2>1. Refuse \/ ResolveFails \/ GiveUp \/ Deliver =>
            UNCHANGED <<tried, hosts, pref>> /\ stage' /= "start"
    BY DEF Refuse, ResolveFails, GiveUp, Report, Deliver, SessionFails, SendData,
           FinalRefused, DataLost, AckLost, Accepted
  <2>2. QED
    BY <1>1, <1>2, <1>3, <1>4, <2>1 DEF Next, Handle, Done

LEMMA MailTypeKept == ASSUME MailInv, [Next]_vars PROVE MailTypeOK'
<1> USE DEF MailInv, MailTypeOK
<1>1. CASE Resolve
  <2>1. \A s \in ResolveMX(pref) : s \in Seq(Hosts)
    BY OrderOfMX
  <2>2. <<DomainItself>> \in Seq(Hosts)
    BY DEF Hosts
  <2>3. hosts' \in Seq(Hosts)
    BY <1>1, <2>1, <2>2 DEF Resolve
  <2>4. QED
    BY <1>1, <2>3 DEF Resolve
<1>2. CASE TryNext
  <2>1. tried' \in Seq(Hosts) /\ hosts' \in Seq(Hosts) /\ mxHost' \in Hosts
    BY <1>2, LoopKeepsOrder, HeadTailProperties DEF TryNext
  <2>2. QED
    BY <1>2, <2>1 DEF TryNext
<1>3. CASE AckLost \/ Accepted
  <2>1. IsFiniteSet(taken') /\ taken' \in SUBSET (Hosts \cup {"none"})
    BY <1>3, FS_AddElement DEF AckLost, Accepted
  <2>2. QED
    BY <1>3, <2>1 DEF AckLost, Accepted, Report
<1>4. CASE Refuse \/ ResolveFails \/ GiveUp \/ SessionFails \/ SendData \/ FinalRefused \/ DataLost
  BY <1>4 DEF Refuse, ResolveFails, GiveUp, Report, SessionFails, SendData, FinalRefused, DataLost
<1>5. CASE UNCHANGED vars
  BY <1>5 DEF vars
<1>6. QED
  BY <1>1, <1>2, <1>3, <1>4, <1>5 DEF Next, Handle, Deliver, Done

LEMMA CopiesKept == ASSUME MailInv, [Next]_vars PROVE CopiesPaid'
<1> USE DEF MailInv
<1>1. taken \in SUBSET (Hosts \cup {"none"}) /\ IsFiniteSet(taken) /\ lostAcks \in Nat
  BY DEF MailTypeOK
<1>2. Cardinality(taken) \in Nat
  BY <1>1, FS_CardinalityType
<1>3. \A x : Cardinality(taken \cup {x}) <= Cardinality(taken) + 1
  BY <1>1, <1>2, FS_AddElement
<1>4. CASE Refuse \/ Resolve \/ ResolveFails \/ TryNext \/ GiveUp
  BY <1>4
  DEF Refuse, Resolve, ResolveFails, TryNext, GiveUp, Report, Result, CopiesPaid
<1>5. CASE SessionFails \/ SendData \/ FinalRefused \/ DataLost
  BY <1>1, <1>2, <1>5 DEF SessionFails, SendData, FinalRefused, DataLost, CopiesPaid
<1>6. CASE AckLost
  <2>1. Cardinality(taken') <= Cardinality(taken) + 1
    BY <1>3, <1>6 DEF AckLost
  <2>2. Cardinality(taken) <= lostAcks
    BY <1>6 DEF AckLost, CopiesPaid
  <2>3. Cardinality(taken') \in Nat
    BY <1>1, <1>6, FS_AddElement, FS_CardinalityType DEF AckLost
  <2>4. lostAcks' = lostAcks + 1 /\ code' = "none"
    BY <1>6 DEF AckLost
  <2>5. Cardinality(taken') <= IF code' = "2" THEN lostAcks' + 1 ELSE lostAcks'
    BY <1>1, <1>2, <2>1, <2>2, <2>3, <2>4
  <2>6. QED
    BY <1>6, <2>4, <2>5 DEF AckLost, CopiesPaid
<1>7. CASE Accepted
  <2>1. Cardinality(taken') <= Cardinality(taken) + 1
    BY <1>3, <1>7 DEF Accepted
  <2>2. \A r \in results' : r.status = "SENT"
    BY <1>7 DEF Accepted, Report, Result, CopiesPaid
  <2>3. Cardinality(taken) <= lostAcks
    BY <1>7 DEF Accepted, CopiesPaid
  <2>4. Cardinality(taken') \in Nat
    BY <1>1, <1>7, FS_AddElement, FS_CardinalityType DEF Accepted
  <2>5. lostAcks' = lostAcks /\ code' = "2" /\ stage' = "done"
    BY <1>7 DEF Accepted, Report
  <2>6. Cardinality(taken') <= IF code' = "2" THEN lostAcks' + 1 ELSE lostAcks'
    BY <1>1, <1>2, <2>1, <2>3, <2>4, <2>5
  <2>7. QED
    BY <2>2, <2>5, <2>6 DEF CopiesPaid
<1>8. CASE UNCHANGED vars
  BY <1>8 DEF vars, CopiesPaid
<1>9. QED
  BY <1>4, <1>5, <1>6, <1>7, <1>8 DEF Next, Handle, Deliver, Done

THEOREM MailInvariant == Spec => []MailInv
<1>1. MailInv /\ [Next]_vars => MailInv'
  BY OrderKept, MailTypeKept, CopiesKept DEF MailInv
<1>2. QED
  BY <1>1, MailStart, PTL DEF Spec

\* The message is at no more MX than final replies were lost, and one: handle goes on to
\* the next MX only after an error, for any MX, preferences and replies.
THEOREM CopiesAreAccounted == Spec => []CopiesAreLostReplies
<1>1. MailInv => CopiesAreLostReplies
  BY FS_CardinalityType DEF MailInv, MailTypeOK, CopiesPaid, CopiesAreLostReplies
<1>2. QED
  BY <1>1, MailInvariant, PTL

\* As long as no final reply is lost, a message that the parent is told was refused or
\* deferred is at no MX.
THEOREM RefusalsAreNoCopies == Spec => []RefusalsAreTrue
<1>1. MailInv => RefusalsAreTrue
  <2> SUFFICES ASSUME MailInv, lostAcks = 0, NEW r \in results, r.status /= "SENT"
               PROVE  taken = {}
    BY DEF RefusalsAreTrue
  <2>1. IsFiniteSet(taken) /\ Cardinality(taken) <= 0
    BY DEF MailInv, MailTypeOK, CopiesPaid
  <2>2. Cardinality(taken) = 0
    BY <2>1, FS_CardinalityType
  <2>3. QED
    BY <2>1, <2>2, FS_EmptySet
<1>2. QED
  BY <1>1, MailInvariant, PTL

\* The domain itself is in no order of the MX: it is tried alone.
LEMMA DomainAlone ==
    ASSUME MailInv, NEW i \in 1 .. Len(tried), tried[i] = DomainItself
    PROVE  Len(tried) = 1
<1> DEFINE s == tried \o hosts
<1>1. /\ tried \in Seq(Hosts) /\ hosts \in Seq(Hosts)
      /\ pref \in UNION {[M -> Preferences] : M \in SUBSET MX}
  BY DEF MailInv, MailTypeOK
<1>2. /\ i \in 1 .. Len(s) /\ Len(s) = Len(tried) + Len(hosts) /\ s[i] = tried[i]
      /\ Len(tried) \in Nat /\ Len(hosts) \in Nat /\ 1 <= Len(tried)
  BY <1>1, ConcatProperties, LenProperties
<1>3. DOMAIN pref \subseteq MX
  BY <1>1
<1>4. s \notin ResolveMX(pref)
  <2>1. SUFFICES ASSUME s \in ResolveMX(pref) PROVE FALSE
    OBVIOUS
  <2> HIDE DEF s
  <2>2. s[i] \in DOMAIN pref
    BY <1>1, <1>2, <2>1, OrderOfMX
  <2>3. QED
    BY <1>2, <1>3, <2>2, SmtpAssumption
<1>5. s = <<>> \/ s = <<DomainItself>>
  BY <1>4 DEF MailInv, OneOrder
<1> HIDE DEF s
<1>6. Len(s) = 1
  BY <1>2, <1>5
<1>7. QED
  BY <1>2, <1>6

\* The MX are tried once each and by preference, and the domain itself alone: the hosts
\* tried are the first ones of an order that resolveMX may return.
THEOREM TriedByPreference == Spec => []ByPreference
<1>0. MailInv => \A i \in 1 .. Len(tried) : tried[i] = DomainItself => Len(tried) = 1
  BY DomainAlone
<1>1. MailInv => ByPreference
  <2> SUFFICES ASSUME MailInv, NEW i \in 1 .. Len(tried), tried[i] /= DomainItself,
                      NEW m \in DOMAIN pref, pref[m] < pref[tried[i]] \/ m = tried[i]
               PROVE  Cardinality({j \in 1 .. i : tried[j] = m}) = 1
    BY <1>0 DEF ByPreference
  <2> DEFINE s == tried \o hosts
  <2>1. /\ tried \in Seq(Hosts) /\ hosts \in Seq(Hosts)
        /\ pref \in UNION {[M -> Preferences] : M \in SUBSET MX}
    BY DEF MailInv, MailTypeOK
  <2>2. /\ i <= Len(s) /\ Len(tried) <= Len(s) /\ Len(s) \in Nat /\ Len(tried) \in Nat
        /\ \A j \in 1 .. Len(tried) : s[j] = tried[j]
    BY <2>1, ConcatProperties, LenProperties
  <2>3. s \in ResolveMX(pref)
    <3>1. s = <<>> \/ s = <<DomainItself>> \/ s \in ResolveMX(pref)
      BY DEF MailInv, OneOrder
    <3> HIDE DEF s
    <3>2. s[i] /= DomainItself /\ i \in 1 .. Len(s)
      BY <2>2
    <3>3. s /= <<>>
      BY <3>2
    <3>4. s /= <<DomainItself>>
      BY <3>2
    <3>5. QED
      BY <3>1, <3>3, <3>4
  <2> HIDE DEF s
  <2>4. /\ \A x \in DOMAIN pref : \E k \in 1 .. Len(s) : s[k] = x
        /\ \A k \in 1 .. Len(s) : s[k] \in DOMAIN pref
        /\ \A k, j \in 1 .. Len(s) : k < j => s[k] /= s[j] /\ pref[s[k]] <= pref[s[j]]
    BY <2>1, <2>3, OrderOfMX
  <2>5. PICK k \in 1 .. Len(s) : s[k] = m
    BY <2>4
  <2>6. s[i] = tried[i] /\ i \in 1 .. Len(s)
    BY <2>2
  <2>7. pref[s[k]] \in Nat /\ pref[s[i]] \in Nat
    <3>1. \A x \in DOMAIN pref : pref[x] \in Nat
      BY <2>1, SmtpAssumption
    <3>2. QED
      BY <2>4, <2>6, <3>1
  <2>8. k <= i
    <3>1. SUFFICES ASSUME i < k PROVE FALSE
      OBVIOUS
    <3>2. s[i] /= s[k] /\ pref[s[i]] <= pref[s[k]]
      BY <2>4, <2>6, <3>1
    <3>3. QED
      BY <2>5, <2>6, <2>7, <3>2
  <2>9. \A j \in 1 .. i : tried[j] = m <=> j = k
    <3>1. \A j \in 1 .. i : s[j] = tried[j] /\ j \in 1 .. Len(s)
      BY <2>2
    <3>2. \A j \in 1 .. Len(s) : s[j] = s[k] => j = k
      BY <2>2, <2>4
    <3>3. QED
      BY <2>5, <3>1, <3>2
  <2>10. {j \in 1 .. i : tried[j] = m} = {k}
    BY <2>8, <2>9
  <2>11. QED
    BY <2>10, FS_Singleton
<1>2. QED
  BY <1>1, MailInvariant, PTL
=============================================================================
