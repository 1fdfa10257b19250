----------------------------- MODULE SmtpDelivery -----------------------------
(***************************************************************************)
(* The smtp role: handle and deliver of internal/worker/smtp.go for one    *)
(* SmtpSendCommand, the mail exchangers (MX) of the recipients' domain as  *)
(* deliver sees them, and the parent that gets the result through          *)
(* tunnel.Client.PushSmtpResult.                                           *)
(*                                                                         *)
(* An MX has the message once it has read the end of DATA; its final reply *)
(* may still be lost.  deliver then reports an error without a code, and   *)
(* handle goes on to the next MX.  An SMTP reply is its class: "2", "4" or *)
(* "5"; "none" is an error without one (a dial, a timeout, a broken        *)
(* connection, a failed TLS handshake).  The domain itself is the last     *)
(* resort of resolveMX, as an MX of its own.                               *)
(***************************************************************************)
EXTENDS Naturals, Sequences, FiniteSets, SequencesExt

CONSTANTS MX,          \* the mail exchangers there may be
          Domains,     \* the domains of recipients
          Preferences, \* the preferences of an MX record
          MaxRcpts     \* bound: recipients of the message

\* The domain's own address, where deliver goes when resolveMX has no MX record.
DomainItself == "domain"

ASSUME SmtpAssumption ==
    /\ IsFiniteSet(MX) /\ DomainItself \notin MX
    /\ IsFiniteSet(Domains) /\ Preferences \in SUBSET Nat /\ MaxRcpts \in Nat

VARIABLES
    rcpts,     \* the domains of the recipients; "bad" for an address without one
    pref,      \* the MX records: pref[m], for the MX there are
    hosts,     \* what handle has left to try, in its order
    stage,     \* where handle and deliver are
    code,      \* res.SMTPCode: the class of the last reply
    mxHost,    \* res.MXHost, or "none"
    tried,     \* history: the MX tried, in order
    taken,     \* the MX that have the message
    lostAcks,  \* history: how many final replies were lost
    results    \* the results the parent has got

Hosts == MX \cup {DomainItself}

vars == <<rcpts, pref, hosts, stage, code, mxHost, tried, taken, lostAcks, results>>

Rcpts == UNION {[1 .. n -> Domains \cup {"bad"}] : n \in 0 .. MaxRcpts}

Init ==
    /\ rcpts \in Rcpts
    /\ pref \in UNION {[M -> Preferences] : M \in SUBSET MX}
    /\ hosts = <<>> /\ stage = "start" /\ code = "none" /\ mxHost = "none"
    /\ tried = <<>> /\ taken = {} /\ lostAcks = 0 /\ results = {}

\* singleDomain: at least one recipient, all of them valid and of one domain, whose
\* letters' case does not count.
SingleDomain(rs) ==
    \E d \in Domains : rs /= <<>> /\ \A i \in 1 .. Len(rs) : rs[i] = d

\* A resolver that returns the records as they come.
ResolveMXUnsorted(prefs) == SetToSeqs(DOMAIN prefs)

\* resolveMX: a stable sort by preference of the records, which DNS gives in any order.
ResolveMX(prefs) ==
    {s \in SetToSeqs(DOMAIN prefs) :
        \A i, j \in 1 .. Len(s) : i < j => prefs[s[i]] <= prefs[s[j]]}

---------------------------------------------------------------------------
(* handle. *)

Result(status, mx) == [status |-> status, mx |-> mx]

\* report: PushSmtpResult is called once.  On an error the parent may have the
\* result or not; it is logged.
Report(status, mx) ==
    /\ stage' = "done"
    /\ \/ results' = results \cup {Result(status, mx)}
       \/ UNCHANGED results

\* Recipients that do not share a domain.
Refuse ==
    /\ stage = "start" /\ ~SingleDomain(rcpts)
    /\ Report("FAILED", "none")
    /\ UNCHANGED <<rcpts, pref, hosts, code, mxHost, tried, taken, lostAcks>>

\* The MX records; or the domain itself, if it resolves, when there is no record or
\* the lookup of the records failed.
Resolve ==
    /\ stage = "start" /\ SingleDomain(rcpts)
    /\ \/ DOMAIN pref /= {} /\ hosts' \in ResolveMX(pref)
       \/ hosts' = <<DomainItself>>
    /\ stage' = "next"
    /\ UNCHANGED <<rcpts, pref, code, mxHost, tried, taken, lostAcks, results>>

\* Nothing resolves, or the lookup fails.
ResolveFails ==
    /\ stage = "start" /\ SingleDomain(rcpts)
    /\ Report("FAILED", "none")
    /\ UNCHANGED <<rcpts, pref, hosts, code, mxHost, tried, taken, lostAcks>>

\* The loop over the hosts calls deliver.
TryNext ==
    /\ stage = "next" /\ hosts /= <<>>
    /\ mxHost' = Head(hosts) /\ hosts' = Tail(hosts)
    /\ tried' = Append(tried, Head(hosts))
    /\ stage' = "session"
    /\ UNCHANGED <<rcpts, pref, code, taken, lostAcks, results>>

\* No MX accepted: the last code decides.
GiveUp ==
    /\ stage = "next" /\ hosts = <<>>
    /\ Report(IF code = "5" THEN "FAILED" ELSE "DEFERRED", mxHost)
    /\ UNCHANGED <<rcpts, pref, hosts, code, mxHost, tried, taken, lostAcks>>

---------------------------------------------------------------------------
(* deliver. *)

\* The dial, the greeting, HELO, STARTTLS, MAIL, RCPT or DATA fails: before the MX
\* has the message.
SessionFails ==
    /\ stage = "session"
    /\ code' \in {"none", "4", "5"}
    /\ stage' = "next"
    /\ UNCHANGED <<rcpts, pref, hosts, mxHost, tried, taken, lostAcks, results>>

SendData ==
    /\ stage = "session"
    /\ stage' = "final"
    /\ UNCHANGED <<rcpts, pref, hosts, code, mxHost, tried, taken, lostAcks, results>>

\* The MX refuses the message.
FinalRefused ==
    /\ stage = "final"
    /\ code' \in {"4", "5"}
    /\ stage' = "next"
    /\ UNCHANGED <<rcpts, pref, hosts, mxHost, tried, taken, lostAcks, results>>

\* The connection is gone, or the 90 s are over, before the end of DATA arrives.
DataLost ==
    /\ stage = "final"
    /\ code' = "none"
    /\ stage' = "next"
    /\ UNCHANGED <<rcpts, pref, hosts, mxHost, tried, taken, lostAcks, results>>

\* The MX takes the message and its 250 is lost.
AckLost ==
    /\ stage = "final"
    /\ taken' = taken \cup {mxHost} /\ lostAcks' = lostAcks + 1
    /\ code' = "none"
    /\ stage' = "next"
    /\ UNCHANGED <<rcpts, pref, hosts, mxHost, tried, results>>

\* A loop without its return.
DeliverContinues ==
    /\ stage = "final"
    /\ taken' = taken \cup {mxHost}
    /\ code' = "2"
    /\ stage' = "next"
    /\ UNCHANGED <<rcpts, pref, hosts, mxHost, tried, lostAcks, results>>

\* The MX takes the message and says so: SENT, and handle returns.
Accepted ==
    /\ stage = "final"
    /\ taken' = taken \cup {mxHost}
    /\ code' = "2"
    /\ Report("SENT", mxHost)
    /\ UNCHANGED <<rcpts, pref, hosts, mxHost, tried, lostAcks>>

Done == stage = "done" /\ UNCHANGED vars

Deliver == SessionFails \/ SendData \/ FinalRefused \/ DataLost \/ AckLost \/ Accepted
Handle  == Refuse \/ Resolve \/ ResolveFails \/ TryNext \/ GiveUp

Next == Handle \/ Deliver \/ Done

Spec == Init /\ [][Next]_vars

---------------------------------------------------------------------------
(* Properties. *)

\* The message is at several MX only because final replies were lost
\* (smtp.go:95-110, 171-174).
CopiesAreLostReplies == Cardinality(taken) <= lostAcks + 1

\* The MX are tried once each, each after all those of a lower preference, and the
\* domain itself is tried alone, never before or after an MX (smtp.go:193-212).
ByPreference ==
    \A i \in 1 .. Len(tried) :
        IF tried[i] = DomainItself THEN Len(tried) = 1
        ELSE \A m \in DOMAIN pref :
               pref[m] < pref[tried[i]] \/ m = tried[i] =>
                 Cardinality({j \in 1 .. i : tried[j] = m}) = 1

\* If no reply is lost, a message that is reported refused or deferred is at no MX.
RefusalsAreTrue ==
    lostAcks = 0 => \A r \in results : r.status /= "SENT" => taken = {}

\* "Fallback A/AAAA (le domaine lui-meme) si aucun MX (RFC 5321 5.1)" (smtp.go:194):
\* mail goes to the domain's own address only if the domain has no MX record.
ImplicitMX == DomainItself \in taken => DOMAIN pref = {}
=============================================================================
