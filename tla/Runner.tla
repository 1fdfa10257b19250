-------------------------------- MODULE Runner --------------------------------
(***************************************************************************)
(* One call of AgentRunner.Run in internal/batch/runner.go, with what it   *)
(* runs: a child process and the pipe for its output (claude_code and      *)
(* custom_exec, through os/exec), or an HTTP server (custom_http and       *)
(* agentia, both httpRun).                                                 *)
(*                                                                         *)
(* exec.Cmd.Run waits for the child, which the end of the context kills,   *)
(* and then for the goroutines that copy the pipes.  These end when no     *)
(* process has the other end open: a descendant of the child (heir) may    *)
(* still have it when the child is dead.  Output is counted in parts; of   *)
(* what it says only what decides the status is kept (claim).              *)
(***************************************************************************)
EXTENDS Naturals

CONSTANTS MaxOutput,   \* bound: parts that the agent writes
          BodyLimit    \* parts of a body that LimitReader lets through (8 MB)

ASSUME RunnerAssumption == MaxOutput \in Nat /\ BodyLimit \in Nat

VARIABLES
    kind,      \* the runner, see Kinds
    cctx,      \* the context of the run: live, deadline, cancelled (by SIGTERM)
    run,       \* where Run is
    err,       \* the error of cmd.Run
    agent,     \* the child process, or the server and its connection
    heir,      \* a descendant of the child that has the pipe open
    claim,     \* what the output says: a report, an error, an error without a result
    answer,    \* the status of the HTTP answer
    written,   \* parts that the agent has written
    read,      \* parts in the buffer of Run
    result     \* the RunResult

runVars == <<kind, cctx, run, err, agent, heir, claim, answer, written, read, result>>

Kinds == {"claude_code", "custom_exec", "http"}
Exec  == kind /= "http"

NoResult == [status |-> "none", parts |-> 0]

RunInit ==
    /\ kind \in Kinds
    /\ cctx = "live" /\ run = "call" /\ err = FALSE
    /\ agent = "none" /\ heir = "none"
    /\ claim \in {"report", "error", "errorOnly"}
    /\ answer \in {"2xx", "other"}
    /\ written = 0 /\ read = 0
    /\ result = NoResult

Returns(status, parts) ==
    run' = "done" /\ result' = [status |-> status, parts |-> parts]

---------------------------------------------------------------------------
(* The context. *)

\* context.WithTimeout: the deadline of the run.
Deadline ==
    /\ run \notin {"call", "done"} /\ cctx = "live"
    /\ cctx' = "deadline"
    /\ UNCHANGED <<kind, run, err, agent, heir, claim, answer, written, read, result>>

\* SIGTERM cancels the parent's context.
Cancel ==
    /\ run /= "done" /\ cctx = "live"
    /\ cctx' = "cancelled"
    /\ UNCHANGED <<kind, run, err, agent, heir, claim, answer, written, read, result>>

---------------------------------------------------------------------------
(* The child, its descendants, the server: they owe nothing. *)

Writes ==
    /\ agent = "running" \/ heir = "running" \/ agent = "answering"
    /\ written < MaxOutput
    /\ written' = written + 1
    /\ UNCHANGED <<kind, cctx, run, err, agent, heir, claim, answer, read, result>>

Forks ==
    /\ Exec /\ agent = "running" /\ heir = "none"
    /\ heir' = "running"
    /\ UNCHANGED <<kind, cctx, run, err, agent, claim, answer, written, read, result>>

HeirEnds ==
    /\ heir = "running"
    /\ heir' = "gone"
    /\ UNCHANGED <<kind, cctx, run, err, agent, claim, answer, written, read, result>>

ChildExits ==
    /\ Exec /\ agent = "running"
    /\ agent' \in {"exit0", "exit1"}
    /\ UNCHANGED <<kind, cctx, run, err, heir, claim, answer, written, read, result>>

ServerSteps ==
    /\ ~Exec
    /\ \/ agent = "running" /\ agent' \in {"answering", "broken"}
       \/ agent = "answering" /\ agent' \in {"complete", "broken"}
    /\ UNCHANGED <<kind, cctx, run, err, heir, claim, answer, written, read, result>>

---------------------------------------------------------------------------
(* Run of claude_code and custom_exec. *)

\* A parameter that is required is missing: command, url.
Rejects ==
    /\ run = "call" /\ kind /= "claude_code"
    /\ Returns("failed", 0)
    /\ UNCHANGED <<kind, cctx, err, agent, heir, claim, answer, written, read>>

StartsChild ==
    /\ run = "call" /\ Exec /\ cctx = "live"
    /\ agent' = "running" /\ run' = "wait"
    /\ UNCHANGED <<kind, cctx, err, heir, claim, answer, written, read, result>>

\* The binary cannot be run, or the context is over already.
StartFails ==
    /\ run = "call" /\ Exec
    /\ err' = TRUE /\ run' = "judge"
    /\ UNCHANGED <<kind, cctx, agent, heir, claim, answer, written, read, result>>

\* exec.Command instead of CommandContext.
KillsNever == FALSE /\ UNCHANGED runVars

\* CommandContext kills the child, and only the child, when the context is over.
Kills ==
    /\ Exec /\ agent = "running" /\ cctx /= "live"
    /\ agent' = "killed"
    /\ UNCHANGED <<kind, cctx, run, err, heir, claim, answer, written, read, result>>

\* Process.Wait.  A child that has just exited may be killed all the same, and then
\* the error is that of the context.
Reaps ==
    /\ run = "wait" /\ agent /= "running"
    /\ \/ agent /= "exit0" /\ err' = TRUE
       \/ agent = "exit0" /\ err' = FALSE
       \/ agent = "exit0" /\ cctx /= "live" /\ err' = TRUE
    /\ run' = "copy"
    /\ UNCHANGED <<kind, cctx, agent, heir, claim, answer, written, read, result>>

\* The goroutine that copies the pipe into stdout.
Copies ==
    /\ run \in {"wait", "copy"} /\ read < written
    /\ read' = read + 1
    /\ UNCHANGED <<kind, cctx, run, err, agent, heir, claim, answer, written, result>>

\* A WaitDelay: the pipes are closed some time after the context is over.
CopyEndsOrDelay ==
    /\ run = "copy"
    /\ (read = written /\ heir /= "running") \/ cctx /= "live"
    /\ run' = "judge"
    /\ UNCHANGED <<kind, cctx, err, agent, heir, claim, answer, written, read, result>>

\* The end of the pipe: nobody has it open.
CopyEnds ==
    /\ run = "copy" /\ read = written /\ heir /= "running"
    /\ run' = "judge"
    /\ UNCHANGED <<kind, cctx, err, agent, heir, claim, answer, written, read, result>>

\* A claude_code that looks at the output before the error of the command.
StatusOfOutput ==
    CASE cctx = "deadline" -> "timeout"
      [] kind = "claude_code" /\ claim = "error" -> "failed"
      [] OTHER -> IF err /\ read = 0 THEN "failed" ELSE "success"

\* The deadline decides first, whatever the child did; is_error of claude's output is
\* looked at only if there is a result.
Status ==
    CASE cctx = "deadline" -> "timeout"
      [] cctx /= "deadline" /\ err -> "failed"
      [] cctx /= "deadline" /\ ~err ->
            IF kind = "claude_code" /\ claim = "error" THEN "failed" ELSE "success"

Judges ==
    /\ run = "judge"
    /\ Returns(Status, IF cctx = "deadline" \/ (err /\ kind = "claude_code") THEN 0 ELSE read)
    /\ UNCHANGED <<kind, cctx, err, agent, heir, claim, answer, written, read>>

---------------------------------------------------------------------------
(* httpRun. *)

Posts ==
    /\ run = "call" /\ ~Exec
    /\ agent' = "running" /\ run' = "headers"
    /\ UNCHANGED <<kind, cctx, err, heir, claim, answer, written, read, result>>

\* client.Do: an error ...
DoFails ==
    /\ run = "headers" /\ (agent = "broken" \/ cctx /= "live")
    /\ Returns(IF cctx = "deadline" THEN "timeout" ELSE "failed", 0)
    /\ UNCHANGED <<kind, cctx, err, agent, heir, claim, answer, written, read>>

\* ... or the headers.
GetsHeaders ==
    /\ run = "headers" /\ agent \in {"answering", "complete", "broken"}
    /\ run' = "body"
    /\ UNCHANGED <<kind, cctx, err, agent, heir, claim, answer, written, read, result>>

ReadsBody ==
    /\ run = "body" /\ read < written /\ read < BodyLimit
    /\ read' = read + 1
    /\ UNCHANGED <<kind, cctx, run, err, agent, heir, claim, answer, written, result>>

\* io.ReadAll ends at the end of the body, at the limit, or with an error that is
\* ignored: a broken connection, the end of the context.
BodyCut == agent = "broken" \/ cctx /= "live" \/ read = BodyLimit

BodyEnds ==
    /\ run = "body" /\ ((agent = "complete" /\ read = written) \/ BodyCut)
    /\ IF answer = "2xx" THEN Returns("success", read) ELSE Returns("failed", 0)
    /\ UNCHANGED <<kind, cctx, err, agent, heir, claim, answer, written, read>>

---------------------------------------------------------------------------
Agent == Writes \/ Forks \/ HeirEnds \/ ChildExits \/ ServerSteps
Wait  == Rejects \/ StartsChild \/ StartFails \/ Kills \/ Reaps \/ CopyEnds \/ Judges
Http  == Posts \/ DoFails \/ GetsHeaders \/ BodyEnds

RunNext == Deadline \/ Cancel \/ Agent \/ Wait \/ Copies \/ Http \/ ReadsBody

RunSpec == RunInit /\ [][RunNext]_runVars

\* Timers fire, system calls and goroutines go on.  The agent, its descendants and the
\* server owe nothing, and nobody has to stop the process.
RunFairSpec ==
    /\ RunSpec
    /\ WF_runVars(Deadline) /\ WF_runVars(Wait) /\ WF_runVars(Copies)
    /\ WF_runVars(Http) /\ WF_runVars(ReadsBody)

---------------------------------------------------------------------------
(* Properties. *)

Whole == result.parts = written /\ agent \in {"exit0", "complete"}

AgentFailed ==
    IF Exec THEN agent \in {"none", "exit1", "killed"} \/ (kind = "claude_code" /\ claim = "error")
            ELSE agent \in {"none", "running"} \/ answer /= "2xx"

\* A run that is reported successful carries all that the agent wrote, and the agent
\* did not fail: it was started, not killed, ended without an error and does not tell
\* of one in its result ("Gerer les codes de sortie non-zero (...) -> Status=failed",
\* docs/agentIA4Batch2Go/specs.md:256), whatever the deadline, a descendant or SIGTERM
\* did meanwhile.  Only an HTTP body may have been cut (runner.go:188 ignores the
\* error).
SuccessIsTrue ==
    result.status = "success" => ~AgentFailed /\ (Whole \/ (kind = "http" /\ BodyCut))

\* When Run returns, the child is dead and nobody is left who writes into its output:
\* the job's flag, which fire frees next (batch.go:151), is not freed under it.
NobodyLeft == run = "done" /\ Exec => agent /= "running" /\ heir /= "running"

\* "timeout dur" (docs/agentIA4Batch2Go/specs.md:248): once its deadline is over or it
\* is cancelled, a run ends, unless a descendant keeps the pipe open (runner.go:78, 129:
\* no WaitDelay, no process group).
TimeoutIsHard ==
    (run \notin {"call", "done"} /\ cctx /= "live") ~> (run = "done" \/ heir = "running")
=============================================================================
