---------------------------- MODULE BatchPipeline ----------------------------
(***************************************************************************)
(* The whole worker of internal/worker/batch.go: the scheduler (BatchJobs) *)
(* and drain (BatchUplink) of one process, over one durable queue.         *)
(***************************************************************************)
EXTENDS BatchJobs

CONSTANTS LeaseMax, LeaseMs, BackoffMs, MaxAttempts

ASSUME PipelineAssumption == LeaseMs \in Nat /\ BackoffMs \in Nat

VARIABLES sent, clock, drain, received, errors, gone

Uplink == INSTANCE BatchUplink WITH MaxReports <- MaxTriggers

uplinkVars   == <<sent, clock, drain, received, errors, gone>>
pipelineVars == <<vars, uplinkVars>>

PipelineInit == Init /\ Uplink!UplinkInit

SchedulerStep == JobsStep(clock) /\ UNCHANGED uplinkVars

\* Run loads the persisted configuration, then starts drain.
UplinkStep ==
    /\ drain.pc = "off" => loop.pc /= "configure"
    /\ Uplink!DrainStep
    /\ UNCHANGED jobsVars

Tick == Uplink!Tick /\ UNCHANGED jobsVars

\* The process is one: it stops, ends and starts for both.
Stops ==
    /\ \/ Sigterm
       \/ CloseStore /\ LoopReturned
    /\ UNCHANGED <<queue, jobsVars, uplinkVars>>

Ends == (Exit \/ Crash) /\ Forget /\ Uplink!Forget /\ UNCHANGED queue

Starts == Boot /\ LoadConfig /\ UNCHANGED <<queue, uplinkVars>>

PipelineNext == SchedulerStep \/ UplinkStep \/ Tick \/ Stops \/ Ends \/ Starts

PipelineSpec == PipelineInit /\ [][PipelineNext]_pipelineVars

\* The goroutines of the process run, outside runner.Run; time passes; systemd starts
\* the agent again.
PipelineFairSpec ==
    /\ PipelineSpec
    /\ WF_pipelineVars(LoopStep /\ UNCHANGED uplinkVars)
    /\ \A s \in Slots : WF_pipelineVars(OwnStep(s, clock) /\ UNCHANGED uplinkVars)
    /\ WF_pipelineVars(UplinkStep)
    /\ WF_pipelineVars(Tick)
    /\ WF_pipelineVars((Stops /\ ~Sigterm) \/ (Ends /\ ~Crash) \/ Starts)

---------------------------------------------------------------------------
(* Properties of the whole. *)

\* Every report ever enqueued: those in the queue and those that left it.
Enqueued == {<<i, queue.items[i].payload>> : i \in Ids(queue)}
            \cup {<<i, gone[i].report>> : i \in DOMAIN gone}

\* "Idempotence par run_id" (docs/agentIA4Batch2Go/SPEC-AGENT-BATCH-V1.md:100): the
\* parent may drop a report whose run id it knows, because two reports never carry
\* one id, over restarts, skips, refused runs and reports long gone.
RunIdIdentifiesReport ==
    \A x, y \in Enqueued : x[2].id = y[2].id => x = y

Delivered(k) == \E r \in DOMAIN received : r.id = k

\* After the last stop or crash, run k is where pc says, with a status in st.
RunAt(k, pc, st) ==
    /\ phase = "up" /\ faults = MaxFaults
    /\ \E s \in Slots : /\ Active(s) /\ run[s].pc = pc
                        /\ run[s].id = k /\ run[s].status \in st

\* A run that starts after the last stop or crash is reported to the parent in the
\* end, unless pushes failed MaxAttempts times: fire, the queue, drain and what
\* earlier processes left leased together (batch.go:172-174, 214-229).  Not so if it
\* never returns (runner.go:78), or if it returns failed, with a text that may be
\* refused (batch.go:193-197).
RunsAreReported ==
    \A k \in 1 .. 2 * MaxTriggers :
        \/ RunAt(k, "running", {"none"}) ~>
             (Delivered(k) \/ errors >= MaxAttempts \/ RunAt(k, "enqueue", {"failed"}))
        \/ <>[]RunAt(k, "running", {"none"})
=============================================================================
