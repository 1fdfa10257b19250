------------------------------ MODULE BatchJobs ------------------------------
(***************************************************************************)
(* The scheduling half of internal/worker/batch.go: the worker's loop and  *)
(* configure, the cron of a configuration, and the goroutines that run     *)
(* fire.  Reports go to the durable queue; the other half of the worker    *)
(* (drain) is BatchUplink.                                                 *)
(*                                                                         *)
(* Configurations reach the worker through the tunnel (handleCommand) and  *)
(* a bounded bus channel.  A configuration replaces the cron, the jobs and *)
(* the "running" flags; the goroutines of earlier triggers keep going and  *)
(* keep the flag they took.                                                *)
(***************************************************************************)
EXTENDS QueueOps, Process, Sequences

CONSTANTS Jobs,         \* job ids
          Configs,      \* the configurations the parent sends, in this order
          Slots,        \* bound: the goroutines of fire that exist at once
          MaxTriggers,  \* bound: how many times fire is started
          BusCap        \* capacity of the bus channel (128 in the code)

\* What of a JobSpec decides what happens: whether the cron arms it (enabled,
\* with a schedule that parses) and whether its runner and its prompt resolve.
JobSpecs == [armed : BOOLEAN, agent : {"ok", "unknown", "badprompt"}]

ConfigNumbers == 1 .. Len(Configs)

ASSUME ConfigsAssumption ==
    /\ Configs \in Seq(UNION {[S -> JobSpecs] : S \in SUBSET Jobs})
    /\ MaxTriggers \in Nat /\ BusCap \in Nat

VARIABLES
    queue,     \* durable: the file "batch_reports"
    runSeq,    \* durable: the counter batch_run_seq
    skips,     \* durable: skips[j] is the counter batch_<j>_skipped
    blob,      \* durable: the persisted configuration, 0 for none
    sentCfg,   \* the parent: how many configurations it has sent
    channel,   \* the bus channel of TopicBatch
    loop,      \* the worker's loop: [pc, cmd]
    gen,       \* how many times this process has applied a configuration
    applied,   \* the configuration whose jobs are in w.jobs, 0 for none
    flags,     \* flags[g]: the "running" cells of the g-th configuration applied
    run,       \* run[s]: the goroutine of fire in slot s
    triggers   \* how many times fire was started

counters == <<runSeq, skips>>
config   == <<blob, sentCfg, channel, loop>>
cron     == <<gen, applied, flags>>
fires    == <<run, triggers>>
jobsVars == <<counters, config, cron, fires>>
vars     == <<queue, processVars, jobsVars>>

\* A goroutine of fire: the job and the agent of the JobSpec it captured, the
\* configuration whose flag it looked up, whether it set that flag, its run id.
Idle == [pc |-> "idle"]
Fire(pc, job, agent, cell, owner, id, status) ==
    [pc |-> pc, job |-> job, agent |-> agent, cell |-> cell, owner |-> owner,
     id |-> id, status |-> status]

Loop(pc, cmd) == [pc |-> pc, cmd |-> cmd]

JobsInit ==
    /\ runSeq = 0
    /\ skips = [j \in Jobs |-> 0]
    /\ blob = 0
    /\ sentCfg = 0
    /\ channel = <<>>
    /\ loop = Loop("select", 0)
    /\ gen = 0
    /\ applied = 0
    /\ flags = <<>>
    /\ run = [s \in Slots |-> Idle]
    /\ triggers = 0

Init == ProcessInit /\ queue = EmptyQueue /\ JobsInit

---------------------------------------------------------------------------
(* Configuration. *)

\* A bus that never drops.
PublishUnbounded(k) == Append(channel, k)

\* The parent pushes its next configuration and handleCommand publishes it:
\* the bus drops it if the channel is full.
Publish(k) == IF Len(channel) < BusCap THEN Append(channel, k) ELSE channel

SendConfig ==
    /\ phase = "up"
    /\ sentCfg < Len(Configs)
    /\ sentCfg' = sentCfg + 1
    /\ channel' = Publish(sentCfg')
    /\ UNCHANGED <<queue, processVars, counters, blob, loop, cron, fires>>

PutBlob(k) == blob' = IF StoreOpen THEN k ELSE blob

\* A worker that persisted a configuration only once it runs it.
PersistConfigNever ==
    /\ Alive /\ loop.pc = "select" /\ channel /= <<>>
    /\ loop' = Loop("configure", Head(channel))
    /\ channel' = Tail(channel)
    /\ UNCHANGED <<queue, processVars, counters, blob, sentCfg, cron, fires>>

\* The loop takes a command and configure persists it first.
PersistConfig ==
    /\ Alive /\ loop.pc = "select" /\ channel /= <<>>
    /\ PutBlob(Head(channel))
    /\ loop' = Loop("configure", Head(channel))
    /\ channel' = Tail(channel)
    /\ UNCHANGED <<queue, processVars, counters, sentCfg, cron, fires>>

JobsOf(k) == IF k = 0 THEN {} ELSE DOMAIN Configs[k]

\* Under w.mu: the old cron is stopped, jobs and flags are replaced (every job
\* gets a flag, armed or not), the new cron is started.
ApplyConfig ==
    /\ Alive /\ loop.pc = "configure"
    /\ gen' = gen + 1
    /\ applied' = loop.cmd
    /\ flags' = Append(flags, [j \in JobsOf(loop.cmd) |-> 0])
    /\ loop' = Loop("select", 0)
    /\ UNCHANGED <<queue, processVars, counters, blob, sentCfg, channel, fires>>

\* The loop sees that the context is cancelled: the cron is stopped, Run returns.
LoopStop ==
    /\ phase = "stopping" /\ loop.pc = "select"
    /\ loop' = Loop("stopped", 0)
    /\ UNCHANGED <<queue, processVars, counters, blob, sentCfg, channel, cron, fires>>

---------------------------------------------------------------------------
(* Triggers and fire. *)

Start(s, j) ==
    /\ run[s] = Idle
    /\ triggers < MaxTriggers
    /\ run' = [run EXCEPT ![s] =
                 Fire("lookup", j, Configs[applied][j].agent, 0, FALSE, 0, "none")]
    /\ triggers' = triggers + 1
    /\ UNCHANGED <<queue, processVars, counters, config, cron>>

\* The cron of the applied configuration starts a goroutine; it is stopped by
\* LoopStop and by the next ApplyConfig only.
CronFires(s, j) ==
    /\ Alive /\ loop.pc /= "stopped"
    /\ j \in JobsOf(applied) /\ Configs[applied][j].armed
    /\ Start(s, j)

\* RunNow, for any job of the configuration.
RunNow(s, j) ==
    /\ phase = "up"
    /\ j \in JobsOf(applied)
    /\ Start(s, j)

At(s, pc) == Alive /\ run[s].pc = pc

\* fire looks the flag of the job up, under w.mu.
Lookup(s) ==
    /\ At(s, "lookup")
    /\ run' = [run EXCEPT ![s] =
                 IF @.job \in JobsOf(applied)
                   THEN [@ EXCEPT !.pc = "cas", !.cell = gen] ELSE Idle]
    /\ UNCHANGED <<queue, processVars, counters, config, cron, triggers>>

\* Two goroutines that both saw the flag free.
CompareWithoutSwap(s) ==
    LET r == run[s] IN
    /\ At(s, "cas")
    /\ IF flags[r.cell][r.job] = 0
         THEN run' = [run EXCEPT ![s] = [r EXCEPT !.pc = "start", !.owner = TRUE]]
         ELSE run' = [run EXCEPT ![s] = [r EXCEPT !.pc = "countskip", !.status = "skipped"]]
    /\ UNCHANGED <<queue, processVars, counters, config, cron, triggers>>

\* atomic.CompareAndSwapInt32(flag, 0, 1).
CompareAndSwap(s) ==
    LET r == run[s] IN
    /\ At(s, "cas")
    /\ IF flags[r.cell][r.job] = 0
         THEN /\ flags' = [flags EXCEPT ![r.cell][r.job] = 1]
              /\ run' = [run EXCEPT ![s] = [r EXCEPT !.pc = "start", !.owner = TRUE]]
         ELSE /\ run' = [run EXCEPT ![s] = [r EXCEPT !.pc = "countskip", !.status = "skipped"]]
              /\ UNCHANGED flags
    /\ UNCHANGED <<queue, processVars, counters, config, gen, applied, triggers>>

\* A skip that is only counted.
CountSkipOnly(s) ==
    /\ At(s, "countskip")
    /\ skips' = IF StoreOpen THEN [skips EXCEPT ![run[s].job] = @ + 1] ELSE skips
    /\ run' = [run EXCEPT ![s] = Idle]
    /\ UNCHANGED <<queue, processVars, runSeq, config, cron, triggers>>

\* The job is busy: the skip is counted ...
CountSkip(s) ==
    /\ At(s, "countskip")
    /\ skips' = IF StoreOpen THEN [skips EXCEPT ![run[s].job] = @ + 1] ELSE skips
    /\ run' = [run EXCEPT ![s].pc = "newid"]
    /\ UNCHANGED <<queue, processVars, runSeq, config, cron, triggers>>

\* newRunID: the next value of the counter; 0 if the store is closed, the error
\* is ignored.
NextRunId == IF StoreOpen THEN runSeq + 1 ELSE 0
TakeRunId == runSeq' = IF StoreOpen THEN runSeq + 1 ELSE runSeq

\* A run id derived from what is in the queue.
RunIdFromDepth(s) ==
    /\ At(s, "newid")
    /\ UNCHANGED runSeq
    /\ run' = [run EXCEPT ![s] = [@ EXCEPT !.pc = "enqueue", !.id = Depth(queue) + 1]]
    /\ UNCHANGED <<queue, processVars, skips, config, cron, triggers>>

\* enqueueReport: a report of a skip or of a refused run gets an id of its own.
FreshRunId(s) ==
    /\ At(s, "newid")
    /\ TakeRunId
    /\ run' = [run EXCEPT ![s] = [@ EXCEPT !.pc = "enqueue", !.id = NextRunId]]
    /\ UNCHANGED <<queue, processVars, skips, config, cron, triggers>>

\* A run that is numbered after the reports that wait.
StartRunFromDepth(s) ==
    /\ At(s, "start")
    /\ UNCHANGED runSeq
    /\ run' = [run EXCEPT ![s] =
                 IF @.agent = "ok" THEN [@ EXCEPT !.pc = "running", !.id = Depth(queue) + 1]
                 ELSE [@ EXCEPT !.pc = "newid", !.id = Depth(queue) + 1, !.status = "failed"]]
    /\ UNCHANGED <<queue, processVars, skips, config, cron, triggers>>

\* The owner of the flag takes a run id, then resolves the runner and the prompt.
StartRun(s) ==
    /\ At(s, "start")
    /\ TakeRunId
    /\ run' = [run EXCEPT ![s] =
                 IF @.agent = "ok" THEN [@ EXCEPT !.pc = "running", !.id = NextRunId]
                 ELSE [@ EXCEPT !.pc = "newid", !.id = NextRunId, !.status = "failed"]]
    /\ UNCHANGED <<queue, processVars, skips, config, cron, triggers>>

\* runner.Run returns.  It may never do so: its timeout and the cancelled context kill
\* the child, but cmd.Run waits for whoever holds the pipe of its output (Runner).
FinishRun(s) ==
    /\ At(s, "running")
    /\ \E st \in {"success", "failed", "timeout"} :
         run' = [run EXCEPT ![s] = [@ EXCEPT !.pc = "enqueue", !.status = st]]
    /\ UNCHANGED <<queue, processVars, counters, config, cron, triggers>>

Report(r) == [job |-> r.job, id |-> r.id, status |-> r.status]

\* A flag that is freed at the end of a run that succeeded, without a defer.
ReleaseOnSuccess(r) ==
    IF r.owner /\ r.status = "success" THEN [r EXCEPT !.pc = "release"] ELSE Idle

\* Where the goroutine goes when its report is written: only the owner of the
\* flag has a deferred call.
AfterReport(r) == IF r.owner THEN [r EXCEPT !.pc = "release"] ELSE Idle

\* enqueueReportWithID: the report is marshalled and goes into the queue; an error of a
\* closed store is logged, and the goroutine goes on.
EnqueueReport(s, now) ==
    /\ At(s, "enqueue")
    /\ queue' = IF StoreOpen THEN Enqueue(queue, Report(run[s]), now) ELSE queue
    /\ run' = [run EXCEPT ![s] = AfterReport(@)]
    /\ UNCHANGED <<processVars, counters, config, cron, triggers>>

\* The text of a run that failed may be no UTF-8 (what the child wrote, cut at a byte by
\* truncate): proto.Marshal refuses it, which is logged, and there is no report.
DropReport(s) ==
    /\ At(s, "enqueue")
    /\ run[s].status = "failed" /\ run[s].agent = "ok"
    /\ run' = [run EXCEPT ![s] = AfterReport(@)]
    /\ UNCHANGED <<queue, processVars, counters, config, cron, triggers>>

\* A release that looks the flag up again finds the one of a later configuration.
ReleaseCurrent(s) ==
    LET r == run[s] IN
    /\ At(s, "release")
    /\ flags' = IF r.job \in DOMAIN flags[gen] THEN [flags EXCEPT ![gen][r.job] = 0] ELSE flags
    /\ run' = [run EXCEPT ![s] = Idle]
    /\ UNCHANGED <<queue, processVars, counters, config, gen, applied, triggers>>

\* defer atomic.StoreInt32(flag, 0): the flag it took, whatever is configured now.
Release(s) ==
    LET r == run[s] IN
    /\ At(s, "release")
    /\ flags' = [flags EXCEPT ![r.cell][r.job] = 0]
    /\ run' = [run EXCEPT ![s] = Idle]
    /\ UNCHANGED <<queue, processVars, counters, config, gen, applied, triggers>>
---------------------------------------------------------------------------
(* The process. *)

\* What a process that ends leaves behind: the bbolt file and the parent.
Forget ==
    /\ channel' = <<>>
    /\ loop' = Loop("off", 0)
    /\ gen' = 0
    /\ applied' = 0
    /\ flags' = <<>>
    /\ run' = [s \in Slots |-> Idle]
    /\ UNCHANGED <<counters, blob, sentCfg, triggers>>

\* A Run that waited for the parent to send its configuration again.
LoadNothing ==
    /\ loop' = Loop("select", 0)
    /\ UNCHANGED <<counters, blob, sentCfg, channel, cron, fires>>

\* Run starts with configure(persist = false) of what was persisted.
LoadConfig ==
    /\ loop' = IF blob = 0 THEN Loop("select", 0) ELSE Loop("configure", blob)
    /\ UNCHANGED <<counters, blob, sentCfg, channel, cron, fires>>

\* The supervisor waits for the loop, and for none of the goroutines of fire.
LoopReturned == loop.pc = "stopped"

---------------------------------------------------------------------------
LoopStep == PersistConfig \/ ApplyConfig \/ LoopStop

FireStep(s, now) ==
    \/ Lookup(s)
    \/ CompareAndSwap(s)
    \/ CountSkip(s)
    \/ FreshRunId(s)
    \/ StartRun(s)
    \/ FinishRun(s)
    \/ EnqueueReport(s, now)
    \/ DropReport(s)
    \/ Release(s)

JobsStep(now) ==
    \/ SendConfig
    \/ LoopStep
    \/ \E s \in Slots : \E j \in Jobs : CronFires(s, j) \/ RunNow(s, j)
    \/ \E s \in Slots : FireStep(s, now)

ProcessStep ==
    /\ \/ Sigterm /\ UNCHANGED jobsVars
       \/ CloseStore /\ LoopReturned /\ UNCHANGED jobsVars
       \/ (Exit \/ Crash) /\ Forget
       \/ Boot /\ LoadConfig
    /\ UNCHANGED queue

\* The scheduler alone: no clock, and nobody drains the queue.
Next == JobsStep(0) \/ ProcessStep

Spec == Init /\ [][Next]_vars

\* What the goroutine in slot s does by itself, outside runner.Run.
OwnStep(s, now) == run[s].pc /= "running" /\ FireStep(s, now)

\* Goroutines and the loop run, but nothing says that runner.Run returns; systemd
\* starts the agent again, and a shutdown goes on once it began.
FairSpec ==
    /\ Spec
    /\ WF_vars(LoopStep)
    /\ \A s \in Slots : WF_vars(OwnStep(s, 0))
    /\ WF_vars(ProcessStep /\ ~Sigterm /\ ~Crash)

---------------------------------------------------------------------------
(* Properties. *)

FirePcs == {"lookup", "cas", "countskip", "newid", "start", "running", "enqueue", "release"}
Statuses == {"none", "skipped", "success", "failed", "timeout"}

FireType ==
    [pc : FirePcs, job : Jobs, agent : {"ok", "unknown", "badprompt"},
     cell : 0 .. gen, owner : BOOLEAN, id : 0 .. runSeq, status : Statuses]

\* The types of the state (BatchWorker, batch.go:29-40, and the locals of fire).
TypeOK ==
    /\ phase \in Phases
    /\ faults \in 0 .. MaxFaults
    /\ IsQueue(queue, [job : Jobs, id : Nat, status : Statuses])
    /\ runSeq \in Nat /\ skips \in [Jobs -> Nat]
    /\ blob \in {0} \cup ConfigNumbers /\ applied \in {0} \cup ConfigNumbers
    /\ sentCfg \in {0} \cup ConfigNumbers
    /\ channel \in Seq(ConfigNumbers) /\ Len(channel) <= BusCap
    /\ loop.pc \in {"select", "configure", "stopped", "off"}
    /\ loop.cmd \in {0} \cup ConfigNumbers
    /\ gen = Len(flags)
    /\ flags \in Seq(UNION {[S -> {0, 1}] : S \in SUBSET Jobs})
    /\ run \in [Slots -> {Idle} \cup FireType]
    /\ triggers \in 0 .. MaxTriggers

Active(s) == run[s] /= Idle

\* "anti-overlap" (batch.go:39, 145, 151): the flag of a job is set exactly while
\* one goroutine that set it has not returned.  A skipped trigger never clears
\* it, an error path never leaves it set, and a configuration in between does
\* not make a run clear the flag of another one.
FlagOwned ==
    \A g \in 1 .. gen : \A j \in DOMAIN flags[g] :
        flags[g][j] = Cardinality({s \in Slots : /\ Active(s) /\ run[s].owner
                                                 /\ run[s].cell = g /\ run[s].job = j})

\* A run id names one report: ids in the queue and ids that goroutines hold are
\* all different (batch.go:153 and 178; id 0 is what a closed store gives, and
\* such a report is never enqueued).
RunIdsUnique ==
    /\ \A i, k \in Ids(queue) :
          i /= k => queue.items[i].payload.id /= queue.items[k].payload.id
    /\ \A s, t \in Slots :
          (Active(s) /\ run[s].pc \in {"running", "enqueue"} /\ run[s].id /= 0) =>
            /\ s /= t /\ Active(t) /\ run[t].pc \in {"running", "enqueue"} =>
                 run[s].id /= run[t].id
            /\ \A i \in Ids(queue) : queue.items[i].payload.id /= run[s].id
    /\ \A i \in Ids(queue) : queue.items[i].payload.id /= 0

\* A restart never brings back an older configuration than the one that ran
\* (batch.go:88-91, configure persists before it applies).
ConfigDurable ==
    /\ applied <= blob /\ blob <= sentCfg
    /\ loop.pc = "configure" => loop.cmd = blob

\* Every counted skip is reported, unless the process stopped in between
\* (batch.go:147-148).
SkipsReported ==
    \A j \in Jobs :
        LET reported == Cardinality({i \in Ids(queue) :
                          queue.items[i].payload.job = j /\ queue.items[i].payload.status = "skipped"})
            pending  == Cardinality({s \in Slots :
                          Active(s) /\ run[s].job = j /\ run[s].status = "skipped"
                          /\ run[s].pc \in {"newid", "enqueue"}})
        IN  /\ skips[j] >= reported
            /\ faults = 0 => skips[j] = reported + pending

\* A job is never run twice at the same time ("anti-overlap par job", batch.go:39;
\* "si le run precedent tourne encore, appliquer Overlap (skip par defaut)",
\* docs/agentIA4Batch2Go/specs.md:238).
NoOverlap ==
    \A s, t \in Slots :
        (Active(s) /\ Active(t) /\ run[s].pc = "running" /\ run[t].pc = "running"
         /\ run[s].job = run[t].job) => s = t

\* Two runs of one job at a time come from two configurations (batch.go:100): a
\* trigger of the same configuration is skipped.
OverlapOnlyAcrossConfigs ==
    \A s, t \in Slots :
        (Active(s) /\ Active(t) /\ run[s].pc = "running" /\ run[t].pc = "running"
         /\ run[s].job = run[t].job /\ s /= t) => run[s].cell /= run[t].cell

\* "arret propre : draine les runs en cours" (docs/agentIA4Batch2Go/specs.md:95,
\* and "draining workers", supervisor.go:55): the agent does not close its store
\* while a run still has to write its report.
GracefulStop ==
    [][CloseStore => \A s \in Slots : Active(s) => run[s].pc \in {"lookup", "release"}]_vars

\* What was persisted is applied in the end, whatever crashes and restarts there
\* are in between (batch.go:60-66).
PersistedIsApplied == \A k \in ConfigNumbers : blob = k ~> applied >= k

\* The run of job j that holds its present flag is in runner.Run.
InRunner(j) ==
    \E s \in Slots : /\ Active(s) /\ run[s].pc = "running"
                     /\ run[s].owner /\ run[s].cell = gen /\ run[s].job = j

\* The flag of a job is free again and again (batch.go:151, on every path out of fire),
\* unless a run of it never returns: a descendant of its child that keeps the pipe open
\* blocks the job for ever (runner.go:78), and nothing else does.
JobsFreeAgain ==
    \A j \in Jobs :
        \/ []<>(j \in JobsOf(applied) => flags[gen][j] = 0)
        \/ <>[]InRunner(j)
=============================================================================
