--------------------------- MODULE BatchJobsProofs ---------------------------
(***************************************************************************)
(* Proofs about BatchJobs, for every number of jobs, configurations,       *)
(* goroutines, triggers, stops and crashes, and about the run ids of the   *)
(* reports in BatchPipeline, for any lease, backoff and attempt limit.     *)
(***************************************************************************)
EXTENDS BatchPipeline, QueueOpsProofs, SequenceTheorems, FiniteSetTheorems

Reports == [job : Jobs, id : Nat, status : Statuses]
Agents  == {"ok", "unknown", "badprompt"}
Cells   == UNION {[S -> {0, 1}] : S \in SUBSET Jobs}

---------------------------------------------------------------------------
(* Types. *)

\* The constants: a configuration says of some jobs what they are.
LEMMA ConfigLemma ==
    ASSUME NEW k \in ConfigNumbers
    PROVE  /\ DOMAIN Configs[k] \subseteq Jobs
           /\ Configs[k] \in [DOMAIN Configs[k] -> JobSpecs]
<1>1. /\ Configs \in Seq(UNION {[S -> JobSpecs] : S \in SUBSET Jobs})
      /\ k \in 1 .. Len(Configs)
  BY ConfigsAssumption DEF ConfigNumbers
<1>2. Configs[k] \in UNION {[S -> JobSpecs] : S \in SUBSET Jobs}
  BY <1>1, ElementOfSeq
<1> QED
  BY <1>1, <1>2

\* How many configurations there are.
LEMMA ConfigCount == Len(Configs) \in Nat
  BY ConfigsAssumption, LenProperties

\* A goroutine that is not idle has all its fields.
LEMMA ActiveFire ==
    ASSUME TypeOK, NEW s \in Slots, run[s].pc /= "idle"
    PROVE  run[s] \in FireType
  BY DEF TypeOK, Idle

\* The types at the start.
LEMMA TypeInit == Init => TypeOK
<1> SUFFICES ASSUME Init PROVE TypeOK
  OBVIOUS
<1>1. IsQueue(queue, Reports)
  BY DEF Init, EmptyQueue, IsQueue, Ids
<1>2. channel \in Seq(ConfigNumbers) /\ Len(channel) <= BusCap
  BY ConfigsAssumption, EmptySeq DEF Init, JobsInit
<1>3. flags \in Seq(Cells) /\ gen = Len(flags)
  BY EmptySeq DEF Init, JobsInit
<1> QED
  BY <1>1, <1>2, <1>3, ConfigsAssumption, MaxFaultsAssumption
     DEF Init, JobsInit, ProcessInit, TypeOK, Phases, Reports, Cells, Loop, Idle

\* The steps of a goroutine, by what they change in its own record
\* (batch.go:138-201).
LEMMA FireTypes ==
    ASSUME TypeOK, NEW s \in Slots, NEW now, FireStep(s, now)
    PROVE  /\ run' \in [Slots -> {Idle} \cup FireType']
           /\ runSeq' \in Nat
           /\ skips' \in [Jobs -> Nat]
           /\ \A t \in Slots \ {s} : run'[t] = run[t]
<1> DEFINE r == run[s]
           Goal == /\ run' \in [Slots -> {Idle} \cup FireType']
                   /\ runSeq' \in Nat
                   /\ skips' \in [Jobs -> Nat]
                   /\ \A t \in Slots \ {s} : run'[t] = run[t]
<1>0. /\ run \in [Slots -> {Idle} \cup FireType] /\ runSeq \in Nat /\ gen \in Nat
      /\ skips \in [Jobs -> Nat]
  BY LenProperties DEF TypeOK
<1>1. CASE Lookup(s)
  <2>1. r \in FireType
    BY <1>1, ActiveFire DEF Lookup, At
  <2>2. [r EXCEPT !.pc = "cas", !.cell = gen] \in FireType
    <3>1. gen \in 0 .. gen
      BY <1>0
    <3> QED
      BY <2>1, <3>1, Zenon DEF FireType, FirePcs
  <2>3. FireType' = FireType
    BY <1>1 DEF Lookup, FireType, counters, cron
  <2> QED
    BY <1>0, <1>1, <2>2, <2>3 DEF Lookup, counters
<1>2. CASE CompareAndSwap(s)
  <2>1. r \in FireType
    BY <1>2, ActiveFire DEF CompareAndSwap, At
  <2>2. /\ [r EXCEPT !.pc = "start", !.owner = TRUE] \in FireType
        /\ [r EXCEPT !.pc = "countskip", !.status = "skipped"] \in FireType
    BY <2>1 DEF FireType, FirePcs, Statuses
  <2>3. FireType' = FireType
    BY <1>2 DEF CompareAndSwap, FireType, counters
  <2> QED
    BY <1>0, <1>2, <2>2, <2>3 DEF CompareAndSwap, counters
<1>3. CASE CountSkip(s)
  <2>1. r \in FireType
    BY <1>3, ActiveFire DEF CountSkip, At
  <2>2. [r EXCEPT !.pc = "newid"] \in FireType
    BY <2>1 DEF FireType, FirePcs
  <2>3. FireType' = FireType
    BY <1>3 DEF CountSkip, FireType, cron
  <2>4. skips' \in [Jobs -> Nat]
    BY <1>0, <1>3, <2>1 DEF CountSkip, FireType
  <2> QED
    BY <1>0, <1>3, <2>2, <2>3, <2>4 DEF CountSkip
<1>4. CASE FreshRunId(s)
  <2>1. r \in FireType
    BY <1>4, ActiveFire DEF FreshRunId, At
  <2>2. runSeq' \in Nat /\ NextRunId \in 0 .. runSeq' /\ runSeq <= runSeq'
    BY <1>0, <1>4 DEF FreshRunId, NextRunId, TakeRunId
  <2>3. gen' = gen /\ skips' = skips
    BY <1>4 DEF FreshRunId, cron
  <2>4. FireType \subseteq FireType'
    BY <1>0, <2>2, <2>3 DEF FireType
  <2>5. [r EXCEPT !.pc = "enqueue", !.id = NextRunId] \in FireType'
    BY <2>1, <2>2, <2>3 DEF FireType, FirePcs
  <2> QED
    BY <1>0, <1>4, <2>2, <2>3, <2>4, <2>5 DEF FreshRunId
<1>5. CASE StartRun(s)
  <2>1. r \in FireType
    BY <1>5, ActiveFire DEF StartRun, At
  <2>2. runSeq' \in Nat /\ NextRunId \in 0 .. runSeq' /\ runSeq <= runSeq'
    BY <1>0, <1>5 DEF StartRun, NextRunId, TakeRunId
  <2>3. gen' = gen /\ skips' = skips
    BY <1>5 DEF StartRun, cron
  <2>4. FireType \subseteq FireType'
    BY <1>0, <2>2, <2>3 DEF FireType
  <2>5. /\ [r EXCEPT !.pc = "running", !.id = NextRunId] \in FireType'
        /\ [r EXCEPT !.pc = "newid", !.id = NextRunId, !.status = "failed"] \in FireType'
    BY <2>1, <2>2, <2>3 DEF FireType, FirePcs, Statuses
  <2> QED
    BY <1>0, <1>5, <2>2, <2>3, <2>4, <2>5 DEF StartRun
<1>6. CASE FinishRun(s)
  <2>1. r \in FireType
    BY <1>6, ActiveFire DEF FinishRun, At
  <2>2. \A st \in {"success", "failed", "timeout"} :
          [r EXCEPT !.pc = "enqueue", !.status = st] \in FireType
    BY <2>1 DEF FireType, FirePcs, Statuses
  <2>3. FireType' = FireType
    BY <1>6 DEF FinishRun, FireType, cron, counters
  <2> QED
    BY <1>0, <1>6, <2>2, <2>3 DEF FinishRun, counters
<1>7. CASE EnqueueReport(s, now)
  <2>1. r \in FireType
    BY <1>7, ActiveFire DEF EnqueueReport, At
  <2>2. AfterReport(r) \in {Idle} \cup FireType
    BY <2>1 DEF AfterReport, FireType, FirePcs
  <2>3. FireType' = FireType
    BY <1>7 DEF EnqueueReport, FireType, cron, counters
  <2> QED
    BY <1>0, <1>7, <2>2, <2>3 DEF EnqueueReport, counters
<1>8. CASE Release(s)
  <2>1. FireType' = FireType
    BY <1>8 DEF Release, FireType, counters
  <2> QED
    BY <1>0, <1>8, <2>1 DEF Release, counters
<1>9. CASE DropReport(s)
  <2>1. r \in FireType
    BY <1>9, ActiveFire DEF DropReport, At
  <2>2. AfterReport(r) \in {Idle} \cup FireType
    BY <2>1 DEF AfterReport, FireType, FirePcs
  <2>3. FireType' = FireType
    BY <1>9 DEF DropReport, FireType, cron, counters
  <2> QED
    BY <1>0, <1>9, <2>2, <2>3 DEF DropReport, counters
<1> QED
  BY <1>1, <1>2, <1>3, <1>4, <1>5, <1>6, <1>7, <1>8, <1>9 DEF FireStep

\* Setting or freeing a flag changes that flag (batch.go:145, 151).
LEMMA SetFlag ==
    ASSUME NEW f \in Seq(Cells), NEW c, NEW j, NEW v \in {0, 1},
           NEW h, h = [f EXCEPT ![c][j] = v]
    PROVE  /\ h \in Seq(Cells) /\ Len(h) = Len(f)
           /\ \A g \in 1 .. Len(f) :
                /\ DOMAIN h[g] = DOMAIN f[g]
                /\ \A i \in DOMAIN f[g] : h[g][i] = IF g = c /\ i = j THEN v ELSE f[g][i]
<1>1. CASE c \in 1 .. Len(f)
  <2> DEFINE e == [f[c] EXCEPT ![j] = v]
  <2>1. f[c] \in Cells
    BY <1>1, ElementOfSeq
  <2>2. e \in Cells /\ DOMAIN e = DOMAIN f[c]
    BY <2>1 DEF Cells
  <2>3. \A i \in DOMAIN f[c] : e[i] = IF i = j THEN v ELSE f[c][i]
    OBVIOUS
  <2>4. h = [f EXCEPT ![c] = e]
    OBVIOUS
  <2> HIDE DEF e
  <2>5. /\ h \in Seq(Cells) /\ Len(h) = Len(f)
        /\ \A g \in 1 .. Len(f) : h[g] = IF g = c THEN e ELSE f[g]
    BY <1>1, <2>2, <2>4, ExceptSeq
  <2> QED
    BY <2>2, <2>3, <2>5
<1>2. CASE c \notin 1 .. Len(f)
  <2>1. f = [i \in 1 .. Len(f) |-> f[i]] /\ DOMAIN f = 1 .. Len(f)
    BY LenProperties
  <2>2. h = f
    BY <1>2, <2>1
  <2> QED
    BY <1>2, <2>2
<1> QED
  BY <1>1, <1>2

\* What the goroutines do to the flags: a set flag was free, a freed flag is their own.
LEMMA FireFlags ==
    ASSUME TypeOK, NEW s \in Slots, NEW now, FireStep(s, now)
    PROVE  flags' \in Seq(Cells) /\ Len(flags') = Len(flags)
<1>0. flags \in Seq(Cells)
  BY DEF TypeOK, Cells
<1>1. CASE CompareAndSwap(s) \/ Release(s)
  <2> DEFINE c == run[s].cell
             j == run[s].job
  <2>1. \/ flags' = [flags EXCEPT ![c][j] = 1]
        \/ flags' = [flags EXCEPT ![c][j] = 0]
        \/ flags' = flags
    BY <1>1 DEF CompareAndSwap, Release
  <2> HIDE DEF c, j
  <2> QED
    BY <1>0, <2>1, SetFlag
<1>2. CASE ~(CompareAndSwap(s) \/ Release(s))
  <2>1. flags' = flags
    BY <1>2 DEF FireStep, Lookup, CountSkip, FreshRunId, StartRun, FinishRun, EnqueueReport,
                DropReport, cron
  <2> QED
    BY <1>0, <2>1
<1> QED
  BY <1>1, <1>2

\* A queue of reports remains one (batch.go:192).
LEMMA FireQueue ==
    ASSUME TypeOK, NEW s \in Slots, NEW now, IsMs(now), FireStep(s, now)
    PROVE  IsQueue(queue', Reports)
<1>0. IsQueue(queue, Reports)
  BY DEF TypeOK, Reports
<1>1. CASE EnqueueReport(s, now)
  <2>1. Report(run[s]) \in Reports
    BY <1>1, ActiveFire DEF EnqueueReport, At, Report, Reports, FireType, TypeOK
  <2>2. IsQueue(Enqueue(queue, Report(run[s]), now), Reports)
    BY <1>0, <2>1, EnqueueLemma
  <2> QED
    BY <1>0, <1>1, <2>2 DEF EnqueueReport
<1>2. CASE ~EnqueueReport(s, now)
  <2>1. queue' = queue
    BY <1>2 DEF FireStep, Lookup, CompareAndSwap, CountSkip, FreshRunId, StartRun,
                FinishRun, DropReport, Release
  <2> QED
    BY <1>0, <2>1
<1> QED
  BY <1>1, <1>2

\* What the goroutines leave alone.
LEMMA FireQuiet ==
    ASSUME NEW s \in Slots, NEW now, FireStep(s, now)
    PROVE  UNCHANGED <<processVars, config, gen, applied, triggers>>
  BY DEF FireStep, Lookup, CompareAndSwap, CountSkip, FreshRunId, StartRun,
         FinishRun, EnqueueReport, DropReport, Release, cron

\* A trigger takes a slot that is free (batch.go:113, 124-134).
LEMMA StartEffect ==
    ASSUME TypeOK, NEW s \in Slots, NEW j \in Jobs, CronFires(s, j) \/ RunNow(s, j)
    PROVE  /\ run[s] = Idle /\ applied \in ConfigNumbers /\ j \in DOMAIN Configs[applied]
           /\ run' = [run EXCEPT ![s] =
                        Fire("lookup", j, Configs[applied][j].agent, 0, FALSE, 0, "none")]
           /\ triggers < MaxTriggers /\ triggers' = triggers + 1
           /\ UNCHANGED <<queue, processVars, counters, config, cron>>
  BY DEF TypeOK, CronFires, RunNow, Start, JobsOf

\* Every step of the scheduler keeps the types, whatever the time is.
LEMMA JobsType ==
    ASSUME TypeOK, NEW now, IsMs(now), JobsStep(now) \/ UNCHANGED vars
    PROVE  TypeOK'
<1>0. /\ gen \in Nat /\ runSeq \in Nat /\ triggers \in 0 .. MaxTriggers /\ MaxTriggers \in Nat
      /\ Len(channel) \in Nat
  BY LenProperties, ConfigsAssumption DEF TypeOK
<1>1. ASSUME NEW s \in Slots, FireStep(s, now) PROVE TypeOK'
  BY <1>1, FireTypes, FireFlags, FireQueue, FireQuiet
     DEF TypeOK, Reports, Cells, processVars, config
<1>2. ASSUME NEW s \in Slots, NEW j \in Jobs, CronFires(s, j) \/ RunNow(s, j) PROVE TypeOK'
  <2>1. Configs[applied][j].agent \in Agents
    BY <1>2, StartEffect, ConfigLemma DEF JobSpecs, Agents
  <2>2. Fire("lookup", j, Configs[applied][j].agent, 0, FALSE, 0, "none") \in FireType
    BY <1>0, <2>1 DEF Fire, FireType, FirePcs, Statuses, Agents
  <2>3. FireType' = FireType
    BY <1>2, StartEffect DEF FireType, counters, cron
  <2>4. run' \in [Slots -> {Idle} \cup FireType'] /\ triggers' \in 0 .. MaxTriggers
    <3> DEFINE new == Fire("lookup", j, Configs[applied][j].agent, 0, FALSE, 0, "none")
    <3>1. run \in [Slots -> {Idle} \cup FireType]
      BY DEF TypeOK
    <3>2. run' = [run EXCEPT ![s] = new] /\ triggers < MaxTriggers /\ triggers' = triggers + 1
      BY <1>2, StartEffect
    <3> HIDE DEF new
    <3>3. run' \in [Slots -> {Idle} \cup FireType']
      BY <2>2, <2>3, <3>1, <3>2 DEF new
    <3> QED
      BY <1>0, <3>2, <3>3
  <2>5. UNCHANGED <<queue, processVars, counters, config, cron>>
    BY <1>2, StartEffect
  <2> QED
    BY <2>4, <2>5 DEF TypeOK, processVars, counters, config, cron
<1>3. CASE SendConfig
  <2>1. sentCfg' \in ConfigNumbers
    <3>1. sentCfg \in Nat /\ sentCfg < Len(Configs) /\ sentCfg' = sentCfg + 1
      BY <1>3, ConfigCount DEF SendConfig, TypeOK, ConfigNumbers
    <3> QED
      BY <3>1, ConfigCount DEF ConfigNumbers
  <2>2. channel' \in Seq(ConfigNumbers) /\ Len(channel') <= BusCap
    <3>1. /\ Append(channel, sentCfg') \in Seq(ConfigNumbers)
          /\ Len(Append(channel, sentCfg')) = Len(channel) + 1
      BY <2>1, AppendProperties DEF TypeOK
    <3> QED
      BY <1>0, <1>3, <3>1, ConfigsAssumption DEF SendConfig, Publish, TypeOK
  <2> QED
    BY <1>3, <2>1, <2>2 DEF SendConfig, TypeOK, FireType, processVars, counters, cron, fires
<1>4. CASE PersistConfig
  <2>1. /\ Head(channel) \in ConfigNumbers /\ Tail(channel) \in Seq(ConfigNumbers)
        /\ Len(Tail(channel)) <= BusCap
    <3>1. channel \in Seq(ConfigNumbers) /\ channel /= <<>> /\ Len(channel) <= BusCap
      BY <1>4 DEF PersistConfig, TypeOK
    <3>2. /\ Head(channel) \in ConfigNumbers /\ Tail(channel) \in Seq(ConfigNumbers)
          /\ Len(Tail(channel)) = Len(channel) - 1
      BY <3>1, HeadTailProperties
    <3> QED
      BY <1>0, <3>1, <3>2, ConfigsAssumption
  <2> QED
    BY <1>4, <2>1
       DEF PersistConfig, PutBlob, Loop, TypeOK, FireType, processVars, counters, cron, fires
<1>5. CASE ApplyConfig
  <2> DEFINE new == [j \in JobsOf(loop.cmd) |-> 0]
  <2>1. new \in Cells
    <3>1. JobsOf(loop.cmd) \in SUBSET Jobs
      <4>1. loop.cmd = 0 \/ loop.cmd \in ConfigNumbers
        BY DEF TypeOK
      <4> QED
        BY <4>1, ConfigLemma DEF JobsOf
    <3>2. new \in [JobsOf(loop.cmd) -> {0, 1}]
      OBVIOUS
    <3> QED
      BY <3>1, <3>2 DEF Cells
  <2> HIDE DEF new
  <2>2. flags' \in Seq(Cells) /\ Len(flags') = gen + 1
    BY <1>5, <2>1, AppendProperties DEF ApplyConfig, TypeOK, Cells, new
  <2>3. FireType \subseteq FireType'
    BY <1>0, <1>5 DEF ApplyConfig, FireType, counters
  <2> QED
    BY <1>5, <2>2, <2>3
       DEF ApplyConfig, Loop, TypeOK, Cells, processVars, counters, fires
<1>6. CASE LoopStop \/ UNCHANGED vars
  BY <1>6 DEF LoopStop, Loop, TypeOK, FireType, vars, jobsVars, processVars, counters,
              config, cron, fires
<1> QED
  BY <1>1, <1>2, <1>3, <1>4, <1>5, <1>6 DEF JobsStep, LoopStep

\* So do the stops, crashes and starts of the process.
LEMMA ProcessType ==
    ASSUME TypeOK, ProcessStep
    PROVE  TypeOK'
<1>1. phase' \in Phases /\ faults' \in 0 .. MaxFaults
  BY MaxFaultsAssumption
     DEF ProcessStep, Sigterm, CloseStore, Exit, Crash, Boot, TypeOK, Phases
<1>2. CASE UNCHANGED jobsVars
  BY <1>1, <1>2
     DEF ProcessStep, TypeOK, FireType, jobsVars, counters, config, cron, fires
<1>3. CASE Forget
  <2>1. channel' \in Seq(ConfigNumbers) /\ Len(channel') <= BusCap
    BY <1>3, EmptySeq, ConfigsAssumption DEF Forget
  <2>2. flags' \in Seq(Cells) /\ Len(flags') = 0 /\ gen' = 0 /\ applied' = 0
    BY <1>3, EmptySeq DEF Forget
  <2>3. run' \in [Slots -> {Idle} \cup FireType']
    BY <1>3 DEF Forget
  <2> QED
    BY <1>1, <1>3, <2>1, <2>2, <2>3
       DEF ProcessStep, Forget, Loop, TypeOK, Cells, counters
<1>4. CASE LoadConfig
  BY <1>1, <1>4
     DEF ProcessStep, LoadConfig, Loop, TypeOK, FireType, counters, cron, fires
<1> QED
  BY <1>2, <1>3, <1>4 DEF ProcessStep

\* Every step.
LEMMA TypeStep ==
    ASSUME TypeOK, [Next]_vars
    PROVE  TypeOK'
  BY JobsType, ProcessType DEF Next, IsMs

\* The state of the worker and of the goroutines of fire keeps its types, the bound of
\* the bus included (batch.go:28-40, bus.go:18).
THEOREM JobsTypeCorrect == Spec => []TypeOK
  BY TypeInit, TypeStep, PTL DEF Spec

---------------------------------------------------------------------------
(* The persisted configuration. *)

\* What ConfigDurable does not say: the commands that wait are newer than what is
\* persisted and in the order they were sent, and the loop is over when the store
\* is closed, so that what it takes is always written.
ConfigOrder ==
    /\ ~StoreOpen => loop.pc \in {"stopped", "off"}
    /\ \A i \in 1 .. Len(channel) : blob < channel[i] /\ channel[i] <= sentCfg
    /\ \A i, k \in 1 .. Len(channel) : i < k => channel[i] < channel[k]

\* Nothing is sent at the start.
LEMMA ConfigInit == Init => ConfigDurable /\ ConfigOrder
  BY EmptySeq
     DEF Init, ProcessInit, JobsInit, Loop, StoreOpen, ConfigDurable, ConfigOrder

\* The numbers of configurations.
LEMMA ConfigNumbersLemma ==
    ASSUME TypeOK
    PROVE  /\ blob \in Nat /\ applied \in Nat /\ sentCfg \in Nat /\ Len(channel) \in Nat
           /\ \A i \in 1 .. Len(channel) : channel[i] \in Nat
<1>1. \A k \in ConfigNumbers : k \in Nat
  BY ConfigCount DEF ConfigNumbers
<1>2. /\ channel \in Seq(ConfigNumbers)
      /\ blob \in {0} \cup ConfigNumbers /\ applied \in {0} \cup ConfigNumbers
      /\ sentCfg \in {0} \cup ConfigNumbers
  BY DEF TypeOK
<1>3. Len(channel) \in Nat /\ \A i \in 1 .. Len(channel) : channel[i] \in ConfigNumbers
  BY <1>2, LenProperties, ElementOfSeq
<1>4. blob \in Nat /\ applied \in Nat /\ sentCfg \in Nat
  BY <1>1, <1>2
<1> QED
  BY <1>1, <1>3, <1>4

\* configure persists before it applies, and what it applies is what it persisted
\* (batch.go:88-93).
LEMMA ConfigStep ==
    ASSUME TypeOK, ConfigDurable, ConfigOrder, [Next]_vars
    PROVE  ConfigDurable' /\ ConfigOrder'
<1> USE ConfigNumbersLemma
<1>1. ASSUME NEW s \in Slots, FireStep(s, 0) PROVE ConfigDurable' /\ ConfigOrder'
  <2>1. UNCHANGED <<phase, blob, sentCfg, channel, loop, applied>>
    BY <1>1, FireQuiet DEF processVars, config
  <2> QED
    BY <2>1 DEF ConfigDurable, ConfigOrder, StoreOpen
<1>2. ASSUME NEW s \in Slots, NEW j \in Jobs, CronFires(s, j) \/ RunNow(s, j)
      PROVE  ConfigDurable' /\ ConfigOrder'
  BY <1>2, StartEffect DEF processVars, config, cron, ConfigDurable, ConfigOrder, StoreOpen
<1>3. CASE SendConfig
  <2>1. /\ sentCfg' = sentCfg + 1 /\ sentCfg' \in ConfigNumbers
        /\ channel' = Publish(sentCfg') /\ UNCHANGED <<phase, blob, loop, applied>>
    <3>1. sentCfg < Len(Configs) /\ sentCfg' = sentCfg + 1
      BY <1>3 DEF SendConfig
    <3>2. sentCfg' \in ConfigNumbers
      BY <3>1, ConfigCount DEF ConfigNumbers
    <3> QED
      BY <1>3, <3>1, <3>2 DEF SendConfig, processVars, cron
  <2>2. CASE channel' = channel
    BY <2>1, <2>2 DEF ConfigDurable, ConfigOrder, StoreOpen
  <2>3. CASE channel' = Append(channel, sentCfg')
    <3>1. channel \in Seq(ConfigNumbers)
      BY DEF TypeOK
    <3>2. /\ Len(channel') = Len(channel) + 1
          /\ \A i \in 1 .. Len(channel) : channel'[i] = channel[i]
          /\ channel'[Len(channel) + 1] = sentCfg'
      BY <2>1, <2>3, <3>1, AppendProperties
    <3>3. \A i \in 1 .. Len(channel') :
            \/ i \in 1 .. Len(channel) /\ channel'[i] = channel[i]
            \/ i = Len(channel) + 1 /\ channel'[i] = sentCfg + 1
      BY <2>1, <3>2
    <3>4. ConfigDurable' /\ blob' <= sentCfg
      BY <2>1 DEF ConfigDurable
    <3>5. \A i \in 1 .. Len(channel') : blob' < channel'[i] /\ channel'[i] <= sentCfg'
      BY <2>1, <3>3, <3>4 DEF ConfigOrder
    <3>6. \A i, k \in 1 .. Len(channel') : i < k => channel'[i] < channel'[k]
      BY <3>2, <3>3 DEF ConfigOrder
    <3> QED
      BY <2>1, <3>4, <3>5, <3>6 DEF ConfigOrder, StoreOpen
  <2> QED
    BY <2>1, <2>2, <2>3 DEF Publish
<1>4. CASE PersistConfig
  <2>1. channel \in Seq(ConfigNumbers) /\ channel /= <<>> /\ loop.pc = "select"
    BY <1>4 DEF PersistConfig, TypeOK
  <2>2. StoreOpen
    BY <2>1 DEF ConfigOrder
  <2>3. /\ Len(channel) \in Nat \ {0} /\ Head(channel) = channel[1]
        /\ Len(Tail(channel)) = Len(channel) - 1
        /\ \A i \in 1 .. Len(Tail(channel)) : Tail(channel)[i] = channel[i + 1]
    BY <2>1, HeadTailProperties, EmptySeq
  <2>4. /\ blob' = channel[1] /\ channel' = Tail(channel) /\ loop' = Loop("configure", channel[1])
        /\ UNCHANGED <<phase, sentCfg, applied>>
    BY <1>4, <2>2, <2>3 DEF PersistConfig, PutBlob, processVars, cron
  <2>5. blob < channel[1] /\ channel[1] <= sentCfg
    BY <2>3 DEF ConfigOrder
  <2>6. ConfigDurable'
    BY <2>3, <2>4, <2>5 DEF ConfigDurable, Loop
  <2>7. \A i \in 1 .. Len(channel') :
          /\ i + 1 \in 1 .. Len(channel) /\ channel'[i] = channel[i + 1]
    BY <2>3, <2>4
  <2>8. /\ \A i \in 1 .. Len(channel') : blob' < channel'[i] /\ channel'[i] <= sentCfg'
        /\ \A i, k \in 1 .. Len(channel') : i < k => channel'[i] < channel'[k]
    BY <2>3, <2>4, <2>7 DEF ConfigOrder
  <2> QED
    BY <2>2, <2>4, <2>6, <2>8 DEF ConfigOrder, StoreOpen
<1>5. CASE ApplyConfig
  BY <1>5 DEF ApplyConfig, Loop, processVars, ConfigDurable, ConfigOrder, StoreOpen
<1>6. CASE LoopStop \/ UNCHANGED vars
  BY <1>6 DEF LoopStop, Loop, vars, jobsVars, processVars, config, cron, ConfigDurable,
              ConfigOrder, StoreOpen
<1>7. CASE ProcessStep
  <2>1. CASE Forget
    <3>1. channel' = <<>> /\ loop'.pc = "off" /\ applied' = 0 /\ UNCHANGED <<blob, sentCfg>>
      BY <2>1 DEF Forget, Loop
    <3>2. Len(channel') = 0
      BY <3>1, EmptySeq
    <3> QED
      BY <3>1, <3>2 DEF ConfigDurable, ConfigOrder
  <2>2. CASE (Sigterm \/ (CloseStore /\ LoopReturned)) /\ UNCHANGED jobsVars
    BY <2>2 DEF Sigterm, CloseStore, LoopReturned, jobsVars, config, cron, ConfigDurable,
                ConfigOrder, StoreOpen
  <2>3. CASE Boot /\ LoadConfig
    <3>1. /\ phase' = "up" /\ UNCHANGED <<blob, sentCfg, channel, applied>>
          /\ loop' = IF blob = 0 THEN Loop("select", 0) ELSE Loop("configure", blob)
      BY <2>3 DEF Boot, LoadConfig, cron
    <3>2. loop'.pc = "configure" => loop'.cmd = blob
      BY <3>1 DEF Loop
    <3> QED
      BY <3>1, <3>2 DEF ConfigDurable, ConfigOrder, StoreOpen
  <2> QED
    BY <1>7, <2>1, <2>2, <2>3 DEF ProcessStep
<1> QED
  BY <1>1, <1>2, <1>3, <1>4, <1>5, <1>6, <1>7 DEF Next, JobsStep, LoopStep

\* Whatever stops and crashes there are, the configuration that is applied is not
\* newer than the one that is persisted, and no older one comes back (batch.go:88-91).
THEOREM ConfigSurvives == Spec => []ConfigDurable
<1>1. Init => TypeOK /\ ConfigDurable /\ ConfigOrder
  BY TypeInit, ConfigInit
<1>2. TypeOK /\ ConfigDurable /\ ConfigOrder /\ [Next]_vars
        => (TypeOK /\ ConfigDurable /\ ConfigOrder)'
  BY TypeStep, ConfigStep
<1> QED
  BY <1>1, <1>2, PTL DEF Spec

---------------------------------------------------------------------------
(* The flags. *)

\* The goroutine in slot s set the flag of job j of the g-th configuration.
Holds(s, g, j) ==
    run[s].pc /= "idle" /\ run[s].owner /\ run[s].cell = g /\ run[s].job = j

\* Where a goroutine is says whether it set a flag, and after its lookup it has the
\* place of one.
Placed(s) ==
    /\ run[s].pc \in {"lookup", "cas", "countskip"} => ~run[s].owner
    /\ run[s].pc \in {"start", "running", "release"} => run[s].owner
    /\ run[s].pc \notin {"idle", "lookup"} =>
         run[s].cell \in 1 .. gen /\ run[s].job \in DOMAIN flags[run[s].cell]

\* The flags that are in use are those of the applied configuration.
Current ==
    /\ gen = 0 => applied = 0
    /\ gen > 0 => DOMAIN flags[gen] = JobsOf(applied)

\* A flag that is set has one holder, a free flag has none.
Held ==
    /\ \A g \in 1 .. gen : \A j \in DOMAIN flags[g] :
         flags[g][j] = 1 <=> \E s \in Slots : Holds(s, g, j)
    /\ \A s, t \in Slots : \A g, j : Holds(s, g, j) /\ Holds(t, g, j) => s = t

FlagInv == (\A s \in Slots : Placed(s)) /\ Current /\ Held

\* No configuration, no flag, no goroutine.
LEMMA FlagInit == Init => FlagInv
  BY EmptySeq DEF Init, JobsInit, FlagInv, Placed, Current, Held, Holds, Idle

\* A flag is free or set.
LEMMA FlagValues ==
    ASSUME TypeOK, NEW g \in 1 .. gen, NEW j \in DOMAIN flags[g]
    PROVE  flags[g][j] \in {0, 1}
<1>1. flags \in Seq(Cells) /\ g \in 1 .. Len(flags)
  BY DEF TypeOK, Cells
<1>2. flags[g] \in Cells
  BY <1>1, ElementOfSeq
<1> QED
  BY <1>2 DEF Cells

\* A step of one goroutine that leaves the flags, and what it holds, alone.
LEMMA FlagsUntouched ==
    ASSUME FlagInv, NEW s \in Slots,
           UNCHANGED <<flags, gen, applied>>,
           \A t \in Slots \ {s} : run'[t] = run[t],
           Placed(s)',
           \A g, j : Holds(s, g, j)' <=> Holds(s, g, j)
    PROVE  FlagInv'
<1>1. \A t \in Slots : \A g, j : Holds(t, g, j)' <=> Holds(t, g, j)
  BY DEF Holds
<1>2. \A t \in Slots : Placed(t)'
  BY DEF FlagInv, Placed
<1>3. Current'
  BY DEF FlagInv, Current, JobsOf
<1>4. Held'
  BY <1>1 DEF FlagInv, Held
<1> QED
  BY <1>2, <1>3, <1>4 DEF FlagInv

\* The compare-and-swap is the only step that takes a flag, and the deferred store the
\* only one that frees it (batch.go:145, 151).
LEMMA FlagFire ==
    ASSUME TypeOK, FlagInv, NEW s \in Slots, FireStep(s, 0)
    PROVE  FlagInv'
<1> DEFINE r == run[s]
<1>0. /\ run \in [Slots -> {Idle} \cup FireType] /\ Placed(s)
      /\ \A t \in Slots \ {s} : run'[t] = run[t]
      /\ UNCHANGED <<gen, applied>>
  BY FireTypes, FireQuiet DEF TypeOK, FlagInv
<1>1. CASE Lookup(s)
  <2>1. r \in FireType /\ r.pc = "lookup" /\ ~r.owner
    BY <1>0, <1>1, ActiveFire DEF Lookup, At, Placed
  <2>2. flags' = flags
    BY <1>1 DEF Lookup, cron
  <2>3. CASE r.job \in JobsOf(applied)
    <3>1. run'[s] = [r EXCEPT !.pc = "cas", !.cell = gen]
      BY <1>0, <1>1, <2>3 DEF Lookup
    <3>2. /\ run'[s].pc = "cas" /\ run'[s].owner = r.owner /\ run'[s].job = r.job
          /\ run'[s].cell = gen
      BY <2>1, <3>1, Zenon DEF FireType
    <3>3. gen \in 1 .. gen /\ r.job \in DOMAIN flags[gen]
      <4>1. gen \in Nat
        BY LenProperties DEF TypeOK
      <4> QED
        BY <2>3, <4>1 DEF FlagInv, Current, JobsOf
    <3> QED
      BY <1>0, <2>1, <2>2, <3>2, <3>3, FlagsUntouched DEF Placed, Holds
  <2>4. CASE r.job \notin JobsOf(applied)
    <3>1. run'[s] = Idle
      BY <1>0, <1>1, <2>4 DEF Lookup
    <3> QED
      BY <1>0, <2>1, <2>2, <3>1, FlagsUntouched DEF Placed, Holds, Idle
  <2> QED
    BY <2>3, <2>4
<1>2. CASE CompareAndSwap(s)
  <2>1. /\ r \in FireType /\ r.pc = "cas" /\ ~r.owner
        /\ r.cell \in 1 .. gen /\ r.job \in DOMAIN flags[r.cell]
    BY <1>0, <1>2, ActiveFire DEF CompareAndSwap, At, Placed
  <2>2. CASE flags[r.cell][r.job] = 0
    <3>1. run'[s] = [r EXCEPT !.pc = "start", !.owner = TRUE]
      BY <1>0, <1>2, <2>2 DEF CompareAndSwap
    <3>2. run'[s].pc = "start" /\ run'[s].owner /\ run'[s].job = r.job /\ run'[s].cell = r.cell
      BY <2>1, <3>1 DEF FireType
    <3>3. /\ \A g \in 1 .. gen :
               /\ DOMAIN flags'[g] = DOMAIN flags[g]
               /\ \A j \in DOMAIN flags[g] :
                    flags'[g][j] = IF g = r.cell /\ j = r.job THEN 1 ELSE flags[g][j]
      <4>1. flags \in Seq(Cells) /\ gen = Len(flags)
        BY DEF TypeOK, Cells
      <4>2. flags' = [flags EXCEPT ![r.cell][r.job] = 1]
        BY <1>2, <2>2 DEF CompareAndSwap
      <4> HIDE DEF r
      <4> QED
        BY <4>1, <4>2, SetFlag
    <3>4. \A g, j : Holds(s, g, j)' <=> g = r.cell /\ j = r.job
      BY <3>2 DEF Holds
    <3>5. \A t \in Slots \ {s} : \A g, j : Holds(t, g, j)' <=> Holds(t, g, j)
      BY <1>0 DEF Holds
    <3>6. \A t \in Slots : ~Holds(t, r.cell, r.job)
      BY <2>1, <2>2 DEF FlagInv, Held
    <3>7. \A g, j : ~Holds(s, g, j)
      BY <2>1 DEF Holds
    <3>8. Held'
      BY <1>0, <3>3, <3>4, <3>5, <3>6, <3>7 DEF FlagInv, Held
    <3>9. (\A t \in Slots : Placed(t)') /\ Current'
      <4>1. \A t \in Slots \ {s} : Placed(t)'
        BY <1>0, <3>3 DEF FlagInv, Placed
      <4>2. Placed(s)'
        BY <1>0, <2>1, <3>2, <3>3 DEF Placed
      <4>3. Current'
        <5>1. gen \in Nat
          BY LenProperties DEF TypeOK
        <5> QED
          BY <1>0, <3>3, <5>1 DEF FlagInv, Current, JobsOf
      <4> QED
        BY <4>1, <4>2, <4>3
    <3> QED
      BY <3>8, <3>9 DEF FlagInv
  <2>3. CASE flags[r.cell][r.job] /= 0
    <3>1. run'[s] = [r EXCEPT !.pc = "countskip", !.status = "skipped"] /\ flags' = flags
      BY <1>0, <1>2, <2>3 DEF CompareAndSwap
    <3>2. /\ run'[s].pc = "countskip" /\ run'[s].owner = r.owner /\ run'[s].job = r.job
          /\ run'[s].cell = r.cell
      BY <2>1, <3>1 DEF FireType
    <3> QED
      BY <1>0, <2>1, <3>1, <3>2, FlagsUntouched DEF Placed, Holds
  <2> QED
    BY <2>2, <2>3
<1>3. CASE CountSkip(s) \/ FreshRunId(s) \/ StartRun(s) \/ FinishRun(s)
  <2>1. r \in FireType /\ r.pc \in {"countskip", "newid", "start", "running"}
    BY <1>3, ActiveFire DEF CountSkip, FreshRunId, StartRun, FinishRun, At
  <2>2. flags' = flags
    BY <1>3 DEF CountSkip, FreshRunId, StartRun, FinishRun, cron
  <2>3. /\ run'[s].pc \in {"newid", "enqueue", "running"}
        /\ run'[s].owner = r.owner /\ run'[s].job = r.job /\ run'[s].cell = r.cell
        /\ run'[s].pc = "running" => r.pc = "start"
    <3>1. CASE CountSkip(s)
      BY <1>0, <2>1, <3>1 DEF CountSkip, FireType
    <3>2. CASE FreshRunId(s)
      BY <1>0, <2>1, <3>2 DEF FreshRunId, FireType
    <3>3. CASE StartRun(s)
      BY <1>0, <2>1, <3>3 DEF StartRun, At, FireType
    <3>4. CASE FinishRun(s)
      BY <1>0, <2>1, <3>4 DEF FinishRun, FireType
    <3> QED
      BY <1>3, <3>1, <3>2, <3>3, <3>4
  <2> QED
    BY <1>0, <2>1, <2>2, <2>3, FlagsUntouched DEF Placed, Holds
<1>4. CASE EnqueueReport(s, 0) \/ DropReport(s)
  <2>1. r \in FireType /\ r.pc = "enqueue"
    BY <1>4, ActiveFire DEF EnqueueReport, DropReport, At
  <2>2. flags' = flags /\ run'[s] = AfterReport(r)
    BY <1>0, <1>4 DEF EnqueueReport, DropReport, cron
  <2>3. CASE r.owner
    <3>1. run'[s] = [r EXCEPT !.pc = "release"]
      BY <2>2, <2>3 DEF AfterReport
    <3>2. /\ run'[s].pc = "release" /\ run'[s].owner = r.owner /\ run'[s].job = r.job
          /\ run'[s].cell = r.cell
      BY <2>1, <3>1 DEF FireType
    <3> QED
      BY <1>0, <2>1, <2>2, <2>3, <3>2, FlagsUntouched DEF Placed, Holds
  <2>4. CASE ~r.owner
    <3>1. run'[s] = Idle
      BY <2>2, <2>4 DEF AfterReport
    <3> QED
      BY <1>0, <2>1, <2>2, <2>4, <3>1, FlagsUntouched DEF Placed, Holds, Idle
  <2> QED
    BY <2>3, <2>4
<1>5. CASE Release(s)
  <2>1. /\ r \in FireType /\ r.pc = "release" /\ r.owner
        /\ r.cell \in 1 .. gen /\ r.job \in DOMAIN flags[r.cell]
    BY <1>0, <1>5, ActiveFire DEF Release, At, Placed
  <2>2. run'[s] = Idle
    BY <1>0, <1>5 DEF Release
  <2>3. \A g \in 1 .. gen :
          /\ DOMAIN flags'[g] = DOMAIN flags[g]
          /\ \A j \in DOMAIN flags[g] :
               flags'[g][j] = IF g = r.cell /\ j = r.job THEN 0 ELSE flags[g][j]
    <3>1. flags \in Seq(Cells) /\ gen = Len(flags)
      BY DEF TypeOK, Cells
    <3>2. flags' = [flags EXCEPT ![r.cell][r.job] = 0]
      BY <1>5 DEF Release
    <3> HIDE DEF r
    <3> QED
      BY <3>1, <3>2, SetFlag
  <2>4. \A g, j : Holds(s, g, j) <=> g = r.cell /\ j = r.job
    BY <2>1 DEF Holds
  <2>5. \A g, j : ~Holds(s, g, j)'
    BY <2>2 DEF Holds, Idle
  <2>6. \A t \in Slots \ {s} : \A g, j : Holds(t, g, j)' <=> Holds(t, g, j)
    BY <1>0 DEF Holds
  <2>7. \A t \in Slots \ {s} : ~Holds(t, r.cell, r.job)
    BY <2>4 DEF FlagInv, Held
  <2>8. Held'
    BY <1>0, <2>3, <2>4, <2>5, <2>6, <2>7 DEF FlagInv, Held
  <2>9. (\A t \in Slots : Placed(t)') /\ Current'
    <3>1. \A t \in Slots \ {s} : Placed(t)'
      BY <1>0, <2>3 DEF FlagInv, Placed
    <3>2. Placed(s)'
      BY <2>2 DEF Placed, Idle
    <3>3. Current'
      <4>1. gen \in Nat
        BY LenProperties DEF TypeOK
      <4> QED
        BY <1>0, <2>3, <4>1 DEF FlagInv, Current, JobsOf
    <3> QED
      BY <3>1, <3>2, <3>3
  <2> QED
    BY <2>8, <2>9 DEF FlagInv
<1> QED
  BY <1>1, <1>2, <1>3, <1>4, <1>5 DEF FireStep

\* Every step keeps the flags and their holders in agreement: a new configuration has free
\* flags, and no step but those of fire touches one.
LEMMA FlagStep ==
    ASSUME TypeOK, FlagInv, [Next]_vars
    PROVE  FlagInv'
<1>0. flags \in Seq(Cells) /\ gen = Len(flags) /\ gen \in Nat
  BY LenProperties DEF TypeOK, Cells
<1>1. ASSUME NEW s \in Slots, FireStep(s, 0) PROVE FlagInv'
  BY <1>1, FlagFire
<1>2. ASSUME NEW s \in Slots, NEW j \in Jobs, CronFires(s, j) \/ RunNow(s, j)
      PROVE  FlagInv'
  <2>1. /\ run[s] = Idle /\ UNCHANGED <<flags, gen, applied>>
        /\ run' = [run EXCEPT ![s] =
                     Fire("lookup", j, Configs[applied][j].agent, 0, FALSE, 0, "none")]
    BY <1>2, StartEffect DEF cron
  <2>2. run \in [Slots -> {Idle} \cup FireType]
    BY DEF TypeOK
  <2>3. run'[s].pc = "lookup" /\ ~run'[s].owner /\ \A t \in Slots \ {s} : run'[t] = run[t]
    BY <2>1, <2>2 DEF Fire
  <2>4. /\ Placed(s)'
        /\ \A g, k : ~Holds(s, g, k)' /\ ~Holds(s, g, k)
    <3>1. Placed(s)'
      BY <2>3 DEF Placed
    <3>2. run[s].pc = "idle"
      BY <2>1 DEF Idle
    <3>3. \A g, k : ~Holds(s, g, k)
      BY <3>2 DEF Holds
    <3>4. \A g, k : ~Holds(s, g, k)'
      BY <2>3 DEF Holds
    <3> QED
      BY <3>1, <3>3, <3>4
  <2> QED
    BY <2>1, <2>3, <2>4, FlagsUntouched
<1>3. CASE ApplyConfig
  <2> DEFINE new == [j \in JobsOf(loop.cmd) |-> 0]
  <2>1. new \in Cells
    <3>1. JobsOf(loop.cmd) \in SUBSET Jobs
      BY ConfigLemma DEF TypeOK, JobsOf
    <3>2. new \in [JobsOf(loop.cmd) -> {0, 1}]
      OBVIOUS
    <3> QED
      BY <3>1, <3>2 DEF Cells
  <2>2. /\ flags' = Append(flags, new) /\ gen' = gen + 1 /\ applied' = loop.cmd
        /\ run' = run
    BY <1>3 DEF ApplyConfig, fires
  <2> HIDE DEF new
  <2>0. PICK n \in Nat : n = gen + 1
    BY <1>0
  <2>3. flags'[n] = new /\ \A g \in 1 .. gen : flags'[g] = flags[g]
    BY <1>0, <2>0, <2>1, <2>2, AppendProperties
  <2>4. DOMAIN new = JobsOf(loop.cmd) /\ \A j \in DOMAIN new : new[j] = 0
    BY DEF new
  <2>5. \A s \in Slots : Placed(s)'
    BY <1>0, <2>2, <2>3 DEF FlagInv, Placed
  <2>6. Current'
    BY <1>0, <2>0, <2>2, <2>3, <2>4 DEF Current, JobsOf
  <2>7. \A s \in Slots : \A g, j : Holds(s, g, j)' <=> Holds(s, g, j)
    BY <2>2 DEF Holds
  <2>8. \A s \in Slots : \A j : ~Holds(s, n, j)
    BY <1>0, <2>0 DEF FlagInv, Placed, Holds
  <2>9. \A g \in 1 .. gen' : \A j \in DOMAIN flags'[g] :
          flags'[g][j] = 1 <=> \E s \in Slots : Holds(s, g, j)'
    <3>1. ASSUME NEW g \in 1 .. gen, NEW j \in DOMAIN flags'[g]
          PROVE  flags'[g][j] = 1 <=> \E s \in Slots : Holds(s, g, j)'
      BY <2>3, <2>7, <3>1 DEF FlagInv, Held
    <3>2. ASSUME NEW j \in DOMAIN flags'[n]
          PROVE  flags'[n][j] = 1 <=> \E s \in Slots : Holds(s, n, j)'
      BY <2>3, <2>4, <2>7, <2>8
    <3>3. \A g \in 1 .. gen' : g \in 1 .. gen \/ g = n
      BY <1>0, <2>0, <2>2
    <3> QED
      BY <3>1, <3>2, <3>3
  <2> QED
    BY <2>5, <2>6, <2>7, <2>9 DEF FlagInv, Held
<1>4. CASE (ProcessStep /\ ~Forget) \/ SendConfig \/ PersistConfig \/ LoopStop \/ UNCHANGED vars
  <2>1. UNCHANGED <<run, flags, gen, applied>>
    <3>1. CASE ProcessStep /\ ~Forget
      BY <3>1 DEF ProcessStep, LoadConfig, jobsVars, cron, fires
    <3>2. CASE SendConfig
      BY <3>2 DEF SendConfig, cron, fires
    <3>3. CASE PersistConfig
      BY <3>3 DEF PersistConfig, cron, fires
    <3>4. CASE LoopStop
      BY <3>4 DEF LoopStop, cron, fires
    <3>5. CASE UNCHANGED vars
      BY <3>5 DEF vars, jobsVars, cron, fires
    <3> QED
      BY <1>4, <3>1, <3>2, <3>3, <3>4, <3>5
  <2> QED
    BY <2>1 DEF FlagInv, Placed, Current, Held, Holds, JobsOf
<1>5. CASE Forget
  <2>1. /\ gen' = 0 /\ applied' = 0 /\ \A s \in Slots : run'[s] = Idle
    BY <1>5 DEF Forget
  <2>2. \A s \in Slots : Placed(s)' /\ \A g, j : ~Holds(s, g, j)'
    BY <2>1 DEF Placed, Holds, Idle
  <2> QED
    BY <2>1, <2>2 DEF FlagInv, Current, Held
<1> QED
  BY <1>1, <1>2, <1>3, <1>4, <1>5 DEF Next, JobsStep, LoopStep

\* The invariant, and what it gives: the holders of a flag are one goroutine or none.
LEMMA FlagOwnedLemma ==
    ASSUME TypeOK, FlagInv
    PROVE  FlagOwned /\ OverlapOnlyAcrossConfigs
<1>1. \A s \in Slots : Active(s) => run[s].pc /= "idle"
  BY DEF TypeOK, Active, FireType, FirePcs
<1>2. ASSUME NEW g \in 1 .. gen, NEW j \in DOMAIN flags[g]
      PROVE  flags[g][j] = Cardinality({s \in Slots : /\ Active(s) /\ run[s].owner
                                                      /\ run[s].cell = g /\ run[s].job = j})
  <2> DEFINE H == {s \in Slots : /\ Active(s) /\ run[s].owner
                                 /\ run[s].cell = g /\ run[s].job = j}
  <2>1. \A s \in Slots : s \in H <=> Holds(s, g, j)
    BY <1>1 DEF Holds, Active, Idle
  <2>2. \A s, t \in H : s = t
    BY <2>1 DEF FlagInv, Held
  <2>3. CASE flags[g][j] = 1
    <3>1. PICK s \in Slots : Holds(s, g, j)
      BY <1>2, <2>3 DEF FlagInv, Held
    <3>2. H = {s}
      BY <2>1, <2>2, <3>1
    <3> QED
      BY <2>3, <3>2, FS_Singleton
  <2>4. CASE flags[g][j] = 0
    <3>1. H = {}
      BY <1>2, <2>1, <2>4 DEF FlagInv, Held
    <3> QED
      BY <2>4, <3>1, FS_EmptySet
  <2> QED
    BY <1>2, <2>3, <2>4, FlagValues
<1>3. OverlapOnlyAcrossConfigs
  <2> SUFFICES ASSUME NEW s \in Slots, NEW t \in Slots,
                      Active(s), Active(t), run[s].pc = "running", run[t].pc = "running",
                      run[s].job = run[t].job, s /= t, run[s].cell = run[t].cell
               PROVE  FALSE
    BY DEF OverlapOnlyAcrossConfigs
  <2>1. Holds(s, run[s].cell, run[s].job) /\ Holds(t, run[s].cell, run[s].job)
    BY DEF FlagInv, Placed, Holds
  <2> QED
    BY <2>1 DEF FlagInv, Held
<1> QED
  BY <1>2, <1>3 DEF FlagOwned

\* The anti-overlap flag of a job is set exactly while one goroutine owns it, on every
\* path out of fire and across configurations (batch.go:100, 138-151).
THEOREM FlagHasOneOwner == Spec => []FlagOwned
<1>1. Init => TypeOK /\ FlagInv
  BY TypeInit, FlagInit
<1>2. TypeOK /\ FlagInv /\ [Next]_vars => (TypeOK /\ FlagInv)'
  BY TypeStep, FlagStep
<1>3. TypeOK /\ FlagInv => FlagOwned
  BY FlagOwnedLemma
<1> QED
  BY <1>1, <1>2, <1>3, PTL DEF Spec

\* Two runs of one job at a time can only come from two configurations: the flag of the
\* earlier one is out of reach of the later one (batch.go:100, 145).
THEOREM OverlapNeedsTwoConfigs == Spec => []OverlapOnlyAcrossConfigs
<1>1. Init => TypeOK /\ FlagInv
  BY TypeInit, FlagInit
<1>2. TypeOK /\ FlagInv /\ [Next]_vars => (TypeOK /\ FlagInv)'
  BY TypeStep, FlagStep
<1>3. TypeOK /\ FlagInv => OverlapOnlyAcrossConfigs
  BY FlagOwnedLemma
<1> QED
  BY <1>1, <1>2, <1>3, PTL DEF Spec

---------------------------------------------------------------------------
(* Run ids. *)

\* The goroutine has the id its report will have.
Carries(s) == run[s].pc \in {"running", "enqueue"}

QueuedId(i) == queue.items[i].payload.id

\* What RunIdsUnique does not say: no id is above the counter, a goroutine of an open
\* store has one that counts, and nothing is left of a process that ended.
RunIdsInv ==
    /\ \A i \in Ids(queue) : QueuedId(i) \in 1 .. runSeq
    /\ \A i, k \in Ids(queue) : i /= k => QueuedId(i) /= QueuedId(k)
    /\ \A s, t \in Slots :
         (Carries(s) /\ Carries(t) /\ s /= t /\ run[s].id /= 0) => run[s].id /= run[t].id
    /\ \A s \in Slots : \A i \in Ids(queue) : Carries(s) => QueuedId(i) /= run[s].id
    /\ \A s \in Slots : Carries(s) => run[s].id \in 0 .. runSeq
    /\ StoreOpen => \A s \in Slots : Carries(s) => run[s].id /= 0
    /\ phase = "down" => \A s \in Slots : run[s] = Idle

\* No ids at the start.
LEMMA RunIdsInit == Init => RunIdsInv
  BY DEF Init, ProcessInit, JobsInit, EmptyQueue, Ids, RunIdsInv, Carries, Idle

\* A step after which no goroutine carries an id that it did not carry before.
LEMMA IdsKept ==
    ASSUME TypeOK, RunIdsInv, UNCHANGED <<queue, runSeq>>,
           \A s \in Slots : Carries(s)' => Carries(s) /\ run'[s].id = run[s].id,
           StoreOpen' => StoreOpen \/ \A s \in Slots : ~Carries(s)',
           phase' = "down" => \A s \in Slots : run'[s] = Idle
    PROVE  RunIdsInv'
  BY DEF RunIdsInv, QueuedId

\* A step in which one goroutine takes the next id (batch.go:153, 178).
LEMMA IdTaken ==
    ASSUME TypeOK, RunIdsInv, NEW s \in Slots, Alive, TakeRunId,
           UNCHANGED <<queue, phase>>,
           \A t \in Slots \ {s} : run'[t] = run[t],
           Carries(s)' => run'[s].id = NextRunId
    PROVE  RunIdsInv'
<1>1. runSeq \in Nat /\ runSeq' \in Nat /\ runSeq <= runSeq' /\ NextRunId \in 0 .. runSeq'
  BY DEF TypeOK, TakeRunId, NextRunId
<1>2. \A t \in Slots \ {s} : Carries(t)' <=> Carries(t)
  BY DEF Carries
<1>3. \A i \in Ids(queue) : QueuedId(i)' = QueuedId(i)
  BY DEF QueuedId
<1>4. \A i \in Ids(queue) : QueuedId(i) \in 1 .. runSeq
  BY DEF RunIdsInv
<1>5. \A t \in Slots \ {s} : Carries(t) => run[t].id \in 0 .. runSeq
  BY DEF RunIdsInv
<1>6. /\ \A i \in Ids(queue) : NextRunId /= QueuedId(i)
      /\ \A t \in Slots \ {s} : Carries(t) /\ NextRunId /= 0 => NextRunId /= run[t].id
      /\ StoreOpen => NextRunId /= 0
  BY <1>1, <1>4, <1>5 DEF NextRunId
<1>7. \A i \in Ids(queue) : QueuedId(i) \in 1 .. runSeq'
  BY <1>1, <1>4
<1>8. \A t, u \in Slots :
        (Carries(t)' /\ Carries(u)' /\ t /= u /\ run'[t].id /= 0) => run'[t].id /= run'[u].id
  <2> SUFFICES ASSUME NEW t \in Slots, NEW u \in Slots, Carries(t)', Carries(u)', t /= u,
                      run'[t].id /= 0, run'[t].id = run'[u].id
               PROVE  FALSE
    OBVIOUS
  <2>1. CASE t = s
    BY <1>2, <1>6, <2>1
  <2>2. CASE u = s
    BY <1>2, <1>6, <2>2
  <2>3. CASE t /= s /\ u /= s
    BY <1>2, <2>3 DEF RunIdsInv
  <2> QED
    BY <2>1, <2>2, <2>3
<1>9. \A t \in Slots : \A i \in Ids(queue) : Carries(t)' => QueuedId(i) /= run'[t].id
  BY <1>2, <1>6 DEF RunIdsInv
<1>10. \A t \in Slots : Carries(t)' => run'[t].id \in 0 .. runSeq'
  BY <1>1, <1>2, <1>5
<1>11. StoreOpen' => \A t \in Slots : Carries(t)' => run'[t].id /= 0
  BY <1>2, <1>6 DEF RunIdsInv, StoreOpen
<1>12. phase' /= "down" /\ Ids(queue') = Ids(queue)
  BY DEF Alive
<1> QED
  BY <1>3, <1>7, <1>8, <1>9, <1>10, <1>11, <1>12 DEF RunIdsInv

\* A report is enqueued under the id its goroutine had, which then carries none, and by
\* an open store only (batch.go:192-200).
LEMMA ReportQueued ==
    ASSUME TypeOK, NEW s \in Slots, NEW now, IsMs(now), EnqueueReport(s, now)
    PROVE  /\ UNCHANGED <<phase, runSeq>> /\ phase /= "down" /\ Carries(s)
           /\ \A t \in Slots : Carries(t)' => t /= s /\ Carries(t) /\ run'[t].id = run[t].id
           /\ ~StoreOpen => queue' = queue
           /\ StoreOpen =>
                /\ queue.seq + 1 \notin Ids(queue) /\ queue'.seq = queue.seq + 1
                /\ Ids(queue') = Ids(queue) \cup {queue.seq + 1}
                /\ queue'.items[queue.seq + 1].payload.id = run[s].id
                /\ \A i \in Ids(queue) : QueuedId(i)' = QueuedId(i)
<1> DEFINE r == run[s]
<1>1. /\ r \in FireType /\ Carries(s) /\ phase' = phase /\ phase /= "down" /\ runSeq' = runSeq
      /\ \A t \in Slots \ {s} : run'[t] = run[t]
  <2>1. FireStep(s, now)
    BY DEF FireStep
  <2> QED
    BY <2>1, ActiveFire, FireTypes
       DEF EnqueueReport, At, Carries, Alive, processVars, counters
<1>2. ~Carries(s)'
  <2>1. run'[s] = AfterReport(r)
    BY DEF EnqueueReport, TypeOK
  <2> QED
    BY <1>1, <2>1 DEF AfterReport, Carries, FireType, Idle
<1>3. \A t \in Slots : Carries(t)' => t /= s /\ Carries(t) /\ run'[t].id = run[t].id
  BY <1>1, <1>2 DEF Carries
<1>4. ASSUME StoreOpen
      PROVE  /\ queue.seq + 1 \notin Ids(queue) /\ queue'.seq = queue.seq + 1
             /\ Ids(queue') = Ids(queue) \cup {queue.seq + 1}
             /\ queue'.items[queue.seq + 1].payload.id = r.id
             /\ \A i \in Ids(queue) : QueuedId(i)' = QueuedId(i)
  <2>1. queue' = Enqueue(queue, Report(r), now)
    BY <1>4 DEF EnqueueReport
  <2>2. IsQueue(queue, Reports) /\ Report(r) \in Reports
    BY <1>1 DEF TypeOK, Report, Reports, FireType
  <2>3. PICK n : n = queue.seq + 1
    OBVIOUS
  <2>4. /\ n \notin Ids(queue) /\ Ids(queue') = Ids(queue) \cup {n} /\ queue'.seq = n
        /\ queue'.items[n] = Item(Report(r), 0, now, 0)
        /\ \A i \in Ids(queue) : queue'.items[i] = queue.items[i]
    BY <2>1, <2>2, <2>3, EnqueueLemma
  <2> QED
    BY <2>3, <2>4 DEF QueuedId, Item, Report
<1>5. ~StoreOpen => queue' = queue
  BY DEF EnqueueReport
<1> QED
  BY <1>1, <1>3, <1>4, <1>5

LEMMA IdQueued ==
    ASSUME TypeOK, RunIdsInv, NEW s \in Slots, NEW now, IsMs(now), EnqueueReport(s, now)
    PROVE  RunIdsInv'
<1> PICK n : n = queue.seq + 1
  OBVIOUS
<1> DEFINE r == run[s]
<1>1. /\ UNCHANGED <<phase, runSeq>> /\ phase /= "down" /\ Carries(s)
      /\ \A t \in Slots : Carries(t)' => t /= s /\ Carries(t) /\ run'[t].id = run[t].id
  BY ReportQueued
<1>2. CASE ~StoreOpen
  <2>1. queue' = queue
    BY <1>2, ReportQueued
  <2> QED
    BY <1>1, <1>2, <2>1, IdsKept DEF StoreOpen
<1>3. CASE StoreOpen
  <2>1. /\ n \notin Ids(queue) /\ Ids(queue') = Ids(queue) \cup {n}
        /\ QueuedId(n)' = r.id /\ \A i \in Ids(queue) : QueuedId(i)' = QueuedId(i)
    BY <1>3, ReportQueued DEF QueuedId
  <2>2. r.id \in 1 .. runSeq
    BY <1>1, <1>3 DEF RunIdsInv, TypeOK
  <2>3. \A i \in Ids(queue) : QueuedId(i) /= r.id
    BY <1>1 DEF RunIdsInv
  <2>4. \A t \in Slots : Carries(t)' => run[t].id /= r.id
    BY <1>1, <2>2 DEF RunIdsInv
  <2>5. /\ \A i \in Ids(queue') : QueuedId(i)' \in 1 .. runSeq'
        /\ \A i, k \in Ids(queue') : i /= k => QueuedId(i)' /= QueuedId(k)'
    BY <1>1, <2>1, <2>2, <2>3 DEF RunIdsInv
  <2>6. \A t \in Slots : \A i \in Ids(queue') : Carries(t)' => QueuedId(i)' /= run'[t].id
    BY <1>1, <2>1, <2>4 DEF RunIdsInv
  <2>7. \A t, u \in Slots :
          (Carries(t)' /\ Carries(u)' /\ t /= u /\ run'[t].id /= 0) => run'[t].id /= run'[u].id
    BY <1>1 DEF RunIdsInv
  <2>8. \A t \in Slots : Carries(t)' => run'[t].id \in 0 .. runSeq' /\ run'[t].id /= 0
    BY <1>1, <1>3 DEF RunIdsInv
  <2> QED
    BY <1>1, <2>5, <2>6, <2>7, <2>8 DEF RunIdsInv
<1> QED
  BY <1>2, <1>3

\* What a step of the scheduler does with ids: a goroutine takes the next one, ...
TakesId(s) ==
    /\ Alive /\ TakeRunId /\ UNCHANGED <<queue, phase>>
    /\ \A t \in Slots \ {s} : run'[t] = run[t]
    /\ Carries(s)' => run'[s].id = NextRunId

\* ... or none is given.
KeepsIds ==
    /\ Alive /\ UNCHANGED <<queue, runSeq, phase>>
    /\ \A s \in Slots : Carries(s)' => Carries(s) /\ run'[s].id = run[s].id

\* The steps of a goroutine (batch.go:138-201).
LEMMA FireIds ==
    ASSUME TypeOK, NEW s \in Slots, NEW now, FireStep(s, now)
    PROVE  TakesId(s) \/ EnqueueReport(s, now) \/ KeepsIds
<1>1. /\ run \in [Slots -> {Idle} \cup FireType]
      /\ phase' = phase /\ \A t \in Slots \ {s} : run'[t] = run[t]
  BY FireTypes, FireQuiet DEF TypeOK, processVars
<1>2. CASE FreshRunId(s) \/ StartRun(s)
  <2>1. run[s] \in FireType
    BY <1>2, ActiveFire DEF FreshRunId, StartRun, At
  <2>2. Alive /\ TakeRunId /\ queue' = queue
    BY <1>2 DEF FreshRunId, StartRun, At
  <2>3. Carries(s)' => run'[s].id = NextRunId
    <3>1. CASE FreshRunId(s)
      <4>1. run'[s] = [run[s] EXCEPT !.pc = "enqueue", !.id = NextRunId]
        BY <1>1, <3>1 DEF FreshRunId
      <4> QED
        BY <2>1, <4>1 DEF FireType
    <3>2. CASE StartRun(s)
      <4>1. \/ run'[s] = [run[s] EXCEPT !.pc = "running", !.id = NextRunId]
            \/ run'[s] = [run[s] EXCEPT !.pc = "newid", !.id = NextRunId, !.status = "failed"]
        BY <1>1, <3>2 DEF StartRun
      <4> QED
        BY <2>1, <4>1 DEF FireType
    <3> QED
      BY <1>2, <3>1, <3>2
  <2> QED
    BY <1>1, <2>2, <2>3 DEF TakesId
<1>3. CASE \/ Lookup(s) \/ CompareAndSwap(s) \/ CountSkip(s) \/ FinishRun(s)
           \/ DropReport(s) \/ Release(s)
  <2>1. Alive /\ UNCHANGED <<queue, runSeq>>
    BY <1>3 DEF Lookup, CompareAndSwap, CountSkip, FinishRun, DropReport, Release, At, counters
  <2>2. Carries(s)' => Carries(s) /\ run'[s].id = run[s].id
    <3>1. CASE Lookup(s)
      BY <1>1, <3>1, ActiveFire DEF Lookup, At, Carries, FireType, Idle
    <3>2. CASE CompareAndSwap(s)
      <4>1. run[s] \in FireType
        BY <3>2, ActiveFire DEF CompareAndSwap, At
      <4>2. \/ run'[s] = [run[s] EXCEPT !.pc = "start", !.owner = TRUE]
            \/ run'[s] = [run[s] EXCEPT !.pc = "countskip", !.status = "skipped"]
        BY <1>1, <3>2 DEF CompareAndSwap
      <4>3. run'[s].pc \in {"start", "countskip"}
        BY <4>1, <4>2 DEF FireType
      <4> QED
        BY <4>3 DEF Carries
    <3>3. CASE CountSkip(s)
      BY <1>1, <3>3, ActiveFire DEF CountSkip, At, Carries, FireType
    <3>4. CASE FinishRun(s)
      BY <1>1, <3>4, ActiveFire DEF FinishRun, At, Carries, FireType
    <3>5. CASE Release(s)
      BY <1>1, <3>5 DEF Release, Carries, Idle
    <3>6. CASE DropReport(s)
      <4>1. run[s] \in FireType
        BY <3>6, ActiveFire DEF DropReport, At
      <4>2. run'[s] = AfterReport(run[s])
        BY <1>1, <3>6 DEF DropReport
      <4> QED
        BY <4>1, <4>2 DEF AfterReport, Carries, FireType, Idle
    <3> QED
      BY <1>3, <3>1, <3>2, <3>3, <3>4, <3>5, <3>6
  <2>3. \A t \in Slots : Carries(t)' => Carries(t) /\ run'[t].id = run[t].id
    BY <1>1, <2>2 DEF Carries
  <2> QED
    BY <1>1, <2>1, <2>3 DEF KeepsIds
<1> QED
  BY <1>2, <1>3 DEF FireStep

\* The steps of the scheduler.
LEMMA JobsIds ==
    ASSUME TypeOK, NEW now, JobsStep(now)
    PROVE  \/ \E s \in Slots : TakesId(s) \/ EnqueueReport(s, now)
           \/ KeepsIds
<1>1. CASE SendConfig \/ LoopStep
  <2>1. Alive /\ UNCHANGED <<queue, runSeq, phase, run>>
    BY <1>1 DEF SendConfig, LoopStep, PersistConfig, ApplyConfig, LoopStop,
                processVars, counters, fires, Alive
  <2> QED
    BY <2>1 DEF KeepsIds, Carries
<1>2. ASSUME NEW s \in Slots, NEW j \in Jobs, CronFires(s, j) \/ RunNow(s, j)
      PROVE  KeepsIds
  <2>1. /\ UNCHANGED <<queue, runSeq, phase>> /\ Alive
        /\ run' = [run EXCEPT ![s] =
                     Fire("lookup", j, Configs[applied][j].agent, 0, FALSE, 0, "none")]
    BY <1>2, StartEffect DEF processVars, counters, CronFires, RunNow, Alive
  <2>2. run'[s].pc = "lookup" /\ \A t \in Slots \ {s} : run'[t] = run[t]
    BY <2>1 DEF TypeOK, Fire
  <2> QED
    BY <2>1, <2>2 DEF KeepsIds, Carries
<1> QED
  BY <1>1, <1>2, FireIds DEF JobsStep

\* Every step of the scheduler keeps the ids apart, whatever the time is ...
LEMMA RunIdsJobs ==
    ASSUME TypeOK, RunIdsInv, NEW now, IsMs(now), JobsStep(now)
    PROVE  RunIdsInv'
<1>1. CASE \E s \in Slots : TakesId(s)
  BY <1>1, IdTaken DEF TakesId
<1>2. CASE \E s \in Slots : EnqueueReport(s, now)
  BY <1>2, IdQueued
<1>3. CASE KeepsIds
  BY <1>3, IdsKept DEF KeepsIds, Alive, StoreOpen
<1> QED
  BY <1>1, <1>2, <1>3, JobsIds

\* ... and so do the stops, crashes and starts of the process.
LEMMA RunIdsProcess ==
    ASSUME TypeOK, RunIdsInv, ProcessStep
    PROVE  /\ RunIdsInv'
           /\ UNCHANGED <<queue, runSeq>>
           /\ \A s \in Slots : Carries(s)' => Carries(s) /\ run'[s].id = run[s].id
<1>0. UNCHANGED <<queue, runSeq>>
  BY DEF ProcessStep, jobsVars, Forget, LoadConfig, counters
<1>1. CASE Forget
  <2>1. \A s \in Slots : run'[s] = Idle
    BY <1>1 DEF Forget
  <2>2. \A s \in Slots : ~Carries(s)'
    BY <2>1 DEF Carries, Idle
  <2> QED
    BY <1>0, <2>1, <2>2, IdsKept
<1>2. CASE (Sigterm \/ CloseStore) /\ UNCHANGED jobsVars
  <2>1. run' = run /\ phase' /= "down" /\ (StoreOpen' => StoreOpen)
    BY <1>2 DEF Sigterm, CloseStore, StoreOpen, jobsVars, fires
  <2>2. \A s \in Slots : Carries(s)' => Carries(s) /\ run'[s].id = run[s].id
    BY <2>1 DEF Carries
  <2> QED
    BY <1>0, <2>1, <2>2, IdsKept
<1>3. CASE Boot /\ LoadConfig
  <2>1. run' = run /\ phase' = "up" /\ \A s \in Slots : run[s] = Idle
    BY <1>3 DEF Boot, LoadConfig, fires, RunIdsInv
  <2>2. \A s \in Slots : ~Carries(s)'
    BY <2>1 DEF Carries, Idle
  <2> QED
    BY <1>0, <2>1, <2>2, IdsKept
<1> QED
  BY <1>1, <1>2, <1>3 DEF ProcessStep

\* Every step.
LEMMA RunIdsStep ==
    ASSUME TypeOK, RunIdsInv, [Next]_vars
    PROVE  RunIdsInv'
<1>1. CASE UNCHANGED vars
  <2>1. UNCHANGED <<queue, runSeq, phase, run>>
    BY <1>1 DEF vars, jobsVars, processVars, counters, fires
  <2> QED
    BY <2>1 DEF RunIdsInv, QueuedId, Carries, StoreOpen
<1> QED
  BY <1>1, RunIdsJobs, RunIdsProcess DEF Next, IsMs

\* A run id names one report: neither the refused and skipped runs, nor a restart, nor a
\* store that is closed under a run gives an id twice (batch.go:153, 178, 237-240).
THEOREM RunIdNamesOneReport == Spec => []RunIdsUnique
<1>1. Init => TypeOK /\ RunIdsInv
  BY TypeInit, RunIdsInit
<1>2. TypeOK /\ RunIdsInv /\ [Next]_vars => (TypeOK /\ RunIdsInv)'
  BY TypeStep, RunIdsStep
<1>3. TypeOK /\ RunIdsInv => RunIdsUnique
  <2> SUFFICES ASSUME TypeOK, RunIdsInv PROVE RunIdsUnique
    OBVIOUS
  <2>1. \A i \in Ids(queue) : QueuedId(i) /= 0
    BY DEF RunIdsInv, TypeOK
  <2> QED
    BY <2>1 DEF RunIdsInv, RunIdsUnique, QueuedId, Carries
<1> QED
  BY <1>1, <1>2, <1>3, PTL DEF Spec

---------------------------------------------------------------------------
(* Skips. *)

\* The goroutine has a skip of the job to report; the reports of its skips that wait.
Owes(s, j)  == run[s].pc \in {"newid", "enqueue"} /\ run[s].status = "skipped" /\ run[s].job = j
Pending(j)  == {s \in Slots : Owes(s, j)}
Reported(j) == {i \in Ids(queue) : queue.items[i].payload.job = j
                                   /\ queue.items[i].payload.status = "skipped"}

SkipStatus == \A s \in Slots : run[s].pc = "countskip" => run[s].status = "skipped"

\* While the store is open, every skip that is reported or will be was counted; all that
\* were counted are, as long as the process was never stopped.
SkipsInv ==
    /\ SkipStatus
    /\ faults = 0 => phase = "up"
    /\ \A j \in Jobs :
         /\ IsFiniteSet(Pending(j))
         /\ skips[j] >= Cardinality(Reported(j))
         /\ StoreOpen => skips[j] >= Cardinality(Reported(j)) + Cardinality(Pending(j))
         /\ faults = 0 => skips[j] = Cardinality(Reported(j)) + Cardinality(Pending(j))

\* What is counted is finite.
LEMMA ReportedFinite ==
    ASSUME TypeOK, NEW j
    PROVE  IsFiniteSet(Reported(j)) /\ Cardinality(Reported(j)) \in Nat
<1>1. Reported(j) \subseteq 1 .. queue.seq /\ queue.seq \in Nat
  BY DEF TypeOK, IsQueue, Reported
<1>2. IsFiniteSet(1 .. queue.seq)
  BY <1>1, FS_Interval
<1> QED
  BY <1>1, <1>2, FS_Subset, FS_CardinalityType

LEMMA SkipsInit == Init => SkipsInv
<1> SUFFICES ASSUME Init PROVE SkipsInv
  OBVIOUS
<1>1. /\ \A s \in Slots : run[s] = Idle
      /\ phase = "up" /\ skips = [j \in Jobs |-> 0] /\ Ids(queue) = {}
  BY DEF Init, JobsInit, ProcessInit, EmptyQueue, Ids
<1>2. \A j : Pending(j) = {} /\ Reported(j) = {}
  BY <1>1 DEF Pending, Owes, Reported, Idle
<1>3. IsFiniteSet({}) /\ Cardinality({}) = 0
  BY FS_EmptySet
<1>4. SkipStatus
  BY <1>1 DEF SkipStatus, Idle
<1> QED
  BY <1>1, <1>2, <1>3, <1>4 DEF SkipsInv

\* The steps of a goroutine: it begins to owe a report when it counts a skip, and owes
\* none once it has enqueued its report (batch.go:145-149, 178-200).
LEMMA FireSkips ==
    ASSUME TypeOK, SkipStatus, NEW s \in Slots, FireStep(s, 0)
    PROVE  /\ SkipStatus'
           /\ \A t \in Slots \ {s} : \A j \in Jobs : Owes(t, j)' <=> Owes(t, j)
           /\ \/ /\ CountSkip(s) /\ run[s].job \in Jobs
                 /\ \A j \in Jobs : ~Owes(s, j) /\ (Owes(s, j)' <=> j = run[s].job)
              \/ EnqueueReport(s, 0) /\ \A j \in Jobs : ~Owes(s, j)'
              \/ UNCHANGED <<queue, skips>> /\ \A j \in Jobs : Owes(s, j)' <=> Owes(s, j)
<1> DEFINE r == run[s]
<1>1. /\ run \in [Slots -> {Idle} \cup FireType]
      /\ \A t \in Slots \ {s} : run'[t] = run[t]
  BY FireTypes DEF TypeOK
<1>2. r \in FireType
  BY ActiveFire DEF FireStep, Lookup, CompareAndSwap, CountSkip, FreshRunId, StartRun,
                    FinishRun, EnqueueReport, DropReport, Release, At
<1>3. \A t \in Slots \ {s} : \A j \in Jobs : Owes(t, j)' <=> Owes(t, j)
  BY <1>1 DEF Owes
<1>4. (run'[s].pc = "countskip" => run'[s].status = "skipped") => SkipStatus'
  BY <1>1 DEF SkipStatus
<1>5. CASE Lookup(s)
  <2>1. run'[s] \in {Idle, [r EXCEPT !.pc = "cas", !.cell = gen]} /\ r.pc = "lookup"
    BY <1>1, <1>5 DEF Lookup, At
  <2>2. run'[s].pc \in {"idle", "cas"}
    <3>1. "pc" \in DOMAIN r /\ Idle.pc = "idle"
      BY <1>2 DEF Idle, FireType
    <3>2. [r EXCEPT !.pc = "cas", !.cell = gen].pc = "cas"
      BY <3>1, Zenon
    <3> QED
      BY <2>1, <3>1, <3>2, Zenon
  <2>3. UNCHANGED <<queue, skips>>
    BY <1>5 DEF Lookup, counters
  <2> QED
    BY <1>3, <1>4, <2>1, <2>2, <2>3 DEF Owes
<1>6. CASE CompareAndSwap(s)
  <2>1. /\ r.pc = "cas" /\ UNCHANGED <<queue, skips>>
        /\ run'[s] \in {[r EXCEPT !.pc = "start", !.owner = TRUE],
                        [r EXCEPT !.pc = "countskip", !.status = "skipped"]}
    BY <1>1, <1>6 DEF CompareAndSwap, At, counters
  <2>2. run'[s].pc = "start" \/ (run'[s].pc = "countskip" /\ run'[s].status = "skipped")
    BY <1>2, <2>1 DEF FireType
  <2> QED
    BY <1>3, <1>4, <2>1, <2>2 DEF Owes
<1>7. CASE CountSkip(s)
  <2>1. r.pc = "countskip" /\ run'[s] = [r EXCEPT !.pc = "newid"]
    BY <1>1, <1>7 DEF CountSkip, At
  <2>2. r.status = "skipped" /\ r.job \in Jobs
    BY <1>2, <2>1 DEF SkipStatus, FireType
  <2>3. run'[s].pc = "newid" /\ run'[s].status = r.status /\ run'[s].job = r.job
    BY <1>2, <2>1 DEF FireType
  <2> QED
    BY <1>3, <1>4, <1>7, <2>1, <2>2, <2>3 DEF Owes
<1>8. CASE FreshRunId(s)
  <2>1. /\ r.pc = "newid" /\ UNCHANGED <<queue, skips>>
        /\ run'[s] = [r EXCEPT !.pc = "enqueue", !.id = NextRunId]
    BY <1>1, <1>8 DEF FreshRunId, At
  <2>2. run'[s].pc = "enqueue" /\ run'[s].status = r.status /\ run'[s].job = r.job
    BY <1>2, <2>1 DEF FireType
  <2> QED
    BY <1>3, <1>4, <2>1, <2>2 DEF Owes
<1>9. CASE StartRun(s)
  <2>1. /\ r.pc = "start" /\ UNCHANGED <<queue, skips>>
        /\ run'[s] \in {[r EXCEPT !.pc = "running", !.id = NextRunId],
                        [r EXCEPT !.pc = "newid", !.id = NextRunId, !.status = "failed"]}
    BY <1>1, <1>9 DEF StartRun, At
  <2>2. run'[s].pc = "running" \/ (run'[s].pc = "newid" /\ run'[s].status = "failed")
    BY <1>2, <2>1 DEF FireType
  <2> QED
    BY <1>3, <1>4, <2>1, <2>2 DEF Owes
<1>10. CASE FinishRun(s)
  <2>1. PICK st \in {"success", "failed", "timeout"} :
          run' = [run EXCEPT ![s] = [@ EXCEPT !.pc = "enqueue", !.status = st]]
    BY <1>10 DEF FinishRun
  <2>2. run'[s].pc = "enqueue" /\ run'[s].status = st
    BY <1>1, <1>2, <2>1 DEF FireType
  <2>3. r.pc = "running" /\ UNCHANGED <<queue, skips>>
    BY <1>10 DEF FinishRun, At, counters
  <2> QED
    BY <1>3, <1>4, <2>2, <2>3 DEF Owes
<1>11. CASE EnqueueReport(s, 0)
  <2>1. run'[s] = AfterReport(r)
    BY <1>1, <1>11 DEF EnqueueReport
  <2>2. run'[s].pc \in {"release", "idle"}
    BY <1>2, <2>1 DEF AfterReport, FireType, Idle
  <2> QED
    BY <1>3, <1>4, <1>11, <2>2 DEF Owes
<1>12. CASE Release(s)
  <2>1. r.pc = "release" /\ run'[s] = Idle /\ UNCHANGED <<queue, skips>>
    BY <1>1, <1>12 DEF Release, At, counters
  <2> QED
    BY <1>3, <1>4, <2>1 DEF Owes, Idle
<1>13. CASE DropReport(s)
  <2>1. r.status = "failed" /\ UNCHANGED <<queue, skips>> /\ run'[s] = AfterReport(r)
    BY <1>1, <1>13 DEF DropReport, counters
  <2>2. run'[s].pc \in {"release", "idle"}
    BY <1>2, <2>1 DEF AfterReport, FireType, Idle
  <2> QED
    BY <1>3, <1>4, <2>1, <2>2 DEF Owes
<1> QED
  BY <1>5, <1>6, <1>7, <1>8, <1>9, <1>10, <1>11, <1>12, <1>13 DEF FireStep

\* A step after which the same goroutines owe a report.
LEMMA SkipsKept ==
    ASSUME TypeOK, SkipsInv, SkipStatus', UNCHANGED <<queue, skips>>,
           \A s \in Slots : \A j \in Jobs : Owes(s, j)' <=> Owes(s, j),
           StoreOpen' => StoreOpen, faults' = 0 => faults = 0 /\ phase' = phase
    PROVE  SkipsInv'
<1>1. \A j \in Jobs : Pending(j)' = Pending(j) /\ Reported(j)' = Reported(j)
  BY DEF Pending, Reported
<1> QED
  BY <1>1 DEF SkipsInv

\* A step of the process after which none of its goroutines is left.
LEMMA SkipsForgotten ==
    ASSUME TypeOK, SkipsInv, UNCHANGED <<queue, skips>>,
           \A s \in Slots : run'[s] = Idle, faults' /= 0
    PROVE  SkipsInv'
<1>1. \A j \in Jobs : Pending(j)' = {} /\ Reported(j)' = Reported(j)
  BY DEF Pending, Owes, Reported, Idle
<1>2. IsFiniteSet({}) /\ Cardinality({}) = 0
  BY FS_EmptySet
<1>3. SkipStatus'
  BY DEF SkipStatus, Idle
<1>4. \A j \in Jobs : Cardinality(Reported(j)) \in Nat /\ Cardinality(Pending(j)) \in Nat
  BY ReportedFinite, FS_CardinalityType DEF SkipsInv
<1>5. skips \in [Jobs -> Nat]
  BY DEF TypeOK
<1> QED
  BY <1>1, <1>2, <1>3, <1>4, <1>5 DEF SkipsInv

\* A skip is counted, if the store is open, and its report is owed.
LEMMA SkipsCounted ==
    ASSUME TypeOK, SkipsInv, SkipStatus', NEW s \in Slots, CountSkip(s), run[s].job \in Jobs,
           \A t \in Slots \ {s} : \A j \in Jobs : Owes(t, j)' <=> Owes(t, j),
           \A j \in Jobs : ~Owes(s, j) /\ (Owes(s, j)' <=> j = run[s].job)
    PROVE  SkipsInv'
<1> PICK k \in Jobs : k = run[s].job
  OBVIOUS
<1>1. /\ UNCHANGED <<queue, phase, faults>>
      /\ skips' = IF StoreOpen THEN [skips EXCEPT ![k] = @ + 1] ELSE skips
  BY DEF CountSkip, processVars
<1>2. /\ s \notin Pending(k) /\ Pending(k)' = Pending(k) \cup {s}
      /\ \A j \in Jobs \ {k} : Pending(j)' = Pending(j)
      /\ \A j \in Jobs : Reported(j)' = Reported(j)
  BY <1>1 DEF Pending, Reported
<1>3. IsFiniteSet(Pending(k)') /\ Cardinality(Pending(k)') = Cardinality(Pending(k)) + 1
  <2>1. IsFiniteSet(Pending(k))
    BY DEF SkipsInv
  <2>2. PICK P : P = Pending(k)
    OBVIOUS
  <2>3. IsFiniteSet(P \cup {s}) /\ Cardinality(P \cup {s}) = Cardinality(P) + 1
    BY <1>2, <2>1, <2>2, FS_AddElement
  <2> QED
    BY <1>2, <2>2, <2>3
<1>4. \A j \in Jobs : Cardinality(Reported(j)) \in Nat /\ Cardinality(Pending(j)) \in Nat
  BY ReportedFinite, FS_CardinalityType DEF SkipsInv
<1>5. skips \in [Jobs -> Nat] /\ (faults = 0 => StoreOpen)
  BY DEF TypeOK, SkipsInv, StoreOpen
<1>6. StoreOpen' <=> StoreOpen
  BY <1>1 DEF StoreOpen
<1>7. ASSUME NEW j \in Jobs
      PROVE  /\ IsFiniteSet(Pending(j)')
             /\ skips'[j] >= Cardinality(Reported(j)')
             /\ StoreOpen => skips'[j] >= Cardinality(Reported(j)') + Cardinality(Pending(j)')
             /\ faults = 0 => skips'[j] = Cardinality(Reported(j)') + Cardinality(Pending(j)')
  <2>0. /\ skips[j] >= Cardinality(Reported(j))
        /\ StoreOpen => skips[j] >= Cardinality(Reported(j)) + Cardinality(Pending(j))
        /\ faults = 0 => skips[j] = Cardinality(Reported(j)) + Cardinality(Pending(j))
        /\ Cardinality(Reported(j)') = Cardinality(Reported(j))
    BY <1>2 DEF SkipsInv
  <2>1. CASE j = k
    <3>1. skips'[j] = IF StoreOpen THEN skips[j] + 1 ELSE skips[j]
      BY <1>1, <1>5, <2>1
    <3> QED
      BY <1>3, <1>4, <1>5, <2>0, <2>1, <3>1
  <2>2. CASE j /= k
    BY <1>1, <1>2, <1>4, <1>5, <2>2 DEF SkipsInv
  <2> QED
    BY <2>1, <2>2
<1> QED
  BY <1>1, <1>6, <1>7 DEF SkipsInv

\* A report is enqueued, if the store is open; of a skip, it was owed.
LEMMA SkipsQueued ==
    ASSUME TypeOK, SkipsInv, SkipStatus', NEW s \in Slots, EnqueueReport(s, 0),
           \A t \in Slots \ {s} : \A j \in Jobs : Owes(t, j)' <=> Owes(t, j),
           \A j \in Jobs : ~Owes(s, j)'
    PROVE  SkipsInv'
<1> PICK n : n = queue.seq + 1
  OBVIOUS
<1>1. UNCHANGED <<skips, phase, faults>> /\ run[s].pc = "enqueue" /\ (StoreOpen' <=> StoreOpen)
  BY DEF EnqueueReport, At, processVars, counters, StoreOpen
<1>2. /\ n \notin Ids(queue)
      /\ StoreOpen => /\ Ids(queue') = Ids(queue) \cup {n}
                      /\ queue'.items[n].payload = Report(run[s])
                      /\ \A i \in Ids(queue) : queue'.items[i] = queue.items[i]
      /\ ~StoreOpen => queue' = queue
  <2>1. run[s] \in FireType
    BY <1>1, ActiveFire
  <2>2. IsQueue(queue, Reports) /\ Report(run[s]) \in Reports
    BY <2>1 DEF TypeOK, Report, Reports, FireType
  <2>3. /\ n \notin Ids(queue)
        /\ Ids(Enqueue(queue, Report(run[s]), 0)) = Ids(queue) \cup {n}
        /\ Enqueue(queue, Report(run[s]), 0).items[n] = Item(Report(run[s]), 0, 0, 0)
        /\ \A i \in Ids(queue) : Enqueue(queue, Report(run[s]), 0).items[i] = queue.items[i]
    BY <2>2, EnqueueLemma DEF IsMs
  <2> QED
    BY <2>3 DEF EnqueueReport, Item
<1>3. \A j \in Jobs : Cardinality(Reported(j)) \in Nat /\ IsFiniteSet(Reported(j))
                     /\ Cardinality(Pending(j)) \in Nat /\ IsFiniteSet(Pending(j))
  BY ReportedFinite, FS_CardinalityType DEF SkipsInv
<1>4. skips \in [Jobs -> Nat] /\ (faults = 0 => StoreOpen)
  BY DEF TypeOK, SkipsInv, StoreOpen
<1>5. ASSUME NEW j \in Jobs
      PROVE  /\ IsFiniteSet(Pending(j)')
             /\ skips'[j] >= Cardinality(Reported(j)')
             /\ StoreOpen => skips'[j] >= Cardinality(Reported(j)') + Cardinality(Pending(j)')
             /\ faults = 0 => skips'[j] = Cardinality(Reported(j)') + Cardinality(Pending(j)')
  <2>1. CASE Owes(s, j)
    <3>1. s \in Pending(j) /\ Pending(j)' = Pending(j) \ {s}
      BY <2>1 DEF Pending
    <3>2. /\ IsFiniteSet(Pending(j)') /\ Cardinality(Pending(j)') = Cardinality(Pending(j)) - 1
          /\ Cardinality(Pending(j)') \in Nat
      BY <1>3, <3>1, FS_RemoveElement, FS_CardinalityType
    <3>3. CASE StoreOpen
      <4>1. n \notin Reported(j) /\ Reported(j)' = Reported(j) \cup {n}
        BY <1>2, <2>1, <3>3 DEF Reported, Owes, Report
      <4>2. Cardinality(Reported(j)') = Cardinality(Reported(j)) + 1
        BY <1>3, <4>1, FS_AddElement
      <4>3. /\ skips[j] >= Cardinality(Reported(j)) + Cardinality(Pending(j))
            /\ faults = 0 => skips[j] = Cardinality(Reported(j)) + Cardinality(Pending(j))
        BY <3>3 DEF SkipsInv
      <4>4. skips'[j] = skips[j] /\ skips[j] \in Nat
        BY <1>1, <1>4
      <4> QED
        BY <1>3, <3>2, <4>2, <4>3, <4>4
    <3>4. CASE ~StoreOpen
      <4>1. Reported(j)' = Reported(j)
        BY <1>2, <3>4 DEF Reported
      <4> QED
        BY <1>1, <1>3, <1>4, <3>2, <3>4, <4>1 DEF SkipsInv
    <3> QED
      BY <3>3, <3>4
  <2>2. CASE ~Owes(s, j)
    <3>1. Pending(j)' = Pending(j)
      BY <2>2 DEF Pending
    <3>2. Reported(j)' = Reported(j)
      BY <1>1, <1>2, <2>2 DEF Reported, Owes, Report
    <3> QED
      BY <1>1, <1>3, <3>1, <3>2 DEF SkipsInv
  <2> QED
    BY <2>1, <2>2
<1> QED
  BY <1>1, <1>5 DEF SkipsInv

LEMMA SkipsStep ==
    ASSUME TypeOK, RunIdsInv, SkipsInv, [Next]_vars
    PROVE  SkipsInv'
<1>1. ASSUME NEW s \in Slots, FireStep(s, 0) PROVE SkipsInv'
  <2>1. UNCHANGED <<phase, faults>> /\ (StoreOpen' <=> StoreOpen)
    BY <1>1, FireQuiet DEF processVars, StoreOpen
  <2>2. SkipStatus
    BY DEF SkipsInv
  <2>3. /\ SkipStatus'
        /\ \A t \in Slots \ {s} : \A j \in Jobs : Owes(t, j)' <=> Owes(t, j)
    BY <1>1, <2>2, FireSkips
  <2>4. CASE /\ CountSkip(s) /\ run[s].job \in Jobs
             /\ \A j \in Jobs : ~Owes(s, j) /\ (Owes(s, j)' <=> j = run[s].job)
    BY <2>3, <2>4, SkipsCounted
  <2>5. CASE EnqueueReport(s, 0) /\ \A j \in Jobs : ~Owes(s, j)'
    BY <2>3, <2>5, SkipsQueued
  <2>6. CASE UNCHANGED <<queue, skips>> /\ \A j \in Jobs : Owes(s, j)' <=> Owes(s, j)
    <3>1. \A t \in Slots : \A j \in Jobs : Owes(t, j)' <=> Owes(t, j)
      BY <2>3, <2>6
    <3> QED
      BY <2>1, <2>3, <2>6, <3>1, SkipsKept
  <2> QED
    BY <1>1, <2>2, <2>4, <2>5, <2>6, FireSkips
<1>2. ASSUME NEW s \in Slots, NEW j \in Jobs, CronFires(s, j) \/ RunNow(s, j)
      PROVE  SkipsInv'
  <2>1. /\ UNCHANGED <<queue, skips, phase, faults>> /\ run[s] = Idle
        /\ run' = [run EXCEPT ![s] =
                     Fire("lookup", j, Configs[applied][j].agent, 0, FALSE, 0, "none")]
    BY <1>2, StartEffect DEF processVars, counters
  <2>2. run'[s].pc = "lookup" /\ \A t \in Slots \ {s} : run'[t] = run[t]
    BY <2>1 DEF TypeOK, Fire
  <2>3. \A t \in Slots : \A i \in Jobs : Owes(t, i)' <=> Owes(t, i)
    <3>1. run[s].pc = "idle"
      BY <2>1 DEF Idle
    <3>2. \A i \in Jobs : ~Owes(s, i) /\ ~Owes(s, i)'
      BY <2>2, <3>1 DEF Owes
    <3>3. \A t \in Slots \ {s} : \A i \in Jobs : Owes(t, i)' <=> Owes(t, i)
      BY <2>2 DEF Owes
    <3> QED
      BY <3>2, <3>3
  <2>4. SkipStatus'
    BY <2>2 DEF SkipStatus, SkipsInv
  <2> QED
    BY <2>1, <2>3, <2>4, SkipsKept DEF StoreOpen
<1>3. CASE SendConfig \/ LoopStep \/ UNCHANGED vars
  <2>1. UNCHANGED <<queue, skips, phase, faults, run>>
    BY <1>3 DEF SendConfig, LoopStep, PersistConfig, ApplyConfig, LoopStop, vars, jobsVars,
                processVars, counters, fires
  <2> QED
    BY <2>1, SkipsKept DEF Owes, SkipsInv, SkipStatus, StoreOpen
<1>4. CASE ProcessStep
  <2>0. UNCHANGED <<queue, skips>> /\ faults \in Nat
    BY <1>4, MaxFaultsAssumption DEF ProcessStep, jobsVars, Forget, LoadConfig, counters, TypeOK
  <2>1. CASE (Exit \/ Crash) /\ Forget
    <3>1. faults' /= 0 /\ \A s \in Slots : run'[s] = Idle
      BY <2>0, <2>1 DEF Exit, Crash, Forget, SkipsInv
    <3> QED
      BY <2>0, <3>1, SkipsForgotten
  <2>2. CASE (Sigterm \/ CloseStore) /\ UNCHANGED jobsVars
    <3>1. run' = run /\ (StoreOpen' => StoreOpen) /\ faults' /= 0
      BY <2>0, <2>2 DEF Sigterm, CloseStore, StoreOpen, jobsVars, fires, SkipsInv
    <3> QED
      BY <2>0, <3>1, SkipsKept DEF Owes, SkipsInv, SkipStatus
  <2>3. CASE Boot /\ LoadConfig
    <3>1. faults' /= 0 /\ \A s \in Slots : run'[s] = Idle
      BY <2>0, <2>3 DEF Boot, LoadConfig, fires, RunIdsInv, SkipsInv
    <3> QED
      BY <2>0, <3>1, SkipsForgotten
  <2> QED
    BY <1>4, <2>1, <2>2, <2>3 DEF ProcessStep
<1> QED
  BY <1>1, <1>2, <1>3, <1>4 DEF Next, JobsStep

\* Every counted skip is reported, unless the process stopped in between, and none is
\* reported that was not counted (batch.go:145-149).
THEOREM SkipsAreReported == Spec => []SkipsReported
<1> DEFINE IInv == TypeOK /\ RunIdsInv /\ SkipsInv
<1>1. Init => IInv
  BY TypeInit, RunIdsInit, SkipsInit
<1>2. IInv /\ [Next]_vars => IInv'
  BY TypeStep, RunIdsStep, SkipsStep
<1>3. IInv => SkipsReported
  <2> SUFFICES ASSUME IInv, NEW j \in Jobs
               PROVE  LET reported == Cardinality({i \in Ids(queue) :
                            queue.items[i].payload.job = j /\ queue.items[i].payload.status = "skipped"})
                          pending  == Cardinality({s \in Slots :
                            Active(s) /\ run[s].job = j /\ run[s].status = "skipped"
                            /\ run[s].pc \in {"newid", "enqueue"}})
                      IN  /\ skips[j] >= reported
                          /\ faults = 0 => skips[j] = reported + pending
    BY DEF SkipsReported
  <2>1. {i \in Ids(queue) : queue.items[i].payload.job = j
                            /\ queue.items[i].payload.status = "skipped"} = Reported(j)
    BY DEF Reported
  <2>2. {s \in Slots : /\ Active(s) /\ run[s].job = j /\ run[s].status = "skipped"
                       /\ run[s].pc \in {"newid", "enqueue"}} = Pending(j)
    BY DEF Pending, Owes, Active, Idle
  <2> QED
    BY <2>1, <2>2 DEF SkipsInv
<1> QED
  BY <1>1, <1>2, <1>3, PTL DEF Spec
---------------------------------------------------------------------------
(* The whole worker: run ids over the queue's life, in BatchPipeline. *)

GoneId(i) == gone[i].report.id

\* The ids of the reports that left the queue stay taken: they were given, and no report
\* that left, waits or is carried by a goroutine has one of them.
GoneInv ==
    \A i \in DOMAIN gone :
        /\ i \in 1 .. queue.seq /\ i \notin Ids(queue)
        /\ GoneId(i) \in 1 .. runSeq
        /\ \A k \in DOMAIN gone : i /= k => GoneId(i) /= GoneId(k)
        /\ \A k \in Ids(queue) : GoneId(i) /= QueuedId(k)
        /\ \A s \in Slots : Carries(s) => GoneId(i) /= run[s].id

PipelineInv == TypeOK /\ RunIdsInv /\ clock \in Nat /\ GoneInv

\* Neither drain nor the clock touches the scheduler; drain changes what the queue says
\* of a report's attempts, or takes the report out (batch.go:203-231).
LEMMA UplinkEffect ==
    ASSUME TypeOK, clock \in Nat, UplinkStep \/ Tick
    PROVE  /\ UNCHANGED <<processVars, jobsVars>> /\ clock' \in Nat
           /\ IsQueue(queue', Reports) /\ queue'.seq = queue.seq
           /\ \A i \in Ids(queue') : i \in Ids(queue) /\ QueuedId(i)' = QueuedId(i)
           /\ \/ gone' = gone
              \/ \E i \in Ids(queue) \ Ids(queue') :
                   /\ DOMAIN gone' = DOMAIN gone \cup {i}
                   /\ gone'[i].report = queue.items[i].payload
                   /\ \A k \in DOMAIN gone \ {i} : gone'[k] = gone[k]
<1> PICK i : i = Uplink!Current
  OBVIOUS
<1>0. IsQueue(queue, Reports) /\ IsMs(clock) /\ IsMs(LeaseMs) /\ IsMs(BackoffMs)
  BY PipelineAssumption DEF TypeOK, Reports, IsMs
<1>1. UNCHANGED <<processVars, jobsVars>> /\ clock' \in Nat
  BY DEF UplinkStep, Tick, jobsVars, Uplink!DrainStep, Uplink!Tick, Uplink!DrainStart,
             Uplink!DrainStop, Uplink!DrainLease, Uplink!PushOk,
             Uplink!PushReplyLost, Uplink!PushFails, Uplink!DrainAck,
             Uplink!DrainCount, Uplink!DrainNack, Uplink!processVars, processVars,
             counters, config, cron, fires
<1>2. CASE UNCHANGED <<queue, gone>>
  BY <1>0, <1>1, <1>2 DEF QueuedId
<1>3. CASE /\ i \in Ids(queue) /\ queue' = Remove(queue, i)
           /\ gone' = [k \in DOMAIN gone \cup {i} |->
                         IF k = i THEN [how |-> gone'[i].how, report |-> queue.items[i].payload,
                                        attempts |-> queue.items[i].attempts]
                                  ELSE gone[k]]
  <2>1. /\ IsQueue(queue', Reports) /\ queue'.seq = queue.seq /\ Ids(queue') = Ids(queue) \ {i}
        /\ \A k \in Ids(queue') : queue'.items[k] = queue.items[k]
    BY <1>0, <1>3, RemoveLemma
  <2>2. /\ DOMAIN gone' = DOMAIN gone \cup {i}
        /\ gone'[i].report = queue.items[i].payload
        /\ \A k \in DOMAIN gone \ {i} : gone'[k] = gone[k]
    BY <1>3
  <2> QED
    BY <1>1, <1>3, <2>1, <2>2 DEF QueuedId
<1>4. CASE /\ i \in Ids(queue) /\ gone' = gone
           /\ queue' = Nack(queue, i, BackoffMs, clock, MaxAttempts)
           /\ ~Exhausted(queue.items[i].attempts + 1, MaxAttempts)
  <2>1. /\ IsQueue(queue', Reports) /\ queue'.seq = queue.seq /\ Ids(queue') = Ids(queue)
        /\ queue'.items[i] = Item(queue.items[i].payload, queue.items[i].attempts + 1,
                                  clock + BackoffMs, 0)
        /\ \A k \in Ids(queue) \ {i} : queue'.items[k] = queue.items[k]
    BY <1>0, <1>4, NackLemma
  <2>2. \A k \in Ids(queue) : QueuedId(k)' = QueuedId(k)
    BY <2>1 DEF QueuedId, Item
  <2> QED
    BY <1>1, <1>4, <2>1, <2>2
<1>5. CASE Uplink!DrainLease
  <2>1. PICK L : queue' = [seq   |-> queue.seq,
                           items |-> [k \in Ids(queue) |->
                                        IF k \in L THEN LeaseTo(queue.items[k], clock + LeaseMs)
                                                   ELSE queue.items[k]]]
    BY <1>5 DEF Uplink!DrainLease, Uplink!Lease, Uplink!LeaseTo, LeaseTo, Uplink!Ids, Ids
  <2>2. /\ Ids(queue') = Ids(queue) /\ queue'.seq = queue.seq
        /\ queue' = [seq |-> queue'.seq, items |-> queue'.items]
        /\ queue'.items = [k \in Ids(queue) |-> queue'.items[k]]
        /\ \A k \in Ids(queue) :
             queue'.items[k] \in {queue.items[k], LeaseTo(queue.items[k], clock + LeaseMs)}
    BY <2>1 DEF Ids
  <2>3. \A k \in Ids(queue) :
          /\ queue'.items[k] \in ItemType(Reports)
          /\ queue'.items[k].payload = queue.items[k].payload
    <3>1. \A k \in Ids(queue) : queue.items[k] \in ItemType(Reports) /\ clock + LeaseMs \in Nat
      BY <1>0 DEF IsQueue, IsMs
    <3>2. \A item \in ItemType(Reports) : \A until \in Nat :
            LeaseTo(item, until) \in ItemType(Reports) /\ LeaseTo(item, until).payload = item.payload
      BY DEF LeaseTo, ItemType
    <3> QED
      BY <2>2, <3>1, <3>2
  <2>4. IsQueue(queue', Reports)
    BY <1>0, <2>2, <2>3 DEF IsQueue
  <2>5. gone' = gone
    BY <1>5 DEF Uplink!DrainLease
  <2> QED
    BY <1>1, <2>2, <2>3, <2>4, <2>5 DEF QueuedId
<1>6. CASE Uplink!DrainAck
  <2> QED
    BY <1>2, <1>3, <1>6
       DEF Uplink!DrainAck, Uplink!Ack, Uplink!Remove, Remove, Uplink!Leaves, Uplink!Ids,
             Ids
<1>7. CASE Uplink!DrainNack
  <2>1. \/ UNCHANGED <<queue, gone>>
        \/ /\ queue' = Nack(queue, i, BackoffMs, clock, MaxAttempts)
           /\ IF i \in Ids(queue) \ Ids(queue') THEN Uplink!Leaves(i, "dropped")
                                                ELSE gone' = gone
    BY <1>7 DEF Uplink!DrainNack, Uplink!Nack, Nack, Uplink!Exhausted, Exhausted,
             Uplink!Remove, Remove, Uplink!Item, Item, Uplink!Ids, Ids
  <2>2. CASE i \notin Ids(queue)
    BY <1>2, <2>1, <2>2, NackGoneLemma
  <2>3. CASE /\ i \in Ids(queue) /\ Exhausted(queue.items[i].attempts + 1, MaxAttempts)
             /\ ~UNCHANGED <<queue, gone>>
    <3>1. queue' = Remove(queue, i)
      BY <2>1, <2>3, NackGoneLemma
    <3>2. i \notin Ids(queue')
      BY <1>0, <3>1, RemoveLemma
    <3> QED
      BY <1>3, <2>1, <2>3, <3>1, <3>2 DEF Uplink!Leaves
  <2>4. CASE /\ i \in Ids(queue) /\ ~Exhausted(queue.items[i].attempts + 1, MaxAttempts)
             /\ ~UNCHANGED <<queue, gone>>
    <3>1. Ids(queue') = Ids(queue)
      BY <1>0, <2>1, <2>4, NackLemma
    <3> QED
      BY <1>4, <2>1, <2>4, <3>1
  <2> QED
    BY <1>2, <2>2, <2>3, <2>4
<1> QED
  BY <1>2, <1>5, <1>6, <1>7
     DEF UplinkStep, Tick, Uplink!DrainStep, Uplink!Tick, Uplink!DrainStart,
             Uplink!DrainStop, Uplink!PushOk, Uplink!PushReplyLost,
             Uplink!PushFails, Uplink!DrainCount

\* The history of the queue through a step of the scheduler ...
LEMMA GoneJobs ==
    ASSUME TypeOK, RunIdsInv, GoneInv, clock \in Nat, JobsStep(clock), gone' = gone
    PROVE  GoneInv'
<1>1. CASE \E s \in Slots : TakesId(s)
  <2> PICK s \in Slots : TakesId(s)
    BY <1>1
  <2>1. runSeq \in Nat /\ runSeq' \in Nat /\ runSeq <= runSeq' /\ NextRunId \notin 1 .. runSeq
    BY DEF TypeOK, TakesId, TakeRunId, NextRunId
  <2>2. \A t \in Slots : Carries(t)' =>
          (Carries(t) /\ run'[t].id = run[t].id) \/ run'[t].id = NextRunId
    BY DEF TakesId, Carries
  <2>3. queue' = queue
    BY DEF TakesId
  <2> QED
    BY <2>1, <2>2, <2>3 DEF GoneInv, GoneId, QueuedId
<1>2. ASSUME NEW s \in Slots, EnqueueReport(s, clock)
      PROVE  GoneInv'
  <2>1. /\ runSeq' = runSeq /\ Carries(s)
        /\ \A t \in Slots : Carries(t)' => Carries(t) /\ run'[t].id = run[t].id
    BY <1>2, ReportQueued DEF IsMs
  <2>2. CASE ~StoreOpen
    <3>1. queue' = queue
      BY <1>2, <2>2, ReportQueued DEF IsMs
    <3> QED
      BY <2>1, <3>1 DEF GoneInv, GoneId, QueuedId
  <2>3. CASE StoreOpen
    <3> PICK n : n = queue.seq + 1
      OBVIOUS
    <3>1. /\ queue'.seq = n /\ Ids(queue') = Ids(queue) \cup {n}
          /\ QueuedId(n)' = run[s].id
          /\ \A i \in Ids(queue) : QueuedId(i)' = QueuedId(i)
      BY <1>2, <2>3, ReportQueued DEF IsMs, QueuedId
    <3>2. queue.seq \in Nat
      BY DEF TypeOK, IsQueue
    <3> QED
      BY <2>1, <3>1, <3>2 DEF GoneInv, GoneId
  <2> QED
    BY <2>2, <2>3
<1>3. CASE KeepsIds
  BY <1>3 DEF KeepsIds, GoneInv, GoneId, QueuedId
<1> QED
  BY <1>1, <1>2, <1>3, JobsIds

\* ... and of drain, which may take a report out.
LEMMA GoneUplink ==
    ASSUME PipelineInv, UplinkStep \/ Tick
    PROVE  PipelineInv'
<1>1. /\ TypeOK /\ RunIdsInv /\ GoneInv
      /\ UNCHANGED <<processVars, jobsVars>> /\ clock' \in Nat
      /\ IsQueue(queue', Reports) /\ queue'.seq = queue.seq
      /\ \A i \in Ids(queue') : i \in Ids(queue) /\ QueuedId(i)' = QueuedId(i)
  BY UplinkEffect DEF PipelineInv
<1>2. UNCHANGED <<runSeq, phase, run>> /\ \A s \in Slots : Carries(s)' <=> Carries(s)
  BY <1>1 DEF processVars, jobsVars, counters, fires, Carries
<1>3. TypeOK'
  BY <1>1 DEF TypeOK, FireType, Reports, processVars, jobsVars, counters, config, cron, fires
<1>4. RunIdsInv'
  BY <1>1, <1>2 DEF RunIdsInv, StoreOpen
<1>5. CASE gone' = gone
  <2>1. GoneInv'
    BY <1>1, <1>2, <1>5 DEF GoneInv, GoneId
  <2> QED
    BY <1>1, <1>3, <1>4, <2>1 DEF PipelineInv
<1>6. ASSUME NEW i \in Ids(queue) \ Ids(queue'),
             DOMAIN gone' = DOMAIN gone \cup {i}, gone'[i].report = queue.items[i].payload,
             \A k \in DOMAIN gone \ {i} : gone'[k] = gone[k]
      PROVE  PipelineInv'
  <2>1. GoneId(i)' = QueuedId(i) /\ i \in 1 .. queue.seq /\ i \notin DOMAIN gone
    BY <1>1, <1>6 DEF GoneId, QueuedId, GoneInv, TypeOK, IsQueue
  <2>2. \A k \in DOMAIN gone : GoneId(k)' = GoneId(k)
    BY <1>6, <2>1 DEF GoneId
  <2>3. /\ QueuedId(i) \in 1 .. runSeq
        /\ \A k \in Ids(queue) : i /= k => QueuedId(i) /= QueuedId(k)
        /\ \A s \in Slots : Carries(s) => QueuedId(i) /= run[s].id
    BY <1>1 DEF RunIdsInv
  <2>4. \A k \in DOMAIN gone :
          /\ GoneId(k) /= QueuedId(i) /\ k /= i /\ k \in 1 .. queue.seq /\ k \notin Ids(queue)
          /\ GoneId(k) \in 1 .. runSeq
          /\ \A l \in DOMAIN gone : k /= l => GoneId(k) /= GoneId(l)
          /\ \A l \in Ids(queue) : GoneId(k) /= QueuedId(l)
          /\ \A s \in Slots : Carries(s) => GoneId(k) /= run[s].id
    BY <1>1, <2>1 DEF GoneInv
  <2>5. \A k \in DOMAIN gone' :
          /\ k \in 1 .. queue.seq /\ k \notin Ids(queue')
          /\ GoneId(k)' \in 1 .. runSeq
          /\ \A l \in Ids(queue') : GoneId(k)' /= QueuedId(l)'
          /\ \A s \in Slots : Carries(s) => GoneId(k)' /= run[s].id
    BY <1>1, <1>6, <2>1, <2>2, <2>3, <2>4
  <2>6. \A k, l \in DOMAIN gone' : k /= l => GoneId(k)' /= GoneId(l)'
    BY <1>6, <2>1, <2>2, <2>4
  <2>7. GoneInv'
    BY <1>1, <1>2, <2>5, <2>6 DEF GoneInv
  <2> QED
    BY <1>1, <1>3, <1>4, <2>7 DEF PipelineInv
<1> QED
  BY <1>5, <1>6, UplinkEffect DEF PipelineInv

\* Stops, crashes and starts of the worker are those of the scheduler; the queue and its
\* history stay as they are.
LEMMA GoneProcess ==
    ASSUME PipelineInv, Stops \/ Ends \/ Starts
    PROVE  PipelineInv'
<1>1. ProcessStep /\ UNCHANGED <<clock, gone>>
  BY DEF Stops, Ends, Starts, Sigterm, CloseStore, Exit, Crash, Alive, Boot,
             LoopReturned, Forget, Loop, Idle, counters, LoadConfig, cron, fires,
             Uplink!Forget, jobsVars, uplinkVars, ProcessStep, config
<1>2. TypeOK /\ RunIdsInv /\ GoneInv /\ clock \in Nat
  BY DEF PipelineInv
<1>3. TypeOK' /\ RunIdsInv' /\ clock' \in Nat
  BY <1>1, <1>2, ProcessType, RunIdsProcess
<1>4. GoneInv'
  BY <1>1, <1>2, RunIdsProcess DEF GoneInv, GoneId, QueuedId
<1> QED
  BY <1>3, <1>4 DEF PipelineInv

LEMMA PipelineStart == PipelineInit => PipelineInv
<1> SUFFICES ASSUME PipelineInit PROVE PipelineInv
  OBVIOUS
<1>1. Init
  BY DEF PipelineInit, ProcessInit, EmptyQueue, JobsInit, Loop, Idle, Init
<1>2. clock = 0 /\ DOMAIN gone = {}
  BY DEF PipelineInit, Uplink!UplinkInit, Uplink!Nothing
<1> QED
  BY <1>1, <1>2, TypeInit, RunIdsInit DEF PipelineInv, GoneInv

LEMMA PipelineKept ==
    ASSUME PipelineInv, [PipelineNext]_pipelineVars
    PROVE  PipelineInv'
<1>1. CASE SchedulerStep
  BY <1>1, JobsType, RunIdsJobs, GoneJobs DEF SchedulerStep, uplinkVars, PipelineInv, IsMs
<1>2. CASE UNCHANGED pipelineVars
  <2>1. UNCHANGED vars /\ UNCHANGED <<clock, gone>>
    BY <1>2 DEF pipelineVars, processVars, jobsVars, uplinkVars, vars, counters, config, cron,
             fires
  <2>2. UNCHANGED <<queue, runSeq, run>>
    BY <2>1 DEF vars, jobsVars, counters, fires
  <2> QED
    BY <2>1, <2>2, TypeStep, RunIdsStep DEF PipelineInv, GoneInv, GoneId, QueuedId, Carries
<1> QED
  BY <1>1, <1>2, GoneUplink, GoneProcess DEF PipelineNext

\* A run id names one report for ever: over restarts, skips, refused runs and reports
\* that left the queue long ago, two reports never carry one id (batch.go:153, 178,
\* 237-240; docs/agentIA4Batch2Go/SPEC-AGENT-BATCH-V1.md:100).
THEOREM RunIdNamesOneReportForEver == PipelineSpec => []RunIdIdentifiesReport
<1>1. PipelineInit => PipelineInv
  BY PipelineStart
<1>2. PipelineInv /\ [PipelineNext]_pipelineVars => PipelineInv'
  BY PipelineKept
<1>3. PipelineInv => RunIdIdentifiesReport
  <2> SUFFICES ASSUME PipelineInv PROVE RunIdIdentifiesReport
    OBVIOUS
  <2>1. Enqueued = {<<i, queue.items[i].payload>> : i \in Ids(queue)}
                         \cup {<<i, gone[i].report>> : i \in DOMAIN gone}
    BY DEF Enqueued, Ids
  <2>2. /\ \A i, k \in Ids(queue) : i /= k => QueuedId(i) /= QueuedId(k)
        /\ \A i, k \in DOMAIN gone : i /= k => GoneId(i) /= GoneId(k)
        /\ \A i \in DOMAIN gone : \A k \in Ids(queue) : GoneId(i) /= QueuedId(k)
    BY DEF PipelineInv, RunIdsInv, GoneInv
  <2> QED
    BY <2>1, <2>2 DEF RunIdIdentifiesReport, QueuedId, GoneId
<1> QED
  BY <1>1, <1>2, <1>3, PTL DEF PipelineSpec
=============================================================================
