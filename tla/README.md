# miniminihub in TLA+

miniminihub (mmh) is a small agent written in Go. It runs on a VM, keeps a control channel to its
parent (the "mh") and plays three roles there: exit node for proxied connections, SMTP delivery and
scheduled batch jobs. This directory holds TLA+ models of the agent and of the parent stub of the
repository, the TLC configurations that check them, and TLAPS proofs of every safety property that
these runs check and find to hold.

Paths below are relative to `src/`.

## 1. The system

| Component | Code | State | Operations | Correct if |
|---|---|---|---|---|
| durable queue | `internal/store/queue.go` | a bbolt bucket per queue: items with attempts, notBefore, leaseUntil, and a sequence | Enqueue, Lease, Ack, Nack, Depth | nothing is lost or comes back; one lease at a time; ids name one message |
| store | `internal/store/store.go`, `blob.go` | counters, events, blobs in the same file | Open, Close, Incr, AppendEvent, PutBlob, GetBlob | what a restart reads is what was written last |
| batch scheduler | `internal/worker/batch.go` | jobs, "running" flags, cron; durable: last configuration, run ids, skip counters | Run (select loop), configure, cron triggers, RunNow, fire | a job runs once at a time and is freed when its run returns; run ids are unique; skips are told |
| runners | `internal/batch/runner.go` | a child process and its pipe, or an HTTP answer | Run of `claude_code`, `custom_exec`, `custom_http`, `agentia` | a success is one; nobody is left behind; a deadline ends the run |
| batch uplink | `internal/worker/batch.go` (drain), `internal/tunnel/client.go` | leased reports of one pass | lease, push, ack or nack | each report is delivered or exhausted, with bounded duplicates |
| process and supervisor | `cmd/miniminihub/main.go`, `internal/mop` | context, workers, store handle | open, Init by priority, Run of all, restart with backoff, SIGTERM, wait 30 s at most, close | the process ends after SIGTERM, unless the disk hangs |
| tunnel worker | `internal/worker/tunnel.go`, `internal/tunnel/client.go` | one session: heartbeat goroutine, poll goroutine, `errCh` | session, Heartbeat, Poll, handleCommand | one live session; a broken one is replaced; its goroutines end |
| bus | `internal/bus/bus.go` | channels of 128 per subscriber | Subscribe, Publish (drops when full) | no command is dropped but at a full channel |
| proxy role | `internal/worker/proxy.go` | two goroutines per connection, gauges | handle, relays, rotate | bytes in order and complete; goroutines end; gauges return to 0 |
| tor rotation | `internal/worker/tor.go` | the daemon's circuits | rotateTor | counted only when done |
| load figures | `internal/worker/sysload.go` | two samples, two gauges | cpuPct, memory, disk | 0 to 100, and the share that it says |
| parent stub | `cmd/parent-stub/main.go` | `child`, `pending` | PollCommand, EgressStream, SOCKS5 and CONNECT front ends | the end of a stream never unregisters a later one; a stream relays its own client |
| smtp role | `internal/worker/smtp.go` | per command | handle, resolveMX, deliver, report | the MX are tried by preference; the parent is told the truth |
| state worker, configuration, installer | `internal/worker/state.go`, `internal/config`, `deploy` | none | log line, one read at start, shell scripts | - |

How they interact. The tunnel worker receives commands from the parent and publishes them on the
bus; the batch, proxy and smtp workers consume them. The batch worker persists a configuration,
arms a cron, starts one goroutine (`fire`) per trigger, and puts reports in the durable queue; its
`drain` goroutine carries them to the parent. The proxy role opens one EgressStream per connection.
All workers share one store and one gRPC channel; the supervisor restarts a worker that returns and,
on SIGTERM, waits for the workers, not for the goroutines they started.

What is hard here: leases that run out under a consumer, replies that are lost, goroutines of an
ended session or of an older configuration that run on, a store that is closed under goroutines,
restarts between two transactions, two goroutines that write to one connection, commands and streams
that meet in one map of the parent, descendants that outlive a child. The list, with the line where
each bites and the properties about it, is `hazards` in `PROJECT.json`.

## 2. The modules

Each module's header says what it covers; `map` in `PROJECT.json` gives the lines of code behind
each definition. Definitions that carry the comment "a ... that ..." right before the one they vary
(`LeaseByRemoval`, `ReleaseCurrent`, ...) are plausible faulty variants, kept to show that the
properties notice them; no specification uses them.

The queue and the batch role:

- **QueueOps**: the five operations of the queue as operators on a queue value, one bbolt
  transaction each. No state; used by every module with a queue.
- **AtLeastOnce**: what a user of the queue may rely on: a message is pending until it is acked or
  dropped, its payload never changes, a settled message stays settled.
- **DurableQueue**: producers and consumers of one process on one queue. A client reads the clock
  and calls the store in separate steps, as the code does (the time is an argument). Restarts lose
  all but the bucket; the wall clock may be set back. It implements AtLeastOnce through the mapping
  `Promise` (pending = in the bucket).
- **Process**: up, stopping (SIGTERM), closed (the store), down, up again. After `CloseStore` a store
  call fails and changes nothing. This is the process as goroutines that nobody waits for see it.
- **BatchJobs**: the select loop, `configure`, triggers and the steps of `fire` (lookup,
  compare-and-swap of the flag, skip counter, run id, start, end, report, release). A configuration
  creates new flags (`flags[gen]`); a goroutine keeps the cell it looked up, as the Go closure keeps
  its pointer. Of a job only what decides control is kept: armed or not, known runner, resolvable
  prompt. A run may never return; if it does, it is one step
  with three outcomes here; what is inside is Runner. The report of a failed run that cannot be
  marshalled is dropped (`DropReport`), with the store open.
- **Runner**: one call of `AgentRunner.Run`: the context and its deadline, the child, a descendant
  of it that shares the pipe, the goroutine that copies the output, or the HTTP server with headers
  and body; and what `status` becomes of all that.
- **BatchUplink**: `drain` and the parent it pushes to. A push succeeds, fails, or reaches the parent
  and then fails.
- **BatchPipeline**: BatchJobs, which it extends, and an instance of BatchUplink over one queue and
  one process. A step is one of the scheduler, of the uplink, of the clock or of the process.

The control channel and the exit node:

- **TunnelSession**: the supervisor's loop for the tunnel worker, the two goroutines and the error
  channel of each session, the PollCommand stream and the parent's handler with its registration
  `s.child`. Sessions are numbered; those of the past stay in the state with their goroutines.
- **Supervisor**: one life of the process: main, Init of the workers by priority, Run of all, restart
  after a backoff, SIGTERM, the wait of at most 30 s, the closes. A worker may hang outside the store,
  or in a write to it when the disk does not answer (`disk`); the store then does not close, because
  bbolt waits for the transaction under way.
- **ExitNode**: extends Supervisor by what the tunnel and proxy workers do for proxied connections:
  clients at both front ends, their conn_ids in `s.pending`, the command stream, the bus with its
  bounded channels, the goroutines of `handle` and `rotate`, the EgressStreams, tor, the gauges.
- **Egress**: the inside of one proxied connection: client, front end, parent relay (two goroutines),
  stream, agent relay (two goroutines), target. Bytes are numbered. Connections share nothing but
  `connSeq` and `s.pending`, which are in ExitNode, so one is enough here.
- **SysLoad**: the figures of a heartbeat as operators on unsigned counters: `/proc/stat` and
  `/proc/meminfo` lines, differences that wrap, percentages that are clamped.

And **SmtpDelivery**: one message: recipients, MX records in any order, the steps of `deliver` at
which an error can occur, and the final reply that can be lost after the MX has taken the message.

**MC...** modules hold model values and symmetry sets for TLC; MCTunnelSession also has the checks of
SysLoad over all small inputs, as assumptions that TLC evaluates. **...Proofs** modules hold the
proofs (section 5): those about the queue in DurableQueueProofs, with lemmas on its operators in
QueueOpsProofs; the scheduler and the pipeline in BatchJobsProofs; the uplink in BatchUplinkProofs;
the sessions and the figures of their heartbeats in TunnelSessionProofs; ExitNodeProofs;
EgressProofs; and the two calls whose outcome the agent tells its parent, a run and a mail, in
CallProofs.

## 3. The runs

| Run | Question | Bounds and why they are enough |
|---|---|---|
| `queue` | Is a message ever lost, resurrected or leased twice? Does an id name one message for ever? In which order are messages first handed out? Does the queue implement AtLeastOnce? | 2 producers (payloads differ, one overtakes the other), 2 consumers (one stale), 2 messages, leases of 1 at a clock up to 1 (a lease runs out), 2 attempts (a retry and an exhaustion), 1 restart or clock set-back; symmetric in both sets |
| `jobs` | Flags, run ids, durable configuration, skip counters; is the configuration applied in the end, is a job free again unless a run never returns? | 2 jobs, 3 configurations (a job changes, disappears, comes back; unknown runner; unresolved prompt), 2 triggers, 2 goroutines at once, a bus of 2, 2 stops or crashes |
| `jobs_overlap` | Does a job never run twice at a time? **Violated.** | 1 job, the same configuration twice, 2 triggers |
| `jobs_stop` | Does the agent drain its runs before it stops? **Violated.** | 1 job, 1 SIGTERM |
| `runner` | When is a run a success? Who is alive when it returns? Does the deadline end it? | 3 parts of output with a body limit of 2 (a body below, at and beyond the limit), one descendant |
| `uplink` | Is a report ever dropped undelivered before its last attempt? How often is it sent? Is it delivered in the end? | 2 reports in one leased batch, leases of 2 and a backoff of 1 (a lease runs out, and a retry waits), 2 attempts, 1 stop or crash |
| `pipeline` | Does a run id name one report for ever, and is each run that returns reported, unless its report cannot be marshalled? | 1 job, 2 triggers, 1 stop or crash, 2 attempts |
| `tunnel` | Is one session live at a time? Can an old stream unregister a later one? Do goroutines end, does the agent reconnect? What are the load figures? | 1 failure, so 2 sessions; 2 commands (an inversion needs two); counters below 16 |
| `exitnode` | Is a client served, and by its own stream? Are the figures true? Does the process end after SIGTERM, or wait in the close of a store whose disk hangs? | 2 clients, one SOCKS5, one CONNECT via tor, 1 rotation, a bus of 1 (the second command may find it full), 1 fault: a break or SIGTERM; either worker may be stuck, with or without a disk that hangs |
| `egress` | Is data relayed in order and completely, does a relay end? | 3 bytes in each direction |
| `smtp` | What is the parent told, which MX have the message? | up to 3 MX, 2 preferences (ties and orders), 2 recipients, 2 domains |
| `smtp_implicit` | Is the domain's own address used only without MX records? **Violated.** | the same |

Deadlock is not checked where the system may really stop: after the last allowed fault or trigger a
process may stay down or idle, a run, a closed connection or an exited process is the end of Runner,
Egress or ExitNode.

What the three violated runs show (`findings` in `PROJECT.json` quotes the documents):

1. *Anti-overlap per job* (`batch.go:39`). `configure` replaces all flags while runs of the previous
   configuration go on; the parent pushes the configuration again on each reconnection.
   `OverlapOnlyAcrossConfigs` is what holds instead.
2. *A stop drains the runs under way* (`docs/agentIA4Batch2Go/specs.md:95`). Goroutines of `fire` are
   not waited for; the store is closed under them and the report is lost.
3. *Fallback to A/AAAA if there is no MX* (`smtp.go:194`). Any error of the lookup counts as "no MX".

Other behaviour that the models show:

- The queue is FIFO (`queue.go:14`) up to what `FirstHandFIFO` says: the time stamp of an item is
  read before the transaction that gives the id, so a producer with an earlier stamp and a later id
  may be served first.
- A report is deleted after the 20th failed push (`NoReportLost` says: not earlier).
- A run ends with its deadline unless a descendant of the child keeps the output open
  (`TimeoutIsHard`; `runner.go:78` sets no `WaitDelay`). Without an end the job's flag is never
  released and nothing is reported: `JobsFreeAgain` and `RunsAreReported` name that exception.
- The report of a failed run can be lost with the store open and no fault: `truncate` cuts the error
  text at a byte (`runner.go:215`), protobuf refuses a string that is not UTF-8, and `fire` only logs
  it (`batch.go:193`). `RunsAreReported` excepts failed runs for this reason, and for no other.
- The 30 s of the stop do not bound it when the disk hangs: the deferred `st.Close` (`main.go:52`,
  `store.go:61`) waits for the transaction of the stuck worker (`StopEnds` says: only then).
- A success of an HTTP runner may carry a part of the body: the error of reading it is ignored
  (`SuccessIsTrue` says: only there, and only if the body was cut).
- The reply to a proxy client may come after the first bytes of the target; bytes that the client
  sends with its request are lost in the handshake's buffer (`InOrder` says: only those).
- A client whose command was lost on the way waits in `s.pending` for ever (`ClientsServedOrLost`
  says: only then).
- A late handler of an old stream may replace the registration of the new one at the parent stub
  (`LatestIsChild` is about the handler that registered last).

## 4. Fairness

Weak fairness of what Go's scheduler and the timeouts of the code owe, and nothing else:

- goroutines take their next step if they can (`LoopStep`, `OwnStep`, `DrainStep`, `Heartbeats`,
  `Polls`, relays, `Front`, `HandleStep`, `RotateStep`, `TakesEgress`, `TakesRotate`). For
  `fire` in BatchJobs that is `OwnStep`, every step but the end of the run (`FinishRun`), which owes
  nothing: `TimeoutIsHard` shows that a descendant may keep a run for ever, and `JobsFreeAgain` and
  `RunsAreReported` carry the exception in their formulas. For relays it means that a write returns: a
  peer that never reads is outside the model;
- in Runner: the deadline comes (`Deadline`), system calls, the copying of output and the HTTP client
  go on (`Wait`, `Copies`, `Http`, `ReadsBody`). The child, its descendants, the server and SIGTERM
  owe nothing;
- in ExitNode: main, the tunnel worker, the supervisor of each worker and the parent's front ends and
  handlers go on. A worker that is stuck owes nothing, nor does a disk that hangs, nor do the ends of a
  relay (`Returns`): clients and targets may keep a connection for ever;
- time passes (`Tick`), so leases and backoffs end; a push returns within its 30 s;
- a shutdown that began goes on, and systemd starts the agent again (`Restart=always`). In Process
  the close of the store is one step that happens; that it can hang is in Supervisor, and systemd
  kills a process that takes too long to stop, which is a crash in Process.

Nothing is owed by failures, SIGTERM, crashes, commands of the parent, producers, clients, targets.
`MaxFaults` counts stops and crashes, in DurableQueue also clock set-backs, and in ExitNode breaks of a
connection and SIGTERM.

The liveness of the queue itself is that of its consumer, `EventuallyDelivered` in `uplink`.

## 5. The proofs

All are for every value of the constants, under the assumptions the modules name
(`ConsumersAssumption`, `LeaseMsAssumption`, `UplinkAssumption`, ...): lease positive, counts natural,
consumers, clients and MX finite, at least one producer, configurations that name known jobs,
counters below some positive `Modulus`. So each theorem covers any number of jobs, goroutines,
clients, messages and bytes, where a run has two or three.

**DurableQueueProofs**

- `TypeCorrect`: `Spec => []TypeOK`. Inductive as it stands. Every other proof starts from it.
- `NothingLost`: `Spec => []NoSilentLoss`. With `TypeOK` it is inductive: an enqueue takes a fresh id,
  a lease changes no attempts, an ack or nack of an id that is gone writes nothing.
- `IdsKeepTheirPayload`: `Spec => []PayloadStable`. The id counter only grows, so a stale copy can
  never meet a new item under its id.
- `LeasesAreExclusive`: `Spec => []LeaseExclusive`. Not inductive: it says nothing of a copy and the
  item itself. `StaleHolds` is the missing part: a copy in a consumer's hands has at most the
  item's attempts, and with equal attempts a lease that ends no later than the item's. A new lease
  begins when the item's has ended, hence after that of every copy of the same attempt.
- `GoneForGood`: `Spec => NoResurrection`, an action property: each action takes ids out of the bucket
  or adds the next one.
- `FirstHandsFollowIds`: `Spec => []FirstHandFIFO`. The invariant `Untouched` is needed to know that
  a message that was never handed out is still in the bucket, with the stamp it was enqueued with
  and no lease, so that a lease that passes over it does so only because it is not due yet.
- `QueueKeepsPromise`: `Spec => ImplementsPromise`, the refinement of AtLeastOnce. Each action maps to
  a step of the promise or to a stutter (`PutStep`, `HandStep`, `SettleStep`, `DiscardStep`). The step
  that drops a message needs that it was handed out often enough, which no other invariant says:
  `Owed` states that the nacks a message received and the copies still in hand are no more than its
  hand-outs, by counting the holders of each message.

**BatchJobsProofs**

- `JobsTypeCorrect`: `Spec => []TypeOK`.
- `ConfigSurvives`: `Spec => []ConfigDurable`, strengthened by `ConfigOrder`: what waits in the bus is
  ordered and newer than what was persisted.
- `FlagHasOneOwner` and `OverlapNeedsTwoConfigs`: `Spec => []FlagOwned` and
  `Spec => []OverlapOnlyAcrossConfigs`. A flag counts its owners; the invariant `FlagInv` adds that a
  cell is looked up in a configuration that exists, for a job of it, and that a goroutine in the
  middle of its run owns its flag. The overlap property follows: two owners of one flag cannot be.
- `RunIdNamesOneReport`: `Spec => []RunIdsUnique`, from `RunIdsInv`: every id handed out is at most the
  durable counter, a goroutine without an id exists only when the store is closed, and none survives
  the process.
- `SkipsAreReported`: `Spec => []SkipsReported`. `SkipsInv` counts, for each job, the skips that
  goroutines owe and the reports of skips in the queue against the durable counter: equal as long as
  the process never stopped, and never more than counted while the store is open. That the counter is
  written before the report is what the induction rests on.
- `RunIdNamesOneReportForEver`: `PipelineSpec => []RunIdIdentifiesReport`, about the composition. To
  `RunIdsInv`, which the uplink's steps keep because they only remove items or change their leases
  (`UplinkEffect`), `GoneInv` adds that the ids of the reports that left the queue stay taken.

**BatchUplinkProofs**

- `UplinkTypeCorrect`: `Spec => []TypeOK`.
- `ReportsAreNotLost`: `Spec => []NoReportLost`. The invariant `UplinkInv` says that an item's id is
  its report, that `drain` acks only what the parent has received, and that the attempts an item
  counts are errors that happened.
- `DuplicatesAccounted`: `Spec => []DuplicatesBounded`. The bound must hold when a pass is cut by a
  stop and the items are leased again, so `DuplicatesInv` keeps an account per report: deliveries,
  against attempts, faults and the push under way (`Accounts`, `Reserve`, `UnderWay`), with the facts
  that what a pass has left is still queued and that only a fault can end a pass in the middle.

**TunnelSessionProofs**

- `TunnelTypeCorrect`, `OneLiveSession`, `LatestStreamStays`: `Spec => []TypeOK`, `[]OneSession`,
  `[]LatestIsChild`, from one invariant `SessionInv`: only the last session is live, each ended session
  used up a failure (so their number is bounded), and the poll goroutine has a command exactly while
  it hands one over.
- `InversionsOnlyAcrossSessions`: `Spec => []InversionsAreStale`. `OrderInv` says that the commands
  handled, held and buffered of one session are in the order they were sent, and that all of a
  session's are older than those of a later one.
- For counters of any width (SysLoad), `CpuInRange` and `CpuIsBusyShare`: a CPU figure is always in 0 ..
  100, and the busy share rounded to the nearest if no counter went back. `IdleJumpReadsFull`: an idle
  counter that grew by more than the total reads as a load of 100. `UsedIsUsedShare`: memory and disk,
  the used share rounded to the nearest, and 100 if more is free than there is. `Quotient` and
  `ClampRounds` are the arithmetic behind. The code divides in float64 and the model in integers; they
  differ only where the rounding of float64 moves a value across a half.

**ExitNodeProofs**

- `StreamsAreOwn`: `Spec => []OwnStream`. `IdsInv`: the conn_ids in `s.pending` are numbers that the
  counter has reached, no two clients have the same, and a client waits under none but its own. So a
  stream that names a conn_id can only take the client that got it.
- `FiguresAreTrue`: `Spec => []FiguresTrue`. A gauge counts goroutines, so a command must not start two
  for one client: `CommandsInv` says that the command of a client is, once, on the stream, in the bus
  or with a goroutine, or lost. `GaugeInv` is then the count itself, and `RotationsInv` says that the
  rotations counted and those about to be counted are no more than tor has made.

**EgressProofs**, for any amount of data

- `BytesInOrder` and `AnswersAreComplete`: `Spec => []InOrder` and `Spec => []AnswerComplete`, from one
  invariant. In each direction it names a number at each hand-over (socket, relay, stream, relay,
  socket), such that the buffer between two of them holds the bytes from the one number to the other
  (`Frames`), in `DownInv` towards the target and in `UpInv` towards the client, where a direction that
  was cut has lost a tail and nothing else. `ParentInv` and `AgentInv` say which states the
  goroutines of either side can be in together; `Excused` lists how an answer may be cut, and
  `AnswerComplete` follows because none of these has happened.

**CallProofs**

- `SuccessesAreTrue` and `NobodyIsLeft`: `RunSpec => []SuccessIsTrue` and `RunSpec => []NobodyLeft`.
  `Waited` says what is over at each point of the call and stays over, the child first and then all
  who have its pipe; `Judged` what a success was judged from.
- `CopiesAreAccounted` and `RefusalsAreNoCopies`: `Spec => []CopiesAreLostReplies` and
  `Spec => []RefusalsAreTrue`, from `CopiesPaid`: each copy was paid for with a lost reply, but for the
  one that ended the loop, and what was reported is told by the code of that end.
- `TriedByPreference`: `Spec => []ByPreference`. `OneOrder`: what was tried and what is left are
  together one order that `resolveMX` may return. `DomainAlone`: an order with the domain itself in it
  has nothing else, for which `SmtpAssumption` says that it is none of the MX records. That such an
  order has each MX exactly once is the pigeonhole principle (`OrderOfMX`).

**QueueOpsProofs** has the lemmas on the queue's operators (what each operation changes, that types are
preserved, that Leasable returns due items, finiteness), cited by name in the step lemmas of every
module with a queue.

Only model-checked: the ten liveness properties (leads-to under fairness, and ENABLED, are out of the
prover's reach) and the sums of `ReadCPUSample` (an induction over the fields). Every invariant and
every action property of a run that passes is a theorem, and so is the refinement of AtLeastOnce.

## 6. What is not modelled

- The state worker: it reads counters for a log line. It reads `tunnel_connects`, which no code
  increments (the tunnel worker counts `tunnel_sessions`).
- Events and the counters that only feed logs. Among them `batch_reports_sent`, which `drain`
  increments in a transaction after the ack (`batch.go:228`), so a crash in between leaves it behind:
  BatchUplink has both steps, and no property relates them.
- A queue item whose payload does not parse, which `drain` acks (`batch.go:220`): only this program
  writes the queue.
- `RunNow` has no caller in the repository; it is an action like a cron trigger.
- The text of prompts, of SMTP and of tor's control protocol, the byte layout of handshakes. A SOCKS
  request that is cut short after its header is opened all the same (`cmd/parent-stub/main.go:230`).
- The parent stub's own shutdown: `GracefulStop` waits for the PollCommand handlers
  (`cmd/parent-stub/main.go:373`), which end with their streams.
- The cadence of heartbeats, dial options and mTLS, the configuration file, the protocol's generated
  code.
- Errors of the store while it is open (a full disk, a damaged file). The code ignores them where it
  persists a configuration (`batch.go:90`), counts a skip (`batch.go:147`), settles a report
  (`batch.go:225`, `228`) and takes a run id (`batch.go:238`). In the models a store call fails only
  when the store is closed; a disk that hangs is modelled for the stop alone.
- A bus that drops a configuration: `ConfigDurable` is about what was persisted, and a configuration
  that `Publish` drops never is. By the documents (`docs/agentIA4Batch2Go/SPEC-AGENT-BATCH-V1.md:38`)
  the parent pushes it again when the agent connects; that is not code of this repository.
- The installer: a shell script run by hand, which replaces the store (`deploy/selfinstall/install.sh:132`).
- `V005-GO/docs` and `docs/` are documents, read for what they promise.

## 7. Plan

Done, in this order: queue and its proofs, scheduler, uplink, pipeline, tunnel session, egress, smtp,
runner, supervisor and exit node, load figures; then the proofs about scheduler, tunnel sessions, load
figures, the refinement and the uplink; then those about exit node, skips, pipeline, the bytes of a
connection, runs and mails.

Left:

1. The uplink as a user of AtLeastOnce: that `drain` and its queue implement the promise, as
   DurableQueue does, with the lemmas of `QueueKeepsPromise`.
2. Safety lemmas on which the liveness properties rest, such as what a goroutine that waits can be
   waiting for.
3. The uplink over the tunnel's sessions: pushes on a channel that breaks together with the command
   stream.
4. The installer against a running agent.
