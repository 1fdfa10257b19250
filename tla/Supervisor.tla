----------------------------- MODULE Supervisor -----------------------------
(***************************************************************************)
(* One life of the agent process, with its workers: run of                 *)
(* cmd/miniminihub/main.go, and Run and superviseRun of                    *)
(* internal/mop/supervisor.go.                                             *)
(*                                                                         *)
(* main opens the store and the tunnel, the supervisor initialises the     *)
(* workers by priority and then runs all of them at once.  A worker that   *)
(* returns is started again after a backoff.  SIGTERM cancels the context; *)
(* the supervisor waits for the workers, for at most 30 s, and main closes *)
(* the tunnel and the store on its way out, which waits for the write      *)
(* transaction that is under way.  What a worker does is up to the module  *)
(* that extends this one.                                                  *)
(***************************************************************************)
EXTENDS Naturals

CONSTANT Workers        \* the workers of the roles in bootstrap.json

ASSUME WorkersAssumption == Workers \subseteq {"tunnel", "state", "proxy", "smtp", "batch"}

VARIABLES
    main,      \* where main is: boot, init, serve, drain, close, closed, exited
    ctx,       \* the process's context: live, cancelled
    worker,    \* worker[w]: new, ready, start, run, stuck, backoff, done
    disk       \* answers, or hangs in the middle of a transaction of bbolt

supervisorVars == <<main, ctx, worker, disk>>

StartPriority == [tunnel |-> 100, state |-> 200, proxy |-> 300, smtp |-> 320, batch |-> 340]

SupervisorInit ==
    /\ main = "boot" /\ ctx = "live"
    /\ worker = [w \in Workers |-> "new"]
    /\ disk = "answers"

StoreOpen == main \in {"init", "serve", "drain", "close"}

---------------------------------------------------------------------------
\* The configuration is read, the store and the channel to the parent are opened.
Opens ==
    /\ main = "boot"
    /\ main' = "init" /\ UNCHANGED <<ctx, worker, disk>>

\* One of them cannot be: main exits with an error.
OpenFails ==
    /\ main = "boot"
    /\ main' = "exited" /\ UNCHANGED <<ctx, worker, disk>>

\* A supervisor that runs each worker as soon as it is initialised.
InitWorkerAndRun(w) ==
    /\ main = "init" /\ worker[w] = "new"
    /\ \A v \in Workers : StartPriority[v] < StartPriority[w] => worker[v] /= "new"
    /\ worker' = [worker EXCEPT ![w] = "start"]
    /\ UNCHANGED <<main, ctx, disk>>

\* Init of the workers, by priority.  No Init of the program returns an error.
InitWorker(w) ==
    /\ main = "init" /\ worker[w] = "new"
    /\ \A v \in Workers : StartPriority[v] < StartPriority[w] => worker[v] = "ready"
    /\ worker' = [worker EXCEPT ![w] = "ready"]
    /\ UNCHANGED <<main, ctx, disk>>

\* Once all of them are initialised, one goroutine each.
StartWorkers ==
    /\ main = "init" /\ \A w \in Workers : worker[w] /= "new"
    /\ worker' = [w \in Workers |-> IF worker[w] = "ready" THEN "start" ELSE worker[w]]
    /\ main' = "serve" /\ UNCHANGED <<ctx, disk>>

\* signal.NotifyContext; before it, SIGTERM just ends the process.
Sigterm ==
    /\ main \in {"init", "serve"} /\ ctx = "live"
    /\ ctx' = "cancelled" /\ UNCHANGED <<main, worker, disk>>

---------------------------------------------------------------------------
(* superviseRun. *)

CallRun(w) ==
    /\ worker[w] = "start"
    /\ worker' = [worker EXCEPT ![w] = IF ctx = "live" THEN "run" ELSE "done"]
    /\ UNCHANGED <<main, ctx, disk>>

\* Run has returned.
RunReturns(w) ==
    /\ worker[w] = "run"
    /\ worker' = [worker EXCEPT ![w] = IF ctx = "live" THEN "backoff" ELSE "done"]
    /\ UNCHANGED <<main, ctx, disk>>

\* The workers that write to the store in Run itself, not in goroutines it starts.
Writers == Workers \cap {"tunnel", "batch"}

\* A disk that does not answer while the process stops, and answers again, if ever.
\* Whoever writes then has the transaction, or waits for it.
DiskHangs ==
    /\ ctx = "cancelled" /\ StoreOpen /\ disk = "answers"
    /\ disk' = "hangs" /\ UNCHANGED <<main, ctx, worker>>

DiskAnswers ==
    /\ disk = "hangs"
    /\ disk' = "answers" /\ UNCHANGED <<main, ctx, worker>>

\* A worker is in such a write, which does not look at the context ...
RunHangs(w) ==
    /\ w \in Writers /\ worker[w] = "run" /\ disk = "hangs"
    /\ worker' = [worker EXCEPT ![w] = "stuck"]
    /\ UNCHANGED <<main, ctx, disk>>

\* ... and returns when the write is over.
RunResumes(w) ==
    /\ worker[w] = "stuck" /\ disk = "answers"
    /\ worker' = [worker EXCEPT ![w] = "done"]
    /\ UNCHANGED <<main, ctx, disk>>

BackoffEnds(w) ==
    /\ worker[w] = "backoff"
    /\ worker' = [worker EXCEPT ![w] = IF ctx = "live" THEN "start" ELSE "done"]
    /\ UNCHANGED <<main, ctx, disk>>

---------------------------------------------------------------------------
(* The end. *)

Drain ==
    /\ main = "serve" /\ ctx = "cancelled"
    /\ main' = "drain" /\ UNCHANGED <<ctx, worker, disk>>

Drained ==
    /\ main = "drain" /\ \A w \in Workers : worker[w] = "done"
    /\ main' = "close" /\ UNCHANGED <<ctx, worker, disk>>

\* A supervisor without a limit.
WaitsForEver == FALSE /\ UNCHANGED supervisorVars

\* 30 s are over: longer than any worker takes that is not stuck.
ShutdownLimit ==
    /\ main = "drain" /\ \E w \in Workers : worker[w] = "stuck"
    /\ main' = "close" /\ UNCHANGED <<ctx, worker, disk>>

\* The deferred calls of main: tun.Close, st.Close.  The latter is bbolt's, which waits
\* for the transaction that is under way, whoever made it.
Closes ==
    /\ main = "close" /\ disk = "answers"
    /\ main' = "closed" /\ UNCHANGED <<ctx, worker, disk>>

\* main returns, and with it every goroutine ends.
Exits ==
    /\ main = "closed"
    /\ main' = "exited" /\ UNCHANGED <<ctx, worker, disk>>
=============================================================================
