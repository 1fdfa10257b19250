------------------------------- MODULE Process -------------------------------
(***************************************************************************)
(* The life of the agent process: cmd/miniminihub/main.go, the shutdown    *)
(* part of internal/mop/supervisor.go, and the systemd unit that           *)
(* deploy/selfinstall/install.sh writes.                                   *)
(*                                                                         *)
(* SIGTERM cancels the context that every worker got ("stopping").  When   *)
(* the supervisor returns, run()'s deferred calls close the store          *)
(* ("closed") and main returns, which ends all goroutines ("down").  The   *)
(* goroutines that the supervisor does not wait for may still run while    *)
(* the store is closed.  systemd starts the agent again (Restart=always).  *)
(***************************************************************************)
EXTENDS Naturals

CONSTANT MaxFaults      \* bound: how often the process is stopped or dies

ASSUME MaxFaultsAssumption == MaxFaults \in Nat

VARIABLES phase,        \* see Phases
          faults        \* how many stops and crashes there were

processVars == <<phase, faults>>

Phases == {"up", "stopping", "closed", "down"}

ProcessInit == phase = "up" /\ faults = 0

\* A bbolt call after Close returns an error and changes nothing.
StoreOpen == phase \in {"up", "stopping"}
Alive     == phase /= "down"

\* signal.NotifyContext cancels the context.
Sigterm ==
    /\ phase = "up" /\ faults < MaxFaults
    /\ phase' = "stopping" /\ faults' = faults + 1

\* Supervisor.Run has returned: the deferred st.Close().
CloseStore ==
    /\ phase = "stopping"
    /\ phase' = "closed" /\ UNCHANGED faults

\* main returns.
Exit ==
    /\ phase = "closed"
    /\ phase' = "down" /\ UNCHANGED faults

\* The process is killed, or panics (nothing recovers), or the machine stops.
Crash ==
    /\ Alive /\ faults < MaxFaults
    /\ phase' = "down" /\ faults' = faults + 1

\* systemd starts it again.
Boot ==
    /\ phase = "down"
    /\ phase' = "up" /\ UNCHANGED faults
=============================================================================
