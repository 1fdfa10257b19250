----------------------------- MODULE MCBatchJobs -----------------------------
(* Small instances of BatchJobs for TLC. *)
EXTENDS BatchJobs, TLC

CONSTANTS j1, j2, s1, s2

Ok(armed)  == [armed |-> armed, agent |-> "ok"]
Bad(agent) == [armed |-> TRUE, agent |-> agent]

\* The same configuration again, as after each reconnection.
MCConfigsAgain == <<j1 :> Ok(TRUE), j1 :> Ok(TRUE)>>

\* Jobs that change, go and come: an unknown runner, a prompt that does not
\* resolve, a job that is not armed, one that is removed.
MCConfigsVaried == <<(j1 :> Ok(TRUE)) @@ (j2 :> Bad("unknown")),
                     (j1 :> Ok(TRUE)) @@ (j2 :> Ok(FALSE)),
                     j2 :> Bad("badprompt")>>

Symmetry == Permutations(Slots)
=============================================================================
