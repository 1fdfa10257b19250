--------------------------- MODULE MCBatchPipeline ---------------------------
(* A small instance of BatchPipeline for TLC. *)
EXTENDS BatchPipeline, TLC

CONSTANTS j1, s1

\* One configuration of one job.
MCConfigs == <<j1 :> [armed |-> TRUE, agent |-> "ok"]>>
=============================================================================
