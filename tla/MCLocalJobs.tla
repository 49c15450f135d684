----------------------------- MODULE MCLocalJobs -----------------------------
(***************************************************************************)
(* LocalJobs for TLC: one job more than the pool has threads, so that a    *)
(* job waits in the queue while others run, fail, or die in a restart.     *)
(***************************************************************************)
EXTENDS LocalJobs, TLC

CONSTANTS j1, j2, j3

MCJobs == {j1, j2, j3}
MCRuns == {}
=============================================================================
