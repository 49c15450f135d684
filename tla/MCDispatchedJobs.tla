-------------------------- MODULE MCDispatchedJobs --------------------------
(***************************************************************************)
(* DispatchedJobs for TLC.  Jobs and runs are interchangeable in the       *)
(* safety runs; each .cfg chooses the bounds and the two dispatch hazards. *)
(***************************************************************************)
EXTENDS DispatchedJobs, TLC

CONSTANTS j1, j2, r1, r2, r3

OneJob == {j1}
TwoJobs == {j1, j2}
TwoRuns == {r1, r2}
ThreeRuns == {r1, r2, r3}
Symmetry == Permutations(TwoJobs) \cup Permutations(TwoRuns)
RunSymmetry == Permutations(ThreeRuns)
=============================================================================
