---------------------------- MODULE MCScienceRun ----------------------------
(***************************************************************************)
(* An instance of ScienceRun for TLC: four products on three edges;        *)
(* edge 1 has a UR product before a PR product, edge 3 a UR product only.  *)
(***************************************************************************)
EXTENDS ScienceRun

MCProducts == 1 .. 4
MCEdgeOf == <<1, 1, 2, 3>>
MCPR == {2, 3}
=============================================================================
