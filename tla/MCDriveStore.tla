---------------------------- MODULE MCDriveStore ----------------------------
(***************************************************************************)
(* Instances of DriveStore for TLC: two calls for one job and one for each *)
(* of two others, packages of two files.                                   *)
(***************************************************************************)
EXTENDS DriveStore

MCClients == {"c1", "c2", "c3", "c4"}
MCJobOf == [c \in MCClients |-> CASE c = "c4" -> "job3" [] c = "c3" -> "job2" [] OTHER -> "job1"]
MCExpected == <<"result.json", "manifest.json">>
MCNames == {"job1", "job2", "job3"} \cup Range(MCExpected)
=============================================================================
