--------------------------- MODULE MCDriveUpload ---------------------------
(***************************************************************************)
(* Instances of DriveUpload for TLC: a package of two files, runs u1 and   *)
(* u2 of one job and u3 of another.                                        *)
(***************************************************************************)
EXTENDS DriveUpload

MCClients == {"u1", "u2", "u3"}
MCJobOf == [u \in MCClients |-> IF u = "u3" THEN "job2" ELSE "job1"]
MCPackage == <<"result.json", "manifest.json">>
MCNames == {"jobs", "job1", "job2"} \cup Range(MCPackage)
=============================================================================
