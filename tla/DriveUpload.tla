---------------------------- MODULE DriveUpload ----------------------------
(***************************************************************************)
(* Runs of scripts/upload_goff_result_to_drive.py against one drive: find  *)
(* or create the folders "jobs" and, in it, the job's; upload every file   *)
(* of the package; list the folder and verify.  Runs of different jobs, or *)
(* of one job started twice, may overlap: no workflow has a concurrency    *)
(* group.  A GET is tried three times and changes nothing, so it is one    *)
(* step; a POST is tried once.                                             *)
(***************************************************************************)
EXTENDS Drive, SequencesExt

CONSTANTS
  JobOf,     \* [Clients -> job], the job a run uploads for
  Package    \* the file names of a package, in the order of result_files

ASSUME PackageAssumption ==
  /\ Package \in Seq(Names) /\ Package # <<>> /\ IsInjective(Package)
  /\ "jobs" \in Names /\ JobOf \in [Clients -> Names]

\* A listing shows more files than a package has (100 by default, against
\* five and the maps the science adds).
SmallPackage == Len(Package) < PageSize

VARIABLES
  up,          \* what each run knows
  overlapped   \* two runs have been under way at once (an observer)

vars == <<items, errors, up, overlapped>>

Ended == {"refused", "verified", "failed"}

Run == [pc: {"idle", "find", "make", "send", "verify"} \cup Ended,
        path: Seq(Ids),   \* folders found or made so far
        sent: Seq(Ids)]   \* ids of the files uploaded so far

Init ==
  /\ DriveInit
  /\ up = [u \in Clients |-> [pc |-> "idle", path |-> <<>>, sent |-> <<>>]]
  /\ overlapped = FALSE

-----------------------------------------------------------------------------
\* The folder a run is in and the folder it looks for next.
Here(u) == IF up[u].path = <<>> THEN Root ELSE Last(up[u].path)
Wanted(u) == <<"jobs", JobOf[u]>>[Len(up[u].path) + 1]

\* The run has found or made the folder it wanted.
Enter(u, id) ==
  up' = [up EXCEPT ![u].path = Append(@, id),
                   ![u].pc = IF up[u].path = <<>> THEN "find" ELSE "send"]

Stop(u) == up' = [up EXCEPT ![u].pc = "failed"]

\* A GET that has failed three times; or the runner is lost.
GiveUp(u) ==
  /\ up[u].pc \in {"find", "verify"}
  /\ RequestFails
  /\ Stop(u)
  /\ UNCHANGED items

\* main up to the first listing: package, token and account are checked
\* before anything is asked of the drive.
Start(u) ==
  /\ up[u].pc = "idle"
  /\ \E pc \in {"find", "refused"} : up' = [up EXCEPT ![u].pc = pc]
  /\ overlapped' = (overlapped \/ \E v \in Clients : up[v].pc \notin {"idle"} \cup Ended)
  /\ UNCHANGED drive

\* Variant: nobody looks for an existing folder.
FindNothing(u) ==
  /\ up[u].pc = "find"
  /\ up' = [up EXCEPT ![u].pc = "make"]
  /\ UNCHANGED drive

\* Variant: any folder will do.
FindAny(u) ==
  /\ up[u].pc = "find"
  /\ \E page \in Pages(Here(u)) :
       IF page = {} THEN up' = [up EXCEPT ![u].pc = "make"]
       ELSE \E i \in page : Enter(u, i.id)
  /\ UNCHANGED drive

\* find_or_create_child_folder: what the listing says of the wanted name.
Find(u) ==
  /\ up[u].pc = "find"
  /\ \E page \in Pages(Here(u)) :
       LET matches == {i \in page : i.name = Wanted(u)}
       IN  \/ matches = {} /\ up' = [up EXCEPT ![u].pc = "make"]
           \/ /\ \E i \in matches : i.kind # "folder" \/ \E k \in matches : k # i
              /\ Stop(u)
           \/ \E i \in matches : matches = {i} /\ i.kind = "folder" /\ Enter(u, i.id)
  /\ UNCHANGED drive

\* create_run_folder: GET the parent, POST the folder.
Make(u) ==
  /\ up[u].pc = "make"
  /\ \/ /\ Create(u, Here(u), Wanted(u), "folder")
        /\ Enter(u, NewId(u))
        /\ UNCHANGED errors
     \/ CreateFails(u, Here(u), Wanted(u), "folder") /\ Stop(u)

\* Variant: a POST that fails is sent again.
SendAgain(u) ==
  /\ up[u].pc = "send"
  /\ LET name == Package[Len(up[u].sent) + 1]
     IN  \/ /\ Create(u, Here(u), name, "file")
            /\ up' = [up EXCEPT ![u].sent = Append(@, NewId(u)),
                                ![u].pc = IF name = Last(Package) THEN "verify" ELSE "send"]
            /\ UNCHANGED errors
         \/ CreateFails(u, Here(u), name, "file") /\ UNCHANGED up

\* upload_file for the next file; after the last one, verification.
Send(u) ==
  /\ up[u].pc = "send"
  /\ LET name == Package[Len(up[u].sent) + 1]
     IN  \/ /\ Create(u, Here(u), name, "file")
            /\ up' = [up EXCEPT ![u].sent = Append(@, NewId(u)),
                                ![u].pc = IF name = Last(Package) THEN "verify" ELSE "send"]
            /\ UNCHANGED errors
         \/ CreateFails(u, Here(u), name, "file") /\ Stop(u)

\* Variant: names and ids are compared, the number of files is not.
ConfirmedAnyCount(u, page) ==
  /\ {i.name : i \in page} = Range(Package)
  /\ Range(up[u].sent) \subseteq {i.id : i \in page}

\* As many files as the package has, with its names, and those of this run.
Confirmed(u, page) ==
  /\ Cardinality(page) = Len(Package)
  /\ {i.name : i \in page} = Range(Package)
  /\ Range(up[u].sent) = {i.id : i \in page}

\* The folder is listed and compared with what the run has uploaded.
Verify(u) ==
  /\ up[u].pc = "verify"
  /\ \E page \in Pages(Here(u)) :
       up' = [up EXCEPT ![u].pc = IF Confirmed(u, page) THEN "verified" ELSE "failed"]
  /\ UNCHANGED drive

Step(u) ==
  \/ Start(u)
  \/ (Find(u) \/ Make(u) \/ Send(u) \/ Verify(u) \/ GiveUp(u)) /\ UNCHANGED overlapped

Next == \E u \in Clients : Step(u)

Spec == Init /\ [][Next]_vars

-----------------------------------------------------------------------------
TypeOK == DriveTypeOK /\ up \in [Clients -> Run] /\ overlapped \in BOOLEAN

Verified(u) == up[u].pc = "verified"

\* A result folder is never verified for two runs: the second, whose files
\* join those of the first, must notice, however the two overlapped and
\* although the listing may hide some of the files (given SmallPackage).
OneVerifiedPerFolder ==
  \A u, v \in Clients : Verified(u) /\ Verified(v) /\ Here(u) = Here(v) => u = v

\* Whatever runs overlap, a run's files only ever lie in a folder of its own
\* job, and that in a folder "jobs" of the configured parent.
Isolated ==
  \A i \in items : i.kind = "file" =>
    \E folder, above \in items :
      /\ i.parent = folder.id /\ folder.name = JobOf[i.id[1]]
      /\ folder.parent = above.id /\ above.name = "jobs" /\ above.parent = Root

\* As long as runs do not overlap and listings fit on a page, no folder name
\* occurs twice in a folder, even after creations that only looked failed.
UniqueFolders ==
  (~overlapped /\ \A i \in items : i.kind = "folder" => Cardinality(Children(i.parent)) <= PageSize) =>
  \A i, k \in items :
    (i.kind = "folder" /\ k.kind = "folder" /\ i.parent = k.parent /\ i.name = k.name) => i = k

\* A run fails only after a failed request, beside another run of its job, or
\* when two runs have each made a folder "jobs"; runs of other jobs alone
\* cannot spoil it.
FailureExplained ==
  \A u \in Clients : up[u].pc = "failed" =>
    \/ errors > 0
    \/ \E v \in Clients \ {u} : JobOf[v] = JobOf[u] /\ up[v].path # <<>>
    \/ Cardinality(FoldersNamed(Root, "jobs")) > 1
=============================================================================
