----------------------------- MODULE DriveStore -----------------------------
(***************************************************************************)
(* RealDriveService.upload_result_package (app/storage/drive_service.py)   *)
(* on its DriveClient: a call finds or creates the job's folder, keeps the *)
(* files it already holds, uploads the missing ones and verifies.  Calls   *)
(* for different jobs overlap (two executor threads); a call for the same  *)
(* job only follows the one before it.  Today process_job makes one call   *)
(* per job; that a second one is harmless is the service's promise         *)
(* (tests/test_storage.py:42, of its fake).                                *)
(***************************************************************************)
EXTENDS Drive, SequencesExt

CONSTANTS
  JobOf,      \* [Clients -> job], the job a call uploads for
  Expected    \* EXPECTED_RESULT_FILES, in order

FileNames == Range(Expected)

ASSUME ExpectedAssumption ==
  /\ Expected \in Seq(Names) /\ IsInjective(Expected)
  /\ JobOf \in [Clients -> Names \ FileNames]

VARIABLE call   \* what each call knows

vars == <<items, errors, call>>

\* A call: where it is, the job's folder (Root until it is known), and
\* file_ids, the id of each file it knows of.
IsCall(r) ==
  /\ DOMAIN r = {"pc", "folder", "ids"}
  /\ r.pc \in {"idle", "find", "make", "look", "send", "verify", "done", "failed"}
  /\ r.folder \in Ids
  /\ DOMAIN r.ids \subseteq FileNames /\ Range(r.ids) \subseteq Ids

NoFiles == [name \in {} |-> Root]

Init == DriveInit /\ call = [c \in Clients |-> [pc |-> "idle", folder |-> Root, ids |-> NoFiles]]

-----------------------------------------------------------------------------
Goto(c, pc) == call' = [call EXCEPT ![c].pc = pc]

\* Variant: duplicates go unnoticed.
ExistingAny(page) == \A i \in page : i.name \in FileNames

\* _validate_existing_files: only expected files, each of them once.
Existing(page) ==
  /\ \A i \in page : i.name \in FileNames
  /\ \A i, k \in page : i.name = k.name => i = k

\* The result of _validate_existing_files.
FileIds(page) ==
  [name \in {i.name : i \in page} |-> (CHOOSE i \in page : i.name = name).id]

\* Any request may fail for good: the call raises DriveServiceError.
GiveUp(c) ==
  /\ call[c].pc \in {"find", "look", "verify"}
  /\ RequestFails
  /\ Goto(c, "failed")
  /\ UNCHANGED items

\* upload_result_package is called; an invalid package asks nothing of the
\* drive.
Begin(c) ==
  /\ call[c].pc = "idle"
  /\ \A d \in Clients : JobOf[d] = JobOf[c] => call[d].pc \in {"idle", "done", "failed"}
  /\ Goto(c, "find")
  /\ UNCHANGED drive

\* Variant: whatever folder there is.
FindAny(c) ==
  /\ call[c].pc = "find"
  /\ \E page \in Pages(Root) :
       IF page = {} THEN Goto(c, "make")
       ELSE \E i \in page : call' = [call EXCEPT ![c].pc = "look", ![c].folder = i.id]
  /\ UNCHANGED drive

\* _find_or_create_job_folder: what the listing of the parent says.
Find(c) ==
  /\ call[c].pc = "find"
  /\ \E page \in Pages(Root) :
       LET matches == {i \in page : i.name = JobOf[c]}
       IN  \/ matches = {} /\ Goto(c, "make")
           \/ /\ \E i \in matches : i.kind # "folder" \/ \E k \in matches : k # i
              /\ Goto(c, "failed")
           \/ \E i \in matches :
                /\ matches = {i} /\ i.kind = "folder"
                /\ call' = [call EXCEPT ![c].pc = "look", ![c].folder = i.id]
  /\ UNCHANGED drive

\* create_folder, a POST that is tried once.
Make(c) ==
  /\ call[c].pc = "make"
  /\ \/ /\ Create(c, Root, JobOf[c], "folder")
        /\ call' = [call EXCEPT ![c].pc = "look", ![c].folder = NewId(c)]
        /\ UNCHANGED errors
     \/ CreateFails(c, Root, JobOf[c], "folder") /\ Goto(c, "failed")

\* Variant: what the folder holds is not taken over.
LookAway(c) ==
  /\ call[c].pc = "look"
  /\ Goto(c, "send")
  /\ UNCHANGED drive

\* The folder is listed and its files are taken over.
Look(c) ==
  /\ call[c].pc = "look"
  /\ \E page \in Pages(call[c].folder) :
       IF Existing(page)
       THEN call' = [call EXCEPT ![c].pc = "send", ![c].ids = FileIds(page)]
       ELSE Goto(c, "failed")
  /\ UNCHANGED drive

\* The places in Expected of what the call knows no file of.
Missing(c) == {k \in DOMAIN Expected : Expected[k] \notin DOMAIN call[c].ids}

\* file_ids with one more file.
Added(ids, new, id) ==
  [name \in DOMAIN ids \cup {new} |-> IF name = new THEN id ELSE ids[name]]

\* upload_file for the next missing file; when none is missing, verification.
Send(c) ==
  /\ call[c].pc = "send"
  /\ \/ Missing(c) = {} /\ Goto(c, "verify") /\ UNCHANGED drive
     \/ \E k \in Missing(c) :
          /\ \A m \in Missing(c) : k <= m
          /\ \/ /\ Create(c, call[c].folder, Expected[k], "file")
                /\ call' = [call EXCEPT ![c].ids = Added(@, Expected[k], NewId(c))]
                /\ UNCHANGED errors
             \/ CreateFails(c, call[c].folder, Expected[k], "file") /\ Goto(c, "failed")

\* The folder is listed again: its files are the result.
Verify(c) ==
  /\ call[c].pc = "verify"
  /\ \E page \in Pages(call[c].folder) :
       IF Existing(page) /\ {i.name : i \in page} = FileNames
       THEN call' = [call EXCEPT ![c].pc = "done", ![c].ids = FileIds(page)]
       ELSE Goto(c, "failed")
  /\ UNCHANGED drive

Step(c) == Begin(c) \/ Find(c) \/ Make(c) \/ Look(c) \/ Send(c) \/ Verify(c) \/ GiveUp(c)

Next == \E c \in Clients : Step(c)

Spec == Init /\ [][Next]_vars

\* A call that has begun runs on: every request has a timeout.
FairSpec ==
  /\ Spec
  /\ \A c \in Clients :
       WF_vars(Find(c) \/ Make(c) \/ Look(c) \/ Send(c) \/ Verify(c))

-----------------------------------------------------------------------------
TypeOK == DriveTypeOK /\ DOMAIN call = Clients /\ \A c \in Clients : IsCall(call[c])

\* A page shows all of a package: four files, against 100 by default.
PackageFits == Len(Expected) <= PageSize

\* One page shows all jobs' folders.
ListingsFit == Cardinality(Children(Root)) <= PageSize

\* As long as listings fit on a page: however many calls for a job have failed,
\* even after Drive had carried out what they asked, each file is in the job's
\* folder at most once, and there is one such folder.
NoDuplicates ==
  ListingsFit => \A i, k \in items : i.parent = k.parent /\ i.name = k.name => i = k

\* Calls for different jobs share the parent folder, not their results, even
\* when listings hide what others have made.
OwnFiles ==
  \A c \in Clients : call[c].pc = "done" =>
    \A i \in items : i.id \in Range(call[c].ids) => JobOf[i.id[1]] = JobOf[c]

\* What a failed call leaves behind never stops a later one: a call that
\* meets no failed request after its beginning returns, if listings fit.
RetrySucceeds ==
  \A c \in Clients, n \in 0 .. MaxErrors :
    (call[c].pc = "find" /\ errors = n) ~> (call[c].pc = "done" \/ errors > n \/ ~ListingsFit)
=============================================================================
