------------------------------- MODULE JobRow -------------------------------
(***************************************************************************)
(* One row of the "jobs" table (app/models.py) and the way a SQLAlchemy    *)
(* session writes it back.                                                 *)
(*                                                                         *)
(* The columns that tell no property apart are abstracted: the two columns *)
(* of a result (folder id, file ids) are always assigned together and are  *)
(* one field here, as are the error code and its message; a timestamp is   *)
(* the identity of the write that produced it.                             *)
(***************************************************************************)
EXTENDS Integers

CONSTANTS
  Jobs,   \* job ids
  Runs,   \* GitHub Actions runs
  None    \* SQL NULL, and the absence of anything else

Errors == {"SCIENCE", "DRIVE", "GENERIC", "DISPATCH", "WORKER"}

Status == {"absent", "queued", "processing", "completed", "failed"}
Open == {"queued", "processing"}
Terminal == {"completed", "failed"}

\* completed_at: which write set it (process_job, or attempt n of a run).
Writes == ({"worker"} \cup Runs) \X Nat
Stamp == {None} \cup Writes

\* None is no other value a column can hold.
ASSUME NoneAssumption ==
  /\ None \notin Jobs \cup Runs \cup Errors \cup {"local", "dispatched", "gh_stdout"}
  /\ None \notin Writes

\* The two keys of processing_metadata_json that code reads back or tests
\* observe: the id process_job stores for a dispatched run, and the run the
\* callback handler recorded under "worker_callback".
Metadata == [run_id: {None, "dispatched", "gh_stdout"},
             worker_callback: {None} \cup Runs]

Row == [status: Status, started: BOOLEAN, completed: Stamp,
        metadata: Metadata, result: {None, "local"} \cup Runs,
        error: {None} \cup Errors]

\* No row yet.
NoRow == [status |-> "absent", started |-> FALSE, completed |-> None,
          metadata |-> [run_id |-> None, worker_callback |-> None],
          result |-> None, error |-> None]

\* What create_job inserts.
QueuedRow == [NoRow EXCEPT !.status = "queued"]

(***************************************************************************)
(* A commit writes the columns the session has CHANGED since it loaded the *)
(* row and no other: "loaded" is the session's copy as it was read, "wanted"*)
(* the same copy after the assignments, "row" what the table holds now.    *)
(* There is no version check, so a column another session wrote in between *)
(* survives exactly when this session leaves its own copy unchanged.       *)
(***************************************************************************)
\* Variant: every column is written.
FlushWhole(row, loaded, wanted) == wanted

Flush(row, loaded, wanted) ==
  [status    |-> IF wanted.status # loaded.status THEN wanted.status ELSE row.status,
   started   |-> IF wanted.started # loaded.started THEN wanted.started ELSE row.started,
   completed |-> IF wanted.completed # loaded.completed
                 THEN wanted.completed ELSE row.completed,
   metadata  |-> IF wanted.metadata # loaded.metadata THEN wanted.metadata ELSE row.metadata,
   result    |-> IF wanted.result # loaded.result THEN wanted.result ELSE row.result,
   error     |-> IF wanted.error # loaded.error THEN wanted.error ELSE row.error]

\* A row as its three parts must agree: a result exactly when completed, an
\* error exactly when failed, an end time exactly when either.
Consistent(row) ==
  /\ (row.result # None) <=> (row.status = "completed")
  /\ (row.error # None) <=> (row.status = "failed")
  /\ (row.completed # None) <=> (row.status \in Terminal)
=============================================================================
