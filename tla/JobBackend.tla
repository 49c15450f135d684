----------------------------- MODULE JobBackend -----------------------------
(***************************************************************************)
(* The part of the backend that is the same in every SCIENCE_MODE: the     *)
(* create_job endpoint (app/jobs.py), the in-memory queue and the threads  *)
(* of the executor, and the database steps of process_job                  *)
(* (app/job_worker.py).  What service.run does between those steps is the  *)
(* business of the modules that extend this one; they leave their verdict  *)
(* in task[j].verdict and the task at "final".                             *)
(*                                                                         *)
(* task[j].pc:                                                             *)
(*   idle      no POST /jobs for j yet                                     *)
(*   inserted  create_job has committed the row, submit_job not called yet *)
(*   queued    in the executor's queue                                     *)
(*   loaded    a thread has SELECTed the row                               *)
(*   running   PROCESSING is committed, service.run is executing           *)
(*   cli       (dispatched jobs) the API call failed, gh is being run      *)
(*   uploading (local jobs) drive_service.upload_result_package executes   *)
(*   final     about to run the commit of the finally block                *)
(*   done      the call has returned, or died                              *)
(***************************************************************************)
EXTENDS JobRow, Sequences, FiniteSets

CONSTANTS
  MaxWorkers,  \* ThreadPoolExecutor(max_workers=2)
  MaxFaults    \* bound on restarts and failed database calls in a behaviour

ASSUME BoundsAssumption == MaxWorkers \in Nat \ {0} /\ MaxFaults \in Nat

VARIABLES
  jobs,    \* the jobs table
  queue,   \* the executor's work queue, oldest first
  task,    \* the progress of create_job and process_job for each job
  faults   \* restarts and failed database calls so far

backend == <<jobs, queue, task, faults>>

Verdicts == {"none", "api", "cli", "completed"} \cup Errors

IdleTask == [pc |-> "idle", loaded |-> NoRow, verdict |-> "none"]

\* A thread of the executor is busy with j.
Busy == {"loaded", "running", "cli", "uploading", "final"}

PCs == Busy \cup {"idle", "inserted", "queued", "done"}

BackendTypeOK ==
  /\ jobs \in [Jobs -> Row]
  /\ queue \in Seq(Jobs)
  /\ task \in [Jobs -> [pc: PCs, loaded: Row, verdict: Verdicts]]
  /\ faults \in 0 .. MaxFaults

BackendInit ==
  /\ jobs = [j \in Jobs |-> NoRow]
  /\ queue = <<>>
  /\ task = [j \in Jobs |-> IdleTask]
  /\ faults = 0

-----------------------------------------------------------------------------
\* create_job: db.add, db.commit.
CreateJob(j) ==
  /\ task[j].pc = "idle"
  /\ jobs' = [jobs EXCEPT ![j] = QueuedRow]
  /\ task' = [task EXCEPT ![j].pc = "inserted"]
  /\ UNCHANGED <<queue, faults>>

\* Variant: a pool that refuses work when something is waiting already.
SubmitJobIfFree(j) ==
  /\ task[j].pc = "inserted"
  /\ IF queue = <<>>
     THEN task' = [task EXCEPT ![j].pc = "queued"] /\ queue' = <<j>>
     ELSE task' = [task EXCEPT ![j].pc = "done"] /\ queue' = queue
  /\ UNCHANGED <<jobs, faults>>

\* Variant: the job is submitted twice.
SubmitJobTwice(j) ==
  /\ task[j].pc = "inserted"
  /\ task' = [task EXCEPT ![j].pc = "queued"]
  /\ queue' = queue \o <<j, j>>
  /\ UNCHANGED <<jobs, faults>>

\* create_job: job_worker.submit_job, after the commit and outside of it.
SubmitJob(j) ==
  /\ task[j].pc = "inserted"
  /\ task' = [task EXCEPT ![j].pc = "queued"]
  /\ queue' = Append(queue, j)
  /\ UNCHANGED <<jobs, faults>>

\* A free thread takes the oldest item and process_job SELECTs its row.
\* create_job commits before it submits, so "job is None" is never true.
LoadJob ==
  /\ queue # <<>>
  /\ Cardinality({j \in Jobs : task[j].pc \in Busy}) < MaxWorkers
  /\ task' = [task EXCEPT ![Head(queue)].pc = "loaded",
                          ![Head(queue)].loaded = jobs[Head(queue)]]
  /\ queue' = Tail(queue)
  /\ UNCHANGED <<jobs, faults>>

\* status = PROCESSING and started_at, whatever the row says by now. The
\* session keeps its own copy of the row (expire_on_commit=False).
MarkProcessing(j) ==
  LET wanted == [task[j].loaded EXCEPT !.status = "processing", !.started = TRUE]
  IN  /\ task[j].pc = "loaded"
      /\ jobs' = [jobs EXCEPT ![j] = Flush(jobs[j], task[j].loaded, wanted)]
      /\ task' = [task EXCEPT ![j].pc = "running", ![j].loaded = wanted]
      /\ UNCHANGED <<queue, faults>>

\* service.run, or the upload after it, has returned or raised.
Conclude(j, verdict) ==
  task' = [task EXCEPT ![j].pc = "final", ![j].verdict = verdict]

\* The session's copy after the branch of process_job that the verdict takes:
\* dispatched, completed here, or one of the three except clauses.
WorkerWrites(loaded, verdict) ==
  CASE verdict = "api" ->
         [loaded EXCEPT !.metadata.run_id = "dispatched",
                        !.completed = None, !.error = None]
    [] verdict = "cli" ->
         [loaded EXCEPT !.metadata.run_id = "gh_stdout",
                        !.completed = None, !.error = None]
    [] verdict = "completed" ->
         [loaded EXCEPT !.status = "completed", !.completed = <<"worker", 0>>,
                        !.result = "local", !.error = None]
    [] OTHER ->
         [loaded EXCEPT !.status = "failed", !.completed = <<"worker", 0>>,
                        !.error = verdict]

\* The commit of the finally block.
Finish(j) ==
  /\ task[j].pc = "final"
  /\ jobs' = [jobs EXCEPT ![j] =
                Flush(@, task[j].loaded, WorkerWrites(task[j].loaded, task[j].verdict))]
  /\ task' = [task EXCEPT ![j].pc = "done"]
  /\ UNCHANGED <<queue, faults>>

\* Variant: a job whose call dies is put back to QUEUED.
AbortRequeues(j) ==
  /\ faults < MaxFaults
  /\ task[j].pc \in {"loaded", "final"}
  /\ task' = [task EXCEPT ![j].pc = "done"]
  /\ jobs' = [jobs EXCEPT ![j].status = "queued"]
  /\ faults' = faults + 1
  /\ UNCHANGED queue

\* A database call of process_job fails. The except clause assigns FAILED, but
\* the session is unusable (or, if the SELECT failed, there is no job object),
\* so the commit in the finally block raises too and the call dies silently.
Abort(j) ==
  /\ faults < MaxFaults
  /\ task[j].pc \in {"loaded", "final"}
  /\ task' = [task EXCEPT ![j].pc = "done"]
  /\ faults' = faults + 1
  /\ UNCHANGED <<jobs, queue>>

\* The process dies and comes back. The queue and every call in progress are
\* gone, and no code looks at the open rows again.
Restart ==
  /\ faults < MaxFaults
  /\ task' = [j \in Jobs |-> IF task[j].pc = "idle" THEN task[j]
                             ELSE [task[j] EXCEPT !.pc = "done"]]
  /\ queue' = <<>>
  /\ faults' = faults + 1
  /\ UNCHANGED jobs

\* The steps that need no verdict of service.run.
BackendStep ==
  \/ LoadJob
  \/ \E j \in Jobs : \/ CreateJob(j)
                     \/ SubmitJob(j)
                     \/ MarkProcessing(j)
                     \/ Finish(j)
                     \/ Abort(j)

-----------------------------------------------------------------------------
\* Something in this process will still move j forward.
Carried(j) == task[j].pc \notin {"idle", "done"}

\* What GET /jobs/{job_id} answers of a row's outcome.
Outcome(row) == [status |-> row.status, result |-> row.result, error |-> row.error]
=============================================================================
