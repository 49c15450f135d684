------------------------------ MODULE LocalJobs ------------------------------
(***************************************************************************)
(* Jobs computed in the backend's own process (SCIENCE_MODE mock or real): *)
(* process_job runs the science, uploads the package, then commits.        *)
(***************************************************************************)
EXTENDS JobBackend

VARIABLE stored   \* jobs whose result package the drive service holds

vars == <<backend, stored>>

Init == BackendInit /\ stored = {}

-----------------------------------------------------------------------------
\* Variant: a computed job counts as completed without its upload.
RunScienceOnly(j) ==
  /\ task[j].pc = "running"
  /\ \E v \in {"completed", "SCIENCE", "GENERIC"} : Conclude(j, v)
  /\ UNCHANGED <<jobs, queue, faults, stored>>

\* service.run returns a validated package, or raises ScienceExecutionError
\* (refused, failed, timed out, wrong revision) or anything else.
RunScience(j) ==
  /\ task[j].pc = "running"
  /\ \/ task' = [task EXCEPT ![j].pc = "uploading"]
     \/ \E e \in {"SCIENCE", "GENERIC"} : Conclude(j, e)
  /\ UNCHANGED <<jobs, queue, faults, stored>>

\* drive_service.upload_result_package returns ids once every file is stored,
\* or raises, possibly after some or all of them were.
Upload(j) ==
  /\ task[j].pc = "uploading"
  /\ \/ Conclude(j, "completed") /\ stored' = stored \cup {j}
     \/ \E e \in {"DRIVE", "GENERIC"} :
           Conclude(j, e) /\ stored' \in {stored, stored \cup {j}}
  /\ UNCHANGED <<jobs, queue, faults>>

Next ==
  \/ BackendStep /\ UNCHANGED stored
  \/ Restart /\ UNCHANGED stored
  \/ \E j \in Jobs : RunScience(j) \/ Upload(j)

\* Threads are scheduled, and the calls they block on have timeouts (30 s for
\* git, an hour for the science command, the HTTP client's for the drive).
Fairness ==
  /\ WF_vars(LoadJob /\ UNCHANGED stored)
  /\ \A j \in Jobs : /\ WF_vars(SubmitJob(j) /\ UNCHANGED stored)
                     /\ WF_vars(MarkProcessing(j) /\ UNCHANGED stored)
                     /\ WF_vars(RunScience(j))
                     /\ WF_vars(Upload(j))
                     /\ WF_vars(Finish(j) /\ UNCHANGED stored)

Spec == Init /\ [][Next]_vars
FairSpec == Spec /\ Fairness

-----------------------------------------------------------------------------
\* Every variable holds a value of its type.
TypeOK == BackendTypeOK /\ stored \subseteq Jobs

\* Status, result, error and end time are assigned one by one but every row a
\* client can read agrees on them, whatever was committed or aborted before.
RowConsistent == \A j \in Jobs : Consistent(jobs[j])

\* A job the API calls completed has its whole package in the drive.
CompletedIsStored == \A j \in Jobs : jobs[j].status = "completed" => j \in stored

\* Unless the process has died or the database has failed, every open job is
\* held by create_job, the queue or a thread: none is forgotten.
OpenIsCarried ==
  faults = 0 => \A j \in Jobs : jobs[j].status \in Open => Carried(j)

\* The queue holds each submitted job once, so no job is processed twice and
\* the pool is never over its limit.
QueuedOnce ==
  /\ \A j \in Jobs :
       Cardinality({i \in DOMAIN queue : queue[i] = j})
         = IF task[j].pc = "queued" THEN 1 ELSE 0
  /\ Cardinality({j \in Jobs : task[j].pc \in Busy}) <= MaxWorkers

\* An ended job never changes: process_job is its only writer and runs once.
TerminalStable ==
  [][\A j \in Jobs : jobs[j].status \in Terminal => jobs'[j] = jobs[j]]_vars

\* The API behaves as the job lifecycle says, restarts included.
Lifecycle == INSTANCE JobLifecycle WITH
  Results <- {"local"} \cup Runs, view <- [j \in Jobs |-> Outcome(jobs[j])]
LifecycleSpec == Lifecycle!Spec

\* A job that create_job, the queue or a thread holds ends, whatever the jobs
\* ahead of it do, unless a restart or a database failure comes in between.
CarriedJobEnds ==
  \A j \in Jobs, n \in 0 .. MaxFaults :
    (Carried(j) /\ faults = n) ~> (jobs[j].status \in Terminal \/ faults > n)

\* Every accepted job reaches a terminal state, as the tests of the API expect
\* of each job they create.
EveryJobEnds ==
  \A j \in Jobs : (jobs[j].status = "queued") ~> (jobs[j].status \in Terminal)
=============================================================================
