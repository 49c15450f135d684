--------------------------- MODULE DispatchedJobs ---------------------------
(***************************************************************************)
(* SCIENCE_MODE github_actions: process_job only dispatches the workflow   *)
(* (app/worker_dispatch.py); the workflow run computes and reports through *)
(* the callback.  Two writers of one row, the executor's thread and the    *)
(* callback handler, and between backend and run a network that loses and  *)
(* delays.                                                                 *)
(***************************************************************************)
EXTENDS WorkerCallback, WorkflowRuns

CONSTANTS
  AmbiguousDispatch,  \* a dispatch may start a run and still look failed
  ManualDispatch      \* an operator may start the workflow for any job

ASSUME DispatchAssumption == AmbiguousDispatch \in BOOLEAN /\ ManualDispatch \in BOOLEAN

vars == <<backend, handler, workflow>>

Init == BackendInit /\ handler = None /\ WorkflowInit

-----------------------------------------------------------------------------
\* dispatch_job validates the parameters (workflow_inputs) before it chooses a
\* transport: a job that fails starts nothing.
RejectInputs(j) ==
  /\ task[j].pc = "running"
  /\ Conclude(j, "DISPATCH")
  /\ UNCHANGED <<jobs, queue, faults, handler, workflow>>

\* Variant: the empty 204 is taken for an error, so the CLI is tried as well.
DispatchApiEmpty(j) ==
  /\ task[j].pc = "running"
  /\ UNCHANGED workflow \/ \E r \in Runs : StartRun(r, j)
  /\ task' = [task EXCEPT ![j].pc = "cli"]
  /\ UNCHANGED <<jobs, queue, faults, handler>>

\* dispatch_to_github_actions: 204; or no token, a refusal or a network error,
\* after each of which dispatch_job goes on to the CLI. A network error may
\* follow a request that GitHub has carried out.
DispatchApi(j) ==
  /\ task[j].pc = "running"
  /\ \/ (\E r \in Runs : StartRun(r, j)) /\ Conclude(j, "api")
     \/ UNCHANGED workflow /\ task' = [task EXCEPT ![j].pc = "cli"]
     \/ /\ AmbiguousDispatch
        /\ \E r \in Runs : StartRun(r, j)
        /\ task' = [task EXCEPT ![j].pc = "cli"]
  /\ UNCHANGED <<jobs, queue, faults, handler>>

\* dispatch_via_gh_cli: gh succeeds; is missing or exits with an error; or
\* TimeoutExpired, which no clause of the module catches. A gh that fails or
\* is killed after 60 seconds may have started the run.
DispatchCli(j) ==
  /\ task[j].pc = "cli"
  /\ \/ (\E r \in Runs : StartRun(r, j)) /\ Conclude(j, "cli")
     \/ \E e \in {"DISPATCH", "GENERIC"} :
          /\ Conclude(j, e)
          /\ \/ UNCHANGED workflow
             \/ AmbiguousDispatch /\ \E r \in Runs : StartRun(r, j)
  /\ UNCHANGED <<jobs, queue, faults, handler>>

\* workflow_dispatch from the Actions page or gh, for a job that exists.
OperatorDispatch(r, j) ==
  /\ ManualDispatch
  /\ jobs[j].status # "absent"
  /\ StartRun(r, j)
  /\ UNCHANGED <<backend, handler>>

-----------------------------------------------------------------------------
\* The handler takes a request: it is answered at once, or held while the
\* handler is between its SELECT and its commit.
AnswerEnded(m) ==
  /\ m \in requests
  /\ CallbackOfEnded(m)
  /\ requests' = requests \ {m}
  /\ answers' = answers \cup {Reply(m, AnswerOfEnded(m))}
  /\ UNCHANGED <<runs, losses>>

Receive(m) ==
  /\ m \in requests
  /\ CallbackRead(m)
  /\ requests' = requests \ {m}
  /\ UNCHANGED <<runs, answers, losses>>

Commit ==
  /\ CallbackCommit
  /\ answers' = answers \cup {Reply(handler.msg, "accepted")}
  /\ UNCHANGED <<runs, requests, losses>>

CommitFails ==
  /\ CallbackFails
  /\ answers' = answers \cup {Reply(handler.msg, "error")}
  /\ UNCHANGED <<runs, requests, losses>>

\* A request in the handler dies with the process; so does its answer.
BackendRestart ==
  /\ Restart
  /\ handler' = None
  /\ UNCHANGED workflow

\* The message the handler works on.
Held == IF handler = None THEN {} ELSE {handler.msg}

\* A step of the runs or of the network.
WorkflowStep ==
  /\ \/ \E r \in Runs : \/ FinishWork(r)
                        \/ EndSilently(r)
                        \/ Post(r)
                        \/ TimeOut(r, Held)
                        \/ Break(r, Held)
     \/ \E m \in requests : LoseRequest(m)
     \/ \E a \in answers : LoseAnswer(a) \/ TakeAnswer(a)
  /\ UNCHANGED <<backend, handler>>

Next ==
  \/ BackendStep /\ UNCHANGED <<handler, workflow>>
  \/ \E j \in Jobs : RejectInputs(j) \/ DispatchApi(j) \/ DispatchCli(j)
  \/ \E r \in Runs, j \in Jobs : OperatorDispatch(r, j)
  \/ \E m \in requests : AnswerEnded(m) \/ Receive(m)
  \/ Commit
  \/ CommitFails
  \/ BackendRestart
  \/ WorkflowStep

\* The pool's threads and the event loop are scheduled, the calls of a dispatch
\* have timeouts (30 s, 60 s), a run's steps have the job's time limit, an attempt
\* that nothing answers times out if its connection does not break before, and a
\* message that is not lost arrives.
Fairness ==
  /\ WF_vars(LoadJob /\ UNCHANGED <<handler, workflow>>)
  /\ \A j \in Jobs :
       /\ WF_vars(SubmitJob(j) /\ UNCHANGED <<handler, workflow>>)
       /\ WF_vars(MarkProcessing(j) /\ UNCHANGED <<handler, workflow>>)
       /\ WF_vars(RejectInputs(j) \/ DispatchApi(j) \/ DispatchCli(j))
       /\ WF_vars(Finish(j) /\ UNCHANGED <<handler, workflow>>)
  /\ WF_vars(Commit)
  /\ WF_vars(\E m \in requests : AnswerEnded(m) \/ Receive(m))
  /\ \A r \in Runs :
       WF_vars((FinishWork(r) \/ Post(r) \/ (TimeOut(r, Held) /\ UNCHANGED losses))
                 /\ UNCHANGED <<backend, handler>>)
  /\ WF_vars((\E a \in answers : TakeAnswer(a)) /\ UNCHANGED <<backend, handler>>)

Spec == Init /\ [][Next]_vars
FairSpec == Spec /\ Fairness
-----------------------------------------------------------------------------
\* Neither of the two ways to have more than one run for a job is allowed.
Quiet == ~AmbiguousDispatch /\ ~ManualDispatch

RunsOf(j) == {r \in Runs : runs[r].job = j}

\* Every variable holds a value of its type.
TypeOK == BackendTypeOK /\ HandlerTypeOK /\ WorkflowTypeOK

\* process_job and the callback handler write the same row from copies of
\* their own, but without ambiguous or manual dispatch every row agrees on
\* status, result, error and end time.
RowConsistent == \A j \in Jobs : Consistent(jobs[j])

\* A dispatch that fails clearly leaves no run behind, so the fall back from
\* the API to the CLI never starts a second run of a job.
OneRunPerJob == \A j \in Jobs : \A r, s \in RunsOf(j) : r = s

\* What a run was told is accepted is what the row says from then on, whatever
\* process_job commits later and however often the callback was repeated.
AcceptedIsDurable ==
  \A r \in Runs : runs[r].state = "accepted" =>
    LET row == jobs[runs[r].job]
    IN  /\ row.status = runs[r].outcome
        /\ row.result = IF row.status = "completed" THEN r ELSE None

\* A repeated callback is idempotent: the only run of a job is never refused.
NeverRefused == \A r \in Runs : runs[r].state # "rejected"

\* However requests, answers, timeouts and broken connections interleave, no
\* attempt of a run fails for nothing: a run that has given up has had as many
\* losses and faults as curl has attempts, and one whose connection broke, which
\* may happen at its first attempt, as many as it had made attempts.
FailedAttemptsArePaid ==
  \A r \in Runs :
    /\ runs[r].state = "gave_up" => losses + faults >= CurlAttempts
    /\ runs[r].state = "cut_off" => losses + faults >= runs[r].attempt

\* Without restarts and database failures, an open job is in the backend's
\* hands, or has a run, which may have ended without being heard.
OpenIsCarried ==
  faults = 0 => \A j \in Jobs : jobs[j].status \in Open =>
    Carried(j) \/ RunsOf(j) # {}

\* Once a job has ended nobody changes its status, result, error or end time:
\* not a late commit of process_job, not a second callback.
TerminalStable ==
  [][\A j \in Jobs : jobs[j].status \in Terminal =>
        jobs'[j] = [jobs[j] EXCEPT !.metadata = jobs'[j].metadata]]_vars

\* The API behaves as the job lifecycle says.
Lifecycle == INSTANCE JobLifecycle WITH
  Results <- {"local"} \cup Runs, view <- [j \in Jobs |-> Outcome(jobs[j])]
LifecycleSpec == Lifecycle!Spec

\* An accepted job ends unless its run is lost, its attempts are used up, its
\* connection breaks, or the backend loses state: a request or an answer that
\* goes missing silently cannot keep it open while attempts are left, because
\* curl times out and posts again.
JobEndsOrRunIsLost ==
  \A j \in Jobs, n \in 0 .. MaxFaults :
    (Carried(j) /\ faults = n) ~>
      \/ jobs[j].status \in Terminal
      \/ \E r \in RunsOf(j) : runs[r].state \in {"silent", "gave_up", "cut_off"}
      \/ faults > n

-----------------------------------------------------------------------------
(***************************************************************************)
(* What is left when a dispatch may be ambiguous or an operator interferes *)
(***************************************************************************)
\* A completed row names a result, and a result always comes from a run of
\* this very job that succeeded, whatever order two runs and process_job
\* commit in.
CompletedHasResult ==
  \A j \in Jobs :
    /\ jobs[j].status = "completed" => jobs[j].result # None
    /\ jobs[j].result # None =>
         jobs[j].result \in RunsOf(j) /\ runs[jobs[j].result].outcome = "completed"

\* A job that has ended is never open again.
NoReopen ==
  [][\A j \in Jobs : jobs[j].status \in Terminal => jobs'[j].status \in Terminal]_vars

\* The first result of a job is its last: a second run replaces nothing.
ResultSticks ==
  [][\A j \in Jobs : jobs[j].result # None => jobs'[j].result = jobs[j].result]_vars

-----------------------------------------------------------------------------
(***************************************************************************)
(* What a test, a comment or a message of the repository says              *)
(***************************************************************************)
\* A job in a terminal status keeps it: "Job already has a different terminal
\* status" is what a conflicting report of its outcome gets.
TerminalStatusKept ==
  [][\A j \in Jobs : jobs[j].status \in Terminal => jobs'[j].status = jobs[j].status]_vars

\* The row of a job whose callback was accepted records it under
\* "worker_callback".
AcceptedIsRecorded ==
  \A r \in Runs : runs[r].state = "accepted" =>
    jobs[runs[r].job].metadata.worker_callback = r

\* dispatch_to_github_actions returns the id of the run it has started.
RunIdNamesARun ==
  \A j \in Jobs : (task[j].pc = "done" /\ task[j].verdict = "api") =>
    jobs[j].metadata.run_id \in RunsOf(j) \cup {None}
=============================================================================
