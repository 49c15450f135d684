# A TLA+ model of the SARGuardian backend

SARGuardian accepts radar-displacement jobs over HTTP, computes them (in its own
process or in a GitHub Actions run), stores the result package in a central
Google Drive and shows users the state of their jobs. This directory holds TLA+
modules that model how a job moves through that system, TLC configurations that
check them on small instances, and TLAPS proofs of the main properties for
every size.

## 1. The system

| Part (source) | State it keeps | Operations | Talks to |
|---|---|---|---|
| Jobs API (`app/jobs.py`) | none of its own | `create_job`, `list_jobs`, `get_job`, `get_job_result` | jobs table, executor, drive service |
| Job table (`app/models.py`, `app/db.py`) | one row per job: status, times, metadata, result ids, error | SELECT, flush and commit of a session | every writer has a session of its own and keeps its own copy of the row (`expire_on_commit=False`, no version column) |
| Executor and `process_job` (`app/job_worker.py`) | an in-memory queue, two threads | `submit_job`, `process_job` | science service, drive service, table |
| Science services (`app/science/`) | result directories | `run` of mock, real, github_actions | a subprocess, or the dispatch |
| Workflow dispatch (`app/worker_dispatch.py`) | none | `dispatch_job`: validate, GitHub API, else `gh` | GitHub |
| Science workflow (`.github/workflows/sarguardian-science-worker.yml`) | a run | worker, package, upload, cleanup, callback steps | GOFF worker, upload script, callback endpoint |
| Callback endpoint (`app/worker_callback.py`) | none | `handle_worker_callback` | table |
| Drive upload of a run (`scripts/upload_goff_result_to_drive.py`) | none (the drive does) | find or create folders, upload, list, verify | Google Drive |
| Drive service of the backend (`app/storage/`) | none (the drive does) | `upload_result_package`, `get_result` | Google Drive |
| GOFF worker (`scripts/sarguardian_worker.py`) | raw files, result directory | login with retries, discovery, download/read/delete per product, inversion, publication | Earthdata |
| Authentication (`app/auth.py`, `app/security.py`) | users, sessions | register, login, logout, me | table |

What makes it hard:

* **Two writers, one row.** In mode `github_actions`, `process_job` dispatches a
  run and commits once more afterwards; the callback handler writes the same row
  from its own session, at any time from the moment the run exists. What
  survives depends on which columns each session believes it has changed.
* **Messages.** A run posts its outcome with curl: lost requests, lost answers,
  answers that come after the timeout, repeated attempts; and a connection that
  is refused or breaks, as when the backend restarts, which plain `--retry` does
  not repeat: the run ends after that one attempt.
* **Ambiguous failures.** A dispatch (or an upload) may be carried out and still
  look failed to its caller.
* **Crashes.** Queue and calls live in one process; rows survive, they do not.
* **Limits.** Two threads; four attempts; retries that run out.
* **Requests beside requests.** A handler that is an ordinary function runs in a
  thread of its own: other requests run between the query of `register` and its
  insert, and between the check of a session and its use.
* **Steps that always run.** Cleanup and callback of a workflow follow a success,
  a failure in any earlier step, and a cancellation.

`PROJECT.json` lists, under `hazards`, where each of these bites, with the
properties that watch it.

What makes each part correct:

* API: a job moves forward only, ends once, and its outcome never changes
  (`JobLifecycle`).
* Table: status, result, error and end time of a row agree in every state a
  reader can see (`RowConsistent`).
* Executor: no accepted job is forgotten or processed twice (`OpenIsCarried`,
  `QueuedOnce`, `CarriedJobEnds`).
* Drive: a job's files are in one folder, each once, in a folder of that job
  only; what a failed upload leaves does not spoil the next (`Isolated`,
  `OneVerifiedPerFolder`, `NoDuplicates`, `RetrySucceeds`).
* GOFF worker: one raw file at a time, never a partial one; the manifest appears
  last; a rejected login is not repeated (`OneRawFile`, `ReadsOwnFile`,
  `ManifestMeansDone`, `RejectionIsFinal`).
* Workflow: whatever fails or is cancelled, the callback is sent, and the
  endpoint takes it; "completed" means that a whole package is in the drive and
  nothing is left on the runner (`RunReports`, `PayloadAccepted`,
  `CompletedMeansWhole`, `CompletedLeavesNothing`).
* Dispatch: at most one run per job when failures are clear (`OneRunPerJob`).
* Callback: idempotent, never refuses the only run of a job, and what it accepts
  is durable (`NeverRefused`, `AcceptedIsDurable`).
* Authentication: one user per address, answers that agree with the tables,
  sessions that end when they should and only then, and jobs only their owner
  sees (`OneUserPerAddress`, `AnsweredIsStored`, `TakenIsConflict`,
  `LoggedOutStaysOut`, `SessionsAreApart`, `OwnJobsOnly`).

## 2. Modules

| Module | Models | State and actions |
|---|---|---|
| `JobRow` | a row of `jobs` and SQLAlchemy's unit of work | `Row`, `QueuedRow`, `Flush(row, loaded, wanted)`: a commit writes exactly the columns in which the session's copy differs from what it loaded |
| `JobLifecycle` | the abstract promise of the API | `Accept`, `Begin`, `Complete`, `Fail` on what a client sees |
| `JobBackend` | `create_job`, the executor, the database steps of `process_job`; restarts and database failures | `jobs`, `queue`, `task[j]` (where the call is, the row it holds, the branch it takes), `faults` |
| `LocalJobs` | modes mock and real: science, upload, commit in one call | adds `stored` (packages in the drive), `RunScience`, `Upload` |
| `CallbackMessage` | callback messages and their answers | `Messages`, `Replies` |
| `WorkerCallback` | `handle_worker_callback` between its SELECT and its commit | `handler`, `CallbackOfEnded`, `CallbackRead`, `CallbackCommit`, `CallbackFails` |
| `WorkflowRuns` | workflow runs, curl, the network | `runs`, `requests`, `answers`, `losses`; `Post`, `TakeAnswer`, `TimeOut` (retried: also a 5xx of a proxy and a name that cannot be resolved), `Break` (refused, reset, empty reply: not retried) |
| `DispatchedJobs` | mode github_actions: composes `WorkerCallback` (with `JobBackend`) and `WorkflowRuns` | `RejectInputs`, `DispatchApi`, `DispatchCli`, `OperatorDispatch`, and the handler's steps joined to the network |
| `Drive` | Google Drive as both clients use it (external): listings of one page, names that need not be unique, a POST that may be carried out although it fails | `items`, `errors`; `Create`, `CreateFails`, `Pages` |
| `DriveUpload` | the workflow's upload script, several runs in one drive | `up[u]` (step, folders entered, files sent); `Start`, `Find`, `Make`, `Send`, `Verify`, `GiveUp` |
| `DriveStore` | the backend's `upload_result_package`, several calls in one drive | `call[c]` (step, folder, known files); `Begin`, `Find`, `Make`, `Look`, `Send`, `Verify`, `GiveUp` |
| `EarthdataLogin` | preflight and login of the GOFF worker | `stage`, `attempt`, `log` (the answers so far, as printed), `code`, `rejected` (an observer); `Classify` makes a kind of the statuses and words an exception shows |
| `GoffWorker` | a run of `sarguardian_worker.py`, both modes; extends `EarthdataLogin` | `pc`, `found`, `selected`, `read`, `raw` (files on disk), `result`, `exit` |
| `CallbackPayload` | what the backend accepts as a callback (`verify_callback_auth`, `_validate_callback_payload`), and which result it can deliver (`get_result`) | operators only: `Authenticate`, `Validate`, `GetResult` |
| `ScienceRun` | the steps of the workflow file, composed of `GoffWorker` (the worker step) and `CallbackPayload` (what is posted) | `step`, `status` (job.status), `dir`, `drive`, `output`, `payload`; `SetUp`, `MakeDir`, `Work`, `WorkEnds`, `CompletePackage`, `Upload`, `RemoveOutputs`, `Compose`, `Post`, `Cancel`, `CancelLate`, `FallSilent` |
| `Accounts` | registration, login, logout, session checks, and the job handlers as to who may do what | `users`, `sessions`, `jobs` (owners), `call[c]` (a request and how far it is) |
| `MCLocalJobs`, `MCDispatchedJobs`, `MCDriveUpload`, `MCDriveStore`, `MCScienceRun`, `MCAccounts` | instances for TLC | sets of jobs and runs, symmetry |
| `JobBackendProofs`, `DriveProofs` | lemmas about a shared component | what `JobBackend` and `Drive` keep, whoever composes them |
| `LocalJobsProofs`, `DispatchedJobsProofs`, `DriveUploadProofs`, `DriveStoreProofs`, `ScienceRunProofs` (with `GoffWorker`), `AccountsProofs` | theorems | see section 5 |

How the code is cut into steps. A step is what happens between two points where
another thread, process or machine can be observed: one commit, one external
call, one message. So `create_job` is `CreateJob` (commit) and `SubmitJob`;
`process_job` is `LoadJob`, `MarkProcessing` (first commit), the steps of the
science service, and `Finish` (the commit in `finally`). Assignments to an ORM
object are no step: nobody sees them before the commit. The callback handler is
an `async` function with no `await` between its SELECT and its commit, so two
handlers never overlap (one uvicorn process, `render.yaml`), but the executor's
threads run in between: `CallbackRead` and `CallbackCommit` are two steps with
one `handler` variable.

Abstractions. The two result columns are one field, as are error code and
message. A time stamp is the identity of the write that set it. Of the metadata
only the two keys somebody reads back are kept. A package is what the drive
stores or not. `FinishWork` merges the steps of a run up to its callback;
`ScienceRun` looks inside, and `RunSpec` says that from outside its steps are
those of one run of `WorkflowRuns`: it works, composes an outcome, posts it, or
falls silent. In turn, the upload step of `ScienceRun` is one step with any part
of the package as its outcome; `DriveUpload` looks inside that. A field of a
payload is absent, blank or text of legal form; `result_file_ids` is the set of
names with an id. A password is right or wrong, a token is worth what its hash
is, an address is its spelling and the normal form of that. A GET changes nothing,
so its three attempts are one step (`GiveUp` when all fail); a POST is tried
once and is a step of its own. GOFF products are numbers in the order of their
names, edges (direction, path, dates) numbers in the order in which the code
sorts them; a raw file is a product and whether it is whole. What
`earthaccess.download` does to the directory is an assumption (`DownloadsTo`):
it skips a file that exists, and may leave a part of one when it fails.

Definitions whose comment begins with "Variant:" are changed copies of the
definition below them, each with a plausible mistake; no specification uses
them. Checking a property again with a variant in place of the original shows
that the property notices the mistake (the list is under `mutants`).

## 3. Runs

| Run | Instance | Shows |
|---|---|---|
| `local` (`MCLocalJobs.cfg`) | 3 jobs, 2 threads, 2 faults, fair | completed implies stored, no job forgotten or run twice, refinement of `JobLifecycle`, a carried job ends |
| `local_restart` | as above | **violation**: after a restart a job may stay open for ever |
| `dispatched` (`MCDispatched.cfg`) | 2 jobs, 2 runs, 2 attempts, 2 losses, 1 fault | two writers of a row: its consistency, stable ends, one run per job, durable and repeatable acceptance, no attempt that fails without a loss or fault, refinement of `JobLifecycle` |
| `ambiguous` | 1 job, 3 runs, ambiguous dispatch, 1 loss, 1 fault, fair | an ended job is not reopened and keeps its result with several runs about; the job ends unless its run goes silent, gives up or is cut off |
| `manual` | 1 job, 2 runs, operator dispatch | completed still means a result of a run of this job |
| `terminal_kept` | ambiguous dispatch | **violation**: completed becomes failed |
| `callback_recorded` | no ambiguity | **violation**: an accepted callback's metadata is lost |
| `run_id` | no ambiguity | **violation**: the stored run id names no run |
| `drive_upload` (`MCDriveUpload.cfg`) | 3 runs, 2 of one job; pages of 3; 2 failed requests | isolation of jobs, no folder verified twice, why a run may fail, no folder twice unless runs overlap |
| `drive_store` (`MCDriveStore.cfg`) | 2 calls for one job, 1 for each of two others; pages of 2; 2 failed requests, fair | calls resume, do not duplicate, succeed when nothing fails; never another job's files |
| `science_run` (`MCScienceRun.cfg`) | 4 products on 3 edges, 2 of them documented; 3 attempts at discovery and a download, 2 at preflight and login; fair | a rejected login is final, whatever else its exception says, and the exit code says why, one raw file, products read whole, manifest last, selection; payloads the endpoint takes, completed means whole and clean, a run reports or is lost, refinement of a run of `WorkflowRuns` |
| `accounts` (`MCAccounts.cfg`) | 4 requests of any kind, 4 spellings: two of one address, one of another, one of none | one user per address, answers agree with the tables, 409 for what is taken, sessions end when they should, own jobs only |

Why the bounds are enough. Jobs interact only through the queue, the pool and
the handler. Three jobs on two threads make one wait; two dispatched jobs share
the handler. Two attempts show every pair of a first and a repeated callback;
two losses exhaust them. One fault can hit any step; `local` adds a second, which can hit
what the first left behind. Three runs for a job are one more than two transports can start:
the instance does not hide a third. Three uploads are two of
one job, which share a folder, and one of another, which shares only "jobs"; a
package of two files in pages of three makes the second upload outgrow the page.
Four products on three edges give an edge with a choice between a PR and a UR
product, a documented edge without a choice, and one that the documented stack
does not ask for; a run finds any subset of them. In
`science_run` two attempts at preflight and login (the code has 3 and 4) show a
first, a last and every pair of errors. Four requests are the fewest for what the
properties of `accounts` speak of: two logins of one user, a logout of one and a
request of the other; or two users, a job of one and a request of the other. With pages of two, the third job's
folder in `drive_store` may hide another's. The theorems of section 5
hold for every value of these bounds.

`CHECK_DEADLOCK FALSE` appears where the system may stop: every job has ended.

Fairness. `FairSpec` assumes weak fairness of the pool's threads (a thread that
can take a step does), of the event loop (a request that has arrived is
handled), and of a run's own steps. The code justifies it: every blocking call
of a thread has a timeout (30 s for the API and git, 60 s for gh and the drive,
one hour for the science command), GitHub bounds a job's time, and curl's
`--max-time 30` ends every attempt whose connection does not break before (a
break, like every loss, is never assumed). In `DriveStore`, `FairSpec` assumes that a
call that has begun runs on (every request has a timeout of 60 s), not that
calls are made. In `ScienceRun`, it assumes that GitHub goes from step to step
and ends each (`WF` of `Progress`: a step that hangs is cancelled after the
job's time limit, and every request in it has a timeout); a lost runner is
`FallSilent`, so fairness never saves it. No fairness is assumed of `CreateJob`, of
operators, of faults or of losses.

## 4. Disagreements found

* `terminal_kept`: the API call for a dispatch fails with a network error after
  GitHub has accepted it; `gh` fails too; before `process_job` commits FAILED
  (`app/job_worker.py:75`), the run reports completed. The row ends as failed,
  with the run's result. `app/worker_callback.py:265` and
  `tests/test_worker_callback.py:167` promise that a conflicting outcome leaves a
  terminal status alone.
* `callback_recorded`: `app/job_worker.py:43` rebuilds the metadata from what it
  read before the dispatch; a fast callback loses its `worker_callback` entry,
  which `tests/test_worker_callback.py:93` expects.
* `run_id`: `dispatch_to_github_actions` returns `"dispatched"`, its docstring
  (`app/worker_dispatch.py:63`) a run id.
* `local_restart`: jobs open at a restart never end, while the tests
  (`tests/test_jobs.py:33`) expect every job to.

## 5. Proofs

The safety properties that the runs check are proved for every value of the
constants: all of their invariants and action properties, and the refinements; some under
a hypothesis that is named below.
`PROJECT.json` lists the theorems. `JobBackendProofs` and `DriveProofs` hold
lemmas about what two specifications share.

**Local modes.** `LocalInv` ties each row to its task: before `LoadJob` the row
is the inserted one, between the two commits it is `ProcessingRow` and equal to
the session's copy. So a flush writes what the session holds (`FlushCurrent`),
and row consistency, stability of ended rows and the refinement follow.
`QueuedOnce` adds `PoolInv`: a queued task is in the queue, the busy threads are
finitely many and within the limit. A task starts only when a thread is free,
which makes the number of busy ones a counting argument of one step.

**Dispatched mode**, under `Quiet` (no ambiguous and no manual dispatch, which
the findings show to be necessary). The session's copy is *not* equal to the row
here; `DispatchedInv` says why this does no harm:

* `JobInv`: a run exists only when the task's one remaining write is the final
  commit of a dispatched job, which changes no column but the metadata
  (`FlushDispatched`);
* `HeldInv`: the handler's copy was read when the row was open, and nothing but
  metadata has been written since;
* `OneRunPerJob` and `Genuine`: all callbacks about a job come from one run and
  say the same;
* `RunInv`: once the job has ended, the row says what its run says.

From it: `RowConsistent`, `OneRunPerJob`, `AcceptedIsDurable`, `NeverRefused`,
`OpenIsCarried`, `TerminalStable` and the refinement of `JobLifecycle`.

**Dispatched mode, whatever is dispatched.** Four results need no `Quiet`:

* types (`DispatchedTypes`), under no hypothesis;
* `CompletedHasResult`, under none: `ResultInv` says that a row's result names a
  run of the job whose outcome is "completed", that `process_job` neither writes
  it nor completes a job, and that the handler's copy has the row's result;
* `NoReopen` and `ResultSticks`, without dispatches by hand but with ambiguous
  ones: `FirstInv` says that a run exists only after `process_job` has loaded the
  row, and that an open row has no result, so the final commit finds nothing to
  reset. `terminal_kept` shows that no more than this survives an ambiguous
  dispatch;
* `FailedAttemptsArePaid`, under none: `RetryInv` is a bill. An attempt is in one place
  only: on its way, with the backend, answered once, or gone (`Apart`); and each
  attempt of a run, but for a current one that may still succeed, has cost a loss
  or a fault (`Paid`). So a run gives up only after as many as curl has attempts;
  a broken connection ends it after as many as it has made, which may be one.

**Uploads.** For any number of overlapping runs, any page size and any number of
failures: `TypeOK` and `Isolated`. The invariant says that the folders on a
run's path are those its job asks for, and that ids are never used twice
(`NewId` counts the items of a client; `Kept` in `DriveProofs`).
`OneVerifiedPerFolder` needs `SmallPackage` as well: a run verifies only when the
listing shows exactly its own files, and since a package is smaller than a page,
that listing was the whole folder; a run that follows adds files to it, so its
own listing cannot show its files alone. `UniqueFolders` needs no hypothesis:
`FoldersInv` says that while runs have not overlapped and folders fit on a page,
no folder is there twice, and what a run is about to make is not there (its last
listing said so, and nobody else has moved since). `FailureExplained`, under
`SmallPackage`, rests on `LevelsInv`: the drive has three levels (folders
"jobs", the jobs' folders, files); as long as no request has failed, the maker of
an item below the first level has it on its path or among the files it has sent;
and what a run has sent are the files of its package. So whatever disturbs a
run's search was made by another run of its job, and a run that is alone with
its job finds exactly its own files (`AloneConfirms`).

**The backend's drive service.** `OwnFiles` holds for any calls, listings and
failures (`StoreInv`: an item is its job's folder in the parent, or a file in
such a folder). `NoDuplicates` needs `PackageFits`; `OnceInv` speaks of the
states in which listings fit: calls for one job do not overlap, and what a call
is about to create is not there. `StoreRaisesForARequest` adds `HeldInv` (a call
that verifies has each file in its folder) and shows that then only a request
that fails at that moment makes a call raise, never what earlier calls have left
behind: all of `RetrySucceeds` but its fairness. `RaisesForARequest`, which it
proves, is stated beside its proof; no run repeats what `RetrySucceeds` checks.

**Accounts**, for any number of overlapping requests. `AccountsInv` is inductive
because it says how a row and the request that made it belong together
(`UserRows`, `SessionRows`, `JobRows`: a user or session exists from the commit
of its call on, in that call's spelling and for its user), that every revoked
session has a logout which was admitted (`Revocations`), and what each kind of
request may have seen and been answered so far (`Requests`). Uniqueness comes
from the unique index alone, not from the query before it; `TakenIsConflict`
needs in addition that user rows never go away. `AnsweredIsStored` has one
exception: `create_job` commits before it refreshes the row and submits the job,
so a creation answered 500 may have left its job, and the property says nothing
of it. A registration or a login answered with anything but success leaves no
account and no session.

**The worker.** `WorkerInv` consists of `AccessInv` (which answers the log of
preflight and login can hold at each stage, and that an exception which shows a
refusal is classified as one, `Classified`), `Places` (types and where the
program may be), `RawFiles` (a raw file is there only between its download and
its deletion, whole, and of the current product; or after a failure),
`ReadSoFar` (what is read is a prefix of what is to be read) and `Published`
(which files exist at each step of publication). `SelectionIsRight` follows from
`Chosen` (nothing is selected before its time, nothing found afterwards) and
lemmas about the model's sorting: ranks number a set one to one (`RanksDiffer`,
`RanksAreAll`), so `InOrder` lists each of its members once, sorted; and
`Preferred` takes a PR product where there is one (`PreferredIsBest`).

**The workflow.** `RunInv` adds `Steps` and `Reached` (a step with `if: success()`
is reached over the success of all before it, so what the upload step sees is the
whole package of a worker that exited with 0) and `Payloads` (a payload is one of
two, and "completed" only with everything delivered and removed). From it follow
the properties of the payload, and that every step is a step of the run of
`WorkflowRuns` or leaves that unchanged (`RunsAreWorkflowRuns`).

Assumptions: `NoneAssumption` (SQL NULL is no other value), `HandlerAssumption`
(an idle handler is no request), `NormalAssumption` (normalising an address twice
is normalising it once), at least one thread and one attempt of each kind,
natural bounds, finitely many products. Hypotheses of single theorems: `Quiet`,
`~ManualDispatch`, `SmallPackage` (a package is smaller than a page of a listing:
five files and the maps, against 100) and `PackageFits` (four files, against 100);
the runs check the same properties where they hold.

Only model-checked: the four liveness properties `CarriedJobEnds`,
`JobEndsOrRunIsLost`, `RetrySucceeds` and `RunReports`. They need fairness and
ENABLED, which the proof system does not support; what of them is safety is proved
(`OpenIsCarried`, `FailedAttemptsArePaid`, `RaisesForARequest`, and the refinement of
`WorkflowRuns`).

## 6. Not modelled

* Callbacks that do not come from the workflow: a message of `DispatchedJobs` has
  passed authentication and validation, which `ScienceRun` shows for what the
  workflow builds. Job ids are those the backend makes: an operator may type one
  that is no job (404) or no legal id (400), and such a run changes no row.
* A run's own verdict after the callback (the `jq` check of the answer): nothing
  in the system reads it.
* A graceful stop of the process, which drains the executor; `Restart` is a kill.
* A commit that fails after it has been applied: the same as a restart after
  that step.
* `GET /auth/me`, which reads as `list_jobs` does. `User.is_active`, which no code
  sets to false. Password hashing, cookie attributes, the generation of tokens,
  and the redaction of metadata keys. A first query of a request that fails: it
  leaves nothing to look at.
* What GitHub does on a cancellation beyond this: the step at work is stopped
  unless it has `if: always()`, the rest is skipped except those. A second, forced
  cancellation is the loss of the runner (`FallSilent`).
* A POST to the drive that is carried out only after it has failed: it is done
  before the failure or never.
* People and other programs that change the drive. The experimental workflows
  write to folders of their own.
* Decoding errors of a result file, drive health checks, token refresh: a
  token that cannot be had is a run that is refused (`Start`) or a failed call.
* What a text must contain to count as speaking of a rejection, a timeout and so
  on: `Errors` has any set of statuses and of groups of words. A rejection that
  shows none of them is not recognised, in the code as in the model.
* Why the callback step may fail before it posts (its `git` or `jq`): the run
  falls silent (`FallSilent`).
* That a folder exists once when its parent's listing outgrows a page: then the
  clients may miss it and make another. `DriveUpload` and `DriveStore` take that
  step, and their properties about duplicates exclude it by name; nothing in the
  repository promises otherwise.
* The numerics of the GOFF worker and the parsing of its parameters, the
  experimental workflows, configuration and migrations.

## 7. Plan

1. Done: the job row, the executor, local and dispatched jobs, their proofs.
2. Done: the drive and its two clients; the theorems about uploads.
3. Done: Earthdata login and the GOFF worker, model-checked and proved.
4. Done: accounts, sessions and ownership, model-checked and proved.
5. Done: the workflow's steps and the callback contract, what the workflow builds
   against what the endpoint validates; refinement of `WorkflowRuns`.
6. Done: proofs of all safety properties that the runs check.
7. What is left: a bound on the steps of a call and of a run, so that liveness
   needs nothing but weak fairness.
