----------------------------- MODULE ScienceRun -----------------------------
(***************************************************************************)
(* The steps of .github/workflows/sarguardian-science-worker.yml around    *)
(* the GOFF worker, from the checkouts to the callback, and how the        *)
(* backend's endpoint (app/worker_callback.py) reads what they post.       *)
(*                                                                         *)
(* step: setup worker package upload cleanup callback posting posted       *)
(*       silent (no callback configured, the runner is lost, or its git or *)
(*       jq fails while the payload is put together)                       *)
(*       broken (the callback step has failed before curl)                 *)
(* The steps after a failed or cancelled one are skipped, except cleanup   *)
(* and callback (if: always()).  What becomes of the posted message is in  *)
(* WorkflowRuns; RunSpec says that this module is the run it speaks of.    *)
(***************************************************************************)
EXTENDS GoffWorker, CallbackPayload

VARIABLES
  step,
  status,   \* job.status: success, failure or cancelled
  dir,      \* SARGUARDIAN_WORK_OUTPUT_DIR: unset, made or removed
  drive,    \* the files of this run in the drive
  output,   \* drive_file_ids, the output of the upload step: names with an id
  payload   \* what the callback step posts

workflow == <<step, status, dir, drive, output, payload>>
vars == <<worker, workflow>>

Init ==
  /\ WorkerInit
  /\ step = "setup" /\ status = "success" /\ dir = "unset"
  /\ drive = {} /\ output = {} /\ payload = NoPayload

\* A step ends well: the next one follows.
Succeeds(next) == step' = next /\ UNCHANGED status

\* A step ends badly: those with if: success() are skipped.
Fails ==
  /\ step' = IF step = "cleanup" THEN "callback" ELSE "cleanup"
  /\ status' = IF status = "success" THEN "failure" ELSE status

-----------------------------------------------------------------------------
\* Checkouts, Python, requirements.
SetUp ==
  /\ step = "setup"
  /\ Succeeds("worker") \/ Fails
  /\ UNCHANGED <<worker, dir, drive, output, payload>>

\* The parameters are put together and the directory is made and remembered.
MakeDir ==
  /\ step = "worker" /\ dir = "unset"
  /\ \/ dir' = "made" /\ UNCHANGED <<step, status>>
     \/ Fails /\ UNCHANGED dir
  /\ UNCHANGED <<worker, drive, output, payload>>

Work ==
  /\ step = "worker" /\ dir = "made"
  /\ WorkerStep
  /\ UNCHANGED workflow

\* Variant: the exit status of the worker is not looked at.
WorkEndsAnyhow ==
  /\ step = "worker" /\ pc = "ended"
  /\ Succeeds("package")
  /\ UNCHANGED <<worker, dir, drive, output, payload>>

\* set -e, and the three files must be there.
WorkEnds ==
  /\ step = "worker" /\ pc = "ended"
  /\ IF exit = "ok" /\ {"result.json", "timeseries.csv", "manifest.json"} \subseteq result
     THEN Succeeds("package") ELSE Fails
  /\ UNCHANGED <<worker, dir, drive, output, payload>>

\* The README is written (anew), the files are looked for once more.
CompletePackage ==
  /\ step = "package"
  /\ result' = result \cup {"README.txt"}
  /\ IF Package \subseteq result' THEN Succeeds("upload") \/ Fails ELSE Fails
  /\ UNCHANGED <<mode, pc, tries, found, selected, read, raw, exit, access>>
  /\ UNCHANGED <<dir, drive, output, payload>>

\* The script exits with 0: the package was whole and all of it is in the folder.
Verified(sent) == Package \subseteq result /\ sent = result \cup {"metadata.json"}

\* The jq test on DRIVE_FILE_IDS_JSON.
CompleteIds(sent) == Expected \cup {"metadata.json"} \subseteq sent

\* Whatever part of the package gets into the drive; the outputs are written
\* when script and test have succeeded.
Upload ==
  /\ step = "upload"
  /\ \E sent \in SUBSET (result \cup {"metadata.json"}) :
       /\ drive' = sent
       /\ \/ Verified(sent) /\ CompleteIds(sent) /\ output' = sent /\ Succeeds("cleanup")
          \/ UNCHANGED output /\ Fails
  /\ UNCHANGED <<worker, dir, payload>>

\* Variant: cleanup goes on when the removal fails.
RemoveOutputsQuietly ==
  /\ step = "cleanup"
  /\ dir' \in IF dir = "made" THEN {"made", "removed"} ELSE {dir}
  /\ Succeeds("callback")
  /\ UNCHANGED <<worker, drive, output, payload>>

\* if: always(); without a directory the step fails, as it does if rm does.
RemoveOutputs ==
  /\ step = "cleanup"
  /\ \/ dir = "made" /\ dir' = "removed" /\ Succeeds("callback")
     \/ UNCHANGED dir /\ Fails
  /\ UNCHANGED <<worker, drive, output, payload>>

\* Variant: one payload for both outcomes, with what outputs there are.
FailedPayloadWithResult ==
  [NoPayload EXCEPT !.status = "failed", !.job_id = "text", !.run_id = "text",
                    !.result_folder_id = IF output = {} THEN "absent" ELSE "text",
                    !.result_file_ids = output,
                    !.error_code = "text", !.error_message_safe = "text"]

\* A failed callback carries no result, also when one has been uploaded.
FailedPayload ==
  [NoPayload EXCEPT !.status = "failed", !.job_id = "text", !.run_id = "text",
                    !.error_code = "text", !.error_message_safe = "text"]

CompletedPayload ==
  [NoPayload EXCEPT !.status = "completed", !.job_id = "text", !.run_id = "text",
                    !.result_folder_id = "text", !.result_file_ids = output,
                    !.science_commit = "text"]

\* Variant: the step runs if: success().
ComposeIfSuccess ==
  /\ step = "callback"
  /\ IF status = "success"
     THEN step' = "posting" /\ payload' = CompletedPayload
     ELSE step' = "broken" /\ UNCHANGED payload
  /\ UNCHANGED <<worker, status, dir, drive, output>>

\* The callback step up to curl, if: always(): "completed" only if every step
\* has succeeded. jq takes no file ids that were never written.
Compose ==
  /\ step = "callback"
  /\ IF status # "success" THEN step' = "posting" /\ payload' = FailedPayload
     ELSE IF output # {} THEN step' = "posting" /\ payload' = CompletedPayload
     ELSE step' = "broken" /\ UNCHANGED payload
  /\ UNCHANGED <<worker, status, dir, drive, output>>

Post ==
  /\ step = "posting"
  /\ step' = "posted"
  /\ UNCHANGED <<worker, status, dir, drive, output, payload>>

-----------------------------------------------------------------------------
Ends == {"posted", "silent", "broken"}

\* The runner is lost; or no callback is configured, and the run says nothing;
\* or git or jq cannot be run in the callback step, which ends it (set -e).
FallSilent ==
  /\ step \notin Ends
  /\ step' = "silent"
  /\ UNCHANGED <<worker, status, dir, drive, output, payload>>

\* Variant: a run that is cancelled while it posts begins its cleanup anew.
CancelLateAnew ==
  /\ step \in {"cleanup", "callback", "posting"}
  /\ status' = "cancelled" /\ step' = "cleanup"
  /\ UNCHANGED <<worker, dir, drive, output, payload>>

\* Cancelled (or out of time) in a step with if: always(), which runs on.
CancelLate ==
  /\ step \in {"cleanup", "callback"}
  /\ status' = "cancelled" /\ UNCHANGED step
  /\ UNCHANGED <<worker, dir, drive, output, payload>>

\* Cancelled in another step, which is stopped where it is.
Cancel ==
  /\ step \in {"setup", "worker", "package", "upload"}
  /\ status' = "cancelled" /\ step' = "cleanup"
  /\ IF step = "worker" /\ dir = "made" /\ pc # "ended" THEN Kill ELSE UNCHANGED worker
  /\ IF step = "upload" THEN drive' \in SUBSET (result \cup {"metadata.json"})
     ELSE UNCHANGED drive
  /\ UNCHANGED <<dir, output, payload>>

Progress ==
  \/ SetUp \/ MakeDir \/ Work \/ WorkEnds \/ CompletePackage
  \/ Upload \/ RemoveOutputs \/ Compose \/ Post

Next == Progress \/ FallSilent \/ CancelLate \/ Cancel

Spec == Init /\ [][Next]_vars

\* GitHub runs one step after the other, and bounds the time of each job.
FairSpec == Spec /\ WF_vars(Progress)

-----------------------------------------------------------------------------
TypeOK ==
  /\ WorkerTypeOK
  /\ step \in {"setup", "worker", "package", "upload", "cleanup", "callback", "posting"} \cup Ends
  /\ status \in {"success", "failure", "cancelled"}
  /\ dir \in {"unset", "made", "removed"}
  /\ drive \subseteq Package \cup {"metadata.json"}
  /\ output \subseteq Package \cup {"metadata.json"}
  /\ payload \in {NoPayload, FailedPayload} \cup {[CompletedPayload EXCEPT !.result_file_ids = ids] :
                                                    ids \in SUBSET (Package \cup {"metadata.json"})}

\* The endpoint refuses no payload that the workflow can build: as long as
\* both hold the same secret, whatever way the run has gone.
PayloadAccepted ==
  step = "posted" =>
    \A secret \in {"", "shared", "other"} :
      LET verdict == Authenticate(secret, "", "shared")
      IN  /\ Validate(payload) = "valid"
          /\ verdict = "valid" <=> secret = "shared"

\* A completed callback names a package that is whole in the drive and that
\* get_result can deliver, from a worker that has read every product to process.
CompletedMeansWhole ==
  payload.status = "completed" =>
    /\ payload.result_file_ids = Package \cup {"metadata.json"}
    /\ GetResult(drive, payload.result_file_ids) = Expected
    /\ exit = "ok" /\ pc = "ended"
    /\ "manifest.json" \in drive /\ Processed = Range(Todo)

\* A run that reports success has left neither its directory nor a raw file on
\* the runner, although the finally block of the worker drops its errors.
CompletedLeavesNothing == payload.status = "completed" => dir = "removed" /\ raw = {}

\* A run reports, or it is silent (lost, not configured, no git or jq to write
\* the report with): no failure of a step before, no cancellation and no skipped
\* step ends it in another way.
RunReports == <>(step \in {"posted", "silent"})

\* The run of WorkflowRuns: it works, then calls with an outcome, then waits.
Seen ==
  [r \in {"run"} |->
     [state |-> CASE step = "posting" -> "calling"
                  [] step = "posted" -> "waiting"
                  [] step = "silent" -> "silent"
                  [] OTHER -> "working",
      job |-> "job",
      outcome |-> payload.status,
      attempt |-> IF step = "posted" THEN 1 ELSE 0]]

Sent ==
  IF step = "posted"
  THEN {[run |-> "run", job |-> "job", attempt |-> 1, outcome |-> payload.status]}
  ELSE {}

Run == INSTANCE WorkflowRuns WITH
  Jobs <- {"job"}, Runs <- {"run"}, None <- "none", CurlAttempts <- 1, MaxLosses <- 1,
  runs <- Seen, requests <- Sent, answers <- {}, losses <- IF step = "silent" THEN 1 ELSE 0

\* Up to its first request a run does what WorkflowRuns says, step by step.
RunSpec == [][Run!FinishWork("run") \/ Run!Post("run") \/ Run!EndSilently("run")]_(Run!workflow)
=============================================================================
