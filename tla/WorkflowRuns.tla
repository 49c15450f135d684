---------------------------- MODULE WorkflowRuns ----------------------------
(***************************************************************************)
(* Runs of .github/workflows/sarguardian-science-worker.yml as the backend *)
(* meets them: a run computes, packages and uploads (one step here), then  *)
(* its last step posts the outcome with curl --retry 3, without            *)
(* --retry-connrefused or --retry-all-errors.  That tries again after a    *)
(* timeout, a name that cannot be resolved and HTTP 408, 429 and 5xx.  A   *)
(* connection that is refused or reset, or closed without an answer, ends  *)
(* curl at once, and with it the step (set -e).                            *)
(*                                                                         *)
(* runs[r].state:                                                          *)
(*   absent    not started          accepted  answered "accepted"          *)
(*   working   computing            rejected  answered 409                 *)
(*   calling   about to post        gave_up   every attempt failed         *)
(*   waiting   attempt posted       cut_off   the connection has broken    *)
(*                                  silent    ended without a callback     *)
(***************************************************************************)
EXTENDS CallbackMessage

CONSTANT MaxLosses   \* bound on lost messages, attempts that fail although they
                     \* could still be answered, and silent ends

ASSUME LossesAssumption == MaxLosses \in Nat

VARIABLES
  runs,      \* the state of each workflow run
  requests,  \* callbacks on their way to the backend
  answers,   \* answers on their way back, [run, attempt, answer]
  losses     \* losses so far

workflow == <<runs, requests, answers, losses>>

RunStates == {"absent", "working", "calling", "waiting",
              "accepted", "rejected", "gave_up", "cut_off", "silent"}

RunRecord == [state: RunStates, job: Jobs \cup {None},
              outcome: {"none", "completed", "failed"}, attempt: 0 .. CurlAttempts]

AbsentRun == [state |-> "absent", job |-> None, outcome |-> "none", attempt |-> 0]

Message(r) == [run |-> r, job |-> runs[r].job, attempt |-> runs[r].attempt,
               outcome |-> runs[r].outcome]

WorkflowTypeOK ==
  /\ runs \in [Runs -> RunRecord]
  /\ requests \subseteq Messages
  /\ answers \subseteq Replies
  /\ losses \in 0 .. MaxLosses

WorkflowInit ==
  /\ runs = [r \in Runs |-> AbsentRun]
  /\ requests = {}
  /\ answers = {}
  /\ losses = 0

-----------------------------------------------------------------------------
\* A workflow_dispatch event for j has been accepted.
StartRun(r, j) ==
  /\ runs[r].state = "absent"
  /\ runs' = [runs EXCEPT ![r].state = "working", ![r].job = j]
  /\ UNCHANGED <<requests, answers, losses>>

\* The science, package and upload steps end; the callback step (always())
\* takes its status from job.status: "completed" only if every step succeeded.
FinishWork(r) ==
  /\ runs[r].state = "working"
  /\ \E outcome \in {"completed", "failed"} :
        runs' = [runs EXCEPT ![r].state = "calling", ![r].outcome = outcome]
  /\ UNCHANGED <<requests, answers, losses>>

\* The runner is lost, or no callback URL is configured: the run says nothing.
EndSilently(r) ==
  /\ runs[r].state \in {"working", "calling", "waiting"}
  /\ losses < MaxLosses
  /\ losses' = losses + 1
  /\ runs' = [runs EXCEPT ![r].state = "silent"]
  /\ UNCHANGED <<requests, answers>>

\* curl posts the next attempt.
Post(r) ==
  /\ runs[r].state = "calling"
  /\ runs' = [runs EXCEPT ![r].state = "waiting", ![r].attempt = @ + 1]
  /\ requests' = requests \cup {[Message(r) EXCEPT !.attempt = @ + 1]}
  /\ UNCHANGED <<answers, losses>>

LoseRequest(m) ==
  /\ m \in requests
  /\ losses < MaxLosses
  /\ losses' = losses + 1
  /\ requests' = requests \ {m}
  /\ UNCHANGED <<runs, answers>>

LoseAnswer(a) ==
  /\ a \in answers
  /\ losses < MaxLosses
  /\ losses' = losses + 1
  /\ answers' = answers \ {a}
  /\ UNCHANGED <<runs, requests>>

\* Variant: one attempt too few.
NextAttemptEarly(r) ==
  IF runs[r].attempt + 1 < CurlAttempts THEN "calling" ELSE "gave_up"

\* Variant: no --max-time, a lost attempt is waited for without end.
NextAttemptNever(r) == "waiting"

\* After an attempt that failed in a way curl retries.
NextAttempt(r) ==
  IF runs[r].attempt < CurlAttempts THEN "calling" ELSE "gave_up"

\* What the run makes of the answer to its current attempt: 2xx with status
\* "accepted" ends it well, 409 ends it (curl does not retry it), 500 is
\* retried. An answer to an attempt it no longer waits for goes nowhere.
TakeAnswer(a) ==
  /\ a \in answers
  /\ answers' = answers \ {a}
  /\ LET current == runs[a.run].state = "waiting" /\ runs[a.run].attempt = a.attempt
     IN  runs' = IF ~current THEN runs
                 ELSE [runs EXCEPT ![a.run].state =
                         CASE a.answer = "accepted" -> "accepted"
                           [] a.answer = "conflict" -> "rejected"
                           [] a.answer = "error" -> NextAttempt(a.run)]
  /\ UNCHANGED <<requests, losses>>

\* The current attempt may still be answered. "held" is the message the backend
\* is working on, if any.
Outstanding(r, held) ==
  \/ Message(r) \in requests \/ Message(r) \in held
  \/ \E a \in answers : a.run = r /\ a.attempt = runs[r].attempt

\* The current attempt ends for the run without an answer of the endpoint. If one
\* could still have come, this is a loss, and the backend may go on working on
\* what curl no longer waits for.
AttemptFails(r, next, held) ==
  /\ runs[r].state = "waiting"
  /\ runs' = [runs EXCEPT ![r].state = next]
  /\ IF Outstanding(r, held) THEN losses < MaxLosses /\ losses' = losses + 1
     ELSE UNCHANGED losses
  /\ UNCHANGED <<requests, answers>>

\* --max-time 30 has passed; or the host's proxy has answered for the backend
\* (502, 503, 504), or its name could not be resolved.
TimeOut(r, held) == AttemptFails(r, NextAttempt(r), held)

\* The connection is refused or reset, or closed without an answer: the backend
\* restarts, or dies while it holds the request.
Break(r, held) == AttemptFails(r, "cut_off", held)
=============================================================================
