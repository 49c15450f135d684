-------------------------- MODULE CallbackMessage --------------------------
(***************************************************************************)
(* What a workflow run posts to /worker/callback/{job_id} and what it is   *)
(* answered.  The attempt, which no payload carries, tells the copies of   *)
(* one callback apart.                                                     *)
(***************************************************************************)
EXTENDS JobRow

CONSTANT CurlAttempts   \* how often a run posts its callback (curl --retry 3: 4)

ASSUME CurlAssumption == CurlAttempts \in Nat \ {0}

Messages == [run: Runs, job: Jobs, attempt: 1 .. CurlAttempts,
             outcome: {"completed", "failed"}]

Replies == [run: Runs, attempt: 1 .. CurlAttempts,
            answer: {"accepted", "conflict", "error"}]

Reply(m, answer) == [run |-> m.run, attempt |-> m.attempt, answer |-> answer]
=============================================================================
