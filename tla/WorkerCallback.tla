--------------------------- MODULE WorkerCallback ---------------------------
(***************************************************************************)
(* handle_worker_callback (app/worker_callback.py) beside process_job, on  *)
(* the same row.  The handler is an async function that does not await     *)
(* between its SELECT and its commit, so on the event loop two handlers    *)
(* never overlap; but the executor's threads run in between.               *)
(*                                                                         *)
(* A message has passed verify_callback_auth and                           *)
(* _validate_callback_payload.                                             *)
(***************************************************************************)
EXTENDS JobBackend, CallbackMessage

\* A request in the handler is not the absence of one.
ASSUME HandlerAssumption == None \notin [msg: Messages, loaded: Row]

VARIABLE handler   \* the request between its SELECT and its commit, or None

HandlerTypeOK == handler \in {None} \cup [msg: Messages, loaded: Row]

\* Variant: a terminal job refuses every further callback.
AnswerOfEndedRefused(m) == "conflict"

\* The job has ended: the answer without a write, "accepted" (idempotent) when
\* it ended the way the message says, 409 when it ended the other way.
AnswerOfEnded(m) == IF jobs[m.job].status = m.outcome THEN "accepted" ELSE "conflict"

CallbackOfEnded(m) ==
  /\ handler = None
  /\ jobs[m.job].status \in Terminal
  /\ UNCHANGED <<backend, handler>>

\* Variant: no check of the terminal status before the assignments.
CallbackReadAny(m) ==
  /\ handler = None
  /\ jobs[m.job].status \in Open \cup Terminal
  /\ handler' = [msg |-> m, loaded |-> jobs[m.job]]
  /\ UNCHANGED backend

\* The job is open: the handler holds the row it read.
CallbackRead(m) ==
  /\ handler = None
  /\ jobs[m.job].status \in Open
  /\ handler' = [msg |-> m, loaded |-> jobs[m.job]]
  /\ UNCHANGED backend

\* Variant: completed_at is not assigned.
CallbackWritesNoEnd(loaded, m) ==
  IF m.outcome = "completed"
  THEN [loaded EXCEPT !.status = "completed", !.result = m.run]
  ELSE [loaded EXCEPT !.status = "failed", !.error = "WORKER"]

\* Variant: result references are stored whatever the outcome.
CallbackWritesResult(loaded, m) ==
  [loaded EXCEPT !.status = m.outcome, !.completed = <<m.run, m.attempt>>,
                 !.result = m.run, !.error = IF m.outcome = "failed" THEN "WORKER" ELSE None]

\* The handler's copy after its assignments, _record_callback_metadata's too.
CallbackWrites(loaded, m) ==
  LET recorded == [loaded EXCEPT !.status = m.outcome,
                                 !.completed = <<m.run, m.attempt>>,
                                 !.metadata.worker_callback = m.run]
  IN  IF m.outcome = "completed"
      THEN [recorded EXCEPT !.result = m.run, !.error = None]
      ELSE [recorded EXCEPT !.result = None, !.error = "WORKER"]

\* db.commit, and the answer "accepted".
CallbackCommit ==
  /\ handler # None
  /\ jobs' = [jobs EXCEPT ![handler.msg.job] =
                Flush(@, handler.loaded, CallbackWrites(handler.loaded, handler.msg))]
  /\ handler' = None
  /\ UNCHANGED <<queue, task, faults>>

\* The commit raises: nothing is written and the client is answered 500.
CallbackFails ==
  /\ handler # None
  /\ faults < MaxFaults
  /\ handler' = None
  /\ faults' = faults + 1
  /\ UNCHANGED <<jobs, queue, task>>
=============================================================================
