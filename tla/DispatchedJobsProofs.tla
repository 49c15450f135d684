------------------------ MODULE DispatchedJobsProofs ------------------------
(***************************************************************************)
(* DispatchedJobs for any number of jobs, runs, attempts, losses and       *)
(* faults.  Three invariants:                                              *)
(*                                                                         *)
(* DispatchedInv, without ambiguous or manual dispatch.  process_job and   *)
(* the callback handler both write the row from copies of their own.  They *)
(* cannot hurt each other because                                          *)
(*   - a run exists only once its task's only write left is the final      *)
(*     commit of a dispatched job, which touches no column but the         *)
(*     metadata (JobInv, FlushDispatched);                                 *)
(*   - the handler's copy, taken while the row was open, still has the     *)
(*     row's status, result, error and end time when it commits (HeldInv); *)
(*   - a job has one run, so every callback for it says the same           *)
(*     (OneRunPerJob, Genuine).                                            *)
(* ResultInv, for any dispatch: results are the handler's alone; with      *)
(* FirstInv, unless an operator dispatches, they are never replaced.       *)
(* RetryInv, for any dispatch: every failed attempt of a run is paid for.  *)
(***************************************************************************)
EXTENDS DispatchedJobs, JobBackendProofs

(***************************************************************************)
(* WorkflowRuns: every step of a run and of the network keeps the types    *)
(* and the shape of a run (how far it is decides what it knows), and no    *)
(* attempt fails for nothing.                                              *)
(***************************************************************************)
\* A run has a job once started, an outcome once it has finished its work, and
\* an attempt left when it is about to post.
Shaped(run) ==
  /\ run.state = "absent" <=> run.job = None
  /\ run.state \in {"absent", "working"} => run.outcome = "none" /\ run.attempt = 0
  /\ run.state \in {"calling", "waiting", "accepted", "rejected", "gave_up", "cut_off"} =>
       run.outcome # "none"
  /\ run.state = "calling" => run.attempt < CurlAttempts
  /\ run.state = "waiting" => run.attempt >= 1

RunsShaped == \A r \in Runs : Shaped(runs[r])

WorkflowInv == WorkflowTypeOK /\ RunsShaped

\* A step of a run or of the network, whatever message the backend holds.
RunStep(held) ==
  \/ \E r \in Runs : \/ FinishWork(r)
                     \/ EndSilently(r)
                     \/ Post(r)
                     \/ TimeOut(r, held)
                     \/ Break(r, held)
  \/ \E m \in requests : LoseRequest(m)
  \/ \E a \in answers : LoseAnswer(a) \/ TakeAnswer(a)

-----------------------------------------------------------------------------
LEMMA WorkflowInitInv == WorkflowInit => WorkflowInv
BY CurlAssumption, LossesAssumption
   DEF WorkflowInit, WorkflowInv, WorkflowTypeOK, RunsShaped, Shaped, AbsentRun,
       RunRecord, RunStates

LEMMA StartRunInv ==
  ASSUME WorkflowInv, NEW r \in Runs, NEW j \in Jobs, StartRun(r, j)
  PROVE  WorkflowInv'
<1> USE DEF WorkflowInv, WorkflowTypeOK, RunsShaped, Shaped, RunRecord, RunStates
<1>1. j # None
  BY NoneAssumption
<1> QED
  BY <1>1 DEF StartRun

LEMMA RunStepInv ==
  ASSUME WorkflowInv, NEW held, RunStep(held)
  PROVE  WorkflowInv'
<1> USE CurlAssumption, LossesAssumption
    DEF WorkflowInv, WorkflowTypeOK, RunsShaped, Shaped, RunRecord, RunStates
<1>1. ASSUME NEW r \in Runs, FinishWork(r)
      PROVE  WorkflowInv'
  BY <1>1 DEF FinishWork
<1>2. ASSUME NEW r \in Runs, EndSilently(r)
      PROVE  WorkflowInv'
  BY <1>2 DEF EndSilently
<1>3. ASSUME NEW r \in Runs, Post(r)
      PROVE  WorkflowInv'
  <2>1. runs[r].job \in Jobs /\ runs[r].outcome \in {"completed", "failed"}
        /\ runs[r].attempt + 1 \in 1 .. CurlAttempts
    BY <1>3 DEF Post
  <2>2. [Message(r) EXCEPT !.attempt = @ + 1] \in Messages
    BY <2>1 DEF Message, Messages
  <2> QED
    BY <1>3, <2>1, <2>2 DEF Post
<1>4. ASSUME NEW r \in Runs, TimeOut(r, held) \/ Break(r, held)
      PROVE  WorkflowInv'
  <2>1. PICK next \in {NextAttempt(r), "cut_off"} : AttemptFails(r, next, held)
    BY <1>4 DEF TimeOut, Break
  <2>2. losses' \in 0 .. MaxLosses /\ UNCHANGED <<requests, answers>>
    BY <2>1 DEF AttemptFails
  <2>3. runs[r].state = "waiting" /\ runs' = [runs EXCEPT ![r].state = next]
    BY <2>1 DEF AttemptFails
  <2> QED
    BY <2>1, <2>2, <2>3 DEF NextAttempt
<1>5. ASSUME NEW m \in requests, LoseRequest(m)
      PROVE  WorkflowInv'
  BY <1>5 DEF LoseRequest
<1>6. ASSUME NEW a \in answers, LoseAnswer(a)
      PROVE  WorkflowInv'
  BY <1>6 DEF LoseAnswer
<1>7. ASSUME NEW a \in answers, TakeAnswer(a)
      PROVE  WorkflowInv'
  <2>1. a.run \in Runs /\ a.answer \in {"accepted", "conflict", "error"}
    BY DEF Replies
  <2>2. \/ runs' = runs
        \/ /\ runs[a.run].state = "waiting"
           /\ \/ runs' = [runs EXCEPT ![a.run].state = "accepted"]
              \/ runs' = [runs EXCEPT ![a.run].state = "rejected"]
              \/ runs' = [runs EXCEPT ![a.run].state = "gave_up"]
              \/ /\ runs' = [runs EXCEPT ![a.run].state = "calling"]
                 /\ runs[a.run].attempt < CurlAttempts
    <3> DEFINE current == runs[a.run].state = "waiting" /\ runs[a.run].attempt = a.attempt
    <3>1. CASE ~current
      BY <1>7, <3>1 DEF TakeAnswer
    <3>2. CASE current /\ a.answer = "accepted"
      BY <1>7, <3>2 DEF TakeAnswer
    <3>3. CASE current /\ a.answer = "conflict"
      BY <1>7, <3>3 DEF TakeAnswer
    <3>4. CASE current /\ a.answer = "error"
      BY <1>7, <3>4 DEF TakeAnswer, NextAttempt
    <3> QED
      BY <2>1, <3>1, <3>2, <3>3, <3>4
  <2>3. runs' \in [Runs -> RunRecord] /\ RunsShaped'
    BY <2>1, <2>2
  <2> QED
    BY <1>7, <2>3 DEF TakeAnswer
<1> QED
  BY <1>1, <1>2, <1>3, <1>4, <1>5, <1>6, <1>7
     DEF RunStep

-----------------------------------------------------------------------------
(***************************************************************************)
(* What an attempt costs.  "held" is the message the backend works on and  *)
(* "spent" the losses and faults so far.                                   *)
(***************************************************************************)
\* A message or an answer belongs to an attempt of a run.
SameAttempt(m, a) == m.run = a.run /\ m.attempt = a.attempt

\* An attempt that has been made is in one place only: on its way, with the
\* backend, answered once, or gone.
Apart(held) ==
  /\ \A m \in requests \cup held : m.attempt <= runs[m.run].attempt
  /\ \A a \in answers : a.attempt <= runs[a.run].attempt
  /\ requests \cap held = {}
  /\ \A m, n \in requests \cup held : SameAttempt(m, n) => m = n
  /\ \A m \in requests \cup held, a \in answers : ~SameAttempt(m, a)
  /\ \A a, b \in answers : SameAttempt(a, b) => a = b

\* The current attempt of r may still bring an answer that ends the run.
Hopeful(r, held) ==
  \/ Message(r) \in requests \cup held
  \/ \E a \in answers : SameAttempt(a, Message(r)) /\ a.answer # "error"

\* Every attempt of r that failed, and the current one if it can only fail, has
\* been paid for.
Paid(r, held, spent) ==
  /\ runs[r].state \in {"calling", "gave_up", "cut_off"} => runs[r].attempt <= spent
  /\ runs[r].state = "waiting" =>
       runs[r].attempt <= IF Hopeful(r, held) THEN spent + 1 ELSE spent
  /\ runs[r].state = "gave_up" => runs[r].attempt = CurlAttempts

\* A step of a run or of the network keeps every attempt in one place and every
\* failed one paid for.
LEMMA RunStepRetries ==
  ASSUME WorkflowInv, WorkflowInv', NEW held, held \subseteq Messages,
         NEW fault \in Nat,
         Apart(held), \A r \in Runs : Paid(r, held, losses + fault),
         RunStep(held)
  PROVE  Apart(held)' /\ \A r \in Runs : Paid(r, held, losses + fault)'
<1> DEFINE Kept == Apart(held)' /\ \A r \in Runs : Paid(r, held, losses + fault)'
<1>0. /\ runs \in [Runs -> RunRecord] /\ runs' \in [Runs -> RunRecord]
      /\ requests \subseteq Messages /\ answers \subseteq Replies
      /\ losses \in Nat /\ \A r \in Runs : Shaped(runs[r])
      /\ \A r \in Runs : runs[r].attempt \in Nat
      /\ \A m \in requests \cup held : m.run \in Runs /\ m.attempt \in Nat
      /\ \A a \in answers : a.run \in Runs /\ a.attempt \in Nat
  BY LossesAssumption DEF WorkflowInv, WorkflowTypeOK, RunsShaped, RunRecord, Messages, Replies
<1>n. ASSUME NEW r \in Runs, runs'[r].attempt = runs[r].attempt,
             runs'[r].state = NextAttempt(r), runs[r].attempt <= losses' + fault
      PROVE  Paid(r, held, losses + fault)'
  <2>1. runs[r].attempt \in 0 .. CurlAttempts
    BY <1>0 DEF RunRecord
  <2>2. CASE runs[r].attempt < CurlAttempts
    BY <1>n, <2>2 DEF Paid, NextAttempt
  <2>3. CASE runs[r].attempt = CurlAttempts
    BY <1>n, <2>3, CurlAssumption DEF Paid, NextAttempt
  <2> QED
    BY <2>1, <2>2, <2>3, CurlAssumption
<1>1. ASSUME NEW r \in Runs, FinishWork(r)
      PROVE  Kept
  <2>1. PICK outcome \in {"completed", "failed"} :
          runs' = [runs EXCEPT ![r].state = "calling", ![r].outcome = outcome]
    BY <1>1 DEF FinishWork
  <2>2. /\ runs'[r].state = "calling" /\ runs'[r].attempt = 0
        /\ \A s \in Runs : s # r => runs'[s] = runs[s]
        /\ \A s \in Runs : runs'[s].attempt = runs[s].attempt
        /\ UNCHANGED <<requests, answers, losses>>
    BY <1>0, <1>1, <2>1 DEF FinishWork, Shaped, RunRecord
  <2>3. Apart(held)'
    BY <1>0, <2>2 DEF Apart, SameAttempt
  <2>4. \A s \in Runs : Paid(s, held, losses + fault)'
    BY <1>0, <2>2 DEF Paid, Hopeful, Message, SameAttempt
  <2> QED
    BY <2>3, <2>4
<1>2. ASSUME NEW r \in Runs, EndSilently(r)
      PROVE  Kept
  <2>1. /\ runs'[r].state = "silent" /\ losses' = losses + 1
        /\ \A s \in Runs : s # r => runs'[s] = runs[s]
        /\ \A s \in Runs : runs'[s].attempt = runs[s].attempt
        /\ UNCHANGED <<requests, answers>>
    BY <1>0, <1>2 DEF EndSilently, RunRecord
  <2>2. Apart(held)'
    BY <1>0, <2>1 DEF Apart, SameAttempt
  <2>3. \A s \in Runs : Paid(s, held, losses + fault)'
    BY <1>0, <2>1 DEF Paid
  <2> QED
    BY <2>2, <2>3
<1>3. ASSUME NEW r \in Runs, Post(r)
      PROVE  Kept
  <2> DEFINE m == [Message(r) EXCEPT !.attempt = @ + 1]
  <2>1. /\ runs'[r].state = "waiting" /\ runs'[r].attempt = runs[r].attempt + 1
        /\ runs'[r].job = runs[r].job /\ runs'[r].outcome = runs[r].outcome
        /\ \A s \in Runs : s # r => runs'[s] = runs[s]
        /\ requests' = requests \cup {m} /\ UNCHANGED <<answers, losses>>
    BY <1>0, <1>3 DEF Post, RunRecord
  <2>2. /\ m.run = r /\ m.attempt = runs[r].attempt + 1 /\ m = Message(r)'
    BY <1>0, <2>1 DEF Message
  <2>3. /\ \A n \in requests \cup held : ~SameAttempt(m, n) /\ ~SameAttempt(n, m)
        /\ \A a \in answers : ~SameAttempt(m, a)
    BY <1>0, <2>2 DEF Apart, SameAttempt
  <2>4. m \notin held
    BY <2>3 DEF SameAttempt
  <2>5. /\ \A n \in requests' \cup held : n.attempt <= runs'[n.run].attempt
        /\ \A a \in answers : a.attempt <= runs'[a.run].attempt
    <3>1. \A s \in Runs : runs[s].attempt <= runs'[s].attempt /\ runs'[s].attempt \in Nat
      BY <1>0, <2>1
    <3>2. /\ \A n \in requests \cup held : n.attempt <= runs[n.run].attempt
          /\ \A a \in answers : a.attempt <= runs[a.run].attempt
      BY DEF Apart
    <3>3. m.attempt <= runs'[m.run].attempt
      BY <1>0, <2>1, <2>2
    <3>4. ASSUME NEW n \in requests \cup held
          PROVE  n.attempt <= runs'[n.run].attempt
      BY <1>0, <3>1, <3>2
    <3>5. ASSUME NEW a \in answers
          PROVE  a.attempt <= runs'[a.run].attempt
      BY <1>0, <3>1, <3>2
    <3> HIDE DEF m
    <3> QED
      BY <2>1, <3>3, <3>4, <3>5
  <2>6. Apart(held)'
    BY <2>1, <2>3, <2>4, <2>5 DEF Apart, SameAttempt
  <2>7. Paid(r, held, losses + fault)'
    BY <1>0, <1>3, <2>1, <2>2 DEF Post, Paid, Hopeful
  <2>8. \A s \in Runs : s # r => Paid(s, held, losses + fault)'
    BY <1>0, <2>1 DEF Paid, Hopeful, Message, SameAttempt
  <2> QED
    BY <2>6, <2>7, <2>8
<1>4. ASSUME NEW r \in Runs, TimeOut(r, held) \/ Break(r, held)
      PROVE  Kept
  <2>0. PICK next \in {NextAttempt(r), "cut_off"} : AttemptFails(r, next, held)
    BY <1>4 DEF TimeOut, Break
  <2>1. /\ runs[r].state = "waiting" /\ runs'[r].state = next
        /\ \A s \in Runs : s # r => runs'[s] = runs[s]
        /\ \A s \in Runs : runs'[s].attempt = runs[s].attempt
        /\ losses' \in Nat /\ losses <= losses'
        /\ UNCHANGED <<requests, answers>>
    BY <1>0, <2>0 DEF AttemptFails, RunRecord
  <2>2. Apart(held)'
    BY <1>0, <2>1 DEF Apart, SameAttempt
  <2>3. runs[r].attempt <= losses' + fault
    <3>1. CASE Outstanding(r, held)
      <4>1. losses' = losses + 1
        BY <2>0, <3>1 DEF AttemptFails
      <4>2. runs[r].attempt <= losses + fault + 1
        BY <1>0, <2>1 DEF Paid
      <4> QED
        BY <1>0, <4>1, <4>2
    <3>2. CASE ~Outstanding(r, held)
      <4>1. losses' = losses
        BY <2>0, <3>2 DEF AttemptFails
      <4>2. ~Hopeful(r, held)
        BY <3>2 DEF Outstanding, Hopeful, SameAttempt, Message
      <4> QED
        BY <2>1, <4>1, <4>2 DEF Paid
    <3> QED
      BY <3>1, <3>2
  <2>4. Paid(r, held, losses + fault)'
    <3>1. CASE next = NextAttempt(r)
      BY <1>n, <2>1, <2>3, <3>1
    <3>2. CASE next = "cut_off"
      BY <2>1, <2>3, <3>2 DEF Paid
    <3> QED
      BY <3>1, <3>2
  <2>5. \A s \in Runs : s # r => Paid(s, held, losses + fault)'
    BY <1>0, <2>1 DEF Paid, Hopeful, Message, SameAttempt
  <2> QED
    BY <2>2, <2>4, <2>5
<1>5. ASSUME NEW m \in requests, LoseRequest(m)
      PROVE  Kept
  BY <1>0, <1>5 DEF LoseRequest, Apart, SameAttempt, Paid
<1>6. ASSUME NEW a \in answers, LoseAnswer(a)
      PROVE  Kept
  BY <1>0, <1>6 DEF LoseAnswer, Apart, SameAttempt, Paid
<1>7. ASSUME NEW a \in answers, TakeAnswer(a)
      PROVE  Kept
  <2> DEFINE r == a.run
             current == runs[r].state = "waiting" /\ runs[r].attempt = a.attempt
  <2>1. /\ answers' = answers \ {a} /\ UNCHANGED <<requests, losses>>
        /\ \A s \in Runs : s # r => runs'[s] = runs[s]
        /\ \A s \in Runs : /\ runs'[s].attempt = runs[s].attempt
                           /\ runs'[s].job = runs[s].job
                           /\ runs'[s].outcome = runs[s].outcome
        /\ r \in Runs /\ a.answer \in {"accepted", "conflict", "error"}
        /\ ~current => runs' = runs
        /\ current => runs'[r].state = CASE a.answer = "accepted" -> "accepted"
                                         [] a.answer = "conflict" -> "rejected"
                                         [] a.answer = "error" -> NextAttempt(r)
    BY <1>0, <1>7 DEF TakeAnswer, RunRecord, Replies
  <2>2. Apart(held)'
    BY <1>0, <2>1 DEF Apart, SameAttempt
  <2>3. ASSUME NEW s \in Runs, s # r \/ ~current
        PROVE  Paid(s, held, losses + fault)'
    <3>1. runs'[s] = runs[s] /\ Message(s)' = Message(s)
      BY <2>1, <2>3 DEF Message
    <3>2. runs[s].state = "waiting" => ~SameAttempt(a, Message(s))
      BY <2>3 DEF SameAttempt, Message
    <3>3. runs[s].state = "waiting" /\ Hopeful(s, held) => Hopeful(s, held)'
      BY <2>1, <3>1, <3>2 DEF Hopeful
    <3> QED
      BY <1>0, <2>1, <3>1, <3>3 DEF Paid
  <2>4. CASE current /\ a.answer = "error"
    <3>1. ~Hopeful(r, held)
      BY <2>1, <2>4 DEF Apart, Hopeful, SameAttempt, Message
    <3>2. Paid(r, held, losses + fault)'
      <4>1. runs[r].attempt <= losses + fault /\ runs'[r].state = NextAttempt(r)
        BY <2>1, <2>4, <3>1 DEF Paid
      <4> QED
        BY <1>n, <2>1, <4>1
    <3> QED
      BY <2>2, <2>3, <3>2
  <2>5. CASE current /\ a.answer # "error"
    <3>1. Paid(r, held, losses + fault)'
      BY <2>1, <2>5 DEF Paid
    <3> QED
      BY <2>2, <2>3, <3>1
  <2> QED
    BY <2>2, <2>3, <2>4, <2>5
<1> QED
  BY <1>1, <1>2, <1>3, <1>4, <1>5, <1>6, <1>7 DEF RunStep

-----------------------------------------------------------------------------
(***************************************************************************)
(* The row, its two writers and the runs, if dispatches are unambiguous    *)
(***************************************************************************)
NoRun(j) == \A r \in Runs : runs[r].job # j

\* The row and the runs of a job, by the progress of its task.
JobInv(j) ==
  /\ task[j].pc = "idle" => jobs[j] = NoRow
  /\ task[j].pc \in {"inserted", "queued"} => jobs[j] = QueuedRow
  /\ task[j].pc = "loaded" => jobs[j] = QueuedRow /\ task[j].loaded = QueuedRow
  /\ task[j].pc \in {"running", "cli"} =>
       jobs[j] = ProcessingRow /\ task[j].loaded = ProcessingRow
  /\ task[j].pc # "uploading"
  /\ task[j].pc = "final" =>
       /\ task[j].loaded = ProcessingRow
       /\ \/ task[j].verdict \in {"api", "cli"} /\ ~NoRun(j)
          \/ task[j].verdict \in Errors /\ NoRun(j) /\ jobs[j] = ProcessingRow
  /\ task[j].pc \in {"final", "done"} => jobs[j].status # "absent"
  /\ task[j].pc \notin {"final", "done"} => NoRun(j)
  /\ task[j].pc = "done" /\ faults = 0 => jobs[j].status \in Terminal \/ ~NoRun(j)
  /\ Consistent(jobs[j])

\* An ended job with a run says what the run said.
Told(r) ==
  LET row == jobs[runs[r].job]
  IN  /\ row.status = runs[r].outcome
      /\ row.result = IF row.status = "completed" THEN r ELSE None

RunInv(r) ==
  /\ runs[r].state # "rejected"
  /\ runs[r].state = "accepted" => jobs[runs[r].job].status \in Terminal
  /\ runs[r].job \in Jobs /\ jobs[runs[r].job].status \in Terminal => Told(r)

\* A message says what its run would say.
Genuine(m) == runs[m.run].job = m.job /\ runs[m.run].outcome = m.outcome

RequestInv == \A m \in requests : Genuine(m)

AnswerInv ==
  \A a \in answers :
    /\ a.answer # "conflict"
    /\ a.answer = "accepted" =>
         runs[a.run].job \in Jobs /\ jobs[runs[a.run].job].status \in Terminal

SameOutcome(row, other) ==
  /\ row.status = other.status
  /\ row.result = other.result
  /\ row.error = other.error
  /\ row.completed = other.completed

\* The row the handler holds is open and agrees with the table.
HeldInv ==
  handler # None =>
    /\ Genuine(handler.msg)
    /\ SameOutcome(jobs[handler.msg.job], handler.loaded)
    /\ handler.loaded.status \in Open

RunsInv == (\A r \in Runs : RunInv(r)) /\ RequestInv /\ AnswerInv /\ HeldInv

Types == BackendTypeOK /\ Judged /\ QueueInv /\ HandlerTypeOK /\ WorkflowInv

DispatchedInv ==
  /\ Types
  /\ OneRunPerJob
  /\ \A j \in Jobs : JobInv(j)
  /\ RunsInv

-----------------------------------------------------------------------------
\* The final commit of a dispatched job changes nothing but the metadata.
LEMMA FlushDispatched ==
  ASSUME NEW row \in Row, NEW v \in {"api", "cli"}
  PROVE  LET new == Flush(row, ProcessingRow, WorkerWrites(ProcessingRow, v))
         IN  new \in Row /\ SameOutcome(row, new) /\ new = [row EXCEPT !.metadata = new.metadata]
<1> DEFINE wanted == WorkerWrites(ProcessingRow, v)
           new == Flush(row, ProcessingRow, wanted)
<1>1. /\ wanted.status = ProcessingRow.status
      /\ wanted.started = ProcessingRow.started
      /\ wanted.completed = ProcessingRow.completed
      /\ wanted.result = ProcessingRow.result
      /\ wanted.error = ProcessingRow.error
  BY DEF WorkerWrites, ProcessingRow, QueuedRow, NoRow
<1>2. wanted \in Row
  BY WorkerWritesType, RowConstants DEF Verdicts
<1>3. new \in Row
  BY <1>2, FlushType, RowConstants
<1>4. /\ new.status = row.status /\ new.started = row.started
      /\ new.completed = row.completed /\ new.result = row.result /\ new.error = row.error
  BY <1>1 DEF Flush
<1>5. new = [row EXCEPT !.metadata = new.metadata]
  BY <1>3, <1>4 DEF Row
<1> QED
  BY <1>3, <1>4, <1>5 DEF SameOutcome

\* The handler's assignments turn a row into a row.
LEMMA CallbackWritesType ==
  ASSUME NEW loaded \in Row, NEW m \in Messages
  PROVE  CallbackWrites(loaded, m) \in Row
<1>1. <<m.run, m.attempt>> \in Stamp /\ m.run \in Runs
  BY CurlAssumption DEF Messages, Stamp, Writes
<1> QED
  BY <1>1 DEF CallbackWrites, Row, Status, Metadata, Messages, Errors

\* A callback committed on an open row whose outcome the handler still knows
\* ends the job as the message says.
LEMMA FlushCallback ==
  ASSUME NEW row \in Row, NEW loaded \in Row, NEW m \in Messages,
         SameOutcome(row, loaded), loaded.status \in Open, Consistent(row)
  PROVE  LET new == Flush(row, loaded, CallbackWrites(loaded, m))
         IN  /\ new \in Row /\ Consistent(new)
             /\ new.status = m.outcome
             /\ new.result = IF m.outcome = "completed" THEN m.run ELSE None
             /\ new.error = IF m.outcome = "completed" THEN None ELSE "WORKER"
<1> DEFINE wanted == CallbackWrites(loaded, m)
           new == Flush(row, loaded, wanted)
<1>1. /\ m.run \in Runs /\ m.run # None /\ m.outcome \in {"completed", "failed"}
      /\ <<m.run, m.attempt>> # None /\ "WORKER" # None
  BY NoneAssumption, CurlAssumption DEF Messages, Writes, Errors
<1>2. loaded.result = None /\ loaded.error = None /\ loaded.completed = None
  BY DEF SameOutcome, Consistent, Open, Terminal
<1>3. new \in Row
  BY CallbackWritesType, FlushType
<1>4. /\ wanted.status = m.outcome
      /\ wanted.completed = <<m.run, m.attempt>>
      /\ wanted.result = IF m.outcome = "completed" THEN m.run ELSE None
      /\ wanted.error = IF m.outcome = "completed" THEN None ELSE "WORKER"
  BY <1>1 DEF CallbackWrites, Row
<1>5. /\ new.status = m.outcome
      /\ new.completed = <<m.run, m.attempt>>
      /\ new.result = IF m.outcome = "completed" THEN m.run ELSE None
      /\ new.error = IF m.outcome = "completed" THEN None ELSE "WORKER"
  BY <1>1, <1>2, <1>4 DEF Flush, SameOutcome, Open
<1> QED
  BY <1>1, <1>3, <1>5 DEF Consistent, Terminal
-----------------------------------------------------------------------------
\* The rows before a dispatch.
LEMMA EarlyRows ==
  /\ NoRow.status = "absent" /\ Consistent(NoRow)
  /\ QueuedRow.status = "queued" /\ Consistent(QueuedRow)
  /\ ProcessingRow.status = "processing" /\ Consistent(ProcessingRow)
  /\ ProcessingRow.result = None /\ ProcessingRow.error = None
BY DEF NoRow, QueuedRow, ProcessingRow, Consistent, Terminal

\* A step that leaves runs, messages and handler alone, and the outcome of
\* every job that has a run, keeps what they say of each other.
LEMMA RunsFrame ==
  ASSUME Types, RunsInv, UNCHANGED <<handler, workflow>>,
         \A r \in Runs : runs[r].job \in Jobs =>
           SameOutcome(jobs[runs[r].job], jobs'[runs[r].job])
  PROVE  RunsInv'
<1> USE DEF Types, RunsInv, WorkflowInv, WorkflowTypeOK, HandlerTypeOK, workflow
<1>1. \A r \in Runs : runs[r].state = "accepted" => runs[r].job \in Jobs
  BY DEF RunsShaped, Shaped, RunRecord
<1>2. \A r \in Runs : RunInv(r)'
  BY <1>1 DEF RunInv, Told, SameOutcome
<1>3. RequestInv'
  BY DEF RequestInv, Genuine
<1>4. AnswerInv'
  BY DEF AnswerInv, SameOutcome, Replies
<1>5. HeldInv'
  BY DEF HeldInv, Genuine, SameOutcome, Messages
<1> QED
  BY <1>2, <1>3, <1>4, <1>5

\* Only runs of Jobs have a job, and a job without runs has no row to lose.
LEMMA RunsElsewhere ==
  ASSUME NEW j \in Jobs, NoRun(j), NEW row, jobs' = [jobs EXCEPT ![j] = row],
         jobs \in [Jobs -> Row]
  PROVE  \A r \in Runs : runs[r].job \in Jobs =>
           SameOutcome(jobs[runs[r].job], jobs'[runs[r].job])
BY DEF NoRun, SameOutcome

LEMMA DispatchedInit == Init => DispatchedInv
<1> SUFFICES ASSUME Init PROVE DispatchedInv
  OBVIOUS
<1>1. Types
  BY BackendInitType, BackendInitQueue, WorkflowInitInv DEF Init, Types, HandlerTypeOK
<1>2. \A r \in Runs : runs[r].state = "absent" /\ runs[r].job = None /\ None \notin Jobs
  BY NoneAssumption DEF Init, WorkflowInit, AbsentRun
<1>3. OneRunPerJob
  BY <1>2 DEF OneRunPerJob, RunsOf
<1>4. \A j \in Jobs : JobInv(j)
  BY <1>2, EarlyRows DEF Init, BackendInit, JobInv, IdleTask, NoRun
<1>5. RunsInv
  BY <1>2 DEF Init, WorkflowInit, RunsInv, RunInv, RequestInv, AnswerInv, HeldInv
<1> QED
  BY <1>1, <1>3, <1>4, <1>5 DEF DispatchedInv

-----------------------------------------------------------------------------
\* The steps of the backend that need no verdict.
LEMMA BackendKeeps ==
  ASSUME DispatchedInv, BackendStep, UNCHANGED <<handler, workflow>>
  PROVE  DispatchedInv'
<1> USE DEF DispatchedInv
<1>0. BackendTypeOK /\ Judged /\ QueueInv /\ HandlerTypeOK /\ WorkflowInv
  BY DEF Types
<1>1. Types'
  <2>1. BackendTypeOK' /\ Judged' /\ QueueInv'
    BY <1>0, BackendStepType, BackendQueueStep
  <2>2. HandlerTypeOK' /\ WorkflowInv'
    BY <1>0 DEF HandlerTypeOK, WorkflowInv, WorkflowTypeOK, RunsShaped, workflow
  <2> QED
    BY <2>1, <2>2 DEF Types
<1>2. OneRunPerJob'
  BY DEF OneRunPerJob, RunsOf, workflow
<1>3. \A j \in Jobs : NoRun(j)' <=> NoRun(j)
  BY DEF NoRun, workflow
<1>4. CASE LoadJob
  <2>1. Head(queue) = queue[1] /\ 1 \in 1 .. Len(queue) /\ queue[1] \in Jobs
    BY <1>0, <1>4 DEF LoadJob, BackendTypeOK
  <2>2. task[Head(queue)].pc = "queued"
    BY <1>0, <2>1 DEF QueueInv
  <2>3. \A j \in Jobs : JobInv(j)'
    BY <1>0, <1>3, <1>4, <2>1, <2>2 DEF LoadJob, BackendTypeOK, JobInv
  <2>4. RunsInv'
    BY <1>4, RunsFrame DEF LoadJob, SameOutcome
  <2> QED
    BY <1>1, <1>2, <2>3, <2>4
<1>5. ASSUME NEW j \in Jobs, CreateJob(j)
      PROVE  DispatchedInv'
  <2>1. \A k \in Jobs : JobInv(k)'
    BY <1>0, <1>3, <1>5, EarlyRows DEF CreateJob, BackendTypeOK, JobInv
  <2>2. NoRun(j)
    BY <1>5 DEF CreateJob, JobInv
  <2>3. RunsInv'
    BY <1>0, <1>5, <2>2, RunsElsewhere, RunsFrame DEF CreateJob, BackendTypeOK
  <2> QED
    BY <1>1, <1>2, <2>1, <2>3
<1>6. ASSUME NEW j \in Jobs, SubmitJob(j)
      PROVE  DispatchedInv'
  <2>1. \A k \in Jobs : JobInv(k)'
    BY <1>0, <1>3, <1>6 DEF SubmitJob, BackendTypeOK, JobInv
  <2>2. RunsInv'
    BY <1>6, RunsFrame DEF SubmitJob, SameOutcome
  <2> QED
    BY <1>1, <1>2, <2>1, <2>2
<1>7. ASSUME NEW j \in Jobs, MarkProcessing(j)
      PROVE  DispatchedInv'
  <2>1. jobs[j] = QueuedRow /\ task[j].loaded = QueuedRow /\ NoRun(j)
    BY <1>7 DEF MarkProcessing, JobInv
  <2>2. Flush(QueuedRow, QueuedRow, ProcessingRow) = ProcessingRow
    BY FlushCurrent, RowConstants
  <2>3. jobs' = [jobs EXCEPT ![j] = ProcessingRow]
    BY <1>7, <2>1, <2>2 DEF MarkProcessing, ProcessingRow
  <2>4. task' = [task EXCEPT ![j].pc = "running", ![j].loaded = ProcessingRow]
        /\ faults' = faults
    BY <1>7, <2>1 DEF MarkProcessing, ProcessingRow
  <2>5. \A k \in Jobs : JobInv(k)'
    BY <1>0, <1>3, <2>1, <2>3, <2>4, EarlyRows DEF BackendTypeOK, JobInv
  <2>6. RunsInv'
    BY <1>0, <2>1, <2>3, RunsElsewhere, RunsFrame DEF BackendTypeOK
  <2> QED
    BY <1>1, <1>2, <2>5, <2>6
<1>8. ASSUME NEW j \in Jobs, Finish(j), task[j].verdict \in Errors
      PROVE  DispatchedInv'
  <2> DEFINE last == WorkerWrites(ProcessingRow, task[j].verdict)
  <2>1. jobs[j] = ProcessingRow /\ task[j].loaded = ProcessingRow /\ NoRun(j)
    BY <1>8 DEF Finish, JobInv, Errors
  <2>2. last \in Row
    BY <1>8, WorkerWritesType, RowConstants DEF Verdicts, Errors
  <2>3. jobs' = [jobs EXCEPT ![j] = last] /\ task' = [task EXCEPT ![j].pc = "done"]
        /\ faults' = faults
    BY <1>8, <2>1, <2>2, FlushCurrent, RowConstants DEF Finish
  <2>4. Consistent(last) /\ last.status = "failed"
    BY <1>8, WorkerWritesConsistent DEF Errors
  <2>5. \A k \in Jobs : JobInv(k)'
    BY <1>0, <1>3, <2>3, <2>4 DEF BackendTypeOK, JobInv, Terminal
  <2>6. RunsInv'
    BY <1>0, <2>1, <2>3, RunsElsewhere, RunsFrame DEF BackendTypeOK
  <2> QED
    BY <1>1, <1>2, <2>5, <2>6
<1>9. ASSUME NEW j \in Jobs, Finish(j), task[j].verdict \notin Errors
      PROVE  DispatchedInv'
  <2> DEFINE last == WorkerWrites(ProcessingRow, task[j].verdict)
             new == Flush(jobs[j], ProcessingRow, last)
  <2>1. task[j].loaded = ProcessingRow /\ task[j].verdict \in {"api", "cli"} /\ ~NoRun(j)
        /\ jobs[j].status # "absent" /\ Consistent(jobs[j])
    BY <1>9 DEF Finish, JobInv
  <2>2. new \in Row /\ SameOutcome(jobs[j], new)
    BY <1>0, <2>1, FlushDispatched DEF BackendTypeOK
  <2>3. jobs' = [jobs EXCEPT ![j] = new] /\ task' = [task EXCEPT ![j].pc = "done"]
        /\ faults' = faults
    BY <1>9, <2>1 DEF Finish
  <2>4. Consistent(new) /\ new.status # "absent"
    BY <2>1, <2>2 DEF SameOutcome, Consistent
  <2>5. \A k \in Jobs : JobInv(k)'
    BY <1>0, <1>3, <2>1, <2>3, <2>4 DEF BackendTypeOK, JobInv
  <2>6. \A k \in Jobs : SameOutcome(jobs[k], jobs'[k])
    BY <1>0, <2>2, <2>3 DEF BackendTypeOK, SameOutcome
  <2>7. RunsInv'
    BY <2>6, RunsFrame
  <2> QED
    BY <1>1, <1>2, <2>5, <2>7
<1>10. ASSUME NEW j \in Jobs, Abort(j)
       PROVE  DispatchedInv'
  <2>1. \A k \in Jobs : JobInv(k)'
    BY <1>0, <1>3, <1>10, EarlyRows DEF Abort, BackendTypeOK, JobInv
  <2>2. RunsInv'
    BY <1>10, RunsFrame DEF Abort, SameOutcome
  <2> QED
    BY <1>1, <1>2, <2>1, <2>2
<1> QED
  BY <1>4, <1>5, <1>6, <1>7, <1>8, <1>9, <1>10 DEF BackendStep
-----------------------------------------------------------------------------
\* A run that starts for a job without runs is its only one, and no message is
\* about it yet.
LEMMA StartKeeps ==
  ASSUME DispatchedInv, NEW r \in Runs, NEW j \in Jobs, StartRun(r, j), NoRun(j),
         jobs[j] = ProcessingRow, UNCHANGED <<jobs, handler>>
  PROVE  OneRunPerJob' /\ RunsInv'
<1> USE DEF DispatchedInv, Types, WorkflowInv, WorkflowTypeOK
<1>1. /\ runs[r].state = "absent" /\ runs[r].job = None /\ j # None
      /\ runs' = [runs EXCEPT ![r].state = "working", ![r].job = j]
      /\ UNCHANGED <<requests, answers>>
  BY NoneAssumption DEF StartRun, RunsShaped, Shaped
<1>2. runs'[r].job = j /\ runs'[r].state = "working"
      /\ \A s \in Runs \ {r} : runs'[s] = runs[s] /\ runs[s].job # j
  BY <1>1 DEF NoRun, RunRecord
<1>3. OneRunPerJob'
  BY <1>2 DEF OneRunPerJob, RunsOf
<1>4. \A s \in Runs : RunInv(s)'
  BY <1>2, EarlyRows DEF RunsInv, RunInv, Told, Terminal
<1>5. \A m \in Messages : Genuine(m) => m.run # r /\ Genuine(m)'
  BY <1>1, <1>2, NoneAssumption DEF Genuine, Messages
<1>6. RequestInv' /\ HeldInv'
  BY <1>1, <1>5 DEF RunsInv, RequestInv, HeldInv, HandlerTypeOK
<1>7. AnswerInv'
  BY <1>1, <1>2, NoneAssumption DEF RunsInv, AnswerInv, Replies
<1> QED
  BY <1>3, <1>4, <1>6, <1>7 DEF RunsInv

\* The steps of a dispatch, when none is ambiguous.
LEMMA DispatchKeeps ==
  ASSUME DispatchedInv, Quiet, NEW j \in Jobs,
         RejectInputs(j) \/ DispatchApi(j) \/ DispatchCli(j)
  PROVE  DispatchedInv'
<1> USE DEF DispatchedInv
<1>0. BackendTypeOK /\ Judged /\ QueueInv /\ HandlerTypeOK /\ WorkflowInv
  BY DEF Types
<1>1. /\ task[j].pc \in {"running", "cli"} /\ UNCHANGED <<jobs, queue, faults, handler>>
      /\ jobs[j] = ProcessingRow /\ task[j].loaded = ProcessingRow /\ NoRun(j)
  BY DEF RejectInputs, DispatchApi, DispatchCli, JobInv
<1>2. \/ /\ \E r \in Runs : StartRun(r, j)
         /\ \E v \in {"api", "cli"} :
              task' = [task EXCEPT ![j].pc = "final", ![j].verdict = v]
      \/ /\ UNCHANGED workflow
         /\ \E e \in Errors : task' = [task EXCEPT ![j].pc = "final", ![j].verdict = e]
      \/ UNCHANGED workflow /\ task' = [task EXCEPT ![j].pc = "cli"]
  BY DEF RejectInputs, DispatchApi, DispatchCli, Conclude, Quiet, Errors
<1>3. BackendTypeOK' /\ Judged'
  BY <1>0, <1>1, <1>2 DEF BackendTypeOK, Judged, PCs, Busy, Verdicts, Errors
<1>4. QueueInv'
  <2>1. \A k \in Jobs : task[k].pc = "queued" => task'[k].pc = "queued"
    BY <1>0, <1>1, <1>2 DEF BackendTypeOK
  <2>2. \A i \in 1 .. Len(queue) : queue[i] \in Jobs
    BY <1>0 DEF BackendTypeOK
  <2> QED
    BY <1>0, <1>1, <2>1, <2>2 DEF QueueInv
<1>5. HandlerTypeOK' /\ WorkflowInv'
  <2>1. HandlerTypeOK'
    BY <1>0, <1>1 DEF HandlerTypeOK
  <2>2. CASE UNCHANGED workflow
    BY <1>0, <2>1, <2>2 DEF WorkflowInv, WorkflowTypeOK, RunsShaped, workflow
  <2>3. CASE \E r \in Runs : StartRun(r, j)
    BY <1>0, <2>1, <2>3, StartRunInv
  <2> QED
    BY <1>2, <2>2, <2>3
<1>6. Types'
  BY <1>3, <1>4, <1>5 DEF Types
<1>7. CASE UNCHANGED workflow
  <2>1. \A k \in Jobs : NoRun(k)' <=> NoRun(k)
    BY <1>7 DEF NoRun, workflow
  <2>2. \/ \E e \in Errors : task' = [task EXCEPT ![j].pc = "final", ![j].verdict = e]
        \/ task' = [task EXCEPT ![j].pc = "cli"]
    <3>1. ASSUME NEW r \in Runs, StartRun(r, j) PROVE FALSE
      BY <1>0, <1>7, <3>1 DEF StartRun, workflow, WorkflowInv, WorkflowTypeOK, RunRecord
    <3> QED
      BY <1>2, <3>1
  <2>3. \A k \in Jobs : JobInv(k)'
    BY <1>0, <1>1, <2>1, <2>2, EarlyRows DEF BackendTypeOK, JobInv
  <2>4. RunsInv'
    BY <1>1, <1>7, RunsFrame DEF SameOutcome
  <2>5. OneRunPerJob'
    BY <1>7 DEF OneRunPerJob, RunsOf, workflow
  <2> QED
    BY <1>6, <2>3, <2>4, <2>5
<1>8. ASSUME NEW r \in Runs, StartRun(r, j),
             NEW v \in {"api", "cli"},
             task' = [task EXCEPT ![j].pc = "final", ![j].verdict = v]
      PROVE  DispatchedInv'
  <2>1. OneRunPerJob' /\ RunsInv'
    BY <1>1, <1>8, StartKeeps
  <2>2. runs[r].job = None /\ None \notin Jobs
        /\ runs' = [runs EXCEPT ![r].state = "working", ![r].job = j]
    BY <1>0, <1>8, NoneAssumption DEF StartRun, WorkflowInv, RunsShaped, Shaped
  <2>3. ~NoRun(j)' /\ \A k \in Jobs \ {j} : NoRun(k)' <=> NoRun(k)
    BY <1>0, <2>2 DEF NoRun, WorkflowInv, WorkflowTypeOK, RunRecord
  <2>4. \A k \in Jobs : JobInv(k)'
    BY <1>0, <1>1, <1>8, <2>3, EarlyRows DEF BackendTypeOK, JobInv
  <2> QED
    BY <1>6, <2>1, <2>4
<1> QED
  BY <1>2, <1>7, <1>8

-----------------------------------------------------------------------------
\* The steps of the callback handler.
LEMMA AnswerEndedKeeps ==
  ASSUME DispatchedInv, NEW m \in requests, AnswerEnded(m)
  PROVE  DispatchedInv'
<1> USE DEF DispatchedInv, Types, WorkflowInv, WorkflowTypeOK
<1>1. /\ UNCHANGED <<jobs, queue, task, faults, handler, runs, losses>>
      /\ requests' = requests \ {m}
      /\ answers' = answers \cup {Reply(m, AnswerOfEnded(m))}
      /\ jobs[m.job].status \in Terminal
  BY DEF AnswerEnded, CallbackOfEnded, backend
<1>2. m \in Messages /\ m.run \in Runs /\ m.job \in Jobs
      /\ runs[m.run].job = m.job /\ runs[m.run].outcome = m.outcome
  BY DEF RunsInv, RequestInv, Genuine, Messages
<1>3. AnswerOfEnded(m) = "accepted"
  BY <1>1, <1>2 DEF RunsInv, RunInv, Told, AnswerOfEnded
<1>4. Reply(m, "accepted") \in Replies /\ Reply(m, "accepted").run = m.run
      /\ Reply(m, "accepted").answer = "accepted"
  BY <1>2 DEF Reply, Replies, Messages
<1>5. Types'
  BY <1>1, <1>3, <1>4
     DEF BackendTypeOK, Judged, QueueInv, HandlerTypeOK, RunsShaped
<1>6. OneRunPerJob' /\ \A j \in Jobs : JobInv(j)'
  BY <1>1 DEF OneRunPerJob, RunsOf, JobInv, NoRun
<1>7. RunsInv'
  BY <1>1, <1>2, <1>3, <1>4
     DEF RunsInv, RunInv, Told, RequestInv, Genuine, AnswerInv, HeldInv
<1> QED
  BY <1>5, <1>6, <1>7

LEMMA ReceiveKeeps ==
  ASSUME DispatchedInv, NEW m \in requests, Receive(m)
  PROVE  DispatchedInv'
<1> USE DEF DispatchedInv, Types, WorkflowInv, WorkflowTypeOK
<1>1. /\ UNCHANGED <<jobs, queue, task, faults, runs, answers, losses>>
      /\ requests' = requests \ {m}
      /\ handler' = [msg |-> m, loaded |-> jobs[m.job]]
      /\ jobs[m.job].status \in Open
  BY DEF Receive, CallbackRead, backend
<1>2. m \in Messages /\ m.job \in Jobs /\ Genuine(m)
  BY DEF RunsInv, RequestInv, Messages
<1>3. Types'
  BY <1>1, <1>2 DEF BackendTypeOK, Judged, QueueInv, HandlerTypeOK, RunsShaped
<1>4. OneRunPerJob' /\ \A j \in Jobs : JobInv(j)'
  BY <1>1 DEF OneRunPerJob, RunsOf, JobInv, NoRun
<1>5. RunsInv'
  BY <1>1, <1>2
     DEF RunsInv, RunInv, Told, RequestInv, Genuine, AnswerInv, HeldInv, SameOutcome
<1> QED
  BY <1>3, <1>4, <1>5

LEMMA CommitKeeps ==
  ASSUME DispatchedInv, Commit
  PROVE  DispatchedInv'
<1> USE DEF DispatchedInv, Types, WorkflowInv, WorkflowTypeOK
<1> DEFINE m == handler.msg
           j == m.job
           new == Flush(jobs[j], handler.loaded, CallbackWrites(handler.loaded, m))
<1>1. /\ handler # None /\ handler' = None
      /\ jobs' = [jobs EXCEPT ![j] = new]
      /\ UNCHANGED <<queue, task, faults, runs, requests, losses>>
      /\ answers' = answers \cup {Reply(m, "accepted")}
  BY DEF Commit, CallbackCommit
<1>2. /\ m \in Messages /\ j \in Jobs /\ m.run \in Runs /\ handler.loaded \in Row
      /\ m.outcome \in {"completed", "failed"}
  BY <1>1 DEF HandlerTypeOK, Messages
<1>3. /\ runs[m.run].job = j /\ runs[m.run].outcome = m.outcome
      /\ SameOutcome(jobs[j], handler.loaded) /\ handler.loaded.status \in Open
  BY <1>1 DEF RunsInv, HeldInv, Genuine
<1>4. jobs[j] \in Row /\ Consistent(jobs[j]) /\ task[j].pc \in {"final", "done"}
      /\ (task[j].pc = "final" => task[j].verdict \in {"api", "cli"})
  BY <1>2, <1>3 DEF BackendTypeOK, JobInv, NoRun
<1>5. /\ new \in Row /\ Consistent(new)
      /\ new.status = m.outcome
      /\ new.result = IF m.outcome = "completed" THEN m.run ELSE None
  BY <1>2, <1>3, <1>4, FlushCallback
<1>6. Reply(m, "accepted") \in Replies /\ Reply(m, "accepted").run = m.run
      /\ Reply(m, "accepted").answer = "accepted"
  BY <1>2 DEF Reply, Replies, Messages
<1>7. Types'
  <2>1. BackendTypeOK' /\ Judged' /\ QueueInv'
    BY <1>1, <1>2, <1>5 DEF BackendTypeOK, Judged, QueueInv
  <2>2. HandlerTypeOK' /\ WorkflowInv'
    BY <1>1, <1>6 DEF HandlerTypeOK, RunsShaped
  <2> QED
    BY <2>1, <2>2
<1>8. OneRunPerJob'
  BY <1>1 DEF OneRunPerJob, RunsOf
<1>9. \A k \in Jobs : JobInv(k)'
  <2> SUFFICES ASSUME NEW k \in Jobs PROVE JobInv(k)'
    OBVIOUS
  <2>1. NoRun(k)' <=> NoRun(k)
    BY <1>1 DEF NoRun
  <2>2. CASE k # j
    BY <1>1, <1>2, <2>1, <2>2 DEF BackendTypeOK, JobInv
  <2>3. CASE k = j
    <3>1. jobs'[j] = new /\ task'[j] = task[j] /\ ~NoRun(j)
      BY <1>1, <1>2, <1>3 DEF BackendTypeOK, NoRun
    <3> QED
      BY <1>1, <1>2, <1>4, <1>5, <2>1, <2>3, <3>1 DEF JobInv, Terminal, Errors
  <2> QED
    BY <2>2, <2>3
<1>10. \A r \in Runs : RunInv(r)'
  <2> SUFFICES ASSUME NEW r \in Runs PROVE RunInv(r)'
    OBVIOUS
  <2>1. CASE runs[r].job # j
    <3>1. runs[r].job \in Jobs => jobs'[runs[r].job] = jobs[runs[r].job]
      BY <1>1, <1>2, <2>1 DEF BackendTypeOK
    <3>2. runs[r].state = "accepted" => runs[r].job \in Jobs
      BY DEF RunsShaped, Shaped, RunRecord
    <3> QED
      BY <1>1, <3>1, <3>2 DEF RunsInv, RunInv, Told
  <2>2. CASE runs[r].job = j
    <3>1. r = m.run
      BY <1>2, <1>3, <2>2 DEF OneRunPerJob, RunsOf
    <3>2. jobs'[j] = new
      BY <1>1, <1>2 DEF BackendTypeOK
    <3> QED
      BY <1>1, <1>2, <1>3, <1>5, <2>2, <3>1, <3>2
         DEF RunsInv, RunInv, Told, Terminal
  <2> QED
    BY <2>1, <2>2
<1>11. RequestInv' /\ HeldInv'
  BY <1>1 DEF RunsInv, RequestInv, Genuine, HeldInv
<1>12. AnswerInv'
  <2>1. jobs'[j].status \in Terminal
        /\ \A k \in Jobs : jobs[k].status \in Terminal => jobs'[k].status \in Terminal
    BY <1>1, <1>2, <1>5 DEF BackendTypeOK, Terminal
  <2> QED
    BY <1>1, <1>2, <1>3, <1>6, <2>1 DEF RunsInv, AnswerInv, Replies
<1> QED
  BY <1>7, <1>8, <1>9, <1>10, <1>11, <1>12 DEF RunsInv

\* A failed commit and a restart give the request up; the database is as it was.
LEMMA HandlerLossKeeps ==
  ASSUME DispatchedInv, CommitFails \/ BackendRestart
  PROVE  DispatchedInv'
<1> USE DEF DispatchedInv, Types, WorkflowInv, WorkflowTypeOK
<1>1. CASE CommitFails
  <2> DEFINE m == handler.msg
  <2>1. /\ handler # None /\ handler' = None /\ faults' = faults + 1 /\ faults < MaxFaults
        /\ UNCHANGED <<jobs, queue, task, runs, requests, losses>>
        /\ answers' = answers \cup {Reply(m, "error")}
    BY <1>1 DEF CommitFails, CallbackFails
  <2>2. m \in Messages
    BY <2>1 DEF HandlerTypeOK
  <2>3. Reply(m, "error") \in Replies /\ Reply(m, "error").answer = "error"
    BY <2>2 DEF Reply, Replies, Messages
  <2>4. Types'
    BY <2>1, <2>3, BoundsAssumption
       DEF BackendTypeOK, Judged, QueueInv, HandlerTypeOK, RunsShaped
  <2>5. OneRunPerJob' /\ \A j \in Jobs : JobInv(j)'
    BY <2>1, BoundsAssumption DEF OneRunPerJob, RunsOf, JobInv, NoRun, BackendTypeOK
  <2>6. RunsInv'
    BY <2>1, <2>3 DEF RunsInv, RunInv, Told, RequestInv, Genuine, AnswerInv, HeldInv
  <2> QED
    BY <2>4, <2>5, <2>6
<1>2. CASE BackendRestart
  <2>1. Restart /\ handler' = None /\ UNCHANGED workflow /\ jobs' = jobs
    BY <1>2 DEF BackendRestart, Restart
  <2>2. Types'
    <3>1. BackendTypeOK' /\ Judged' /\ QueueInv'
      BY <2>1, BackendStepType, BackendQueueStep
    <3> QED
      BY <2>1, <3>1 DEF HandlerTypeOK, RunsShaped, workflow
  <2>3. OneRunPerJob'
    BY <2>1 DEF OneRunPerJob, RunsOf, workflow
  <2>4. \A j \in Jobs : JobInv(j)'
    BY <2>1, EarlyRows, BoundsAssumption
       DEF Restart, JobInv, NoRun, workflow, BackendTypeOK, PCs, Busy
  <2>5. RunsInv'
    BY <2>1 DEF RunsInv, RunInv, Told, RequestInv, Genuine, AnswerInv, HeldInv, workflow
  <2> QED
    BY <2>2, <2>3, <2>4, <2>5
<1> QED
  BY <1>1, <1>2

-----------------------------------------------------------------------------
\* A step of the runs or of the network that keeps every run's job and, once it
\* has one, its outcome.
LEMMA RunsMove ==
  ASSUME DispatchedInv, UNCHANGED <<backend, handler>>, WorkflowInv',
         \A r \in Runs :
           /\ runs'[r].job = runs[r].job
           /\ runs[r].outcome # "none" => runs'[r].outcome = runs[r].outcome
           /\ runs'[r].state # "rejected"
           /\ runs'[r].state = "accepted" => jobs[runs[r].job].status \in Terminal,
         answers' \subseteq answers,
         \A m \in requests' \ requests : Genuine(m)'
  PROVE  DispatchedInv'
<1> USE DEF DispatchedInv, Types, WorkflowInv, WorkflowTypeOK
<1>1. UNCHANGED <<jobs, queue, task, faults, handler>>
  BY DEF backend
<1>2. Types'
  BY <1>1 DEF BackendTypeOK, Judged, QueueInv, HandlerTypeOK
<1>3. OneRunPerJob' /\ \A j \in Jobs : JobInv(j)'
  BY <1>1 DEF OneRunPerJob, RunsOf, JobInv, NoRun
<1>4. \A r \in Runs : RunInv(r)'
  <2> SUFFICES ASSUME NEW r \in Runs PROVE RunInv(r)'
    OBVIOUS
  <2>1. RunInv(r)
    BY DEF RunsInv
  <2>2. runs[r].job \in Jobs /\ jobs[runs[r].job].status \in Terminal => Told(r)'
    BY <1>1, <2>1 DEF RunInv, Told, Terminal
  <2> QED
    BY <1>1, <2>2 DEF RunInv
<1>5. \A m \in Messages : Genuine(m) => Genuine(m)'
  BY DEF Genuine, Messages
<1>6. RequestInv'
  BY <1>5 DEF RunsInv, RequestInv
<1>7. AnswerInv'
  BY <1>1 DEF RunsInv, AnswerInv, Replies
<1>8. HeldInv'
  BY <1>1, <1>5 DEF RunsInv, HeldInv, HandlerTypeOK
<1> QED
  BY <1>2, <1>3, <1>4, <1>6, <1>7, <1>8 DEF RunsInv

LEMMA WorkflowKeeps ==
  ASSUME DispatchedInv, WorkflowStep
  PROVE  DispatchedInv'
<1> USE DEF DispatchedInv, Types
<1>1. RunStep(Held) /\ UNCHANGED <<backend, handler>>
  BY DEF WorkflowStep, RunStep
<1>2. WorkflowInv'
  BY <1>1, RunStepInv
<1>3. /\ runs \in [Runs -> RunRecord] /\ requests \subseteq Messages
      /\ answers \subseteq Replies
      /\ \A r \in Runs : Shaped(runs[r])
      /\ \A r \in Runs : RunInv(r)
  BY DEF WorkflowInv, WorkflowTypeOK, RunsShaped, RunsInv
<1>4. \A r \in Runs :
        /\ runs[r].state # "rejected"
        /\ runs[r].state = "accepted" => jobs[runs[r].job].status \in Terminal
  BY <1>3 DEF RunInv
<1>5. ASSUME NEW r \in Runs, NEW new \in RunRecord,
             runs' = [runs EXCEPT ![r] = new],
             new.job = runs[r].job, new.state \notin {"rejected", "accepted"},
             runs[r].outcome # "none" => new.outcome = runs[r].outcome,
             answers' \subseteq answers,
             \A m \in requests' \ requests : Genuine(m)'
      PROVE  DispatchedInv'
  BY <1>1, <1>2, <1>3, <1>4, <1>5, RunsMove
<1>6. ASSUME runs' = runs, answers' \subseteq answers, requests' \subseteq requests
      PROVE  DispatchedInv'
  BY <1>1, <1>2, <1>4, <1>6, RunsMove
<1>7. ASSUME NEW r \in Runs, FinishWork(r)
      PROVE  DispatchedInv'
  <2>1. PICK outcome \in {"completed", "failed"} :
          runs' = [runs EXCEPT ![r].state = "calling", ![r].outcome = outcome]
    BY <1>7 DEF FinishWork
  <2> DEFINE new == [runs[r] EXCEPT !.state = "calling", !.outcome = outcome]
  <2>2. runs[r].outcome = "none" /\ UNCHANGED <<requests, answers>>
    BY <1>3, <1>7 DEF FinishWork, Shaped
  <2>3. new \in RunRecord /\ new.job = runs[r].job /\ new.state = "calling"
    BY <1>3 DEF RunRecord, RunStates
  <2>4. runs' = [runs EXCEPT ![r] = new]
    BY <1>3, <2>1
  <2> QED
    BY <1>5, <2>2, <2>3, <2>4
<1>8. ASSUME NEW r \in Runs, EndSilently(r)
      PROVE  DispatchedInv'
  <2> DEFINE new == [runs[r] EXCEPT !.state = "silent"]
  <2>1. /\ new \in RunRecord /\ new.job = runs[r].job /\ new.state = "silent"
        /\ new.outcome = runs[r].outcome
    BY <1>3 DEF RunRecord, RunStates
  <2>2. runs' = [runs EXCEPT ![r] = new] /\ UNCHANGED <<requests, answers>>
    BY <1>3, <1>8 DEF EndSilently
  <2> QED
    BY <1>5, <2>1, <2>2
<1>9. ASSUME NEW r \in Runs, Post(r)
      PROVE  DispatchedInv'
  <2> DEFINE new == [runs[r] EXCEPT !.state = "waiting", !.attempt = @ + 1]
             m == [Message(r) EXCEPT !.attempt = @ + 1]
  <2>1. runs' = [runs EXCEPT ![r] = new] /\ answers' = answers
        /\ requests' = requests \cup {m}
    BY <1>3, <1>9 DEF Post
  <2>2. runs'[r] = new
    BY <1>3, <2>1
  <2>3. /\ new \in RunRecord /\ new.job = runs[r].job /\ new.state = "waiting"
        /\ new.outcome = runs[r].outcome
    BY <1>2, <1>3, <2>2 DEF RunRecord, RunStates, WorkflowInv, WorkflowTypeOK
  <2>4. ASSUME NEW x \in requests' \ requests PROVE Genuine(x)'
    <3>1. x.run = r /\ x.job = runs[r].job /\ x.outcome = runs[r].outcome
      BY <2>1, <2>4 DEF Message
    <3> QED
      BY <2>2, <2>3, <3>1 DEF Genuine
  <2> QED
    BY <1>5, <2>1, <2>3, <2>4
<1>10. ASSUME NEW r \in Runs, TimeOut(r, Held) \/ Break(r, Held)
       PROVE  DispatchedInv'
  <2>0. PICK next \in {NextAttempt(r), "cut_off"} : AttemptFails(r, next, Held)
    BY <1>10 DEF TimeOut, Break
  <2> DEFINE new == [runs[r] EXCEPT !.state = next]
  <2>1. /\ new \in RunRecord /\ new.job = runs[r].job
        /\ new.state \in {"calling", "gave_up", "cut_off"} /\ new.outcome = runs[r].outcome
    BY <1>3 DEF RunRecord, RunStates, NextAttempt
  <2>2. runs' = [runs EXCEPT ![r] = new] /\ UNCHANGED <<requests, answers>>
    BY <1>3, <2>0 DEF AttemptFails
  <2> QED
    BY <1>5, <2>1, <2>2
<1>11. ASSUME NEW m \in requests, LoseRequest(m)
       PROVE  DispatchedInv'
  BY <1>6, <1>11 DEF LoseRequest
<1>12. ASSUME NEW a \in answers, LoseAnswer(a)
       PROVE  DispatchedInv'
  BY <1>6, <1>12 DEF LoseAnswer
<1>13. ASSUME NEW a \in answers, TakeAnswer(a)
       PROVE  DispatchedInv'
  <2> DEFINE r == a.run
             current == runs[r].state = "waiting" /\ runs[r].attempt = a.attempt
             WithState(s) == [runs[r] EXCEPT !.state = s]
  <2>1. r \in Runs /\ answers' \subseteq answers /\ requests' = requests
        /\ a.answer \in {"accepted", "error"}
    BY <1>3, <1>13 DEF TakeAnswer, Replies, RunsInv, AnswerInv
  <2>2. CASE ~current
    <3>1. runs' = runs
      BY <1>13, <2>2 DEF TakeAnswer
    <3> QED
      BY <1>6, <2>1, <3>1
  <2>3. CASE current /\ a.answer = "error"
    <3>1. runs' = [runs EXCEPT ![r] = WithState(NextAttempt(r))]
      BY <1>3, <1>13, <2>1, <2>3 DEF TakeAnswer
    <3>2. /\ WithState(NextAttempt(r)) \in RunRecord
          /\ WithState(NextAttempt(r)).job = runs[r].job
          /\ WithState(NextAttempt(r)).outcome = runs[r].outcome
          /\ WithState(NextAttempt(r)).state \in {"calling", "gave_up"}
      BY <1>3, <2>1 DEF RunRecord, RunStates, NextAttempt
    <3> QED
      BY <1>5, <2>1, <3>1, <3>2
  <2>4. CASE current /\ a.answer = "accepted"
    <3>1. runs' = [runs EXCEPT ![r] = WithState("accepted")]
      BY <1>3, <1>13, <2>1, <2>4 DEF TakeAnswer
    <3>2. jobs[runs[r].job].status \in Terminal
      BY <2>4 DEF RunsInv, AnswerInv
    <3>3. \A s \in Runs :
            /\ runs'[s].job = runs[s].job /\ runs'[s].outcome = runs[s].outcome
            /\ runs'[s].state # "rejected"
            /\ runs'[s].state = "accepted" => jobs[runs[s].job].status \in Terminal
      BY <1>3, <1>4, <2>1, <3>1, <3>2 DEF RunRecord
    <3> QED
      BY <1>1, <1>2, <2>1, <3>3, RunsMove
  <2> QED
    BY <2>1, <2>2, <2>3, <2>4
<1> QED
  BY <1>1, <1>7, <1>8, <1>9, <1>10, <1>11, <1>12, <1>13
     DEF RunStep

\* Without ambiguous or manual dispatch the invariant is inductive.
LEMMA DispatchedStep ==
  ASSUME Quiet, DispatchedInv, [Next]_vars
  PROVE  DispatchedInv'
<1>1. CASE UNCHANGED vars
  <2>1. UNCHANGED <<backend, handler>> /\ UNCHANGED workflow
    BY <1>1 DEF vars
  <2>2. UNCHANGED <<runs, requests, answers, losses>>
    BY <2>1 DEF workflow
  <2>3. WorkflowInv' /\ \A r \in Runs : runs[r].state # "rejected"
        /\ (runs[r].state = "accepted" => jobs[runs[r].job].status \in Terminal)
    BY <2>2 DEF DispatchedInv, Types, WorkflowInv, WorkflowTypeOK, RunsShaped, RunsInv, RunInv
  <2> QED
    BY <2>1, <2>2, <2>3, RunsMove
<1>2. ASSUME NEW r \in Runs, NEW j \in Jobs, OperatorDispatch(r, j)
      PROVE  FALSE
  BY <1>2 DEF OperatorDispatch, Quiet
<1> QED
  BY <1>1, <1>2, BackendKeeps, DispatchKeeps, AnswerEndedKeeps, ReceiveKeeps,
     CommitKeeps, HandlerLossKeeps, WorkflowKeeps DEF Next

LEMMA DispatchedInvariance == ASSUME Quiet PROVE Spec => []DispatchedInv
<1>1. DispatchedInv /\ [Next]_vars => DispatchedInv'
  BY DispatchedStep
<1> QED
  BY <1>1, DispatchedInit, PTL DEF Spec

\* Status, result, error and end time of a row agree, although process_job and
\* the callback handler write it from copies of their own.
THEOREM DispatchedRowConsistent == ASSUME Quiet PROVE Spec => []RowConsistent
<1>1. DispatchedInv => RowConsistent
  BY DEF DispatchedInv, RowConsistent, JobInv
<1> QED
  BY <1>1, DispatchedInvariance, PTL

\* The fall back from the API to the CLI starts no second run.
THEOREM DispatchedOneRunPerJob == ASSUME Quiet PROVE Spec => []OneRunPerJob
<1>1. DispatchedInv => OneRunPerJob
  BY DEF DispatchedInv
<1> QED
  BY <1>1, DispatchedInvariance, PTL

\* What a run was told is accepted stays what the row says.
THEOREM DispatchedAcceptedIsDurable == ASSUME Quiet PROVE Spec => []AcceptedIsDurable
<1>1. ASSUME DispatchedInv
      PROVE  AcceptedIsDurable
  <2> SUFFICES ASSUME NEW r \in Runs, runs[r].state = "accepted" PROVE Told(r)
    BY DEF AcceptedIsDurable, Told
  <2>1. RunInv(r) /\ Shaped(runs[r]) /\ runs[r].job \in Jobs \cup {None}
    BY <1>1 DEF DispatchedInv, Types, RunsInv, WorkflowInv, WorkflowTypeOK, RunsShaped, RunRecord
  <2> QED
    BY <2>1 DEF RunInv, Shaped
<1> QED
  BY <1>1, DispatchedInvariance, PTL

\* The only run of a job is never refused, however often it repeats itself.
THEOREM DispatchedNeverRefused == ASSUME Quiet PROVE Spec => []NeverRefused
<1>1. DispatchedInv => NeverRefused
  BY DEF DispatchedInv, RunsInv, RunInv, NeverRefused
<1> QED
  BY <1>1, DispatchedInvariance, PTL

\* Without restarts and database failures an open job is carried or has a run.
THEOREM DispatchedOpenIsCarried == ASSUME Quiet PROVE Spec => []OpenIsCarried
<1>1. ASSUME DispatchedInv
      PROVE  OpenIsCarried
  <2> SUFFICES ASSUME faults = 0, NEW j \in Jobs, jobs[j].status \in Open, ~Carried(j)
               PROVE  RunsOf(j) # {}
    BY DEF OpenIsCarried
  <2>1. JobInv(j)
    BY <1>1 DEF DispatchedInv
  <2>2. task[j].pc # "idle"
    BY <2>1, EarlyRows DEF JobInv, Open
  <2>3. ~NoRun(j)
    BY <2>1, <2>2 DEF JobInv, Carried, Open, Terminal
  <2> QED
    BY <2>3 DEF NoRun, RunsOf
<1> QED
  BY <1>1, DispatchedInvariance, PTL

-----------------------------------------------------------------------------
\* What a step can do to the jobs table: insert a row, begin a job, touch the
\* metadata only, or end an open job.
LEMMA DispatchedRowSteps ==
  ASSUME Quiet, DispatchedInv, [Next]_vars
  PROVE  \/ jobs' = jobs
         \/ \E j \in Jobs, row \in Row :
              /\ jobs' = [jobs EXCEPT ![j] = row]
              /\ \/ jobs[j] = NoRow /\ row = QueuedRow
                 \/ jobs[j] = QueuedRow /\ row = ProcessingRow
                 \/ SameOutcome(jobs[j], row) /\ row = [jobs[j] EXCEPT !.metadata = row.metadata]
                 \/ /\ jobs[j].status \in Open
                    /\ row.status = "completed" /\ row.result \in Runs /\ row.error = None
                 \/ /\ jobs[j].status \in Open
                    /\ row.status = "failed" /\ row.result = None /\ row.error \in Errors
<1> USE DEF DispatchedInv, Types
<1>1. ASSUME NEW j \in Jobs, CreateJob(j)
      PROVE  jobs[j] = NoRow /\ jobs' = [jobs EXCEPT ![j] = QueuedRow]
  BY <1>1 DEF CreateJob, JobInv
<1>2. ASSUME NEW j \in Jobs, MarkProcessing(j)
      PROVE  jobs[j] = QueuedRow /\ jobs' = [jobs EXCEPT ![j] = ProcessingRow]
  <2>1. jobs[j] = QueuedRow /\ task[j].loaded = QueuedRow
    BY <1>2 DEF MarkProcessing, JobInv
  <2>2. Flush(QueuedRow, QueuedRow, ProcessingRow) = ProcessingRow
    BY FlushCurrent, RowConstants
  <2> QED
    BY <1>2, <2>1, <2>2 DEF MarkProcessing, ProcessingRow
<1>3. ASSUME NEW j \in Jobs, Finish(j), task[j].verdict \in Errors
      PROVE  \E row \in Row :
               /\ jobs' = [jobs EXCEPT ![j] = row] /\ jobs[j].status \in Open
               /\ row.status = "failed" /\ row.result = None /\ row.error \in Errors
  <2> DEFINE last == WorkerWrites(ProcessingRow, task[j].verdict)
  <2>1. jobs[j] = ProcessingRow /\ task[j].loaded = ProcessingRow
    BY <1>3 DEF Finish, JobInv, Errors
  <2>2. last \in Row
    BY <1>3, WorkerWritesType, RowConstants DEF Verdicts, Errors
  <2>3. jobs' = [jobs EXCEPT ![j] = last]
    BY <1>3, <2>1, <2>2, FlushCurrent, RowConstants DEF Finish
  <2>4. last.status = "failed" /\ last.result = None /\ last.error \in Errors
    BY <1>3, WorkerWritesConsistent DEF Errors
  <2> QED
    BY <2>1, <2>2, <2>3, <2>4, EarlyRows DEF Open
<1>4. ASSUME NEW j \in Jobs, Finish(j), task[j].verdict \notin Errors
      PROVE  \E row \in Row :
               /\ jobs' = [jobs EXCEPT ![j] = row] /\ SameOutcome(jobs[j], row)
               /\ row = [jobs[j] EXCEPT !.metadata = row.metadata]
  <2>1. task[j].loaded = ProcessingRow /\ task[j].verdict \in {"api", "cli"}
        /\ jobs[j] \in Row
    BY <1>4 DEF Finish, JobInv, BackendTypeOK
  <2> DEFINE new == Flush(jobs[j], ProcessingRow, WorkerWrites(ProcessingRow, task[j].verdict))
  <2>2. new \in Row /\ SameOutcome(jobs[j], new)
        /\ new = [jobs[j] EXCEPT !.metadata = new.metadata]
    BY <2>1, FlushDispatched
  <2>3. jobs' = [jobs EXCEPT ![j] = new]
    BY <1>4, <2>1 DEF Finish
  <2> QED
    BY <2>2, <2>3
<1>5. ASSUME Commit
      PROVE  \E j \in Jobs, row \in Row :
               /\ jobs' = [jobs EXCEPT ![j] = row] /\ jobs[j].status \in Open
               /\ \/ row.status = "completed" /\ row.result \in Runs /\ row.error = None
                  \/ row.status = "failed" /\ row.result = None /\ row.error \in Errors
  <2> DEFINE m == handler.msg
             j == m.job
             new == Flush(jobs[j], handler.loaded, CallbackWrites(handler.loaded, m))
  <2>1. handler # None /\ jobs' = [jobs EXCEPT ![j] = new]
    BY <1>5 DEF Commit, CallbackCommit
  <2>2. m \in Messages /\ j \in Jobs /\ m.run \in Runs /\ handler.loaded \in Row
        /\ m.outcome \in {"completed", "failed"}
    BY <2>1 DEF HandlerTypeOK, Messages
  <2>3. SameOutcome(jobs[j], handler.loaded) /\ handler.loaded.status \in Open
    BY <2>1 DEF RunsInv, HeldInv
  <2>4. jobs[j] \in Row /\ Consistent(jobs[j]) /\ jobs[j].status \in Open
    BY <2>2, <2>3 DEF BackendTypeOK, JobInv, SameOutcome
  <2>5. /\ new \in Row /\ new.status = m.outcome
        /\ new.result = IF m.outcome = "completed" THEN m.run ELSE None
        /\ new.error = IF m.outcome = "completed" THEN None ELSE "WORKER"
    BY <2>2, <2>3, <2>4, FlushCallback
  <2> QED
    BY <2>1, <2>2, <2>4, <2>5 DEF Errors
<1>6. ASSUME NEW m \in requests, AnswerEnded(m) \/ Receive(m)
      PROVE  jobs' = jobs
  BY <1>6 DEF AnswerEnded, CallbackOfEnded, Receive, CallbackRead, backend
<1>7. CASE CommitFails \/ BackendRestart \/ WorkflowStep \/ UNCHANGED vars
  BY <1>7 DEF CommitFails, CallbackFails, BackendRestart, Restart, WorkflowStep, vars, backend
<1>8. ASSUME NEW j \in Jobs, RejectInputs(j) \/ DispatchApi(j) \/ DispatchCli(j)
      PROVE  jobs' = jobs
  BY <1>8 DEF RejectInputs, DispatchApi, DispatchCli
<1>9. ASSUME NEW r \in Runs, NEW j \in Jobs, OperatorDispatch(r, j)
      PROVE  jobs' = jobs
  BY <1>9 DEF OperatorDispatch, backend
<1>10. CASE BackendStep
  <2>1. ASSUME NEW j \in Jobs, SubmitJob(j) \/ Abort(j) PROVE jobs' = jobs
    BY <2>1 DEF SubmitJob, Abort
  <2>2. LoadJob => jobs' = jobs
    BY DEF LoadJob
  <2> QED
    BY <1>1, <1>2, <1>3, <1>4, <1>10, <2>1, <2>2, RowConstants DEF BackendStep
<1> QED
  BY <1>5, <1>6, <1>7, <1>8, <1>9, <1>10 DEF Next

\* An ended job keeps its status, result, error and end time.
THEOREM DispatchedTerminalStable == ASSUME Quiet PROVE Spec => TerminalStable
<1>1. ASSUME DispatchedInv, [Next]_vars
      PROVE  [\A j \in Jobs : jobs[j].status \in Terminal =>
                jobs'[j] = [jobs[j] EXCEPT !.metadata = jobs'[j].metadata]]_vars
  <2>1. ASSUME NEW j \in Jobs, jobs[j].status \in Terminal
        PROVE  jobs'[j] = [jobs[j] EXCEPT !.metadata = jobs'[j].metadata]
    <3>1. jobs \in [Jobs -> Row] /\ jobs[j] = [jobs[j] EXCEPT !.metadata = jobs[j].metadata]
      BY <1>1 DEF DispatchedInv, Types, BackendTypeOK, Row
    <3>2. CASE jobs'[j] = jobs[j]
      BY <3>1, <3>2
    <3>3. ASSUME NEW row \in Row, jobs' = [jobs EXCEPT ![j] = row],
                 row = [jobs[j] EXCEPT !.metadata = row.metadata]
          PROVE  jobs'[j] = [jobs[j] EXCEPT !.metadata = jobs'[j].metadata]
      <4>1. jobs'[j] = row
        BY <3>1, <3>3
      <4> QED
        BY <3>3, <4>1
    <3> QED
      BY <1>1, <2>1, <3>1, <3>2, <3>3, DispatchedRowSteps, EarlyRows DEF Terminal, Open
  <2> QED
    BY <2>1
<1> QED
  BY <1>1, DispatchedInvariance, PTL DEF Spec, TerminalStable

\* What clients see of the jobs follows the lifecycle.
THEOREM DispatchedRefinesLifecycle == ASSUME Quiet PROVE Spec => LifecycleSpec
<1> DEFINE view == [j \in Jobs |-> Outcome(jobs[j])]
<1>1. Init => Lifecycle!Init
  BY DEF Init, BackendInit, Lifecycle!Init, Lifecycle!Pending, Outcome, NoRow
<1>2. ASSUME DispatchedInv, [Next]_vars
      PROVE  [Lifecycle!Next]_view
  <2>0. jobs \in [Jobs -> Row]
    BY <1>2 DEF DispatchedInv, Types, BackendTypeOK
  <2>1. CASE jobs' = jobs
    BY <2>1
  <2>2. ASSUME NEW j \in Jobs, NEW row \in Row, jobs' = [jobs EXCEPT ![j] = row]
        PROVE  view' = [view EXCEPT ![j] = Outcome(row)]
    BY <2>0, <2>2
  <2>3. ASSUME NEW j \in Jobs, NEW row \in Row, jobs' = [jobs EXCEPT ![j] = row],
               jobs[j] = NoRow, row = QueuedRow
        PROVE  Lifecycle!Accept(j)
    <3>1. Outcome(row) = Lifecycle!Pending("queued")
      BY <2>3 DEF Lifecycle!Pending, Outcome, NoRow, QueuedRow
    <3>2. view[j].status = "absent"
      BY <2>3, EarlyRows DEF Outcome
    <3> QED
      BY <2>2, <2>3, <3>1, <3>2 DEF Lifecycle!Accept
  <2>4. ASSUME NEW j \in Jobs, NEW row \in Row, jobs' = [jobs EXCEPT ![j] = row],
               jobs[j] = QueuedRow, row = ProcessingRow
        PROVE  Lifecycle!Begin(j)
    <3>1. Outcome(row) = Lifecycle!Pending("processing")
      BY <2>4 DEF Lifecycle!Pending, Outcome, NoRow, QueuedRow, ProcessingRow
    <3>2. view[j].status = "queued"
      BY <2>4, EarlyRows DEF Outcome
    <3> QED
      BY <2>2, <2>4, <3>1, <3>2 DEF Lifecycle!Begin
  <2>5. ASSUME NEW j \in Jobs, NEW row \in Row, jobs' = [jobs EXCEPT ![j] = row],
               SameOutcome(jobs[j], row)
        PROVE  UNCHANGED view
    <3>1. Outcome(row) = view[j]
      BY <2>5 DEF SameOutcome, Outcome
    <3>2. [view EXCEPT ![j] = view[j]] = view
      OBVIOUS
    <3> QED
      BY <2>2, <2>5, <3>1, <3>2
  <2>6. ASSUME NEW j \in Jobs, NEW row \in Row, jobs' = [jobs EXCEPT ![j] = row],
               jobs[j].status \in Open,
               row.status = "completed", row.result \in Runs, row.error = None
        PROVE  Lifecycle!Complete(j)
    <3>1. Outcome(row) = [status |-> "completed", result |-> row.result, error |-> None]
      BY <2>6 DEF Outcome
    <3>2. view[j].status \in {"queued", "processing"}
      BY <2>6 DEF Outcome, Open
    <3> QED
      BY <2>2, <2>6, <3>1, <3>2 DEF Lifecycle!Complete
  <2>7. ASSUME NEW j \in Jobs, NEW row \in Row, jobs' = [jobs EXCEPT ![j] = row],
               jobs[j].status \in Open,
               row.status = "failed", row.result = None, row.error \in Errors
        PROVE  Lifecycle!Fail(j)
    <3>1. view[j].status \in {"queued", "processing"}
      BY <2>7 DEF Outcome, Open
    <3> QED
      BY <2>2, <2>7, <3>1 DEF Lifecycle!Fail, Outcome
  <2> QED
    BY <1>2, <2>1, <2>3, <2>4, <2>5, <2>6, <2>7, DispatchedRowSteps DEF Lifecycle!Next
<1> QED
  BY <1>1, <1>2, DispatchedInvariance, PTL DEF Spec, LifecycleSpec, Lifecycle!Spec

-----------------------------------------------------------------------------
(***************************************************************************)
(* With ambiguous or manual dispatch.  Several runs may report the same    *)
(* job and process_job may commit FAILED over a result, but a result is    *)
(* written by the callback handler alone, together with the status.        *)
(***************************************************************************)
\* Whatever message the backend holds and whoever dispatches, types are kept.
LEMMA TypesStep == ASSUME Types, [Next]_vars PROVE Types'
<1> USE DEF Types
<1>0. /\ BackendTypeOK /\ Judged /\ QueueInv /\ HandlerTypeOK /\ WorkflowInv
      /\ runs \in [Runs -> RunRecord] /\ requests \subseteq Messages
      /\ answers \subseteq Replies /\ losses \in 0 .. MaxLosses /\ RunsShaped
  BY DEF WorkflowInv, WorkflowTypeOK
<1>1. CASE (BackendStep \/ Restart) /\ handler' \in {handler, None} /\ UNCHANGED workflow
  <2>1. BackendTypeOK' /\ Judged' /\ QueueInv'
    BY <1>0, <1>1, BackendStepType, BackendQueueStep
  <2>2. HandlerTypeOK' /\ WorkflowInv'
    BY <1>0, <1>1 DEF HandlerTypeOK, WorkflowInv, WorkflowTypeOK, RunsShaped, workflow
  <2> QED
    BY <2>1, <2>2
<1>2. ASSUME UNCHANGED <<backend, handler>>,
             WorkflowInv'
      PROVE  Types'
  BY <1>0, <1>2 DEF backend, BackendTypeOK, Judged, QueueInv, HandlerTypeOK
<1>3. ASSUME NEW j \in Jobs, RejectInputs(j) \/ DispatchApi(j) \/ DispatchCli(j)
      PROVE  Types'
  <2>1. /\ task[j].pc \in {"running", "cli"} /\ UNCHANGED <<jobs, queue, faults, handler>>
        /\ UNCHANGED workflow \/ \E r \in Runs : StartRun(r, j)
        /\ \/ \E v \in {"api", "cli"} \cup Errors :
                task' = [task EXCEPT ![j].pc = "final", ![j].verdict = v]
           \/ task' = [task EXCEPT ![j].pc = "cli"]
    BY <1>3 DEF RejectInputs, DispatchApi, DispatchCli, Conclude, Errors
  <2>2. BackendTypeOK' /\ Judged'
    BY <1>0, <2>1 DEF BackendTypeOK, Judged, PCs, Busy, Verdicts, Errors
  <2>3. QueueInv'
    <3>1. \A k \in Jobs : task[k].pc = "queued" => task'[k].pc = "queued"
      BY <1>0, <2>1 DEF BackendTypeOK
    <3>2. \A i \in 1 .. Len(queue) : queue[i] \in Jobs
      BY <1>0 DEF BackendTypeOK
    <3> QED
      BY <1>0, <2>1, <3>1, <3>2 DEF QueueInv
  <2>4. HandlerTypeOK' /\ WorkflowInv'
    <3>1. CASE UNCHANGED workflow
      BY <1>0, <2>1, <3>1 DEF HandlerTypeOK, WorkflowInv, WorkflowTypeOK, RunsShaped, workflow
    <3>2. CASE \E r \in Runs : StartRun(r, j)
      BY <1>0, <2>1, <3>2, StartRunInv DEF HandlerTypeOK
    <3> QED
      BY <2>1, <3>1, <3>2
  <2> QED
    BY <2>2, <2>3, <2>4
<1>4. ASSUME NEW r \in Runs, NEW j \in Jobs, OperatorDispatch(r, j)
      PROVE  Types'
  BY <1>0, <1>2, <1>4, StartRunInv DEF OperatorDispatch
<1>5. ASSUME NEW m \in requests, AnswerEnded(m)
      PROVE  Types'
  <2>1. Reply(m, AnswerOfEnded(m)) \in Replies
    BY <1>0 DEF Reply, Replies, Messages, AnswerOfEnded
  <2> QED
    BY <1>0, <1>2, <1>5, <2>1
       DEF AnswerEnded, CallbackOfEnded, backend, WorkflowInv, WorkflowTypeOK, RunsShaped
<1>6. ASSUME NEW m \in requests, Receive(m)
      PROVE  Types'
  <2>1. m \in Messages /\ jobs[m.job] \in Row
    BY <1>0 DEF Messages, BackendTypeOK
  <2> QED
    BY <1>0, <1>6, <2>1
       DEF Receive, CallbackRead, backend, BackendTypeOK, Judged, QueueInv, HandlerTypeOK,
           WorkflowInv, WorkflowTypeOK, RunsShaped
<1>7. CASE Commit
  <2> DEFINE m == handler.msg
             new == Flush(jobs[m.job], handler.loaded, CallbackWrites(handler.loaded, m))
  <2>1. m \in Messages /\ m.job \in Jobs /\ handler.loaded \in Row /\ jobs[m.job] \in Row
    BY <1>0, <1>7 DEF Commit, CallbackCommit, HandlerTypeOK, Messages, BackendTypeOK
  <2>2. new \in Row
    BY <2>1, CallbackWritesType, FlushType
  <2>3. Reply(m, "accepted") \in Replies
    BY <2>1 DEF Reply, Replies, Messages
  <2>4. BackendTypeOK' /\ Judged' /\ QueueInv'
    BY <1>0, <1>7, <2>2 DEF Commit, CallbackCommit, BackendTypeOK, Judged, QueueInv
  <2>5. HandlerTypeOK' /\ WorkflowInv'
    BY <1>0, <1>7, <2>3
       DEF Commit, CallbackCommit, HandlerTypeOK, WorkflowInv, WorkflowTypeOK, RunsShaped
  <2> QED
    BY <2>4, <2>5
<1>8. CASE CommitFails
  <2>1. Reply(handler.msg, "error") \in Replies
    BY <1>0, <1>8 DEF CommitFails, CallbackFails, HandlerTypeOK, Reply, Replies, Messages
  <2> QED
    BY <1>0, <1>8, <2>1, BoundsAssumption
       DEF CommitFails, CallbackFails, BackendTypeOK, Judged, QueueInv, HandlerTypeOK,
           WorkflowInv, WorkflowTypeOK, RunsShaped
<1>9. CASE WorkflowStep
  <2>1. RunStep(Held) /\ UNCHANGED <<backend, handler>>
    BY <1>9 DEF WorkflowStep, RunStep
  <2> QED
    BY <1>0, <1>2, <2>1, RunStepInv
<1>10. CASE UNCHANGED vars
  BY <1>0, <1>2, <1>10 DEF vars, workflow, WorkflowInv, WorkflowTypeOK, RunsShaped
<1> QED
  BY <1>1, <1>3, <1>4, <1>5, <1>6, <1>7, <1>8, <1>9, <1>10 DEF Next, BackendRestart

-----------------------------------------------------------------------------
ResultOf(j) ==
  /\ jobs[j].status = "completed" => jobs[j].result # None
  /\ jobs[j].result # None =>
       jobs[j].result \in RunsOf(j) /\ runs[jobs[j].result].outcome = "completed"

\* process_job never concludes "completed" here.
TaskOf(j) ==
  /\ task[j].pc = "idle" => jobs[j] = NoRow
  /\ task[j].pc = "final" => task[j].verdict \in {"api", "cli"} \cup Errors

\* Nobody has written the result of the row the handler holds.
HeldResult ==
  handler # None =>
    /\ Genuine(handler.msg)
    /\ task[handler.msg.job].pc # "idle"
    /\ handler.loaded.status \in Open
    /\ handler.loaded.result = jobs[handler.msg.job].result

ResultInv ==
  /\ \A j \in Jobs : TaskOf(j) /\ ResultOf(j)
  /\ RequestInv
  /\ HeldResult

\* process_job's commits leave the result alone and complete nothing.
LEMMA FlushWorkerResult ==
  ASSUME NEW row \in Row, NEW loaded \in Row, NEW v \in {"api", "cli"} \cup Errors
  PROVE  LET new == Flush(row, loaded, WorkerWrites(loaded, v))
         IN  new.result = row.result /\ new.status \in {row.status, "failed"}
<1>1. /\ WorkerWrites(loaded, v).result = loaded.result
      /\ WorkerWrites(loaded, v).status \in {loaded.status, "failed"}
  BY DEF WorkerWrites, Errors, Row
<1> QED
  BY <1>1 DEF Flush

\* The callback handler writes status and result together.
LEMMA FlushCallbackResult ==
  ASSUME NEW row \in Row, NEW loaded \in Row, NEW m \in Messages,
         loaded.status \in Open, loaded.result = row.result
  PROVE  LET new == Flush(row, loaded, CallbackWrites(loaded, m))
         IN  /\ new.status = m.outcome
             /\ new.result = IF m.outcome = "completed" THEN m.run ELSE None
<1> DEFINE wanted == CallbackWrites(loaded, m)
<1>1. m.run \in Runs /\ m.outcome \in {"completed", "failed"}
  BY DEF Messages
<1>2. /\ wanted.status = m.outcome
      /\ wanted.result = IF m.outcome = "completed" THEN m.run ELSE None
  BY <1>1 DEF CallbackWrites, Row
<1> QED
  BY <1>1, <1>2 DEF Flush, Open

\* A run that has a job and an outcome keeps them.
LEMMA RunsKeepWord ==
  ASSUME WorkflowInv, NEW held,
         UNCHANGED runs \/ (\E r \in Runs, j \in Jobs : StartRun(r, j)) \/ RunStep(held)
  PROVE  \A r \in Runs : runs[r].job # None /\ runs[r].outcome # "none" =>
           runs'[r].job = runs[r].job /\ runs'[r].outcome = runs[r].outcome
<1> USE DEF WorkflowInv, WorkflowTypeOK, RunsShaped, Shaped, RunRecord
<1>1. ASSUME NEW r \in Runs, NEW j \in Jobs, StartRun(r, j)
      PROVE  \A s \in Runs : runs[s].outcome # "none" => runs'[s] = runs[s]
  BY <1>1 DEF StartRun
<1>2. ASSUME NEW r \in Runs, FinishWork(r)
      PROVE  \A s \in Runs : runs[s].outcome # "none" => runs'[s] = runs[s]
  BY <1>2 DEF FinishWork
<1>3. ASSUME NEW r \in Runs, EndSilently(r) \/ Post(r) \/ TimeOut(r, held) \/ Break(r, held)
      PROVE  \A s \in Runs : runs'[s].job = runs[s].job /\ runs'[s].outcome = runs[s].outcome
  BY <1>3 DEF EndSilently, Post, TimeOut, Break, AttemptFails
<1>4. ASSUME NEW a \in answers, TakeAnswer(a)
      PROVE  \A s \in Runs : runs'[s].job = runs[s].job /\ runs'[s].outcome = runs[s].outcome
  BY <1>4 DEF TakeAnswer
<1> QED
  BY <1>1, <1>2, <1>3, <1>4
     DEF RunStep, LoseRequest, LoseAnswer

\* A step that writes no result and completes no job, takes no new message and
\* breaks no word of a run.
LEMMA ResultFrame ==
  ASSUME Types, Types', ResultInv,
         \A j \in Jobs : /\ jobs'[j].result = jobs[j].result
                         /\ jobs'[j].status = "completed" => jobs[j].status = "completed"
                         /\ TaskOf(j)'
                         /\ task'[j].pc = "idle" => task[j].pc = "idle",
         \A r \in Runs : runs[r].job # None /\ runs[r].outcome # "none" =>
           runs'[r].job = runs[r].job /\ runs'[r].outcome = runs[r].outcome,
         handler' \in {handler, None},
         \A m \in requests' \ requests : Genuine(m)'
  PROVE  ResultInv'
<1> USE DEF Types, HandlerTypeOK, WorkflowInv, WorkflowTypeOK
<1>1. \A m \in Messages : Genuine(m) => Genuine(m)'
  BY NoneAssumption DEF Messages, Genuine
<1>2. ASSUME NEW j \in Jobs PROVE ResultOf(j)'
  <2>1. jobs[j].result # None => jobs[j].result \in Runs /\ runs[jobs[j].result].job # None
                                 /\ runs[jobs[j].result].outcome # "none"
    BY NoneAssumption DEF ResultInv, ResultOf, RunsOf
  <2> QED
    BY <2>1 DEF ResultInv, ResultOf, RunsOf
<1>3. RequestInv'
  BY <1>1 DEF ResultInv, RequestInv
<1>4. HeldResult'
  BY <1>1 DEF ResultInv, HeldResult, Messages
<1> QED
  BY <1>2, <1>3, <1>4 DEF ResultInv

LEMMA ResultInit == Init => Types /\ ResultInv
<1> SUFFICES ASSUME Init PROVE Types /\ ResultInv
  OBVIOUS
<1>1. Types
  BY DispatchedInit DEF DispatchedInv
<1> QED
  BY <1>1 DEF Init, BackendInit, WorkflowInit, IdleTask, NoRow,
              ResultInv, TaskOf, ResultOf, RequestInv, HeldResult

LEMMA ResultStep == ASSUME Types, ResultInv, [Next]_vars PROVE ResultInv'
<1> USE DEF Types
<1>0. Types' /\ BackendTypeOK /\ HandlerTypeOK /\ WorkflowInv
      /\ \A j \in Jobs : TaskOf(j) /\ ResultOf(j) /\ jobs[j] \in Row
                         /\ task[j].loaded \in Row
  BY TypesStep DEF BackendTypeOK, ResultInv
<1> DEFINE WordKept == \A r \in Runs : runs[r].job # None /\ runs[r].outcome # "none" =>
             runs'[r].job = runs[r].job /\ runs'[r].outcome = runs[r].outcome
           SameResult(j) == /\ jobs'[j].result = jobs[j].result
                            /\ jobs'[j].status = "completed" => jobs[j].status = "completed"
                            /\ TaskOf(j)'
                            /\ task'[j].pc = "idle" => task[j].pc = "idle"
<1>1. ASSUME BackendStep, UNCHANGED <<handler, workflow>>
      PROVE  ResultInv'
  <2>1. WordKept /\ requests' = requests
    BY <1>1 DEF workflow
  <2>2. CASE LoadJob
    <3>1. \A j \in Jobs : SameResult(j)
      BY <1>0, <2>2 DEF LoadJob, BackendTypeOK, TaskOf
    <3> QED
      BY <1>0, <1>1, <2>1, <3>1, ResultFrame
  <2>3. ASSUME NEW j \in Jobs, CreateJob(j)
        PROVE  ResultInv'
    <3>1. jobs[j].result = QueuedRow.result /\ QueuedRow.status = "queued"
      BY <1>0, <2>3 DEF CreateJob, TaskOf, NoRow, QueuedRow
    <3>2. \A k \in Jobs : SameResult(k)
      BY <1>0, <2>3, <3>1 DEF CreateJob, BackendTypeOK, TaskOf
    <3> QED
      BY <1>0, <1>1, <2>1, <3>2, ResultFrame
  <2>4. ASSUME NEW j \in Jobs, SubmitJob(j) \/ Abort(j)
        PROVE  ResultInv'
    <3>1. \A k \in Jobs : SameResult(k)
      BY <1>0, <2>4 DEF SubmitJob, Abort, BackendTypeOK, TaskOf
    <3> QED
      BY <1>0, <1>1, <2>1, <3>1, ResultFrame
  <2>5. ASSUME NEW j \in Jobs, MarkProcessing(j)
        PROVE  ResultInv'
    <3> DEFINE wanted == [task[j].loaded EXCEPT !.status = "processing", !.started = TRUE]
               new == Flush(jobs[j], task[j].loaded, wanted)
    <3>1. new.result = jobs[j].result /\ new.status \in {jobs[j].status, "processing"}
      BY <1>0 DEF Flush, Row
    <3>2. jobs' = [jobs EXCEPT ![j] = new] /\ task[j].pc = "loaded"
          /\ task' = [task EXCEPT ![j].pc = "running", ![j].loaded = wanted]
      BY <2>5 DEF MarkProcessing
    <3>3. \A k \in Jobs : SameResult(k)
      BY <1>0, <3>1, <3>2 DEF BackendTypeOK, TaskOf
    <3> QED
      BY <1>0, <1>1, <2>1, <3>3, ResultFrame
  <2>6. ASSUME NEW j \in Jobs, Finish(j)
        PROVE  ResultInv'
    <3> DEFINE new == Flush(jobs[j], task[j].loaded,
                            WorkerWrites(task[j].loaded, task[j].verdict))
    <3>1. new.result = jobs[j].result /\ new.status \in {jobs[j].status, "failed"}
      BY <1>0, <2>6, FlushWorkerResult DEF Finish, TaskOf
    <3>2. jobs' = [jobs EXCEPT ![j] = new] /\ task' = [task EXCEPT ![j].pc = "done"]
      BY <2>6 DEF Finish
    <3>3. \A k \in Jobs : SameResult(k)
      BY <1>0, <3>1, <3>2 DEF BackendTypeOK, TaskOf
    <3> QED
      BY <1>0, <1>1, <2>1, <3>3, ResultFrame
  <2> QED
    BY <1>1, <2>2, <2>3, <2>4, <2>5, <2>6 DEF BackendStep
<1>2. ASSUME NEW j \in Jobs, RejectInputs(j) \/ DispatchApi(j) \/ DispatchCli(j)
      PROVE  ResultInv'
  <2>1. /\ task[j].pc \in {"running", "cli"} /\ UNCHANGED <<jobs, handler>>
        /\ UNCHANGED workflow \/ \E r \in Runs : StartRun(r, j)
        /\ \/ \E v \in {"api", "cli"} \cup Errors :
                task' = [task EXCEPT ![j].pc = "final", ![j].verdict = v]
           \/ task' = [task EXCEPT ![j].pc = "cli"]
    BY <1>2 DEF RejectInputs, DispatchApi, DispatchCli, Conclude, Errors
  <2>2. WordKept /\ requests' = requests
    BY <1>0, <2>1, RunsKeepWord DEF workflow, StartRun
  <2>3. \A k \in Jobs : SameResult(k)
    BY <1>0, <2>1 DEF BackendTypeOK, TaskOf
  <2> QED
    BY <1>0, <2>1, <2>2, <2>3, ResultFrame
<1>3. ASSUME NEW r \in Runs, NEW j \in Jobs, OperatorDispatch(r, j)
      PROVE  ResultInv'
  <2>1. StartRun(r, j) /\ requests' = requests /\ UNCHANGED <<jobs, task, handler>>
    BY <1>3 DEF OperatorDispatch, StartRun, backend
  <2>2. WordKept
    BY <1>0, <2>1, RunsKeepWord
  <2> QED
    BY <1>0, <2>1, <2>2, ResultFrame DEF TaskOf
<1>4. ASSUME NEW m \in requests, AnswerEnded(m)
      PROVE  ResultInv'
  BY <1>0, <1>4, ResultFrame DEF AnswerEnded, CallbackOfEnded, backend, TaskOf
<1>5. ASSUME NEW m \in requests, Receive(m)
      PROVE  ResultInv'
  <2>1. /\ UNCHANGED <<jobs, task, runs>> /\ requests' \subseteq requests
        /\ handler' = [msg |-> m, loaded |-> jobs[m.job]]
        /\ jobs[m.job].status \in Open
    BY <1>5 DEF Receive, CallbackRead, backend
  <2>2. Genuine(m) /\ m.job \in Jobs
    BY <1>0 DEF ResultInv, RequestInv, WorkflowInv, WorkflowTypeOK, Messages
  <2>3. task[m.job].pc # "idle"
    BY <1>0, <2>1, <2>2, EarlyRows DEF TaskOf, Open
  <2> QED
    BY <2>1, <2>2, <2>3 DEF ResultInv, TaskOf, ResultOf, RunsOf, RequestInv, Genuine, HeldResult
<1>6. CASE Commit
  <2> DEFINE m == handler.msg
             j == m.job
             new == Flush(jobs[j], handler.loaded, CallbackWrites(handler.loaded, m))
  <2>1. /\ handler # None /\ handler' = None /\ jobs' = [jobs EXCEPT ![j] = new]
        /\ UNCHANGED <<task, runs, requests>>
    BY <1>6 DEF Commit, CallbackCommit
  <2>2. /\ m \in Messages /\ j \in Jobs /\ m.run \in Runs /\ handler.loaded \in Row
        /\ m.outcome \in {"completed", "failed"} /\ m.run # None
    BY <1>0, <2>1, NoneAssumption DEF HandlerTypeOK, Messages
  <2>3. /\ Genuine(m) /\ task[j].pc # "idle" /\ handler.loaded.status \in Open
        /\ handler.loaded.result = jobs[j].result
    BY <2>1 DEF ResultInv, HeldResult
  <2>4. /\ new.status = m.outcome
        /\ new.result = IF m.outcome = "completed" THEN m.run ELSE None
    BY <1>0, <2>2, <2>3, FlushCallbackResult
  <2>5. \A k \in Jobs : TaskOf(k)' /\ ResultOf(k)'
    BY <1>0, <2>1, <2>2, <2>3, <2>4 DEF BackendTypeOK, TaskOf, ResultOf, RunsOf, Genuine
  <2> QED
    BY <2>1, <2>5 DEF ResultInv, RequestInv, Genuine, HeldResult
<1>7. CASE CommitFails
  BY <1>0, <1>7, ResultFrame DEF CommitFails, CallbackFails, TaskOf
<1>8. CASE BackendRestart
  <2>1. \A j \in Jobs : SameResult(j)
    BY <1>0, <1>8 DEF BackendRestart, Restart, BackendTypeOK, TaskOf
  <2> QED
    BY <1>0, <1>8, <2>1, ResultFrame DEF BackendRestart, workflow
<1>9. CASE WorkflowStep
  <2>1. RunStep(Held) /\ UNCHANGED <<jobs, task, handler>>
    BY <1>9 DEF WorkflowStep, RunStep, backend
  <2>2. WordKept
    BY <1>0, <2>1, RunsKeepWord
  <2>3. ASSUME NEW m \in requests' \ requests PROVE Genuine(m)'
    <3>1. PICK r \in Runs : Post(r)
      BY <2>1, <2>3 DEF RunStep, FinishWork, EndSilently, TimeOut, Break,
                        AttemptFails, LoseRequest, LoseAnswer, TakeAnswer
    <3>2. m.run = r /\ m.job = runs[r].job /\ m.outcome = runs[r].outcome
      BY <2>3, <3>1 DEF Post, Message
    <3> QED
      BY <1>0, <3>1, <3>2 DEF Post, Genuine, WorkflowInv, WorkflowTypeOK, RunRecord
  <2> QED
    BY <1>0, <2>1, <2>2, <2>3, ResultFrame DEF TaskOf
<1>10. CASE UNCHANGED vars
  BY <1>0, <1>10, ResultFrame DEF vars, backend, workflow, TaskOf
<1> QED
  BY <1>1, <1>2, <1>3, <1>4, <1>5, <1>6, <1>7, <1>8, <1>9, <1>10 DEF Next

LEMMA ResultInvariance == Spec => [](Types /\ ResultInv)
<1>1. Types /\ ResultInv /\ [Next]_vars => (Types /\ ResultInv)'
  BY TypesStep, ResultStep
<1> QED
  BY <1>1, ResultInit, PTL DEF Spec

\* A completed job names a result, and a result always comes from a run of that
\* job that succeeded: for any dispatch, ambiguous or by hand, and any faults.
THEOREM DispatchedCompletedHasResult == Spec => []CompletedHasResult
<1>1. ResultInv => CompletedHasResult
  BY DEF ResultInv, ResultOf, CompletedHasResult
<1> QED
  BY <1>1, ResultInvariance, PTL

\* Every variable holds a value of its type, for any dispatch.
THEOREM DispatchedTypes == Spec => []TypeOK
<1>1. Types => TypeOK
  BY DEF Types, TypeOK, WorkflowInv
<1> QED
  BY <1>1, ResultInvariance, PTL

-----------------------------------------------------------------------------
\* Without manual dispatch no run exists before process_job has its row, so no
\* job with a result is open.
FirstRun(j) ==
  /\ task[j].pc \notin {"cli", "final", "done"} => NoRun(j)
  /\ task[j].pc \in {"inserted", "queued", "loaded"} => jobs[j] = QueuedRow
  /\ task[j].pc = "loaded" => task[j].loaded = QueuedRow
  /\ jobs[j].status \in Open => jobs[j].result = None

\* The handler took its row while it was open, hence without a result.
FirstInv ==
  /\ \A j \in Jobs : FirstRun(j)
  /\ handler # None => handler.loaded.result = None

LEMMA FirstInit == Init => FirstInv
<1> SUFFICES ASSUME Init PROVE FirstInv
  OBVIOUS
<1>1. \A r \in Runs : runs[r].job = None /\ None \notin Jobs
  BY NoneAssumption DEF Init, WorkflowInit, AbsentRun
<1> QED
  BY <1>1 DEF Init, BackendInit, IdleTask, NoRow, FirstInv, FirstRun, NoRun, Open

\* The invariant is kept, no ended job is opened and no result is replaced.
LEMMA FirstStep ==
  ASSUME ~ManualDispatch, Types, ResultInv, FirstInv, [Next]_vars
  PROVE  /\ FirstInv'
         /\ \A j \in Jobs :
              /\ jobs[j].status \in Terminal => jobs'[j].status \in Terminal
              /\ jobs[j].result # None => jobs'[j].result = jobs[j].result
<1> USE DEF Types
<1>0. /\ BackendTypeOK /\ Judged /\ QueueInv /\ HandlerTypeOK /\ WorkflowInv
      /\ runs \in [Runs -> RunRecord] /\ RunsShaped
      /\ \A j \in Jobs : TaskOf(j) /\ FirstRun(j) /\ jobs[j] \in Row
                         /\ task[j].loaded \in Row
      /\ handler # None => handler.loaded.result = None
  BY DEF BackendTypeOK, ResultInv, FirstInv, WorkflowInv, WorkflowTypeOK
<1> DEFINE Kept(j) == /\ jobs[j].status \in Terminal => jobs'[j].status \in Terminal
                      /\ jobs[j].result # None => jobs'[j].result = jobs[j].result
           HeldEmpty == handler # None => handler.loaded.result = None
           Goal == HeldEmpty' /\ \A j \in Jobs : FirstRun(j)' /\ Kept(j)
<1> SUFFICES Goal
  BY DEF FirstInv
<1>h. ASSUME handler' \in {handler, None}
      PROVE  HeldEmpty'
  BY <1>0, <1>h
<1> HIDE DEF HeldEmpty
<1>1. ASSUME BackendStep, UNCHANGED <<handler, workflow>>
      PROVE  Goal
  <2>0. HeldEmpty'
    BY <1>1, <1>h
  <2>1. \A j \in Jobs : NoRun(j)' <=> NoRun(j)
    BY <1>1 DEF NoRun, workflow
  <2>2. CASE LoadJob
    <3>1. Head(queue) = queue[1] /\ 1 \in 1 .. Len(queue) /\ queue[1] \in Jobs
      BY <1>0, <2>2 DEF LoadJob, BackendTypeOK
    <3>2. task[Head(queue)].pc = "queued"
      BY <1>0, <3>1 DEF QueueInv
    <3> QED
      BY <1>0, <2>0, <2>1, <2>2, <3>1, <3>2 DEF LoadJob, BackendTypeOK, FirstRun
  <2>3. ASSUME NEW j \in Jobs, CreateJob(j)
        PROVE  Goal
    <3>1. NoRow.status = "absent" /\ NoRow.result = None
          /\ QueuedRow.status = "queued" /\ QueuedRow.result = None
      BY DEF NoRow, QueuedRow
    <3>2. jobs[j] = NoRow
      BY <1>0, <2>3 DEF CreateJob, TaskOf
    <3> QED
      BY <1>0, <2>0, <2>1, <2>3, <3>1, <3>2 DEF CreateJob, BackendTypeOK, FirstRun, Terminal
  <2>4. ASSUME NEW j \in Jobs, SubmitJob(j) \/ Abort(j)
        PROVE  Goal
    BY <1>0, <2>0, <2>1, <2>4 DEF SubmitJob, Abort, BackendTypeOK, FirstRun
  <2>5. ASSUME NEW j \in Jobs, MarkProcessing(j)
        PROVE  Goal
    <3>1. jobs[j] = QueuedRow /\ task[j].loaded = QueuedRow /\ NoRun(j)
      BY <1>0, <2>5 DEF MarkProcessing, FirstRun
    <3>2. Flush(QueuedRow, QueuedRow, ProcessingRow) = ProcessingRow
      BY FlushCurrent, RowConstants
    <3>3. jobs' = [jobs EXCEPT ![j] = ProcessingRow]
      BY <2>5, <3>1, <3>2 DEF MarkProcessing, ProcessingRow
    <3>4. task' = [task EXCEPT ![j].pc = "running", ![j].loaded = ProcessingRow]
      BY <2>5, <3>1 DEF MarkProcessing, ProcessingRow
    <3> QED
      BY <1>0, <2>0, <2>1, <3>1, <3>3, <3>4, EarlyRows DEF BackendTypeOK, FirstRun, Terminal, QueuedRow, NoRow
  <2>6. ASSUME NEW j \in Jobs, Finish(j)
        PROVE  Goal
    <3> DEFINE new == Flush(jobs[j], task[j].loaded,
                            WorkerWrites(task[j].loaded, task[j].verdict))
    <3>1. new.result = jobs[j].result /\ new.status \in {jobs[j].status, "failed"}
      BY <1>0, <2>6, FlushWorkerResult DEF Finish, TaskOf
    <3>2. jobs' = [jobs EXCEPT ![j] = new] /\ task' = [task EXCEPT ![j].pc = "done"]
      BY <2>6 DEF Finish
    <3> QED
      BY <1>0, <2>0, <2>1, <3>1, <3>2 DEF BackendTypeOK, FirstRun, Terminal, Open
  <2> QED
    BY <1>1, <2>2, <2>3, <2>4, <2>5, <2>6 DEF BackendStep
<1>2. ASSUME NEW j \in Jobs, RejectInputs(j) \/ DispatchApi(j) \/ DispatchCli(j)
      PROVE  Goal
  <2>1. /\ jobs' = jobs /\ handler' = handler
        /\ UNCHANGED workflow \/ \E r \in Runs : StartRun(r, j)
        /\ \/ \E v \in {"api", "cli"} \cup Errors :
                task' = [task EXCEPT ![j].pc = "final", ![j].verdict = v]
           \/ task' = [task EXCEPT ![j].pc = "cli"]
    BY <1>2 DEF RejectInputs, DispatchApi, DispatchCli, Conclude, Errors
  <2>2. \A k \in Jobs \ {j} : NoRun(k) => NoRun(k)'
    <3>1. ASSUME NEW r \in Runs, StartRun(r, j)
          PROVE  \A s \in Runs : runs'[s].job \in {runs[s].job, j}
      BY <1>0, <3>1 DEF StartRun, RunRecord
    <3>2. \A s \in Runs : runs'[s].job \in {runs[s].job, j}
      BY <2>1, <3>1 DEF workflow
    <3> QED
      BY <3>2 DEF NoRun
  <2>3. HeldEmpty'
    BY <2>1, <1>h
  <2> QED
    BY <1>0, <2>3, <2>1, <2>2 DEF BackendTypeOK, FirstRun
<1>3. ASSUME jobs' = jobs, task' = task, handler' \in {handler, None},
             \A j \in Jobs : NoRun(j) => NoRun(j)'
      PROVE  Goal
  BY <1>0, <1>3, <1>h DEF FirstRun
<1>4. ASSUME NEW m \in requests, AnswerEnded(m)
      PROVE  Goal
  BY <1>3, <1>4 DEF AnswerEnded, CallbackOfEnded, backend, NoRun
<1>10. ASSUME NEW m \in requests, Receive(m)
       PROVE  Goal
  <2>1. /\ UNCHANGED <<jobs, task, runs>>
        /\ handler' = [msg |-> m, loaded |-> jobs[m.job]]
        /\ jobs[m.job].status \in Open
    BY <1>10 DEF Receive, CallbackRead, backend
  <2>2. m.job \in Jobs
    BY <1>0 DEF WorkflowInv, WorkflowTypeOK, Messages
  <2>3. jobs[m.job].result = None
    BY <1>0, <2>1, <2>2 DEF FirstRun
  <2> QED
    BY <1>0, <2>1, <2>3 DEF FirstRun, NoRun, HeldEmpty
<1>5. CASE Commit
  <2> DEFINE m == handler.msg
             j == m.job
             new == Flush(jobs[j], handler.loaded, CallbackWrites(handler.loaded, m))
  <2>1. /\ handler # None /\ handler' = None
        /\ jobs' = [jobs EXCEPT ![j] = new] /\ UNCHANGED <<task, runs>>
    BY <1>5 DEF Commit, CallbackCommit
  <2>2. /\ m \in Messages /\ j \in Jobs /\ m.run \in Runs /\ handler.loaded \in Row
        /\ m.outcome \in {"completed", "failed"}
    BY <1>0, <2>1 DEF HandlerTypeOK, Messages
  <2>3. /\ Genuine(m) /\ handler.loaded.status \in Open
        /\ handler.loaded.result = jobs[j].result
    BY <2>1 DEF ResultInv, HeldResult
  <2>4. new.status = m.outcome
    BY <1>0, <2>2, <2>3, FlushCallbackResult
  <2>5. ~NoRun(j)
    BY <2>2, <2>3 DEF NoRun, Genuine
  <2>6. jobs[j].result = None
    BY <1>0, <2>1, <2>3
  <2>7. HeldEmpty'
    BY <2>1, <1>h
  <2> QED
    BY <1>0, <2>1, <2>2, <2>4, <2>5, <2>6, <2>7 DEF BackendTypeOK, FirstRun, NoRun, Terminal, Open
<1>6. CASE CommitFails \/ UNCHANGED vars
  BY <1>3, <1>6 DEF CommitFails, CallbackFails, vars, backend, workflow, NoRun
<1>7. CASE BackendRestart
  <2>1. /\ HeldEmpty' /\ jobs' = jobs /\ runs' = runs
        /\ \A j \in Jobs : task'[j] = task[j] \/ task'[j].pc = "done"
    BY <1>0, <1>7, <1>h DEF BackendRestart, Restart, BackendTypeOK, workflow
  <2> QED
    BY <1>0, <2>1 DEF FirstRun, NoRun
<1>8. CASE WorkflowStep
  <2>1. \A r \in Runs : runs'[r].job = runs[r].job
    <3>1. ASSUME NEW r \in Runs,
                 \/ FinishWork(r) \/ EndSilently(r) \/ Post(r)
                 \/ TimeOut(r, Held) \/ Break(r, Held)
          PROVE  \A s \in Runs : runs'[s].job = runs[s].job
      BY <1>0, <3>1 DEF FinishWork, EndSilently, Post, TimeOut, Break, AttemptFails, RunRecord
    <3>2. ASSUME NEW a \in answers, TakeAnswer(a)
          PROVE  \A s \in Runs : runs'[s].job = runs[s].job
      BY <1>0, <3>2 DEF TakeAnswer, RunRecord
    <3> QED
      BY <1>8, <3>1, <3>2 DEF WorkflowStep, LoseRequest, LoseAnswer
  <2> QED
    BY <1>3, <1>8, <2>1 DEF WorkflowStep, backend, NoRun
<1>9. ASSUME NEW r \in Runs, NEW j \in Jobs, OperatorDispatch(r, j)
      PROVE  FALSE
  BY <1>9 DEF OperatorDispatch
<1> QED
  BY <1>1, <1>2, <1>4, <1>5, <1>6, <1>7, <1>8, <1>9, <1>10 DEF Next

LEMMA FirstInvariance ==
  ASSUME ~ManualDispatch PROVE Spec => [](Types /\ ResultInv /\ FirstInv)
<1>1. Types /\ ResultInv /\ FirstInv /\ [Next]_vars => (Types /\ ResultInv /\ FirstInv)'
  BY TypesStep, ResultStep, FirstStep
<1> QED
  BY <1>1, ResultInit, FirstInit, PTL DEF Spec

\* A job that has ended is never open again, however ambiguous its dispatch.
THEOREM DispatchedNoReopen == ASSUME ~ManualDispatch PROVE Spec => NoReopen
<1>1. ASSUME Types, ResultInv, FirstInv, [Next]_vars
      PROVE  [\A j \in Jobs : jobs[j].status \in Terminal => jobs'[j].status \in Terminal]_vars
  BY <1>1, FirstStep
<1> QED
  BY <1>1, FirstInvariance, PTL DEF Spec, NoReopen

\* The first result of a job is its last, whatever a second run reports and
\* whatever process_job still commits.
THEOREM DispatchedResultSticks == ASSUME ~ManualDispatch PROVE Spec => ResultSticks
<1>1. ASSUME Types, ResultInv, FirstInv, [Next]_vars
      PROVE  [\A j \in Jobs : jobs[j].result # None => jobs'[j].result = jobs[j].result]_vars
  BY <1>1, FirstStep
<1> QED
  BY <1>1, FirstInvariance, PTL DEF Spec, ResultSticks

-----------------------------------------------------------------------------
(***************************************************************************)
(* The bill of a run's attempts, for any dispatch.                         *)
(***************************************************************************)
RetryInv == Apart(Held) /\ \A r \in Runs : Paid(r, Held, losses + faults)

\* What the backend holds is a message.
LEMMA HeldIsMessage == Types => Held \subseteq Messages
BY DEF Types, HandlerTypeOK, Held

\* A step that neither moves a message nor changes a run that calls.
LEMMA RetryFrame ==
  ASSUME Types, RetryInv, UNCHANGED <<requests, answers, losses>>, Held' = Held,
         faults' \in {faults, faults + 1},
         \A r \in Runs : /\ runs'[r].attempt = runs[r].attempt
                         /\ runs'[r] = runs[r] \/ runs'[r].state = "working"
  PROVE  RetryInv'
<1>0. /\ losses \in Nat /\ faults \in Nat /\ \A r \in Runs : runs[r].attempt \in Nat
      /\ \A m \in requests \cup Held : m.run \in Runs
      /\ \A a \in answers : a.run \in Runs
  BY HeldIsMessage, LossesAssumption, BoundsAssumption
     DEF Types, WorkflowInv, WorkflowTypeOK, BackendTypeOK, RunRecord, Messages, Replies
<1>1. Apart(Held)'
  BY <1>0 DEF RetryInv, Apart, SameAttempt
<1>2. ASSUME NEW r \in Runs PROVE Paid(r, Held, losses + faults)'
  <2>1. CASE runs'[r].state = "working"
    BY <2>1 DEF Paid
  <2>2. CASE runs'[r] = runs[r]
    <3>1. Hopeful(r, Held)' <=> Hopeful(r, Held)
      BY <2>2 DEF Hopeful, Message, SameAttempt
    <3> QED
      BY <1>0, <2>2, <3>1 DEF RetryInv, Paid
  <2> QED
    BY <2>1, <2>2
<1> QED
  BY <1>1, <1>2 DEF RetryInv

\* The handler's message m leaves the requests and the handler and is answered,
\* an error only together with a fault.
LEMMA AnswerKeepsRetries ==
  ASSUME Types, RetryInv, NEW m \in requests \cup Held, NEW word \in {"accepted", "conflict", "error"},
         UNCHANGED <<runs, losses>>,
         requests' = requests \ {m}, Held' = Held \ {m},
         answers' = answers \cup {Reply(m, word)},
         faults' = IF word = "error" THEN faults + 1 ELSE faults
  PROVE  RetryInv'
<1>0. /\ losses \in Nat /\ faults \in Nat /\ \A r \in Runs : runs[r].attempt \in Nat
      /\ m.run \in Runs
      /\ Reply(m, word).run = m.run /\ Reply(m, word).attempt = m.attempt
      /\ Reply(m, word).answer = word
  BY HeldIsMessage, LossesAssumption, BoundsAssumption
     DEF Types, WorkflowInv, WorkflowTypeOK, BackendTypeOK, RunRecord, Messages, Reply
<1>1. Apart(Held)'
  BY <1>0 DEF RetryInv, Apart, SameAttempt
<1>2. ASSUME NEW r \in Runs PROVE Paid(r, Held, losses + faults)'
  <2>1. Message(r)' = Message(r)
    BY DEF Message
  <2>2. Paid(r, Held, losses + faults)
    BY DEF RetryInv
  <2>3. CASE word = "error"
    BY <1>0, <2>2, <2>3 DEF Paid
  <2>4. CASE word # "error"
    <3>1. Hopeful(r, Held) => Hopeful(r, Held)'
      BY <1>0, <2>1, <2>4 DEF Hopeful, SameAttempt
    <3> QED
      BY <1>0, <2>2, <2>4, <3>1 DEF Paid
  <2> QED
    BY <2>3, <2>4
<1> QED
  BY <1>1, <1>2 DEF RetryInv

LEMMA RetryInit == Init => RetryInv
BY DEF Init, BackendInit, WorkflowInit, AbsentRun, RetryInv, Apart, Paid, Held

LEMMA RetryStep == ASSUME Types, RetryInv, [Next]_vars PROVE RetryInv'
<1>0. /\ losses \in Nat /\ faults \in Nat /\ \A r \in Runs : runs[r].attempt \in Nat
      /\ runs \in [Runs -> RunRecord] /\ WorkflowInv /\ HandlerTypeOK
      /\ Held \subseteq Messages
  BY HeldIsMessage, LossesAssumption, BoundsAssumption
     DEF Types, WorkflowInv, WorkflowTypeOK, BackendTypeOK, RunRecord
<1>1. CASE BackendStep /\ UNCHANGED <<handler, workflow>>
  <2>1. faults' \in {faults, faults + 1}
    BY <1>1 DEF BackendStep, LoadJob, CreateJob, SubmitJob, MarkProcessing, Finish, Abort
  <2> QED
    BY <1>1, <2>1, RetryFrame DEF workflow, Held
<1>2. ASSUME NEW r \in Runs, NEW j \in Jobs, StartRun(r, j),
             UNCHANGED <<handler, faults>>
      PROVE  RetryInv'
  <2>1. \A s \in Runs : /\ runs'[s].attempt = runs[s].attempt
                        /\ runs'[s] = runs[s] \/ runs'[s].state = "working"
    BY <1>0, <1>2 DEF StartRun, RunRecord
  <2> QED
    BY <1>2, <2>1, RetryFrame DEF StartRun, Held
<1>3. CASE UNCHANGED <<handler, faults, workflow>>
  BY <1>3, RetryFrame DEF workflow, Held
<1>4. ASSUME NEW j \in Jobs, RejectInputs(j) \/ DispatchApi(j) \/ DispatchCli(j)
      PROVE  RetryInv'
  BY <1>2, <1>3, <1>4 DEF RejectInputs, DispatchApi, DispatchCli
<1>5. ASSUME NEW r \in Runs, NEW j \in Jobs, OperatorDispatch(r, j)
      PROVE  RetryInv'
  BY <1>2, <1>5 DEF OperatorDispatch, backend
<1>6. ASSUME NEW m \in requests, AnswerEnded(m)
      PROVE  RetryInv'
  <2>1. Held = {} /\ Held' = {} /\ faults' = faults
    BY <1>6 DEF AnswerEnded, CallbackOfEnded, Held, backend
  <2> QED
    BY <1>6, <2>1, AnswerKeepsRetries DEF AnswerEnded, AnswerOfEnded
<1>7. ASSUME NEW m \in requests, Receive(m)
      PROVE  RetryInv'
  <2>1. /\ requests' = requests \ {m} /\ Held = {} /\ Held' = {m}
        /\ UNCHANGED <<runs, answers, losses, faults>>
    <3>1. handler' # None
      BY <1>0, <1>7, HandlerAssumption
         DEF Receive, CallbackRead, Types, BackendTypeOK, WorkflowInv, WorkflowTypeOK, Messages
    <3> QED
      BY <1>7, <3>1 DEF Receive, CallbackRead, Held, backend
  <2>2. Apart(Held)'
    BY <2>1 DEF RetryInv, Apart, SameAttempt
  <2>3. \A r \in Runs : Paid(r, Held, losses + faults)'
    BY <2>1 DEF RetryInv, Paid, Hopeful, Message, SameAttempt
  <2> QED
    BY <2>2, <2>3 DEF RetryInv
<1>8. CASE Commit
  <2>1. Held = {handler.msg} /\ Held' = {} /\ faults' = faults
        /\ handler.msg \notin requests
    BY <1>8 DEF Commit, CallbackCommit, Held, RetryInv, Apart
  <2> QED
    BY <1>8, <2>1, AnswerKeepsRetries DEF Commit
<1>9. CASE CommitFails
  <2>1. Held = {handler.msg} /\ Held' = {} /\ faults' = faults + 1
        /\ handler.msg \notin requests
    BY <1>9 DEF CommitFails, CallbackFails, Held, RetryInv, Apart
  <2> QED
    BY <1>9, <2>1, AnswerKeepsRetries DEF CommitFails
<1>10. CASE BackendRestart
  <2>1. Held' = {} /\ faults' = faults + 1 /\ UNCHANGED <<runs, requests, answers, losses>>
    BY <1>10 DEF BackendRestart, Restart, Held, workflow
  <2>2. Apart(Held)'
    BY <2>1 DEF RetryInv, Apart, SameAttempt
  <2>3. \A r \in Runs : Paid(r, Held, losses + faults)'
    BY <1>0, <2>1 DEF RetryInv, Paid
  <2> QED
    BY <2>2, <2>3 DEF RetryInv
<1>11. CASE WorkflowStep
  <2>1. RunStep(Held) /\ faults' = faults /\ handler' = handler /\ Held' = Held
    BY <1>11 DEF WorkflowStep, RunStep, backend, Held
  <2>2. WorkflowInv'
    BY <1>0, <2>1, RunStepInv
  <2> DEFINE held == Held
             fault == faults
  <2> HIDE DEF held, fault
  <2>3. Apart(held) /\ \A r \in Runs : Paid(r, held, losses + fault)
    BY DEF RetryInv, held, fault
  <2> QED
    BY <1>0, <2>1, <2>2, <2>3, RunStepRetries
       DEF RetryInv, Apart, Paid, Hopeful, held, fault
<1>12. CASE UNCHANGED vars
  BY <1>3, <1>12 DEF vars, backend
<1> QED
  BY <1>1, <1>4, <1>5, <1>6, <1>7, <1>8, <1>9, <1>10, <1>11, <1>12 DEF Next

\* Every attempt of a run that has given up or was cut off has cost a loss or a
\* fault (curl --retry 3), for any number of runs, attempts, losses and faults.
THEOREM DispatchedFailedAttemptsArePaid == Spec => []FailedAttemptsArePaid
<1>1. Types /\ RetryInv /\ [Next]_vars => (Types /\ RetryInv)'
  BY TypesStep, RetryStep
<1>2. RetryInv => FailedAttemptsArePaid
  <2> SUFFICES ASSUME RetryInv, NEW r \in Runs
               PROVE  /\ runs[r].state = "gave_up" => losses + faults >= CurlAttempts
                      /\ runs[r].state = "cut_off" => losses + faults >= runs[r].attempt
    BY DEF FailedAttemptsArePaid
  <2> QED
    BY DEF RetryInv, Paid
<1> QED
  BY <1>1, <1>2, ResultInit, RetryInit, PTL DEF Spec
=============================================================================
