-------------------------- MODULE JobBackendProofs --------------------------
(***************************************************************************)
(* Facts about the backend that hold in every SCIENCE_MODE: what a flush   *)
(* does to a row, and that each step of JobBackend keeps the types.        *)
(***************************************************************************)
EXTENDS JobBackend, TLAPS

\* The row of a job whose PROCESSING commit is the last write.
ProcessingRow == [QueuedRow EXCEPT !.status = "processing", !.started = TRUE]

-----------------------------------------------------------------------------
\* The rows create_job and the first commit of process_job write are rows.
LEMMA RowConstants ==
  NoRow \in Row /\ QueuedRow \in Row /\ ProcessingRow \in Row
BY DEF NoRow, QueuedRow, ProcessingRow, Row, Status, Stamp, Metadata

\* A flush yields a row.
LEMMA FlushType ==
  ASSUME NEW row \in Row, NEW loaded \in Row, NEW wanted \in Row
  PROVE  Flush(row, loaded, wanted) \in Row
BY DEF Flush, Row

\* A session whose copy was still current writes exactly what it wants.
LEMMA FlushCurrent ==
  ASSUME NEW loaded \in Row, NEW wanted \in Row
  PROVE  Flush(loaded, loaded, wanted) = wanted
BY DEF Flush, Row

\* process_job's assignments turn a row into a row.
LEMMA WorkerWritesType ==
  ASSUME NEW loaded \in Row, NEW verdict \in Verdicts \ {"none"}
  PROVE  WorkerWrites(loaded, verdict) \in Row
<1> <<"worker", 0>> \in Stamp
  BY DEF Stamp, Writes
<1>1. CASE verdict \in {"api", "cli"}
  BY <1>1 DEF WorkerWrites, Row, Metadata, Stamp
<1>2. CASE verdict = "completed"
  BY <1>2 DEF WorkerWrites, Row, Status
<1>3. CASE verdict \in Errors
  BY <1>3 DEF WorkerWrites, Row, Status, Errors
<1> QED
  BY <1>1, <1>2, <1>3 DEF Verdicts

\* What process_job leaves of a row it marked PROCESSING and nobody else wrote.
LEMMA WorkerWritesConsistent ==
  ASSUME NEW verdict \in {"completed"} \cup Errors
  PROVE  /\ Consistent(WorkerWrites(ProcessingRow, verdict))
         /\ WorkerWrites(ProcessingRow, verdict).status
              = IF verdict = "completed" THEN "completed" ELSE "failed"
         /\ WorkerWrites(ProcessingRow, verdict).result
              = IF verdict = "completed" THEN "local" ELSE None
         /\ WorkerWrites(ProcessingRow, verdict).error
              = IF verdict = "completed" THEN None ELSE verdict
<1> <<"worker", 0>> # None /\ "local" # None /\ None \notin Errors
  BY NoneAssumption DEF Writes
<1>1. CASE verdict = "completed"
  BY <1>1 DEF WorkerWrites, ProcessingRow, QueuedRow, NoRow, Consistent, Terminal
<1>2. CASE verdict \in Errors
  BY <1>2 DEF WorkerWrites, ProcessingRow, QueuedRow, NoRow, Consistent, Terminal, Errors
<1> QED
  BY <1>1, <1>2

-----------------------------------------------------------------------------
\* At "final" the task has a verdict.
Judged == \A j \in Jobs : task[j].pc = "final" => task[j].verdict # "none"

\* The initial state has the types.
LEMMA BackendInitType == BackendInit => BackendTypeOK /\ Judged
BY RowConstants, BoundsAssumption
   DEF BackendInit, BackendTypeOK, Judged, IdleTask, PCs, Busy, Verdicts

\* Each step of JobBackend keeps the types and the verdict.
LEMMA BackendStepType ==
  ASSUME BackendTypeOK, Judged, BackendStep \/ Restart
  PROVE  BackendTypeOK' /\ Judged'
<1> USE DEF BackendTypeOK, Judged
<1> TaskRecord == [pc: PCs, loaded: Row, verdict: Verdicts]
<1>0. /\ {"idle", "inserted", "queued", "loaded", "running", "final", "done"} \subseteq PCs
      /\ \A t \in TaskRecord : \A pc \in PCs : [t EXCEPT !.pc = pc] \in TaskRecord
  BY DEF PCs, Busy
<1>1. CASE LoadJob
  <2>1. Head(queue) \in Jobs /\ Tail(queue) \in Seq(Jobs)
    BY <1>1 DEF LoadJob
  <2> QED
    BY <1>0, <1>1, <2>1 DEF LoadJob
<1>2. ASSUME NEW j \in Jobs, CreateJob(j)
      PROVE  BackendTypeOK' /\ Judged'
  BY <1>0, <1>2, RowConstants DEF CreateJob
<1>3. ASSUME NEW j \in Jobs, SubmitJob(j)
      PROVE  BackendTypeOK' /\ Judged'
  BY <1>0, <1>3 DEF SubmitJob
<1>4. ASSUME NEW j \in Jobs, MarkProcessing(j)
      PROVE  BackendTypeOK' /\ Judged'
  <2> DEFINE wanted == [task[j].loaded EXCEPT !.status = "processing", !.started = TRUE]
  <2>1. wanted \in Row
    BY DEF Row, Status
  <2>2. Flush(jobs[j], task[j].loaded, wanted) \in Row
    BY <2>1, FlushType
  <2> QED
    BY <1>0, <1>4, <2>1, <2>2 DEF MarkProcessing
<1>5. ASSUME NEW j \in Jobs, Finish(j)
      PROVE  BackendTypeOK' /\ Judged'
  <2>1. WorkerWrites(task[j].loaded, task[j].verdict) \in Row
    BY <1>5, WorkerWritesType DEF Finish
  <2>2. Flush(jobs[j], task[j].loaded, WorkerWrites(task[j].loaded, task[j].verdict)) \in Row
    BY <2>1, FlushType
  <2> QED
    BY <1>0, <1>5, <2>2 DEF Finish
<1>6. ASSUME NEW j \in Jobs, Abort(j)
      PROVE  BackendTypeOK' /\ Judged'
  BY <1>0, <1>6, BoundsAssumption DEF Abort
<1>7. CASE Restart
  BY <1>0, <1>7, BoundsAssumption DEF Restart
<1> QED
  BY <1>1, <1>2, <1>3, <1>4, <1>5, <1>6, <1>7 DEF BackendStep
-----------------------------------------------------------------------------
\* The queue holds queued jobs, each once.
QueueInv ==
  /\ \A i \in 1 .. Len(queue) : task[queue[i]].pc = "queued"
  /\ \A h, i \in 1 .. Len(queue) : queue[h] = queue[i] => h = i

LEMMA BackendInitQueue == BackendInit => QueueInv
BY DEF BackendInit, QueueInv

\* No step of JobBackend lets a job into the queue twice, or leaves one there
\* whose task is not waiting for it.
LEMMA BackendQueueStep ==
  ASSUME BackendTypeOK, QueueInv, BackendStep \/ Restart
  PROVE  QueueInv'
<1> USE DEF BackendTypeOK
<1>1. CASE LoadJob
  <2>1. Head(queue) = queue[1] /\ 1 \in 1 .. Len(queue) /\ queue[1] \in Jobs
    BY <1>1 DEF LoadJob
  <2>2. \A i \in 1 .. Len(queue') : queue'[i] = queue[i + 1] /\ i + 1 \in 1 .. Len(queue)
    BY <1>1 DEF LoadJob
  <2>3. \A i \in 1 .. Len(queue') : queue'[i] # Head(queue) /\ queue'[i] \in Jobs
    <3> SUFFICES ASSUME NEW i \in 1 .. Len(queue')
                 PROVE  queue'[i] # Head(queue) /\ queue'[i] \in Jobs
      OBVIOUS
    <3>1. queue'[i] = queue[i + 1] /\ i + 1 \in 1 .. Len(queue) /\ i + 1 # 1
      BY <2>2, <1>1 DEF LoadJob
    <3>2. queue[i + 1] # queue[1]
      BY <3>1, <2>1 DEF QueueInv
    <3>3. queue[i + 1] \in Jobs
      BY <3>1
    <3> QED
      BY <2>1, <3>1, <3>2, <3>3
  <2> QED
    BY <1>1, <2>2, <2>3 DEF LoadJob, QueueInv
<1>2. ASSUME NEW j \in Jobs, SubmitJob(j)
      PROVE  QueueInv'
  <2>1. /\ Len(queue') = Len(queue) + 1
        /\ \A i \in 1 .. Len(queue) :
             queue'[i] = queue[i] /\ queue[i] \in Jobs /\ queue[i] # j
        /\ queue'[Len(queue) + 1] = j
    BY <1>2 DEF SubmitJob, QueueInv
  <2> QED
    BY <1>2, <2>1 DEF SubmitJob, QueueInv
<1>3. ASSUME NEW j \in Jobs, CreateJob(j) \/ MarkProcessing(j) \/ Finish(j) \/ Abort(j)
      PROVE  QueueInv'
  BY <1>3 DEF CreateJob, MarkProcessing, Finish, Abort, QueueInv
<1>4. CASE Restart
  BY <1>4 DEF Restart, QueueInv
<1> QED
  BY <1>1, <1>2, <1>3, <1>4 DEF BackendStep
=============================================================================
