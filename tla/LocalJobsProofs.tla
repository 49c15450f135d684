--------------------------- MODULE LocalJobsProofs ---------------------------
(***************************************************************************)
(* LocalJobs for any set of jobs, any pool and any number of faults: types,*)
(* consistent rows, completed jobs that are stored, a queue that holds each*)
(* job once, ended jobs that never change, and the refinement of the job   *)
(* lifecycle.                                                              *)
(*                                                                         *)
(* The inductive invariant ties the row of a job to the progress of its    *)
(* task: until the final commit a session's copy IS the row, because       *)
(* nobody else writes it.  A job is in the queue at most once and only     *)
(* while its task is "queued"; without that a second processing could      *)
(* begin and the tie would break.                                          *)
(***************************************************************************)
EXTENDS LocalJobs, JobBackendProofs, FiniteSetTheorems

\* The row is what the progress of the task says.
RowOf(j) ==
  /\ task[j].pc = "idle" => jobs[j] = NoRow
  /\ task[j].pc \in {"inserted", "queued"} => jobs[j] = QueuedRow
  /\ task[j].pc = "loaded" => jobs[j] = QueuedRow /\ task[j].loaded = QueuedRow
  /\ task[j].pc \in {"running", "cli", "uploading", "final"} =>
       jobs[j] = ProcessingRow /\ task[j].loaded = ProcessingRow
  /\ task[j].pc = "final" => task[j].verdict \in {"completed"} \cup Errors
  /\ task[j].pc = "done" => jobs[j].status # "absent" /\ Consistent(jobs[j])
  /\ task[j].pc = "done" /\ faults = 0 => jobs[j].status \in Terminal

\* A completed job, or one about to be, is stored.
StoredOf(j) ==
  (jobs[j].status = "completed" \/ (task[j].pc = "final" /\ task[j].verdict = "completed"))
     => j \in stored

LocalInv ==
  /\ TypeOK
  /\ Judged
  /\ QueueInv
  /\ \A j \in Jobs : RowOf(j) /\ StoredOf(j)

-----------------------------------------------------------------------------
\* The two rows before the final commit are open and consistent.
LEMMA OpenRows ==
  /\ NoRow.status = "absent" /\ Consistent(NoRow)
  /\ QueuedRow.status = "queued" /\ Consistent(QueuedRow)
  /\ ProcessingRow.status = "processing" /\ Consistent(ProcessingRow)
BY DEF NoRow, QueuedRow, ProcessingRow, Consistent, Terminal

LEMMA LocalInit == Init => LocalInv
<1> SUFFICES ASSUME Init PROVE LocalInv
  OBVIOUS
<1>1. BackendTypeOK /\ Judged
  BY BackendInitType DEF Init
<1>2. QueueInv
  BY BackendInitQueue DEF Init
<1> QED
  BY <1>1, <1>2, OpenRows
     DEF Init, BackendInit, LocalInv, TypeOK, RowOf, StoredOf, IdleTask

\* Every step keeps the invariant.
LEMMA LocalStep == LocalInv /\ [Next]_vars => LocalInv'
<1> SUFFICES ASSUME LocalInv, [Next]_vars PROVE LocalInv'
  OBVIOUS
<1> USE DEF LocalInv, TypeOK
<1> DEFINE Rest == \A j \in Jobs : (RowOf(j) /\ StoredOf(j))'
<1>0. BackendTypeOK /\ Judged /\ QueueInv
  OBVIOUS
<1>1. CASE LoadJob /\ UNCHANGED stored
  <2>1. BackendTypeOK' /\ Judged'
    BY <1>0, <1>1, BackendStepType DEF BackendStep
  <2>h. Head(queue) = queue[1] /\ 1 \in 1 .. Len(queue) /\ queue[1] \in Jobs
    BY <1>1 DEF LoadJob, BackendTypeOK
  <2>2. Head(queue) \in Jobs /\ task[Head(queue)].pc = "queued"
    BY <2>h DEF QueueInv
  <2>5. QueueInv'
    BY <1>0, <1>1, BackendQueueStep DEF BackendStep
  <2>6. Rest
    BY <1>1, <2>2 DEF LoadJob, BackendTypeOK, RowOf, StoredOf
  <2> QED
    BY <1>1, <2>1, <2>5, <2>6
<1>2. ASSUME NEW j \in Jobs, CreateJob(j), UNCHANGED stored
      PROVE  LocalInv'
  <2>1. BackendTypeOK' /\ Judged'
    BY <1>0, <1>2, BackendStepType DEF BackendStep
  <2>2. QueueInv'
    BY <1>0, <1>2, BackendQueueStep DEF BackendStep
  <2>3. Rest
    BY <1>2, OpenRows DEF CreateJob, BackendTypeOK, RowOf, StoredOf
  <2> QED
    BY <1>2, <2>1, <2>2, <2>3
<1>3. ASSUME NEW j \in Jobs, SubmitJob(j), UNCHANGED stored
      PROVE  LocalInv'
  <2>1. BackendTypeOK' /\ Judged'
    BY <1>0, <1>3, BackendStepType DEF BackendStep
  <2>3. QueueInv'
    BY <1>0, <1>3, BackendQueueStep DEF BackendStep
  <2>4. Rest
    BY <1>3 DEF SubmitJob, BackendTypeOK, RowOf, StoredOf
  <2> QED
    BY <1>3, <2>1, <2>3, <2>4
<1>4. ASSUME NEW j \in Jobs, MarkProcessing(j), UNCHANGED stored
      PROVE  LocalInv'
  <2>1. BackendTypeOK' /\ Judged'
    BY <1>0, <1>4, BackendStepType DEF BackendStep
  <2>2. QueueInv'
    BY <1>0, <1>4, BackendQueueStep DEF BackendStep
  <2>3. jobs[j] = QueuedRow /\ task[j].loaded = QueuedRow
    BY <1>4 DEF MarkProcessing, RowOf
  <2>4. Flush(QueuedRow, QueuedRow, ProcessingRow) = ProcessingRow
    BY FlushCurrent, RowConstants
  <2>5. jobs' = [jobs EXCEPT ![j] = ProcessingRow]
    BY <1>4, <2>3, <2>4 DEF MarkProcessing, ProcessingRow
  <2>6. task' = [task EXCEPT ![j].pc = "running", ![j].loaded = ProcessingRow]
    BY <1>4, <2>3 DEF MarkProcessing, ProcessingRow
  <2>7. faults' = faults
    BY <1>4 DEF MarkProcessing
  <2>8. Rest
    BY <1>4, <2>5, <2>6, <2>7, OpenRows DEF BackendTypeOK, RowOf, StoredOf
  <2> QED
    BY <1>4, <2>1, <2>2, <2>8
<1>5. ASSUME NEW j \in Jobs, Finish(j), UNCHANGED stored
      PROVE  LocalInv'
  <2> DEFINE last == WorkerWrites(ProcessingRow, task[j].verdict)
  <2>1. BackendTypeOK' /\ Judged'
    BY <1>0, <1>5, BackendStepType DEF BackendStep
  <2>2. QueueInv'
    BY <1>0, <1>5, BackendQueueStep DEF BackendStep
  <2>3. /\ jobs[j] = ProcessingRow /\ task[j].loaded = ProcessingRow
        /\ task[j].verdict \in {"completed"} \cup Errors
    BY <1>5 DEF Finish, RowOf
  <2>4. last \in Row
    BY <2>3, WorkerWritesType, RowConstants DEF Verdicts, Errors
  <2>5. Flush(ProcessingRow, ProcessingRow, last) = last
    BY <2>4, FlushCurrent, RowConstants
  <2>6. jobs' = [jobs EXCEPT ![j] = last]
    BY <1>5, <2>3, <2>5 DEF Finish
  <2>7. Consistent(last) /\ last.status \in Terminal /\ last.status # "absent"
        /\ (last.status = "completed" => task[j].verdict = "completed")
    BY <2>3, WorkerWritesConsistent DEF Terminal
  <2>8. Rest
    BY <1>5, <2>6, <2>7 DEF Finish, BackendTypeOK, RowOf, StoredOf
  <2> QED
    BY <1>5, <2>1, <2>2, <2>8
<1>6. ASSUME NEW j \in Jobs, Abort(j), UNCHANGED stored
      PROVE  LocalInv'
  <2>1. BackendTypeOK' /\ Judged'
    BY <1>0, <1>6, BackendStepType DEF BackendStep
  <2>2. QueueInv'
    BY <1>0, <1>6, BackendQueueStep DEF BackendStep
  <2>3. Rest
    BY <1>6, OpenRows DEF Abort, BackendTypeOK, RowOf, StoredOf
  <2> QED
    BY <1>6, <2>1, <2>2, <2>3
<1>7. CASE Restart /\ UNCHANGED stored
  <2>1. BackendTypeOK' /\ Judged'
    BY <1>0, <1>7, BackendStepType
  <2>2. QueueInv'
    BY <1>0, <1>7, BackendQueueStep
  <2>3. Rest
    BY <1>7, OpenRows DEF Restart, BackendTypeOK, RowOf, StoredOf, PCs, Busy
  <2> QED
    BY <1>7, <2>1, <2>2, <2>3
<1>8. ASSUME NEW j \in Jobs, RunScience(j)
      PROVE  LocalInv'
  <2>1. PICK v \in {"uploading", "SCIENCE", "GENERIC"} :
          task' = IF v = "uploading" THEN [task EXCEPT ![j].pc = "uploading"]
                  ELSE [task EXCEPT ![j].pc = "final", ![j].verdict = v]
    BY <1>8 DEF RunScience, Conclude
  <2>2. BackendTypeOK' /\ Judged'
    BY <1>8, <2>1 DEF RunScience, BackendTypeOK, Judged, PCs, Busy, Verdicts, Errors
  <2>3. QueueInv'
    BY <1>8, <2>1 DEF RunScience, QueueInv, BackendTypeOK
  <2>4. Rest
    BY <1>8, <2>1, OpenRows DEF RunScience, BackendTypeOK, RowOf, StoredOf, Errors
  <2> QED
    BY <1>8, <2>2, <2>3, <2>4 DEF RunScience
<1>9. ASSUME NEW j \in Jobs, Upload(j)
      PROVE  LocalInv'
  <2>1. PICK v \in {"completed", "DRIVE", "GENERIC"} :
          /\ task' = [task EXCEPT ![j].pc = "final", ![j].verdict = v]
          /\ stored' \in {stored, stored \cup {j}}
          /\ v = "completed" => stored' = stored \cup {j}
    BY <1>9 DEF Upload, Conclude
  <2>2. BackendTypeOK' /\ Judged' /\ stored' \subseteq Jobs
    BY <1>9, <2>1 DEF Upload, BackendTypeOK, Judged, PCs, Busy, Verdicts, Errors
  <2>3. QueueInv'
    BY <1>9, <2>1 DEF Upload, QueueInv, BackendTypeOK
  <2>4. Rest
    BY <1>9, <2>1, OpenRows DEF Upload, BackendTypeOK, RowOf, StoredOf, Errors
  <2> QED
    BY <2>2, <2>3, <2>4
<1>10. CASE UNCHANGED vars
  BY <1>10 DEF vars, backend, BackendTypeOK, Judged, QueueInv, RowOf, StoredOf
<1> QED
  BY <1>1, <1>2, <1>3, <1>4, <1>5, <1>6, <1>7, <1>8, <1>9, <1>10
     DEF Next, BackendStep

\* The invariant holds in every reachable state.
LEMMA LocalInvariance == Spec => []LocalInv
BY LocalInit, LocalStep, PTL DEF Spec

-----------------------------------------------------------------------------
\* Every variable keeps its type.
THEOREM LocalTypes == Spec => []TypeOK
BY LocalInvariance, PTL DEF LocalInv

\* The invariant's ties give the two state properties.
LEMMA LocalConsequences ==
  LocalInv => RowConsistent /\ CompletedIsStored /\ OpenIsCarried
<1> SUFFICES ASSUME LocalInv, NEW j \in Jobs
             PROVE  /\ Consistent(jobs[j])
                    /\ jobs[j].status = "completed" => j \in stored
                    /\ faults = 0 /\ jobs[j].status \in Open => Carried(j)
  BY DEF RowConsistent, CompletedIsStored, OpenIsCarried
<1>1. task[j].pc \in PCs
  BY DEF LocalInv, TypeOK, BackendTypeOK
<1> QED
  BY <1>1, OpenRows
     DEF LocalInv, RowOf, StoredOf, PCs, Busy, Carried, Open, Terminal

\* The columns of a row agree, whatever failed or died before.
THEOREM LocalRowConsistent == Spec => []RowConsistent
BY LocalInvariance, LocalConsequences, PTL

\* A completed job's package is in the drive.
THEOREM LocalCompletedIsStored == Spec => []CompletedIsStored
BY LocalInvariance, LocalConsequences, PTL

\* Without faults no open job is forgotten.
THEOREM LocalOpenIsCarried == Spec => []OpenIsCarried
BY LocalInvariance, LocalConsequences, PTL

-----------------------------------------------------------------------------
\* The jobs a thread of the pool is busy with.
Working == {j \in Jobs : task[j].pc \in Busy}

\* A waiting task is in the queue, and the pool is within its limit.
PoolInv ==
  /\ \A j \in Jobs : task[j].pc = "queued" => \E i \in 1 .. Len(queue) : queue[i] = j
  /\ IsFiniteSet(Working)
  /\ Cardinality(Working) <= MaxWorkers

\* A step that starts no job keeps the pool within its limit.
LEMMA PoolShrinks ==
  ASSUME PoolInv, Working' \subseteq Working
  PROVE  IsFiniteSet(Working') /\ Cardinality(Working') <= MaxWorkers
<1>1. /\ IsFiniteSet(Working') /\ Cardinality(Working') <= Cardinality(Working)
  BY FS_Subset DEF PoolInv
<1>2. Cardinality(Working) \in Nat /\ Cardinality(Working') \in Nat
  BY <1>1, FS_CardinalityType DEF PoolInv
<1> QED
  BY <1>1, <1>2, BoundsAssumption DEF PoolInv

LEMMA PoolInit == Init => PoolInv
<1> SUFFICES ASSUME Init PROVE PoolInv
  OBVIOUS
<1>1. Working = {}
  BY DEF Init, BackendInit, Working, IdleTask, Busy
<1> QED
  BY <1>1, FS_EmptySet, BoundsAssumption DEF PoolInv, Init, BackendInit, IdleTask

\* The thread that takes a job was free; every other step starts none.
LEMMA PoolStep == LocalInv /\ PoolInv /\ [Next]_vars => PoolInv'
<1> SUFFICES ASSUME LocalInv, PoolInv, [Next]_vars PROVE PoolInv'
  OBVIOUS
<1> USE DEF LocalInv, TypeOK, BackendTypeOK
<1> DEFINE Listed == \A j \in Jobs : task[j].pc = "queued" =>
                                     \E i \in 1 .. Len(queue) : queue[i] = j
<1>1. CASE LoadJob
  <2> DEFINE h == Head(queue)
  <2>1. h = queue[1] /\ h \in Jobs /\ Len(queue) \in Nat \ {0}
    BY <1>1 DEF LoadJob
  <2>2. \A i \in 2 .. Len(queue) : i - 1 \in 1 .. Len(queue') /\ queue'[i - 1] = queue[i]
    BY <1>1, <2>1 DEF LoadJob
  <2>3. Listed'
    <3> SUFFICES ASSUME NEW j \in Jobs, task'[j].pc = "queued"
                 PROVE  \E i \in 1 .. Len(queue') : queue'[i] = j
      OBVIOUS
    <3>1. j # h /\ task[j].pc = "queued"
      BY <1>1, <2>1 DEF LoadJob
    <3>2. PICK i \in 1 .. Len(queue) : queue[i] = j
      BY <3>1 DEF PoolInv
    <3>3. i \in 2 .. Len(queue)
      BY <3>1, <3>2, <2>1
    <3> QED
      BY <3>2, <3>3, <2>2
  <2>4. Working' \subseteq Working \cup {h}
    BY <1>1, <2>1 DEF LoadJob, Working
  <2>5. Cardinality(Working) < MaxWorkers
    BY <1>1 DEF LoadJob, Working
  <2>6. /\ IsFiniteSet(Working \cup {h})
        /\ Cardinality(Working \cup {h}) \in {Cardinality(Working), Cardinality(Working) + 1}
    BY FS_AddElement DEF PoolInv
  <2>7. IsFiniteSet(Working') /\ Cardinality(Working') <= Cardinality(Working \cup {h})
    BY <2>4, <2>6, FS_Subset
  <2>8. Cardinality(Working) \in Nat /\ Cardinality(Working') \in Nat
    BY <2>7, FS_CardinalityType DEF PoolInv
  <2>9. Cardinality(Working') <= MaxWorkers
    BY <2>5, <2>6, <2>7, <2>8, BoundsAssumption
  <2> QED
    BY <2>3, <2>7, <2>9 DEF PoolInv
<1>2. ASSUME NEW j \in Jobs, SubmitJob(j)
      PROVE  PoolInv'
  <2>1. /\ Len(queue') = Len(queue) + 1 /\ queue'[Len(queue) + 1] = j
        /\ \A i \in 1 .. Len(queue) : i \in 1 .. Len(queue') /\ queue'[i] = queue[i]
        /\ Len(queue) + 1 \in 1 .. Len(queue')
    BY <1>2 DEF SubmitJob
  <2>2. Listed'
    <3> SUFFICES ASSUME NEW k \in Jobs, task'[k].pc = "queued"
                 PROVE  \E i \in 1 .. Len(queue') : queue'[i] = k
      OBVIOUS
    <3>1. CASE k = j
      BY <3>1, <2>1
    <3>2. CASE k # j
      BY <3>2, <2>1, <1>2 DEF SubmitJob, PoolInv
    <3> QED
      BY <3>1, <3>2
  <2>3. Working' \subseteq Working
    BY <1>2 DEF SubmitJob, Working, Busy
  <2> QED
    BY <2>2, <2>3, PoolShrinks DEF PoolInv
<1>3. CASE Restart
  <2>1. Working' \subseteq Working /\ \A j \in Jobs : task'[j].pc # "queued"
    BY <1>3 DEF Restart, Working, Busy
  <2> QED
    BY <2>1, PoolShrinks DEF PoolInv
<1>4. ASSUME NEW j \in Jobs,
             CreateJob(j) \/ MarkProcessing(j) \/ Finish(j) \/ Abort(j)
               \/ RunScience(j) \/ Upload(j)
      PROVE  PoolInv'
  <2>1. /\ queue' = queue
        /\ \A k \in Jobs : task'[k].pc = "queued" => task[k].pc = "queued"
    BY <1>4 DEF CreateJob, MarkProcessing, Finish, Abort, RunScience, Upload, Conclude
  <2>2. CASE CreateJob(j) \/ Abort(j) \/ Finish(j)
    <3>1. Working' \subseteq Working
      BY <2>2 DEF CreateJob, Abort, Finish, Working, Busy
    <3> QED
      BY <2>1, <3>1, PoolShrinks DEF PoolInv
  <2>3. CASE MarkProcessing(j) \/ RunScience(j) \/ Upload(j)
    <3>1. /\ task[j].pc \in Busy
          /\ \A k \in Jobs : k # j => task'[k] = task[k]
      BY <2>3 DEF MarkProcessing, RunScience, Upload, Conclude, Busy
    <3>2. Working' \subseteq Working
      BY <3>1 DEF Working
    <3> QED
      BY <2>1, <3>2, PoolShrinks DEF PoolInv
  <2> QED
    BY <1>4, <2>2, <2>3
<1>5. CASE UNCHANGED vars
  BY <1>5 DEF vars, backend, PoolInv, Working
<1> QED
  BY <1>1, <1>2, <1>3, <1>4, <1>5 DEF Next, BackendStep

\* The places of a job in the queue: one while its task waits, none otherwise.
LEMMA PoolConsequences == LocalInv /\ PoolInv => QueuedOnce
<1> SUFFICES ASSUME LocalInv, PoolInv PROVE QueuedOnce
  OBVIOUS
<1>1. ASSUME NEW j \in Jobs
      PROVE  Cardinality({i \in DOMAIN queue : queue[i] = j})
               = IF task[j].pc = "queued" THEN 1 ELSE 0
  <2> DEFINE places == {i \in DOMAIN queue : queue[i] = j}
  <2>1. DOMAIN queue = 1 .. Len(queue)
    BY DEF LocalInv, TypeOK, BackendTypeOK
  <2>2. CASE task[j].pc = "queued"
    <3>1. PICK i \in 1 .. Len(queue) : queue[i] = j
      BY <2>2 DEF PoolInv
    <3>2. places = {i}
      BY <2>1, <3>1 DEF LocalInv, QueueInv
    <3> QED
      BY <2>2, <3>2, FS_Singleton
  <2>3. CASE task[j].pc # "queued"
    <3>1. places = {}
      BY <2>1, <2>3 DEF LocalInv, QueueInv
    <3> QED
      BY <2>3, <3>1, FS_EmptySet
  <2> QED
    BY <2>2, <2>3
<1> QED
  BY <1>1 DEF QueuedOnce, PoolInv, Working

\* Each waiting job is in the queue exactly once and at most MaxWorkers threads
\* are busy, for any number of jobs, restarts and failed database calls.
THEOREM LocalQueuedOnce == Spec => []QueuedOnce
<1>1. LocalInv /\ PoolInv /\ [Next]_vars => (LocalInv /\ PoolInv)'
  BY LocalStep, PoolStep
<1> QED
  BY <1>1, LocalInit, PoolInit, PoolConsequences, PTL DEF Spec

-----------------------------------------------------------------------------
\* How a step may change the outcome a client sees: not at all, or as one of
\* the four actions of the lifecycle.
LEMMA LocalRowSteps ==
  ASSUME LocalInv, [Next]_vars
  PROVE  \/ jobs' = jobs
         \/ \E j \in Jobs, row \in Row :
              /\ jobs' = [jobs EXCEPT ![j] = row]
              /\ \/ jobs[j] = NoRow /\ row = QueuedRow
                 \/ jobs[j] = QueuedRow /\ row = ProcessingRow
                 \/ /\ jobs[j] = ProcessingRow
                    /\ row.status = "completed" /\ row.result = "local" /\ row.error = None
                 \/ /\ jobs[j] = ProcessingRow
                    /\ row.status = "failed" /\ row.result = None /\ row.error \in Errors
<1>1. ASSUME NEW j \in Jobs, CreateJob(j)
      PROVE  jobs[j] = NoRow /\ jobs' = [jobs EXCEPT ![j] = QueuedRow]
  BY <1>1 DEF CreateJob, LocalInv, RowOf
<1>2. ASSUME NEW j \in Jobs, MarkProcessing(j)
      PROVE  jobs[j] = QueuedRow /\ jobs' = [jobs EXCEPT ![j] = ProcessingRow]
  <2>1. jobs[j] = QueuedRow /\ task[j].loaded = QueuedRow
    BY <1>2 DEF MarkProcessing, LocalInv, RowOf
  <2>2. Flush(QueuedRow, QueuedRow, ProcessingRow) = ProcessingRow
    BY FlushCurrent, RowConstants
  <2> QED
    BY <1>2, <2>1, <2>2 DEF MarkProcessing, ProcessingRow
<1>3. ASSUME NEW j \in Jobs, Finish(j)
      PROVE  \E row \in Row :
               /\ jobs' = [jobs EXCEPT ![j] = row] /\ jobs[j] = ProcessingRow
               /\ \/ row.status = "completed" /\ row.result = "local" /\ row.error = None
                  \/ row.status = "failed" /\ row.result = None /\ row.error \in Errors
  <2> DEFINE last == WorkerWrites(ProcessingRow, task[j].verdict)
  <2>1. /\ jobs[j] = ProcessingRow /\ task[j].loaded = ProcessingRow
        /\ task[j].verdict \in {"completed"} \cup Errors
    BY <1>3 DEF Finish, LocalInv, RowOf
  <2>2. last \in Row
    BY <2>1, WorkerWritesType, RowConstants DEF Verdicts, Errors
  <2>3. jobs' = [jobs EXCEPT ![j] = last]
    BY <1>3, <2>1, <2>2, FlushCurrent, RowConstants DEF Finish
  <2>4. \/ last.status = "completed" /\ last.result = "local" /\ last.error = None
        \/ last.status = "failed" /\ last.result = None /\ last.error \in Errors
    BY <2>1, WorkerWritesConsistent
  <2> QED
    BY <2>1, <2>2, <2>3, <2>4
<1> QED
  BY <1>1, <1>2, <1>3, RowConstants
     DEF Next, BackendStep, vars, backend, LoadJob, SubmitJob, Abort, Restart, RunScience, Upload

\* An ended job's row never changes.
THEOREM LocalTerminalStable == Spec => TerminalStable
<1>1. ASSUME LocalInv, [Next]_vars
      PROVE  [\A j \in Jobs : jobs[j].status \in Terminal => jobs'[j] = jobs[j]]_vars
  <2>1. ASSUME NEW j \in Jobs, jobs[j].status \in Terminal
        PROVE  jobs'[j] = jobs[j]
    BY <1>1, <2>1, LocalRowSteps, OpenRows DEF LocalInv, TypeOK, BackendTypeOK, Terminal
  <2> QED
    BY <2>1
<1> QED
  BY <1>1, LocalInvariance, PTL DEF Spec, TerminalStable

\* What clients see of the jobs follows the lifecycle.
THEOREM LocalRefinesLifecycle == Spec => LifecycleSpec
<1> DEFINE view == [j \in Jobs |-> Outcome(jobs[j])]
<1>1. Init => Lifecycle!Init
  BY DEF Init, BackendInit, Lifecycle!Init, Lifecycle!Pending, Outcome, NoRow
<1>2. ASSUME LocalInv, [Next]_vars
      PROVE  [Lifecycle!Next]_view
  <2>1. CASE jobs' = jobs
    BY <2>1
  <2>2. ASSUME NEW j \in Jobs, NEW row \in Row, jobs' = [jobs EXCEPT ![j] = row]
        PROVE  view' = [view EXCEPT ![j] = Outcome(row)]
    BY <2>2, <1>2 DEF LocalInv, TypeOK, BackendTypeOK
  <2>3. ASSUME NEW j \in Jobs, NEW row \in Row, jobs' = [jobs EXCEPT ![j] = row],
               jobs[j] = NoRow, row = QueuedRow
        PROVE  Lifecycle!Accept(j)
    <3>1. Outcome(row) = Lifecycle!Pending("queued")
      BY <2>3 DEF Lifecycle!Pending, Outcome, NoRow, QueuedRow
    <3>2. view[j].status = "absent"
      BY <2>3, OpenRows DEF Outcome
    <3> QED
      BY <2>2, <2>3, <3>1, <3>2 DEF Lifecycle!Accept
  <2>4. ASSUME NEW j \in Jobs, NEW row \in Row, jobs' = [jobs EXCEPT ![j] = row],
               jobs[j] = QueuedRow, row = ProcessingRow
        PROVE  Lifecycle!Begin(j)
    <3>1. Outcome(row) = Lifecycle!Pending("processing")
      BY <2>4 DEF Lifecycle!Pending, Outcome, NoRow, QueuedRow, ProcessingRow
    <3>2. view[j].status = "queued"
      BY <2>4, OpenRows DEF Outcome
    <3> QED
      BY <2>2, <2>4, <3>1, <3>2 DEF Lifecycle!Begin
  <2>5. ASSUME NEW j \in Jobs, NEW row \in Row, jobs' = [jobs EXCEPT ![j] = row],
               jobs[j] = ProcessingRow,
               row.status = "completed", row.result = "local", row.error = None
        PROVE  Lifecycle!Complete(j)
    <3>1. Outcome(row) = [status |-> "completed", result |-> "local", error |-> None]
      BY <2>5 DEF Outcome
    <3>2. view[j].status = "processing"
      BY <2>5, OpenRows DEF Outcome
    <3>3. "local" \in {"local"} \cup Runs
      OBVIOUS
    <3> QED
      BY <2>2, <2>5, <3>1, <3>2, <3>3 DEF Lifecycle!Complete
  <2>6. ASSUME NEW j \in Jobs, NEW row \in Row, jobs' = [jobs EXCEPT ![j] = row],
               jobs[j] = ProcessingRow,
               row.status = "failed", row.result = None, row.error \in Errors
        PROVE  Lifecycle!Fail(j)
    BY <2>2, <2>6, OpenRows DEF Lifecycle!Fail, Outcome
  <2> QED
    BY <1>2, <2>1, <2>3, <2>4, <2>5, <2>6, LocalRowSteps DEF Lifecycle!Next
<1> QED
  BY <1>1, <1>2, LocalInvariance, PTL DEF Spec, LifecycleSpec, Lifecycle!Spec
=============================================================================
