---------------------------- MODULE JobLifecycle ----------------------------
(***************************************************************************)
(* What the jobs API promises the owner of a job, whoever does the work: a *)
(* job moves forward only, it ends once, and what GET /jobs/{job_id} shows *)
(* of an ended job never changes again.                                    *)
(***************************************************************************)
CONSTANTS Jobs, Results, Errors, None

VARIABLE view   \* view[j]: status, result and error as the API answers them

\* A view without an outcome.
Pending(status) == [status |-> status, result |-> None, error |-> None]

Init == view = [j \in Jobs |-> Pending("absent")]

Accept(j) ==
  /\ view[j].status = "absent"
  /\ view' = [view EXCEPT ![j] = Pending("queued")]

Begin(j) ==
  /\ view[j].status = "queued"
  /\ view' = [view EXCEPT ![j] = Pending("processing")]

\* Open jobs end, either way, at most once; a queued job may end without ever
\* being seen processing.
Complete(j) ==
  /\ view[j].status \in {"queued", "processing"}
  /\ \E r \in Results :
        view' = [view EXCEPT ![j] = [status |-> "completed", result |-> r, error |-> None]]

Fail(j) ==
  /\ view[j].status \in {"queued", "processing"}
  /\ \E e \in Errors :
        view' = [view EXCEPT ![j] = [status |-> "failed", result |-> None, error |-> e]]

Next == \E j \in Jobs : Accept(j) \/ Begin(j) \/ Complete(j) \/ Fail(j)

Spec == Init /\ [][Next]_view
=============================================================================
