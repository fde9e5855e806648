---------------------------- MODULE TrainingJobs ----------------------------
(***************************************************************************)
(* The training jobs of app/ml_foundation.py: rows of ml_training_jobs     *)
(* that an operator starts, pauses, resumes and cancels.  Training itself  *)
(* is not implemented, so no job ever leaves these statuses by itself.     *)
(* The active job is looked up in one connection and changed in another;   *)
(* the handlers are coroutines that do not wait in between, so in the one  *)
(* server process each of them is a step.                                  *)
(***************************************************************************)
EXTENDS Integers, Sequences

CONSTANT MaxJobs   \* bound on the jobs created

VARIABLE jobs      \* ml_training_jobs: the status of each job, by id

Init == jobs = <<>>

Active == {j \in DOMAIN jobs : jobs[j] \in {"running", "paused"}}

\* active_job: the newest of them (ORDER BY id DESC LIMIT 1).
active_job == CHOOSE j \in Active : \A k \in Active : k <= j

start_training ==
    /\ Active = {} /\ Len(jobs) < MaxJobs
    /\ jobs' = Append(jobs, "running")

\* update_job_status on the active job, if its status allows.
Update(allowed, status) ==
    /\ Active # {} /\ jobs[active_job] \in allowed
    /\ jobs' = [jobs EXCEPT ![active_job] = status]

pause_training == Update({"running"}, "paused")
resume_training == Update({"paused"}, "running")
cancel_training == Update({"running", "paused"}, "cancelled")

Next == start_training \/ pause_training \/ resume_training \/ cancel_training

\* At most one job is running or paused, and it is the newest one: the
\* status page (latest_job) shows the job the buttons (active_job) act on.
ShownJobIsActive == Active \subseteq {Len(jobs)}

\* A cancelled job never runs again.
CancelledStays ==
    \A j \in DOMAIN jobs : jobs[j] = "cancelled" => j \in DOMAIN jobs' /\ jobs'[j] = "cancelled"
=============================================================================
