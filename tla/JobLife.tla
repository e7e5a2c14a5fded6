------------------------------- MODULE JobLife -------------------------------
(***************************************************************************)
(* What the row of a background job may show over time, whoever works on   *)
(* it: the life that 013_report_export_jobs.sql and                        *)
(* 014_comparison_prewarm_jobs.sql leave room for.                         *)
(***************************************************************************)
CONSTANT Jobs

VARIABLE status

Init == status = [j \in Jobs |-> "none"]

Turns(j, from, to) ==
  /\ status[j] \in from
  /\ status' = [status EXCEPT ![j] = to]

Create(j) == Turns(j, {"none"}, "pending")

Start(j) == Turns(j, {"pending"}, "running")

\* Nothing is completed that was not shown as running.
Complete(j) == Turns(j, {"running"}, "completed")

\* A failure is final.  It may replace a completion whose statement was
\* answered with an error after it had taken effect.
Fail(j) == Turns(j, {"pending", "running", "completed"}, "failed")

\* Their comparison is deleted, and the jobs that are there with it.
Delete == status' = [j \in Jobs |-> IF status[j] = "none" THEN "none" ELSE "gone"]

Next == (\E j \in Jobs : Create(j) \/ Start(j) \/ Complete(j) \/ Fail(j)) \/ Delete

Spec == Init /\ [][Next]_status

=============================================================================
