---------------------------- MODULE BackgroundJobs ----------------------------
(***************************************************************************)
(* Jobs that a replica of the API runs beside its requests, from a timer   *)
(* and in its own memory: the prewarming of a new comparison               *)
(* (comparison-prewarm.service.ts) and the exports of its report           *)
(* (report-export-jobs.service.ts), asked for under a rate limit.  Their   *)
(* rows are all that survives the replica.                                 *)
(*                                                                         *)
(* A statement may fail, and may fail although it took effect.  Contents   *)
(* of reports, error messages and the reading requests, which change       *)
(* nothing, are left out.                                                  *)
(***************************************************************************)
EXTENDS RateLimit, FiniteSets

CONSTANTS
  Exports,       \* ids of report_export_jobs, all of one comparison
  Prewarm,       \* the id of its comparison_prewarm_job
  Combinations   \* requests of the prewarming, PREWARM_COMBINATIONS per line item

ASSUME JobAssumption ==
  /\ Prewarm \notin Exports
  /\ IsFiniteSet(Exports)
  /\ "nobody" \notin Counters
  /\ Combinations \in Nat \ {0}

Jobs == Exports \union {Prewarm}

VARIABLES
  comparison, \* whether it is there
  job,        \* the rows of both tables
  work,       \* what a replica has under way for a job
  admission   \* ghost: the counter that let the request of an export in, and when

vars == <<counter, comparison, job, work, admission>>

NoRow == [status |-> "none"]
GoneRow == [status |-> "gone"]
Status == {"pending", "running", "completed", "failed"}
ExportRow == [status : Status]
PrewarmRow == [status : Status, warmed : 0..Combinations, failed : 0..Combinations]

HasRow(j) == job[j].status \in Status

\* Returned: the function came to its end.  Lost: its replica restarted, or a
\* promise that nobody awaits was rejected.
Idle == [step |-> "idle"]
Returned == [step |-> "returned"]
Lost == [step |-> "lost"]
ExportSteps == {"posting", "queued", "marking", "generating", "storing", "failing"}
ExportWork == [step : ExportSteps, at : Replicas]
PrewarmSteps == {"queued", "marking", "resolving", "failing"}
PrewarmWork ==
  [step : PrewarmSteps, at : Replicas, warmed : 0..Combinations, failed : 0..Combinations]

UnderWay(j) == work[j] \notin {Idle, Returned, Lost}
At(j, step) == work[j].step = step

\* An admission is forgotten when it is as old as a window.
NoAdmission == [by |-> "nobody", age |-> 0]
Admission == [by : Counters, age : 0..(Window - 1)]

TypeOK ==
  /\ counter \in [Counters -> Counter]
  /\ comparison \in {"absent", "saved", "deleted"}
  /\ job \in [Jobs -> {NoRow, GoneRow} \union ExportRow \union PrewarmRow]
  /\ job[Prewarm] \in {NoRow, GoneRow} \union PrewarmRow
  /\ \A e \in Exports : job[e] \in {NoRow, GoneRow} \union ExportRow
  /\ work \in [Jobs -> {Idle, Returned, Lost} \union ExportWork \union PrewarmWork]
  /\ work[Prewarm] \in {Idle, Returned, Lost} \union PrewarmWork
  /\ \A e \in Exports : work[e] \in {Idle, Returned, Lost} \union ExportWork
  /\ admission \in [Exports -> Admission \union {NoAdmission}]

Init ==
  /\ CounterInit
  /\ comparison = "absent"
  /\ job = [j \in Jobs |-> NoRow]
  /\ work = [j \in Jobs |-> Idle]
  /\ admission = [e \in Exports |-> NoAdmission]

Becomes(j, record) == work' = [work EXCEPT ![j] = record]
Moves(j, step) == work' = [work EXCEPT ![j].step = step]
Row(j, record) == job' = [job EXCEPT ![j] = record]

-----------------------------------------------------------------------------
(* Asking for an export.                                                   *)

\* createExportJob of the controller, up to the answer of the limiter; a
\* request that is turned away may come again
AskedBy(e, p, k, admitted) ==
  /\ work[e] = Idle
  /\ comparison # "absent"
  /\ IF admitted
     THEN /\ Becomes(e, [step |-> "posting", at |-> p])
          /\ admission' = [admission EXCEPT ![e] = [by |-> k, age |-> 0]]
     ELSE UNCHANGED <<work, admission>>
  /\ UNCHANGED <<comparison, job>>

Ask(e, p) ==
  \E admitted \in BOOLEAN :
    \/ ConsumeShared(admitted) /\ AskedBy(e, p, Redis, admitted)
    \/ ConsumeMemory(p, admitted) /\ AskedBy(e, p, p, admitted)

\* createExportJob of the service: the row, then the timer in this replica
Enqueue(e) ==
  /\ At(e, "posting")
  /\ comparison = "saved"
  /\ Row(e, [status |-> "pending"])
  /\ Moves(e, "queued")
  /\ UNCHANGED <<counter, comparison, admission>>

\* No access, no comparison, or an insert that fails, and took effect or not.
Refuse(e) ==
  /\ At(e, "posting")
  /\ \/ UNCHANGED job /\ Becomes(e, Returned)
     \/ comparison = "saved" /\ Row(e, [status |-> "pending"]) /\ Becomes(e, Lost)
  /\ UNCHANGED <<counter, comparison, admission>>

-----------------------------------------------------------------------------
(* processExportJob                                                        *)

\* The row as it is; nothing is done for one that is settled or gone.
Read(e) ==
  /\ e \in Exports /\ At(e, "queued")
  /\ IF job[e].status \in {"pending", "running"} THEN Moves(e, "marking") ELSE Becomes(e, Returned)
  /\ UNCHANGED <<counter, comparison, job, admission>>

\* Mutant: "AND status = 'running'" instead of 'pending'.
StartedFromRunning(j) ==
  IF job[j].status = "running" THEN [job EXCEPT ![j].status = "running"] ELSE job

\* The update is guarded by AND status = 'pending'.
Started(j) ==
  IF job[j].status = "pending" THEN [job EXCEPT ![j].status = "running"] ELSE job

\* markReportExportJobRunning
MarkRunning(e) ==
  /\ e \in Exports /\ At(e, "marking")
  /\ job' = Started(e)
  /\ Moves(e, "generating")
  /\ UNCHANGED <<counter, comparison, admission>>

\* Mutant: an error of the generator is caught and forgotten, the row left as it is.
GenerateSwallowed(e) ==
  /\ At(e, "generating")
  /\ \/ HasRow(e) /\ Moves(e, "storing")
     \/ Becomes(e, Returned)
  /\ UNCHANGED <<counter, comparison, job, admission>>

\* getComparison, getDataHealth and generate, which fails or not
Generate(e) ==
  /\ At(e, "generating")
  /\ \/ HasRow(e) /\ Moves(e, "storing")
     \/ Moves(e, "failing")
  /\ UNCHANGED <<counter, comparison, job, admission>>

Completed(e) ==
  IF HasRow(e) THEN [job EXCEPT ![e].status = "completed"] ELSE job

\* completeReportExportJob: an error, before or after it took effect, leads
\* to the catch block.
Complete(e) ==
  /\ At(e, "storing")
  /\ \/ job' = Completed(e) /\ Becomes(e, Returned)
     \/ job' \in {job, Completed(e)} /\ Moves(e, "failing")
  /\ UNCHANGED <<counter, comparison, admission>>

FailedExport(e) == IF HasRow(e) THEN [job EXCEPT ![e].status = "failed"] ELSE job

\* failReportExportJob; should it fail as well, nobody awaits the promise.
Fail(e) ==
  /\ e \in Exports /\ At(e, "failing")
  /\ \/ job' = FailedExport(e) /\ Becomes(e, Returned)
     \/ job' \in {job, FailedExport(e)} /\ Becomes(e, Lost)
  /\ UNCHANGED <<counter, comparison, admission>>

\* Reading or marking fails outside the try block.
Reject(e) ==
  /\ e \in Exports
  /\ \/ At(e, "queued") /\ UNCHANGED job
     \/ At(e, "marking") /\ job' \in {job, Started(e)}
  /\ Becomes(e, Lost)
  /\ UNCHANGED <<counter, comparison, admission>>

ExportStep(e) ==
  \/ Enqueue(e) \/ Refuse(e) \/ Read(e) \/ MarkRunning(e) \/ Generate(e) \/ Complete(e)
  \/ Fail(e) \/ Reject(e)

-----------------------------------------------------------------------------
(* processComparison                                                       *)

\* createComparison saves the comparison, and then calls enqueue.
CreateComparison(p) ==
  /\ comparison = "absent"
  /\ comparison' = "saved"
  /\ Becomes(Prewarm, [step |-> "queued", at |-> p, warmed |-> 0, failed |-> 0])
  /\ UNCHANGED <<counter, job, admission>>

NewPrewarm == [status |-> "pending", warmed |-> 0, failed |-> 0]

\* createComparisonPrewarmJob; without its answer there is no job to finish.
CreatePrewarm ==
  /\ At(Prewarm, "queued")
  /\ \/ comparison = "saved" /\ Row(Prewarm, NewPrewarm) /\ Moves(Prewarm, "marking")
     \/ UNCHANGED job /\ Becomes(Prewarm, Returned)
     \/ comparison = "saved" /\ Row(Prewarm, NewPrewarm) /\ Becomes(Prewarm, Lost)
  /\ UNCHANGED <<counter, comparison, admission>>

\* markComparisonPrewarmJobRunning, inside the try block
MarkPrewarm ==
  /\ At(Prewarm, "marking")
  /\ \/ job' = Started(Prewarm) /\ Moves(Prewarm, "resolving")
     \/ job' \in {job, Started(Prewarm)} /\ Moves(Prewarm, "failing")
  /\ UNCHANGED <<counter, comparison, admission>>

Resolved == work[Prewarm].warmed + work[Prewarm].failed

\* resolveRate: one combination after the other, a failure is only counted
Resolve ==
  /\ At(Prewarm, "resolving")
  /\ Resolved < Combinations
  /\ \/ Becomes(Prewarm, [work[Prewarm] EXCEPT !.warmed = @ + 1])
     \/ Becomes(Prewarm, [work[Prewarm] EXCEPT !.failed = @ + 1])
  /\ UNCHANGED <<counter, comparison, job, admission>>

Finished(status, failed) ==
  IF HasRow(Prewarm)
  THEN [job EXCEPT ![Prewarm] = [status |-> status, warmed |-> work[Prewarm].warmed, failed |-> failed]]
  ELSE job

Outcome == IF work[Prewarm].warmed = 0 /\ work[Prewarm].failed > 0 THEN "failed" ELSE "completed"

\* finishComparisonPrewarmJob
FinishPrewarm ==
  /\ At(Prewarm, "resolving")
  /\ Resolved = Combinations
  /\ LET finished == Finished(Outcome, work[Prewarm].failed) IN
       \/ job' = finished /\ Becomes(Prewarm, Returned)
       \/ job' \in {job, finished} /\ Moves(Prewarm, "failing")
  /\ UNCHANGED <<counter, comparison, admission>>

\* Mutant: only the failures counted so far are reported.
FailPrewarmCounted ==
  /\ At(Prewarm, "failing")
  /\ LET finished == Finished("failed", work[Prewarm].failed) IN
       \/ job' = finished /\ Becomes(Prewarm, Returned)
       \/ job' \in {job, finished} /\ Becomes(Prewarm, Lost)
  /\ UNCHANGED <<counter, comparison, admission>>

\* The catch block: what was not warmed is reported as failed.
FailPrewarm ==
  /\ At(Prewarm, "failing")
  /\ LET finished == Finished("failed", Combinations - work[Prewarm].warmed) IN
       \/ job' = finished /\ Becomes(Prewarm, Returned)
       \/ job' \in {job, finished} /\ Becomes(Prewarm, Lost)
  /\ UNCHANGED <<counter, comparison, admission>>

PrewarmStep ==
  CreatePrewarm \/ MarkPrewarm \/ Resolve \/ FinishPrewarm \/ FailPrewarm

-----------------------------------------------------------------------------
(* The environment.                                                        *)

\* The comparison is deleted, and its jobs with it.
DeleteComparison ==
  /\ comparison = "saved"
  /\ comparison' = "deleted"
  /\ job' = [j \in Jobs |-> IF HasRow(j) THEN GoneRow ELSE job[j]]
  /\ UNCHANGED <<counter, work, admission>>

\* The requests that the counter k let in no longer count for anything.
Disowned(k) == [e \in Exports |-> IF admission[e].by = k THEN NoAdmission ELSE admission[e]]

\* A replica ends, with its requests, its timers and its buckets.
Restart(p) ==
  /\ work' = [j \in Jobs |-> IF UnderWay(j) /\ work[j].at = p THEN Lost ELSE work[j]]
  /\ Forget(p)
  /\ admission' = Disowned(p)
  /\ UNCHANGED <<comparison, job>>

Aged(a) == IF a.by \in Counters /\ a.age + 1 < Window THEN [a EXCEPT !.age = @ + 1]
           ELSE NoAdmission

Tick ==
  /\ TimePasses
  /\ admission' = [e \in Exports |-> Aged(admission[e])]
  /\ UNCHANGED <<comparison, job, work>>

Next ==
  \/ \E e \in Exports, p \in Replicas : Ask(e, p)
  \/ \E e \in Exports : ExportStep(e)
  \/ \E p \in Replicas : CreateComparison(p)
  \/ PrewarmStep
  \/ DeleteComparison
  \/ \E p \in Replicas : Restart(p)
  \/ Tick

Spec == Init /\ [][Next]_vars

-----------------------------------------------------------------------------
(* Properties                                                              *)

Life == INSTANCE JobLife WITH status <- [j \in Jobs |-> job[j].status]

\* Whatever statements fail after they took effect, and whatever restarts or
\* deletions come between, the rows of both kinds of jobs show a life that
\* JobLife allows: no job is completed that was not running, a failed one is
\* not taken up again (processExportJob, processComparison).
ImplementsJobLife == Life!Spec

\* A job is left unfinished only by a restart of its replica or a statement
\* that failed: the function never ends quietly with the row pending or
\* running (processExportJob, processComparison, their catch blocks).
UnfinishedIsWorkedOn ==
  \A j \in Jobs : job[j].status \in {"pending", "running"} => UnderWay(j) \/ work[j] = Lost

\* The counts of a settled prewarming add up to what was asked for, also when
\* the catch block writes them after a part was done, and a completed one has
\* warmed something (finishComparisonPrewarmJob, "status" in processComparison).
PrewarmAddsUp ==
  job[Prewarm].status \in {"completed", "failed"} =>
    /\ job[Prewarm].warmed + job[Prewarm].failed = Combinations
    /\ job[Prewarm].status = "completed" => job[Prewarm].warmed > 0

\* The exports that one counter let in within its current window.
InWindow(k) ==
  {e \in Exports : /\ admission[e].by = k
                   /\ counter[k].left > 0
                   /\ admission[e].age + counter[k].left <= Window}

\* Within one window a counter lets in as many exports as the limit says,
\* with replicas that share it, fall back to their own and come back
\* (consume, evaluate, consumeFromMemory).
WindowHonoured == \A k \in Counters : Cardinality(InWindow(k)) <= Limit

\* Two windows back to back let in twice the limit, and no more: admissions
\* are forgotten when they are as old as a window.
TwiceAtMost ==
  \A k \in Counters :
    Cardinality({e \in Exports : admission[e].by = k}) <= 2 * Limit

\* Every count has a window that comes to its end, so an address over its
\* limit is let in again: no failure leaves a count without one ("that
\* identity is locked out permanently", rate-limit.service.ts).
NeverLockedOut == \A k \in Counters : counter[k].count > 0 => counter[k].left > 0

\* A completed job stays completed ("completed --> [*]", docs/DIAGRAMS.md),
\* unless its comparison is deleted.
CompletedIsFinal ==
  [][\A j \in Jobs : job[j].status = "completed" => job'[j].status \in {"completed", "gone"}]_vars

\* What CompletedIsFinal takes: no statement that completes a job fails after
\* it took effect.  The code does not ensure it, pool.query in
\* completeReportExportJob and finishComparisonPrewarmJob may lose the answer.
CompletionsAnswered ==
  \A j \in Jobs :
    job[j].status # "completed" /\ job'[j].status = "completed" => work'[j].step # "failing"

=============================================================================
