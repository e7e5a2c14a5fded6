-------------------------- MODULE BackgroundJobsProofs --------------------------
(***************************************************************************)
(* Proofs about BackgroundJobs.  The inductive invariant has two halves.   *)
(* Of every job it says which rows may stand beside which step of its      *)
(* function; of every counter, that the exports let in within its window   *)
(* are among those it counted, and that those of the window before are     *)
(* forgotten by the time a window comes to its end.  What is completed     *)
(* stays so under one condition on the statements that complete.           *)
(***************************************************************************)
EXTENDS BackgroundJobs, TLAPS, FiniteSetTheorems

Pending == [status |-> "pending"]
Running == [status |-> "running"]
CompletedRow == [status |-> "completed"]
FailedRow == [status |-> "failed"]

\* The work on an export, and the row that may stand beside it.
ExportFits(w, r) ==
  \/ w = Idle /\ r = NoRow
  \/ w = Returned /\ r \in {NoRow, GoneRow, CompletedRow, FailedRow}
  \/ w = Lost /\ r \in {NoRow, GoneRow} \union ExportRow
  \/ w \in ExportWork /\ w.step = "posting" /\ r = NoRow
  \/ w \in ExportWork /\ w.step \in {"queued", "marking"} /\ r \in {GoneRow, Pending}
  \/ w \in ExportWork /\ w.step \in {"generating", "storing"} /\ r \in {GoneRow, Running}
  \/ w \in ExportWork /\ w.step = "failing" /\ r \in {GoneRow, Running, CompletedRow}

Open == {x \in PrewarmRow : x.status \in {"pending", "running"}}

Settled ==
  {x \in PrewarmRow : /\ x.status \in {"completed", "failed"}
                      /\ x.warmed + x.failed = Combinations
                      /\ x.status = "completed" => x.warmed > 0}

\* The same for the prewarming.
PrewarmFits(w, r) ==
  \/ w = Idle /\ r = NoRow
  \/ w = Returned /\ r \in {NoRow, GoneRow} \union Settled
  \/ w = Lost /\ r \in {NoRow, GoneRow} \union Open \union Settled
  \/ /\ w \in PrewarmWork
     /\ w.warmed + w.failed <= Combinations
     /\ \/ w.step = "queued" /\ r = NoRow
        \/ w.step = "marking" /\ r \in {GoneRow} \union Open
        \/ w.step = "resolving" /\ r \in {GoneRow} \union Open /\ r.status # "pending"
        \/ w.step = "failing" /\ r \in {GoneRow} \union Open \union Settled

JobsInv ==
  /\ job = [j \in Jobs |-> job[j]]
  /\ work = [j \in Jobs |-> work[j]]
  /\ \A e \in Exports : ExportFits(work[e], job[e])
  /\ PrewarmFits(work[Prewarm], job[Prewarm])

\* The exports a counter let in before its current window.
Earlier(k) == {e \in Exports : admission[e].by = k} \ InWindow(k)

WindowInv(k) ==
  /\ counter[k] \in Counter
  /\ counter[k].count > 0 <=> counter[k].left > 0
  /\ counter[k].left = 0 => \A e \in Exports : admission[e].by = k => admission[e].age > 0
  /\ Cardinality(InWindow(k)) <= Limit
  /\ Cardinality(InWindow(k)) <= counter[k].count
  /\ Cardinality(Earlier(k)) <= Limit

LimitInv ==
  /\ counter = [k \in Counters |-> counter[k]]
  /\ admission \in [Exports -> Admission \union {NoAdmission}]
  /\ \A k \in Counters : WindowInv(k)

IInv ==
  /\ comparison \in {"absent", "saved", "deleted"}
  /\ comparison = "absent" => work[Prewarm] = Idle
  /\ JobsInv
  /\ LimitInv

-----------------------------------------------------------------------------
(* What the invariant says of the types and of the properties.             *)

LEMMA FitsTypes ==
  /\ \A w, r : ExportFits(w, r) =>
       /\ r \in {NoRow, GoneRow} \union ExportRow
       /\ w \in {Idle, Returned, Lost} \union ExportWork
  /\ \A w, r : PrewarmFits(w, r) =>
       /\ r \in {NoRow, GoneRow} \union PrewarmRow
       /\ w \in {Idle, Returned, Lost} \union PrewarmWork
<1>1. ASSUME NEW w, NEW r, ExportFits(w, r)
      PROVE  /\ r \in {NoRow, GoneRow} \union ExportRow
             /\ w \in {Idle, Returned, Lost} \union ExportWork
  BY <1>1 DEF ExportFits, ExportRow, Status, Pending, Running, CompletedRow, FailedRow
<1>2. ASSUME NEW w, NEW r, PrewarmFits(w, r)
      PROVE  /\ r \in {NoRow, GoneRow} \union PrewarmRow
             /\ w \in {Idle, Returned, Lost} \union PrewarmWork
  BY <1>2 DEF PrewarmFits, Open, Settled
<1> QED BY <1>1, <1>2

LEMMA IInvTypes == IInv => TypeOK
<1> SUFFICES ASSUME IInv PROVE TypeOK
  OBVIOUS
<1>1. counter \in [Counters -> Counter]
  BY DEF IInv, LimitInv, WindowInv
<1>2. /\ job[Prewarm] \in {NoRow, GoneRow} \union PrewarmRow
      /\ work[Prewarm] \in {Idle, Returned, Lost} \union PrewarmWork
  BY FitsTypes DEF IInv, JobsInv
<1>3. \A e \in Exports : /\ job[e] \in {NoRow, GoneRow} \union ExportRow
                         /\ work[e] \in {Idle, Returned, Lost} \union ExportWork
  BY FitsTypes DEF IInv, JobsInv
<1>4. /\ job \in [Jobs -> {NoRow, GoneRow} \union ExportRow \union PrewarmRow]
      /\ work \in [Jobs -> {Idle, Returned, Lost} \union ExportWork \union PrewarmWork]
  <2> HIDE DEF NoRow, GoneRow, ExportRow, PrewarmRow, Idle, Returned, Lost, ExportWork, PrewarmWork
  <2> QED BY <1>2, <1>3 DEF IInv, JobsInv, Jobs
<1> QED BY <1>1, <1>2, <1>3, <1>4 DEF IInv, LimitInv, TypeOK

LEMMA FitsWorkedOn ==
  /\ \A w, r : ExportFits(w, r) /\ r.status \in {"pending", "running"} =>
       w \notin {Idle, Returned}
  /\ \A w, r : PrewarmFits(w, r) /\ r.status \in {"pending", "running"} =>
       w \notin {Idle, Returned}
<1>1. ASSUME NEW w, NEW r, ExportFits(w, r), r.status \in {"pending", "running"}
      PROVE  w \notin {Idle, Returned}
  BY <1>1 DEF ExportFits, CompletedRow, FailedRow, NoRow, GoneRow, Idle, Returned, Lost, ExportWork,
     ExportSteps
<1>2. ASSUME NEW w, NEW r, PrewarmFits(w, r), r.status \in {"pending", "running"}
      PROVE  w \notin {Idle, Returned}
  BY <1>2 DEF PrewarmFits, Settled, NoRow, GoneRow, Idle, Returned, Lost, PrewarmWork, PrewarmSteps
<1> QED BY <1>1, <1>2

LEMMA IInvWorkedOn == IInv => UnfinishedIsWorkedOn
  BY FitsWorkedOn DEF IInv, JobsInv, Jobs, UnfinishedIsWorkedOn, UnderWay

LEMMA IInvAddsUp == IInv => PrewarmAddsUp
<1>1. ASSUME NEW w, NEW r, PrewarmFits(w, r), r.status \in {"completed", "failed"}
      PROVE  r \in Settled
  BY <1>1 DEF PrewarmFits, Open, NoRow, GoneRow
<1> QED BY <1>1 DEF IInv, JobsInv, PrewarmAddsUp, Settled

-----------------------------------------------------------------------------
(* One step of one job.                                                    *)

\* What JobLife allows a row to do.
MayBecome(s, t) ==
  \/ t = s
  \/ s = "none" /\ t = "pending"
  \/ s = "pending" /\ t = "running"
  \/ s = "running" /\ t = "completed"
  \/ s \in {"pending", "running", "completed"} /\ t = "failed"

OnlyJob(j) ==
  /\ work' = [work EXCEPT ![j] = work'[j]]
  /\ job' = [job EXCEPT ![j] = job'[j]]
  /\ MayBecome(job[j].status, job'[j].status)
  /\ UNCHANGED comparison

\* At a step of its function an export has a row as ExportFits says.
LEMMA ExportAt ==
  ASSUME NEW w, NEW r, ExportFits(w, r)
  PROVE  /\ w.step \in ExportSteps => w \in ExportWork
         /\ w.step = "posting" => r = NoRow
         /\ w.step \in {"queued", "marking"} => r \in {GoneRow, Pending}
         /\ w.step \in {"generating", "storing"} => r \in {GoneRow, Running}
         /\ w.step = "failing" => r \in {GoneRow, Running, CompletedRow}
  BY DEF ExportFits, ExportSteps, Idle, Returned, Lost

\* An export that moves on is still an export at work.
LEMMA ExportMoved ==
  ASSUME NEW w \in ExportWork, NEW step \in ExportSteps
  PROVE  /\ [w EXCEPT !.step = step] \in ExportWork
         /\ [w EXCEPT !.step = step].step = step
  BY DEF ExportWork

\* What markReportExportJobRunning makes of a row that is pending or gone.
LEMMA StartedExport ==
  ASSUME NEW e \in Jobs, job = [j \in Jobs |-> job[j]], job[e] \in {GoneRow, Pending}
  PROVE  /\ Started(e) = [job EXCEPT ![e] = Started(e)[e]]
         /\ Started(e)[e] \in {GoneRow, Running}
         /\ MayBecome(job[e].status, Started(e)[e].status)
<1>1. CASE job[e] = GoneRow
  BY <1>1 DEF Started, GoneRow, MayBecome
<1>2. CASE job[e] = Pending
  <2>1. [job[e] EXCEPT !.status = "running"] = Running
    BY <1>2 DEF Pending, Running
  <2>2. Started(e) = [job EXCEPT ![e] = Running]
    <3>1. job[e].status = "pending"
      BY <1>2 DEF Pending
    <3>2. Started(e) = [job EXCEPT ![e] = [job[e] EXCEPT !.status = "running"]]
      BY <3>1 DEF Started
    <3> QED BY <2>1, <3>2
  <2> QED BY <1>2, <2>2 DEF Pending, Running, MayBecome
<1> QED BY <1>1, <1>2

LEMMA ExportStepFits ==
  ASSUME IInv, NEW e \in Exports, ExportStep(e)
  PROVE  OnlyJob(e) /\ ExportFits(work'[e], job'[e]) /\ UNCHANGED <<counter, admission>>
<1> DEFINE w == work[e]
           r == job[e]
<1>0. /\ e \in Jobs /\ ExportFits(w, r)
      /\ comparison \in {"absent", "saved", "deleted"}
      /\ job = [j \in Jobs |-> job[j]] /\ work = [j \in Jobs |-> work[j]]
  BY DEF IInv, JobsInv, Jobs
<1>1. /\ w.step \in ExportSteps => w \in ExportWork
      /\ w.step = "posting" => r = NoRow
      /\ w.step \in {"queued", "marking"} => r \in {GoneRow, Pending}
      /\ w.step \in {"generating", "storing"} => r \in {GoneRow, Running}
      /\ w.step = "failing" => r \in {GoneRow, Running, CompletedRow}
  BY <1>0, ExportAt
<1>2. ASSUME NEW step \in ExportSteps, w.step \in ExportSteps
      PROVE  /\ [w EXCEPT !.step = step] \in ExportWork
             /\ [w EXCEPT !.step = step].step = step
  BY <1>1, <1>2, ExportMoved
<1>r. /\ Pending \in ExportRow /\ Running \in ExportRow
      /\ CompletedRow \in ExportRow /\ FailedRow \in ExportRow
  BY DEF ExportRow, Status, Pending, Running, CompletedRow, FailedRow
<1> USE DEF At, Becomes, Moves, Row, HasRow, Status, ExportSteps, OnlyJob, MayBecome
<1>3. CASE Enqueue(e)
  <2>1. work' = [work EXCEPT ![e] = [w EXCEPT !.step = "queued"]] /\ job' = [job EXCEPT ![e] = Pending]
    BY <1>3 DEF Enqueue, Pending
  <2>2. work'[e] = [w EXCEPT !.step = "queued"] /\ job'[e] = Pending
    BY <1>0, <2>1
  <2>3. ExportFits(work'[e], job'[e])
    BY <1>2, <1>3, <2>2 DEF Enqueue, ExportFits
  <2> QED BY <1>0, <1>1, <1>3, <2>1, <2>2, <2>3 DEF Enqueue, NoRow, Pending
<1>4. CASE Refuse(e)
  <2>1. CASE UNCHANGED job /\ Becomes(e, Returned)
    BY <1>0, <1>1, <1>4, <2>1 DEF Refuse, ExportFits
  <2>2. CASE Row(e, [status |-> "pending"]) /\ Becomes(e, Lost)
    BY <1>0, <1>1, <1>4, <1>r, <2>2 DEF Refuse, ExportFits, Pending, NoRow
  <2> QED BY <1>4, <2>1, <2>2 DEF Refuse
<1>5. CASE Read(e)
  <2>1. CASE r.status \in {"pending", "running"}
    <3>1. work'[e] = [w EXCEPT !.step = "marking"]
      BY <1>0, <1>5, <2>1 DEF Read
    <3>2. ExportFits(work'[e], job[e])
      BY <1>1, <1>2, <1>5, <3>1 DEF Read, ExportFits
    <3> QED BY <1>0, <1>5, <2>1, <3>2 DEF Read
  <2>2. CASE r.status \notin {"pending", "running"}
    <3>1. r = GoneRow /\ work'[e] = Returned /\ job' = job
      BY <1>0, <1>1, <1>5, <2>2 DEF Read, Pending
    <3>2. ExportFits(Returned, GoneRow)
      BY DEF ExportFits
    <3>3. work' = [work EXCEPT ![e] = work'[e]] /\ UNCHANGED <<counter, comparison, admission>>
      BY <1>0, <1>5, <2>2 DEF Read
    <3> QED BY <1>0, <3>1, <3>2, <3>3
  <2> QED BY <2>1, <2>2
<1>6. CASE MarkRunning(e)
  <2>1. work'[e] = [w EXCEPT !.step = "generating"]
    BY <1>0, <1>6 DEF MarkRunning
  <2>2. job' = [job EXCEPT ![e] = job'[e]] /\ job'[e] \in {GoneRow, Running}
        /\ MayBecome(r.status, job'[e].status)
    BY <1>0, <1>1, <1>6, StartedExport DEF MarkRunning
  <2>3. ExportFits(work'[e], job'[e])
    BY <1>2, <1>6, <2>1, <2>2 DEF MarkRunning, ExportFits
  <2> QED BY <1>0, <1>6, <2>2, <2>3 DEF MarkRunning
<1>7. CASE Generate(e)
  <2>1. \E step \in {"storing", "failing"} : work' = [work EXCEPT ![e] = [w EXCEPT !.step = step]]
    BY <1>7 DEF Generate
  <2>2. ExportFits(work'[e], job[e])
    BY <1>0, <1>1, <1>2, <1>7, <2>1 DEF Generate, ExportFits
  <2> QED BY <1>0, <1>7, <2>1, <2>2 DEF Generate
<1>8. CASE Complete(e)
  <2>1. /\ job' = [job EXCEPT ![e] = job'[e]]
        /\ job'[e] = r \/ (r = Running /\ job'[e] = CompletedRow)
    BY <1>0, <1>1, <1>8 DEF Complete, Completed, Running, CompletedRow, GoneRow
  <2>2. r \in {GoneRow, Running} /\ MayBecome(r.status, job'[e].status)
    BY <1>1, <1>8, <2>1 DEF Complete, Running, CompletedRow
  <2>3. CASE job' = Completed(e) /\ Becomes(e, Returned)
    <3>1. job'[e] \in {GoneRow, CompletedRow}
      BY <1>0, <2>2, <2>3 DEF Completed, Running, CompletedRow, GoneRow
    <3> QED BY <1>0, <1>8, <2>1, <2>2, <2>3, <3>1 DEF Complete, ExportFits
  <2>4. CASE Moves(e, "failing")
    <3>1. work'[e] = [w EXCEPT !.step = "failing"]
      BY <1>0, <2>4
    <3>2. ExportFits(work'[e], job'[e])
      BY <1>2, <1>8, <2>1, <2>2, <3>1 DEF Complete, ExportFits
    <3> QED BY <1>0, <1>8, <2>1, <2>2, <2>4, <3>2 DEF Complete
  <2> QED BY <1>8, <2>3, <2>4 DEF Complete
<1>9. CASE Fail(e)
  <2>1. /\ job' = [job EXCEPT ![e] = job'[e]]
        /\ job'[e] = r \/ (r \in {Running, CompletedRow} /\ job'[e] = FailedRow)
    BY <1>0, <1>1, <1>9 DEF Fail, FailedExport, Running, CompletedRow, FailedRow, GoneRow
  <2>2. r \in {GoneRow, Running, CompletedRow} /\ MayBecome(r.status, job'[e].status)
    BY <1>1, <1>9, <2>1 DEF Fail, Running, CompletedRow, FailedRow
  <2>3. CASE job' = FailedExport(e) /\ Becomes(e, Returned)
    <3>1. job'[e] \in {GoneRow, FailedRow}
      BY <1>0, <2>2, <2>3 DEF FailedExport, Running, CompletedRow, FailedRow, GoneRow
    <3> QED BY <1>0, <1>9, <2>1, <2>2, <2>3, <3>1 DEF Fail, ExportFits
  <2>4. CASE Becomes(e, Lost)
    <3>1. ExportFits(work'[e], job'[e])
      BY <1>0, <1>r, <2>1, <2>2, <2>4 DEF ExportFits
    <3> QED BY <1>0, <1>9, <2>1, <2>2, <2>4, <3>1 DEF Fail
  <2> QED BY <1>9, <2>3, <2>4 DEF Fail
<1>10. CASE Reject(e)
  <2>1. job' = [job EXCEPT ![e] = job'[e]] /\ job'[e] \in {GoneRow, Pending, Running}
        /\ MayBecome(r.status, job'[e].status)
    BY <1>0, <1>1, <1>10, StartedExport DEF Reject
  <2>2. ExportFits(work'[e], job'[e])
    BY <1>0, <1>r, <1>10, <2>1 DEF Reject, ExportFits
  <2> QED BY <1>0, <1>10, <2>1, <2>2 DEF Reject
<1> QED BY <1>3, <1>4, <1>5, <1>6, <1>7, <1>8, <1>9, <1>10 DEF ExportStep

-----------------------------------------------------------------------------
(* The steps of the prewarming.                                            *)

LEMMA PrewarmAt ==
  ASSUME NEW w, NEW r, PrewarmFits(w, r)
  PROVE  /\ w.step \in PrewarmSteps => w \in PrewarmWork /\ w.warmed + w.failed <= Combinations
         /\ w.step = "queued" => r = NoRow
         /\ w.step = "marking" => r \in {GoneRow} \union Open
         /\ w.step = "resolving" => r \in {GoneRow} \union Open /\ r.status # "pending"
         /\ w.step = "failing" => r \in {GoneRow} \union Open \union Settled
  BY DEF PrewarmFits, PrewarmSteps, Idle, Returned, Lost

LEMMA PrewarmMoved ==
  ASSUME NEW w \in PrewarmWork, NEW step \in PrewarmSteps
  PROVE  /\ [w EXCEPT !.step = step] \in PrewarmWork
         /\ [w EXCEPT !.step = step].step = step
         /\ [w EXCEPT !.step = step].warmed = w.warmed
         /\ [w EXCEPT !.step = step].failed = w.failed
  BY DEF PrewarmWork

\* What markComparisonPrewarmJobRunning makes of a row that is open or gone.
LEMMA StartedPrewarm ==
  ASSUME NEW j \in Jobs, job = [i \in Jobs |-> job[i]], job[j] \in {GoneRow} \union Open
  PROVE  /\ Started(j) = [job EXCEPT ![j] = Started(j)[j]]
         /\ Started(j)[j] \in {GoneRow} \union Open
         /\ Started(j)[j].status # "pending"
         /\ MayBecome(job[j].status, Started(j)[j].status)
<1>1. CASE job[j].status # "pending"
  BY <1>1 DEF Started, MayBecome
<1>2. CASE job[j].status = "pending"
  <2> DEFINE new == [job[j] EXCEPT !.status = "running"]
  <2>1. Started(j) = [job EXCEPT ![j] = new]
    BY <1>2 DEF Started
  <2>2. job[j] \in PrewarmRow
    BY <1>2 DEF Open, GoneRow
  <2>3. new \in Open /\ new.status = "running"
    BY <2>2 DEF Open, PrewarmRow, Status
  <2> QED BY <1>2, <2>1, <2>3 DEF MayBecome
<1> QED BY <1>1, <1>2

\* What finishComparisonPrewarmJob writes, when the counts add up.
LEMMA FinishedPrewarm ==
  ASSUME IInv, At(Prewarm, "resolving") \/ At(Prewarm, "failing"),
         NEW status \in {"completed", "failed"}, NEW failed \in 0..Combinations,
         work[Prewarm].warmed + failed = Combinations,
         status = "completed" => work[Prewarm].warmed > 0 /\ At(Prewarm, "resolving")
  PROVE  LET new == Finished(status, failed) IN
           /\ new = [job EXCEPT ![Prewarm] = new[Prewarm]]
           /\ new[Prewarm] \in {GoneRow} \union Settled
           /\ MayBecome(job[Prewarm].status, new[Prewarm].status)
<1> DEFINE row == [status |-> status, warmed |-> work[Prewarm].warmed, failed |-> failed]
           r == job[Prewarm]
<1>1. /\ Prewarm \in Jobs /\ job = [j \in Jobs |-> job[j]]
      /\ PrewarmFits(work[Prewarm], r)
  BY DEF IInv, JobsInv, Jobs
<1>2. /\ work[Prewarm] \in PrewarmWork
      /\ r \in {GoneRow} \union Open \union Settled
      /\ At(Prewarm, "resolving") => r \in {GoneRow} \union Open /\ r.status # "pending"
  BY <1>1, PrewarmAt DEF At, PrewarmSteps
<1>3. row \in Settled
  BY <1>2 DEF PrewarmWork, Settled, PrewarmRow, Status
<1>4. CASE r = GoneRow
  BY <1>1, <1>4 DEF Finished, HasRow, Status, GoneRow, MayBecome
<1>5. CASE r \in Open \union Settled
  <2>1. HasRow(Prewarm)
    BY <1>5 DEF HasRow, Open, Settled, Status
  <2>2. Finished(status, failed) = [job EXCEPT ![Prewarm] = row]
    BY <2>1 DEF Finished
  <2>3. MayBecome(r.status, status)
    BY <1>2, <1>5 DEF MayBecome, Open, Settled, GoneRow, At
  <2> QED BY <1>1, <1>3, <2>2, <2>3
<1> QED BY <1>2, <1>4, <1>5

LEMMA PrewarmStepFits ==
  ASSUME IInv, PrewarmStep
  PROVE  OnlyJob(Prewarm) /\ PrewarmFits(work'[Prewarm], job'[Prewarm]) /\ UNCHANGED <<counter, admission>>
<1> DEFINE w == work[Prewarm]
           r == job[Prewarm]
<1>0. /\ Prewarm \in Jobs /\ PrewarmFits(w, r)
      /\ comparison \in {"absent", "saved", "deleted"}
      /\ job = [j \in Jobs |-> job[j]] /\ work = [j \in Jobs |-> work[j]]
  BY DEF IInv, JobsInv, Jobs
<1>1. /\ w.step \in PrewarmSteps => w \in PrewarmWork /\ w.warmed + w.failed <= Combinations
      /\ w.step = "queued" => r = NoRow
      /\ w.step = "marking" => r \in {GoneRow} \union Open
      /\ w.step = "resolving" => r \in {GoneRow} \union Open /\ r.status # "pending"
      /\ w.step = "failing" => r \in {GoneRow} \union Open \union Settled
  BY <1>0, PrewarmAt
<1>2. ASSUME NEW step \in PrewarmSteps, w.step \in PrewarmSteps, Moves(Prewarm, step)
      PROVE  /\ work' = [work EXCEPT ![Prewarm] = work'[Prewarm]]
             /\ work'[Prewarm] \in PrewarmWork
             /\ work'[Prewarm].step = step
             /\ work'[Prewarm].warmed + work'[Prewarm].failed <= Combinations
  <2>1. work' = [work EXCEPT ![Prewarm] = [w EXCEPT !.step = step]]
    BY <1>2 DEF Moves
  <2>2. work'[Prewarm] = [w EXCEPT !.step = step]
    BY <1>0, <2>1
  <2>3. w \in PrewarmWork /\ w.warmed + w.failed <= Combinations
    BY <1>1, <1>2
  <2>4. /\ [w EXCEPT !.step = step] \in PrewarmWork
        /\ [w EXCEPT !.step = step].step = step
        /\ [w EXCEPT !.step = step].warmed = w.warmed
        /\ [w EXCEPT !.step = step].failed = w.failed
    <3> HIDE DEF w
    <3> QED BY <2>3, PrewarmMoved
  <2> QED BY <2>1, <2>2, <2>3, <2>4
<1>n. NewPrewarm \in Open
  BY JobAssumption DEF NewPrewarm, Open, PrewarmRow, Status
<1> USE DEF At, Becomes, Row, PrewarmSteps, OnlyJob
<1>3. CASE CreatePrewarm
  <2>1. CASE Row(Prewarm, NewPrewarm) /\ Moves(Prewarm, "marking")
    BY <1>0, <1>1, <1>2, <1>3, <1>n, <2>1 DEF CreatePrewarm, PrewarmFits, MayBecome, NewPrewarm, NoRow
  <2>2. CASE UNCHANGED job /\ Becomes(Prewarm, Returned)
    BY <1>0, <1>1, <1>3, <2>2 DEF CreatePrewarm, PrewarmFits, MayBecome
  <2>3. CASE Row(Prewarm, NewPrewarm) /\ Becomes(Prewarm, Lost)
    BY <1>0, <1>1, <1>3, <1>n, <2>3 DEF CreatePrewarm, PrewarmFits, MayBecome, NewPrewarm, NoRow
  <2> QED BY <1>3, <2>1, <2>2, <2>3 DEF CreatePrewarm
<1>4. CASE MarkPrewarm
  <2>1. /\ Started(Prewarm) = [job EXCEPT ![Prewarm] = Started(Prewarm)[Prewarm]]
        /\ Started(Prewarm)[Prewarm] \in {GoneRow} \union Open
        /\ Started(Prewarm)[Prewarm].status # "pending"
        /\ MayBecome(r.status, Started(Prewarm)[Prewarm].status)
    BY <1>0, <1>1, <1>4, StartedPrewarm DEF MarkPrewarm
  <2>2. CASE job' = Started(Prewarm) /\ Moves(Prewarm, "resolving")
    BY <1>0, <1>2, <1>4, <2>1, <2>2 DEF MarkPrewarm, PrewarmFits
  <2>3. CASE job' \in {job, Started(Prewarm)} /\ Moves(Prewarm, "failing")
    BY <1>0, <1>1, <1>2, <1>4, <2>1, <2>3 DEF MarkPrewarm, PrewarmFits, MayBecome
  <2> QED BY <1>4, <2>2, <2>3 DEF MarkPrewarm
<1>5. CASE Resolve
  <2>1. w \in PrewarmWork /\ w.step = "resolving" /\ w.warmed + w.failed < Combinations
    BY <1>1, <1>5 DEF Resolve, Resolved
  <2>2. \E new \in {[w EXCEPT !.warmed = @ + 1], [w EXCEPT !.failed = @ + 1]} :
          work' = [work EXCEPT ![Prewarm] = new]
    BY <1>5 DEF Resolve
  <2>3. \A new \in {[w EXCEPT !.warmed = @ + 1], [w EXCEPT !.failed = @ + 1]} :
          new \in PrewarmWork /\ new.step = "resolving" /\ new.warmed + new.failed <= Combinations
    BY <2>1, JobAssumption DEF PrewarmWork
  <2> QED BY <1>0, <1>1, <1>5, <2>2, <2>3 DEF Resolve, PrewarmFits, MayBecome
<1>6. CASE FinishPrewarm
  <2> DEFINE finished == Finished(Outcome, w.failed)
  <2>1. w \in PrewarmWork /\ w.step = "resolving" /\ w.warmed + w.failed = Combinations
    BY <1>1, <1>6 DEF FinishPrewarm, Resolved
  <2>2. /\ Outcome \in {"completed", "failed"}
        /\ Outcome = "completed" => w.warmed > 0
        /\ w.failed \in 0..Combinations
    BY <2>1, JobAssumption DEF Outcome, PrewarmWork
  <2>3. /\ finished = [job EXCEPT ![Prewarm] = finished[Prewarm]]
        /\ finished[Prewarm] \in {GoneRow} \union Settled
        /\ MayBecome(r.status, finished[Prewarm].status)
    <3> HIDE DEF w, r
    <3> QED BY <2>1, <2>2, FinishedPrewarm DEF w, r
  <2>4. CASE job' = finished /\ Becomes(Prewarm, Returned)
    BY <1>0, <1>6, <2>3, <2>4 DEF FinishPrewarm, PrewarmFits
  <2>5. CASE job' \in {job, finished} /\ Moves(Prewarm, "failing")
    BY <1>0, <1>1, <1>2, <1>6, <2>3, <2>5 DEF FinishPrewarm, PrewarmFits, MayBecome
  <2> QED BY <1>6, <2>4, <2>5 DEF FinishPrewarm
<1>7. CASE FailPrewarm
  <2> DEFINE failed == Combinations - w.warmed
             finished == Finished("failed", failed)
  <2>1. w \in PrewarmWork /\ w.step = "failing"
    BY <1>1, <1>7 DEF FailPrewarm
  <2>2. failed \in 0..Combinations /\ w.warmed + failed = Combinations
    BY <2>1, JobAssumption DEF PrewarmWork
  <2>3. /\ finished = [job EXCEPT ![Prewarm] = finished[Prewarm]]
        /\ finished[Prewarm] \in {GoneRow} \union Settled
        /\ MayBecome(r.status, finished[Prewarm].status)
    <3> HIDE DEF failed
    <3> QED BY <2>1, <2>2, FinishedPrewarm
  <2>4. CASE job' = finished /\ Becomes(Prewarm, Returned)
    BY <1>0, <1>7, <2>3, <2>4 DEF FailPrewarm, PrewarmFits
  <2>5. CASE job' \in {job, finished} /\ Becomes(Prewarm, Lost)
    BY <1>0, <1>1, <1>7, <2>3, <2>5 DEF FailPrewarm, PrewarmFits, MayBecome
  <2> QED BY <1>7, <2>4, <2>5 DEF FailPrewarm
<1> QED BY <1>3, <1>4, <1>5, <1>6, <1>7 DEF PrewarmStep

-----------------------------------------------------------------------------
(* The counters and the exports they let in.                               *)

By(k) == {e \in Exports : admission[e].by = k}

\* Everything counted here is a finite set of exports.
LEMMA SomeExports ==
  ASSUME NEW S, S \subseteq Exports
  PROVE  /\ IsFiniteSet(S)
         /\ Cardinality(S) \in Nat
         /\ \A T \in SUBSET S : Cardinality(T) <= Cardinality(S)
<1>1. IsFiniteSet(S)
  BY JobAssumption, FS_Subset
<1> QED BY <1>1, FS_Subset, FS_CardinalityType

LEMMA OneMore ==
  ASSUME NEW S, S \subseteq Exports, NEW e \in Exports, NEW T, T \subseteq S \union {e}
  PROVE  Cardinality(T) <= Cardinality(S) + 1
<1>1. S \union {e} \subseteq Exports
  OBVIOUS
<1>2. Cardinality(S \union {e}) <= Cardinality(S) + 1
  BY SomeExports, FS_AddElement
<1>3. Cardinality(T) <= Cardinality(S \union {e})
  BY <1>1, SomeExports
<1>4. Cardinality(T) \in Nat /\ Cardinality(S) \in Nat /\ Cardinality(S \union {e}) \in Nat
  <2>1. T \subseteq Exports
    BY <1>1
  <2> QED BY <1>1, <2>1, SomeExports
<1> QED BY <1>2, <1>3, <1>4

\* What a count leaves of the invariant's numbers.
LEMMA CounterAt ==
  ASSUME LimitInv, NEW k \in Counters
  PROVE  /\ counter[k] \in Counter
         /\ counter[k].count \in 0..(Limit + 1) /\ counter[k].left \in 0..Window
         /\ Incremented(k) \in Counter
         /\ Incremented(k).count > 0 /\ Incremented(k).left > 0
         /\ counter[k].left = 0 => Incremented(k) = [count |-> 1, left |-> Window]
         /\ counter[k].left > 0 =>
              /\ Incremented(k).left = counter[k].left
              /\ Incremented(k).count = IF counter[k].count > Limit THEN counter[k].count
                                        ELSE counter[k].count + 1
         /\ Limit \in Nat /\ Limit > 0 /\ Window \in Nat /\ Window > 0
<1>0. Limit \in Nat /\ Limit > 0 /\ Window \in Nat /\ Window > 0
  BY LimitAssumption
<1>1. /\ counter[k] \in [count : 0..(Limit + 1), left : 0..Window]
      /\ counter[k].count \in 0..(Limit + 1) /\ counter[k].left \in 0..Window
      /\ counter[k].count = 0 <=> counter[k].left = 0
  BY <1>0 DEF LimitInv, WindowInv, Counter
<1>2. CASE counter[k].left = 0
  <2>1. Incremented(k) = [count |-> 1, left |-> Window]
    BY <1>1, <1>2 DEF Incremented, First
  <2> QED BY <1>0, <1>1, <1>2, <2>1 DEF Counter
<1>3. CASE counter[k].left > 0
  <2>1. Incremented(k) = [counter[k] EXCEPT !.count = IF counter[k].count > Limit THEN counter[k].count
                                                      ELSE counter[k].count + 1]
    BY <1>1, <1>3 DEF Incremented
  <2> QED BY <1>0, <1>1, <1>3, <2>1 DEF Counter
<1> QED BY <1>1, <1>2, <1>3

\* With no admission by k but old ones, a count may go up.
LEMMA WindowUnadmitted ==
  ASSUME LimitInv, NEW k \in Counters,
         counter'[k] \in {counter[k], Incremented(k)},
         \A e \in Exports : admission'[e].by = k => admission'[e] = admission[e]
  PROVE  WindowInv(k)'
<1> DEFINE I == InWindow(k)
           E == Earlier(k)
<1>0. /\ Cardinality(I) <= Limit /\ Cardinality(I) <= counter[k].count /\ Cardinality(E) <= Limit
      /\ counter[k].count > 0 <=> counter[k].left > 0
      /\ counter[k].left = 0 => \A e \in Exports : admission[e].by = k => admission[e].age > 0
      /\ I \subseteq Exports /\ E \subseteq Exports
      /\ \A e \in Exports : admission[e] \in Admission \union {NoAdmission}
  BY DEF LimitInv, WindowInv, InWindow, Earlier
<1>1. counter'[k] \in Counter /\ counter'[k].count \in Nat /\ counter'[k].left \in Nat
  BY CounterAt
<1>a. \A e \in Exports : admission[e].age \in Nat
  BY <1>0, CounterAt DEF Admission, NoAdmission
<1>2. InWindow(k)' \subseteq I
  BY <1>0, <1>a, CounterAt DEF InWindow
<1>3. Earlier(k)' \subseteq E
  BY <1>0, <1>a, CounterAt DEF InWindow, Earlier
<1>4. counter'[k].count >= counter[k].count
  BY CounterAt, <1>0
<1>5. /\ counter'[k].count > 0 <=> counter'[k].left > 0
      /\ counter'[k].left = 0 => \A e \in Exports : admission'[e].by = k => admission'[e].age > 0
  BY <1>0, CounterAt
<1>6. Cardinality(InWindow(k)') <= Cardinality(I) /\ Cardinality(Earlier(k)') <= Cardinality(E)
  BY <1>0, <1>2, <1>3, SomeExports
<1>7. /\ Cardinality(I) \in Nat /\ Cardinality(E) \in Nat
      /\ Cardinality(InWindow(k)') \in Nat /\ Cardinality(Earlier(k)') \in Nat
  BY <1>0, <1>2, <1>3, SomeExports
<1>8. Cardinality(InWindow(k)') <= Limit /\ Cardinality(InWindow(k)') <= counter'[k].count
      /\ Cardinality(Earlier(k)') <= Limit
  BY <1>0, <1>1, <1>4, <1>6, <1>7, CounterAt
<1> QED BY <1>1, <1>5, <1>8 DEF WindowInv

\* An export is let in: the first of a window, or one more below the limit.
LEMMA WindowAdmitted ==
  ASSUME LimitInv, NEW k \in Counters, NEW e \in Exports,
         counter'[k] = Incremented(k),
         counter[k].left = 0 \/ counter[k].count < Limit,
         admission' = [admission EXCEPT ![e] = [by |-> k, age |-> 0]]
  PROVE  WindowInv(k)'
<1> DEFINE I == InWindow(k)
           E == Earlier(k)
<1>0. /\ Cardinality(I) <= Limit /\ Cardinality(I) <= counter[k].count /\ Cardinality(E) <= Limit
      /\ counter[k].count > 0 <=> counter[k].left > 0
      /\ counter[k].left = 0 => \A f \in Exports : admission[f].by = k => admission[f].age > 0
      /\ I \subseteq Exports /\ E \subseteq Exports
      /\ admission \in [Exports -> Admission \union {NoAdmission}]
  BY DEF LimitInv, WindowInv, InWindow, Earlier
<1>1. counter'[k] \in Counter /\ counter'[k].count > 0 /\ counter'[k].left > 0
      /\ counter'[k].count \in Nat /\ counter'[k].left \in Nat
  BY CounterAt DEF Counter
<1>a. \A f \in Exports : admission[f].age \in Nat
  BY <1>0, CounterAt DEF Admission, NoAdmission
<1>b. /\ admission'[e] = [by |-> k, age |-> 0]
      /\ \A f \in Exports \ {e} : admission'[f] = admission[f]
  BY <1>0
<1>2. InWindow(k)' \subseteq I \union {e}
  <2> SUFFICES ASSUME NEW f \in Exports \ {e}, f \in InWindow(k)'
               PROVE  f \in I
    BY DEF InWindow
  <2>1. admission[f].by = k /\ admission[f].age + Incremented(k).left <= Window
    BY <1>b DEF InWindow
  <2>2. counter[k].left > 0
    BY <1>0, <1>a, <2>1, CounterAt
  <2> QED BY <2>1, <2>2, CounterAt DEF InWindow
<1>3. Earlier(k)' \subseteq E
  <2>1. e \notin Earlier(k)'
    BY <1>1, <1>b, CounterAt DEF Earlier, InWindow
  <2>2. ASSUME NEW f \in Exports \ {e}, f \in Earlier(k)'
        PROVE  f \in E
    BY <1>a, <1>b, <2>2, CounterAt DEF InWindow, Earlier
  <2> QED BY <2>1, <2>2 DEF Earlier
<1>4. counter[k].left = 0 => I = {}
  BY DEF InWindow
<1>5. /\ Cardinality(I) \in Nat /\ Cardinality(E) \in Nat
      /\ Cardinality(InWindow(k)') \in Nat /\ Cardinality(Earlier(k)') \in Nat
      /\ Cardinality(Earlier(k)') <= Cardinality(E)
      /\ Cardinality(InWindow(k)') <= Cardinality(I) + 1
  <2>1. InWindow(k)' \subseteq Exports
    BY <1>0, <1>2
  <2> QED BY <1>0, <1>2, <1>3, <2>1, SomeExports, OneMore
<1>6. Cardinality(InWindow(k)') <= Limit /\ Cardinality(InWindow(k)') <= counter'[k].count
  <2>1. CASE counter[k].left = 0
    <3>1. Cardinality(I) = 0
      BY <1>4, <2>1, FS_EmptySet
    <3>2. counter'[k].count = 1
      BY <2>1, CounterAt
    <3> QED BY <1>5, <3>1, <3>2, CounterAt
  <2>2. CASE counter[k].left > 0 /\ counter[k].count < Limit
    <3>1. counter'[k].count = counter[k].count + 1
      BY <2>2, CounterAt
    <3> QED BY <1>0, <1>5, <2>2, <3>1, CounterAt
  <2> QED BY <2>1, <2>2, CounterAt
<1>7. Cardinality(Earlier(k)') <= Limit
  BY <1>0, <1>5, CounterAt
<1> QED BY <1>1, <1>6, <1>7 DEF WindowInv

\* Time passes: admissions grow older as the window runs out.
LEMMA WindowTick ==
  ASSUME LimitInv, Tick, NEW k \in Counters
  PROVE  WindowInv(k)'
<1> DEFINE I == InWindow(k)
           E == Earlier(k)
<1>0. /\ Cardinality(I) <= Limit /\ Cardinality(I) <= counter[k].count /\ Cardinality(E) <= Limit
      /\ counter[k].count > 0 <=> counter[k].left > 0
      /\ I \subseteq Exports /\ E \subseteq Exports
      /\ \A e \in Exports : admission[e] \in Admission \union {NoAdmission}
  BY DEF LimitInv, WindowInv, InWindow, Earlier
<1>1. ASSUME NEW e \in Exports, admission'[e].by = k
      PROVE  /\ admission[e].by = k /\ admission[e].age \in Nat
             /\ admission'[e].age = admission[e].age + 1
             /\ admission'[e].age < Window
  <2>1. admission'[e] = Aged(admission[e])
    BY DEF Tick
  <2>2. "nobody" # k
    BY JobAssumption
  <2>3. admission[e].by \in Counters /\ admission[e].age + 1 < Window
    BY <1>1, <2>1, <2>2 DEF Aged, NoAdmission
  <2>4. admission[e] \in Admission
    BY <1>0, <2>3, JobAssumption DEF NoAdmission
  <2>5. admission'[e] = [admission[e] EXCEPT !.age = admission[e].age + 1]
    BY <2>1, <2>3 DEF Aged
  <2> QED BY <1>1, <2>3, <2>4, <2>5, CounterAt DEF Admission
<1>2. counter'[k] = Shorter(counter[k])
  BY DEF Tick, TimePasses
<1>3. CASE counter[k].left <= 1
  <2>1. counter'[k] = [count |-> 0, left |-> 0]
    BY <1>2, <1>3 DEF Shorter, Empty
  <2>2. counter'[k] \in Counter
    BY <2>1, CounterAt DEF Counter
  <2>3. InWindow(k)' = {}
    BY <2>1 DEF InWindow
  <2>4. Cardinality(InWindow(k)') = 0
    BY <2>3, FS_EmptySet
  <2>5. \A e \in Exports : admission'[e].by = k => admission'[e].age > 0
    BY <1>1
  <2>6. Cardinality(Earlier(k)') <= Limit
    <3>1. CASE counter[k].left = 0
      <4>1. Earlier(k)' \subseteq E
        BY <1>1, <3>1 DEF Earlier, InWindow
      <4>2. Earlier(k)' \subseteq Exports
        BY DEF Earlier
      <4> QED BY <1>0, <4>1, <4>2, SomeExports, CounterAt
    <3>2. CASE counter[k].left = 1
      <4>1. Earlier(k)' \subseteq I
        BY <1>1, <3>2, CounterAt DEF Earlier, InWindow
      <4>2. Earlier(k)' \subseteq Exports
        BY DEF Earlier
      <4> QED BY <1>0, <4>1, <4>2, SomeExports, CounterAt
    <3> QED BY <1>3, <3>1, <3>2, CounterAt
  <2>7. Cardinality(InWindow(k)') <= Limit /\ Cardinality(InWindow(k)') <= counter'[k].count
    BY <2>1, <2>4, CounterAt
  <2> QED BY <2>1, <2>2, <2>5, <2>6, <2>7 DEF WindowInv
<1>4. CASE counter[k].left > 1
  <2>1. counter'[k] = [counter[k] EXCEPT !.left = counter[k].left - 1]
    BY <1>2, <1>4, CounterAt DEF Shorter
  <2>2. /\ counter'[k] \in Counter
        /\ counter'[k].count = counter[k].count
        /\ counter'[k].left = counter[k].left - 1
    BY <1>4, <2>1, CounterAt DEF Counter
  <2>3. InWindow(k)' \subseteq I
    BY <1>1, <1>4, <2>2, CounterAt DEF InWindow
  <2>4. Earlier(k)' \subseteq E
    BY <1>1, <1>4, <2>2, CounterAt DEF InWindow, Earlier
  <2>5. /\ Cardinality(I) \in Nat /\ Cardinality(E) \in Nat
        /\ Cardinality(InWindow(k)') \in Nat /\ Cardinality(Earlier(k)') \in Nat
        /\ Cardinality(InWindow(k)') <= Cardinality(I) /\ Cardinality(Earlier(k)') <= Cardinality(E)
    BY <1>0, <2>3, <2>4, SomeExports
  <2>6. /\ Cardinality(InWindow(k)') <= Limit /\ Cardinality(InWindow(k)') <= counter'[k].count
        /\ Cardinality(Earlier(k)') <= Limit
    BY <1>0, <2>2, <2>5, CounterAt
  <2>7. counter'[k].count > 0 /\ counter'[k].left > 0
    BY <1>0, <1>4, <2>2, CounterAt
  <2> QED BY <2>2, <2>6, <2>7 DEF WindowInv
<1> QED BY <1>3, <1>4, CounterAt

\* A replica restarts: its bucket is empty and has let in nobody.
LEMMA WindowForgotten ==
  ASSUME LimitInv, NEW p \in Counters, Forget(p), admission' = Disowned(p)
  PROVE  \A k \in Counters : WindowInv(k)'
<1> SUFFICES ASSUME NEW k \in Counters PROVE WindowInv(k)'
  OBVIOUS
<1>1. \A e \in Exports : admission'[e] = IF admission[e].by = p THEN NoAdmission ELSE admission[e]
  BY DEF Disowned
<1>2. CASE k = p
  <2>1. counter'[k] = [count |-> 0, left |-> 0]
    BY <1>2 DEF Forget, Empty, LimitInv
  <2>2. \A e \in Exports : admission'[e].by # k
    BY <1>1, <1>2, JobAssumption DEF NoAdmission
  <2>3. InWindow(k)' = {} /\ Earlier(k)' = {}
    BY <2>2 DEF InWindow, Earlier
  <2>4. Cardinality(InWindow(k)') = 0 /\ Cardinality(Earlier(k)') = 0
    BY <2>3, FS_EmptySet
  <2>5. counter'[k] \in Counter
    BY <2>1, CounterAt DEF Counter
  <2> QED BY <2>1, <2>2, <2>4, <2>5, CounterAt DEF WindowInv
<1>3. CASE k # p
  <2>1. counter'[k] = counter[k]
    BY <1>3 DEF Forget, LimitInv
  <2>2. \A e \in Exports : admission'[e].by = k => admission'[e] = admission[e]
    BY <1>1, JobAssumption DEF NoAdmission
  <2> QED BY <2>1, <2>2, WindowUnadmitted
<1> QED BY <1>2, <1>3

-----------------------------------------------------------------------------
(* The invariant is inductive.                                             *)

\* The admissions stay what they are called.
LEMMA AdmissionTypes ==
  ASSUME LimitInv, NEW k \in Counters
  PROVE  /\ [by |-> k, age |-> 0] \in Admission
         /\ \A a \in Admission \union {NoAdmission} : Aged(a) \in Admission \union {NoAdmission}
<1>1. [by |-> k, age |-> 0] \in Admission
  BY CounterAt DEF Admission
<1>2. ASSUME NEW a \in Admission \union {NoAdmission}, a.by \in Counters, a.age + 1 < Window
      PROVE  [a EXCEPT !.age = a.age + 1] \in Admission
  <2>1. a \in Admission
    BY <1>2, JobAssumption DEF NoAdmission
  <2> QED BY <1>2, <2>1, CounterAt DEF Admission
<1> QED BY <1>1, <1>2 DEF Aged

LEMMA LimitKept ==
  ASSUME LimitInv, UNCHANGED <<counter, admission>>
  PROVE  LimitInv'
BY DEF LimitInv, WindowInv, InWindow, Earlier

LEMMA LimitAsk ==
  ASSUME LimitInv, NEW e \in Exports, NEW p \in Replicas, Ask(e, p)
  PROVE  LimitInv'
<1>0. p \in Counters /\ Redis \in Counters /\ p # Redis
      /\ counter = [k \in Counters |-> counter[k]]
      /\ admission \in [Exports -> Admission \union {NoAdmission}]
  BY LimitAssumption DEF Counters, LimitInv
<1>1. PICK admitted \in BOOLEAN :
        \/ ConsumeShared(admitted) /\ AskedBy(e, p, Redis, admitted)
        \/ ConsumeMemory(p, admitted) /\ AskedBy(e, p, p, admitted)
  BY DEF Ask
<1>2. PICK k \in {Redis, p} :
        /\ AskedBy(e, p, k, admitted)
        /\ k = Redis => ConsumeShared(admitted)
        /\ k = p => ConsumeMemory(p, admitted)
  BY <1>0, <1>1
<1>3. /\ \A i \in Counters : counter'[i] \in {counter[i], Incremented(i)}
      /\ counter' = [i \in Counters |-> counter'[i]]
      /\ admitted => counter'[k] = Incremented(k)
  BY <1>0, <1>2 DEF ConsumeShared, ConsumeMemory
<1>4. CASE ~admitted
  <2>1. admission' = admission
    BY <1>2, <1>4 DEF AskedBy
  <2>2. \A i \in Counters : WindowInv(i)'
    BY <1>3, <2>1, WindowUnadmitted
  <2> QED BY <1>0, <1>3, <2>1, <2>2 DEF LimitInv
<1>5. CASE admitted
  <2>1. admission' = [admission EXCEPT ![e] = [by |-> k, age |-> 0]]
    BY <1>2, <1>5 DEF AskedBy
  <2>2. counter[k].left = 0 \/ counter[k].count < Limit
    <3>1. CASE k = Redis
      <4>1. Incremented(Redis).count <= Limit
        BY <1>2, <1>5, <3>1 DEF ConsumeShared
      <4> QED BY <1>0, <3>1, <4>1, CounterAt
    <3>2. CASE k = p
      BY <1>2, <1>5, <3>2 DEF ConsumeMemory
    <3> QED BY <1>2, <3>1, <3>2
  <2>3. WindowInv(k)'
    BY <1>0, <1>2, <1>3, <1>5, <2>1, <2>2, WindowAdmitted
  <2>4. ASSUME NEW i \in Counters, i # k
        PROVE  WindowInv(i)'
    <3>1. \A f \in Exports : admission'[f].by = i => admission'[f] = admission[f]
      BY <1>0, <2>1, <2>4
    <3> QED BY <1>3, <3>1, WindowUnadmitted
  <2>5. admission' \in [Exports -> Admission \union {NoAdmission}]
    BY <1>0, <2>1, AdmissionTypes
  <2> QED BY <1>3, <2>3, <2>4, <2>5 DEF LimitInv
<1> QED BY <1>4, <1>5

LEMMA LimitTick ==
  ASSUME LimitInv, Tick
  PROVE  LimitInv'
<1>1. counter' = [k \in Counters |-> counter'[k]]
  BY DEF Tick, TimePasses
<1>2. admission' \in [Exports -> Admission \union {NoAdmission}]
  <2>1. Redis \in Counters
    BY DEF Counters
  <2>2. \A e \in Exports : Aged(admission[e]) \in Admission \union {NoAdmission}
    BY <2>1, AdmissionTypes DEF LimitInv
  <2> QED BY <2>2 DEF Tick
<1> QED BY <1>1, <1>2, WindowTick DEF LimitInv

LEMMA LimitRestart ==
  ASSUME LimitInv, NEW p \in Replicas, Restart(p)
  PROVE  LimitInv'
<1>1. p \in Counters /\ Forget(p) /\ admission' = Disowned(p)
  BY DEF Restart, Counters
<1>2. counter' = [k \in Counters |-> counter'[k]]
  BY <1>1 DEF Forget, LimitInv
<1>3. admission' \in [Exports -> Admission \union {NoAdmission}]
  BY <1>1 DEF Disowned, LimitInv
<1> QED BY <1>1, <1>2, <1>3, WindowForgotten DEF LimitInv

\* One job moves, or its work alone; the others stay as they are.
LEMMA JobsOne ==
  ASSUME JobsInv, NEW j \in Jobs,
         work' = [work EXCEPT ![j] = work'[j]],
         job' = [job EXCEPT ![j] = job'[j]],
         j \in Exports => ExportFits(work'[j], job'[j]),
         j = Prewarm => PrewarmFits(work'[j], job'[j])
  PROVE  JobsInv'
<1>1. job' = [i \in Jobs |-> job'[i]] /\ work' = [i \in Jobs |-> work'[i]]
  BY DEF JobsInv
<1>2. \A i \in Jobs \ {j} : job'[i] = job[i] /\ work'[i] = work[i]
  BY DEF JobsInv
<1>3. \A e \in Exports : ExportFits(work'[e], job'[e])
  BY <1>2 DEF JobsInv, Jobs
<1>4. PrewarmFits(work'[Prewarm], job'[Prewarm])
  BY <1>2 DEF JobsInv, Jobs
<1> QED BY <1>1, <1>3, <1>4 DEF JobsInv

\* A row that is there may be deleted, and work may be lost, at any step.
LEMMA FitsDeleted ==
  /\ \A w, r : ExportFits(w, r) /\ r.status \in Status => ExportFits(w, GoneRow)
  /\ \A w, r : PrewarmFits(w, r) /\ r.status \in Status => PrewarmFits(w, GoneRow)
<1>1. ASSUME NEW w, NEW r, ExportFits(w, r), r.status \in Status
      PROVE  ExportFits(w, GoneRow)
  BY <1>1 DEF ExportFits, NoRow, Status
<1>2. ASSUME NEW w, NEW r, PrewarmFits(w, r), r.status \in Status
      PROVE  PrewarmFits(w, GoneRow)
  BY <1>2 DEF PrewarmFits, NoRow, GoneRow, Status
<1> QED BY <1>1, <1>2

LEMMA FitsLost ==
  /\ \A w, r : ExportFits(w, r) => ExportFits(Lost, r)
  /\ \A w, r : PrewarmFits(w, r) => PrewarmFits(Lost, r)
<1>1. ASSUME NEW w, NEW r, ExportFits(w, r)
      PROVE  ExportFits(Lost, r)
  <2>1. r \in {NoRow, GoneRow} \union ExportRow
    BY <1>1, FitsTypes
  <2> QED BY <2>1 DEF ExportFits
<1>2. ASSUME NEW w, NEW r, PrewarmFits(w, r)
      PROVE  PrewarmFits(Lost, r)
  BY <1>2 DEF PrewarmFits
<1> QED BY <1>1, <1>2

LEMMA InitInv == Init => IInv
<1> SUFFICES ASSUME Init PROVE IInv
  OBVIOUS
<1>1. JobsInv
  BY DEF Init, JobsInv, ExportFits, PrewarmFits, Jobs
<1>2. ASSUME NEW k \in Counters
      PROVE  WindowInv(k)
  <2>1. counter[k] = [count |-> 0, left |-> 0]
    BY DEF Init, CounterInit, Empty
  <2>2. \A e \in Exports : admission[e].by # k
    BY JobAssumption DEF Init, NoAdmission
  <2>3. InWindow(k) = {} /\ Earlier(k) = {}
    BY <2>2 DEF InWindow, Earlier
  <2>4. Cardinality(InWindow(k)) = 0 /\ Cardinality(Earlier(k)) = 0
    BY <2>3, FS_EmptySet
  <2>5. counter[k] \in Counter
    BY <2>1, LimitAssumption DEF Counter
  <2> QED BY <2>1, <2>2, <2>4, <2>5, LimitAssumption DEF WindowInv
<1>3. LimitInv
  BY <1>2 DEF Init, CounterInit, LimitInv
<1> QED BY <1>1, <1>3 DEF Init, IInv, Jobs

LEMMA JobsDeleted ==
  ASSUME IInv, DeleteComparison
  PROVE  JobsInv'
<1>1. /\ job' = [j \in Jobs |-> IF HasRow(j) THEN GoneRow ELSE job[j]]
      /\ work' = work
  BY DEF DeleteComparison
<1>2. job' = [j \in Jobs |-> job'[j]] /\ work' = [j \in Jobs |-> work'[j]]
  BY <1>1 DEF IInv, JobsInv
<1>3. ASSUME NEW e \in Exports
      PROVE  ExportFits(work'[e], job'[e])
  <2>1. job'[e] = IF HasRow(e) THEN GoneRow ELSE job[e]
    BY <1>1 DEF Jobs
  <2> QED BY <1>1, <2>1, FitsDeleted DEF HasRow, IInv, JobsInv
<1>4. PrewarmFits(work'[Prewarm], job'[Prewarm])
  <2>1. job'[Prewarm] = IF HasRow(Prewarm) THEN GoneRow ELSE job[Prewarm]
    BY <1>1 DEF Jobs
  <2> QED BY <1>1, <2>1, FitsDeleted DEF HasRow, IInv, JobsInv
<1> QED BY <1>2, <1>3, <1>4 DEF JobsInv

LEMMA JobsRestarted ==
  ASSUME IInv, NEW p \in Replicas, Restart(p)
  PROVE  JobsInv'
<1>1. /\ work' = [j \in Jobs |-> IF UnderWay(j) /\ work[j].at = p THEN Lost ELSE work[j]]
      /\ job' = job
  BY DEF Restart
<1>2. \A j \in Jobs : work'[j] \in {work[j], Lost}
  BY <1>1
<1>3. job' = [j \in Jobs |-> job'[j]] /\ work' = [j \in Jobs |-> work'[j]]
  BY <1>1 DEF IInv, JobsInv
<1>4. \A e \in Exports : ExportFits(work'[e], job'[e])
  BY <1>1, <1>2, FitsLost DEF IInv, JobsInv, Jobs
<1>5. PrewarmFits(work'[Prewarm], job'[Prewarm])
  BY <1>1, <1>2, FitsLost DEF IInv, JobsInv, Jobs
<1> QED BY <1>3, <1>4, <1>5 DEF JobsInv

\* An export is asked for: its request is taken up, or nothing happens.
LEMMA JobsAsked ==
  ASSUME IInv, NEW e \in Exports, NEW p \in Replicas, Ask(e, p)
  PROVE  JobsInv' /\ UNCHANGED <<job, comparison>>
<1>1. \E k, admitted : AskedBy(e, p, k, admitted)
  BY DEF Ask
<1>2. UNCHANGED <<job, comparison>>
  BY <1>1 DEF AskedBy
<1>3. CASE UNCHANGED work
  BY <1>2, <1>3 DEF IInv, JobsInv
<1>4. CASE work[e] = Idle /\ Becomes(e, [step |-> "posting", at |-> p])
  <2>1. e \in Jobs /\ e # Prewarm /\ work = [j \in Jobs |-> work[j]]
        /\ job = [j \in Jobs |-> job[j]] /\ JobsInv
    BY JobAssumption DEF Jobs, IInv, JobsInv
  <2>2. /\ work' = [work EXCEPT ![e] = work'[e]]
        /\ work'[e] = [step |-> "posting", at |-> p]
        /\ job' = [job EXCEPT ![e] = job'[e]] /\ job'[e] = job[e]
    BY <1>2, <1>4, <2>1 DEF Becomes
  <2>3. job[e] = NoRow
    BY <1>4 DEF IInv, JobsInv, ExportFits, Idle, Returned, Lost, ExportWork, ExportSteps
  <2>4. ExportFits(work'[e], job'[e])
    BY <2>2, <2>3 DEF ExportFits, ExportWork, ExportSteps
  <2> QED BY <1>2, <2>1, <2>2, <2>4, JobsOne
<1> QED BY <1>1, <1>2, <1>3, <1>4 DEF AskedBy

LEMMA ComparisonCreated ==
  ASSUME IInv, NEW p \in Replicas, CreateComparison(p)
  PROVE  JobsInv'
<1> DEFINE new == [step |-> "queued", at |-> p, warmed |-> 0, failed |-> 0]
<1>1. /\ JobsInv /\ Prewarm \in Jobs /\ Prewarm \notin Exports
      /\ work = [j \in Jobs |-> work[j]] /\ job = [j \in Jobs |-> job[j]]
      /\ work[Prewarm] = Idle /\ PrewarmFits(Idle, job[Prewarm])
  BY JobAssumption DEF IInv, JobsInv, Jobs, CreateComparison
<1>2. /\ work' = [work EXCEPT ![Prewarm] = work'[Prewarm]]
      /\ work'[Prewarm] = new
      /\ job' = [job EXCEPT ![Prewarm] = job'[Prewarm]] /\ job'[Prewarm] = job[Prewarm]
  BY <1>1 DEF CreateComparison, Becomes
<1>3. job[Prewarm] = NoRow
  BY <1>1 DEF PrewarmFits, Idle, Returned, Lost, PrewarmWork, PrewarmSteps
<1>4. new \in PrewarmWork /\ new.warmed + new.failed <= Combinations /\ new.step = "queued"
  BY JobAssumption DEF PrewarmWork, PrewarmSteps
<1>5. PrewarmFits(work'[Prewarm], job'[Prewarm])
  BY <1>2, <1>3, <1>4 DEF PrewarmFits
<1> QED BY <1>1, <1>2, <1>5, JobsOne

\* IInv' from its halves.
LEMMA Together ==
  ASSUME IInv, JobsInv', LimitInv',
         comparison' \in {"saved", "deleted"} \/
           (UNCHANGED comparison /\ (work[Prewarm] = Idle => work'[Prewarm] = Idle))
  PROVE  IInv'
BY DEF IInv

LEMMA StepInv == IInv /\ [Next]_vars => IInv'
<1> SUFFICES ASSUME IInv, [Next]_vars PROVE IInv'
  OBVIOUS
<1>0. /\ JobsInv /\ LimitInv /\ Prewarm \in Jobs /\ Prewarm \notin Exports
      /\ work = [j \in Jobs |-> work[j]]
  BY JobAssumption DEF IInv, JobsInv, Jobs
<1>1. ASSUME NEW e \in Exports, NEW p \in Replicas, Ask(e, p)
      PROVE  IInv'
  <2>1. JobsInv' /\ UNCHANGED comparison
    BY <1>1, JobsAsked
  <2>2. LimitInv'
    BY <1>0, <1>1, LimitAsk
  <2>3. work'[Prewarm] = work[Prewarm]
    BY <1>0, <1>1 DEF Ask, AskedBy, Becomes
  <2> QED BY <2>1, <2>2, <2>3, Together
<1>2. ASSUME NEW e \in Exports, ExportStep(e)
      PROVE  IInv'
  <2>1. OnlyJob(e) /\ ExportFits(work'[e], job'[e]) /\ UNCHANGED <<counter, admission>> /\ e \in Jobs
    BY <1>2, ExportStepFits DEF Jobs
  <2>2. JobsInv'
    BY <1>0, <2>1, JobsOne DEF OnlyJob
  <2>3. LimitInv'
    BY <1>0, <2>1, LimitKept
  <2>4. work'[Prewarm] = work[Prewarm] /\ UNCHANGED comparison
    BY <1>0, <2>1 DEF OnlyJob
  <2> QED BY <2>2, <2>3, <2>4, Together
<1>3. ASSUME NEW p \in Replicas, CreateComparison(p)
      PROVE  IInv'
  <2>1. JobsInv'
    BY <1>3, ComparisonCreated
  <2>2. UNCHANGED <<counter, admission>> /\ comparison' = "saved"
    BY <1>3 DEF CreateComparison
  <2>3. LimitInv'
    BY <1>0, <2>2, LimitKept
  <2> QED BY <2>1, <2>2, <2>3, Together
<1>4. CASE PrewarmStep
  <2>1. OnlyJob(Prewarm) /\ PrewarmFits(work'[Prewarm], job'[Prewarm]) /\ UNCHANGED <<counter, admission>>
    BY <1>4, PrewarmStepFits
  <2>2. JobsInv'
    BY <1>0, <2>1, JobsOne DEF OnlyJob
  <2>3. LimitInv'
    BY <1>0, <2>1, LimitKept
  <2>4. work[Prewarm] # Idle
    BY <1>4 DEF PrewarmStep, CreatePrewarm, MarkPrewarm, Resolve, FinishPrewarm, FailPrewarm, At, Idle
  <2> QED BY <2>1, <2>2, <2>3, <2>4, Together DEF OnlyJob
<1>5. CASE DeleteComparison
  <2>1. JobsInv'
    BY <1>5, JobsDeleted
  <2>2. UNCHANGED <<counter, admission>> /\ comparison' = "deleted"
    BY <1>5 DEF DeleteComparison
  <2>3. LimitInv'
    BY <1>0, <2>2, LimitKept
  <2> QED BY <2>1, <2>2, <2>3, Together
<1>6. ASSUME NEW p \in Replicas, Restart(p)
      PROVE  IInv'
  <2>1. JobsInv' /\ LimitInv'
    BY <1>0, <1>6, JobsRestarted, LimitRestart
  <2>2. UNCHANGED comparison /\ (work[Prewarm] = Idle => work'[Prewarm] = Idle)
    BY <1>0, <1>6 DEF Restart, UnderWay
  <2> QED BY <2>1, <2>2, Together
<1>7. CASE Tick
  <2>1. UNCHANGED <<comparison, job, work>>
    BY <1>7 DEF Tick
  <2>2. JobsInv'
    BY <1>0, <2>1 DEF JobsInv
  <2>3. LimitInv'
    BY <1>0, <1>7, LimitTick
  <2> QED BY <2>1, <2>2, <2>3, Together
<1>8. CASE UNCHANGED vars
  <2>1. UNCHANGED <<counter, comparison, job, work, admission>>
    BY <1>8 DEF vars
  <2>2. JobsInv'
    BY <1>0, <2>1 DEF JobsInv
  <2>3. LimitInv'
    BY <1>0, <2>1, LimitKept
  <2> QED BY <2>1, <2>2, <2>3, Together
<1> QED BY <1>1, <1>2, <1>3, <1>4, <1>5, <1>6, <1>7, <1>8 DEF Next

LEMMA Inductive == Spec => []IInv
<1>1. Init => IInv
  BY InitInv
<1>2. IInv /\ [Next]_vars => IInv'
  BY StepInv
<1> QED BY <1>1, <1>2, PTL DEF Spec

LEMMA IInvWindows == IInv => WindowHonoured /\ NeverLockedOut
  BY DEF IInv, LimitInv, WindowInv, WindowHonoured, NeverLockedOut

LEMMA IInvTwice == IInv => TwiceAtMost
<1> SUFFICES ASSUME IInv, NEW k \in Counters
             PROVE  Cardinality({e \in Exports : admission[e].by = k}) <= 2 * Limit
  BY DEF TwiceAtMost
<1>1. By(k) = InWindow(k) \union Earlier(k)
  BY DEF By, InWindow, Earlier
<1>2. InWindow(k) \subseteq Exports /\ Earlier(k) \subseteq Exports
      /\ InWindow(k) \intersect Earlier(k) \subseteq Exports
  BY DEF InWindow, Earlier
<1>3. Cardinality(By(k)) = Cardinality(InWindow(k)) + Cardinality(Earlier(k))
                             - Cardinality(InWindow(k) \intersect Earlier(k))
  BY <1>1, <1>2, SomeExports, FS_Union
<1>4. Cardinality(InWindow(k)) <= Limit /\ Cardinality(Earlier(k)) <= Limit
  BY DEF IInv, LimitInv, WindowInv
<1>5. /\ Cardinality(InWindow(k)) \in Nat /\ Cardinality(Earlier(k)) \in Nat
      /\ Cardinality(InWindow(k) \intersect Earlier(k)) \in Nat /\ Limit \in Nat
  BY <1>2, SomeExports, LimitAssumption
<1> QED BY <1>3, <1>4, <1>5 DEF By

-----------------------------------------------------------------------------
(* JobLife is implemented.                                                 *)

shown == [j \in Jobs |-> job[j].status]

\* What one job may become is a step of JobLife.
LEMMA LifeOfOne ==
  ASSUME IInv, NEW j \in Jobs, OnlyJob(j)
  PROVE  Life!Next \/ UNCHANGED shown
<1>1. job = [i \in Jobs |-> job[i]]
  BY DEF IInv, JobsInv
<1>2. /\ shown' = [shown EXCEPT ![j] = job'[j].status]
      /\ shown[j] = job[j].status
      /\ MayBecome(shown[j], job'[j].status)
  BY <1>1 DEF shown, OnlyJob
<1>3. shown = [i \in Jobs |-> shown[i]]
  BY DEF shown
<1>4. CASE job'[j].status = shown[j]
  BY <1>2, <1>3, <1>4
<1>5. CASE job'[j].status # shown[j]
  <2>1. Life!Create(j) \/ Life!Start(j) \/ Life!Complete(j) \/ Life!Fail(j)
    BY <1>2, <1>5 DEF MayBecome, Life!Create, Life!Start, Life!Complete, Life!Fail, Life!Turns, shown
  <2> QED BY <2>1 DEF Life!Next
<1> QED BY <1>4, <1>5

LEMMA LifeStep == IInv /\ [Next]_vars => [Life!Next]_shown
<1> SUFFICES ASSUME IInv, [Next]_vars PROVE Life!Next \/ UNCHANGED shown
  BY DEF shown
<1>1. ASSUME NEW e \in Exports, NEW p \in Replicas, Ask(e, p)
      PROVE  UNCHANGED shown
  BY <1>1, JobsAsked DEF shown
<1>2. ASSUME NEW e \in Exports, ExportStep(e)
      PROVE  Life!Next \/ UNCHANGED shown
  BY <1>2, ExportStepFits, LifeOfOne DEF Jobs
<1>3. ASSUME NEW p \in Replicas, CreateComparison(p) \/ Restart(p)
      PROVE  UNCHANGED shown
  BY <1>3 DEF CreateComparison, Restart, shown
<1>4. CASE PrewarmStep
  BY <1>4, PrewarmStepFits, LifeOfOne DEF Jobs
<1>5. CASE DeleteComparison
  <2>1. \A j \in Jobs : HasRow(j) <=> job[j].status \notin {"none", "gone"}
    <3>1. \A j \in Jobs : job[j] \in {NoRow, GoneRow} \union ExportRow \union PrewarmRow
      BY IInvTypes DEF TypeOK
    <3>2. \A r \in {NoRow, GoneRow} \union ExportRow \union PrewarmRow :
            r.status \in Status <=> r.status \notin {"none", "gone"}
      BY DEF NoRow, GoneRow, ExportRow, PrewarmRow, Status
    <3> QED BY <3>1, <3>2 DEF HasRow
  <2>2. \A j \in Jobs : job'[j] = IF HasRow(j) THEN GoneRow ELSE job[j]
    BY <1>5 DEF DeleteComparison
  <2>3. \A j \in Jobs : job'[j].status = IF job[j].status = "none" THEN "none" ELSE "gone"
    BY <2>1, <2>2 DEF GoneRow
  <2>4. Life!Delete
    BY <2>3 DEF Life!Delete, shown
  <2> QED BY <2>4 DEF Life!Next
<1>6. CASE Tick \/ UNCHANGED vars
  BY <1>6 DEF Tick, vars, shown
<1> QED BY <1>1, <1>2, <1>3, <1>4, <1>5, <1>6 DEF Next

-----------------------------------------------------------------------------
(* What is completed stays so, once every completion is answered.          *)

\* The function of a completed job has come to its end.
CompletedIsDone ==
  \A j \in Jobs : job[j].status = "completed" => ~At(j, "failing")

LEMMA CompletedRests ==
  ASSUME IInv, NEW j \in Jobs, job[j].status = "completed", ~At(j, "failing")
  PROVE  work[j] \in {Returned, Lost}
<1>1. CASE j \in Exports
  <2>1. ExportFits(work[j], job[j])
    BY <1>1 DEF IInv, JobsInv
  <2> QED BY <2>1 DEF ExportFits, At, NoRow, GoneRow, Pending, Running
<1>2. CASE j = Prewarm
  <2>1. PrewarmFits(work[j], job[j])
    BY <1>2 DEF IInv, JobsInv
  <2> QED BY <2>1 DEF PrewarmFits, At, NoRow, GoneRow, Open
<1> QED BY <1>1, <1>2 DEF Jobs

\* Nothing is done for such a job, and nothing changes its row but the
\* deletion of the comparison.
LEMMA CompletedStep ==
  ASSUME IInv, Next, NEW j \in Jobs, job[j].status = "completed", ~At(j, "failing")
  PROVE  work'[j] = work[j] /\ job'[j] \in {job[j], GoneRow}
<1>1. work[j] \in {Returned, Lost}
  BY CompletedRests
<1>2. work[j].step \notin ExportSteps \union PrewarmSteps /\ work[j] # Idle /\ ~UnderWay(j)
  BY <1>1 DEF Returned, Lost, Idle, ExportSteps, PrewarmSteps, UnderWay
<1>3. work = [i \in Jobs |-> work[i]] /\ job = [i \in Jobs |-> job[i]]
  BY DEF IInv, JobsInv
<1>4. ASSUME NEW e \in Exports, NEW p \in Replicas, Ask(e, p)
      PROVE  UNCHANGED job /\ work'[j] = work[j]
  <2>1. work[e] = Idle /\ UNCHANGED job
        /\ (UNCHANGED work \/ work' = [work EXCEPT ![e] = [step |-> "posting", at |-> p]])
    BY <1>4 DEF Ask, AskedBy, Becomes
  <2> QED BY <1>2, <1>3, <2>1
<1>5. ASSUME NEW e \in Exports, ExportStep(e)
      PROVE  work'[j] = work[j] /\ job'[j] = job[j]
  <2>1. work[e].step \in ExportSteps
    BY <1>5 DEF ExportStep, Enqueue, Refuse, Read, MarkRunning, Generate, Complete, Fail, Reject, At,
       ExportSteps
  <2>2. j # e /\ OnlyJob(e)
    BY <1>2, <1>5, <2>1, ExportStepFits
  <2> QED BY <1>3, <2>2 DEF OnlyJob
<1>6. ASSUME NEW p \in Replicas, CreateComparison(p)
      PROVE  work'[j] = work[j] /\ job'[j] = job[j]
  <2>1. work[Prewarm] = Idle
    BY <1>6 DEF CreateComparison, IInv
  <2> QED BY <1>2, <1>3, <1>6, <2>1 DEF CreateComparison, Becomes
<1>7. ASSUME PrewarmStep
      PROVE  work'[j] = work[j] /\ job'[j] = job[j]
  <2>1. work[Prewarm].step \in PrewarmSteps
    BY <1>7 DEF PrewarmStep, CreatePrewarm, MarkPrewarm, Resolve, FinishPrewarm, FailPrewarm, At,
       PrewarmSteps
  <2>2. j # Prewarm /\ OnlyJob(Prewarm)
    BY <1>2, <1>7, <2>1, PrewarmStepFits
  <2> QED BY <1>3, <2>2 DEF OnlyJob
<1>8. CASE DeleteComparison
  BY <1>8 DEF DeleteComparison
<1>9. ASSUME NEW p \in Replicas, Restart(p)
      PROVE  work'[j] = work[j] /\ job'[j] = job[j]
  BY <1>2, <1>9 DEF Restart
<1>10. CASE Tick
  BY <1>10 DEF Tick
<1> QED BY <1>4, <1>5, <1>6, <1>7, <1>8, <1>9, <1>10 DEF Next

LEMMA CompletedDoneStep ==
  ASSUME IInv, CompletedIsDone, Next, CompletionsAnswered
  PROVE  CompletedIsDone'
<1> SUFFICES ASSUME NEW j \in Jobs, job'[j].status = "completed"
             PROVE  work'[j].step # "failing"
  BY DEF CompletedIsDone, At
<1>1. CASE job[j].status = "completed"
  BY <1>1, CompletedStep DEF CompletedIsDone, At
<1>2. CASE job[j].status # "completed"
  BY <1>2 DEF CompletionsAnswered
<1> QED BY <1>1, <1>2

-----------------------------------------------------------------------------
(* The theorems.                                                           *)

\* The rows, the work, the counters and the admissions keep their types.
THEOREM TypeCorrect == Spec => []TypeOK
  BY Inductive, IInvTypes, PTL

\* processExportJob and processComparison leave no row pending or running
\* unless a restart or a failed statement ended them.
THEOREM UnfinishedIsWorkedOnHolds == Spec => []UnfinishedIsWorkedOn
  BY Inductive, IInvWorkedOn, PTL

\* The counts of a settled prewarming add up, whichever statement wrote them.
THEOREM PrewarmAddsUpHolds == Spec => []PrewarmAddsUp
  BY Inductive, IInvAddsUp, PTL

\* In each of its windows a counter lets in as many as the limit says.
THEOREM WindowHonouredHolds == Spec => []WindowHonoured
  BY Inductive, IInvWindows, PTL

\* No count is without a window that comes to its end.
THEOREM NeverLockedOutHolds == Spec => []NeverLockedOut
  BY Inductive, IInvWindows, PTL

\* Within the length of a window a counter lets in twice the limit at most.
THEOREM TwiceAtMostHolds == Spec => []TwiceAtMost
  BY Inductive, IInvTwice, PTL

\* Whatever statements fail after they took effect, and whatever restarts or
\* deletions come between, a row shows a life that JobLife allows.
THEOREM ImplementsJobLifeHolds == Spec => ImplementsJobLife
<1>1. Init => Life!Init
  BY DEF Init, Life!Init, NoRow
<1>2. IInv /\ [Next]_vars => [Life!Next]_[j \in Jobs |-> job[j].status]
  BY LifeStep DEF shown
<1> QED BY <1>1, <1>2, Inductive, PTL DEF Spec, ImplementsJobLife, Life!Spec

\* Where every statement that completes a job is answered, a completed job
\* stays completed for as long as its comparison is there, whatever else
\* fails and whichever replicas restart (processExportJob, processComparison).
THEOREM CompletedIsFinalApart == Spec /\ [][CompletionsAnswered]_vars => CompletedIsFinal
<1>1. Init => CompletedIsDone
  BY DEF Init, CompletedIsDone, NoRow
<1>2. IInv /\ CompletedIsDone /\ [Next]_vars /\ [CompletionsAnswered]_vars => CompletedIsDone'
  <2>1. ASSUME UNCHANGED vars, CompletedIsDone PROVE CompletedIsDone'
    BY <2>1 DEF vars, CompletedIsDone, At
  <2>2. ASSUME IInv, CompletedIsDone, Next, ~UNCHANGED vars, [CompletionsAnswered]_vars
        PROVE  CompletedIsDone'
    BY <2>2, CompletedDoneStep
  <2> QED BY <2>1, <2>2
<1>3. IInv /\ CompletedIsDone /\ [Next]_vars =>
        [\A j \in Jobs : job[j].status = "completed" => job'[j].status \in {"completed", "gone"}]_vars
  <2>1. ASSUME IInv, CompletedIsDone, Next, NEW j \in Jobs, job[j].status = "completed"
        PROVE  job'[j].status \in {"completed", "gone"}
    <3>1. job'[j] \in {job[j], GoneRow}
      BY <2>1, CompletedStep DEF CompletedIsDone
    <3> QED BY <2>1, <3>1 DEF GoneRow
  <2> QED BY <2>1
<1> QED BY <1>1, <1>2, <1>3, Inductive, PTL DEF Spec, CompletedIsFinal

=============================================================================
