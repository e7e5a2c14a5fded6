----------------------------- MODULE AuditExport ------------------------------
(***************************************************************************)
(* The team audit export outbox: recordTeamAuditEvent, the export workers  *)
(* of team-audit-export.service.ts, the statements they run against        *)
(* team_audit_event_exports, and the retention sweep that prunes both      *)
(* tables.  Every SQL statement (and every transaction) is one step; the   *)
(* POST to the receiver is another; workers of several API replicas        *)
(* interleave, stall past their lease and crash.                           *)
(*                                                                         *)
(* Time is what the claim's predicate makes of it: stale[e] stands for     *)
(* last_attempt_at <= now - 15 minutes and due[e] for next_attempt_at <=   *)
(* now, and either may become true at any moment: a batch posts one event  *)
(* after another and the POST has no timeout of its own, so a live worker  *)
(* can outlast its lease.                                                  *)
(***************************************************************************)
EXTENDS Naturals, FiniteSets

CONSTANTS
  NumEvents,    \* events are numbered in the order they are created
  Exported,     \* the events recorded while AUTH_AUDIT_EXPORT_MODE is webhook
  Workers,      \* export workers, one per replica
  BatchSize,    \* AUTH_AUDIT_EXPORT_BATCH_SIZE
  MaxAttempts,  \* AUTH_AUDIT_EXPORT_MAX_ATTEMPTS
  Faults        \* whether workers crash and statements fail

Events == 1..NumEvents

ASSUME NumEventsAssumption == NumEvents \in Nat
ASSUME ExportedAssumption == Exported \subseteq Events
ASSUME WorkersAssumption == IsFiniteSet(Workers)
ASSUME BatchSizeAssumption == BatchSize \in Nat \ {0}
ASSUME MaxAttemptsAssumption == MaxAttempts \in Nat \ {0}
ASSUME FaultsAssumption == Faults \in BOOLEAN

VARIABLES
  recorded,   \* how many events have been recorded
  present,    \* the rows of team_audit_events
  status,     \* the status of each event's export row, "none" without a row
  attempts,   \* attempts of the row (kept, unused, once the row is gone)
  due,        \* next_attempt_at <= now
  stale,      \* last_attempt_at <= now - 15 minutes
  left,       \* per worker: claimed and not yet posted
  posted,     \* per worker: the event whose POST has returned, 0 for none
  answer,     \* per worker: what came of that POST
  received,   \* the events the receiver has accepted
  posts       \* history: how often each event was posted

table == <<recorded, present, status, attempts, due, stale>>
workers == <<left, posted, answer>>
receiver == <<received, posts>>
vars == <<table, workers, receiver>>

Statuses == {"none", "pending", "processing", "delivered", "failed"}

\* A 2xx, another status, or nothing: "thrown" is where deliverExport's catch begins.
Answers == {"none", "ok", "error", "thrown"}

TypeOK ==
  /\ recorded \in 0..NumEvents
  /\ present \subseteq Events
  /\ status \in [Events -> Statuses]
  /\ attempts \in [Events -> 0..MaxAttempts]
  /\ due \in [Events -> BOOLEAN]
  /\ stale \in [Events -> BOOLEAN]
  /\ left \in [Workers -> SUBSET Events]
  /\ posted \in [Workers -> Events \union {0}]
  /\ answer \in [Workers -> Answers]
  /\ received \subseteq Events
  /\ posts \in [Events -> Nat]

Init ==
  /\ recorded = 0
  /\ present = {}
  /\ status = [e \in Events |-> "none"]
  /\ attempts = [e \in Events |-> 0]
  /\ due = [e \in Events |-> TRUE]
  /\ stale = [e \in Events |-> FALSE]
  /\ left = [w \in Workers |-> {}]
  /\ posted = [w \in Workers |-> 0]
  /\ answer = [w \in Workers |-> "none"]
  /\ received = {}
  /\ posts = [e \in Events |-> 0]

-----------------------------------------------------------------------------
(* Recording, claiming and delivering.                                     *)

\* Mutant: two autocommits, and a crash can come between them.
RecordEventThenEnqueue ==
  /\ recorded < NumEvents
  /\ recorded' = recorded + 1
  /\ present' = present \union {recorded + 1}
  /\ \E s \in {"pending", "none"} : status' = [status EXCEPT ![recorded + 1] = s]
  /\ UNCHANGED <<attempts, due, stale, workers, receiver>>

\* recordTeamAuditEvent: the event and its outbox row in one transaction.
RecordEvent ==
  /\ recorded < NumEvents
  /\ recorded' = recorded + 1
  /\ present' = present \union {recorded + 1}
  /\ status' = [status EXCEPT ![recorded + 1] =
                   IF recorded + 1 \in Exported THEN "pending" ELSE "none"]
  /\ UNCHANGED <<attempts, due, stale, workers, receiver>>

\* Mutant: a row whose worker died is not claimed again.
ClaimablePending ==
  {e \in Events : status[e] = "pending" /\ due[e] /\ attempts[e] < MaxAttempts}

Claimable ==
  {e \in Events : /\ \/ status[e] = "pending"
                     \/ status[e] = "processing" /\ stale[e]
                  /\ due[e]
                  /\ attempts[e] < MaxAttempts}

\* ORDER BY created_at, id LIMIT n
Oldest(n, E) == {e \in E : Cardinality({d \in E : d < e}) < n}

Idle(w) == left[w] = {} /\ posted[w] = 0

\* Mutant: the claim does not count the attempt.
ClaimUncounted(w) ==
  LET batch == Oldest(BatchSize, Claimable)
  IN  /\ Idle(w)
      /\ batch # {}
      /\ status' = [e \in Events |-> IF e \in batch THEN "processing" ELSE status[e]]
      /\ stale' = [e \in Events |-> IF e \in batch THEN FALSE ELSE stale[e]]
      /\ left' = [left EXCEPT ![w] = batch]
      /\ UNCHANGED <<recorded, present, attempts, due, posted, answer, receiver>>

\* claimPendingTeamAuditExports: one statement selects, locks and updates.
Claim(w) ==
  LET batch == Oldest(BatchSize, Claimable)
  IN  /\ Idle(w)
      /\ batch # {}
      /\ status' = [e \in Events |-> IF e \in batch THEN "processing" ELSE status[e]]
      /\ attempts' = [e \in Events |-> IF e \in batch THEN attempts[e] + 1 ELSE attempts[e]]
      /\ stale' = [e \in Events |-> IF e \in batch THEN FALSE ELSE stale[e]]
      /\ left' = [left EXCEPT ![w] = batch]
      /\ UNCHANGED <<recorded, present, due, posted, answer, receiver>>

\* deliverExport up to the end of its fetch, for the oldest event left.  The
\* receiver may take the event or not, and its 2xx may be lost on the way back.
Post(w, e) ==
  /\ posted[w] = 0
  /\ e \in left[w]
  /\ \A d \in left[w] : e <= d
  /\ left' = [left EXCEPT ![w] = @ \ {e}]
  /\ posted' = [posted EXCEPT ![w] = e]
  /\ posts' = [posts EXCEPT ![e] = @ + 1]
  /\ \/ /\ received' = received \union {e}
        /\ answer' = [answer EXCEPT ![w] = "ok"]
     \/ /\ received' \in {received, received \union {e}}
        /\ \E a \in {"error", "thrown"} : answer' = [answer EXCEPT ![w] = a]
  /\ UNCHANGED table

\* The loop of flushPendingExports goes on to the next claimed export.
Proceed(w) ==
  /\ posted' = [posted EXCEPT ![w] = 0]
  /\ answer' = [answer EXCEPT ![w] = "none"]

\* What the two marks write: WHERE id = $1 and no other condition.  A failure
\* schedules a retry by backoff unless the attempts are used up.
Delivers(e) ==
  status' = [status EXCEPT ![e] = IF @ = "none" THEN "none" ELSE "delivered"]

Fails(e) ==
  /\ status' = [status EXCEPT ![e] = IF @ = "none" THEN "none"
                                     ELSE IF attempts[e] >= MaxAttempts
                                       THEN "failed" ELSE "pending"]
  /\ due' = [due EXCEPT ![e] = @ /\ attempts[e] >= MaxAttempts]

\* Mutant: response.ok is not looked at.
MarkDeliveredAnyway(w, e) ==
  /\ posted[w] = e
  /\ Delivers(e)
  /\ Proceed(w)
  /\ UNCHANGED <<recorded, present, attempts, due, stale, left, receiver>>

\* markTeamAuditExportDelivered
MarkDelivered(w, e) ==
  /\ posted[w] = e
  /\ answer[w] = "ok"
  /\ Delivers(e)
  /\ Proceed(w)
  /\ UNCHANGED <<recorded, present, attempts, due, stale, left, receiver>>

\* A mark inside deliverExport's try throws, before or, when the connection goes,
\* after it took effect: the catch will mark the event as failed, the second time
\* if the answer was an error.
MarkThrows(w, e) ==
  /\ Faults
  /\ posted[w] = e
  /\ answer[w] \in {"ok", "error"}
  /\ \/ UNCHANGED <<status, due>>
     \/ answer[w] = "ok" /\ Delivers(e) /\ UNCHANGED due
     \/ answer[w] = "error" /\ Fails(e)
  /\ answer' = [answer EXCEPT ![w] = "thrown"]
  /\ UNCHANGED <<recorded, present, attempts, stale, left, posted, receiver>>

\* Mutant: the last failure schedules a retry like the others.
MarkFailedForRetry(w, e) ==
  /\ posted[w] = e
  /\ answer[w] # "ok"
  /\ status' = [status EXCEPT ![e] = IF @ = "none" THEN "none" ELSE "pending"]
  /\ due' = [due EXCEPT ![e] = FALSE]
  /\ Proceed(w)
  /\ UNCHANGED <<recorded, present, attempts, stale, left, receiver>>

\* markTeamAuditExportFailed
MarkFailed(w, e) ==
  /\ posted[w] = e
  /\ answer[w] # "ok"
  /\ Fails(e)
  /\ Proceed(w)
  /\ UNCHANGED <<recorded, present, attempts, stale, left, receiver>>

\* The process dies, or markFailed throws in the catch and takes the job with it,
\* after a MarkFailed if it took effect: the rest of the batch stays "processing"
\* until its lease runs out.
Abandon(w) ==
  /\ Faults
  /\ ~Idle(w)
  /\ left' = [left EXCEPT ![w] = {}]
  /\ Proceed(w)
  /\ UNCHANGED <<table, receiver>>

LeaseExpires(e) ==
  /\ status[e] = "processing"
  /\ ~stale[e]
  /\ stale' = [stale EXCEPT ![e] = TRUE]
  /\ UNCHANGED <<recorded, present, status, attempts, due, workers, receiver>>

BackoffElapses(e) ==
  /\ ~due[e]
  /\ due' = [due EXCEPT ![e] = TRUE]
  /\ UNCHANGED <<recorded, present, status, attempts, stale, workers, receiver>>

-----------------------------------------------------------------------------
(* The retention sweep in delete-expired mode.  E is what the age window and *)
(* the row limit select of the eligible rows.                                *)

PruneExports(E) ==
  /\ E # {}
  /\ \A e \in E : status[e] = "delivered"
  /\ status' = [e \in Events |-> IF e \in E THEN "none" ELSE status[e]]
  /\ UNCHANGED <<recorded, present, attempts, due, stale, workers, receiver>>

\* Deleting an event cascades to its export row.
PruneEvents(E) ==
  /\ E # {}
  /\ E \subseteq present
  /\ \A e \in E : status[e] \in {"none", "delivered"}
  /\ present' = present \ E
  /\ status' = [e \in Events |-> IF e \in E THEN "none" ELSE status[e]]
  /\ UNCHANGED <<recorded, attempts, due, stale, workers, receiver>>

-----------------------------------------------------------------------------
WorkerStep(w) ==
  \/ \E e \in Events : Post(w, e) \/ MarkDelivered(w, e) \/ MarkFailed(w, e)
  \/ Claim(w)

Next ==
  \/ RecordEvent
  \/ \E w \in Workers : WorkerStep(w) \/ Abandon(w)
  \/ \E w \in Workers, e \in Events : MarkThrows(w, e)
  \/ \E e \in Events : LeaseExpires(e) \/ BackoffElapses(e)
  \/ \E E \in SUBSET Events : PruneExports(E) \/ PruneEvents(E)

Spec == Init /\ [][Next]_vars

\* The job scheduler starts a flush every few minutes, a started flush runs on,
\* fetch and the database answer or fail, and time passes.
Fairness ==
  /\ \A w \in Workers : WF_vars(WorkerStep(w))
  /\ \A e \in Events : WF_vars(LeaseExpires(e)) /\ WF_vars(BackoffElapses(e))

LiveSpec == Spec /\ Fairness

-----------------------------------------------------------------------------
(* Properties.                                                             *)

\* "pruning an event with a pending export would silently destroy an undelivered
\* compliance export" (api-database.repository.ts, pruneExpiredData): an exported
\* event is gone from the database only if the receiver has it, whatever a stale
\* worker did to its row in between.
PrunedOnlyIfReceived ==
  \A e \in Exported : e <= recorded /\ e \notin present => e \in received

\* A row says delivered, or has been pruned as delivered, only when the receiver
\* accepted the event: no lost response, failing statement or second worker makes
\* the outbox claim a delivery that never happened.
DeliveredWasReceived ==
  \A e \in Exported :
     status[e] = "delivered" \/ (status[e] = "none" /\ e <= recorded) => e \in received

\* What makes it inductive: rows belong to recorded events that are still there,
\* nothing is claimed, posted or received before it is recorded, and a worker that
\* is about to mark a delivery had its POST accepted.
PresentRecorded == present \subseteq 1..recorded
RowsHaveEvents == \A e \in Events : status[e] # "none" => e \in present
ReceivedRecorded == received \subseteq 1..recorded
ClaimsRecorded == \A w \in Workers : left[w] \subseteq 1..recorded
AcceptedReceived == \A w \in Workers : answer[w] = "ok" => posted[w] \in received

OutboxInv ==
  /\ PresentRecorded
  /\ RowsHaveEvents
  /\ ReceivedRecorded
  /\ ClaimsRecorded
  /\ AcceptedReceived

\* Leases that run out, workers that overlap and crashes never post an event more
\* often than AUTH_AUDIT_EXPORT_MAX_ATTEMPTS.
PostsBounded == \A e \in Events : posts[e] <= MaxAttempts

\* The outbox implements durable at-least-once delivery.
Stage ==
  [e \in Exported |-> IF e > recorded THEN "unrecorded"
                      ELSE IF e \notin present THEN "forgotten"
                      ELSE IF e \in received THEN "received" ELSE "owed"]

Durable == INSTANCE DurableDelivery WITH stage <- Stage

ImplementsDurableDelivery == Durable!Spec

\* What a crash during the last attempt leaves behind: the claim takes only rows
\* with attempts to spare, and nobody works on this one.
Stranded(e) ==
  /\ status[e] = "processing" /\ attempts[e] = MaxAttempts
  /\ \A w \in Workers : e \notin left[w] /\ posted[w] # e

\* A worker still has the export to post or to mark.
Held(e) == \E w \in Workers : e \in left[w] \/ posted[w] = e

AtRest(e) == status[e] \in {"delivered", "failed", "none"} \/ Stranded(e)

\* What stands between a recorded export and its rest is a worker or a timer: no
\* order of failures, overlapping claims and late marks leaves a row "pending" with
\* its attempts used up, which no claim would take again.
NoneForgotten ==
  \A e \in Exported : e <= recorded =>
    \/ AtRest(e) \/ Held(e)
    \/ status[e] \in {"pending", "processing"} /\ attempts[e] < MaxAttempts

\* And rest is final once the last worker has let go of the export: only those who
\* still hold it can bring a settled row back (MarkFailed has no other condition).
RestIsFinal ==
  [][\A e \in Events : e <= recorded /\ AtRest(e) /\ ~Held(e) => (AtRest(e) /\ ~Held(e))']_vars

\* Every export ends delivered or dead-lettered and stays so, however leases run
\* out, workers overlap, crash and fail to write: a crash before the last attempt
\* is made good, one during it strands the row and nothing else does.
EverySettles ==
  \A e \in Exported :
     status[e] = "pending" ~> [](status[e] \in {"delivered", "failed", "none"} \/ Stranded(e))

\* "processing --> delivered: webhook 2xx", "processing --> failed: delivery error"
\* (docs/DIAGRAMS.md): processing is left in the end, also after a crash.
NoneLeftProcessing == \A e \in Events : status[e] = "processing" ~> status[e] # "processing"

\* "delivered --> [*]" (docs/DIAGRAMS.md): a delivered export never becomes
\* anything else.
DeliveredIsFinal ==
  [][\A e \in Events : status[e] = "delivered" => status'[e] \in {"delivered", "none"}]_vars

\* What that takes, and 15 minutes for a batch of POSTs without a timeout do not
\* give: the lease of an export outlasts the worker that holds it.
LeasesOutlast == \A e \in Events : Held(e) /\ stale'[e] => stale[e]

\* Nor does anything rule out the other way: a mark that took effect and then
\* throws, whose worker goes on to mark the export as failed.
MarksAnswered ==
  \A w \in Workers, e \in Events : MarkThrows(w, e) => status' = status /\ due' = due

=============================================================================
