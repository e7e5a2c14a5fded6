-------------------------- MODULE AuditExportProofs ---------------------------
(***************************************************************************)
(* Proofs about AuditExport, for any number of events, workers, batch size *)
(* and attempts, with and without faults.  What a step may do to one row   *)
(* is a lemma of its own (RowStep), on which the action properties rest.   *)
(***************************************************************************)
EXTENDS AuditExport, FiniteSetTheorems, TLAPS

-----------------------------------------------------------------------------
(* Types.                                                                  *)

DataTypes ==
  /\ recorded \in 0..NumEvents
  /\ present \subseteq Events
  /\ status \in [Events -> Statuses]
  /\ attempts \in [Events -> 0..MaxAttempts]
  /\ left \in [Workers -> SUBSET Events]
  /\ posted \in [Workers -> Events \union {0}]
  /\ received \subseteq Events
  /\ posts \in [Events -> Nat]

FlagTypes ==
  /\ due \in [Events -> BOOLEAN]
  /\ stale \in [Events -> BOOLEAN]
  /\ answer \in [Workers -> Answers]

LEMMA TypeSplit == TypeOK <=> DataTypes /\ FlagTypes
  BY DEF TypeOK, DataTypes, FlagTypes

LEMMA DataTypesNext == DataTypes /\ [Next]_vars => DataTypes'
<1> SUFFICES ASSUME DataTypes, [Next]_vars PROVE DataTypes'
  OBVIOUS
<1> USE NumEventsAssumption, MaxAttemptsAssumption DEF DataTypes, Events, Statuses
<1>1. CASE RecordEvent
  BY <1>1 DEF RecordEvent, workers, receiver
<1>2. ASSUME NEW w \in Workers, Claim(w) PROVE DataTypes'
  <2> DEFINE batch == Oldest(BatchSize, Claimable)
  <2>1. batch \in SUBSET Events /\ \A e \in batch : attempts[e] < MaxAttempts
    BY DEF Oldest, Claimable
  <2>2. /\ status' = [e \in Events |-> IF e \in batch THEN "processing" ELSE status[e]]
        /\ attempts' = [e \in Events |-> IF e \in batch THEN attempts[e] + 1 ELSE attempts[e]]
        /\ left' = [left EXCEPT ![w] = batch]
    BY <1>2 DEF Claim
  <2>3. /\ recorded' = recorded /\ present' = present /\ posted' = posted
        /\ received' = received /\ posts' = posts
    BY <1>2 DEF Claim, receiver
  <2> HIDE DEF batch
  <2>4. status' \in [Events -> Statuses]
    BY <2>2
  <2>5. attempts' \in [Events -> 0..MaxAttempts]
    <3>1. \A e \in batch : attempts[e] + 1 \in 0..MaxAttempts
      BY <2>1
    <3> QED BY <2>2, <3>1
  <2>6. left' \in [Workers -> SUBSET Events]
    BY <2>1, <2>2
  <2> QED BY <2>3, <2>4, <2>5, <2>6
<1>3. ASSUME NEW w \in Workers, NEW e \in Events, Post(w, e) PROVE DataTypes'
  <2>1. /\ left' = [left EXCEPT ![w] = @ \ {e}]
        /\ posted' = [posted EXCEPT ![w] = e]
        /\ posts' = [posts EXCEPT ![e] = @ + 1]
    BY <1>3 DEF Post
  <2>2. received' = received \/ received' = received \union {e}
    BY <1>3 DEF Post
  <2>3. recorded' = recorded /\ present' = present /\ status' = status /\ attempts' = attempts
    <3>1. UNCHANGED table
      BY <1>3 DEF Post
    <3> QED BY <3>1 DEF table
  <2>4. left' \in [Workers -> SUBSET Events]
    BY <2>1
  <2>5. posted' \in [Workers -> Events \union {0}]
    BY <2>1
  <2>6. posts' \in [Events -> Nat]
    BY <2>1
  <2>7. received' \subseteq Events
    BY <2>2
  <2> QED BY <2>3, <2>4, <2>5, <2>6, <2>7
<1>4. ASSUME NEW w \in Workers, NEW e \in Events, MarkDelivered(w, e) PROVE DataTypes'
  BY <1>4 DEF MarkDelivered, Delivers, Proceed, receiver
<1>5. ASSUME NEW w \in Workers, NEW e \in Events, MarkFailed(w, e) PROVE DataTypes'
  BY <1>5 DEF MarkFailed, Fails, Proceed, receiver
<1>6. ASSUME NEW w \in Workers, NEW e \in Events, MarkThrows(w, e) PROVE DataTypes'
  BY <1>6 DEF MarkThrows, Delivers, Fails, receiver
<1>7. ASSUME NEW w \in Workers, Abandon(w) PROVE DataTypes'
  BY <1>7 DEF Abandon, Proceed, table, receiver
<1>8. ASSUME NEW e \in Events, LeaseExpires(e) \/ BackoffElapses(e) PROVE DataTypes'
  BY <1>8 DEF LeaseExpires, BackoffElapses, workers, receiver
<1>9. ASSUME NEW E \in SUBSET Events, PruneExports(E) PROVE DataTypes'
  BY <1>9 DEF PruneExports, workers, receiver
<1>10. ASSUME NEW E \in SUBSET Events, PruneEvents(E) PROVE DataTypes'
  BY <1>10 DEF PruneEvents, workers, receiver
<1>11. CASE UNCHANGED vars
  BY <1>11 DEF vars, table, workers, receiver
<1> QED
  BY <1>1, <1>2, <1>3, <1>4, <1>5, <1>6, <1>7, <1>8, <1>9, <1>10, <1>11 DEF Next, WorkerStep

LEMMA FlagTypesNext == FlagTypes /\ [Next]_vars => FlagTypes'
<1> SUFFICES ASSUME FlagTypes, [Next]_vars PROVE FlagTypes'
  OBVIOUS
<1> USE DEF FlagTypes, Answers
<1>1. CASE RecordEvent
  BY <1>1 DEF RecordEvent, workers
<1>2. ASSUME NEW w \in Workers, Claim(w) PROVE FlagTypes'
  BY <1>2 DEF Claim
<1>3. ASSUME NEW w \in Workers, NEW e \in Events, Post(w, e) PROVE FlagTypes'
  BY <1>3 DEF Post, table
<1>4. ASSUME NEW w \in Workers, NEW e \in Events, MarkDelivered(w, e) PROVE FlagTypes'
  BY <1>4 DEF MarkDelivered, Proceed
<1>5. ASSUME NEW w \in Workers, NEW e \in Events, MarkFailed(w, e) PROVE FlagTypes'
  BY <1>5 DEF MarkFailed, Fails, Proceed
<1>6. ASSUME NEW w \in Workers, NEW e \in Events, MarkThrows(w, e) PROVE FlagTypes'
  BY <1>6 DEF MarkThrows, Fails
<1>7. ASSUME NEW w \in Workers, Abandon(w) PROVE FlagTypes'
  BY <1>7 DEF Abandon, Proceed, table
<1>8. ASSUME NEW e \in Events, LeaseExpires(e) \/ BackoffElapses(e) PROVE FlagTypes'
  BY <1>8 DEF LeaseExpires, BackoffElapses, workers
<1>9. ASSUME NEW E \in SUBSET Events, PruneExports(E) \/ PruneEvents(E) PROVE FlagTypes'
  BY <1>9 DEF PruneExports, PruneEvents, workers
<1>10. CASE UNCHANGED vars
  BY <1>10 DEF vars, table, workers
<1> QED
  BY <1>1, <1>2, <1>3, <1>4, <1>5, <1>6, <1>7, <1>8, <1>9, <1>10 DEF Next, WorkerStep

(* Every variable keeps its type; in particular attempts never pass their limit. *)
THEOREM TypeCorrect == Spec => []TypeOK
<1>1. Init => DataTypes
  BY NumEventsAssumption, MaxAttemptsAssumption DEF Init, DataTypes, Events, Statuses
<1>2. Init => FlagTypes
  BY DEF Init, FlagTypes, Answers
<1> QED BY <1>1, <1>2, DataTypesNext, FlagTypesNext, TypeSplit, PTL DEF Spec

-----------------------------------------------------------------------------
(* The outbox never claims a delivery that did not happen.                 *)

IInv == DataTypes /\ FlagTypes /\ OutboxInv /\ DeliveredWasReceived

LEMMA InitIInv == Init => IInv
<1>1. Init => DataTypes
  BY NumEventsAssumption, MaxAttemptsAssumption DEF Init, DataTypes, Events, Statuses
<1>2. Init => FlagTypes
  BY DEF Init, FlagTypes, Answers
<1>3. Init => OutboxInv
  BY DEF Init, OutboxInv, PresentRecorded, RowsHaveEvents, ReceivedRecorded,
         ClaimsRecorded, AcceptedReceived, Events
<1>4. Init => DeliveredWasReceived
  BY NumEventsAssumption, ExportedAssumption DEF Init, DeliveredWasReceived, Events
<1> QED BY <1>1, <1>2, <1>3, <1>4 DEF IInv

LEMMA OutboxNext == IInv /\ [Next]_vars => OutboxInv'
<1> SUFFICES ASSUME IInv, [Next]_vars PROVE OutboxInv'
  OBVIOUS
<1> USE NumEventsAssumption DEF IInv, DataTypes, Events, OutboxInv
<1>1. CASE RecordEvent
  <2>1. recorded' = recorded + 1 /\ present' = present \union {recorded + 1}
    BY <1>1 DEF RecordEvent
  <2>2. \A e \in Events : e # recorded + 1 => status'[e] = status[e]
    BY <1>1 DEF RecordEvent
  <2>3. left' = left /\ posted' = posted /\ answer' = answer
    BY <1>1 DEF RecordEvent, workers
  <2>4. received' = received
    BY <1>1 DEF RecordEvent, receiver
  <2>p. PresentRecorded'
    BY <2>1 DEF PresentRecorded
  <2>q. RowsHaveEvents'
    BY <2>1, <2>2 DEF RowsHaveEvents
  <2>r. ReceivedRecorded'
    BY <2>1, <2>4 DEF ReceivedRecorded
  <2>s. ClaimsRecorded'
    BY <2>1, <2>3 DEF ClaimsRecorded
  <2>t. AcceptedReceived'
    BY <2>3, <2>4 DEF AcceptedReceived
  <2> QED BY <2>p, <2>q, <2>r, <2>s, <2>t DEF OutboxInv
<1>2. ASSUME NEW w \in Workers, Claim(w) PROVE OutboxInv'
  <2> DEFINE batch == Oldest(BatchSize, Claimable)
  <2>1. batch \subseteq present
    BY DEF Oldest, Claimable, RowsHaveEvents
  <2>2. /\ status' = [e \in Events |-> IF e \in batch THEN "processing" ELSE status[e]]
        /\ left' = [left EXCEPT ![w] = batch]
        /\ recorded' = recorded /\ present' = present
    BY <1>2 DEF Claim
  <2>3. posted' = posted /\ answer' = answer
    BY <1>2 DEF Claim
  <2>4. received' = received
    BY <1>2 DEF Claim, receiver
  <2> HIDE DEF batch
  <2>p. PresentRecorded'
    BY <2>2 DEF PresentRecorded
  <2>q. RowsHaveEvents'
    BY <2>1, <2>2 DEF RowsHaveEvents
  <2>r. ReceivedRecorded'
    BY <2>2, <2>4 DEF ReceivedRecorded
  <2>s. ClaimsRecorded'
    BY <2>1, <2>2 DEF ClaimsRecorded, PresentRecorded
  <2>t. AcceptedReceived'
    BY <2>3, <2>4 DEF AcceptedReceived
  <2> QED BY <2>p, <2>q, <2>r, <2>s, <2>t DEF OutboxInv
<1>3. ASSUME NEW w \in Workers, NEW e \in Events, Post(w, e) PROVE OutboxInv'
  <2>0. UNCHANGED table
    BY <1>3 DEF Post
  <2>1. recorded' = recorded /\ present' = present /\ status' = status
    BY <2>0 DEF table
  <2>2. e \in 1..recorded
    BY <1>3 DEF Post, ClaimsRecorded
  <2>3. left' = [left EXCEPT ![w] = @ \ {e}] /\ posted' = [posted EXCEPT ![w] = e]
    BY <1>3 DEF Post
  <2>4. received' = received \/ received' = received \union {e}
    BY <1>3 DEF Post
  <2>5. \A v \in Workers : answer'[v] = "ok" => posted'[v] \in received'
    <3> SUFFICES ASSUME NEW v \in Workers, answer'[v] = "ok" PROVE posted'[v] \in received'
      OBVIOUS
    <3>1. CASE v # w
      <4>1. answer[v] = "ok" /\ posted'[v] = posted[v]
        BY <1>3, <3>1 DEF Post, FlagTypes
      <4> QED BY <4>1, <2>4 DEF AcceptedReceived
    <3>2. CASE v = w
      <4>1. \A a \in {"error", "thrown"} : answer' # [answer EXCEPT ![w] = a]
        BY <3>2 DEF FlagTypes
      <4>2. received' = received \union {e}
        BY <1>3, <4>1 DEF Post
      <4> QED BY <4>2, <3>2, <2>3
    <3> QED BY <3>1, <3>2
  <2>p. PresentRecorded'
    BY <2>1 DEF PresentRecorded
  <2>q. RowsHaveEvents'
    BY <2>1 DEF RowsHaveEvents
  <2>r. ReceivedRecorded'
    BY <2>1, <2>2, <2>4 DEF ReceivedRecorded
  <2>s. ClaimsRecorded'
    BY <2>1, <2>3 DEF ClaimsRecorded
  <2>t. AcceptedReceived'
    BY <2>5 DEF AcceptedReceived
  <2> QED BY <2>p, <2>q, <2>r, <2>s, <2>t DEF OutboxInv
<1>4. ASSUME NEW w \in Workers, NEW e \in Events, MarkDelivered(w, e) \/ MarkFailed(w, e)
      PROVE  OutboxInv'
  <2>1. \A d \in Events : status'[d] # "none" => status[d] # "none"
    BY <1>4 DEF MarkDelivered, MarkFailed, Delivers, Fails
  <2>2. recorded' = recorded /\ present' = present /\ left' = left
    BY <1>4 DEF MarkDelivered, MarkFailed
  <2>3. received' = received
    BY <1>4 DEF MarkDelivered, MarkFailed, receiver
  <2>4. Proceed(w)
    BY <1>4 DEF MarkDelivered, MarkFailed
  <2>5. \A v \in Workers : answer'[v] = "ok" => answer[v] = "ok" /\ posted'[v] = posted[v]
    BY <2>4 DEF Proceed, FlagTypes
  <2>p. PresentRecorded'
    BY <2>2 DEF PresentRecorded
  <2>q. RowsHaveEvents'
    BY <2>1, <2>2 DEF RowsHaveEvents
  <2>r. ReceivedRecorded'
    BY <2>2, <2>3 DEF ReceivedRecorded
  <2>s. ClaimsRecorded'
    BY <2>2 DEF ClaimsRecorded
  <2>t. AcceptedReceived'
    BY <2>3, <2>5 DEF AcceptedReceived
  <2> QED BY <2>p, <2>q, <2>r, <2>s, <2>t DEF OutboxInv
<1>5. ASSUME NEW w \in Workers, Abandon(w) PROVE OutboxInv'
  <2>0. UNCHANGED table /\ UNCHANGED receiver
    BY <1>5 DEF Abandon
  <2>1. recorded' = recorded /\ present' = present /\ status' = status /\ received' = received
    BY <2>0 DEF table, receiver
  <2>2. \A v \in Workers : left'[v] \subseteq left[v]
    BY <1>5 DEF Abandon
  <2>3. \A v \in Workers : answer'[v] = "ok" => answer[v] = "ok" /\ posted'[v] = posted[v]
    BY <1>5 DEF Abandon, Proceed, FlagTypes
  <2>p. PresentRecorded'
    BY <2>1 DEF PresentRecorded
  <2>q. RowsHaveEvents'
    BY <2>1 DEF RowsHaveEvents
  <2>r. ReceivedRecorded'
    BY <2>1 DEF ReceivedRecorded
  <2>s. ClaimsRecorded'
    BY <2>1, <2>2 DEF ClaimsRecorded
  <2>t. AcceptedReceived'
    BY <2>1, <2>3 DEF AcceptedReceived
  <2> QED BY <2>p, <2>q, <2>r, <2>s, <2>t DEF OutboxInv
<1>6. ASSUME NEW e \in Events, LeaseExpires(e) \/ BackoffElapses(e) PROVE OutboxInv'
  <2>1. recorded' = recorded /\ present' = present /\ status' = status
    BY <1>6 DEF LeaseExpires, BackoffElapses
  <2>2. left' = left /\ posted' = posted /\ answer' = answer
    BY <1>6 DEF LeaseExpires, BackoffElapses, workers
  <2>3. received' = received
    BY <1>6 DEF LeaseExpires, BackoffElapses, receiver
  <2>p. PresentRecorded'
    BY <2>1 DEF PresentRecorded
  <2>q. RowsHaveEvents'
    BY <2>1 DEF RowsHaveEvents
  <2>r. ReceivedRecorded'
    BY <2>1, <2>3 DEF ReceivedRecorded
  <2>s. ClaimsRecorded'
    BY <2>1, <2>2 DEF ClaimsRecorded
  <2>t. AcceptedReceived'
    BY <2>2, <2>3 DEF AcceptedReceived
  <2> QED BY <2>p, <2>q, <2>r, <2>s, <2>t DEF OutboxInv
<1>7. ASSUME NEW E \in SUBSET Events, PruneExports(E) \/ PruneEvents(E) PROVE OutboxInv'
  <2>1. \A d \in Events : status'[d] # "none" => status[d] # "none" /\ d \in present'
    BY <1>7 DEF PruneExports, PruneEvents, RowsHaveEvents
  <2>2. present' \subseteq present /\ recorded' = recorded
    BY <1>7 DEF PruneExports, PruneEvents
  <2>3. left' = left /\ posted' = posted /\ answer' = answer
    BY <1>7 DEF PruneExports, PruneEvents, workers
  <2>4. received' = received
    BY <1>7 DEF PruneExports, PruneEvents, receiver
  <2>p. PresentRecorded'
    BY <2>2 DEF PresentRecorded
  <2>q. RowsHaveEvents'
    BY <2>1 DEF RowsHaveEvents
  <2>r. ReceivedRecorded'
    BY <2>2, <2>4 DEF ReceivedRecorded
  <2>s. ClaimsRecorded'
    BY <2>2, <2>3 DEF ClaimsRecorded
  <2>t. AcceptedReceived'
    BY <2>3, <2>4 DEF AcceptedReceived
  <2> QED BY <2>p, <2>q, <2>r, <2>s, <2>t DEF OutboxInv
<1>8. CASE UNCHANGED vars
  BY <1>8 DEF vars, table, workers, receiver, PresentRecorded, RowsHaveEvents,
              ReceivedRecorded, ClaimsRecorded, AcceptedReceived
<1>9. ASSUME NEW w \in Workers, NEW e \in Events, MarkThrows(w, e) PROVE OutboxInv'
  <2>1. \A d \in Events : status'[d] # "none" => status[d] # "none"
    BY <1>9 DEF MarkThrows, Delivers, Fails
  <2>2. recorded' = recorded /\ present' = present /\ left' = left /\ posted' = posted
    BY <1>9 DEF MarkThrows
  <2>3. received' = received
    BY <1>9 DEF MarkThrows, receiver
  <2>4. \A v \in Workers : answer'[v] = "ok" => answer[v] = "ok"
    BY <1>9 DEF MarkThrows, FlagTypes
  <2>p. PresentRecorded'
    BY <2>2 DEF PresentRecorded
  <2>q. RowsHaveEvents'
    BY <2>1, <2>2 DEF RowsHaveEvents
  <2>r. ReceivedRecorded'
    BY <2>2, <2>3 DEF ReceivedRecorded
  <2>s. ClaimsRecorded'
    BY <2>2 DEF ClaimsRecorded
  <2>t. AcceptedReceived'
    BY <2>2, <2>3, <2>4 DEF AcceptedReceived
  <2> QED BY <2>p, <2>q, <2>r, <2>s, <2>t DEF OutboxInv
<1> QED
  BY <1>1, <1>2, <1>3, <1>4, <1>5, <1>6, <1>7, <1>8, <1>9 DEF Next, WorkerStep

LEMMA DeliveredNext == IInv /\ [Next]_vars => DeliveredWasReceived'
<1> SUFFICES ASSUME IInv, [Next]_vars, NEW e \in Exported,
                    status'[e] = "delivered" \/ (status'[e] = "none" /\ e <= recorded')
             PROVE  e \in received'
  BY DEF DeliveredWasReceived
<1> USE NumEventsAssumption, ExportedAssumption DEF IInv, DataTypes, Events, DeliveredWasReceived
<1>0. e \in Events
  OBVIOUS
<1>1. CASE RecordEvent
  <2>1. e # recorded + 1 /\ status'[e] = status[e] /\ recorded' = recorded + 1
    BY <1>1 DEF RecordEvent
  <2>2. received' = received
    BY <1>1 DEF RecordEvent, receiver
  <2> QED BY <2>1, <2>2
<1>2. ASSUME NEW w \in Workers, Claim(w) PROVE e \in received'
  <2>1. status'[e] \in {status[e], "processing"} /\ recorded' = recorded
    BY <1>2 DEF Claim
  <2>2. received' = received
    BY <1>2 DEF Claim, receiver
  <2> QED BY <2>1, <2>2
<1>3. ASSUME NEW w \in Workers, NEW d \in Events, Post(w, d) PROVE e \in received'
  <2>1. status' = status /\ recorded' = recorded
    BY <1>3 DEF Post, table
  <2>2. received \subseteq received'
    BY <1>3 DEF Post
  <2> QED BY <2>1, <2>2
<1>4. ASSUME NEW w \in Workers, NEW d \in Events, MarkDelivered(w, d) PROVE e \in received'
  <2>1. /\ recorded' = recorded /\ posted[w] = d
        /\ status' = [status EXCEPT ![d] = IF @ = "none" THEN "none" ELSE "delivered"]
    BY <1>4 DEF MarkDelivered, Delivers
  <2>2. received' = received
    BY <1>4 DEF MarkDelivered, receiver
  <2>3. d \in received
    <3>1. answer[w] = "ok"
      BY <1>4 DEF MarkDelivered
    <3> QED BY <2>1, <3>1 DEF OutboxInv, AcceptedReceived
  <2>4. CASE d = e
    BY <2>2, <2>3, <2>4
  <2>5. CASE d # e
    BY <2>1, <2>2, <2>5
  <2> QED BY <2>4, <2>5
<1>5. ASSUME NEW w \in Workers, NEW d \in Events, MarkFailed(w, d) PROVE e \in received'
  <2>1. recorded' = recorded /\ (status'[e] = status[e] \/ status'[e] \in {"failed", "pending"})
    BY <1>5 DEF MarkFailed, Fails
  <2>2. received' = received
    BY <1>5 DEF MarkFailed, receiver
  <2> QED BY <2>1, <2>2
<1>6. ASSUME NEW w \in Workers, Abandon(w) PROVE e \in received'
  BY <1>6 DEF Abandon, table, receiver
<1>7. ASSUME NEW d \in Events, LeaseExpires(d) \/ BackoffElapses(d) PROVE e \in received'
  BY <1>7 DEF LeaseExpires, BackoffElapses, receiver
<1>8. ASSUME NEW E \in SUBSET Events, PruneExports(E) \/ PruneEvents(E) PROVE e \in received'
  <2>1. /\ recorded' = recorded
        /\ status'[e] = status[e] \/ (e \in present /\ status[e] \in {"none", "delivered"})
                                  \/ status[e] = "delivered"
    BY <1>8 DEF PruneExports, PruneEvents
  <2>2. received' = received
    BY <1>8 DEF PruneExports, PruneEvents, receiver
  <2> QED BY <2>1, <2>2 DEF OutboxInv, PresentRecorded
<1>9. CASE UNCHANGED vars
  BY <1>9 DEF vars, table, receiver
<1>10. ASSUME NEW w \in Workers, NEW d \in Events, MarkThrows(w, d) PROVE e \in received'
  <2>1. recorded' = recorded /\ posted[w] = d
    BY <1>10 DEF MarkThrows
  <2>2. received' = received
    BY <1>10 DEF MarkThrows, receiver
  <2>3. CASE answer[w] = "ok" /\ Delivers(d)
    <3>1. d \in received
      BY <2>1, <2>3 DEF OutboxInv, AcceptedReceived
    <3>2. d # e => status'[e] = status[e]
      BY <2>3 DEF Delivers
    <3> QED BY <2>1, <2>2, <3>1, <3>2
  <2>4. CASE Fails(d)
    <3>1. status'[e] = status[e] \/ status'[e] \in {"failed", "pending"}
      BY <2>4 DEF Fails
    <3> QED BY <2>1, <2>2, <3>1
  <2>5. CASE status' = status
    BY <2>1, <2>2, <2>5
  <2> QED BY <1>10, <2>3, <2>4, <2>5 DEF MarkThrows
<1> QED
  BY <1>1, <1>2, <1>3, <1>4, <1>5, <1>6, <1>7, <1>8, <1>9, <1>10 DEF Next, WorkerStep

LEMMA Invariant == Spec => []IInv
<1>1. IInv /\ [Next]_vars => IInv'
  BY DataTypesNext, FlagTypesNext, OutboxNext, DeliveredNext DEF IInv
<1> QED BY <1>1, InitIInv, PTL DEF Spec

(* Rows belong to recorded events that are still there, and a worker about  *)
(* to mark a delivery had its POST accepted.                                *)
THEOREM OutboxInvHolds == Spec => []OutboxInv
  BY Invariant, PTL DEF IInv

(* A delivered row, or a pruned one, was accepted by the receiver.          *)
THEOREM DeliveredWasReceivedHolds == Spec => []DeliveredWasReceived
  BY Invariant, PTL DEF IInv

(* Retention never destroys an undelivered compliance export.               *)
THEOREM PrunedOnlyIfReceivedHolds == Spec => []PrunedOnlyIfReceived
<1>1. IInv => PrunedOnlyIfReceived
  BY ExportedAssumption
  DEF IInv, OutboxInv, RowsHaveEvents, DeliveredWasReceived, PrunedOnlyIfReceived
<1> QED BY <1>1, Invariant, PTL

-----------------------------------------------------------------------------
(* No event is posted more often than its attempts allow.  Each claim pays *)
(* for one POST: what was posted and what claimants still may post is      *)
(* covered by the attempts counted.                                        *)

Holders(e) == {w \in Workers : e \in left[w]}

PostsPaidFor ==
  \A e \in Events : posts[e] + Cardinality(Holders(e)) <= attempts[e]

LEMMA HoldersFinite == \A e \in Events : /\ IsFiniteSet(Holders(e))
                                         /\ Cardinality(Holders(e)) \in Nat
  BY WorkersAssumption, FS_Subset, FS_CardinalityType DEF Holders

LEMMA HoldersFiniteNext == \A e \in Events : /\ IsFiniteSet(Holders(e)')
                                             /\ Cardinality(Holders(e)') \in Nat
<1> SUFFICES ASSUME NEW e \in Events
             PROVE  IsFiniteSet(Holders(e)') /\ Cardinality(Holders(e)') \in Nat
  OBVIOUS
<1>1. Holders(e)' \subseteq Workers
  BY DEF Holders
<1> QED BY <1>1, WorkersAssumption, FS_Subset, FS_CardinalityType

\* A step that posts nothing, lowers no attempts and adds no claim keeps the balance.
LEMMA PaidStep ==
  ASSUME DataTypes, PostsPaidFor, NEW e \in Events,
         posts'[e] = posts[e], attempts'[e] = attempts[e], Holders(e)' \subseteq Holders(e)
  PROVE  posts'[e] + Cardinality(Holders(e)') <= attempts'[e]
<1>1. Cardinality(Holders(e)') <= Cardinality(Holders(e))
  BY HoldersFinite, FS_Subset
<1>2. posts[e] \in Nat /\ attempts[e] \in Nat
  BY MaxAttemptsAssumption DEF DataTypes
<1>3. posts[e] + Cardinality(Holders(e)) <= attempts[e]
  BY DEF PostsPaidFor
<1> HIDE DEF Holders
<1> QED BY <1>1, <1>2, <1>3, HoldersFinite, HoldersFiniteNext

LEMMA PaidNext == DataTypes /\ PostsPaidFor /\ [Next]_vars => PostsPaidFor'
<1> SUFFICES ASSUME DataTypes, PostsPaidFor, [Next]_vars, NEW e \in Events
             PROVE  posts'[e] + Cardinality(Holders(e)') <= attempts'[e]
  BY DEF PostsPaidFor
<1>t. posts[e] \in Nat /\ attempts[e] \in Nat
  BY MaxAttemptsAssumption DEF DataTypes
<1>p. posts[e] + Cardinality(Holders(e)) <= attempts[e]
  BY DEF PostsPaidFor
<1>1. ASSUME NEW w \in Workers, Claim(w)
      PROVE  posts'[e] + Cardinality(Holders(e)') <= attempts'[e]
  <2> DEFINE batch == Oldest(BatchSize, Claimable)
  <2>1. /\ left[w] = {}
        /\ attempts' = [d \in Events |-> IF d \in batch THEN attempts[d] + 1 ELSE attempts[d]]
        /\ left' = [left EXCEPT ![w] = batch]
    BY <1>1 DEF Claim, Idle
  <2>2. posts' = posts
    BY <1>1 DEF Claim, receiver
  <2> HIDE DEF batch
  <2>3. CASE e \notin batch
    <3>1. Holders(e)' \subseteq Holders(e)
      BY <2>1, <2>3 DEF Holders, DataTypes
    <3> QED BY <3>1, <2>1, <2>2, <2>3, PaidStep
  <2>4. CASE e \in batch
    <3>1. Holders(e)' = Holders(e) \union {w} /\ w \notin Holders(e)
      BY <2>1, <2>4 DEF Holders, DataTypes
    <3>2. Cardinality(Holders(e)') = Cardinality(Holders(e)) + 1
      BY <3>1, HoldersFinite, FS_AddElement
    <3>3. attempts'[e] = attempts[e] + 1
      BY <2>1, <2>4
    <3> QED BY <1>t, <1>p, <2>2, <3>2, <3>3, HoldersFinite
  <2> QED BY <2>3, <2>4
<1>2. ASSUME NEW w \in Workers, NEW d \in Events, Post(w, d)
      PROVE  posts'[e] + Cardinality(Holders(e)') <= attempts'[e]
  <2>0. attempts' = attempts
    <3>1. UNCHANGED table
      BY <1>2 DEF Post
    <3> QED BY <3>1 DEF table
  <2>1. /\ d \in left[w]
        /\ left' = [left EXCEPT ![w] = @ \ {d}]
        /\ posts' = [posts EXCEPT ![d] = @ + 1]
    BY <1>2 DEF Post
  <2>2. CASE e # d
    <3>1. Holders(e)' \subseteq Holders(e)
      BY <2>1 DEF Holders, DataTypes
    <3>2. posts'[e] = posts[e]
      BY <2>1, <2>2 DEF DataTypes
    <3> QED BY <3>1, <3>2, <2>0, PaidStep
  <2>3. CASE e = d
    <3>1. Holders(e)' = Holders(e) \ {w} /\ w \in Holders(e)
      BY <2>1, <2>3 DEF Holders, DataTypes
    <3>2. Cardinality(Holders(e)') = Cardinality(Holders(e)) - 1
      BY <3>1, HoldersFinite, FS_RemoveElement
    <3>3. posts'[e] = posts[e] + 1
      BY <2>1, <2>3 DEF DataTypes
    <3> QED BY <1>t, <1>p, <2>0, <3>2, <3>3, HoldersFinite
  <2> QED BY <2>2, <2>3
<1>3. ASSUME NEW w \in Workers, Abandon(w)
      PROVE  posts'[e] + Cardinality(Holders(e)') <= attempts'[e]
  <2>0. UNCHANGED table /\ UNCHANGED receiver
    BY <1>3 DEF Abandon
  <2>1. attempts' = attempts /\ posts' = posts
    BY <2>0 DEF table, receiver
  <2>2. \A v \in Workers : left'[v] \subseteq left[v]
    BY <1>3 DEF Abandon, DataTypes
  <2>3. Holders(e)' \subseteq Holders(e)
    BY <2>2 DEF Holders
  <2> QED BY <2>1, <2>3, PaidStep
<1>4. ASSUME left' = left, posts' = posts, attempts' = attempts
      PROVE  posts'[e] + Cardinality(Holders(e)') <= attempts'[e]
  <2>1. Holders(e)' = Holders(e)
    BY <1>4 DEF Holders
  <2> QED BY <1>4, <2>1, PaidStep
<1>5. CASE RecordEvent
  BY <1>4, <1>5 DEF RecordEvent, workers, receiver
<1>6. ASSUME NEW w \in Workers, NEW d \in Events,
             MarkDelivered(w, d) \/ MarkFailed(w, d) \/ MarkThrows(w, d)
      PROVE  left' = left /\ posts' = posts /\ attempts' = attempts
  BY <1>6 DEF MarkDelivered, MarkFailed, MarkThrows, receiver
<1>7. ASSUME NEW d \in Events, LeaseExpires(d) \/ BackoffElapses(d)
      PROVE  left' = left /\ posts' = posts /\ attempts' = attempts
  BY <1>7 DEF LeaseExpires, BackoffElapses, workers, receiver
<1>8. ASSUME NEW E \in SUBSET Events, PruneExports(E) \/ PruneEvents(E)
      PROVE  left' = left /\ posts' = posts /\ attempts' = attempts
  BY <1>8 DEF PruneExports, PruneEvents, workers, receiver
<1>9. CASE UNCHANGED vars
  BY <1>4, <1>9 DEF vars, table, workers, receiver
<1> QED
  BY <1>1, <1>2, <1>3, <1>4, <1>5, <1>6, <1>7, <1>8, <1>9 DEF Next, WorkerStep

(* However leases run out, workers overlap, stall and crash, no event is   *)
(* posted more often than AUTH_AUDIT_EXPORT_MAX_ATTEMPTS.                  *)
THEOREM PostsBoundedHolds == Spec => []PostsBounded
<1>1. Init => PostsPaidFor
  <2> SUFFICES ASSUME Init, NEW e \in Events
               PROVE  posts[e] + Cardinality(Holders(e)) <= attempts[e]
    BY DEF PostsPaidFor
  <2>1. Holders(e) = {}
    BY DEF Init, Holders
  <2>2. Cardinality(Holders(e)) = 0
    BY <2>1, FS_EmptySet
  <2> QED BY <2>2 DEF Init
<1>2. DataTypes /\ PostsPaidFor => PostsBounded
  <2> SUFFICES ASSUME DataTypes, PostsPaidFor, NEW e \in Events PROVE posts[e] <= MaxAttempts
    BY DEF PostsBounded
  <2>1. posts[e] \in Nat /\ attempts[e] \in 0..MaxAttempts
    BY DEF DataTypes
  <2>2. posts[e] + Cardinality(Holders(e)) <= attempts[e]
    BY DEF PostsPaidFor
  <2> QED BY <2>1, <2>2, HoldersFinite, MaxAttemptsAssumption
<1>3. IInv => DataTypes
  BY DEF IInv
<1> QED BY <1>1, <1>2, <1>3, PaidNext, Invariant, PTL DEF Spec

-----------------------------------------------------------------------------
(* The outbox implements durable delivery.                                 *)

LEMMA StageStep ==
  ASSUME \A e \in Exported : /\ e > recorded' <=> e > recorded
                             /\ e \in present' <=> e \in present
                             /\ e \in received' <=> e \in received
  PROVE  Stage' = Stage
  BY DEF Stage

LEMMA DurableStep == IInv /\ IInv' /\ [Next]_vars => [Durable!Next]_Stage
<1> SUFFICES ASSUME IInv, IInv', [Next]_vars PROVE Durable!Next \/ Stage' = Stage
  OBVIOUS
<1> USE NumEventsAssumption, ExportedAssumption DEF Events, IInv, DataTypes
<1>1. CASE RecordEvent
  <2>1. recorded' = recorded + 1 /\ present' = present \union {recorded + 1}
    BY <1>1 DEF RecordEvent
  <2>2. received' = received
    BY <1>1 DEF RecordEvent, receiver
  <2>3. recorded + 1 \notin received
    BY DEF OutboxInv, ReceivedRecorded
  <2>4. CASE recorded + 1 \in Exported
    <3> DEFINE r == recorded + 1
    <3>1. Stage[r] = "unrecorded"
      BY <2>4 DEF Stage
    <3>2. \A e \in Exported : Stage'[e] = IF e = r THEN "owed" ELSE Stage[e]
      <4> SUFFICES ASSUME NEW e \in Exported
                   PROVE  Stage'[e] = IF e = r THEN "owed" ELSE Stage[e]
        OBVIOUS
      <4>0. e \in Nat /\ recorded \in Nat
        OBVIOUS
      <4>1. CASE e = r
        <5>1. ~(e > recorded') /\ e \in present' /\ e \notin received'
          BY <4>0, <4>1, <2>1, <2>2, <2>3
        <5> QED BY <4>1, <5>1 DEF Stage
      <4>2. CASE e # r
        <5>1. (e > recorded' <=> e > recorded) /\ (e \in present' <=> e \in present)
          BY <4>0, <4>2, <2>1
        <5> QED BY <4>2, <5>1, <2>2 DEF Stage
      <4> QED BY <4>1, <4>2
    <3>3. Stage' = [Stage EXCEPT ![r] = "owed"]
      BY <3>2 DEF Stage
    <3> QED BY <2>4, <3>1, <3>3 DEF Durable!Next, Durable!Record
  <2>5. CASE recorded + 1 \notin Exported
    <3>1. ASSUME NEW e \in Exported
          PROVE  (e > recorded' <=> e > recorded) /\ (e \in present' <=> e \in present)
      <4>1. e # recorded + 1
        BY <2>5
      <4>2. e \in Nat /\ recorded \in Nat
        OBVIOUS
      <4> QED BY <4>1, <4>2, <2>1
    <3> QED BY <3>1, <2>2, StageStep
  <2> QED BY <2>4, <2>5
<1>2. ASSUME NEW w \in Workers, NEW e \in Events, Post(w, e) PROVE Durable!Next \/ Stage' = Stage
  <2>0. UNCHANGED table
    BY <1>2 DEF Post
  <2>1. recorded' = recorded /\ present' = present
    BY <2>0 DEF table
  <2>2. received' = received \/ received' = received \union {e}
    BY <1>2 DEF Post
  <2>3. CASE received' = received \/ e \in received \/ e \notin Exported \/ e \notin present
    <3>1. \A d \in Exported : d # e => (d \in received' <=> d \in received)
      BY <2>2
    <3>2. CASE received' = received \/ e \in received \/ e \notin Exported
      <4>1. \A d \in Exported : d \in received' <=> d \in received
        BY <2>2, <3>2
      <4> QED BY <2>1, <4>1, StageStep
    <3>3. CASE e \notin present
      <4>1. \A d \in Exported : Stage'[d] = Stage[d]
        BY <2>1, <3>1, <3>3 DEF Stage
      <4> QED BY <4>1 DEF Stage
    <3> QED BY <2>3, <3>2, <3>3
  <2>4. CASE received' = received \union {e} /\ e \notin received /\ e \in Exported /\ e \in present
    <3>1. Stage[e] = "owed"
      BY <2>4 DEF Stage, OutboxInv, PresentRecorded
    <3>2. \A d \in Exported : Stage'[d] = IF d = e THEN "received" ELSE Stage[d]
      <4> SUFFICES ASSUME NEW d \in Exported
                   PROVE  Stage'[d] = IF d = e THEN "received" ELSE Stage[d]
        OBVIOUS
      <4>1. CASE d = e
        <5>1. ~(e > recorded') /\ e \in present' /\ e \in received'
          BY <2>1, <2>4 DEF OutboxInv, PresentRecorded
        <5> QED BY <4>1, <5>1 DEF Stage
      <4>2. CASE d # e
        <5>1. d \in received' <=> d \in received
          BY <4>2, <2>4
        <5> QED BY <4>2, <5>1, <2>1 DEF Stage
      <4> QED BY <4>1, <4>2
    <3>3. Stage' = [Stage EXCEPT ![e] = "received"]
      BY <3>2 DEF Stage
    <3> QED BY <2>4, <3>1, <3>3 DEF Durable!Next, Durable!Receive
  <2> QED BY <2>2, <2>3, <2>4
<1>3. ASSUME NEW E \in SUBSET Events, PruneEvents(E) PROVE Durable!Next \/ Stage' = Stage
  <2> DEFINE F == E \intersect Exported
  <2>1. /\ E \subseteq present /\ present' = present \ E /\ recorded' = recorded
        /\ \A e \in E : status[e] \in {"none", "delivered"}
    BY <1>3 DEF PruneEvents
  <2>2. received' = received
    BY <1>3 DEF PruneEvents, receiver
  <2>3. \A e \in F : e \in received /\ e <= recorded /\ e \in present
    BY <2>1 DEF DeliveredWasReceived, OutboxInv, PresentRecorded
  <2>4. \A e \in F : Stage[e] = "received"
    BY <2>3 DEF Stage
  <2>5. \A e \in Exported : Stage'[e] = IF e \in F THEN "forgotten" ELSE Stage[e]
    BY <2>1, <2>2, <2>3 DEF Stage
  <2>6. Stage' = [e \in Exported |-> IF e \in F THEN "forgotten" ELSE Stage[e]]
    BY <2>5 DEF Stage
  <2> QED BY <2>4, <2>6 DEF Durable!Next, Durable!Forget
<1>4. ASSUME recorded' = recorded, present' = present, received' = received
      PROVE  Stage' = Stage
  BY <1>4 DEF Stage
<1>5. ASSUME NEW w \in Workers, Claim(w)
      PROVE  recorded' = recorded /\ present' = present /\ received' = received
  BY <1>5 DEF Claim, receiver
<1>6. ASSUME NEW w \in Workers, NEW e \in Events,
             MarkDelivered(w, e) \/ MarkFailed(w, e) \/ MarkThrows(w, e)
      PROVE  recorded' = recorded /\ present' = present /\ received' = received
  BY <1>6 DEF MarkDelivered, MarkFailed, MarkThrows, receiver
<1>7. ASSUME NEW w \in Workers, Abandon(w)
      PROVE  recorded' = recorded /\ present' = present /\ received' = received
  BY <1>7 DEF Abandon, table, receiver
<1>8. ASSUME NEW e \in Events, LeaseExpires(e) \/ BackoffElapses(e)
      PROVE  recorded' = recorded /\ present' = present /\ received' = received
  BY <1>8 DEF LeaseExpires, BackoffElapses, receiver
<1>9. ASSUME NEW E \in SUBSET Events, PruneExports(E)
      PROVE  recorded' = recorded /\ present' = present /\ received' = received
  BY <1>9 DEF PruneExports, receiver
<1>10. CASE UNCHANGED vars
  BY <1>4, <1>10 DEF vars, table, receiver
<1> QED
  BY <1>1, <1>2, <1>3, <1>4, <1>5, <1>6, <1>7, <1>8, <1>9, <1>10 DEF Next, WorkerStep

(* The detailed outbox implements at-least-once delivery: an exported event *)
(* is owed from its recording on and forgotten only once received.          *)
THEOREM Refinement == Spec => ImplementsDurableDelivery
<1>1. Init => Durable!Init
  <2> SUFFICES ASSUME Init PROVE Stage = [e \in Exported |-> "unrecorded"]
    BY DEF Durable!Init
  <2>1. \A e \in Exported : e > recorded
    BY NumEventsAssumption, ExportedAssumption DEF Init, Events
  <2> QED BY <2>1 DEF Stage
<1>2. [Next]_vars /\ IInv /\ IInv' => [Durable!Next]_Stage
  BY DurableStep
<1> QED BY <1>1, <1>2, Invariant, PTL DEF Spec, ImplementsDurableDelivery, Durable!Spec

-----------------------------------------------------------------------------
(* What a step does to one export row.                                     *)

HeldBy(w, e) == e \in left[w] \/ posted[w] = e
HeldTwice(w, e) == e \in left[w] /\ posted[w] = e

NoNewHolder(e) ==
  \A w \in Workers : /\ HeldBy(w, e)' => HeldBy(w, e)
                     /\ HeldTwice(w, e)' => HeldTwice(w, e)

RowKept(e) ==
  /\ attempts'[e] = attempts[e]
  /\ status'[e] = status[e] \/ (status[e] = "delivered" /\ status'[e] = "none")
  /\ e <= recorded' <=> e <= recorded
  /\ NoNewHolder(e)

RowRecorded(e) ==
  /\ e = recorded + 1
  /\ attempts'[e] = attempts[e]
  /\ status[e] = "none" /\ status'[e] \in {"pending", "none"}
  /\ NoNewHolder(e)

RowClaimed(e) ==
  /\ e \in Claimable
  /\ attempts'[e] = attempts[e] + 1 /\ status'[e] = "processing" /\ ~stale'[e]
  /\ recorded' = recorded
  /\ \E w \in Workers :
       /\ e \in left'[w] /\ posted'[w] # e
       /\ \A v \in Workers \ {w} : /\ HeldBy(v, e)' => HeldBy(v, e)
                                   /\ HeldTwice(v, e)' => HeldTwice(v, e)

RowWritten(e) ==
  /\ attempts'[e] = attempts[e]
  /\ status[e] = "none" => status'[e] = "none"
  /\ \/ status'[e] \in {"none", "delivered"}
     \/ status'[e] = "failed" /\ attempts[e] >= MaxAttempts
     \/ status'[e] = "pending" /\ ~(attempts[e] >= MaxAttempts)
  /\ recorded' = recorded

RowMarked(e) ==
  /\ RowWritten(e)
  /\ \E w \in Workers : /\ posted[w] = e
                        /\ left' = left /\ posted' = [posted EXCEPT ![w] = 0]

\* The mark took effect, and its worker does not know.
RowMarkedUnanswered(e) ==
  /\ RowWritten(e)
  /\ status'[e] # status[e] /\ left' = left /\ posted' = posted
  /\ \E w \in Workers : posted[w] = e /\ MarkThrows(w, e)

LEMMA UnrecordedRow ==
  ASSUME IInv, NEW e \in Events, status[e] # "none"
  PROVE  e <= recorded
  BY NumEventsAssumption
  DEF IInv, OutboxInv, RowsHaveEvents, PresentRecorded, DataTypes, Events

LEMMA RowStep ==
  ASSUME IInv, [Next]_vars, NEW e \in Events
  PROVE  RowKept(e) \/ RowRecorded(e) \/ RowClaimed(e) \/ RowMarked(e) \/ RowMarkedUnanswered(e)
<1>0. DataTypes /\ e # 0 /\ e \in Nat /\ recorded \in Nat
  BY NumEventsAssumption DEF IInv, DataTypes, Events
<1>1. CASE RecordEvent
  <2>1. /\ attempts' = attempts /\ left' = left /\ posted' = posted /\ recorded' = recorded + 1
        /\ status' = [status EXCEPT ![recorded + 1] =
                        IF recorded + 1 \in Exported THEN "pending" ELSE "none"]
    BY <1>1 DEF RecordEvent, workers
  <2>2. NoNewHolder(e)
    BY <2>1 DEF NoNewHolder, HeldBy, HeldTwice
  <2>3. CASE e = recorded + 1
    <3>1. status[e] = "none"
      BY <1>0, <2>3, UnrecordedRow
    <3>2. status'[e] \in {"pending", "none"}
      BY <1>0, <2>1, <2>3 DEF DataTypes
    <3> QED BY <2>1, <2>2, <2>3, <3>1, <3>2 DEF RowRecorded
  <2>4. CASE e # recorded + 1
    <3>1. status'[e] = status[e]
      BY <1>0, <2>1, <2>4 DEF DataTypes
    <3>2. e <= recorded' <=> e <= recorded
      BY <1>0, <2>1, <2>4
    <3> QED BY <2>1, <2>2, <3>1, <3>2 DEF RowKept
  <2> QED BY <2>3, <2>4
<1>2. ASSUME NEW w \in Workers, Claim(w) PROVE RowKept(e) \/ RowClaimed(e)
  <2> DEFINE batch == Oldest(BatchSize, Claimable)
  <2>1. batch \subseteq Claimable
    BY DEF Oldest
  <2>2. /\ status' = [d \in Events |-> IF d \in batch THEN "processing" ELSE status[d]]
        /\ attempts' = [d \in Events |-> IF d \in batch THEN attempts[d] + 1 ELSE attempts[d]]
        /\ stale' = [d \in Events |-> IF d \in batch THEN FALSE ELSE stale[d]]
        /\ left' = [left EXCEPT ![w] = batch]
        /\ posted[w] = 0 /\ posted' = posted /\ recorded' = recorded
    BY <1>2 DEF Claim, Idle
  <2> HIDE DEF batch
  <2>3. CASE e \in batch
    <3>1. e \in left'[w] /\ posted'[w] # e
      BY <1>0, <2>2, <2>3 DEF DataTypes
    <3>2. \A v \in Workers \ {w} : left'[v] = left[v]
      BY <1>0, <2>2 DEF DataTypes
    <3> QED BY <2>1, <2>2, <2>3, <3>1, <3>2 DEF RowClaimed, HeldBy, HeldTwice
  <2>4. CASE e \notin batch
    <3>1. \A v \in Workers : e \in left'[v] => e \in left[v]
      BY <1>0, <2>2, <2>4 DEF DataTypes
    <3> QED BY <2>2, <2>4, <3>1 DEF RowKept, NoNewHolder, HeldBy, HeldTwice
  <2> QED BY <2>3, <2>4
<1>3. ASSUME UNCHANGED table, NoNewHolder(e) PROVE RowKept(e)
  BY <1>3 DEF table, RowKept
<1>4. ASSUME NEW w \in Workers, NEW d \in Events, Post(w, d) PROVE RowKept(e)
  <2>1. /\ d \in left[w] /\ left' = [left EXCEPT ![w] = @ \ {d}]
        /\ posted' = [posted EXCEPT ![w] = d] /\ UNCHANGED table
    BY <1>4 DEF Post
  <2>2. \A v \in Workers \ {w} : left'[v] = left[v] /\ posted'[v] = posted[v]
    BY <1>0, <2>1 DEF DataTypes
  <2>3. left'[w] = left[w] \ {d} /\ posted'[w] = d
    BY <1>0, <2>1 DEF DataTypes
  <2>4. NoNewHolder(e)
    BY <2>1, <2>2, <2>3 DEF NoNewHolder, HeldBy, HeldTwice
  <2> QED BY <2>1, <2>4, <1>3
<1>5. ASSUME NEW w \in Workers, NEW d \in Events, MarkDelivered(w, d) \/ MarkFailed(w, d)
      PROVE  RowKept(e) \/ RowMarked(e)
  <2>1. /\ posted[w] = d /\ left' = left /\ posted' = [posted EXCEPT ![w] = 0]
        /\ attempts' = attempts /\ recorded' = recorded
        /\ \/ status' = [status EXCEPT ![d] = IF @ = "none" THEN "none" ELSE "delivered"]
           \/ status' = [status EXCEPT ![d] = IF @ = "none" THEN "none"
                                              ELSE IF attempts[d] >= MaxAttempts
                                                THEN "failed" ELSE "pending"]
    BY <1>5 DEF MarkDelivered, MarkFailed, Delivers, Fails, Proceed
  <2>2. CASE d = e
    BY <1>0, <2>1, <2>2 DEF RowMarked, RowWritten, DataTypes
  <2>3. CASE d # e
    <3>1. status'[e] = status[e]
      BY <1>0, <2>1, <2>3 DEF DataTypes
    <3>2. NoNewHolder(e)
      BY <1>0, <2>1 DEF NoNewHolder, HeldBy, HeldTwice, DataTypes
    <3> QED BY <2>1, <3>1, <3>2 DEF RowKept
  <2> QED BY <2>2, <2>3
<1>6. ASSUME NEW w \in Workers, NEW d \in Events, MarkThrows(w, d)
      PROVE  RowKept(e) \/ RowMarkedUnanswered(e)
  <2>1. /\ posted[w] = d /\ left' = left /\ posted' = posted
        /\ attempts' = attempts /\ recorded' = recorded
        /\ \/ status' = status
           \/ status' = [status EXCEPT ![d] = IF @ = "none" THEN "none" ELSE "delivered"]
           \/ status' = [status EXCEPT ![d] = IF @ = "none" THEN "none"
                                              ELSE IF attempts[d] >= MaxAttempts
                                                THEN "failed" ELSE "pending"]
    BY <1>6 DEF MarkThrows, Delivers, Fails
  <2>2. CASE status'[e] = status[e]
    BY <2>1, <2>2 DEF RowKept, NoNewHolder, HeldBy, HeldTwice
  <2>3. CASE status'[e] # status[e]
    <3>1. d = e
      BY <1>0, <2>1, <2>3 DEF DataTypes
    <3>2. RowWritten(e)
      BY <1>0, <2>1, <2>3, <3>1 DEF RowWritten, DataTypes
    <3> QED BY <1>6, <2>1, <2>3, <3>1, <3>2 DEF RowMarkedUnanswered
  <2> QED BY <2>2, <2>3
<1>7. ASSUME NEW w \in Workers, Abandon(w) PROVE RowKept(e)
  <2>1. /\ left' = [left EXCEPT ![w] = {}] /\ posted' = [posted EXCEPT ![w] = 0]
        /\ UNCHANGED table
    BY <1>7 DEF Abandon, Proceed
  <2>2. NoNewHolder(e)
    BY <1>0, <2>1 DEF NoNewHolder, HeldBy, HeldTwice, DataTypes
  <2> QED BY <1>3, <2>1, <2>2
<1>8. ASSUME NEW d \in Events, LeaseExpires(d) \/ BackoffElapses(d) PROVE RowKept(e)
  BY <1>8 DEF LeaseExpires, BackoffElapses, workers, RowKept, NoNewHolder, HeldBy, HeldTwice
<1>9. ASSUME NEW E \in SUBSET Events, PruneExports(E) \/ PruneEvents(E) PROVE RowKept(e)
  <2>1. /\ attempts' = attempts /\ recorded' = recorded /\ left' = left /\ posted' = posted
        /\ status' = [d \in Events |-> IF d \in E THEN "none" ELSE status[d]]
        /\ \A d \in E : status[d] \in {"none", "delivered"}
    BY <1>9 DEF PruneExports, PruneEvents, workers
  <2> QED BY <2>1 DEF RowKept, NoNewHolder, HeldBy, HeldTwice
<1>10. CASE UNCHANGED vars
  BY <1>3, <1>10 DEF vars, workers, NoNewHolder, HeldBy, HeldTwice
<1> QED
  BY <1>1, <1>2, <1>4, <1>5, <1>6, <1>7, <1>8, <1>9, <1>10 DEF Next, WorkerStep

-----------------------------------------------------------------------------
(* No export is forgotten, and rest is final.                              *)

\* No claim will take a row whose attempts are used up, so none waits for one.
WaitingHasAttempts == \A e \in Events : status[e] = "pending" => attempts[e] < MaxAttempts
UnrecordedUntried == \A e \in Events : ~(e <= recorded) => attempts[e] = 0

LEMMA WaitingNext ==
  IInv /\ WaitingHasAttempts /\ UnrecordedUntried /\ [Next]_vars
    => (WaitingHasAttempts /\ UnrecordedUntried)'
<1> SUFFICES ASSUME IInv, WaitingHasAttempts, UnrecordedUntried, [Next]_vars, NEW e \in Events
             PROVE  /\ status'[e] = "pending" => attempts'[e] < MaxAttempts
                    /\ ~(e <= recorded') => attempts'[e] = 0
  BY DEF WaitingHasAttempts, UnrecordedUntried
<1>0. /\ attempts[e] \in Nat /\ MaxAttempts \in Nat \ {0} /\ e \in Nat /\ recorded \in Nat
      /\ recorded' \in Nat
  <2>1. DataTypes'
    BY DataTypesNext DEF IInv
  <2> QED BY <2>1, MaxAttemptsAssumption, NumEventsAssumption DEF IInv, DataTypes, Events
<1>1. CASE RowKept(e)
  BY <1>1 DEF RowKept, WaitingHasAttempts, UnrecordedUntried
<1>2. CASE RowRecorded(e)
  <2>1. ~(e <= recorded)
    BY <1>0, <1>2 DEF RowRecorded
  <2>2. attempts'[e] = 0
    BY <1>2, <2>1 DEF RowRecorded, UnrecordedUntried
  <2> QED BY <1>0, <2>2
<1>3. CASE RowClaimed(e)
  <2>1. status[e] # "none"
    BY <1>3 DEF RowClaimed, Claimable
  <2> QED BY <1>3, <2>1, UnrecordedRow DEF RowClaimed
<1>4. CASE RowMarked(e) \/ RowMarkedUnanswered(e)
  BY <1>0, <1>4 DEF RowMarked, RowMarkedUnanswered, RowWritten, UnrecordedUntried
<1> QED BY <1>1, <1>2, <1>3, <1>4, RowStep

(* Between a recorded export and its rest stands a worker that holds it or *)
(* a timer after which it can be claimed: none is left behind otherwise.   *)
THEOREM NoneForgottenHolds == Spec => []NoneForgotten
<1>1. Init => WaitingHasAttempts /\ UnrecordedUntried
  BY DEF Init, WaitingHasAttempts, UnrecordedUntried
<1>2. IInv /\ WaitingHasAttempts => NoneForgotten
  <2> SUFFICES ASSUME IInv, WaitingHasAttempts, NEW e \in Exported, ~AtRest(e), ~Held(e)
               PROVE  status[e] \in {"pending", "processing"} /\ attempts[e] < MaxAttempts
    BY DEF NoneForgotten
  <2>1. e \in Events /\ status[e] \in Statuses /\ attempts[e] \in 0..MaxAttempts
    BY ExportedAssumption DEF IInv, DataTypes
  <2>2. status[e] \in {"pending", "processing"}
    BY <2>1 DEF AtRest, Statuses
  <2>3. CASE status[e] = "pending"
    BY <2>1, <2>3 DEF WaitingHasAttempts
  <2>4. CASE status[e] = "processing"
    <3>1. attempts[e] # MaxAttempts
      BY <2>4 DEF AtRest, Stranded, Held
    <3> QED BY <2>1, <2>4, <3>1, MaxAttemptsAssumption
  <2> QED BY <2>2, <2>3, <2>4
<1> QED BY <1>1, <1>2, WaitingNext, Invariant, PTL DEF Spec

LEMMA RestStep ==
  ASSUME IInv, [Next]_vars, NEW e \in Events, e <= recorded, AtRest(e), ~Held(e)
  PROVE  (AtRest(e) /\ ~Held(e))'
<1>0. attempts[e] \in 0..MaxAttempts /\ e \in Nat /\ recorded \in Nat
  BY NumEventsAssumption DEF IInv, DataTypes, Events
<1>1. RowKept(e)
  <2>1. ~RowRecorded(e)
    BY <1>0 DEF RowRecorded
  <2>2. ~RowClaimed(e)
    BY <1>0, MaxAttemptsAssumption DEF RowClaimed, Claimable, AtRest, Stranded
  <2>3. ~RowMarked(e) /\ ~RowMarkedUnanswered(e)
    BY DEF RowMarked, RowMarkedUnanswered, Held
  <2> QED BY <2>1, <2>2, <2>3, RowStep
<1>2. ~Held(e)'
  BY <1>1 DEF RowKept, NoNewHolder, HeldBy, Held
<1>3. CASE status[e] \in {"delivered", "failed", "none"}
  BY <1>1, <1>2, <1>3 DEF RowKept, AtRest
<1>4. CASE Stranded(e)
  BY <1>1, <1>2, <1>4 DEF RowKept, AtRest, Stranded, Held
<1> QED BY <1>2, <1>3, <1>4 DEF AtRest

\* Once the last worker has let go of a settled export it stays settled.
THEOREM RestIsFinalHolds == Spec => RestIsFinal
<1>1. IInv /\ [Next]_vars =>
        [\A e \in Events : e <= recorded /\ AtRest(e) /\ ~Held(e) => (AtRest(e) /\ ~Held(e))']_vars
  BY RestStep
<1> QED BY <1>1, Invariant, PTL DEF Spec, RestIsFinal

-----------------------------------------------------------------------------
(* Leases that last.                                                       *)

\* An export is in the hands of one worker, which works on it while its row says so.
HeldAlone ==
  \A e \in Events :
    /\ Held(e) => status[e] = "processing" /\ ~stale[e]
    /\ \A v, w \in Workers : HeldBy(v, e) /\ HeldBy(w, e) => v = w
    /\ \A w \in Workers : ~HeldTwice(w, e)

LEMMA HeldAloneNext ==
  IInv /\ HeldAlone /\ [Next]_vars /\ LeasesOutlast /\ MarksAnswered => HeldAlone'
<1> SUFFICES ASSUME IInv, HeldAlone, [Next]_vars, LeasesOutlast, MarksAnswered, NEW e \in Events
             PROVE  /\ Held(e)' => status'[e] = "processing" /\ ~stale'[e]
                    /\ \A v, w \in Workers : HeldBy(v, e)' /\ HeldBy(w, e)' => v = w
                    /\ \A w \in Workers : ~HeldTwice(w, e)'
  BY DEF HeldAlone
<1>0. /\ Held(e) => status[e] = "processing" /\ ~stale[e] /\ ~stale'[e]
      /\ \A v, w \in Workers : HeldBy(v, e) /\ HeldBy(w, e) => v = w
      /\ \A w \in Workers : ~HeldTwice(w, e)
  BY DEF HeldAlone, LeasesOutlast
<1>1. CASE RowKept(e) \/ RowRecorded(e)
  <2>1. NoNewHolder(e)
    BY <1>1 DEF RowKept, RowRecorded
  <2>2. Held(e)' => Held(e)
    BY <2>1 DEF NoNewHolder, HeldBy, Held
  <2>3. Held(e)' => status'[e] = "processing" /\ ~stale'[e]
    BY <1>0, <1>1, <2>2 DEF RowKept, RowRecorded
  <2> QED BY <1>0, <2>1, <2>3 DEF NoNewHolder
<1>2. CASE RowClaimed(e)
  <2>1. ~Held(e)
    BY <1>0, <1>2 DEF RowClaimed, Claimable
  <2>2. PICK w \in Workers :
          /\ e \in left'[w] /\ posted'[w] # e
          /\ \A v \in Workers \ {w} : HeldBy(v, e)' => HeldBy(v, e)
    BY <1>2 DEF RowClaimed
  <2>3. \A v \in Workers \ {w} : ~HeldBy(v, e)'
    BY <2>1, <2>2 DEF Held, HeldBy
  <2>4. \A v \in Workers : ~HeldTwice(v, e)'
    BY <2>2, <2>3 DEF HeldTwice, HeldBy
  <2> QED BY <1>2, <2>3, <2>4 DEF RowClaimed
<1>3. CASE RowMarked(e)
  <2>1. PICK w \in Workers : posted[w] = e /\ left' = left /\ posted' = [posted EXCEPT ![w] = 0]
    BY <1>3 DEF RowMarked
  <2>2. e # 0 /\ posted \in [Workers -> Events \union {0}]
    BY DEF IInv, DataTypes, Events
  <2>3. ASSUME NEW v \in Workers, HeldBy(v, e)' PROVE FALSE
    <3>1. HeldBy(v, e)
      BY <2>1, <2>2, <2>3 DEF HeldBy
    <3>2. v = w
      BY <1>0, <2>1, <3>1 DEF HeldBy
    <3>3. e \in left[w]
      BY <2>1, <2>2, <2>3, <3>2 DEF HeldBy
    <3> QED BY <1>0, <2>1, <3>3 DEF HeldTwice
  <2> QED BY <2>3 DEF Held, HeldBy, HeldTwice
<1>4. ~RowMarkedUnanswered(e)
  BY DEF RowMarkedUnanswered, MarksAnswered
<1> QED BY <1>1, <1>2, <1>3, <1>4, RowStep

(* "delivered --> [*]" holds as long as no lease runs out under a worker    *)
(* that is still at the export and no mark that took effect is answered     *)
(* with an error: marks that fail without effect, lost responses, crashes,  *)
(* overlapping claims and the retention sweep leave a delivered export      *)
(* delivered.                                                               *)
THEOREM DeliveredIsFinalApart ==
  Spec /\ [][LeasesOutlast /\ MarksAnswered]_vars => DeliveredIsFinal
<1>1. Init => HeldAlone
  BY DEF Init, HeldAlone, Held, HeldBy, HeldTwice, Events
<1>2. IInv /\ HeldAlone /\ [Next]_vars /\ [LeasesOutlast /\ MarksAnswered]_vars => HeldAlone'
  <2>1. UNCHANGED vars => LeasesOutlast /\ MarksAnswered
    BY DEF vars, table, LeasesOutlast, MarksAnswered
  <2> QED BY <2>1, HeldAloneNext
<1>3. IInv /\ HeldAlone /\ [Next]_vars =>
        [\A e \in Events : status[e] = "delivered" => status'[e] \in {"delivered", "none"}]_vars
  <2> SUFFICES ASSUME IInv, HeldAlone, [Next]_vars, NEW e \in Events, status[e] = "delivered"
               PROVE  status'[e] \in {"delivered", "none"}
    OBVIOUS
  <2>1. ~RowMarked(e) /\ ~RowMarkedUnanswered(e)
    BY DEF RowMarked, RowMarkedUnanswered, HeldAlone, Held
  <2> QED BY <2>1, RowStep DEF RowKept, RowRecorded, RowClaimed, Claimable
<1> QED BY <1>1, <1>2, <1>3, Invariant, PTL DEF Spec, DeliveredIsFinal

=============================================================================
