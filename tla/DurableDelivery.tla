--------------------------- MODULE DurableDelivery ----------------------------
(***************************************************************************)
(* What the audit export outbox promises of an audit event recorded while  *)
(* webhook export is on: from the moment it is recorded it is owed to the  *)
(* receiver, and the program forgets it only once the receiver has it.     *)
(* AuditExport implements this specification.                              *)
(***************************************************************************)
CONSTANT Exported   \* the audit events that have to reach the receiver

VARIABLE stage

Stages == {"unrecorded", "owed", "received", "forgotten"}

TypeOK == stage \in [Exported -> Stages]

Init == stage = [e \in Exported |-> "unrecorded"]

Record(e) ==
  /\ stage[e] = "unrecorded"
  /\ stage' = [stage EXCEPT ![e] = "owed"]

Receive(e) ==
  /\ stage[e] = "owed"
  /\ stage' = [stage EXCEPT ![e] = "received"]

\* Retention removes any number of events with one statement.
Forget(E) ==
  /\ \A e \in E : stage[e] = "received"
  /\ stage' = [e \in Exported |-> IF e \in E THEN "forgotten" ELSE stage[e]]

Next ==
  \/ \E e \in Exported : Record(e) \/ Receive(e)
  \/ \E E \in SUBSET Exported : Forget(E)

Spec == Init /\ [][Next]_stage

=============================================================================
