------------------------------ MODULE RateLimit ------------------------------
(***************************************************************************)
(* The limiter of one scope and one client address (rate-limit.service.ts): *)
(* fixed windows, counted in Redis for all replicas together and, when a   *)
(* call to Redis fails, in the memory of the replica that serves the       *)
(* request.                                                                *)
(*                                                                         *)
(* Time is what is left of each window.  The headers are left out.         *)
(***************************************************************************)
EXTENDS Naturals

CONSTANTS
  Replicas,  \* the API processes
  Redis,     \* the counter they share
  Limit,     \* RATE_LIMIT_EXPORT_PER_MINUTE
  Window     \* WINDOW_MS

ASSUME LimitAssumption ==
  /\ Redis \notin Replicas
  /\ Limit \in Nat \ {0}
  /\ Window \in Nat \ {0}

Counters == Replicas \union {Redis}

VARIABLE counter   \* the Redis key, and the bucket of each replica

\* No key, or a bucket whose window is over.
Empty == [count |-> 0, left |-> 0]
Counter == [count : 0..(Limit + 1), left : 0..Window]

CounterInit == counter = [k \in Counters |-> Empty]

First == [count |-> 1, left |-> Window]

\* Mutant: INCR and PEXPIRE as two commands, and the process dies in between.
IncrementedUnexpiring(k) ==
  [counter[k] EXCEPT !.count = IF @ > Limit THEN @ ELSE @ + 1]

\* The script sets the expiry when INCR made the count 1; a bucket that is over is
\* made anew.  The count goes up to Limit + 1: it is compared with the limit only.
Incremented(k) ==
  IF counter[k].count = 0 THEN First
  ELSE [counter[k] EXCEPT !.count = IF @ > Limit THEN @ ELSE @ + 1]

\* Mutant: one more than the limit is let through.
ConsumeSharedOneMore(admitted) ==
  /\ counter' = [counter EXCEPT ![Redis] = Incremented(Redis)]
  /\ admitted <=> counter[Redis].count <= Limit

\* consumeFromRedis: the script counts first, evaluate compares afterwards.
ConsumeShared(admitted) ==
  /\ counter' = [counter EXCEPT ![Redis] = Incremented(Redis)]
  /\ admitted <=> Incremented(Redis).count <= Limit

\* consumeFromMemory: a bucket that is full is left as it is.  The script may
\* have run in Redis although its answer did not arrive.
ConsumeMemory(p, admitted) ==
  /\ admitted <=> (counter[p].left = 0 \/ counter[p].count < Limit)
  /\ \E answerLost \in BOOLEAN :
       counter' = [counter EXCEPT
         ![p] = IF admitted THEN Incremented(p) ELSE @,
         ![Redis] = IF answerLost THEN Incremented(Redis) ELSE @]

\* A window that comes to its end takes its count along.
Shorter(c) == IF c.left <= 1 THEN Empty ELSE [c EXCEPT !.left = @ - 1]

TimePasses == counter' = [k \in Counters |-> Shorter(counter[k])]

\* A process that restarts begins with no buckets.
Forget(k) == counter' = [counter EXCEPT ![k] = Empty]

=============================================================================
