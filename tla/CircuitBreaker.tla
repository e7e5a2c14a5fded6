---------------------------- MODULE CircuitBreaker ----------------------------
(***************************************************************************)
(* One circuit breaker of apps/api/src/adapters/common/circuit-breaker.ts, *)
(* shared by every concurrent live refresh of one provider.                *)
(*                                                                         *)
(* execute() runs on one Node event loop: the part before `await           *)
(* operation()` is one step (Call), the part after it is another (Succeed  *)
(* or Fail), and any number of other calls run in between.  A call that is *)
(* rejected with CircuitOpenError changes nothing, so it is the negation   *)
(* of Call's guard and needs no action.                                    *)
(*                                                                         *)
(* Time is relative.  The code only ever compares now - openedAt with      *)
(* cooldownMs and failures with failureThreshold, so both are kept         *)
(* saturated at that limit, which loses nothing and bounds nothing.        *)
(***************************************************************************)
EXTENDS Naturals

CONSTANTS
  Callers,      \* concurrent refreshes that can hold a call through the breaker
  Threshold,    \* failureThreshold
  Cooldown      \* cooldownMs, in ticks

ASSUME ThresholdAssumption == Threshold \in Nat \ {0}
ASSUME CooldownAssumption == Cooldown \in Nat \ {0}

VARIABLES
  currentState,   \* "closed", "open" or "half_open"
  failures,       \* consecutive failures, saturated at Threshold
  sinceOpened,    \* now - openedAt, saturated at Cooldown
  probeInFlight,  \* the flag execute() takes in half-open
  calls,          \* what each caller has in flight, and how it was admitted
  sinceProbe      \* history: time since a probe was let through in this
                  \* outage, saturated at Cooldown (Cooldown when none was)

vars == <<currentState, failures, sinceOpened, probeInFlight, calls, sinceProbe>>

CircuitState == {"closed", "open", "half_open"}

TypeOK ==
  /\ currentState \in CircuitState
  /\ failures \in 0..Threshold
  /\ sinceOpened \in 0..Cooldown
  /\ probeInFlight \in BOOLEAN
  /\ calls \in [Callers -> {"idle", "ordinary", "probe"}]
  /\ sinceProbe \in 0..Cooldown

\* openedAt starts at 0, the epoch: its age is past any cooldown.
Init ==
  /\ currentState = "closed"
  /\ failures = 0
  /\ sinceOpened = Cooldown
  /\ probeInFlight = FALSE
  /\ calls = [c \in Callers |-> "idle"]
  /\ sinceProbe = Cooldown

\* The state getter resolves an expired cooldown when it is read.
StateOnRead ==
  IF currentState = "open" /\ sinceOpened >= Cooldown
    THEN "half_open"
    ELSE currentState

UpTo(limit, n) == IF n < limit THEN n ELSE limit

-----------------------------------------------------------------------------
(* The program's steps.                                                    *)

\* states(), called by the metrics collector, reads the getter of every breaker.
ReadState ==
  /\ StateOnRead # currentState
  /\ currentState' = StateOnRead
  /\ UNCHANGED <<failures, sinceOpened, probeInFlight, calls, sinceProbe>>

\* execute() up to `await operation()`.
Call(c) ==
  /\ calls[c] = "idle"
  /\ StateOnRead # "open"
  /\ StateOnRead = "half_open" => ~probeInFlight
  /\ currentState' = StateOnRead
  /\ probeInFlight' = (StateOnRead = "half_open" \/ probeInFlight)
  /\ calls' = [calls EXCEPT ![c] = IF StateOnRead = "half_open" THEN "probe"
                                                                ELSE "ordinary"]
  /\ sinceProbe' = IF StateOnRead = "half_open" THEN 0 ELSE sinceProbe
  /\ UNCHANGED <<failures, sinceOpened>>

\* Mutant: no finally block, the flag is left as it is.
ReleaseKeepingFlag(c) ==
  /\ calls[c] # "idle"
  /\ calls' = [calls EXCEPT ![c] = "idle"]
  /\ probeInFlight' = probeInFlight

\* The finally block: every settled call clears the flag, whoever took it.
Release(c) ==
  /\ calls[c] # "idle"
  /\ calls' = [calls EXCEPT ![c] = "idle"]
  /\ probeInFlight' = FALSE

\* Mutant: a success closes the circuit without clearing the count.
SucceedKeepingCount(c) ==
  /\ Release(c)
  /\ failures' = failures
  /\ currentState' = "closed"
  /\ sinceProbe' = Cooldown
  /\ UNCHANGED sinceOpened

\* onSuccess(): whatever state the circuit is in by now, it closes.
Succeed(c) ==
  /\ Release(c)
  /\ failures' = 0
  /\ currentState' = "closed"
  /\ sinceProbe' = Cooldown
  /\ UNCHANGED sinceOpened

\* Mutant: a failed probe re-opens the circuit without restarting the cooldown.
FailKeepingCooldown(c) ==
  LET count == UpTo(Threshold, failures + 1)
      opens == currentState = "half_open" \/ count >= Threshold
  IN  /\ Release(c)
      /\ failures' = count
      /\ currentState' = IF opens THEN "open" ELSE currentState
      /\ sinceOpened' = IF opens /\ currentState = "closed" THEN 0 ELSE sinceOpened
      /\ UNCHANGED sinceProbe

\* onFailure(): it reads the field, not the getter, so an expired cooldown that
\* nobody has read yet is still "open" here, and is restarted.
Fail(c) ==
  LET count == UpTo(Threshold, failures + 1)
      opens == currentState = "half_open" \/ count >= Threshold
  IN  /\ Release(c)
      /\ failures' = count
      /\ currentState' = IF opens THEN "open" ELSE currentState
      /\ sinceOpened' = IF opens THEN 0 ELSE sinceOpened
      /\ UNCHANGED sinceProbe

Tick ==
  /\ sinceOpened < Cooldown \/ sinceProbe < Cooldown
  /\ sinceOpened' = UpTo(Cooldown, sinceOpened + 1)
  /\ sinceProbe' = UpTo(Cooldown, sinceProbe + 1)
  /\ UNCHANGED <<currentState, failures, probeInFlight, calls>>

Next ==
  \/ ReadState
  \/ Tick
  \/ \E c \in Callers : Call(c) \/ Succeed(c) \/ Fail(c)

Spec == Init /\ [][Next]_vars

(* Each call settles: ProviderCalls shows it of the deadlines and bounds of *)
(* the adapters that read a body to a string.  The clock runs.  That        *)
(* requests keep coming is the environment's part: nothing is probed for a  *)
(* provider nobody asks about.                                              *)
Fairness ==
  /\ WF_vars(Tick)
  /\ \A c \in Callers : WF_vars(Succeed(c) \/ Fail(c))
  /\ WF_vars(\E c \in Callers : Call(c))

LiveSpec == Spec /\ Fairness

-----------------------------------------------------------------------------
(* Properties.                                                             *)

\* The circuit is closed exactly while fewer than failureThreshold consecutive
\* failures are counted.  Late answers of calls admitted before the circuit
\* opened go through the same onSuccess and onFailure as the probe's, so this
\* has to survive every order in which they arrive.
ClosedBelowThreshold == currentState = "closed" <=> failures < Threshold

\* The flag that turns every caller away in half-open is only up in half-open
\* and always has a probe in flight that will take it down: a flag left behind
\* by a circuit that opened or closed meanwhile would reject a recovered
\* provider for ever (the finally block of execute()).
FlagHasAProbe ==
  probeInFlight => /\ currentState = "half_open"
                   /\ \E c \in Callers : calls[c] = "probe"

\* "a provider that is still broken is probed at most once per cooldown rather
\* than on every request" (circuit-breaker.ts:20): two probes of one outage are
\* a full cooldown apart, late failures and concurrent callers included.
ProbedOncePerCooldown ==
  [][\A c \in Callers :
        calls[c] = "idle" /\ calls'[c] = "probe" => sinceProbe = Cooldown]_vars

\* Once the provider stops failing the circuit closes for good, whatever is
\* still in flight from the outage and whatever the flag and the cooldown were.
Recovers ==
  <>[][\A c \in Callers : ~Fail(c)]_vars => <>[](currentState = "closed")

\* The strengthening the proofs use: half-open comes only after a full cooldown,
\* a closed circuit has no probe to wait for, and outside a probe the circuit has
\* been open for no longer than the last probe is old.
SpacingInv ==
  /\ currentState = "half_open" => sinceOpened = Cooldown
  /\ currentState = "closed" => sinceProbe = Cooldown
  /\ ~probeInFlight => sinceOpened <= sinceProbe

\* "lets only one probe through at a time" (circuit-breaker.spec.ts:147) and
\* "Exactly one probe" (circuit-breaker.ts:82).
OneProbeAtATime ==
  \A c, d \in Callers : calls[c] = "probe" /\ calls[d] = "probe" => c = d

\* "Once a provider has failed repeatedly it is skipped outright until a
\* cooldown expires" (circuit-breaker.ts:10): no call goes out within a
\* cooldown of the circuit opening.
SkippedUntilCooldown ==
  [][\A c \in Callers :
        calls[c] = "idle" /\ calls'[c] # "idle" => sinceOpened = Cooldown]_vars

=============================================================================
