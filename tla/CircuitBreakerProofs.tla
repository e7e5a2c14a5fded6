------------------------- MODULE CircuitBreakerProofs -------------------------
(***************************************************************************)
(* Proofs about CircuitBreaker, for any set of callers, any threshold and  *)
(* any cooldown, and about ProviderCalls, for any number of attempts,      *)
(* listings and pages: its steps are steps of the breaker, so everything   *)
(* proved of Spec holds of CallsSpec.                                      *)
(***************************************************************************)
EXTENDS ProviderCalls, TLAPS

IInv == TypeOK /\ ClosedBelowThreshold /\ FlagHasAProbe /\ SpacingInv

(* TypeOK without the flag: the flag is a Boolean and is typed by itself.     *)
ValueTypes ==
  /\ currentState \in CircuitState
  /\ failures \in 0..Threshold
  /\ sinceOpened \in 0..Cooldown
  /\ calls \in [Callers -> {"idle", "ordinary", "probe"}]
  /\ sinceProbe \in 0..Cooldown

LEMMA TypeSplit == TypeOK <=> ValueTypes /\ probeInFlight \in BOOLEAN
  BY DEF TypeOK, ValueTypes

(* The initial state satisfies the inductive invariant.                       *)
LEMMA InitIInv == Init => IInv
<1> SUFFICES ASSUME Init PROVE IInv
  OBVIOUS
<1> USE ThresholdAssumption, CooldownAssumption DEF Init
<1>1. ValueTypes
  BY DEF ValueTypes, CircuitState
<1>2. probeInFlight \in BOOLEAN
  OBVIOUS
<1>3. ClosedBelowThreshold
  BY DEF ClosedBelowThreshold
<1>4. FlagHasAProbe
  BY DEF FlagHasAProbe
<1>5. SpacingInv
  BY DEF SpacingInv
<1> QED BY <1>1, <1>2, <1>3, <1>4, <1>5, TypeSplit DEF IInv

(* Every step preserves it: one case per action, one step per conjunct.       *)
LEMMA NextIInv == IInv /\ [Next]_vars => IInv'
<1> SUFFICES ASSUME IInv, [Next]_vars
             PROVE  /\ ValueTypes'
                    /\ (probeInFlight \in BOOLEAN)'
                    /\ ClosedBelowThreshold'
                    /\ FlagHasAProbe'
                    /\ SpacingInv'
  BY TypeSplit DEF IInv, TypeOK, ValueTypes
<1> USE ThresholdAssumption, CooldownAssumption DEF IInv, TypeOK, CircuitState
<1>1. CASE ReadState
  <2>1. ValueTypes'
    BY <1>1 DEF ReadState, StateOnRead, ValueTypes
  <2>2. (probeInFlight \in BOOLEAN)'
    BY <1>1 DEF ReadState, StateOnRead
  <2>3. ClosedBelowThreshold'
    BY <1>1 DEF ReadState, StateOnRead, ClosedBelowThreshold
  <2>4. FlagHasAProbe'
    BY <1>1 DEF ReadState, StateOnRead, FlagHasAProbe
  <2>5. SpacingInv'
    BY <1>1 DEF ReadState, StateOnRead, SpacingInv
  <2> QED BY <2>1, <2>2, <2>3, <2>4, <2>5
<1>2. CASE Tick
  <2>1. ValueTypes'
    BY <1>2 DEF Tick, UpTo, ValueTypes
  <2>2. (probeInFlight \in BOOLEAN)'
    BY <1>2 DEF Tick, UpTo
  <2>3. ClosedBelowThreshold'
    BY <1>2 DEF Tick, UpTo, ClosedBelowThreshold
  <2>4. FlagHasAProbe'
    BY <1>2 DEF Tick, FlagHasAProbe
  <2>5. SpacingInv'
    BY <1>2 DEF Tick, UpTo, SpacingInv
  <2> QED BY <2>1, <2>2, <2>3, <2>4, <2>5
<1>3. ASSUME NEW c \in Callers, Call(c)
      PROVE  /\ ValueTypes' /\ (probeInFlight \in BOOLEAN)' /\ ClosedBelowThreshold'
             /\ FlagHasAProbe' /\ SpacingInv'
  <2>1. ValueTypes'
    BY <1>3 DEF Call, StateOnRead, ValueTypes
  <2>2. (probeInFlight \in BOOLEAN)'
    BY <1>3 DEF Call, StateOnRead
  <2>3. ClosedBelowThreshold'
    BY <1>3 DEF Call, StateOnRead, ClosedBelowThreshold
  <2>4. FlagHasAProbe'
    <3>1. CASE StateOnRead = "half_open"
      <4>1. currentState' = "half_open" /\ calls'[c] = "probe"
        BY <1>3, <3>1 DEF Call
      <4> QED BY <4>1 DEF FlagHasAProbe
    <3>2. CASE StateOnRead # "half_open"
      <4>1. StateOnRead = "closed" /\ currentState = "closed"
        BY <1>3, <3>2 DEF Call, StateOnRead
      <4>2. probeInFlight' = FALSE
        BY <1>3, <4>1 DEF Call, FlagHasAProbe
      <4> QED BY <4>2 DEF FlagHasAProbe
    <3> QED BY <3>1, <3>2
  <2>5. SpacingInv'
    <3>1. CASE StateOnRead = "half_open"
      <4>1. currentState' = "half_open" /\ probeInFlight' = TRUE
        BY <1>3, <3>1 DEF Call
      <4>2. sinceOpened = Cooldown /\ sinceOpened' = sinceOpened
        BY <1>3, <3>1 DEF Call, StateOnRead, SpacingInv
      <4> QED BY <4>1, <4>2 DEF SpacingInv
    <3>2. CASE StateOnRead # "half_open"
      <4>1. /\ currentState = "closed" /\ currentState' = currentState
            /\ sinceProbe' = sinceProbe /\ sinceOpened' = sinceOpened
        BY <1>3, <3>2 DEF Call, StateOnRead
      <4> QED BY <4>1 DEF SpacingInv
    <3> QED BY <3>1, <3>2
  <2> QED BY <2>1, <2>2, <2>3, <2>4, <2>5
<1>4. ASSUME NEW c \in Callers, Succeed(c)
      PROVE  /\ ValueTypes' /\ (probeInFlight \in BOOLEAN)' /\ ClosedBelowThreshold'
             /\ FlagHasAProbe' /\ SpacingInv'
  <2>1. ValueTypes'
    BY <1>4 DEF Succeed, Release, ValueTypes
  <2>2. (probeInFlight \in BOOLEAN)'
    BY <1>4 DEF Succeed, Release
  <2>3. ClosedBelowThreshold'
    BY <1>4 DEF Succeed, Release, ClosedBelowThreshold
  <2>4. FlagHasAProbe'
    BY <1>4 DEF Succeed, Release, FlagHasAProbe
  <2>5. SpacingInv'
    BY <1>4 DEF Succeed, Release, SpacingInv
  <2> QED BY <2>1, <2>2, <2>3, <2>4, <2>5
<1>5. ASSUME NEW c \in Callers, Fail(c)
      PROVE  /\ ValueTypes' /\ (probeInFlight \in BOOLEAN)' /\ ClosedBelowThreshold'
             /\ FlagHasAProbe' /\ SpacingInv'
  <2> DEFINE count == UpTo(Threshold, failures + 1)
             opens == currentState = "half_open" \/ count >= Threshold
  <2>0. /\ count \in 1..Threshold
        /\ count >= failures
    BY DEF UpTo
  <2>a. /\ calls' = [calls EXCEPT ![c] = "idle"]
        /\ probeInFlight' = FALSE
        /\ failures' = count
        /\ currentState' = IF opens THEN "open" ELSE currentState
        /\ sinceOpened' = IF opens THEN 0 ELSE sinceOpened
        /\ sinceProbe' = sinceProbe
    BY <1>5 DEF Fail, Release
  <2> HIDE DEF count
  <2>1. ValueTypes'
    BY <2>0, <2>a DEF ValueTypes
  <2>2. (probeInFlight \in BOOLEAN)'
    BY <2>a
  <2>3. ClosedBelowThreshold'
    BY <2>0, <2>a DEF ClosedBelowThreshold
  <2>4. FlagHasAProbe'
    BY <2>a DEF FlagHasAProbe
  <2>5. SpacingInv'
    <3>1. CASE opens
      BY <2>a, <3>1 DEF SpacingInv
    <3>2. CASE ~opens
      \* Not opening means the count was below the threshold: it was closed.
      <4>1. currentState = "closed" /\ sinceProbe = Cooldown
        BY <2>0, <3>2 DEF ClosedBelowThreshold, SpacingInv
      <4> QED BY <2>a, <3>2, <4>1 DEF SpacingInv
    <3> QED BY <3>1, <3>2
  <2> QED BY <2>1, <2>2, <2>3, <2>4, <2>5
<1>6. CASE UNCHANGED vars
  BY <1>6 DEF vars, ValueTypes, ClosedBelowThreshold, FlagHasAProbe, SpacingInv
<1> QED BY <1>1, <1>2, <1>3, <1>4, <1>5, <1>6 DEF Next

LEMMA Invariant == Spec => []IInv
  BY InitIInv, NextIInv, PTL DEF Spec

(* Types. *)
THEOREM TypeCorrect == Spec => []TypeOK
  BY Invariant, PTL DEF IInv

(* The circuit is closed exactly while the failure count is below the        *)
(* threshold, however late answers interleave with the probe.                *)
THEOREM ClosedBelowThresholdHolds == Spec => []ClosedBelowThreshold
  BY Invariant, PTL DEF IInv

(* execute()'s half-open flag is never left behind without a probe that      *)
(* will clear it.                                                            *)
THEOREM FlagHasAProbeHolds == Spec => []FlagHasAProbe
  BY Invariant, PTL DEF IInv

(* Half-open is reached only after a whole cooldown, and outside a probe the *)
(* circuit has been open for no longer than the last probe is old.           *)
THEOREM SpacingInvHolds == Spec => []SpacingInv
  BY Invariant, PTL DEF IInv

(* Two probes of one outage are at least a cooldown apart.                   *)
THEOREM ProbedOncePerCooldownHolds == Spec => ProbedOncePerCooldown
<1> DEFINE Spaced == \A c \in Callers :
             calls[c] = "idle" /\ calls'[c] = "probe" => sinceProbe = Cooldown
<1>1. IInv /\ [Next]_vars => [Spaced]_vars
  <2> SUFFICES ASSUME IInv, Next, NEW c \in Callers,
                      calls[c] = "idle", calls'[c] = "probe"
               PROVE  sinceProbe = Cooldown
    OBVIOUS
  <2> USE CooldownAssumption DEF IInv, TypeOK
  <2>1. ASSUME NEW d \in Callers, Call(d) PROVE sinceProbe = Cooldown
    BY <2>1 DEF Call, StateOnRead, SpacingInv, FlagHasAProbe
  <2>2. ASSUME NEW d \in Callers, Succeed(d) \/ Fail(d) PROVE FALSE
    BY <2>2 DEF Succeed, Fail, Release
  <2>3. CASE ReadState \/ Tick
    BY <2>3 DEF ReadState, Tick
  <2> QED BY <2>1, <2>2, <2>3 DEF Next
<1> QED BY <1>1, Invariant, PTL DEF Spec, ProbedOncePerCooldown

(* Retries, pages and deadlines reach the breaker only as the end of a call: *)
(* the refresh implements the breaker's specification.                       *)
THEOREM CallsImplementSpec == CallsSpec => Spec
<1>1. CallsInit => Init
  BY DEF CallsInit
<1>2. [CallsNext]_callVars => [Next]_vars
  <2> SUFFICES ASSUME CallsNext PROVE Next \/ UNCHANGED vars
    BY DEF callVars
  <2>1. CASE ReadState \/ Tick
    BY <2>1 DEF Next
  <2>2. ASSUME NEW c \in Callers, AttemptFails(c) PROVE Next \/ UNCHANGED vars
    BY <2>2 DEF AttemptFails, Next
  <2>3. ASSUME NEW c \in Callers, BodyArrives(c) PROVE Next \/ UNCHANGED vars
    BY <2>2, <2>3 DEF BodyArrives, NextPage, LastPage, Next
  <2>4. ASSUME NEW c \in Callers,
               Refresh(c) \/ SecretsArrive(c) \/ HeadersArrive(c) \/ BackoffOver(c)
        PROVE  Next \/ UNCHANGED vars
    BY <2>2, <2>4 DEF Refresh, SecretsArrive, HeadersArrive, BackoffOver, Next
  <2>5. ASSUME NEW c \in Callers, HeadersTimeOut(c) \/ BodyTimesOut(c)
        PROVE  Next \/ UNCHANGED vars
    BY <2>2, <2>5 DEF HeadersTimeOut, BodyTimesOut
  <2> QED BY <2>1, <2>2, <2>3, <2>4, <2>5 DEF CallsNext
<1> QED BY <1>1, <1>2, PTL DEF CallsSpec, Spec

(* What a call's request may become: the facts each step below is shown by. *)
CallEnds(c) ==
  /\ request' = [request EXCEPT ![c] = NoRequest]
  /\ calls' = [calls EXCEPT ![c] = "idle"]

CallWaits(c) ==
  /\ \E r \in Waiting :
       /\ r.waitsFor = "backoff" => r.attempt < MaxAttempts
       /\ request' = [request EXCEPT ![c] = r]
  /\ calls' = calls /\ calls[c] # "idle"

CallBegins(c) ==
  /\ \E r \in Waiting :
       /\ r.waitsFor = "backoff" => r.attempt < MaxAttempts
       /\ request' = [request EXCEPT ![c] = r]
  /\ \E a \in {"ordinary", "probe"} : calls' = [calls EXCEPT ![c] = a]

(* A page or an attempt is never counted past its bound.                      *)
LEMMA AsksIsWaiting ==
  ASSUME NEW n \in 1..MaxAttempts, NEW l \in 0..Listings, NEW p \in 1..MaxPages
  PROVE  Asks(n, l, p) \in Waiting /\ Asks(n, l, p).waitsFor # "backoff"
  BY DEF Asks, Waiting

LEMMA BeginsIsWaiting ==
  ASSUME NEW n \in 1..MaxAttempts
  PROVE  Begins(n) \in Waiting /\ Begins(n).waitsFor # "backoff"
<1>1. Asks(n, 1, 1) \in Waiting /\ Asks(n, 1, 1).waitsFor # "backoff"
  BY AsksIsWaiting, CallsAssumption
<1> QED BY <1>1, CallsAssumption DEF Begins, Waiting

LEMMA PausesIsWaiting ==
  ASSUME NEW n \in 1..MaxAttempts
  PROVE  Pauses(n) \in Waiting /\ Pauses(n).attempt = n
  BY CallsAssumption DEF Pauses, Waiting

LEMMA NothingIsNotWaiting == NoRequest \notin Waiting
  BY DEF NoRequest, Waiting

(* A failed attempt is followed by a pause or ends the call.                  *)
LEMMA AttemptFailsEnds ==
  ASSUME RequestsOK, NEW c \in Callers, AttemptFails(c)
  PROVE  CallEnds(c) \/ CallWaits(c)
<1>1. request[c] \in Waiting /\ calls[c] # "idle"
  BY DEF RequestsOK, AttemptFails, NoRequest
<1>2. CASE request[c].attempt < MaxAttempts
  <2> DEFINE r == Pauses(request[c].attempt)
  <2>1. r \in Waiting /\ (r.waitsFor = "backoff" => r.attempt < MaxAttempts)
    BY <1>1, <1>2, PausesIsWaiting DEF Waiting
  <2>2. UNCHANGED vars
        /\ request' = [request EXCEPT ![c] = r]
    BY <1>1, <1>2, CallsAssumption DEF AttemptFails, Waiting
  <2> QED BY <1>1, <2>1, <2>2 DEF CallWaits, vars
<1>3. CASE ~(request[c].attempt < MaxAttempts)
  BY <1>3 DEF AttemptFails, CallEnds, Fail, Release
<1> QED BY <1>2, <1>3

(* A call's requests begin and end with the call, within their bounds.        *)
THEOREM CallsTypeCorrect == CallsSpec => []CallsTypeOK
<1>1. CallsInit => RequestsOK
  BY DEF CallsInit, Init, RequestsOK, NoRequest
<1>2. RequestsOK /\ TypeOK /\ [CallsNext]_callVars => RequestsOK'
  <2> SUFFICES ASSUME RequestsOK, TypeOK, [CallsNext]_callVars PROVE RequestsOK'
    OBVIOUS
  <2>0. ASSUME NEW c \in Callers, CallEnds(c) \/ CallWaits(c) \/ CallBegins(c)
        PROVE  RequestsOK'
    <3>1. CASE CallEnds(c)
      BY <3>1 DEF CallEnds, RequestsOK, TypeOK, NoRequest
    <3>2. CASE CallWaits(c)
      BY <3>2, NothingIsNotWaiting DEF CallWaits, RequestsOK, TypeOK
    <3>3. CASE CallBegins(c)
      BY <3>3, NothingIsNotWaiting DEF CallBegins, RequestsOK, TypeOK
    <3> QED BY <2>0, <3>1, <3>2, <3>3
  <2>1. ASSUME NEW c \in Callers, Refresh(c) PROVE RequestsOK'
    <3>1. Begins(1) \in Waiting /\ Begins(1).waitsFor # "backoff"
      BY BeginsIsWaiting, CallsAssumption
    <3>2. CallBegins(c)
      BY <2>1, <3>1 DEF Refresh, Call, CallBegins
    <3> QED BY <2>0, <3>2
  <2>2. ASSUME NEW c \in Callers, AttemptFails(c) PROVE RequestsOK'
    BY <2>0, <2>2, AttemptFailsEnds
  <2>3. ASSUME NEW c \in Callers, HeadersArrive(c) PROVE RequestsOK'
    <3>1. request[c] \in Waiting /\ calls[c] # "idle"
      BY <2>3 DEF RequestsOK, HeadersArrive, NoRequest
    <3> DEFINE r == [request[c] EXCEPT !.waitsFor = "body"]
    <3>2. r \in Waiting /\ r.waitsFor # "backoff"
      BY <2>3, <3>1 DEF HeadersArrive, Waiting
    <3>3. CallWaits(c)
      BY <2>3, <3>1, <3>2 DEF HeadersArrive, CallWaits, vars
    <3> QED BY <2>0, <3>3
  <2>4. ASSUME NEW c \in Callers, BodyArrives(c) PROVE RequestsOK'
    <3>1. request[c] \in Waiting /\ calls[c] # "idle"
      BY <2>4 DEF RequestsOK, BodyArrives, NoRequest
    <3>2. CASE NextPage(c)
      <4>1. CASE AttemptFails(c)
        BY <2>2, <4>1
      <4>2. CASE ~AttemptFails(c)
        <5> DEFINE r == Asks(request[c].attempt, request[c].listing,
                             request[c].page + 1)
        <5>1. request' = [request EXCEPT ![c] = r] /\ UNCHANGED vars
              /\ request[c].page < MaxPages
          BY <3>2, <4>2, <3>1 DEF NextPage, RequestsOK, Waiting
        <5>2. r \in Waiting /\ r.waitsFor # "backoff"
          <6>1. request[c].page + 1 \in 1..MaxPages
            BY <3>1, <5>1, CallsAssumption DEF Waiting
          <6>2. request[c].attempt \in 1..MaxAttempts /\ request[c].listing \in 0..Listings
            BY <3>1, CallsAssumption DEF Waiting
          <6> QED BY <6>1, <6>2, AsksIsWaiting
        <5>3. CallWaits(c)
          BY <3>1, <5>1, <5>2 DEF CallWaits, vars
        <5> QED BY <2>0, <5>3
      <4> QED BY <4>1, <4>2
    <3>3. CASE LastPage(c)
      <4>1. CASE request[c].listing < Listings
        <5> DEFINE r == Asks(request[c].attempt, request[c].listing + 1, 1)
        <5>1. request' = [request EXCEPT ![c] = r] /\ UNCHANGED vars
          BY <3>3, <4>1, <3>1, CallsAssumption DEF LastPage, RequestsOK, Waiting
        <5>2. r \in Waiting /\ r.waitsFor # "backoff"
          <6>1. request[c].listing + 1 \in 0..Listings /\ 1 \in 1..MaxPages
            BY <3>1, <4>1, CallsAssumption DEF Waiting
          <6> QED BY <3>1, <6>1, AsksIsWaiting DEF Waiting
        <5>3. CallWaits(c)
          BY <3>1, <5>1, <5>2 DEF CallWaits, vars
        <5> QED BY <2>0, <5>3
      <4>2. CASE ~(request[c].listing < Listings)
        <5>1. CallEnds(c)
          BY <3>3, <4>2 DEF LastPage, CallEnds, Succeed, Release
        <5> QED BY <2>0, <5>1
      <4> QED BY <4>1, <4>2
    <3> QED BY <2>4, <3>2, <3>3 DEF BodyArrives
  <2>5. ASSUME NEW c \in Callers, BackoffOver(c) PROVE RequestsOK'
    <3>1. request[c] \in Waiting /\ calls[c] # "idle"
      BY <2>5 DEF RequestsOK, BackoffOver, NoRequest
    <3> DEFINE r == Begins(request[c].attempt + 1)
    <3>2. r \in Waiting /\ r.waitsFor # "backoff"
      <4>1. request[c].attempt + 1 \in 1..MaxAttempts
        BY <2>5, <3>1, CallsAssumption DEF BackoffOver, RequestsOK, Waiting
      <4> QED BY <4>1, BeginsIsWaiting
    <3>3. CallWaits(c)
      BY <2>5, <3>1, <3>2 DEF BackoffOver, CallWaits, vars
    <3> QED BY <2>0, <3>3
  <2>6. ASSUME NEW c \in Callers, HeadersTimeOut(c) \/ BodyTimesOut(c)
        PROVE  RequestsOK'
    BY <2>2, <2>6 DEF HeadersTimeOut, BodyTimesOut
  <2>7. ASSUME NEW c \in Callers, SecretsArrive(c) PROVE RequestsOK'
    <3>1. request[c] \in Waiting /\ calls[c] # "idle"
      BY <2>7 DEF RequestsOK, SecretsArrive, NoRequest
    <3>2. ASSUME NEW first \in {0, 1}, UNCHANGED vars,
                 request' = [request EXCEPT ![c] = Asks(@.attempt, first, 1)]
          PROVE  RequestsOK'
      <4> DEFINE r == Asks(request[c].attempt, first, 1)
      <4>1. r \in Waiting /\ r.waitsFor # "backoff"
        <5>1. request[c].attempt \in 1..MaxAttempts /\ first \in 0..Listings
              /\ 1 \in 1..MaxPages
          BY <3>1, CallsAssumption DEF Waiting
        <5> QED BY <5>1, AsksIsWaiting
      <4>2. request' = [request EXCEPT ![c] = r]
        BY <3>2
      <4>3. CallWaits(c)
        BY <3>1, <3>2, <4>1, <4>2 DEF CallWaits, vars
      <4> QED BY <2>0, <4>3
    <3> QED BY <2>2, <2>7, <3>2 DEF SecretsArrive
  <2>8. CASE (ReadState \/ Tick) /\ UNCHANGED request
    BY <2>8 DEF ReadState, Tick, RequestsOK
  <2>9. CASE UNCHANGED callVars
    BY <2>9 DEF callVars, vars, RequestsOK
  <2> QED BY <2>1, <2>2, <2>3, <2>4, <2>5, <2>6, <2>7, <2>8, <2>9 DEF CallsNext
<1>3. TypeOK /\ RequestsOK => CallsTypeOK
  BY DEF CallsTypeOK
<1> QED BY <1>1, <1>2, <1>3, CallsImplementSpec, TypeCorrect, PTL DEF CallsSpec

(* What was proved of the breaker holds with the requests inside its calls: *)
(* no retry, page or deadline opens it early, leaves the probe's flag up or *)
(* brings two probes closer than a cooldown.                                *)
THEOREM CallsKeepBreaker ==
  CallsSpec => [](ClosedBelowThreshold /\ FlagHasAProbe) /\ ProbedOncePerCooldown
  BY CallsImplementSpec, ClosedBelowThresholdHolds, FlagHasAProbeHolds,
     ProbedOncePerCooldownHolds, PTL

-----------------------------------------------------------------------------
(* How far a call has come.                                                 *)

LEMMA Multiplied ==
  ASSUME NEW m \in Nat, NEW n \in Nat, NEW k \in Nat, m <= n
  PROVE  m * k \in Nat /\ n * k \in Nat /\ m * k <= n * k
<1>1. PICK d \in Nat : n = m + d
  BY n - m \in Nat /\ n = m + (n - m)
<1>2. m * k \in Nat /\ n * k \in Nat /\ d * k \in Nat
  OBVIOUS
<1>3. n * k = m * k + d * k
  BY <1>1
<1> QED BY <1>2, <1>3

Most(n) == n * Rounds * MaxPages

\* A request on a page lies between what earlier listings and pages asked for and
\* what the attempt may ask for.
LEMMA AskedWithin ==
  ASSUME NEW n \in 1..MaxAttempts, NEW l \in 0..Listings
  PROVE  /\ ((n - 1) * Rounds + l) * MaxPages \in Nat
         /\ ((n - 1) * Rounds + l + 1) * MaxPages
              = ((n - 1) * Rounds + l) * MaxPages + MaxPages
         /\ ((n - 1) * Rounds + l + 1) * MaxPages <= Most(n)
         /\ Most(n - 1) \in Nat
         /\ Most(n - 1) <= ((n - 1) * Rounds + l) * MaxPages
         /\ Most(n) \in Nat
         /\ Most(n) <= Most(MaxAttempts)
<1>0. /\ n \in Nat /\ n - 1 \in Nat /\ MaxAttempts \in Nat /\ Rounds \in Nat /\ MaxPages \in Nat
      /\ n <= MaxAttempts /\ l \in Nat /\ l + 1 <= Rounds
  BY CallsAssumption DEF Rounds
<1>1. (n - 1) * Rounds \in Nat /\ n * Rounds \in Nat /\ MaxAttempts * Rounds \in Nat
      /\ n * Rounds <= MaxAttempts * Rounds
  BY <1>0, Multiplied
<1>2. n * Rounds = (n - 1) * Rounds + Rounds
  BY <1>0
<1> DEFINE x == (n - 1) * Rounds
           y == n * Rounds
           z == MaxAttempts * Rounds
<1>3. x \in Nat /\ y \in Nat /\ z \in Nat /\ x + l + 1 <= y /\ y <= z
  BY <1>0, <1>1, <1>2
<1> HIDE DEF x, y, z
<1>4. x + l \in Nat /\ x + l + 1 \in Nat /\ x <= x + l
  BY <1>0, <1>3
<1>5. (x + l) * MaxPages \in Nat /\ x * MaxPages \in Nat /\ x * MaxPages <= (x + l) * MaxPages
  BY <1>0, <1>3, <1>4, Multiplied
<1>6. (x + l + 1) * MaxPages = (x + l) * MaxPages + MaxPages
  <2> DEFINE w == x + l
  <2>1. w \in Nat
    BY <1>4
  <2> HIDE DEF w
  <2>2. (w + 1) * MaxPages = w * MaxPages + MaxPages
    BY <1>0, <2>1
  <2> QED BY <2>2 DEF w
<1>7. (x + l + 1) * MaxPages <= y * MaxPages /\ y * MaxPages \in Nat /\ y * MaxPages <= z * MaxPages
  BY <1>0, <1>3, <1>4, Multiplied
<1> QED BY <1>5, <1>6, <1>7 DEF x, y, z, Most

LEMMA AskedOn ==
  ASSUME NEW n \in 1..MaxAttempts, NEW l \in 0..Listings, NEW p \in 1..MaxPages
  PROVE  LET page == Asks(n, l, p)
         IN  /\ Asked(page) \in Nat
             /\ Asked(page) = ((n - 1) * Rounds + l) * MaxPages + p
             /\ Asked(page) <= ((n - 1) * Rounds + l + 1) * MaxPages
             /\ Asked(page) <= Most(n)
             /\ Asked(page) > Most(n - 1)
             /\ Most(n) <= Most(MaxAttempts)
             /\ Most(MaxAttempts) \in Nat
<1>1. Asked(Asks(n, l, p)) = ((n - 1) * Rounds + l) * MaxPages + p
  BY DEF Asked, Asks
<1> DEFINE b == ((n - 1) * Rounds + l) * MaxPages
           e == ((n - 1) * Rounds + l + 1) * MaxPages
<1>2. /\ b \in Nat /\ e = b + MaxPages /\ e <= Most(n) /\ Most(n) \in Nat
      /\ Most(n) <= Most(MaxAttempts) /\ Most(n - 1) \in Nat /\ Most(n - 1) <= b
  BY AskedWithin
<1>3. Most(MaxAttempts) \in Nat
  <2>1. MaxAttempts \in 1..MaxAttempts
    BY CallsAssumption
  <2> QED BY <2>1, AskedWithin
<1> HIDE DEF b, e
<1>4. p \in Nat /\ 1 <= p /\ p <= MaxPages /\ MaxPages \in Nat
  BY CallsAssumption
<1>5. b + p \in Nat /\ b + p <= e /\ b + p <= Most(n) /\ b + p > Most(n - 1)
  BY <1>2, <1>4
<1> QED BY <1>1, <1>2, <1>3, <1>5 DEF b, e

\* Where an attempt begins counts as the first request of its first round.
LEMMA BeginsOn ==
  ASSUME NEW n \in 1..MaxAttempts
  PROVE  /\ Asked(Begins(n)) \in Nat
         /\ Asked(Begins(n)) > Most(n - 1)
         /\ Asked(Begins(n)) <= Most(MaxAttempts)
<1>1. /\ Asked(Begins(n)) = Asked(Asks(n, 0, 1)) \/ Asked(Begins(n)) = Asked(Asks(n, 1, 1))
  BY DEF Begins, Asks, Asked
<1>2. 0 \in 0..Listings /\ 1 \in 0..Listings /\ 1 \in 1..MaxPages /\ MaxAttempts \in 1..MaxAttempts
  BY CallsAssumption
<1>3. Most(n) \in Nat /\ Most(n - 1) \in Nat /\ Most(MaxAttempts) \in Nat
  BY <1>2, AskedWithin
<1>4. ASSUME NEW l \in 0..Listings
      PROVE  /\ Asked(Asks(n, l, 1)) \in Nat
             /\ Asked(Asks(n, l, 1)) > Most(n - 1)
             /\ Asked(Asks(n, l, 1)) <= Most(MaxAttempts)
  <2>1. /\ Asked(Asks(n, l, 1)) \in Nat /\ Asked(Asks(n, l, 1)) > Most(n - 1)
        /\ Asked(Asks(n, l, 1)) <= Most(n) /\ Most(n) <= Most(MaxAttempts)
    BY <1>2, AskedOn
  <2> QED BY <2>1, <1>3
<1> QED BY <1>1, <1>2, <1>4

\* What a step makes of the request of a call that goes on.
GoesOn(q, next) ==
  /\ Asked(next) \in Asked(q)..Most(MaxAttempts)
  /\ Asked(next) = Asked(q) => Follows(q, next)

\* What was asked for counts the same for the headers and the body of a page.
LEMMA AskedOfRequest ==
  ASSUME NEW q \in Waiting, q.waitsFor # "backoff"
  PROVE  Asked(q) = Asked(Asks(q.attempt, q.listing, q.page))
  BY DEF Asked, Asks, Waiting

LEMMA PausesOn ==
  ASSUME NEW q \in Waiting, q.waitsFor # "backoff"
  PROVE  GoesOn(q, Pauses(q.attempt))
<1>1. q.attempt \in 1..MaxAttempts /\ q.listing \in 0..Listings /\ q.page \in 1..MaxPages
  BY CallsAssumption DEF Waiting
<1>2. Asked(Pauses(q.attempt)) = Most(q.attempt)
  BY DEF Asked, Pauses, Most
<1>3. /\ Asked(q) \in Nat /\ Asked(q) <= Most(q.attempt)
      /\ Most(q.attempt) <= Most(MaxAttempts)
      /\ Most(q.attempt) \in Nat /\ Most(MaxAttempts) \in Nat
  <2> QED BY <1>1, AskedOfRequest, AskedOn, AskedWithin
<1>4. Follows(q, Pauses(q.attempt))
  BY DEF Follows, Pauses, Waiting
<1> QED BY <1>2, <1>3, <1>4 DEF GoesOn

(* An attempt that fails before the last asks for nothing more until its    *)
(* pause is over.                                                           *)
LEMMA AttemptFailsOn ==
  ASSUME RequestsOK, NEW c \in Callers, AttemptFails(c), calls'[c] # "idle", TypeOK
  PROVE  request'[c] = Pauses(request[c].attempt) /\ GoesOn(request[c], request'[c])
<1>1. request[c] \in Waiting /\ request[c].waitsFor # "backoff"
  BY DEF RequestsOK, AttemptFails, NoRequest
<1>2. ~Fail(c)
  BY DEF Fail, Release, TypeOK
<1>3. request'[c] = Pauses(request[c].attempt)
  BY <1>2 DEF AttemptFails, RequestsOK
<1> QED BY <1>1, <1>3, PausesOn

(* Every step of a refresh brings it nearer its end, whichever requests     *)
(* fail and however many pages are named.                                   *)
THEOREM NearsItsEndHolds == CallsSpec => NearsItsEnd
<1> DEFINE Nears ==
      \A c \in Callers :
        calls[c] # "idle" /\ calls'[c] # "idle" /\ request'[c] # request[c]
          => GoesOn(request[c], request'[c])
<1>1. CallsTypeOK /\ [CallsNext]_callVars => Nears
  <2> SUFFICES ASSUME CallsTypeOK, [CallsNext]_callVars, NEW c \in Callers,
                      calls[c] # "idle", calls'[c] # "idle", request'[c] # request[c]
               PROVE  GoesOn(request[c], request'[c])
    OBVIOUS
  <2> DEFINE q == request[c]
  <2>0. /\ TypeOK /\ RequestsOK
        /\ q \in Waiting
        /\ q.attempt \in 1..MaxAttempts /\ q.listing \in 0..Listings /\ q.page \in 1..MaxPages
    BY CallsAssumption DEF CallsTypeOK, RequestsOK, Waiting
  <2>10. ASSUME NEW w \in Waiting, w.waitsFor # "backoff"
         PROVE  Asked(w) \in Nat /\ Asked(w) <= Most(MaxAttempts) /\ Most(MaxAttempts) \in Nat
    <3>1. w.attempt \in 1..MaxAttempts /\ w.listing \in 0..Listings /\ w.page \in 1..MaxPages
      BY CallsAssumption DEF Waiting
    <3>2. /\ Asked(w) \in Nat /\ Asked(w) <= Most(w.attempt)
          /\ Most(w.attempt) <= Most(MaxAttempts)
          /\ Most(w.attempt) \in Nat /\ Most(MaxAttempts) \in Nat
      BY <2>10, <3>1, AskedOfRequest, AskedOn, AskedWithin
    <3> QED BY <3>2
  <2>1. PICK b \in Callers :
          \/ Refresh(b) \/ SecretsArrive(b) \/ HeadersArrive(b) \/ BodyArrives(b) \/ AttemptFails(b)
          \/ HeadersTimeOut(b) \/ BodyTimesOut(b) \/ BackoffOver(b)
    BY DEF CallsNext, callVars
  <2>2. b = c
    BY <2>0, <2>1
    DEF Refresh, SecretsArrive, HeadersArrive, BodyArrives, AttemptFails, HeadersTimeOut,
        BodyTimesOut, BackoffOver, NextPage, LastPage, RequestsOK
  <2>3. ~Refresh(c)
    BY DEF Refresh, Call
  <2>4. CASE AttemptFails(c)
    BY <2>0, <2>4, AttemptFailsOn
  <2>5. CASE HeadersArrive(c)
    <3>1. request'[c] = [q EXCEPT !.waitsFor = "body"] /\ q.waitsFor = "headers"
      BY <2>0, <2>5 DEF HeadersArrive, RequestsOK
    <3>2. Asked(request'[c]) = Asked(q) /\ Follows(q, request'[c])
      BY <2>0, <3>1 DEF Asked, Follows, Waiting
    <3>3. Asked(q) \in Nat /\ Asked(q) <= Most(MaxAttempts) /\ Most(MaxAttempts) \in Nat
      BY <2>0, <2>10, <3>1
    <3> QED BY <3>2, <3>3 DEF GoesOn
  <2>6. CASE BodyArrives(c) /\ NextPage(c) /\ ~AttemptFails(c)
    <3>1. request'[c] = Asks(q.attempt, q.listing, q.page + 1) /\ q.page < MaxPages
      BY <2>0, <2>6 DEF NextPage, RequestsOK
    <3>2. q.page + 1 \in 1..MaxPages
      BY <2>0, <3>1, CallsAssumption
    <3>3. Asked(q) = ((q.attempt - 1) * Rounds + q.listing) * MaxPages + q.page
      BY <2>6, <2>0 DEF BodyArrives, Asked
    <3> DEFINE base == ((q.attempt - 1) * Rounds + q.listing) * MaxPages
    <3>4. Asked(request'[c]) = base + (q.page + 1)
      BY <2>0, <3>1, <3>2, AskedOn
    <3>5. base \in Nat
      BY <2>0, AskedWithin
    <3>6. Asked(request'[c]) \in Nat /\ Asked(request'[c]) <= Most(MaxAttempts)
          /\ Most(MaxAttempts) \in Nat
      BY <2>0, <2>10, <3>1, <3>2, AsksIsWaiting
    <3> HIDE DEF base
    <3>7. q.page \in Nat /\ Asked(q) = base + q.page
      BY <2>0, <3>3, CallsAssumption DEF base
    <3> QED BY <3>4, <3>5, <3>6, <3>7 DEF GoesOn
  <2>7. CASE BodyArrives(c) /\ LastPage(c)
    <3>1. ~Succeed(c)
      BY <2>0 DEF Succeed, Release, TypeOK
    <3>2. request'[c] = Asks(q.attempt, q.listing + 1, 1) /\ q.listing < Listings
      BY <2>0, <2>7, <3>1 DEF LastPage, RequestsOK
    <3>3. q.listing + 1 \in 0..Listings /\ 1 \in 1..MaxPages /\ q.waitsFor # "backoff"
      BY <2>0, <2>7, <3>2, CallsAssumption DEF BodyArrives
    <3> DEFINE e == ((q.attempt - 1) * Rounds + q.listing + 1) * MaxPages
    <3>4. Asked(q) \in Nat /\ Asked(q) <= e
      BY <2>0, <3>3, AskedOfRequest, AskedOn
    <3>5. Asked(request'[c]) = ((q.attempt - 1) * Rounds + (q.listing + 1)) * MaxPages + 1
      BY <2>0, <3>2, <3>3, AskedOn
    <3>6. (q.attempt - 1) * Rounds + (q.listing + 1) = (q.attempt - 1) * Rounds + q.listing + 1
      <4> DEFINE x == (q.attempt - 1) * Rounds
      <4>1. x \in Nat
        BY <2>0, CallsAssumption, Multiplied DEF Rounds
      <4> HIDE DEF x
      <4>2. x + (q.listing + 1) = x + q.listing + 1
        BY <2>0, <4>1, CallsAssumption
      <4> QED BY <4>2 DEF x
    <3>7. e \in Nat
      <4>1. /\ ((q.attempt - 1) * Rounds + q.listing) * MaxPages \in Nat
            /\ e = ((q.attempt - 1) * Rounds + q.listing) * MaxPages + MaxPages
        BY <2>0, AskedWithin
      <4> HIDE DEF e
      <4> QED BY <4>1, CallsAssumption
    <3> HIDE DEF e
    <3>8. Asked(request'[c]) = e + 1
      BY <3>5, <3>6 DEF e
    <3>9. Asked(request'[c]) <= Most(MaxAttempts) /\ Most(MaxAttempts) \in Nat
      BY <2>0, <2>10, <3>2, <3>3, AsksIsWaiting
    <3> QED BY <3>4, <3>7, <3>8, <3>9 DEF GoesOn
  <2>8. CASE BackoffOver(c)
    <3>1. request'[c] = Begins(q.attempt + 1) /\ q.waitsFor = "backoff"
      BY <2>0, <2>8 DEF BackoffOver, RequestsOK
    <3> DEFINE n == q.attempt + 1
    <3>2. n \in 1..MaxAttempts /\ n - 1 = q.attempt
      BY <2>0, <3>1, CallsAssumption DEF RequestsOK
    <3>3. Asked(q) = Most(n - 1)
      BY <3>1, <3>2 DEF Asked, Most
    <3> HIDE DEF n
    <3>4. /\ Asked(Begins(n)) \in Nat /\ Asked(Begins(n)) > Most(n - 1)
          /\ Asked(Begins(n)) <= Most(MaxAttempts)
      BY <3>2, BeginsOn
    <3>5. Most(n - 1) \in Nat /\ Most(MaxAttempts) \in Nat
      <4>1. 0 \in 0..Listings /\ MaxAttempts \in 1..MaxAttempts
        BY CallsAssumption
      <4> QED BY <3>2, <4>1, AskedWithin
    <3> QED BY <3>1, <3>3, <3>4, <3>5 DEF GoesOn, n
  <2>9. CASE SecretsArrive(c) /\ ~AttemptFails(c)
    <3>1. PICK first \in {0, 1} : request'[c] = Asks(q.attempt, first, 1)
      BY <2>0, <2>9 DEF SecretsArrive, RequestsOK
    <3>2. first \in 0..Listings /\ 1 \in 1..MaxPages /\ q.waitsFor = "secrets"
      BY <2>9, CallsAssumption DEF SecretsArrive
    <3>3. Asked(q) = ((q.attempt - 1) * Rounds + q.listing) * MaxPages + q.page
      BY <3>2 DEF Asked
    <3>4. q.listing = 0 /\ q.page = 1
      BY <2>0, <3>2 DEF Waiting
    <3> DEFINE a == Asks(q.attempt, first, 1)
    <3>5. /\ Asked(a) \in Nat /\ Asked(a) <= Most(MaxAttempts) /\ Most(MaxAttempts) \in Nat
          /\ Asked(q) \in Nat
      BY <2>0, <2>10, <3>2, AsksIsWaiting
    <3>6. Asked(q) = Asked(Asks(q.attempt, 0, 1))
      BY <3>3, <3>4 DEF Asked, Asks
    <3>7. Follows(q, a)
      BY <3>2 DEF Follows, Asks
    <3>8. CASE first = 0
      BY <3>1, <3>5, <3>6, <3>7, <3>8 DEF GoesOn
    <3>9. CASE first = 1
      <4> DEFINE base == ((q.attempt - 1) * Rounds + 0) * MaxPages
                    t == ((q.attempt - 1) * Rounds + 1) * MaxPages
      <4>1. 0 \in 0..Listings /\ 1 \in 0..Listings
        BY CallsAssumption
      <4>2. Asked(a) = t + 1 /\ Asked(q) = base + 1
        BY <2>0, <3>2, <3>6, <3>9, <4>1, AskedOn
      <4>3. base \in Nat /\ t \in Nat /\ t = base + MaxPages
        <5> DEFINE x == (q.attempt - 1) * Rounds
        <5>1. x \in Nat
          BY <2>0, CallsAssumption, Multiplied DEF Rounds
        <5>2. base \in Nat /\ t \in Nat /\ (x + 0 + 1) * MaxPages = base + MaxPages
          BY <2>0, <4>1, AskedWithin
        <5> HIDE DEF x
        <5>3. x + 0 + 1 = x + 1
          BY <5>1
        <5> QED BY <5>2, <5>3 DEF x
      <4> HIDE DEF base, t
      <4>4. Asked(a) > Asked(q)
        BY <4>2, <4>3, CallsAssumption
      <4> QED BY <3>1, <3>5, <4>4 DEF GoesOn
    <3> QED BY <3>1, <3>8, <3>9
  <2> QED
    BY <2>1, <2>2, <2>3, <2>4, <2>5, <2>6, <2>7, <2>8, <2>9
    DEF BodyArrives, HeadersTimeOut, BodyTimesOut
<1>2. CallsTypeOK /\ [CallsNext]_callVars => [Nears]_callVars
  BY <1>1
<1>3. Nears =>
        \A c \in Callers :
          calls[c] # "idle" /\ calls'[c] # "idle" /\ request'[c] # request[c] =>
            /\ Asked(request'[c]) \in Asked(request[c])..(MaxAttempts * Rounds * MaxPages)
            /\ Asked(request'[c]) = Asked(request[c]) => Follows(request[c], request'[c])
  BY DEF GoesOn, Most
<1> QED BY <1>2, <1>3, CallsTypeCorrect, PTL DEF CallsSpec, NearsItsEnd

=============================================================================
