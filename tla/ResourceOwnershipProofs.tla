----------------------- MODULE ResourceOwnershipProofs -----------------------
(***************************************************************************)
(* Proofs about ResourceOwnership for any sets of resources, teams and     *)
(* requests.  The inductive invariant adds to TypeOK and KeyOnlyAnonymous  *)
(* what a request carries after its check (a team or an edit key, never    *)
(* both) and what the stamping statement has picked (rows without an       *)
(* expiry).  Its parts are proved action by action.  The last theorems say *)
(* what holds where claims keep clear of the stamp and of changes.         *)
(***************************************************************************)
EXTENDS ResourceOwnership, TLAPS

\* A request that read a team's row carries no key.
CarriesOne == \A r \in Requests :
    request[r].kind # "claim" /\ request[r].team # NoTeam => request[r].key = NoKey

Unstamped(x) == row[x].state # "absent" /\ row[x].expiry = "none"

\* A row that is picked for its stamp has no expiry: only the sweep gives it one.
PickedUnstamped == sweep.phase = "stamp" => \A x \in sweep.picked : Unstamped(x)

IInv == TypeOK /\ KeyOnlyAnonymous /\ CarriesOne /\ PickedUnstamped

RowTypes == /\ row \in [Resources -> Rows]
            /\ \A x \in Resources : ~Exists(x) => row[x] = Blank(row[x].state)
SharedTypes == /\ shared \in [Resources -> SUBSET {"key", "team"}]
               /\ \A x \in Resources : ~Exists(x) => shared[x] = {}
RequestTypes == /\ request \in [Requests -> RequestRecords]
                /\ \A r \in Requests : request[r].kind # "idle" => request[r].target \in Resources
SweepTypes == sweep \in [phase: {"idle", "stamp", "delete", "deleting"}, due: SUBSET Resources,
                         picked: SUBSET Resources]

LEMMA TypeParts == TypeOK <=> RowTypes /\ SharedTypes /\ teams \subseteq Teams /\ RequestTypes /\ SweepTypes
  BY DEF TypeOK, RowTypes, SharedTypes, RequestTypes, SweepTypes

LEMMA InitInv == Init => IInv
  <1> SUFFICES ASSUME Init PROVE IInv
    OBVIOUS
  <1>1. RowTypes
    BY DEF Init, RowTypes, Rows, Blank, Expiries, Exists
  <1>2. SharedTypes /\ teams \subseteq Teams /\ RequestTypes /\ SweepTypes
    BY DEF Init, SharedTypes, RequestTypes, SweepTypes, RequestRecords, Idle, NoSweep
  <1>3. KeyOnlyAnonymous /\ CarriesOne /\ PickedUnstamped
    BY DEF Init, KeyOnlyAnonymous, CarriesOne, PickedUnstamped, Blank, Idle, NoSweep
  <1> QED
    BY <1>1, <1>2, <1>3, TypeParts DEF IInv

-----------------------------------------------------------------------------
(* The rows.                                                                *)

LEMMA RowsStep == ASSUME IInv, Next PROVE RowTypes'
  <1>1. RowTypes /\ RequestTypes /\ SweepTypes /\ teams \subseteq Teams
    BY TypeParts DEF IInv
  <1>2. ASSUME NEW x \in Resources, NEW t \in Teams \cup {NoTeam}, Create(x, t) PROVE RowTypes'
    BY <1>1, <1>2 DEF Create, RowTypes, Rows, Expiries, Exists, ExpiryFor, WriteKeyFor, Blank
  <1>3. ASSUME NEW x \in Resources, CreateUnstamped(x) PROVE RowTypes'
    BY <1>1, <1>3 DEF CreateUnstamped, RowTypes, Rows, Expiries, Exists, Blank
  <1>4. ASSUME NEW x \in Resources, ExpiryPasses(x) PROVE RowTypes'
    BY <1>1, <1>4 DEF ExpiryPasses, RowTypes, Rows, Expiries, Exists, Blank, Later
  <1>5. ASSUME NEW r \in Requests, FinishClaim(r) PROVE RowTypes'
    BY <1>1, <1>5 DEF FinishClaim, Claimable, Visible, RowTypes, RequestTypes, RequestRecords, Rows, Expiries, Exists, Blank
  <1>6. ASSUME NEW r \in Requests, NEW y \in Resources, FinishRefresh(r, y) PROVE RowTypes'
    BY <1>1, <1>6 DEF FinishRefresh, RowTypes, RequestTypes, RequestRecords, Rows, Expiries, Exists, ExpiryFor, Blank
  <1>7. ASSUME StampApply PROVE RowTypes'
    BY <1>1, <1>7 DEF StampApply, Stamped, RowTypes, Rows, Expiries, Exists, Blank
  <1>8. ASSUME DeleteApply PROVE RowTypes'
    BY <1>1, <1>8 DEF DeleteApply, RowTypes, Rows, Expiries, Exists, Blank
  <1>9. ASSUME NEW t \in Teams, TeamDeleted(t) PROVE RowTypes'
    BY <1>1, <1>9, ConstantsAssumption DEF TeamDeleted, RowTypes, Rows, Expiries, Exists, Blank
  <1>10. ASSUME UNCHANGED row PROVE RowTypes'
    BY <1>1, <1>10 DEF RowTypes, Exists
  <1> QED
    BY <1>2, <1>3, <1>4, <1>5, <1>6, <1>7, <1>8, <1>9, <1>10
    DEF Next, Handle, SweepStep, BeginClaim, BeginChange, Start, FinishShare, Fail, StampSelect, DeleteSelect, SweepFails

\* No step brings back a deleted row or takes one that is there, the sweep's
\* delete excepted.
LEMMA ExistenceStep ==
  ASSUME IInv, Next, NEW x \in Resources
  PROVE  (Exists(x) => Exists(x)' \/ DeleteApply) /\ (Exists(x)' => Exists(x) \/ row[x].state = "absent")
  <1>1. RowTypes /\ RequestTypes
    BY TypeParts DEF IInv
  <1>2. ASSUME NEW z \in Resources, NEW t \in Teams \cup {NoTeam}, Create(z, t)
        PROVE  (Exists(x) => Exists(x)') /\ (Exists(x)' => Exists(x) \/ row[x].state = "absent")
    BY <1>1, <1>2 DEF Create, Exists, RowTypes
  <1>3. ASSUME NEW z \in Resources, CreateUnstamped(z) \/ ExpiryPasses(z)
        PROVE  (Exists(x) => Exists(x)') /\ (Exists(x)' => Exists(x) \/ row[x].state = "absent")
    BY <1>1, <1>3 DEF CreateUnstamped, ExpiryPasses, Exists, RowTypes, Rows, Blank
  <1>4. ASSUME NEW r \in Requests, FinishClaim(r)
        PROVE  (Exists(x) => Exists(x)') /\ (Exists(x)' => Exists(x) \/ row[x].state = "absent")
    BY <1>1, <1>4 DEF FinishClaim, Claimable, Visible, Exists, RowTypes, Rows, Blank
  <1>5. ASSUME NEW r \in Requests, NEW y \in Resources, FinishRefresh(r, y)
        PROVE  (Exists(x) => Exists(x)') /\ (Exists(x)' => Exists(x) \/ row[x].state = "absent")
    BY <1>1, <1>5 DEF FinishRefresh, Exists, RowTypes
  <1>6. ASSUME StampApply
        PROVE  (Exists(x) => Exists(x)') /\ (Exists(x)' => Exists(x) \/ row[x].state = "absent")
    BY <1>1, <1>6 DEF StampApply, Exists, RowTypes, Rows
  <1>7. ASSUME DeleteApply PROVE Exists(x)' => Exists(x)
    BY <1>1, <1>7 DEF DeleteApply, Exists, RowTypes, Rows, Blank
  <1>8. ASSUME NEW t \in Teams, TeamDeleted(t)
        PROVE  (Exists(x) => Exists(x)') /\ (Exists(x)' => Exists(x) \/ row[x].state = "absent")
    BY <1>1, <1>8 DEF TeamDeleted, Exists, RowTypes, Rows
  <1>9. ASSUME UNCHANGED row PROVE (Exists(x) => Exists(x)') /\ (Exists(x)' => Exists(x))
    BY <1>9 DEF Exists
  <1> QED
    BY <1>2, <1>3, <1>4, <1>5, <1>6, <1>7, <1>8, <1>9
    DEF Next, Handle, SweepStep, BeginClaim, BeginChange, Start, FinishShare, Fail, StampSelect, DeleteSelect, SweepFails

LEMMA SharedStep == ASSUME IInv, Next PROVE SharedTypes'
  <1>1. RowTypes /\ SharedTypes /\ RequestTypes
    BY TypeParts DEF IInv
  <1>2. ASSUME NEW r \in Requests, FinishShare(r) PROVE SharedTypes'
    BY <1>1, <1>2 DEF FinishShare, SharedTypes, Exists, RequestTypes
  <1>3. ASSUME DeleteApply PROVE SharedTypes'
    BY <1>1, <1>3 DEF DeleteApply, SharedTypes, Exists, RowTypes, Rows, Blank
  <1>4. ASSUME UNCHANGED shared, ~DeleteApply PROVE SharedTypes'
    BY <1>1, <1>4, ExistenceStep DEF SharedTypes
  <1> QED
    BY <1>2, <1>3, <1>4
    DEF Next, Handle, SweepStep, Create, CreateUnstamped, ExpiryPasses, BeginClaim, BeginChange, Start, FinishClaim,
        FinishRefresh, Fail, StampSelect, StampApply, DeleteSelect, SweepFails, TeamDeleted

-----------------------------------------------------------------------------
(* Teams, requests and the sweep.                                           *)

LEMMA TeamsStep == ASSUME IInv, Next PROVE teams' \subseteq Teams
  <1>1. teams \subseteq Teams
    BY TypeParts DEF IInv
  <1>2. ASSUME NEW t \in Teams, TeamDeleted(t) PROVE teams' \subseteq Teams
    BY <1>1, <1>2 DEF TeamDeleted
  <1> QED
    BY <1>1, <1>2
    DEF Next, Handle, SweepStep, Create, CreateUnstamped, ExpiryPasses, BeginClaim, BeginChange, Start, FinishClaim,
        FinishShare, FinishRefresh, Fail, StampSelect, StampApply, DeleteSelect, DeleteApply, SweepFails

LEMMA RequestsStep == ASSUME IInv, Next PROVE RequestTypes' /\ CarriesOne'
  <1>1. RequestTypes /\ RowTypes /\ CarriesOne /\ KeyOnlyAnonymous
    BY TypeParts DEF IInv
  <1>2. ASSUME NEW r \in Requests, NEW x \in Resources, NEW t \in Teams, BeginClaim(r, x, t)
        PROVE  RequestTypes' /\ CarriesOne'
    BY <1>1, <1>2 DEF BeginClaim, Start, RequestTypes, RequestRecords, RowTypes, Rows, CarriesOne
  <1>3. ASSUME NEW r \in Requests, NEW x \in Resources, BeginChange(r, x)
        PROVE  RequestTypes' /\ CarriesOne'
    BY <1>1, <1>3 DEF BeginChange, Start, RequestTypes, RequestRecords, RowTypes, Rows, CarriesOne, KeyOnlyAnonymous
  <1>4. ASSUME NEW r \in Requests, Answer(r) PROVE RequestTypes' /\ CarriesOne'
    BY <1>1, <1>4 DEF Answer, Idle, RequestTypes, RequestRecords, CarriesOne
  <1>5. ASSUME UNCHANGED request PROVE RequestTypes' /\ CarriesOne'
    BY <1>1, <1>5 DEF RequestTypes, CarriesOne
  <1> QED
    BY <1>2, <1>3, <1>4, <1>5
    DEF Next, Handle, SweepStep, Create, CreateUnstamped, ExpiryPasses, FinishClaim, FinishShare, FinishRefresh, Fail,
        StampSelect, StampApply, DeleteSelect, DeleteApply, SweepFails, TeamDeleted

LEMMA SweepStepTypes == ASSUME IInv, Next PROVE SweepTypes'
  <1>1. SweepTypes
    BY TypeParts DEF IInv
  <1>2. ASSUME StampSelect PROVE SweepTypes'
    BY <1>2 DEF StampSelect, Limited, ToStamp, SweepTypes
  <1>3. ASSUME sweep' \in {NoSweep, [sweep EXCEPT !.phase = "delete", !.picked = {}]} PROVE SweepTypes'
    <2>1. CASE sweep' = NoSweep
      BY <2>1 DEF NoSweep, SweepTypes
    <2>2. CASE sweep' = [sweep EXCEPT !.phase = "delete", !.picked = {}]
      BY <1>1, <2>2 DEF SweepTypes
    <2> QED
      BY <1>3, <2>1, <2>2
  <1>4. ASSUME DeleteSelect PROVE SweepTypes'
    BY <1>1, <1>4 DEF DeleteSelect, Limited, Expired, SweepTypes
  <1>5. ASSUME UNCHANGED sweep PROVE SweepTypes'
    BY <1>1, <1>5 DEF SweepTypes
  <1> QED
    BY <1>2, <1>3, <1>4, <1>5
    DEF Next, Handle, SweepStep, Create, CreateUnstamped, ExpiryPasses, BeginClaim, BeginChange, Start, FinishClaim,
        FinishShare, FinishRefresh, Fail, TeamDeleted, StampApply, DeleteApply, SweepFails

-----------------------------------------------------------------------------
(* Keys, owners and picked rows.                                            *)

LEMMA KeysStep == ASSUME IInv, Next PROVE KeyOnlyAnonymous'
  <1>1. RowTypes /\ RequestTypes /\ CarriesOne /\ KeyOnlyAnonymous /\ teams \subseteq Teams
    BY TypeParts DEF IInv
  <1>2. ASSUME NEW x \in Resources, NEW t \in Teams \cup {NoTeam}, Create(x, t) PROVE KeyOnlyAnonymous'
    BY <1>1, <1>2 DEF Create, OwnerForCreate, WriteKeyFor, KeyOnlyAnonymous, RowTypes
  <1>3. ASSUME NEW x \in Resources, CreateUnstamped(x) \/ ExpiryPasses(x) PROVE KeyOnlyAnonymous'
    BY <1>1, <1>3 DEF CreateUnstamped, ExpiryPasses, KeyOnlyAnonymous, RowTypes, Rows, Blank
  <1>4. ASSUME NEW r \in Requests, FinishClaim(r) PROVE KeyOnlyAnonymous'
    BY <1>1, <1>4 DEF FinishClaim, KeyOnlyAnonymous, RowTypes, RequestTypes, Blank
  <1>5. ASSUME NEW r \in Requests, NEW y \in Resources, FinishRefresh(r, y) PROVE KeyOnlyAnonymous'
    BY <1>1, <1>5 DEF FinishRefresh, KeyOnlyAnonymous, CarriesOne, RowTypes
  <1>6. ASSUME StampApply PROVE KeyOnlyAnonymous'
    BY <1>1, <1>6 DEF StampApply, KeyOnlyAnonymous, RowTypes, Rows
  <1>7. ASSUME DeleteApply PROVE KeyOnlyAnonymous'
    BY <1>1, <1>7 DEF DeleteApply, KeyOnlyAnonymous, RowTypes, Blank
  <1>8. ASSUME NEW t \in Teams, TeamDeleted(t) PROVE KeyOnlyAnonymous'
    BY <1>1, <1>8 DEF TeamDeleted, KeyOnlyAnonymous, RowTypes, Rows
  <1>9. ASSUME UNCHANGED <<row, teams>> PROVE KeyOnlyAnonymous'
    BY <1>1, <1>9 DEF KeyOnlyAnonymous
  <1> QED
    BY <1>2, <1>3, <1>4, <1>5, <1>6, <1>7, <1>8, <1>9
    DEF Next, Handle, SweepStep, BeginClaim, BeginChange, Start, FinishShare, Fail, StampSelect, DeleteSelect, SweepFails

LEMMA PickedStep == ASSUME IInv, Next PROVE PickedUnstamped'
  <1>1. RowTypes /\ SweepTypes /\ RequestTypes /\ PickedUnstamped
    BY TypeParts DEF IInv
  <1>2. ASSUME StampSelect PROVE PickedUnstamped'
    BY <1>2 DEF StampSelect, Limited, ToStamp, Anonymous, Exists, Unstamped, PickedUnstamped
  <1>3. ASSUME sweep'.phase # "stamp" PROVE PickedUnstamped'
    BY <1>3 DEF PickedUnstamped
  <1>4. ASSUME UNCHANGED sweep, \A x \in Resources : Unstamped(x) => Unstamped(x)'
        PROVE  PickedUnstamped'
    BY <1>1, <1>4 DEF PickedUnstamped, SweepTypes
  <1>5. ASSUME NEW x \in Resources, NEW t \in Teams \cup {NoTeam}, Create(x, t) PROVE PickedUnstamped'
    BY <1>1, <1>4, <1>5 DEF Create, Unstamped, RowTypes
  <1>6. ASSUME NEW x \in Resources, CreateUnstamped(x) \/ ExpiryPasses(x) PROVE PickedUnstamped'
    BY <1>1, <1>4, <1>6 DEF CreateUnstamped, ExpiryPasses, Unstamped, RowTypes, Rows
  <1>7. ASSUME NEW r \in Requests, FinishClaim(r) PROVE PickedUnstamped'
    BY <1>1, <1>4, <1>7 DEF FinishClaim, Unstamped, RowTypes, RequestTypes, Blank
  <1>8. ASSUME NEW r \in Requests, NEW y \in Resources, FinishRefresh(r, y) PROVE PickedUnstamped'
    BY <1>1, <1>4, <1>8 DEF FinishRefresh, Unstamped, RowTypes
  <1>9. ASSUME NEW t \in Teams, TeamDeleted(t) PROVE PickedUnstamped'
    BY <1>1, <1>4, <1>9 DEF TeamDeleted, Unstamped, RowTypes, Rows
  <1>10. ASSUME UNCHANGED <<row, sweep>> PROVE PickedUnstamped'
    BY <1>1, <1>10 DEF PickedUnstamped, Unstamped
  <1>11. ASSUME StampApply \/ DeleteSelect \/ DeleteApply \/ SweepFails PROVE PickedUnstamped'
    <2>1. CASE StampApply
      BY <1>1, <1>3, <2>1 DEF StampApply, NoSweep, SweepTypes
    <2>2. CASE DeleteSelect
      BY <1>1, <1>3, <2>2 DEF DeleteSelect, SweepTypes
    <2>3. CASE DeleteApply \/ SweepFails
      BY <1>3, <2>3 DEF DeleteApply, SweepFails, NoSweep
    <2> QED
      BY <1>11, <2>1, <2>2, <2>3
  <1> QED
    BY <1>2, <1>5, <1>6, <1>7, <1>8, <1>9, <1>10, <1>11
    DEF Next, Handle, SweepStep, BeginClaim, BeginChange, Start, FinishShare, Fail

LEMMA NextInv == IInv /\ [Next]_vars => IInv'
  <1>1. ASSUME IInv, Next PROVE IInv'
    <2>1. TypeOK'
      <3>1. RowTypes' /\ SharedTypes' /\ teams' \subseteq Teams /\ RequestTypes' /\ SweepTypes'
        BY <1>1, RowsStep, SharedStep, TeamsStep, RequestsStep, SweepStepTypes
      <3> QED
        BY <3>1 DEF TypeOK, RowTypes, SharedTypes, RequestTypes, SweepTypes
    <2> QED
      BY <1>1, <2>1, KeysStep, RequestsStep, PickedStep DEF IInv
  <1>2. ASSUME IInv, UNCHANGED vars PROVE IInv'
    BY <1>2 DEF vars, IInv, TypeOK, KeyOnlyAnonymous, CarriesOne, PickedUnstamped, Unstamped, Exists
  <1> QED
    BY <1>1, <1>2

\* The inductive invariant holds in every reachable state.
THEOREM Invariance == Spec => []IInv
  BY InitInv, NextInv, PTL DEF Spec

\* Rows, links, requests and the sweep keep their types, and what is deleted
\* leaves nothing behind.
THEOREM TypeCorrect == Spec => []TypeOK
  <1>1. IInv => TypeOK
    BY DEF IInv
  <1> QED
    BY <1>1, Invariance, PTL

\* The edit key of an anonymous row never opens a row that a team owns.
THEOREM KeyOnlyAnonymousHolds == Spec => []KeyOnlyAnonymous
  <1>1. IInv => KeyOnlyAnonymous
    BY DEF IInv
  <1> QED
    BY <1>1, Invariance, PTL

-----------------------------------------------------------------------------
(* Steps.                                                                   *)

\* A claimed row stays its team's, whichever claims were checked before.
THEOREM ClaimedStaysHolds == Spec => ClaimedStays
  <1> DEFINE Keeps(x) == row[x].team \in teams' /\ row'[x].state = "live" => row'[x].team = row[x].team
  <1>1. ASSUME IInv, Next, NEW x \in Resources PROVE Keeps(x)
    <2>1. RowTypes /\ RequestTypes /\ KeyOnlyAnonymous /\ teams \subseteq Teams
      BY <1>1, TypeParts DEF IInv
    <2>2. NoTeam \notin teams'
      BY <1>1, TeamsStep, ConstantsAssumption
    <2>3. ASSUME NEW z \in Resources, NEW t \in Teams \cup {NoTeam}, Create(z, t) PROVE Keeps(x)
      BY <2>1, <2>2, <2>3 DEF Create, RowTypes, Exists, Blank
    <2>4. ASSUME NEW z \in Resources, CreateUnstamped(z) \/ ExpiryPasses(z) PROVE Keeps(x)
      BY <2>1, <2>2, <2>4 DEF CreateUnstamped, ExpiryPasses, RowTypes, Rows, Exists, Blank
    <2>5. ASSUME NEW r \in Requests, FinishClaim(r) PROVE Keeps(x)
      BY <2>1, <2>2, <2>5 DEF FinishClaim, Claimable, RowTypes, RequestTypes
    <2>6. ASSUME NEW r \in Requests, NEW y \in Resources, FinishRefresh(r, y) PROVE Keeps(x)
      BY <2>1, <2>2, <2>6 DEF FinishRefresh, RowTypes, Exists, Blank
    <2>7. ASSUME StampApply PROVE Keeps(x)
      BY <2>1, <2>7 DEF StampApply, RowTypes, Rows
    <2>8. ASSUME DeleteApply PROVE Keeps(x)
      BY <2>1, <2>8 DEF DeleteApply, RowTypes, Blank
    <2>9. ASSUME NEW t \in Teams, TeamDeleted(t) PROVE Keeps(x)
      BY <2>1, <2>9 DEF TeamDeleted, RowTypes, Rows
    <2>10. ASSUME UNCHANGED row PROVE Keeps(x)
      BY <2>10
    <2> QED
      BY <1>1, <2>3, <2>4, <2>5, <2>6, <2>7, <2>8, <2>9, <2>10
      DEF Next, Handle, SweepStep, BeginClaim, BeginChange, Start, FinishShare, Fail, StampSelect, DeleteSelect, SweepFails
  <1>2. IInv /\ [Next]_vars => [\A x \in Resources : Keeps(x)]_vars
    BY <1>1
  <1> QED
    BY <1>2, Invariance, PTL DEF Spec, ClaimedStays

\* An anonymous row that reads as missing is never served again.
THEOREM NotRevivedHolds == Spec => NotRevived
  <1> DEFINE StaysPast(x) == Anonymous(x) /\ row[x].expiry = "past"
                                => row'[x].expiry = "past" \/ row'[x].state = "gone"
  <1>1. ASSUME IInv, Next, NEW x \in Resources PROVE StaysPast(x)
    <2>1. RowTypes /\ RequestTypes /\ SweepTypes /\ PickedUnstamped
      BY <1>1, TypeParts DEF IInv
    <2>2. ASSUME NEW z \in Resources, NEW t \in Teams \cup {NoTeam}, Create(z, t) PROVE StaysPast(x)
      BY <2>1, <2>2 DEF Create, RowTypes, Anonymous, Exists
    <2>3. ASSUME NEW z \in Resources, CreateUnstamped(z) \/ ExpiryPasses(z) PROVE StaysPast(x)
      BY <2>1, <2>3 DEF CreateUnstamped, ExpiryPasses, RowTypes, Rows, Anonymous, Exists
    <2>4. ASSUME NEW r \in Requests, FinishClaim(r) PROVE StaysPast(x)
      BY <2>1, <2>4 DEF FinishClaim, Claimable, Visible, RowTypes, RequestTypes
    <2>5. ASSUME NEW r \in Requests, NEW y \in Resources, FinishRefresh(r, y) PROVE StaysPast(x)
      BY <2>1, <2>5 DEF FinishRefresh, RowTypes, Anonymous, Exists
    <2>6. ASSUME StampApply PROVE StaysPast(x)
      BY <2>1, <2>6 DEF StampApply, Stamped, PickedUnstamped, Unstamped, RowTypes, SweepTypes
    <2>7. ASSUME DeleteApply PROVE StaysPast(x)
      BY <2>1, <2>7 DEF DeleteApply, RowTypes, Blank
    <2>8. ASSUME NEW t \in Teams, TeamDeleted(t) PROVE StaysPast(x)
      BY <2>1, <2>8 DEF TeamDeleted, RowTypes, Rows
    <2>9. ASSUME UNCHANGED row PROVE StaysPast(x)
      BY <2>9
    <2> QED
      BY <1>1, <2>2, <2>3, <2>4, <2>5, <2>6, <2>7, <2>8, <2>9
      DEF Next, Handle, SweepStep, BeginClaim, BeginChange, Start, FinishShare, Fail, StampSelect, DeleteSelect, SweepFails
  <1>2. IInv /\ [Next]_vars => [\A x \in Resources : StaysPast(x)]_vars
    BY <1>1
  <1> QED
    BY <1>2, Invariance, PTL DEF Spec, NotRevived

\* No step deletes a row that a team owns.
THEOREM SweepSparesTeamsHolds == Spec => SweepSparesTeams
  <1> DEFINE Spared(x) == Exists(x) /\ row[x].team # NoTeam => row'[x].state = "live"
  <1>1. ASSUME IInv, Next, NEW x \in Resources PROVE Spared(x)
    <2>1. CASE DeleteApply
      BY <1>1, <2>1, TypeParts DEF IInv, DeleteApply, Untouched, Anonymous, Exists, RowTypes
    <2>2. CASE ~DeleteApply
      BY <1>1, <2>2, ExistenceStep DEF Exists
    <2> QED
      BY <2>1, <2>2
  <1>2. IInv /\ [Next]_vars => [\A x \in Resources : Spared(x)]_vars
    BY <1>1
  <1> QED
    BY <1>2, Invariance, PTL DEF Spec, SweepSparesTeams

-----------------------------------------------------------------------------
(* Claims that stay clear of stamps and changes.                            *)

PickedAnonymous == sweep.phase = "stamp" => \A x \in sweep.picked : row[x].team = NoTeam

NeverInv == TeamDataNeverExpires /\ PickedAnonymous

LEMMA NeverExpiresStep == ASSUME IInv, NeverInv, Next PROVE TeamDataNeverExpires'
  <1>1. RowTypes /\ RequestTypes /\ SweepTypes /\ TeamDataNeverExpires
    BY TypeParts DEF IInv, NeverInv
  <1>2. ASSUME NEW x \in Resources, NEW t \in Teams \cup {NoTeam}, Create(x, t) PROVE TeamDataNeverExpires'
    BY <1>1, <1>2 DEF Create, ExpiryFor, TeamDataNeverExpires, RowTypes
  <1>3. ASSUME NEW x \in Resources, CreateUnstamped(x) \/ ExpiryPasses(x) PROVE TeamDataNeverExpires'
    BY <1>1, <1>3 DEF CreateUnstamped, ExpiryPasses, TeamDataNeverExpires, RowTypes, Rows, Blank
  <1>4. ASSUME NEW r \in Requests, FinishClaim(r) PROVE TeamDataNeverExpires'
    BY <1>1, <1>4 DEF FinishClaim, TeamDataNeverExpires, RowTypes, RequestTypes, Blank
  <1>5. ASSUME NEW r \in Requests, NEW y \in Resources, FinishRefresh(r, y) PROVE TeamDataNeverExpires'
    BY <1>1, <1>5 DEF FinishRefresh, ExpiryFor, TeamDataNeverExpires, RowTypes
  <1>6. ASSUME StampApply PROVE TeamDataNeverExpires'
    BY <1>1, <1>6 DEF StampApply, Stamped, TeamDataNeverExpires, RowTypes, Rows, NeverInv, PickedAnonymous
  <1>7. ASSUME DeleteApply PROVE TeamDataNeverExpires'
    BY <1>1, <1>7 DEF DeleteApply, TeamDataNeverExpires, RowTypes, Blank
  <1>8. ASSUME NEW t \in Teams, TeamDeleted(t) PROVE TeamDataNeverExpires'
    BY <1>1, <1>8 DEF TeamDeleted, TeamDataNeverExpires, RowTypes, Rows
  <1>9. ASSUME UNCHANGED row PROVE TeamDataNeverExpires'
    BY <1>1, <1>9 DEF TeamDataNeverExpires
  <1> QED
    BY <1>2, <1>3, <1>4, <1>5, <1>6, <1>7, <1>8, <1>9
    DEF Next, Handle, SweepStep, BeginClaim, BeginChange, Start, FinishShare, Fail, StampSelect, DeleteSelect, SweepFails

\* What a step does to a row that has been created: it stays, moves into a team,
\* loses the team that is deleted, or is deleted.
Kept(x) == row'[x].team = row[x].team /\ row'[x].key = row[x].key

LEMMA RowMoves ==
  ASSUME IInv, Next, NEW x \in Resources, row[x].state # "absent"
  PROVE  /\ row'[x].state # "absent"
         /\ Kept(x) \/ MovesToTeam(x) \/ (row[x].team \notin teams' \cup {NoTeam} /\ row'[x].team = NoTeam)
              \/ row'[x] = Blank("gone")
  <1> DEFINE Moved == /\ row'[x].state # "absent"
                      /\ \/ Kept(x) \/ MovesToTeam(x)
                         \/ row[x].team \notin teams' \cup {NoTeam} /\ row'[x].team = NoTeam
                         \/ row'[x] = Blank("gone")
  <1>1. RowTypes /\ RequestTypes /\ teams \subseteq Teams
    BY TypeParts DEF IInv
  <1>2. ASSUME NEW z \in Resources, NEW t \in Teams \cup {NoTeam}, Create(z, t) PROVE Moved
    BY <1>1, <1>2 DEF Create, RowTypes, Kept
  <1>3. ASSUME NEW z \in Resources, CreateUnstamped(z) \/ ExpiryPasses(z) PROVE Moved
    BY <1>1, <1>3 DEF CreateUnstamped, ExpiryPasses, RowTypes, Rows, Kept
  <1>4. ASSUME NEW r \in Requests, FinishClaim(r) PROVE Moved
    BY <1>1, <1>4, ConstantsAssumption
    DEF FinishClaim, Claimable, Visible, MovesToTeam, RowTypes, RequestTypes, Blank, Kept
  <1>5. ASSUME NEW r \in Requests, NEW y \in Resources, FinishRefresh(r, y) PROVE Moved
    BY <1>1, <1>5 DEF FinishRefresh, RowTypes, Kept
  <1>6. ASSUME StampApply PROVE Moved
    BY <1>1, <1>6 DEF StampApply, RowTypes, Rows, Kept
  <1>7. ASSUME DeleteApply PROVE Moved
    BY <1>1, <1>7 DEF DeleteApply, RowTypes, Blank, Kept
  <1>8. ASSUME NEW t \in Teams, TeamDeleted(t) PROVE Moved
    BY <1>1, <1>8, ConstantsAssumption DEF TeamDeleted, RowTypes, Rows, Kept
  <1>9. ASSUME UNCHANGED row PROVE Moved
    BY <1>9 DEF Kept
  <1> QED
    BY <1>2, <1>3, <1>4, <1>5, <1>6, <1>7, <1>8, <1>9
    DEF Next, Handle, SweepStep, BeginClaim, BeginChange, Start, FinishShare, Fail, StampSelect, DeleteSelect, SweepFails

LEMMA PickedAnonymousStep == ASSUME IInv, NeverInv, Next, ClaimsSpareStamps PROVE PickedAnonymous'
  <1>1. SweepTypes /\ PickedUnstamped /\ PickedAnonymous /\ RowTypes
    BY TypeParts DEF IInv, NeverInv
  <1>2. ASSUME StampSelect PROVE PickedAnonymous'
    BY <1>2 DEF StampSelect, Limited, ToStamp, Anonymous, PickedAnonymous
  <1>3. ASSUME UNCHANGED sweep PROVE PickedAnonymous'
    <2> SUFFICES ASSUME sweep.phase = "stamp", NEW x \in sweep.picked PROVE row'[x].team = NoTeam
      BY <1>3 DEF PickedAnonymous
    <2>1. x \in Resources /\ row[x].state # "absent" /\ row[x].team = NoTeam
      BY <1>1 DEF SweepTypes, PickedUnstamped, Unstamped, PickedAnonymous
    <2>2. ~MovesToTeam(x)
      BY <2>1 DEF ClaimsSpareStamps
    <2> QED
      BY <2>1, <2>2, RowMoves DEF Kept, Blank
  <1>4. ASSUME StampApply \/ DeleteSelect \/ DeleteApply \/ SweepFails PROVE PickedAnonymous'
    <2>1. sweep'.phase # "stamp"
      <3>1. CASE StampApply
        BY <1>1, <3>1 DEF StampApply, NoSweep, SweepTypes
      <3>2. CASE DeleteSelect
        BY <1>1, <3>2 DEF DeleteSelect, SweepTypes
      <3>3. CASE DeleteApply \/ SweepFails
        BY <3>3 DEF DeleteApply, SweepFails, NoSweep
      <3> QED
        BY <1>4, <3>1, <3>2, <3>3
    <2> QED
      BY <2>1 DEF PickedAnonymous
  <1> QED
    BY <1>2, <1>3, <1>4
    DEF Next, Handle, SweepStep, Create, CreateUnstamped, ExpiryPasses, BeginClaim, BeginChange, Start, FinishClaim,
        FinishShare, FinishRefresh, Fail, TeamDeleted

(* Team data never gets an expiry, if no claim falls between the two halves *)
(* of the statement that stamps.                                            *)
THEOREM TeamDataNeverExpiresApart ==
  Spec /\ [][ClaimsSpareStamps]_vars => []TeamDataNeverExpires
  <1>1. Init => NeverInv
    BY DEF Init, Blank, NoSweep, NeverInv, TeamDataNeverExpires, PickedAnonymous
  <1>2. IInv /\ NeverInv /\ [Next]_vars /\ [ClaimsSpareStamps]_vars => NeverInv'
    <2>1. ASSUME IInv, NeverInv, Next, [ClaimsSpareStamps]_vars PROVE NeverInv'
      <3>1. CASE ClaimsSpareStamps
        BY <2>1, <3>1, NeverExpiresStep, PickedAnonymousStep DEF NeverInv
      <3>2. CASE UNCHANGED vars
        BY <2>1, <3>2 DEF vars, NeverInv, TeamDataNeverExpires, PickedAnonymous
      <3> QED
        BY <2>1, <3>1, <3>2
    <2>2. ASSUME NeverInv, UNCHANGED vars PROVE NeverInv'
      BY <2>2 DEF vars, NeverInv, TeamDataNeverExpires, PickedAnonymous
    <2> QED
      BY <2>1, <2>2
  <1>3. NeverInv => TeamDataNeverExpires
    BY DEF NeverInv
  <1> QED
    BY <1>1, <1>2, <1>3, Invariance, PTL DEF Spec

Changing(r) == request[r].kind \in {"share", "refresh"}

\* What a change has checked is still so when it writes, or the team is gone.
CheckedStill ==
  \A r \in Requests : Changing(r) =>
    LET original == row[request[r].target] IN
    /\ original.state # "absent"
    /\ original.state = "live" =>
         \/ original.team = request[r].team /\ original.key = request[r].key
         \/ request[r].team \notin teams \cup {NoTeam}

LEMMA CheckedStep == ASSUME IInv, CheckedStill, Next, ClaimsAwaitChanges PROVE CheckedStill'
  <1>1. RowTypes /\ RequestTypes /\ teams \subseteq Teams /\ KeyOnlyAnonymous
    BY TypeParts DEF IInv
  <1>2. teams' \subseteq teams
    BY DEF Next, Handle, SweepStep, Create, CreateUnstamped, ExpiryPasses, BeginClaim, BeginChange, Start, FinishClaim,
           FinishShare, FinishRefresh, Fail, StampSelect, StampApply, DeleteSelect, DeleteApply, SweepFails, TeamDeleted
  <1> SUFFICES ASSUME NEW r \in Requests, Changing(r)'
               PROVE  LET original == row'[request'[r].target] IN
                      /\ original.state # "absent"
                      /\ original.state = "live" =>
                           \/ original.team = request'[r].team /\ original.key = request'[r].key
                           \/ request'[r].team \notin teams' \cup {NoTeam}
    BY DEF CheckedStill
  <1>3. CASE request'[r] = request[r]
    <2> DEFINE x == request[r].target
    <2>1. Changing(r) /\ x \in Resources /\ row[x].state # "absent"
      BY <1>1, <1>3 DEF Changing, RequestTypes, CheckedStill
    <2>2. ~MovesToTeam(x)
      BY <2>1 DEF ClaimsAwaitChanges, Changing
    <2>3. /\ row'[x].state # "absent"
          /\ \/ Kept(x) \/ row'[x] = Blank("gone")
             \/ row[x].team \notin teams' \cup {NoTeam} /\ row'[x].team = NoTeam
      BY <2>1, <2>2, RowMoves
    <2>4. row'[x].state = "live" => row[x].state = "live"
      BY <2>1, ExistenceStep DEF Exists
    <2>5. row[x].state = "live" =>
            \/ row[x].team = request[r].team /\ row[x].key = request[r].key
            \/ request[r].team \notin teams \cup {NoTeam}
      BY <2>1 DEF CheckedStill
    <2>6. row'[x].state = "live" => row'[x] # Blank("gone")
      BY DEF Blank
    <2> QED
      BY <1>2, <1>3, <2>3, <2>4, <2>5, <2>6 DEF Kept
  <1>4. CASE request'[r] # request[r]
    <2>1. PICK q \in Requests, x \in Resources : BeginChange(q, x)
      <3>1. ASSUME NEW q \in Requests, Answer(q) PROVE FALSE
        BY <1>1, <1>4, <3>1 DEF Answer, RequestTypes, Changing, Idle
      <3>2. ASSUME NEW q \in Requests, NEW x \in Resources, NEW t \in Teams, BeginClaim(q, x, t) PROVE FALSE
        BY <1>1, <1>4, <3>2 DEF BeginClaim, Start, RequestTypes, Changing
      <3>3. ASSUME UNCHANGED request PROVE FALSE
        BY <1>4, <3>3
      <3> QED
        BY <3>1, <3>2, <3>3
        DEF Next, Handle, SweepStep, Create, CreateUnstamped, ExpiryPasses, FinishClaim, FinishShare, FinishRefresh, Fail,
            StampSelect, StampApply, DeleteSelect, DeleteApply, SweepFails, TeamDeleted
    <2>2. /\ request'[r].target = x /\ request'[r].team = row[x].team /\ request'[r].key = row[x].key
          /\ row[x].state = "live" /\ row' = row
      BY <1>1, <1>4, <2>1 DEF BeginChange, Start, RequestTypes, Visible, Exists
    <2> QED
      BY <2>2
  <1> QED
    BY <1>3, <1>4

LEMMA RefreshStep ==
  ASSUME IInv, CheckedStill, Next, NEW r \in Requests, NEW y \in Resources,
         request[r].kind = "refresh", request'[r] = Idle,
         row[y].state = "absent", row'[y].state = "live", Exists(request[r].target)
  PROVE  row'[y].team = row[request[r].target].team /\ row'[y].key = row[request[r].target].key
  <1>1. RowTypes /\ RequestTypes
    BY TypeParts DEF IInv
  <1>2. ~UNCHANGED request /\ ~UNCHANGED row
    BY DEF Idle
  <1>3. ASSUME NEW q \in Requests, FinishClaim(q) PROVE FALSE
    BY <1>1, <1>3 DEF FinishClaim, Claimable, Visible, Exists, RowTypes, RequestTypes
  <1>4. PICK q \in Requests, z \in Resources : FinishRefresh(q, z)
    BY <1>2, <1>3
    DEF Next, Handle, SweepStep, Create, CreateUnstamped, ExpiryPasses, BeginClaim, BeginChange, Start, FinishShare,
        Fail, StampSelect, StampApply, DeleteSelect, DeleteApply, SweepFails, TeamDeleted
  <1>5. q = r /\ z = y
    BY <1>1, <1>4 DEF FinishRefresh, Answer, RequestTypes, RowTypes, Idle
  <1>6. /\ row'[y].team = request[r].team /\ row'[y].key = request[r].key
        /\ request[r].team \in teams \cup {NoTeam}
    BY <1>1, <1>4, <1>5 DEF FinishRefresh, RowTypes
  <1> QED
    BY <1>6 DEF CheckedStill, Changing, Exists

LEMMA ShareStep ==
  ASSUME IInv, CheckedStill, Next, NEW x \in Resources, "key" \in shared'[x], "key" \notin shared[x]
  PROVE  row[x].team = NoTeam
  <1>1. SharedTypes /\ RequestTypes
    BY TypeParts DEF IInv
  <1>2. ~DeleteApply /\ ~UNCHANGED shared
    BY <1>1 DEF DeleteApply, SharedTypes
  <1>3. PICK r \in Requests : FinishShare(r)
    BY <1>2
    DEF Next, Handle, SweepStep, Create, CreateUnstamped, ExpiryPasses, BeginClaim, BeginChange, Start, FinishClaim,
        FinishRefresh, Fail, StampSelect, StampApply, DeleteSelect, SweepFails, TeamDeleted
  <1>4. request[r].kind = "share" /\ request[r].target = x /\ request[r].team = NoTeam /\ Exists(x)
    BY <1>1, <1>3 DEF FinishShare, SharedTypes, RequestTypes
  <1> QED
    BY <1>4 DEF CheckedStill, Changing, Exists

(* If no claim falls between the check of a change and its write, a refresh *)
(* has the owner and the key of its original, and no link or budget is      *)
(* added to a team's workload with the edit key of before.                  *)
THEOREM ChangesGovernedApart ==
  Spec /\ [][ClaimsAwaitChanges]_vars => RefreshKeepsOwner /\ TeamRolesGovernChanges
  <1> DEFINE Refreshes ==
        \A r \in Requests, y \in Resources :
          /\ request[r].kind = "refresh" /\ request'[r] = Idle
          /\ row[y].state = "absent" /\ row'[y].state = "live" /\ Exists(request[r].target)
          => LET original == row[request[r].target] IN
             row'[y].team = original.team /\ row'[y].key = original.key
             Shares ==
        \A x \in Resources : row[x].team # NoTeam /\ "key" \in shared'[x] => "key" \in shared[x]
  <1>1. Init => CheckedStill
    BY DEF Init, Idle, Changing, CheckedStill
  <1>2. IInv /\ CheckedStill /\ [Next]_vars /\ [ClaimsAwaitChanges]_vars => CheckedStill'
    <2>1. ASSUME CheckedStill, UNCHANGED vars PROVE CheckedStill'
      BY <2>1 DEF vars, CheckedStill, Changing
    <2> QED
      BY <2>1, CheckedStep
  <1>3. IInv /\ CheckedStill /\ [Next]_vars => [Refreshes]_vars /\ [Shares]_vars
    BY RefreshStep, ShareStep
  <1> QED
    BY <1>1, <1>2, <1>3, Invariance, PTL DEF Spec, RefreshKeepsOwner, TeamRolesGovernChanges
=============================================================================
