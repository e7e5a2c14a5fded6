------------------------- MODULE ResourceOwnership -------------------------
(***************************************************************************)
(* Who owns a comparison or a workload, and until when: anonymous data     *)
(* with an edit key and an expiry, the claim that moves it into a team,    *)
(* the requests that change it or refresh it after an access check, and    *)
(* the retention sweep that stamps and deletes.                            *)
(*                                                                         *)
(* api/resource-access.service.ts decides, api-database.repository.ts      *)
(* reads and writes.  A request reads the owner in one statement and       *)
(* writes in a later one.  Each of the two sweep statements reads the rows *)
(* it selects from its snapshot and writes them afterwards, as a READ      *)
(* COMMITTED statement does: other requests commit in between.             *)
(***************************************************************************)
EXTENDS FiniteSetsExt, TLC

CONSTANTS Resources, \* the ids rows may take; an id is used once
          Comparisons, \* those that are comparisons, the rest are workloads
          Teams,
          Requests,  \* the requests the API handles at a time
          NoTeam, NoKey, None,
          SweepLimit, \* maxRowsPerTable
          DeleteExpired \* DATA_RETENTION_ENFORCEMENT_MODE is delete-expired

ASSUME ConstantsAssumption ==
    /\ IsFiniteSet(Resources) /\ Comparisons \subseteq Resources
    /\ NoTeam \notin Teams /\ NoKey \notin Resources /\ None \notin Resources
    /\ SweepLimit \in Nat \ {0} /\ DeleteExpired \in BOOLEAN

VARIABLES row,     \* the rows of comparisons and workloads
          shared,  \* what the share links and budgets of a workload were created with
          teams,   \* the teams that exist
          request, \* the requests between their check and their write
          sweep    \* the sweep, within a statement of pruneExpiredData or between two

vars == <<row, shared, teams, request, sweep>>

-----------------------------------------------------------------------------
(* An edit key is named by the id of the row it was issued for.  "closing"  *)
(* is past on the clock of the sweep (input.now) and not yet in a request's *)
(* now(), which the database takes when the statement starts.               *)
Expiries == {"none", "future", "closing", "past"}
Rows == [state: {"absent", "live", "gone"}, team: Teams \cup {NoTeam},
         key: Resources \cup {NoKey}, expiry: Expiries]

Blank(s) == [state |-> s, team |-> NoTeam, key |-> NoKey, expiry |-> "none"]

Exists(x) == row[x].state = "live"
Anonymous(x) == Exists(x) /\ row[x].team = NoTeam

\* What getResourceOwner and claimResource see: not past its expiry.
Visible(x) == Exists(x) /\ row[x].expiry # "past"

Idle == [kind |-> "idle", target |-> None, team |-> NoTeam, key |-> NoKey]
RequestRecords == [kind: {"idle", "claim", "share", "refresh"}, target: Resources \cup {None},
                   team: Teams \cup {NoTeam}, key: Resources \cup {NoKey}]

NoSweep == [phase |-> "idle", due |-> {}, picked |-> {}]

Init == /\ row = [x \in Resources |-> Blank("absent")]
        /\ shared = [x \in Resources |-> {}]
        /\ teams = Teams
        /\ request = [r \in Requests |-> Idle]
        /\ sweep = NoSweep

-----------------------------------------------------------------------------
(* Creating.                                                                *)

\* anonymousExpiry: team-owned data has none.
ExpiryFor(t) == IF t = NoTeam THEN "future" ELSE "none"

\* A fresh edit key for an anonymous row, none for a team's.
WriteKeyFor(x, t) == IF t = NoTeam THEN x ELSE NoKey

\* The caller's active team if they may write in it, otherwise anonymous.
OwnerForCreate == teams \cup {NoTeam}

Create(x, t) ==
    /\ row[x].state = "absent" /\ t \in OwnerForCreate
    /\ row' = [row EXCEPT ![x] = [state |-> "live", team |-> t, key |-> WriteKeyFor(x, t),
                                  expiry |-> ExpiryFor(t)]]
    /\ UNCHANGED <<shared, teams, request, sweep>>

\* A row from before migration 045, or from a pod that still runs older code.
CreateUnstamped(x) ==
    /\ row[x].state = "absent"
    /\ \E k \in {x, NoKey} : row' = [row EXCEPT ![x] = [Blank("live") EXCEPT !.key = k]]
    /\ UNCHANGED <<shared, teams, request, sweep>>

-----------------------------------------------------------------------------
(* Requests: assert or claim checks, the repository writes.                 *)

Start(r, kind, x, t, k) ==
    /\ request[r] = Idle
    /\ request' = [request EXCEPT ![r] = [kind |-> kind, target |-> x, team |-> t, key |-> k]]
    /\ UNCHANGED <<row, shared, teams, sweep>>

\* claim: the row is anonymous and the caller, who may write in t, holds its key.
BeginClaim(r, x, t) ==
    /\ Visible(x) /\ row[x].team = NoTeam /\ row[x].key # NoKey /\ t \in teams
    /\ Start(r, "claim", x, t, row[x].key)

\* assert(..., 'write'): the edit key of an anonymous row, a role in the team of
\* another.  The owner it returns goes with the request.
BeginChange(r, x) ==
    /\ Visible(x) /\ (row[x].team = NoTeam => row[x].key # NoKey)
    /\ Start(r, IF x \in Comparisons THEN "refresh" ELSE "share", x, row[x].team, row[x].key)

Answer(r) == request' = [request EXCEPT ![r] = Idle]

\* Faults: the update without one of its two conditions.
ClaimableTwice(x) == Visible(x)

ClaimableExpired(x) == Anonymous(x)

Claimable(x) == Visible(x) /\ row[x].team = NoTeam

\* Fault: the edit key survives the claim.
FinishClaimKeepingKey(r) ==
    LET q == request[r] IN
    /\ q.kind = "claim"
    /\ row' = IF Claimable(q.target) /\ q.team \in teams
              THEN [row EXCEPT ![q.target].team = q.team, ![q.target].expiry = "none"] ELSE row
    /\ Answer(r)
    /\ UNCHANGED <<shared, teams, sweep>>

\* claimResource.  A team that is gone meanwhile breaks the foreign key.
FinishClaim(r) ==
    LET q == request[r] IN
    /\ q.kind = "claim"
    /\ row' = IF Claimable(q.target) /\ q.team \in teams
              THEN [row EXCEPT ![q.target] = [Blank("live") EXCEPT !.team = q.team]]
              ELSE row
    /\ Answer(r)
    /\ UNCHANGED <<shared, teams, sweep>>

\* createShareLink, createBudget: an insert that refers to the workload.
FinishShare(r) ==
    LET q == request[r] IN
    /\ q.kind = "share"
    /\ shared' = IF Exists(q.target)
                 THEN [shared EXCEPT ![q.target] = @ \cup {IF q.team = NoTeam THEN "key" ELSE "team"}]
                 ELSE shared
    /\ Answer(r)
    /\ UNCHANGED <<row, teams, sweep>>

\* refreshLiveComparison: prices are fetched, then a new comparison is saved
\* with the owner that the check returned.
FinishRefresh(r, y) ==
    LET q == request[r] IN
    /\ q.kind = "refresh" /\ y \in Comparisons /\ row[y].state = "absent"
    /\ q.team \in teams \cup {NoTeam}
    /\ row' = [row EXCEPT ![y] = [state |-> "live", team |-> q.team, key |-> q.key,
                                  expiry |-> ExpiryFor(q.team)]]
    /\ Answer(r)
    /\ UNCHANGED <<shared, teams, sweep>>

\* The original is gone or has expired when it is read again, the team is gone,
\* or the request breaks: no write.
Fail(r) ==
    /\ request[r] # Idle /\ Answer(r)
    /\ UNCHANGED <<row, shared, teams, sweep>>

-----------------------------------------------------------------------------
(* The retention sweep, one at a time.                                      *)

\* LIMIT takes any rows of those that match, and all of them if they fit.
Limited(S) == {P \in SUBSET S : Cardinality(P) = (IF Cardinality(S) <= SweepLimit
                                                  THEN Cardinality(S) ELSE SweepLimit)}

\* Fault: rows from before edit keys are forgotten.
ToStampKeyed == {x \in Resources : Anonymous(x) /\ row[x].expiry = "none" /\ row[x].key # NoKey}

ToStamp == {x \in Resources : Anonymous(x) /\ row[x].expiry = "none"}

StampSelect ==
    /\ sweep.phase = "idle"
    /\ \E P \in Limited(ToStamp) :
          sweep' = [phase |-> "stamp", picked |-> P,
                    due |-> {x \in Resources : Exists(x) /\ row[x].expiry \in {"closing", "past"}}]
    /\ UNCHANGED <<row, shared, teams, request>>

\* The update joins on the id alone, so a row that changed since is stamped too.
Stamped(P) == {x \in P : Exists(x)}

StampApply ==
    /\ sweep.phase = "stamp"
    /\ row' = [x \in Resources |-> IF x \in Stamped(sweep.picked)
                                   THEN [row[x] EXCEPT !.expiry = "future"] ELSE row[x]]
    /\ sweep' = IF DeleteExpired THEN [sweep EXCEPT !.phase = "delete", !.picked = {}] ELSE NoSweep
    /\ UNCHANGED <<shared, teams, request>>

Expired == {x \in sweep.due : Anonymous(x) /\ row[x].expiry \in {"closing", "past"}}

DeleteSelect ==
    /\ sweep.phase = "delete"
    /\ \E P \in Limited(Expired) : sweep' = [sweep EXCEPT !.phase = "deleting", !.picked = P]
    /\ UNCHANGED <<row, shared, teams, request>>

\* Fault: the delete joins on the id.
UntouchedById(P) == {x \in P : Exists(x)}

\* The delete joins on the ctid: a row rewritten since has another one.  No
\* rewrite leaves an anonymous row with the expiry that made it match.
Untouched(P) == {x \in P : Anonymous(x) /\ row[x].expiry \in {"closing", "past"}}

\* Budgets, alerts and share links go with their workload.
DeleteApply ==
    /\ sweep.phase = "deleting"
    /\ row' = [x \in Resources |-> IF x \in Untouched(sweep.picked) THEN Blank("gone") ELSE row[x]]
    /\ shared' = [x \in Resources |-> IF x \in Untouched(sweep.picked) THEN {} ELSE shared[x]]
    /\ sweep' = NoSweep
    /\ UNCHANGED <<teams, request>>

\* A statement fails or the worker dies: the statement rolls back.
SweepFails ==
    /\ sweep.phase # "idle" /\ sweep' = NoSweep
    /\ UNCHANGED <<row, shared, teams, request>>

-----------------------------------------------------------------------------
(* The environment.                                                         *)

Later(e) == CASE e = "future" -> "closing" [] e = "closing" -> "past" [] OTHER -> e

ExpiryPasses(x) ==
    /\ Exists(x) /\ row[x].expiry \in {"future", "closing"}
    /\ row' = [row EXCEPT ![x].expiry = Later(@)]
    /\ UNCHANGED <<shared, teams, request, sweep>>

\* An operator deletes a team: ON DELETE SET NULL leaves its rows anonymous.
TeamDeleted(t) ==
    /\ t \in teams /\ teams' = teams \ {t}
    /\ row' = [x \in Resources |-> IF row[x].team = t THEN [row[x] EXCEPT !.team = NoTeam] ELSE row[x]]
    /\ UNCHANGED <<shared, request, sweep>>

-----------------------------------------------------------------------------
Handle(r) ==
    \/ \E x \in Resources, t \in Teams : BeginClaim(r, x, t)
    \/ \E x \in Resources : BeginChange(r, x)
    \/ FinishClaim(r)
    \/ FinishShare(r)
    \/ \E y \in Resources : FinishRefresh(r, y)
    \/ Fail(r)

SweepStep == StampSelect \/ StampApply \/ DeleteSelect \/ DeleteApply

Next == \/ \E x \in Resources, t \in Teams \cup {NoTeam} : Create(x, t)
        \/ \E x \in Resources : CreateUnstamped(x) \/ ExpiryPasses(x)
        \/ \E r \in Requests : Handle(r)
        \/ SweepStep
        \/ SweepFails
        \/ \E t \in Teams : TeamDeleted(t)

Spec == Init /\ [][Next]_vars

\* Time passes, the job is scheduled again and again, and not every one of its
\* runs dies half way.
FairSpec == /\ Spec
            /\ \A x \in Resources : WF_vars(ExpiryPasses(x))
            /\ WF_vars(StampSelect) /\ SF_vars(StampApply)
            /\ SF_vars(DeleteSelect) /\ SF_vars(DeleteApply)

-----------------------------------------------------------------------------
(* Types: a row that does not exist has no links left over, which is what   *)
(* the cascades are for; a failed or finished request keeps nothing.        *)
TypeOK ==
    /\ row \in [Resources -> Rows]
    /\ shared \in [Resources -> SUBSET {"key", "team"}]
    /\ \A x \in Resources : ~Exists(x) => row[x] = Blank(row[x].state) /\ shared[x] = {}
    /\ teams \subseteq Teams
    /\ request \in [Requests -> RequestRecords]
    /\ \A r \in Requests : request[r].kind # "idle" => request[r].target \in Resources
    /\ sweep \in [phase: {"idle", "stamp", "delete", "deleting"}, due: SUBSET Resources,
                  picked: SUBSET Resources]

(* A row of a team that exists has no edit key and is exactly that team's:  *)
(* a key that was handed out before the claim opens nothing in the team.    *)
(* claimResource and saveComparison, against refreshes that carry the key   *)
(* of the original along.                                                   *)
KeyOnlyAnonymous ==
    \A x \in Resources : row[x].team # NoTeam => row[x].team \in teams /\ row[x].key = NoKey

(* "a race cannot steal an already-claimed resource": while its team exists *)
(* a claimed row stays that team's, whatever claims were checked earlier.   *)
ClaimedStays ==
    [][\A x \in Resources : row[x].team \in teams' /\ row'[x].state = "live"
                               => row'[x].team = row[x].team]_vars

(* "... or revive an expired one": an anonymous row that reads as missing   *)
(* is never served again, by a late claim, stamp or refresh.                *)
NotRevived ==
    [][\A x \in Resources : Anonymous(x) /\ row[x].expiry = "past"
                               => row'[x].expiry = "past" \/ row'[x].state = "gone"]_vars

(* The sweep deletes no row that a team owns, though it selects before it   *)
(* deletes and a claim may come between (the delete joins on the ctid).     *)
SweepSparesTeams ==
    [][\A x \in Resources : Exists(x) /\ row[x].team # NoTeam => row'[x].state = "live"]_vars

(* Anonymous data does not stay: every anonymous row, stamped or not, or    *)
(* left by a deleted team, is deleted or claimed in the end.                *)
AnonymousExpires ==
    \A x \in Resources : Anonymous(x) ~> ~Anonymous(x)

(* "Team-owned rows keep NULL and never expire" (045_anonymous_expiry.sql). *)
TeamDataNeverExpires ==
    \A x \in Resources : row[x].team # NoTeam => row[x].expiry = "none"

(* "so whoever could change the original can change the refresh"            *)
(* (comparisons.controller.ts): the new comparison has the owner and the    *)
(* key that the original has.                                               *)
RefreshKeepsOwner ==
    [][\A r \in Requests, y \in Resources :
          /\ request[r].kind = "refresh" /\ request'[r] = Idle
          /\ row[y].state = "absent" /\ row'[y].state = "live" /\ Exists(request[r].target)
          => LET original == row[request[r].target] IN
             row'[y].team = original.team /\ row'[y].key = original.key]_vars

(* "team roles govern changes from now on" (claimResource): no link or      *)
(* budget is added to a team's workload with the edit key of before.        *)
TeamRolesGovernChanges ==
    [][\A x \in Resources : row[x].team # NoTeam /\ "key" \in shared'[x] => "key" \in shared[x]]_vars

(* What these three need of the steps that move an anonymous row into a     *)
(* team; the code ensures neither.                                          *)

MovesToTeam(x) == row[x].team = NoTeam /\ Exists(x) /\ row'[x].team # NoTeam

\* No row moves into a team between the two halves of the statement that stamps it.
ClaimsSpareStamps ==
    \A x \in Resources : MovesToTeam(x) => ~(sweep.phase = "stamp" /\ x \in sweep.picked)

\* No row moves into a team between the check of a change and its write.
ClaimsAwaitChanges ==
    \A x \in Resources, r \in Requests :
        MovesToTeam(x) /\ request[r].kind \in {"share", "refresh"} => request[r].target # x
=============================================================================
