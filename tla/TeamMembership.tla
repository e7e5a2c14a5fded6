---------------------------- MODULE TeamMembership ----------------------------
(***************************************************************************)
(* The members and invitations of one team: the handlers of                *)
(* auth.service.ts that invite, revoke, resend, accept, change a role and  *)
(* remove a member, and the SCIM directory that provisions members on its  *)
(* own.  A handler authorises its caller with the role the session had     *)
(* when the request came in, reads what it decides on and writes in one    *)
(* last transaction; requests interleave between these steps.              *)
(*                                                                         *)
(* "viewer" is the old name of "member" and is read as such.               *)
(***************************************************************************)
EXTENDS Naturals, FiniteSets

CONSTANTS
  Accounts,      \* an account and the address it is invited at
  Founders,      \* the owners at the start: who registered the team and promoted co-owners
  HasDirectory,  \* the team has a SCIM token at some time
  Directory,     \* the accounts the team's SCIM directory provisions
  Requests,      \* requests in flight at a time
  NumInvites,    \* bound: rows of team_invitations
  NumTokens      \* bound: invitation links issued

ASSUME FoundersAssumption == Founders \subseteq Accounts /\ Founders # {}
ASSUME DirectoryAssumption ==
  /\ HasDirectory \in BOOLEAN
  /\ Directory \subseteq Accounts
  /\ Directory # {} => HasDirectory
ASSUME NumInvitesAssumption == NumInvites \in Nat
ASSUME NumTokensAssumption == NumTokens \in Nat

Roles == {"owner", "admin", "member"}
AdminRoles == {"owner", "admin"}
InvitableRoles == {"admin", "member"}
Invites == 1..NumInvites
Tokens == 1..NumTokens

VARIABLES
  role,      \* the role of each account in the team, "none" without membership
  invite,    \* the rows of team_invitations, status "unused" before the insert
  issued,    \* how many links have been issued
  request    \* what each request in flight has read

vars == <<role, invite, issued, request>>

InviteStatuses == {"unused", "pending", "accepted", "revoked"}

InviteRow ==
  [email : Accounts, role : InvitableRoles, token : 0..NumTokens,
   status : InviteStatuses, expired : BOOLEAN]

NoRequest == [kind |-> "none"]

MemberRequest ==
  [kind : {"update", "remove"}, actor : Roles, target : Accounts, to : Roles,
   step : {"target", "count", "write"}]
InviteRequest == [kind : {"invite"}, email : Accounts, as : InvitableRoles]
RowRequest == [kind : {"revoke", "resend"}, row : Invites]
AcceptRequest == [kind : {"accept"}, row : Invites, account : Accounts]

TypeOK ==
  /\ role \in [Accounts -> Roles \union {"none"}]
  /\ invite \in [Invites -> InviteRow]
  /\ issued \in 0..NumTokens
  /\ request \in [Requests -> {NoRequest} \union MemberRequest \union InviteRequest
                                \union RowRequest \union AcceptRequest]

\* registerAccount: the team with its owner in one transaction.
Init ==
  /\ role = [a \in Accounts |-> IF a \in Founders THEN "owner" ELSE "none"]
  /\ invite = [i \in Invites |-> [email |-> CHOOSE a \in Accounts : TRUE, role |-> "member", token |-> 0,
                                  status |-> "unused", expired |-> FALSE]]
  /\ issued = 0
  /\ request = [r \in Requests |-> NoRequest]

Owners == {a \in Accounts : role[a] = "owner"}

-----------------------------------------------------------------------------
(* Requests come in: the session is resolved and its role checked.         *)

Begin(r, req) ==
  /\ request[r] = NoRequest
  /\ request' = [request EXCEPT ![r] = req]
  /\ UNCHANGED <<role, invite, issued>>

End(r) == request' = [request EXCEPT ![r] = NoRequest]

\* updateTeamMemberRole: requireTeamOwner
BeginUpdate(r, a, b, to) ==
  /\ role[a] = "owner"
  /\ Begin(r, [kind |-> "update", actor |-> role[a], target |-> b, to |-> to,
               step |-> "target"])

\* removeTeamMember: requireTeamAdmin
BeginRemove(r, a, b) ==
  /\ role[a] \in AdminRoles
  /\ Begin(r, [kind |-> "remove", actor |-> role[a], target |-> b, to |-> "member",
               step |-> "target"])

\* inviteTeamMember, revokeTeamInvitation, resendTeamInvitation: requireTeamAdmin
BeginInvite(r, a, b, as) ==
  /\ role[a] \in AdminRoles
  /\ Begin(r, [kind |-> "invite", email |-> b, as |-> as])

BeginRevoke(r, a, i) ==
  /\ role[a] \in AdminRoles
  /\ Begin(r, [kind |-> "revoke", row |-> i])

BeginResend(r, a, i) ==
  /\ role[a] \in AdminRoles
  /\ Begin(r, [kind |-> "resend", row |-> i])

Live(i, t) == invite[i].status = "pending" /\ invite[i].token = t /\ ~invite[i].expired

\* acceptInvitation up to its transaction: the link is looked up, and the
\* account must have the invited address.
BeginAccept(r, a, i, t) ==
  /\ Live(i, t)
  /\ invite[i].email = a
  /\ Begin(r, [kind |-> "accept", row |-> i, account |-> a])

-----------------------------------------------------------------------------
(* The rest of updateTeamMemberRole and removeTeamMember.                  *)

LosesOwner(req) == req.kind = "remove" \/ req.to # "owner"

\* getTeamMembership of the target, and the checks on what it returns
ReadTarget(r) ==
  LET req == request[r]
  IN  /\ req.kind \in {"update", "remove"}
      /\ req.step = "target"
      /\ request' = [request EXCEPT ![r] =
           CASE role[req.target] = "none" -> NoRequest
             [] role[req.target] = "owner" /\ req.actor # "owner" -> NoRequest
             [] role[req.target] = "owner" /\ req.actor = "owner" /\ LosesOwner(req) ->
                  [req EXCEPT !.step = "count"]
             [] OTHER -> [req EXCEPT !.step = "write"]]
      /\ UNCHANGED <<role, invite, issued>>

\* assertOwnerWillRemain
CountOwners(r) ==
  /\ request[r].kind \in {"update", "remove"}
  /\ request[r].step = "count"
  /\ request' = [request EXCEPT ![r] = IF Cardinality(Owners) <= 1 THEN NoRequest
                                       ELSE [@ EXCEPT !.step = "write"]]
  /\ UNCHANGED <<role, invite, issued>>

UpdateRole(r) ==
  LET b == request[r].target
  IN  /\ request[r].kind = "update"
      /\ request[r].step = "write"
      /\ role' = [role EXCEPT ![b] = IF @ = "none" THEN "none" ELSE request[r].to]
      /\ End(r)
      /\ UNCHANGED <<invite, issued>>

RemoveMember(r) ==
  /\ request[r].kind = "remove"
  /\ request[r].step = "write"
  /\ role' = [role EXCEPT ![request[r].target] = "none"]
  /\ End(r)
  /\ UNCHANGED <<invite, issued>>

-----------------------------------------------------------------------------
(* The transactions on team_invitations.                                   *)

Pending(a) == {i \in Invites : invite[i].status = "pending" /\ invite[i].email = a}

\* The row the insert takes: the pending one of the address, by the conflict
\* clause of its unique index, or the next new one.
RowFor(a) ==
  IF Pending(a) # {} THEN Pending(a)
  ELSE {i \in Invites : /\ invite[i].status = "unused"
                        /\ \A j \in Invites : j < i => invite[j].status # "unused"}

CreateInvitation(r) ==
  LET req == request[r]
  IN  /\ req.kind = "invite"
      /\ issued < NumTokens
      /\ \E i \in RowFor(req.email) :
           invite' = [invite EXCEPT ![i] =
             [email |-> req.email, role |-> req.as, token |-> issued + 1,
              status |-> "pending", expired |-> FALSE]]
      /\ issued' = issued + 1
      /\ End(r)
      /\ UNCHANGED role

RevokeInvitation(r) ==
  /\ request[r].kind = "revoke"
  /\ LET i == request[r].row
     IN  invite' = [invite EXCEPT ![i].status = IF @ = "pending" THEN "revoked" ELSE @]
  /\ End(r)
  /\ UNCHANGED <<role, issued>>

\* Mutant: any invitation can be sent again.
ResendAnyInvitation(r) ==
  LET i == request[r].row
  IN  /\ request[r].kind = "resend"
      /\ issued < NumTokens
      /\ invite[i].status # "unused"
      /\ invite' = [invite EXCEPT ![i].token = issued + 1, ![i].expired = FALSE,
                                  ![i].status = "pending"]
      /\ issued' = issued + 1
      /\ End(r)
      /\ UNCHANGED role

ResendInvitation(r) ==
  LET i == request[r].row
  IN  /\ request[r].kind = "resend"
      /\ IF invite[i].status = "pending"
           THEN /\ issued < NumTokens
                /\ invite' = [invite EXCEPT ![i].token = issued + 1, ![i].expired = FALSE]
                /\ issued' = issued + 1
           ELSE UNCHANGED <<invite, issued>>
      /\ End(r)
      /\ UNCHANGED role

\* Mutant: the row is not looked at again under its lock.
AcceptFoundInvitation(r) ==
  LET req == request[r]
  IN  /\ req.kind = "accept"
      /\ role' = [role EXCEPT ![req.account] = invite[req.row].role]
      /\ invite' = [invite EXCEPT ![req.row].status = "accepted"]
      /\ End(r)
      /\ UNCHANGED issued

\* acceptTeamInvitation: the row is locked and must still be pending; an
\* existing membership gets the invited role.
AcceptInvitation(r) ==
  LET req == request[r]
  IN  /\ req.kind = "accept"
      /\ IF invite[req.row].status = "pending"
           THEN /\ role' = [role EXCEPT ![req.account] = invite[req.row].role]
                /\ invite' = [invite EXCEPT ![req.row].status = "accepted"]
           ELSE UNCHANGED <<role, invite>>
      /\ End(r)
      /\ UNCHANGED issued

\* Time passes: expires_at <= now.
ExpireInvitation(i) ==
  /\ invite[i].status = "pending"
  /\ ~invite[i].expired
  /\ invite' = [invite EXCEPT ![i].expired = TRUE]
  /\ UNCHANGED <<role, issued, request>>

-----------------------------------------------------------------------------
(* What the SCIM directory does to members (upsertTeamScimUser and         *)
(* deactivateTeamScimUser, step by step in TeamDirectory): it lets in the  *)
(* accounts of its own, and takes the membership of any it names inactive. *)

ProvisionUser(a) ==
  /\ role' = [role EXCEPT ![a] = IF @ = "none" THEN "member" ELSE @]
  /\ UNCHANGED <<invite, issued, request>>

DeprovisionUser(a) ==
  /\ role' = [role EXCEPT ![a] = "none"]
  /\ UNCHANGED <<invite, issued, request>>

-----------------------------------------------------------------------------
ArriveFrom(r, a) ==
  \/ \E b \in Accounts : BeginRemove(r, a, b)
  \/ \E b \in Accounts, to \in Roles : BeginUpdate(r, a, b, to)
  \/ \E b \in Accounts, as \in InvitableRoles : BeginInvite(r, a, b, as)
  \/ \E i \in Invites : BeginRevoke(r, a, i) \/ BeginResend(r, a, i)
  \/ \E i \in Invites, t \in Tokens : BeginAccept(r, a, i, t)

Arrive(r) == \E a \in Accounts : ArriveFrom(r, a)

Act(r) ==
  \/ ReadTarget(r) \/ CountOwners(r) \/ UpdateRole(r) \/ RemoveMember(r)
  \/ CreateInvitation(r) \/ RevokeInvitation(r) \/ ResendInvitation(r)
  \/ AcceptInvitation(r)

Next ==
  \/ \E r \in Requests : Arrive(r) \/ Act(r)
  \/ \E i \in Invites : ExpireInvitation(i)
  \/ \E a \in Directory : ProvisionUser(a)
  \/ HasDirectory /\ \E a \in Accounts : DeprovisionUser(a)

Spec == Init /\ [][Next]_vars

-----------------------------------------------------------------------------
(* Properties.                                                             *)

Accepts(i) == invite[i].status = "pending" /\ invite'[i].status = "accepted"

\* What joining rests on: the row an account is about to accept is addressed to it
\* and stays so, also when the row is revoked, resent or used up meanwhile.
AcceptsOwnRow ==
  \A r \in Requests :
     request[r].kind = "accept" =>
        LET row == invite[request[r].row]
        IN  row.status # "unused" /\ row.email = request[r].account

\* Nobody joins the team, or rejoins it after being removed, but by using up an
\* invitation that was pending for their own address, or by the directory: a
\* revoked link, a used one or one of somebody else never lets an account in,
\* however accepting interleaves with revoking, resending and removing.
JoinsByInvitation ==
  [][\A a \in Accounts : role[a] = "none" /\ role'[a] # "none" =>
        \/ a \in Directory
        \/ \E i \in Invites : Accepts(i) /\ invite[i].email = a /\ role'[a] = invite[i].role]_vars

\* Accepted and revoked are final (docs/DIAGRAMS.md, team invitation): no racing
\* request turns one into the other or makes the invitation pending again.
InvitationIsFinal ==
  [][\A i \in Invites :
        invite[i].status \in {"accepted", "revoked"} => invite'[i] = invite[i]]_vars

\* "At least one team owner must remain" (auth.service.ts, assertOwnerWillRemain).
OwnerRemains == Owners # {}

\* What it takes for that: one change of a role or removal is under way at a time,
\* and an owner stops being one by nothing else.  The code ensures neither.
OneChangeAtATime ==
  \A r, q \in Requests :
     request[r].kind \in {"update", "remove"} /\ request[q].kind \in {"update", "remove"} => r = q

OwnersLostByChanges ==
  \A a \in Owners : role'[a] # "owner" => \E r \in Requests : UpdateRole(r) \/ RemoveMember(r)

\* "Only team owners can remove owners" (auth.service.ts, removeTeamMember).
OnlyOwnersRemoveOwners ==
  [][\A r \in Requests :
        RemoveMember(r) /\ role[request[r].target] = "owner" => request[r].actor = "owner"]_vars

\* What that takes, and nothing ensures: nobody becomes an owner between the read
\* of a removal that names them and its write.
TargetsStay ==
  \A r \in Requests :
     /\ request[r].kind = "remove" /\ request[r].step \in {"count", "write"}
     /\ role[request[r].target] # "owner"
     => role'[request[r].target] # "owner"

=============================================================================
