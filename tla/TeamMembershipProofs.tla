------------------------- MODULE TeamMembershipProofs -------------------------
(***************************************************************************)
(* Proofs about TeamMembership, for any accounts, requests, invitations    *)
(* and directory, and about TeamDirectory, for any domains, teams, claims  *)
(* and SCIM requests.                                                      *)
(***************************************************************************)
EXTENDS TeamDirectory, FiniteSetTheorems, TLAPS

-----------------------------------------------------------------------------
(* Types.                                                                  *)

RequestKinds ==
  {NoRequest} \union MemberRequest \union InviteRequest \union RowRequest \union AcceptRequest

LEMMA BeginType ==
  ASSUME TypeOK, NEW r \in Requests, NEW req \in RequestKinds, Begin(r, req)
  PROVE  TypeOK'
  BY DEF TypeOK, Begin, RequestKinds

LEMMA EndType ==
  ASSUME TypeOK, NEW r \in Requests, End(r)
  PROVE  request' \in [Requests -> RequestKinds]
  BY DEF TypeOK, End, RequestKinds

LEMMA KindTypes ==
  ASSUME TypeOK, NEW r \in Requests
  PROVE  /\ request[r].kind \in {"update", "remove"} => request[r] \in MemberRequest
         /\ request[r].kind = "invite" => request[r] \in InviteRequest
         /\ request[r].kind \in {"revoke", "resend"} => request[r] \in RowRequest
         /\ request[r].kind = "accept" => request[r] \in AcceptRequest
  BY DEF TypeOK, NoRequest, MemberRequest, InviteRequest, RowRequest, AcceptRequest

LEMMA TypeNext == TypeOK /\ [Next]_vars => TypeOK'
<1> SUFFICES ASSUME TypeOK, [Next]_vars PROVE TypeOK'
  OBVIOUS
<1>1. ASSUME NEW r \in Requests, Arrive(r) PROVE TypeOK'
  <2>1. ASSUME NEW a \in Accounts, NEW b \in Accounts, BeginRemove(r, a, b) PROVE TypeOK'
    BY <2>1, BeginType DEF BeginRemove, RequestKinds, MemberRequest, AdminRoles, Roles
  <2>2. ASSUME NEW a \in Accounts, NEW b \in Accounts, NEW to \in Roles,
               BeginUpdate(r, a, b, to)
        PROVE  TypeOK'
    BY <2>2, BeginType DEF BeginUpdate, RequestKinds, MemberRequest, Roles
  <2>3. ASSUME NEW a \in Accounts, NEW b \in Accounts, NEW as \in InvitableRoles,
               BeginInvite(r, a, b, as)
        PROVE  TypeOK'
    BY <2>3, BeginType DEF BeginInvite, RequestKinds, InviteRequest
  <2>4. ASSUME NEW a \in Accounts, NEW i \in Invites, BeginRevoke(r, a, i) \/ BeginResend(r, a, i)
        PROVE  TypeOK'
    BY <2>4, BeginType DEF BeginRevoke, BeginResend, RequestKinds, RowRequest
  <2>5. ASSUME NEW a \in Accounts, NEW i \in Invites, NEW t \in Tokens, BeginAccept(r, a, i, t)
        PROVE  TypeOK'
    BY <2>5, BeginType DEF BeginAccept, RequestKinds, AcceptRequest
  <2> QED BY <1>1, <2>1, <2>2, <2>3, <2>4, <2>5 DEF Arrive, ArriveFrom
<1>2. ASSUME NEW r \in Requests, ReadTarget(r) PROVE TypeOK'
  <2>1. request[r] \in MemberRequest
    BY <1>2, KindTypes DEF ReadTarget
  <2>2. /\ [request[r] EXCEPT !.step = "count"] \in RequestKinds
        /\ [request[r] EXCEPT !.step = "write"] \in RequestKinds
        /\ NoRequest \in RequestKinds
    BY <2>1 DEF RequestKinds, MemberRequest
  <2>3. \E new \in RequestKinds : request' = [request EXCEPT ![r] = new]
    BY <1>2, <2>2 DEF ReadTarget
  <2>4. role' = role /\ invite' = invite /\ issued' = issued
    BY <1>2 DEF ReadTarget
  <2> QED BY <2>3, <2>4 DEF TypeOK, RequestKinds
<1>3. ASSUME NEW r \in Requests, CountOwners(r) PROVE TypeOK'
  <2>1. request[r] \in MemberRequest
    BY <1>3, KindTypes DEF CountOwners
  <2>2. [request[r] EXCEPT !.step = "write"] \in RequestKinds /\ NoRequest \in RequestKinds
    BY <2>1 DEF RequestKinds, MemberRequest
  <2>3. \E new \in RequestKinds : request' = [request EXCEPT ![r] = new]
    BY <1>3, <2>2 DEF CountOwners
  <2>4. role' = role /\ invite' = invite /\ issued' = issued
    BY <1>3 DEF CountOwners
  <2> QED BY <2>3, <2>4 DEF TypeOK, RequestKinds
<1>4. ASSUME NEW r \in Requests, UpdateRole(r) \/ RemoveMember(r) PROVE TypeOK'
  <2>1. request[r] \in MemberRequest
    BY <1>4, KindTypes DEF UpdateRole, RemoveMember
  <2>2. role' \in [Accounts -> Roles \union {"none"}]
    BY <1>4, <2>1 DEF UpdateRole, RemoveMember, TypeOK, MemberRequest
  <2>3. End(r) /\ invite' = invite /\ issued' = issued
    BY <1>4 DEF UpdateRole, RemoveMember
  <2> QED BY <2>2, <2>3, EndType DEF TypeOK, RequestKinds
<1>5. ASSUME NEW r \in Requests, CreateInvitation(r) PROVE TypeOK'
  <2>1. request[r] \in InviteRequest
    BY <1>5, KindTypes DEF CreateInvitation
  <2>2. issued' \in 0..NumTokens /\ issued' = issued + 1 /\ role' = role
    BY <1>5, NumTokensAssumption DEF CreateInvitation, TypeOK
  <2>3. PICK i \in RowFor(request[r].email) :
          invite' = [invite EXCEPT ![i] =
            [email |-> request[r].email, role |-> request[r].as, token |-> issued + 1,
             status |-> "pending", expired |-> FALSE]]
    BY <1>5 DEF CreateInvitation
  <2>4. [email |-> request[r].email, role |-> request[r].as, token |-> issued + 1,
         status |-> "pending", expired |-> FALSE] \in InviteRow
    BY <2>1, <2>2 DEF InviteRow, InviteRequest, InviteStatuses
  <2>5. invite' \in [Invites -> InviteRow]
    BY <2>3, <2>4 DEF TypeOK, RowFor, Pending
  <2> QED BY <1>5, <2>2, <2>5, EndType DEF CreateInvitation, TypeOK, RequestKinds
<1>6. ASSUME NEW r \in Requests, RevokeInvitation(r) PROVE TypeOK'
  <2>0. request[r].row \in Invites
    BY <1>6, KindTypes DEF RevokeInvitation, RowRequest
  <2>1. invite' \in [Invites -> InviteRow]
    <3>1. \E st \in InviteStatuses : invite' = [invite EXCEPT ![request[r].row].status = st]
      BY <1>6, <2>0 DEF RevokeInvitation, TypeOK, InviteRow, InviteStatuses
    <3> QED BY <3>1 DEF TypeOK, InviteRow
  <2> QED BY <1>6, <2>1, EndType DEF RevokeInvitation, TypeOK, RequestKinds
<1>7. ASSUME NEW r \in Requests, ResendInvitation(r) PROVE TypeOK'
  <2>1. issued' \in 0..NumTokens
    BY <1>7, NumTokensAssumption DEF ResendInvitation, TypeOK
  <2>2. invite' \in [Invites -> InviteRow]
    <3>1. CASE invite' = invite
      BY <3>1 DEF TypeOK
    <3>2. CASE invite' # invite
      <4>1. /\ issued < NumTokens
            /\ invite' = [invite EXCEPT ![request[r].row].token = issued + 1,
                                        ![request[r].row].expired = FALSE]
        BY <1>7, <3>2 DEF ResendInvitation
      <4>2. issued + 1 \in 0..NumTokens
        BY <4>1, NumTokensAssumption DEF TypeOK
      <4> QED BY <4>1, <4>2 DEF TypeOK, InviteRow
    <3> QED BY <3>1, <3>2
  <2> QED BY <1>7, <2>1, <2>2, EndType DEF ResendInvitation, TypeOK, RequestKinds
<1>8. ASSUME NEW r \in Requests, AcceptInvitation(r) PROVE TypeOK'
  <2>1. request[r] \in AcceptRequest
    BY <1>8, KindTypes DEF AcceptInvitation
  <2>2. invite[request[r].row].role \in Roles
    BY <2>1 DEF TypeOK, AcceptRequest, InviteRow, InvitableRoles, Roles
  <2>3. role' \in [Accounts -> Roles \union {"none"}]
    BY <1>8, <2>2 DEF AcceptInvitation, TypeOK
  <2>4. invite' \in [Invites -> InviteRow]
    BY <1>8 DEF AcceptInvitation, TypeOK, InviteRow, InviteStatuses
  <2> QED BY <1>8, <2>3, <2>4, EndType DEF AcceptInvitation, TypeOK, RequestKinds
<1>9. ASSUME NEW i \in Invites, ExpireInvitation(i) PROVE TypeOK'
  BY <1>9 DEF ExpireInvitation, TypeOK, InviteRow
<1>10. ASSUME NEW a \in Accounts, ProvisionUser(a) \/ DeprovisionUser(a) PROVE TypeOK'
  BY <1>10 DEF ProvisionUser, DeprovisionUser, TypeOK, Roles
<1>11. CASE UNCHANGED vars
  BY <1>11 DEF vars, TypeOK
<1> QED
  BY <1>1, <1>2, <1>3, <1>4, <1>5, <1>6, <1>7, <1>8, <1>9, <1>10, <1>11,
     DirectoryAssumption
  DEF Next, Act

(* Every request, invitation and role keeps its type.                       *)
THEOREM TypeCorrect == Spec => []TypeOK
<1>1. Init => TypeOK
  BY FoundersAssumption, NumTokensAssumption
  DEF Init, TypeOK, Roles, InviteRow, InviteStatuses, InvitableRoles
<1> QED BY <1>1, TypeNext, PTL DEF Spec

-----------------------------------------------------------------------------
(* What an account is about to accept is its own.                          *)

\* A row in use keeps its address, and stays in use.
RowsKeepAddress ==
  \A i \in Invites : invite[i].status # "unused" =>
     invite'[i].status # "unused" /\ invite'[i].email = invite[i].email

LEMMA AddressKept == TypeOK /\ [Next]_vars => RowsKeepAddress
<1> SUFFICES ASSUME TypeOK, [Next]_vars, NEW i \in Invites, invite[i].status # "unused"
             PROVE  invite'[i].status # "unused" /\ invite'[i].email = invite[i].email
  BY DEF RowsKeepAddress
<1>0. invite \in [Invites -> InviteRow]
  BY DEF TypeOK
<1>1. ASSUME NEW r \in Requests, CreateInvitation(r)
      PROVE  invite'[i].status # "unused" /\ invite'[i].email = invite[i].email
  <2>1. PICK j \in RowFor(request[r].email) :
          invite' = [invite EXCEPT ![j] =
            [email |-> request[r].email, role |-> request[r].as, token |-> issued + 1,
             status |-> "pending", expired |-> FALSE]]
    BY <1>1 DEF CreateInvitation
  <2>2. j \in Invites /\ (invite[j].status = "unused" \/ invite[j].email = request[r].email)
    BY DEF RowFor, Pending
  <2>3. CASE i = j
    BY <1>0, <2>1, <2>2, <2>3
  <2>4. CASE i # j
    BY <1>0, <2>1, <2>4
  <2> QED BY <2>3, <2>4
<1>2. ASSUME NEW r \in Requests, RevokeInvitation(r)
      PROVE  invite'[i].status # "unused" /\ invite'[i].email = invite[i].email
  BY <1>0, <1>2 DEF RevokeInvitation, InviteRow
<1>3. ASSUME NEW r \in Requests, ResendInvitation(r)
      PROVE  invite'[i].status # "unused" /\ invite'[i].email = invite[i].email
  BY <1>0, <1>3 DEF ResendInvitation, InviteRow
<1>4. ASSUME NEW r \in Requests, AcceptInvitation(r)
      PROVE  invite'[i].status # "unused" /\ invite'[i].email = invite[i].email
  BY <1>0, <1>4 DEF AcceptInvitation, InviteRow
<1>5. ASSUME NEW j \in Invites, ExpireInvitation(j)
      PROVE  invite'[i].status # "unused" /\ invite'[i].email = invite[i].email
  BY <1>0, <1>5 DEF ExpireInvitation, InviteRow
<1>6. ASSUME NEW r \in Requests, Arrive(r) PROVE invite' = invite
  BY <1>6 DEF Arrive, ArriveFrom, BeginRemove, BeginUpdate, BeginInvite, BeginRevoke, BeginResend,
              BeginAccept, Begin
<1>7. ASSUME NEW r \in Requests,
             ReadTarget(r) \/ CountOwners(r) \/ UpdateRole(r) \/ RemoveMember(r)
      PROVE  invite' = invite
  BY <1>7 DEF ReadTarget, CountOwners, UpdateRole, RemoveMember
<1>8. ASSUME NEW a \in Accounts, ProvisionUser(a) \/ DeprovisionUser(a) PROVE invite' = invite
  BY <1>8 DEF ProvisionUser, DeprovisionUser
<1>9. CASE UNCHANGED vars
  BY <1>9 DEF vars
<1> QED
  BY <1>1, <1>2, <1>3, <1>4, <1>5, <1>6, <1>7, <1>8, <1>9, DirectoryAssumption DEF Next, Act

\* No step of a handler that goes on makes a request to accept.
LEMMA ActAccepts ==
  ASSUME TypeOK, NEW q \in Requests, Act(q), NEW r \in Requests, request'[r].kind = "accept"
  PROVE  request'[r] = request[r]
<1>0. request \in [Requests -> RequestKinds]
  BY DEF TypeOK, RequestKinds
<1>1. ASSUME NEW new, request' = [request EXCEPT ![q] = new], new.kind # "accept"
      PROVE  request'[r] = request[r]
  BY <1>0, <1>1
<1>2. ASSUME End(q) PROVE request'[r] = request[r]
  BY <1>0, <1>2 DEF End, NoRequest
<1>3. CASE ReadTarget(q)
  <2>1. request[q] \in MemberRequest
    BY <1>3, KindTypes DEF ReadTarget
  <2> DEFINE S == {NoRequest, [request[q] EXCEPT !.step = "count"], [request[q] EXCEPT !.step = "write"]}
  <2>2. \E new \in S : request' = [request EXCEPT ![q] = new]
    BY <1>3 DEF ReadTarget
  <2>3. \A new \in S : new.kind # "accept"
    BY <2>1 DEF NoRequest, MemberRequest
  <2> QED BY <1>1, <2>2, <2>3
<1>4. CASE CountOwners(q)
  <2>1. request[q] \in MemberRequest
    BY <1>4, KindTypes DEF CountOwners
  <2> DEFINE S == {NoRequest, [request[q] EXCEPT !.step = "write"]}
  <2>2. \E new \in S : request' = [request EXCEPT ![q] = new]
    BY <1>4 DEF CountOwners
  <2>3. \A new \in S : new.kind # "accept"
    BY <2>1 DEF NoRequest, MemberRequest
  <2> QED BY <1>1, <2>2, <2>3
<1>5. CASE \/ UpdateRole(q) \/ RemoveMember(q) \/ CreateInvitation(q) \/ RevokeInvitation(q)
           \/ ResendInvitation(q) \/ AcceptInvitation(q)
  BY <1>2, <1>5 DEF UpdateRole, RemoveMember, CreateInvitation, RevokeInvitation,
                    ResendInvitation, AcceptInvitation
<1> QED BY <1>3, <1>4, <1>5 DEF Act

\* Only BeginAccept makes a request to accept; the others leave it or end it.
NewAccepts ==
  \A r \in Requests : request'[r].kind = "accept" =>
     \/ request'[r] = request[r]
     \/ /\ request'[r].row \in Invites
        /\ invite[request'[r].row].status = "pending"
        /\ invite[request'[r].row].email = request'[r].account

LEMMA AcceptsAreOwn == TypeOK /\ [Next]_vars => NewAccepts
<1> SUFFICES ASSUME TypeOK, [Next]_vars PROVE NewAccepts
  OBVIOUS
<1>0. request \in [Requests -> RequestKinds]
  BY DEF TypeOK, RequestKinds
<1>1. ASSUME NEW r \in Requests, Arrive(r) PROVE NewAccepts
  <2>1. ASSUME NEW a \in Accounts, NEW i \in Invites, NEW t \in Tokens, BeginAccept(r, a, i, t)
        PROVE  NewAccepts
    BY <1>0, <2>1 DEF BeginAccept, Begin, Live, NewAccepts
  <2>2. ASSUME NEW req, Begin(r, req), req.kind # "accept" PROVE NewAccepts
    BY <1>0, <2>2 DEF Begin, NewAccepts
  <2>3. ASSUME NEW a \in Accounts, NEW b \in Accounts, BeginRemove(r, a, b) PROVE NewAccepts
    BY <2>2, <2>3 DEF BeginRemove
  <2>4. ASSUME NEW a \in Accounts, NEW b \in Accounts, NEW to \in Roles,
               BeginUpdate(r, a, b, to)
        PROVE  NewAccepts
    BY <2>2, <2>4 DEF BeginUpdate
  <2>5. ASSUME NEW a \in Accounts, NEW b \in Accounts, NEW as \in InvitableRoles,
               BeginInvite(r, a, b, as)
        PROVE  NewAccepts
    BY <2>2, <2>5 DEF BeginInvite
  <2>6. ASSUME NEW a \in Accounts, NEW i \in Invites, BeginRevoke(r, a, i) \/ BeginResend(r, a, i)
        PROVE  NewAccepts
    BY <2>2, <2>6 DEF BeginRevoke, BeginResend
  <2> QED BY <1>1, <2>1, <2>3, <2>4, <2>5, <2>6 DEF Arrive, ArriveFrom
<1>2. ASSUME NEW r \in Requests, Act(r) PROVE NewAccepts
  BY <1>2, ActAccepts DEF NewAccepts
<1>7. ASSUME request' = request PROVE NewAccepts
  BY <1>7 DEF NewAccepts
<1>8. ASSUME NEW i \in Invites, ExpireInvitation(i) PROVE NewAccepts
  BY <1>7, <1>8 DEF ExpireInvitation
<1>9. ASSUME NEW a \in Accounts, ProvisionUser(a) \/ DeprovisionUser(a) PROVE NewAccepts
  BY <1>7, <1>9 DEF ProvisionUser, DeprovisionUser
<1>10. CASE UNCHANGED vars
  BY <1>7, <1>10 DEF vars
<1> QED BY <1>1, <1>2, <1>8, <1>9, <1>10, DirectoryAssumption DEF Next, Act

IInv == TypeOK /\ AcceptsOwnRow

LEMMA OwnRowNext == ASSUME TypeOK, AcceptsOwnRow, [Next]_vars PROVE AcceptsOwnRow'
<1>1. TypeOK' /\ RowsKeepAddress /\ NewAccepts
  BY TypeNext, AddressKept, AcceptsAreOwn
<1> SUFFICES ASSUME NEW r \in Requests, request'[r].kind = "accept"
             PROVE  /\ invite'[request'[r].row].status # "unused"
                    /\ invite'[request'[r].row].email = request'[r].account
  BY DEF AcceptsOwnRow
<1>2. CASE request'[r] = request[r]
  <2>1. request[r].row \in Invites
    BY <1>2, KindTypes DEF AcceptRequest
  <2> QED BY <1>1, <1>2, <2>1 DEF AcceptsOwnRow, RowsKeepAddress
<1>3. CASE request'[r] # request[r]
  BY <1>1, <1>3 DEF NewAccepts, RowsKeepAddress
<1> QED BY <1>2, <1>3

LEMMA Invariant == Spec => []IInv
<1>1. Init => IInv
  BY FoundersAssumption, NumTokensAssumption
  DEF Init, IInv, TypeOK, Roles, InviteRow, InviteStatuses, InvitableRoles,
      AcceptsOwnRow, NoRequest
<1>2. IInv /\ [Next]_vars => IInv'
  BY TypeNext, OwnRowNext DEF IInv
<1> QED BY <1>1, <1>2, PTL DEF Spec

(* An account that got past the address check still accepts its own row    *)
(* when the transaction runs.                                              *)
THEOREM AcceptsOwnRowHolds == Spec => []AcceptsOwnRow
  BY Invariant, PTL DEF IInv

\* Of the handlers only accepting lets an account in, on its own pending invitation.
LEMMA ActJoins ==
  ASSUME IInv, NEW r \in Requests, Act(r), NEW a \in Accounts, role[a] = "none", role'[a] # "none"
  PROVE  \E i \in Invites : Accepts(i) /\ invite[i].email = a /\ role'[a] = invite[i].role
<1>0. role \in [Accounts -> Roles \union {"none"}] /\ invite \in [Invites -> InviteRow]
  BY DEF IInv, TypeOK
<1>1. CASE AcceptInvitation(r)
  <2>1. request[r] \in AcceptRequest /\ request[r].kind = "accept"
    BY <1>1, KindTypes DEF AcceptInvitation, IInv
  <2> DEFINE i == request[r].row
  <2>2. i \in Invites /\ request[r].account \in Accounts
    BY <2>1 DEF AcceptRequest
  <2>3. invite[i].email = request[r].account
    BY <2>1 DEF IInv, AcceptsOwnRow
  <2>4. /\ invite[i].status = "pending"
        /\ role' = [role EXCEPT ![request[r].account] = invite[i].role]
        /\ invite' = [invite EXCEPT ![i].status = "accepted"]
    BY <1>1 DEF AcceptInvitation
  <2>5. a = request[r].account /\ role'[a] = invite[i].role
    BY <1>0, <2>2, <2>4
  <2>6. Accepts(i)
    BY <1>0, <2>2, <2>4 DEF Accepts, InviteRow
  <2> QED BY <2>2, <2>3, <2>5, <2>6
<1>2. CASE ~AcceptInvitation(r)
  BY <1>0, <1>2 DEF Act, ReadTarget, CountOwners, UpdateRole, RemoveMember, CreateInvitation,
                    RevokeInvitation, ResendInvitation
<1> QED BY <1>1, <1>2

(* Nobody gets into the team but through an own pending invitation or the  *)
(* directory.                                                              *)
THEOREM JoinsByInvitationHolds == Spec => JoinsByInvitation
<1> DEFINE Joins ==
      \A a \in Accounts : role[a] = "none" /\ role'[a] # "none" =>
         \/ a \in Directory
         \/ \E i \in Invites : Accepts(i) /\ invite[i].email = a /\ role'[a] = invite[i].role
<1>1. IInv /\ [Next]_vars => Joins
  <2> SUFFICES ASSUME IInv, [Next]_vars, NEW a \in Accounts,
                      role[a] = "none", role'[a] # "none", a \notin Directory
               PROVE  \E i \in Invites :
                         Accepts(i) /\ invite[i].email = a /\ role'[a] = invite[i].role
    OBVIOUS
  <2>0. role \in [Accounts -> Roles \union {"none"}] /\ invite \in [Invites -> InviteRow]
    BY DEF IInv, TypeOK
  <2>1. ASSUME NEW r \in Requests, Act(r)
        PROVE  \E i \in Invites :
                  Accepts(i) /\ invite[i].email = a /\ role'[a] = invite[i].role
    BY <2>1, ActJoins
  <2>3. ASSUME NEW r \in Requests, Arrive(r) PROVE role' = role
    BY <2>3 DEF Arrive, ArriveFrom, BeginRemove, BeginUpdate, BeginInvite, BeginRevoke, BeginResend,
                BeginAccept, Begin
  <2>4. ASSUME NEW i \in Invites, ExpireInvitation(i) PROVE role' = role
    BY <2>4 DEF ExpireInvitation
  <2>5. ASSUME NEW b \in Accounts, (b \in Directory /\ ProvisionUser(b)) \/ DeprovisionUser(b)
        PROVE  role'[a] = "none"
    BY <2>0, <2>5 DEF ProvisionUser, DeprovisionUser
  <2>6. CASE UNCHANGED vars
    BY <2>6 DEF vars
  <2> QED BY <2>1, <2>3, <2>4, <2>5, <2>6, DirectoryAssumption DEF Next
<1>2. IInv /\ [Next]_vars => [Joins]_vars
  BY <1>1
<1> QED BY <1>2, Invariant, PTL DEF Spec, JoinsByInvitation

(* Accepted and revoked invitations never change again.                     *)
THEOREM InvitationIsFinalHolds == Spec => InvitationIsFinal
<1> DEFINE Final ==
      \A i \in Invites :
         invite[i].status \in {"accepted", "revoked"} => invite'[i] = invite[i]
<1>1. TypeOK /\ [Next]_vars => Final
  <2> SUFFICES ASSUME TypeOK, [Next]_vars, NEW i \in Invites,
                      invite[i].status \in {"accepted", "revoked"}
               PROVE  invite'[i] = invite[i]
    OBVIOUS
  <2>0. invite \in [Invites -> InviteRow]
    BY DEF TypeOK
  <2>1. ASSUME NEW r \in Requests, CreateInvitation(r) PROVE invite'[i] = invite[i]
    <3>1. \E j \in RowFor(request[r].email) : \E row : invite' = [invite EXCEPT ![j] = row]
      BY <2>1 DEF CreateInvitation
    <3> QED BY <2>0, <3>1 DEF RowFor, Pending
  <2>2. ASSUME NEW r \in Requests, RevokeInvitation(r) PROVE invite'[i] = invite[i]
    BY <2>0, <2>2 DEF RevokeInvitation, InviteRow
  <2>3. ASSUME NEW r \in Requests, ResendInvitation(r) PROVE invite'[i] = invite[i]
    BY <2>0, <2>3 DEF ResendInvitation
  <2>4. ASSUME NEW r \in Requests, AcceptInvitation(r) PROVE invite'[i] = invite[i]
    BY <2>0, <2>4 DEF AcceptInvitation
  <2>5. ASSUME NEW j \in Invites, ExpireInvitation(j) PROVE invite'[i] = invite[i]
    BY <2>0, <2>5 DEF ExpireInvitation
  <2>6. ASSUME NEW r \in Requests, Arrive(r) PROVE invite' = invite
    BY <2>6 DEF Arrive, ArriveFrom, BeginRemove, BeginUpdate, BeginInvite, BeginRevoke, BeginResend,
                BeginAccept, Begin
  <2>7. ASSUME NEW r \in Requests,
               ReadTarget(r) \/ CountOwners(r) \/ UpdateRole(r) \/ RemoveMember(r)
        PROVE  invite' = invite
    BY <2>7 DEF ReadTarget, CountOwners, UpdateRole, RemoveMember
  <2>8. ASSUME NEW a \in Accounts, ProvisionUser(a) \/ DeprovisionUser(a)
        PROVE  invite' = invite
    BY <2>8 DEF ProvisionUser, DeprovisionUser
  <2>9. CASE UNCHANGED vars
    BY <2>9 DEF vars
  <2> QED
    BY <2>1, <2>2, <2>3, <2>4, <2>5, <2>6, <2>7, <2>8, <2>9, DirectoryAssumption DEF Next, Act
<1>2. TypeOK /\ [Next]_vars => [Final]_vars
  BY <1>1
<1> QED BY <1>2, TypeCorrect, PTL DEF Spec, InvitationIsFinal

-----------------------------------------------------------------------------
(* An owner remains, where changes do not overlap.                         *)

Changes(r) == request[r].kind \in {"update", "remove"}

\* Who is about to take an owner's role counted more than one.
CountedOwners ==
  \A r \in Requests :
     /\ Changes(r)
     /\ request[r].step = "write"
     /\ LosesOwner(request[r])
     /\ request[r].target \in Owners
     => ~(Cardinality(Owners) <= 1)

OwnerInv == TypeOK /\ OwnerRemains /\ CountedOwners

\* A role is written to one account, the target of the request.
LEMMA ChangeWrites ==
  ASSUME TypeOK, NEW r \in Requests, UpdateRole(r) \/ RemoveMember(r)
  PROVE  /\ Changes(r)
         /\ request[r].step = "write"
         /\ request'[r] = NoRequest
         /\ \A q \in Requests \ {r} : request'[q] = request[q]
         /\ Owners \ {request[r].target} \subseteq Owners'
         /\ ~LosesOwner(request[r]) => Owners \subseteq Owners'
<1>1. request[r] \in MemberRequest
  BY KindTypes DEF UpdateRole, RemoveMember
<1>2. CASE UpdateRole(r)
  <2>1. role' = [role EXCEPT ![request[r].target] =
                   IF @ = "none" THEN "none" ELSE request[r].to]
    BY <1>2 DEF UpdateRole
  <2>2. /\ Owners \ {request[r].target} \subseteq Owners'
        /\ ~LosesOwner(request[r]) => Owners \subseteq Owners'
    BY <2>1, <1>1 DEF TypeOK, Owners, LosesOwner, MemberRequest
  <2> QED BY <1>2, <2>2 DEF UpdateRole, Changes, End, TypeOK
<1>3. CASE RemoveMember(r)
  <2>1. role' = [role EXCEPT ![request[r].target] = "none"]
    BY <1>3 DEF RemoveMember
  <2>2. Owners \ {request[r].target} \subseteq Owners' /\ LosesOwner(request[r])
    BY <1>3, <2>1, <1>1 DEF RemoveMember, TypeOK, Owners, LosesOwner, MemberRequest
  <2> QED BY <1>3, <2>2 DEF RemoveMember, Changes, End, TypeOK
<1> QED BY <1>2, <1>3

\* Nothing else makes an owner, nor brings a change to its write but the count, or
\* a target that keeps or has no owner's role.
LEMMA OthersKeepOwners ==
  ASSUME TypeOK, CountedOwners, [Next]_vars, OwnersLostByChanges,
         \A r \in Requests : ~UpdateRole(r) /\ ~RemoveMember(r)
  PROVE  Owners' = Owners /\ CountedOwners'
<1>1. Owners \subseteq Owners'
  BY DEF OwnersLostByChanges, Owners
<1>2. Owners' \subseteq Owners
  <2>1. ASSUME NEW r \in Requests, AcceptInvitation(r) PROVE Owners' \subseteq Owners
    <3>1. request[r] \in AcceptRequest
      BY <2>1, KindTypes DEF AcceptInvitation
    <3>2. invite[request[r].row].role # "owner"
      BY <3>1 DEF AcceptRequest, TypeOK, InviteRow, InvitableRoles
    <3> QED BY <2>1, <3>1, <3>2 DEF AcceptInvitation, AcceptRequest, TypeOK, Owners
  <2>2. ASSUME NEW a \in Accounts, ProvisionUser(a) \/ DeprovisionUser(a)
        PROVE  Owners' \subseteq Owners
    BY <2>2 DEF ProvisionUser, DeprovisionUser, TypeOK, Owners
  <2>3. CASE role' = role
    BY <2>3 DEF Owners
  <2> QED
    BY <2>1, <2>2, <2>3, DirectoryAssumption
    DEF Next, Act, Arrive, ArriveFrom, BeginRemove, BeginUpdate, BeginInvite, BeginRevoke,
        BeginResend, BeginAccept, Begin, ReadTarget, CountOwners, CreateInvitation,
        RevokeInvitation, ResendInvitation, ExpireInvitation, vars
<1>3. Owners' = Owners
  BY <1>1, <1>2
<1>4. ASSUME NEW r \in Requests, Changes(r)', request'[r].step = "write",
             LosesOwner(request'[r]), request'[r].target \in Owners
      PROVE  ~(Cardinality(Owners) <= 1)
  <2>1. CASE request'[r] = request[r]
    BY <1>4, <2>1 DEF CountedOwners, Changes
  <2>2. CASE CountOwners(r)
    <3>1. request'[r] # NoRequest
      BY <1>4 DEF Changes, NoRequest
    <3>2. request'[r] = IF Cardinality(Owners) <= 1 THEN NoRequest
                        ELSE [request[r] EXCEPT !.step = "write"]
      BY <2>2 DEF CountOwners, TypeOK
    <3> QED BY <3>1, <3>2
  <2>3. CASE ReadTarget(r)
    <3>1. request[r] \in MemberRequest
      BY <2>3, KindTypes DEF ReadTarget
    <3>2. request'[r] = CASE role[request[r].target] = "none" -> NoRequest
             [] role[request[r].target] = "owner" /\ request[r].actor # "owner" -> NoRequest
             [] role[request[r].target] = "owner" /\ request[r].actor = "owner"
                  /\ LosesOwner(request[r]) -> [request[r] EXCEPT !.step = "count"]
             [] OTHER -> [request[r] EXCEPT !.step = "write"]
      BY <2>3 DEF ReadTarget, TypeOK
    <3>3. request'[r] = [request[r] EXCEPT !.step = "write"]
      BY <1>4, <3>1, <3>2 DEF Changes, NoRequest, MemberRequest
    <3>4. request'[r].target = request[r].target /\ LosesOwner(request[r])
      BY <1>4, <3>1, <3>3 DEF LosesOwner, MemberRequest
    <3>5. role[request[r].target] = "owner"
      BY <1>4, <3>4 DEF Owners
    <3> QED BY <3>1, <3>2, <3>4, <3>5, <1>4 DEF Changes, NoRequest, MemberRequest
  <2>4. ASSUME NEW q \in Requests, request' = [request EXCEPT ![q] = NoRequest]
        PROVE  request'[r] = request[r]
    BY <1>4, <2>4 DEF Changes, NoRequest, TypeOK
  <2>5. ASSUME NEW q \in Requests, Arrive(q) PROVE request'[r] = request[r]
    BY <1>4, <2>5
    DEF Arrive, ArriveFrom, BeginRemove, BeginUpdate, BeginInvite, BeginRevoke, BeginResend,
        BeginAccept, Begin, Changes, TypeOK
  <2>6. ASSUME NEW q \in Requests, ReadTarget(q) \/ CountOwners(q), q # r
        PROVE  request'[r] = request[r]
    BY <2>6 DEF ReadTarget, CountOwners, TypeOK
  <2>7. ASSUME NEW q \in Requests,
               CreateInvitation(q) \/ RevokeInvitation(q) \/ ResendInvitation(q)
                 \/ AcceptInvitation(q)
        PROVE  request'[r] = request[r]
    BY <2>7, <2>4 DEF CreateInvitation, RevokeInvitation, ResendInvitation, AcceptInvitation, End
  <2>8. CASE request' = request
    BY <2>1, <2>8
  <2> QED
    BY <2>1, <2>2, <2>3, <2>5, <2>6, <2>7, <2>8
    DEF Next, Act, ExpireInvitation, ProvisionUser, DeprovisionUser, vars
<1> QED BY <1>3, <1>4 DEF CountedOwners

LEMMA OwnerNext ==
  ASSUME OwnerInv, OneChangeAtATime, [Next]_vars, OwnersLostByChanges
  PROVE  OwnerInv'
<1>1. TypeOK'
  BY TypeNext DEF OwnerInv
<1>2. ASSUME NEW r \in Requests, UpdateRole(r) \/ RemoveMember(r)
      PROVE  OwnerRemains' /\ CountedOwners'
  <2> DEFINE b == request[r].target
  <2>0. TypeOK /\ CountedOwners /\ OwnerRemains
    BY DEF OwnerInv
  <2>1. /\ Changes(r) /\ request[r].step = "write"
        /\ request'[r] = NoRequest
        /\ \A q \in Requests \ {r} : request'[q] = request[q]
        /\ Owners \ {b} \subseteq Owners'
        /\ ~LosesOwner(request[r]) => Owners \subseteq Owners'
    BY <1>2, <2>0, ChangeWrites
  <2>2. CountedOwners'
    <3>1. \A q \in Requests : ~Changes(q)'
      BY <2>1 DEF OneChangeAtATime, Changes, NoRequest
    <3> QED BY <3>1 DEF CountedOwners
  <2>3. OwnerRemains'
    <3>1. CASE b \notin Owners \/ ~LosesOwner(request[r])
      BY <3>1, <2>0, <2>1 DEF OwnerRemains
    <3>2. CASE b \in Owners /\ LosesOwner(request[r])
      <4>1. ~(Cardinality(Owners) <= 1)
        BY <3>2, <2>0, <2>1 DEF CountedOwners
      <4>2. Owners # {b}
        <5>1. Cardinality({b}) = 1
          BY FS_Singleton
        <5> QED BY <4>1, <5>1
      <4> QED BY <3>2, <4>2, <2>1 DEF OwnerRemains
    <3> QED BY <3>1, <3>2
  <2> QED BY <2>2, <2>3
<1>3. CASE \A r \in Requests : ~UpdateRole(r) /\ ~RemoveMember(r)
  BY <1>3, <1>1, OthersKeepOwners DEF OwnerInv, OwnerRemains
<1> QED BY <1>1, <1>2, <1>3 DEF OwnerInv

(* The check that an owner will remain is right: the team is left without   *)
(* owners only by changes that overlap, by an owner who accepts an          *)
(* invitation, or by the directory.                                         *)
THEOREM OwnerRemainsApart ==
  Spec /\ []OneChangeAtATime /\ [][OwnersLostByChanges]_vars => []OwnerRemains
<1>1. Init => OwnerInv
  <2>1. Init => TypeOK
    BY FoundersAssumption, NumTokensAssumption
    DEF Init, TypeOK, Roles, InviteRow, InviteStatuses, InvitableRoles
  <2>2. Init => OwnerRemains
    BY FoundersAssumption DEF Init, OwnerRemains, Owners
  <2>3. Init => CountedOwners
    BY DEF Init, CountedOwners, Changes, NoRequest
  <2> QED BY <2>1, <2>2, <2>3 DEF OwnerInv
<1>2. OwnerInv /\ OneChangeAtATime /\ [Next]_vars /\ [OwnersLostByChanges]_vars => OwnerInv'
  <2>1. UNCHANGED vars => OwnersLostByChanges
    BY DEF vars, OwnersLostByChanges, Owners
  <2> QED BY <2>1, OwnerNext
<1>3. OwnerInv => OwnerRemains
  BY DEF OwnerInv
<1> QED BY <1>1, <1>2, <1>3, PTL DEF Spec

-----------------------------------------------------------------------------
(* Only owners remove owners, where targets stay what they were.           *)

\* A removal that is past its read names an owner only if it is an owner's.
RemovedByOwner ==
  \A r \in Requests :
     /\ request[r].kind = "remove" /\ request[r].step \in {"count", "write"}
     /\ role[request[r].target] = "owner"
     => request[r].actor = "owner"

LEMMA RemovedByOwnerNext ==
  ASSUME TypeOK, RemovedByOwner, [Next]_vars, TargetsStay
  PROVE  RemovedByOwner'
<1> SUFFICES ASSUME NEW r \in Requests, request'[r].kind = "remove",
                    request'[r].step \in {"count", "write"}, role'[request'[r].target] = "owner"
             PROVE  request'[r].actor = "owner"
  BY DEF RemovedByOwner
<1>1. CASE request'[r] = request[r]
  BY <1>1 DEF RemovedByOwner, TargetsStay
<1>2. CASE ReadTarget(r)
  <2>1. request[r] \in MemberRequest
    BY <1>2, KindTypes DEF ReadTarget
  <2>2. role' = role /\ request'[r] # NoRequest
    BY <1>2 DEF ReadTarget, NoRequest
  <2>3. request'[r] = CASE role[request[r].target] = "none" -> NoRequest
           [] role[request[r].target] = "owner" /\ request[r].actor # "owner" -> NoRequest
           [] role[request[r].target] = "owner" /\ request[r].actor = "owner"
                /\ LosesOwner(request[r]) -> [request[r] EXCEPT !.step = "count"]
           [] OTHER -> [request[r] EXCEPT !.step = "write"]
    BY <1>2 DEF ReadTarget, TypeOK
  <2>4. \E step \in {"count", "write"} : request'[r] = [request[r] EXCEPT !.step = step]
    BY <2>2, <2>3
  <2>5. request'[r].target = request[r].target /\ request'[r].actor = request[r].actor
    BY <2>1, <2>4 DEF MemberRequest
  <2>6. role[request[r].target] = "owner"
    BY <2>2, <2>5
  <2> QED BY <2>2, <2>3, <2>5, <2>6
<1>3. CASE CountOwners(r)
  <2>1. request[r] \in MemberRequest
    BY <1>3, KindTypes DEF CountOwners
  <2>2. role' = role /\ request'[r] # NoRequest /\ request[r].step = "count"
    BY <1>3 DEF CountOwners, NoRequest
  <2>3. request'[r] = [request[r] EXCEPT !.step = "write"]
    BY <1>3, <2>2 DEF CountOwners, TypeOK
  <2>4. /\ request'[r].target = request[r].target /\ request'[r].actor = request[r].actor
        /\ request'[r].kind = request[r].kind
    BY <2>1, <2>3 DEF MemberRequest
  <2> QED BY <2>2, <2>4 DEF RemovedByOwner
<1>4. ASSUME NEW q \in Requests, request' = [request EXCEPT ![q] = NoRequest]
      PROVE  request'[r] = request[r]
  BY <1>4 DEF NoRequest, TypeOK
<1>5. ASSUME NEW q \in Requests, Arrive(q) PROVE request'[r] = request[r]
  BY <1>5
  DEF Arrive, ArriveFrom, BeginRemove, BeginUpdate, BeginInvite, BeginRevoke, BeginResend,
      BeginAccept, Begin, TypeOK
<1>6. ASSUME NEW q \in Requests, ReadTarget(q) \/ CountOwners(q), q # r
      PROVE  request'[r] = request[r]
  BY <1>6 DEF ReadTarget, CountOwners, TypeOK
<1>7. ASSUME NEW q \in Requests,
             UpdateRole(q) \/ RemoveMember(q) \/ CreateInvitation(q) \/ RevokeInvitation(q)
               \/ ResendInvitation(q) \/ AcceptInvitation(q)
      PROVE  request'[r] = request[r]
  BY <1>7, <1>4
  DEF UpdateRole, RemoveMember, CreateInvitation, RevokeInvitation, ResendInvitation,
      AcceptInvitation, End
<1>8. CASE request' = request
  BY <1>1, <1>8
<1> QED
  BY <1>1, <1>2, <1>3, <1>5, <1>6, <1>7, <1>8
  DEF Next, Act, ExpireInvitation, ProvisionUser, DeprovisionUser, vars

(* An admin removes no owner, though the target's role is read before it is *)
(* used, if nobody is made an owner in between (removeTeamMember).          *)
THEOREM OnlyOwnersRemoveOwnersApart == Spec /\ [][TargetsStay]_vars => OnlyOwnersRemoveOwners
<1>1. Init => RemovedByOwner
  BY DEF Init, RemovedByOwner, NoRequest
<1>2. TypeOK /\ RemovedByOwner /\ [Next]_vars /\ [TargetsStay]_vars => RemovedByOwner'
  <2>1. UNCHANGED vars => TargetsStay
    BY DEF vars, TargetsStay
  <2> QED BY <2>1, RemovedByOwnerNext
<1>3. RemovedByOwner =>
        [\A r \in Requests :
           RemoveMember(r) /\ role[request[r].target] = "owner" => request[r].actor = "owner"]_vars
  BY DEF RemovedByOwner, RemoveMember
<1> QED BY <1>1, <1>2, <1>3, TypeCorrect, PTL DEF Spec, OnlyOwnersRemoveOwners

-----------------------------------------------------------------------------
(* The directory (TeamDirectory).                                          *)

\* What is found is found in the DNS of a domain the team controls, so is what is
\* verified; a team has one row of a domain.
ClaimInv ==
  \A c \in Claims : claim[c] # NoRow =>
     /\ c \in seen \/ claim[c].status = "verified" =>
          <<claim[c].team, claim[c].domain>> \in Controls
     /\ \A e \in Claims :
          claim[e] # NoRow /\ claim[e].team = claim[c].team /\ claim[e].domain = claim[c].domain
             => e = c

\* A request about to let an account in holds it active, and past the domain check it
\* is one of the directory's own.
CallInv ==
  \A k \in Calls : call[k].step \in {"domain", "write"} /\ call[k].active =>
     /\ call[k].found => account[call[k].name] = "active"
     /\ call[k].step = "write" => call[k].name \in Directory

\* Who is about to accept an invitation has an account.
CallerInv ==
  \A r \in Requests : request[r].kind = "accept" => account[request[r].account] # "absent"

DInv == DirTypeOK /\ AcceptsOwnRow /\ ClaimInv /\ CallInv /\ CallerInv

LEMMA OthersLeaveDomains == ASSUME [DirNext]_dirVars, ~DomainStep PROVE UNCHANGED domainVars
<1>1. ASSUME NEW k \in Calls, CallStep(k) PROVE UNCHANGED domainVars
  BY <1>1 DEF CallStep, AskUpsert, AskActivate, AskDeactivate, Ask, FindUser, LockAccount,
              CheckDomain, WriteUser, DropUser, FailCall, domainVars
<1> QED
  BY <1>1 DEF DirNext, CreateToken, LoseToken, AccountStep, RegisterAccount, DisableAccount,
              MemberStep, dirVars, domainVars

LEMMA ClaimInvNext == ASSUME DirTypeOK, ClaimInv, DirNext PROVE ClaimInv'
<1>0. claim \in [Claims -> {NoRow} \union ClaimRow]
  BY DEF DirTypeOK
<1>1. ASSUME NEW c \in Claims, NEW t \in Teams, NEW d \in Ownable, AddClaim(c, t, d)
      PROVE  ClaimInv'
  <2>1. \A e \in Claims : claim[e] # NoRow => ~(claim[e].team = t /\ claim[e].domain = d)
    BY <1>1 DEF AddClaim, Rows
  <2>2. /\ c \notin seen /\ seen' = seen /\ claim[c] = NoRow
        /\ claim' = [claim EXCEPT ![c] = [status |-> "pending", team |-> t, domain |-> d]]
    BY <1>1 DEF AddClaim
  <2> QED BY <1>0, <2>1, <2>2 DEF ClaimInv
<1>2. ASSUME NEW c \in Claims, LookUp(c) PROVE ClaimInv'
  BY <1>0, <1>2 DEF LookUp, ClaimInv
<1>3. ASSUME NEW c \in Claims, MarkVerified(c) PROVE ClaimInv'
  <2>1. CASE claim' = claim
    BY <1>3, <2>1 DEF MarkVerified, ClaimInv
  <2>2. CASE claim' # claim
    <3>1. /\ claim[c] # NoRow /\ c \in seen /\ seen' = seen \ {c}
          /\ claim' = [claim EXCEPT ![c].status = "verified"]
      BY <1>3, <2>2 DEF MarkVerified
    <3>2. claim[c] \in ClaimRow
      BY <1>0, <3>1
    <3>3. \A e \in Claims : /\ claim'[e] # NoRow => claim[e] # NoRow
                            /\ claim'[e] # NoRow => claim'[e].team = claim[e].team
                            /\ claim'[e] # NoRow => claim'[e].domain = claim[e].domain
                            /\ e # c => claim'[e] = claim[e]
      BY <1>0, <3>1, <3>2 DEF ClaimRow
    <3> QED BY <3>1, <3>3 DEF ClaimInv
  <2> QED BY <2>1, <2>2
<1>4. ASSUME NEW c \in Claims, RemoveClaim(c) PROVE ClaimInv'
  BY <1>0, <1>4 DEF RemoveClaim, ClaimInv
<1>5. ASSUME UNCHANGED domainVars PROVE ClaimInv'
  BY <1>5 DEF domainVars, ClaimInv
<1> QED BY <1>1, <1>2, <1>3, <1>4, <1>5, OthersLeaveDomains DEF DomainStep

\* A call keeps its type when it takes a step with a row of the type.
LEMMA CallType ==
  ASSUME DirTypeOK, NEW k \in Calls, NEW row \in {NoCall} \union CallRow,
         row.step \in {"lock", "domain", "write"} => row.name \in Accounts,
         call' = [call EXCEPT ![k] = row]
  PROVE  /\ call' \in [Calls -> {NoCall} \union CallRow]
         /\ \A j \in Calls : call'[j].step \in {"lock", "domain", "write"} =>
                              call'[j].name \in Accounts
  BY DEF DirTypeOK

LEMMA AnswerType ==
  ASSUME DirTypeOK, NEW k \in Calls, Answer(k)
  PROVE  /\ call' \in [Calls -> {NoCall} \union CallRow]
         /\ \A j \in Calls : call'[j].step \in {"lock", "domain", "write"} =>
                              call'[j].name \in Accounts
  BY CallType DEF Answer, NoCall

\* The rest of DirTypeOK when only calls change.
LEMMA CallsOnly ==
  ASSUME DirTypeOK, UNCHANGED <<teamVars, domainVars, account, token, user>>,
         /\ call' \in [Calls -> {NoCall} \union CallRow]
         /\ \A j \in Calls : call'[j].step \in {"lock", "domain", "write"} =>
                              call'[j].name \in Accounts
  PROVE  DirTypeOK'
  BY DEF DirTypeOK, TypeOK, teamVars, domainVars

LEMMA BusyCall ==
  ASSUME DirTypeOK, NEW k \in Calls, call[k].step # "none"
  PROVE  call[k] \in CallRow
  BY DEF DirTypeOK, NoCall

LEMMA AskType ==
  ASSUME DirTypeOK, NEW k \in Calls, NEW row \in CallRow, Ask(k, row),
         row.step \in {"lock", "domain", "write"} => row.name \in Accounts
  PROVE  DirTypeOK'
  BY CallType, CallsOnly DEF Ask

LEMMA CallStepType == ASSUME DirTypeOK, NEW k \in Calls, CallStep(k) PROVE DirTypeOK'
<1>1. ASSUME NEW u \in Users, NEW a \in Accounts, NEW active \in BOOLEAN, AskUpsert(k, u, a, active)
      PROVE  DirTypeOK'
  BY <1>1, AskType DEF AskUpsert, CallRow
<1>2. ASSUME NEW u \in Users, AskActivate(k, u) \/ AskDeactivate(k, u) PROVE DirTypeOK'
  BY <1>2, AskType DEF AskActivate, AskDeactivate, CallRow
<1>3. CASE FindUser(k)
  <2>1. call[k] \in CallRow /\ call[k].user \in Users
    BY <1>3, BusyCall DEF FindUser, CallRow
  <2>2. CASE Answer(k)
    BY <1>3, <2>2, AnswerType, CallsOnly DEF FindUser
  <2>3. CASE ~Answer(k)
    <3> DEFINE row == [call[k] EXCEPT !.name = user[call[k].user], !.step = "lock"]
    <3>1. user[call[k].user] \in Accounts /\ call' = [call EXCEPT ![k] = row]
      BY <1>3, <2>1, <2>3 DEF FindUser, DirTypeOK
    <3>2. row \in CallRow /\ row.name \in Accounts
      BY <2>1, <3>1 DEF CallRow
    <3> QED BY <1>3, <3>1, <3>2, CallType, CallsOnly DEF FindUser
  <2> QED BY <2>2, <2>3
<1>4. CASE LockAccount(k)
  <2>1. call[k] \in CallRow /\ call[k].name \in Accounts
    BY <1>4, BusyCall DEF LockAccount, DirTypeOK
  <2>2. CASE Answer(k)
    BY <1>4, <2>2, AnswerType, CallsOnly DEF LockAccount
  <2>3. CASE ~Answer(k)
    <3> DEFINE row == [call[k] EXCEPT !.found = account[call[k].name] # "absent",
                                      !.step = IF call[k].active THEN "domain" ELSE "write"]
    <3>1. call' = [call EXCEPT ![k] = row]
      BY <1>4, <2>3 DEF LockAccount
    <3>2. row \in CallRow /\ row.name \in Accounts
      BY <2>1 DEF CallRow
    <3> QED BY <1>4, <3>1, <3>2, CallType, CallsOnly DEF LockAccount
  <2> QED BY <2>2, <2>3
<1>5. CASE CheckDomain(k)
  <2>1. call[k] \in CallRow /\ call[k].name \in Accounts
    BY <1>5, BusyCall DEF CheckDomain, DirTypeOK
  <2>2. CASE Answer(k)
    BY <1>5, <2>2, AnswerType, CallsOnly DEF CheckDomain
  <2>3. CASE ~Answer(k)
    <3> DEFINE row == [call[k] EXCEPT !.step = "write"]
    <3>1. call' = [call EXCEPT ![k] = row]
      BY <1>5, <2>3 DEF CheckDomain
    <3>2. row \in CallRow /\ row.name \in Accounts
      BY <2>1 DEF CallRow
    <3> QED BY <1>5, <3>1, <3>2, CallType, CallsOnly DEF CheckDomain
  <2> QED BY <2>2, <2>3
<1>6. CASE WriteUser(k)
  <2>1. call[k] \in CallRow /\ call[k].name \in Accounts /\ call[k].user \in Users
    BY <1>6, BusyCall DEF WriteUser, DirTypeOK, CallRow
  <2>2. Answer(k) /\ UNCHANGED <<domainVars, token>>
    BY <1>6 DEF WriteUser
  <2>3. CASE UNCHANGED <<teamVars, account, user>>
    BY <2>2, <2>3, AnswerType, CallsOnly
  <2>4. CASE ~UNCHANGED <<teamVars, account, user>>
    <3> DEFINE a == call[k].name
    <3>1. /\ account' = [account EXCEPT ![a] = IF @ = "absent" THEN "active" ELSE @]
          /\ user' = [user EXCEPT ![call[k].user] = a]
          /\ ProvisionUser(a) \/ DeprovisionUser(a)
      BY <1>6, <2>4 DEF WriteUser
    <3>2. \/ role' = [role EXCEPT ![a] = IF @ = "none" THEN "member" ELSE @]
          \/ role' = [role EXCEPT ![a] = "none"]
      BY <3>1 DEF ProvisionUser, DeprovisionUser
    <3>3. TypeOK'
      <4>1. role' \in [Accounts -> Roles \union {"none"}]
        BY <2>1, <3>2 DEF DirTypeOK, TypeOK, Roles
      <4> QED BY <3>1, <4>1 DEF ProvisionUser, DeprovisionUser, DirTypeOK, TypeOK
    <3>4. account' \in [Accounts -> {"absent", "active", "disabled"}]
      BY <3>1 DEF DirTypeOK
    <3>5. user' \in [Users -> Accounts \union {NoAccount}]
      BY <2>1, <3>1 DEF DirTypeOK
    <3>6. \A b \in Accounts : role'[b] # "none" => account'[b] # "absent"
      BY <2>1, <3>1, <3>2 DEF DirTypeOK, TypeOK
    <3>7. \A u \in Users : user'[u] # NoAccount => account'[user'[u]] # "absent"
      BY <2>1, <3>1 DEF DirTypeOK
    <3> QED
      BY <2>2, <3>3, <3>4, <3>5, <3>6, <3>7, AnswerType DEF DirTypeOK, domainVars
  <2> QED BY <2>3, <2>4
<1>7. CASE DropUser(k)
  <2>1. call[k] \in CallRow /\ call[k].user \in Users
    BY <1>7, BusyCall DEF DropUser, CallRow
  <2>2. Answer(k) /\ UNCHANGED <<domainVars, account, token, user>>
    BY <1>7 DEF DropUser
  <2>3. CASE UNCHANGED teamVars
    BY <2>2, <2>3, AnswerType, CallsOnly
  <2>4. CASE ~UNCHANGED teamVars
    <3> DEFINE a == user[call[k].user]
    <3>1. DeprovisionUser(a) /\ a \in Accounts
      BY <1>7, <2>1, <2>4 DEF DropUser, DirTypeOK
    <3>2. TypeOK' /\ \A b \in Accounts : role'[b] # "none" => role[b] # "none"
      BY <3>1 DEF DeprovisionUser, DirTypeOK, TypeOK
    <3> QED BY <2>2, <3>2, AnswerType DEF DirTypeOK, domainVars
  <2> QED BY <2>3, <2>4
<1>8. CASE FailCall(k)
  BY <1>8, AnswerType, CallsOnly DEF FailCall
<1> QED BY <1>1, <1>2, <1>3, <1>4, <1>5, <1>6, <1>7, <1>8 DEF CallStep

LEMMA MemberStepNext == ASSUME MemberStep PROVE Next
  BY DEF MemberStep, Next, Arrive

\* Of the members' requests only BeginAccept makes one to accept, for who asks.
LEMMA ActiveAccepts ==
  ASSUME DirTypeOK, MemberStep, NEW r \in Requests, request'[r].kind = "accept"
  PROVE  \/ request'[r] = request[r]
         \/ request'[r].account \in Accounts /\ account[request'[r].account] = "active"
<1>0. request \in [Requests -> RequestKinds]
  BY DEF DirTypeOK, TypeOK, RequestKinds
<1>1. ASSUME NEW q \in Requests, NEW a \in Accounts, account[a] = "active", ArriveFrom(q, a)
      PROVE  \/ request'[r] = request[r]
             \/ request'[r].account \in Accounts /\ account[request'[r].account] = "active"
  <2>1. ASSUME NEW i \in Invites, NEW t \in Tokens, BeginAccept(q, a, i, t)
        PROVE  \/ request'[r] = request[r]
               \/ request'[r].account \in Accounts /\ account[request'[r].account] = "active"
    BY <1>0, <1>1, <2>1 DEF BeginAccept, Begin
  <2>2. ASSUME NEW req, Begin(q, req), req.kind # "accept" PROVE request'[r] = request[r]
    BY <1>0, <2>2 DEF Begin
  <2>3. ASSUME NEW b \in Accounts, BeginRemove(q, a, b) PROVE request'[r] = request[r]
    BY <2>2, <2>3 DEF BeginRemove
  <2>4. ASSUME NEW b \in Accounts, NEW to \in Roles, BeginUpdate(q, a, b, to)
        PROVE  request'[r] = request[r]
    BY <2>2, <2>4 DEF BeginUpdate
  <2>5. ASSUME NEW b \in Accounts, NEW as \in InvitableRoles, BeginInvite(q, a, b, as)
        PROVE  request'[r] = request[r]
    BY <2>2, <2>5 DEF BeginInvite
  <2>6. ASSUME NEW i \in Invites, BeginRevoke(q, a, i) \/ BeginResend(q, a, i)
        PROVE  request'[r] = request[r]
    BY <2>2, <2>6 DEF BeginRevoke, BeginResend
  <2> QED BY <1>1, <2>1, <2>3, <2>4, <2>5, <2>6 DEF ArriveFrom
<1>2. ASSUME NEW q \in Requests, Act(q) PROVE request'[r] = request[r]
  BY <1>2, ActAccepts DEF DirTypeOK
<1>3. ASSUME NEW i \in Invites, ExpireInvitation(i) PROVE request'[r] = request[r]
  BY <1>3 DEF ExpireInvitation
<1> QED BY <1>1, <1>2, <1>3 DEF MemberStep

LEMMA MemberStepType == ASSUME DInv, MemberStep PROVE DirTypeOK'
<1>1. TypeOK' /\ UNCHANGED <<domainVars, scimVars>>
  BY MemberStepNext, TypeNext DEF MemberStep, DInv, DirTypeOK
<1>2. ASSUME NEW a \in Accounts, role[a] = "none", role'[a] # "none" PROVE account[a] # "absent"
  <2>1. PICK r \in Requests : AcceptInvitation(r) /\ role' = [role EXCEPT ![request[r].account] =
                                                            invite[request[r].row].role]
    <3>1. PICK r \in Requests : Act(r)
      BY <1>2 DEF MemberStep, ExpireInvitation, ArriveFrom, BeginRemove, BeginUpdate, BeginInvite,
                  BeginRevoke, BeginResend, BeginAccept, Begin
    <3>2. AcceptInvitation(r)
      BY <1>2, <3>1 DEF DInv, DirTypeOK, TypeOK, Act, ReadTarget, CountOwners, UpdateRole,
                        RemoveMember, CreateInvitation, RevokeInvitation, ResendInvitation
    <3> QED BY <1>2, <3>2 DEF AcceptInvitation
  <2>2. a = request[r].account /\ request[r].kind = "accept"
    BY <1>2, <2>1 DEF AcceptInvitation, DInv, DirTypeOK, TypeOK
  <2> QED BY <2>2 DEF DInv, CallerInv
<1>3. \A a \in Accounts : role'[a] # "none" => account[a] # "absent"
  BY <1>2 DEF DInv, DirTypeOK
<1> QED BY <1>1, <1>3 DEF DInv, DirTypeOK, domainVars, scimVars

LEMMA DirTypeNext == ASSUME DInv, [DirNext]_dirVars PROVE DirTypeOK'
<1>1. ASSUME NEW c \in Claims, NEW t \in Teams, NEW d \in Ownable, AddClaim(c, t, d)
      PROVE  DirTypeOK'
  <2>1. [status |-> "pending", team |-> t, domain |-> d] \in ClaimRow
    BY OwnableAssumption DEF ClaimRow
  <2>2. /\ claim' = [claim EXCEPT ![c] = [status |-> "pending", team |-> t, domain |-> d]]
        /\ UNCHANGED <<teamVars, scimVars, seen>>
    BY <1>1 DEF AddClaim
  <2> QED BY <2>1, <2>2 DEF DInv, DirTypeOK, TypeOK, teamVars, scimVars
<1>2. ASSUME NEW c \in Claims, LookUp(c) PROVE DirTypeOK'
  BY <1>2 DEF LookUp, DInv, DirTypeOK, TypeOK, teamVars, scimVars
<1>3. ASSUME NEW c \in Claims, MarkVerified(c) PROVE DirTypeOK'
  <2>1. claim' \in [Claims -> {NoRow} \union ClaimRow]
    <3>1. CASE claim[c] = NoRow
      BY <1>3, <3>1 DEF MarkVerified, DInv, DirTypeOK
    <3>2. CASE claim[c] # NoRow
      <4>1. claim[c] \in ClaimRow
        BY <3>2 DEF DInv, DirTypeOK
      <4>2. [claim[c] EXCEPT !.status = "verified"] \in ClaimRow
        BY <4>1 DEF ClaimRow
      <4> QED BY <1>3, <4>2 DEF MarkVerified, DInv, DirTypeOK
    <3> QED BY <3>1, <3>2
  <2>2. seen' \subseteq Claims /\ UNCHANGED <<teamVars, scimVars>>
    BY <1>3 DEF MarkVerified, DInv, DirTypeOK
  <2> QED BY <2>1, <2>2 DEF DInv, DirTypeOK, TypeOK, teamVars, scimVars
<1>4. ASSUME NEW c \in Claims, RemoveClaim(c) PROVE DirTypeOK'
  BY <1>4 DEF RemoveClaim, DInv, DirTypeOK, TypeOK, teamVars, scimVars
<1>5. CASE CreateToken \/ LoseToken
  BY <1>5 DEF CreateToken, LoseToken, DInv, DirTypeOK, TypeOK, teamVars, domainVars
<1>6. ASSUME NEW a \in Accounts, RegisterAccount(a) \/ DisableAccount(a) PROVE DirTypeOK'
  <2>1. \E st \in {"active", "disabled"} : account' = [account EXCEPT ![a] = st]
    BY <1>6 DEF RegisterAccount, DisableAccount
  <2>2. UNCHANGED <<teamVars, domainVars, token, user, call>>
    BY <1>6 DEF RegisterAccount, DisableAccount
  <2> QED BY <2>1, <2>2 DEF DInv, DirTypeOK, TypeOK, teamVars, domainVars
<1>7. ASSUME NEW k \in Calls, CallStep(k) PROVE DirTypeOK'
  BY <1>7, CallStepType DEF DInv
<1>8. CASE MemberStep
  BY <1>8, MemberStepType
<1>9. CASE UNCHANGED dirVars
  BY <1>9 DEF dirVars, DInv, DirTypeOK, TypeOK
<1> QED
  BY <1>1, <1>2, <1>3, <1>4, <1>5, <1>6, <1>7, <1>8, <1>9 DEF DirNext, DomainStep, AccountStep

LEMMA OwnedIsOwn == ASSUME DInv, NEW a \in Accounts, Owned(a) PROVE a \in Directory
<1>1. PICK c \in Claims : /\ claim[c] # NoRow /\ claim[c].status = "verified"
                         /\ claim[c].team = Us /\ claim[c].domain = DomainOf[a]
  BY DEF Owned, Verified, Rows
<1> QED BY <1>1, OwnAccountsAssumption DEF DInv, ClaimInv

\* A call that does not step keeps what it knows of its account.
LEMMA OthersKnow ==
  ASSUME DInv, [DirNext]_dirVars, NEW k \in Calls, call'[k] = call[k],
         call[k].step \in {"domain", "write"}, call[k].active, call[k].found
  PROVE  account'[call[k].name] = "active"
<1> DEFINE b == call[k].name
<1>1. b \in Accounts /\ account[b] = "active" /\ account \in [Accounts -> {"absent", "active", "disabled"}]
  BY DEF DInv, DirTypeOK, CallInv
<1>2. ASSUME NEW a \in Accounts, RegisterAccount(a) PROVE account'[b] = "active"
  BY <1>1, <1>2 DEF RegisterAccount
<1>3. ASSUME NEW a \in Accounts, DisableAccount(a) PROVE account'[b] = "active"
  BY <1>1, <1>3 DEF DisableAccount, Holds
<1>4. ASSUME NEW j \in Calls, CallStep(j) PROVE account'[b] = "active"
  <2>1. CASE WriteUser(j)
    BY <1>1, <2>1 DEF WriteUser
  <2>2. CASE ~WriteUser(j)
    BY <1>1, <1>4, <2>2 DEF CallStep, AskUpsert, AskActivate, AskDeactivate, Ask, FindUser,
                            LockAccount, CheckDomain, DropUser, FailCall
  <2> QED BY <2>1, <2>2
<1>5. CASE DomainStep \/ CreateToken \/ LoseToken \/ MemberStep \/ UNCHANGED dirVars
  BY <1>1, <1>5 DEF DomainStep, AddClaim, LookUp, MarkVerified, RemoveClaim, CreateToken,
                    LoseToken, MemberStep, dirVars, scimVars
<1> QED BY <1>2, <1>3, <1>4, <1>5 DEF DirNext, AccountStep

\* What a call knows when it has just stepped.
Knows(k) ==
  call'[k].step \in {"domain", "write"} /\ call'[k].active =>
     /\ call'[k].found => account'[call'[k].name] = "active"
     /\ call'[k].step = "write" => call'[k].name \in Directory

LEMMA StepKnows == ASSUME DInv, NEW k \in Calls, CallStep(k) PROVE Knows(k)
<1>0. call \in [Calls -> {NoCall} \union CallRow]
  BY DEF DInv, DirTypeOK
<1>1. ASSUME Answer(k) PROVE Knows(k)
  BY <1>0, <1>1 DEF Answer, NoCall, Knows
<1>2. ASSUME NEW row \in CallRow, Ask(k, row), row.step \notin {"domain", "write"} PROVE Knows(k)
  BY <1>0, <1>2 DEF Ask, Knows
<1>3. ASSUME NEW u \in Users, NEW a \in Accounts, NEW active \in BOOLEAN, AskUpsert(k, u, a, active)
      PROVE  Knows(k)
  BY <1>2, <1>3 DEF AskUpsert, CallRow
<1>4. ASSUME NEW u \in Users, AskActivate(k, u) \/ AskDeactivate(k, u) PROVE Knows(k)
  BY <1>2, <1>4 DEF AskActivate, AskDeactivate, CallRow
<1>5. CASE FindUser(k)
  <2>1. call[k] \in CallRow
    BY <1>5, BusyCall DEF FindUser, DInv
  <2>2. Answer(k) \/ call'[k].step = "lock"
    BY <1>0, <1>5, <2>1 DEF FindUser, CallRow
  <2> QED BY <1>1, <2>2 DEF Knows
<1>6. CASE LockAccount(k)
  <2>1. call[k] \in CallRow /\ call[k].name \in Accounts
    BY <1>6, BusyCall DEF LockAccount, DInv, DirTypeOK
  <2>2. CASE Answer(k)
    BY <1>1, <2>2
  <2>3. CASE ~Answer(k) /\ call[k].active
    <3>1. /\ account[call[k].name] # "disabled" /\ account' = account
          /\ call' = [call EXCEPT ![k].found = account[call[k].name] # "absent",
                                  ![k].step = "domain"]
      BY <1>6, <2>3 DEF LockAccount
    <3>2. /\ call'[k].step = "domain" /\ call'[k].name = call[k].name
          /\ call'[k].found <=> account[call[k].name] # "absent"
      BY <1>0, <2>1, <3>1 DEF CallRow
    <3> QED BY <2>1, <3>1, <3>2 DEF Knows, DInv, DirTypeOK
  <2>4. CASE ~Answer(k) /\ ~call[k].active
    <3>1. call' = [call EXCEPT ![k].found = account[call[k].name] # "absent", ![k].step = "write"]
      BY <1>6, <2>4 DEF LockAccount
    <3>2. ~call'[k].active
      BY <1>0, <2>1, <2>4, <3>1 DEF CallRow
    <3> QED BY <3>2 DEF Knows
  <2> QED BY <2>2, <2>3, <2>4
<1>7. CASE CheckDomain(k)
  <2>1. call[k] \in CallRow /\ call[k].name \in Accounts /\ call[k].step = "domain"
    BY <1>7, BusyCall DEF CheckDomain, DInv, DirTypeOK
  <2>2. CASE Answer(k)
    BY <1>1, <2>2
  <2>3. CASE ~Answer(k)
    <3>1. /\ Owned(call[k].name) /\ account' = account
          /\ call' = [call EXCEPT ![k].step = "write"]
      BY <1>7, <2>3 DEF CheckDomain
    <3>2. /\ call'[k].name = call[k].name /\ call'[k].active = call[k].active
          /\ call'[k].found = call[k].found
      BY <1>0, <2>1, <3>1 DEF CallRow
    <3>3. call[k].name \in Directory
      BY <2>1, <3>1, OwnedIsOwn
    <3> QED BY <2>1, <3>1, <3>2, <3>3 DEF Knows, DInv, CallInv
  <2> QED BY <2>2, <2>3
<1>8. CASE WriteUser(k) \/ DropUser(k) \/ FailCall(k)
  BY <1>1, <1>8 DEF WriteUser, DropUser, FailCall
<1> QED BY <1>3, <1>4, <1>5, <1>6, <1>7, <1>8 DEF CallStep

LEMMA OneCallSteps ==
  ASSUME DInv, [DirNext]_dirVars, NEW k \in Calls
  PROVE  call'[k] = call[k] \/ CallStep(k)
<1>0. call \in [Calls -> {NoCall} \union CallRow]
  BY DEF DInv, DirTypeOK
<1>1. ASSUME NEW j \in Calls, CallStep(j), j # k PROVE call'[k] = call[k]
  <2>1. \E row : call' = [call EXCEPT ![j] = row]
    BY <1>0, <1>1 DEF CallStep, AskUpsert, AskActivate, AskDeactivate, Ask, FindUser,
                      LockAccount, CheckDomain, WriteUser, DropUser, FailCall, Answer
  <2> QED BY <1>0, <1>1, <2>1
<1>2. CASE DomainStep \/ CreateToken \/ LoseToken \/ AccountStep \/ MemberStep \/ UNCHANGED dirVars
  BY <1>2 DEF DomainStep, AddClaim, LookUp, MarkVerified, RemoveClaim, CreateToken, LoseToken,
              AccountStep, RegisterAccount, DisableAccount, MemberStep, dirVars, scimVars
<1> QED BY <1>1, <1>2 DEF DirNext

\* The directory's step is one of the team's, or leaves the team alone.
LEMMA TeamStep == ASSUME DInv, [DirNext]_dirVars PROVE [Next]_vars
<1>1. ASSUME NEW k \in Calls, WriteUser(k) PROVE [Next]_vars
  <2>1. CASE UNCHANGED teamVars
    BY <2>1 DEF teamVars, vars
  <2>2. CASE ~UNCHANGED teamVars
    <3>1. /\ call[k].step = "write" /\ call[k].name \in Accounts
          /\ IF call[k].active THEN ProvisionUser(call[k].name) ELSE DeprovisionUser(call[k].name)
      BY <1>1, <2>2 DEF WriteUser, DInv, DirTypeOK
    <3>2. call[k].active => call[k].name \in Directory
      BY <3>1 DEF DInv, CallInv
    <3> QED BY <3>1, <3>2, HasDirectoryAssumption DEF Next
  <2> QED BY <2>1, <2>2
<1>2. ASSUME NEW k \in Calls, DropUser(k) PROVE [Next]_vars
  <2>1. call[k].user \in Users
    BY <1>2, BusyCall DEF DropUser, DInv, CallRow
  <2>2. CASE UNCHANGED teamVars
    BY <2>2 DEF teamVars, vars
  <2>3. CASE ~UNCHANGED teamVars
    BY <1>2, <2>1, <2>3, HasDirectoryAssumption DEF DropUser, Next, DInv, DirTypeOK
  <2> QED BY <2>2, <2>3
<1>3. ASSUME NEW k \in Calls, CallStep(k), ~WriteUser(k), ~DropUser(k) PROVE UNCHANGED vars
  BY <1>3 DEF CallStep, AskUpsert, AskActivate, AskDeactivate, Ask, FindUser, LockAccount,
              CheckDomain, FailCall, teamVars, vars
<1>4. CASE DomainStep \/ CreateToken \/ LoseToken \/ AccountStep \/ UNCHANGED dirVars
  BY <1>4 DEF DomainStep, AddClaim, LookUp, MarkVerified, RemoveClaim, CreateToken, LoseToken,
              AccountStep, RegisterAccount, DisableAccount, dirVars, teamVars, vars
<1>5. CASE MemberStep
  BY <1>5, MemberStepNext
<1> QED BY <1>1, <1>2, <1>3, <1>4, <1>5 DEF DirNext

\* Accounts stay, and outside the members' own steps requests stand still.
LEMMA AccountsStay ==
  ASSUME DInv, [DirNext]_dirVars
  PROVE  /\ \A a \in Accounts : account[a] # "absent" => account'[a] # "absent"
         /\ MemberStep \/ request' = request
<1>0. account \in [Accounts -> {"absent", "active", "disabled"}]
  BY DEF DInv, DirTypeOK
<1>1. ASSUME NEW a \in Accounts, RegisterAccount(a) \/ DisableAccount(a)
      PROVE  request' = request /\ \A b \in Accounts : account[b] # "absent" => account'[b] # "absent"
  BY <1>0, <1>1 DEF RegisterAccount, DisableAccount, teamVars
<1>2. ASSUME NEW k \in Calls, WriteUser(k)
      PROVE  request' = request /\ \A b \in Accounts : account[b] # "absent" => account'[b] # "absent"
  BY <1>0, <1>2 DEF WriteUser, ProvisionUser, DeprovisionUser, teamVars
<1>3. ASSUME NEW k \in Calls, CallStep(k), ~WriteUser(k)
      PROVE  request' = request /\ account' = account
  BY <1>3 DEF CallStep, AskUpsert, AskActivate, AskDeactivate, Ask, FindUser, LockAccount,
              CheckDomain, DropUser, DeprovisionUser, FailCall, teamVars
<1>4. CASE DomainStep \/ CreateToken \/ LoseToken \/ UNCHANGED dirVars
  BY <1>4 DEF DomainStep, AddClaim, LookUp, MarkVerified, RemoveClaim, CreateToken, LoseToken,
              dirVars, teamVars, scimVars
<1>5. CASE MemberStep
  BY <1>5 DEF MemberStep, scimVars
<1> QED BY <1>1, <1>2, <1>3, <1>4, <1>5 DEF DirNext, AccountStep

LEMMA DirInvariant == DirSpec => []DInv
<1>1. DirInit => DInv
  <2> SUFFICES ASSUME DirInit PROVE DInv
    OBVIOUS
  <2>1. TypeOK /\ AcceptsOwnRow
    BY FoundersAssumption, NumTokensAssumption
    DEF DirInit, Init, TypeOK, Roles, InviteRow, InviteStatuses, InvitableRoles, AcceptsOwnRow,
        NoRequest
  <2>2. DirTypeOK
    BY <2>1, FoundersAssumption DEF DirInit, Init, DirTypeOK, NoCall
  <2>3. ClaimInv /\ CallInv /\ CallerInv
    BY DEF DirInit, Init, ClaimInv, CallInv, CallerInv, NoCall, NoRequest
  <2> QED BY <2>1, <2>2, <2>3 DEF DInv
<1>2. DInv /\ [DirNext]_dirVars => DInv'
  <2> SUFFICES ASSUME DInv, [DirNext]_dirVars PROVE DInv'
    OBVIOUS
  <2>1. DirTypeOK'
    BY DirTypeNext
  <2>2. AcceptsOwnRow'
    BY TeamStep, OwnRowNext DEF DInv, DirTypeOK
  <2>3. ClaimInv'
    <3>1. CASE UNCHANGED dirVars
      BY <3>1 DEF dirVars, DInv, ClaimInv
    <3> QED BY <3>1, ClaimInvNext DEF DInv
  <2>4. CallInv'
    <3> SUFFICES ASSUME NEW k \in Calls PROVE Knows(k)
      BY DEF CallInv, Knows
    <3>1. CASE CallStep(k)
      BY <3>1, StepKnows
    <3>2. CASE call'[k] = call[k]
      BY <3>2, OthersKnow DEF Knows, DInv, CallInv
    <3> QED BY <3>1, <3>2, OneCallSteps
  <2>5. CallerInv'
    <3> SUFFICES ASSUME NEW r \in Requests, request'[r].kind = "accept"
                 PROVE  account'[request'[r].account] # "absent"
      BY DEF CallerInv
    <3>1. CASE request'[r] = request[r]
      <4>1. request[r].account \in Accounts
        BY <3>1, KindTypes DEF DInv, DirTypeOK, AcceptRequest
      <4> QED BY <3>1, <4>1, AccountsStay DEF DInv, CallerInv
    <3>2. CASE request'[r] # request[r]
      BY <3>2, AccountsStay, ActiveAccepts DEF DInv
    <3> QED BY <3>1, <3>2
  <2> QED BY <2>1, <2>2, <2>3, <2>4, <2>5 DEF DInv
<1> QED BY <1>1, <1>2, PTL DEF DirSpec

(* Members, claims, tokens, SCIM users and requests keep their types, and   *)
(* whoever is a member or linked has an account.                            *)
THEOREM DirTypeCorrect == DirSpec => []DirTypeOK
  BY DirInvariant, PTL DEF DInv

(* What the directory does to the team, statement by statement, is what     *)
(* TeamMembership lets it do, so all that is proved there holds with it.    *)
THEOREM DirectoryImplementsTeam == DirSpec => Spec
<1>1. DirInit => Init
  BY DEF DirInit
<1>2. DInv /\ [DirNext]_dirVars => [Next]_vars
  BY TeamStep
<1> QED BY <1>1, <1>2, DirInvariant, PTL DEF DirSpec, Spec

(* The same in the form TLC checks.                                         *)
THEOREM ImplementsTeamHolds == DirSpec => ImplementsTeam
<1>1. [Next]_vars => [vars' # vars => Next]_vars
  OBVIOUS
<1> QED BY <1>1, DirectoryImplementsTeam, PTL DEF Spec, ImplementsTeam

(* A disabled account gets into the team by an own pending invitation at    *)
(* most, never by the directory.                                            *)
THEOREM DisabledStaysOutHolds == DirSpec => DisabledStaysOut
<1> DEFINE StaysOut ==
      \A a \in Accounts :
         account[a] = "disabled" /\ role[a] = "none" /\ role'[a] # "none" =>
            \E i \in Invites : Accepts(i) /\ invite[i].email = a
<1>1. DInv /\ [DirNext]_dirVars => StaysOut
  <2> SUFFICES ASSUME DInv, [DirNext]_dirVars, NEW a \in Accounts, account[a] = "disabled",
                      role[a] = "none", role'[a] # "none"
               PROVE  \E i \in Invites : Accepts(i) /\ invite[i].email = a
    OBVIOUS
  <2>0. role \in [Accounts -> Roles \union {"none"}]
    BY DEF DInv, DirTypeOK, TypeOK
  <2>1. ASSUME NEW k \in Calls, WriteUser(k) PROVE FALSE
    <3>1. /\ ~Clashes(call[k]) /\ call[k].step = "write" /\ call[k].name \in Accounts
          /\ IF call[k].active THEN ProvisionUser(call[k].name) ELSE DeprovisionUser(call[k].name)
      BY <2>1 DEF WriteUser, teamVars, DInv, DirTypeOK
    <3>2. a = call[k].name /\ call[k].active
      BY <2>0, <3>1 DEF ProvisionUser, DeprovisionUser
    <3>3. call[k].found
      BY <3>1, <3>2 DEF Clashes
    <3> QED BY <3>1, <3>2, <3>3 DEF DInv, CallInv
  <2>2. ASSUME NEW k \in Calls, DropUser(k) PROVE FALSE
    BY <2>0, <2>2 DEF DropUser, DeprovisionUser, teamVars
  <2>3. ASSUME NEW k \in Calls, CallStep(k), ~WriteUser(k), ~DropUser(k) PROVE FALSE
    BY <2>3 DEF CallStep, AskUpsert, AskActivate, AskDeactivate, Ask, FindUser, LockAccount,
                CheckDomain, FailCall, teamVars
  <2>4. CASE DomainStep \/ CreateToken \/ LoseToken \/ AccountStep \/ UNCHANGED dirVars
    BY <2>4 DEF DomainStep, AddClaim, LookUp, MarkVerified, RemoveClaim, CreateToken, LoseToken,
                AccountStep, RegisterAccount, DisableAccount, dirVars, teamVars
  <2>5. CASE MemberStep
    <3>1. PICK r \in Requests : Act(r)
      BY <2>5 DEF MemberStep, ExpireInvitation, ArriveFrom, BeginRemove, BeginUpdate, BeginInvite,
                  BeginRevoke, BeginResend, BeginAccept, Begin
    <3> QED BY <3>1, ActJoins DEF DInv, IInv, DirTypeOK
  <2> QED BY <2>1, <2>2, <2>3, <2>4, <2>5 DEF DirNext
<1>2. DInv /\ [DirNext]_dirVars => [StaysOut]_dirVars
  BY <1>1
<1> QED BY <1>2, DirInvariant, PTL DEF DirSpec, DisabledStaysOut

-----------------------------------------------------------------------------
(* Domains are held as DomainClaims says.                                  *)

Of(row, p) == row # NoRow /\ p = <<row.team, row.domain>>

LEMMA HeldAndFound ==
  /\ \A p : p \in Holders <=> \E c \in Claims : claim[c].status = "verified" /\ Of(claim[c], p)
  /\ \A p : p \in Found <=> \E c \in seen : Of(claim[c], p)
  /\ \A p : p \in Holders' <=> \E c \in Claims : claim'[c].status = "verified" /\ Of(claim'[c], p)
  /\ \A p : p \in Found' <=> \E c \in seen' : Of(claim'[c], p)
  BY DEF Holders, Found, Pairs, Of

LEMMA OneRow ==
  ASSUME DInv, NEW c \in Claims, NEW e \in Claims, NEW p, Of(claim[c], p), Of(claim[e], p)
  PROVE  e = c
  BY DEF DInv, ClaimInv, Of

LEMMA RowType ==
  ASSUME DInv, NEW c \in Claims, claim[c] # NoRow
  PROVE  claim[c] \in ClaimRow /\ claim[c].team \in Teams /\ claim[c].domain \in Domains
  BY DEF DInv, DirTypeOK, ClaimRow

LEMMA DomainStepMaps == ASSUME DInv, DomainStep PROVE [Abstract!Next]_(Abstract!vars)
<1>0. claim \in [Claims -> {NoRow} \union ClaimRow] /\ seen \subseteq Claims
  BY DEF DInv, DirTypeOK
<1>1. ASSUME NEW c \in Claims, NEW t \in Teams, NEW d \in Ownable, AddClaim(c, t, d)
      PROVE  Holders' = Holders /\ Found' = Found
  <2>1. /\ claim[c] = NoRow /\ c \notin seen /\ seen' = seen
        /\ claim' = [claim EXCEPT ![c] = [status |-> "pending", team |-> t, domain |-> d]]
    BY <1>1 DEF AddClaim
  <2>2. \A p : p \in Holders' <=> p \in Holders
    BY <1>0, <2>1, HeldAndFound DEF Of, NoRow
  <2>3. \A p : p \in Found' <=> p \in Found
    BY <1>0, <2>1, HeldAndFound
  <2> QED BY <2>2, <2>3
<1>2. ASSUME NEW c \in Claims, LookUp(c)
      PROVE  Abstract!Prove(claim[c].team, claim[c].domain)
  <2>1. /\ claim[c] # NoRow /\ claim' = claim /\ seen' = seen \union {c}
        /\ <<claim[c].team, claim[c].domain>> \in Controls
    BY <1>2 DEF LookUp, NoRow
  <2>2. \A p : p \in Holders' <=> p \in Holders
    BY <2>1, HeldAndFound
  <2>3. \A p : p \in Found' <=> p \in Found \/ p = <<claim[c].team, claim[c].domain>>
    BY <1>0, <2>1, HeldAndFound DEF Of
  <2> QED BY <2>1, <2>2, <2>3 DEF Abstract!Prove
<1>3. ASSUME NEW c \in Claims, MarkVerified(c)
      PROVE  \/ Holders' = Holders /\ Found' = Found
             \/ claim[c] # NoRow /\ Abstract!Lapse(claim[c].team, claim[c].domain)
             \/ claim[c] # NoRow /\ Abstract!Take(claim[c].team, claim[c].domain)
  <2>0. c \in seen /\ seen' = seen \ {c}
    BY <1>3 DEF MarkVerified
  <2>1. CASE claim[c] = NoRow
    <3>1. claim' = claim
      BY <1>3, <2>1 DEF MarkVerified
    <3>2. \A p : p \in Holders' <=> p \in Holders
      BY <3>1, HeldAndFound
    <3>3. \A p : p \in Found' <=> p \in Found
      BY <2>0, <2>1, <3>1, HeldAndFound DEF Of
    <3> QED BY <3>2, <3>3
  <2>2. CASE claim[c] # NoRow /\ claim' = claim
    <3> DEFINE pair == <<claim[c].team, claim[c].domain>>
    <3>1. \A p : p \in Holders' <=> p \in Holders
      BY <2>2, HeldAndFound
    <3>2. Of(claim[c], pair)
      BY <2>2 DEF Of
    <3>3. \A e \in seen : Of(claim[e], pair) => e = c
      BY <1>0, <3>2, OneRow
    <3>4. \A p : p \in Found' <=> p \in Found /\ p # pair
      BY <1>0, <2>0, <2>2, <3>2, <3>3, HeldAndFound DEF Of
    <3> QED BY <2>2, <3>1, <3>4 DEF Abstract!Lapse
  <2>3. CASE claim[c] # NoRow /\ claim' # claim
    <3> DEFINE pair == <<claim[c].team, claim[c].domain>>
    <3>1. /\ ~Taken(claim[c].team, claim[c].domain)
          /\ claim' = [claim EXCEPT ![c].status = "verified"]
      BY <1>3, <2>3 DEF MarkVerified
    <3>2. claim[c] \in ClaimRow /\ Of(claim[c], pair)
      BY <2>3, RowType DEF Of
    <3>3. /\ claim'[c] # NoRow /\ claim'[c].status = "verified"
          /\ claim'[c].team = claim[c].team /\ claim'[c].domain = claim[c].domain
          /\ \A e \in Claims \ {c} : claim'[e] = claim[e]
      BY <1>0, <3>1, <3>2 DEF ClaimRow, NoRow
    <3>4. \A p : Of(claim'[c], p) <=> p = pair
      BY <3>3 DEF Of
    <3>5. \A p : p \in Holders' <=> p \in Holders \/ p = pair
      <4>1. claim[c].status # "verified" \/ pair \in Holders
        BY <3>2, HeldAndFound
      <4>2. \A p : Of(claim[c], p) => p = pair
        BY DEF Of
      <4> QED BY <3>3, <3>4, <4>2, HeldAndFound
    <3>6. \A e \in seen : Of(claim[e], pair) => e = c
      BY <1>0, <3>2, OneRow
    <3>7. \A p : p \in Found' <=> p \in Found /\ p # pair
      <4>1. \A p : Of(claim[c], p) => p = pair
        BY DEF Of
      <4>2. \A p : p \in Found' <=> \E e \in seen \ {c} : Of(claim[e], p)
        BY <1>0, <2>0, <3>3, HeldAndFound
      <4> QED BY <2>0, <3>6, <4>1, <4>2, HeldAndFound
    <3>8. pair \in Found
      BY <2>0, <3>2, HeldAndFound
    <3>9. ASSUME NEW other \in Teams PROVE <<other, claim[c].domain>> \notin Holders
      <4> SUFFICES ASSUME <<other, claim[c].domain>> \in Holders PROVE FALSE
        OBVIOUS
      <4>1. PICK e \in Claims : /\ claim[e].status = "verified"
                               /\ Of(claim[e], <<other, claim[c].domain>>)
        BY HeldAndFound
      <4>2. claim[e].team = other /\ claim[e].domain = claim[c].domain /\ claim[e] # NoRow
        BY <4>1 DEF Of
      <4> QED BY <3>1, <4>1, <4>2 DEF Taken, Verified, Rows
    <3>10. Holders' = Holders \union {pair} /\ Found' = Found \ {pair}
      BY <3>5, <3>7
    <3> QED BY <2>3, <3>8, <3>9, <3>10 DEF Abstract!Take
  <2> QED BY <2>1, <2>2, <2>3
<1>4. ASSUME NEW c \in Claims, RemoveClaim(c)
      PROVE  claim[c] # NoRow /\ Abstract!Release(claim[c].team, claim[c].domain)
  <2> DEFINE pair == <<claim[c].team, claim[c].domain>>
  <2>1. claim[c] # NoRow /\ seen' = seen /\ claim' = [claim EXCEPT ![c] = NoRow]
    BY <1>4 DEF RemoveClaim
  <2>2. Of(claim[c], pair) /\ \A p : Of(claim[c], p) => p = pair
    BY <2>1 DEF Of
  <2>3. \A e \in Claims : Of(claim[e], pair) => e = c
    BY <2>2, OneRow
  <2>4. claim'[c] = NoRow /\ \A e \in Claims \ {c} : claim'[e] = claim[e]
    BY <1>0, <2>1
  <2>5. \A p : p \in Holders' <=> p \in Holders /\ p # pair
    BY <2>2, <2>3, <2>4, HeldAndFound DEF Of
  <2>6. \A p : p \in Found' <=> p \in Found /\ p # pair
    BY <1>0, <2>1, <2>2, <2>3, <2>4, HeldAndFound DEF Of
  <2>7. Holders' = Holders \ {pair} /\ Found' = Found \ {pair}
    BY <2>5, <2>6
  <2> QED BY <2>1, <2>7 DEF Abstract!Release
<1>5. \A c \in Claims : claim[c] # NoRow => claim[c].team \in Teams /\ claim[c].domain \in Domains
  BY RowType
<1>6. ASSUME NEW c \in Claims, LookUp(c) PROVE claim[c] # NoRow
  BY <1>6 DEF LookUp, NoRow
<1> QED
  BY <1>1, <1>2, <1>3, <1>4, <1>5, <1>6 DEF DomainStep, Abstract!Next, Abstract!vars

(* A domain is held by one team at a time, which took it on a record found  *)
(* for the claim it had, for any teams, claims and verifications.           *)
THEOREM ImplementsDomainClaimsHolds == DirSpec => ImplementsDomainClaims
<1>1. DirInit => Abstract!Init
  BY DEF DirInit, Abstract!Init, Holders, Found, Pairs, NoRow
<1>2. DInv /\ [DirNext]_dirVars => [Abstract!Next]_(Abstract!vars)
  <2> SUFFICES ASSUME DInv, [DirNext]_dirVars PROVE [Abstract!Next]_(Abstract!vars)
    OBVIOUS
  <2>1. CASE DomainStep
    BY <2>1, DomainStepMaps
  <2>2. CASE ~DomainStep
    <3>1. UNCHANGED domainVars
      BY <2>2, OthersLeaveDomains
    <3>2. Holders' = Holders /\ Found' = Found
      BY <3>1 DEF domainVars, Holders, Found, Pairs
    <3> QED BY <3>2 DEF Abstract!vars
  <2> QED BY <2>1, <2>2
<1> QED BY <1>1, <1>2, DirInvariant, PTL DEF DirSpec, ImplementsDomainClaims, Abstract!Spec

(* A team that holds a domain controls it and is the only one: what the     *)
(* abstract claims promise, carried over to the rows and lookups of         *)
(* TeamDirectory by the refinement.                                         *)
THEOREM HeldByOneInControlHolds == DirSpec => []Abstract!HeldByOneInControl
<1> DEFINE Inv == Abstract!HeldByOneInControl /\ Found \subseteq Controls
<1>1. Abstract!Init => Inv
  BY DEF Abstract!Init, Abstract!HeldByOneInControl
<1>2. Inv /\ [Abstract!Next]_(Abstract!vars) => Inv'
  <2> SUFFICES ASSUME Inv, [Abstract!Next]_(Abstract!vars) PROVE Inv'
    OBVIOUS
  <2>1. ASSUME NEW t \in Teams, NEW d \in Domains,
               Abstract!Lapse(t, d) \/ Abstract!Prove(t, d) \/ Abstract!Release(t, d)
        PROVE  Inv'
    <3>1. Holders' \subseteq Holders
      BY <2>1 DEF Abstract!Lapse, Abstract!Prove, Abstract!Release
    <3>2. Found' \subseteq Controls
      BY <2>1 DEF Abstract!Lapse, Abstract!Prove, Abstract!Release
    <3> QED BY <3>1, <3>2 DEF Abstract!HeldByOneInControl
  <2>2. ASSUME NEW t \in Teams, NEW d \in Domains, Abstract!Take(t, d) PROVE Inv'
    BY <2>2 DEF Abstract!Take, Abstract!HeldByOneInControl
  <2>3. CASE UNCHANGED Abstract!vars
    BY <2>3 DEF Abstract!vars, Abstract!HeldByOneInControl
  <2> QED BY <2>1, <2>2, <2>3 DEF Abstract!Next
<1> QED
  BY <1>1, <1>2, ImplementsDomainClaimsHolds, PTL DEF ImplementsDomainClaims, Abstract!Spec

=============================================================================
