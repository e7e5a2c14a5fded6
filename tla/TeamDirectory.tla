----------------------------- MODULE TeamDirectory -----------------------------
(***************************************************************************)
(* The SCIM directory of a team (scim-provisioning.service.ts) and the     *)
(* email domains that entitle it (team-domains.service.ts), composed with  *)
(* the team's members and invitations.                                     *)
(*                                                                         *)
(* A team claims a domain, publishes the claim's token in the DNS and has  *)
(* it verified; its directory may then provision accounts on that domain.  *)
(* A SCIM request passes several statements of one transaction, and the    *)
(* requests of the directory, of members and of other teams interleave     *)
(* with them.  An account and its address are one (Accounts): nothing here *)
(* depends on an address that changes.                                     *)
(*                                                                         *)
(* An administrator asks for claims and tokens: the role is looked at when *)
(* such a request comes in, and one that a founder began early may act at  *)
(* any time, so the check bounds nothing here and is left out.             *)
(***************************************************************************)
EXTENDS TeamMembership

CONSTANTS
  NoAccount,   \* "no account": the SCIM user does not exist
  Domains,
  Ownable,     \* the domains that are not shared mailboxes (normalizeDomain)
  DomainOf,    \* the email domain of each account
  Teams,
  Us,          \* the team whose directory and members are modelled
  Controls,    \* <<team, domain>>: the team can publish records in the domain
  Claims,      \* bound: rows of team_domains at a time
  Users,       \* the directory's own names (externalId) for its users
  Calls        \* SCIM requests in flight at a time

ASSUME NoAccountAssumption == NoAccount \notin Accounts
ASSUME OwnableAssumption == Ownable \subseteq Domains
ASSUME DomainOfAssumption == DomainOf \in [Accounts -> Domains]
ASSUME UsAssumption == Us \in Teams
ASSUME HasDirectoryAssumption == HasDirectory
\* The directory's own accounts are those on domains the team controls.
ASSUME OwnAccountsAssumption ==
  \A a \in Accounts : <<Us, DomainOf[a]>> \in Controls => a \in Directory

VARIABLES
  account,  \* the status of each account, "absent" before it is created
  claim,    \* the rows of team_domains
  seen,     \* claims whose record a verification has found and not yet acted on
  token,    \* the directory has a SCIM token that is live
  user,     \* the account each SCIM user is linked to
  call      \* the SCIM requests in flight

teamVars == <<role, invite, issued, request>>
domainVars == <<claim, seen>>
scimVars == <<account, token, user, call>>
dirVars == <<role, invite, issued, request, account, claim, seen, token, user, call>>

NoRow == [status |-> "none"]
ClaimRow == [status : {"pending", "verified"}, team : Teams, domain : Domains]

NoCall == [step |-> "none"]
CallRow ==
  [user : Users, name : Accounts \union {NoAccount}, active : BOOLEAN, found : BOOLEAN,
   step : {"find", "lock", "domain", "write", "drop"}]

\* What the foreign keys say is part of the type: members and linked users have an account.
DirTypeOK ==
  /\ TypeOK
  /\ account \in [Accounts -> {"absent", "active", "disabled"}]
  /\ claim \in [Claims -> {NoRow} \union ClaimRow]
  /\ seen \subseteq Claims
  /\ token \in BOOLEAN
  /\ user \in [Users -> Accounts \union {NoAccount}]
  /\ call \in [Calls -> {NoCall} \union CallRow]
  /\ \A k \in Calls : call[k].step \in {"lock", "domain", "write"} => call[k].name \in Accounts
  /\ \A a \in Accounts : role[a] # "none" => account[a] # "absent"
  /\ \A u \in Users : user[u] # NoAccount => account[user[u]] # "absent"

DirInit ==
  /\ Init
  /\ account = [a \in Accounts |-> IF a \in Founders THEN "active" ELSE "absent"]
  /\ claim = [c \in Claims |-> NoRow]
  /\ seen = {}
  /\ token = FALSE
  /\ user = [u \in Users |-> NoAccount]
  /\ call = [k \in Calls |-> NoCall]

-----------------------------------------------------------------------------
(* Domains.                                                                *)

Rows(t, d) == {c \in Claims : claim[c] # NoRow /\ claim[c].team = t /\ claim[c].domain = d}
Verified(t, d) == {c \in Rows(t, d) : claim[c].status = "verified"}

\* createTeamDomain: nothing when the team has the domain already.  An id comes
\* back only when no verification remembers it.
AddClaim(c, t, d) ==
  /\ claim[c] = NoRow
  /\ c \notin seen
  /\ Rows(t, d) = {}
  /\ claim' = [claim EXCEPT ![c] = [status |-> "pending", team |-> t, domain |-> d]]
  /\ UNCHANGED <<teamVars, scimVars, seen>>

\* verify, up to the answer of the DNS: the row is read and its record found.
LookUp(c) ==
  /\ claim[c].status = "pending"
  /\ <<claim[c].team, claim[c].domain>> \in Controls
  /\ seen' = seen \union {c}
  /\ UNCHANGED <<teamVars, scimVars, claim>>

\* Mutant: the unique index has the team too.
TakenByTeam(t, d) == Verified(t, d) # {}

\* uq_team_domains_verified_domain
Taken(t, d) == \E other \in Teams : Verified(other, d) # {}

\* markTeamDomainVerified: the row may be gone by now, or the domain be taken.
MarkVerified(c) ==
  /\ c \in seen
  /\ seen' = seen \ {c}
  /\ claim' = IF claim[c] # NoRow /\ ~Taken(claim[c].team, claim[c].domain)
                THEN [claim EXCEPT ![c].status = "verified"] ELSE claim
  /\ UNCHANGED <<teamVars, scimVars>>

RemoveClaim(c) ==
  /\ claim[c] # NoRow
  /\ claim' = [claim EXCEPT ![c] = NoRow]
  /\ UNCHANGED <<teamVars, scimVars, seen>>

\* Mutant: an account that exists is linked without asking for its domain.
OwnedOrThere(a) == account[a] # "absent" \/ Verified(Us, DomainOf[a]) # {}

Owned(a) == Verified(Us, DomainOf[a]) # {}

-----------------------------------------------------------------------------
(* Tokens and accounts.                                                    *)

CreateToken ==
  /\ ~token
  /\ token' = TRUE
  /\ UNCHANGED <<teamVars, domainVars, account, user, call>>

\* revokeTeamScimToken, or the token expires
LoseToken ==
  /\ token
  /\ token' = FALSE
  /\ UNCHANGED <<teamVars, domainVars, account, user, call>>

\* Mutant: the account is read without FOR UPDATE.
HoldsNothing(k, a) == FALSE

\* The transaction of a SCIM request holds the row of the account it found.
Holds(k, a) == call[k].step \in {"domain", "write"} /\ call[k].found /\ call[k].name = a

RegisterAccount(a) ==
  /\ account[a] = "absent"
  /\ account' = [account EXCEPT ![a] = "active"]
  /\ UNCHANGED <<teamVars, domainVars, token, user, call>>

\* deactivateAccount waits for the row; nothing makes the account active again.
DisableAccount(a) ==
  /\ account[a] = "active"
  /\ \A k \in Calls : ~Holds(k, a)
  /\ account' = [account EXCEPT ![a] = "disabled"]
  /\ UNCHANGED <<teamVars, domainVars, token, user, call>>

-----------------------------------------------------------------------------
(* SCIM requests.                                                          *)

Ask(k, row) ==
  /\ call[k] = NoCall
  /\ token
  /\ call' = [call EXCEPT ![k] = row]
  /\ UNCHANGED <<teamVars, domainVars, account, token, user>>

\* createUser, and replaceUser of a user that exists
AskUpsert(k, u, a, active) ==
  Ask(k, [user |-> u, name |-> a, active |-> active, found |-> FALSE, step |-> "lock"])

\* patchUser with active true
AskActivate(k, u) ==
  Ask(k, [user |-> u, name |-> NoAccount, active |-> TRUE, found |-> FALSE, step |-> "find"])

\* deactivateUser, and patchUser with active false
AskDeactivate(k, u) ==
  Ask(k, [user |-> u, name |-> NoAccount, active |-> FALSE, found |-> FALSE, step |-> "drop"])

Answer(k) == call' = [call EXCEPT ![k] = NoCall]

\* getTeamScimUser: the address to provision again
FindUser(k) ==
  LET u == call[k].user
  IN  /\ call[k].step = "find"
      /\ IF user[u] = NoAccount THEN Answer(k)
         ELSE call' = [call EXCEPT ![k].name = user[u], ![k].step = "lock"]
      /\ UNCHANGED <<teamVars, domainVars, account, token, user>>

\* SELECT ... FOR UPDATE: waits while another request holds the row
LockAccount(k) ==
  LET a == call[k].name
  IN  /\ call[k].step = "lock"
      /\ \A j \in Calls : ~Holds(j, a)
      /\ IF account[a] = "disabled" /\ call[k].active THEN Answer(k)
         ELSE call' = [call EXCEPT ![k].found = account[a] # "absent",
                                   ![k].step = IF call[k].active THEN "domain" ELSE "write"]
      /\ UNCHANGED <<teamVars, domainVars, account, token, user>>

CheckDomain(k) ==
  /\ call[k].step = "domain"
  /\ IF Owned(call[k].name) THEN call' = [call EXCEPT ![k].step = "write"] ELSE Answer(k)
  /\ UNCHANGED <<teamVars, domainVars, account, token, user>>

\* The unique indexes on accounts (email) and on SCIM users (team, user name)
Clashes(c) ==
  \/ ~c.found /\ account[c.name] # "absent"
  \/ \E v \in Users \ {c.user} : user[v] = c.name

\* Mutant: the account is not inserted.
LinkUser(k) ==
  LET c == call[k]
  IN  /\ c.step = "write"
      /\ IF Clashes(c) THEN UNCHANGED <<teamVars, account, user>>
         ELSE /\ user' = [user EXCEPT ![c.user] = c.name]
              /\ IF c.active THEN ProvisionUser(c.name) ELSE DeprovisionUser(c.name)
              /\ UNCHANGED account
      /\ Answer(k)
      /\ UNCHANGED <<domainVars, token>>

\* The writes of upsertTeamScimUser and its commit: the account, the
\* membership and the SCIM user, or nothing.
WriteUser(k) ==
  LET c == call[k]
  IN  /\ c.step = "write"
      /\ IF Clashes(c) THEN UNCHANGED <<teamVars, account, user>>
         ELSE /\ account' = [account EXCEPT ![c.name] = IF @ = "absent" THEN "active" ELSE @]
              /\ user' = [user EXCEPT ![c.user] = c.name]
              /\ IF c.active THEN ProvisionUser(c.name) ELSE DeprovisionUser(c.name)
      /\ Answer(k)
      /\ UNCHANGED <<domainVars, token>>

\* deactivateTeamScimUser; an unknown user is not found.
DropUser(k) ==
  LET a == user[call[k].user]
  IN  /\ call[k].step = "drop"
      /\ IF a = NoAccount THEN UNCHANGED teamVars ELSE DeprovisionUser(a)
      /\ Answer(k)
      /\ UNCHANGED <<domainVars, account, token, user>>

\* A statement fails, or the database breaks a deadlock: nothing is written.
FailCall(k) ==
  /\ call[k] # NoCall
  /\ Answer(k)
  /\ UNCHANGED <<teamVars, domainVars, account, token, user>>

-----------------------------------------------------------------------------
DomainStep ==
  \E c \in Claims :
     \/ \E t \in Teams, d \in Ownable : AddClaim(c, t, d)
     \/ LookUp(c) \/ MarkVerified(c) \/ RemoveClaim(c)

AccountStep == \E a \in Accounts : RegisterAccount(a) \/ DisableAccount(a)

CallStep(k) ==
  \/ \E u \in Users, a \in Accounts, active \in BOOLEAN : AskUpsert(k, u, a, active)
  \/ \E u \in Users : AskActivate(k, u) \/ AskDeactivate(k, u)
  \/ FindUser(k) \/ LockAccount(k) \/ CheckDomain(k) \/ WriteUser(k) \/ DropUser(k)
  \/ FailCall(k)

\* The steps of TeamMembership; who calls has an account that is active.
MemberStep ==
  /\ \/ \E r \in Requests :
          Act(r) \/ \E a \in Accounts : account[a] = "active" /\ ArriveFrom(r, a)
     \/ \E i \in Invites : ExpireInvitation(i)
  /\ UNCHANGED <<domainVars, scimVars>>

DirNext ==
  \/ DomainStep \/ CreateToken \/ LoseToken \/ AccountStep
  \/ \E k \in Calls : CallStep(k)
  \/ MemberStep

DirSpec == DirInit /\ [][DirNext]_dirVars

-----------------------------------------------------------------------------
(* Properties.                                                             *)

\* The directory, step by step, does to the team what TeamMembership says: it lets
\* in nobody but accounts on domains the team controls, whatever is claimed, verified
\* by others, removed or renamed while its requests are under way (upsertTeamScimUser).
\* TeamMembership's Spec, written so that a step that leaves the team alone is told first.
ImplementsTeam == Init /\ [][vars' # vars => Next]_vars

Pairs(S) == {<<claim[c].team, claim[c].domain>> : c \in {x \in S : claim[x] # NoRow}}
Holders == Pairs({c \in Claims : claim[c].status = "verified"})
Found == Pairs(seen)

Abstract == INSTANCE DomainClaims WITH held <- Holders, proved <- Found

\* However verifications, removals and new claims interleave with the DNS lookup, one
\* team at a time holds a domain, and each took it with a record of the very claim
\* it had (markTeamDomainVerified, uq_team_domains_verified_domain).
ImplementsDomainClaims == Abstract!Spec

\* "SCIM cannot reactivate a disabled account" (scim-provisioning.service.ts): also an
\* account disabled while its provisioning is under way gets no membership from it.
DisabledStaysOut ==
  [][\A a \in Accounts :
        account[a] = "disabled" /\ role[a] = "none" /\ role'[a] # "none" =>
           \E i \in Invites : Accepts(i) /\ invite[i].email = a]_dirVars

\* Three statements of the documents and comments that do not hold of the code.

\* "Deactivation removes that team membership" (ENTERPRISE-IDP-ONBOARDING.md:19): a
\* user the directory renames leaves the membership of the old address behind, where
\* no later deactivation of the user reaches it (replaceUser).
RenameMovesMembership ==
  [][\A u \in Users :
        user[u] # NoAccount /\ user'[u] # user[u] => role'[user[u]] = "none"]_dirVars

\* "SCIM creates or links only addresses on a domain the team has verified"
\* (ENTERPRISE-IDP-ONBOARDING.md:22): a user posted as inactive is not asked for the
\* domain, and its account is created (upsertTeamScimUser).
CreatesOwnOnly ==
  [][\A k \in Calls, a \in Accounts :
        WriteUser(k) /\ account'[a] # account[a] => a \in Directory]_dirVars

\* Removing a domain "stops SCIM provisioning on it at once"
\* (ENTERPRISE-IDP-ONBOARDING.md:93): a request past its domain check goes on.
RemovalStopsAtOnce ==
  [][\A k \in Calls, a \in Accounts :
        WriteUser(k) /\ role[a] = "none" /\ role'[a] # "none" => Owned(a)]_dirVars

=============================================================================
