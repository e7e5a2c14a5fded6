# PolyCost in TLA+

This directory holds the formal models of PolyCost: TLA+ modules translated from the
code, configurations that TLC checks on small instances, and proofs that TLAPS checks
for every value of the constants. Paths are relative to the repository; most of the
code is under `apps/api/src/`, and paths that start with `api/`, `adapters/`,
`database/`, `pricing-etl/` and so on are relative to that.

`PROJECT.json` lists the runs, which source lines each definition models (`map`), the
faults that each property is known to catch (`mutants`), the hazards and the theorems.

## 1. The system

PolyCost prices a cloud workload on AWS, Azure and GCP and compares the results. A
NestJS API (several replicas) and a React client; Postgres holds everything that lasts;
Redis holds rate-limit counters and the BullMQ queues of scheduled jobs. Requests are
handlers that `await` between SQL statements. Most handlers run their statements one by
one, each in its own transaction; `withTransaction` is used where the code says so. What
is hard is nearly always the same: a value read before an `await` and used after it, by
one of several handlers, workers or replicas.

| Component | State | Operations | What makes it correct |
|---|---|---|---|
| Provider circuit breaker (`adapters/common/circuit-breaker.ts`) | state, failure count, opening time, half-open flag, per provider and process | `execute` before and after its await, state getter | count and state agree; the flag never outlives its probe; probes a cooldown apart; a recovered provider is let in |
| Audit export outbox (`api/team-audit-export.service.ts`) | `team_audit_events`, `team_audit_event_exports` (status, attempts, lease) | record and enqueue, claim a batch, POST, mark delivered or failed, prune | nothing owed is lost or pruned, nothing is called delivered that was not, retries are bounded, every export settles |
| Team membership (`api/auth.service.ts`) | `team_memberships`, `team_invitations` | invite, resend, revoke, accept, change role, remove; SCIM provision and deactivate | one joins by one's own pending invitation, used invitations are final, an owner remains |
| Resource ownership (`api/resource-access.service.ts`) | owner, edit-key hash and expiry of comparisons and workloads | create, claim, change, refresh; the stamping and deleting sweep | claims are final, expired data stays expired, team data is never swept, anonymous data goes in the end |
| Price catalog (`pricing-etl/`, `database/pricing-catalog.repository.ts`, `api/live-pricing-refresh.service.ts`) | `pricing_catalog`, `pricing_rates`, an in-memory cache of the last live answer | ETL fetch and write, live fetch or cached answer and write, rate close and insert, prune | one current rate, no rate lost by a price change, no mass deletion by a bad feed |
| Accounts, sessions, lockout (`api/auth.service.ts`) | accounts, credentials with failed attempts, sessions | register, login, log out, change address or password, deactivate | locks follow failures, one's own password guards one's account, no session comes back |
| Rate limiting (`api/rate-limit.service.ts`) | Redis counters, in-memory fallback | consume | the limit per window, also across a Redis outage, and nobody locked out for good |
| Report export and prewarm jobs | `report_export_jobs`, `comparison_prewarm_jobs` | create, run, complete, fail, download | no job is left unfinished without a fault; its row never goes back; counts add up |
| Budgets, alerts, share links | `budgets`, `alerts`, `share_links` | evaluate, raise, dismiss; create, resolve, revoke, clean up | no second active alert for the same cause; a revoked link is dead |
| SCIM tokens and users (`api/scim-provisioning.service.ts`), team domains (`api/team-domains.service.ts`) | `team_scim_*`, `team_domains` | issue and revoke tokens, create, replace, activate and deactivate users; claim, verify and remove a domain | one team at a time holds a domain; the directory lets in accounts on its domains only, and no disabled one |
| Invoice evidence and artifacts (`api/billing.service.ts`) | the evidence document of a reconciliation under its hash, rows of stored files, objects in an external store | register, verify, review, hold, upload, purge | no update is lost; document, row and bytes agree; a held file stays |
| Pure computation: comparison orchestrator, interval costs, money, commitment policy, workload parsing, diagram import, reports, Terraform | none that lasts | functions of their input | arithmetic and selection rules |
| Provider HTTP client and retries (`adapters/common/http-client.ts`, `api/live-pricing-refresh.service.ts`) | requests under way, with their deadlines | refresh, retry, next page | every refresh ends, and the breaker sees one outcome of it |
| Adapters, secrets, health, observability, schedulers, web client, deployment | caches, sockets, metrics | I/O | mostly outside a model's reach |

How they meet: a live refresh asks the providers through their circuit breakers, writes
the catalog that the ETL run also writes and prunes, and saves a comparison under the
owner an access check returned. Team handlers record audit events, which the outbox
exports and the retention sweep prunes; the same sweep deletes anonymous comparisons and
workloads, taking their budgets, alerts and share links along.

`PROJECT.json` lists each hazard with its line under `hazards`, the properties that are about
it, and for the ones without a property where the statement that fails stands.

## 2. Modules

| Module | Models | Size of a step |
|---|---|---|
| `CircuitBreaker` | one breaker and its concurrent callers | `execute` up to its `await`; the rest of it; the getter; a tick |
| `ProviderCalls` | what runs inside a call of the breaker: retries, listings, pages, deadlines; extends `CircuitBreaker` | one `await` |
| `AuditExport` | outbox tables, workers, receiver, retention | one SQL statement or transaction; one POST |
| `DurableDelivery` | what the outbox promises: unrecorded, owed, received, forgotten | abstract |
| `TeamMembership` | the members and invitations of one team, requests in flight, the SCIM directory | resolving the session and its role; each read; the last write |
| `TeamDirectory` | accounts, domains, SCIM tokens and users beside the team; extends `TeamMembership` | one statement of a SCIM transaction, its writes with the commit; the DNS lookup; the mark after it |
| `DomainClaims` | what verified domains promise: held, proved | abstract |
| `ResourceOwnership` | ownership, expiry, requests, the sweep, team deletion | access check; write; each sweep statement in two halves (snapshot, write) |
| `PricingRefresh` | catalog and rates of one provider, ETL run, live refreshes, cache | one SQL statement; one answer of the provider |
| `LoginSessions` | accounts, credentials, sessions, requests in flight | reading the account; the write after hashing; the session; each later statement |
| `InvoiceEvidence` | one evidence document, rows of stored files, objects, requests, retention runs | reading the document; the guarded write; each call of the store |
| `RateLimit` | the counters of one scope and address: Redis and one per replica | one `consume` |
| `BackgroundJobs` | exports and prewarming of one comparison in the replicas that run them, asked for under the limit; extends `RateLimit` | one statement, which may fail before or after it took effect |
| `JobLife` | what the row of a job may show over time | abstract |
| `*Proofs` | theorems about the module they extend | |
| `MC*` | model values and symmetry for TLC | |

Where components interact, a module extends the other's and adds its state: `ProviderCalls`
the requests inside a call of the breaker, `TeamDirectory` the directory to the team,
`BackgroundJobs` the jobs to the rate limit their exports are asked for under. The others
share no state in the code either, except through the rows named above: the audit events
are a table of their own, and the price catalog knows no owners. What one component does
to another that is modelled elsewhere is an action of the environment: a workload's
deletion takes its links (`DeleteApply`), a comparison's deletion takes its jobs
(`DeleteComparison`), a failing breaker makes a fetch fail (`FetchFails`).

Operators whose comment starts with "Mutant" or "Fault" are deliberate defects. They are
no part of any specification; each stands beside the definition it would replace and
shows that a property notices it.

### 2.1 CircuitBreaker

Variables are the private fields. Node runs one callback at a time, so `execute()` up to
`await operation()` is one action (`Call`) and the continuation another (`Succeed`,
`Fail`), each with the `finally` that clears the flag (`Release`). A rejected call changes
nothing and is the negation of `Call`'s guard. Note two faithful details: `onFailure`
reads the field, not the getter, so an expired cooldown that nobody has read counts as
open and starts over; and the `finally` clears the flag for any call, not just the probe.
The code compares times and counts with limits only, so the age of the opening and the
count saturate at those limits; this loses nothing.

### 2.2 ProviderCalls

A call of the breaker is a live refresh of one group of SKUs. `retryWithBackoff` makes up to
`MaxAttempts` attempts, each reads `Listings` listings page by page, and each page is a
request that waits for its headers and then for its body (`request[c].waitsFor`). Every
attempt at GCP (`Credentials`) begins with `getAccessToken()`, inside the call: up to three
reads of Vault, one after the other, which are one await here (`SecretsArrive`); then, unless a
ready token is stored, the exchange of the account's key, a request like any other (listing 0).
Whatever goes wrong is `AttemptFails`: a pause and a new attempt, or after the last one `Fail`
of the breaker. `HeadersTimeOut` and `BodyTimesOut` are the two timers of `http-client.ts`; the
provider itself owes nothing. Two awaits have no timer of this program: an AWS list that is
spooled to a file (`Streamed`), and the reads of Vault, which are assumed to end
(`VaultAnswers`). `ImplementsBreaker` says that this implements the breaker with its fairness:
what `CircuitBreaker` assumes of its calls, that each one ends, is shown here for adapters that
do not stream, and at GCP as far as `VaultAnswers` goes.

### 2.3 AuditExport and DurableDelivery

`RecordEvent` is the transaction of event and outbox row. `Claim` is the one UPDATE with
`FOR UPDATE SKIP LOCKED`: the oldest batch of pending rows that are due or processing rows
whose 15-minute lease is over, with attempts to spare. `Post` is `deliverExport` up to the
end of its `fetch`, and the receiver may take the event though the response is lost.
`MarkDelivered` and `MarkFailed` update by id alone, as the code does, so a worker that
outlasted its lease writes over a newer result. `MarkThrows` is either mark throwing inside
the `try` of `deliverExport`, before it took effect or, when the connection goes, after: the
`catch` then marks the event as failed, also one just marked as delivered.
`Abandon` is a crash, or `markFailed` throwing in the `catch`. Clocks are two flags per row, `due` and
`stale`, that become true at any time. `PruneExports` and `PruneEvents` are the two
statements of the retention sweep, over any set of rows they may select.

`DurableDelivery` has one variable, the stage of each exported event. The refinement
mapping `Stage` reads it off the tables and the receiver; TLC checks it as a property and
TLAPS proves it.

### 2.4 TeamMembership

A request is authorised with the role that its session had on arrival, then reads
(`ReadTarget`, `CountOwners`), then writes in one transaction, and any request can come in
between. `AcceptInvitation` locks the row and checks that it is still pending;
`CreateInvitation` uses the partial unique index on pending addresses. Links are numbers:
a resend issues a new one and voids the old. To the team the directory, if it
has one (`HasDirectory`), is two steps, `ProvisionUser` and `DeprovisionUser`. Creating the
team is the initial state; renaming it, and the mock SSO login of development, are left out.

### 2.5 TeamDirectory and DomainClaims

A SCIM request is authenticated (`Ask`), looks its user up if it has to (`FindUser`), and
runs `upsertTeamScimUser`: the account is read `FOR UPDATE` (`LockAccount`; the request
`Holds` the row from then on, if there is one), the domain is checked (`CheckDomain`), and
account, membership and SCIM user are written (`WriteUser`), which a unique index may refuse
(`Clashes`). Deactivating (`DropUser`) checks nothing. Meanwhile accounts register and are
disabled, members act (`MemberStep`: only accounts that are active), and domains are claimed,
looked up, marked and removed. The statements that write and the commit are one step, as no
other transaction sees them apart; a statement that fails and a deadlock are `FailCall`.

An account and its address are one, so a change of address is left out, as is the profile
kept of a SCIM user. A token is live or not. Which administrator asks for a claim or a token
is left out: a founder's request from early on may act at any time, so the role at arrival
bounds nothing. Domains that are shared mailboxes are not `Ownable`. Domain rows are used
again, but not while a verification remembers the id.

Two refinements: through `ImplementsTeam` the whole is `TeamMembership`, where only accounts
on domains the team controls are the directory's to let in; through `ImplementsDomainClaims`
the rows are `DomainClaims`, where a team takes a domain nobody holds after a record of its
present claim was found. That the mapping holds is not in the tables alone: a lookup
remembers an id, and the row may be gone, verified or added again when the mark comes.

### 2.6 ResourceOwnership

A row has an owner (team or none), an edit key (the id of the row it was issued for) and
an expiry. Every request reads the owner in its access check and writes in a later
statement, carrying what it read. Postgres runs the sweep's statements READ COMMITTED:
each selects from its snapshot and writes afterwards, so both are split in two. The stamp
joins on the id, and hits rows that changed meanwhile; the delete joins on the `ctid`, and
does not. The expiry has a value `closing` because the sweep's clock was read earlier or
later than a request's. `TeamDeleted` is an operator's deletion, `ON DELETE SET NULL`.
Which role may do what inside a team is left out: a caller passes the check or not.

### 2.7 PricingRefresh

A writer fetches (the stamp is taken before the provider is asked), then goes through its
records: catalog rows first, then rates, where `CloseRate` and `InsertRate` are two
statements, and any statement may be rejected, fail or be the last before a crash. The
ETL run ends with the prune (`EtlFinishes`): none after a rejection, none if too few rows
are fresh, counting and deleting in one statement. A live refresh may reuse the cached
answer with its old stamp (`LiveCached`). Left out: run records, sync alerts, storage and
egress tables, which are plain inserts, and an overlap of two ETL runs.

### 2.8 LoginSessions

A login reads the account (`StartLogin`), hashes for a long time, and then writes what it
computed from the row it read: `FailLogin` the count and the lock, `AcceptLogin` the reset,
`IssueSession` the session. A request in a session is authenticated (`Authenticate`: session
open and not over, account active), and the guarded changes verify the password by the
address the session had (`VerifyPassword`) before their statement. Locks and sessions are
what is left of them, `Tick` passes time for all. `wrongs` is a ghost that counts the wrong
passwords given. Counts saturate at the limit they are compared with. Teams of a session,
cookies and the single sign-on of development are left out.

### 2.9 InvoiceEvidence

Every update of the evidence reads the document with its hash (`Read`) and writes what it
computed, if the hash is still that (`Replace`, `SameHash`); every write carries a time or a
new id, so a revision number stands for the hash. An upload is three steps: what the document
allows (`CheckUpload`), the bytes into the store (`PutObject`), row and document
(`SaveUpload`). The retention run lists rows (`ListExpired`), deletes objects one by one, and
deletes rows under its conditions (`DeleteRows`); a run that lists nothing changes nothing and
is left out. `Cascade` is the environment's: the comparison or the import run that was
reconciled is deleted (by the data sweep, once its team is), and `ON DELETE CASCADE` takes the
document and the rows, held ones too; nobody deletes the objects. From then on (`gone`)
requests find nothing. What a review, an exception or a control comparison may say are constants
(`Decisions`, `Controls`), for no property tells one value from another. `written` is a ghost: what the last
committed request on each artifact wrote. The packet, its receipt and the notary are computed
from the document; a download only records an audit event.

### 2.10 RateLimit, BackgroundJobs and JobLife

`consume` asks Redis (`ConsumeShared`), or when that fails counts in the replica's memory
(`ConsumeMemory`), where the script may yet have run in Redis. Time is what is left of each
window. ioredis may send a command again, so the shared count may be ahead of what was let
in; that makes the limit stricter and is left out. One scope and one address stand for all,
as their counters have nothing in common.

A job is a row and what a replica has under way for it. Both kinds are modelled statement by
statement with the catch block of each; a statement may fail although it took effect. A
restart loses what the replica had under way and its memory (`Restart`), and nothing picks
its jobs up again. `JobLife` is what a row may show; `ImplementsJobLife` is the refinement.
One comparison stands for all; contents of reports and reading requests are left out.

## 3. What the runs check

| Run | Instance | Distinct states | Shows |
|---|---|---|---|
| `breaker_safety` | 2 callers, threshold 3, cooldown 3; 3 attempts of 2 listings of up to 2 pages, credentials from Vault | 40 k | every refresh ends if Vault's reads do; count, state and flag agree in every order of late answers; probes of an outage are a cooldown apart; once the provider answers the circuit closes for good; the whole is the live breaker |
| `audit_export` | 3 events (one recorded with export off), 2 workers, batch 2, 2 attempts, faults | 205 k | the outbox implements `DurableDelivery`; nothing owed is pruned, and the delivered status never runs ahead of the receiver; posts are bounded by the attempts; every export settles for good, except one stranded by a crash in its last attempt |
| `team_safety` | 2 accounts, one in the directory, 2 requests, 1 invitation, 2 links | 429 k | nobody joins but by an own pending invitation or the directory; accepted and revoked are final |
| `team_directory` | 2 accounts, one on the team's domain, 2 teams, 2 claims, a SCIM user, a SCIM request and a member request at a time | 1.1 M | the directory implements its two steps of `TeamMembership`; claims implement `DomainClaims`; a disabled account stays out |
| `ownership_safety` | a comparison and a workload, 2 teams, 2 requests, sweep limit 1 | 622 k | claims are final, the expired stay expired, the sweep spares teams |
| `ownership_expires` | 2 comparisons, 1 team, 1 request | 14 k | no team row keeps an edit key; every anonymous row is deleted or claimed (where `DATA_RETENTION_ENFORCEMENT_MODE` is `delete-expired`; otherwise the sweep deletes nothing) |
| `pricing_safety` | 1 SKU with 2 dates, ETL and one live refresh, clock to 2, ratio 1/2 | 752 k | a missing current rate is explained; no step loses more than the ratio; rejected rows survive |
| `login_sessions` | 2 accounts, addresses, passwords, sessions and requests, limit 2 | 457 k | locks follow failures and end early only by earlier logins; one's own password guards one's account; what stopped resolving stays so |
| `invoice_evidence` | 2 artifacts, 2 contents, 2 requests, a retention run, 4 revisions, external store, one decision and one control result besides "none", the reconciliation deleted at any time | 1.5 M | no update is lost; document and rows agree; stored and verified files keep their bytes; the run purges nothing held |
| `background_jobs` | 2 exports and a prewarming of 2, 2 replicas, limit 1, window 2 | 425 k | rows show a life of `JobLife`; nothing unfinished without a fault; counts add up; the limit holds in each window; every count has an end |

Two runs each show where the code does something that the repository says it does not
(findings in `PROJECT.json`):

| Run | Text | What happens |
|---|---|---|
| `team_owner_race` | "At least one team owner must remain" | in a team without directory (`HasDirectory = FALSE`) and invitations, two requests each count two owners, then each take one away |
| `artifact_hold_race` | "A flag preventing deletion regardless of retention window" | a hold set while the retention run is deleting keeps the row, whose bytes are gone |

### Bounds, and why they are enough

Every violation found needs two actors and one item, so the instances have two actors of
each kind that races, and one item more than a step can take where batches or limits
matter (batch 2 of 3 events, sweep limit 1 of 2 rows). Two callers of the breaker are a late
answer and a probe; any number of them is in the proofs. Thresholds and cooldowns of 3 tell
"before", "at" and "after" apart. Attempts of 2 or 3 give a first and a last. Two links tell
a current from a replaced one. Two effective dates are a price change; two ticks are an
earlier and a later stamp. `team_directory` has one SCIM request at a time: what it races
with are accounts, domains and members, and two of them meet only at an account's row lock
and the unique indexes; the theorems have any number of them, and of invitations.

Named bounds of the models: `NumEvents`, `NumInvites`, `NumTokens`, `MaxTime`, `MaxWrites`,
`Claims`, `Calls` and the id sets (an id is used once, those of claims again). Counters that
the code does not bound are saturated where the code compares them with a limit only
(breaker, failed logins, rate limit) or bounded by a proved invariant (`PostsBounded`).
Deadlock is not checked in the models that stop at such a bound, and no request on evidence
starts after its last revision; the breaker, the directory and the jobs never stop. Symmetry
is used in safety runs only.

### Fairness, and why the code justifies it

- Breaker: the program's own timers fire, each armed for one request, the clock runs, and
  somebody goes on asking. Nothing is assumed of the provider: it may never answer. The last
  is the environment's part: nothing is probed for a provider nobody asks about.
- Vault (`VaultAnswers`, a conjunct of its own in `CallsLiveSpec`): a read of it ends, with a
  secret or an error. The code does **not** see to that: `secrets.service.ts:48` calls `fetch`
  without a signal. It is an assumption about Vault and the limits of the runtime's own `fetch`,
  and `EverySettles`, `Recovers` and `ImplementsBreaker` rest on it in the run, whose instance
  has `Credentials = TRUE`. With `Credentials = FALSE` (Azure) they hold without it.
- Outbox: the scheduler starts a flush every few minutes (BullMQ repeatable job), a
  running flush goes on, and time passes. Nothing is assumed about crashes: they may
  happen for ever, and the attempts bound what they can cost.
- Ownership: time passes and the sweep is started again and again (weak fairness). That
  not every one of its runs dies at the same statement is strong fairness of its
  statements.

No other property depends on fairness. Callers are not assumed to make progress.

### Further disagreements, stated but not among the runs

These properties quote a text of the repository and fail; each stands in its module and
can be checked by naming it in a configuration. Section 4.1 says of several of them, and of the
two findings above, under what condition they are theorems.

- `SkippedUntilCooldown` (`CircuitBreaker`; "skipped outright until a cooldown expires",
  `circuit-breaker.ts:11`): a call from before the circuit opened succeeds late and closes it.
- `OneProbeAtATime` (`CircuitBreaker`; "lets only one probe through at a time",
  `circuit-breaker.spec.ts:147`): a late failure re-opens the half-open circuit and clears
  the flag, and after the next cooldown a second probe goes out beside the first. Probes
  still start a cooldown apart, which is `ProbedOncePerCooldown`.
- `DeliveredIsFinal` (`AuditExport`; "delivered --> [*]", `docs/DIAGRAMS.md:558`): a worker
  past its lease marks failed what another delivered; and without any lease running out, a
  mark that took effect and was answered with an error is written over by the `catch`. Either
  costs a duplicate, never a loss.
- `NoneLeftProcessing` (`AuditExport`; "processing --> delivered", "processing --> failed",
  `docs/DIAGRAMS.md:555`): a crash during the last attempt leaves the row processing for ever.
- `EverySettles` of `ProviderCalls` with `Streamed = TRUE` (`http-client.ts:128`: a slow body
  "would otherwise hang untimed"): an AWS price list is spooled to a file without a deadline
  (`aws-bulk-stream.ts:38`), so one that stops coming holds its call, and a probe the circuit.
- `EverySettles` of `ProviderCalls` without `VaultAnswers`: no text promises a deadline there,
  but a Vault that takes a read and never ends it holds a GCP call in the same way
  (`secrets.service.ts:48`, awaited by `gcp-provider.adapter.ts:135`), and a probe the circuit:
  `Recovers` fails too.
- `OnlyOwnersRemoveOwners` (`TeamMembership`; `auth.service.ts:624`): an admin removes a
  member who was promoted after the read.
- `HeldRowsStay` (`InvoiceEvidence`; "A flag preventing deletion regardless of retention
  window", `docs/GLOSSARY.md:41`): the deletion of a comparison or an import run takes its
  reconciliation and with it the rows of stored files, held or not
  (`032_invoice_artifact_blobs.sql:5`). `PurgeHonoursHold` says that nothing else does.
- "disabled --> active" (`docs/DIAGRAMS.md:605`) is an arrow of an account that the code does
  not have: no statement activates an account, and the directory is refused
  (`scim-provisioning.service.ts:385`). `DisabledIsFinal` (`LoginSessions`) follows the code and
  holds; what disagrees is the diagram.
- `OwnerRemains` also fails without a race, with `HasDirectory = TRUE` or an invitation:
  an only owner who accepts an invitation gets the invited role
  (`api-database.repository.ts:3647`), and the directory may deactivate the only owner.
- `RenameMovesMembership` (`TeamDirectory`; "deactivation removes that team membership",
  `docs/ENTERPRISE-IDP-ONBOARDING.md:18`): a user whose address the directory replaces leaves
  the membership of the first address behind, and no later deactivation of it reaches that.
- `CreatesOwnOnly` (`TeamDirectory`; "creates or links only addresses on a domain the team has
  verified", `docs/ENTERPRISE-IDP-ONBOARDING.md:22`): a user posted as inactive is created
  without the check. It gets no membership. TLC shows it with `Founders = {a2}`.
- `RemovalStopsAtOnce` (`TeamDirectory`; "stops SCIM provisioning on it at once",
  `docs/ENTERPRISE-IDP-ONBOARDING.md:93`): a request that is past its check goes on.
- `TeamDataNeverExpires` (`ResourceOwnership`; `045_anonymous_expiry.sql:7`): a row claimed
  between the two halves of the stamp gets an expiry, and then reads as missing.
- `TeamRolesGovernChanges` (`ResourceOwnership`; `api-database.repository.ts:2792`): a
  share link that the edit key allowed is inserted after the claim.
- `RefreshKeepsOwner` (`ResourceOwnership`; "whoever could change the original can change the
  refresh", `comparisons.controller.ts`): the original is claimed while prices are fetched,
  and the refresh is saved anonymous.
- `PruneSparesReturned` (`PricingRefresh`; "drop live rows the provider no longer returns",
  `pricing-etl.service.ts:128`): the upsert takes the incoming stamp whatever the row has, so
  a live refresh sets it back and the ETL run prunes a row it has just fetched.
- `CompletedIsFinal` (`BackgroundJobs`; "completed --> [*]", `docs/DIAGRAMS.md:579`): the
  statement that completes a job takes effect and is answered with an error, and the catch
  block writes failed over it.

Two wrong passwords at a time are counted as one, as both write the count they read plus one:
`EveryFailureCounts` (`LoginSessions`) fails, and no text says it holds. "Up to three minutes
per reference group" (`circuit-breaker.ts:6`) counts one request per attempt, where an attempt
reads several listings of several pages; by `NearsItsEndHolds` a refresh sends at most
`MaxAttempts * (Listings + 1) * MaxPages` requests, each with its deadlines (the exchange for a
token counts as a listing), and that is the bound.

## 4. What is proved

All for any sets of actors and items and any limits, from the assumptions on constants
named in the modules and nothing else. Each proof module states the inductive invariant,
shows that it holds initially and that every action preserves it, action by action and
conjunct by conjunct, and draws the theorems from it.

| Module | Theorems | Why the invariant needs more than the property |
|---|---|---|
| `CircuitBreakerProofs` | `TypeCorrect`, `ClosedBelowThresholdHolds`, `FlagHasAProbeHolds`, `SpacingInvHolds`, `ProbedOncePerCooldownHolds`; on `ProviderCalls` `CallsTypeCorrect`, `CallsImplementSpec`, `CallsKeepBreaker`, `NearsItsEndHolds` | spacing needs `SpacingInv`: half-open comes only after a whole cooldown, a closed circuit has no old probe, and outside a probe the circuit has not been open longer than the last probe is old. `CallsImplementSpec` carries all of it over to `ProviderCalls` (`CallsKeepBreaker`). That a refresh comes nearer its end needs that page, listing and attempt are within their bounds, so that (attempt, listing, page) read as one number only grows |
| `AuditExportProofs` | `TypeCorrect`, `DeliveredWasReceivedHolds`, `PrunedOnlyIfReceivedHolds`, `OutboxInvHolds`, `PostsBoundedHolds`, `Refinement`, `NoneForgottenHolds`, `RestIsFinalHolds`, `DeliveredIsFinalApart` | delivered needs `AcceptedReceived` (a worker about to mark a delivery had its POST accepted) and `ClaimsRecorded`; the bound on posts counts what workers have claimed and not posted; the refinement maps each action to a step or a stutter under these; that none is forgotten needs `WaitingHasAttempts` (a pending row that nobody holds has attempts to spare) and `UnrecordedUntried`; that rest is final is one lemma, `RowStep`, on what any step may do to one row |
| `TeamMembershipProofs` | `TypeCorrect`, `AcceptsOwnRowHolds`, `JoinsByInvitationHolds`, `InvitationIsFinalHolds`, `OwnerRemainsApart`, `OnlyOwnersRemoveOwnersApart` | joining needs that a request's row stays addressed to its account whatever happens to the row meanwhile |
| `TeamMembershipProofs`, on `TeamDirectory` | `DirTypeCorrect`, `DirectoryImplementsTeam`, `ImplementsTeamHolds`, `DisabledStaysOutHolds`, `ImplementsDomainClaimsHolds`, `HeldByOneInControlHolds` | `CallInv`: past its lock a request to activate has an account that is active or none yet, past its check one of the directory's; `ClaimInv`: what was found or verified the team controls, and it has one row per domain, so that giving up a row gives up all that was found; `CallerInv`: who accepts has an account. `HeldByOneInControl` is proved of `DomainClaims` and carried over by the refinement: there it needs that only domains the team controls are ever found |
| `ResourceOwnershipProofs` | `TypeCorrect`, `KeyOnlyAnonymousHolds`, `ClaimedStaysHolds`, `NotRevivedHolds`, `SweepSparesTeamsHolds`, `TeamDataNeverExpiresApart`, `ChangesGovernedApart` | no key in a team needs `CarriesOne` (a change carries a team or a key, never both); not reviving needs `PickedUnstamped` (what the stamp has picked has no expiry) |
| `PricingRefreshProofs` | `TypeCorrect`, `OneCurrentRateHolds`, `RateGapExplainedHolds`, `RejectedSurviveHolds`, `PruneKeepsMostHolds`, `PruneSparesReturnedApart` | the gap needs `OpenWhileWriting` and `OneOpen` (only a writing writer is between two statements, with one record); types need `StampsPast`; survival and the prune need `Stamped` (no write takes a row away), so that the only step that loses rows is the prune, which leaves exactly the fresh ones, and enough of them |
| `LoginSessionsProofs` | `TypeCorrect`, `OneAccountPerEmailHolds`, `LockedByFailuresHolds`, `LockOnlyCutByEarlierHolds`, `GuardedByOwnPasswordHolds`, `NoRevivalHolds`, `DisabledIsFinalHolds`, `EveryFailureCountsApart` | `Carries`: what a request read of an account is bounded by what is true of it now (its count by the wrong passwords given), so a late write cannot run ahead; `Belongs`: an unrevoked session may be of a disabled account, and then only the account's status keeps it from resolving |
| `InvoiceEvidenceProofs` | `TypeCorrect`, `NoLostUpdateHolds`, `DocumentMatchesRowsHolds`, `WriteOnceHolds`, `VerifiedIsKeptHolds`, `PurgeHonoursHoldHolds`, `HeldBytesKeptApart` | `FreshReads`: a request whose hash is still right has the present document; `UploadsChecked` and `StoredDigest`: what an upload was allowed on the document it read, and a stored file's digest |
| `BackgroundJobsProofs` | `TypeCorrect`, `UnfinishedIsWorkedOnHolds`, `PrewarmAddsUpHolds`, `WindowHonouredHolds`, `TwiceAtMostHolds`, `NeverLockedOutHolds`, `ImplementsJobLifeHolds`, `CompletedIsFinalApart` | `JobsInv` ties the step of a job to what its row shows and how much it has done; `LimitInv` counts what was let in within a window and in the one before, which gives twice the limit and no more |

Type correctness, the strengthenings (`SpacingInv`, `OutboxInv`, `AcceptsOwnRow`) and what a
unique index or a refinement already gives (`OneCurrentRate`, `OneAccountPerEmail`,
`PrunedOnlyIfReceived`) are proved and no longer among the properties of the runs.

Only model-checked: liveness (`Recovers`, both `EverySettles`, `AnonymousExpires`, and of
`ImplementsBreaker` the fairness), which rests on fairness and ENABLED, and the violations,
which are counterexamples. Of both `EverySettles` the safety half is proved: a refresh has
nowhere to go but towards its end (`NearsItsEndHolds`); an export that is not settled has a
worker or a timer (`NoneForgottenHolds`), and one that is stays so (`RestIsFinalHolds`). What
TLC adds is that fairness makes those steps happen. No module uses RECURSIVE.

### 4.1 Statements that hold once an overlap is excluded

A statement of the repository that a race refutes is still worth a theorem: under which
condition is the code right? Each condition below is a definition beside the statement in the
component's module, excludes the overlaps or failures it names and nothing else, and is **not**
something the code ensures. TLC finds the statement violated without it, and found it true
under it on small instances before it was proved. A condition of the form `[][A]_vars` restricts steps, one of the form `[]P`
states. A change of the code that makes the condition true makes the statement a theorem of
the code.

| Theorem | Statement | Condition | Invariant that carries it |
|---|---|---|---|
| `OwnerRemainsApart` | `OwnerRemains` | `OneChangeAtATime`: one role change or removal is under way at a time; `OwnersLostByChanges`: an owner stops being one by these only, not by accepting an invitation or by the directory | `CountedOwners`: a request past its count that is about to take an owner away leaves another |
| `OnlyOwnersRemoveOwnersApart` | `OnlyOwnersRemoveOwners` | `TargetsStay`: nobody is made an owner between the read of a removal that names them and its write | `RemovedByOwner`: a removal past its read that names an owner was asked for by one |
| `HeldBytesKeptApart` | `HeldBytesKept` | `UploadsApart`, `HoldsWait`: no upload ends and no hold changes on what a retention run has listed; `RunsComplete`: a run that deletes objects gets to their rows | `HeldInv`: a row that a run listed is as it was listed, and its bytes are there or it is listed to go |
| `DeliveredIsFinalApart` | `DeliveredIsFinal` | `LeasesOutlast`: no lease runs out while its worker is still at the export; `MarksAnswered`: no mark that took effect is answered with an error | `HeldAlone`: one worker holds an export, and only a processing one |
| `TeamDataNeverExpiresApart` | `TeamDataNeverExpires` | `ClaimsSpareStamps`: no row moves into a team between the subselect that picks it for the stamp and the update | `PickedAnonymous`: what the stamp has picked is anonymous |
| `ChangesGovernedApart` | `RefreshKeepsOwner`, `TeamRolesGovernChanges` | `ClaimsAwaitChanges`: no row moves into a team between the check of a change and its write | `CheckedStill`: what the check returned is so |
| `PruneSparesReturnedApart` | `PruneSparesReturned` | `NoOlderWriter`: while the ETL run writes, no live refresh has rows to write from an older answer | `ReturnedFresh`: a row the run has written carries its stamp or a later one |
| `CompletedIsFinalApart` | `CompletedIsFinal` | `CompletionsAnswered`: no statement that completes a job fails after it took effect | `CompletedIsDone`: the function of a completed job has come to its end |
| `EveryFailureCountsApart` | `EveryFailureCounts` | `AttemptsApart`: while a login is under way, no other login and no change that gave the password is at the same account | `LoginIsCurrent`: the count and the lock that a login read are those of the row |

What a condition names says where a fix belongs: a lock on the rows
of the owners, a `ctid` join or a repeated predicate in the stamp (the delete has it), the
owner in the WHERE of the write, a stamp that an upsert may not lower, a count raised in SQL,
a `status = 'processing'` in the WHERE of `markFailed`.

Assumptions about the environment that the models make and the proofs therefore inherit: a
SQL statement is atomic except where section 2 splits it; partial unique indexes, foreign
keys and cascades work as declared; a webhook's 2xx means the receiver has the event; a
stamp is the millisecond clock of one process (clock skew between replicas is not
modelled).

## 5. Not modelled

`PROJECT.json` gives the reason for each component. In short:

- Most of the code by lines is text to text: the web client's pages, reports and their
  evidence, Terraform, the parsers of workloads, diagrams and invoices, the tables of
  equivalent services. It keeps no state and has no second actor; a model of it would be a
  copy of its tables. The same goes for the provider adapters' translation.
- Money and intervals are exact decimal arithmetic with BigInt: no width, no rounding state.
- Billing imports are parsed and then inserted in one transaction; what happens to a
  reconciliation afterwards is `InvoiceEvidence`.
- Budgets, alerts and share links are single guarded statements. Two evaluations at a time can
  raise one alert twice (no unique index decides); no text rules that out. What adding one
  does to a resource is in `ResourceOwnership`.
- Settings are read once at start: those that matter are CONSTANTS. Secrets are read from Vault
  when they are used; the reads inside a breaker's call are in `ProviderCalls`, the others are
  one await of a request that keeps no state meanwhile. Health and metrics change nothing. Database grants restrict statements that the models take as they are.
- The web client is the environment that sends requests; its polling of a job, which drops the
  answer of its last round (`apps/web/src/api-client.ts:1151`), changes nothing here.
  Scheduling is fairness.

Known gaps of what is modelled: the capacity and eviction of the live pricing cache, an overlap
of two ETL runs in two pods, switching the active team of a session, a change of address of an
account in a directory, a Redis that loses its own counters, clock skew between replicas.

## 6. How it was built, and what could come next

In the order of what would hurt most: breaker, outbox with its refinement, membership,
ownership, catalog; then accounts and sessions, evidence, jobs under the rate limit, the calls
inside the breaker, and the directory beside the team; each with its proofs.

What could come next: an address that changes, in `TeamDirectory` and `LoginSessions` together;
two ETL runs at a time in `PricingRefresh`; the statements of section 4.1 without their
conditions, as the code comes to ensure them; `RenameMovesMembership` where the directory
renames nobody it has not deactivated first.

## 7. Running it

    tlc -workers 2 -config MCAuditExport.cfg MCAuditExport.tla
    tlapm AuditExportProofs.tla

The longest run takes about three minutes, the longest proof about one.
