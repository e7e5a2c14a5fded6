----------------------------- MODULE LoginSessions -----------------------------
(***************************************************************************)
(* Local accounts, their password credentials and their sessions           *)
(* (auth.service.ts and the account part of api-database.repository.ts).   *)
(*                                                                         *)
(* A login reads the account row, hashes the password given for a long     *)
(* time, and writes what it computed from the row it read: the count of    *)
(* failures, the lock or the reset, and then a session.  A request made in *)
(* a session is authenticated first and writes later; the changes that ask *)
(* for the password check it in a statement of their own.                  *)
(*                                                                         *)
(* Times are what is left of them.  The teams a session may act in, names, *)
(* cookies and the single sign-on of development are left out.             *)
(***************************************************************************)
EXTENDS Naturals

CONSTANTS
  Accounts, Emails, Passwords,
  Sessions,    \* session ids, used once
  Requests,    \* requests in flight at a time
  MaxFailed,   \* AUTH_MAX_FAILED_LOGIN_ATTEMPTS
  Lockout,     \* AUTH_LOCKOUT_MINUTES
  TTL          \* AUTH_SESSION_TTL_HOURS

ASSUME LimitAssumption ==
  /\ MaxFailed \in Nat \ {0}
  /\ Lockout \in Nat \ {0}
  /\ TTL \in Nat \ {0}

VARIABLES
  account,   \* accounts joined with account_password_credentials
  session,   \* account_sessions
  request,   \* what each request in flight has read
  wrongs     \* ghost: wrong passwords given for each account, up to MaxFailed

vars == <<account, session, request, wrongs>>

NoAccount == [status |-> "absent"]
\* failed counts up to MaxFailed: the code compares it with that only.
Account ==
  [status : {"active", "disabled"}, email : Emails, password : Passwords,
   failed : 0..MaxFailed, lock : 0..Lockout]

NoSession == [state |-> "unused"]
PrunedSession == [state |-> "pruned"]
Session == [state : {"open", "revoked"}, account : Accounts, left : 0..TTL]

Idle == [step |-> "idle"]
LoginRequest ==
  [step : {"login"}, account : Accounts, right : BOOLEAN,
   failed : 0..MaxFailed, lock : 0..Lockout]
RegisterRequest == [step : {"register"}, email : Emails]
IssueRequest == [step : {"issue"}, account : Accounts]
AuthedRequest ==
  [step : {"authenticated"}, session : Sessions, account : Accounts, email : Emails]
\* own: whether the password given was that of the account (a ghost)
VerifiedRequest ==
  [step : {"verified"}, account : Accounts, email : Emails, own : BOOLEAN]

RequestRecord ==
  UNION {{Idle}, LoginRequest, RegisterRequest, IssueRequest, AuthedRequest, VerifiedRequest}

TypeOK ==
  /\ account \in [Accounts -> Account \union {NoAccount}]
  /\ session \in [Sessions -> Session \union {NoSession, PrunedSession}]
  /\ request \in [Requests -> RequestRecord]
  /\ wrongs \in [Accounts -> 0..MaxFailed]

Init ==
  /\ account = [a \in Accounts |-> NoAccount]
  /\ session = [s \in Sessions |-> NoSession]
  /\ request = [r \in Requests |-> Idle]
  /\ wrongs = [a \in Accounts |-> 0]

Exists(a) == account[a] # NoAccount
UpTo(limit, n) == IF n > limit THEN limit ELSE n
HasEmail(a, email) == Exists(a) /\ account[a].email = email

Becomes(r, record) == request' = [request EXCEPT ![r] = record]

-----------------------------------------------------------------------------
(* register                                                                *)

\* findLocalAccountByEmail found nobody
StartRegister(r, email) ==
  /\ request[r] = Idle
  /\ \A a \in Accounts : ~HasEmail(a, email)
  /\ Becomes(r, [step |-> "register", email |-> email])
  /\ UNCHANGED <<account, session, wrongs>>

\* createLocalAccountWithTeam, under the unique index on the address
CreateAccount(r, a, password) ==
  /\ request[r].step = "register"
  /\ ~Exists(a)
  /\ \A b \in Accounts : ~HasEmail(b, request[r].email)
  /\ account' = [account EXCEPT ![a] = [status |-> "active", email |-> request[r].email,
                                        password |-> password, failed |-> 0, lock |-> 0]]
  /\ Becomes(r, [step |-> "issue", account |-> a])
  /\ UNCHANGED <<session, wrongs>>

-----------------------------------------------------------------------------
(* login                                                                   *)

\* Mutant: the lock is not looked at.
StartLoginLocked(r, a, password) ==
  /\ request[r] = Idle
  /\ Exists(a)
  /\ account[a].status = "active"
  /\ Becomes(r, [step |-> "login", account |-> a, right |-> password = account[a].password,
                 failed |-> account[a].failed, lock |-> account[a].lock])
  /\ UNCHANGED <<account, session, wrongs>>

\* The row is read once; absent, disabled and locked accounts are turned away.
StartLogin(r, a, password) ==
  /\ request[r] = Idle
  /\ Exists(a)
  /\ account[a].status = "active"
  /\ account[a].lock = 0
  /\ Becomes(r, [step |-> "login", account |-> a, right |-> password = account[a].password,
                 failed |-> account[a].failed, lock |-> account[a].lock])
  /\ UNCHANGED <<account, session, wrongs>>

\* recordFailedLogin: the count that was read plus one, and the lock or none
FailLogin(r) ==
  LET a == request[r].account
      count == UpTo(MaxFailed, request[r].failed + 1)
  IN  /\ request[r].step = "login"
      /\ ~request[r].right
      /\ account' = [account EXCEPT ![a].failed = count,
                                    ![a].lock = IF count = MaxFailed THEN Lockout ELSE 0]
      /\ wrongs' = [wrongs EXCEPT ![a] = UpTo(MaxFailed, @ + 1)]
      /\ Becomes(r, Idle)
      /\ UNCHANGED session

\* Mutant: a login resets the count and leaves the lock.
AcceptLoginKeepingLock(r) ==
  LET a == request[r].account IN
  /\ request[r].step = "login"
  /\ request[r].right
  /\ account' = [account EXCEPT ![a].failed = 0]
  /\ Becomes(r, [step |-> "issue", account |-> a])
  /\ UNCHANGED <<session, wrongs>>

\* resetFailedLogin
AcceptLogin(r) ==
  LET a == request[r].account IN
  /\ request[r].step = "login"
  /\ request[r].right
  /\ account' = [account EXCEPT ![a].failed = 0, ![a].lock = 0]
  /\ Becomes(r, [step |-> "issue", account |-> a])
  /\ UNCHANGED <<session, wrongs>>

\* issueSession, createSession: whatever became of the account meanwhile
IssueSession(r, s) ==
  /\ request[r].step = "issue"
  /\ session[s] = NoSession
  /\ session' = [session EXCEPT ![s] = [state |-> "open", account |-> request[r].account,
                                        left |-> TTL]]
  /\ Becomes(r, Idle)
  /\ UNCHANGED <<account, wrongs>>

-----------------------------------------------------------------------------
(* Requests made in a session.                                             *)

\* Mutant: only the row of the session is looked at.
ResolvesByRow(s) == session[s] \in Session /\ session[s].state = "open" /\ session[s].left > 0

\* resolveSession joins the account and wants it active.
Resolves(s) ==
  /\ session[s] \in Session
  /\ session[s].state = "open"
  /\ session[s].left > 0
  /\ account[session[s].account].status = "active"

\* authenticateRequest: the identity carries the address the account had.
Authenticate(r, s) ==
  LET a == session[s].account IN
  /\ request[r] = Idle
  /\ Resolves(s)
  /\ Becomes(r, [step |-> "authenticated", session |-> s, account |-> a,
                 email |-> account[a].email])
  /\ UNCHANGED <<account, session, wrongs>>

Revoked(s) == [session[s] EXCEPT !.state = "revoked"]

\* revokeSession
Logout(r) ==
  LET s == request[r].session IN
  /\ request[r].step = "authenticated"
  /\ session' = IF session[s] \in Session THEN [session EXCEPT ![s] = Revoked(s)] ELSE session
  /\ Becomes(r, Idle)
  /\ UNCHANGED <<account, wrongs>>

OwnedBy(a, s) == session[s] \in Session /\ session[s].account = a

\* Mutant: the statement sets the state of every session, not of the others.
RevokeOthersReopening(r) ==
  /\ request[r].step = "authenticated"
  /\ session' = [s \in Sessions |->
                   IF OwnedBy(request[r].account, s)
                   THEN [session[s] EXCEPT !.state = IF s = request[r].session
                                                     THEN "open" ELSE "revoked"]
                   ELSE session[s]]
  /\ Becomes(r, Idle)
  /\ UNCHANGED <<account, wrongs>>

\* revokeOtherSessions
RevokeOthers(r) ==
  /\ request[r].step = "authenticated"
  /\ session' = [s \in Sessions |->
                   IF OwnedBy(request[r].account, s) /\ s # request[r].session
                   THEN Revoked(s) ELSE session[s]]
  /\ Becomes(r, Idle)
  /\ UNCHANGED <<account, wrongs>>

Verified(r, password) ==
  [step |-> "verified", account |-> request[r].account, email |-> request[r].email,
   own |-> password = account[request[r].account].password]

\* Mutant: whoever has the address now is taken for the caller.
VerifyPasswordByEmail(r, a, password) ==
  /\ request[r].step = "authenticated"
  /\ HasEmail(a, request[r].email)
  /\ password = account[a].password
  /\ Becomes(r, Verified(r, password))
  /\ UNCHANGED <<account, session, wrongs>>

\* verifyCurrentPassword: looked up by the address of the identity, which
\* may be another account's by now
VerifyPassword(r, a, password) ==
  /\ request[r].step = "authenticated"
  /\ HasEmail(a, request[r].email)
  /\ a = request[r].account
  /\ password = account[a].password
  /\ Becomes(r, Verified(r, password))
  /\ UNCHANGED <<account, session, wrongs>>

\* Mutant: the address of a disabled account can still be changed.
ChangeEmailOfDisabled(r, email) ==
  LET a == request[r].account IN
  /\ request[r].step = "verified"
  /\ email # request[r].email
  /\ \A b \in Accounts : HasEmail(b, email) => b = a
  /\ account' = [account EXCEPT ![a].email = email]
  /\ Becomes(r, Idle)
  /\ UNCHANGED <<session, wrongs>>

\* updateProfile, updateAccountProfile with another address, under the
\* unique index; a change of the name alone needs no password and leaves
\* everything here as it is
ChangeEmail(r, email) ==
  LET a == request[r].account IN
  /\ request[r].step = "verified"
  /\ email # request[r].email
  /\ \A b \in Accounts : HasEmail(b, email) => b = a
  /\ account[a].status = "active"
  /\ account' = [account EXCEPT ![a].email = email]
  /\ Becomes(r, Idle)
  /\ UNCHANGED <<session, wrongs>>

\* changePassword, updateAccountPassword: it also clears failures and lock
ChangePassword(r, password) ==
  LET a == request[r].account IN
  /\ request[r].step = "verified"
  /\ account' = [account EXCEPT ![a].password = password, ![a].failed = 0, ![a].lock = 0]
  /\ Becomes(r, Idle)
  /\ UNCHANGED <<session, wrongs>>

\* deleteAccount, deactivateAccount: sessions and status in one transaction
DeleteAccount(r) ==
  LET a == request[r].account IN
  /\ request[r].step = "verified"
  /\ session' = [s \in Sessions |-> IF OwnedBy(a, s) THEN Revoked(s) ELSE session[s]]
  /\ account' = [account EXCEPT ![a].status = "disabled"]
  /\ Becomes(r, Idle)
  /\ UNCHANGED wrongs

\* A refusal on the way, a statement that fails, or a restart.
GiveUp(r) ==
  /\ request[r] # Idle
  /\ Becomes(r, Idle)
  /\ UNCHANGED <<account, session, wrongs>>

-----------------------------------------------------------------------------

Less(n) == IF n = 0 THEN 0 ELSE n - 1

\* Time passes for every lock and every session.
Tick ==
  /\ account' = [a \in Accounts |-> IF Exists(a) THEN [account[a] EXCEPT !.lock = Less(@)]
                                    ELSE account[a]]
  /\ session' = [s \in Sessions |-> IF session[s] \in Session
                                    THEN [session[s] EXCEPT !.left = Less(@)] ELSE session[s]]
  /\ UNCHANGED <<request, wrongs>>

\* pruneExpiredData: sessions that expired before the retention window
PruneSession(s) ==
  /\ session[s] \in Session
  /\ session[s].left = 0
  /\ session' = [session EXCEPT ![s] = PrunedSession]
  /\ UNCHANGED <<account, request, wrongs>>

LoginStep(r) ==
  \/ \E email \in Emails : StartRegister(r, email)
  \/ \E a \in Accounts, password \in Passwords : CreateAccount(r, a, password)
  \/ \E a \in Accounts, password \in Passwords : StartLogin(r, a, password)
  \/ FailLogin(r)
  \/ AcceptLogin(r)
  \/ \E s \in Sessions : IssueSession(r, s)

SessionStep(r) ==
  \/ \E s \in Sessions : Authenticate(r, s)
  \/ Logout(r)
  \/ RevokeOthers(r)
  \/ \E a \in Accounts, password \in Passwords : VerifyPassword(r, a, password)
  \/ \E email \in Emails : ChangeEmail(r, email)
  \/ \E password \in Passwords : ChangePassword(r, password)
  \/ DeleteAccount(r)

Next ==
  \/ \E r \in Requests : LoginStep(r) \/ SessionStep(r) \/ GiveUp(r)
  \/ \E s \in Sessions : PruneSession(s)
  \/ Tick

Spec == Init /\ [][Next]_vars

-----------------------------------------------------------------------------
(* Properties                                                              *)

\* An address belongs to one account, whatever registrations and changes of
\* address overlap between their lookup and their write (register,
\* updateProfile: the unique index decides).
OneAccountPerEmail ==
  \A a, b \in Accounts : Exists(a) /\ HasEmail(b, account[a].email) => a = b

\* An account is locked only while its count is at the limit, and the count
\* never runs ahead of the wrong passwords given for the account, though
\* logins write back counts they read before others wrote (login,
\* recordFailedLogin, resetFailedLogin).
LockedByFailures ==
  \A a \in Accounts : Exists(a) =>
    /\ account[a].lock > 0 => account[a].failed = MaxFailed
    /\ account[a].failed <= wrongs[a]

\* A lock ends before its time only by a login that had read the account
\* before it was locked, or by a change of the password in a session: no
\* login that finds the account locked gets anywhere.
LockOnlyCutByEarlier ==
  [][\A a \in Accounts : Exists(a) /\ account'[a].lock < account[a].lock /\ request' # request =>
       \E r \in Requests :
         /\ request[r].step \in {"login", "verified"}
         /\ request[r].account = a
         /\ request[r].step = "login" => request[r].lock = 0]_vars

\* The address, the password and the existence of an account are changed only
\* by a request that gave the password of that very account, even if addresses
\* moved from one account to another since the request was authenticated
\* (verifyCurrentPassword).
GuardedByOwnPassword ==
  [][\A a \in Accounts :
       /\ Exists(a)
       /\ \/ account'[a].email # account[a].email
          \/ account'[a].password # account[a].password
          \/ account'[a].status # account[a].status
       => \E r \in Requests :
            request[r].step = "verified" /\ request[r].account = a /\ request[r].own]_vars

\* A session that stopped resolving, because it expired, was revoked or its
\* account was disabled, never resolves again, whatever requests that it had
\* authenticated are still at work (revokeOtherSessions, resolveSession).
NoRevival ==
  [][\A s \in Sessions : session[s] # NoSession /\ ~Resolves(s) => ~Resolves(s)']_vars

\* A deleted account stays as it is: it is not activated, its address is not
\* changed by a request from before, and no request is authenticated for it,
\* also not with a session that a login issued after all sessions had been
\* revoked (deactivateAccount, createSession, updateAccountProfile).  The diagram
\* of an account has "disabled --> active" (docs/DIAGRAMS.md:605): no statement of
\* the code does that, and the directory may not (scim-provisioning.service.ts:385).
DisabledIsFinal ==
  [][\A a \in Accounts : account[a].status = "disabled" =>
       /\ account'[a].status = "disabled"
       /\ account'[a].email = account[a].email
       /\ \A r \in Requests :
            request'[r].step = "authenticated" /\ request'[r].account = a =>
              request'[r] = request[r]]_vars

\* A wrong password raises the count by one and locks the account at the
\* limit, and only a request that gave the password ends a lock before its
\* time.  Of two logins that read the same row the code counts one, and one
\* that began before the lock ends it (login, recordFailedLogin).
EveryFailureCounts ==
  [][\A a \in Accounts : Exists(a) /\ request' # request =>
       /\ \A r \in Requests :
            /\ request[r].step = "login" /\ request[r].account = a /\ ~request[r].right
            /\ request'[r] # request[r] /\ account'[a] # account[a]
            => /\ account'[a].failed = UpTo(MaxFailed, account[a].failed + 1)
               /\ account'[a].failed = MaxFailed => account'[a].lock = Lockout
       /\ account'[a].lock < account[a].lock =>
            \E r \in Requests : request[r].step = "verified" /\ request[r].account = a]_vars

\* What EveryFailureCounts takes: while a login of an account is under way, no
\* other login and no change that gave its password is.  The code does not
\* ensure it, the row is read and written in statements of their own.
AttemptsApart ==
  \A r, q \in Requests :
    /\ request[r].step = "login"
    /\ request[q].step \in {"login", "verified"}
    /\ request[r].account = request[q].account
    => r = q

=============================================================================
