-------------------------- MODULE LoginSessionsProofs --------------------------
(***************************************************************************)
(* Proofs about LoginSessions.  The inductive invariant has a part for the *)
(* accounts, one for each request and one for each session.  It adds to    *)
(* the types and the properties what requests in flight carry: a login has *)
(* read a count that does not exceed the failures so far and no lock, and  *)
(* a verified request gave its own account's password.  The last section   *)
(* proves that every failure counts where attempts do not overlap.         *)
(***************************************************************************)
EXTENDS LoginSessions, TLAPS

AccountTypes ==
  /\ account \in [Accounts -> Account \union {NoAccount}]
  /\ wrongs \in [Accounts -> 0..MaxFailed]

AccountsInv == AccountTypes /\ OneAccountPerEmail /\ LockedByFailures

\* What a record of a request in flight may hold.
Carries(record) ==
  /\ record \in RequestRecord
  /\ record \in LoginRequest => record.failed <= wrongs[record.account] /\ record.lock = 0
  /\ record \in VerifiedRequest => record.own
  /\ record \in UNION {LoginRequest, IssueRequest, AuthedRequest, VerifiedRequest} =>
       Exists(record.account)

\* The same of the state after a step.
CarriesNext(record) ==
  /\ record \in RequestRecord
  /\ record \in LoginRequest => record.failed <= wrongs'[record.account] /\ record.lock = 0
  /\ record \in VerifiedRequest => record.own
  /\ record \in UNION {LoginRequest, IssueRequest, AuthedRequest, VerifiedRequest} =>
       account'[record.account] # NoAccount

Belongs(record) ==
  /\ record \in Session \union {NoSession, PrunedSession}
  /\ record \in Session => Exists(record.account)

IInv ==
  /\ AccountsInv
  /\ \A r \in Requests : Carries(request[r])
  /\ request \in [Requests -> RequestRecord]
  /\ \A s \in Sessions : Belongs(session[s])
  /\ session \in [Sessions -> Session \union {NoSession, PrunedSession}]

LEMMA IInvTypes == IInv => TypeOK
  BY DEF IInv, AccountsInv, AccountTypes, TypeOK

-----------------------------------------------------------------------------
(* What the record sets and the small operators give.                      *)

\* The step of a record tells which kind of request it is.
LEMMA RequestKinds ==
  ASSUME NEW x \in RequestRecord
  PROVE  /\ x.step = "login" => x \in LoginRequest
         /\ x.step = "register" => x \in RegisterRequest
         /\ x.step = "issue" => x \in IssueRequest
         /\ x.step = "authenticated" => x \in AuthedRequest
         /\ x.step = "verified" => x \in VerifiedRequest
  BY DEF RequestRecord, Idle, LoginRequest, RegisterRequest, IssueRequest,
         AuthedRequest, VerifiedRequest

\* ... and the kinds do not overlap.
LEMMA RequestSteps ==
  /\ Idle.step = "idle"
  /\ \A x \in LoginRequest : x.step = "login"
  /\ \A x \in RegisterRequest : x.step = "register"
  /\ \A x \in IssueRequest : x.step = "issue"
  /\ \A x \in AuthedRequest : x.step = "authenticated"
  /\ \A x \in VerifiedRequest : x.step = "verified"
  BY DEF Idle, LoginRequest, RegisterRequest, IssueRequest, AuthedRequest, VerifiedRequest

LEMMA NotSessions == NoSession \notin Session /\ PrunedSession \notin Session
  BY DEF NoSession, PrunedSession, Session

LEMMA NotAccount == NoAccount \notin Account
  BY DEF NoAccount, Account

LEMMA AccountKinds ==
  ASSUME IInv, NEW a \in Accounts
  PROVE  /\ Exists(a) <=> account[a] \in Account
         /\ account[a].status # "absent" => Exists(a)
<1>1. Exists(a) <=> account[a] \in Account
  BY NotAccount DEF IInv, AccountsInv, AccountTypes, Exists
<1>2. account[a].status # "absent" => Exists(a)
  BY DEF Exists, NoAccount
<1> QED BY <1>1, <1>2

-----------------------------------------------------------------------------
(* The parts of the invariant, each under the kind of change it suffers.   *)

LEMMA AccountsKept ==
  ASSUME IInv, UNCHANGED <<account, wrongs>>
  PROVE  AccountsInv'
  BY DEF IInv, AccountsInv, AccountTypes, OneAccountPerEmail, LockedByFailures, Exists, HasEmail

\* One account is written; its address is free, and count and lock agree.
LEMMA AccountWritten ==
  ASSUME IInv, NEW a \in Accounts, NEW new \in Account,
         account' = [account EXCEPT ![a] = new],
         \A b \in Accounts : HasEmail(b, new.email) => b = a,
         wrongs' \in [Accounts -> 0..MaxFailed],
         \A b \in Accounts : wrongs[b] <= wrongs'[b],
         new.lock > 0 => new.failed = MaxFailed,
         new.failed <= wrongs'[a]
  PROVE  AccountsInv'
<1> USE DEF IInv, AccountsInv, AccountTypes
<1>1. account' \in [Accounts -> Account \union {NoAccount}]
  OBVIOUS
<1>2. account'[a] = new /\ \A b \in Accounts \ {a} : account'[b] = account[b]
  OBVIOUS
<1>3. OneAccountPerEmail'
  <2> SUFFICES ASSUME NEW b \in Accounts, NEW c \in Accounts,
                      Exists(b)', HasEmail(c, account[b].email)'
               PROVE  b = c
    BY DEF OneAccountPerEmail
  <2>1. CASE b = a
    BY <1>2, <2>1 DEF HasEmail, Exists
  <2>2. CASE b # a /\ c = a
    BY <1>2, <2>2 DEF HasEmail, Exists
  <2>3. CASE b # a /\ c # a
    BY <1>2, <2>3 DEF HasEmail, Exists, OneAccountPerEmail
  <2> QED BY <2>1, <2>2, <2>3
<1>4. LockedByFailures'
  <2> SUFFICES ASSUME NEW b \in Accounts, Exists(b)'
               PROVE  /\ account'[b].lock > 0 => account'[b].failed = MaxFailed
                      /\ account'[b].failed <= wrongs'[b]
    BY DEF LockedByFailures
  <2>1. CASE b = a
    BY <1>2, <2>1
  <2>2. CASE b # a
    <3>1. account'[b] = account[b] /\ Exists(b) /\ account[b] \in Account
      BY <1>2, <2>2 DEF Exists
    <3>2. /\ account[b].failed \in 0..MaxFailed
          /\ wrongs[b] \in 0..MaxFailed /\ wrongs'[b] \in 0..MaxFailed
      BY <3>1 DEF Account
    <3>3. /\ account[b].lock > 0 => account[b].failed = MaxFailed
          /\ account[b].failed <= wrongs[b]
      BY <3>1 DEF LockedByFailures
    <3> QED BY <3>1, <3>2, <3>3, LimitAssumption
  <2> QED BY <2>1, <2>2
<1> QED BY <1>1, <1>3, <1>4

\* Accounts stay and failures only add up.
Onward == \A b \in Accounts : (Exists(b) => Exists(b)') /\ wrongs[b] <= wrongs'[b]

LEMMA OnwardKept ==
  ASSUME IInv, UNCHANGED <<account, wrongs>>
  PROVE  Onward
  BY LimitAssumption DEF Onward, Exists, IInv, AccountsInv, AccountTypes

LEMMA OnwardWritten ==
  ASSUME IInv, NEW a \in Accounts, NEW new \in Account,
         account' = [account EXCEPT ![a] = new],
         \A b \in Accounts : wrongs[b] <= wrongs'[b]
  PROVE  Onward
  BY NotAccount DEF Onward, Exists, IInv, AccountsInv, AccountTypes

LEMMA CarriesOn ==
  ASSUME IInv, Onward, NEW x, Carries(x), wrongs' \in [Accounts -> 0..MaxFailed]
  PROVE  CarriesNext(x)
<1>1. x \in RequestRecord
  BY DEF Carries
<1>2. x \in LoginRequest => x.failed <= wrongs'[x.account] /\ x.lock = 0
  <2> SUFFICES ASSUME x \in LoginRequest PROVE x.failed <= wrongs'[x.account] /\ x.lock = 0
    OBVIOUS
  <2>1. x.account \in Accounts /\ x.failed \in Nat
    BY LimitAssumption DEF LoginRequest
  <2>2. wrongs[x.account] \in Nat /\ wrongs'[x.account] \in Nat
    BY <2>1, LimitAssumption DEF IInv, AccountsInv, AccountTypes
  <2>3. x.failed <= wrongs[x.account] /\ x.lock = 0
    BY DEF Carries
  <2>4. wrongs[x.account] <= wrongs'[x.account]
    BY <2>1 DEF Onward
  <2> QED BY <2>1, <2>2, <2>3, <2>4
<1>3. x \in VerifiedRequest => x.own
  BY DEF Carries
<1>4. x \in UNION {LoginRequest, IssueRequest, AuthedRequest, VerifiedRequest} =>
        account'[x.account] # NoAccount
  BY DEF Carries, Onward, Exists, LoginRequest, IssueRequest, AuthedRequest, VerifiedRequest
<1> QED BY <1>1, <1>2, <1>3, <1>4 DEF CarriesNext

\* One request moves on with a record it may hold.
LEMMA RequestsMove ==
  ASSUME IInv, Onward, wrongs' \in [Accounts -> 0..MaxFailed],
         NEW r \in Requests, NEW new, Becomes(r, new), CarriesNext(new)
  PROVE  /\ \A q \in Requests : Carries(request[q])'
         /\ request' \in [Requests -> RequestRecord]
<1>1. request' = [request EXCEPT ![r] = new] /\ new \in RequestRecord
  BY DEF Becomes, CarriesNext
<1>2. ASSUME NEW q \in Requests PROVE CarriesNext(request'[q])
  <2>1. CASE q = r
    BY <1>1, <2>1 DEF IInv
  <2>2. CASE q # r
    BY <1>1, <2>2, CarriesOn DEF IInv
  <2> QED BY <2>1, <2>2
<1>3. \A q \in Requests : Carries(request[q])'
  BY <1>2 DEF CarriesNext, Carries, Exists
<1> QED BY <1>1, <1>3 DEF IInv

LEMMA IdleCarries == CarriesNext(Idle)
  BY RequestSteps DEF CarriesNext, RequestRecord

LEMMA SessionsKept ==
  ASSUME IInv, Onward, UNCHANGED session
  PROVE  /\ \A s \in Sessions : Belongs(session[s])'
         /\ session' \in [Sessions -> Session \union {NoSession, PrunedSession}]
  BY DEF IInv, Belongs, Onward, Session

\* Sessions change, and keep the accounts they belong to.
LEMMA SessionsChange ==
  ASSUME IInv, Onward, session' \in [Sessions -> Session \union {NoSession, PrunedSession}],
         \A s \in Sessions : session'[s] \in Session =>
           session[s] \in Session /\ session'[s].account = session[s].account
  PROVE  \A s \in Sessions : Belongs(session[s])'
  BY DEF IInv, Belongs, Onward, Session

-----------------------------------------------------------------------------
(* Every action preserves the invariant.                                   *)

LEMMA InitIInv == Init => IInv
<1> SUFFICES ASSUME Init PROVE IInv
  OBVIOUS
<1>1. AccountsInv
  BY LimitAssumption DEF Init, AccountsInv, AccountTypes, OneAccountPerEmail,
     LockedByFailures, Exists
<1>2. \A r \in Requests : request[r] = Idle /\ Carries(Idle)
  BY RequestSteps DEF Init, Carries, RequestRecord
<1>3. \A s \in Sessions : session[s] = NoSession /\ Belongs(NoSession)
  BY NotSessions DEF Init, Belongs
<1> QED BY <1>1, <1>2, <1>3 DEF IInv, Init, RequestRecord

\* A step that only moves one request.
LEMMA OnlyRequest ==
  ASSUME IInv, NEW r \in Requests, NEW new, Becomes(r, new), CarriesNext(new),
         UNCHANGED <<account, session, wrongs>>
  PROVE  IInv'
<1>1. Onward
  BY OnwardKept
<1>2. wrongs' \in [Accounts -> 0..MaxFailed]
  BY DEF IInv, AccountsInv, AccountTypes
<1> QED BY <1>1, <1>2, AccountsKept, RequestsMove, SessionsKept DEF IInv

LEMMA StartRegisterInv ==
  ASSUME IInv, NEW r \in Requests, NEW email \in Emails, StartRegister(r, email)
  PROVE  IInv'
<1> DEFINE new == [step |-> "register", email |-> email]
<1>1. new \in RegisterRequest
  BY DEF RegisterRequest
<1> HIDE DEF new
<1>2. CarriesNext(new)
  BY <1>1, RequestSteps DEF CarriesNext, RequestRecord
<1> QED BY <1>2, OnlyRequest DEF StartRegister, new

LEMMA StartLoginInv ==
  ASSUME IInv, NEW r \in Requests, NEW a \in Accounts, NEW password \in Passwords,
         StartLogin(r, a, password)
  PROVE  IInv'
<1> DEFINE new == [step |-> "login", account |-> a, right |-> password = account[a].password,
                   failed |-> account[a].failed, lock |-> account[a].lock]
<1>1. account[a] \in Account /\ account[a].lock = 0 /\ Exists(a)
  BY AccountKinds DEF StartLogin
<1>2. account[a].failed <= wrongs[a]
  BY <1>1 DEF IInv, AccountsInv, LockedByFailures
<1>3. new \in LoginRequest
  BY <1>1 DEF LoginRequest, Account
<1>4. new.account = a /\ new.failed = account[a].failed /\ new.lock = 0
  BY <1>1
<1>5. account'[a] # NoAccount /\ wrongs' = wrongs
  BY <1>1 DEF StartLogin, Exists
<1>6. Becomes(r, new) /\ UNCHANGED <<account, session, wrongs>>
  BY DEF StartLogin
<1> DEFINE failed == account[a].failed
<1>7. failed <= wrongs'[a]
  BY <1>2, <1>5
<1>8. new.failed = failed
  BY <1>4
<1> HIDE DEF new
<1>9. CarriesNext(new)
  BY <1>3, <1>4, <1>5, <1>7, <1>8, RequestSteps DEF CarriesNext, RequestRecord
<1> QED BY <1>6, <1>9, OnlyRequest

LEMMA AuthenticateInv ==
  ASSUME IInv, NEW r \in Requests, NEW s \in Sessions, Authenticate(r, s)
  PROVE  IInv'
<1> DEFINE a == session[s].account
           new == [step |-> "authenticated", session |-> s, account |-> a,
                   email |-> account[a].email]
<1>1. session[s] \in Session /\ Belongs(session[s])
  BY DEF Authenticate, Resolves, IInv
<1>2. a \in Accounts /\ Exists(a)
  BY <1>1 DEF Session, Belongs
<1>3. account[a] \in Account
  BY <1>2, AccountKinds
<1>4. new \in AuthedRequest
  BY <1>2, <1>3 DEF AuthedRequest, Account
<1>5. new.account = a /\ account'[a] # NoAccount
  BY <1>2 DEF Authenticate, Exists
<1>6. Becomes(r, new) /\ UNCHANGED <<account, session, wrongs>>
  BY DEF Authenticate
<1> HIDE DEF new, a
<1>7. CarriesNext(new)
  BY <1>4, <1>5, RequestSteps DEF CarriesNext, RequestRecord
<1> QED BY <1>6, <1>7, OnlyRequest

LEMMA VerifyPasswordInv ==
  ASSUME IInv, NEW r \in Requests, NEW a \in Accounts, NEW password \in Passwords,
         VerifyPassword(r, a, password)
  PROVE  IInv'
<1> DEFINE new == Verified(r, password)
<1>1. request[r] \in AuthedRequest /\ Exists(a) /\ a = request[r].account
  BY RequestKinds DEF VerifyPassword, HasEmail, IInv
<1>2. password = account[request[r].account].password
  BY DEF VerifyPassword
<1>3. new \in VerifiedRequest /\ new.account = a
  BY <1>1 DEF Verified, VerifiedRequest, AuthedRequest
<1>4. new.own
  BY <1>2 DEF Verified
<1>5. Becomes(r, new) /\ UNCHANGED <<account, session, wrongs>> /\ account'[a] # NoAccount
  BY <1>1 DEF VerifyPassword, Exists
<1> HIDE DEF new
<1>6. CarriesNext(new)
  BY <1>3, <1>4, <1>5, RequestSteps DEF CarriesNext, RequestRecord
<1> QED BY <1>5, <1>6, OnlyRequest

LEMMA GiveUpInv ==
  ASSUME IInv, NEW r \in Requests, GiveUp(r)
  PROVE  IInv'
  BY IdleCarries, OnlyRequest DEF GiveUp

\* A step that writes one account, and may revoke sessions.
LEMMA AccountAndRequest ==
  ASSUME IInv, NEW r \in Requests, NEW a \in Accounts, NEW new \in Account, NEW next,
         account' = [account EXCEPT ![a] = new],
         \A b \in Accounts : HasEmail(b, new.email) => b = a,
         wrongs' \in [Accounts -> 0..MaxFailed],
         \A b \in Accounts : wrongs[b] <= wrongs'[b],
         new.lock > 0 => new.failed = MaxFailed,
         new.failed <= wrongs'[a],
         Becomes(r, next), CarriesNext(next),
         session' \in [Sessions -> Session \union {NoSession, PrunedSession}],
         \A s \in Sessions : session'[s] \in Session =>
           session[s] \in Session /\ session'[s].account = session[s].account
  PROVE  IInv'
<1>1. Onward
  BY OnwardWritten
<1>2. AccountsInv'
  BY AccountWritten
<1>3. /\ \A q \in Requests : Carries(request[q])'
      /\ request' \in [Requests -> RequestRecord]
  BY <1>1, RequestsMove
<1>4. \A s \in Sessions : Belongs(session[s])'
  BY <1>1, SessionsChange
<1> QED BY <1>2, <1>3, <1>4 DEF IInv

\* A step that changes sessions and finishes a request.
LEMMA SessionsAndRequest ==
  ASSUME IInv, NEW r \in Requests, Becomes(r, Idle), UNCHANGED <<account, wrongs>>,
         session' \in [Sessions -> Session \union {NoSession, PrunedSession}],
         \A s \in Sessions : session'[s] \in Session =>
           session[s] \in Session /\ session'[s].account = session[s].account
  PROVE  IInv'
<1>1. Onward
  BY OnwardKept
<1>2. wrongs' \in [Accounts -> 0..MaxFailed]
  BY DEF IInv, AccountsInv, AccountTypes
<1>3. /\ \A q \in Requests : Carries(request[q])'
      /\ request' \in [Requests -> RequestRecord]
  BY <1>1, <1>2, IdleCarries, RequestsMove
<1>4. \A s \in Sessions : Belongs(session[s])'
  BY <1>1, SessionsChange
<1> QED BY <1>3, <1>4, AccountsKept DEF IInv

\* What the invariant says of an account that is about to be written.
LEMMA AccountFacts ==
  ASSUME IInv, NEW a \in Accounts, Exists(a)
  PROVE  /\ account[a] \in Account
         /\ \A b \in Accounts : HasEmail(b, account[a].email) => b = a
         /\ account[a].lock > 0 => account[a].failed = MaxFailed
         /\ account[a].failed <= wrongs[a]
         /\ account[a].failed \in 0..MaxFailed /\ wrongs[a] \in 0..MaxFailed
<1>1. account[a] \in Account
  BY AccountKinds
<1>2. \A b \in Accounts : HasEmail(b, account[a].email) => b = a
  BY DEF IInv, AccountsInv, OneAccountPerEmail
<1>3. /\ account[a].lock > 0 => account[a].failed = MaxFailed
      /\ account[a].failed <= wrongs[a]
  BY DEF IInv, AccountsInv, LockedByFailures
<1>4. account[a].failed \in 0..MaxFailed /\ wrongs[a] \in 0..MaxFailed
  BY <1>1 DEF Account, IInv, AccountsInv, AccountTypes
<1> QED BY <1>1, <1>2, <1>3, <1>4

LEMMA WrongsKept ==
  ASSUME IInv, UNCHANGED wrongs
  PROVE  /\ wrongs' \in [Accounts -> 0..MaxFailed]
         /\ \A b \in Accounts : wrongs[b] <= wrongs'[b]
  BY LimitAssumption DEF IInv, AccountsInv, AccountTypes

LEMMA SessionsStay ==
  ASSUME IInv, UNCHANGED session
  PROVE  /\ session' \in [Sessions -> Session \union {NoSession, PrunedSession}]
         /\ \A s \in Sessions : session'[s] \in Session =>
              session[s] \in Session /\ session'[s].account = session[s].account
  BY DEF IInv

\* Issuing for an account that exists afterwards.
LEMMA IssueCarries ==
  ASSUME NEW a \in Accounts, account'[a] # NoAccount
  PROVE  CarriesNext([step |-> "issue", account |-> a])
<1> DEFINE new == [step |-> "issue", account |-> a]
<1>1. new \in IssueRequest /\ new.account = a
  BY DEF IssueRequest
<1> HIDE DEF new
<1>2. CarriesNext(new)
  BY <1>1, RequestSteps DEF CarriesNext, RequestRecord
<1> QED BY <1>2 DEF new

LEMMA CreateAccountInv ==
  ASSUME IInv, NEW r \in Requests, NEW a \in Accounts, NEW password \in Passwords,
         CreateAccount(r, a, password)
  PROVE  IInv'
<1> DEFINE new == [status |-> "active", email |-> request[r].email, password |-> password,
                   failed |-> 0, lock |-> 0]
<1>1. request[r] \in RegisterRequest
  BY RequestKinds DEF CreateAccount, IInv
<1>2. new \in Account
  BY <1>1, LimitAssumption DEF RegisterRequest, Account
<1>3. account' = [account EXCEPT ![a] = new] /\ UNCHANGED <<session, wrongs>>
  BY DEF CreateAccount
<1>4. \A b \in Accounts : ~HasEmail(b, new.email)
  BY DEF CreateAccount
<1>5. new.failed = 0 /\ new.lock = 0
  OBVIOUS
<1> HIDE DEF new
<1>6. account'[a] # NoAccount
  BY <1>2, <1>3, NotAccount DEF IInv, AccountsInv, AccountTypes
<1>7. Becomes(r, [step |-> "issue", account |-> a])
  BY DEF CreateAccount
<1>8. new.failed <= wrongs'[a] /\ ~(new.lock > 0)
  BY <1>3, <1>5, LimitAssumption DEF IInv, AccountsInv, AccountTypes
<1> QED
  BY <1>2, <1>3, <1>4, <1>6, <1>7, <1>8, IssueCarries, WrongsKept, SessionsStay,
     AccountAndRequest

LEMMA FailLoginInv ==
  ASSUME IInv, NEW r \in Requests, FailLogin(r)
  PROVE  IInv'
<1> DEFINE a == request[r].account
           count == UpTo(MaxFailed, request[r].failed + 1)
           lock == IF count = MaxFailed THEN Lockout ELSE 0
           new == [account[a] EXCEPT !.failed = count, !.lock = lock]
<1>1. request[r] \in LoginRequest /\ Carries(request[r])
  BY RequestKinds DEF FailLogin, IInv
<1>2. /\ a \in Accounts /\ Exists(a) /\ request[r].failed \in 0..MaxFailed
      /\ request[r].failed <= wrongs[a]
  BY <1>1 DEF LoginRequest, Carries
<1>3. account[a] \in Account /\ wrongs[a] \in 0..MaxFailed
      /\ \A b \in Accounts : HasEmail(b, account[a].email) => b = a
  BY <1>2, AccountFacts
<1>4. /\ account' = [account EXCEPT ![a] = new]
      /\ wrongs' = [wrongs EXCEPT ![a] = UpTo(MaxFailed, @ + 1)]
      /\ Becomes(r, Idle) /\ UNCHANGED session
  <2>1. account' = [account EXCEPT ![a].failed = count, ![a].lock = lock]
    BY DEF FailLogin
  <2>2. account' = [account EXCEPT ![a] = new]
    BY <1>2, <2>1 DEF IInv, AccountsInv, AccountTypes
  <2> QED BY <2>2 DEF FailLogin
<1>5. count \in 0..MaxFailed /\ lock \in 0..Lockout
  BY <1>2, LimitAssumption DEF UpTo
<1>6. new \in Account /\ new.failed = count /\ new.lock = lock /\ new.email = account[a].email
  <2> HIDE DEF count, lock
  <2> QED BY <1>3, <1>5 DEF Account
<1>7. wrongs' \in [Accounts -> 0..MaxFailed] /\ \A b \in Accounts : wrongs[b] <= wrongs'[b]
  BY <1>2, <1>4, LimitAssumption DEF UpTo, IInv, AccountsInv, AccountTypes
<1>8. count <= wrongs'[a]
  BY <1>2, <1>3, <1>4, LimitAssumption DEF UpTo, IInv, AccountsInv, AccountTypes
<1>9. lock > 0 => count = MaxFailed
  OBVIOUS
<1> HIDE DEF new, count, lock, a
<1> QED
  BY <1>2, <1>3, <1>4, <1>6, <1>7, <1>8, <1>9, IdleCarries, SessionsStay, AccountAndRequest

LEMMA AcceptLoginInv ==
  ASSUME IInv, NEW r \in Requests, AcceptLogin(r)
  PROVE  IInv'
<1> DEFINE a == request[r].account
           new == [account[a] EXCEPT !.failed = 0, !.lock = 0]
<1>1. request[r] \in LoginRequest /\ Carries(request[r])
  BY RequestKinds DEF AcceptLogin, IInv
<1>2. a \in Accounts /\ Exists(a)
  BY <1>1 DEF LoginRequest, Carries
<1>3. account[a] \in Account /\ wrongs[a] \in 0..MaxFailed
      /\ \A b \in Accounts : HasEmail(b, account[a].email) => b = a
  BY <1>2, AccountFacts
<1>4. /\ account' = [account EXCEPT ![a] = new]
      /\ Becomes(r, [step |-> "issue", account |-> a]) /\ UNCHANGED <<session, wrongs>>
  BY <1>2 DEF AcceptLogin, IInv, AccountsInv, AccountTypes
<1>5. new \in Account /\ new.failed = 0 /\ new.lock = 0 /\ new.email = account[a].email
  <2>1. 0 \in 0..MaxFailed /\ 0 \in 0..Lockout
    BY LimitAssumption
  <2> QED BY <1>3, <2>1 DEF Account
<1> HIDE DEF new, a
<1>6. account'[a] # NoAccount
  BY <1>2, <1>4, <1>5, NotAccount DEF IInv, AccountsInv, AccountTypes
<1>7. new.failed <= wrongs'[a] /\ ~(new.lock > 0)
  BY <1>3, <1>4, <1>5, LimitAssumption
<1> QED
  BY <1>2, <1>3, <1>4, <1>5, <1>6, <1>7, IssueCarries, WrongsKept, SessionsStay,
     AccountAndRequest

LEMMA IssueSessionInv ==
  ASSUME IInv, NEW r \in Requests, NEW s \in Sessions, IssueSession(r, s)
  PROVE  IInv'
<1> DEFINE new == [state |-> "open", account |-> request[r].account, left |-> TTL]
<1>1. request[r] \in IssueRequest /\ Carries(request[r])
  BY RequestKinds DEF IssueSession, IInv
<1>2. request[r].account \in Accounts /\ Exists(request[r].account)
  BY <1>1 DEF IssueRequest, Carries
<1>3. new \in Session /\ new.account = request[r].account
  BY <1>2, LimitAssumption DEF Session
<1>4. /\ session' = [session EXCEPT ![s] = new]
      /\ Becomes(r, Idle) /\ UNCHANGED <<account, wrongs>>
  BY DEF IssueSession
<1> HIDE DEF new
<1>5. Onward
  BY <1>4, OnwardKept
<1>6. wrongs' \in [Accounts -> 0..MaxFailed]
  BY <1>4, WrongsKept
<1>7. /\ \A q \in Requests : Carries(request[q])'
      /\ request' \in [Requests -> RequestRecord]
  BY <1>4, <1>5, <1>6, IdleCarries, RequestsMove
<1>8. session' \in [Sessions -> Session \union {NoSession, PrunedSession}]
  BY <1>3, <1>4 DEF IInv
<1>9. ASSUME NEW t \in Sessions PROVE Belongs(session[t])'
  <2>1. CASE t = s
    BY <1>2, <1>3, <1>4, <2>1 DEF Belongs, Exists, IInv
  <2>2. CASE t # s
    BY <1>4, <2>2 DEF Belongs, Exists, IInv
  <2> QED BY <2>1, <2>2
<1> QED BY <1>4, <1>7, <1>8, <1>9, AccountsKept DEF IInv

LEMMA RevokedIs ==
  ASSUME NEW s \in Sessions, session[s] \in Session
  PROVE  Revoked(s) \in Session /\ Revoked(s).account = session[s].account
  BY DEF Revoked, Session

LEMMA LogoutInv ==
  ASSUME IInv, NEW r \in Requests, Logout(r)
  PROVE  IInv'
<1> DEFINE s == request[r].session
<1>1. request[r] \in AuthedRequest
  BY RequestKinds DEF Logout, IInv
<1>2. s \in Sessions
  BY <1>1 DEF AuthedRequest
<1>3. Becomes(r, Idle) /\ UNCHANGED <<account, wrongs>>
  BY DEF Logout
<1>4. session' = IF session[s] \in Session THEN [session EXCEPT ![s] = Revoked(s)] ELSE session
  BY DEF Logout
<1> HIDE DEF s
<1>5. /\ session' \in [Sessions -> Session \union {NoSession, PrunedSession}]
      /\ \A t \in Sessions : session'[t] \in Session =>
           session[t] \in Session /\ session'[t].account = session[t].account
  <2>1. CASE session[s] \in Session
    BY <1>2, <1>4, <2>1, RevokedIs DEF IInv
  <2>2. CASE session[s] \notin Session
    BY <1>4, <2>2 DEF IInv
  <2> QED BY <2>1, <2>2
<1> QED BY <1>3, <1>5, SessionsAndRequest

\* Revoking any set of sessions.
LEMMA RevokeSome ==
  ASSUME IInv, NEW R \in SUBSET Sessions, \A s \in R : session[s] \in Session,
         session' = [s \in Sessions |-> IF s \in R THEN Revoked(s) ELSE session[s]]
  PROVE  /\ session' \in [Sessions -> Session \union {NoSession, PrunedSession}]
         /\ \A t \in Sessions : session'[t] \in Session =>
              session[t] \in Session /\ session'[t].account = session[t].account
<1>1. ASSUME NEW t \in Sessions
      PROVE  /\ session'[t] \in Session \union {NoSession, PrunedSession}
             /\ session'[t] \in Session =>
                  session[t] \in Session /\ session'[t].account = session[t].account
  <2>1. CASE t \in R
    BY <2>1, RevokedIs
  <2>2. CASE t \notin R
    BY <2>2 DEF IInv
  <2> QED BY <2>1, <2>2
<1> QED BY <1>1

LEMMA RevokeOthersInv ==
  ASSUME IInv, NEW r \in Requests, RevokeOthers(r)
  PROVE  IInv'
<1> DEFINE R == {s \in Sessions : OwnedBy(request[r].account, s) /\ s # request[r].session}
<1>1. R \in SUBSET Sessions /\ \A s \in R : session[s] \in Session
  BY DEF OwnedBy
<1>2. session' = [s \in Sessions |-> IF s \in R THEN Revoked(s) ELSE session[s]]
  BY DEF RevokeOthers
<1>3. Becomes(r, Idle) /\ UNCHANGED <<account, wrongs>>
  BY DEF RevokeOthers
<1> HIDE DEF R
<1> QED BY <1>1, <1>2, <1>3, RevokeSome, SessionsAndRequest

\* What a request that gave its password knows of its account.
LEMMA VerifiedFacts ==
  ASSUME IInv, NEW r \in Requests, request[r].step = "verified"
  PROVE  /\ request[r].account \in Accounts /\ Exists(request[r].account)
         /\ request[r].own
<1>1. request[r] \in VerifiedRequest /\ Carries(request[r])
  BY RequestKinds DEF IInv
<1> QED BY <1>1 DEF VerifiedRequest, Carries

LEMMA ChangeEmailInv ==
  ASSUME IInv, NEW r \in Requests, NEW email \in Emails, ChangeEmail(r, email)
  PROVE  IInv'
<1> DEFINE a == request[r].account
           new == [account[a] EXCEPT !.email = email]
<1>1. a \in Accounts /\ Exists(a)
  BY VerifiedFacts DEF ChangeEmail
<1>2. /\ account[a] \in Account
      /\ account[a].lock > 0 => account[a].failed = MaxFailed
      /\ account[a].failed <= wrongs[a]
  BY <1>1, AccountFacts
<1>3. /\ account' = [account EXCEPT ![a] = new]
      /\ Becomes(r, Idle) /\ UNCHANGED <<session, wrongs>>
      /\ \A b \in Accounts : HasEmail(b, email) => b = a
  BY <1>1 DEF ChangeEmail, IInv, AccountsInv, AccountTypes
<1>4. /\ new \in Account /\ new.email = email
      /\ new.failed = account[a].failed /\ new.lock = account[a].lock
  BY <1>2 DEF Account
<1> HIDE DEF new, a
<1> QED
  BY <1>1, <1>2, <1>3, <1>4, IdleCarries, WrongsKept, SessionsStay, AccountAndRequest

LEMMA ChangePasswordInv ==
  ASSUME IInv, NEW r \in Requests, NEW password \in Passwords, ChangePassword(r, password)
  PROVE  IInv'
<1> DEFINE a == request[r].account
           new == [account[a] EXCEPT !.password = password, !.failed = 0, !.lock = 0]
<1>1. a \in Accounts /\ Exists(a)
  BY VerifiedFacts DEF ChangePassword
<1>2. account[a] \in Account /\ wrongs[a] \in 0..MaxFailed
      /\ \A b \in Accounts : HasEmail(b, account[a].email) => b = a
  BY <1>1, AccountFacts
<1>3. /\ account' = [account EXCEPT ![a] = new]
      /\ Becomes(r, Idle) /\ UNCHANGED <<session, wrongs>>
  BY <1>1 DEF ChangePassword, IInv, AccountsInv, AccountTypes
<1>4. new \in Account /\ new.failed = 0 /\ new.lock = 0 /\ new.email = account[a].email
  <2>1. 0 \in 0..MaxFailed /\ 0 \in 0..Lockout
    BY LimitAssumption
  <2> QED BY <1>2, <2>1 DEF Account
<1> HIDE DEF new, a
<1>5. new.failed <= wrongs'[a] /\ ~(new.lock > 0)
  BY <1>2, <1>3, <1>4, LimitAssumption
<1> QED
  BY <1>1, <1>2, <1>3, <1>4, <1>5, IdleCarries, WrongsKept, SessionsStay, AccountAndRequest

LEMMA DeleteAccountInv ==
  ASSUME IInv, NEW r \in Requests, DeleteAccount(r)
  PROVE  IInv'
<1> DEFINE a == request[r].account
           new == [account[a] EXCEPT !.status = "disabled"]
           R == {s \in Sessions : OwnedBy(a, s)}
<1>1. a \in Accounts /\ Exists(a)
  BY VerifiedFacts DEF DeleteAccount
<1>2. /\ account[a] \in Account
      /\ \A b \in Accounts : HasEmail(b, account[a].email) => b = a
      /\ account[a].lock > 0 => account[a].failed = MaxFailed
      /\ account[a].failed <= wrongs[a]
  BY <1>1, AccountFacts
<1>3. /\ account' = [account EXCEPT ![a] = new]
      /\ Becomes(r, Idle) /\ UNCHANGED wrongs
  BY <1>1 DEF DeleteAccount, IInv, AccountsInv, AccountTypes
<1>4. /\ new \in Account /\ new.email = account[a].email
      /\ new.failed = account[a].failed /\ new.lock = account[a].lock
  BY <1>2 DEF Account
<1>5. R \in SUBSET Sessions /\ \A s \in R : session[s] \in Session
  BY DEF OwnedBy
<1>6. session' = [s \in Sessions |-> IF s \in R THEN Revoked(s) ELSE session[s]]
  BY DEF DeleteAccount
<1> HIDE DEF new, a, R
<1> QED
  BY <1>1, <1>2, <1>3, <1>4, <1>5, <1>6, IdleCarries, WrongsKept, RevokeSome, AccountAndRequest

LEMMA PruneSessionInv ==
  ASSUME IInv, NEW s \in Sessions, PruneSession(s)
  PROVE  IInv'
<1>1. UNCHANGED <<account, request, wrongs>> /\ session' = [session EXCEPT ![s] = PrunedSession]
  BY DEF PruneSession
<1>2. \A q \in Requests : Carries(request[q])'
  BY <1>1 DEF IInv, Carries, Exists
<1>3. \A t \in Sessions : Belongs(session[t])'
  BY <1>1, NotSessions DEF IInv, Belongs, Exists
<1>4. session' \in [Sessions -> Session \union {NoSession, PrunedSession}]
  BY <1>1 DEF IInv
<1> QED BY <1>1, <1>2, <1>3, <1>4, AccountsKept DEF IInv

LEMMA LessIs ==
  ASSUME NEW limit \in Nat, NEW n \in 0..limit
  PROVE  Less(n) \in 0..limit /\ Less(n) <= n /\ (Less(n) > 0 => n > 0)
  BY DEF Less

LEMMA TickInv ==
  ASSUME IInv, Tick
  PROVE  IInv'
<1>1. /\ account' = [a \in Accounts |-> IF Exists(a) THEN [account[a] EXCEPT !.lock = Less(@)]
                                        ELSE account[a]]
      /\ session' = [s \in Sessions |-> IF session[s] \in Session
                                        THEN [session[s] EXCEPT !.left = Less(@)]
                                        ELSE session[s]]
      /\ UNCHANGED <<request, wrongs>>
  BY DEF Tick
<1>2. ASSUME NEW a \in Accounts
      PROVE  /\ account'[a] \in Account \union {NoAccount}
             /\ Exists(a) => account[a] \in Account /\ account'[a] \in Account
             /\ account'[a] = NoAccount <=> account[a] = NoAccount
             /\ Exists(a) => /\ account'[a].email = account[a].email
                             /\ account'[a].failed = account[a].failed
                             /\ account'[a].lock = Less(account[a].lock)
                             /\ account[a].lock \in 0..Lockout
  <2>1. CASE Exists(a)
    <3>1. account[a] \in Account
      BY <2>1, AccountKinds
    <3> DEFINE new == [account[a] EXCEPT !.lock = Less(@)]
    <3>2. account[a].lock \in 0..Lockout
      BY <3>1 DEF Account
    <3>3. Less(account[a].lock) \in 0..Lockout
      BY <3>2, LimitAssumption, LessIs
    <3>4. new \in Account /\ new.email = account[a].email /\ new.failed = account[a].failed
          /\ new.lock = Less(account[a].lock)
      BY <3>1, <3>3 DEF Account
    <3>5. account'[a] = new
      BY <1>1, <2>1
    <3> HIDE DEF new
    <3> QED BY <2>1, <3>1, <3>2, <3>4, <3>5, NotAccount DEF Exists
  <2>2. CASE ~Exists(a)
    BY <1>1, <2>2 DEF Exists
  <2> QED BY <2>1, <2>2
<1>3. account' \in [Accounts -> Account \union {NoAccount}]
  BY <1>1, <1>2
<1>4. OneAccountPerEmail'
  BY <1>2 DEF OneAccountPerEmail, HasEmail, Exists, IInv, AccountsInv
<1>5. LockedByFailures'
  <2> SUFFICES ASSUME NEW a \in Accounts, Exists(a)'
               PROVE  /\ account'[a].lock > 0 => account'[a].failed = MaxFailed
                      /\ account'[a].failed <= wrongs'[a]
    BY DEF LockedByFailures
  <2>1. Exists(a) /\ wrongs' = wrongs
    BY <1>1, <1>2 DEF Exists
  <2>2. /\ account[a].lock > 0 => account[a].failed = MaxFailed
        /\ account[a].failed <= wrongs[a]
    BY <2>1 DEF IInv, AccountsInv, LockedByFailures
  <2>3. Less(account[a].lock) > 0 => account[a].lock > 0
    BY <1>2, <2>1, LimitAssumption, LessIs
  <2> QED BY <1>2, <2>1, <2>2, <2>3
<1>6. AccountsInv'
  BY <1>1, <1>3, <1>4, <1>5 DEF AccountsInv, AccountTypes, IInv
<1>7. \A q \in Requests : Carries(request[q])'
  <2> SUFFICES ASSUME NEW q \in Requests PROVE Carries(request[q])'
    OBVIOUS
  <2>1. Onward
    BY <1>1, <1>2, WrongsKept DEF Onward, Exists
  <2>2. CarriesNext(request[q])
    BY <1>1, <2>1, WrongsKept, CarriesOn DEF IInv
  <2> QED BY <1>1, <2>2 DEF Carries, CarriesNext, Exists
<1>8. ASSUME NEW s \in Sessions
      PROVE  /\ session'[s] \in Session \union {NoSession, PrunedSession}
             /\ session'[s] \in Session =>
                  session[s] \in Session /\ session'[s].account = session[s].account
  <2>1. CASE session[s] \in Session
    <3>1. session[s].left \in 0..TTL
      BY <2>1 DEF Session
    <3>2. Less(session[s].left) \in 0..TTL
      BY <3>1, LimitAssumption, LessIs
    <3>3. session'[s] = [session[s] EXCEPT !.left = Less(@)]
      BY <1>1, <2>1
    <3> QED BY <2>1, <3>2, <3>3 DEF Session
  <2>2. CASE session[s] \notin Session
    BY <1>1, <2>2 DEF IInv
  <2> QED BY <2>1, <2>2
<1>9. session' \in [Sessions -> Session \union {NoSession, PrunedSession}]
  BY <1>1, <1>8
<1>10. \A s \in Sessions : Belongs(session[s])'
  BY <1>2, <1>8 DEF IInv, Belongs, Exists, Session
<1> QED BY <1>1, <1>6, <1>7, <1>9, <1>10 DEF IInv

-----------------------------------------------------------------------------
(* The invariant, and the theorems it gives.                               *)

LEMMA LoginStepInv ==
  ASSUME IInv, NEW r \in Requests, LoginStep(r)
  PROVE  IInv'
  BY StartRegisterInv, CreateAccountInv, StartLoginInv, FailLoginInv, AcceptLoginInv,
     IssueSessionInv DEF LoginStep

LEMMA SessionStepInv ==
  ASSUME IInv, NEW r \in Requests, SessionStep(r)
  PROVE  IInv'
  BY AuthenticateInv, LogoutInv, RevokeOthersInv, VerifyPasswordInv, ChangeEmailInv,
     ChangePasswordInv, DeleteAccountInv DEF SessionStep

LEMMA NextIInv == IInv /\ [Next]_vars => IInv'
<1> SUFFICES ASSUME IInv, [Next]_vars PROVE IInv'
  OBVIOUS
<1>1. ASSUME NEW r \in Requests, LoginStep(r) \/ SessionStep(r) \/ GiveUp(r) PROVE IInv'
  BY <1>1, LoginStepInv, SessionStepInv, GiveUpInv
<1>2. ASSUME NEW s \in Sessions, PruneSession(s) PROVE IInv'
  BY <1>2, PruneSessionInv
<1>3. CASE Tick
  BY <1>3, TickInv
<1>4. CASE UNCHANGED vars
  BY <1>4 DEF vars, IInv, AccountsInv, AccountTypes, OneAccountPerEmail, LockedByFailures,
     Carries, Belongs, Exists, HasEmail
<1> QED BY <1>1, <1>2, <1>3, <1>4 DEF Next

LEMMA Invariant == Spec => []IInv
  BY InitIInv, NextIInv, PTL DEF Spec

(* Types. *)
THEOREM TypeCorrect == Spec => []TypeOK
  BY Invariant, IInvTypes, PTL

(* An address belongs to one account: the unique index decides between      *)
(* registrations and changes of address that overlap.                       *)
THEOREM OneAccountPerEmailHolds == Spec => []OneAccountPerEmail
<1>1. IInv => OneAccountPerEmail
  BY DEF IInv, AccountsInv
<1> QED BY <1>1, Invariant, PTL

(* A lock stands only while the count is at its limit, and stale counts     *)
(* written back never make it run ahead of the wrong passwords given.       *)
THEOREM LockedByFailuresHolds == Spec => []LockedByFailures
<1>1. IInv => LockedByFailures
  BY DEF IInv, AccountsInv
<1> QED BY <1>1, Invariant, PTL

-----------------------------------------------------------------------------
(* What a step may do to an account, a session and a request.              *)

\* The steps that leave the accounts alone.
LEMMA AccountUntouched ==
  ASSUME NEW r \in Requests,
         \/ \E email \in Emails : StartRegister(r, email)
         \/ \E a \in Accounts, password \in Passwords : StartLogin(r, a, password)
         \/ \E s \in Sessions : IssueSession(r, s)
         \/ \E s \in Sessions : Authenticate(r, s)
         \/ Logout(r) \/ RevokeOthers(r) \/ GiveUp(r)
         \/ \E a \in Accounts, password \in Passwords : VerifyPassword(r, a, password)
  PROVE  account' = account
  BY DEF StartRegister, StartLogin, IssueSession, Authenticate, Logout, RevokeOthers, GiveUp,
         VerifyPassword

\* A login touches the count and the lock of its account, and read no lock.
ByLogin(a) ==
  \E r \in Requests :
    /\ request[r].step = "login" /\ request[r].account = a /\ request[r].lock = 0
    /\ account'[a].status = account[a].status
    /\ account'[a].email = account[a].email
    /\ account'[a].password = account[a].password

\* A request that gave the password does the rest, and activates nothing.
ByOwner(a) ==
  \E r \in Requests :
    /\ request[r].step = "verified" /\ request[r].account = a /\ request[r].own
    /\ account'[a].status = "active" => account[a].status = "active"
    /\ account[a].status = "disabled" =>
         account'[a].status = "disabled" /\ account'[a].email = account[a].email

\* Time shortens locks.
ByTime(a) ==
  /\ request' = request
  /\ account'[a].status = account[a].status
  /\ account'[a].email = account[a].email
  /\ account'[a].password = account[a].password

LEMMA LoginTouches ==
  ASSUME IInv, NEW r \in Requests, NEW a \in Accounts, Exists(a),
         FailLogin(r) \/ AcceptLogin(r)
  PROVE  account'[a] = account[a] \/ ByLogin(a)
<1>1. request[r] \in LoginRequest /\ Carries(request[r]) /\ request[r].step = "login"
  BY RequestKinds DEF FailLogin, AcceptLogin, IInv
<1>2. request[r].account \in Accounts /\ request[r].lock = 0
  BY <1>1 DEF LoginRequest, Carries
<1>3. account[a] \in Account
  BY AccountFacts
<1>4. CASE a # request[r].account
  BY <1>4 DEF FailLogin, AcceptLogin, IInv, AccountsInv, AccountTypes
<1>5. CASE a = request[r].account
  <2>1. /\ account'[a].status = account[a].status
        /\ account'[a].email = account[a].email
        /\ account'[a].password = account[a].password
    BY <1>3, <1>5 DEF FailLogin, AcceptLogin, IInv, AccountsInv, AccountTypes, Account
  <2> QED BY <1>1, <1>2, <1>5, <2>1 DEF ByLogin
<1> QED BY <1>4, <1>5

LEMMA OwnerTouches ==
  ASSUME IInv, NEW r \in Requests, NEW a \in Accounts, Exists(a),
         \/ \E email \in Emails : ChangeEmail(r, email)
         \/ \E password \in Passwords : ChangePassword(r, password)
         \/ DeleteAccount(r)
  PROVE  account'[a] = account[a] \/ ByOwner(a)
<1>1. request[r].step = "verified"
  BY DEF ChangeEmail, ChangePassword, DeleteAccount
<1>2. request[r].account \in Accounts /\ request[r].own
  BY <1>1, VerifiedFacts
<1>3. account[a] \in Account
  BY AccountFacts
<1>4. CASE a # request[r].account
  BY <1>4 DEF ChangeEmail, ChangePassword, DeleteAccount, IInv, AccountsInv, AccountTypes
<1>5. CASE a = request[r].account
  <2>1. ASSUME NEW email \in Emails, ChangeEmail(r, email)
        PROVE  account'[a].status = "active" /\ account[a].status = "active"
    BY <1>3, <1>5, <2>1 DEF ChangeEmail, IInv, AccountsInv, AccountTypes, Account
  <2>2. ASSUME NEW password \in Passwords, ChangePassword(r, password)
        PROVE  account'[a].status = account[a].status /\ account'[a].email = account[a].email
    BY <1>3, <1>5, <2>2 DEF ChangePassword, IInv, AccountsInv, AccountTypes, Account
  <2>3. CASE DeleteAccount(r)
    <3>1. account'[a].status = "disabled" /\ account'[a].email = account[a].email
      BY <1>3, <1>5, <2>3 DEF DeleteAccount, IInv, AccountsInv, AccountTypes, Account
    <3> QED BY <1>1, <1>2, <1>5, <3>1 DEF ByOwner
  <2>4. CASE \E email \in Emails : ChangeEmail(r, email)
    BY <1>1, <1>2, <1>5, <2>1, <2>4 DEF ByOwner
  <2>5. CASE \E password \in Passwords : ChangePassword(r, password)
    BY <1>1, <1>2, <1>5, <2>2, <2>5 DEF ByOwner
  <2> QED BY <2>3, <2>4, <2>5
<1> QED BY <1>4, <1>5

LEMMA TimeTouches ==
  ASSUME IInv, Tick, NEW a \in Accounts, Exists(a)
  PROVE  ByTime(a)
<1>1. account[a] \in Account
  BY AccountFacts
<1>2. account'[a] = [account[a] EXCEPT !.lock = Less(@)]
  BY DEF Tick
<1> QED BY <1>1, <1>2 DEF Tick, ByTime, Account

\* Every step, for an account that exists.
LEMMA StepTouches ==
  ASSUME IInv, Next, NEW a \in Accounts, Exists(a)
  PROVE  account'[a] = account[a] \/ ByLogin(a) \/ ByOwner(a) \/ ByTime(a)
<1>1. ASSUME NEW r \in Requests, NEW b \in Accounts, NEW password \in Passwords,
             CreateAccount(r, b, password)
      PROVE  account'[a] = account[a]
  BY <1>1 DEF CreateAccount, IInv, AccountsInv, AccountTypes
<1>2. ASSUME NEW r \in Requests, LoginStep(r)
      PROVE  account'[a] = account[a] \/ ByLogin(a)
  BY <1>1, <1>2, AccountUntouched, LoginTouches DEF LoginStep
<1>3. ASSUME NEW r \in Requests, SessionStep(r)
      PROVE  account'[a] = account[a] \/ ByOwner(a)
  BY <1>3, AccountUntouched, OwnerTouches DEF SessionStep
<1>4. ASSUME NEW r \in Requests, GiveUp(r) PROVE account'[a] = account[a]
  BY <1>4, AccountUntouched
<1>5. ASSUME NEW s \in Sessions, PruneSession(s) PROVE account'[a] = account[a]
  BY <1>5 DEF PruneSession
<1> QED BY <1>2, <1>3, <1>4, <1>5, TimeTouches DEF Next

(* No login that found the account locked ends the lock.                    *)
THEOREM LockOnlyCutByEarlierHolds == Spec => LockOnlyCutByEarlier
<1> DEFINE Cut == \A a \in Accounts :
             Exists(a) /\ account'[a].lock < account[a].lock /\ request' # request =>
               \E r \in Requests :
                 /\ request[r].step \in {"login", "verified"}
                 /\ request[r].account = a
                 /\ request[r].step = "login" => request[r].lock = 0
<1>1. IInv /\ [Next]_vars => [Cut]_vars
  <2> SUFFICES ASSUME IInv, Next, NEW a \in Accounts, Exists(a),
                      account'[a].lock < account[a].lock, request' # request
               PROVE  \E r \in Requests :
                        /\ request[r].step \in {"login", "verified"}
                        /\ request[r].account = a
                        /\ request[r].step = "login" => request[r].lock = 0
    OBVIOUS
  <2>1. account[a].lock \in 0..Lockout
    BY AccountFacts DEF Account
  <2>2. account'[a] # account[a]
    BY <2>1, LimitAssumption
  <2>3. ByLogin(a) \/ ByOwner(a)
    BY <2>2, StepTouches DEF ByTime
  <2> QED BY <2>3 DEF ByLogin, ByOwner
<1> QED BY <1>1, Invariant, PTL DEF Spec, LockOnlyCutByEarlier

(* Address, password and status are changed only by a request that gave the *)
(* password of that account, wherever addresses moved meanwhile.            *)
THEOREM GuardedByOwnPasswordHolds == Spec => GuardedByOwnPassword
<1> DEFINE Guarded == \A a \in Accounts :
             /\ Exists(a)
             /\ \/ account'[a].email # account[a].email
                \/ account'[a].password # account[a].password
                \/ account'[a].status # account[a].status
             => \E r \in Requests :
                  request[r].step = "verified" /\ request[r].account = a /\ request[r].own
<1>1. IInv /\ [Next]_vars => [Guarded]_vars
  BY StepTouches DEF ByLogin, ByOwner, ByTime
<1> QED BY <1>1, Invariant, PTL DEF Spec, GuardedByOwnPassword

\* A session that is there loses time and may be revoked, and that is all.
Shrinks(s) ==
  session'[s] \in Session =>
    /\ session[s] \in Session
    /\ session'[s].account = session[s].account
    /\ session'[s].state = "open" => session[s].state = "open"
    /\ session'[s].left > 0 => session[s].left > 0

LEMMA SessionsShrink ==
  ASSUME IInv, Next, NEW s \in Sessions, session[s] # NoSession
  PROVE  Shrinks(s)
<1>1. CASE session'[s] = session[s]
  BY <1>1 DEF Shrinks
<1>2. ASSUME session[s] \in Session, session'[s] = Revoked(s) PROVE Shrinks(s)
  BY <1>2 DEF Shrinks, Revoked, Session
<1>3. ASSUME NEW r \in Requests, LoginStep(r) PROVE session'[s] = session[s]
  <2>1. ASSUME NEW t \in Sessions, IssueSession(r, t) PROVE session'[s] = session[s]
    BY <2>1 DEF IssueSession, IInv
  <2> QED BY <1>3, <2>1 DEF LoginStep, StartRegister, CreateAccount, StartLogin, FailLogin,
             AcceptLogin
<1>4. ASSUME NEW r \in Requests, Logout(r) PROVE Shrinks(s)
  <2>1. request[r] \in AuthedRequest
    BY <1>4, RequestKinds DEF Logout, IInv
  <2>2. session'[s] = session[s] \/ (session[s] \in Session /\ session'[s] = Revoked(s))
    BY <1>4, <2>1 DEF Logout, IInv, AuthedRequest
  <2> QED BY <1>1, <1>2, <2>2
<1>5. ASSUME NEW r \in Requests, RevokeOthers(r) \/ DeleteAccount(r) PROVE Shrinks(s)
  <2>1. session'[s] = session[s] \/ (session[s] \in Session /\ session'[s] = Revoked(s))
    BY <1>5 DEF RevokeOthers, DeleteAccount, OwnedBy
  <2> QED BY <1>1, <1>2, <2>1
<1>6. ASSUME NEW r \in Requests, SessionStep(r) PROVE Shrinks(s)
  BY <1>1, <1>4, <1>5, <1>6
  DEF SessionStep, Authenticate, VerifyPassword, ChangeEmail, ChangePassword
<1>7. ASSUME NEW r \in Requests, GiveUp(r) PROVE Shrinks(s)
  BY <1>1, <1>7 DEF GiveUp
<1>8. ASSUME NEW t \in Sessions, PruneSession(t) PROVE Shrinks(s)
  <2>1. session'[s] = session[s] \/ session'[s] = PrunedSession
    BY <1>8 DEF PruneSession, IInv
  <2> QED BY <1>1, <2>1, NotSessions DEF Shrinks
<1>9. CASE Tick
  <2>1. CASE session[s] \in Session
    <3>1. session'[s] = [session[s] EXCEPT !.left = Less(@)]
      BY <1>9, <2>1 DEF Tick
    <3>2. session[s].left \in 0..TTL
      BY <2>1 DEF Session
    <3>3. Less(session[s].left) > 0 => session[s].left > 0
      BY <3>2, LimitAssumption, LessIs
    <3> QED BY <2>1, <3>1, <3>3 DEF Shrinks, Session
  <2>2. CASE session[s] \notin Session
    BY <1>1, <1>9, <2>2 DEF Tick
  <2> QED BY <2>1, <2>2
<1> QED BY <1>1, <1>3, <1>6, <1>7, <1>8, <1>9 DEF Next

(* A session that stopped resolving never resolves again.                   *)
THEOREM NoRevivalHolds == Spec => NoRevival
<1> DEFINE Stays == \A s \in Sessions : session[s] # NoSession /\ ~Resolves(s) => ~Resolves(s)'
<1>1. IInv /\ [Next]_vars => [Stays]_vars
  <2> SUFFICES ASSUME IInv, Next, NEW s \in Sessions, session[s] # NoSession, Resolves(s)'
               PROVE  Resolves(s)
    OBVIOUS
  <2>1. Shrinks(s)
    BY SessionsShrink
  <2>2. /\ session[s] \in Session /\ session[s].state = "open" /\ session[s].left > 0
        /\ account'[session[s].account].status = "active"
    BY <2>1 DEF Shrinks, Resolves
  <2> DEFINE a == session[s].account
  <2>3. a \in Accounts /\ Exists(a)
    BY <2>2 DEF Session, IInv, Belongs
  <2>4. account'[a].status = "active"
    BY <2>2
  <2> HIDE DEF a
  <2>5. account[a].status = "active"
    BY <2>3, <2>4, StepTouches DEF ByLogin, ByOwner, ByTime
  <2> QED BY <2>2, <2>5 DEF Resolves, a
<1> QED BY <1>1, Invariant, PTL DEF Spec, NoRevival

\* A request becomes authenticated only for an active account.
LEMMA AuthenticatedActive ==
  ASSUME IInv, Next, NEW r \in Requests, request'[r].step = "authenticated",
         request'[r] # request[r]
  PROVE  account[request'[r].account].status = "active"
<1>1. \A q \in Requests : \A x : Becomes(q, x) => request'[q] = x
  BY DEF Becomes, IInv
<1>2. \A q \in Requests : \A x : Becomes(q, x) /\ q # r => request'[r] = request[r]
  BY DEF Becomes, IInv
<1>3. Idle.step = "idle"
  BY DEF Idle
<1>4. ASSUME NEW q \in Requests, LoginStep(q) PROVE FALSE
  <2>1. ASSUME NEW email \in Emails, StartRegister(q, email) PROVE FALSE
    BY <1>1, <1>2, <2>1 DEF StartRegister
  <2>2. ASSUME NEW a \in Accounts, NEW password \in Passwords, CreateAccount(q, a, password)
        PROVE  FALSE
    BY <1>1, <1>2, <2>2 DEF CreateAccount
  <2>3. ASSUME NEW a \in Accounts, NEW password \in Passwords, StartLogin(q, a, password)
        PROVE  FALSE
    BY <1>1, <1>2, <2>3 DEF StartLogin
  <2>4. CASE FailLogin(q)
    BY <1>1, <1>2, <1>3, <2>4 DEF FailLogin
  <2>5. CASE AcceptLogin(q)
    BY <1>1, <1>2, <2>5 DEF AcceptLogin
  <2>6. ASSUME NEW s \in Sessions, IssueSession(q, s) PROVE FALSE
    BY <1>1, <1>2, <1>3, <2>6 DEF IssueSession
  <2> QED BY <1>4, <2>1, <2>2, <2>3, <2>4, <2>5, <2>6 DEF LoginStep
<1>5. ASSUME NEW q \in Requests, NEW s \in Sessions, Authenticate(q, s)
      PROVE  account[request'[r].account].status = "active"
  BY <1>1, <1>2, <1>5 DEF Authenticate, Resolves
<1>6. ASSUME NEW q \in Requests, NEW a \in Accounts, NEW password \in Passwords,
             VerifyPassword(q, a, password)
      PROVE  FALSE
  BY <1>1, <1>2, <1>6 DEF VerifyPassword, Verified
<1>7. ASSUME NEW q \in Requests, SessionStep(q)
      PROVE  account[request'[r].account].status = "active"
  BY <1>1, <1>2, <1>3, <1>5, <1>6, <1>7 DEF SessionStep, Logout, RevokeOthers, ChangeEmail,
     ChangePassword, DeleteAccount
<1>8. ASSUME NEW q \in Requests, GiveUp(q) PROVE FALSE
  BY <1>1, <1>2, <1>3, <1>8 DEF GiveUp
<1> QED BY <1>4, <1>7, <1>8 DEF Next, PruneSession, Tick

(* A deleted account is not activated, keeps its address, and no request is *)
(* authenticated for it any more.                                           *)
THEOREM DisabledIsFinalHolds == Spec => DisabledIsFinal
<1> DEFINE Final == \A a \in Accounts : account[a].status = "disabled" =>
             /\ account'[a].status = "disabled"
             /\ account'[a].email = account[a].email
             /\ \A r \in Requests :
                  request'[r].step = "authenticated" /\ request'[r].account = a =>
                    request'[r] = request[r]
<1>1. IInv /\ [Next]_vars => [Final]_vars
  <2> SUFFICES ASSUME IInv, Next, NEW a \in Accounts, account[a].status = "disabled"
               PROVE  /\ account'[a].status = "disabled"
                      /\ account'[a].email = account[a].email
                      /\ \A r \in Requests :
                           request'[r].step = "authenticated" /\ request'[r].account = a =>
                             request'[r] = request[r]
    OBVIOUS
  <2>1. Exists(a)
    BY AccountKinds
  <2>2. account'[a].status = "disabled" /\ account'[a].email = account[a].email
    BY <2>1, StepTouches DEF ByLogin, ByOwner, ByTime
  <2>3. ASSUME NEW r \in Requests, request'[r].step = "authenticated", request'[r].account = a
        PROVE  request'[r] = request[r]
    BY <2>3, AuthenticatedActive
  <2> QED BY <2>2, <2>3
<1> QED BY <1>1, Invariant, PTL DEF Spec, DisabledIsFinal

-----------------------------------------------------------------------------
(* Every failure counts, once the attempts at an account are apart.        *)

\* What a login read is still so.
LoginIsCurrent ==
  \A r \in Requests : request[r].step = "login" =>
    /\ account[request[r].account].failed = request[r].failed
    /\ account[request[r].account].lock = 0

\* A step that leaves the count and the lock of an account alone.
CountStays(a) ==
  /\ account'[a].failed = account[a].failed
  /\ account[a].lock = 0 => account'[a].lock = 0

\* A step of a login of the account, or of one that gave its password.
ByAttempt(q, a) ==
  /\ request[q].step \in {"login", "verified"}
  /\ request[q].account = a
  /\ request'[q] # request[q]

LEMMA CountTouches ==
  ASSUME IInv, Next, NEW a \in Accounts, Exists(a)
  PROVE  CountStays(a) \/ \E q \in Requests : ByAttempt(q, a)
<1>1. account[a] \in Account
  BY AccountFacts
<1>2. CASE account'[a] = account[a]
  BY <1>2 DEF CountStays
<1>3. ASSUME NEW q \in Requests, FailLogin(q) \/ AcceptLogin(q)
      PROVE  account'[a] = account[a] \/ ByAttempt(q, a)
  <2>1. request[q].step = "login" /\ request'[q].step # "login"
    BY <1>3 DEF FailLogin, AcceptLogin, Becomes, IInv, Idle
  <2>2. CASE a # request[q].account
    BY <1>3, <2>2 DEF FailLogin, AcceptLogin, IInv, AccountsInv, AccountTypes
  <2> QED BY <2>1, <2>2 DEF ByAttempt
<1>4. ASSUME NEW q \in Requests,
             \/ \E email \in Emails : ChangeEmail(q, email)
             \/ \E password \in Passwords : ChangePassword(q, password)
             \/ DeleteAccount(q)
      PROVE  account'[a] = account[a] \/ ByAttempt(q, a)
  <2>1. request[q].step = "verified" /\ Becomes(q, Idle)
    BY <1>4 DEF ChangeEmail, ChangePassword, DeleteAccount
  <2>3. request'[q] # request[q]
    BY <2>1 DEF Becomes, IInv, Idle
  <2>2. CASE a # request[q].account
    BY <1>4, <2>2 DEF ChangeEmail, ChangePassword, DeleteAccount, IInv, AccountsInv, AccountTypes
  <2> QED BY <2>1, <2>2, <2>3 DEF ByAttempt
<1>5. ASSUME NEW q \in Requests, NEW b \in Accounts, NEW password \in Passwords,
             CreateAccount(q, b, password)
      PROVE  account'[a] = account[a]
  BY <1>5 DEF CreateAccount, IInv, AccountsInv, AccountTypes
<1>6. ASSUME NEW q \in Requests, LoginStep(q) \/ SessionStep(q) \/ GiveUp(q)
      PROVE  account'[a] = account[a] \/ ByAttempt(q, a)
  BY <1>3, <1>4, <1>5, <1>6, AccountUntouched DEF LoginStep, SessionStep
<1>7. CASE Tick
  <2>1. account'[a] = [account[a] EXCEPT !.lock = Less(@)]
    BY <1>7 DEF Tick
  <2> QED BY <1>1, <2>1 DEF Account, CountStays, Less
<1>8. ASSUME NEW s \in Sessions, PruneSession(s) PROVE account'[a] = account[a]
  BY <1>8 DEF PruneSession
<1> QED BY <1>2, <1>6, <1>7, <1>8 DEF Next

\* A request becomes a login only by reading the row of its account.
LEMMA LoginBegins ==
  ASSUME IInv, Next, NEW r \in Requests, request'[r].step = "login", request'[r] # request[r]
  PROVE  \E a \in Accounts, password \in Passwords : StartLogin(r, a, password)
<1>1. \A q \in Requests : \A x : Becomes(q, x) => request'[q] = x
  BY DEF Becomes, IInv
<1>2. \A q \in Requests : \A x : Becomes(q, x) /\ q # r => request'[r] = request[r]
  BY DEF Becomes, IInv
<1>3. Idle.step = "idle"
  BY DEF Idle
<1>4. ASSUME NEW q \in Requests, LoginStep(q)
      PROVE  \E a \in Accounts, password \in Passwords : StartLogin(r, a, password)
  <2>1. ASSUME NEW email \in Emails, StartRegister(q, email) PROVE FALSE
    BY <1>1, <1>2, <2>1 DEF StartRegister
  <2>2. ASSUME NEW a \in Accounts, NEW password \in Passwords, CreateAccount(q, a, password)
        PROVE  FALSE
    BY <1>1, <1>2, <2>2 DEF CreateAccount
  <2>3. ASSUME NEW a \in Accounts, NEW password \in Passwords, StartLogin(q, a, password)
        PROVE  q = r
    BY <1>2, <2>3 DEF StartLogin
  <2>4. CASE FailLogin(q)
    BY <1>1, <1>2, <1>3, <2>4 DEF FailLogin
  <2>5. CASE AcceptLogin(q)
    BY <1>1, <1>2, <2>5 DEF AcceptLogin
  <2>6. ASSUME NEW s \in Sessions, IssueSession(q, s) PROVE FALSE
    BY <1>1, <1>2, <1>3, <2>6 DEF IssueSession
  <2> QED BY <1>4, <2>1, <2>2, <2>3, <2>4, <2>5, <2>6 DEF LoginStep
<1>5. ASSUME NEW q \in Requests, NEW s \in Sessions, Authenticate(q, s) PROVE FALSE
  BY <1>1, <1>2, <1>5 DEF Authenticate
<1>6. ASSUME NEW q \in Requests, NEW a \in Accounts, NEW password \in Passwords,
             VerifyPassword(q, a, password)
      PROVE  FALSE
  BY <1>1, <1>2, <1>6 DEF VerifyPassword, Verified
<1>7. ASSUME NEW q \in Requests, SessionStep(q) PROVE FALSE
  BY <1>1, <1>2, <1>3, <1>5, <1>6, <1>7 DEF SessionStep, Logout, RevokeOthers, ChangeEmail,
     ChangePassword, DeleteAccount
<1>8. ASSUME NEW q \in Requests, GiveUp(q) PROVE FALSE
  BY <1>1, <1>2, <1>3, <1>8 DEF GiveUp
<1> QED BY <1>4, <1>7, <1>8 DEF Next, PruneSession, Tick

\* The account of a login under way.
LEMMA LoginFacts ==
  ASSUME IInv, NEW r \in Requests, request[r].step = "login"
  PROVE  /\ request[r] \in LoginRequest
         /\ request[r].account \in Accounts /\ Exists(request[r].account)
<1>1. Carries(request[r]) /\ request[r] \in LoginRequest
  BY RequestKinds DEF IInv
<1> QED BY <1>1 DEF Carries, LoginRequest

LEMMA LoginCurrentStep ==
  ASSUME IInv, LoginIsCurrent, AttemptsApart, Next
  PROVE  LoginIsCurrent'
<1> SUFFICES ASSUME NEW r \in Requests, request'[r].step = "login"
             PROVE  /\ account'[request'[r].account].failed = request'[r].failed
                    /\ account'[request'[r].account].lock = 0
  BY DEF LoginIsCurrent
<1>1. CASE request'[r] = request[r]
  <2> DEFINE a == request[r].account
  <2>1. request[r].step = "login" /\ a \in Accounts /\ Exists(a)
    BY <1>1, LoginFacts
  <2>2. account[a].failed = request[r].failed /\ account[a].lock = 0
    BY <2>1 DEF LoginIsCurrent
  <2>3. \A q \in Requests : ~ByAttempt(q, a)
    BY <1>1, <2>1 DEF ByAttempt, AttemptsApart
  <2>4. CountStays(a)
    BY <2>1, <2>3, CountTouches
  <2> QED BY <1>1, <2>2, <2>4 DEF CountStays
<1>2. CASE request'[r] # request[r]
  <2>1. PICK a \in Accounts, password \in Passwords : StartLogin(r, a, password)
    BY <1>2, LoginBegins
  <2>2. /\ request'[r].account = a /\ request'[r].failed = account[a].failed
        /\ account[a].lock = 0 /\ account' = account
    BY <2>1 DEF StartLogin, Becomes, IInv
  <2> QED BY <2>2
<1> QED BY <1>1, <1>2

\* A login with a wrong password that moves on has failed, or was given up.
LEMMA LoginFails ==
  ASSUME IInv, Next, NEW r \in Requests, request[r].step = "login", ~request[r].right,
         request'[r] # request[r]
  PROVE  FailLogin(r) \/ account' = account
<1>1. \A q \in Requests : \A x : Becomes(q, x) /\ q # r => request'[r] = request[r]
  BY DEF Becomes, IInv
<1>2. PICK q \in Requests : LoginStep(q) \/ SessionStep(q) \/ GiveUp(q)
  BY DEF Next, PruneSession, Tick
<1>3. q = r
  <2>1. \E x : Becomes(q, x)
    BY <1>2 DEF LoginStep, SessionStep, StartRegister, CreateAccount, StartLogin, FailLogin,
       AcceptLogin, IssueSession, Authenticate, Logout, RevokeOthers, VerifyPassword, ChangeEmail,
       ChangePassword, DeleteAccount, GiveUp
  <2> QED BY <1>1, <2>1
<1>4. CASE LoginStep(r)
  BY <1>4, AccountUntouched DEF LoginStep, CreateAccount, AcceptLogin
<1>5. CASE SessionStep(r)
  BY <1>5, AccountUntouched DEF SessionStep, ChangeEmail, ChangePassword, DeleteAccount
<1>6. CASE GiveUp(r)
  BY <1>6 DEF GiveUp
<1> QED BY <1>2, <1>3, <1>4, <1>5, <1>6

LEMMA FailureCounts ==
  ASSUME IInv, LoginIsCurrent, NEW r \in Requests, FailLogin(r)
  PROVE  LET a == request[r].account IN
           /\ account'[a].failed = UpTo(MaxFailed, account[a].failed + 1)
           /\ account'[a].failed = MaxFailed => account'[a].lock = Lockout
<1> DEFINE a == request[r].account
           count == UpTo(MaxFailed, request[r].failed + 1)
<1>1. request[r].step = "login" /\ a \in Accounts /\ Exists(a)
  BY LoginFacts DEF FailLogin
<1>2. account[a].failed = request[r].failed /\ account[a] \in Account
  BY <1>1, AccountFacts DEF LoginIsCurrent
<1>3. account' = [account EXCEPT ![a].failed = count,
                                 ![a].lock = IF count = MaxFailed THEN Lockout ELSE 0]
  BY DEF FailLogin
<1>4. account'[a].failed = count /\ (count = MaxFailed => account'[a].lock = Lockout)
  <2> HIDE DEF count, a
  <2> QED BY <1>1, <1>2, <1>3 DEF IInv, AccountsInv, AccountTypes, Account
<1> QED BY <1>2, <1>4

(* Where no two attempts at an account overlap, every wrong password counts *)
(* and locks the account at the limit, and no login ends a lock early.      *)
THEOREM EveryFailureCountsApart == Spec /\ []AttemptsApart => EveryFailureCounts
<1> DEFINE Counts(a) ==
             /\ \A r \in Requests :
                  /\ request[r].step = "login" /\ request[r].account = a /\ ~request[r].right
                  /\ request'[r] # request[r] /\ account'[a] # account[a]
                  => /\ account'[a].failed = UpTo(MaxFailed, account[a].failed + 1)
                     /\ account'[a].failed = MaxFailed => account'[a].lock = Lockout
             /\ account'[a].lock < account[a].lock =>
                  \E r \in Requests : request[r].step = "verified" /\ request[r].account = a
           All == \A a \in Accounts : Exists(a) /\ request' # request => Counts(a)
<1>1. Init => LoginIsCurrent
  BY DEF Init, LoginIsCurrent, Idle
<1>2. IInv /\ LoginIsCurrent /\ AttemptsApart /\ [Next]_vars => LoginIsCurrent'
  <2>1. CASE UNCHANGED vars
    BY <2>1 DEF vars, LoginIsCurrent
  <2> QED BY <2>1, LoginCurrentStep
<1>3. IInv /\ LoginIsCurrent /\ [Next]_vars => [All]_vars
  <2> SUFFICES ASSUME IInv, LoginIsCurrent, Next, NEW a \in Accounts, Exists(a),
                      request' # request
               PROVE  Counts(a)
    OBVIOUS
  <2>1. ASSUME NEW r \in Requests, request[r].step = "login", request[r].account = a,
               ~request[r].right, request'[r] # request[r], account'[a] # account[a]
        PROVE  /\ account'[a].failed = UpTo(MaxFailed, account[a].failed + 1)
               /\ account'[a].failed = MaxFailed => account'[a].lock = Lockout
    BY <2>1, LoginFails, FailureCounts
  <2>2. ASSUME account'[a].lock < account[a].lock
        PROVE  \E r \in Requests : request[r].step = "verified" /\ request[r].account = a
    <3>1. account[a] \in Account /\ account[a].lock \in 0..Lockout
      BY AccountFacts DEF Account
    <3>2. account'[a] # account[a]
      BY <2>2, <3>1, LimitAssumption
    <3>3. ByLogin(a) \/ ByOwner(a)
      BY <3>2, StepTouches DEF ByTime
    <3>4. CASE ByOwner(a)
      BY <3>4 DEF ByOwner
    <3>5. CASE ByLogin(a)
      <4>1. PICK q \in Requests : request[q].step = "login" /\ request[q].account = a
        BY <3>5 DEF ByLogin
      <4>2. account[a].lock = 0
        BY <4>1 DEF LoginIsCurrent
      <4>3. account' \in [Accounts -> Account \union {NoAccount}]
        BY NextIInv DEF IInv, AccountsInv, AccountTypes
      <4>4. account'[a] \in Account
        BY <3>1, <3>5, <4>3 DEF ByLogin, NoAccount, Account
      <4>5. account'[a].lock \in 0..Lockout
        BY <4>4 DEF Account
      <4> QED BY <2>2, <4>2, <4>5, LimitAssumption
    <3> QED BY <3>3, <3>4, <3>5
  <2> QED BY <2>1, <2>2
<1> QED BY <1>1, <1>2, <1>3, Invariant, PTL DEF Spec, EveryFailureCounts

=============================================================================
