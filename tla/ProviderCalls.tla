----------------------------- MODULE ProviderCalls -----------------------------
(***************************************************************************)
(* What runs inside one call of the circuit breaker: the live refresh of   *)
(* one group of SKUs at one provider.  retryWithBackoff makes up to        *)
(* MaxAttempts attempts; an attempt reads one listing after another (an    *)
(* Azure filter, a GCP service, an AWS service code), each page by page;   *)
(* a page is one HTTP request, with a deadline for its headers and another *)
(* for its body.  An attempt at GCP first reads its credentials from Vault *)
(* and may exchange them for a token.  Every await is the end of a step,   *)
(* the reads of Vault, one after the other, being a single one.            *)
(*                                                                         *)
(* The breaker sees only the end of the whole block: Succeed or Fail.      *)
(* CircuitBreaker assumes that each of its calls ends; here that follows   *)
(* from the deadlines and the two bounds, and from VaultAnswers: the reads *)
(* of Vault are the one await of a call that has no deadline of its own.   *)
(***************************************************************************)
EXTENDS CircuitBreaker

CONSTANTS
  MaxAttempts,  \* LIVE_PRICING_MAX_ATTEMPTS
  Credentials,  \* an attempt first gets an access token (GCP)
  Listings,     \* filters or services a category is read from
  MaxPages,     \* MAX_AZURE_RETAIL_PAGES, MAX_GCP_CATALOG_PAGES; 1 for AWS
  Streamed      \* the body is spooled to a file (AWS) and not read to a string

ASSUME CallsAssumption ==
  /\ MaxAttempts \in Nat \ {0}
  /\ Credentials \in BOOLEAN
  /\ Listings \in Nat \ {0}
  /\ MaxPages \in Nat \ {0}
  /\ Streamed \in BOOLEAN

VARIABLE request    \* what each call waits for
callVars == <<vars, request>>

NoRequest == [waitsFor |-> "nothing", attempt |-> 0, listing |-> 0, page |-> 0]

\* Listing 0 is the token an attempt begins with, the others are the catalog's.
Waiting ==
  [waitsFor : {"secrets"}, attempt : 1..MaxAttempts, listing : {0}, page : {1}]
    \cup [waitsFor : {"headers", "body", "backoff"},
          attempt : 1..MaxAttempts, listing : 0..Listings, page : 1..MaxPages]

\* A call through the breaker and its requests begin and end together, and the
\* last attempt is not followed by a pause.
RequestsOK ==
  /\ request \in [Callers -> Waiting \cup {NoRequest}]
  /\ \A c \in Callers :
       /\ request[c] = NoRequest <=> calls[c] = "idle"
       /\ request[c].waitsFor = "backoff" => request[c].attempt < MaxAttempts

\* The breaker's types and those of the requests inside its calls, which begin and
\* end with the call.
CallsTypeOK == TypeOK /\ RequestsOK

CallsInit == Init /\ request = [c \in Callers |-> NoRequest]

Asks(attempt, listing, page) ==
  [waitsFor |-> "headers", attempt |-> attempt, listing |-> listing, page |-> page]

Pauses(attempt) ==
  [waitsFor |-> "backoff", attempt |-> attempt, listing |-> 1, page |-> 1]

\* The first await of an attempt: getAccessToken() at GCP, a page elsewhere.
Begins(attempt) ==
  IF Credentials
  THEN [waitsFor |-> "secrets", attempt |-> attempt, listing |-> 0, page |-> 1]
  ELSE Asks(attempt, 1, 1)

-----------------------------------------------------------------------------
(* The program's steps.                                                    *)

\* refreshGroupWithCacheAndBackoff() without a fresh cache entry: the breaker
\* admits the call and the first attempt begins.
Refresh(c) ==
  /\ Call(c)
  /\ request' = [request EXCEPT ![c] = Begins(1)]

\* fetch() resolves: defaultFetch clears its timer.
HeadersArrive(c) ==
  /\ request[c].waitsFor = "headers"
  /\ request' = [request EXCEPT ![c].waitsFor = "body"]
  /\ UNCHANGED vars

\* Mutant: every failed attempt is a failure of its own for the breaker, and
\* the retry goes on outside it.
AttemptFailsEachCounted(c) ==
  /\ request[c].waitsFor \in {"secrets", "headers", "body"}
  /\ \/ /\ request[c].attempt < MaxAttempts
        /\ request' = [request EXCEPT ![c] = Pauses(@.attempt)]
     \/ /\ request[c].attempt = MaxAttempts
        /\ request' = [request EXCEPT ![c] = NoRequest]
  /\ Fail(c)

\* An attempt throws: no credential, no connection, an error status, a body too large or not
\* JSON, a deadline.  All but the last attempt are followed by a pause, the last
\* one fails the call.
AttemptFails(c) ==
  /\ request[c].waitsFor \in {"secrets", "headers", "body"}
  /\ \/ /\ request[c].attempt < MaxAttempts
        /\ request' = [request EXCEPT ![c] = Pauses(@.attempt)]
        /\ UNCHANGED vars
     \/ /\ request[c].attempt = MaxAttempts
        /\ request' = [request EXCEPT ![c] = NoRequest]
        /\ Fail(c)

\* Mutant: as many pages as the provider names.
NextPageUnbounded(c) ==
  /\ request' = [request EXCEPT
                   ![c] = Asks(@.attempt, @.listing, UpTo(MaxPages, @.page + 1))]
  /\ UNCHANGED vars

\* getAccessToken() has its secrets: a token it uses as it is, an account's key it
\* posts for a token (listing 0), or neither.  Reads that fail count as no secret.
SecretsArrive(c) ==
  /\ request[c].waitsFor = "secrets"
  /\ \/ /\ \E first \in {0, 1} :
             request' = [request EXCEPT ![c] = Asks(@.attempt, first, 1)]
        /\ UNCHANGED vars
     \/ AttemptFails(c)

\* The body names a next page; one page too many fails the attempt.  A token has
\* no pages.
NextPage(c) ==
  /\ request[c].listing # 0
  /\ \/ /\ request[c].page < MaxPages
        /\ request' = [request EXCEPT ![c] = Asks(@.attempt, @.listing, @.page + 1)]
        /\ UNCHANGED vars
     \/ /\ request[c].page = MaxPages
        /\ AttemptFails(c)

\* The body names no next page, or is a token: on to the next listing, or the
\* call succeeds.
LastPage(c) ==
  \/ /\ request[c].listing < Listings
     /\ request' = [request EXCEPT ![c] = Asks(@.attempt, @.listing + 1, 1)]
     /\ UNCHANGED vars
  \/ /\ request[c].listing = Listings
     /\ request' = [request EXCEPT ![c] = NoRequest]
     /\ Succeed(c)

BodyArrives(c) ==
  /\ request[c].waitsFor = "body"
  /\ NextPage(c) \/ LastPage(c)

\* defaultFetch aborts a request whose headers do not come.
HeadersTimeOut(c) ==
  /\ request[c].waitsFor = "headers"
  /\ AttemptFails(c)

\* Mutant: no deadline once the headers are there.
BodyTimesOutNever(c) == FALSE /\ UNCHANGED callVars

\* readBodyText gives up on a body that does not end.  streamAwsBulkPriceList
\* has no deadline of its own.
BodyTimesOut(c) ==
  /\ request[c].waitsFor = "body"
  /\ ~Streamed
  /\ AttemptFails(c)

\* delay() is over, the next attempt begins.
BackoffOver(c) ==
  /\ request[c].waitsFor = "backoff"
  /\ request' = [request EXCEPT ![c] = Begins(@.attempt + 1)]
  /\ UNCHANGED vars

CallsNext ==
  \/ (ReadState \/ Tick) /\ UNCHANGED request
  \/ \E c \in Callers :
       \/ Refresh(c) \/ SecretsArrive(c)
       \/ HeadersArrive(c) \/ BodyArrives(c) \/ AttemptFails(c)
       \/ HeadersTimeOut(c) \/ BodyTimesOut(c) \/ BackoffOver(c)

CallsSpec == CallsInit /\ [][CallsNext]_callVars

(* The program's own timers fire and the clock runs; the provider owes      *)
(* nothing, nor does its token endpoint.  Each request arms its own timer,  *)
(* so headers and body are separate conjuncts: a timer that is cleared and  *)
(* armed again for ever never has to fire.  As in CircuitBreaker, refreshes *)
(* keep being asked for.                                                    *)
CallsFairness ==
  /\ WF_callVars(Tick /\ UNCHANGED request)
  /\ WF_callVars(\E c \in Callers : Refresh(c))
  /\ \A c \in Callers : /\ WF_callVars(HeadersTimeOut(c))
                        /\ WF_callVars(BodyTimesOut(c))
                        /\ WF_callVars(BackoffOver(c))

(* What is assumed of Vault, and of no provider: each read of it ends, with *)
(* an answer or an error.  secrets.service.ts:48 passes fetch() no signal,  *)
(* so it is the runtime, or Vault, that has to end it.                      *)
VaultAnswers == \A c \in Callers : WF_callVars(SecretsArrive(c))

CallsLiveSpec == CallsSpec /\ CallsFairness /\ VaultAnswers

-----------------------------------------------------------------------------
(* Properties.                                                             *)

\* Every refresh comes to an end, however the provider stalls, drips or names
\* next pages, as long as Vault ends the reads an attempt begins with: it holds a
\* user's request and, in half-open, the probe's flag.
EverySettles ==
  \A c \in Callers : calls[c] # "idle" ~> calls[c] = "idle"

\* What an attempt goes through: the token, then each listing.
Rounds == Listings + 1

\* How many requests a call has sent at most when it waits for q, or is about to.
Asked(q) ==
  IF q.waitsFor = "backoff" THEN q.attempt * Rounds * MaxPages
  ELSE ((q.attempt - 1) * Rounds + q.listing) * MaxPages + q.page

Follows(q, next) ==
  <<q.waitsFor, next.waitsFor>> \in
    {<<"secrets", "headers">>, <<"secrets", "backoff">>,
     <<"headers", "body">>, <<"headers", "backoff">>, <<"body", "backoff">>}

\* Why it ends: each step of a refresh asks for one page more, of as many as the
\* bounds allow, or gets on with the one it has; no retry, token, listing or page
\* begins the counting again (retryWithBackoff and the adapters' loops inside it).
NearsItsEnd ==
  [][\A c \in Callers :
       calls[c] # "idle" /\ calls'[c] # "idle" /\ request'[c] # request[c] =>
         /\ Asked(request'[c]) \in Asked(request[c])..(MaxAttempts * Rounds * MaxPages)
         /\ Asked(request'[c]) = Asked(request[c]) => Follows(request[c], request'[c])]_callVars

\* Seen through the breaker this is the breaker's specification, with its
\* fairness: what is left of the assumption that each call settles is that Vault
\* ends its reads, and one exhausted retry cycle is one failure ("The breaker wraps
\* the whole retry block, not each attempt", live-pricing-refresh.service.ts:158).
ImplementsBreaker == LiveSpec

=============================================================================
