--------------------------- MODULE PricingRefresh ---------------------------
(***************************************************************************)
(* The price catalog of one provider and the two that write it: the        *)
(* scheduled ETL run, which fetches the whole catalog and then prunes what *)
(* the provider no longer returns, and live refreshes of the SKUs of a     *)
(* comparison, which may reuse what the last one fetched.                  *)
(*                                                                         *)
(* pricing-etl/pricing-etl.service.ts, api/live-pricing-refresh.service.ts *)
(* and database/pricing-catalog.repository.ts.  Every statement commits on *)
(* its own; a writer goes through its records one at a time, the catalog   *)
(* rows first, then the rates, where it closes the previous rate in one    *)
(* statement and inserts the new one in the next.                          *)
(***************************************************************************)
EXTENDS Naturals, FiniteSets, TLC

CONSTANTS Skus,
          Dates,      \* effective dates; a catalog row is a SKU and a date
          Refreshes,  \* the live refreshes in flight at a time
          Etl,        \* the ETL run, one at a time
          MaxTime,    \* bound: the clock stops there
          CacheTTL,   \* LIVE_PRICING_CACHE_TTL_MS
          FreshNum, FreshDen \* PRICING_ETL_PRUNE_MIN_FRESH_RATIO

ASSUME BoundsAssumption ==
    MaxTime \in Nat \ {0} /\ CacheTTL \in Nat /\ IsFiniteSet(Skus) /\ IsFiniteSet(Dates)
ASSUME RatioAssumption == FreshNum \in Nat /\ FreshDen \in Nat \ {0} /\ FreshNum <= FreshDen
ASSUME WritersAssumption == Etl \notin Refreshes

Records == Skus \X Dates
Writers == Refreshes \cup {Etl}

VARIABLES clock,
          catalog,  \* fetched_at of each live row of pricing_catalog, 0 without the row
          rate,     \* the rows of pricing_rates: current is valid_to IS NULL
          writer,   \* what each writer has fetched and has still to write
          cache,    \* what the last live refresh fetched, and when
          broken    \* history: SKUs whose rate a failing write closed

vars == <<clock, catalog, rate, writer, cache, broken>>

Idle == [stage |-> "idle", stamp |-> 0, records |-> {}, rows |-> {}, rates |-> {}, open |-> {},
         rejected |-> {}]

\* open is the record between its two rate statements, at most one.
WriterRecords == [stage: {"idle", "fetch", "write"}, stamp: 0..MaxTime, records: SUBSET Records,
                  rows: SUBSET Records, rates: SUBSET Records, open: SUBSET Records,
                  rejected: SUBSET Records]

Init == /\ clock = 1
        /\ \E S \in SUBSET Records : catalog = [k \in Records |-> IF k \in S THEN 1 ELSE 0]
        /\ rate = [k \in Records |-> "none"]
        /\ writer = [w \in Writers |-> Idle]
        /\ cache = [stamp |-> 0, records |-> {}]
        /\ broken = {}

Tick == /\ clock < MaxTime /\ clock' = clock + 1
        /\ UNCHANGED <<catalog, rate, writer, cache, broken>>

-----------------------------------------------------------------------------
(* Fetching.  The stamp that the records get is taken before the provider   *)
(* is asked, and asking takes time (pages, retries, a circuit breaker).     *)

BeginFetch(w) ==
    /\ writer[w] = Idle
    /\ writer' = [writer EXCEPT ![w].stage = "fetch", ![w].stamp = clock]
    /\ UNCHANGED <<clock, catalog, rate, cache, broken>>

Fetched(w, stamp, R) ==
    writer' = [writer EXCEPT ![w] = [Idle EXCEPT !.stage = "write", !.stamp = stamp,
                                                 !.records = R, !.rows = R, !.rates = R]]

\* refreshPricingCatalog answers: all there is, or what a truncated response holds.
EtlFetched(R) ==
    /\ writer[Etl].stage = "fetch"
    /\ Fetched(Etl, writer[Etl].stamp, R)
    /\ UNCHANGED <<clock, catalog, rate, cache, broken>>

\* refreshLivePricing answers; the answer is kept for the next refresh.
LiveFetched(w, R) ==
    /\ w # Etl /\ writer[w].stage = "fetch"
    /\ Fetched(w, writer[w].stamp, R)
    /\ cache' = [stamp |-> writer[w].stamp, records |-> R]
    /\ UNCHANGED <<clock, catalog, rate, broken>>

\* A live refresh within the lifetime of the cached answer writes it again.
LiveCached(w) ==
    /\ w # Etl /\ writer[w] = Idle
    /\ cache.records # {} /\ clock < cache.stamp + CacheTTL
    /\ Fetched(w, cache.stamp, cache.records)
    /\ UNCHANGED <<clock, catalog, rate, cache, broken>>

\* The last attempt fails, or a circuit is open: nothing is written or pruned.
FetchFails(w) ==
    /\ writer[w].stage = "fetch"
    /\ writer' = [writer EXCEPT ![w] = Idle]
    /\ UNCHANGED <<clock, catalog, rate, cache, broken>>

-----------------------------------------------------------------------------
(* Writing.                                                                 *)

\* upsertPricingRecords: the row takes the stamp of this writer, whatever it
\* had, or is rejected by a constraint and stays as it is.
WriteRow(w, k) ==
    /\ k \in writer[w].rows
    /\ \/ /\ catalog' = [catalog EXCEPT ![k] = writer[w].stamp]
          /\ writer' = [writer EXCEPT ![w].rows = @ \ {k}]
       \/ /\ writer' = [writer EXCEPT ![w].rows = @ \ {k}, ![w].rejected = @ \cup {k}]
          /\ UNCHANGED catalog
    /\ UNCHANGED <<clock, rate, cache, broken>>

Of(s) == {s} \X Dates

HasCurrent(s) == \E k \in Of(s) : rate[k] = "current"

\* upsertCurrentPricingRates, first statement: valid_to for the current rates of
\* other dates.
CloseRate(w, k) ==
    /\ writer[w].rows = {} /\ writer[w].open = {} /\ k \in writer[w].rates
    /\ rate' = [j \in Records |-> IF j \in Of(k[1]) \ {k} /\ rate[j] = "current" THEN "closed" ELSE rate[j]]
    /\ writer' = [writer EXCEPT ![w].rates = @ \ {k}, ![w].open = {k}]
    /\ UNCHANGED <<clock, catalog, cache, broken>>

\* uq_pricing_rates_one_current
Insertable(k) == \A j \in Of(k[1]) \ {k} : rate[j] # "current"

\* Fault: a rate that comes back is not opened again.
InsertRateOnce(w, k) ==
    /\ k \in writer[w].open
    /\ IF Insertable(k)
       THEN /\ rate' = [rate EXCEPT ![k] = IF @ = "closed" THEN "closed" ELSE "current"]
            /\ writer' = [writer EXCEPT ![w].open = {}]
       ELSE /\ writer' = [writer EXCEPT ![w].open = {}, ![w].rejected = @ \cup {k}]
            /\ UNCHANGED rate
    /\ UNCHANGED <<clock, catalog, cache, broken>>

\* Second statement: the new rate, or the one of that date again; another writer
\* may have inserted a current one in between.
InsertRate(w, k) ==
    /\ k \in writer[w].open
    /\ IF Insertable(k)
       THEN /\ rate' = [rate EXCEPT ![k] = "current"]
            /\ writer' = [writer EXCEPT ![w].open = {}]
       ELSE /\ writer' = [writer EXCEPT ![w].open = {}, ![w].rejected = @ \cup {k}]
            /\ UNCHANGED rate
    /\ UNCHANGED <<clock, catalog, cache, broken>>

\* The insert fails: the record is rejected and the loop goes on.
InsertFails(w, k) ==
    /\ k \in writer[w].open
    /\ writer' = [writer EXCEPT ![w].open = {}, ![w].rejected = @ \cup {k}]
    /\ broken' = broken \cup {k[1]}
    /\ UNCHANGED <<clock, catalog, rate, cache>>

\* The process dies.
Crash(w) ==
    /\ writer[w] # Idle
    /\ writer' = [writer EXCEPT ![w] = Idle]
    /\ broken' = broken \cup {k[1] : k \in writer[w].open}
    /\ UNCHANGED <<clock, catalog, rate, cache>>

Written(w) == /\ writer[w].stage = "write"
              /\ writer[w].rows = {} /\ writer[w].rates = {} /\ writer[w].open = {}

-----------------------------------------------------------------------------
(* The end of a run.                                                        *)

LiveRows == {k \in Records : catalog[k] # 0}
Fresh(t) == {k \in LiveRows : catalog[k] >= t}
Stale(t) == LiveRows \ Fresh(t)

\* Faults: the two guards of the prune, each left out.
EnoughFreshAlways(t) == t <= clock

PrunesAlways(q) == q.stage = "write"

\* pruneStaleLiveRows: counted and deleted in one statement.
EnoughFresh(t) ==
    /\ Fresh(t) # {}
    /\ FreshDen * Cardinality(Fresh(t)) >= FreshNum * Cardinality(LiveRows)

\* pruneAfterRefresh: a run with rejected records never prunes.
Prunes(q) == q.rejected = {}

EtlFinishes ==
    /\ Written(Etl)
    /\ catalog' = IF Prunes(writer[Etl]) /\ EnoughFresh(writer[Etl].stamp)
                  THEN [k \in Records |-> IF k \in Stale(writer[Etl].stamp) THEN 0 ELSE catalog[k]]
                  ELSE catalog
    /\ writer' = [writer EXCEPT ![Etl] = Idle]
    /\ UNCHANGED <<clock, rate, cache, broken>>

LiveFinishes(w) ==
    /\ w # Etl /\ Written(w)
    /\ writer' = [writer EXCEPT ![w] = Idle]
    /\ UNCHANGED <<clock, catalog, rate, cache, broken>>

-----------------------------------------------------------------------------
Write(w) == \E k \in Records :
    WriteRow(w, k) \/ CloseRate(w, k) \/ InsertRate(w, k) \/ InsertFails(w, k)

Next == \/ Tick
        \/ \E R \in SUBSET Records : EtlFetched(R)
        \/ EtlFinishes
        \/ \E w \in Writers : BeginFetch(w) \/ FetchFails(w) \/ Write(w) \/ Crash(w)
        \/ \E w \in Refreshes : \/ \E R \in SUBSET Records : LiveFetched(w, R)
                                \/ LiveCached(w) \/ LiveFinishes(w)

Spec == Init /\ [][Next]_vars

-----------------------------------------------------------------------------
(* Types, and that no stamp is from the future.                             *)
TypeOK ==
    /\ clock \in 1..MaxTime
    /\ catalog \in [Records -> 0..clock]
    /\ rate \in [Records -> {"none", "current", "closed"}]
    /\ writer \in [Writers -> WriterRecords]
    /\ cache \in [stamp: 0..MaxTime, records: SUBSET Records]
    /\ broken \subseteq Skus

(* A SKU has one current rate at most, whichever way two writers mix their  *)
(* closing and inserting (uq_pricing_rates_one_current).                    *)
OneCurrentRate ==
    \A s \in Skus : \A j, k \in Of(s) : rate[j] = "current" /\ rate[k] = "current" => j = k

(* A price change never loses the rate: a SKU that has rates has a current  *)
(* one, unless a writer is between its two statements for that SKU or one   *)
(* failed there.  "meaning a rate never changed once first recorded" is     *)
(* what the two statements replaced (upsertCurrentPricingRates); what they  *)
(* leave open is this gap and no more.                                      *)
RateGapExplained ==
    \A s \in Skus :
       (\E k \in Of(s) : rate[k] # "none") /\ ~HasCurrent(s)
          => s \in broken \/ \E w \in Writers : writer[w].open \cap Of(s) # {}

(* "a truncated feed cannot wipe the catalog" (docs/DIAGRAMS.md): however   *)
(* live refreshes mix in, no step loses more than the ratio allows.         *)
PruneKeepsMost ==
    [][FreshDen * Cardinality(LiveRows') >= FreshNum * Cardinality(LiveRows)]_vars

(* A row the provider returned and the database refused keeps its last good *)
(* price: the run that could not write it does not delete it either.        *)
RejectedSurvive ==
    [][\A k \in LiveRows \cap writer[Etl].rejected : catalog'[k] # 0]_vars

(* "drop live rows the provider no longer returns" (pricing-etl.service.ts) *)
(* and no others: what the run itself fetched is not pruned by it.          *)
PruneSparesReturned ==
    [][\A k \in LiveRows \cap writer[Etl].records : catalog'[k] # 0]_vars

(* What that needs and nothing ensures: while the run writes, no live       *)
(* refresh still has rows to write from an older answer.                    *)
NoOlderWriter ==
    writer[Etl].stage = "write" =>
        \A w \in Refreshes : writer[w].rows # {} => writer[w].stamp >= writer[Etl].stamp

=============================================================================
