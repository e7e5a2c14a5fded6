------------------------ MODULE PricingRefreshProofs ------------------------
(***************************************************************************)
(* Proofs about PricingRefresh for any SKUs, dates and live refreshes.     *)
(* What makes the rate invariants inductive is that a writer is between    *)
(* its two rate statements only while it writes; what keeps a row from     *)
(* vanishing by a write is that every answer carries a stamp.  What the    *)
(* run fetched it spares where no older answer is written beside it.       *)
(***************************************************************************)
EXTENDS PricingRefresh, FiniteSetTheorems, TLAPS

\* A writer that does not write yet has nothing to write and no rate open.
OpenWhileWriting == \A w \in Writers :
    writer[w].stage # "write" => writer[w].rows = {} /\ writer[w].rates = {} /\ writer[w].open = {}

\* Between two rate statements a writer has one record.
OneOpen == \A w \in Writers : \A j, k \in writer[w].open : j = k

\* Whatever is written or cached has the stamp of a fetch.
Stamped == /\ \A w \in Writers : writer[w].stage # "idle" => writer[w].stamp # 0
           /\ cache.records # {} => cache.stamp # 0

IInv == TypeOK /\ OneCurrentRate /\ RateGapExplained /\ OpenWhileWriting /\ OneOpen /\ Stamped

WriterTypes == writer \in [Writers -> WriterRecords]
CacheTypes == cache \in [stamp: 0..MaxTime, records: SUBSET Records]
RateTypes == rate \in [Records -> {"none", "current", "closed"}]
CatalogTypes == catalog \in [Records -> 0..clock]

-----------------------------------------------------------------------------
(* Types, part by part.  A stamp is never later than the clock, which needs *)
(* StampsPast beside the types.                                             *)

StampsPast == /\ \A w \in Writers : writer[w].stamp <= clock
              /\ cache.stamp <= clock

LEMMA InitInv == Init => IInv /\ StampsPast
  <1> SUFFICES ASSUME Init PROVE IInv /\ StampsPast
    OBVIOUS
  <1> USE BoundsAssumption
  <1>1. WriterTypes /\ CacheTypes /\ RateTypes /\ clock \in 1..MaxTime /\ broken \subseteq Skus
    BY DEF Init, Idle, WriterTypes, WriterRecords, CacheTypes, RateTypes
  <1>2. CatalogTypes
    BY DEF Init, CatalogTypes
  <1>3. StampsPast
    BY DEF Init, Idle, StampsPast
  <1>4. OneCurrentRate /\ RateGapExplained
    BY DEF Init, OneCurrentRate, RateGapExplained, Of, Records
  <1>5. OpenWhileWriting /\ OneOpen /\ Stamped
    BY DEF Init, Idle, OpenWhileWriting, OneOpen, Stamped
  <1> QED
    BY <1>1, <1>2, <1>3, <1>4, <1>5 DEF IInv, TypeOK, WriterTypes, CacheTypes, RateTypes, CatalogTypes

LEMMA WritersStep == ASSUME IInv, StampsPast, Next PROVE WriterTypes' /\ OpenWhileWriting'
  <1> USE BoundsAssumption
  <1>1. WriterTypes /\ CacheTypes /\ clock \in 1..MaxTime /\ OpenWhileWriting
    BY DEF IInv, TypeOK, WriterTypes, CacheTypes
  <1>2. ASSUME NEW w \in Writers, BeginFetch(w) PROVE WriterTypes' /\ OpenWhileWriting'
    BY <1>1, <1>2 DEF BeginFetch, Idle, WriterTypes, WriterRecords, OpenWhileWriting
  <1>3. ASSUME NEW w \in Writers, NEW R \in SUBSET Records, NEW t \in 0..MaxTime, Fetched(w, t, R)
        PROVE  WriterTypes' /\ OpenWhileWriting'
    BY <1>1, <1>3 DEF Fetched, Idle, WriterTypes, WriterRecords, OpenWhileWriting
  <1>4. ASSUME NEW w \in Writers, writer' = [writer EXCEPT ![w] = Idle] PROVE WriterTypes' /\ OpenWhileWriting'
    BY <1>1, <1>4 DEF Idle, WriterTypes, WriterRecords, OpenWhileWriting
  <1>5. ASSUME NEW w \in Writers, NEW k \in Records, WriteRow(w, k) PROVE WriterTypes' /\ OpenWhileWriting'
    BY <1>1, <1>5 DEF WriteRow, WriterTypes, WriterRecords, OpenWhileWriting
  <1>6. ASSUME NEW w \in Writers, NEW k \in Records, CloseRate(w, k) PROVE WriterTypes' /\ OpenWhileWriting'
    <2>1. writer' = [writer EXCEPT ![w].rates = @ \ {k}, ![w].open = {k}]
      BY <1>6 DEF CloseRate
    <2>2. writer[w].stage = "write"
      BY <1>1, <1>6 DEF CloseRate, OpenWhileWriting
    <2>3. WriterTypes'
      <3> DEFINE q == [writer[w] EXCEPT !.rates = @ \ {k}, !.open = {k}]
      <3>1. q \in WriterRecords
        BY <1>1 DEF WriterTypes, WriterRecords
      <3>2. writer' = [writer EXCEPT ![w] = q]
        BY <2>1
      <3> QED
        BY <1>1, <3>1, <3>2 DEF WriterTypes
    <2>4. OpenWhileWriting'
      BY <1>1, <2>1, <2>2 DEF OpenWhileWriting, WriterTypes, WriterRecords
    <2> QED
      BY <2>3, <2>4
  <1>7. ASSUME NEW w \in Writers, NEW k \in Records, InsertRate(w, k) \/ InsertFails(w, k)
        PROVE  WriterTypes' /\ OpenWhileWriting'
    BY <1>1, <1>7 DEF InsertRate, InsertFails, WriterTypes, WriterRecords, OpenWhileWriting
  <1>8. ASSUME UNCHANGED writer PROVE WriterTypes' /\ OpenWhileWriting'
    BY <1>1, <1>8 DEF WriterTypes, OpenWhileWriting
  <1>9. ASSUME NEW R \in SUBSET Records, EtlFetched(R) PROVE WriterTypes' /\ OpenWhileWriting'
    <2>1. Etl \in Writers /\ writer[Etl].stamp \in 0..MaxTime
      BY <1>1 DEF Writers, WriterTypes, WriterRecords
    <2> QED
      BY <1>3, <1>9, <2>1 DEF EtlFetched
  <1>10. ASSUME NEW w \in Refreshes, NEW R \in SUBSET Records, LiveFetched(w, R)
         PROVE  WriterTypes' /\ OpenWhileWriting'
    <2>1. w \in Writers /\ writer[w].stamp \in 0..MaxTime
      BY <1>1 DEF Writers, WriterTypes, WriterRecords
    <2> QED
      BY <1>3, <1>10, <2>1 DEF LiveFetched
  <1>11. ASSUME NEW w \in Refreshes, LiveCached(w) PROVE WriterTypes' /\ OpenWhileWriting'
    <2>1. w \in Writers /\ cache.stamp \in 0..MaxTime /\ cache.records \in SUBSET Records
      BY <1>1 DEF Writers, CacheTypes
    <2> QED
      BY <1>3, <1>11, <2>1 DEF LiveCached
  <1>12. ASSUME NEW w \in Refreshes, LiveFinishes(w) PROVE WriterTypes' /\ OpenWhileWriting'
    BY <1>4, <1>12 DEF LiveFinishes, Writers
  <1>13. CASE EtlFinishes
    BY <1>4, <1>13 DEF EtlFinishes, Writers
  <1>14. ASSUME NEW w \in Writers, FetchFails(w) \/ Crash(w) PROVE WriterTypes' /\ OpenWhileWriting'
    BY <1>4, <1>14 DEF FetchFails, Crash
  <1>15. CASE Tick
    BY <1>8, <1>15 DEF Tick
  <1> QED
    BY <1>2, <1>5, <1>6, <1>7, <1>9, <1>10, <1>11, <1>12, <1>13, <1>14, <1>15 DEF Next, Write

LEMMA OneOpenStep == ASSUME IInv, Next PROVE OneOpen'
  <1>1. WriterTypes /\ OneOpen
    BY DEF IInv, TypeOK, WriterTypes
  <1>2. ASSUME NEW w \in Writers, NEW q, writer' = [writer EXCEPT ![w] = q],
               q.open = {} \/ q.open = writer[w].open \/ \E k : q.open = {k}
        PROVE  OneOpen'
    BY <1>1, <1>2 DEF OneOpen, WriterTypes
  <1>3. ASSUME UNCHANGED writer PROVE OneOpen'
    BY <1>1, <1>3 DEF OneOpen
  <1>4. ASSUME NEW w \in Writers, BeginFetch(w) PROVE OneOpen'
    BY <1>1, <1>4 DEF BeginFetch, OneOpen, WriterTypes, WriterRecords
  <1>5. ASSUME NEW w \in Writers, NEW R, NEW t, Fetched(w, t, R) PROVE OneOpen'
    BY <1>2, <1>5 DEF Fetched, Idle
  <1>6. ASSUME NEW R, EtlFetched(R) PROVE OneOpen'
    BY <1>5, <1>6 DEF EtlFetched, Writers
  <1>7. ASSUME NEW w \in Refreshes, NEW R, LiveFetched(w, R) \/ LiveCached(w) PROVE OneOpen'
    <2>1. w \in Writers
      BY DEF Writers
    <2> QED
      BY <1>5, <1>7, <2>1 DEF LiveFetched, LiveCached
  <1>8. ASSUME NEW w \in Writers, FetchFails(w) \/ Crash(w) \/ LiveFinishes(w) PROVE OneOpen'
    BY <1>2, <1>8 DEF FetchFails, Crash, LiveFinishes, Idle
  <1>9. ASSUME EtlFinishes PROVE OneOpen'
    BY <1>2, <1>9 DEF EtlFinishes, Idle, Writers
  <1>10. ASSUME NEW w \in Writers, NEW k \in Records, WriteRow(w, k) PROVE OneOpen'
    BY <1>1, <1>10 DEF WriteRow, OneOpen, WriterTypes, WriterRecords
  <1>11. ASSUME NEW w \in Writers, NEW k \in Records, CloseRate(w, k) PROVE OneOpen'
    BY <1>1, <1>11 DEF CloseRate, OneOpen, WriterTypes, WriterRecords
  <1>12. ASSUME NEW w \in Writers, NEW k \in Records, InsertRate(w, k) \/ InsertFails(w, k) PROVE OneOpen'
    BY <1>1, <1>12 DEF InsertRate, InsertFails, OneOpen, WriterTypes, WriterRecords
  <1>13. ASSUME Tick PROVE OneOpen'
    BY <1>3, <1>13 DEF Tick
  <1>14. Refreshes \subseteq Writers
    BY DEF Writers
  <1> QED
    BY <1>4, <1>6, <1>7, <1>8, <1>9, <1>10, <1>11, <1>12, <1>13, <1>14 DEF Next, Write

-----------------------------------------------------------------------------
(* Clock, stamps, cache and catalog.                                        *)

LEMMA StampsStep == ASSUME IInv, StampsPast, Next PROVE (clock \in 1..MaxTime)' /\ CacheTypes' /\ StampsPast' /\ Stamped'
  <1> USE BoundsAssumption
  <1>1. WriterTypes /\ CacheTypes /\ clock \in 1..MaxTime /\ Stamped /\ StampsPast
    BY DEF IInv, TypeOK, WriterTypes, CacheTypes
  <1> DEFINE Goal == (clock \in 1..MaxTime)' /\ CacheTypes' /\ StampsPast' /\ Stamped'
  <1>2. ASSUME Tick PROVE Goal
    BY <1>1, <1>2 DEF Tick, WriterTypes, WriterRecords, CacheTypes, StampsPast, Stamped
  <1>3. ASSUME NEW w \in Writers, BeginFetch(w) PROVE Goal
    BY <1>1, <1>3 DEF BeginFetch, WriterTypes, WriterRecords, CacheTypes, StampsPast, Stamped
  <1>4. ASSUME NEW R \in SUBSET Records, EtlFetched(R) PROVE Goal
    <2>1. Etl \in Writers
      BY DEF Writers
    <2> QED
      BY <1>1, <1>4, <2>1 DEF EtlFetched, Fetched, Idle, WriterTypes, WriterRecords, CacheTypes, StampsPast, Stamped
  <1>5. ASSUME NEW w \in Refreshes, NEW R \in SUBSET Records, LiveFetched(w, R) PROVE Goal
    <2>1. w \in Writers
      BY DEF Writers
    <2> QED
      BY <1>1, <1>5, <2>1 DEF LiveFetched, Fetched, Idle, WriterTypes, WriterRecords, CacheTypes, StampsPast, Stamped
  <1>6. ASSUME NEW w \in Refreshes, LiveCached(w) PROVE Goal
    <2>1. w \in Writers
      BY DEF Writers
    <2> QED
      BY <1>1, <1>6, <2>1 DEF LiveCached, Fetched, Idle, WriterTypes, WriterRecords, CacheTypes, StampsPast, Stamped
  <1>7. ASSUME NEW w \in Writers, writer' = [writer EXCEPT ![w] = Idle], UNCHANGED <<clock, cache>> PROVE Goal
    BY <1>1, <1>7 DEF Idle, WriterTypes, WriterRecords, CacheTypes, StampsPast, Stamped
  <1>8. ASSUME NEW w \in Writers, UNCHANGED <<clock, cache>>,
               \A v \in Writers : writer'[v].stamp = writer[v].stamp /\ writer'[v].stage = writer[v].stage
        PROVE  Goal
    BY <1>1, <1>8 DEF CacheTypes, StampsPast, Stamped
  <1>9. ASSUME NEW w \in Writers, NEW k \in Records, WriteRow(w, k) PROVE Goal
    BY <1>1, <1>8, <1>9 DEF WriteRow, WriterTypes, WriterRecords
  <1>10. ASSUME NEW w \in Writers, NEW k \in Records, CloseRate(w, k) \/ InsertRate(w, k) \/ InsertFails(w, k) PROVE Goal
    BY <1>1, <1>8, <1>10 DEF CloseRate, InsertRate, InsertFails, WriterTypes, WriterRecords
  <1>11. ASSUME NEW w \in Writers, FetchFails(w) \/ Crash(w) \/ LiveFinishes(w) PROVE Goal
    BY <1>7, <1>11 DEF FetchFails, Crash, LiveFinishes
  <1>12. ASSUME EtlFinishes PROVE Goal
    BY <1>7, <1>12 DEF EtlFinishes, Writers
  <1>13. Refreshes \subseteq Writers
    BY DEF Writers
  <1> QED
    BY <1>2, <1>3, <1>4, <1>5, <1>6, <1>9, <1>10, <1>11, <1>12, <1>13 DEF Next, Write

LEMMA CatalogStep == ASSUME IInv, StampsPast, Next PROVE CatalogTypes' /\ (broken \subseteq Skus)'
  <1> USE BoundsAssumption
  <1>1. WriterTypes /\ CatalogTypes /\ clock \in 1..MaxTime /\ broken \subseteq Skus /\ StampsPast
    BY DEF IInv, TypeOK, WriterTypes, CatalogTypes
  <1>2. \A k \in Records : k[1] \in Skus
    BY DEF Records
  <1>3. ASSUME Tick PROVE CatalogTypes' /\ (broken \subseteq Skus)'
    BY <1>1, <1>3 DEF Tick, CatalogTypes
  <1>4. ASSUME NEW w \in Writers, NEW k \in Records, WriteRow(w, k) PROVE CatalogTypes' /\ (broken \subseteq Skus)'
    <2>1. writer[w].stamp \in 0..clock
      BY <1>1 DEF WriterTypes, WriterRecords, StampsPast
    <2> QED
      BY <1>1, <1>4, <2>1 DEF WriteRow, CatalogTypes
  <1>5. ASSUME EtlFinishes PROVE CatalogTypes' /\ (broken \subseteq Skus)'
    BY <1>1, <1>5 DEF EtlFinishes, CatalogTypes
  <1>6. ASSUME UNCHANGED <<clock, catalog>>, broken' \subseteq Skus PROVE CatalogTypes' /\ (broken \subseteq Skus)'
    BY <1>1, <1>6 DEF CatalogTypes
  <1>7. ASSUME NEW w \in Writers, NEW k \in Records, InsertFails(w, k) PROVE CatalogTypes' /\ (broken \subseteq Skus)'
    BY <1>1, <1>2, <1>6, <1>7 DEF InsertFails
  <1>8. ASSUME NEW w \in Writers, Crash(w) PROVE CatalogTypes' /\ (broken \subseteq Skus)'
    <2>1. writer[w].open \subseteq Records
      BY <1>1 DEF WriterTypes, WriterRecords
    <2> QED
      BY <1>1, <1>2, <1>6, <1>8, <2>1 DEF Crash
  <1>9. ASSUME UNCHANGED <<clock, catalog, broken>> PROVE CatalogTypes' /\ (broken \subseteq Skus)'
    BY <1>1, <1>6, <1>9
  <1> QED
    BY <1>3, <1>4, <1>5, <1>7, <1>8, <1>9
    DEF Next, Write, EtlFetched, BeginFetch, FetchFails, CloseRate, InsertRate, LiveFetched, LiveCached, LiveFinishes

-----------------------------------------------------------------------------
(* The rates.                                                               *)

LEMMA RatesStep == ASSUME IInv, Next PROVE RateTypes' /\ OneCurrentRate'
  <1>1. RateTypes /\ OneCurrentRate
    BY DEF IInv, TypeOK, RateTypes
  <1>2. ASSUME NEW w \in Writers, NEW k \in Records, CloseRate(w, k) PROVE RateTypes' /\ OneCurrentRate'
    BY <1>1, <1>2 DEF CloseRate, RateTypes, OneCurrentRate, Of, Records
  <1>3. ASSUME NEW w \in Writers, NEW k \in Records, InsertRate(w, k) PROVE RateTypes' /\ OneCurrentRate'
    BY <1>1, <1>3 DEF InsertRate, Insertable, RateTypes, OneCurrentRate, Of, Records
  <1>4. ASSUME UNCHANGED rate PROVE RateTypes' /\ OneCurrentRate'
    BY <1>1, <1>4 DEF RateTypes, OneCurrentRate
  <1> QED
    BY <1>2, <1>3, <1>4
    DEF Next, Write, Tick, EtlFetched, EtlFinishes, BeginFetch, FetchFails, WriteRow, InsertFails, Crash, LiveFetched,
        LiveCached, LiveFinishes

\* A step that leaves the rates, and takes the open record of no writer without
\* noting the SKU as broken, leaves the gap explained.
LEMMA GapKept ==
    ASSUME RateGapExplained, UNCHANGED rate, broken \subseteq broken',
           \A w \in Writers : \A k \in writer[w].open : k \in writer'[w].open \/ k[1] \in broken',
           \A w \in Writers : writer[w].open \subseteq Records
    PROVE  RateGapExplained'
  <1>1. SUFFICES ASSUME NEW s \in Skus, \E k \in Of(s) : rate[k] # "none", ~HasCurrent(s)
                 PROVE  s \in broken' \/ \E w \in Writers : writer'[w].open \cap Of(s) # {}
    BY DEF RateGapExplained, HasCurrent, Of
  <1>2. s \in broken \/ \E w \in Writers : writer[w].open \cap Of(s) # {}
    BY <1>1 DEF RateGapExplained
  <1>3. ASSUME NEW w \in Writers, writer[w].open \cap Of(s) # {}
        PROVE  s \in broken' \/ \E v \in Writers : writer'[v].open \cap Of(s) # {}
    <2>1. PICK k \in writer[w].open : k \in Of(s)
      BY <1>3
    <2>2. k[1] = s
      BY <2>1 DEF Of
    <2> QED
      BY <2>1, <2>2
  <1> QED
    BY <1>2, <1>3

LEMMA GapStep == ASSUME IInv, Next PROVE RateGapExplained'
  <1> USE BoundsAssumption
  <1>1. WriterTypes /\ RateTypes /\ RateGapExplained /\ OpenWhileWriting
    BY DEF IInv, TypeOK, WriterTypes, RateTypes
  <1>2. \A w \in Writers : writer[w].open \subseteq Records
    BY <1>1 DEF WriterTypes, WriterRecords
  <1>3. ASSUME UNCHANGED <<rate, broken>>, NEW w \in Writers, NEW q, writer' = [writer EXCEPT ![w] = q],
               writer[w].open \subseteq q.open
        PROVE  RateGapExplained'
    BY <1>1, <1>2, <1>3, GapKept DEF WriterTypes
  <1>4. ASSUME NEW w \in Writers, BeginFetch(w) PROVE RateGapExplained'
    <2>1. writer[w].open = {}
      BY <1>4 DEF BeginFetch, Idle
    <2> QED
      BY <1>1, <1>2, <1>4, <2>1, GapKept DEF BeginFetch, WriterTypes, WriterRecords
  <1>5. ASSUME NEW w \in Writers, NEW R, NEW t, Fetched(w, t, R), writer[w].open = {}, UNCHANGED <<rate, broken>>
        PROVE  RateGapExplained'
    BY <1>3, <1>5 DEF Fetched
  <1>6. ASSUME NEW R \in SUBSET Records, EtlFetched(R) PROVE RateGapExplained'
    <2>1. Etl \in Writers
      BY DEF Writers
    <2>2. writer[Etl].open = {}
      BY <1>1, <1>6, <2>1 DEF EtlFetched, OpenWhileWriting
    <2> QED
      BY <1>5, <1>6, <2>1, <2>2 DEF EtlFetched
  <1>7. ASSUME NEW w \in Refreshes, NEW R \in SUBSET Records, LiveFetched(w, R) PROVE RateGapExplained'
    <2>1. w \in Writers
      BY DEF Writers
    <2>2. writer[w].open = {}
      BY <1>1, <1>7, <2>1 DEF LiveFetched, OpenWhileWriting
    <2> QED
      BY <1>5, <1>7, <2>1, <2>2 DEF LiveFetched
  <1>8. ASSUME NEW w \in Refreshes, LiveCached(w) PROVE RateGapExplained'
    <2>1. w \in Writers
      BY DEF Writers
    <2>2. writer[w].open = {}
      BY <1>8 DEF LiveCached, Idle
    <2> QED
      BY <1>5, <1>8, <2>1, <2>2 DEF LiveCached
  <1>9. ASSUME NEW w \in Writers, FetchFails(w) \/ LiveFinishes(w) PROVE RateGapExplained'
    <2>1. writer[w].open = {}
      BY <1>1, <1>9 DEF FetchFails, LiveFinishes, Written, OpenWhileWriting
    <2> QED
      BY <1>3, <1>9, <2>1 DEF FetchFails, LiveFinishes
  <1>10. ASSUME EtlFinishes PROVE RateGapExplained'
    <2>1. Etl \in Writers /\ writer[Etl].open = {}
      BY <1>10 DEF EtlFinishes, Written, Writers
    <2> QED
      BY <1>3, <1>10, <2>1 DEF EtlFinishes
  <1>11. ASSUME NEW w \in Writers, NEW k \in Records, WriteRow(w, k) PROVE RateGapExplained'
    <2>1. UNCHANGED <<rate, broken>>
      BY <1>11 DEF WriteRow
    <2>2. \A v \in Writers : writer'[v].open = writer[v].open
      BY <1>1, <1>11 DEF WriteRow, WriterTypes, WriterRecords
    <2> QED
      BY <1>1, <1>2, <2>1, <2>2, GapKept
  <1>12. ASSUME NEW w \in Writers, NEW k \in Records, CloseRate(w, k) PROVE RateGapExplained'
    <2>1. UNCHANGED broken
      BY <1>12 DEF CloseRate
    <2>2. writer'[w].open = {k}
      BY <1>1, <1>12 DEF CloseRate, WriterTypes, WriterRecords
    <2>3. \A v \in Writers : v # w => writer'[v].open = writer[v].open
      BY <1>1, <1>12 DEF CloseRate, WriterTypes, WriterRecords
    <2>4. writer[w].open = {}
      BY <1>12 DEF CloseRate
    <2>5. SUFFICES ASSUME NEW s \in Skus, \E j \in Of(s) : rate'[j] # "none", ~HasCurrent(s)'
                   PROVE  s \in broken' \/ \E v \in Writers : writer'[v].open \cap Of(s) # {}
      BY DEF RateGapExplained, HasCurrent, Of
    <2>6. k[1] \in Skus /\ k \in Of(k[1])
      BY DEF Of, Records
    <2>7. CASE s = k[1]
      BY <2>2, <2>6, <2>7
    <2>8. CASE s # k[1]
      <3>1. \A j \in Of(s) : j \in Records /\ j \notin Of(k[1])
        BY <2>8 DEF Of, Records
      <3>2. \A j \in Of(s) : rate'[j] = rate[j]
        BY <1>12, <3>1 DEF CloseRate
      <3>3. (\E j \in Of(s) : rate[j] # "none") /\ ~HasCurrent(s)
        BY <2>5, <3>2 DEF HasCurrent, Of
      <3>4. s \in broken \/ \E v \in Writers : writer[v].open \cap Of(s) # {}
        BY <1>1, <3>3 DEF RateGapExplained
      <3> QED
        BY <2>1, <2>3, <2>4, <3>4
    <2> QED
      BY <2>7, <2>8
  <1>13. ASSUME NEW w \in Writers, NEW k \in Records, InsertRate(w, k) PROVE RateGapExplained'
    <2>1. UNCHANGED broken
      BY <1>13 DEF InsertRate
    <2>2. \A v \in Writers : v # w => writer'[v].open = writer[v].open
      BY <1>1, <1>13 DEF InsertRate, WriterTypes, WriterRecords
    <2>3. SUFFICES ASSUME NEW s \in Skus, \E j \in Of(s) : rate'[j] # "none", ~HasCurrent(s)'
                   PROVE  s \in broken' \/ \E v \in Writers : writer'[v].open \cap Of(s) # {}
      BY DEF RateGapExplained, HasCurrent, Of
    <2>4. \A j \in Of(s) : rate'[j] # "current"
      BY <2>3 DEF HasCurrent, Of
    <2>5. k[1] \in Skus /\ k \in Of(k[1])
      BY DEF Of, Records
    <2>6. s # k[1]
      <3>1. CASE Insertable(k)
        BY <1>1, <1>13, <2>4, <2>5, <3>1 DEF InsertRate, RateTypes
      <3>2. CASE ~Insertable(k)
        BY <1>13, <2>4, <3>2 DEF InsertRate, Insertable
      <3> QED
        BY <3>1, <3>2
    <2>7. \A j \in Of(s) : rate'[j] = rate[j]
      <3>1. \A j \in Of(s) : j \in Records /\ j # k
        BY <2>6 DEF Of, Records
      <3> QED
        BY <1>1, <1>13, <3>1 DEF InsertRate, RateTypes
    <2>8. (\E j \in Of(s) : rate[j] # "none") /\ ~HasCurrent(s)
      BY <2>3, <2>7 DEF HasCurrent, Of
    <2>9. s \in broken \/ \E v \in Writers : writer[v].open \cap Of(s) # {}
      BY <1>1, <2>8 DEF RateGapExplained
    <2>10. writer[w].open \cap Of(s) = {}
      <3>1. k \in writer[w].open /\ \A j \in writer[w].open : j = k
        BY <1>13 DEF IInv, OneOpen, InsertRate
      <3> QED
        BY <2>6, <3>1 DEF Of
    <2> QED
      BY <2>1, <2>2, <2>9, <2>10
  <1>14. ASSUME NEW w \in Writers, NEW k \in Records, InsertFails(w, k) PROVE RateGapExplained'
    <2>1. \A v \in Writers : v # w => writer'[v].open = writer[v].open
      BY <1>1, <1>14 DEF InsertFails, WriterTypes, WriterRecords
    <2>2. \A j \in writer[w].open : j[1] \in broken'
      BY <1>14 DEF InsertFails, IInv, OneOpen
    <2>3. \A v \in Writers : \A j \in writer[v].open : j \in writer'[v].open \/ j[1] \in broken'
      BY <2>1, <2>2
    <2>4. UNCHANGED rate /\ broken \subseteq broken'
      BY <1>14 DEF InsertFails
    <2> QED
      BY <1>1, <1>2, <2>3, <2>4, GapKept
  <1>15. ASSUME NEW w \in Writers, Crash(w) PROVE RateGapExplained'
    BY <1>1, <1>2, <1>15, GapKept DEF Crash, Idle, WriterTypes, WriterRecords
  <1>16. ASSUME Tick PROVE RateGapExplained'
    BY <1>1, <1>2, <1>16, GapKept DEF Tick
  <1>17. Refreshes \subseteq Writers
    BY DEF Writers
  <1> QED
    BY <1>4, <1>6, <1>7, <1>8, <1>9, <1>10, <1>11, <1>12, <1>13, <1>14, <1>15, <1>16, <1>17 DEF Next, Write

-----------------------------------------------------------------------------
(* The theorems.                                                            *)

LEMMA NextInv == IInv /\ StampsPast /\ [Next]_vars => (IInv /\ StampsPast)'
  <1> SUFFICES ASSUME IInv, StampsPast, [Next]_vars PROVE (IInv /\ StampsPast)'
    OBVIOUS
  <1>1. CASE Next
    <2>1. TypeOK'
      BY <1>1, WritersStep, StampsStep, CatalogStep, RatesStep
      DEF TypeOK, WriterTypes, CacheTypes, CatalogTypes, RateTypes
    <2> QED
      BY <1>1, <2>1, WritersStep, OneOpenStep, StampsStep, RatesStep, GapStep DEF IInv
  <1>2. CASE UNCHANGED vars
    BY <1>2 DEF vars, IInv, StampsPast, TypeOK, OneCurrentRate, RateGapExplained, HasCurrent, OpenWhileWriting,
                OneOpen, Stamped
  <1> QED
    BY <1>1, <1>2

(* The inductive invariant holds throughout, whatever the number of SKUs,   *)
(* dates and live refreshes.                                                *)
THEOREM Invariance == Spec => [](IInv /\ StampsPast)
  BY InitInv, NextInv, PTL DEF Spec

(* The types, and with them that no live row has a stamp from the future.   *)
THEOREM TypeCorrect == Spec => []TypeOK
  <1>1. IInv => TypeOK
    BY DEF IInv
  <1> QED
    BY <1>1, Invariance, PTL

(* Writers that mix their two rate statements never leave a SKU two current *)
(* rates.                                                                   *)
THEOREM OneCurrentRateHolds == Spec => []OneCurrentRate
  <1>1. IInv => OneCurrentRate
    BY DEF IInv
  <1> QED
    BY <1>1, Invariance, PTL

(* A SKU with rates and no current one is between the two statements of a   *)
(* writer, or one failed there.                                             *)
THEOREM RateGapExplainedHolds == Spec => []RateGapExplained
  <1>1. IInv => RateGapExplained
    BY DEF IInv
  <1> QED
    BY <1>1, Invariance, PTL

LEMMA RejectedStep ==
    IInv /\ [Next]_vars => [\A k \in LiveRows \cap writer[Etl].rejected : catalog'[k] # 0]_vars
  <1> SUFFICES ASSUME IInv, Next, NEW k \in LiveRows, k \in writer[Etl].rejected PROVE catalog'[k] # 0
    OBVIOUS
  <1>1. k \in Records /\ catalog[k] # 0 /\ CatalogTypes /\ Stamped /\ WriterTypes
    BY DEF LiveRows, IInv, TypeOK, CatalogTypes, WriterTypes
  <1>2. ASSUME NEW w \in Writers, NEW j \in Records, WriteRow(w, j) PROVE catalog'[k] # 0
    <2>1. writer[w].stage # "idle"
      <3>1. writer[w].rows # {}
        BY <1>2 DEF WriteRow
      <3>2. writer[w].stage = "write"
        BY <3>1 DEF IInv, OpenWhileWriting
      <3> QED
        BY <3>2
    <2>2. writer[w].stamp # 0
      BY <1>1, <2>1 DEF Stamped
    <2> QED
      BY <1>1, <1>2, <2>2 DEF WriteRow, CatalogTypes
  <1>3. ASSUME EtlFinishes PROVE catalog'[k] # 0
    BY <1>1, <1>3 DEF EtlFinishes, Prunes
  <1>4. ASSUME UNCHANGED catalog PROVE catalog'[k] # 0
    BY <1>1, <1>4
  <1> QED
    BY <1>2, <1>3, <1>4
    DEF Next, Write, Tick, EtlFetched, BeginFetch, FetchFails, CloseRate, InsertRate, InsertFails, Crash, LiveFetched,
        LiveCached, LiveFinishes

(* A row that the run could not write keeps its last good price.            *)
THEOREM RejectedSurviveHolds == Spec => RejectedSurvive
  BY Invariance, RejectedStep, PTL DEF Spec, RejectedSurvive

-----------------------------------------------------------------------------
(* The prune.                                                               *)

\* No write takes a row away: every writer that writes has a stamp.
LEMMA WritesKeepRows ==
    ASSUME IInv, NEW w \in Writers, NEW k \in Records, WriteRow(w, k)
    PROVE  LiveRows \subseteq LiveRows'
  <1>1. CatalogTypes /\ Stamped /\ OpenWhileWriting
    BY DEF IInv, TypeOK, CatalogTypes
  <1>2. writer[w].stage = "write"
    BY <1>1 DEF WriteRow, OpenWhileWriting
  <1>3. writer[w].stamp # 0
    BY <1>1, <1>2 DEF Stamped
  <1> QED
    BY <1>1, <1>3 DEF WriteRow, CatalogTypes, LiveRows

\* What the prune leaves is what is fresh.
LEMMA PruneLeavesFresh ==
    ASSUME IInv, EtlFinishes, LiveRows' # LiveRows
    PROVE  LiveRows' = Fresh(writer[Etl].stamp) /\ EnoughFresh(writer[Etl].stamp)
  <1>1. CatalogTypes
    BY DEF IInv, TypeOK, CatalogTypes
  <1>2. CASE Prunes(writer[Etl]) /\ EnoughFresh(writer[Etl].stamp)
    <2>1. catalog' = [k \in Records |-> IF k \in Stale(writer[Etl].stamp) THEN 0 ELSE catalog[k]]
      BY <1>2 DEF EtlFinishes
    <2> QED
      BY <1>1, <1>2, <2>1 DEF LiveRows, Stale, Fresh, CatalogTypes
  <1>3. CASE ~(Prunes(writer[Etl]) /\ EnoughFresh(writer[Etl].stamp))
    BY <1>3 DEF EtlFinishes, LiveRows
  <1> QED
    BY <1>2, <1>3

LEMMA RowsCounted ==
    ASSUME NEW S \in SUBSET Records
    PROVE  IsFiniteSet(S) /\ Cardinality(S) \in Nat /\ \A T \in SUBSET S : Cardinality(T) <= Cardinality(S)
  <1>1. IsFiniteSet(Records)
    BY BoundsAssumption, FS_Product DEF Records
  <1>2. IsFiniteSet(S)
    BY <1>1, FS_Subset
  <1> QED
    BY <1>2, FS_Subset, FS_CardinalityType

\* The whole catalog is the ratio of itself, and more.
LEMMA RatioOfAll ==
    ASSUME NEW m \in Nat, NEW n \in Nat, n <= m
    PROVE  FreshDen * m >= FreshNum * n
  <1> USE RatioAssumption
  <1>1. FreshDen * m >= FreshNum * m
    OBVIOUS
  <1>2. FreshNum * m >= FreshNum * n
    OBVIOUS
  <1>3. FreshDen * m \in Nat /\ FreshNum * m \in Nat /\ FreshNum * n \in Nat
    OBVIOUS
  <1> QED
    BY <1>1, <1>2, <1>3

LEMMA PruneStep ==
    IInv /\ [Next]_vars => [FreshDen * Cardinality(LiveRows') >= FreshNum * Cardinality(LiveRows)]_vars
  <1> SUFFICES ASSUME IInv, Next PROVE FreshDen * Cardinality(LiveRows') >= FreshNum * Cardinality(LiveRows)
    OBVIOUS
  <1>1. LiveRows \in SUBSET Records /\ LiveRows' \in SUBSET Records
    BY DEF LiveRows
  <1>2. ASSUME LiveRows \subseteq LiveRows'
        PROVE  FreshDen * Cardinality(LiveRows') >= FreshNum * Cardinality(LiveRows)
    <2>1. Cardinality(LiveRows) \in Nat /\ Cardinality(LiveRows') \in Nat
          /\ Cardinality(LiveRows) <= Cardinality(LiveRows')
      BY <1>1, <1>2, RowsCounted
    <2> QED
      BY <2>1, RatioOfAll
  <1>3. ASSUME NEW w \in Writers, NEW k \in Records, WriteRow(w, k)
        PROVE  FreshDen * Cardinality(LiveRows') >= FreshNum * Cardinality(LiveRows)
    BY <1>2, <1>3, WritesKeepRows
  <1>4. ASSUME EtlFinishes
        PROVE  FreshDen * Cardinality(LiveRows') >= FreshNum * Cardinality(LiveRows)
    <2>1. CASE LiveRows' = LiveRows
      BY <1>2, <2>1
    <2>2. CASE LiveRows' # LiveRows
      BY <1>4, <2>2, PruneLeavesFresh DEF EnoughFresh
    <2> QED
      BY <2>1, <2>2
  <1>5. ASSUME UNCHANGED catalog
        PROVE  FreshDen * Cardinality(LiveRows') >= FreshNum * Cardinality(LiveRows)
    BY <1>2, <1>5 DEF LiveRows
  <1> QED
    BY <1>3, <1>4, <1>5
    DEF Next, Write, Tick, EtlFetched, BeginFetch, FetchFails, CloseRate, InsertRate, InsertFails, Crash, LiveFetched,
        LiveCached, LiveFinishes

(* A truncated answer cannot wipe the catalog: whatever writers mix in, no  *)
(* step leaves fewer live rows than the ratio of those there were.          *)
THEOREM PruneKeepsMostHolds == Spec => PruneKeepsMost
  BY Invariance, PruneStep, PTL DEF Spec, PruneKeepsMost

-----------------------------------------------------------------------------
(* What the run itself fetched.                                             *)

\* What the run fetched and has written has its stamp, or a later one.
ReturnedFresh == writer[Etl].stage = "write" =>
    \A k \in writer[Etl].records \ (writer[Etl].rows \cup writer[Etl].rejected) :
        catalog[k] >= writer[Etl].stamp

\* A step of the run that takes no record out of those still to write.
LEMMA EtlGoesOn ==
    ASSUME IInv, ReturnedFresh, UNCHANGED catalog, writer'[Etl].stage = writer[Etl].stage,
           writer'[Etl].records = writer[Etl].records, writer'[Etl].stamp = writer[Etl].stamp,
           writer'[Etl].rows = writer[Etl].rows, writer[Etl].rejected \subseteq writer'[Etl].rejected
    PROVE  ReturnedFresh'
  BY DEF ReturnedFresh

LEMMA ReturnedStep == ASSUME IInv, ReturnedFresh, NoOlderWriter, Next PROVE ReturnedFresh'
  <1>1. WriterTypes /\ CatalogTypes /\ OpenWhileWriting /\ clock \in Nat /\ Etl \in Writers
    BY BoundsAssumption DEF IInv, TypeOK, WriterTypes, CatalogTypes, Writers
  <1>2. writer[Etl].stamp \in Nat
    BY <1>1, BoundsAssumption DEF WriterTypes, WriterRecords
  <1>3. ASSUME NEW k \in Records, WriteRow(Etl, k) PROVE ReturnedFresh'
    <2>1. /\ writer'[Etl].stamp = writer[Etl].stamp /\ writer'[Etl].records = writer[Etl].records
          /\ writer'[Etl].rows = writer[Etl].rows \ {k} /\ writer'[Etl].stage = writer[Etl].stage
      BY <1>1, <1>3 DEF WriteRow, WriterTypes, WriterRecords
    <2>2. \/ /\ catalog' = [catalog EXCEPT ![k] = writer[Etl].stamp]
             /\ writer'[Etl].rejected = writer[Etl].rejected
          \/ /\ UNCHANGED catalog
             /\ writer'[Etl].rejected = writer[Etl].rejected \cup {k}
      BY <1>1, <1>3 DEF WriteRow, WriterTypes, WriterRecords
    <2>3. CASE catalog' = [catalog EXCEPT ![k] = writer[Etl].stamp] /\ writer'[Etl].rejected = writer[Etl].rejected
      BY <1>1, <1>2, <2>1, <2>3 DEF ReturnedFresh, CatalogTypes
    <2>4. CASE UNCHANGED catalog /\ writer'[Etl].rejected = writer[Etl].rejected \cup {k}
      BY <2>1, <2>4 DEF ReturnedFresh
    <2> QED
      BY <2>2, <2>3, <2>4
  <1>4. ASSUME NEW w \in Refreshes, NEW k \in Records, WriteRow(w, k) PROVE ReturnedFresh'
    <2>1. w \in Writers /\ w # Etl /\ writer[w].stamp \in Nat
      BY <1>1, BoundsAssumption, WritersAssumption DEF Writers, WriterTypes, WriterRecords
    <2>2. writer'[Etl] = writer[Etl]
      BY <1>1, <1>4, <2>1 DEF WriteRow, WriterTypes
    <2>3. UNCHANGED catalog \/ catalog' = [catalog EXCEPT ![k] = writer[w].stamp]
      BY <1>4 DEF WriteRow
    <2>4. writer[Etl].stage = "write" => writer[w].stamp >= writer[Etl].stamp
      BY <1>4 DEF NoOlderWriter, WriteRow
    <2>5. CASE UNCHANGED catalog
      BY <2>2, <2>5 DEF ReturnedFresh
    <2>6. CASE catalog' = [catalog EXCEPT ![k] = writer[w].stamp]
      <3> SUFFICES ASSUME writer[Etl].stage = "write", NEW j \in writer[Etl].records,
                          j \notin writer[Etl].rows \cup writer[Etl].rejected
                   PROVE  catalog'[j] >= writer[Etl].stamp
        BY <2>2 DEF ReturnedFresh
      <3>1. j \in Records
        BY <1>1 DEF WriterTypes, WriterRecords
      <3>2. CASE j = k
        BY <1>1, <2>4, <2>6, <3>1, <3>2 DEF CatalogTypes
      <3>3. CASE j # k
        BY <1>1, <2>6, <3>1, <3>3 DEF CatalogTypes, ReturnedFresh
      <3> QED
        BY <3>2, <3>3
    <2> QED
      BY <2>3, <2>5, <2>6
  <1>5. ASSUME NEW w \in Writers, NEW k \in Records, CloseRate(w, k) \/ InsertRate(w, k) \/ InsertFails(w, k)
        PROVE  ReturnedFresh'
    <2>1. /\ writer'[Etl].stage = writer[Etl].stage /\ writer'[Etl].records = writer[Etl].records
          /\ writer'[Etl].stamp = writer[Etl].stamp /\ writer'[Etl].rows = writer[Etl].rows
          /\ writer[Etl].rejected \subseteq writer'[Etl].rejected
      BY <1>1, <1>5 DEF CloseRate, InsertRate, InsertFails, WriterTypes, WriterRecords
    <2>2. UNCHANGED catalog
      BY <1>5 DEF CloseRate, InsertRate, InsertFails
    <2> QED
      BY <2>1, <2>2, EtlGoesOn
  <1>6. ASSUME NEW w \in Writers, BeginFetch(w) \/ FetchFails(w) \/ Crash(w) PROVE ReturnedFresh'
    <2>1. CASE w = Etl
      <3>1. writer'[Etl].stage # "write"
        BY <1>1, <1>6, <2>1 DEF BeginFetch, FetchFails, Crash, Idle, WriterTypes, WriterRecords
      <3> QED
        BY <3>1 DEF ReturnedFresh
    <2>2. CASE w # Etl
      BY <1>1, <1>6, <2>2 DEF BeginFetch, FetchFails, Crash, WriterTypes, ReturnedFresh
    <2> QED
      BY <2>1, <2>2
  <1>7. ASSUME NEW R \in SUBSET Records, EtlFetched(R) PROVE ReturnedFresh'
    <2>1. writer'[Etl].records = R /\ writer'[Etl].rows = R
      BY <1>1, <1>7 DEF EtlFetched, Fetched, WriterTypes, Idle
    <2> QED
      BY <2>1 DEF ReturnedFresh
  <1>8. ASSUME NEW w \in Refreshes, (\E R \in SUBSET Records : LiveFetched(w, R)) \/ LiveCached(w) \/ LiveFinishes(w)
        PROVE  ReturnedFresh'
    <2>1. writer'[Etl] = writer[Etl] /\ UNCHANGED catalog
      BY <1>1, <1>8, WritersAssumption DEF LiveFetched, LiveCached, LiveFinishes, Fetched, Writers, WriterTypes
    <2> QED
      BY <2>1 DEF ReturnedFresh
  <1>9. ASSUME EtlFinishes PROVE ReturnedFresh'
    <2>1. writer'[Etl].stage # "write"
      BY <1>1, <1>9 DEF EtlFinishes, Idle, WriterTypes
    <2> QED
      BY <2>1 DEF ReturnedFresh
  <1>10. ASSUME Tick PROVE ReturnedFresh'
    BY <1>10 DEF Tick, ReturnedFresh
  <1> QED
    BY <1>3, <1>4, <1>5, <1>6, <1>7, <1>8, <1>9, <1>10 DEF Next, Write, Writers

LEMMA SparesStep ==
    ASSUME IInv, ReturnedFresh, Next, NEW k \in LiveRows, k \in writer[Etl].records
    PROVE  catalog'[k] # 0
  <1>1. k \in Records /\ catalog[k] # 0 /\ CatalogTypes
    BY DEF LiveRows, IInv, TypeOK, CatalogTypes
  <1>2. ASSUME NEW w \in Writers, NEW j \in Records, WriteRow(w, j) PROVE catalog'[k] # 0
    BY <1>1, <1>2, WritesKeepRows DEF LiveRows
  <1>3. ASSUME EtlFinishes PROVE catalog'[k] # 0
    <2>1. CASE Prunes(writer[Etl]) /\ EnoughFresh(writer[Etl].stamp)
      <3>1. writer[Etl].stage = "write" /\ writer[Etl].rows = {} /\ writer[Etl].rejected = {}
        BY <1>3, <2>1 DEF EtlFinishes, Written, Prunes
      <3>2. k \notin Stale(writer[Etl].stamp)
        BY <1>1, <3>1 DEF ReturnedFresh, Stale, Fresh
      <3> QED
        BY <1>1, <1>3, <2>1, <3>2 DEF EtlFinishes
    <2>2. CASE ~(Prunes(writer[Etl]) /\ EnoughFresh(writer[Etl].stamp))
      BY <1>1, <1>3, <2>2 DEF EtlFinishes
    <2> QED
      BY <2>1, <2>2
  <1>4. ASSUME UNCHANGED catalog PROVE catalog'[k] # 0
    BY <1>1, <1>4
  <1> QED
    BY <1>2, <1>3, <1>4
    DEF Next, Write, Tick, EtlFetched, BeginFetch, FetchFails, CloseRate, InsertRate, InsertFails, Crash, LiveFetched,
        LiveCached, LiveFinishes

(* The run prunes nothing that it fetched itself, if no live refresh with   *)
(* an older answer writes catalog rows at the same time.                    *)
THEOREM PruneSparesReturnedApart == Spec /\ []NoOlderWriter => PruneSparesReturned
  <1>1. Init => ReturnedFresh
    BY DEF Init, Idle, Writers, ReturnedFresh
  <1>2. IInv /\ ReturnedFresh /\ NoOlderWriter /\ [Next]_vars => ReturnedFresh'
    <2>1. ReturnedFresh /\ UNCHANGED vars => ReturnedFresh'
      BY DEF vars, ReturnedFresh
    <2> QED
      BY <2>1, ReturnedStep
  <1>3. IInv /\ ReturnedFresh /\ [Next]_vars => [\A k \in LiveRows \cap writer[Etl].records : catalog'[k] # 0]_vars
    BY SparesStep
  <1> QED
    BY <1>1, <1>2, <1>3, Invariance, PTL DEF Spec, PruneSparesReturned
=============================================================================
