------------------------- MODULE RoutePlanCacheProofs --------------------------
(***************************************************************************)
(* Proofs about the route plan cache, for any requests, publications and    *)
(* lifetimes: answers rest on the request's own prices, which are no newer  *)
(* than its watermark, and stored plans lapse with their prices.            *)
(***************************************************************************)
EXTENDS RoutePlanCache, TLAPS

\* The invariant holds initially: nothing is read, stored or answered.
LEMMA CacheInit == Init => CacheInvariant
<1>. SUFFICES ASSUME Init PROVE CacheInvariant
  OBVIOUS
<1>. USE CacheAssumption DEF Init, Quotes, Unavailable, Unread, Absent, Unlocked
<1>1. TypeOK
  BY DEF TypeOK
<1>2. RequestsFit /\ PricesArePublished
  BY DEF RequestsFit, PricesArePublished
<1>3. /\ PlansNameTheirQuote /\ PlansLapseWithPrices
      /\ LifetimesLapseWithPrices
  BY DEF PlansNameTheirQuote, PlansLapseWithPrices, LifetimesLapseWithPrices,
         Stored, Storing
<1>4. AnswersUseOwnQuotes /\ PricesNotAheadOfWatermark
  BY DEF AnswersUseOwnQuotes, PricesNotAheadOfWatermark
<1>. QED  BY <1>1, <1>2, <1>3, <1>4 DEF CacheInvariant

\* A request that is past load has a key of the cache.
LEMMA KeyOfRequest ==
  ASSUME TypeOK, RequestsFit, NEW p \in Request,
         pc[p] \notin {"new", "watermark", "done"}
  PROVE  Key(p) \in Keys /\ Key(p)[1] = quote[p] /\ quote[p] \in Quotes
<1>1. quote[p] \in Quotes /\ watermark[p] \in Quotes
  BY DEF TypeOK, RequestsFit, Quotes
<1>. QED  BY <1>1 DEF Key, Keys

\* A cache lifetime is at least a second, at most the configured maximum, and
\* at most a second longer than the price it serves.
LEMMA LifetimeBounded ==
  ASSUME TypeOK, NEW q \in Quotes
  PROVE  /\ CacheTtl(q) \in 1..MaxSeconds
         /\ q # Unavailable => CacheTtl(q) <= Most(1, life[q])
<1>1. life[q] \in Nat /\ MaxSeconds \in Nat \ {0}
  BY CacheAssumption DEF TypeOK
<1>. QED  BY <1>1 DEF CacheTtl, Most, Least

\* A second less of a lifetime is still a lifetime.
LEMMA LessInRange ==
  ASSUME NEW n \in Nat, NEW t \in 0..n
  PROVE  Less(t) \in 0..n
BY DEF Less, Most

\* What the cache holds under a key.
Plans == [quote: Quotes \union {Unread}, ttl: 0..MaxSeconds, delay: 0..MaxSeconds]

\* A plan that is still stored after a second is the same plan, with a second
\* less to live.
LEMMA PlansAge ==
  ASSUME TypeOK, Tick, NEW k \in Keys, Stored(k)'
  PROVE  /\ Stored(k) /\ plan[k].ttl \in Nat
         /\ plan'[k].quote = plan[k].quote /\ plan'[k].ttl = plan[k].ttl - 1
         /\ plan'[k].delay = plan[k].delay
<1>1. plan[k] \in Plans
  BY DEF TypeOK, Plans
<1>2. plan'[k] = IF plan[k].ttl <= 1 THEN Absent ELSE [plan[k] EXCEPT !.ttl = @ - 1]
  BY DEF Tick
<1>3. plan'[k].ttl > 0
  BY DEF Stored
<1>4. plan[k].ttl \in Nat
  BY <1>1, CacheAssumption DEF Plans
<1>5. ~(plan[k].ttl <= 1)
  BY <1>2, <1>3 DEF Absent
<1>. QED  BY <1>1, <1>2, <1>4, <1>5 DEF Stored, Plans

\* Every step keeps the types.
LEMMA CacheTypes ==
  ASSUME TypeOK, RequestsFit, [Next]_vars
  PROVE  TypeOK'
<1>. USE DEF TypeOK, Goto
<1>1. CASE Publish
  <2>1. version' \in 0..MaxVersion /\ version' \in Quotes
    BY <1>1, CacheAssumption DEF Publish, Quotes
  <2>2. offer' \in Quotes
    BY <1>1, <2>1, CacheAssumption DEF Publish, Quotes, Unavailable
  <2>3. life' \in [Quotes -> 0..MaxLife]
    BY <1>1, <2>1, CacheAssumption DEF Publish
  <2>. QED  BY <1>1, <2>1, <2>2, <2>3 DEF Publish, request, taken, store
<1>2. CASE SwitchSource
  BY <1>2 DEF SwitchSource, request, taken, store
<1>3. ASSUME NEW p \in Request, ReadPrices(p) PROVE TypeOK'
  <2>1. Resolved \in Quotes
    BY CacheAssumption DEF Resolved, Quotes, Unavailable
  <2>. QED  BY <1>3, <2>1 DEF ReadPrices, ledger, taken, store
<1>4. ASSUME NEW p \in Request, ReadWatermark(p) PROVE TypeOK'
  BY <1>4 DEF ReadWatermark, ledger, taken, store
<1>5. ASSUME NEW p \in Request, Lookup(p) PROVE TypeOK'
  <2>1. Key(p) \in Keys
    BY <1>5, KeyOfRequest DEF Lookup
  <2>. QED  BY <1>5, <2>1 DEF Lookup, Answer, ledger, taken, store
<1>6. ASSUME NEW p \in Request, AddLock(p) PROVE TypeOK'
  <2>1. [owner |-> p, ttl |-> LockSeconds]
           \in [owner: Request \union {Nobody}, ttl: 0..LockSeconds]
    BY CacheAssumption
  <2>2. WaitSeconds \in 0..WaitSeconds
    BY CacheAssumption
  <2>3. lock' \in [Keys -> [owner: Request \union {Nobody}, ttl: 0..LockSeconds]]
    BY <1>6, <2>1 DEF AddLock
  <2>4. patience' \in [Request -> 0..WaitSeconds]
    BY <1>6, <2>2 DEF AddLock
  <2>. QED  BY <1>6, <2>3, <2>4 DEF AddLock, ledger, taken
<1>7. ASSUME NEW p \in Request, Poll(p) PROVE TypeOK'
  <2>1. Key(p) \in Keys
    BY <1>7, KeyOfRequest DEF Poll
  <2>. QED  BY <1>7, <2>1 DEF Poll, Answer, ledger, taken, store
<1>8. ASSUME NEW p \in Request, GiveUpWaiting(p) PROVE TypeOK'
  BY <1>8 DEF GiveUpWaiting, ledger, taken, store
<1>9. ASSUME NEW p \in Request, BuilderReturns(p) PROVE TypeOK'
  <2>1. quote[p] \in Quotes
    BY <1>9, KeyOfRequest DEF BuilderReturns, Building
  <2>2. CacheTtl(quote[p]) \in 0..MaxSeconds
    BY <2>1, LifetimeBounded, CacheAssumption
  <2>. QED  BY <1>9, <2>2 DEF BuilderReturns, ledger, store
<1>16. ASSUME NEW p \in Request, StorePlan(p) PROVE TypeOK'
  <2>1. quote[p] \in Quotes
    BY <1>16, KeyOfRequest DEF StorePlan, Storing
  <2>2. [quote |-> quote[p], ttl |-> ttl[p], delay |-> delay[p]] \in Plans
    BY <2>1 DEF Plans
  <2>3. plan' \in [Keys -> Plans]
    <3>1. plan \in [Keys -> Plans]
      BY DEF Plans
    <3>. QED  BY <1>16, <2>2, <3>1 DEF StorePlan
  <2>4. 0 \in 0..MaxSeconds
    BY CacheAssumption
  <2>5. ttl' \in [Request -> 0..MaxSeconds] /\ delay' \in [Request -> 0..MaxSeconds]
    BY <1>16, <2>4 DEF StorePlan
  <2>. QED  BY <1>16, <2>1, <2>3, <2>5 DEF StorePlan, AfterBuild, ledger, Plans
<1>10. ASSUME NEW p \in Request, BuilderRaises(p) PROVE TypeOK'
  BY <1>10 DEF BuilderRaises, AfterBuild, ledger, taken, store
<1>11. ASSUME NEW p \in Request, CheckLock(p) PROVE TypeOK'
  BY <1>11 DEF CheckLock, ledger, taken, store
<1>12. ASSUME NEW p \in Request, DeleteLock(p) PROVE TypeOK'
  <2>1. Unlocked \in [owner: Request \union {Nobody}, ttl: 0..LockSeconds]
    BY CacheAssumption DEF Unlocked
  <2>2. lock' \in [Keys -> [owner: Request \union {Nobody}, ttl: 0..LockSeconds]]
    BY <1>12, <2>1 DEF DeleteLock
  <2>. QED  BY <1>12, <2>2 DEF DeleteLock, ledger, taken
<1>13. ASSUME NEW p \in Request, Kill(p) PROVE TypeOK'
  <2>1. 0 \in 0..MaxSeconds
    BY CacheAssumption
  <2>. QED  BY <1>13, <2>1 DEF Kill, ledger, store
<1>14. CASE Tick
  <2>1. life' \in [Quotes -> 0..MaxLife] /\ patience' \in [Request -> 0..WaitSeconds]
    <3>1. \A q \in Quotes : Less(life[q]) \in 0..MaxLife
      BY LessInRange, CacheAssumption
    <3>2. \A p \in Request : Less(patience[p]) \in 0..WaitSeconds
      BY LessInRange, CacheAssumption
    <3>. QED  BY <1>14, <3>1, <3>2 DEF Tick
  <2>4. delay' \in [Request -> 0..MaxSeconds]
    <3>1. \A p \in Request : Least(ttl[p], delay[p] + 1) \in 0..MaxSeconds
      BY CacheAssumption DEF Least
    <3>. QED  BY <1>14, <3>1 DEF Tick
  <2>2. plan' \in [Keys -> Plans]
    <3>. SUFFICES ASSUME NEW k \in Keys PROVE plan'[k] \in Plans
      BY <1>14 DEF Tick
    <3>1. Absent \in Plans
      BY CacheAssumption DEF Absent, Plans
    <3>2. plan[k] \in Plans
      BY DEF Plans
    <3>3. plan'[k] = IF plan[k].ttl <= 1 THEN Absent ELSE [plan[k] EXCEPT !.ttl = @ - 1]
      BY <1>14 DEF Tick
    <3>4. ~(plan[k].ttl <= 1) => plan[k].ttl - 1 \in 0..MaxSeconds
      BY <3>2, CacheAssumption DEF Plans
    <3>. HIDE DEF TypeOK
    <3>. QED  BY <3>1, <3>2, <3>3, <3>4 DEF Plans
  <2>3. lock' \in [Keys -> [owner: Request \union {Nobody}, ttl: 0..LockSeconds]]
    <3>. SUFFICES ASSUME NEW k \in Keys
                  PROVE  lock'[k] \in [owner: Request \union {Nobody}, ttl: 0..LockSeconds]
      BY <1>14 DEF Tick
    <3>1. Unlocked \in [owner: Request \union {Nobody}, ttl: 0..LockSeconds]
      BY CacheAssumption DEF Unlocked
    <3>2. /\ lock[k] \in [owner: Request \union {Nobody}, ttl: 0..LockSeconds]
          /\ LockSeconds \in Nat
      BY CacheAssumption
    <3>3. lock'[k] = IF lock[k].ttl <= 1 THEN Unlocked
                     ELSE [lock[k] EXCEPT !.ttl = @ - 1]
      BY <1>14 DEF Tick
    <3>. HIDE DEF TypeOK
    <3>. QED  BY <3>1, <3>2, <3>3
  <2>. QED  BY <1>14, <2>1, <2>2, <2>3, <2>4 DEF Tick, Plans
<1>15. CASE UNCHANGED vars
  BY <1>15 DEF vars, ledger, request, taken, store
<1>. QED
  BY <1>1, <1>2, <1>3, <1>4, <1>5, <1>6, <1>7, <1>8, <1>9, <1>10, <1>11, <1>12,
     <1>13, <1>14, <1>15, <1>16 DEF Next, Proceed

\* Every step keeps what a request has read in step with where it is.
LEMMA CacheRequests ==
  ASSUME TypeOK, RequestsFit, [Next]_vars
  PROVE  RequestsFit'
<1>. USE DEF TypeOK, RequestsFit, Goto
<1>1. ASSUME NEW p \in Request, ReadPrices(p) PROVE RequestsFit'
  <2>1. Resolved # Unread
    BY CacheAssumption DEF Resolved, Quotes, Unavailable, Unread
  <2>. QED  BY <1>1, <2>1 DEF ReadPrices
<1>2. ASSUME NEW p \in Request, ReadWatermark(p) PROVE RequestsFit'
  <2>1. version # Unread
    BY CacheAssumption DEF Unread
  <2>. QED  BY <1>2, <2>1 DEF ReadWatermark
<1>3. ASSUME NEW p \in Request,
             \/ Lookup(p) \/ AddLock(p) \/ Poll(p) \/ GiveUpWaiting(p)
             \/ BuilderReturns(p) \/ StorePlan(p) \/ BuilderRaises(p)
             \/ CheckLock(p) \/ DeleteLock(p) \/ Kill(p)
      PROVE  RequestsFit'
  <2>1. /\ UNCHANGED <<quote, watermark>>
        /\ pc[p] # "new"
        /\ \A q \in Request : q # p => pc'[q] = pc[q] /\ answer'[q] = answer[q]
    BY <1>3 DEF Lookup, AddLock, Poll, GiveUpWaiting, BuilderReturns, StorePlan,
                BuilderRaises, CheckLock, DeleteLock, Kill, Answer, AfterBuild,
                Building, Storing, ledger
  <2>2. \/ pc'[p] = "done"
        \/ pc[p] # "watermark" /\ pc'[p] \notin {"new", "watermark"}
    BY <1>3 DEF Lookup, AddLock, Poll, GiveUpWaiting, BuilderReturns, StorePlan,
                BuilderRaises, CheckLock, DeleteLock, Kill, Answer, AfterBuild,
                Building, Storing
  <2>3. pc'[p] = "done" \/ pc[p] # "done"
    BY <1>3 DEF Lookup, AddLock, Poll, GiveUpWaiting, BuilderReturns, StorePlan,
                BuilderRaises, CheckLock, DeleteLock, Kill, Building, Storing
  <2>. QED  BY <2>1, <2>2, <2>3
<1>4. CASE UNCHANGED <<pc, quote, watermark, answer>>
  BY <1>4
<1>. QED
  BY <1>1, <1>2, <1>3, <1>4 DEF Next, Proceed, Publish, SwitchSource, Tick,
     vars, request

\* Every step keeps prices known only once they are published.
LEMMA CachePrices ==
  ASSUME TypeOK, PricesArePublished, [Next]_vars
  PROVE  PricesArePublished'
<1>. USE DEF TypeOK, PricesArePublished
<1>0. version \in Nat /\ offer \in Nat
  BY CacheAssumption DEF Quotes
<1>1. CASE Publish
  <2>1. \A p \in Request : quote[p] \in Int
    BY CacheAssumption DEF Quotes, Unread
  <2>. QED  BY <1>0, <1>1, <2>1 DEF Publish, request, Unavailable
<1>2. ASSUME NEW p \in Request, ReadPrices(p) PROVE PricesArePublished'
  <2>1. Resolved <= version
    BY <1>0 DEF Resolved, Unavailable
  <2>. QED  BY <1>2, <2>1 DEF ReadPrices, ledger
<1>3. CASE UNCHANGED <<version, offer, quote>>
  BY <1>3
<1>. QED
  BY <1>1, <1>2, <1>3 DEF Next, Proceed, SwitchSource, ReadWatermark, Lookup, AddLock,
     Poll, GiveUpWaiting, BuilderReturns, StorePlan, BuilderRaises, CheckLock,
     DeleteLock, Kill, Tick, vars, ledger, request

\* Every step keeps stored plans under the key that names their quote.
LEMMA CachePlans ==
  ASSUME TypeOK, RequestsFit, PricesArePublished, PlansNameTheirQuote, [Next]_vars
  PROVE  PlansNameTheirQuote'
<1>. USE DEF TypeOK, PlansNameTheirQuote, Stored
<1>0. version \in Nat /\ \A k \in Keys : k[1] \in Nat
  BY CacheAssumption DEF Keys, Quotes
<1>1. CASE Publish
  BY <1>0, <1>1 DEF Publish, store
<1>2. ASSUME NEW p \in Request, StorePlan(p) PROVE PlansNameTheirQuote'
  <2>1. Key(p) \in Keys /\ Key(p)[1] = quote[p]
    BY <1>2, KeyOfRequest DEF StorePlan, Storing
  <2>2. quote[p] <= version
    BY DEF PricesArePublished
  <2>3. \A k \in Keys : \/ plan'[k] = plan[k]
                        \/ k = Key(p) /\ plan'[k].quote = quote[p]
    BY <1>2 DEF StorePlan
  <2>4. UNCHANGED version
    BY <1>2 DEF StorePlan, ledger
  <2>. QED  BY <2>1, <2>2, <2>3, <2>4
<1>3. CASE Tick
  <2>1. ASSUME NEW k \in Keys, Stored(k)'
        PROVE  Stored(k) /\ plan'[k].quote = plan[k].quote
    <3>. HIDE DEF TypeOK, Stored
    <3>. QED  BY <1>3, <2>1, PlansAge
  <2>2. version' = version
    BY <1>3 DEF Tick
  <2>. QED  BY <2>1, <2>2
<1>4. CASE UNCHANGED <<version, plan>>
  BY <1>4
<1>. QED
  BY <1>1, <1>2, <1>3, <1>4 DEF Next, Proceed, SwitchSource, ReadPrices, ReadWatermark,
     Lookup, AddLock, Poll, GiveUpWaiting, BuilderReturns, BuilderRaises, CheckLock,
     DeleteLock, Kill, vars, ledger, store

\* Every step answers a request with a plan of its own prices only.
LEMMA CacheAnswers ==
  ASSUME TypeOK, RequestsFit, PlansNameTheirQuote, AnswersUseOwnQuotes, [Next]_vars
  PROVE  AnswersUseOwnQuotes'
<1>. USE DEF TypeOK, AnswersUseOwnQuotes
<1>1. ASSUME NEW p \in Request, ReadPrices(p) PROVE AnswersUseOwnQuotes'
  BY <1>1 DEF ReadPrices, RequestsFit
<1>2. ASSUME NEW p \in Request, Lookup(p) \/ Poll(p) PROVE AnswersUseOwnQuotes'
  <2>1. Key(p) \in Keys /\ Key(p)[1] = quote[p]
    BY <1>2, KeyOfRequest DEF Lookup, Poll
  <2>2. answer' = answer \/ answer' = [answer EXCEPT ![p] = quote[p]]
    BY <1>2, <2>1 DEF Lookup, Poll, Answer, PlansNameTheirQuote
  <2>. QED  BY <1>2, <2>2 DEF Lookup, Poll
<1>3. ASSUME NEW p \in Request, StorePlan(p) PROVE AnswersUseOwnQuotes'
  BY <1>3 DEF StorePlan
<1>4. ASSUME NEW p \in Request, Kill(p) PROVE AnswersUseOwnQuotes'
  BY <1>4 DEF Kill
<1>5. CASE UNCHANGED <<quote, answer>>
  BY <1>5
<1>. QED
  BY <1>1, <1>2, <1>3, <1>4, <1>5 DEF Next, Proceed, Publish, SwitchSource,
     ReadWatermark, AddLock, GiveUpWaiting, BuilderReturns, BuilderRaises, CheckLock,
     DeleteLock, Tick, vars, request

\* Every step keeps the prices of a request behind its watermark, because the
\* watermark is read last.
LEMMA CacheWatermarks ==
  ASSUME TypeOK, RequestsFit, PricesArePublished, PricesNotAheadOfWatermark, [Next]_vars
  PROVE  PricesNotAheadOfWatermark'
<1>. USE DEF TypeOK, PricesNotAheadOfWatermark
<1>1. ASSUME NEW p \in Request, ReadPrices(p) PROVE PricesNotAheadOfWatermark'
  BY <1>1 DEF ReadPrices, RequestsFit
<1>2. ASSUME NEW p \in Request, ReadWatermark(p) PROVE PricesNotAheadOfWatermark'
  BY <1>2 DEF ReadWatermark, PricesArePublished
<1>3. CASE UNCHANGED <<quote, watermark>>
  BY <1>3
<1>. QED
  BY <1>1, <1>2, <1>3 DEF Next, Proceed, Publish, SwitchSource, Lookup, AddLock, Poll,
     GiveUpWaiting, BuilderReturns, StorePlan, BuilderRaises, CheckLock, DeleteLock,
     Kill, Tick, vars, request

\* Every step keeps stored plans no longer than their prices: a plan and its
\* price age together, and a published price is not yet in any plan.
LEMMA CacheLapses ==
  ASSUME TypeOK, RequestsFit, PlansNameTheirQuote, LifetimesLapseWithPrices,
         PlansLapseWithPrices, [Next]_vars
  PROVE  PlansLapseWithPrices'
<1>0. /\ version \in Nat
      /\ \A k \in Keys : k[1] \in Quotes /\ k[1] \in Nat
  BY CacheAssumption DEF TypeOK, Keys, Quotes
<1>1. CASE Publish
  <2>1. UNCHANGED plan /\ version' = version + 1
    BY <1>1 DEF Publish, store
  <2>2. \A q \in Quotes : q <= version => life'[q] = life[q]
    BY <1>0, <1>1 DEF Publish, TypeOK
  <2>. QED  BY <1>0, <2>1, <2>2 DEF PlansLapseWithPrices, PlansNameTheirQuote, Stored
<1>2. ASSUME NEW p \in Request, StorePlan(p) PROVE PlansLapseWithPrices'
  <2>. DEFINE new == [quote |-> quote[p], ttl |-> ttl[p], delay |-> delay[p]]
  <2>. SUFFICES ASSUME NEW k \in Keys, Stored(k)', plan'[k].quote # Unavailable
                PROVE  plan'[k].ttl <= Most(1, life[plan'[k].quote] + plan'[k].delay)
    BY <1>2 DEF PlansLapseWithPrices, StorePlan, ledger
  <2>1. plan'[k] = plan[k] \/ plan'[k] = new
    BY <1>2 DEF StorePlan, TypeOK
  <2>2. CASE plan'[k] = plan[k]
    BY <2>2 DEF PlansLapseWithPrices, Stored
  <2>3. CASE plan'[k] = new
    <3>1. /\ plan'[k].quote = quote[p] /\ plan'[k].ttl = ttl[p]
          /\ plan'[k].delay = delay[p]
      BY <2>3
    <3>. QED  BY <1>2, <3>1 DEF LifetimesLapseWithPrices, StorePlan
  <2>. QED  BY <2>1, <2>2, <2>3
<1>3. CASE Tick
  <2>. SUFFICES ASSUME NEW k \in Keys, Stored(k)', plan'[k].quote # Unavailable
                PROVE  plan'[k].ttl <= Most(1, life'[plan'[k].quote] + plan'[k].delay)
    BY DEF PlansLapseWithPrices
  <2>1. /\ Stored(k) /\ plan[k].ttl \in Nat
        /\ plan'[k].quote = plan[k].quote /\ plan'[k].ttl = plan[k].ttl - 1
        /\ plan'[k].delay = plan[k].delay
    BY <1>3, PlansAge
  <2>2. /\ plan[k].quote \in Quotes
        /\ plan[k].ttl <= Most(1, life[plan[k].quote] + plan[k].delay)
    BY <1>0, <2>1 DEF PlansLapseWithPrices, PlansNameTheirQuote
  <2>3. life[plan[k].quote] \in Nat /\ plan[k].delay \in Nat
    BY <2>2, CacheAssumption DEF TypeOK
  <2>4. life'[plan[k].quote] = Less(life[plan[k].quote])
    BY <1>3, <2>2 DEF Tick
  <2>. QED  BY <2>1, <2>2, <2>3, <2>4 DEF Less, Most
<1>4. CASE UNCHANGED <<plan, life>>
  BY <1>4 DEF PlansLapseWithPrices, Stored
<1>. QED
  BY <1>1, <1>2, <1>3, <1>4 DEF Next, Proceed, SwitchSource, ReadPrices, ReadWatermark,
     Lookup, AddLock, Poll, GiveUpWaiting, BuilderReturns, BuilderRaises, CheckLock,
     DeleteLock, Kill, vars, ledger, store

\* Every step keeps a lifetime that is waiting to be stored no longer than its
\* price's, but for the seconds it has waited.
LEMMA CacheLifetimes ==
  ASSUME TypeOK, RequestsFit, PricesArePublished, LifetimesLapseWithPrices, [Next]_vars
  PROVE  LifetimesLapseWithPrices'
<1>. DEFINE Lapses(p) == /\ ttl[p] > 0
                         /\ quote[p] # Unavailable
                               => ttl[p] <= Most(1, life[quote[p]] + delay[p])
<1>0. LifetimesLapseWithPrices <=> \A p \in Request : Storing(p) => Lapses(p)
  BY DEF LifetimesLapseWithPrices
<1>a. LifetimesLapseWithPrices' <=> \A p \in Request : Storing(p)' => Lapses(p)'
  BY DEF LifetimesLapseWithPrices
<1>. SUFFICES ASSUME NEW p \in Request, Storing(p)' PROVE Lapses(p)'
  BY <1>a
<1>1. CASE Publish
  <2>1. UNCHANGED <<pc, quote, ttl, delay>> /\ version' = version + 1
    BY <1>1 DEF Publish, request, taken
  <2>2. Storing(p)
    BY <2>1 DEF Storing
  <2>3. quote[p] \in Quotes /\ quote[p] <= version /\ version \in Nat
    BY <2>2, KeyOfRequest, CacheAssumption DEF Storing, PricesArePublished, TypeOK
  <2>4. life'[quote[p]] = life[quote[p]]
    BY <1>1, <2>1, <2>3, CacheAssumption DEF Publish, TypeOK, Quotes
  <2>. QED  BY <1>0, <2>1, <2>2, <2>4
<1>2. ASSUME NEW r \in Request, BuilderReturns(r) PROVE Lapses(p)'
  <2>1. UNCHANGED <<quote, delay, life>>
    BY <1>2 DEF BuilderReturns, ledger
  <2>2. CASE p # r
    <3>1. ttl'[p] = ttl[p] /\ Storing(p)
      BY <1>2, <2>2 DEF BuilderReturns, Goto, Storing, TypeOK
    <3>. QED  BY <1>0, <2>1, <3>1
  <2>3. CASE p = r
    <3>1. quote[p] \in Quotes
      BY <1>2, <2>3, KeyOfRequest DEF BuilderReturns, Building
    <3>2. ttl'[p] = CacheTtl(quote[p]) /\ ttl'[p] \in Nat
      BY <1>2, <2>3, <3>1, LifetimeBounded DEF BuilderReturns, TypeOK
    <3>3. delay[p] \in Nat /\ life[quote[p]] \in Nat
      BY <3>1, CacheAssumption DEF TypeOK
    <3>4. /\ CacheTtl(quote[p]) > 0
          /\ quote[p] # Unavailable => CacheTtl(quote[p]) <= Most(1, life[quote[p]])
      BY <3>1, LifetimeBounded, CacheAssumption
    <3>. QED  BY <2>1, <3>2, <3>3, <3>4 DEF Most
  <2>. QED  BY <2>2, <2>3
<1>3. CASE Tick
  <2>1. UNCHANGED <<pc, quote, ttl>>
    BY <1>3 DEF Tick
  <2>2. Storing(p)
    BY <2>1 DEF Storing
  <2>3. quote[p] \in Quotes
    BY <2>2, KeyOfRequest DEF Storing
  <2>4. /\ life'[quote[p]] = Less(life[quote[p]])
        /\ delay'[p] = Least(ttl[p], delay[p] + 1)
    BY <1>3, <2>2, <2>3 DEF Tick
  <2>5. ttl[p] \in Nat /\ delay[p] \in Nat /\ life[quote[p]] \in Nat
    BY <2>3, CacheAssumption DEF TypeOK
  <2>6. Lapses(p)
    BY <1>0, <2>2
  <2>. QED  BY <2>1, <2>4, <2>5, <2>6 DEF Less, Least, Most
<1>4. ASSUME NEW r \in Request,
             \/ ReadPrices(r) \/ ReadWatermark(r) \/ Lookup(r) \/ AddLock(r)
             \/ Poll(r) \/ GiveUpWaiting(r) \/ StorePlan(r) \/ BuilderRaises(r)
             \/ CheckLock(r) \/ DeleteLock(r) \/ Kill(r)
      PROVE  Lapses(p)'
  <2>1. life' = life /\ pc'[r] \notin {"store", "storeLocked"}
    BY <1>4 DEF ReadPrices, ReadWatermark, Lookup, AddLock, Poll, GiveUpWaiting,
                StorePlan, BuilderRaises, CheckLock, DeleteLock, Kill, Goto, Answer,
                AfterBuild, ledger, TypeOK
  <2>2. p # r
    BY <2>1 DEF Storing
  <2>3. /\ pc'[p] = pc[p] /\ quote'[p] = quote[p]
        /\ ttl'[p] = ttl[p] /\ delay'[p] = delay[p]
    BY <1>4, <2>2 DEF ReadPrices, ReadWatermark, Lookup, AddLock, Poll, GiveUpWaiting,
                StorePlan, BuilderRaises, CheckLock, DeleteLock, Kill, Goto, Answer,
                AfterBuild, taken, TypeOK
  <2>. QED  BY <1>0, <2>1, <2>3 DEF Storing
<1>5. CASE UNCHANGED <<life, request>>
  BY <1>0, <1>5 DEF request, taken, Storing
<1>. QED
  BY <1>1, <1>2, <1>3, <1>4, <1>5 DEF Next, Proceed, SwitchSource, vars, ledger

\* The invariant of a route request and its cache holds in every state.
THEOREM CacheInvariantHolds == Spec => []CacheInvariant
<1>1. CacheInvariant /\ [Next]_vars => CacheInvariant'
  BY CacheTypes, CacheRequests, CachePrices, CachePlans, CacheAnswers,
     CacheWatermarks, CacheLifetimes, CacheLapses DEF CacheInvariant
<1>. QED  BY CacheInit, <1>1, PTL DEF Spec

\* The cache's state is well typed; in particular nothing is stored for longer
\* than market.route_cache_seconds.
THEOREM CacheTypeCorrect == Spec => []TypeOK
<1>1. CacheInvariant => TypeOK
  BY DEF CacheInvariant
<1>. QED  BY CacheInvariantHolds, <1>1, PTL

\* Every answer is a plan of the prices its own request resolved, whoever built
\* it (get_or_build_route_plan, _route_cache_key).
THEOREM OwnQuotesAnswered == Spec => []AnswersUseOwnQuotes
<1>1. CacheInvariant => AnswersUseOwnQuotes
  BY DEF CacheInvariant
<1>. QED  BY CacheInvariantHolds, <1>1, PTL

\* A request's prices are never newer than its watermark, with any number of
\* publications between its reads (PricedStationRepository.load).
THEOREM WatermarkCoversPrices == Spec => []PricesNotAheadOfWatermark
<1>1. CacheInvariant => PricesNotAheadOfWatermark
  BY DEF CacheInvariant
<1>. QED  BY CacheInvariantHolds, <1>1, PTL

\* A stored plan outlives its prices by a second at most, or by as long as
\* cache.set came after the lifetime it was given was taken, for any lifetimes
\* (_cache_ttl, _build_and_cache).
THEOREM PlansLapse == Spec => []PlansLapseWithPrices
<1>1. CacheInvariant => PlansLapseWithPrices
  BY DEF CacheInvariant
<1>. QED  BY CacheInvariantHolds, <1>1, PTL

================================================================================
