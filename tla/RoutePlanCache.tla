---------------------------- MODULE RoutePlanCache -----------------------------
(***************************************************************************)
(* Answering a v2 route request (route_plan_v2, PricedStationRepository    *)
(* .load, get_or_build_route_plan).  A request reads the accepted prices    *)
(* and, in a later statement, the market's watermark; it then looks for a   *)
(* plan under a key of both, or takes the key's lock and builds one.        *)
(* Meanwhile the ledger publishes (as VersionedCatalogue allows), source    *)
(* switches are flipped and prices expire.                                  *)
(*                                                                          *)
(* One route request payload stands for all: other payloads have other      *)
(* keys.  The backend is Redis with IGNORE_EXCEPTIONS: an operation that    *)
(* cannot reach it does nothing and answers None.  Times are whole seconds  *)
(* that remain; a request stands for its lock token, a fresh uuid4.         *)
(***************************************************************************)
EXTENDS Integers

CONSTANTS
    Request,      \* route requests, each with its own lock token
    MaxVersion,   \* bound on publications of the ledger
    MaxLife,      \* the longest a new price stays current
    LockSeconds,  \* LOCK_SECONDS
    WaitSeconds,  \* ROUTE_CACHE_LOCK_WAIT_SECONDS
    MaxSeconds,   \* market.route_cache_seconds
    Nobody

ASSUME CacheAssumption ==
    /\ MaxVersion \in Nat /\ MaxLife \in Nat /\ WaitSeconds \in Nat
    /\ LockSeconds \in Nat \ {0} /\ MaxSeconds \in Nat \ {0}
    /\ Nobody \notin Request

\* A price is named by the version that published it; 0 is no usable price.
Quotes == 0..MaxVersion
Unavailable == 0
Unread == -1

VARIABLES
    version,   \* the market's watermark
    offer,     \* the accepted price, Unavailable when retracted
    life,      \* seconds each price has left before its expires_at
    enabled,   \* SourceRegistry.enabled of its source
    pc, quote, \* a request's next statement and the quote it resolved
    watermark, \* and the watermark it read
    patience,  \* what is left of its wait for another's plan
    ttl,       \* the lifetime it computed for a plan it is about to store
    delay,     \* seconds since then, counted up to ttl
    answer,    \* the quote the answered plan was built from
    plan,      \* the cache: quote, seconds left and delay of each stored plan
    lock       \* the cache: token and seconds left of each lock

ledger == <<version, offer, life, enabled>>
taken == <<ttl, delay>>
request == <<pc, quote, watermark, patience, taken, answer>>
store == <<plan, lock>>
vars == <<ledger, request, store>>

\* Mutant: the key has the watermark only, as a version names a catalogue.
KeyOfWatermark(p) == <<Unavailable, watermark[p]>>

\* _route_cache_key: resolved_quotes and observation_watermark.
Key(p) == <<quote[p], watermark[p]>>

Keys == Quotes \X Quotes

\* What load resolves for the station: its accepted, current price while the
\* price's source is enabled.
Resolved == IF enabled /\ offer # Unavailable /\ life[offer] > 0
            THEN offer ELSE Unavailable

Least(a, b) == IF a <= b THEN a ELSE b
Most(a, b) == IF a >= b THEN a ELSE b

\* Mutant: the expiry is left out of the cache lifetime.
TtlWithoutExpiry(q) == MaxSeconds

\* _cache_ttl: max(1, min(maximum, seconds to the earliest quote expiry)).
CacheTtl(q) == IF q = Unavailable THEN MaxSeconds
               ELSE Most(1, Least(MaxSeconds, life[q]))

Absent == [quote |-> Unread, ttl |-> 0, delay |-> 0]
Unlocked == [owner |-> Nobody, ttl |-> 0]

Stored(k) == plan[k].ttl > 0
Locked(k) == lock[k].ttl > 0

Goto(p, step) == pc' = [pc EXCEPT ![p] = step]

Answer(p, q) == /\ answer' = [answer EXCEPT ![p] = q]
                /\ Goto(p, "done")

--------------------------------------------------------------------------------
Init ==
    /\ version = 0 /\ offer = Unavailable /\ enabled = TRUE
    /\ life = [q \in Quotes |-> 0]
    /\ pc = [p \in Request |-> "new"]
    /\ quote = [p \in Request |-> Unread]
    /\ watermark = [p \in Request |-> Unread]
    /\ patience = [p \in Request |-> 0]
    /\ ttl = [p \in Request |-> 0]
    /\ delay = [p \in Request |-> 0]
    /\ answer = [p \in Request |-> Unread]
    /\ plan = [k \in Keys |-> Absent]
    /\ lock = [k \in Keys |-> Unlocked]

\* The ledger accepts a price or retracts the one there is: the watermark
\* moves with the catalogue, in one commit.
Publish ==
    /\ version < MaxVersion
    /\ version' = version + 1
    /\ \/ /\ offer' = version'
          /\ \E seconds \in 1..MaxLife :
                life' = [life EXCEPT ![version'] = seconds]
       \/ /\ offer # Unavailable
          /\ offer' = Unavailable
          /\ UNCHANGED life
    /\ UNCHANGED <<enabled, request, store>>

\* An operator enables or disables the source: the watermark stays.
SwitchSource ==
    /\ enabled' = ~enabled
    /\ UNCHANGED <<version, offer, life, request, store>>

\* Mutant: the watermark is read first, then the observations.
ReadPricesLast(p) ==
    /\ pc[p] = "new"
    /\ IF watermark[p] = Unread
       THEN /\ watermark' = [watermark EXCEPT ![p] = version]
            /\ UNCHANGED <<pc, quote>>
       ELSE /\ quote' = [quote EXCEPT ![p] = Resolved]
            /\ Goto(p, "lookup")
            /\ UNCHANGED watermark
    /\ UNCHANGED <<ledger, patience, taken, answer, store>>

\* load: the statement that reads the accepted observations.
ReadPrices(p) ==
    /\ pc[p] = "new"
    /\ quote' = [quote EXCEPT ![p] = Resolved]
    /\ Goto(p, "watermark")
    /\ UNCHANGED <<ledger, watermark, patience, taken, answer, store>>

\* load: the last statement reads the watermark.
ReadWatermark(p) ==
    /\ pc[p] = "watermark"
    /\ watermark' = [watermark EXCEPT ![p] = version]
    /\ Goto(p, "lookup")
    /\ UNCHANGED <<ledger, quote, patience, taken, answer, store>>

\* cache.get(cache_key); a miss may also be a backend out of reach.
Lookup(p) ==
    /\ pc[p] = "lookup"
    /\ \/ Stored(Key(p)) /\ Answer(p, plan[Key(p)].quote)
       \/ Goto(p, "lock") /\ UNCHANGED answer
    /\ UNCHANGED <<ledger, quote, watermark, patience, taken, store>>

\* cache.add(lock_key, lock_token, LOCK_SECONDS): True, False, or None.
AddLock(p) ==
    /\ pc[p] = "lock"
    /\ \/ /\ ~Locked(Key(p))
          /\ lock' = [lock EXCEPT ![Key(p)] = [owner |-> p, ttl |-> LockSeconds]]
          /\ Goto(p, "buildLocked")
          /\ UNCHANGED patience
       \/ /\ Locked(Key(p))
          /\ patience' = [patience EXCEPT ![p] = WaitSeconds]
          /\ Goto(p, "wait")
          /\ UNCHANGED lock
       \/ Goto(p, "build") /\ UNCHANGED <<patience, lock>>
    /\ UNCHANGED <<ledger, quote, watermark, taken, answer, plan>>

\* The polling loop finds the plan another request stored.
Poll(p) ==
    /\ pc[p] = "wait"
    /\ Stored(Key(p))
    /\ Answer(p, plan[Key(p)].quote)
    /\ UNCHANGED <<ledger, quote, watermark, patience, taken, store>>

\* Mutant: the loop has no deadline.
WaitForever(p) == FALSE

\* The deadline of the loop has passed: build without the lock.
GiveUpWaiting(p) ==
    /\ pc[p] = "wait"
    /\ patience[p] = 0
    /\ Goto(p, "build")
    /\ UNCHANGED <<ledger, quote, watermark, patience, taken, answer, store>>

\* Building with has_lock, or without.
Building(p) == pc[p] \in {"buildLocked", "build"}
Storing(p) == pc[p] \in {"storeLocked", "store"}
AfterBuild(p) ==
    Goto(p, IF pc[p] \in {"buildLocked", "storeLocked"} THEN "release" ELSE "done")

\* builder() returned: the plan's lifetime is what its quote has left now.
BuilderReturns(p) ==
    /\ Building(p)
    /\ ttl' = [ttl EXCEPT ![p] = CacheTtl(quote[p])]
    /\ Goto(p, IF pc[p] = "buildLocked" THEN "storeLocked" ELSE "store")
    /\ UNCHANGED <<ledger, quote, watermark, patience, delay, answer, store>>

\* cache.set stores the plan for that lifetime, which runs from now on, or does
\* not reach the backend; the plan is answered once the lock is given up.
StorePlan(p) ==
    /\ Storing(p)
    /\ answer' = [answer EXCEPT ![p] = quote[p]]
    /\ \/ plan' = [plan EXCEPT ![Key(p)] =
                      [quote |-> quote[p], ttl |-> ttl[p], delay |-> delay[p]]]
       \/ UNCHANGED plan
    /\ ttl' = [ttl EXCEPT ![p] = 0]
    /\ delay' = [delay EXCEPT ![p] = 0]
    /\ AfterBuild(p)
    /\ UNCHANGED <<ledger, quote, watermark, patience, lock>>

\* builder() raised: nothing is stored, the lock is given up all the same.
BuilderRaises(p) ==
    /\ Building(p)
    /\ AfterBuild(p)
    /\ UNCHANGED <<ledger, quote, watermark, patience, taken, answer, store>>

\* finally: cache.get(lock_key) == lock_token ...
CheckLock(p) ==
    /\ pc[p] = "release"
    /\ \/ Locked(Key(p)) /\ lock[Key(p)].owner = p /\ Goto(p, "delete")
       \/ Goto(p, "done")     \* another's token, none, or no backend
    /\ UNCHANGED <<ledger, quote, watermark, patience, taken, answer, store>>

\* ... and cache.delete(lock_key) deletes whatever is there by then.
DeleteLock(p) ==
    /\ pc[p] = "delete"
    /\ \/ lock' = [lock EXCEPT ![Key(p)] = Unlocked]
       \/ UNCHANGED lock
    /\ Goto(p, "done")
    /\ UNCHANGED <<ledger, quote, watermark, patience, taken, answer, plan>>

\* gunicorn kills a worker: finally does not run, the lock stays until it
\* lapses.
Kill(p) ==
    /\ pc[p] \notin {"new", "done"}
    /\ Goto(p, "done")
    /\ answer' = [answer EXCEPT ![p] = Unread]
    /\ ttl' = [ttl EXCEPT ![p] = 0]
    /\ delay' = [delay EXCEPT ![p] = 0]
    /\ UNCHANGED <<ledger, quote, watermark, patience, store>>

Less(seconds) == Most(0, seconds - 1)

\* A second passes: prices, plans, locks and deadlines get older, and a plan
\* that is not stored yet is late by one more.
Tick ==
    /\ life' = [q \in Quotes |-> Less(life[q])]
    /\ patience' = [p \in Request |-> Less(patience[p])]
    /\ delay' = [p \in Request |-> IF Storing(p) THEN Least(ttl[p], delay[p] + 1)
                                   ELSE delay[p]]
    /\ plan' = [k \in Keys |-> IF plan[k].ttl <= 1 THEN Absent
                               ELSE [plan[k] EXCEPT !.ttl = @ - 1]]
    /\ lock' = [k \in Keys |-> IF lock[k].ttl <= 1 THEN Unlocked
                               ELSE [lock[k] EXCEPT !.ttl = @ - 1]]
    /\ UNCHANGED <<version, offer, enabled, pc, quote, watermark, ttl, answer>>

Proceed(p) == \/ ReadPrices(p) \/ ReadWatermark(p) \/ Lookup(p) \/ AddLock(p)
              \/ Poll(p) \/ GiveUpWaiting(p)
              \/ BuilderReturns(p) \/ StorePlan(p) \/ BuilderRaises(p)
              \/ CheckLock(p) \/ DeleteLock(p)

Next == \/ Publish \/ SwitchSource \/ Tick
        \/ \E p \in Request : Proceed(p) \/ Kill(p)

Spec == Init /\ [][Next]_vars

\* A worker runs its request, provider calls time out, and time passes.
FairSpec == Spec /\ WF_vars(Tick) /\ \A p \in Request : WF_vars(Proceed(p))

--------------------------------------------------------------------------------
(* Properties *)

TypeOK ==
    /\ version \in 0..MaxVersion /\ offer \in Quotes /\ enabled \in BOOLEAN
    /\ life \in [Quotes -> 0..MaxLife]
    /\ pc \in [Request -> {"new", "watermark", "lookup", "lock", "wait",
                           "build", "buildLocked", "store", "storeLocked",
                           "release", "delete", "done"}]
    /\ quote \in [Request -> Quotes \union {Unread}]
    /\ watermark \in [Request -> 0..MaxVersion \union {Unread}]
    /\ patience \in [Request -> 0..WaitSeconds]
    /\ ttl \in [Request -> 0..MaxSeconds]
    /\ delay \in [Request -> 0..MaxSeconds]
    /\ answer \in [Request -> Quotes \union {Unread}]
    /\ plan \in [Keys -> [quote: Quotes \union {Unread}, ttl: 0..MaxSeconds,
                          delay: 0..MaxSeconds]]
    /\ lock \in [Keys -> [owner: Request \union {Nobody}, ttl: 0..LockSeconds]]

\* A request is answered with a plan of the prices it resolved itself: a plan
\* another request built from older prices, or before a source was switched
\* off, is never reused, although the prices and the watermark are read in
\* separate statements (route_plan_cache.py, _route_cache_key).
AnswersUseOwnQuotes ==
    \A p \in Request : answer[p] # Unread => answer[p] = quote[p]

\* The prices a request read are no newer than the watermark it read: the
\* catalogue can be behind the version it is served under, never ahead of it.
PricesNotAheadOfWatermark ==
    \A p \in Request : watermark[p] # Unread => quote[p] <= watermark[p]

\* A stored plan outlives its prices by one second at most, or by as long as it
\* took to reach the cache: its lifetime is taken after the build, however long
\* that was, and runs from cache.set (_build_and_cache).
PlansLapseWithPrices ==
    \A k \in Keys : Stored(k) /\ plan[k].quote # Unavailable
        => plan[k].ttl <= Most(1, life[plan[k].quote] + plan[k].delay)

\* README.md: "current results expire no later than their prices".
ResultsExpireWithPrices ==
    \A k \in Keys : Stored(k) /\ plan[k].quote # Unavailable
        => plan[k].ttl <= life[plan[k].quote]

\* test_expired_lock_owner_never_deletes_a_replacement_lock: giving up a lock
\* never removes the lock another request has taken since.
ReplacementLockSurvives ==
    [][\A p \in Request : DeleteLock(p)
          => lock'[Key(p)] = lock[Key(p)] \/ lock[Key(p)].owner \in {p, Nobody}]_vars

\* Every request ends, behind a lock whose owner was killed and with a backend
\* that answers nothing: a request begins once, so all that have begun have
\* ended whenever none is under way.
RequestsEnd == []<>(\A p \in Request : pc[p] \in {"new", "done"})

--------------------------------------------------------------------------------
(* The inductive invariant behind the safety properties, in named parts.      *)

\* What a request has read and answered fits the statement it is at.
RequestsFit ==
    \A p \in Request :
        /\ pc[p] = "new" => /\ quote[p] = Unread
                            /\ watermark[p] = Unread
                            /\ answer[p] = Unread
        /\ pc[p] = "watermark" => quote[p] # Unread /\ watermark[p] = Unread
        /\ pc[p] \notin {"new", "watermark", "done"}
              => quote[p] # Unread /\ watermark[p] # Unread

\* A lifetime that is not stored yet was no longer than its price's when taken.
LifetimesLapseWithPrices ==
    \A p \in Request : Storing(p) =>
        /\ ttl[p] > 0
        /\ quote[p] # Unavailable => ttl[p] <= Most(1, life[quote[p]] + delay[p])

\* Nobody knows a price that is not published yet.
PricesArePublished ==
    /\ offer <= version
    /\ \A p \in Request : quote[p] <= version

\* A stored plan was built from the published price its key names.
PlansNameTheirQuote ==
    \A k \in Keys : Stored(k) => plan[k].quote = k[1] /\ k[1] <= version

CacheInvariant ==
    /\ TypeOK
    /\ RequestsFit
    /\ PricesArePublished
    /\ PlansNameTheirQuote
    /\ AnswersUseOwnQuotes
    /\ PricesNotAheadOfWatermark
    /\ LifetimesLapseWithPrices
    /\ PlansLapseWithPrices

================================================================================
