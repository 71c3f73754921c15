# A TLA+ model of FuelUp

FuelUp plans fuel stops along a route. It keeps a moderated ledger of price
observations, resolves one quote per station from them, asks external providers
for places and routes, optimises what to buy where, and caches the plans. This
directory models the parts of it whose correctness depends on concurrency,
failure, time or a non-obvious algorithm, checks them with TLC on small
instances, and proves some of the results with TLAPS for every instance.

Run a model with `tlc -config MCObservationLedger.cfg MCObservationLedger`, a
proof with `tlapm ObservationLedgerProofs.tla`. `PROJECT.json` maps every
definition to the source lines it models.

## The system

| Component | State | Operations | What makes it hard | What makes it correct |
| --- | --- | --- | --- | --- |
| Observation ledger (`routes/application/observations.py`, `routes/models.py`) | observations, moderation events, one watermark per market (PostgreSQL) | store a report, import a batch, move an observation to a new state, advance the watermark | concurrent transactions under READ COMMITTED, row locks kept to the end, rollbacks | trails replay, watermark counts every change readers can see, no accepted twins, no deadlock but a batch's |
| Observation validation (`routes/domain/observation_validation.py`) | none | the verdict on a submission | windows of time, medians | a verdict is one of the ledger's states; duplicates are refused |
| Price resolver (`routes/domain/price_resolver.py`) | none; reads the evidence | one quote per station | precedence of sources, consensus, expiry | usable evidence only, independent voices, no displacement by weaker evidence |
| Station catalogue (`priced_station_repository.py`) | none; reads snapshot, stations, prices, watermark in separate statements | `load` | commits between the statements, source switches and expiry without a watermark | what is read and its version go together |
| Route plan cache (`route_plan_cache.py`) | plans and build locks with lifetimes (Redis) | look up, lock, build, store, release, poll | expiry, killed owners, an unreachable cache | an answer is built from its own request's prices and lapses with them; requests end |
| Provider governance (`provider_budget.py`, `provider_health.py`, `provider_http.py`) | usage counters per window, failure count, `blocked_until` | check circuit, charge, call, record | read-modify-write of counters, callers that die, late results | never overspent, every call charged, circuit open only on failures |
| Nominatim throttle (`map_client.py`) | process mutex and timestamp, shared lock and timestamp | wait for a slot, request, stamp, release | two levels of locks with timeouts, lost stamps | requests are spaced by the interval |
| Fuel optimizers (`vehicle_optimizer.py`, `optimizer.py`) | none | the purchases along one route | greedy choices, rounding, tolerances | cheapest plan; reserve and tank respected; found whenever one exists |
| Planners (`market_planner.py`, `planner.py`) | none | geocode, ask for routes, evaluate alternatives, select one | partial infeasibility, tie-breaking, the order of filters | best alternative for the strategy; refused only when none can be driven |
| Geometry (`geometry.py`) | none | match stations to a route | a grid that may miss a cell, merged projections | no station of the corridor is lost, distances are the nearest |
| Station imports (`import_osm_stations`) | snapshots with stations and fuels, one active per market | normalise, import, activate, switch back | overlapping runs, a unique index, failures between statements | one active snapshot, never none; rows fit their constraints |
| Price imports (`price_import.py`, `refresh_prices`, `import_price_observations`, `mitra_prices.py`) | batches by source and checksum | parse, look up stations, import once | a catalogue switched meanwhile, overlapping refreshes, failures between rows | whole batches, accepted against the active catalogue only |
| Rate limits (`rate_limit.py`, `contribution_rate_limit.py`) | counters per dimension and window in the shared cache | admit or refuse | counters that expire, answers that are lost | limits hold; a rejected contribution is one too many |
| Source registry (`sync_source_registry`) | a switch per source | synchronise, switch | switches under readers | modelled as seen by its readers |
| Proxy (`app/api/route/route.ts`) | one invocation | ask, wait for a sleeping backend, ask again | timeouts, a limit on the invocation | an answer before the platform's limit |
| Planning page (`RoutePlanner.tsx`, `lib/api.ts`) | request version, active request, what is shown | submit, cancel, receive | answers of earlier trips, lost answers | the page shows the last trip, and stops loading |
| HTTP API, station directory, readiness | none | requests and reports | - | the order of a v2 route request is in `RoutePlanCache` and `MarketPlanner` |
| Legacy plan cache, reports, privacy, backup and restore, settings | plans; files | - | - | not modelled |

How they interact: a v2 route request loads the catalogue (ledger and registry),
looks up the cache under a key of what it loaded, and on a miss plans: it
geocodes through the throttle, asks for routes through governance, matches
stations to each alternative, optimises it, selects one and stores the plan.
Reports, moderators and price imports change the ledger; its watermark is what
ties cached plans to it. Station imports replace the catalogue that all of them
refer to. The page asks through the proxy; the rate limits stand before the
routes and before the reports.

## The modules

| Module | Models | State and actions |
| --- | --- | --- |
| `Medians` | medians and tolerances of validation and resolver | operators on sets of rows; a median is kept doubled so that it stays an integer |
| `ObservationValidation` | `validate_observation` and the queries of its context | operators |
| `ObservationLedger` | the ledger's transactions | each process is at a statement (`pc`) of a transaction with its `draft`; one action per statement: `LockStation`, `LockSnapshot`, `ReadContributorRows`, `Judge`, `AdvanceWatermark`, `MoveObservation`, `RefuseTransition`, then `Commit` or `Rollback` |
| `VersionedCatalogue` | abstract: what readers see and its version change together | `Publish` |
| `PriceResolver` | `resolve_price_quote` while evidence is accepted, retracted, takes effect and expires | `Quote` is a function of the state; `Accept`, `Retract`, `Advance` |
| `RoutePlanCache` | a v2 route request from `load` to the answer | one action per database statement or cache call, `Publish` and `SwitchSource` by others, `Kill`, `Tick` |
| `ProviderGovernance` | `request_json` | `CheckCircuit`, `LockForReserve`, `ReadUsage`, `WriteUsage`, `CallReturns`, `RecordOutcome`, `Abandon`, `SwitchSource`, `Tick` |
| `NominatimThrottle` | `_nominatim_request` | one action per lock, wait, request, stamp and release; `Tick` |
| `FuelStops` | what both optimizers share, and the reference: every other way to drive the route | operators |
| `VehicleOptimizer`, `FuelOptimizer` | `optimize_fuel_purchases` of the v2 and of the first API | `Validate`, `DriveAndBuy` per station, `Arrive`; `FillAtOrigin` in the first API |
| `RouteSelection` | what both planners share: what they keep of a request, scores, keys and the choice | `located`, `routes`, `tried`, `evaluations`; operators |
| `MarketPlanner`, `FirstPlanner` | a route request of either API | `Locate`, `AskRoutes`, `Begin` an alternative, the optimizer's own steps (`Optimize`), `Collect`, `Select`; the first API's are `FirstLocate`, `FirstAsk`, `FirstBegin`, `FirstOptimize`, `FirstCollect`, `FirstSelect` |
| `RouteGeometry` | `geometry.py`: segments, the grid, projection, matching | `Match` one station at a time |
| `StationImports` | `import_osm_stations` as a transaction | runs at a statement (`pc`) with a `draft`; `BeginStations`, `CreateSnapshot`, `ScanActive`, `DeactivateRow`, `LockOwnRow`, `Activate`, then `CommitStations`, `CollideStations` or `AbortStations` |
| `PriceImports` | both price imports, beside the station imports, and the registry | `BeginManual`, `LookUpRow`; `BeginRefresh`, `FetchPrices`, `EnterImport`; `CreateBatch`, `LockStation`, `LockItsSnapshot`, `StoreRow`, `SaveCounts`, then `CommitPrices`, `CollideBatch`, `AbortPrices`; `SyncSource` |
| `MitraPrices` | `parse_mitra_prices` | operators |
| `Imports` | the import commands together, and the inputs of the two parsers they read files and answers with | `setting`: the commands run, or one file or answer is parsed |
| `RouteProxy` | `POST` of the proxy | `StartProxy`, `PassOn`, `LoseReply`, `Wait`, `Poll`, `Tick` |
| `TripPage` | the page over the proxy | `Submit`, `Cancel`, `Receive`, `LoseCall`, `Settle` |
| `RateLimits` | both limiters | `Arrive`, `Add`, `Increase` and their lost answers; `Second` |
| `ObservationLedgerProofs`, `ProviderProofs`, `RoutePlanCacheProofs`, `CatalogueProofs`, `PlanProofs`, `PlannerProofs`, `WebProofs`, `ResolverProofs` | theorems | - |
| `MC*` | instances for TLC | - |

`ObservationLedger` builds on `ObservationValidation`, which builds on `Medians`;
`PriceResolver` builds on `Medians`. `RoutePlanCache` takes the ledger as
`VersionedCatalogue` presents it: its `Publish` moves price and watermark in one
step, which `ImplementsCatalogue` justifies. `PriceImports` extends
`StationImports`: both share the snapshots and the row locks. What it leaves free,
the verdict on a price by earlier prices, `ObservationLedger` decides; what that
module leaves free, whether a station is in an active snapshot, is decided here.
`MitraPrices` checks what it parses against `ObservationValidation`, the ledger's
own rule; `Imports` puts it beside the commands. `MarketPlanner` extends
`VehicleOptimizer`, `FirstPlanner` extends `FuelOptimizer`, both `RouteSelection`;
`RouteGeometry` yields the candidates they start from. `TripPage` extends `RouteProxy`.

What is abstracted: prices are small integers in minor units, money is not
rounded, reasons, attributions and serialisation are left out, a series stands
for the station or place, fuel and grade that the candidate query filters on, a
request for its lock token. In the optimizers fuel is measured as the distance it
lasts, so the efficiency is one. A planner's payload is the selected alternative,
the comparisons and the counts. The geometry is a plane with integer coordinates,
as the code's own projection is a tangent plane; distances stay exact fractions. A
station file is its version, checksum, flags and features; a price file its
checksum, market and rows. A reply to the proxy is what `fetch` tells apart.

Definitions marked `Mutant:` are wrong versions of a definition (a dropped lock,
a swapped order). Nothing uses them: replacing the definition by its mutant must
break the property it is listed with in `PROJECT.json`, which shows that the
property depends on the code.

## The runs

| Run | Checks | Shows | Instance, and why it is enough |
| --- | --- | --- | --- |
| `MCObservationLedger` | `TypeOK`, `NoAcceptedTwins`, `AuditTrailReplays`, `WatermarkCountsChanges`, `DeadlockNeedsBatch`, `ImplementsCatalogue` | the ledger under concurrent reports, an import and moderators | two processes, three observations, two stations of one snapshot and a place, clock to 2: two transactions interleave at every statement, the import needs two keys and the report it deadlocks with a third; the report and the import disagree, repeated reports are duplicates, repeated imports of the place agree; windows open and close at 1 and 2; moderators ask for acceptance and retraction |
| `MCObservationLedgerLive` | `TransactionsEnd` | every transaction ends, deadlocks included | the import and the report that deadlock, with moderators |
| `MCPriceResolverOutlier` | `OutlierLeavesConsensus` is violated | finding below | - |
| `MCRoutePlanCache` | `AnswersUseOwnQuotes`, `PricesNotAheadOfWatermark`, `PlansLapseWithPrices`, `RequestsEnd` | a request and another that publishes, waits, builds or dies beside it | two requests, two publications (a price and its retraction or replacement), prices of one or two seconds, locks and waits of one: every lifetime ends before, with and after the others; any number of seconds may pass at each statement, between a plan's lifetime and its storage, too |
| `MCRoutePlanCacheExpiry` | `ResultsExpireWithPrices` is violated | finding below | - |
| `MCRoutePlanCacheRelease` | `ReplacementLockSurvives` is violated | finding below | - |
| `MCProviders` | `UsageWithinLimits`, `EveryCallIsCharged`, `OpenMeansFailing`, `ProcessSpacesItself`, `LockSpacesProcesses` | quota and circuit under callers that interleave and die; spacing of the geocoder's answered requests | three callers over two days of two minutes, two calls a minute and three a day: the last allowance is contended and both windows change; two processes, one with two threads; interval 2, lock 3 and wait 2: each ends first in some behaviour |
| `MCPlansAndQuotes` | `QuoteRestsOnUsableEvidence`, `ConsensusIsIndependent`, `WeakerEvidenceNeverDisplaces`, `PlanIsCheapest`, `RefusedOnlyIfImpossible`, `FuelStaysInBounds`, `ValidatedRoutesAreDriven`, `BestAlternativeSelected`, `RefusedOnlyIfNoneDrivable`, `RefusedOnlyIfUnreachable`, `StationsAreMatched` | the quote of a station over every set of reports; from geometry to the answered plan; each part in a `setting` of its own, so that one run does for all | `quotes`: three reports of every kind, all their orders, three times: three voices are what a high confidence needs; stale quotes allowed, so that both branches are reached; `vehicle`: every route of up to four stations in whole steps, with three prices and four starting volumes (`WholeTrips`), and of up to three near each other with volumes rounded (`RoundedTrips`); `first API`: up to four stations with gaps one short of, equal to and beyond a full tank (`GapRoads`); `planner` and `first planner`: up to two alternatives of two candidates each, all strategies, with and without reported prices, failing geocoders and routers, and for the first API stations that are merged at different places; `geometry`: every route of two segments on a grid with two stations, one closed or without a price |
| `MCFuelPlansSliver` | `CoveredRoutesAreDriven` is violated | finding below | - |
| `MCFuelPlansCost` | `PurchasesAreCheapest` is violated | finding below | - |
| `MCImports` | `OneActivePerMarket`, `CatalogueNeverLost`, `AcceptedAgainstActive`, `BatchIsWhole`, `RefreshNeverCollides`, `DeadlockNeedsOlderRow`, `FilesNormalizeWell`, `AnswersParseWell` | imports that overlap and fail at every statement; both parsers | two runs, two versions of one market with one or two stations, a two-row price file and two of one row: two runs are what a race and a deadlock need, the second catalogue lacks a station of the first; every file of up to three features with two identities that coincide (`FeatureLists`); answers (`Answers`) every half hour of a day, observations at and between every bound |
| `MCWeb` | `PageFollowsLastTrip`, `LoadingEnds`, `AnsweredInTime`, `WithinLimit`, `RejectionIsEarned` | page, proxy and limits | two trips (versions 1 and 3, with a cancellation between), timeouts of 1, deadline 3, at most 10 units: the proxy can use all three tries, and waits as long as the code's proportions allow; two requests of callers that share the network but not the device, windows of 2 seconds, clock to 3: a window ends while its counter lives, and a request of the first window can be so late that the counter is gone |

Bounds named in the modules: `MaxTime`, `MaxSeconds` and `MaxAge` (clocks),
`MaxVersion` (publications), `MaxLife` (how long a price may last), `MaxReports`,
`MaxFailures` (counted failures), `MaxAlternatives` (which is also the code's),
`Targets` (states moderators ask for), and as inputs `Batches`,
`Candidates`, `Trips`, `Roads`, `Starts`, `Alternatives`, `FirstAlternatives`,
`Requests`, `Routes`, `StationFiles`, `PriceFiles`, `Contents`, `FeatureLists`,
`Answers`. A unit of the proxy's clock is 30 seconds at
most; shorter waits take at most one. Deadlock is checked where the system goes on
for ever; the resolver's model ends when its clock and its reports do, a fuel plan
when it is made, imports may all have failed in a way that leaves nothing to do,
and a page's visitor may submit no more.

Symmetry over processes and observations is used in `MCObservationLedger`, over
callers in `MCProviders` and over runs in `MCImports`, which check no liveness; the
initial states and the constants treat them alike.

### Fairness

- `ObservationLedger!FairSpec`: PostgreSQL runs a statement whose lock is free
  (weak fairness of a statement that stays enabled), hands a lock that is freed
  again and again to every waiter (strong fairness of the lock steps: its lock
  queue is first come, first served), and aborts one transaction of a deadlock
  (`AbortDeadlockVictim`, its deadlock detection). No caller is assumed to start
  a transaction, none to roll back otherwise.
- `RoutePlanCache!FairSpec`: time passes, and a worker runs its request; its
  builder returns or raises because every provider call has a timeout. Nothing is
  assumed of publishers, switches or the cache. `RequestsEnd` says that again and
  again no request is under way; as a request begins once, that is that each ends.
- `TripPage!Fairness`: the browser runs the continuation of a settled call, and
  delivers an answer or an error for one the proxy has answered; the proxy's own
  continuations run (weak fairness: each stays enabled until taken), and time passes
  for every invocation however often others run (strong fairness of its `Tick`).
  Nothing is assumed of the backend, of visitors, or of lost answers.

## The proofs

`ObservationLedgerProofs` proves, for any processes, observations, stations,
markets, batches and clock bound, from `LedgerAssumption`, `PolicyAssumption` and
`NoRowAssumption` (values of the constants, evaluated by TLC on the runs'):

- `TypeCorrect`: `Spec => []TypeOK`.
- `LedgerInvariantHolds`: `Spec => []LedgerInvariant`.
- `CatalogueImplemented`: `Spec => Promise!Spec`, the refinement checked as
  `ImplementsCatalogue`: a commit that changes what readers of a market see
  advances the market's watermark in the same step.

The refinement is not inductive by itself: a commit publishes what earlier
statements drafted. `LedgerInvariant` carries what they guarantee until then: a
process has the work its statement needs (`StepFitsWork`); the keys drawn for new
rows are nobody else's (`DrawnKeysAreNew`); a drafted row is a new key or the
locked target of a move (`DraftIsOwned`), so that no two drafts touch one row; a
drafted watermark is ahead of the committed one and under its row's lock
(`BumpIsOwned`), so that a commit never sets a watermark back; and a draft that
changes the catalogue has its watermark drafted too, or the process is just about
to (`ChangeIsCounted`). Each is preserved by each action under the row locks; the
commit step then follows from the last two.

It proves four more results about the ledger from the same assumptions.

- `TrailsReplay` (`AuditTrailReplays`). `AuditInvariant` adds that the events of
  stored rows are stored with them (`EventsAreStored`) and that a drafted event
  tells the move it is part of, from the state the locked row still has
  (`EventTellsMove`): what a moderator read under the lock cannot be changed by
  another before the commit appends the event.
- `DeadlocksNeedBatches` (`DeadlockNeedsBatch`). A station's or an observation's row
  ranks lowest, then the snapshot's, then the watermark's; unless a batch kept locks
  from an earlier row, a transaction waits for a row ranked above all it holds
  (`LocksInOrder`, `StationIsThere`). In a circle each waits for a row held by one that
  waits for a higher one; after three steps no rank is left, so the argument needs no
  induction over the length of the circle.
- `DuplicatesAreFound` (`NoAcceptedTwins`). Between the queries of a report's context
  and its commit nobody else may store a twin, and the invariant says why: the station
  of a report stays locked (`StationIsHeld`), reports are received no later than now
  (`ReceivedIsPast`), so the contributor's rows that the process read are all there is
  (`AnswerIsCurrent`), and the row drafted after them has no accepted twin
  (`DraftHasNoTwin`), including among the earlier rows of its own batch.
- `WatermarksCount` (`WatermarkCountsChanges`): a watermark is the number of changes
  readers of its market were shown. Beyond the refinement, which says that it moves
  with them, it moves by exactly as many: the changes a draft will make (`Pending`) are
  as many as it has advanced the watermark (`Bump`), plus one if it is just about to
  (`Due`), which is `PendingIsCounted`; the keys of a batch differ and none is drafted
  before its turn (`DraftsInTurn`), so that a statement adds one pending change at most.
  A commit turns pending changes into past ones, and the two are disjoint, because past
  events carry numbers up to the length of their trail and a drafted one the next.

`ProviderProofs` proves, from `GovernanceAssumption`, for any callers, periods and
limits, `CircuitTellsFailures` (`OpenMeansFailing`), which is inductive with the types;
`QuotaHolds` (`UsageWithinLimits`), for which the invariant adds that between the lock
and the commit of a charge what was read is still what the counters say, with room in
every window (`ReadsAreCurrent`), as the row lock of the source ensures; and
`CallsAreCharged` (`EveryCallIsCharged`): only `WriteUsage` charges, from reads that are
current, and each charge adds exactly one to what was counted before (`ChargesCounted`).
The calls counted are those let through (`granted`): a caller that dies between its
commit and its call has been charged and never calls.
From `ThrottleAssumption` it proves `ProcessIsSpaced` (`ProcessSpacesItself`) and
`ProcessesAreSpaced` (`LockSpacesProcesses`). A caller on its way has the mutex of its
process (`MutexIsKept`) and what it still has to sleep covers what is missing since the
process's last answer (`SleepCoversProcess`). Undisturbed, it also holds the shared
lock (`LockIsKept`), the shared timestamp is the latest of all (`StampIsLatest`), and
the sleep covers what is missing since it (`SleepCoversAll`). Both count from answers: a
request that fails leaves no stamp, and the next goes out at once.

`WebProofs` proves, from `ProxyAssumption` and `PageAssumption`, for any number of trips
and any timeouts the platform's limit leaves room for: `ProxyAnswersInTime`
(`AnsweredInTime`), whose invariant `ProxyInvariant` bounds the age, the deadline of the
call in flight and the number of requests at each await; and `PageIsCurrent`
(`PageFollowsLastTrip`), which is inductive once no trip is called before its version
(`CallsAreNumbered`), so that a cancellation leaves a version nothing can answer to.
From `LimitsAssumption`, for any requests, dimensions, limits and windows, it proves
`LimitsHold` (`WithinLimit`) and `RejectionsAreEarned` (`RejectionIsEarned`). Both turn
on a counter that is neither lost while requests of its window may still ask for it nor
mistaken for another window's. `LimitsInvariant` says that a request is named for a
window that has begun (`WindowsHaveBegun`), that a counter therefore lives until a second
after its window at least (`Lasting`, which is what the second added to its lifetime is
for), that until then it has counted every request it let through
(`HoldersAreCounted`), and that a counter of contributions counts a request once
(`CountsArePaid`). Commands may take any time. One that runs later than that second
(`Over`) may find the counter gone and begin a new one; `requests[r].late` remembers the
dimensions a request was so late in, and `WithinLimit` is about the others.

`ResolverProofs` proves, from `ResolverAssumption`, for any reports, contributors and
clock bound: `QuotesAreGrounded` (`QuoteRestsOnUsableEvidence`), `ConsensusOfContributors`
(`ConsensusIsIndependent`) and `StrongerEvidencePrevails`
(`WeakerEvidenceNeverDisplaces`). The quote is a function of the state built from
choices of a latest report, so the proofs first show that the choices are made: every
non-empty finite set of reports has a latest one (`LastExists`, by a smallest
counterexample). `EvidenceInOrder` and `EvidenceByStrength` then say which kind of
evidence the quote is taken from and that stronger kinds were empty. The last theorem
is about steps: a quote depends on the reports in view only, and a step that brings no
stronger evidence into view leaves the one it was taken from.

`RoutePlanCacheProofs` proves, from `CacheAssumption`, for any requests, bounds and
lifetimes: `CacheTypeCorrect`, `OwnQuotesAnswered` (`AnswersUseOwnQuotes`),
`WatermarkCoversPrices` (`PricesNotAheadOfWatermark`) and `PlansLapse`
(`PlansLapseWithPrices`). A stored plan is answered to whoever finds it, so the
invariant `CacheInvariant` adds that its key names the quote it was built from and
that this quote is published (`PlansNameTheirQuote`), which rests on what a request
has read at each statement (`RequestsFit`) and on no request knowing a price before
it is published (`PricesArePublished`). A lifetime is taken when the build has ended
(`ttl`) and runs from `cache.set`, any time later (`delay`): it is behind its price but
for a second and that time (`LifetimesLapseWithPrices`), and ageing keeps the stored plan
there, because both lose the same second.

`CatalogueProofs` proves, from `StationImportsAssumption`, `NoSnapshotAssumption`,
`PriceImportsAssumption`, `NoBatchAssumption` and `ImportsAssumption`, for any runs, versions, markets and
files: `ImportsKeepInvariant`, `MarketHasOneActive`, `MarketKeepsCatalogue`
(`CatalogueNeverLost`), `PricesMatchCatalogue` (`AcceptedAgainstActive`),
`RefreshesNeverCollide` and `StoredBatchIsWhole`. A commit publishes what earlier
statements drafted, so `ImportInvariant` says what a draft guarantees until then:

- a run drafts rows of its own market only and holds their locks (`DraftsFitStep`,
  `RowsAreLocked`), so another run's commit changes none of them;
- an activation is drafted only while nothing else of the market is active, in any
  draft or in what the run sees (`ActivatedAlone`): the unique index makes a run wait
  for undecided rivals and refuses it when one is active. This keeps one active
  snapshot, and with the previous part none is lost: a commit that deactivates one
  brings its own;
- the snapshot of a station price drafted as accepted is active and locked by the run
  (`PricesHoldSnapshots`), so no activation commits before its batch;
- a refresh holds its source from the test of its checksum to its end
  (`RefreshHoldsSource`), and batches are keyed by source: nobody else has the key;
- a batch grows by the rows of a known file, in order (`FilesAreKnown`,
  `RowsAreFound`, `BatchFitsStep`), and is committed after its last row only.

Lemmas frame the steps (`OthersKeep`, `LocksKept`, `LockedRowKept`,
`SnapshotsChange`, `BatchesChange`), one per part then shows that it is kept.

It also proves `ImportDeadlocksNeedOlderRows` (`DeadlockNeedsOlderRow`): imports wait
for each other in a circle only over a manual price import that keeps the locks of its
earlier rows, or over a switch back to an older snapshot. Locks have no common order
here, since an activation locks what it finds active, so the argument goes along the
statements. `WaitInvariant` adds which locks a run may hold at each statement
(`LocksFitStep`), that an activation locks one row besides its own at most
(`OneRowBesides`) and a committed one (`ScannedIsCommitted`), and that refreshes look
for no stations (`RefreshStarts`, `RefreshNeedsNoStation`, `StationsAreFound`). In a
circle without either exception, snapshots are held by activations only; two
activations that wait would both wait for the only active row of the market, held by
one of them; so none waits to activate, hence none to deactivate, to lock its own row
or a snapshot, for a station, for a batch, for a source.

The parsers are functions of what they read, so what is proved of them holds for every
file and answer. `FilesAreNormalized` (`FilesNormalizeWell`) is about a fold over the
features of a file of any length; it is unrolled one feature at a time
(`MadeOneByOne`), and `Made` says what holds after each: the rows so far are of the first
feature of their identity, none is listed twice, and rows, duplicates and skipped
features add up to what was read (`CountedFits`). `AnswersAreParsed`
(`AnswersParseWell`): the moment a price takes effect is within a day of the one it is
read at (`EffectiveBefore`), so the ledger's verdict on it is never a rejection
(`LedgerTakes`), and it lasts to the next fetch exactly when read by noon.

`PlanProofs` is about the algorithms between a route and its purchases.

- From `GeometryAssumption`, for any grid, routes and stations: `NoStationIsLost`
  (`StationsAreMatched`). The index is a grid of cells, and a station is compared only
  with the segments in cells around its own. None within the corridor is missed by
  that: where the nearest point of a segment is within it, the station is outside the
  segment's extent by no more than that in either coordinate (`FootIsNear`,
  `WithinIsBeside`), and so many cells around it are searched (`CellsApart`,
  `NearIsIndexed`). Among the segments found there is a nearest (`NearestExists`), since
  fractions compare transitively (`LessTransitive`).
  The invariant adds what was projected and what became of each station passed
  (`CandidatesAreProjected`, `PassedAreShown`).
- From `TankAssumption` and `RoadAssumption`, for any tank, stations and distances:
  `DroppedPurchasesAreForgiven` (`ValidatedRoutesAreDriven`) for the first API's
  optimizer, which validates gaps and then drives. What it drives is what
  it prepared: the stops stay in order when near ones are merged (`PreparedInOrder`).
  `RoadInvariant` adds that the stops ahead are in order (`StopsAreOrdered`) and that the
  tank lasts to the next one but for what consuming forgives (`TankLasts`): every purchase
  asks for enough (`WantedIsEnough`), and one that is dropped for being too small leaves
  no more missing than that.
- From `TankAssumption` and `VehicleAssumption`, for any vehicle, stations and unit of
  rounding: `ReserveAndTankHold` (`FuelStaysInBounds`). What the loop believes to be in
  the tank is not what its purchases amount to, since each leg may forgive a missing
  grain; `FuelIsBelieved` says that the two differ by a grain a leg at most, and the
  loop never believes in less. A purchase is rounded by half a grain at most (`RoundingAdds`).

`PlannerProofs` builds on it to compare plans and answers with every alternative.

- From the same assumptions, `PlansCostLeast` (`PlanIsCheapest`) and
  `OnlyTheImpossibleIsRefused` (`RefusedOnlyIfImpossible`). Plans are not compared
  purchase by purchase. Each unit of the route has a price below which nobody can drive
  it: the least of the stations it can be bought at, those up to a full tank before it
  (`Covers`, `UnitPrices`). Any plan buys each unit beyond the starting fuel at one of
  these (`PlansCover`, `StopSells`), so it costs at least their sum (`LowerBound`), and
  the greedy loop costs exactly that (`GreedyCost`). For this `ExactInvariant` says of the
  purchases so far: each unit was bought where no station covering it is cheaper
  (`NothingCheaper`), none lies beyond the end (`NothingBeyond`), and wherever a station
  passed could have sold more, the tank lasts to one ahead that is no dearer (`Onward`),
  which is what makes waiting right. The same invariant shows that the loop never runs dry
  (`LegIsFuelled`) and, with `CoveredIfSold`, that a route the validation turns down has
  a unit nobody can sell. Where nothing is rounded is the hypothesis `Exact` of the
  property, also in the runs: with rounding the sliver below is a counterexample.
- From these, `SelectionAssumption` and `PlannerAssumption`: `BestIsAnswered`
  (`BestAlternativeSelected`) and `RefusalsAreRight` (`RefusedOnlyIfNoneDrivable`), for
  any alternatives and requests and whatever the providers answer. The optimizer sees
  the stations merged where a driver sees each of them; `MergingExists` follows each
  station into the one it was merged into, at the same place and no dearer, so a bound for
  the merged stations is one for all (`MergedNoDearer`), and a plan of the merged ones is a
  way of driving with all of them (`MergedPlan`). `PlannerInvariant` keeps for each
  alternative tried that its evaluation is a cheapest way of driving it, or that there
  is none (`Tries`), and that an answer comes after all were tried (`AnswersLast`). That
  the choice is a least key (`SelectedIsLeast`) and that rounding scores keeps their
  order (`MoneyKeepsOrder`) completes it.
- From `TankAssumption`, `SelectionAssumption` and `FirstPlannerAssumption`:
  `UnreachableIsRefused` (`RefusedOnlyIfUnreachable`) for the first API, in any units and
  without the hypothesis of whole steps. What its optimizer refuses is not covered or has
  no station to price the start at (`RefusedIfUncovered`); what it leaves stuck has a leg
  longer than a full tank (`RoadInvariant`); and a way of driving shows neither
  (`NoLegTooLong`, `RoadIsDriven`). `FirstInvariant` carries this over the alternatives.

These rest on what sorting, folding and adding up return. The library's induction
theorems cannot be used, so induction over the naturals is done on the set of numbers
for which a statement holds (`AllNumbers`), and over finite sets by their size
(`AllSubsets`). `FoldExists` gives a fold as a function of the sets it is taken over,
`SortedExists` that a sorted sequence exists, `SumOf` that a sum does not depend on the
order in which it is formed.

Only model-checked: liveness (`TransactionsEnd`, `RequestsEnd`, `LoadingEnds`), which
rests on fairness and is out of the prover's reach, and the five properties the code
violates. Every other property of a passing run is a theorem.

## Where the code differs from what it says

- **A consensus can be broken by one outlier.** Reports of 100 and 106 agree; a
  third of 113 moves the median to 106, only one report is left within tolerance,
  and the newest, the outlier, becomes the quote (`price_resolver.py:163`).
  `test_independent_consensus_excludes_outlier` shows the case where the
  agreeing reports are closer (`MCPriceResolverOutlier`).
- **Releasing a build lock is not atomic.** The token is compared and the lock
  deleted in two calls (`route_plan_cache.py:31`); a lock that lapses between them
  may be another's by then (`MCRoutePlanCacheRelease`). The cost is a second build.
- **A plan can outlive its prices.** The lifetime of a plan is
  `max(1, ...)` of what its earliest price has left after the build
  (`route_plan_cache.py:93`), and runs from `cache.set`: a price that expired meanwhile
  leaves a second, and a `set` that reaches the cache late shifts the end by as much, where
  README.md says that results expire no later than their prices
  (`MCRoutePlanCacheExpiry`). `PlansLapseWithPrices` is what the code keeps. A request that
  resolves its quotes after the expiry has another key; one that resolved them before
  may find the plan.
- **A sliver of fuel stops a plan.** A needed volume in [0.001, 0.0015) litres
  rounds to 0.001, is not bought because it does not exceed `PURCHASE_EPSILON`,
  and may not be forgiven by `_consume_fuel` (`vehicle_optimizer.py:38`): the
  route is refused although its coverage was validated (`MCFuelPlansSliver`). A
  tank of 35 l, 18 km/l, 8 l to start, 3 l in reserve, a station at 100 km and a
  route of 144.02 km show it; 144.01 and 144.03 km are planned.
- **The first API is not cost-optimal.** It fuels for the destination as soon as
  it is in range, past a cheaper station (`optimizer.py:158`, against the
  assumption served by `planner.py:158`) (`MCFuelPlansCost`).

Limits that are visible in the models, or met while modelling, and have no run:

- The circuit is consulted before the reservation: callers past that point still call
  after it opened (`provider_http.py:31`). A success recorded after failures of later
  calls resets their count (`provider_health.py:33`). An `http.client.HTTPException` is charged
  but not counted as a failure (`provider_http.py:55`). The time that picks the
  windows is read before the lock (`provider_budget.py:19`): a caller that waits over
  a boundary is charged in the window it came from.
- A failed geocoding request leaves no timestamp, so the next goes out at once
  (`map_client.py:127`); what is spaced is answers.
- A request that reaches a counter a second or more after its window may find it gone and
  be let through beyond the limit: connecting and the socket have timeouts of two seconds
  each, and up to four dimensions are charged in sequence (`rate_limit.py:65`).
- A route request whose `cache.add` is carried out but not answered is charged twice
  (`rate_limit.py:65`). Contributions are not: `RejectionIsEarned` is about them.
- The proxy cannot tell the backend's own 502 and 503 answers from a sleeping
  backend; it asks up to three times. `proxyResponse` is returned without `await`
  (`route.ts:38`), so a reply whose body fails to be read escapes the `catch`, and the
  platform answers 500.
- After a refusal of all its rows a file's checksum is taken: importing it again, once
  its catalogue is active, stores nothing. A manual import does not lock its source,
  so approval may be withdrawn while it runs. The refresh's cadence is tested outside
  the lock: two refreshes may both fetch, though only one stores.
- A price of a place has no station row to lock: two concurrent reports on one place
  may both be accepted (`observations.py:161`).
- Stations within `POSITION_EPSILON` (0.1) of each other are merged though they lie at
  different places (`optimizer.py:69`, `vehicle_optimizer.py:76`): the cheaper one that is
  kept may be just out of reach where the other was not, and the route is refused.
  `RefusedOnlyIfUnreachable` is false without `FarApart`: a station 24 from the start,
  one at 28 that is cheaper, a tank of 24 and a tolerance of 5 show it in `MCPlansAndQuotes`.
- Readiness checks share one cache key and delete it (`api/views.py:120`): of two that
  overlap, one may find the cache unready. Readiness counts prices of a switched-off
  source, which planning ignores (`api/views.py:90`). The station directory filters
  fuel and grade in separate joins (`station_directory.py:108`): a station with the
  fuel in one row and the grade in another is listed, without fuels.

## Not modelled

The first API's plan cache follows the protocol of the route plan cache with a fixed
lifetime and no prices in its key; what is specific to the latter is what is modelled.
The file cache of a development set-up, whose `add` is a check and a write, is left out.
Serialisation and validation of input, the station directory and readiness (single
reads, see above), logging, settings, migrations, read-only reports (`data_status`,
`catalogue_report`, `provider_status`), the contributor's keyed hash,
`build_station_data` (an off-line script), request parameters of the providers, the
text of place identifiers, spherical distances, the map and the form of the frontend.
Backup and restore run PostgreSQL's own tools in sequence on a scratch database; their
correctness is those tools'.

## Plan

1. How much more than the cheapest a plan of the second API may cost where volumes are
   rounded: the bound by unit prices holds there too, but for a grain a stop.
2. The effects of a catalogue switch on requests: `RoutePlanCache` with snapshots that
   are replaced between its reads.
3. A restore drill: dump, restore into a scratch database, compare, drop.
