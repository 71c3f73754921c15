------------------------------ MODULE PriceImports ------------------------------
(***************************************************************************)
(* Price imports beside station imports: the manual import of a reviewed    *)
(* file (routes/management/commands/import_price_observations.py), the       *)
(* scheduled refresh from a provider (refresh_prices.py, routes/application/ *)
(* price_import.py) and the registry sync.  Each stores one batch and its    *)
(* observations in one transaction.                                          *)
(*                                                                         *)
(* What validate_and_store_observation decides from earlier prices is a free *)
(* choice here and the watermark it advances is left out: ObservationLedger  *)
(* has both.  Here is what that module leaves free: whether a price's        *)
(* station is in a snapshot that is active.  The 24 hour cadence, the        *)
(* provider's quota and its circuit are free choices too.                    *)
(***************************************************************************)
EXTENDS StationImports

CONSTANTS
    Places,       \* states and cities: prices of no single station
    Checksums,    \* what tells two price files apart
    PriceFiles,   \* reviewed files operators import
    Contents,     \* what the provider may answer, parsed (MitraPrices)
    NoBatch, NoVersion, NoStation

Automated == "api-mitra-fuel"
Manual == "reviewed-prices"
Sources == {Automated, Manual}

\* A price is for a station, by its stable identity, or for a place.
Geography == StableIds \union Places

PriceFile == [checksum: Checksums, market: Markets, rows: Seq(Geography)]

\* A row of a reviewed file, as it was written.
ReviewedRow == [record: STRING, geography: Geography,
                station: StableIds \union {NoStation}, lasts: BOOLEAN]

ReviewedFile == [checksum: Checksums, market: Markets, rows: Seq(ReviewedRow)]

ASSUME PriceImportsAssumption ==
    /\ PriceFiles \subseteq ReviewedFile
    /\ Contents \subseteq PriceFile
    /\ \A file \in Contents : file.rows # <<>> /\ Range(file.rows) \subseteq Places
    /\ StableIds \intersect Places = {} /\ NoStation \notin StableIds

Verdicts == {"ACCEPTED", "QUARANTINED", "REJECTED"}

\* unique_price_import_checksum; a checksum covers the market.
BatchKeys == Sources \X Checksums

Batch == [count: Nat, counts: [Verdicts -> Nat],
          rows: Seq([place: Geography, version: Versions \union {NoVersion},
                     state: Verdicts])]

ASSUME NoBatchAssumption == NoBatch \notin Batch \union PriceFile

VARIABLES
    batch,      \* committed PriceImportBatch rows with their observations
    draftBatch, \* the uncommitted batch of each run
    approved    \* whether the registry's terms let a source be imported

vars == <<snapshot, lock, pc, work, draft, scanned, batch, draftBatch, approved>>

priceVars == <<batch, draftBatch, approved>>

PriceInit ==
    /\ batch = [k \in BatchKeys |-> NoBatch]
    /\ draftBatch = [p \in Proc |-> NoBatch]
    /\ approved = [s \in Sources |-> TRUE]

Init == StationInit /\ PriceInit

PriceWork(source, file) ==
    [kind |-> "prices", source |-> source, file |-> file, found |-> <<>>]

File(p) == work[p].file

BatchKey(p) == <<work[p].source, File(p).checksum>>

\* A run that ends, well or badly, has no batch in progress.
FinishPrices(p) ==
    /\ Finish(p)
    /\ draftBatch' = [draftBatch EXCEPT ![p] = NoBatch]

--------------------------------------------------------------------------------
(* import_price_observations *)

\* _normalize_rows, but for the catalogue: one bad row refuses the file.  A
\* price names a station when it is for one, and then that one.
WellFormed(rows) ==
    /\ rows # <<>>
    /\ \A i, j \in DOMAIN rows : rows[i].record = rows[j].record => i = j
    /\ \A i \in DOMAIN rows :
          /\ rows[i].lasts
          /\ rows[i].station = IF rows[i].geography \in Places THEN NoStation
                                ELSE rows[i].geography

Geographies(rows) == [i \in DOMAIN rows |-> rows[i].geography]

\* _approved_manual_source and the batch are read outside a transaction; a
\* file already imported ends the run.
BeginManual(p) ==
    /\ pc[p] = "idle"
    /\ approved[Manual]
    /\ \E file \in PriceFiles :
          /\ batch[<<Manual, file.checksum>>] = NoBatch
          /\ WellFormed(file.rows)
          /\ work' = [work EXCEPT ![p] = PriceWork(Manual,
                         [file EXCEPT !.rows = Geographies(file.rows)])]
    /\ pc' = [pc EXCEPT ![p] = "lookup"]
    /\ UNCHANGED <<stationVars, lock, priceVars>>

\* _station_for_row: each row reads the active catalogue for itself.
Located(p, place) ==
    IF place \in Places THEN {NoVersion}
    ELSE {v \in Served(File(p).market) : place \in StationsOf(snapshot[v].content)}

LookUpRow(p) ==
    /\ pc[p] = "lookup"
    /\ \E v \in Located(p, File(p).rows[Len(work[p].found) + 1]) :
          /\ work' = [work EXCEPT ![p].found = Append(@, v)]
          /\ pc' = [pc EXCEPT ![p] =
                       IF Len(work[p].found) + 1 = Len(File(p).rows)
                       THEN "batch" ELSE "lookup"]
    /\ UNCHANGED <<stationVars, lock, priceVars>>

\* A station that is not in the active catalogue refuses the whole file.
RefuseFile(p) ==
    /\ pc[p] = "lookup"
    /\ Located(p, File(p).rows[Len(work[p].found) + 1]) = {}
    /\ FinishPrices(p)
    /\ UNCHANGED <<snapshot, batch, approved>>

--------------------------------------------------------------------------------
(* refresh_prices and import_provider_prices *)

\* The registry allows it and the cadence is past or forced.
BeginRefresh(p) ==
    /\ pc[p] = "idle"
    /\ approved[Automated]
    /\ pc' = [pc EXCEPT ![p] = "fetch"]
    /\ work' = [work EXCEPT ![p] = PriceWork(Automated, NoBatch)]
    /\ UNCHANGED <<stationVars, lock, priceVars>>

\* MitraPriceClient.snapshot, outside any transaction.
FetchPrices(p) ==
    /\ pc[p] = "fetch"
    /\ \E content \in Contents :
          work' = [work EXCEPT ![p].file = content,
                               ![p].found = [i \in DOMAIN content.rows |-> NoVersion]]
    /\ pc' = [pc EXCEPT ![p] = "source"]
    /\ UNCHANGED <<stationVars, lock, priceVars>>

\* Mutant: get() without select_for_update.
SourceNotLocked(p) == UNCHANGED lock

LockSource(p) == Acquire(<<"source", Automated>>, p)

\* select_for_update on the source serialises the importers; approval and
\* checksum are then read again.
EnterImport(p) ==
    /\ pc[p] = "source"
    /\ LockSource(p)
    /\ approved[Automated]
    /\ pc' = [pc EXCEPT ![p] = IF batch[BatchKey(p)] = NoBatch
                               THEN "batch" ELSE "commit"]
    /\ UNCHANGED <<stationVars, work, priceVars>>

\* The source's terms were withdrawn during the fetch: ExternalServiceError.
RefuseImport(p) ==
    /\ pc[p] = "source"
    /\ Available(<<"source", Automated>>, p)
    /\ ~approved[Automated]
    /\ FinishPrices(p)
    /\ UNCHANGED <<snapshot, batch, approved>>

--------------------------------------------------------------------------------
(* The transaction of either import *)

\* The statement a run goes to for row i of its file.
FirstStatement(p, i) ==
    IF i > Len(File(p).rows) THEN "counts"
    ELSE IF work[p].found[i] = NoVersion THEN "store" ELSE "station"

\* Another run has inserted the checksum and not ended.
Contested(p) ==
    \E q \in Proc \ {p} : /\ draftBatch[q] # NoBatch
                          /\ BatchKey(q) = BatchKey(p)

CreateBatch(p) ==
    /\ pc[p] = "batch"
    /\ ~Contested(p)
    /\ batch[BatchKey(p)] = NoBatch
    /\ draftBatch' = [draftBatch EXCEPT ![p] =
                         [count |-> Len(File(p).rows),
                          counts |-> [s \in Verdicts |-> 0], rows |-> <<>>]]
    /\ pc' = [pc EXCEPT ![p] = FirstStatement(p, 1)]
    /\ UNCHANGED <<stationVars, lock, work, batch, approved>>

\* unique_price_import_checksum: IntegrityError.
CollideBatch(p) ==
    /\ pc[p] = "batch"
    /\ ~Contested(p)
    /\ batch[BatchKey(p)] # NoBatch
    /\ FinishPrices(p)
    /\ UNCHANGED <<snapshot, batch, approved>>

At(p) == Len(draftBatch[p].rows) + 1

\* Mutant: the station is locked without its snapshot.
SnapshotNotLocked(p, v) == UNCHANGED lock

LockSnapshot(p, v) == Acquire(<<"snapshot", v>>, p)

\* Mutant: two statements, one for each row; some callers lock the snapshot
\* first.
LockInEitherOrder(p) ==
    /\ pc[p] = "station"
    /\ \/ /\ Acquire(<<"station", <<work[p].found[At(p)], File(p).rows[At(p)]>>>>, p)
          /\ pc' = [pc EXCEPT ![p] = "snapshot"]
       \/ /\ Acquire(<<"snapshot", work[p].found[At(p)]>>, p)
          /\ UNCHANGED pc
    /\ UNCHANGED <<stationVars, work, priceVars>>

\* _locked_station: the station's row, then its snapshot's.
LockStation(p) ==
    /\ pc[p] = "station"
    /\ Acquire(<<"station", <<work[p].found[At(p)], File(p).rows[At(p)]>>>>, p)
    /\ pc' = [pc EXCEPT ![p] = "snapshot"]
    /\ UNCHANGED <<stationVars, work, priceVars>>

LockItsSnapshot(p) ==
    /\ pc[p] = "snapshot"
    /\ LockSnapshot(p, work[p].found[At(p)])
    /\ pc' = [pc EXCEPT ![p] = "store"]
    /\ UNCHANGED <<stationVars, work, priceVars>>

\* station_accepting_reports, for a station open and selling the fuel.
Eligible(v) == v = NoVersion \/ IsActive(snapshot[v])

StoreRow(p) ==
    /\ pc[p] = "store"
    /\ \E state \in IF Eligible(work[p].found[At(p)]) THEN Verdicts ELSE {"REJECTED"} :
          draftBatch' = [draftBatch EXCEPT ![p].rows = Append(@,
              [place |-> File(p).rows[At(p)], version |-> work[p].found[At(p)],
               state |-> state])]
    /\ pc' = [pc EXCEPT ![p] = FirstStatement(p, At(p) + 1)]
    /\ UNCHANGED <<stationVars, lock, work, batch, approved>>

CountOf(rows, state) == Cardinality({i \in DOMAIN rows : rows[i].state = state})

SaveCounts(p) ==
    /\ pc[p] = "counts"
    /\ draftBatch' = [draftBatch EXCEPT ![p].counts =
                         [s \in Verdicts |-> CountOf(draftBatch[p].rows, s)]]
    /\ pc' = [pc EXCEPT ![p] = "commit"]
    /\ UNCHANGED <<stationVars, lock, work, batch, approved>>

\* The batch as a run has left it so far.
WithDraft(p) == IF draftBatch[p] = NoBatch THEN batch
                ELSE [batch EXCEPT ![BatchKey(p)] = draftBatch[p]]

\* Mutant: no transaction.atomic around the batch.
KeptRows(p) == WithDraft(p)

\* What a failed import leaves.
KeptBatches(p) == batch

CommitPrices(p) ==
    /\ pc[p] = "commit"
    /\ work[p].kind = "prices"
    /\ batch' = WithDraft(p)
    /\ FinishPrices(p)
    /\ UNCHANGED <<snapshot, approved>>

\* A failed fetch, a crash, an error of the database, a deadlock's victim.
AbortPrices(p) ==
    /\ pc[p] # "idle"
    /\ work[p].kind = "prices"
    /\ batch' = KeptBatches(p)
    /\ FinishPrices(p)
    /\ UNCHANGED <<snapshot, approved>>

\* sync_source_registry, or an operator, writes one source's row.
SyncSource(s) ==
    /\ s = Automated => lock[<<"source", s>>] = Free
    /\ approved' = [approved EXCEPT ![s] = ~@]
    /\ UNCHANGED <<stationVars, lock, pc, work, batch, draftBatch>>

PriceStep(p) ==
    \/ BeginManual(p) \/ LookUpRow(p) \/ RefuseFile(p)
    \/ BeginRefresh(p) \/ FetchPrices(p) \/ EnterImport(p) \/ RefuseImport(p)
    \/ CreateBatch(p) \/ CollideBatch(p) \/ LockStation(p) \/ LockItsSnapshot(p)
    \/ StoreRow(p) \/ SaveCounts(p) \/ CommitPrices(p) \/ AbortPrices(p)

Next == \/ \E p \in Proc : \/ StationStep(p) /\ UNCHANGED priceVars
                           \/ PriceStep(p)
        \/ \E s \in Sources : SyncSource(s)

Spec == Init /\ [][Next]_vars

--------------------------------------------------------------------------------
(* Waiting *)

\* Run p cannot go on before run q has ended.
WaitsFor(p, q) ==
    LET Key == CASE pc[p] = "create" -> {<<"snapshot", Own(p)>>}
                 [] pc[p] = "deactivate" ->
                       IF scanned[p] = {} THEN {<<"snapshot", Own(p)>>}
                       ELSE {<<"snapshot", v>> : v \in scanned[p]}
                 [] pc[p] = "source" -> {<<"source", Automated>>}
                 [] pc[p] = "station" ->
                       {<<"station", <<work[p].found[At(p)], File(p).rows[At(p)]>>>>}
                 [] pc[p] = "snapshot" -> {<<"snapshot", work[p].found[At(p)]>>}
                 [] OTHER -> {}
    IN  /\ p # q
        /\ \/ Key # {} /\ \A k \in Key : lock[k] = q
           \/ /\ pc[p] = "activate"
              /\ \E v \in Undecided(p) : lock[<<"snapshot", v>>] = q
           \/ /\ pc[p] = "batch"
              /\ draftBatch[q] # NoBatch
              /\ BatchKey(q) = BatchKey(p)

Deadlocked(S) == S # {} /\ \A p \in S : \E q \in S : WaitsFor(p, q)

--------------------------------------------------------------------------------
(* Properties *)

\* A price of a station is accepted only while its snapshot is the active one:
\* when the batch commits, every accepted station price it brings belongs to a
\* snapshot that is active and stays so in that step.  The catalogue was read
\* before the transaction; _locked_station holds it still until the end.
AcceptedAgainstActive ==
    [][\A k \in BatchKeys :
          batch[k] = NoBatch /\ batch'[k] # NoBatch =>
              \A i \in DOMAIN batch'[k].rows :
                  LET stored == batch'[k].rows[i]
                  IN  stored.state = "ACCEPTED" /\ stored.version # NoVersion
                          => IsActive(snapshot[stored.version])]_batch

\* A batch is stored whole or not at all: as many observations as the file has
\* rows, in its order, counted by the verdicts they got.
BatchIsWhole ==
    \A source \in Sources, c \in Checksums : batch[<<source, c>>] # NoBatch =>
        LET b == batch[<<source, c>>]
            places == [i \in DOMAIN b.rows |-> b.rows[i].place]
        IN  /\ IF source = Manual
               THEN \E file \in PriceFiles :
                        file.checksum = c /\ places = Geographies(file.rows)
               ELSE \E file \in Contents : file.checksum = c /\ places = file.rows
            /\ b.count = Len(b.rows)
            /\ \A state \in Verdicts : b.counts[state] = CountOf(b.rows, state)

\* A refresh of prices another refresh has stored ends quietly, as "unchanged":
\* two overlapping ones never meet at the unique constraint, whose error
\* refresh_prices does not catch.
RefreshNeverCollides ==
    \A p \in Proc : pc[p] = "batch" /\ work[p].source = Automated =>
        batch[BatchKey(p)] = NoBatch /\ ~Contested(p)

\* Run p switches the market back to a snapshot imported before.
SwitchesBack(p) == work[p].kind = "stations" /\ snapshot[Own(p)] # NoSnapshot

\* Imports and activations deadlock only over a manual import that keeps the
\* locks of its earlier rows, or over the activation of an older snapshot:
\* another run may hold that row for having seen it active.  Imports of new
\* snapshots, refreshes and one-row files take their locks in one order.
DeadlockNeedsOlderRow ==
    \A S \in SUBSET Proc : Deadlocked(S) =>
        \E p \in S : \/ draftBatch[p] # NoBatch /\ At(p) > 1
                     \/ SwitchesBack(p)

--------------------------------------------------------------------------------
(* The inductive invariant behind the safety properties.                      *)

Importing == {"create", "scan", "deactivate", "activate"}
Storing == {"station", "snapshot", "store", "counts"}

StationWork == [kind: {"stations"}, file: StationFiles]
FetchWork == [kind: {"prices"}, source: {Automated}, file: {NoBatch}, found: {<<>>}]
FileWork == [kind: {"prices"}, source: Sources, file: PriceFile,
             found: Seq(Versions \union {NoVersion})]

\* Rows, locks, and what a run works on at each statement.
TypeOK ==
    /\ snapshot \in [Versions -> Row \union {NoSnapshot}]
    /\ draft \in [Proc -> [Versions -> Row \union {NoSnapshot}]]
    /\ lock \in [LockKey -> Proc \union {Free}]
    /\ scanned \in [Proc -> SUBSET Versions]
    /\ pc \in [Proc -> {"idle", "lookup", "fetch", "source", "batch", "commit"}
                       \union Importing \union Storing]
    /\ work \in [Proc -> {NoWork} \union StationWork \union FetchWork \union FileWork]
    /\ batch \in [BatchKeys -> Batch \union {NoBatch}]
    /\ draftBatch \in [Proc -> Batch \union {NoBatch}]
    /\ approved \in [Sources -> BOOLEAN]

WorkFitsStep ==
    \A p \in Proc :
        /\ pc[p] \in Importing => work[p] \in StationWork
        /\ pc[p] = "fetch" => work[p] \in FetchWork
        /\ pc[p] \in {"lookup", "source", "batch"} \union Storing => work[p] \in FileWork
        /\ pc[p] = "commit" => work[p] \in StationWork \union FileWork
        /\ pc[p] = "idle" => work[p] = NoWork

\* Stations: what a run drafts is of its own market and locked; it is active
\* only at the end, when every older catalogue has been deactivated.
DraftsFitStep ==
    \A p \in Proc :
        /\ pc[p] \in {"idle", "create"} => draft[p] = NothingDrafted
        /\ pc[p] \in Importing \ {"create"} => Seen(p, Own(p)) # NoSnapshot
        /\ \A v \in Versions :
              draft[p][v] # NoSnapshot \/ v \in scanned[p] =>
                  work[p] \in StationWork /\ MarketOf[v] = MarketOf[Own(p)]
        /\ \A v \in Versions :
              IsActive(draft[p][v]) => pc[p] = "commit" /\ v = Own(p)
        /\ pc[p] = "commit" /\ work[p] \in StationWork =>
              \/ IsActive(draft[p][Own(p)])
              \/ /\ snapshot[Own(p)] = NoSnapshot
                 /\ \A v \in Versions : draft[p][v] # NoSnapshot => v = Own(p)

RowsAreLocked ==
    \A p \in Proc :
        /\ \A v \in Versions : draft[p][v] # NoSnapshot => lock[<<"snapshot", v>>] = p
        /\ pc[p] \in {"activate", "commit"} /\ work[p] \in StationWork =>
              lock[<<"snapshot", Own(p)>>] = p

ActivatedAlone ==
    \A p \in Proc, v, w \in Versions :
        IsActive(draft[p][v]) /\ MarketOf[w] = MarketOf[v] =>
            /\ w # v => ~IsActive(Seen(p, w))
            /\ \A q \in Proc \ {p} : ~IsActive(draft[q][w])

\* Prices: a run works on a file of its source, row by row.
FilesAreKnown ==
    \A p \in Proc : work[p] \in FileWork =>
        IF work[p].source = Manual
        THEN \E file \in PriceFiles : /\ File(p).checksum = file.checksum
                                      /\ File(p).rows = Geographies(file.rows)
        ELSE File(p) \in Contents

RowsAreFound ==
    \A p \in Proc :
        /\ pc[p] = "lookup" => Len(work[p].found) < Len(File(p).rows)
        /\ pc[p] \in {"source", "batch"} \union Storing =>
              Len(work[p].found) = Len(File(p).rows)
        /\ pc[p] \in {"station", "snapshot"} => work[p].found[At(p)] # NoVersion

BatchFitsStep ==
    \A p \in Proc :
        /\ pc[p] \in Storing => draftBatch[p] # NoBatch
        /\ draftBatch[p] # NoBatch =>
              LET rows == draftBatch[p].rows
                  all == File(p).rows
              IN  /\ pc[p] \in Storing \union {"commit"}
                  /\ work[p] \in FileWork
                  /\ draftBatch[p].count = Len(all)
                  /\ \A i \in DOMAIN rows : rows[i].place = all[i]
                  /\ IF pc[p] \in {"counts", "commit"} THEN Len(rows) = Len(all)
                                                       ELSE Len(rows) < Len(all)
                  /\ pc[p] = "commit" =>
                        \A state \in Verdicts :
                            draftBatch[p].counts[state] = CountOf(rows, state)

\* A refresh holds its source from its checksum's test to its end.
RefreshHoldsSource ==
    \A p \in Proc :
        work[p] \in FileWork /\ work[p].source = Automated =>
            /\ pc[p] # "lookup"
            /\ pc[p] \in {"batch", "commit"} \union Storing =>
                  lock[<<"source", Automated>>] = p
            /\ pc[p] = "batch" => batch[BatchKey(p)] = NoBatch

\* The snapshot of an accepted station price is locked and active.
PricesHoldSnapshots ==
    \A p \in Proc :
        /\ pc[p] = "store" /\ work[p].found[At(p)] # NoVersion =>
              lock[<<"snapshot", work[p].found[At(p)]>>] = p
        /\ draftBatch[p] # NoBatch =>
              \A i \in DOMAIN draftBatch[p].rows :
                  LET stored == draftBatch[p].rows[i]
                  IN  stored.state = "ACCEPTED" /\ stored.version # NoVersion =>
                          /\ lock[<<"snapshot", stored.version>>] = p
                          /\ IsActive(snapshot[stored.version])

ImportInvariant ==
    /\ TypeOK /\ WorkFitsStep
    /\ DraftsFitStep /\ RowsAreLocked /\ ActivatedAlone /\ OneActivePerMarket
    /\ FilesAreKnown /\ RowsAreFound /\ BatchFitsStep
    /\ RefreshHoldsSource /\ PricesHoldSnapshots /\ BatchIsWhole

================================================================================
