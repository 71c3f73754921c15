---------------------------- MODULE CatalogueProofs ----------------------------
(***************************************************************************)
(* Proofs about station and price imports, for any runs, versions, markets  *)
(* and files: a market has one active catalogue and never loses it, station *)
(* prices are accepted against the active catalogue, batches are whole,      *)
(* refreshes never collide and deadlocks need an older row.                   *)
(***************************************************************************)
EXTENDS Imports, FiniteSetTheorems, TLAPS

\* What a run p does.
Step(p) == \/ StationStep(p) /\ UNCHANGED priceVars
           \/ PriceStep(p)

LEMMA StepsOfNext ==
  ASSUME [Next]_vars
  PROVE  \/ \E p \in Proc : Step(p)
         \/ \E s \in Sources : SyncSource(s)
         \/ UNCHANGED vars
BY DEF Next, Step

--------------------------------------------------------------------------------
(* Frames: what a step of one run leaves of the others.                        *)

\* A run changes its own statement, work and drafts only.
LEMMA OthersKeep ==
  ASSUME TypeOK, NEW p \in Proc, Step(p), NEW q \in Proc \ {p}
  PROVE  /\ pc'[q] = pc[q] /\ work'[q] = work[q]
         /\ draft'[q] = draft[q] /\ scanned'[q] = scanned[q]
         /\ draftBatch'[q] = draftBatch[q]
<1>. USE DEF TypeOK, stationVars, priceVars
<1>1. CASE StationStep(p) /\ UNCHANGED priceVars
  <2>. USE <1>1
  <2>1. CASE BeginStations(p)
    BY <2>1 DEF BeginStations
  <2>2. CASE CreateSnapshot(p)
    BY <2>2 DEF CreateSnapshot
  <2>3. CASE ScanActive(p)
    BY <2>3 DEF ScanActive
  <2>4. CASE DeactivateRow(p)
    BY <2>4 DEF DeactivateRow
  <2>5. CASE LockOwnRow(p)
    BY <2>5 DEF LockOwnRow
  <2>6. CASE Activate(p)
    BY <2>6 DEF Activate
  <2>7. CASE CollideStations(p) \/ CommitStations(p) \/ AbortStations(p)
    BY <2>7 DEF CollideStations, CommitStations, AbortStations, Finish
  <2>. QED  BY <1>1, <2>1, <2>2, <2>3, <2>4, <2>5, <2>6, <2>7 DEF StationStep
<1>2. CASE PriceStep(p)
  <2>1. CASE BeginManual(p) \/ LookUpRow(p) \/ BeginRefresh(p) \/ FetchPrices(p)
    BY <2>1 DEF BeginManual, LookUpRow, BeginRefresh, FetchPrices
  <2>2. CASE EnterImport(p) \/ LockStation(p) \/ LockItsSnapshot(p)
    BY <2>2 DEF EnterImport, LockStation, LockItsSnapshot
  <2>3. CASE CreateBatch(p) \/ StoreRow(p) \/ SaveCounts(p)
    BY <2>3 DEF CreateBatch, StoreRow, SaveCounts
  <2>4. CASE \/ RefuseFile(p) \/ RefuseImport(p) \/ CollideBatch(p)
             \/ CommitPrices(p) \/ AbortPrices(p)
    BY <2>4 DEF RefuseFile, RefuseImport, CollideBatch, CommitPrices, AbortPrices,
                FinishPrices, Finish
  <2>. QED  BY <1>2, <2>1, <2>2, <2>3, <2>4 DEF PriceStep
<1>. QED  BY <1>1, <1>2 DEF Step

\* The end of a run releases its own locks only.
LEMMA FinishReleases ==
  ASSUME TypeOK, NEW p \in Proc, Finish(p), NEW k \in LockKey, lock[k] # p
  PROVE  lock'[k] = lock[k]
BY DEF Finish, HeldBy, TypeOK

\* A lock is kept until its holder ends.
LEMMA LocksKept ==
  ASSUME TypeOK, NEW p \in Proc, Step(p),
         NEW q \in Proc, pc'[q] # "idle", NEW k \in LockKey, lock[k] = q
  PROVE  lock'[k] = q
<1>0. q # Free
  BY StationImportsAssumption
<1>1. ASSUME NEW key, Acquire(key, p) PROVE lock'[k] = q
  BY <1>0, <1>1 DEF Acquire, Available, TypeOK
<1>2. ASSUME Finish(p) PROVE lock'[k] = q
  BY <1>2, FinishReleases DEF Finish, TypeOK
<1>3. ASSUME UNCHANGED lock PROVE lock'[k] = q
  BY <1>3
<1>4. CASE StationStep(p)
  <2>1. CASE BeginStations(p) \/ ScanActive(p) \/ Activate(p)
    BY <2>1, <1>3 DEF BeginStations, ScanActive, Activate
  <2>2. CASE CreateSnapshot(p) \/ DeactivateRow(p) \/ LockOwnRow(p)
    BY <2>2, <1>1 DEF CreateSnapshot, DeactivateRow, LockOwnRow
  <2>3. CASE CollideStations(p) \/ CommitStations(p) \/ AbortStations(p)
    BY <2>3, <1>2 DEF CollideStations, CommitStations, AbortStations
  <2>. QED  BY <1>4, <2>1, <2>2, <2>3 DEF StationStep
<1>5. CASE PriceStep(p)
  <2>1. CASE \/ BeginManual(p) \/ LookUpRow(p) \/ BeginRefresh(p) \/ FetchPrices(p)
             \/ CreateBatch(p) \/ StoreRow(p) \/ SaveCounts(p)
    BY <2>1, <1>3 DEF BeginManual, LookUpRow, BeginRefresh, FetchPrices, CreateBatch,
                      StoreRow, SaveCounts
  <2>2. CASE EnterImport(p) \/ LockStation(p) \/ LockItsSnapshot(p)
    BY <2>2, <1>1 DEF EnterImport, LockSource, LockStation, LockItsSnapshot, LockSnapshot
  <2>3. CASE \/ RefuseFile(p) \/ RefuseImport(p) \/ CollideBatch(p)
             \/ CommitPrices(p) \/ AbortPrices(p)
    BY <2>3, <1>2 DEF RefuseFile, RefuseImport, CollideBatch, CommitPrices, AbortPrices,
                      FinishPrices
  <2>. QED  BY <1>5, <2>1, <2>2, <2>3 DEF PriceStep
<1>. QED  BY <1>4, <1>5 DEF Step

\* Only the commit of a station import changes the snapshots, and then into
\* what the run saw.
LEMMA SnapshotsChange ==
  ASSUME NEW p \in Proc, Step(p)
  PROVE  UNCHANGED snapshot \/ CommitStations(p)
<1>. USE DEF stationVars
<1>1. CASE StationStep(p)
  BY <1>1 DEF StationStep, BeginStations, CreateSnapshot, ScanActive, DeactivateRow,
              LockOwnRow, Activate, CollideStations, AbortStations, Kept
<1>2. CASE PriceStep(p)
  BY <1>2 DEF PriceStep, BeginManual, LookUpRow, RefuseFile, BeginRefresh, FetchPrices,
              EnterImport, RefuseImport, CreateBatch, CollideBatch, LockStation,
              LockItsSnapshot, StoreRow, SaveCounts, CommitPrices, AbortPrices
<1>. QED  BY <1>1, <1>2 DEF Step

\* A price import leaves the snapshots, and drafts of them, as they are.
LEMMA PricesLeaveStations ==
  ASSUME NEW p \in Proc, PriceStep(p)
  PROVE  UNCHANGED snapshot /\ (UNCHANGED <<draft, scanned>> \/ Finish(p))
BY DEF PriceStep, BeginManual, LookUpRow, RefuseFile, BeginRefresh, FetchPrices,
       EnterImport, RefuseImport, CreateBatch, CollideBatch, LockStation,
       LockItsSnapshot, StoreRow, SaveCounts, CommitPrices, AbortPrices, FinishPrices,
       stationVars

\* Only the commit of a price import changes the batches.
LEMMA BatchesChange ==
  ASSUME NEW p \in Proc, Step(p)
  PROVE  UNCHANGED batch \/ CommitPrices(p)
<1>. USE DEF priceVars
<1>1. CASE PriceStep(p)
  BY <1>1 DEF PriceStep, BeginManual, LookUpRow, RefuseFile, BeginRefresh, FetchPrices,
              EnterImport, RefuseImport, CreateBatch, CollideBatch, LockStation,
              LockItsSnapshot, StoreRow, SaveCounts, AbortPrices, KeptBatches
<1>. QED  BY <1>1 DEF Step

--------------------------------------------------------------------------------
(* What the types say of a run's work.                                         *)

LEMMA StationWorkFits ==
  ASSUME NEW p \in Proc, work[p] \in StationWork
  PROVE  /\ work[p].kind = "stations" /\ work[p].file \in StationFiles
         /\ Own(p) \in Versions /\ <<"snapshot", Own(p)>> \in LockKey
         /\ work[p] \notin FetchWork \union FileWork \union {NoWork}
BY StationImportsAssumption
   DEF StationWork, Own, StationFile, FetchWork, FileWork, NoWork, LockKey

LEMMA FileWorkFits ==
  ASSUME NEW p \in Proc, work[p] \in FileWork
  PROVE  /\ work[p].kind = "prices" /\ work[p].source \in Sources
         /\ File(p).rows \in Seq(Geography)
         /\ work[p].found \in Seq(Versions \union {NoVersion})
         /\ BatchKey(p) \in BatchKeys
         /\ work[p] \notin FetchWork \union StationWork \union {NoWork}
BY NoBatchAssumption
   DEF FileWork, PriceFile, File, BatchKey, BatchKeys, StationWork, FetchWork, NoWork

\* What a run sees of a version has the type of a row.
LEMMA SeenIsRow ==
  ASSUME TypeOK, NEW p \in Proc, NEW v \in Versions
  PROVE  Seen(p, v) \in Row \union {NoSnapshot}
BY DEF TypeOK, Seen

\* Only rows are active.
LEMMA ActiveIsRow ==
  ASSUME NEW row \in Row \union {NoSnapshot}, IsActive(row)
  PROVE  row \in Row /\ [row EXCEPT !.active = FALSE] \in Row
BY DEF IsActive, Row

LEMMA CountOfIsNat ==
  ASSUME NEW S, NEW rows \in Seq(S), NEW state
  PROVE  CountOf(rows, state) \in Nat
<1>. DEFINE found == {i \in DOMAIN rows : rows[i].state = state}
<1>1. DOMAIN rows = 1..Len(rows) /\ Len(rows) \in Nat
  OBVIOUS
<1>2. IsFiniteSet(1..Len(rows))
  BY <1>1, FS_Interval
<1>3. IsFiniteSet(found)
  BY <1>1, <1>2, FS_Subset
<1>. QED  BY <1>3, FS_CardinalityType DEF CountOf

--------------------------------------------------------------------------------
(* Typing.                                                                     *)

LEMMA ContentIsFile ==
  ASSUME NEW file \in StationFiles
  PROVE  Content(file) \in StationFile
BY StationImportsAssumption DEF Content, StationFile

LEMMA StationStepTyped ==
  ASSUME ImportInvariant, NEW p \in Proc, StationStep(p)
  PROVE  /\ snapshot' \in [Versions -> Row \union {NoSnapshot}]
         /\ draft' \in [Proc -> [Versions -> Row \union {NoSnapshot}]]
         /\ lock' \in [LockKey -> Proc \union {Free}]
         /\ scanned' \in [Proc -> SUBSET Versions]
         /\ pc' \in [Proc -> {"idle", "lookup", "fetch", "source", "batch", "commit"}
                             \union Importing \union Storing]
         /\ work' \in [Proc -> {NoWork} \union StationWork \union FetchWork
                               \union FileWork]
<1>. USE DEF TypeOK, Importing, stationVars
<1>0. TypeOK
  BY DEF ImportInvariant
<1>1. pc[p] \in Importing => /\ work[p] \in StationWork /\ Own(p) \in Versions
                             /\ work[p].file \in StationFiles
                             /\ <<"snapshot", Own(p)>> \in LockKey
  BY StationWorkFits DEF ImportInvariant, WorkFitsStep
<1>2. ASSUME NEW key, Acquire(key, p) PROVE lock' \in [LockKey -> Proc \union {Free}]
  BY <1>0, <1>2 DEF Acquire
<1>3. Published(p) \in [Versions -> Row \union {NoSnapshot}]
  BY <1>0, SeenIsRow DEF Published
<1>4. ASSUME Finish(p)
      PROVE  /\ draft' \in [Proc -> [Versions -> Row \union {NoSnapshot}]]
             /\ lock' \in [LockKey -> Proc \union {Free}]
             /\ scanned' \in [Proc -> SUBSET Versions]
             /\ pc' \in [Proc -> {"idle", "lookup", "fetch", "source", "batch",
                                  "commit"} \union Importing \union Storing]
             /\ work' \in [Proc -> {NoWork} \union StationWork \union FetchWork
                                   \union FileWork]
  BY <1>0, <1>4 DEF Finish, NothingDrafted
<1>5. CASE BeginStations(p)
  BY <1>0, <1>5 DEF BeginStations, StationWork
<1>6. CASE CreateSnapshot(p)
  <2>1. [content |-> Content(work[p].file), active |-> FALSE] \in Row
    BY <1>1, <1>6, ContentIsFile DEF CreateSnapshot, Row
  <2>. QED  BY <1>0, <1>1, <1>2, <1>6, <2>1 DEF CreateSnapshot
<1>7. CASE ScanActive(p)
  BY <1>0, <1>7 DEF ScanActive
<1>8. CASE DeactivateRow(p)
  BY <1>0, <1>2, <1>8, SeenIsRow, ActiveIsRow DEF DeactivateRow
<1>9. CASE LockOwnRow(p)
  BY <1>0, <1>2, <1>9 DEF LockOwnRow
<1>10. CASE Activate(p)
  <2>1. Seen(p, Own(p)) \in Row
    BY <1>0, <1>1, <1>10, SeenIsRow DEF Activate, ImportInvariant, DraftsFitStep
  <2>2. [Seen(p, Own(p)) EXCEPT !.active = TRUE] \in Row
    BY <2>1 DEF Row
  <2>. QED  BY <1>0, <1>1, <1>10, <2>2 DEF Activate
<1>11. CASE CollideStations(p) \/ CommitStations(p) \/ AbortStations(p)
  BY <1>0, <1>3, <1>4, <1>11 DEF CollideStations, CommitStations, AbortStations, Kept
<1>. QED  BY <1>5, <1>6, <1>7, <1>8, <1>9, <1>10, <1>11 DEF StationStep

\* The three steps that make a run's work anew leave it a file to store.
LEMMA FileWorkMade ==
  ASSUME ImportInvariant, NEW p \in Proc,
         BeginManual(p) \/ LookUpRow(p) \/ FetchPrices(p)
  PROVE  \E w \in FileWork : work' = [work EXCEPT ![p] = w]
<1>0. work \in [Proc -> {NoWork} \union StationWork \union FetchWork \union FileWork]
  BY DEF ImportInvariant, TypeOK
<1>1. CASE BeginManual(p)
  <2>1. PICK file \in PriceFiles :
          work' = [work EXCEPT ![p] = PriceWork(Manual,
                      [file EXCEPT !.rows = Geographies(file.rows)])]
    BY <1>1 DEF BeginManual
  <2>2. file \in ReviewedFile /\ file.rows \in Seq(ReviewedRow)
    BY PriceImportsAssumption DEF ReviewedFile
  <2>3. Geographies(file.rows) \in Seq(Geography)
    <3>1. \A i \in DOMAIN file.rows : file.rows[i] \in ReviewedRow
      BY <2>2
    <3>2. \A i \in DOMAIN file.rows : file.rows[i].geography \in Geography
      BY <3>1 DEF ReviewedRow
    <3>3. DOMAIN file.rows = 1..Len(file.rows) /\ Len(file.rows) \in Nat
      BY <2>2
    <3>. QED  BY <3>2, <3>3 DEF Geographies
  <2>4. PriceWork(Manual, [file EXCEPT !.rows = Geographies(file.rows)]) \in FileWork
    BY <2>2, <2>3 DEF PriceWork, FileWork, PriceFile, ReviewedFile, Sources
  <2>. QED  BY <2>1, <2>4
<1>2. CASE LookUpRow(p)
  <2>1. PICK v \in Located(p, File(p).rows[Len(work[p].found) + 1]) :
          work' = [work EXCEPT ![p].found = Append(@, v)]
    BY <1>2 DEF LookUpRow
  <2>2. v \in Versions \union {NoVersion}
    BY DEF Located, Served
  <2>3. work[p] \in FileWork
    BY <1>2 DEF LookUpRow, ImportInvariant, WorkFitsStep
  <2>4. Append(work[p].found, v) \in Seq(Versions \union {NoVersion})
    BY <2>2, <2>3 DEF FileWork
  <2>5. [work[p] EXCEPT !.found = Append(@, v)] \in FileWork
    BY <2>3, <2>4 DEF FileWork
  <2>. QED  BY <1>0, <2>1, <2>5
<1>3. CASE FetchPrices(p)
  <2>1. PICK content \in Contents :
          work' = [work EXCEPT ![p].file = content,
                               ![p].found = [i \in DOMAIN content.rows |-> NoVersion]]
    BY <1>3 DEF FetchPrices
  <2>2. content \in PriceFile /\ content.rows \in Seq(Geography)
    BY PriceImportsAssumption DEF PriceFile
  <2>3. [i \in DOMAIN content.rows |-> NoVersion] \in Seq(Versions \union {NoVersion})
    BY <2>2
  <2>4. work[p] \in FetchWork
    BY <1>3 DEF FetchPrices, ImportInvariant, WorkFitsStep
  <2>5. [work[p] EXCEPT !.file = content,
                        !.found = [i \in DOMAIN content.rows |-> NoVersion]] \in FileWork
    BY <2>2, <2>3, <2>4 DEF FetchWork, FileWork, Sources
  <2>. QED  BY <1>0, <2>1, <2>5
<1>. QED  BY <1>1, <1>2, <1>3

LEMMA PriceStepTyped ==
  ASSUME ImportInvariant, NEW p \in Proc, PriceStep(p)
  PROVE  /\ lock' \in [LockKey -> Proc \union {Free}]
         /\ pc' \in [Proc -> {"idle", "lookup", "fetch", "source", "batch", "commit"}
                             \union Importing \union Storing]
         /\ work' \in [Proc -> {NoWork} \union StationWork \union FetchWork
                               \union FileWork]
<1>. USE DEF TypeOK, Storing, stationVars, priceVars
<1>0. TypeOK
  BY DEF ImportInvariant
<1>1. ASSUME NEW key, Acquire(key, p) PROVE lock' \in [LockKey -> Proc \union {Free}]
  BY <1>0, <1>1 DEF Acquire
<1>2. CASE BeginManual(p) \/ LookUpRow(p) \/ FetchPrices(p)
  <2>1. \E w \in FileWork : work' = [work EXCEPT ![p] = w]
    BY <1>2, FileWorkMade
  <2>2. work' \in [Proc -> {NoWork} \union StationWork \union FetchWork \union FileWork]
    BY <1>0, <2>1
  <2>3. \E step \in {"lookup", "batch", "source"} : pc' = [pc EXCEPT ![p] = step]
    BY <1>2 DEF BeginManual, LookUpRow, FetchPrices
  <2>4. UNCHANGED lock
    BY <1>2 DEF BeginManual, LookUpRow, FetchPrices
  <2>. QED  BY <1>0, <2>2, <2>3, <2>4
<1>3. CASE BeginRefresh(p)
  BY <1>0, <1>3 DEF BeginRefresh, PriceWork, FetchWork
<1>4. CASE EnterImport(p) \/ LockStation(p) \/ LockItsSnapshot(p)
  BY <1>0, <1>1, <1>4 DEF EnterImport, LockSource, LockStation, LockItsSnapshot,
                          LockSnapshot
<1>5. CASE CreateBatch(p) \/ StoreRow(p) \/ SaveCounts(p)
  BY <1>0, <1>5 DEF CreateBatch, StoreRow, SaveCounts, FirstStatement
<1>6. CASE \/ RefuseFile(p) \/ RefuseImport(p) \/ CollideBatch(p)
           \/ CommitPrices(p) \/ AbortPrices(p)
  BY <1>0, <1>6 DEF RefuseFile, RefuseImport, CollideBatch, CommitPrices, AbortPrices,
                    FinishPrices, Finish
<1>. QED  BY <1>2, <1>3, <1>4, <1>5, <1>6 DEF PriceStep

\* The lengths and the next row of a file with a batch in progress.
LEMMA NextRow ==
  ASSUME ImportInvariant, NEW p \in Proc, pc[p] \in {"station", "snapshot", "store"}
  PROVE  /\ draftBatch[p] \in Batch /\ draftBatch[p] # NoBatch
         /\ Len(draftBatch[p].rows) \in Nat /\ Len(File(p).rows) \in Nat
         /\ Len(draftBatch[p].rows) < Len(File(p).rows)
         /\ At(p) \in 1..Len(File(p).rows)
         /\ File(p).rows[At(p)] \in Geography
         /\ work[p].found[At(p)] \in Versions \union {NoVersion}
<1>. USE DEF Storing
<1>1. draftBatch[p] \in Batch /\ draftBatch[p] # NoBatch
  BY DEF ImportInvariant, BatchFitsStep, TypeOK
<1>2. work[p] \in FileWork /\ Len(work[p].found) = Len(File(p).rows)
  BY DEF ImportInvariant, WorkFitsStep, RowsAreFound
<1>3. Len(draftBatch[p].rows) \in Nat /\ Len(File(p).rows) \in Nat
  BY <1>1, <1>2, FileWorkFits DEF Batch
<1>4. Len(draftBatch[p].rows) < Len(File(p).rows)
  BY <1>1 DEF ImportInvariant, BatchFitsStep
<1>5. At(p) \in 1..Len(File(p).rows)
  BY <1>3, <1>4 DEF At
<1>6. File(p).rows[At(p)] \in Geography /\ work[p].found[At(p)] \in Versions \union {NoVersion}
  BY <1>2, <1>5, FileWorkFits
<1>. QED  BY <1>1, <1>3, <1>4, <1>5, <1>6

\* StoreRow adds one row, accepted only if its station is eligible.
LEMMA RowStored ==
  ASSUME ImportInvariant, NEW p \in Proc, StoreRow(p)
  PROVE  \E row, b :
            /\ draftBatch' = [draftBatch EXCEPT ![p] = b]
            /\ b \in Batch /\ b.rows = Append(draftBatch[p].rows, row)
            /\ b.count = draftBatch[p].count
            /\ row.place = File(p).rows[At(p)] /\ row.version = work[p].found[At(p)]
            /\ row.state = "ACCEPTED" => Eligible(row.version)
<1>. DEFINE S == [place: Geography, version: Versions \union {NoVersion}, state: Verdicts]
<1>1. PICK state \in IF Eligible(work[p].found[At(p)]) THEN Verdicts ELSE {"REJECTED"} :
        draftBatch' = [draftBatch EXCEPT ![p].rows = Append(@,
            [place |-> File(p).rows[At(p)], version |-> work[p].found[At(p)],
             state |-> state])]
  BY DEF StoreRow
<1>2. /\ state \in Verdicts /\ draftBatch[p] \in Batch
      /\ File(p).rows[At(p)] \in Geography
      /\ work[p].found[At(p)] \in Versions \union {NoVersion}
      /\ state = "ACCEPTED" => Eligible(work[p].found[At(p)])
  BY NextRow DEF StoreRow, Verdicts
<1>. DEFINE row == [place |-> File(p).rows[At(p)], version |-> work[p].found[At(p)],
                    state |-> state]
<1>3. draftBatch[p].rows \in Seq(S) /\ row \in S
  BY <1>2 DEF Batch
<1>4. Append(draftBatch[p].rows, row) \in Seq(S)
  BY <1>3
<1>5. /\ row.place = File(p).rows[At(p)] /\ row.version = work[p].found[At(p)]
      /\ row.state = "ACCEPTED" => Eligible(row.version)
  BY <1>2
<1>. DEFINE b == [draftBatch[p] EXCEPT !.rows = Append(draftBatch[p].rows, row)]
<1>6. draftBatch' = [draftBatch EXCEPT ![p] = b]
  BY <1>1
<1>. HIDE DEF S, row
<1>7. b \in Batch /\ b.rows = Append(draftBatch[p].rows, row) /\ b.count = draftBatch[p].count
  BY <1>2, <1>4 DEF Batch, S
<1>. QED  BY <1>5, <1>6, <1>7

LEMMA BatchesTyped ==
  ASSUME ImportInvariant, NEW p \in Proc, PriceStep(p)
  PROVE  /\ batch' \in [BatchKeys -> Batch \union {NoBatch}]
         /\ draftBatch' \in [Proc -> Batch \union {NoBatch}]
         /\ approved' \in [Sources -> BOOLEAN]
<1>. USE DEF TypeOK, Storing, stationVars, priceVars
<1>0. TypeOK
  BY DEF ImportInvariant
<1>2. CASE CreateBatch(p)
  <2>1. Len(File(p).rows) \in Nat
    BY <1>2, FileWorkFits DEF CreateBatch, ImportInvariant, WorkFitsStep
  <2>2. [count |-> Len(File(p).rows), counts |-> [s \in Verdicts |-> 0],
         rows |-> <<>>] \in Batch
    BY <2>1 DEF Batch
  <2>. QED  BY <1>0, <1>2, <2>2 DEF CreateBatch
<1>3. CASE StoreRow(p)
  <2>1. \E b \in Batch : draftBatch' = [draftBatch EXCEPT ![p] = b]
    BY <1>3, RowStored
  <2>2. UNCHANGED <<batch, approved>>
    BY <1>3 DEF StoreRow
  <2>. QED  BY <1>0, <2>1, <2>2
<1>4. CASE SaveCounts(p)
  <2>1. draftBatch[p] \in Batch
    BY <1>0, <1>4 DEF SaveCounts, ImportInvariant, BatchFitsStep
  <2>2. [s \in Verdicts |-> CountOf(draftBatch[p].rows, s)] \in [Verdicts -> Nat]
    BY <2>1, CountOfIsNat DEF Batch
  <2>3. [draftBatch[p] EXCEPT !.counts = [s \in Verdicts |-> CountOf(draftBatch[p].rows, s)]]
           \in Batch
    BY <2>1, <2>2 DEF Batch
  <2>. QED  BY <1>0, <1>4, <2>3 DEF SaveCounts
<1>5. CASE \/ RefuseFile(p) \/ RefuseImport(p) \/ CollideBatch(p) \/ AbortPrices(p)
  BY <1>0, <1>5 DEF RefuseFile, RefuseImport, CollideBatch, AbortPrices, FinishPrices,
                    KeptBatches
<1>6. CASE CommitPrices(p)
  <2>1. WithDraft(p) \in [BatchKeys -> Batch \union {NoBatch}]
    BY <1>0 DEF WithDraft
  <2>. QED  BY <1>0, <1>6, <2>1 DEF CommitPrices, FinishPrices
<1>7. CASE \/ BeginManual(p) \/ LookUpRow(p) \/ BeginRefresh(p) \/ FetchPrices(p)
           \/ EnterImport(p) \/ LockStation(p) \/ LockItsSnapshot(p)
  BY <1>0, <1>7 DEF BeginManual, LookUpRow, BeginRefresh, FetchPrices, EnterImport,
                    LockStation, LockItsSnapshot
<1>. QED  BY <1>2, <1>3, <1>4, <1>5, <1>6, <1>7 DEF PriceStep

\* What leaves everything but the registry's approval as it is.
Quiet == UNCHANGED <<snapshot, lock, pc, work, draft, scanned, batch, draftBatch>>

LEMMA QuietSteps ==
  ASSUME UNCHANGED vars \/ \E s \in Sources : SyncSource(s)
  PROVE  Quiet
BY DEF Quiet, vars, SyncSource, stationVars

LEMMA TypesKept ==
  ASSUME ImportInvariant, [Next]_vars
  PROVE  TypeOK'
<1>0. TypeOK
  BY DEF ImportInvariant
<1>1. CASE \E p \in Proc : Step(p)
  <2>1. PICK p \in Proc : Step(p)
    BY <1>1
  <2>2. CASE StationStep(p) /\ UNCHANGED priceVars
    <3>1. /\ snapshot' \in [Versions -> Row \union {NoSnapshot}]
          /\ draft' \in [Proc -> [Versions -> Row \union {NoSnapshot}]]
          /\ lock' \in [LockKey -> Proc \union {Free}]
          /\ scanned' \in [Proc -> SUBSET Versions]
          /\ pc' \in [Proc -> {"idle", "lookup", "fetch", "source", "batch", "commit"}
                              \union Importing \union Storing]
          /\ work' \in [Proc -> {NoWork} \union StationWork \union FetchWork
                                \union FileWork]
      BY <2>2, StationStepTyped
    <3>. QED  BY <1>0, <2>2, <3>1 DEF TypeOK, priceVars
  <2>3. CASE PriceStep(p)
    <3>1. /\ lock' \in [LockKey -> Proc \union {Free}]
          /\ pc' \in [Proc -> {"idle", "lookup", "fetch", "source", "batch", "commit"}
                              \union Importing \union Storing]
          /\ work' \in [Proc -> {NoWork} \union StationWork \union FetchWork
                                \union FileWork]
      BY <2>3, PriceStepTyped
    <3>2. /\ batch' \in [BatchKeys -> Batch \union {NoBatch}]
          /\ draftBatch' \in [Proc -> Batch \union {NoBatch}]
          /\ approved' \in [Sources -> BOOLEAN]
      BY <2>3, BatchesTyped
    <3>3. /\ draft' \in [Proc -> [Versions -> Row \union {NoSnapshot}]]
          /\ scanned' \in [Proc -> SUBSET Versions]
      <4>1. CASE Finish(p)
        BY <1>0, <4>1 DEF Finish, NothingDrafted, TypeOK
      <4>2. CASE UNCHANGED <<draft, scanned>>
        BY <1>0, <4>2 DEF TypeOK
      <4>. QED  BY <2>3, <4>1, <4>2, PricesLeaveStations
    <3>. QED  BY <1>0, <2>3, <3>1, <3>2, <3>3, PricesLeaveStations DEF TypeOK
  <2>. QED  BY <2>1, <2>2, <2>3 DEF Step
<1>2. CASE \E s \in Sources : SyncSource(s)
  BY <1>0, <1>2 DEF TypeOK, SyncSource, stationVars
<1>3. CASE UNCHANGED vars
  BY <1>0, <1>3 DEF TypeOK, vars
<1>. QED  BY <1>1, <1>2, <1>3, StepsOfNext

--------------------------------------------------------------------------------
(* What a run works on at each statement.                                      *)

LEMMA WorkFitsKept ==
  ASSUME ImportInvariant, NEW p \in Proc, Step(p)
  PROVE  WorkFitsStep'
<1>. SUFFICES ASSUME NEW q \in Proc
     PROVE  /\ pc'[q] \in Importing => work'[q] \in StationWork
            /\ pc'[q] = "fetch" => work'[q] \in FetchWork
            /\ pc'[q] \in {"lookup", "source", "batch"} \union Storing
                  => work'[q] \in FileWork
            /\ pc'[q] = "commit" => work'[q] \in StationWork \union FileWork
            /\ pc'[q] = "idle" => work'[q] = NoWork
  BY DEF WorkFitsStep
<1>. USE DEF Importing, Storing, stationVars, priceVars
<1>0. TypeOK /\ WorkFitsStep
  BY DEF ImportInvariant
<1>1. CASE q # p
  BY <1>0, <1>1, OthersKeep DEF WorkFitsStep
<1>2. CASE q = p /\ StationStep(p)
  <2>1. CASE BeginStations(p)
    BY <1>0, <1>2, <2>1 DEF BeginStations, StationWork, TypeOK
  <2>2. CASE \/ CreateSnapshot(p) \/ ScanActive(p) \/ DeactivateRow(p)
             \/ LockOwnRow(p) \/ Activate(p)
    BY <1>0, <1>2, <2>2 DEF WorkFitsStep, TypeOK, CreateSnapshot, ScanActive,
                            DeactivateRow, LockOwnRow, Activate
  <2>3. CASE CollideStations(p) \/ CommitStations(p) \/ AbortStations(p)
    BY <1>0, <1>2, <2>3 DEF CollideStations, CommitStations, AbortStations, Finish, TypeOK
  <2>. QED  BY <1>2, <2>1, <2>2, <2>3 DEF StationStep
<1>3. CASE q = p /\ PriceStep(p)
  <2>1. CASE BeginManual(p) \/ LookUpRow(p) \/ FetchPrices(p)
    <3>1. work'[p] \in FileWork
      BY <1>0, <2>1, FileWorkMade DEF TypeOK
    <3>. QED  BY <1>0, <1>3, <2>1, <3>1 DEF BeginManual, LookUpRow, FetchPrices, TypeOK
  <2>2. CASE BeginRefresh(p)
    BY <1>0, <1>3, <2>2 DEF BeginRefresh, PriceWork, FetchWork, TypeOK
  <2>3. CASE \/ EnterImport(p) \/ LockStation(p) \/ LockItsSnapshot(p)
             \/ CreateBatch(p) \/ StoreRow(p) \/ SaveCounts(p)
    BY <1>0, <1>3, <2>3 DEF WorkFitsStep, TypeOK, EnterImport, LockStation,
         LockItsSnapshot, CreateBatch, StoreRow, SaveCounts, FirstStatement
  <2>4. CASE \/ RefuseFile(p) \/ RefuseImport(p) \/ CollideBatch(p)
             \/ CommitPrices(p) \/ AbortPrices(p)
    BY <1>0, <1>3, <2>4 DEF RefuseFile, RefuseImport, CollideBatch, CommitPrices,
         AbortPrices, FinishPrices, Finish, TypeOK
  <2>. QED  BY <1>3, <2>1, <2>2, <2>3, <2>4 DEF PriceStep
<1>. QED  BY <1>1, <1>2, <1>3 DEF Step

LEMMA FilesKept ==
  ASSUME ImportInvariant, NEW p \in Proc, Step(p)
  PROVE  FilesAreKnown'
<1>. SUFFICES ASSUME NEW q \in Proc, work'[q] \in FileWork
     PROVE  IF work'[q].source = Manual
            THEN \E file \in PriceFiles :
                    /\ work'[q].file.checksum = file.checksum
                    /\ work'[q].file.rows = Geographies(file.rows)
            ELSE work'[q].file \in Contents
  BY DEF FilesAreKnown, File
<1>. USE DEF File
<1>0. TypeOK /\ FilesAreKnown /\ WorkFitsStep
  BY DEF ImportInvariant
<1>1. CASE work'[q] = work[q]
  BY <1>0, <1>1 DEF FilesAreKnown
<1>2. CASE BeginManual(p) /\ q = p
  BY <1>0, <1>2, PriceImportsAssumption
     DEF BeginManual, PriceWork, TypeOK, ReviewedFile
<1>3. CASE LookUpRow(p) /\ q = p
  <2>1. work[p] \in FileWork
    BY <1>0, <1>3 DEF LookUpRow, WorkFitsStep
  <2>2. work'[p].file = work[p].file /\ work'[p].source = work[p].source
    BY <1>0, <1>3, <2>1 DEF LookUpRow, TypeOK, FileWork
  <2>. QED  BY <1>0, <1>3, <2>1, <2>2 DEF FilesAreKnown
<1>4. CASE FetchPrices(p) /\ q = p
  <2>1. work[p] \in FetchWork
    BY <1>0, <1>4 DEF FetchPrices, WorkFitsStep
  <2>2. work'[p].file \in Contents /\ work'[p].source = Automated
    BY <1>0, <1>4, <2>1 DEF FetchPrices, TypeOK, FetchWork
  <2>. QED  BY <1>4, <2>2 DEF Automated, Manual
<1>5. ASSUME q = p, work'[p] # work[p]
      PROVE  BeginManual(p) \/ LookUpRow(p) \/ FetchPrices(p)
  <2>1. work'[p] \notin StationWork \union FetchWork \union {NoWork}
    BY <1>5, NoBatchAssumption DEF FileWork, StationWork, FetchWork, NoWork
  <2>2. CASE StationStep(p)
    <3>1. CASE BeginStations(p)
      BY <1>0, <2>1, <3>1 DEF BeginStations, StationWork, TypeOK
    <3>2. CASE CollideStations(p) \/ CommitStations(p) \/ AbortStations(p)
      BY <1>0, <2>1, <3>2 DEF CollideStations, CommitStations, AbortStations, Finish,
                              TypeOK
    <3>. QED  BY <1>5, <2>2, <3>1, <3>2 DEF StationStep, CreateSnapshot, ScanActive,
                DeactivateRow, LockOwnRow, Activate
  <2>3. CASE PriceStep(p)
    <3>1. CASE BeginRefresh(p)
      BY <1>0, <2>1, <3>1 DEF BeginRefresh, PriceWork, FetchWork, TypeOK
    <3>2. ~Finish(p)
      BY <1>0, <2>1 DEF Finish, TypeOK
    <3>. QED  BY <1>5, <2>3, <3>1, <3>2 DEF PriceStep, EnterImport, LockStation,
                LockItsSnapshot, CreateBatch, StoreRow, SaveCounts, RefuseFile,
                RefuseImport, CollideBatch, CommitPrices, AbortPrices, FinishPrices,
                stationVars, priceVars
  <2>. QED  BY <2>2, <2>3 DEF Step
<1>6. CASE q # p
  BY <1>0, <1>1, <1>6, OthersKeep
<1>. QED  BY <1>1, <1>2, <1>3, <1>4, <1>5, <1>6

LEMMA FoundKept ==
  ASSUME ImportInvariant, NEW p \in Proc, Step(p)
  PROVE  RowsAreFound'
<1>. SUFFICES ASSUME NEW q \in Proc
     PROVE  /\ pc'[q] = "lookup" => Len(work'[q].found) < Len(work'[q].file.rows)
            /\ pc'[q] \in {"source", "batch"} \union Storing =>
                  Len(work'[q].found) = Len(work'[q].file.rows)
            /\ pc'[q] \in {"station", "snapshot"} =>
                  work'[q].found[Len(draftBatch'[q].rows) + 1] # NoVersion
  BY DEF RowsAreFound, File, At
<1>. USE DEF File, At, Storing, stationVars, priceVars
<1>0. TypeOK /\ RowsAreFound /\ WorkFitsStep
  BY DEF ImportInvariant
<1>1. CASE q # p
  <2>1. pc'[q] = pc[q] /\ work'[q] = work[q] /\ draftBatch'[q] = draftBatch[q]
    <3>. HIDE DEF File, At, Storing, stationVars, priceVars
    <3>. QED  BY <1>0, <1>1, OthersKeep
  <2>. QED  BY <1>0, <2>1 DEF RowsAreFound
<1>2. CASE q = p /\ StationStep(p)
  BY <1>0, <1>2 DEF StationStep, BeginStations, CreateSnapshot, ScanActive,
       DeactivateRow, LockOwnRow, Activate, CollideStations, CommitStations,
       AbortStations, Finish, TypeOK
<1>3. CASE q = p /\ BeginManual(p)
  <2>1. PICK file \in PriceFiles :
          /\ WellFormed(file.rows)
          /\ work' = [work EXCEPT ![p] = PriceWork(Manual,
                         [file EXCEPT !.rows = Geographies(file.rows)])]
    BY <1>3 DEF BeginManual
  <2>2. file \in ReviewedFile /\ file.rows \in Seq(ReviewedRow) /\ file.rows # <<>>
    BY <2>1, PriceImportsAssumption DEF ReviewedFile, WellFormed
  <2>3. DOMAIN file.rows = 1..Len(file.rows) /\ Len(file.rows) \in Nat \ {0}
    BY <2>2
  <2>4. Len(Geographies(file.rows)) = Len(file.rows)
    BY <2>3 DEF Geographies
  <2>5. /\ work'[p].found = <<>>
        /\ work'[p].file.rows = Geographies(file.rows)
    BY <1>0, <2>1, <2>2 DEF PriceWork, TypeOK, ReviewedFile
  <2>6. pc'[p] = "lookup"
    BY <1>0, <1>3 DEF BeginManual, TypeOK
  <2>. QED  BY <1>3, <2>3, <2>4, <2>5, <2>6
<1>4. CASE q = p /\ LookUpRow(p)
  <2>1. PICK v : work' = [work EXCEPT ![p].found = Append(@, v)]
    BY <1>4 DEF LookUpRow
  <2>2. work[p] \in FileWork /\ Len(work[p].found) < Len(work[p].file.rows)
    BY <1>0, <1>4 DEF LookUpRow, WorkFitsStep, RowsAreFound
  <2>3. work'[p].found = Append(work[p].found, v) /\ work'[p].file = work[p].file
    BY <1>0, <2>1, <2>2 DEF TypeOK, FileWork
  <2>4. Len(work[p].found) \in Nat /\ Len(work[p].file.rows) \in Nat
    BY <2>2, FileWorkFits
  <2>5. Len(work'[p].found) = Len(work[p].found) + 1
    BY <2>2, <2>3, FileWorkFits
  <2>6. pc'[p] = IF Len(work[p].found) + 1 = Len(work[p].file.rows)
                 THEN "batch" ELSE "lookup"
    BY <1>0, <1>4 DEF LookUpRow, TypeOK
  <2>. QED  BY <1>4, <2>2, <2>3, <2>4, <2>5, <2>6
<1>5. CASE q = p /\ FetchPrices(p)
  <2>1. PICK content \in Contents :
          work' = [work EXCEPT ![p].file = content,
                               ![p].found = [i \in DOMAIN content.rows |-> NoVersion]]
    BY <1>5 DEF FetchPrices
  <2>2. DOMAIN content.rows = 1..Len(content.rows) /\ Len(content.rows) \in Nat
    BY PriceImportsAssumption DEF PriceFile
  <2>3. work[p] \in FetchWork
    BY <1>0, <1>5 DEF FetchPrices, WorkFitsStep
  <2>4. /\ work'[p].found = [i \in DOMAIN content.rows |-> NoVersion]
        /\ work'[p].file.rows = content.rows
    BY <1>0, <2>1, <2>3 DEF TypeOK, FetchWork
  <2>5. pc'[p] = "source"
    BY <1>0, <1>5 DEF FetchPrices, TypeOK
  <2>. QED  BY <1>5, <2>2, <2>4, <2>5
<1>6. CASE q = p /\ (EnterImport(p) \/ LockStation(p) \/ LockItsSnapshot(p))
  BY <1>0, <1>6 DEF RowsAreFound, EnterImport, LockStation, LockItsSnapshot, TypeOK
<1>7. CASE q = p /\ CreateBatch(p)
  <2>1. draftBatch'[p].rows = <<>>
    BY <1>0, <1>7 DEF CreateBatch, TypeOK
  <2>2. pc'[p] = FirstStatement(p, 1) /\ work' = work
    BY <1>0, <1>7 DEF CreateBatch, TypeOK
  <2>. QED  BY <1>0, <1>7, <2>1, <2>2 DEF FirstStatement, RowsAreFound, CreateBatch
<1>8. CASE q = p /\ StoreRow(p)
  <2>1. Len(draftBatch'[p].rows) = Len(draftBatch[p].rows) + 1
    <3>1. draftBatch[p] \in Batch
      BY <1>8, NextRow DEF StoreRow
    <3>2. \E row : draftBatch' = [draftBatch EXCEPT ![p].rows = Append(@, row)]
      BY <1>8 DEF StoreRow
    <3>. QED  BY <1>0, <3>1, <3>2 DEF TypeOK, Batch
  <2>2. pc'[p] = FirstStatement(p, Len(draftBatch[p].rows) + 2) /\ work' = work
    BY <1>0, <1>8, NextRow DEF StoreRow, TypeOK
  <2>3. Len(draftBatch[p].rows) \in Nat
    BY <1>8, NextRow DEF StoreRow
  <2>. QED  BY <1>0, <1>8, <2>1, <2>2, <2>3 DEF FirstStatement, RowsAreFound, StoreRow
<1>9. CASE q = p /\ (BeginRefresh(p) \/ SaveCounts(p))
  BY <1>0, <1>9 DEF RowsAreFound, BeginRefresh, SaveCounts, TypeOK
<1>10. CASE q = p /\ (\/ RefuseFile(p) \/ RefuseImport(p) \/ CollideBatch(p)
                      \/ CommitPrices(p) \/ AbortPrices(p))
  BY <1>0, <1>10 DEF RefuseFile, RefuseImport, CollideBatch, CommitPrices,
       AbortPrices, FinishPrices, Finish, TypeOK
<1>. QED  BY <1>1, <1>2, <1>3, <1>4, <1>5, <1>6, <1>7, <1>8, <1>9, <1>10
          DEF Step, PriceStep

--------------------------------------------------------------------------------
(* Batches and the source's lock.                                              *)

\* The batch of a run is filled row by row, from its file.
LEMMA DraftBatchesKept ==
  ASSUME ImportInvariant, NEW p \in Proc, Step(p)
  PROVE  BatchFitsStep'
<1>. DEFINE Fits(step, job, b) ==
       /\ step \in Storing => b # NoBatch
       /\ b # NoBatch =>
             /\ step \in Storing \union {"commit"}
             /\ job \in FileWork
             /\ b.count = Len(job.file.rows)
             /\ \A i \in DOMAIN b.rows : b.rows[i].place = job.file.rows[i]
             /\ IF step \in {"counts", "commit"} THEN Len(b.rows) = Len(job.file.rows)
                                                 ELSE Len(b.rows) < Len(job.file.rows)
             /\ step = "commit" => \A state \in Verdicts :
                                      b.counts[state] = CountOf(b.rows, state)
<1>a. \A q \in Proc : Fits(pc[q], work[q], draftBatch[q])
  BY DEF ImportInvariant, BatchFitsStep, File
<1>. SUFFICES ASSUME NEW q \in Proc
     PROVE  Fits(pc'[q], work'[q], draftBatch'[q])
  BY DEF BatchFitsStep, File
<1>. USE DEF Storing, stationVars, priceVars
<1>0. TypeOK /\ WorkFitsStep
  BY DEF ImportInvariant
<1>1. CASE q # p
  <2>1. pc'[q] = pc[q] /\ work'[q] = work[q] /\ draftBatch'[q] = draftBatch[q]
    <3>. HIDE DEF Fits, Storing, stationVars, priceVars
    <3>. QED  BY <1>0, <1>1, OthersKeep
  <2>. HIDE DEF Fits
  <2>. QED  BY <1>a, <2>1
<1>2. CASE q = p /\ pc'[p] \notin Storing /\ draftBatch'[p] = NoBatch
  BY <1>2
<1>3. CASE q = p /\ StationStep(p) /\ UNCHANGED priceVars
  <2>1. pc'[p] \notin Storing
    BY <1>0, <1>3 DEF StationStep, BeginStations, CreateSnapshot, ScanActive,
         DeactivateRow, LockOwnRow, Activate, CollideStations, CommitStations,
         AbortStations, Finish, TypeOK
  <2>2. pc[p] = "idle" \/ work[p] \in StationWork
    BY <1>0, <1>3, StationWorkFits, FileWorkFits
       DEF StationStep, BeginStations, CreateSnapshot, ScanActive, DeactivateRow,
           LockOwnRow, Activate, CollideStations, CommitStations, AbortStations,
           WorkFitsStep, Importing, TypeOK, FetchWork
  <2>3. draftBatch[p] = NoBatch
    BY <1>a, <2>2, StationWorkFits
  <2>. QED  BY <1>2, <1>3, <2>1, <2>3
<1>4. CASE q = p /\ (\/ BeginManual(p) \/ LookUpRow(p) \/ BeginRefresh(p)
                     \/ FetchPrices(p) \/ EnterImport(p))
  <2>1. draftBatch'[p] = draftBatch[p] /\ pc[p] \notin Storing \union {"commit"}
    BY <1>4 DEF BeginManual, LookUpRow, BeginRefresh, FetchPrices, EnterImport
  <2>2. pc'[p] \notin Storing
    BY <1>0, <1>4 DEF BeginManual, LookUpRow, BeginRefresh, FetchPrices, EnterImport,
                      TypeOK
  <2>. QED  BY <1>a, <1>2, <1>4, <2>1, <2>2
<1>5. CASE q = p /\ CreateBatch(p)
  <2>1. work[p] \in FileWork /\ work' = work
    BY <1>0, <1>5 DEF CreateBatch, WorkFitsStep
  <2>2. Len(File(p).rows) \in Nat
    BY <2>1, FileWorkFits
  <2>3. /\ draftBatch'[p].rows = <<>>
        /\ draftBatch'[p].count = Len(File(p).rows)
    BY <1>0, <1>5 DEF CreateBatch, TypeOK
  <2>4. draftBatch'[p] # NoBatch
    <3>1. draftBatch'[p] = [count |-> Len(File(p).rows),
                            counts |-> [s \in Verdicts |-> 0], rows |-> <<>>]
      BY <1>0, <1>5 DEF CreateBatch, TypeOK
    <3>2. draftBatch'[p] \in Batch
      BY <2>2, <3>1 DEF Batch
    <3>. QED  BY <3>2, NoBatchAssumption
  <2>5. pc'[p] = IF 1 > Len(File(p).rows) THEN "counts"
                 ELSE IF work[p].found[1] = NoVersion THEN "store" ELSE "station"
    BY <1>0, <1>5 DEF CreateBatch, TypeOK, FirstStatement
  <2>. QED  BY <1>5, <2>1, <2>2, <2>3, <2>4, <2>5 DEF File
<1>6. CASE q = p /\ (LockStation(p) \/ LockItsSnapshot(p))
  BY <1>0, <1>6, <1>a DEF LockStation, LockItsSnapshot, TypeOK
<1>7. CASE q = p /\ StoreRow(p)
  <2>. DEFINE n == Len(draftBatch[p].rows)
              all == File(p).rows
  <2>1. PICK row, b :
          /\ draftBatch' = [draftBatch EXCEPT ![p] = b]
          /\ b \in Batch /\ b.rows = Append(draftBatch[p].rows, row)
          /\ b.count = draftBatch[p].count /\ row.place = all[At(p)]
    BY <1>7, RowStored
  <2>2. draftBatch[p] \in Batch /\ n \in Nat /\ Len(all) \in Nat /\ n < Len(all)
    BY <1>7, NextRow DEF StoreRow
  <2>3. /\ draftBatch'[p].rows = Append(draftBatch[p].rows, row)
        /\ draftBatch'[p].count = draftBatch[p].count
        /\ draftBatch'[p] # NoBatch
    BY <1>0, <2>1, NoBatchAssumption DEF TypeOK
  <2>4. draftBatch[p].rows \in Seq([place: Geography,
                                    version: Versions \union {NoVersion},
                                    state: Verdicts])
    BY <2>2 DEF Batch
  <2>5. /\ Len(draftBatch'[p].rows) = n + 1
        /\ DOMAIN draftBatch'[p].rows = 1..(n + 1)
        /\ \A i \in 1..n : draftBatch'[p].rows[i] = draftBatch[p].rows[i]
        /\ draftBatch'[p].rows[n + 1] = row
    BY <2>3, <2>4
  <2>6. \A i \in 1..(n + 1) : draftBatch'[p].rows[i].place = all[i]
    <3>1. At(p) = n + 1
      BY DEF At
    <3>2. DOMAIN draftBatch[p].rows = 1..n
      BY <2>4
    <3>3. \A i \in 1..n : draftBatch[p].rows[i].place = all[i]
      BY <1>7, <1>a, <2>2, <3>2, NoBatchAssumption DEF File
    <3>4. \A i \in 1..(n + 1) : i \in 1..n \/ i = n + 1
      BY <2>2
    <3>. HIDE DEF n, all
    <3>. QED  BY <2>1, <2>5, <3>1, <3>3, <3>4
  <2>7. pc'[p] = IF n + 2 > Len(all) THEN "counts"
                 ELSE IF work[p].found[n + 2] = NoVersion THEN "store" ELSE "station"
    BY <1>0, <1>7, <2>2 DEF StoreRow, TypeOK, FirstStatement, At
  <2>8. /\ work[p] \in FileWork /\ work' = work
        /\ draftBatch'[p].count = Len(all)
    BY <1>7, <1>a, <1>0, <2>2, <2>3, NoBatchAssumption DEF StoreRow, WorkFitsStep, File
  <2>9. /\ pc'[p] \in Storing /\ pc'[p] # "commit"
        /\ IF pc'[p] = "counts" THEN n + 1 = Len(all) ELSE n + 1 < Len(all)
    BY <2>2, <2>7
  <2>10. work'[p].file.rows = all
    BY <2>8 DEF File
  <2>. HIDE DEF n, all
  <2>. QED  BY <1>7, <2>3, <2>5, <2>6, <2>8, <2>9, <2>10
<1>8. CASE q = p /\ SaveCounts(p)
  <2>1. draftBatch[p] \in Batch /\ draftBatch[p] # NoBatch
    BY <1>0, <1>8, <1>a DEF SaveCounts, TypeOK
  <2>2. /\ draftBatch'[p].rows = draftBatch[p].rows
        /\ draftBatch'[p].count = draftBatch[p].count
        /\ \A s \in Verdicts : draftBatch'[p].counts[s] = CountOf(draftBatch[p].rows, s)
    BY <1>0, <1>8, <2>1 DEF SaveCounts, TypeOK, Batch
  <2>3. pc'[p] = "commit" /\ work' = work
    BY <1>0, <1>8 DEF SaveCounts, TypeOK
  <2>. QED  BY <1>8, <1>a, <2>1, <2>2, <2>3 DEF SaveCounts
<1>9. CASE q = p /\ (\/ RefuseFile(p) \/ RefuseImport(p) \/ CollideBatch(p)
                     \/ CommitPrices(p) \/ AbortPrices(p))
  BY <1>0, <1>2, <1>9 DEF RefuseFile, RefuseImport, CollideBatch, CommitPrices,
       AbortPrices, FinishPrices, Finish, TypeOK
<1>. QED  BY <1>1, <1>3, <1>4, <1>5, <1>6, <1>7, <1>8, <1>9 DEF Step, PriceStep

\* Two refreshes never store at once.
LEMMA SourceKept ==
  ASSUME ImportInvariant, NEW p \in Proc, Step(p)
  PROVE  RefreshHoldsSource'
<1>. DEFINE key == <<"source", Automated>>
<1>. USE DEF Storing, stationVars, priceVars
<1>0. TypeOK /\ WorkFitsStep /\ RefreshHoldsSource /\ key \in LockKey
  BY DEF ImportInvariant, LockKey, Automated
<1>. SUFFICES ASSUME NEW q \in Proc, work'[q] \in FileWork, work'[q].source = Automated
     PROVE  /\ pc'[q] # "lookup"
            /\ pc'[q] \in {"batch", "commit"} \union Storing => lock'[key] = q
            /\ pc'[q] = "batch" =>
                  batch'[<<work'[q].source, work'[q].file.checksum>>] = NoBatch
  BY DEF RefreshHoldsSource, BatchKey, File
<1>1. CASE q # p
  <2>1. /\ pc'[q] = pc[q] /\ work'[q] = work[q]
        /\ work[q] \in FileWork /\ work[q].source = Automated
    BY <1>0, <1>1, OthersKeep
  <2>2. pc'[q] \in {"batch", "commit"} \union Storing => lock[key] = q /\ lock'[key] = q
    BY <1>0, <2>1, LocksKept DEF RefreshHoldsSource
  <2>3. ASSUME pc[q] = "batch", CommitPrices(p), draftBatch[p] # NoBatch
        PROVE  BatchKey(p) # BatchKey(q)
    <3>1. work[p] \in FileWork /\ pc[p] = "commit"
      BY <2>3 DEF ImportInvariant, BatchFitsStep, CommitPrices
    <3>2. work[p].source # Automated
      BY <1>0, <1>1, <2>1, <2>2, <2>3, <3>1 DEF RefreshHoldsSource
    <3>. QED  BY <2>1, <3>2 DEF BatchKey
  <2>4. pc[q] = "batch" => batch[BatchKey(q)] = NoBatch /\ BatchKey(q) \in BatchKeys
    BY <1>0, <2>1, FileWorkFits DEF RefreshHoldsSource
  <2>5. pc[q] = "batch" => batch'[BatchKey(q)] = NoBatch
    BY <1>0, <2>3, <2>4, BatchesChange DEF CommitPrices, WithDraft, TypeOK
  <2>. QED  BY <1>0, <2>1, <2>2, <2>5 DEF RefreshHoldsSource, BatchKey, File
<1>2. CASE q = p /\ StationStep(p)
  <2>1. work'[p] = work[p]
    BY <1>0, <1>2, StationWorkFits, NoBatchAssumption
       DEF StationStep, BeginStations, CreateSnapshot, ScanActive, DeactivateRow,
           LockOwnRow, Activate, CollideStations, CommitStations, AbortStations,
           Finish, TypeOK, StationWork, FileWork, NoWork
  <2>2. pc[p] \notin Importing /\ ~CommitStations(p) /\ ~AbortStations(p) /\ pc[p] # "idle"
    BY <1>0, <1>2, <2>1, FileWorkFits DEF WorkFitsStep, CommitStations, AbortStations
  <2>. QED  BY <1>2, <2>2 DEF StationStep, BeginStations, CreateSnapshot, ScanActive,
              DeactivateRow, LockOwnRow, Activate, CollideStations, Importing
<1>3. CASE q = p /\ PriceStep(p)
  <2>1. CASE BeginManual(p)
    BY <1>0, <1>3, <2>1 DEF BeginManual, PriceWork, TypeOK, Manual, Automated
  <2>2. CASE LookUpRow(p)
    <3>1. work[p] \in FileWork
      BY <1>0, <2>2 DEF LookUpRow, WorkFitsStep
    <3>2. work'[p].source = work[p].source
      BY <1>0, <2>2, <3>1 DEF LookUpRow, TypeOK, FileWork
    <3>. QED  BY <1>0, <1>3, <2>2, <3>1, <3>2 DEF LookUpRow, RefreshHoldsSource
  <2>3. CASE BeginRefresh(p) \/ FetchPrices(p)
    BY <1>0, <1>3, <2>3 DEF BeginRefresh, FetchPrices, TypeOK
  <2>4. CASE EnterImport(p)
    BY <1>0, <1>3, <2>4 DEF EnterImport, LockSource, Acquire, TypeOK, BatchKey, File
  <2>5. CASE CreateBatch(p) \/ StoreRow(p) \/ SaveCounts(p)
    BY <1>0, <1>3, <2>5 DEF CreateBatch, StoreRow, SaveCounts, TypeOK, FirstStatement,
                            RefreshHoldsSource
  <2>6. CASE LockStation(p) \/ LockItsSnapshot(p)
    <3>1. lock[key] = p /\ work' = work /\ pc'[p] \in {"snapshot", "store"}
      BY <1>0, <1>3, <2>6 DEF LockStation, LockItsSnapshot, RefreshHoldsSource, TypeOK
    <3>. QED  BY <1>0, <1>3, <3>1, LocksKept
  <2>7. CASE \/ RefuseFile(p) \/ RefuseImport(p) \/ CollideBatch(p)
             \/ CommitPrices(p) \/ AbortPrices(p)
    BY <1>0, <1>3, <2>7 DEF RefuseFile, RefuseImport, CollideBatch, CommitPrices,
         AbortPrices, FinishPrices, Finish, TypeOK
  <2>. QED  BY <1>3, <2>1, <2>2, <2>3, <2>4, <2>5, <2>6, <2>7 DEF PriceStep
<1>. QED  BY <1>1, <1>2, <1>3 DEF Step

\* A batch that is whole stays so.
LEMMA WholeStays ==
  ASSUME BatchIsWhole, UNCHANGED batch
  PROVE  BatchIsWhole'
<1>. DEFINE Whole(source, c, b) ==
              LET places == [i \in DOMAIN b.rows |-> b.rows[i].place]
              IN  /\ IF source = Manual
                     THEN \E file \in PriceFiles :
                             file.checksum = c /\ places = Geographies(file.rows)
                     ELSE \E file \in Contents : file.checksum = c /\ places = file.rows
                  /\ b.count = Len(b.rows)
                  /\ \A state \in Verdicts : b.counts[state] = CountOf(b.rows, state)
<1>1. \A source \in Sources, c \in Checksums :
         batch[<<source, c>>] # NoBatch => Whole(source, c, batch[<<source, c>>])
  BY DEF BatchIsWhole
<1>2. SUFFICES \A source \in Sources, c \in Checksums :
         batch'[<<source, c>>] # NoBatch => Whole(source, c, batch'[<<source, c>>])
  BY DEF BatchIsWhole
<1>. HIDE DEF Whole
<1>. QED  BY <1>1

\* What a commit adds is whole.
LEMMA WholeKept ==
  ASSUME ImportInvariant, NEW p \in Proc, Step(p)
  PROVE  BatchIsWhole'
<1>. DEFINE PlacesOf(b) == [i \in DOMAIN b.rows |-> b.rows[i].place]
            Whole(source, c, b) ==
              /\ IF source = Manual
                 THEN \E file \in PriceFiles :
                         file.checksum = c /\ PlacesOf(b) = Geographies(file.rows)
                 ELSE \E file \in Contents : file.checksum = c /\ PlacesOf(b) = file.rows
              /\ b.count = Len(b.rows)
              /\ \A state \in Verdicts : b.counts[state] = CountOf(b.rows, state)
<1>0. /\ TypeOK
      /\ \A source \in Sources, c \in Checksums :
            batch[<<source, c>>] # NoBatch => Whole(source, c, batch[<<source, c>>])
  BY DEF ImportInvariant, BatchIsWhole
<1>. SUFFICES ASSUME NEW source \in Sources, NEW c \in Checksums,
                     batch'[<<source, c>>] # NoBatch
     PROVE  Whole(source, c, batch'[<<source, c>>])
  BY DEF BatchIsWhole
<1>1. CASE batch'[<<source, c>>] = batch[<<source, c>>]
  <2>. HIDE DEF Whole
  <2>. QED  BY <1>0, <1>1
<1>2. CASE batch'[<<source, c>>] # batch[<<source, c>>]
  <2>. DEFINE b == draftBatch[p]
              all == File(p).rows
  <2>0. CommitPrices(p)
    BY <1>2, BatchesChange
  <2>1. b # NoBatch /\ b \in Batch /\ batch' = [batch EXCEPT ![BatchKey(p)] = b]
    BY <1>0, <1>2, <2>0 DEF CommitPrices, WithDraft, TypeOK
  <2>2. /\ work[p] \in FileWork /\ b.count = Len(all) /\ Len(b.rows) = Len(all)
        /\ \A i \in DOMAIN b.rows : b.rows[i].place = all[i]
        /\ \A state \in Verdicts : b.counts[state] = CountOf(b.rows, state)
    BY <2>0, <2>1 DEF ImportInvariant, BatchFitsStep, CommitPrices
  <2>3. PlacesOf(b) = all
    <3>1. all \in Seq(Geography)
      BY <2>2, FileWorkFits
    <3>2. DOMAIN b.rows = 1..Len(b.rows)
      BY <2>1 DEF Batch
    <3>3. all = [i \in 1..Len(all) |-> all[i]]
      BY <3>1
    <3>. HIDE DEF all, b
    <3>. QED  BY <2>2, <3>2, <3>3
  <2>4. /\ source = work[p].source /\ c = File(p).checksum
        /\ batch'[<<source, c>>] = b
    <3>1. \A k \in BatchKeys : batch'[k] = IF k = BatchKey(p) THEN b ELSE batch[k]
      BY <1>0, <2>1 DEF TypeOK
    <3>2. <<source, c>> \in BatchKeys
      BY DEF BatchKeys
    <3>3. <<source, c>> = BatchKey(p) /\ batch'[<<source, c>>] = b
      BY <1>2, <3>1, <3>2
    <3>. QED  BY <3>3 DEF BatchKey
  <2>5. Whole(source, c, b)
    BY <2>2, <2>3, <2>4 DEF ImportInvariant, FilesAreKnown, File
  <2>. HIDE DEF Whole, b
  <2>. QED  BY <2>4, <2>5
<1>. QED  BY <1>1, <1>2

--------------------------------------------------------------------------------
(* Snapshots: what a run has drafted, and the rows it holds.                   *)

\* A row another run has locked is not changed.
LEMMA LockedRowKept ==
  ASSUME ImportInvariant, NEW p \in Proc, Step(p), NEW q \in Proc \ {p},
         NEW v \in Versions, lock[<<"snapshot", v>>] = q
  PROVE  snapshot'[v] = snapshot[v]
<1>1. draft[p][v] = NoSnapshot
  BY DEF ImportInvariant, RowsAreLocked
<1>2. snapshot \in [Versions -> Row \union {NoSnapshot}]
  BY DEF ImportInvariant, TypeOK
<1>3. CASE CommitStations(p)
  BY <1>1, <1>3 DEF CommitStations, Published, Seen
<1>. QED  BY <1>3, SnapshotsChange

\* No snapshot is ever deleted.
LEMMA RowsStay ==
  ASSUME ImportInvariant, NEW p \in Proc, Step(p), NEW v \in Versions,
         snapshot[v] # NoSnapshot
  PROVE  snapshot'[v] # NoSnapshot
BY SnapshotsChange DEF ImportInvariant, TypeOK, CommitStations, Published, Seen

\* A run of a price import, and one that is idle, has drafted nothing.
LEMMA NoDraftsOfPrices ==
  ASSUME ImportInvariant, NEW p \in Proc, work[p] \notin StationWork
  PROVE  draft[p] = NothingDrafted /\ scanned[p] = {}
<1>1. \A v \in Versions : draft[p][v] = NoSnapshot /\ v \notin scanned[p]
  BY DEF ImportInvariant, DraftsFitStep
<1>2. draft[p] \in [Versions -> Row \union {NoSnapshot}] /\ scanned[p] \subseteq Versions
  BY DEF ImportInvariant, TypeOK
<1>. QED  BY <1>1, <1>2 DEF NothingDrafted

\* A step of a price import is of a run without station work.
LEMMA PricesHaveNoDrafts ==
  ASSUME ImportInvariant, NEW p \in Proc, PriceStep(p)
  PROVE  /\ work[p] \notin StationWork /\ work'[p] \notin StationWork
         /\ draft[p] = NothingDrafted /\ scanned[p] = {}
         /\ draft'[p] = NothingDrafted /\ scanned'[p] = {}
<1>0. TypeOK /\ WorkFitsStep
  BY DEF ImportInvariant
<1>1. pc[p] \in {"lookup", "source", "batch"} \union Storing => work[p] \in FileWork
  BY <1>0 DEF WorkFitsStep
<1>2. work[p] \notin StationWork
  <2>1. CASE pc[p] = "idle" \/ pc[p] = "fetch"
    BY <1>0, <2>1, StationWorkFits DEF WorkFitsStep
  <2>2. CASE pc[p] \in {"lookup", "source", "batch"} \union Storing
    BY <1>1, <2>2, FileWorkFits
  <2>3. CASE work[p].kind = "prices"
    BY <2>3, StationWorkFits
  <2>. QED  BY <2>1, <2>2, <2>3 DEF PriceStep, BeginManual, LookUpRow, RefuseFile,
              BeginRefresh, FetchPrices, EnterImport, RefuseImport, CreateBatch,
              CollideBatch, LockStation, LockItsSnapshot, StoreRow, SaveCounts,
              CommitPrices, AbortPrices, Storing
<1>3. draft[p] = NothingDrafted /\ scanned[p] = {}
  BY <1>2, NoDraftsOfPrices
<1>4. draft'[p] = NothingDrafted /\ scanned'[p] = {}
  BY <1>0, <1>3, PricesLeaveStations DEF Finish, TypeOK
<1>5. work'[p] \notin StationWork
  <2>1. CASE BeginManual(p) \/ LookUpRow(p) \/ FetchPrices(p)
    <3>1. work'[p] \in FileWork
      BY <1>0, <2>1, FileWorkMade DEF TypeOK
    <3>. QED  BY <3>1 DEF FileWork, StationWork
  <2>2. CASE BeginRefresh(p)
    BY <1>0, <2>2 DEF BeginRefresh, PriceWork, StationWork, TypeOK
  <2>3. CASE Finish(p)
    BY <1>0, <2>3 DEF Finish, TypeOK, NoWork, StationWork
  <2>4. CASE work' = work
    BY <1>2, <2>4
  <2>. QED  BY <2>1, <2>2, <2>3, <2>4 DEF PriceStep, EnterImport, RefuseFile,
              RefuseImport, CreateBatch, CollideBatch, LockStation, LockItsSnapshot,
              StoreRow, SaveCounts, CommitPrices, AbortPrices, FinishPrices, stationVars,
              priceVars
<1>. QED  BY <1>2, <1>3, <1>4, <1>5

LEMMA LocksFit ==
  ASSUME ImportInvariant, NEW p \in Proc, Step(p)
  PROVE  RowsAreLocked'
<1>0. TypeOK /\ RowsAreLocked /\ DraftsFitStep /\ WorkFitsStep
  BY DEF ImportInvariant
<1>k. \A v \in Versions : <<"snapshot", v>> \in LockKey
  BY DEF LockKey
<1>. SUFFICES ASSUME NEW q \in Proc
     PROVE  /\ \A v \in Versions : draft'[q][v] # NoSnapshot => lock'[<<"snapshot", v>>] = q
            /\ pc'[q] \in {"activate", "commit"} /\ work'[q] \in StationWork =>
                  lock'[<<"snapshot", work'[q].file.version>>] = q
  BY DEF RowsAreLocked, Own
<1>1. CASE q # p
  <2>1. /\ pc'[q] = pc[q] /\ work'[q] = work[q] /\ draft'[q] = draft[q]
    BY <1>0, <1>1, OthersKeep
  <2>2. ASSUME NEW v \in Versions, draft[q][v] # NoSnapshot
        PROVE  lock'[<<"snapshot", v>>] = q
    <3>1. pc[q] # "idle"
      BY <1>0, <2>2 DEF DraftsFitStep, NothingDrafted
    <3>2. lock[<<"snapshot", v>>] = q
      BY <1>0, <2>2 DEF RowsAreLocked
    <3>. QED  BY <1>0, <1>k, <2>1, <3>1, <3>2, LocksKept
  <2>3. ASSUME pc[q] \in {"activate", "commit"}, work[q] \in StationWork
        PROVE  lock'[<<"snapshot", Own(q)>>] = q
    <3>1. lock[<<"snapshot", Own(q)>>] = q /\ <<"snapshot", Own(q)>> \in LockKey
      BY <1>0, <2>3, StationWorkFits DEF RowsAreLocked
    <3>. QED  BY <1>0, <2>1, <2>3, <3>1, LocksKept
  <2>. QED  BY <2>1, <2>2, <2>3 DEF Own
<1>2. CASE q = p /\ PriceStep(p)
  BY <1>2, PricesHaveNoDrafts DEF NothingDrafted
<1>3. CASE q = p /\ StationStep(p) /\ pc'[p] = "idle" /\ draft'[p] = NothingDrafted
  BY <1>3 DEF NothingDrafted
<1>4. CASE q = p /\ StationStep(p) /\ pc'[p] # "idle"
  <2>1. ASSUME NEW v \in Versions, draft[p][v] # NoSnapshot
        PROVE  lock'[<<"snapshot", v>>] = p
    BY <1>0, <1>4, <1>k, <2>1, LocksKept DEF RowsAreLocked
  <2>2. CASE BeginStations(p) \/ ScanActive(p)
    BY <1>0, <1>4, <2>1, <2>2 DEF BeginStations, ScanActive, stationVars, TypeOK
  <2>3. CASE CreateSnapshot(p)
    <3>1. Own(p) \in Versions /\ work' = work
      BY <1>0, <2>3, StationWorkFits DEF CreateSnapshot, WorkFitsStep, Importing
    <3>2. lock'[<<"snapshot", Own(p)>>] = p
      BY <1>0, <1>k, <2>3, <3>1 DEF CreateSnapshot, Acquire, TypeOK
    <3>3. \A v \in Versions : v # Own(p) => draft'[p][v] = draft[p][v]
      BY <1>0, <2>3 DEF CreateSnapshot, TypeOK
    <3>. QED  BY <1>4, <2>1, <3>1, <3>2, <3>3 DEF Own
  <2>4. CASE DeactivateRow(p)
    <3>1. PICK v \in scanned[p] :
            /\ Acquire(<<"snapshot", v>>, p)
            /\ \/ draft' = draft
               \/ \E row : draft' = [draft EXCEPT ![p][v] = row]
      BY <2>4 DEF DeactivateRow
    <3>2. v \in Versions
      BY <1>0, <3>1 DEF TypeOK
    <3>3. lock'[<<"snapshot", v>>] = p
      BY <1>0, <1>k, <3>1, <3>2 DEF Acquire, TypeOK
    <3>4. \A w \in Versions : w # v => draft'[p][w] = draft[p][w]
      BY <1>0, <3>1, <3>2 DEF TypeOK
    <3>5. pc'[p] = "deactivate"
      BY <2>4 DEF DeactivateRow
    <3>. QED  BY <1>4, <2>1, <3>2, <3>3, <3>4, <3>5
  <2>5. CASE LockOwnRow(p)
    <3>1. Own(p) \in Versions /\ work' = work /\ draft' = draft
      BY <1>0, <2>5, StationWorkFits DEF LockOwnRow, WorkFitsStep, Importing, stationVars
    <3>2. lock'[<<"snapshot", Own(p)>>] = p
      BY <1>0, <1>k, <2>5, <3>1 DEF LockOwnRow, Acquire, TypeOK
    <3>. QED  BY <1>4, <2>1, <3>1, <3>2 DEF Own
  <2>6. CASE Activate(p)
    <3>1. /\ Own(p) \in Versions /\ work' = work /\ lock' = lock
          /\ lock[<<"snapshot", Own(p)>>] = p
      BY <1>0, <2>6, StationWorkFits DEF Activate, WorkFitsStep, Importing, RowsAreLocked
    <3>2. \A v \in Versions : v # Own(p) => draft'[p][v] = draft[p][v]
      BY <1>0, <2>6 DEF Activate, TypeOK
    <3>. QED  BY <1>4, <2>1, <3>1, <3>2 DEF Own
  <2>7. ~Finish(p)
    BY <1>0, <1>4 DEF Finish, TypeOK
  <2>. QED  BY <1>4, <2>2, <2>3, <2>4, <2>5, <2>6, <2>7 DEF StationStep,
              CollideStations, CommitStations, AbortStations
<1>5. ASSUME q = p, StationStep(p), pc'[p] = "idle" PROVE draft'[p] = NothingDrafted
  BY <1>0, <1>5 DEF StationStep, BeginStations, CreateSnapshot, ScanActive, DeactivateRow,
       LockOwnRow, Activate, CollideStations, CommitStations, AbortStations, Finish,
       TypeOK
<1>. QED  BY <1>1, <1>2, <1>3, <1>4, <1>5 DEF Step

LEMMA DraftsFit ==
  ASSUME ImportInvariant, NEW p \in Proc, Step(p)
  PROVE  DraftsFitStep'
<1>. DEFINE Own2(q) == work'[q].file.version
<1>0. TypeOK /\ RowsAreLocked /\ DraftsFitStep /\ WorkFitsStep
  BY DEF ImportInvariant
<1>. SUFFICES ASSUME NEW q \in Proc
     PROVE  /\ pc'[q] \in {"idle", "create"} => draft'[q] = NothingDrafted
            /\ pc'[q] \in Importing \ {"create"} => Seen(q, Own(q))' # NoSnapshot
            /\ \A v \in Versions :
                  draft'[q][v] # NoSnapshot \/ v \in scanned'[q] =>
                      work'[q] \in StationWork /\ MarketOf[v] = MarketOf[Own2(q)]
            /\ \A v \in Versions :
                  IsActive(draft'[q][v]) => pc'[q] = "commit" /\ v = Own2(q)
            /\ pc'[q] = "commit" /\ work'[q] \in StationWork =>
                  \/ IsActive(draft'[q][Own2(q)])
                  \/ /\ snapshot'[Own2(q)] = NoSnapshot
                     /\ \A v \in Versions : draft'[q][v] # NoSnapshot => v = Own2(q)
  BY DEF DraftsFitStep, Own
<1>1. CASE q # p
  <2>1. /\ pc'[q] = pc[q] /\ work'[q] = work[q] /\ Own2(q) = Own(q)
        /\ draft'[q] = draft[q] /\ scanned'[q] = scanned[q]
    BY <1>0, <1>1, OthersKeep DEF Own
  <2>2. ASSUME pc[q] \in Importing \ {"create"}
        PROVE  Seen(q, Own(q))' # NoSnapshot
    <3>1. Seen(q, Own(q)) # NoSnapshot /\ Own(q) \in Versions
      BY <1>0, <2>2, StationWorkFits DEF DraftsFitStep, WorkFitsStep
    <3>2. Seen(q, Own(q))' = IF draft[q][Own(q)] # NoSnapshot THEN draft[q][Own(q)]
                             ELSE snapshot'[Own(q)]
      BY <2>1 DEF Seen, Own
    <3>. QED  BY <3>1, <3>2, RowsStay DEF Seen
  <2>3. ASSUME pc[q] = "commit", work[q] \in StationWork, snapshot[Own(q)] = NoSnapshot
        PROVE  snapshot'[Own(q)] = NoSnapshot
    <3>1. lock[<<"snapshot", Own(q)>>] = q /\ Own(q) \in Versions
      BY <1>0, <2>3, StationWorkFits DEF RowsAreLocked
    <3>. QED  BY <1>1, <2>3, <3>1, LockedRowKept
  <2>. HIDE DEF Own2
  <2>. QED  BY <1>0, <2>1, <2>2, <2>3 DEF DraftsFitStep
<1>2. CASE q = p /\ PriceStep(p)
  <2>1. pc'[p] \notin Importing
    <3>0. \A i : FirstStatement(p, i) \notin Importing
      BY DEF FirstStatement, Importing
    <3>1. \A step : pc' = [pc EXCEPT ![p] = step] => pc'[p] = step
      BY <1>0 DEF TypeOK
    <3>2. CASE BeginManual(p) \/ LookUpRow(p) \/ BeginRefresh(p) \/ FetchPrices(p)
      BY <3>1, <3>2 DEF BeginManual, LookUpRow, BeginRefresh, FetchPrices, Importing
    <3>3. CASE EnterImport(p) \/ LockStation(p) \/ LockItsSnapshot(p) \/ SaveCounts(p)
      BY <3>1, <3>3 DEF EnterImport, LockStation, LockItsSnapshot, SaveCounts, Importing
    <3>4. CASE CreateBatch(p) \/ StoreRow(p)
      BY <3>0, <3>1, <3>4 DEF CreateBatch, StoreRow
    <3>5. CASE \/ RefuseFile(p) \/ RefuseImport(p) \/ CollideBatch(p)
               \/ CommitPrices(p) \/ AbortPrices(p)
      BY <3>1, <3>5 DEF RefuseFile, RefuseImport, CollideBatch, CommitPrices, AbortPrices,
         FinishPrices, Finish, Importing
    <3>. QED  BY <1>2, <3>2, <3>3, <3>4, <3>5 DEF PriceStep
  <2>. QED  BY <1>2, <2>1, PricesHaveNoDrafts DEF NothingDrafted, IsActive
<1>3. CASE q = p /\ Finish(p)
  BY <1>0, <1>3 DEF Finish, TypeOK, NothingDrafted, IsActive, Importing
<1>4. CASE q = p /\ BeginStations(p)
  <2>1. draft[p] = NothingDrafted /\ scanned[p] = {}
    BY <1>0, <1>4, StationWorkFits, NoDraftsOfPrices DEF BeginStations, WorkFitsStep
  <2>2. PICK file \in StationFiles :
          /\ work' = [work EXCEPT ![p] = [kind |-> "stations", file |-> file]]
          /\ \/ pc' = [pc EXCEPT ![p] = "create"]
             \/ /\ pc' = [pc EXCEPT ![p] = "scan"]
                /\ snapshot[file.version] # NoSnapshot
    BY <1>4 DEF BeginStations
  <2>3. work'[p].file = file /\ file.version \in Versions
    BY <1>0, <2>2, StationImportsAssumption DEF TypeOK, StationFile
  <2>4. draft' = draft /\ scanned' = scanned /\ snapshot' = snapshot
    BY <1>4 DEF BeginStations, stationVars
  <2>. QED  BY <1>0, <1>4, <2>1, <2>2, <2>3, <2>4
            DEF TypeOK, NothingDrafted, IsActive, Seen, Own, Importing
<1>5. ASSUME q = p, work[p] \in StationWork, work' = work, snapshot' = snapshot
      PROVE  /\ Own(p) \in Versions /\ Own2(p) = Own(p)
             /\ snapshot'[Own(p)] = snapshot[Own(p)]
             /\ draft[p] \in [Versions -> Row \union {NoSnapshot}]
  BY <1>0, <1>5, StationWorkFits DEF Own, TypeOK
<1>6. CASE q = p /\ CreateSnapshot(p)
  <2>1. work[p] \in StationWork /\ work' = work /\ snapshot' = snapshot
    BY <1>0, <1>6 DEF CreateSnapshot, WorkFitsStep, Importing
  <2>2. draft[p] = NothingDrafted
    BY <1>0, <1>6 DEF CreateSnapshot, DraftsFitStep
  <2>3. PICK row \in Row : /\ draft' = [draft EXCEPT ![p][Own(p)] = row]
                           /\ ~IsActive(row) /\ row # NoSnapshot
    <3>1. [content |-> Content(work[p].file), active |-> FALSE] \in Row
      BY <2>1, StationWorkFits, ContentIsFile DEF Row
    <3>. QED  BY <1>6, <3>1, NoSnapshotAssumption DEF CreateSnapshot, IsActive
  <2>4. /\ draft'[p][Own(p)] = row
        /\ \A v \in Versions : v # Own(p) => draft'[p][v] = NoSnapshot
    BY <1>0, <1>5, <1>6, <2>1, <2>2, <2>3 DEF TypeOK, NothingDrafted
  <2>5. /\ pc'[p] \in {"scan", "commit"} /\ scanned'[p] = scanned[p]
        /\ snapshot[Own(p)] = NoSnapshot
    BY <1>0, <1>6 DEF CreateSnapshot, TypeOK
  <2>6. \A v \in Versions : v \in scanned[p] => MarketOf[v] = MarketOf[Own(p)]
    BY <1>0 DEF DraftsFitStep
  <2>7. Seen(p, Own(p))' = row
    BY <1>5, <1>6, <2>1, <2>3, <2>4 DEF Seen, Own
  <2>. HIDE DEF Own2
  <2>. QED  BY <1>5, <1>6, <2>1, <2>3, <2>4, <2>5, <2>6, <2>7 DEF IsActive, Importing
<1>7. CASE q = p /\ ScanActive(p)
  <2>1. work[p] \in StationWork /\ work' = work /\ snapshot' = snapshot /\ draft' = draft
    BY <1>0, <1>7 DEF ScanActive, WorkFitsStep, Importing
  <2>2. /\ pc[p] = "scan" /\ pc'[p] = "deactivate"
        /\ scanned'[p] = {v \in Versions : /\ MarketOf[v] = MarketOf[Own(p)]
                                           /\ IsActive(Seen(p, v))}
    BY <1>0, <1>7 DEF ScanActive, TypeOK
  <2>3. Seen(p, Own(p))' = Seen(p, Own(p))
    BY <2>1 DEF Seen, Own
  <2>. HIDE DEF Own2
  <2>. QED  BY <1>0, <1>5, <1>7, <2>1, <2>2, <2>3 DEF DraftsFitStep, Importing
<1>8. CASE q = p /\ DeactivateRow(p)
  <2>1. work[p] \in StationWork /\ work' = work /\ snapshot' = snapshot
    BY <1>0, <1>8 DEF DeactivateRow, WorkFitsStep, Importing
  <2>2. PICK v \in scanned[p] :
          /\ \/ draft' = draft
             \/ \E row \in Row : /\ draft' = [draft EXCEPT ![p][v] = row]
                                 /\ ~IsActive(row) /\ row # NoSnapshot
          /\ scanned' = [scanned EXCEPT ![p] = @ \ {v}]
    <3>1. PICK v \in scanned[p] :
            /\ draft' = IF IsActive(Seen(p, v))
                        THEN [draft EXCEPT ![p][v] = [Seen(p, v) EXCEPT !.active = FALSE]]
                        ELSE draft
            /\ scanned' = [scanned EXCEPT ![p] = @ \ {v}]
      BY <1>8 DEF DeactivateRow
    <3>2. CASE IsActive(Seen(p, v))
      <4>1. Seen(p, v) \in Row
        BY <1>0, <3>2, SeenIsRow, ActiveIsRow DEF TypeOK
      <4>2. [Seen(p, v) EXCEPT !.active = FALSE] \in Row
        BY <4>1 DEF Row
      <4>3. ~IsActive([Seen(p, v) EXCEPT !.active = FALSE])
        BY <4>1 DEF Row, IsActive
      <4>. QED  BY <3>1, <3>2, <4>2, <4>3, NoSnapshotAssumption
    <3>. QED  BY <3>1, <3>2
  <2>3. v \in Versions /\ MarketOf[v] = MarketOf[Own(p)]
    BY <1>0 DEF TypeOK, DraftsFitStep
  <2>4. /\ \A w \in Versions : w # v => draft'[p][w] = draft[p][w]
        /\ \/ draft'[p][v] = draft[p][v]
           \/ draft'[p][v] # NoSnapshot /\ ~IsActive(draft'[p][v])
    BY <1>0, <2>2, <2>3 DEF TypeOK
  <2>5. pc[p] = "deactivate" /\ pc'[p] = "deactivate" /\ scanned'[p] = scanned[p] \ {v}
    BY <1>0, <1>8, <2>2 DEF DeactivateRow, TypeOK
  <2>6. Seen(p, Own(p))' # NoSnapshot
    <3>1. Seen(p, Own(p)) # NoSnapshot
      BY <1>0, <2>5 DEF DraftsFitStep, Importing
    <3>2. Seen(p, Own(p))' = IF draft'[p][Own(p)] # NoSnapshot THEN draft'[p][Own(p)]
                             ELSE snapshot[Own(p)]
      BY <2>1 DEF Seen, Own
    <3>3. Own(p) \in Versions
      BY <2>1, StationWorkFits
    <3>. QED  BY <2>4, <3>1, <3>2, <3>3 DEF Seen
  <2>. HIDE DEF Own2
  <2>. QED  BY <1>0, <1>5, <1>8, <2>1, <2>3, <2>4, <2>5, <2>6 DEF DraftsFitStep, Importing
<1>9. CASE q = p /\ LockOwnRow(p)
  <2>1. /\ work[p] \in StationWork /\ work' = work /\ snapshot' = snapshot
        /\ draft' = draft /\ scanned' = scanned
    BY <1>0, <1>9 DEF LockOwnRow, WorkFitsStep, Importing, stationVars
  <2>2. pc[p] = "deactivate" /\ pc'[p] = "activate"
    BY <1>0, <1>9 DEF LockOwnRow, TypeOK
  <2>3. Seen(p, Own(p))' = Seen(p, Own(p))
    BY <2>1 DEF Seen, Own
  <2>. HIDE DEF Own2
  <2>. QED  BY <1>0, <1>5, <1>9, <2>1, <2>2, <2>3 DEF DraftsFitStep, Importing
<1>10. CASE q = p /\ Activate(p)
  <2>1. /\ work[p] \in StationWork /\ work' = work /\ snapshot' = snapshot
        /\ scanned' = scanned
    BY <1>0, <1>10 DEF Activate, WorkFitsStep, Importing
  <2>2. pc[p] = "activate" /\ pc'[p] = "commit"
    BY <1>0, <1>10 DEF Activate, TypeOK
  <2>3. PICK row \in Row : /\ draft' = [draft EXCEPT ![p][Own(p)] = row]
                           /\ IsActive(row)
    <3>1. Seen(p, Own(p)) \in Row
      BY <1>0, <1>5, <1>10, <2>1, <2>2, SeenIsRow DEF DraftsFitStep, Importing
    <3>2. [Seen(p, Own(p)) EXCEPT !.active = TRUE] \in Row
      BY <3>1 DEF Row
    <3>3. IsActive([Seen(p, Own(p)) EXCEPT !.active = TRUE])
      BY <3>1, <3>2, NoSnapshotAssumption DEF Row, IsActive
    <3>. QED  BY <1>10, <3>2, <3>3 DEF Activate
  <2>4. /\ draft'[p][Own(p)] = row
        /\ \A v \in Versions : v # Own(p) => draft'[p][v] = draft[p][v]
    BY <1>0, <1>5, <1>10, <2>1, <2>3 DEF TypeOK
  <2>. HIDE DEF Own2
  <2>. QED  BY <1>0, <1>5, <1>10, <2>1, <2>2, <2>3, <2>4 DEF DraftsFitStep, Importing
<1>. QED  BY <1>1, <1>2, <1>3, <1>4, <1>6, <1>7, <1>8, <1>9, <1>10
          DEF Step, StationStep, CollideStations, CommitStations, AbortStations

\* While a run has activated a snapshot, nothing else of the market is active.
LEMMA StillAlone ==
  ASSUME ImportInvariant, NEW p \in Proc, Step(p)
  PROVE  ActivatedAlone'
<1>0. TypeOK /\ DraftsFitStep /\ ActivatedAlone
  BY DEF ImportInvariant
<1>. SUFFICES ASSUME NEW q \in Proc, NEW v \in Versions, NEW w \in Versions,
                     IsActive(draft'[q][v]), MarketOf[w] = MarketOf[v]
     PROVE  /\ w # v => ~IsActive(IF draft'[q][w] # NoSnapshot THEN draft'[q][w]
                                  ELSE snapshot'[w])
            /\ \A r \in Proc \ {q} : ~IsActive(draft'[r][w])
  BY DEF ActivatedAlone, Seen, IsActive
\* An activation is new only by Activate, of a run's own snapshot.
<1>1. ASSUME NEW x \in Versions, IsActive(draft'[p][x])
      PROVE  /\ Activate(p) /\ x = Own(p) /\ snapshot' = snapshot
             /\ \A y \in Versions : y # x => draft'[p][y] = draft[p][y]
  <2>1. IsActive(draft'[p][x]) /\ work'[p] \in StationWork /\ pc'[p] = "commit"
    BY <1>1, DraftsFit DEF DraftsFitStep, IsActive
  <2>2. ~PriceStep(p)
    BY <2>1, PricesHaveNoDrafts
  <2>3. ~Finish(p)
    BY <1>0, <2>1 DEF Finish, TypeOK
  <2>4. CASE CreateSnapshot(p)
    <3>1. draft[p] = NothingDrafted
      BY <1>0, <2>4 DEF CreateSnapshot, DraftsFitStep
    <3>2. \A y \in Versions : ~IsActive(draft[p][y])
      BY <3>1 DEF NothingDrafted, IsActive
    <3>3. ~IsActive([content |-> Content(work[p].file), active |-> FALSE])
      BY DEF IsActive
    <3>. QED  BY <1>0, <1>1, <2>4, <3>2, <3>3 DEF CreateSnapshot, TypeOK
  <2>5. CASE Activate(p)
    <3>1. /\ pc[p] = "activate" /\ snapshot' = snapshot
          /\ \A y \in Versions : y # Own(p) => draft'[p][y] = draft[p][y]
      BY <1>0, <2>5 DEF Activate, TypeOK
    <3>2. ~IsActive(draft[p][x])
      BY <1>0, <3>1 DEF DraftsFitStep
    <3>. QED  BY <1>1, <2>5, <3>1, <3>2
  <2>. QED  BY <1>0, <2>1, <2>2, <2>3, <2>4, <2>5 DEF Step, StationStep, BeginStations,
              ScanActive, DeactivateRow, LockOwnRow, CollideStations, CommitStations,
              AbortStations, TypeOK
<1>2. CASE q = p
  <2>1. /\ Activate(p) /\ v = Own(p) /\ snapshot' = snapshot
        /\ \A y \in Versions : y # v => draft'[p][y] = draft[p][y]
    BY <1>1, <1>2
  <2>2. w # v => ~IsActive(Seen(p, w))
    BY <2>1 DEF Activate, Rivals
  <2>3. \A r \in Proc \ {p} : ~IsActive(draft[r][w])
    BY <2>1 DEF Activate, Undecided
  <2>. QED  BY <1>0, <1>2, <2>1, <2>2, <2>3, OthersKeep DEF Seen
<1>3. CASE q # p
  <2>1. draft'[q] = draft[q] /\ IsActive(draft[q][v])
    BY <1>0, <1>3, OthersKeep
  <2>2. /\ w # v => ~IsActive(Seen(q, w))
        /\ \A r \in Proc \ {q} : ~IsActive(draft[r][w])
    BY <1>0, <2>1 DEF ActivatedAlone
  <2>3. ~IsActive(draft'[p][w])
    <3>1. SUFFICES ASSUME IsActive(draft'[p][w])
                   PROVE  FALSE
      OBVIOUS
    <3>2. Activate(p) /\ w = Own(p)
      BY <1>1, <3>1
    <3>. QED  BY <1>3, <2>1, <3>2 DEF Activate, Undecided
  <2>4. \A r \in Proc \ {q} : ~IsActive(draft'[r][w])
    BY <1>0, <2>2, <2>3, OthersKeep
  <2>5. snapshot'[w] = snapshot[w] \/ ~IsActive(snapshot'[w])
    BY <1>3, <2>2, SnapshotsChange DEF CommitStations, Published, Seen
  <2>. QED  BY <2>1, <2>2, <2>4, <2>5 DEF Seen
<1>. QED  BY <1>2, <1>3

LEMMA OneActiveKept ==
  ASSUME ImportInvariant, NEW p \in Proc, Step(p)
  PROVE  OneActivePerMarket'
<1>1. CASE UNCHANGED snapshot
  BY <1>1 DEF ImportInvariant, OneActivePerMarket
<1>2. CASE CommitStations(p)
  <2>. SUFFICES ASSUME NEW v \in Versions, NEW w \in Versions, v # w,
                       MarketOf[v] = MarketOf[w],
                       IsActive(Seen(p, v)), IsActive(Seen(p, w))
       PROVE  FALSE
    BY <1>2 DEF OneActivePerMarket, CommitStations, Published
  <2>1. CASE draft[p][v] # NoSnapshot
    BY <2>1 DEF ImportInvariant, ActivatedAlone, Seen
  <2>2. CASE draft[p][w] # NoSnapshot
    BY <2>2 DEF ImportInvariant, ActivatedAlone, Seen
  <2>3. CASE draft[p][v] = NoSnapshot /\ draft[p][w] = NoSnapshot
    BY <2>3 DEF ImportInvariant, OneActivePerMarket, Seen
  <2>. QED  BY <2>1, <2>2, <2>3
<1>. QED  BY <1>1, <1>2, SnapshotsChange

\* The rows a price import has accepted stay those of active snapshots.
LEMMA PricesHoldKept ==
  ASSUME ImportInvariant, NEW p \in Proc, Step(p)
  PROVE  PricesHoldSnapshots'
<1>. DEFINE Accepted(row) == row.state = "ACCEPTED" /\ row.version # NoVersion
            Next2(q) == work'[q].found[Len(draftBatch'[q].rows) + 1]
<1>0. TypeOK /\ WorkFitsStep /\ PricesHoldSnapshots /\ BatchFitsStep
  BY DEF ImportInvariant
<1>k. \A v \in Versions : <<"snapshot", v>> \in LockKey
  BY DEF LockKey
<1>t. \A q \in Proc : draftBatch[q] # NoBatch =>
        \A i \in DOMAIN draftBatch[q].rows :
            Accepted(draftBatch[q].rows[i]) => draftBatch[q].rows[i].version \in Versions
  <2>. SUFFICES ASSUME NEW q \in Proc, draftBatch[q] # NoBatch,
                       NEW i \in DOMAIN draftBatch[q].rows, Accepted(draftBatch[q].rows[i])
       PROVE  draftBatch[q].rows[i].version \in Versions
    OBVIOUS
  <2>. DEFINE S == [place: Geography, version: Versions \union {NoVersion},
                    state: Verdicts]
  <2>1. draftBatch[q].rows \in Seq(S)
    BY <1>0 DEF TypeOK, Batch
  <2>2. draftBatch[q].rows[i] \in S
    <3>. HIDE DEF S, Accepted
    <3>. QED  BY <2>1
  <2>. QED  BY <2>2
<1>. SUFFICES ASSUME NEW q \in Proc
     PROVE  /\ pc'[q] = "store" /\ Next2(q) # NoVersion =>
                  lock'[<<"snapshot", Next2(q)>>] = q
            /\ draftBatch'[q] # NoBatch =>
                  \A i \in DOMAIN draftBatch'[q].rows :
                      Accepted(draftBatch'[q].rows[i]) =>
                          /\ lock'[<<"snapshot", draftBatch'[q].rows[i].version>>] = q
                          /\ IsActive(snapshot'[draftBatch'[q].rows[i].version])
  BY DEF PricesHoldSnapshots, At, IsActive
<1>1. CASE q # p
  <2>1. /\ pc'[q] = pc[q] /\ work'[q] = work[q] /\ draftBatch'[q] = draftBatch[q]
        /\ Next2(q) = work[q].found[At(q)]
    BY <1>0, <1>1, OthersKeep DEF At
  <2>2. ASSUME pc[q] = "store", work[q].found[At(q)] # NoVersion
        PROVE  lock'[<<"snapshot", work[q].found[At(q)]>>] = q
    <3>1. work[q].found[At(q)] \in Versions
      BY <2>2, NextRow
    <3>. QED  BY <1>0, <1>k, <2>1, <2>2, <3>1, LocksKept DEF PricesHoldSnapshots
  <2>3. ASSUME draftBatch[q] # NoBatch, NEW i \in DOMAIN draftBatch[q].rows,
               Accepted(draftBatch[q].rows[i])
        PROVE  /\ lock'[<<"snapshot", draftBatch[q].rows[i].version>>] = q
               /\ IsActive(snapshot'[draftBatch[q].rows[i].version])
    <3>. DEFINE v == draftBatch[q].rows[i].version
    <3>1. v \in Versions
      BY <1>t, <2>3
    <3>2. lock[<<"snapshot", v>>] = q /\ IsActive(snapshot[v])
      BY <1>0, <2>3 DEF PricesHoldSnapshots
    <3>3. pc[q] # "idle"
      BY <1>0, <2>3 DEF BatchFitsStep, Storing
    <3>4. lock'[<<"snapshot", v>>] = q
      BY <1>0, <1>k, <2>1, <3>1, <3>2, <3>3, LocksKept
    <3>5. snapshot'[v] = snapshot[v]
      BY <1>1, <3>1, <3>2, LockedRowKept
    <3>. QED  BY <3>2, <3>4, <3>5
  <2>. HIDE DEF Next2, Accepted
  <2>. QED  BY <2>1, <2>2, <2>3
<1>2. CASE q = p /\ pc'[p] # "store" /\ draftBatch'[p] = NoBatch
  BY <1>2
<1>3. ASSUME pc'[p] # "idle", draftBatch[p] # NoBatch, snapshot' = snapshot,
             NEW i \in DOMAIN draftBatch[p].rows, Accepted(draftBatch[p].rows[i])
      PROVE  /\ lock'[<<"snapshot", draftBatch[p].rows[i].version>>] = p
             /\ IsActive(snapshot'[draftBatch[p].rows[i].version])
  BY <1>0, <1>3, <1>k, <1>t, LocksKept DEF PricesHoldSnapshots
<1>4. CASE q = p /\ StationStep(p) /\ UNCHANGED priceVars
  <2>1. pc'[p] # "store"
    BY <1>0, <1>4 DEF StationStep, BeginStations, CreateSnapshot, ScanActive,
         DeactivateRow, LockOwnRow, Activate, CollideStations, CommitStations,
         AbortStations, Finish, TypeOK
  <2>2. pc[p] = "idle" \/ work[p] \in StationWork
    BY <1>0, <1>4, StationWorkFits, FileWorkFits
       DEF StationStep, BeginStations, CreateSnapshot, ScanActive, DeactivateRow,
           LockOwnRow, Activate, CollideStations, CommitStations, AbortStations,
           WorkFitsStep, Importing, TypeOK, FetchWork
  <2>3. draftBatch[p] = NoBatch
    BY <1>0, <2>2, StationWorkFits DEF BatchFitsStep, Storing
  <2>. QED  BY <1>2, <1>4, <2>1, <2>3 DEF priceVars
<1>5. CASE q = p /\ (\/ BeginManual(p) \/ LookUpRow(p) \/ BeginRefresh(p)
                     \/ FetchPrices(p) \/ EnterImport(p))
  <2>1. /\ draftBatch' = draftBatch /\ pc[p] \notin Storing \union {"commit"}
    BY <1>5 DEF BeginManual, LookUpRow, BeginRefresh, FetchPrices, EnterImport, Storing,
                priceVars
  <2>2. pc'[p] # "store"
    BY <1>0, <1>5 DEF BeginManual, LookUpRow, BeginRefresh, FetchPrices, EnterImport,
                      TypeOK
  <2>. QED  BY <1>0, <1>2, <1>5, <2>1, <2>2 DEF BatchFitsStep
<1>6. CASE q = p /\ CreateBatch(p)
  <2>1. draftBatch'[p].rows = <<>> /\ work' = work
    BY <1>0, <1>6 DEF CreateBatch, TypeOK
  <2>2. pc'[p] = FirstStatement(p, 1)
    BY <1>0, <1>6 DEF CreateBatch, TypeOK
  <2>. QED  BY <1>6, <2>1, <2>2 DEF FirstStatement
<1>7. CASE q = p /\ LockStation(p)
  <2>1. pc'[p] = "snapshot" /\ snapshot' = snapshot /\ draftBatch' = draftBatch
    BY <1>0, <1>7 DEF LockStation, TypeOK, stationVars, priceVars
  <2>. HIDE DEF Accepted
  <2>. QED  BY <1>3, <1>7, <2>1
<1>8. CASE q = p /\ LockItsSnapshot(p)
  <2>1. /\ pc[p] = "snapshot" /\ pc'[p] = "store" /\ snapshot' = snapshot
        /\ draftBatch' = draftBatch /\ work' = work
    BY <1>0, <1>8 DEF LockItsSnapshot, TypeOK, stationVars, priceVars
  <2>2. work[p].found[At(p)] \in Versions \union {NoVersion}
    BY <2>1, NextRow
  <2>3. work[p].found[At(p)] # NoVersion => lock'[<<"snapshot", work[p].found[At(p)]>>] = p
    BY <1>0, <1>8, <1>k, <2>2 DEF LockItsSnapshot, LockSnapshot, Acquire, TypeOK
  <2>4. Next2(p) = work[p].found[At(p)]
    BY <2>1 DEF At
  <2>. HIDE DEF Accepted, Next2
  <2>. QED  BY <1>3, <1>8, <2>1, <2>3, <2>4
<1>9. CASE q = p /\ StoreRow(p)
  <2>1. PICK row, b :
          /\ draftBatch' = [draftBatch EXCEPT ![p] = b]
          /\ b.rows = Append(draftBatch[p].rows, row)
          /\ row.version = work[p].found[At(p)]
          /\ row.state = "ACCEPTED" => Eligible(row.version)
    BY <1>9, RowStored
  <2>2. /\ draftBatch[p] \in Batch /\ draftBatch[p] # NoBatch
        /\ work[p].found[At(p)] \in Versions \union {NoVersion}
        /\ Len(draftBatch[p].rows) \in Nat
    BY <1>9, NextRow DEF StoreRow
  <2>3. /\ snapshot' = snapshot /\ lock' = lock /\ work' = work /\ pc[p] = "store"
        /\ pc'[p] = FirstStatement(p, At(p) + 1)
    BY <1>0, <1>9 DEF StoreRow, stationVars, TypeOK
  <2>4. draftBatch'[p].rows = Append(draftBatch[p].rows, row)
    BY <1>0, <2>1 DEF TypeOK
  <2>. DEFINE n == Len(draftBatch[p].rows)
  <2>5. /\ DOMAIN draftBatch'[p].rows = 1..(n + 1)
        /\ Len(draftBatch'[p].rows) = n + 1
        /\ \A i \in 1..n : /\ i \in DOMAIN draftBatch[p].rows
                           /\ draftBatch'[p].rows[i] = draftBatch[p].rows[i]
        /\ draftBatch'[p].rows[n + 1] = row
    <3>1. draftBatch[p].rows \in Seq([place: Geography, version: Versions \union {NoVersion},
                                      state: Verdicts])
      BY <2>2 DEF Batch
    <3>. QED  BY <2>4, <3>1
  <2>6. Next2(p) = work[p].found[At(p) + 1]
    BY <2>2, <2>3, <2>5 DEF At
  <2>7. pc'[p] = "store" => Next2(p) = NoVersion
    BY <2>3, <2>6 DEF FirstStatement
  <2>8. Accepted(row) => /\ lock'[<<"snapshot", row.version>>] = p
                         /\ IsActive(snapshot'[row.version])
    BY <1>0, <2>1, <2>3 DEF PricesHoldSnapshots, Eligible
  <2>9. pc'[p] # "idle"
    BY <2>3 DEF FirstStatement
  <2>10. ASSUME NEW i \in 1..n, Accepted(draftBatch[p].rows[i])
         PROVE  /\ lock'[<<"snapshot", draftBatch[p].rows[i].version>>] = p
                /\ IsActive(snapshot'[draftBatch[p].rows[i].version])
    BY <1>3, <2>2, <2>3, <2>5, <2>9, <2>10
  <2>11. \A i \in 1..(n + 1) : i \in 1..n \/ i = n + 1
    BY <2>2
  <2>. HIDE DEF Accepted, Next2, n
  <2>. QED  BY <1>9, <2>5, <2>7, <2>8, <2>10, <2>11
<1>10. CASE q = p /\ SaveCounts(p)
  <2>1. draftBatch[p] \in Batch /\ draftBatch[p] # NoBatch
    BY <1>0, <1>10 DEF SaveCounts, TypeOK, BatchFitsStep, Storing
  <2>2. draftBatch'[p].rows = draftBatch[p].rows
    BY <1>0, <1>10, <2>1 DEF SaveCounts, TypeOK, Batch
  <2>3. pc'[p] = "commit" /\ snapshot' = snapshot
    BY <1>0, <1>10 DEF SaveCounts, TypeOK, stationVars
  <2>. HIDE DEF Accepted, Next2
  <2>. QED  BY <1>3, <1>10, <2>1, <2>2, <2>3
<1>11. CASE q = p /\ (\/ RefuseFile(p) \/ RefuseImport(p) \/ CollideBatch(p)
                      \/ CommitPrices(p) \/ AbortPrices(p))
  BY <1>0, <1>2, <1>11 DEF RefuseFile, RefuseImport, CollideBatch, CommitPrices,
       AbortPrices, FinishPrices, Finish, TypeOK
<1>. QED  BY <1>1, <1>4, <1>5, <1>6, <1>7, <1>8, <1>9, <1>10, <1>11 DEF Step, PriceStep

--------------------------------------------------------------------------------
(* The theorems.                                                               *)

LEMMA InvariantAtStart ==
  ASSUME Init
  PROVE  ImportInvariant
<1>. USE DEF Init, StationInit, PriceInit, Importing, Storing, NothingDrafted
<1>1. TypeOK
  BY DEF TypeOK
<1>2. WorkFitsStep
  BY DEF WorkFitsStep
<1>3. DraftsFitStep /\ RowsAreLocked /\ ActivatedAlone /\ OneActivePerMarket
  BY DEF DraftsFitStep, RowsAreLocked, ActivatedAlone, OneActivePerMarket, IsActive
<1>4. \A p \in Proc : work[p] \notin FileWork
  BY DEF NoWork, FileWork
<1>5. FilesAreKnown /\ RefreshHoldsSource
  BY <1>4 DEF FilesAreKnown, RefreshHoldsSource
<1>6. RowsAreFound /\ BatchFitsStep /\ PricesHoldSnapshots
  BY DEF RowsAreFound, BatchFitsStep, PricesHoldSnapshots
<1>7. BatchIsWhole
  BY DEF BatchIsWhole, BatchKeys
<1>. QED  BY <1>1, <1>2, <1>3, <1>5, <1>6, <1>7 DEF ImportInvariant

LEMMA InvariantKept ==
  ASSUME ImportInvariant, [Next]_vars
  PROVE  ImportInvariant'
<1>1. CASE \E p \in Proc : Step(p)
  <2>. PICK p \in Proc : Step(p)
    BY <1>1
  <2>1. TypeOK' /\ WorkFitsStep' /\ DraftsFitStep' /\ RowsAreLocked' /\ ActivatedAlone'
    BY TypesKept, WorkFitsKept, DraftsFit, LocksFit, StillAlone
  <2>2. OneActivePerMarket' /\ FilesAreKnown' /\ RowsAreFound' /\ BatchFitsStep'
    BY OneActiveKept, FilesKept, FoundKept, DraftBatchesKept
  <2>3. RefreshHoldsSource' /\ PricesHoldSnapshots' /\ BatchIsWhole'
    BY SourceKept, PricesHoldKept, WholeKept
  <2>. QED  BY <2>1, <2>2, <2>3 DEF ImportInvariant
<1>2. CASE Quiet
  <2>1. TypeOK'
    BY TypesKept
  <2>2. WorkFitsStep' /\ DraftsFitStep' /\ RowsAreLocked' /\ ActivatedAlone'
    <3>1. WorkFitsStep' /\ RowsAreLocked'
      BY <1>2 DEF Quiet, ImportInvariant, WorkFitsStep, RowsAreLocked, Own
    <3>2. DraftsFitStep'
      BY <1>2 DEF Quiet, ImportInvariant, DraftsFitStep, Own, Seen, IsActive
    <3>3. ActivatedAlone'
      BY <1>2 DEF Quiet, ImportInvariant, ActivatedAlone, Own, Seen, IsActive
    <3>. QED  BY <3>1, <3>2, <3>3
  <2>3. OneActivePerMarket' /\ FilesAreKnown' /\ RowsAreFound' /\ BatchFitsStep'
    BY <1>2 DEF Quiet, ImportInvariant, OneActivePerMarket, FilesAreKnown, RowsAreFound,
                BatchFitsStep, File, At
  <2>4. RefreshHoldsSource' /\ PricesHoldSnapshots'
    BY <1>2 DEF Quiet, ImportInvariant, RefreshHoldsSource, PricesHoldSnapshots,
                BatchKey, File, At, IsActive
  <2>5. BatchIsWhole'
    BY <1>2, WholeStays DEF Quiet, ImportInvariant
  <2>. QED  BY <2>1, <2>2, <2>3, <2>4, <2>5 DEF ImportInvariant
<1>. QED  BY <1>1, <1>2, StepsOfNext, QuietSteps

\* The runs of the import commands keep the inductive invariant: what each has
\* drafted, locked and found fits the statement it is at.
THEOREM ImportsKeepInvariant == Spec => []ImportInvariant
<1>1. Init => ImportInvariant
  BY InvariantAtStart
<1>2. ImportInvariant /\ [Next]_vars => ImportInvariant'
  BY InvariantKept
<1>. QED  BY <1>1, <1>2, PTL DEF Spec

\* However station imports overlap, a market has at most one active snapshot.
THEOREM MarketHasOneActive == Spec => []OneActivePerMarket
<1>1. ImportInvariant => OneActivePerMarket
  BY DEF ImportInvariant
<1>. QED  BY <1>1, ImportsKeepInvariant, PTL

\* A stored batch has every row of its file, and counts them by verdict.
THEOREM StoredBatchIsWhole == Spec => []BatchIsWhole
<1>1. ImportInvariant => BatchIsWhole
  BY DEF ImportInvariant
<1>. QED  BY <1>1, ImportsKeepInvariant, PTL

\* The source's lock keeps overlapping refreshes from the unique constraint.
THEOREM RefreshesNeverCollide == Spec => []RefreshNeverCollides
<1>1. ASSUME ImportInvariant
      PROVE  RefreshNeverCollides
  <2>. SUFFICES ASSUME NEW p \in Proc, pc[p] = "batch", work[p].source = Automated
       PROVE  batch[BatchKey(p)] = NoBatch /\ ~Contested(p)
    BY DEF RefreshNeverCollides
  <2>1. /\ batch[BatchKey(p)] = NoBatch /\ lock[<<"source", Automated>>] = p
    BY <1>1 DEF ImportInvariant, WorkFitsStep, RefreshHoldsSource
  <2>2. ASSUME NEW q \in Proc \ {p}, draftBatch[q] # NoBatch, BatchKey(q) = BatchKey(p)
        PROVE  FALSE
    <3>1. /\ work[q] \in FileWork /\ pc[q] \in Storing \union {"commit"}
          /\ work[q].source = Automated
      BY <1>1, <2>2 DEF ImportInvariant, BatchFitsStep, BatchKey
    <3>. QED  BY <1>1, <2>1, <3>1 DEF ImportInvariant, RefreshHoldsSource
  <2>. QED  BY <2>1, <2>2 DEF Contested
<1>. QED  BY <1>1, ImportsKeepInvariant, PTL

\* A market never loses its active catalogue, whatever a run commits.
THEOREM MarketKeepsCatalogue == Spec => CatalogueNeverLost
<1>1. ASSUME ImportInvariant, [Next]_vars
      PROVE  [\A m \in Markets : Served(m) # {} => Served(m)' # {}]_snapshot
  <2>. SUFFICES ASSUME NEW p \in Proc, CommitStations(p), NEW m \in Markets,
                       NEW v \in Versions, MarketOf[v] = m, IsActive(snapshot[v])
       PROVE  \E w \in Versions : MarketOf[w] = m /\ IsActive(Seen(p, w))
    <3>1. snapshot' # snapshot => \E p \in Proc : CommitStations(p)
      BY <1>1, StepsOfNext, SnapshotsChange DEF SyncSource, stationVars, vars
    <3>2. ASSUME NEW p \in Proc, CommitStations(p)
          PROVE  \A w \in Versions : snapshot'[w] = Seen(p, w)
      BY <3>2 DEF CommitStations, Published
    <3>. QED  BY <3>1, <3>2 DEF Served, IsActive
  <2>1. work[p] \in StationWork /\ Own(p) \in Versions /\ pc[p] = "commit"
    BY <1>1, StationWorkFits, FileWorkFits
       DEF CommitStations, ImportInvariant, WorkFitsStep
  <2>2. CASE draft[p][v] = NoSnapshot
    BY <2>2 DEF Seen
  <2>3. CASE draft[p][v] # NoSnapshot
    <3>1. MarketOf[Own(p)] = m
      BY <1>1, <2>3 DEF ImportInvariant, DraftsFitStep
    <3>2. IsActive(draft[p][Own(p)])
      BY <1>1, <2>1, <2>3 DEF ImportInvariant, DraftsFitStep, IsActive
    <3>. QED  BY <2>1, <3>1, <3>2 DEF Seen, IsActive
  <2>. QED  BY <2>2, <2>3
<1>. QED  BY <1>1, ImportsKeepInvariant, PTL DEF Spec, CatalogueNeverLost

\* A station price is accepted only against the snapshot that is active when
\* its batch commits.
THEOREM PricesMatchCatalogue == Spec => AcceptedAgainstActive
<1>1. ASSUME ImportInvariant, [Next]_vars
      PROVE  [\A k \in BatchKeys :
                 batch[k] = NoBatch /\ batch'[k] # NoBatch =>
                     \A i \in DOMAIN batch'[k].rows :
                         LET stored == batch'[k].rows[i]
                         IN  stored.state = "ACCEPTED" /\ stored.version # NoVersion
                                 => IsActive(snapshot[stored.version])]_batch
  <2>1. batch' # batch => \E p \in Proc : CommitPrices(p)
    BY <1>1, StepsOfNext, BatchesChange DEF SyncSource, vars
  <2>2. ASSUME NEW p \in Proc, CommitPrices(p), NEW k \in BatchKeys,
               batch[k] = NoBatch, batch'[k] # NoBatch
        PROVE  batch'[k] = draftBatch[p] /\ draftBatch[p] # NoBatch
    BY <1>1, <2>2 DEF CommitPrices, WithDraft, ImportInvariant, TypeOK
  <2>. SUFFICES ASSUME NEW p \in Proc, CommitPrices(p), NEW k \in BatchKeys,
                       batch[k] = NoBatch, batch'[k] # NoBatch,
                       NEW i \in DOMAIN batch'[k].rows,
                       batch'[k].rows[i].state = "ACCEPTED",
                       batch'[k].rows[i].version # NoVersion
       PROVE  IsActive(snapshot[batch'[k].rows[i].version])
    BY <2>1
  <2>3. batch'[k] = draftBatch[p] /\ draftBatch[p] # NoBatch
    BY <2>2
  <2>4. PricesHoldSnapshots
    BY <1>1 DEF ImportInvariant
  <2>5. \A j \in DOMAIN draftBatch[p].rows :
           /\ draftBatch[p].rows[j].state = "ACCEPTED"
           /\ draftBatch[p].rows[j].version # NoVersion
           => IsActive(snapshot[draftBatch[p].rows[j].version])
    BY <2>3, <2>4 DEF PricesHoldSnapshots
  <2>. QED  BY <2>3, <2>5
<1>. QED  BY <1>1, ImportsKeepInvariant, PTL DEF Spec, AcceptedAgainstActive

--------------------------------------------------------------------------------
(* Waiting: a run may hold a lock only at the statements after the one that   *)
(* takes it; followed along a cycle of runs that wait for each other, this     *)
(* leaves no run to begin with.                                                *)

PastFirstRow(p) == draftBatch[p] # NoBatch /\ At(p) > 1

\* Why run p may hold a lock at the statement it is at.
MayHold(p, key) ==
    \/ /\ key[1] = "source"
       /\ work[p] \in FileWork /\ work[p].source = Automated
       /\ pc[p] \in {"batch", "commit"} \union Storing
    \/ /\ key[1] = "station"
       /\ work[p] \in FileWork
       /\ pc[p] \in {"snapshot", "store"} \/ PastFirstRow(p)
    \/ /\ key[1] = "snapshot"
       /\ work[p] \in FileWork
       /\ pc[p] = "store" \/ PastFirstRow(p)
    \/ /\ key[1] = "snapshot"
       /\ work[p] \in StationWork
       /\ pc[p] \in {"scan", "deactivate", "activate", "commit"}
       /\ key[2] = Own(p) \/ (pc[p] # "scan" /\ key[2] \notin scanned[p])

LocksFitStep ==
    \A p \in Proc : \A key \in LockKey : lock[key] = p => MayHold(p, key)

\* The rows of other snapshots an activation locks, or will lock.
Reached(p) == {v \in Versions : v # Own(p) /\ (v \in scanned[p] \/ lock[<<"snapshot", v>>] = p)}

\* An activation saw one active row: it deactivates that one and no other.
OneRowBesides ==
    \A p \in Proc : work[p] \in StationWork =>
        \A v, w \in Reached(p) : v = w

ScannedIsCommitted ==
    \A p \in Proc, v \in Versions : v \in scanned[p] => snapshot[v] # NoSnapshot

RefreshNeedsNoStation ==
    \A p \in Proc : work[p] \in FileWork /\ work[p].source = Automated =>
        \A i \in DOMAIN work[p].found : work[p].found[i] = NoVersion

\* What a file's row found in the catalogue it found for a station.
StationsAreFound ==
    \A p \in Proc : work[p] \in FileWork =>
        \A i \in DOMAIN work[p].found :
            work[p].found[i] # NoVersion => File(p).rows[i] \in StableIds

RefreshStarts == \A p \in Proc : pc[p] = "source" => work[p].source = Automated

WaitInvariant ==
    /\ ImportInvariant
    /\ LocksFitStep /\ OneRowBesides /\ ScannedIsCommitted
    /\ RefreshNeedsNoStation /\ RefreshStarts /\ StationsAreFound

--------------------------------------------------------------------------------
(* Locks                                                                       *)

LEMMA KeyTypes ==
  /\ \A v \in Versions : <<"snapshot", v>> \in LockKey
  /\ <<"source", Automated>> \in LockKey
  /\ \A key \in LockKey : \/ key[1] = "snapshot" /\ key[2] \in Versions
                          \/ key[1] = "station"
                          \/ key = <<"source", Automated>>
BY DEF LockKey, Automated

\* A run does not take locks for another.
LEMMA LocksNotGiven ==
  ASSUME TypeOK, NEW p \in Proc, Step(p),
         NEW q \in Proc \ {p}, NEW k \in LockKey, lock'[k] = q
  PROVE  lock[k] = q
<1>0. q # Free
  BY StationImportsAssumption
<1>1. ASSUME NEW key, Acquire(key, p) PROVE lock[k] = q
  BY <1>1 DEF Acquire, Available, TypeOK
<1>2. ASSUME Finish(p) PROVE lock[k] = q
  BY <1>0, <1>2 DEF Finish, TypeOK
<1>3. ASSUME UNCHANGED lock PROVE lock[k] = q
  BY <1>3
<1>4. CASE StationStep(p)
  <2>1. CASE BeginStations(p) \/ ScanActive(p) \/ Activate(p)
    BY <2>1, <1>3 DEF BeginStations, ScanActive, Activate
  <2>2. CASE CreateSnapshot(p) \/ DeactivateRow(p) \/ LockOwnRow(p)
    BY <2>2, <1>1 DEF CreateSnapshot, DeactivateRow, LockOwnRow
  <2>3. CASE CollideStations(p) \/ CommitStations(p) \/ AbortStations(p)
    BY <2>3, <1>2 DEF CollideStations, CommitStations, AbortStations
  <2>. QED  BY <1>4, <2>1, <2>2, <2>3 DEF StationStep
<1>5. CASE PriceStep(p)
  <2>1. CASE \/ BeginManual(p) \/ LookUpRow(p) \/ BeginRefresh(p) \/ FetchPrices(p)
             \/ CreateBatch(p) \/ StoreRow(p) \/ SaveCounts(p)
    BY <2>1, <1>3 DEF BeginManual, LookUpRow, BeginRefresh, FetchPrices, CreateBatch,
                      StoreRow, SaveCounts
  <2>2. CASE EnterImport(p) \/ LockStation(p) \/ LockItsSnapshot(p)
    BY <2>2, <1>1 DEF EnterImport, LockSource, LockStation, LockItsSnapshot, LockSnapshot
  <2>3. CASE \/ RefuseFile(p) \/ RefuseImport(p) \/ CollideBatch(p)
             \/ CommitPrices(p) \/ AbortPrices(p)
    BY <2>3, <1>2 DEF RefuseFile, RefuseImport, CollideBatch, CommitPrices, AbortPrices,
                      FinishPrices
  <2>. QED  BY <1>5, <2>1, <2>2, <2>3 DEF PriceStep
<1>. QED  BY <1>4, <1>5 DEF Step

\* A run that has just begun holds nothing, and one about to insert its batch
\* nothing but its source.
LEMMA HoldsNothing ==
  ASSUME WaitInvariant, NEW p \in Proc, NEW key \in LockKey, lock[key] = p
  PROVE  /\ pc[p] \notin {"idle", "create", "lookup", "fetch", "source"}
         /\ pc[p] = "batch" => key[1] = "source"
<1>1. MayHold(p, key)
  BY DEF WaitInvariant, LocksFitStep
<1>2. PastFirstRow(p) => pc[p] \in Storing \union {"commit"}
  BY DEF WaitInvariant, ImportInvariant, BatchFitsStep, PastFirstRow
<1>3. work[p] \in StationWork => pc[p] # "batch"
  BY FileWorkFits DEF WaitInvariant, ImportInvariant, WorkFitsStep
<1>. QED  BY <1>1, <1>2, <1>3 DEF MayHold, Storing

\* A run that has stored a row is past its first.
LEMMA StoringGoesPast ==
  ASSUME ImportInvariant, NEW p \in Proc, StoreRow(p)
  PROVE  PastFirstRow(p)'
<1>1. PICK row, b : /\ draftBatch' = [draftBatch EXCEPT ![p] = b]
                    /\ b \in Batch /\ b.rows = Append(draftBatch[p].rows, row)
  BY RowStored
<1>2. draftBatch[p] \in Batch /\ DOMAIN draftBatch = Proc
  BY DEF ImportInvariant, TypeOK, BatchFitsStep, Storing, StoreRow
<1>3. draftBatch[p].rows \in Seq([place: Geography, version: Versions \union {NoVersion},
                                  state: Verdicts])
  BY <1>2 DEF Batch
<1>4. Len(b.rows) = Len(draftBatch[p].rows) + 1 /\ Len(draftBatch[p].rows) \in Nat
  BY <1>1, <1>3
<1>. QED  BY <1>1, <1>2, <1>4, NoBatchAssumption DEF PastFirstRow, At

\* A run past its first row stays so until it ends.
LEMMA PastStays ==
  ASSUME WaitInvariant, NEW p \in Proc, Step(p), PastFirstRow(p), ~Finish(p)
  PROVE  PastFirstRow(p)'
<1>1. /\ draftBatch[p] # NoBatch /\ draftBatch[p] \in Batch
      /\ pc[p] \in Storing \union {"commit"} /\ DOMAIN draftBatch = Proc
  BY DEF WaitInvariant, ImportInvariant, TypeOK, BatchFitsStep, PastFirstRow
<1>2. draftBatch[p].rows \in Seq([place: Geography, version: Versions \union {NoVersion},
                                  state: Verdicts])
      /\ Len(draftBatch[p].rows) > 0
  BY <1>1 DEF Batch, PastFirstRow, At
<1>4. CASE draftBatch' = draftBatch
  BY <1>4 DEF PastFirstRow, At
<1>5. CASE StoreRow(p)
  BY <1>5, StoringGoesPast DEF WaitInvariant
<1>6. CASE SaveCounts(p)
  <2>1. draftBatch'[p].rows = draftBatch[p].rows /\ draftBatch'[p] # NoBatch
    <3>1. draftBatch'[p] \in Batch /\ draftBatch'[p].rows = draftBatch[p].rows
      <4>1. \A s \in Verdicts : CountOf(draftBatch[p].rows, s) \in Nat
        BY <1>2, CountOfIsNat
      <4>. DEFINE c == [s \in Verdicts |-> CountOf(draftBatch[p].rows, s)]
      <4>2. c \in [Verdicts -> Nat]
        BY <4>1
      <4>3. draftBatch'[p] = [draftBatch[p] EXCEPT !.counts = c]
        BY <1>1, <1>6 DEF SaveCounts
      <4>. HIDE DEF c
      <4>. QED  BY <1>1, <4>2, <4>3 DEF Batch
    <3>. QED  BY <3>1, NoBatchAssumption
  <2>. QED  BY <1>2, <2>1 DEF PastFirstRow, At
<1>. QED
  BY <1>1, <1>4, <1>5, <1>6
     DEF Step, StationStep, PriceStep, priceVars, BeginManual, LookUpRow, RefuseFile,
         BeginRefresh, FetchPrices, EnterImport, RefuseImport, CreateBatch, CollideBatch,
         LockStation, LockItsSnapshot, CommitPrices, AbortPrices, FinishPrices, Storing

\* The step that takes a lock goes on to where it may be held.
LEMMA OwnLocksFit ==
  ASSUME WaitInvariant, NEW p \in Proc, Step(p), NEW key \in LockKey, lock'[key] = p
  PROVE  MayHold(p, key)'
<1>0. /\ TypeOK /\ WorkFitsStep /\ p # Free
      /\ DOMAIN pc = Proc /\ DOMAIN work = Proc /\ DOMAIN scanned = Proc
      /\ DOMAIN lock = LockKey
  BY StationImportsAssumption DEF WaitInvariant, ImportInvariant, TypeOK
<1>1. ~Finish(p)
  BY <1>0 DEF Finish, HeldBy
<1>2. lock[key] = p =>
         /\ MayHold(p, key)
         /\ pc[p] \notin {"idle", "create", "lookup", "fetch", "source"}
         /\ pc[p] = "batch" => key[1] = "source"
  BY HoldsNothing DEF WaitInvariant, LocksFitStep
<1>3. PastFirstRow(p) => PastFirstRow(p)'
  BY <1>1, PastStays
<1>4. ASSUME NEW k, Acquire(k, p), key # k PROVE lock[key] = p
  BY <1>0, <1>4 DEF Acquire
<1>5. CASE StationStep(p)
  <2>1. CASE BeginStations(p)
    BY <1>2, <2>1 DEF BeginStations
  <2>2. CASE CreateSnapshot(p)
    <3>1. key = <<"snapshot", Own(p)>>
      BY <1>2, <1>4, <2>2 DEF CreateSnapshot
    <3>2. pc'[p] \in {"scan", "commit"} /\ work' = work /\ work[p] \in StationWork
      BY <1>0, <2>2 DEF CreateSnapshot, WorkFitsStep, Importing
    <3>. QED  BY <3>1, <3>2 DEF MayHold, Own
  <2>3. CASE ScanActive(p)
    <3>1. /\ lock[key] = p /\ pc[p] = "scan" /\ pc'[p] = "deactivate" /\ work' = work
          /\ work[p] \in StationWork
      BY <1>0, <2>3 DEF ScanActive, WorkFitsStep, Importing
    <3>2. key[1] = "snapshot" /\ key[2] = Own(p)
      BY <1>2, <3>1, FileWorkFits DEF MayHold
    <3>. QED  BY <3>1, <3>2 DEF MayHold, Own
  <2>4. CASE DeactivateRow(p)
    <3>1. /\ pc[p] = "deactivate" /\ pc' = pc /\ work' = work /\ work[p] \in StationWork
      BY <1>0, <2>4 DEF DeactivateRow, WorkFitsStep, Importing
    <3>2. PICK v \in scanned[p] : /\ Acquire(<<"snapshot", v>>, p)
                                  /\ scanned' = [scanned EXCEPT ![p] = @ \ {v}]
      BY <2>4 DEF DeactivateRow
    <3>3. scanned'[p] = scanned[p] \ {v}
      BY <1>0, <3>2
    <3>4. CASE key = <<"snapshot", v>>
      BY <3>1, <3>3, <3>4 DEF MayHold
    <3>5. CASE key # <<"snapshot", v>>
      <4>1. MayHold(p, key)
        BY <1>2, <1>4, <3>2, <3>5
      <4>2. key[1] = "snapshot" /\ (key[2] = Own(p) \/ key[2] \notin scanned[p])
        BY <3>1, <4>1, FileWorkFits DEF MayHold
      <4>. QED  BY <3>1, <3>3, <4>2 DEF MayHold, Own
    <3>. QED  BY <3>4, <3>5
  <2>5. CASE LockOwnRow(p)
    <3>1. /\ pc[p] = "deactivate" /\ pc'[p] = "activate" /\ work' = work
          /\ work[p] \in StationWork /\ scanned' = scanned
      BY <1>0, <2>5 DEF LockOwnRow, WorkFitsStep, Importing, stationVars
    <3>2. key[1] = "snapshot" /\ (key[2] = Own(p) \/ key[2] \notin scanned[p])
      BY <1>2, <1>4, <2>5, <3>1, FileWorkFits DEF LockOwnRow, MayHold
    <3>. QED  BY <3>1, <3>2 DEF MayHold, Own
  <2>6. CASE Activate(p)
    <3>1. /\ pc[p] = "activate" /\ pc'[p] = "commit" /\ work' = work
          /\ work[p] \in StationWork /\ scanned' = scanned /\ lock[key] = p
      BY <1>0, <2>6 DEF Activate, WorkFitsStep, Importing
    <3>2. key[1] = "snapshot" /\ (key[2] = Own(p) \/ key[2] \notin scanned[p])
      BY <1>2, <3>1, FileWorkFits DEF MayHold
    <3>. QED  BY <3>1, <3>2 DEF MayHold, Own
  <2>. QED  BY <1>1, <1>5, <2>1, <2>2, <2>3, <2>4, <2>5, <2>6
            DEF StationStep, CollideStations, CommitStations, AbortStations
<1>6. CASE PriceStep(p)
  <2>0. pc[p] \in {"source", "batch"} \union Storing => work[p] \in FileWork
    BY <1>0 DEF WorkFitsStep
  <2>1. CASE BeginManual(p) \/ LookUpRow(p) \/ BeginRefresh(p) \/ FetchPrices(p)
    BY <1>2, <2>1 DEF BeginManual, LookUpRow, BeginRefresh, FetchPrices
  <2>2. CASE EnterImport(p)
    <3>1. key = <<"source", Automated>>
      BY <1>2, <1>4, <2>2 DEF EnterImport, LockSource
    <3>2. pc'[p] \in {"batch", "commit"} /\ work' = work /\ work[p] \in FileWork
          /\ work[p].source = Automated
      BY <1>0, <2>0, <2>2 DEF EnterImport, WaitInvariant, RefreshStarts
    <3>. QED  BY <3>1, <3>2 DEF MayHold
  <2>3. CASE CreateBatch(p)
    <3>1. /\ pc'[p] \in Storing /\ work' = work /\ work[p] \in FileWork /\ lock[key] = p
          /\ pc[p] = "batch"
      BY <1>0, <2>0, <2>3 DEF CreateBatch, FirstStatement, Storing
    <3>. QED  BY <1>2, <3>1, StationWorkFits DEF MayHold, Storing
  <2>4. CASE LockStation(p)
    <3>1. /\ pc[p] = "station" /\ pc'[p] = "snapshot" /\ work' = work /\ work[p] \in FileWork
      BY <1>0, <2>0, <2>4 DEF LockStation, Storing
    <3>2. key[1] = "station" \/ lock[key] = p
      BY <1>4, <2>4 DEF LockStation
    <3>. QED  BY <1>2, <1>3, <3>1, <3>2, StationWorkFits DEF MayHold, Storing
  <2>5. CASE LockItsSnapshot(p)
    <3>1. /\ pc[p] = "snapshot" /\ pc'[p] = "store" /\ work' = work /\ work[p] \in FileWork
      BY <1>0, <2>0, <2>5 DEF LockItsSnapshot, Storing
    <3>2. key[1] = "snapshot" \/ lock[key] = p
      BY <1>4, <2>5 DEF LockItsSnapshot, LockSnapshot
    <3>. QED  BY <1>2, <1>3, <3>1, <3>2, StationWorkFits DEF MayHold, Storing
  <2>6. CASE StoreRow(p)
    <3>1. /\ pc[p] = "store" /\ pc'[p] \in Storing /\ work' = work /\ work[p] \in FileWork
          /\ lock[key] = p
      BY <1>0, <2>0, <2>6 DEF StoreRow, FirstStatement, Storing
    <3>2. PastFirstRow(p)'
      BY <2>6, StoringGoesPast DEF WaitInvariant
    <3>3. MayHold(p, key)
      BY <1>2, <3>1
    <3>. QED  BY <3>1, <3>2, <3>3, StationWorkFits DEF MayHold
  <2>7. CASE SaveCounts(p)
    <3>1. /\ pc[p] = "counts" /\ pc'[p] = "commit" /\ work' = work /\ work[p] \in FileWork
          /\ lock[key] = p
      BY <1>0, <2>0, <2>7 DEF SaveCounts, Storing
    <3>. QED  BY <1>2, <1>3, <3>1, StationWorkFits DEF MayHold, Storing
  <2>. QED  BY <1>1, <1>6, <2>1, <2>2, <2>3, <2>4, <2>5, <2>6, <2>7
            DEF PriceStep, RefuseFile, RefuseImport, CollideBatch, CommitPrices,
                AbortPrices, FinishPrices
<1>. QED  BY <1>5, <1>6 DEF Step

LEMMA LocksStillFit ==
  ASSUME WaitInvariant, NEW p \in Proc, Step(p)
  PROVE  LocksFitStep'
<1>. SUFFICES ASSUME NEW q \in Proc, NEW key \in LockKey, lock'[key] = q
     PROVE  MayHold(q, key)'
  <2>1. LockKey' = LockKey
    BY DEF LockKey
  <2>. QED  BY <2>1 DEF LocksFitStep
<1>1. CASE q = p
  BY <1>1, OwnLocksFit
<1>2. CASE q # p
  <2>0. TypeOK
    BY DEF WaitInvariant, ImportInvariant
  <2>1. lock[key] = q
    BY <1>2, <2>0, LocksNotGiven
  <2>2. /\ pc'[q] = pc[q] /\ work'[q] = work[q]
        /\ scanned'[q] = scanned[q] /\ draftBatch'[q] = draftBatch[q]
    BY <1>2, <2>0, OthersKeep
  <2>3. MayHold(q, key)
    BY <2>1 DEF WaitInvariant, LocksFitStep
  <2>. QED  BY <2>2, <2>3 DEF MayHold, Own, PastFirstRow, At
<1>. QED  BY <1>1, <1>2

--------------------------------------------------------------------------------
(* What an activation reaches                                                  *)

\* At most one row of a market is active, so a scan finds one at the most.
LEMMA ScanFindsOne ==
  ASSUME WaitInvariant, NEW p \in Proc, ScanActive(p)
  PROVE  /\ \A v \in scanned'[p] : snapshot[v] # NoSnapshot
         /\ \A v, w \in scanned'[p] : v = w
<1>1. /\ pc[p] = "scan" /\ scanned \in [Proc -> SUBSET Versions]
      /\ \A v \in Versions : ~IsActive(draft[p][v])
      /\ OneActivePerMarket
  BY DEF WaitInvariant, ImportInvariant, TypeOK, DraftsFitStep, ScanActive
<1>2. scanned'[p] = {v \in Versions : MarketOf[v] = MarketOf[Own(p)] /\ IsActive(Seen(p, v))}
  BY <1>1 DEF ScanActive
<1>3. \A v \in Versions : IsActive(Seen(p, v)) => IsActive(snapshot[v])
  BY <1>1 DEF Seen
<1>4. \A v \in scanned'[p] : /\ v \in Versions /\ IsActive(snapshot[v])
                             /\ MarketOf[v] = MarketOf[Own(p)]
  BY <1>2, <1>3
<1>. QED  BY <1>1, <1>4 DEF OneActivePerMarket, IsActive

LEMMA OneStaysBesides ==
  ASSUME WaitInvariant, NEW p \in Proc, Step(p)
  PROVE  OneRowBesides'
<1>0. /\ TypeOK /\ WorkFitsStep /\ p # Free
      /\ DOMAIN pc = Proc /\ DOMAIN work = Proc /\ DOMAIN scanned = Proc
      /\ DOMAIN lock = LockKey
  BY StationImportsAssumption DEF WaitInvariant, ImportInvariant, TypeOK
<1>k. \A v \in Versions : <<"snapshot", v>> \in LockKey
  BY KeyTypes
<1>. SUFFICES ASSUME NEW q \in Proc, work'[q] \in StationWork,
                     NEW v \in Reached(q)', NEW w \in Reached(q)'
     PROVE  v = w
  BY DEF OneRowBesides
<1>. DEFINE Reaches(u) == \/ u \in scanned[q]
                          \/ lock[<<"snapshot", u>>] = q
            Now(u) == \/ u \in scanned'[q]
                      \/ lock'[<<"snapshot", u>>] = q
<1>1. /\ v \in Versions /\ v # work'[q].file.version /\ Now(v)
      /\ w \in Versions /\ w # work'[q].file.version /\ Now(w)
  BY DEF Reached, Own
<1>2. work[q] \in StationWork /\ v # Own(q) /\ w # Own(q) /\ Reaches(v) /\ Reaches(w)
         => v = w
  BY <1>1 DEF WaitInvariant, OneRowBesides, Reached
<1>3. CASE q # p
  <2>1. work'[q] = work[q] /\ scanned'[q] = scanned[q]
    BY <1>0, <1>3, OthersKeep
  <2>2. \A u \in Versions : lock'[<<"snapshot", u>>] = q => lock[<<"snapshot", u>>] = q
    BY <1>0, <1>3, <1>k, LocksNotGiven
  <2>. QED  BY <1>1, <1>2, <2>1, <2>2 DEF Own
<1>4. CASE q = p /\ StationStep(p)
  <2>1. CASE BeginStations(p)
    <3>1. scanned'[p] = {}
      BY <1>0, <2>1, NoDraftsOfPrices, StationWorkFits
         DEF BeginStations, stationVars, WaitInvariant, WorkFitsStep
    <3>2. \A u \in Versions : lock'[<<"snapshot", u>>] # p
      BY <1>k, <2>1, HoldsNothing DEF BeginStations
    <3>. QED  BY <1>1, <1>4, <3>1, <3>2
  <2>2. CASE CreateSnapshot(p) \/ LockOwnRow(p) \/ Activate(p)
    <3>1. work' = work /\ scanned' = scanned
      BY <2>2 DEF CreateSnapshot, LockOwnRow, Activate, stationVars
    <3>2. \A u \in Versions : lock'[<<"snapshot", u>>] = p /\ u # Own(p)
                                 => lock[<<"snapshot", u>>] = p
      BY <1>0, <1>k, <2>2 DEF CreateSnapshot, LockOwnRow, Activate, Acquire
    <3>. QED  BY <1>1, <1>2, <1>4, <3>1, <3>2 DEF Own
  <2>3. CASE ScanActive(p)
    <3>1. work' = work /\ lock' = lock /\ pc[p] = "scan" /\ work[p] \in StationWork
      BY <1>0, <2>3 DEF ScanActive, WorkFitsStep, Importing
    <3>2. \A u \in Versions : lock[<<"snapshot", u>>] = p => u = Own(p)
      <4>1. ASSUME NEW u \in Versions, lock[<<"snapshot", u>>] = p PROVE u = Own(p)
        <5>1. MayHold(p, <<"snapshot", u>>)
          BY <1>k, <4>1 DEF WaitInvariant, LocksFitStep
        <5>. QED  BY <3>1, <5>1, FileWorkFits DEF MayHold
      <4>. QED  BY <4>1
    <3>3. v \in scanned'[p] /\ w \in scanned'[p]
      BY <1>1, <1>4, <3>1, <3>2 DEF Own
    <3>. QED  BY <2>3, <3>3, ScanFindsOne
  <2>4. CASE DeactivateRow(p)
    <3>1. PICK u \in scanned[p] : /\ Acquire(<<"snapshot", u>>, p)
                                  /\ scanned' = [scanned EXCEPT ![p] = @ \ {u}]
                                  /\ work' = work
      BY <2>4 DEF DeactivateRow
    <3>2. \A z \in Versions : lock'[<<"snapshot", z>>] = p
                                 => z = u \/ lock[<<"snapshot", z>>] = p
      BY <1>0, <1>k, <3>1 DEF Acquire
    <3>3. scanned'[p] \subseteq scanned[p]
      BY <1>0, <3>1
    <3>. QED  BY <1>1, <1>2, <1>4, <3>1, <3>2, <3>3 DEF Own
  <2>5. CASE CollideStations(p) \/ CommitStations(p) \/ AbortStations(p)
    BY <1>0, <1>4, <2>5 DEF CollideStations, CommitStations, AbortStations, Finish,
                            NoWork, StationWork
  <2>. QED  BY <1>4, <2>1, <2>2, <2>3, <2>4, <2>5 DEF StationStep
<1>5. CASE q = p /\ PriceStep(p)
  BY <1>5, PricesHaveNoDrafts DEF WaitInvariant
<1>. QED  BY <1>3, <1>4, <1>5 DEF Step

LEMMA ScannedStaysCommitted ==
  ASSUME WaitInvariant, NEW p \in Proc, Step(p)
  PROVE  ScannedIsCommitted'
<1>0. /\ TypeOK /\ ImportInvariant /\ ScannedIsCommitted /\ DOMAIN scanned = Proc
  BY DEF WaitInvariant, ImportInvariant, TypeOK
<1>. SUFFICES ASSUME NEW q \in Proc, NEW v \in Versions, v \in scanned'[q]
     PROVE  snapshot'[v] # NoSnapshot
  BY DEF ScannedIsCommitted
<1>1. v \in scanned[q] => snapshot'[v] # NoSnapshot
  BY <1>0, RowsStay DEF ScannedIsCommitted
<1>2. CASE q # p
  BY <1>0, <1>1, <1>2, OthersKeep
<1>3. CASE q = p /\ ScanActive(p)
  BY <1>3, ScanFindsOne DEF ScanActive
<1>4. CASE q = p /\ PriceStep(p)
  BY <1>0, <1>4, PricesHaveNoDrafts
<1>5. CASE q = p /\ StationStep(p) /\ ~ScanActive(p)
  <2>1. scanned'[p] \subseteq scanned[p]
    BY <1>0, <1>5 DEF StationStep, BeginStations, CreateSnapshot, DeactivateRow, LockOwnRow,
          Activate, CollideStations, CommitStations, AbortStations, Finish, stationVars
  <2>. QED  BY <1>1, <1>5, <2>1
<1>. QED  BY <1>2, <1>3, <1>4, <1>5 DEF Step

LEMMA RefreshesStayAlone ==
  ASSUME WaitInvariant, NEW p \in Proc, Step(p)
  PROVE  RefreshNeedsNoStation' /\ RefreshStarts'
<1>0. /\ TypeOK /\ ImportInvariant /\ WorkFitsStep /\ RefreshNeedsNoStation /\ RefreshStarts
      /\ DOMAIN work = Proc /\ DOMAIN pc = Proc
  BY DEF WaitInvariant, ImportInvariant, TypeOK
<1>. DEFINE Fits(step, job) ==
       /\ job \in FileWork /\ job.source = Automated =>
             \A i \in DOMAIN job.found : job.found[i] = NoVersion
       /\ step = "source" => job.source = Automated
<1>1. \A q \in Proc : Fits(pc[q], work[q])
  BY <1>0 DEF RefreshNeedsNoStation, RefreshStarts
<1>. SUFFICES ASSUME NEW q \in Proc PROVE Fits(pc'[q], work'[q])
  BY DEF RefreshNeedsNoStation, RefreshStarts
<1>2. CASE q # p
  <2>1. pc'[q] = pc[q] /\ work'[q] = work[q]
    BY <1>0, <1>2, OthersKeep
  <2>. QED  BY <1>1, <2>1
<1>3. CASE q = p /\ StationStep(p)
  <2>1. pc'[p] # "source" /\ work'[p] \notin FileWork
    <3>1. CASE Finish(p)
      BY <1>0, <3>1 DEF Finish, NoWork, FileWork
    <3>2. CASE BeginStations(p)
      BY <1>0, <3>2 DEF BeginStations, FileWork
    <3>3. CASE CreateSnapshot(p) \/ ScanActive(p) \/ DeactivateRow(p) \/ LockOwnRow(p)
               \/ Activate(p)
      <4>1. pc[p] \in Importing /\ work' = work /\ pc'[p] # "source"
        BY <1>0, <3>3 DEF CreateSnapshot, ScanActive, DeactivateRow, LockOwnRow, Activate,
                          Importing
      <4>. QED  BY <1>0, <4>1, StationWorkFits DEF WorkFitsStep
    <3>. QED  BY <1>3, <3>1, <3>2, <3>3
              DEF StationStep, CollideStations, CommitStations, AbortStations
  <2>. QED  BY <1>3, <2>1
<1>4. CASE q = p /\ PriceStep(p)
  <2>1. CASE Finish(p)
    BY <1>0, <1>4, <2>1 DEF Finish, NoWork, FileWork
  <2>2. CASE BeginManual(p)
    <3>1. work'[p].source = Manual /\ pc'[p] = "lookup"
      BY <1>0, <2>2 DEF BeginManual, PriceWork
    <3>. QED  BY <1>4, <3>1 DEF Manual, Automated
  <2>3. CASE LookUpRow(p)
    <3>1. work[p] \in FileWork /\ work[p].source # Automated /\ pc'[p] # "source"
      BY <1>0, <2>3 DEF LookUpRow, WorkFitsStep, ImportInvariant, RefreshHoldsSource
    <3>2. work'[p].source = work[p].source
      BY <1>0, <2>3, <3>1 DEF LookUpRow, FileWork
    <3>. QED  BY <1>4, <3>1, <3>2
  <2>4. CASE BeginRefresh(p)
    <3>1. work'[p] = PriceWork(Automated, NoBatch) /\ pc'[p] = "fetch"
      BY <1>0, <2>4 DEF BeginRefresh
    <3>. QED  BY <1>4, <3>1 DEF PriceWork
  <2>5. CASE FetchPrices(p)
    <3>1. work[p] \in FetchWork
      BY <1>0, <2>5 DEF FetchPrices, WorkFitsStep
    <3>2. PICK content \in Contents :
             work' = [work EXCEPT ![p].file = content,
                                  ![p].found = [i \in DOMAIN content.rows |-> NoVersion]]
      BY <2>5 DEF FetchPrices
    <3>3. /\ work'[p].source = Automated
          /\ work'[p].found = [i \in DOMAIN content.rows |-> NoVersion]
      BY <1>0, <3>1, <3>2 DEF FetchWork
    <3>. QED  BY <1>4, <3>3
  <2>6. CASE work' = work /\ pc'[p] # "source"
    BY <1>1, <1>4, <2>6
  <2>. QED  BY <1>0, <1>4, <2>1, <2>2, <2>3, <2>4, <2>5, <2>6
            DEF PriceStep, RefuseFile, EnterImport, RefuseImport, CreateBatch, CollideBatch,
                LockStation, LockItsSnapshot, StoreRow, SaveCounts, CommitPrices,
                AbortPrices, FinishPrices, FirstStatement, stationVars, priceVars
<1>. QED  BY <1>2, <1>3, <1>4 DEF Step

LEMMA StationsStayFound ==
  ASSUME WaitInvariant, NEW p \in Proc, Step(p)
  PROVE  StationsAreFound'
<1>0. /\ TypeOK /\ ImportInvariant /\ WorkFitsStep /\ StationsAreFound
      /\ DOMAIN work = Proc /\ DOMAIN pc = Proc
  BY DEF WaitInvariant, ImportInvariant, TypeOK
<1>. DEFINE Fits(job) ==
       job \in FileWork =>
         \A i \in DOMAIN job.found : job.found[i] # NoVersion => job.file.rows[i] \in StableIds
<1>1. \A q \in Proc : Fits(work[q])
  BY <1>0 DEF StationsAreFound, File
<1>. SUFFICES ASSUME NEW q \in Proc PROVE Fits(work'[q])
  BY DEF StationsAreFound, File
<1>2. CASE q # p
  <2>1. work'[q] = work[q]
    BY <1>0, <1>2, OthersKeep
  <2>. QED  BY <1>1, <2>1
<1>3. CASE q = p /\ Finish(p)
  BY <1>0, <1>3 DEF Finish, NoWork, FileWork
<1>4. CASE work' = work
  BY <1>1, <1>4
<1>5. CASE q = p /\ BeginStations(p)
  BY <1>0, <1>5 DEF BeginStations, FileWork
<1>6. CASE q = p /\ BeginManual(p)
  <2>1. work'[p].found = <<>>
    BY <1>0, <1>6 DEF BeginManual, PriceWork
  <2>. QED  BY <1>6, <2>1
<1>7. CASE q = p /\ BeginRefresh(p)
  <2>1. work'[p].found = <<>>
    BY <1>0, <1>7 DEF BeginRefresh, PriceWork
  <2>. QED  BY <1>7, <2>1
<1>8. CASE q = p /\ FetchPrices(p)
  <2>1. work[p] \in FetchWork
    BY <1>0, <1>8 DEF FetchPrices, WorkFitsStep
  <2>2. PICK content \in Contents :
           work' = [work EXCEPT ![p].file = content,
                                ![p].found = [i \in DOMAIN content.rows |-> NoVersion]]
    BY <1>8 DEF FetchPrices
  <2>3. work'[p].found = [i \in DOMAIN content.rows |-> NoVersion]
    BY <1>0, <2>1, <2>2 DEF FetchWork
  <2>. QED  BY <1>8, <2>3
<1>9. CASE q = p /\ LookUpRow(p)
  <2>. DEFINE place == File(p).rows[Len(work[p].found) + 1]
  <2>1. work[p] \in FileWork /\ Len(work[p].found) < Len(File(p).rows)
    BY <1>0, <1>9 DEF LookUpRow, WorkFitsStep, ImportInvariant, RowsAreFound
  <2>2. /\ work[p].found \in Seq(Versions \union {NoVersion})
        /\ File(p).rows \in Seq(Geography)
    BY <2>1 DEF FileWork, PriceFile, File
  <2>3. PICK v \in Located(p, place) :
           work' = [work EXCEPT ![p].found = Append(@, v)]
    BY <1>9 DEF LookUpRow
  <2>4. work'[p].found = Append(work[p].found, v) /\ work'[p].file.rows = File(p).rows
    BY <1>0, <2>1, <2>3 DEF FileWork, File
  <2>5. place \in Geography
    BY <2>1, <2>2
  <2>6. v # NoVersion => place \in StableIds
    BY <2>3, <2>5 DEF Located, Geography
  <2>7. ASSUME NEW i \in DOMAIN work'[p].found, work'[p].found[i] # NoVersion
        PROVE  File(p).rows[i] \in StableIds
    <3>1. CASE i = Len(work[p].found) + 1
      BY <2>2, <2>4, <2>6, <2>7, <3>1
    <3>2. CASE i # Len(work[p].found) + 1
      <4>1. i \in DOMAIN work[p].found /\ work[p].found[i] = work'[p].found[i]
        BY <2>2, <2>4, <2>7, <3>2
      <4>. QED  BY <1>0, <2>1, <2>7, <4>1 DEF StationsAreFound
    <3>. QED  BY <3>1, <3>2
  <2>. QED  BY <1>9, <2>4, <2>7
<1>10. CASE StationStep(p)
  BY <1>2, <1>3, <1>4, <1>5, <1>10
     DEF StationStep, CreateSnapshot, ScanActive, DeactivateRow, LockOwnRow, Activate,
         CollideStations, CommitStations, AbortStations
<1>11. CASE PriceStep(p)
  BY <1>2, <1>3, <1>4, <1>6, <1>7, <1>8, <1>9, <1>11
     DEF PriceStep, RefuseFile, EnterImport, RefuseImport, CreateBatch, CollideBatch,
         LockStation, LockItsSnapshot, StoreRow, SaveCounts, CommitPrices, AbortPrices,
         FinishPrices, stationVars, priceVars
<1>. QED  BY <1>10, <1>11 DEF Step

LEMMA WaitKept == WaitInvariant /\ [Next]_vars => WaitInvariant'
<1>. SUFFICES ASSUME WaitInvariant, [Next]_vars PROVE WaitInvariant'
  OBVIOUS
<1>1. ImportInvariant'
  BY InvariantKept DEF WaitInvariant
<1>2. CASE \E p \in Proc : Step(p)
  BY <1>1, <1>2, LocksStillFit, OneStaysBesides, ScannedStaysCommitted, RefreshesStayAlone,
     StationsStayFound
     DEF WaitInvariant
<1>3. CASE UNCHANGED vars \/ \E s \in Sources : SyncSource(s)
  <2>1. UNCHANGED <<snapshot, draft, scanned, lock, pc, work, batch, draftBatch>>
    BY <1>3 DEF SyncSource, stationVars, vars
  <2>2. LocksFitStep'
    BY <2>1 DEF WaitInvariant, LocksFitStep, MayHold, Own, PastFirstRow, At, LockKey
  <2>3. OneRowBesides' /\ ScannedIsCommitted'
    BY <2>1 DEF WaitInvariant, OneRowBesides, Reached, Own, ScannedIsCommitted
  <2>4. RefreshNeedsNoStation' /\ RefreshStarts' /\ StationsAreFound'
    BY <2>1 DEF WaitInvariant, RefreshNeedsNoStation, RefreshStarts, StationsAreFound, File
  <2>. QED  BY <1>1, <2>2, <2>3, <2>4 DEF WaitInvariant
<1>. QED  BY <1>2, <1>3, StepsOfNext

LEMMA WaitAtStart == Init => WaitInvariant
<1>. SUFFICES ASSUME Init PROVE WaitInvariant
  OBVIOUS
<1>1. ImportInvariant
  BY InvariantAtStart
<1>2. /\ \A p \in Proc : pc[p] = "idle" /\ work[p] = NoWork /\ scanned[p] = {}
      /\ \A key \in LockKey : lock[key] = Free
  BY DEF Init, StationInit
<1>3. NoWork \notin StationWork \union FileWork
  BY DEF NoWork, StationWork, FileWork
<1>. QED  BY <1>1, <1>2, <1>3, StationImportsAssumption
          DEF WaitInvariant, LocksFitStep, OneRowBesides, ScannedIsCommitted,
              RefreshNeedsNoStation, RefreshStarts, StationsAreFound

--------------------------------------------------------------------------------
(* Cycles                                                                      *)

LEMMA WaitCases ==
  ASSUME NEW p \in Proc, NEW q \in Proc, WaitsFor(p, q)
  PROVE  /\ p # q
         /\ \/ pc[p] = "create" /\ lock[<<"snapshot", Own(p)>>] = q
            \/ /\ pc[p] = "deactivate" /\ scanned[p] = {}
               /\ lock[<<"snapshot", Own(p)>>] = q
            \/ /\ pc[p] = "deactivate"
               /\ \E v \in scanned[p] : lock[<<"snapshot", v>>] = q
            \/ pc[p] = "source" /\ lock[<<"source", Automated>>] = q
            \/ /\ pc[p] = "station"
               /\ lock[<<"station", <<work[p].found[At(p)], File(p).rows[At(p)]>>>>] = q
            \/ pc[p] = "snapshot" /\ lock[<<"snapshot", work[p].found[At(p)]>>] = q
            \/ /\ pc[p] = "activate"
               /\ \E v \in Undecided(p) : lock[<<"snapshot", v>>] = q
            \/ /\ pc[p] = "batch" /\ draftBatch[q] # NoBatch /\ BatchKey(q) = BatchKey(p)
BY DEF WaitsFor

\* What keeps an activation waiting is a row that is active and that the other
\* run, an activation like it, has deactivated.
LEMMA ActivationWaits ==
  ASSUME WaitInvariant, NEW p \in Proc, NEW q \in Proc, WaitsFor(p, q), pc[p] = "activate",
         pc[q] # "commit"
  PROVE  \E v \in Versions : /\ MarketOf[v] = MarketOf[Own(p)] /\ IsActive(snapshot[v])
                             /\ draft[q][v] # NoSnapshot /\ lock[<<"snapshot", v>>] = q
                             /\ work[q] \in StationWork /\ MarketOf[v] = MarketOf[Own(q)]
<1>1. PICK v \in Undecided(p) : lock[<<"snapshot", v>>] = q
  BY WaitCases
<1>2. PICK r \in Proc \ {p} : \/ IsActive(draft[r][v])
                              \/ IsActive(snapshot[v]) /\ draft[r][v] # NoSnapshot
  BY DEF Undecided
<1>3. v \in Versions /\ MarketOf[v] = MarketOf[Own(p)]
  BY DEF Undecided
<1>4. draft[r][v] # NoSnapshot /\ r = q
  BY <1>1, <1>2, <1>3 DEF IsActive, WaitInvariant, ImportInvariant, RowsAreLocked
<1>5. ~IsActive(draft[q][v])
  BY <1>3 DEF WaitInvariant, ImportInvariant, DraftsFitStep
<1>6. work[q] \in StationWork /\ MarketOf[v] = MarketOf[Own(q)]
  BY <1>3, <1>4 DEF WaitInvariant, ImportInvariant, DraftsFitStep
<1>. QED  BY <1>1, <1>2, <1>3, <1>4, <1>5, <1>6

LEMMA NoCycle == WaitInvariant => DeadlockNeedsOlderRow
<1>. SUFFICES ASSUME WaitInvariant, NEW S \in SUBSET Proc, Deadlocked(S),
                     \A p \in S : ~PastFirstRow(p) /\ ~SwitchesBack(p)
              PROVE  FALSE
  BY DEF DeadlockNeedsOlderRow, PastFirstRow
<1>0. /\ ImportInvariant /\ TypeOK /\ WorkFitsStep /\ DraftsFitStep /\ RowsAreLocked
      /\ OneActivePerMarket
  BY DEF WaitInvariant, ImportInvariant
<1>1. \A p \in S : /\ p \in Proc
                   /\ \E q \in S : WaitsFor(p, q)
                   /\ pc[p] \in {"create", "deactivate", "source", "station", "snapshot",
                                 "activate", "batch"}
  BY WaitCases DEF Deadlocked
<1>k. \A v \in Versions : <<"snapshot", v>> \in LockKey
  BY KeyTypes
\* The snapshots held in the cycle are held by activations.
<1>2. ASSUME NEW q \in S, NEW v \in Versions, lock[<<"snapshot", v>>] = q
      PROVE  /\ pc[q] \in {"deactivate", "activate"} /\ work[q] \in StationWork
             /\ v = Own(q) \/ v \notin scanned[q]
  <2>1. MayHold(q, <<"snapshot", v>>)
    BY <1>1, <1>2, <1>k DEF WaitInvariant, LocksFitStep
  <2>. QED  BY <1>1, <2>1 DEF MayHold
\* None of them has its own snapshot committed already.
<1>3. ASSUME NEW q \in S, work[q] \in StationWork
      PROVE  snapshot[Own(q)] = NoSnapshot /\ Own(q) \in Versions
  BY <1>1, <1>3, StationWorkFits DEF SwitchesBack
<1>4. ASSUME NEW q \in S, pc[q] = "deactivate" PROVE scanned[q] # {}
  <2>. SUFFICES ASSUME scanned[q] = {} PROVE FALSE
    OBVIOUS
  <2>1. PICK r \in S : WaitsFor(q, r)
    BY <1>1
  <2>2. r # q /\ lock[<<"snapshot", Own(q)>>] = r
    BY <1>1, <1>4, <2>1, WaitCases
  <2>3. work[q] \in StationWork
    BY <1>0, <1>1, <1>4 DEF WorkFitsStep, Importing
  <2>4. draft[q][Own(q)] # NoSnapshot
    BY <1>0, <1>1, <1>3, <1>4, <2>3 DEF DraftsFitStep, Importing, Seen
  <2>. QED  BY <1>0, <1>1, <1>3, <2>2, <2>3, <2>4 DEF RowsAreLocked
\* One that has locked a committed row has locked the one it saw active.
<1>5. ASSUME NEW q \in S, NEW v \in Versions, lock[<<"snapshot", v>>] = q,
             snapshot[v] # NoSnapshot
      PROVE  pc[q] = "activate"
  <2>. SUFFICES ASSUME pc[q] # "activate" PROVE FALSE
    OBVIOUS
  <2>1. pc[q] = "deactivate" /\ work[q] \in StationWork
    BY <1>2, <1>5
  <2>2. PICK w \in scanned[q] : TRUE
    BY <1>4, <2>1
  <2>3. w \in Versions /\ snapshot[w] # NoSnapshot
    BY <1>0, <1>1 DEF TypeOK, WaitInvariant, ScannedIsCommitted
  <2>4. v # Own(q) /\ w # Own(q) /\ v \notin scanned[q]
    BY <1>2, <1>3, <1>5, <2>1, <2>3
  <2>5. v \in Reached(q) /\ w \in Reached(q)
    BY <1>5, <2>3, <2>4 DEF Reached
  <2>6. v = w
    BY <1>1, <2>1, <2>5 DEF WaitInvariant, OneRowBesides
  <2>. QED  BY <2>4, <2>6
\* Of two activations that wait, the second holds the market's only active row.
<1>6. ASSUME NEW p \in S PROVE pc[p] # "activate"
  <2>. SUFFICES ASSUME pc[p] = "activate" PROVE FALSE
    OBVIOUS
  <2>1. PICK q \in S : WaitsFor(p, q)
    BY <1>1
  <2>2. PICK v \in Versions : /\ IsActive(snapshot[v]) /\ MarketOf[v] = MarketOf[Own(q)]
                              /\ lock[<<"snapshot", v>>] = q
    BY <1>1, <2>1, ActivationWaits
  <2>3. pc[q] = "activate"
    BY <1>5, <2>2 DEF IsActive
  <2>4. PICK r \in S : WaitsFor(q, r)
    BY <1>1
  <2>5. PICK w \in Versions : /\ IsActive(snapshot[w]) /\ MarketOf[w] = MarketOf[Own(q)]
                              /\ lock[<<"snapshot", w>>] = r
    BY <1>1, <2>3, <2>4, ActivationWaits
  <2>6. v = w
    BY <1>0, <2>2, <2>5 DEF OneActivePerMarket
  <2>7. q # r
    BY <1>1, <2>4, WaitCases
  <2>. QED  BY <2>2, <2>5, <2>6, <2>7
<1>7. ASSUME NEW p \in S PROVE pc[p] # "deactivate"
  <2>. SUFFICES ASSUME pc[p] = "deactivate" PROVE FALSE
    OBVIOUS
  <2>1. PICK q \in S : WaitsFor(p, q)
    BY <1>1
  <2>2. PICK v \in scanned[p] : lock[<<"snapshot", v>>] = q
    BY <1>1, <1>4, <2>1, WaitCases
  <2>3. v \in Versions /\ snapshot[v] # NoSnapshot
    BY <1>0, <1>1 DEF TypeOK, WaitInvariant, ScannedIsCommitted
  <2>. QED  BY <1>5, <1>6, <2>2, <2>3
\* So nobody in the cycle holds a snapshot.
<1>8. ASSUME NEW q \in S, NEW v \in Versions PROVE lock[<<"snapshot", v>>] # q
  BY <1>2, <1>6, <1>7
<1>9. ASSUME NEW p \in S PROVE pc[p] \notin {"create", "snapshot"}
  <2>1. PICK q \in S : WaitsFor(p, q)
    BY <1>1
  <2>2. CASE pc[p] = "create"
    <3>1. work[p] \in StationWork
      BY <1>0, <1>1, <2>2 DEF WorkFitsStep, Importing
    <3>. QED  BY <1>1, <1>3, <1>8, <2>1, <2>2, <3>1, WaitCases
  <2>3. CASE pc[p] = "snapshot"
    <3>1. work[p].found[At(p)] \in Versions
      <4>1. work[p] \in FileWork /\ work[p].found[At(p)] # NoVersion
        BY <1>0, <1>1, <2>3 DEF WorkFitsStep, Storing, ImportInvariant, RowsAreFound
      <4>. QED  BY <1>0, <1>1, <2>3, <4>1, NextRow DEF Storing
    <3>. QED  BY <1>1, <1>8, <2>1, <2>3, <3>1, WaitCases
  <2>. QED  BY <2>2, <2>3
<1>10. ASSUME NEW p \in S PROVE pc[p] # "station"
  <2>. SUFFICES ASSUME pc[p] = "station" PROVE FALSE
    OBVIOUS
  <2>1. PICK q \in S : WaitsFor(p, q)
    BY <1>1
  <2>. DEFINE key == <<"station", <<work[p].found[At(p)], File(p).rows[At(p)]>>>>
  <2>2. lock[key] = q
    BY <1>1, <2>1, WaitCases
  <2>3. key \in LockKey
    <3>1. work[p] \in FileWork /\ work[p].found[At(p)] # NoVersion
      BY <1>0, <1>1 DEF WorkFitsStep, Storing, ImportInvariant, RowsAreFound
    <3>2. /\ Len(work[p].found) = Len(File(p).rows)
          /\ work[p].found \in Seq(Versions \union {NoVersion})
      BY <1>0, <1>1, <3>1 DEF ImportInvariant, RowsAreFound, Storing, FileWork
    <3>3. /\ At(p) \in DOMAIN work[p].found
          /\ work[p].found[At(p)] \in Versions
      BY <1>0, <1>1, <3>1, <3>2, NextRow
    <3>4. File(p).rows[At(p)] \in StableIds
      BY <1>1, <3>1, <3>3 DEF WaitInvariant, StationsAreFound
    <3>. QED  BY <3>3, <3>4 DEF LockKey
  <2>4. MayHold(q, key)
    BY <1>1, <2>2, <2>3 DEF WaitInvariant, LocksFitStep
  <2>. QED  BY <1>1, <1>9, <2>4 DEF MayHold
\* All that are left are about to insert a batch, or to lock a source.
<1>11. ASSUME NEW p \in S PROVE pc[p] # "batch"
  <2>. SUFFICES ASSUME pc[p] = "batch" PROVE FALSE
    OBVIOUS
  <2>1. PICK q \in S : WaitsFor(p, q)
    BY <1>1
  <2>2. draftBatch[q] # NoBatch
    BY <1>1, <2>1, WaitCases
  <2>3. pc[q] \in Storing \union {"commit"}
    BY <1>0, <1>1, <2>2 DEF ImportInvariant, BatchFitsStep
  <2>. QED  BY <1>1, <1>9, <1>10, <2>3 DEF Storing
<1>12. PICK p \in S : pc[p] = "source"
  BY <1>1, <1>6, <1>7, <1>9, <1>10, <1>11 DEF Deadlocked
<1>13. PICK q \in S : WaitsFor(p, q)
  BY <1>1
<1>14. lock[<<"source", Automated>>] = q
  BY <1>1, <1>12, <1>13, WaitCases
<1>. QED  BY <1>1, <1>6, <1>7, <1>9, <1>10, <1>11, <1>14, HoldsNothing, KeyTypes

\* Station imports, price imports and refreshes wait for each other in a circle
\* only over a manual import past its first row or the activation of an older
\* snapshot (the lock order of _locked_station, import_provider_prices and
\* import_osm_stations).
THEOREM ImportDeadlocksNeedOlderRows == Spec => []DeadlockNeedsOlderRow
<1>. QED  BY WaitAtStart, WaitKept, NoCycle, PTL DEF Spec

--------------------------------------------------------------------------------
(* The parser of the provider's answers: what it takes is in time.              *)

\* The six o'clock before an observation is less than a day earlier.
LEMMA EffectiveBefore ==
  ASSUME NEW observed \in Int
  PROVE  /\ Mitra!Effective(observed) \in Int
         /\ Mitra!Effective(observed) <= observed
         /\ observed < Mitra!Effective(observed) + 288
<1>. DEFINE day == observed \div 288
<1>1. day \in Int /\ day * 288 <= observed /\ observed < day * 288 + 288
  BY Z3
<1>. HIDE DEF day
<1>2. /\ Mitra!Day = 288 /\ Mitra!Hours(6) = 72
  BY DEF Mitra!Day, Mitra!Hours, Mitra!Minutes
<1>3. Mitra!Effective(observed) = IF day * 288 + 72 > observed
                                  THEN day * 288 + 72 - 288 ELSE day * 288 + 72
  BY <1>2 DEF Mitra!Effective, day
<1>. QED  BY <1>1, <1>3

\* The spans of the parser and the ledger in twelfths of an hour.
LEMMA Spans ==
  /\ Mitra!Minutes(5) = 1 /\ Mitra!Hours(36) = 432 /\ Mitra!Hours(30) = 360
  /\ Mitra!Hours(12) = 144 /\ Mitra!Hours(24) = 288 /\ Mitra!Hours(6) = 72
  /\ Mitra!Hours(48) = 576 /\ Mitra!Day = 288
BY DEF Mitra!Day, Mitra!Hours, Mitra!Minutes

\* A price of an accepted answer comes from one of its rows.
LEMMA ParsedFromRow ==
  ASSUME NEW answer \in Answer, NEW price \in Mitra!Parsed(answer.rows, answer.at)
  PROVE  \E i \in DOMAIN answer.rows :
            /\ Mitra!Readable(answer.rows[i], answer.at)
            /\ answer.rows[i].observed \in Int /\ answer.at \in Int
            /\ price.observed = answer.rows[i].observed
            /\ price.effective = Mitra!Effective(answer.rows[i].observed)
            /\ price.expires = Mitra!Expires(answer.rows[i].observed)
            /\ price.price \in 20..300
<1>. DEFINE rows == answer.rows
            at == answer.at
<1>1. rows \in Seq(ProviderRow) /\ at \in Int
  BY DEF Answer
<1>2. Mitra!Taken(rows, at)
  BY DEF Mitra!Parsed
<1>0. price \in Mitra!Parsed(rows, at)
  OBVIOUS
<1>. HIDE DEF rows, at
<1>3. PICK i \in DOMAIN rows : \E fuel \in Mitra!Sold(rows[i]) :
         price = [place |-> <<rows[i].kind, rows[i].name>>, fuel |-> fuel,
                  price |-> rows[i].product[fuel].price,
                  observed |-> rows[i].observed,
                  effective |-> Mitra!Effective(rows[i].observed),
                  expires |-> Mitra!Expires(rows[i].observed)]
  BY <1>0, <1>2 DEF Mitra!Parsed
<1>4. Mitra!Readable(rows[i], at)
  BY <1>2 DEF Mitra!Taken
<1>5. \A fuel \in Mitra!Sold(rows[i]) : rows[i].product[fuel].price \in 20..300
  BY <1>4 DEF Mitra!Readable, Mitra!Priced
<1>6. rows[i].observed \in Int
  <2>1. rows[i] \in ProviderRow
    BY <1>1
  <2>. QED  BY <2>1 DEF ProviderRow
<1>7. /\ price.observed = rows[i].observed
      /\ price.effective = Mitra!Effective(rows[i].observed)
      /\ price.expires = Mitra!Expires(rows[i].observed)
      /\ price.price \in 20..300
  <2>1. PICK fuel \in Mitra!Sold(rows[i]) :
           price = [place |-> <<rows[i].kind, rows[i].name>>, fuel |-> fuel,
                    price |-> rows[i].product[fuel].price,
                    observed |-> rows[i].observed,
                    effective |-> Mitra!Effective(rows[i].observed),
                    expires |-> Mitra!Expires(rows[i].observed)]
    BY <1>3
  <2>2. price.price = rows[i].product[fuel].price
    BY <2>1
  <2>3. price.price \in 20..300
    BY <1>5, <2>2
  <2>. QED  BY <2>1, <2>3
<1>. QED  BY <1>1, <1>4, <1>6, <1>7 DEF rows, at

\* The ledger's clock and bounds let a price pass that the parser took, up to
\* half a day later.
LEMMA LedgerTakes ==
  ASSUME NEW observed \in Int, NEW received \in Int, NEW cmd,
         cmd.observed = observed, cmd.price \in 20..300,
         observed <= received + 1, received - 576 <= observed
  PROVE  ~Mitra!Ledger!Rejects(cmd, received, Mitra!PlaceContext)
<1>1. /\ Mitra!DefaultPolicy.minPrice = 20 /\ Mitra!DefaultPolicy.maxPrice = 300
      /\ Mitra!DefaultPolicy.maxAge = 576 /\ Mitra!DefaultPolicy.futureSkew = 1
  BY Spans DEF Mitra!DefaultPolicy
<1>2. Mitra!PlaceContext.eligible /\ ~Mitra!PlaceContext.duplicate
  BY DEF Mitra!PlaceContext
<1>. QED  BY <1>1, <1>2 DEF Mitra!Ledger!Rejects

LEMMA AnswerParsed ==
  ASSUME NEW answer \in Answer
  PROVE  /\ Mitra!ParsedPricesAreStorable(answer.rows, answer.at)
         /\ Mitra!LastsUntilNextRefresh(answer.rows, answer.at)
<1>. DEFINE rows == answer.rows
            at == answer.at
<1>1. SUFFICES ASSUME NEW price \in Mitra!Parsed(rows, at)
               PROVE  /\ price.expires > price.observed
                      /\ price.expires > at
                      /\ price.effective <= price.observed
                      /\ price.observed < price.effective + Mitra!Day
                      /\ \A received \in {at, at + Mitra!Hours(12)} :
                            ~Mitra!Ledger!Rejects(price, received, Mitra!PlaceContext)
                      /\ price.expires >= at + Mitra!Hours(24)
                            <=> at <= price.effective + Mitra!Hours(6)
  BY DEF Mitra!ParsedPricesAreStorable, Mitra!LastsUntilNextRefresh
<1>2. PICK i \in DOMAIN rows :
         /\ Mitra!Readable(rows[i], at)
         /\ rows[i].observed \in Int /\ at \in Int
         /\ price.observed = rows[i].observed
         /\ price.effective = Mitra!Effective(rows[i].observed)
         /\ price.expires = Mitra!Expires(rows[i].observed)
         /\ price.price \in 20..300
  BY ParsedFromRow
<1>. DEFINE observed == rows[i].observed
            effective == Mitra!Effective(observed)
<1>3. /\ effective \in Int /\ effective <= observed /\ observed < effective + 288
  BY <1>2, EffectiveBefore
<1>4. /\ observed <= at + 1 /\ at - 432 <= observed /\ effective + 360 > at
      /\ price.expires = effective + 360
  BY <1>2, Spans DEF Mitra!Readable, Mitra!Timely, Mitra!Expires
<1>5. ASSUME NEW received \in {at, at + 144}
      PROVE  ~Mitra!Ledger!Rejects(price, received, Mitra!PlaceContext)
  <2>1. received \in Int /\ observed <= received + 1 /\ received - 576 <= observed
    BY <1>2, <1>4
  <2>. QED  BY <1>2, <2>1, LedgerTakes
<1>. QED  BY <1>2, <1>3, <1>4, <1>5, Spans

--------------------------------------------------------------------------------
(* The normalisation of a file: one feature at a time.                          *)


\* Induction over the numbers, for a property given as the set that has it: the
\* least number without it would have a predecessor with it.
LEMMA AllNumbers ==
    ASSUME NEW P, 0 \in P, \A n \in Nat : n \in P => n + 1 \in P
    PROVE  Nat \subseteq P
<1> DEFINE Without == Nat \ P
<1> SUFFICES ASSUME Without # {} PROVE FALSE
  OBVIOUS
<1> DEFINE R == {p \in Nat \X Nat : p[1] < p[2]}
<1>0. IsWellFoundedOn(R, Nat)
  BY NatLessThanWellFounded DEF OpToRel
<1>1. PICK n \in Without : \A m \in Without : ~(<<m, n>> \in R)
  <2> HIDE DEF R
  <2> QED BY <1>0, WFMin
<1>2. n \in Nat \ {0} /\ n - 1 \in Nat /\ n - 1 < n
  BY <1>1
<1>3. <<n - 1, n>> \in R
  BY <1>2
<1>4. n - 1 \in P
  BY <1>1, <1>2, <1>3
<1> QED BY <1>1, <1>2, <1>4

\* What has been made of the first n features of a file.
MadeInTurn(g, features, infer) ==
    /\ g[0] = Nothing /\ g[Len(features)] = Normalized(features, infer)
    /\ \A n \in Nat : n + 1 <= Len(features) =>
          g[n + 1] = Counted(g[n], features[n + 1], infer)

\* The fold of the library works on sets of positions, the last one first.
LastFirst(h, D, features, infer) ==
    h = [t \in SUBSET D |->
            IF t = {} THEN Nothing
            ELSE Counted(h[t \ {Max(t)}], features[Max(t)], infer)]

LEMMA LastOfUpTo ==
  ASSUME NEW n \in Nat, NEW t \in SUBSET (1..(n + 1)), n + 1 \in t
  PROVE  Max(t) = n + 1 /\ t \ {Max(t)} \in SUBSET (1..n)
<1>1. \A x \in t : x \in Int /\ n + 1 >= x
  OBVIOUS
<1>2. \A m \in t : (\A x \in t : m >= x) => m = n + 1
  BY <1>1
<1>3. Max(t) = n + 1
  BY <1>1, <1>2 DEF Max
<1>. QED  BY <1>3

LEMMA LastFirstExists ==
  ASSUME NEW features, NEW infer, NEW n \in Nat
  PROVE  \E h : LastFirst(h, 1..n, features, infer)
<1>. DEFINE Value(h, t) == IF t = {} THEN Nothing
                           ELSE Counted(h[t \ {Max(t)}], features[Max(t)], infer)
            Fits(h, m) == /\ DOMAIN h = SUBSET (1..m)
                          /\ h = [t \in SUBSET (1..m) |-> Value(h, t)]
            P == {m \in Nat : \E h : Fits(h, m)}
<1>1. 0 \in P
  <2>. DEFINE h == [t \in SUBSET (1..0) |-> Nothing]
  <2>1. \A t \in SUBSET (1..0) : t = {}
    OBVIOUS
  <2>2. Fits(h, 0)
    BY <2>1
  <2>. HIDE DEF Fits
  <2>. QED  BY <2>2
<1>2. ASSUME NEW m \in Nat, m \in P PROVE m + 1 \in P
  <2>1. PICK h : Fits(h, m)
    BY <1>2
  <2>. DEFINE Grown(t) == Counted(h[t \ {m + 1}], features[m + 1], infer)
              next == [t \in SUBSET (1..(m + 1)) |-> IF m + 1 \in t THEN Grown(t) ELSE h[t]]
  <2>2. ASSUME NEW t \in SUBSET (1..(m + 1)) PROVE next[t] = Value(next, t)
    <3>1. CASE m + 1 \in t
      <4>1. /\ Max(t) = m + 1 /\ t \ {m + 1} \in SUBSET (1..m)
            /\ t \ {m + 1} \in SUBSET (1..(m + 1))
        BY <3>1, LastOfUpTo
      <4>2. next[t \ {m + 1}] = h[t \ {m + 1}]
        BY <4>1
      <4>3. next[t] = Counted(h[t \ {m + 1}], features[m + 1], infer)
        BY <3>1
      <4>. HIDE DEF next
      <4>. QED  BY <3>1, <4>1, <4>2, <4>3
    <3>2. CASE m + 1 \notin t
      <4>1. ASSUME NEW u \in SUBSET t
            PROVE  /\ u \in SUBSET (1..m) /\ u \in SUBSET (1..(m + 1))
                   /\ m + 1 \notin u
        <5>1. \A x \in u : x \in 1..(m + 1) /\ x # m + 1
          BY <3>2
        <5>. QED  BY <5>1
      <4>0. t \in SUBSET t /\ t \ {Max(t)} \in SUBSET t
        OBVIOUS
      <4>. HIDE DEF Grown
      <4>2. next[t] = h[t] /\ next[t \ {Max(t)}] = h[t \ {Max(t)}]
        BY <3>2, <4>0, <4>1
      <4>3. h[t] = Value(h, t)
        BY <2>1, <4>0, <4>1
      <4>. HIDE DEF next
      <4>. QED  BY <4>2, <4>3
    <3>. QED  BY <3>1, <3>2
  <2>3. DOMAIN next = SUBSET (1..(m + 1))
    OBVIOUS
  <2>4. next = [t \in SUBSET (1..(m + 1)) |-> next[t]]
    OBVIOUS
  <2>. HIDE DEF next, Value
  <2>5. Fits(next, m + 1)
    BY <2>2, <2>3, <2>4
  <2>. QED  BY <2>5
<1>3. n \in P
  <2>. HIDE DEF P
  <2>. QED  BY <1>1, <1>2, AllNumbers
<1>. QED  BY <1>3 DEF LastFirst

LEMMA MadeOneByOne ==
  ASSUME NEW features \in FeatureLists, NEW infer
  PROVE  \E g : MadeInTurn(g, features, infer)
<1>. DEFINE D == DOMAIN features
            iter == CHOOSE h : LastFirst(h, D, features, infer)
<1>1. Normalized(features, infer) = iter[D]
  BY DEF Normalized, FoldLeft, MapThenFoldSet, LastFirst
<1>2. D = 1..Len(features) /\ Len(features) \in Nat
  BY ImportsAssumption
<1>3. LastFirst(iter, D, features, infer)
  BY <1>2, LastFirstExists
<1>. HIDE DEF iter
<1>4. \A t \in SUBSET D :
         iter[t] = IF t = {} THEN Nothing
                   ELSE Counted(iter[t \ {Max(t)}], features[Max(t)], infer)
  BY <1>3 DEF LastFirst
<1>. HIDE DEF D
<1>. DEFINE g == [n \in 0..Len(features) |-> iter[1..n]]
<1>5. iter[1..0] = Nothing
  <2>1. 1..0 = {} /\ {} \in SUBSET D
    OBVIOUS
  <2>. QED  BY <1>4, <2>1
<1>6. ASSUME NEW n \in Nat, n + 1 <= Len(features)
      PROVE  iter[1..(n + 1)] = Counted(iter[1..n], features[n + 1], infer)
  <2>. DEFINE l == Len(features)
  <2>1. l \in Nat /\ n + 1 <= l
    BY <1>2, <1>6
  <2>. HIDE DEF l
  <2>2. 1..(n + 1) \subseteq 1..l /\ n + 1 \in 1..(n + 1) /\ (1..(n + 1)) \ {n + 1} = 1..n
    BY <2>1
  <2>3. 1..(n + 1) \in SUBSET D
    BY <1>2, <2>2 DEF l
  <2>4. Max(1..(n + 1)) = n + 1
    BY <2>2, LastOfUpTo
  <2>. QED  BY <1>4, <2>2, <2>3, <2>4
<1>7. \A n \in 0..Len(features) : g[n] = iter[1..n]
  OBVIOUS
<1>8. /\ 0 \in 0..Len(features) /\ Len(features) \in 0..Len(features)
      /\ \A n \in Nat : n + 1 <= Len(features) =>
            n \in 0..Len(features) /\ n + 1 \in 0..Len(features)
  BY <1>2
<1>. HIDE DEF g
<1>9. g[Len(features)] = Normalized(features, infer)
  BY <1>1, <1>2, <1>7, <1>8
<1>10. g[0] = Nothing
  BY <1>5, <1>7, <1>8
<1>11. \A n \in Nat : n + 1 <= Len(features) =>
          g[n + 1] = Counted(g[n], features[n + 1], infer)
  BY <1>6, <1>7, <1>8
<1>. QED  BY <1>9, <1>10, <1>11 DEF MadeInTurn

Key(features, i) == StableId[features[i].id]

\* The usable features among the first n, and the first of each identity.
UsableUpTo(features, n) == {i \in 1..n : features[i].ok}

FirstsUpTo(features, n) ==
    {i \in UsableUpTo(features, n) :
        \A j \in UsableUpTo(features, n) : Key(features, j) = Key(features, i) => i <= j}

SeenUpTo(features, n) == {Key(features, i) : i \in UsableUpTo(features, n)}

StationAt(features, i) == [stable |-> Key(features, i), source |-> features[i].id]

\* What n features make, typed ...
MadeType == [stations: SUBSET [stable: StableIds, source: SourceIds],
             fuels: SUBSET (StableIds \X Fuels \X BOOLEAN), seen: SUBSET StableIds,
             invalid: Nat, duplicate: Nat, tagged: Nat, inferred: Nat]

\* ... and counted, each identity once.
Made(r, features, infer, n) ==
    /\ r \in MadeType
    /\ r.seen = SeenUpTo(features, n) /\ IsFiniteSet(r.seen)
    /\ r.stations = {StationAt(features, i) : i \in FirstsUpTo(features, n)}
    /\ n = Cardinality(r.seen) + r.invalid + r.duplicate
    /\ \A row \in r.fuels : row[1] \in r.seen
    /\ \A row, other \in r.fuels :
          row[1] = other[1] /\ row[2] = other[2] => row = other
    /\ infer => r.tagged + r.inferred = Cardinality(r.seen)

\* A feature's fuels are either tagged or inferred, each fuel once.
LEMMA FuelRowsFit ==
  ASSUME NEW feature \in Feature, NEW infer \in BOOLEAN
  PROVE  /\ FuelRows(feature, infer) \in SUBSET (Fuels \X BOOLEAN)
         /\ \A row, other \in FuelRows(feature, infer) : row[1] = other[1] => row = other
         /\ infer => ((\E row \in FuelRows(feature, infer) : ~row[2])
                        <=> ~(\E row \in FuelRows(feature, infer) : row[2]))
<1>0. feature.tags \in SUBSET Fuels /\ Fuels # {}
  BY DEF Feature, Fuels
<1>1. CASE feature.tags = {} /\ infer
  <2>1. FuelRows(feature, infer) = {<<fuel, TRUE>> : fuel \in Fuels}
    BY <1>1 DEF FuelRows
  <2>2. \A row \in FuelRows(feature, infer) :
           row \in Fuels \X BOOLEAN /\ row[2] = TRUE
    <3>1. \A fuel \in Fuels : <<fuel, TRUE>> \in Fuels \X BOOLEAN
      BY <1>0
    <3>. QED  BY <2>1, <3>1
  <2>3. \E row \in FuelRows(feature, infer) : TRUE
    BY <1>0, <2>1
  <2>. QED  BY <2>2, <2>3
<1>2. CASE ~(feature.tags = {} /\ infer)
  <2>1. FuelRows(feature, infer) = {<<fuel, FALSE>> : fuel \in feature.tags}
    BY <1>2 DEF FuelRows
  <2>2. \A row \in FuelRows(feature, infer) :
           row \in Fuels \X BOOLEAN /\ row[2] = FALSE
    <3>. DEFINE tags == feature.tags
    <3>1. \A fuel \in tags : <<fuel, FALSE>> \in Fuels \X BOOLEAN
      BY <1>0
    <3>. HIDE DEF tags
    <3>2. FuelRows(feature, infer) = {<<fuel, FALSE>> : fuel \in tags}
      BY <2>1 DEF tags
    <3>. QED  BY <3>1, <3>2
  <2>3. infer => \E row \in FuelRows(feature, infer) : TRUE
    BY <1>0, <1>2, <2>1
  <2>. QED  BY <2>2, <2>3
<1>. QED  BY <1>1, <1>2

LEMMA FirstMore ==
  ASSUME NEW features, NEW n \in Nat
  PROVE  /\ ~features[n + 1].ok =>
               /\ UsableUpTo(features, n + 1) = UsableUpTo(features, n)
               /\ SeenUpTo(features, n + 1) = SeenUpTo(features, n)
               /\ FirstsUpTo(features, n + 1) = FirstsUpTo(features, n)
         /\ features[n + 1].ok =>
               /\ UsableUpTo(features, n + 1) = UsableUpTo(features, n) \union {n + 1}
               /\ SeenUpTo(features, n + 1)
                     = SeenUpTo(features, n) \union {Key(features, n + 1)}
               /\ FirstsUpTo(features, n + 1) =
                     IF Key(features, n + 1) \in SeenUpTo(features, n)
                     THEN FirstsUpTo(features, n)
                     ELSE FirstsUpTo(features, n) \union {n + 1}
<1>1. 1..(n + 1) = (1..n) \union {n + 1}
  OBVIOUS
<1>2. CASE ~features[n + 1].ok
  <2>1. UsableUpTo(features, n + 1) = UsableUpTo(features, n)
    BY <1>1, <1>2 DEF UsableUpTo
  <2>. QED  BY <1>2, <2>1 DEF SeenUpTo, FirstsUpTo
<1>3. CASE features[n + 1].ok
  <2>. DEFINE U == UsableUpTo(features, n)
              key == Key(features, n + 1)
  <2>1. UsableUpTo(features, n + 1) = U \union {n + 1}
    BY <1>1, <1>3 DEF UsableUpTo
  <2>2. \A i \in U : i \in Nat /\ i <= n /\ i <= n + 1 /\ ~(n + 1 <= i) /\ i # n + 1
    BY DEF UsableUpTo
  <2>3. n + 1 <= n + 1
    OBVIOUS
  <2>. HIDE DEF U
  <2>4. SeenUpTo(features, n + 1) = SeenUpTo(features, n) \union {key}
    BY <2>1 DEF SeenUpTo, U
  <2>5. key \in SeenUpTo(features, n) <=> \E j \in U : Key(features, j) = key
    BY DEF SeenUpTo, U
  <2>. HIDE DEF key
  <2>6. \A i : i \in FirstsUpTo(features, n + 1) <=>
                 \/ i \in FirstsUpTo(features, n)
                 \/ i = n + 1 /\ key \notin SeenUpTo(features, n)
    <3>1. Key(features, n + 1) = key
      BY DEF key
    <3>2. \A i : i \in FirstsUpTo(features, n) <=>
             i \in U /\ \A j \in U : Key(features, j) = Key(features, i) => i <= j
      BY DEF FirstsUpTo, U
    <3>3. \A i : i \in FirstsUpTo(features, n + 1) <=>
             /\ i \in U \union {n + 1}
             /\ \A j \in U \union {n + 1} : Key(features, j) = Key(features, i) => i <= j
      BY <2>1 DEF FirstsUpTo
    <3>. QED  BY <2>2, <2>3, <2>5, <3>1, <3>2, <3>3
  <2>7. FirstsUpTo(features, n + 1) = IF key \in SeenUpTo(features, n)
                                      THEN FirstsUpTo(features, n)
                                      ELSE FirstsUpTo(features, n) \union {n + 1}
    BY <2>6
  <2>. QED  BY <1>3, <2>1, <2>4, <2>7 DEF U, key
<1>. QED  BY <1>2, <1>3

Enlarge(r, seen, located, fuels, tagged, inferred) ==
    [r EXCEPT !.seen = seen, !.stations = located, !.fuels = fuels,
              !.tagged = tagged, !.inferred = inferred]

LEMMA RowsGrow ==
  ASSUME NEW a \in Nat, NEW b \in Nat, NEW c \in Nat, NEW d \in Nat
  PROVE  a + b \in Nat /\ c + d \in Nat
OBVIOUS

\* The fields of a record after the first feature of an identity.
LEMMA Enlarged ==
  ASSUME NEW r \in MadeType, NEW seen \in SUBSET StableIds,
         NEW located \in SUBSET [stable: StableIds, source: SourceIds],
         NEW fuels \in SUBSET (StableIds \X Fuels \X BOOLEAN),
         NEW tagged \in Nat, NEW inferred \in Nat, NEW new,
         new = Enlarge(r, seen, located, fuels, tagged, inferred)
  PROVE  /\ new \in MadeType /\ new.seen = seen /\ new.stations = located
         /\ new.fuels = fuels /\ new.tagged = tagged /\ new.inferred = inferred
         /\ new.invalid = r.invalid /\ new.duplicate = r.duplicate
<1>. DEFINE a == [r EXCEPT !.seen = seen]
            b == [a EXCEPT !.stations = located]
            c == [b EXCEPT !.fuels = fuels]
            d == [c EXCEPT !.tagged = tagged]
            e == [d EXCEPT !.inferred = inferred]
<1>1. new = e
  BY Zenon DEF Enlarge
<1>2. /\ a \in MadeType /\ a.seen = seen
      /\ a.invalid = r.invalid /\ a.duplicate = r.duplicate
  BY DEF MadeType
<1>. HIDE DEF a
<1>3. /\ b \in MadeType /\ b.seen = seen /\ b.stations = located
      /\ b.invalid = r.invalid /\ b.duplicate = r.duplicate
  BY <1>2 DEF MadeType
<1>. HIDE DEF b
<1>4. /\ c \in MadeType /\ c.seen = seen /\ c.stations = located /\ c.fuels = fuels
      /\ c.invalid = r.invalid /\ c.duplicate = r.duplicate
  BY <1>3 DEF MadeType
<1>. HIDE DEF c
<1>5. /\ d \in MadeType /\ d.seen = seen /\ d.stations = located /\ d.fuels = fuels
      /\ d.tagged = tagged
      /\ d.invalid = r.invalid /\ d.duplicate = r.duplicate
  BY <1>4 DEF MadeType
<1>. HIDE DEF d
<1>6. /\ e \in MadeType /\ e.seen = seen /\ e.stations = located /\ e.fuels = fuels
      /\ e.tagged = tagged /\ e.inferred = inferred
      /\ e.invalid = r.invalid /\ e.duplicate = r.duplicate
  BY <1>5 DEF MadeType
<1>. HIDE DEF e
<1>. QED  BY <1>1, <1>6

LEMMA CountedFits ==
  ASSUME NEW features \in Seq(Feature), NEW infer \in BOOLEAN, NEW n \in Nat,
         n + 1 <= Len(features), NEW r, Made(r, features, infer, n)
  PROVE  Made(Counted(r, features[n + 1], infer), features, infer, n + 1)
<1>. DEFINE feature == features[n + 1]
            key == Key(features, n + 1)
            new == Counted(r, feature, infer)
<1>1. feature \in Feature
  <2>. DEFINE l == Len(features)
  <2>1. l \in Nat /\ n + 1 <= l
    OBVIOUS
  <2>. HIDE DEF l
  <2>2. n + 1 \in 1..l
    BY <2>1
  <2>. QED  BY <2>2 DEF l
<1>2. /\ r \in MadeType
      /\ r.seen = SeenUpTo(features, n) /\ IsFiniteSet(r.seen)
      /\ r.stations = {StationAt(features, i) : i \in FirstsUpTo(features, n)}
      /\ n = Cardinality(r.seen) + r.invalid + r.duplicate
      /\ \A row \in r.fuels : row[1] \in r.seen
      /\ \A row, other \in r.fuels :
            row[1] = other[1] /\ row[2] = other[2] => row = other
      /\ infer => r.tagged + r.inferred = Cardinality(r.seen)
  BY DEF Made
<1>3. /\ key = StableId[feature.id] /\ key \in StableIds /\ feature.id \in SourceIds
      /\ feature.ok \in BOOLEAN
  BY <1>1, StationImportsAssumption DEF Feature, Key
<1>4. Cardinality(r.seen) \in Nat
  BY <1>2, FS_CardinalityType
<1>8. /\ n = Cardinality(r.seen) + r.invalid + r.duplicate
      /\ r.invalid \in Nat /\ r.duplicate \in Nat
      /\ r.tagged \in Nat /\ r.inferred \in Nat
      /\ IsFiniteSet(r.seen)
  BY <1>2 DEF MadeType
<1>10. /\ n + 1 = Cardinality(r.seen) + (r.invalid + 1) + r.duplicate
       /\ n + 1 = Cardinality(r.seen) + r.invalid + (r.duplicate + 1)
       /\ n + 1 = (Cardinality(r.seen) + 1) + r.invalid + r.duplicate
  <2>. DEFINE c == Cardinality(r.seen)
              i == r.invalid
              d == r.duplicate
  <2>1. n = c + i + d /\ c \in Nat /\ i \in Nat /\ d \in Nat
    BY <1>4, <1>8
  <2>. HIDE DEF c, i, d
  <2>2. /\ n + 1 = c + (i + 1) + d
        /\ n + 1 = c + i + (d + 1)
        /\ n + 1 = (c + 1) + i + d
    BY <2>1
  <2>. QED  BY <2>2 DEF c, i, d
<1>9. /\ ~feature.ok => /\ SeenUpTo(features, n + 1) = SeenUpTo(features, n)
                        /\ FirstsUpTo(features, n + 1) = FirstsUpTo(features, n)
      /\ feature.ok =>
            /\ SeenUpTo(features, n + 1) = SeenUpTo(features, n) \union {key}
            /\ FirstsUpTo(features, n + 1) = IF key \in SeenUpTo(features, n)
                                             THEN FirstsUpTo(features, n)
                                             ELSE FirstsUpTo(features, n) \union {n + 1}
  BY FirstMore
<1>5. CASE ~feature.ok
  <2>1. new = [r EXCEPT !.invalid = @ + 1]
    BY <1>5 DEF Counted
  <2>2. /\ new \in MadeType /\ new.seen = r.seen /\ new.stations = r.stations
        /\ new.fuels = r.fuels /\ new.invalid = r.invalid + 1
        /\ new.duplicate = r.duplicate
        /\ new.tagged = r.tagged /\ new.inferred = r.inferred
        /\ r.invalid \in Nat /\ r.duplicate \in Nat
    BY <1>2, <2>1 DEF MadeType
  <2>3. /\ SeenUpTo(features, n + 1) = SeenUpTo(features, n)
        /\ FirstsUpTo(features, n + 1) = FirstsUpTo(features, n)
    BY <1>5, <1>9
  <2>. HIDE DEF new
  <2>4. n + 1 = Cardinality(new.seen) + new.invalid + new.duplicate
    BY <1>10, <2>2, Zenon
  <2>5. Made(new, features, infer, n + 1)
    BY <1>2, <2>2, <2>3, <2>4 DEF Made
  <2>. QED  BY <2>5 DEF new
<1>6. CASE feature.ok /\ key \in r.seen
  <2>1. new = [r EXCEPT !.duplicate = @ + 1]
    BY <1>3, <1>6 DEF Counted, Taken
  <2>2. /\ new \in MadeType /\ new.seen = r.seen /\ new.stations = r.stations
        /\ new.fuels = r.fuels /\ new.invalid = r.invalid
        /\ new.duplicate = r.duplicate + 1
        /\ new.tagged = r.tagged /\ new.inferred = r.inferred
        /\ r.invalid \in Nat /\ r.duplicate \in Nat
    BY <1>2, <2>1 DEF MadeType
  <2>3. /\ SeenUpTo(features, n + 1) = SeenUpTo(features, n)
        /\ FirstsUpTo(features, n + 1) = FirstsUpTo(features, n)
    <3>. HIDE DEF key, feature
    <3>1. key \in SeenUpTo(features, n)
      BY <1>2, <1>6
    <3>2. SeenUpTo(features, n) \union {key} = SeenUpTo(features, n)
      BY <3>1
    <3>. QED  BY <1>6, <1>9, <3>1, <3>2
  <2>. HIDE DEF new
  <2>4. n + 1 = Cardinality(new.seen) + new.invalid + new.duplicate
    BY <1>10, <2>2, Zenon
  <2>5. Made(new, features, infer, n + 1)
    BY <1>2, <2>2, <2>3, <2>4 DEF Made
  <2>. QED  BY <2>5 DEF new
<1>7. CASE feature.ok /\ key \notin r.seen
  <2>. DEFINE rows == FuelRows(feature, infer)
              more == {<<key, row[1], row[2]>> : row \in rows}
              tagged == IF \E row \in rows : ~row[2] THEN 1 ELSE 0
              inferred == IF \E row \in rows : row[2] THEN 1 ELSE 0
  <2>1. new = Enlarge(r, r.seen \union {key},
                      r.stations \union {[stable |-> key, source |-> feature.id]},
                      r.fuels \union more, r.tagged + tagged, r.inferred + inferred)
    <3>1. new = Take(r, feature, infer)
      BY <1>3, <1>7, Zenon DEF Counted, Taken
    <3>. QED  BY <3>1, Zenon DEF Take, Enlarge, Key
  <2>2. /\ rows \in SUBSET (Fuels \X BOOLEAN)
        /\ \A row, other \in rows : row[1] = other[1] => row = other
        /\ infer => tagged + inferred = 1
    BY <1>1, FuelRowsFit
  <2>3. tagged \in Nat /\ inferred \in Nat
    OBVIOUS
  <2>. HIDE DEF rows
  <2>4. /\ more \in SUBSET (StableIds \X Fuels \X BOOLEAN)
        /\ \A row \in more : row[1] = key
        /\ \A row, other \in more : row[2] = other[2] => row = other
    BY <1>3, <2>2
  <2>. HIDE DEF more, tagged, inferred
  <2>5. [stable |-> key, source |-> feature.id] = StationAt(features, n + 1)
    BY DEF StationAt
  <2>6. /\ new \in MadeType /\ new.seen = r.seen \union {key}
        /\ new.stations = r.stations \union {StationAt(features, n + 1)}
        /\ new.fuels = r.fuels \union more
        /\ new.invalid = r.invalid /\ new.duplicate = r.duplicate
        /\ new.tagged = r.tagged + tagged /\ new.inferred = r.inferred + inferred
        /\ r.invalid \in Nat /\ r.duplicate \in Nat
        /\ r.tagged \in Nat /\ r.inferred \in Nat
    <3>. DEFINE seen == r.seen \union {key}
                located == r.stations \union {StationAt(features, n + 1)}
                fuels == r.fuels \union more
                nTagged == r.tagged + tagged
                nInferred == r.inferred + inferred
    <3>1. StationAt(features, n + 1) \in [stable: StableIds, source: SourceIds]
      BY <1>3, <2>5
    <3>. HIDE DEF key, feature
    <3>2. /\ r.seen \in SUBSET StableIds
          /\ r.stations \in SUBSET [stable: StableIds, source: SourceIds]
          /\ r.fuels \in SUBSET (StableIds \X Fuels \X BOOLEAN)
      BY <1>2 DEF MadeType
    <3>3. /\ seen \in SUBSET StableIds
          /\ located \in SUBSET [stable: StableIds, source: SourceIds]
          /\ fuels \in SUBSET (StableIds \X Fuels \X BOOLEAN)
      BY <1>3, <2>4, <3>1, <3>2
    <3>4. nTagged \in Nat /\ nInferred \in Nat
      BY <1>8, <2>3, RowsGrow, Zenon
    <3>5. new = Enlarge(r, seen, located, fuels, nTagged, nInferred)
      BY <2>1, <2>5
    <3>. HIDE DEF seen, located, fuels, nTagged, nInferred, new
    <3>7. r \in MadeType
      BY <1>2
    <3>6. /\ new \in MadeType /\ new.seen = seen /\ new.stations = located
          /\ new.fuels = fuels
          /\ new.tagged = nTagged /\ new.inferred = nInferred
          /\ new.invalid = r.invalid /\ new.duplicate = r.duplicate
      BY <3>3, <3>4, <3>5, <3>7, Enlarged
    <3>. QED  BY <1>8, <3>6 DEF seen, located, fuels, nTagged, nInferred
  <2>7. /\ SeenUpTo(features, n + 1) = SeenUpTo(features, n) \union {key}
        /\ FirstsUpTo(features, n + 1) = FirstsUpTo(features, n) \union {n + 1}
    <3>. HIDE DEF key, feature
    <3>1. key \notin SeenUpTo(features, n)
      BY <1>2, <1>7
    <3>. QED  BY <1>7, <1>9, <3>1
  <2>. HIDE DEF new
  <2>8. IsFiniteSet(new.seen) /\ Cardinality(new.seen) = Cardinality(r.seen) + 1
    <3>. HIDE DEF key, feature
    <3>1. new.seen = r.seen \union {key} /\ key \notin r.seen /\ IsFiniteSet(r.seen)
      BY <1>7, <1>8, <2>6, Zenon
    <3>2. /\ IsFiniteSet(r.seen \union {key})
          /\ Cardinality(r.seen \union {key}) = Cardinality(r.seen) + 1
      <4>. DEFINE S == r.seen
      <4>1. IsFiniteSet(S) /\ key \notin S
        BY <3>1
      <4>. HIDE DEF S
      <4>2. IsFiniteSet(S \union {key}) /\ Cardinality(S \union {key}) = Cardinality(S) + 1
        BY <4>1, FS_AddElement
      <4>. QED  BY <4>2 DEF S
    <3>. QED  BY <3>1, <3>2, Zenon
  <2>9. n + 1 = Cardinality(new.seen) + new.invalid + new.duplicate
    BY <1>10, <2>6, <2>8, Zenon
  <2>13. ASSUME infer PROVE new.tagged + new.inferred = Cardinality(new.seen)
    <3>1. r.tagged + r.inferred = Cardinality(r.seen) /\ tagged + inferred = 1
      BY <1>2, <2>2, <2>13
    <3>2. (r.tagged + tagged) + (r.inferred + inferred) = Cardinality(r.seen) + 1
      <4>. DEFINE c == Cardinality(r.seen)
                  t == r.tagged
                  i == r.inferred
      <4>1. /\ t + i = c /\ tagged + inferred = 1
            /\ c \in Nat /\ t \in Nat /\ i \in Nat /\ tagged \in Nat /\ inferred \in Nat
        BY <1>4, <1>8, <2>3, <3>1
      <4>. HIDE DEF c, t, i
      <4>2. (t + tagged) + (i + inferred) = c + 1
        BY <4>1
      <4>. QED  BY <4>2 DEF c, t, i
    <3>. QED  BY <2>6, <2>8, <3>2, Zenon
  <2>10. new.stations = {StationAt(features, i) : i \in FirstsUpTo(features, n + 1)}
    BY <1>2, <2>6, <2>7
  <2>11. /\ \A row \in new.fuels : row[1] \in new.seen
         /\ \A row, other \in new.fuels :
               row[1] = other[1] /\ row[2] = other[2] => row = other
    <3>. HIDE DEF key, feature
    <3>1. \A row \in new.fuels : row \in r.fuels \/ row \in more
      BY <2>6
    <3>2. \A row \in r.fuels : row[1] \in r.seen /\ row[1] # key
      BY <1>2, <1>7
    <3>. QED  BY <1>2, <2>4, <2>6, <3>1, <3>2
  <2>12. Made(new, features, infer, n + 1)
    BY <1>2, <2>6, <2>7, <2>8, <2>9, <2>10, <2>11, <2>13 DEF Made
  <2>. QED  BY <2>12 DEF new
<1>. QED  BY <1>3, <1>5, <1>6, <1>7

\* Every identity seen has a first feature.
LEMMA FirstExists ==
  ASSUME NEW features, NEW n \in Nat, NEW s \in SeenUpTo(features, n)
  PROVE  \E i \in FirstsUpTo(features, n) : Key(features, i) = s
<1>. DEFINE R == {p \in Nat \X Nat : p[1] < p[2]}
            T == {i \in UsableUpTo(features, n) : Key(features, i) = s}
<1>1. IsWellFoundedOn(R, Nat)
  BY NatLessThanWellFounded DEF OpToRel
<1>2. T \subseteq Nat /\ T # {}
  BY DEF SeenUpTo, UsableUpTo
<1>3. PICK i \in T : \A j \in T : ~(<<j, i>> \in R)
  <2>. HIDE DEF R, T
  <2>. QED  BY <1>1, <1>2, WFMin
<1>4. \A j \in T : i <= j
  <2>1. \A j \in T : i \in Nat /\ j \in Nat /\ ~(j < i)
    BY <1>2, <1>3
  <2>. QED  BY <2>1
<1>. QED  BY <1>3, <1>4 DEF FirstsUpTo

LEMMA FileMade ==
  ASSUME NEW features \in FeatureLists, NEW infer \in BOOLEAN
  PROVE  Made(Normalized(features, infer), features, infer, Len(features))
<1>1. features \in Seq(Feature) /\ Len(features) \in Nat
  BY ImportsAssumption
<1>2. PICK g : MadeInTurn(g, features, infer)
  BY MadeOneByOne
<1>. DEFINE P == {n \in Nat : n <= Len(features) => Made(g[n], features, infer, n)}
<1>3. 0 \in P
  <2>1. UsableUpTo(features, 0) = {}
    BY DEF UsableUpTo
  <2>2. SeenUpTo(features, 0) = {} /\ FirstsUpTo(features, 0) = {}
    BY <2>1 DEF SeenUpTo, FirstsUpTo
  <2>3. /\ Nothing \in MadeType /\ Nothing.seen = {} /\ Nothing.stations = {}
        /\ Nothing.fuels = {} /\ Nothing.invalid = 0 /\ Nothing.duplicate = 0
        /\ Nothing.tagged = 0 /\ Nothing.inferred = 0
    BY DEF Nothing, MadeType
  <2>4. IsFiniteSet(Nothing.seen) /\ Cardinality(Nothing.seen) = 0
    BY <2>3, FS_EmptySet
  <2>. HIDE DEF P
  <2>5. 0 = Cardinality(Nothing.seen) + Nothing.invalid + Nothing.duplicate
    BY <2>3, <2>4
  <2>6. Nothing.tagged + Nothing.inferred = Cardinality(Nothing.seen)
    BY <2>3, <2>4
  <2>7. Made(Nothing, features, infer, 0)
    BY <2>2, <2>3, <2>4, <2>5, <2>6, Zenon DEF Made
  <2>. QED  BY <1>2, <2>7 DEF MadeInTurn, P
<1>4. ASSUME NEW n \in Nat, n \in P PROVE n + 1 \in P
  <2>1. SUFFICES ASSUME n + 1 <= Len(features)
                 PROVE  Made(g[n + 1], features, infer, n + 1)
    OBVIOUS
  <2>2. n <= Len(features)
    BY <1>1, <2>1
  <2>3. Made(g[n], features, infer, n)
    BY <1>4, <2>2
  <2>4. g[n + 1] = Counted(g[n], features[n + 1], infer)
    BY <1>2, <2>1 DEF MadeInTurn
  <2>. QED  BY <1>1, <2>1, <2>3, <2>4, CountedFits
<1>5. Len(features) \in P
  <2>. HIDE DEF P
  <2>. QED  BY <1>1, <1>3, <1>4, AllNumbers
<1>6. Len(features) <= Len(features)
  BY <1>1
<1>. QED  BY <1>2, <1>5, <1>6 DEF MadeInTurn

LEMMA FileNormalized ==
  ASSUME NEW features \in FeatureLists, NEW infer \in BOOLEAN
  PROVE  NormalizedFits(features, infer)
<1>. DEFINE n == Len(features)
            result == Normalized(features, infer)
            valid == {i \in DOMAIN features : features[i].ok}
            stable == {StableId[features[i].id] : i \in valid}
            Leads(s, i) == /\ StableId[features[i].id] = s
                             /\ \A j \in valid : StableId[features[j].id] = s => i <= j
            first(s) == features[CHOOSE i \in valid : Leads(s, i)]
<1>1. features \in Seq(Feature) /\ n \in Nat /\ DOMAIN features = 1..n
  BY ImportsAssumption
<1>2. Made(result, features, infer, n)
  BY FileMade
<1>3. valid = UsableUpTo(features, n)
  BY <1>1 DEF UsableUpTo
<1>4. stable = SeenUpTo(features, n)
  BY <1>3 DEF SeenUpTo, Key
<1>. HIDE DEF n, result
<1>5. \A i \in valid : \A s :
         Leads(s, i) <=> i \in FirstsUpTo(features, n) /\ Key(features, i) = s
  BY <1>3 DEF FirstsUpTo, Key
<1>6. \A i \in valid : i \in Nat
  BY <1>1, <1>3 DEF UsableUpTo
<1>. HIDE DEF valid
<1>7. \A s, i, j : i \in valid /\ j \in valid /\ Leads(s, i) /\ Leads(s, j) => i = j
  BY <1>6
<1>8. FirstsUpTo(features, n) \subseteq valid
  BY <1>3 DEF FirstsUpTo
<1>9. ASSUME NEW i \in FirstsUpTo(features, n)
      PROVE  /\ Key(features, i) \in stable
             /\ first(Key(features, i)) = features[i]
  <2>1. i \in valid /\ Leads(Key(features, i), i)
    BY <1>5, <1>8
  <2>2. (CHOOSE k \in valid : Leads(Key(features, i), k)) = i
    <3>. HIDE DEF Leads
    <3>. QED  BY <1>7, <2>1
  <2>3. Key(features, i) \in SeenUpTo(features, n)
    BY <1>3, <2>1 DEF SeenUpTo
  <2>. QED  BY <1>4, <2>2, <2>3
<1>10. result.stations = {[stable |-> s, source |-> first(s).id] : s \in stable}
  <2>1. result.stations = {StationAt(features, i) : i \in FirstsUpTo(features, n)}
    BY <1>2 DEF Made
  <2>2. \A s \in stable : \E i \in FirstsUpTo(features, n) : Key(features, i) = s
    BY <1>1, <1>4, FirstExists
  <2>3. \A i \in FirstsUpTo(features, n) :
           /\ Key(features, i) \in stable
           /\ StationAt(features, i) = [stable |-> Key(features, i),
                                        source |-> first(Key(features, i)).id]
    BY <1>9 DEF StationAt
  <2>. DEFINE Entry(s) == [stable |-> s, source |-> first(s).id]
  <2>4. \A i \in FirstsUpTo(features, n) : StationAt(features, i) = Entry(Key(features, i))
    BY <2>3
  <2>. HIDE DEF stable, first, Entry
  <2>5. result.stations = {Entry(s) : s \in stable}
    BY <2>1, <2>2, <2>3, <2>4
  <2>. QED  BY <2>5 DEF Entry
<1>11. /\ n = Cardinality(stable) + result.invalid + result.duplicate
       /\ \A row \in result.fuels : row[1] \in stable
       /\ \A r, s \in result.fuels : r[1] = s[1] /\ r[2] = s[2] => r = s
       /\ infer => result.tagged + result.inferred = Cardinality(stable)
  BY <1>2, <1>4, Zenon DEF Made
<1>. QED  BY <1>10, <1>11, Zenon DEF NormalizedFits, n, result, valid

--------------------------------------------------------------------------------
(* The parsers' theorems: what is read is chosen at the start and kept.         *)

SettingTyped ==
    \/ setting = [kind |-> "commands"]
    \/ \E features \in FeatureLists, infer \in BOOLEAN :
          setting = [kind |-> "features", features |-> features, infer |-> infer]
    \/ \E answer \in Answers : setting = [kind |-> "answer", answer |-> answer]

LEMMA SettingKept == ParsersSpec => []SettingTyped
<1>1. ParsersInit => SettingTyped
  BY DEF ParsersInit, SettingTyped
<1>2. SettingTyped /\ [ParsersNext]_<<vars, setting>> => SettingTyped'
  BY DEF SettingTyped, ParsersNext
<1>. QED  BY <1>1, <1>2, PTL DEF ParsersSpec

\* Whatever features a GeoJSON file has, _normalize_features keeps the first of
\* each stable identity, its rows satisfy the unique constraints of their
\* tables, and its counts account for every feature (import_osm_stations).
THEOREM FilesAreNormalized == ParsersSpec => []FilesNormalizeWell
<1>1. SettingTyped => FilesNormalizeWell
  BY FileNormalized DEF SettingTyped, FilesNormalizeWell
<1>. QED  BY <1>1, SettingKept, PTL

\* Whatever the provider answers and whenever it is read, parse_mitra_prices
\* lets through only prices the ledger stores and does not reject, current,
\* and lasting to the next fetch exactly when read by noon of their day.
THEOREM AnswersAreParsed == ParsersSpec => []AnswersParseWell
<1>1. SettingTyped => AnswersParseWell
  BY AnswerParsed, ImportsAssumption DEF SettingTyped, AnswersParseWell
<1>. QED  BY <1>1, SettingKept, PTL

================================================================================
