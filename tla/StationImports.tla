----------------------------- MODULE StationImports -----------------------------
(***************************************************************************)
(* Station catalogues (routes/management/commands/import_osm_stations.py,  *)
(* models.StationSnapshot): operators import a GeoJSON file as a snapshot   *)
(* and activate it.  Runs overlap; each is one PostgreSQL transaction, READ *)
(* COMMITTED, after an existence check made outside it.  draft is what a    *)
(* transaction has written of each snapshot, published by its commit.       *)
(*                                                                         *)
(* Versions stands for the keys (market_code, version).  The lock of a      *)
(* version is its row's lock, and before the row is committed the unique    *)
(* index's: a second insert of the key waits for the first.  is_valid is    *)
(* TRUE in every row this program writes and is left out.                   *)
(***************************************************************************)
EXTENDS Integers, FiniteSets, SequencesExt

CONSTANTS
    Proc,           \* runs of management commands
    Versions, Markets,
    MarketOf,       \* the market of a version
    SourceIds,      \* OpenStreetMap identities: node/1, ...
    StableIds,      \* what stable_id makes of them: osm-node-1, ...
    StableId,       \* source_id.replace("/", "-")
    StationFiles,   \* what operators import
    NoSnapshot, Free

Fuels == {"petrol", "diesel"}

\* ok: a fuel amenity with an identity and a coordinate on the globe.
Feature == [ok: BOOLEAN, id: SourceIds, tags: SUBSET Fuels]

StationFile == [version: Versions, checksum: STRING, features: Seq(Feature),
                infer: BOOLEAN, activate: BOOLEAN]

ASSUME StationImportsAssumption ==
    /\ MarketOf \in [Versions -> Markets]
    /\ StableId \in [SourceIds -> StableIds]
    /\ StationFiles \subseteq StationFile
    /\ Free \notin Proc

\* What a file's snapshot keeps of it: the checksum, the stations, their fuels.
Content(file) == [file EXCEPT !.activate = FALSE]

Row == [content: StationFile, active: BOOLEAN]

ASSUME NoSnapshotAssumption == NoSnapshot \notin Row

VARIABLES
    snapshot,   \* committed StationSnapshot rows with their stations
    lock,       \* holder of each row lock
    pc,         \* the statement a run is at
    work,       \* what a run was asked to import
    draft,      \* uncommitted StationSnapshot rows of each run
    scanned     \* rows the deactivating UPDATE still has to lock

stationVars == <<snapshot, draft, scanned>>

\* Rows of StationSnapshot, FuelStation and SourceRegistry that are locked.
LockKey == ({"snapshot"} \X Versions)
           \union ({"station"} \X (Versions \X StableIds))
           \union {<<"source", "api-mitra-fuel">>}

NoWork == [kind |-> "none"]

--------------------------------------------------------------------------------
(* _normalize_features: one pass over the features, keeping the first of each *)
(* stable identity.                                                           *)

\* _fuel_rows: the tagged fuels, or both inferred when none is tagged.
FuelRows(feature, infer) ==
    IF feature.tags = {} /\ infer
    THEN {<<fuel, TRUE>> : fuel \in Fuels}
    ELSE {<<fuel, FALSE>> : fuel \in feature.tags}

Nothing == [stations |-> {}, fuels |-> {}, seen |-> {}, invalid |-> 0,
            duplicate |-> 0, tagged |-> 0, inferred |-> 0]

\* Mutant: duplicates are told apart by source_id.
TakenBySource(sofar, feature) ==
    \E s \in sofar.stations : s.source = feature.id

Taken(sofar, feature) == StableId[feature.id] \in sofar.seen

Take(sofar, feature, infer) ==
    LET stable == StableId[feature.id]
        rows == FuelRows(feature, infer)
        One(P) == IF P THEN 1 ELSE 0
    IN  [sofar EXCEPT
           !.seen = @ \union {stable},
           !.stations = @ \union {[stable |-> stable, source |-> feature.id]},
           !.fuels = @ \union {<<stable, row[1], row[2]>> : row \in rows},
           !.tagged = @ + One(\E row \in rows : ~row[2]),
           !.inferred = @ + One(\E row \in rows : row[2])]

Counted(sofar, feature, infer) ==
    IF ~feature.ok THEN [sofar EXCEPT !.invalid = @ + 1]
    ELSE IF Taken(sofar, feature) THEN [sofar EXCEPT !.duplicate = @ + 1]
    ELSE Take(sofar, feature, infer)

Normalized(features, infer) ==
    FoldLeft(LAMBDA sofar, feature : Counted(sofar, feature, infer),
             Nothing, features)

\* The stable identities a file's snapshot holds.
StationsOf(file) ==
    {s.stable : s \in Normalized(file.features, file.infer).stations}

--------------------------------------------------------------------------------
Available(key, p) == lock[key] \in {Free, p}

Acquire(key, p) ==
    /\ Available(key, p)
    /\ lock' = [lock EXCEPT ![key] = p]

\* What run p sees of a version inside its transaction.
Seen(p, v) == IF draft[p][v] # NoSnapshot THEN draft[p][v] ELSE snapshot[v]

IsActive(row) == row # NoSnapshot /\ row.active

NothingDrafted == [v \in Versions |-> NoSnapshot]

Published(p) == [v \in Versions |-> Seen(p, v)]

\* Mutant: no transaction.atomic, so every statement of a failed run stays.
KeptStatements(p) == Published(p)

\* What a failed transaction leaves.
Kept(p) == snapshot

HeldBy(p) == {k \in LockKey : lock[k] = p}

\* The run is over: its locks are released and its draft is gone.
Finish(p) ==
    /\ lock' = [k \in LockKey |-> IF k \in HeldBy(p) THEN Free ELSE lock[k]]
    /\ pc' = [pc EXCEPT ![p] = "idle"]
    /\ work' = [work EXCEPT ![p] = NoWork]
    /\ draft' = [draft EXCEPT ![p] = NothingDrafted]
    /\ scanned' = [scanned EXCEPT ![p] = {}]

StationInit ==
    /\ snapshot = [v \in Versions |-> NoSnapshot]
    /\ lock = [k \in LockKey |-> Free]
    /\ pc = [p \in Proc |-> "idle"]
    /\ work = [p \in Proc |-> NoWork]
    /\ draft = [p \in Proc |-> NothingDrafted]
    /\ scanned = [p \in Proc |-> {}]

\* The version is looked up outside a transaction.  A new one with stations is
\* imported; a known one with the same checksum only activated.  Every other
\* file, and a source that may not be used, ends the run with nothing written.
BeginStations(p) ==
    /\ pc[p] = "idle"
    /\ \E file \in StationFiles :
          LET existing == snapshot[file.version]
          IN  /\ work' = [work EXCEPT ![p] = [kind |-> "stations", file |-> file]]
              /\ \/ /\ existing = NoSnapshot
                    /\ StationsOf(file) # {}
                    /\ pc' = [pc EXCEPT ![p] = "create"]
                 \/ /\ existing # NoSnapshot
                    /\ existing.content.checksum = file.checksum
                    /\ file.activate
                    /\ pc' = [pc EXCEPT ![p] = "scan"]
    /\ UNCHANGED <<stationVars, lock>>

Own(p) == work[p].file.version

\* StationSnapshot.objects.create and its stations and fuels, once the key is
\* nobody else's uncommitted insert.
CreateSnapshot(p) ==
    /\ pc[p] = "create"
    /\ Acquire(<<"snapshot", Own(p)>>, p)
    /\ snapshot[Own(p)] = NoSnapshot
    /\ draft' = [draft EXCEPT ![p][Own(p)] =
                    [content |-> Content(work[p].file), active |-> FALSE]]
    /\ pc' = [pc EXCEPT ![p] = IF work[p].file.activate THEN "scan" ELSE "commit"]
    /\ UNCHANGED <<snapshot, work, scanned>>

\* The UPDATE that deactivates reads the market's active rows, then locks them
\* one by one and looks again at what each has become.
ScanActive(p) ==
    /\ pc[p] = "scan"
    /\ scanned' = [scanned EXCEPT ![p] =
                      {v \in Versions : /\ MarketOf[v] = MarketOf[Own(p)]
                                        /\ IsActive(Seen(p, v))}]
    /\ pc' = [pc EXCEPT ![p] = "deactivate"]
    /\ UNCHANGED <<snapshot, lock, work, draft>>

DeactivateRow(p) ==
    /\ pc[p] = "deactivate"
    /\ \E v \in scanned[p] :
          /\ Acquire(<<"snapshot", v>>, p)
          /\ draft' = IF IsActive(Seen(p, v))
                      THEN [draft EXCEPT ![p][v] = [Seen(p, v) EXCEPT !.active = FALSE]]
                      ELSE draft
          /\ scanned' = [scanned EXCEPT ![p] = @ \ {v}]
    /\ UNCHANGED <<snapshot, pc, work>>

\* save(update_fields=("is_active",)) locks the snapshot's own row ...
LockOwnRow(p) ==
    /\ pc[p] = "deactivate"
    /\ scanned[p] = {}
    /\ Acquire(<<"snapshot", Own(p)>>, p)
    /\ pc' = [pc EXCEPT ![p] = "activate"]
    /\ UNCHANGED <<stationVars, work>>

\* one_active_snapshot_per_market: rows of the market whose fate another run
\* has not committed, and active rows that stay so.
Undecided(p) ==
    {v \in Versions : /\ MarketOf[v] = MarketOf[Own(p)]
                      /\ \E q \in Proc \ {p} :
                            \/ IsActive(draft[q][v])
                            \/ IsActive(snapshot[v]) /\ draft[q][v] # NoSnapshot}

\* Mutant: no unique constraint on the active snapshot.
NoRivals(p) == {}

Rivals(p) == {v \in Versions \ {Own(p)} : /\ MarketOf[v] = MarketOf[Own(p)]
                                          /\ IsActive(Seen(p, v))}

\* ... and activates it, if the index allows.
Activate(p) ==
    /\ pc[p] = "activate"
    /\ Undecided(p) = {}
    /\ Rivals(p) = {}
    /\ draft' = [draft EXCEPT ![p][Own(p)] = [Seen(p, Own(p)) EXCEPT !.active = TRUE]]
    /\ pc' = [pc EXCEPT ![p] = "commit"]
    /\ UNCHANGED <<snapshot, lock, work, scanned>>

\* IntegrityError: the key, or an active snapshot, was committed meanwhile.
CollideStations(p) ==
    /\ \/ /\ pc[p] = "create"
          /\ Available(<<"snapshot", Own(p)>>, p)
          /\ snapshot[Own(p)] # NoSnapshot
       \/ /\ pc[p] = "activate"
          /\ Undecided(p) = {}
          /\ Rivals(p) # {}
    /\ snapshot' = Kept(p)
    /\ Finish(p)

CommitStations(p) ==
    /\ pc[p] = "commit"
    /\ work[p].kind = "stations"
    /\ snapshot' = Published(p)
    /\ Finish(p)

\* A crash of the run, an error of the database or its choice as the victim
\* of a deadlock.
AbortStations(p) ==
    /\ pc[p] # "idle"
    /\ work[p].kind = "stations"
    /\ snapshot' = Kept(p)
    /\ Finish(p)

StationStep(p) ==
    \/ BeginStations(p) \/ CreateSnapshot(p) \/ ScanActive(p)
    \/ DeactivateRow(p) \/ LockOwnRow(p) \/ Activate(p)
    \/ CollideStations(p) \/ CommitStations(p) \/ AbortStations(p)

--------------------------------------------------------------------------------
(* Properties *)

\* Whatever runs overlap, a market has at most one active snapshot: the
\* deactivating UPDATE may miss a snapshot activated after it looked, and the
\* unique index then refuses the second activation (models.py).
OneActivePerMarket ==
    \A v, w \in Versions :
        IsActive(snapshot[v]) /\ IsActive(snapshot[w]) /\ v # w
            => MarketOf[v] # MarketOf[w]

Served(m) == {v \in Versions : MarketOf[v] = m /\ IsActive(snapshot[v])}

\* A market that has an active catalogue keeps one: a run that fails after it
\* deactivated the old snapshot takes that back (transaction.atomic).
CatalogueNeverLost ==
    [][\A m \in Markets : Served(m) # {} => Served(m)' # {}]_snapshot

\* The normalised rows of a file satisfy the unique constraints of the three
\* tables they go to, stand for the first feature of each stable identity,
\* and the counts kept with the snapshot account for every feature.
NormalizedFits(features, infer) ==
    LET result == Normalized(features, infer)
        valid == {i \in DOMAIN features : features[i].ok}
        stable == {StableId[features[i].id] : i \in valid}
        first(s) == features[CHOOSE i \in valid :
                        /\ StableId[features[i].id] = s
                        /\ \A j \in valid : StableId[features[j].id] = s => i <= j]
    IN  /\ result.stations = {[stable |-> s, source |-> first(s).id] : s \in stable}
        /\ Len(features) = Cardinality(stable) + result.invalid + result.duplicate
        /\ \A row \in result.fuels : row[1] \in stable
        /\ \A r, s \in result.fuels : r[1] = s[1] /\ r[2] = s[2] => r = s
        /\ infer => result.tagged + result.inferred = Cardinality(stable)

================================================================================
