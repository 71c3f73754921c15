--------------------------- MODULE ObservationLedger ---------------------------
(***************************************************************************)
(* The price observation ledger (routes/application/observations.py): each *)
(* process runs one PostgreSQL transaction at a time, READ COMMITTED, with  *)
(* row locks held until it ends.  A transaction stores the rows of a batch  *)
(* (a report is a batch of one, an import a longer one: each row goes       *)
(* through validate_and_store_observation inside the caller's               *)
(* transaction.atomic) or moves one observation to a new state              *)
(* (transition_observation).  What a transaction has written is its draft;  *)
(* Commit publishes the draft, Rollback (a raise, a crash, a deadlock       *)
(* victim) drops it.                                                        *)
(*                                                                          *)
(* A series is what the candidate query filters on: a station or a place,   *)
(* with a fuel type and grade.                                              *)
(***************************************************************************)
EXTENDS ObservationValidation, Sequences

CONSTANTS
    Proc,         \* processes: web workers and management commands
    Obs,          \* primary keys of PriceObservation
    Series, Stations, Snapshots, Markets, Contributors,
    StationOf,    \* station of a series; NoStation for a place's series
    SnapshotOf,   \* station's snapshot, locked with it
    MarketOf,     \* the market of a series
    Batches,      \* what an import or a report may submit
    Targets,      \* the states moderators ask for
    MaxTime,      \* bound of the clock
    NoRow, NoStation, Free

\* One submission: an ObservationCreate.
Command == [series: Series, contributor: Contributors, price: Nat,
            observed: Int, effective: Int, expires: Int]

ASSUME LedgerAssumption ==
    /\ StationOf \in [Series -> Stations \union {NoStation}]
    /\ NoStation \notin Stations
    /\ SnapshotOf \in [Stations -> Snapshots]
    /\ MarketOf \in [Series -> Markets]
    /\ Batches \subseteq Seq(Command)
    /\ \A b \in Batches : b # <<>>
    /\ Targets \subseteq States
    /\ NoContributor \in Contributors
    /\ MaxTime \in Nat
    /\ Free \notin Proc

\* PostgreSQL locks rows of four tables; their keys are kept apart.
LockKey == ({"station"} \X Stations) \union ({"snapshot"} \X Snapshots)
           \union ({"observation"} \X Obs) \union ({"watermark"} \X Markets)

Row == [series: Series, contributor: Contributors, price: Nat, observed: Int,
        effective: Int, expires: Int, received: Int, state: States]

ASSUME NoRowAssumption == NoRow \notin Row

Event == [from: States, to: States]

VARIABLES
    row,        \* committed PriceObservation rows
    events,     \* committed PriceModerationEvent rows of each observation
    version,    \* committed ObservationWatermark.version; 0 when absent
    lock,       \* holder of each row lock
    pc,         \* the statement a process is at
    work,       \* the batch or the transition a process is running
    draft,      \* uncommitted PriceObservation rows of each process
    draftEvent, \* uncommitted PriceModerationEvent of each process
    draftVersion, \* uncommitted watermark of each process; 0 when untouched
    now

vars == <<row, events, version, lock, pc, work, draft, draftEvent,
          draftVersion, now>>

--------------------------------------------------------------------------------
(* A process's work.  ids are the primary keys its batch's rows will get, at  *)
(* the row it is storing, received that row's received_at.                    *)

NoWork == [kind |-> "none"]

StoreWork == [kind: {"store"}, batch: Batches, ids: Seq(Obs), at: Nat,
              received: Nat, duplicate: BOOLEAN, rapid: BOOLEAN]

MoveWork == [kind: {"move"}, target: Obs, to: States]

Current(p) == work[p].batch[work[p].at]

\* What a statement of process p sees: its own draft over the committed rows.
View(p) == [o \in Obs |-> IF draft[p][o] # NoRow THEN draft[p][o] ELSE row[o]]

\* PriceObservation.objects.filter(market, station or place, fuel, grade).
Candidates(p, s) == {o \in Obs : View(p)[o] # NoRow /\ View(p)[o].series = s}

\* The primary keys of the rows process p is storing.
DrawnBy(p) == IF work[p].kind = "store"
              THEN {work[p].ids[i] : i \in DOMAIN work[p].ids} ELSE {}

Unused == {o \in Obs : row[o] = NoRow /\ \A q \in Proc : o \notin DrawnBy(q)}

\* Mutant: no station is locked before its rows are read.
FirstStepUnlocked(s) == "contributor"

\* The first statement of a row: _locked_station, or nothing to lock.
FirstStep(s) == IF StationOf[s] = NoStation THEN "contributor" ELSE "station"

Available(key, p) == lock[key] \in {Free, p}

Acquire(key, p) ==
    /\ Available(key, p)
    /\ lock' = [lock EXCEPT ![key] = p]

\* The market whose watermark process p advances.
Scope(p) == IF work[p].kind = "store"
            THEN MarketOf[Current(p).series]
            ELSE MarketOf[View(p)[work[p].target].series]

AtNextRow(w) == [w EXCEPT !.at = @ + 1, !.received = now,
                          !.duplicate = FALSE, !.rapid = FALSE]

\* After a row: the next row of the batch, with a fresh received_at, or the
\* end of the transaction.
NextRow(p) ==
    IF work[p].kind = "store" /\ work[p].at < Len(work[p].batch)
    THEN /\ work' = [work EXCEPT ![p] = AtNextRow(work[p])]
         /\ pc' = [pc EXCEPT ![p] =
                      FirstStep(work[p].batch[work[p].at + 1].series)]
    ELSE /\ pc' = [pc EXCEPT ![p] = "commit"]
         /\ UNCHANGED work

NothingDrafted == [o \in Obs |-> NoRow]
NoBump == [m \in Markets |-> 0]

HeldBy(p) == {k \in LockKey : lock[k] = p}

\* The transaction is over: its locks are released, its draft is gone.
Finish(p) ==
    /\ lock' = [k \in LockKey |-> IF k \in HeldBy(p) THEN Free ELSE lock[k]]
    /\ pc' = [pc EXCEPT ![p] = "idle"]
    /\ work' = [work EXCEPT ![p] = NoWork]
    /\ draft' = [draft EXCEPT ![p] = NothingDrafted]
    /\ draftEvent' = [draftEvent EXCEPT ![p] = <<>>]
    /\ draftVersion' = [draftVersion EXCEPT ![p] = NoBump]

--------------------------------------------------------------------------------
Init ==
    /\ row = [o \in Obs |-> NoRow]
    /\ events = [o \in Obs |-> <<>>]
    /\ version = [m \in Markets |-> 0]
    /\ lock = [k \in LockKey |-> Free]
    /\ pc = [p \in Proc |-> "idle"]
    /\ work = [p \in Proc |-> NoWork]
    /\ draft = [p \in Proc |-> NothingDrafted]
    /\ draftEvent = [p \in Proc |-> <<>>]
    /\ draftVersion = [p \in Proc |-> NoBump]
    /\ now = 0

\* A caller opens transaction.atomic for a batch; received_at of its first row
\* is taken before any lock.
BeginStore(p) ==
    /\ pc[p] = "idle"
    /\ \E batch \in Batches :
       \E ids \in [DOMAIN batch -> Unused] :
          /\ \A i, j \in DOMAIN ids : ids[i] = ids[j] => i = j
          /\ work' = [work EXCEPT ![p] =
                         [kind |-> "store", batch |-> batch, ids |-> ids,
                          at |-> 1, received |-> now, duplicate |-> FALSE,
                          rapid |-> FALSE]]
          /\ pc' = [pc EXCEPT ![p] = FirstStep(batch[1].series)]
    /\ UNCHANGED <<row, events, version, lock, draft, draftEvent,
                   draftVersion, now>>

\* Mutant: two statements, one for each row; some callers lock the snapshot
\* first.
LockInEitherOrder(p) ==
    /\ pc[p] = "station"
    /\ LET station == StationOf[Current(p).series]
       IN  \/ /\ Acquire(<<"station", station>>, p)
              /\ pc' = [pc EXCEPT ![p] = "snapshot"]
           \/ /\ Acquire(<<"snapshot", SnapshotOf[station]>>, p)
              /\ UNCHANGED pc
    /\ UNCHANGED <<row, events, version, work, draft, draftEvent,
                   draftVersion, now>>

\* FuelStation.objects.select_for_update().select_related("snapshot"): the
\* station's row, then the joined snapshot's.
LockStation(p) ==
    /\ pc[p] = "station"
    /\ Acquire(<<"station", StationOf[Current(p).series]>>, p)
    /\ pc' = [pc EXCEPT ![p] = "snapshot"]
    /\ UNCHANGED <<row, events, version, work, draft, draftEvent,
                   draftVersion, now>>

LockSnapshot(p) ==
    /\ pc[p] = "snapshot"
    /\ Acquire(<<"snapshot", SnapshotOf[StationOf[Current(p).series]]>>, p)
    /\ pc' = [pc EXCEPT ![p] = "contributor"]
    /\ UNCHANGED <<row, events, version, work, draft, draftEvent,
                   draftVersion, now>>

\* The duplicate and rapid-update queries of _validation_context.
ReadContributorRows(p) ==
    /\ pc[p] = "contributor"
    /\ LET cmd == Current(p)
           rows == Candidates(p, cmd.series)
           received == work[p].received
       IN  work' = [work EXCEPT ![p] = [@ EXCEPT
                !.duplicate = IsDuplicate(View(p), rows, cmd, received),
                !.rapid = IsRapidUpdate(View(p), rows, cmd, received)]]
    /\ pc' = [pc EXCEPT ![p] = "judge"]
    /\ UNCHANGED <<row, events, version, lock, draft, draftEvent,
                   draftVersion, now>>

\* PriceObservation.objects.create; received_at is auto_now_add.
NewRow(cmd, state) ==
    [series |-> cmd.series, contributor |-> cmd.contributor,
     price |-> cmd.price, observed |-> cmd.observed,
     effective |-> cmd.effective, expires |-> cmd.expires,
     received |-> now, state |-> state]

\* The comparable-price query, validate_observation, and the insert; eligible
\* is what the station directory answers (fuel sold, station open, snapshot
\* active).  Only an accepted row goes on to the watermark.
Judge(p) ==
    /\ pc[p] = "judge"
    /\ \E eligible \in BOOLEAN :
          LET cmd == Current(p)
              received == work[p].received
              compared == ComparableRows(View(p), Candidates(p, cmd.series),
                                         cmd, received)
              context == [eligible |-> eligible \/ StationOf[cmd.series] = NoStation,
                          duplicate |-> work[p].duplicate,
                          rapid |-> work[p].rapid,
                          outlier |-> Outlier(View(p), compared, cmd.price)]
              state == Verdict(cmd, received, context)
          IN  /\ draft' = [draft EXCEPT
                     ![p][work[p].ids[work[p].at]] = NewRow(Current(p), state)]
              /\ IF state = "ACCEPTED"
                 THEN /\ pc' = [pc EXCEPT ![p] = "watermark"]
                      /\ UNCHANGED work
                 ELSE NextRow(p)
    /\ UNCHANGED <<row, events, version, lock, draftEvent, draftVersion, now>>

\* Mutant: get_or_create without select_for_update.
WatermarkNotLocked(m, p) == UNCHANGED lock

LockWatermark(m, p) == Acquire(<<"watermark", m>>, p)

\* advance_observation_watermark: select_for_update().get_or_create, then
\* version = version + 1 under the lock; the transaction goes on.
AdvanceWatermark(p) ==
    /\ pc[p] = "watermark"
    /\ LET m == Scope(p)
           seen == IF draftVersion[p][m] = 0 THEN version[m]
                                             ELSE draftVersion[p][m]
       IN  /\ LockWatermark(m, p)
           /\ draftVersion' = [draftVersion EXCEPT ![p][m] = seen + 1]
    /\ NextRow(p)
    /\ UNCHANGED <<row, events, version, draft, draftEvent, now>>

\* _allowed_transitions
Allowed(from) ==
    CASE from = "PENDING" -> {"ACCEPTED", "QUARANTINED", "REJECTED"}
      [] from = "QUARANTINED" -> {"ACCEPTED", "REJECTED", "RETRACTED"}
      [] from = "REJECTED" -> {"ACCEPTED"}
      [] from = "ACCEPTED" -> {"RETRACTED", "SUPERSEDED"}
      [] from \in {"RETRACTED", "SUPERSEDED"} -> {}

\* A caller of transition_observation names a stored observation.
BeginTransition(p) ==
    /\ pc[p] = "idle"
    /\ \E o \in {x \in Obs : row[x] # NoRow}, to \in Targets :
          work' = [work EXCEPT ![p] = [kind |-> "move", target |-> o, to |-> to]]
    /\ pc' = [pc EXCEPT ![p] = "observation"]
    /\ UNCHANGED <<row, events, version, lock, draft, draftEvent,
                   draftVersion, now>>

\* Mutant: get() without select_for_update.
ObservationNotLocked(o, p) == UNCHANGED lock

LockObservation(o, p) == Acquire(<<"observation", o>>, p)

\* Mutant: leaving the catalogue is not counted as a change of it.
ChangesOnAcceptOnly(from, to) == to = "ACCEPTED"

ChangesCatalogue(from, to) == "ACCEPTED" \in {from, to}

\* select_for_update().get(): previous_state is read under the row's lock.
\* An allowed move writes the row and its moderation event.
MoveObservation(p) ==
    /\ pc[p] = "observation"
    /\ LET o == work[p].target
           to == work[p].to
           from == row[o].state
       IN  /\ LockObservation(o, p)
           /\ to # from
           /\ to \in Allowed(from)
           /\ draft' = [draft EXCEPT ![p][o] = [row[o] EXCEPT !.state = to]]
           /\ draftEvent' = [draftEvent EXCEPT ![p] = <<[from |-> from, to |-> to]>>]
           /\ pc' = [pc EXCEPT ![p] = IF ChangesCatalogue(from, to)
                                      THEN "watermark" ELSE "commit"]
    /\ UNCHANGED <<row, events, version, work, draftVersion, now>>

\* Mutant: a transition that cannot follow yet is tried again.
RetryTransition(p) ==
    /\ pc[p] = "observation"
    /\ LET from == row[work[p].target].state
       IN  /\ Acquire(<<"observation", work[p].target>>, p)
           /\ \/ work[p].to = from
              \/ work[p].to \notin Allowed(from)
    /\ UNCHANGED <<row, events, version, pc, work, draft, draftEvent,
                   draftVersion, now>>

\* The requested state is the present one (return) or cannot follow it
\* (ValueError): the transaction ends with nothing written.
RefuseTransition(p) ==
    /\ pc[p] = "observation"
    /\ LET from == row[work[p].target].state
       IN  /\ Available(<<"observation", work[p].target>>, p)
           /\ \/ work[p].to = from
              \/ work[p].to \notin Allowed(from)
    /\ Finish(p)
    /\ UNCHANGED <<row, events, version, now>>

\* COMMIT publishes the draft at once.
Commit(p) ==
    /\ pc[p] = "commit"
    /\ row' = View(p)
    /\ events' = IF work[p].kind = "move"
                 THEN [events EXCEPT ![work[p].target] = @ \o draftEvent[p]]
                 ELSE events
    /\ version' = [m \in Markets |-> IF draftVersion[p][m] = 0
                                     THEN version[m] ELSE draftVersion[p][m]]
    /\ Finish(p)
    /\ UNCHANGED now

\* An exception, a crash of the process or its choice as deadlock victim.
Rollback(p) ==
    /\ pc[p] # "idle"
    /\ Finish(p)
    /\ UNCHANGED <<row, events, version, now>>

Tick ==
    /\ now < MaxTime
    /\ now' = now + 1
    /\ UNCHANGED <<row, events, version, lock, pc, work, draft, draftEvent,
                   draftVersion>>

StoreStep(p) == \/ LockStation(p) \/ LockSnapshot(p)
                \/ ReadContributorRows(p) \/ Judge(p)

MoveStep(p) == MoveObservation(p) \/ RefuseTransition(p)

Next == \/ \E p \in Proc : \/ BeginStore(p) \/ BeginTransition(p)
                           \/ StoreStep(p) \/ MoveStep(p)
                           \/ AdvanceWatermark(p)
                           \/ Commit(p) \/ Rollback(p)
        \/ Tick

Spec == Init /\ [][Next]_vars

--------------------------------------------------------------------------------
(* Waiting and deadlock *)

\* The row lock process p asks for next.
Needs(p) ==
    CASE pc[p] = "station" -> <<"station", StationOf[Current(p).series]>>
      [] pc[p] = "snapshot" ->
            <<"snapshot", SnapshotOf[StationOf[Current(p).series]]>>
      [] pc[p] = "observation" -> <<"observation", work[p].target>>
      [] pc[p] = "watermark" -> <<"watermark", Scope(p)>>

Waiting(p) == /\ pc[p] \in {"station", "snapshot", "observation", "watermark"}
              /\ ~Available(Needs(p), p)

\* Every member of S waits for a lock another member holds.
Deadlocked(S) ==
    /\ S # {}
    /\ \A p \in S : Waiting(p) /\ lock[Needs(p)] \in S

\* PostgreSQL aborts a transaction of a cycle it detects (deadlock_timeout).
AbortDeadlockVictim ==
    \E S \in SUBSET Proc : /\ Deadlocked(S)
                           /\ \E p \in S : Rollback(p)

\* A process that can run, runs; row locks are granted in the order they were
\* asked for, which strong fairness stands for; deadlocks are detected.
FairSpec ==
    /\ Spec
    /\ \A p \in Proc : SF_vars(StoreStep(p) \/ MoveStep(p)
                               \/ AdvanceWatermark(p) \/ Commit(p))
    /\ WF_vars(AbortDeadlockVictim)

--------------------------------------------------------------------------------
(* Properties *)

TypeOK ==
    /\ row \in [Obs -> Row \union {NoRow}]
    /\ events \in [Obs -> Seq(Event)]
    /\ version \in [Markets -> Nat]
    /\ lock \in [LockKey -> Proc \union {Free}]
    /\ pc \in [Proc -> {"idle", "station", "snapshot", "contributor", "judge",
                        "watermark", "observation", "commit"}]
    /\ work \in [Proc -> {NoWork} \union StoreWork \union MoveWork]
    /\ draft \in [Proc -> [Obs -> Row \union {NoRow}]]
    /\ draftEvent \in [Proc -> Seq(Event)]
    /\ draftVersion \in [Proc -> [Markets -> Nat]]
    /\ now \in Nat

Stored == {o \in Obs : row[o] # NoRow}

\* What the catalogue of a market can read: its accepted observations.
Accepted(m) == {o \in Stored : /\ MarketOf[row[o].series] = m
                               /\ row[o].state = "ACCEPTED"}

Catalogue == [m \in Markets |-> {<<o, row[o]>> : o \in Accepted(m)}]

\* The state an observation was stored with.
BirthState(o) == IF events[o] = <<>> THEN row[o].state ELSE events[o][1].from

\* A trail of events each of which follows _allowed_transitions and starts where
\* the one before ended, the last in the given state.
LegalHistory(trail, state) ==
    /\ \A i \in DOMAIN trail : trail[i].to \in Allowed(trail[i].from)
    /\ \A i \in 1..(Len(trail) - 1) : trail[i].to = trail[i + 1].from
    /\ trail # <<>> => trail[Len(trail)].to = state

\* The moderation events of a stored observation are a legal history of it:
\* each starts where the one before ended, follows _allowed_transitions, and
\* the last ends in the row's state.  Two moderators that read the same
\* previous_state would break it (observations.py, transition_observation).
AuditTrailReplays == \A o \in Stored : LegalHistory(events[o], row[o].state)

\* The changes of the catalogue by observation o: 0 if it was born accepted, i if
\* its i-th event led to acceptance or away from it.
ChangesOf(o) ==
    {i \in 0..Len(events[o]) :
        IF i = 0 THEN BirthState(o) = "ACCEPTED"
                 ELSE "ACCEPTED" \in {events[o][i].from, events[o][i].to}}

Changes(m) == UNION {{<<o, i>> : i \in ChangesOf(o)} :
                        o \in {x \in Stored : MarketOf[row[x].series] = m}}

\* The watermark of a market counts, exactly, how often an observation of the
\* market became accepted or stopped being so: no increment is lost between
\* concurrent transactions and none is made for a transaction rolled back.
WatermarkCountsChanges == \A m \in Markets : version[m] = Cardinality(Changes(m))

\* Reports on a station are judged one after another (_locked_station): of two
\* equal prices by one contributor, each inside the duplicate window of the
\* other, at most one was accepted without a moderator.
NoAcceptedTwins ==
    \A o, q \in Stored :
        /\ o # q
        /\ StationOf[row[o].series] # NoStation
        /\ row[o].series = row[q].series
        /\ row[o].contributor # NoContributor
        /\ row[o].contributor = row[q].contributor
        /\ row[o].price = row[q].price
        /\ row[o].observed >= row[q].received - Policy.duplicateWindow
        /\ row[q].observed >= row[o].received - Policy.duplicateWindow
        => ~ \A x \in {o, q} : row[x].state = "ACCEPTED" /\ events[x] = <<>>

\* Transactions take their locks in one order (station, snapshot, watermark;
\* observation, watermark), so only a batch that kept locks from an earlier
\* row can close a cycle of waiting transactions.
DeadlockNeedsBatch ==
    \A S \in SUBSET Proc :
        Deadlocked(S) => \E p \in S : work[p].kind = "store" /\ work[p].at > 1

Promise == INSTANCE VersionedCatalogue WITH catalogue <- Catalogue

\* The ledger implements VersionedCatalogue: no commit changes what a market's
\* readers can see, prices included, unless it advances that market's
\* watermark, and no watermark ever goes back.
ImplementsCatalogue == Promise!Spec

\* Every transaction ends: nobody waits for a row lock for ever.
TransactionsEnd == \A p \in Proc : (pc[p] # "idle") ~> (pc[p] = "idle")

--------------------------------------------------------------------------------
(* The inductive invariant behind ImplementsCatalogue, in named parts.        *)

\* A process at a statement has the work that statement belongs to.
Fits(p) ==
    /\ pc[p] = "idle" => work[p] = NoWork
    /\ pc[p] \in {"station", "snapshot", "contributor", "judge"}
          => work[p] \in StoreWork
    /\ pc[p] = "observation" => work[p] \in MoveWork
    /\ pc[p] \in {"watermark", "commit"} => work[p] \in StoreWork \union MoveWork
    /\ work[p] \in StoreWork => /\ DOMAIN work[p].ids = DOMAIN work[p].batch
                                /\ work[p].at \in DOMAIN work[p].batch
    /\ work[p] \in MoveWork => row[work[p].target] # NoRow

StepFitsWork == \A p \in Proc : Fits(p)

\* The keys of a running batch are no stored row's and no other batch's.
DrawnKeysAreNew ==
    /\ \A p \in Proc : \A o \in DrawnBy(p) : row[o] = NoRow
    /\ \A p, q \in Proc : p # q => DrawnBy(p) \intersect DrawnBy(q) = {}

\* An uncommitted row is either a new key of the process's own batch, or the
\* locked target of its transition, differing from the row in its state only.
DraftIsOwned ==
    \A p \in Proc, o \in Obs : draft[p][o] # NoRow =>
        \/ o \in DrawnBy(p)
        \/ /\ row[o] # NoRow
           /\ work[p] \in MoveWork
           /\ work[p].target = o
           /\ lock[<<"observation", o>>] = p
           /\ draft[p][o].series = row[o].series

\* An uncommitted watermark is ahead of the committed one, under its lock.
BumpIsOwned ==
    \A p \in Proc, m \in Markets : draftVersion[p][m] # 0 =>
        /\ lock[<<"watermark", m>>] = p
        /\ draftVersion[p][m] > version[m]

\* p's draft changes what readers of market m can see.
Touches(p, o, m) ==
    /\ draft[p][o] # NoRow
    /\ MarketOf[draft[p][o].series] = m
    /\ \/ draft[p][o].state = "ACCEPTED"
       \/ row[o] # NoRow /\ row[o].state = "ACCEPTED"

ChangeIsCounted ==
    \A p \in Proc, o \in Obs, m \in Markets : Touches(p, o, m) =>
        \/ draftVersion[p][m] # 0
        \/ pc[p] = "watermark" /\ Scope(p) = m

LedgerInvariant ==
    /\ TypeOK
    /\ StepFitsWork
    /\ DrawnKeysAreNew
    /\ DraftIsOwned
    /\ BumpIsOwned
    /\ ChangeIsCounted

--------------------------------------------------------------------------------
(* What AuditTrailReplays needs besides.                                      *)

\* Only a stored observation has moderation events.
EventsAreStored == \A o \in Obs : row[o] = NoRow => events[o] = <<>>

\* An uncommitted event tells the move from the locked row to the draft.
EventTellsMove ==
    \A p \in Proc : work[p] \in MoveWork /\ pc[p] \in {"watermark", "commit"} =>
        LET o == work[p].target
        IN  /\ draft[p][o] # NoRow
            /\ draftEvent[p] = <<[from |-> row[o].state, to |-> draft[p][o].state]>>
            /\ draft[p][o].state \in Allowed(row[o].state)

AuditInvariant ==
    /\ LedgerInvariant
    /\ AuditTrailReplays
    /\ EventsAreStored
    /\ EventTellsMove

--------------------------------------------------------------------------------
(* What DeadlockNeedsBatch rests on: the order of the locks.                  *)

Rank(key) == CASE key[1] \in {"station", "observation"} -> 1
               [] key[1] = "snapshot" -> 2
               [] key[1] = "watermark" -> 3

\* Above the ranks of the locks a process holds before its next statement.
Level(p) == CASE pc[p] \in {"idle", "station", "observation"} -> 1
              [] pc[p] = "snapshot" -> 2
              [] pc[p] \in {"contributor", "judge", "watermark"} -> 3
              [] pc[p] = "commit" -> 4

PastFirstRow(p) == work[p].kind = "store" /\ work[p].at > 1

LocksInOrder ==
    \A p \in Proc, k \in LockKey :
        lock[k] = p /\ ~PastFirstRow(p) => Rank(k) < Level(p)

\* Only a row with a station asks for the station's lock.
StationIsThere ==
    \A p \in Proc : pc[p] \in {"station", "snapshot"}
                       => StationOf[Current(p).series] # NoStation

OrderInvariant == LedgerInvariant /\ LocksInOrder /\ StationIsThere

--------------------------------------------------------------------------------
(* What NoAcceptedTwins rests on: the station's lock.                         *)

Locks(p, series) ==
    StationOf[series] # NoStation => lock[<<"station", StationOf[series]>>] = p

\* A process past the lock of its row's station holds it, and those of all the
\* rows it has stored, until it ends.
StationIsHeld ==
    \A p \in Proc : work[p] \in StoreWork =>
        /\ pc[p] # "station" => Locks(p, Current(p).series)
        /\ \A o \in Obs : draft[p][o] # NoRow => Locks(p, draft[p][o].series)

ReceivedIsPast == \A p \in Proc : work[p] \in StoreWork => work[p].received <= now

\* Stored as accepted by no moderator.
BornAccepted(o, r) == r # NoRow /\ r.state = "ACCEPTED" /\ events[o] = <<>>

\* What no two accepted rows are: equal, each in the other's window.
Twins(r, s) ==
    /\ StationOf[r.series] # NoStation
    /\ r.series = s.series
    /\ r.contributor # NoContributor /\ r.contributor = s.contributor
    /\ r.price = s.price
    /\ r.observed >= s.received - Policy.duplicateWindow
    /\ s.observed >= r.received - Policy.duplicateWindow

\* The answer of the duplicate query is still right when the row is judged.
AnswerIsCurrent ==
    \A p \in Proc, o \in Obs :
        LET cmd == Current(p)
            seen == View(p)[o]
        IN  /\ work[p] \in StoreWork /\ pc[p] = "judge" /\ ~work[p].duplicate
            /\ StationOf[cmd.series] # NoStation
            /\ BornAccepted(o, seen)
            /\ seen.series = cmd.series
            /\ cmd.contributor # NoContributor /\ seen.contributor = cmd.contributor
            /\ seen.price = cmd.price
            => seen.observed < work[p].received - Policy.duplicateWindow

\* An uncommitted row has no twin among what its process sees.
DraftHasNoTwin ==
    \A p \in Proc, o, x \in Obs :
        /\ work[p] \in StoreWork /\ draft[p][o] # NoRow /\ x # o
        /\ BornAccepted(o, draft[p][o]) /\ BornAccepted(x, View(p)[x])
        => ~Twins(draft[p][o], View(p)[x])

TwinInvariant ==
    /\ AuditInvariant
    /\ StationIsHeld
    /\ ReceivedIsPast
    /\ AnswerIsCurrent
    /\ DraftHasNoTwin
    /\ NoAcceptedTwins

--------------------------------------------------------------------------------
(* What WatermarkCountsChanges rests on: drafts are counted like changes.     *)

\* The changes of market m that process p's draft will make.
Pending(p, m) == {<<o, IF row[o] = NoRow THEN 0 ELSE Len(events[o]) + 1>> :
                     o \in {x \in Obs : Touches(p, x, m)}}

\* How far p has advanced the watermark of m, and whether it is about to.
Bump(p, m) == IF draftVersion[p][m] = 0 THEN 0 ELSE draftVersion[p][m] - version[m]
Due(p, m) == IF pc[p] = "watermark" /\ Scope(p) = m THEN 1 ELSE 0

PendingIsCounted ==
    \A p \in Proc, m \in Markets :
        /\ IsFiniteSet(Pending(p, m))
        /\ Cardinality(Pending(p, m)) = Bump(p, m) + Due(p, m)

\* The rows of a batch have different keys, and none is drafted before its turn;
\* neither is a transition.
DraftsInTurn ==
    \A p \in Proc :
        /\ work[p] \in StoreWork =>
              /\ \A i, j \in DOMAIN work[p].ids : work[p].ids[i] = work[p].ids[j] => i = j
              /\ \A i \in DOMAIN work[p].ids :
                    \/ i > work[p].at
                    \/ i = work[p].at /\ pc[p] \notin {"watermark", "commit"}
                    => draft[p][work[p].ids[i]] = NoRow
        /\ pc[p] = "observation" => draft[p] = NothingDrafted

CountInvariant ==
    /\ AuditInvariant
    /\ DraftsInTurn
    /\ PendingIsCounted
    /\ \A m \in Markets : IsFiniteSet(Changes(m))
    /\ WatermarkCountsChanges

================================================================================
