------------------------ MODULE ObservationLedgerProofs ------------------------
(***************************************************************************)
(* Proofs about the observation ledger, for any number of processes,       *)
(* observations, stations and markets.  LedgerInvariant is inductive; it   *)
(* gives type correctness and that the ledger implements VersionedCatalogue;*)
(* on top of it the moderation trail, the order of the row locks, the       *)
(* duplicate rule and the watermarks' count are kept.                       *)
(***************************************************************************)
EXTENDS ObservationLedger, FiniteSetTheorems, TLAPS

LEMMA VerdictIsState ==
    ASSUME NEW cmd, NEW received, NEW context
    PROVE  Verdict(cmd, received, context) \in {"ACCEPTED", "QUARANTINED", "REJECTED"}
BY DEF Verdict

LEMMA ViewType ==
    ASSUME TypeOK, NEW p \in Proc
    PROVE  /\ View(p) \in [Obs -> Row \union {NoRow}]
           /\ \A o \in Obs : View(p)[o] = IF draft[p][o] # NoRow THEN draft[p][o]
                                                                 ELSE row[o]
BY DEF TypeOK, View

\* A batch in progress has a current row, a well-typed command.
LEMMA CurrentType ==
    ASSUME LedgerInvariant, NEW p \in Proc, work[p] \in StoreWork
    PROVE  /\ work[p].batch \in Seq(Command)
           /\ work[p].at \in 1..Len(work[p].batch)
           /\ Current(p) \in Command
           /\ work[p].ids[work[p].at] \in Obs
           /\ work[p].ids[work[p].at] \in DrawnBy(p)
           /\ DrawnBy(p) \subseteq Obs
           /\ work[p].kind = "store"
<1>1. work[p].batch \in Seq(Command) /\ work[p].ids \in Seq(Obs)
  BY LedgerAssumption DEF StoreWork
<1>2. /\ work[p].at \in DOMAIN work[p].batch
      /\ DOMAIN work[p].ids = DOMAIN work[p].batch
  BY DEF LedgerInvariant, StepFitsWork, Fits
<1>3. work[p].kind = "store"
  BY DEF StoreWork
<1>4. work[p].ids[work[p].at] \in Obs /\ Current(p) \in Command
  BY <1>1, <1>2 DEF Current
<1>5. DrawnBy(p) \subseteq Obs /\ work[p].ids[work[p].at] \in DrawnBy(p)
  BY <1>1, <1>2, <1>3 DEF DrawnBy
<1>. QED  BY <1>1, <1>2, <1>3, <1>4, <1>5

LEMMA MoveType ==
    ASSUME NEW w \in MoveWork
    PROVE  w.kind = "move" /\ w.target \in Obs /\ w.to \in States
BY DEF MoveWork

LEMMA StoreWorkUpdates ==
    ASSUME NEW w \in StoreWork, NEW r \in Nat,
           NEW d \in BOOLEAN, NEW e \in BOOLEAN
    PROVE  /\ w.kind = "store"
           /\ w.at \in Nat
           /\ [w EXCEPT !.duplicate = d, !.rapid = e] \in StoreWork
           /\ [w EXCEPT !.at = @ + 1, !.received = r,
                        !.duplicate = FALSE, !.rapid = FALSE] \in StoreWork
<1>1. w.kind = "store" /\ w.at \in Nat /\ w.at + 1 \in Nat
  BY DEF StoreWork
<1>2. [w EXCEPT !.duplicate = d, !.rapid = e] \in StoreWork
  BY DEF StoreWork
<1>3. \A n \in Nat : [w EXCEPT !.at = n, !.received = r, !.duplicate = FALSE,
                               !.rapid = FALSE] \in StoreWork
  BY DEF StoreWork
<1>. QED  BY <1>1, <1>2, <1>3

LEMMA StoreKind ==
    ASSUME NEW w \in StoreWork
    PROVE  w.kind = "store" /\ w.at \in Nat /\ w \notin MoveWork
BY DEF StoreWork, MoveWork

\* The kind of a process's work decides which record it is.
LEMMA WorkKind ==
    ASSUME TypeOK, NEW p \in Proc
    PROVE  /\ work[p].kind = "store" <=> work[p] \in StoreWork
           /\ work[p].kind = "move" <=> work[p] \in MoveWork
           /\ work[p].kind = "none" <=> work[p] = NoWork
BY DEF TypeOK, StoreWork, MoveWork, NoWork

LEMMA ScopeType ==
    ASSUME LedgerInvariant, NEW p \in Proc,
           work[p] \in StoreWork \union MoveWork
    PROVE  Scope(p) \in Markets
<1>1. CASE work[p] \in StoreWork
  <2>1. Current(p).series \in Series
    BY <1>1, CurrentType DEF Command
  <2>. QED  BY <1>1, <2>1, CurrentType, LedgerAssumption DEF Scope
<1>2. CASE work[p] \in MoveWork
  <2>1. work[p].kind = "move" /\ work[p].target \in Obs
    BY <1>2, MoveType
  <2>2. row[work[p].target] # NoRow
    BY <1>2 DEF LedgerInvariant, StepFitsWork, Fits
  <2>3. View(p)[work[p].target] \in Row
    BY <2>1, <2>2, ViewType DEF LedgerInvariant, TypeOK
  <2>. QED  BY <2>1, <2>3, LedgerAssumption DEF Scope, Row
<1>. QED  BY <1>1, <1>2

--------------------------------------------------------------------------------
LEMMA InitEstablishes == Init => LedgerInvariant
<1>. SUFFICES ASSUME Init PROVE LedgerInvariant
  OBVIOUS
<1>1. TypeOK
  BY LedgerAssumption DEF Init, TypeOK, NothingDrafted, NoBump, NoWork
<1>2. StepFitsWork
  BY DEF Init, StepFitsWork, Fits, NoWork, StoreWork, MoveWork
<1>3. DrawnKeysAreNew /\ DraftIsOwned
  BY DEF Init, DrawnKeysAreNew, DraftIsOwned, DrawnBy, NoWork, NothingDrafted
<1>4. BumpIsOwned /\ ChangeIsCounted
  BY DEF Init, BumpIsOwned, ChangeIsCounted, Touches, NothingDrafted, NoBump
<1>. QED  BY <1>1, <1>2, <1>3, <1>4 DEF LedgerInvariant

\* The end of a transaction, whatever its cause, leaves everything well typed.
LEMMA FinishType ==
    ASSUME TypeOK, NEW p \in Proc, Finish(p)
    PROVE  /\ lock' \in [LockKey -> Proc \union {Free}]
           /\ pc' \in [Proc -> {"idle", "station", "snapshot", "contributor",
                                "judge", "watermark", "observation", "commit"}]
           /\ work' \in [Proc -> {NoWork} \union StoreWork \union MoveWork]
           /\ draft' \in [Proc -> [Obs -> Row \union {NoRow}]]
           /\ draftEvent' \in [Proc -> Seq(Event)]
           /\ draftVersion' \in [Proc -> [Markets -> Nat]]
BY DEF TypeOK, Finish, NothingDrafted, NoBump

LEMMA NextRowType ==
    ASSUME LedgerInvariant, NEW p \in Proc, NextRow(p)
    PROVE  /\ pc' \in [Proc -> {"idle", "station", "snapshot", "contributor",
                                "judge", "watermark", "observation", "commit"}]
           /\ work' \in [Proc -> {NoWork} \union StoreWork \union MoveWork]
<1>0. TypeOK
  BY DEF LedgerInvariant
<1>1. CASE work[p].kind = "store" /\ work[p].at < Len(work[p].batch)
  <2>1. work[p] \in StoreWork
    BY <1>0, <1>1, WorkKind
  <2>2. AtNextRow(work[p]) \in StoreWork
    BY <1>0, <2>1, StoreWorkUpdates DEF AtNextRow, TypeOK
  <2>3. work' = [work EXCEPT ![p] = AtNextRow(work[p])]
    BY <1>1 DEF NextRow
  <2>4. work' \in [Proc -> {NoWork} \union StoreWork \union MoveWork]
    BY <1>0, <2>2, <2>3 DEF TypeOK
  <2>. QED  BY <1>0, <1>1, <2>4 DEF NextRow, FirstStep, TypeOK
<1>2. CASE ~(work[p].kind = "store" /\ work[p].at < Len(work[p].batch))
  BY <1>0, <1>2 DEF NextRow, TypeOK
<1>. QED  BY <1>1, <1>2

LEMMA BeginStoreWork ==
    ASSUME LedgerInvariant, NEW p \in Proc, NEW batch \in Batches,
           NEW ids \in [DOMAIN batch -> Unused]
    PROVE  /\ [kind |-> "store", batch |-> batch, ids |-> ids, at |-> 1,
               received |-> now, duplicate |-> FALSE, rapid |-> FALSE] \in StoreWork
           /\ 1 \in DOMAIN batch
<1>1. batch \in Seq(Command) /\ batch # <<>>
  BY LedgerAssumption
<1>2. DOMAIN batch = 1..Len(batch) /\ Len(batch) \in Nat
  BY <1>1
<1>3. ids \in [1..Len(batch) -> Obs]
  BY <1>2 DEF Unused
<1>4. ids \in Seq(Obs)
  BY <1>2, <1>3
<1>5. 1 \in DOMAIN batch
  BY <1>1
<1>. QED  BY <1>4, <1>5 DEF StoreWork, LedgerInvariant, TypeOK

LEMMA JudgeRow ==
    ASSUME LedgerInvariant, NEW p \in Proc, work[p] \in StoreWork,
           NEW state \in States
    PROVE  NewRow(Current(p), state) \in Row
<1>1. Current(p) \in Command
  BY CurrentType
<1>. QED  BY <1>1 DEF NewRow, Command, Row, LedgerInvariant, TypeOK

\* What Judge does, for the verdict it reaches.
LEMMA JudgeEffect ==
    ASSUME LedgerInvariant, NEW p \in Proc, Judge(p)
    PROVE  /\ work[p] \in StoreWork
           /\ \E state \in {"ACCEPTED", "QUARANTINED", "REJECTED"} :
                 /\ draft' = [draft EXCEPT ![p][work[p].ids[work[p].at]] =
                                 NewRow(Current(p), state)]
                 /\ IF state = "ACCEPTED"
                    THEN pc' = [pc EXCEPT ![p] = "watermark"] /\ UNCHANGED work
                    ELSE NextRow(p)
<1>1. work[p] \in StoreWork
  BY DEF Judge, LedgerInvariant, StepFitsWork, Fits
<1>2. PICK eligible \in BOOLEAN : Judge(p)!2!(eligible)
  BY DEF Judge
<1>. DEFINE cmd == Current(p)
            received == work[p].received
            compared == ComparableRows(View(p), Candidates(p, cmd.series),
                                       cmd, received)
            context == [eligible |-> eligible \/ StationOf[cmd.series] = NoStation,
                        duplicate |-> work[p].duplicate,
                        rapid |-> work[p].rapid,
                        outlier |-> Outlier(View(p), compared, cmd.price)]
<1>3. Verdict(cmd, received, context) \in {"ACCEPTED", "QUARANTINED", "REJECTED"}
  BY VerdictIsState
<1>. QED  BY <1>1, <1>2, <1>3

LEMMA TypeInductive == LedgerInvariant /\ [Next]_vars => TypeOK'
<1>. SUFFICES ASSUME LedgerInvariant, [Next]_vars PROVE TypeOK'
  OBVIOUS
<1>. USE DEF LedgerInvariant
<1>1. ASSUME NEW p \in Proc, BeginStore(p) PROVE TypeOK'
  <2>a. PICK batch \in Batches : \E ids \in [DOMAIN batch -> Unused] :
           /\ work' = [work EXCEPT ![p] =
                 [kind |-> "store", batch |-> batch, ids |-> ids, at |-> 1,
                  received |-> now, duplicate |-> FALSE, rapid |-> FALSE]]
           /\ pc' = [pc EXCEPT ![p] = FirstStep(batch[1].series)]
    BY <1>1 DEF BeginStore
  <2>1. PICK ids \in [DOMAIN batch -> Unused] :
           /\ work' = [work EXCEPT ![p] =
                 [kind |-> "store", batch |-> batch, ids |-> ids, at |-> 1,
                  received |-> now, duplicate |-> FALSE, rapid |-> FALSE]]
           /\ pc' = [pc EXCEPT ![p] = FirstStep(batch[1].series)]
    BY <2>a
  <2>. QED  BY <1>1, <2>1, BeginStoreWork DEF BeginStore, TypeOK, FirstStep
<1>2. ASSUME NEW p \in Proc, LockStation(p) \/ LockSnapshot(p) PROVE TypeOK'
  BY <1>2 DEF LockStation, LockSnapshot, Acquire, TypeOK
<1>3. ASSUME NEW p \in Proc, ReadContributorRows(p) PROVE TypeOK'
  <2>1. work[p] \in StoreWork
    BY <1>3 DEF ReadContributorRows, StepFitsWork, Fits
  <2>2. PICK d \in BOOLEAN, e \in BOOLEAN :
           work' = [work EXCEPT ![p] = [@ EXCEPT !.duplicate = d, !.rapid = e]]
    BY <1>3 DEF ReadContributorRows, IsDuplicate, IsRapidUpdate
  <2>3. [work[p] EXCEPT !.duplicate = d, !.rapid = e] \in StoreWork
    BY <2>1, StoreWorkUpdates DEF TypeOK
  <2>4. work' \in [Proc -> {NoWork} \union StoreWork \union MoveWork]
    BY <2>2, <2>3 DEF TypeOK
  <2>. QED  BY <1>3, <2>4 DEF ReadContributorRows, TypeOK
<1>4. ASSUME NEW p \in Proc, Judge(p) PROVE TypeOK'
  <2>1. work[p] \in StoreWork
    BY <1>4 DEF Judge, StepFitsWork, Fits
  <2>2. PICK state \in {"ACCEPTED", "QUARANTINED", "REJECTED"} :
           /\ draft' = [draft EXCEPT ![p][work[p].ids[work[p].at]] =
                           NewRow(Current(p), state)]
           /\ IF state = "ACCEPTED"
              THEN pc' = [pc EXCEPT ![p] = "watermark"] /\ UNCHANGED work
              ELSE NextRow(p)
    BY <1>4, JudgeEffect
  <2>3. draft' \in [Proc -> [Obs -> Row \union {NoRow}]]
    BY <2>1, <2>2, JudgeRow, CurrentType DEF TypeOK, States
  <2>4. /\ pc' \in [Proc -> {"idle", "station", "snapshot", "contributor",
                             "judge", "watermark", "observation", "commit"}]
        /\ work' \in [Proc -> {NoWork} \union StoreWork \union MoveWork]
    BY <2>2, NextRowType DEF TypeOK
  <2>. QED  BY <1>4, <2>3, <2>4 DEF Judge, TypeOK
<1>5. ASSUME NEW p \in Proc, AdvanceWatermark(p) PROVE TypeOK'
  <2>1. Scope(p) \in Markets
    BY <1>5, ScopeType DEF AdvanceWatermark, StepFitsWork, Fits
  <2>2. draftVersion' \in [Proc -> [Markets -> Nat]]
    BY <1>5, <2>1 DEF AdvanceWatermark, TypeOK
  <2>. QED  BY <1>5, <2>2, NextRowType DEF AdvanceWatermark, LockWatermark, Acquire, TypeOK
<1>6. ASSUME NEW p \in Proc, BeginTransition(p) PROVE TypeOK'
  BY <1>6, LedgerAssumption DEF BeginTransition, TypeOK, MoveWork
<1>7. ASSUME NEW p \in Proc, MoveObservation(p) PROVE TypeOK'
  <2>1. work[p] \in MoveWork /\ row[work[p].target] # NoRow
    BY <1>7 DEF MoveObservation, StepFitsWork, Fits
  <2>2. /\ work[p].target \in Obs
        /\ work[p].to \in States
        /\ row[work[p].target] \in Row
    BY <2>1, MoveType DEF TypeOK
  <2>3. /\ [row[work[p].target] EXCEPT !.state = work[p].to] \in Row
        /\ [from |-> row[work[p].target].state, to |-> work[p].to] \in Event
    BY <2>2 DEF Row, Event
  <2>4. draft' \in [Proc -> [Obs -> Row \union {NoRow}]]
    BY <1>7, <2>2, <2>3 DEF MoveObservation, TypeOK
  <2>5. draftEvent' \in [Proc -> Seq(Event)]
    BY <1>7, <2>3 DEF MoveObservation, TypeOK
  <2>. QED  BY <1>7, <2>4, <2>5 DEF MoveObservation, LockObservation, Acquire, TypeOK
<1>8. ASSUME NEW p \in Proc, RefuseTransition(p) \/ Rollback(p) PROVE TypeOK'
  BY <1>8, FinishType DEF RefuseTransition, Rollback, TypeOK
<1>9. ASSUME NEW p \in Proc, Commit(p) PROVE TypeOK'
  <2>1. row' \in [Obs -> Row \union {NoRow}]
    BY <1>9, ViewType DEF Commit
  <2>2. events' \in [Obs -> Seq(Event)]
    <3>1. CASE work[p].kind = "move"
      <4>1. work[p].target \in Obs
        BY <3>1, WorkKind, MoveType
      <4>2. events[work[p].target] \o draftEvent[p] \in Seq(Event)
        BY <4>1 DEF TypeOK
      <4>. QED  BY <1>9, <3>1, <4>1, <4>2 DEF Commit, TypeOK
    <3>. QED  BY <1>9, <3>1 DEF Commit, TypeOK
  <2>3. version' \in [Markets -> Nat]
    BY <1>9 DEF Commit, TypeOK
  <2>. QED  BY <1>9, <2>1, <2>2, <2>3, FinishType DEF Commit, TypeOK
<1>10. CASE Tick
  BY <1>10 DEF Tick, TypeOK
<1>11. CASE UNCHANGED vars
  BY <1>11 DEF vars, TypeOK
<1>. QED
  BY <1>1, <1>2, <1>3, <1>4, <1>5, <1>6, <1>7, <1>8, <1>9, <1>10, <1>11
     DEF Next, StoreStep, MoveStep

--------------------------------------------------------------------------------
(* How each kind of step leaves the other processes alone.                     *)

LEMMA FinishEffect ==
    ASSUME TypeOK, NEW p \in Proc, Finish(p)
    PROVE  /\ \A q \in Proc : q # p => /\ pc'[q] = pc[q]
                                       /\ work'[q] = work[q]
                                       /\ draft'[q] = draft[q]
                                       /\ draftVersion'[q] = draftVersion[q]
           /\ pc'[p] = "idle"
           /\ work'[p] = NoWork
           /\ draft'[p] = NothingDrafted
           /\ draftVersion'[p] = NoBump
           /\ \A k \in LockKey : lock[k] # p => lock'[k] = lock[k]
BY DEF TypeOK, Finish, HeldBy

LEMMA AcquireEffect ==
    ASSUME TypeOK, NEW p \in Proc, NEW key \in LockKey, Acquire(key, p)
    PROVE  /\ lock'[key] = p
           /\ \A k \in LockKey : lock[k] \in Proc => lock'[k] = lock[k]
BY LedgerAssumption DEF TypeOK, Acquire, Available

\* NextRow moves only its own process, to another row of the same batch or to
\* the commit.
LEMMA NextRowEffect ==
    ASSUME LedgerInvariant, NEW p \in Proc, NextRow(p),
           work[p] \in StoreWork \union MoveWork
    PROVE  /\ \A q \in Proc : q # p => pc'[q] = pc[q] /\ work'[q] = work[q]
           /\ \/ /\ work[p] \in StoreWork
                 /\ work'[p] \in StoreWork
                 /\ work'[p].batch = work[p].batch
                 /\ work'[p].ids = work[p].ids
                 /\ work'[p].at \in DOMAIN work[p].batch
                 /\ pc'[p] \in {"station", "contributor"}
              \/ /\ work'[p] = work[p]
                 /\ pc'[p] = "commit"
<1>1. TypeOK /\ pc \in [Proc -> {"idle", "station", "snapshot", "contributor",
                                 "judge", "watermark", "observation", "commit"}]
      /\ DOMAIN work = Proc
  BY DEF LedgerInvariant, TypeOK
<1>2. CASE work[p].kind = "store" /\ work[p].at < Len(work[p].batch)
  <2>1. work[p] \in StoreWork
    BY <1>1, <1>2, WorkKind
  <2>2. AtNextRow(work[p]) \in StoreWork
    BY <1>1, <2>1, StoreWorkUpdates DEF AtNextRow, TypeOK
  <2>3. /\ AtNextRow(work[p]).batch = work[p].batch
        /\ AtNextRow(work[p]).ids = work[p].ids
        /\ AtNextRow(work[p]).at = work[p].at + 1
    BY <2>1 DEF AtNextRow, StoreWork
  <2>4. work[p].at + 1 \in DOMAIN work[p].batch
    BY <1>2, <2>1, CurrentType
  <2>5. work' = [work EXCEPT ![p] = AtNextRow(work[p])]
    BY <1>2 DEF NextRow
  <2>. QED  BY <1>1, <1>2, <2>1, <2>2, <2>3, <2>4, <2>5 DEF NextRow, FirstStep
<1>3. CASE ~(work[p].kind = "store" /\ work[p].at < Len(work[p].batch))
  BY <1>1, <1>3 DEF NextRow
<1>. QED  BY <1>2, <1>3

LEMMA RowsStay ==
    ASSUME LedgerInvariant, [Next]_vars, NEW o \in Obs, row[o] # NoRow
    PROVE  row'[o] # NoRow
<1>1. ASSUME NEW p \in Proc, Commit(p) PROVE row'[o] # NoRow
  BY <1>1 DEF Commit, View
<1>2. CASE UNCHANGED row
  BY <1>2
<1>. QED
  BY <1>1, <1>2 DEF Next, vars, BeginStore, LockStation, LockSnapshot, StoreStep,
     MoveStep, ReadContributorRows, Judge, AdvanceWatermark, BeginTransition,
     MoveObservation, RefuseTransition, Rollback, Tick

LEMMA StepInductive == LedgerInvariant /\ [Next]_vars => StepFitsWork'
<1>. SUFFICES ASSUME LedgerInvariant, [Next]_vars, NEW q \in Proc PROVE Fits(q)'
  BY DEF StepFitsWork
<1>0. /\ TypeOK /\ Fits(q) /\ DOMAIN pc = Proc /\ DOMAIN work = Proc
      /\ \A p \in Proc : Fits(p)
  BY DEF LedgerInvariant, TypeOK, StepFitsWork
<1>a. ASSUME work'[q] = work[q], pc'[q] = pc[q] PROVE Fits(q)'
  BY <1>0, <1>a, RowsStay, MoveType DEF Fits
<1>b. ASSUME NEW p \in Proc, Finish(p) PROVE Fits(q)'
  <2>1. CASE q = p
    BY <1>0, <1>b, <2>1, FinishEffect
       DEF Fits, NoWork, StoreWork, MoveWork
  <2>2. CASE q # p
    BY <1>0, <1>a, <1>b, <2>2, FinishEffect
  <2>. QED  BY <2>1, <2>2
<1>c. ASSUME NEW p \in Proc, NextRow(p), work[p] \in StoreWork \union MoveWork
      PROVE Fits(q)'
  <2>1. CASE q = p
    <3>1. CASE work'[p] = work[p] /\ pc'[p] = "commit"
      BY <1>0, <1>c, <2>1, <3>1, RowsStay, MoveType DEF Fits
    <3>2. CASE /\ work[p] \in StoreWork
               /\ work'[p] \in StoreWork
               /\ work'[p].batch = work[p].batch
               /\ work'[p].ids = work[p].ids
               /\ work'[p].at \in DOMAIN work[p].batch
               /\ pc'[p] \in {"station", "contributor"}
      <4>1. work'[p] \notin MoveWork
        BY <3>2, StoreKind, MoveType
      <4>. QED  BY <1>0, <2>1, <3>2, <4>1 DEF Fits
    <3>. QED  BY <1>c, <3>1, <3>2, NextRowEffect
  <2>2. CASE q # p
    BY <1>a, <1>c, <2>2, NextRowEffect
  <2>. QED  BY <2>1, <2>2
<1>1. ASSUME NEW p \in Proc, BeginStore(p) PROVE Fits(q)'
  <2>1. PICK batch \in Batches : \E ids \in [DOMAIN batch -> Unused] :
           /\ work' = [work EXCEPT ![p] =
                 [kind |-> "store", batch |-> batch, ids |-> ids, at |-> 1,
                  received |-> now, duplicate |-> FALSE, rapid |-> FALSE]]
           /\ pc' = [pc EXCEPT ![p] = FirstStep(batch[1].series)]
    BY <1>1 DEF BeginStore
  <2>2. PICK ids \in [DOMAIN batch -> Unused] :
           /\ work' = [work EXCEPT ![p] =
                 [kind |-> "store", batch |-> batch, ids |-> ids, at |-> 1,
                  received |-> now, duplicate |-> FALSE, rapid |-> FALSE]]
           /\ pc' = [pc EXCEPT ![p] = FirstStep(batch[1].series)]
    BY <2>1
  <2>3. CASE q = p
    <3>1. work'[p] \in StoreWork /\ 1 \in DOMAIN batch
      BY <1>0, <2>2, BeginStoreWork
    <3>2. work'[p] \notin MoveWork
      BY <3>1, StoreKind, MoveType
    <3>. QED  BY <1>0, <2>2, <2>3, <3>1, <3>2 DEF Fits, FirstStep
  <2>4. CASE q # p
    BY <1>0, <1>a, <2>2, <2>4
  <2>. QED  BY <2>3, <2>4
<1>2. ASSUME NEW p \in Proc, LockStation(p) \/ LockSnapshot(p) PROVE Fits(q)'
  BY <1>0, <1>2, StoreKind, MoveType DEF LockStation, LockSnapshot, Fits
<1>3. ASSUME NEW p \in Proc, ReadContributorRows(p) PROVE Fits(q)'
  <2>1. work[p] \in StoreWork
    BY <1>0, <1>3 DEF ReadContributorRows, Fits
  <2>2. PICK d \in BOOLEAN, e \in BOOLEAN :
           work' = [work EXCEPT ![p] = [@ EXCEPT !.duplicate = d, !.rapid = e]]
    BY <1>3 DEF ReadContributorRows, IsDuplicate, IsRapidUpdate
  <2>3. /\ [work[p] EXCEPT !.duplicate = d, !.rapid = e] \in StoreWork
        /\ [work[p] EXCEPT !.duplicate = d, !.rapid = e].ids = work[p].ids
        /\ [work[p] EXCEPT !.duplicate = d, !.rapid = e].batch = work[p].batch
        /\ [work[p] EXCEPT !.duplicate = d, !.rapid = e].at = work[p].at
    BY <1>0, <2>1, StoreWorkUpdates DEF TypeOK, StoreWork
  <2>4. CASE q = p
    <3>1. work'[p] \in StoreWork /\ work'[p] \notin MoveWork
      BY <1>0, <2>2, <2>3, StoreKind, MoveType
    <3>2. work'[p].ids = work[p].ids /\ work'[p].batch = work[p].batch
          /\ work'[p].at = work[p].at
      BY <1>0, <2>2, <2>3
    <3>3. pc'[p] = "judge"
      BY <1>0, <1>3 DEF ReadContributorRows
    <3>. QED  BY <1>0, <2>1, <2>4, <3>1, <3>2, <3>3 DEF Fits
  <2>5. CASE q # p
    BY <1>0, <1>a, <1>3, <2>2, <2>5 DEF ReadContributorRows
  <2>. QED  BY <2>4, <2>5
<1>4. ASSUME NEW p \in Proc, Judge(p) PROVE Fits(q)'
  <2>1. work[p] \in StoreWork
    BY <1>0, <1>4 DEF Judge, Fits
  <2>2. \/ pc' = [pc EXCEPT ![p] = "watermark"] /\ UNCHANGED work
        \/ NextRow(p)
    BY <1>4 DEF Judge
  <2>3. CASE pc' = [pc EXCEPT ![p] = "watermark"] /\ UNCHANGED work
    BY <1>0, <1>a, <2>1, <2>3, StoreKind, MoveType DEF Fits
  <2>. QED  BY <1>c, <2>1, <2>2, <2>3
<1>5. ASSUME NEW p \in Proc, AdvanceWatermark(p) PROVE Fits(q)'
  BY <1>0, <1>c, <1>5 DEF AdvanceWatermark, Fits
<1>6. ASSUME NEW p \in Proc, BeginTransition(p) PROVE Fits(q)'
  <2>1. PICK o \in {x \in Obs : row[x] # NoRow}, to \in Targets :
          work' = [work EXCEPT ![p] = [kind |-> "move", target |-> o, to |-> to]]
    BY <1>6 DEF BeginTransition
  <2>2. CASE q = p
    <3>1. /\ work'[p] \in MoveWork /\ work'[p] \notin StoreWork
          /\ work'[p].target = o /\ row'[o] # NoRow /\ pc'[p] = "observation"
      BY <1>0, <1>6, <2>1, LedgerAssumption, StoreWorkUpdates
      DEF BeginTransition, MoveWork, StoreWork
    <3>. QED  BY <2>2, <3>1 DEF Fits
  <2>3. CASE q # p
    BY <1>0, <1>a, <1>6, <2>1, <2>3 DEF BeginTransition
  <2>. QED  BY <2>2, <2>3
<1>7. ASSUME NEW p \in Proc, MoveObservation(p) PROVE Fits(q)'
  <2>1. /\ work'[q] = work[q]
        /\ q # p => pc'[q] = pc[q]
        /\ pc'[p] \in {"watermark", "commit"}
        /\ work[p] \in MoveWork
    BY <1>0, <1>7 DEF MoveObservation, Fits
  <2>2. CASE q = p
    <3>1. work[p] \notin StoreWork /\ row'[work[p].target] # NoRow
      BY <1>0, <2>1, RowsStay, MoveType, StoreWorkUpdates DEF Fits
    <3>. QED  BY <2>1, <2>2, <3>1 DEF Fits
  <2>. QED  BY <1>a, <2>1, <2>2
<1>8. ASSUME NEW p \in Proc, RefuseTransition(p) \/ Rollback(p) \/ Commit(p)
      PROVE Fits(q)'
  BY <1>b, <1>8 DEF RefuseTransition, Rollback, Commit
<1>9. CASE Tick \/ UNCHANGED vars
  BY <1>a, <1>9 DEF Tick, vars
<1>. QED
  BY <1>1, <1>2, <1>3, <1>4, <1>5, <1>6, <1>7, <1>8, <1>9
     DEF Next, StoreStep, MoveStep

--------------------------------------------------------------------------------
\* No two transactions have drafted the same observation.
LEMMA DraftsDisjoint ==
    ASSUME LedgerInvariant, NEW p \in Proc, NEW q \in Proc, p # q,
           NEW o \in Obs, draft[p][o] # NoRow
    PROVE  draft[q][o] = NoRow
<1>. SUFFICES ASSUME draft[q][o] # NoRow PROVE FALSE
  OBVIOUS
<1>1. \A r \in Proc : draft[r][o] # NoRow =>
         \/ o \in DrawnBy(r)
         \/ row[o] # NoRow /\ lock[<<"observation", o>>] = r
  BY DEF LedgerInvariant, DraftIsOwned
<1>2. /\ \A r \in Proc : o \in DrawnBy(r) => row[o] = NoRow
      /\ ~(o \in DrawnBy(p) /\ o \in DrawnBy(q))
  BY DEF LedgerInvariant, DrawnKeysAreNew
<1>. QED  BY <1>1, <1>2

\* Every step keeps a process's drawn keys, drops them, or draws unused ones.
LEMMA DrawnEffect ==
    ASSUME LedgerInvariant, [Next]_vars, NEW q \in Proc
    PROVE  \/ DrawnBy(q)' = DrawnBy(q) /\ (work[q] \in MoveWork <=> work'[q] \in MoveWork)
           \/ DrawnBy(q)' = {} /\ draft[q] = NothingDrafted /\ draft'[q] = draft[q]
           \/ DrawnBy(q)' = {} /\ draft'[q] = NothingDrafted
           \/ /\ DrawnBy(q)' \subseteq Unused
              /\ row' = row
              /\ draft[q] = NothingDrafted
              /\ draft'[q] = draft[q]
              /\ \A p \in Proc : p # q => work'[p] = work[p]
<1>0. /\ TypeOK /\ StepFitsWork /\ DOMAIN pc = Proc /\ DOMAIN work = Proc
      /\ DOMAIN draft = Proc /\ draft[q] \in [Obs -> Row \union {NoRow}]
  BY DEF LedgerInvariant, TypeOK
<1>a. ASSUME work'[q] = work[q] PROVE DrawnBy(q)' = DrawnBy(q)
  BY <1>a DEF DrawnBy
<1>b. ASSUME NEW p \in Proc, Finish(p)
      PROVE \/ DrawnBy(q)' = DrawnBy(q) /\ work'[q] = work[q]
            \/ DrawnBy(q)' = {} /\ draft'[q] = NothingDrafted
  BY <1>0, <1>a, <1>b, FinishEffect DEF DrawnBy, NoWork
<1>c. ASSUME NEW p \in Proc, NextRow(p), work[p] \in StoreWork \union MoveWork
      PROVE DrawnBy(q)' = DrawnBy(q) /\ (work[q] \in MoveWork <=> work'[q] \in MoveWork)
  <2>1. CASE work'[q] = work[q]
    BY <1>a, <2>1
  <2>2. CASE /\ q = p
             /\ work[p] \in StoreWork
             /\ work'[p] \in StoreWork
             /\ work'[p].ids = work[p].ids
    <3>1. work[p].kind = "store" /\ work'[p].kind = "store"
      BY <2>2, StoreKind
    <3>2. work[p] \notin MoveWork /\ work'[p] \notin MoveWork
      BY <2>2, StoreKind
    <3>. QED  BY <2>2, <3>1, <3>2 DEF DrawnBy
  <2>. QED  BY <1>c, <2>1, <2>2, NextRowEffect
<1>d. ASSUME work[q] = NoWork PROVE draft[q] = NothingDrafted
  <2>1. DrawnBy(q) = {} /\ work[q] \notin MoveWork
    BY <1>d, MoveType DEF DrawnBy, NoWork
  <2>2. \A o \in Obs : draft[q][o] = NoRow
    BY <2>1 DEF LedgerInvariant, DraftIsOwned
  <2>. QED  BY <1>0, <2>2 DEF NothingDrafted
<1>1. ASSUME NEW p \in Proc, BeginStore(p)
      PROVE \/ DrawnBy(q)' = DrawnBy(q) /\ work'[q] = work[q]
            \/ /\ DrawnBy(q)' \subseteq Unused
               /\ row' = row
               /\ draft[q] = NothingDrafted
               /\ draft'[q] = draft[q]
               /\ \A r \in Proc : r # q => work'[r] = work[r]
  <2>1. PICK batch \in Batches : \E ids \in [DOMAIN batch -> Unused] :
           work' = [work EXCEPT ![p] =
                 [kind |-> "store", batch |-> batch, ids |-> ids, at |-> 1,
                  received |-> now, duplicate |-> FALSE, rapid |-> FALSE]]
    BY <1>1 DEF BeginStore
  <2>2. PICK ids \in [DOMAIN batch -> Unused] :
           work' = [work EXCEPT ![p] =
                 [kind |-> "store", batch |-> batch, ids |-> ids, at |-> 1,
                  received |-> now, duplicate |-> FALSE, rapid |-> FALSE]]
    BY <2>1
  <2>3. CASE q = p
    <3>1. work[q] = NoWork
      BY <1>0, <1>1, <2>3 DEF BeginStore, StepFitsWork, Fits
    <3>2. DrawnBy(q)' = {ids[i] : i \in DOMAIN ids}
      BY <1>0, <2>2, <2>3 DEF DrawnBy
    <3>. QED  BY <1>0, <1>1, <1>d, <2>2, <2>3, <3>1, <3>2 DEF BeginStore
  <2>4. CASE q # p
    BY <1>0, <1>a, <2>2, <2>4
  <2>. QED  BY <2>3, <2>4
<1>2. ASSUME NEW p \in Proc, LockStation(p) \/ LockSnapshot(p) \/ MoveObservation(p)
      PROVE work'[q] = work[q]
  BY <1>2 DEF LockStation, LockSnapshot, MoveObservation
<1>3. ASSUME NEW p \in Proc, ReadContributorRows(p)
      PROVE DrawnBy(q)' = DrawnBy(q) /\ (work[q] \in MoveWork <=> work'[q] \in MoveWork)
  <2>1. work[p] \in StoreWork
    BY <1>0, <1>3 DEF ReadContributorRows, StepFitsWork, Fits
  <2>2. PICK d \in BOOLEAN, e \in BOOLEAN :
           work' = [work EXCEPT ![p] = [@ EXCEPT !.duplicate = d, !.rapid = e]]
    BY <1>3 DEF ReadContributorRows, IsDuplicate, IsRapidUpdate
  <2>3. /\ [work[p] EXCEPT !.duplicate = d, !.rapid = e] \in StoreWork
        /\ [work[p] EXCEPT !.duplicate = d, !.rapid = e].ids = work[p].ids
    BY <1>0, <2>1, StoreWorkUpdates DEF TypeOK, StoreWork
  <2>4. CASE q = p
    <3>1. work'[p] \in StoreWork /\ work'[p].ids = work[p].ids
      BY <1>0, <2>2, <2>3
    <3>2. work[p].kind = "store" /\ work'[p].kind = "store"
      BY <2>1, <3>1, StoreKind
    <3>3. work[p] \notin MoveWork /\ work'[p] \notin MoveWork
      BY <2>1, <3>1, StoreKind
    <3>. QED  BY <2>4, <3>1, <3>2, <3>3 DEF DrawnBy
  <2>5. CASE q # p
    BY <1>0, <1>a, <2>2, <2>5
  <2>. QED  BY <2>4, <2>5
<1>4. ASSUME NEW p \in Proc, Judge(p)
      PROVE DrawnBy(q)' = DrawnBy(q) /\ (work[q] \in MoveWork <=> work'[q] \in MoveWork)
  <2>1. work[p] \in StoreWork
    BY <1>0, <1>4 DEF Judge, StepFitsWork, Fits
  <2>2. work' = work \/ NextRow(p)
    BY <1>4 DEF Judge
  <2>. QED  BY <1>a, <1>c, <2>1, <2>2
<1>5. ASSUME NEW p \in Proc, AdvanceWatermark(p)
      PROVE DrawnBy(q)' = DrawnBy(q) /\ (work[q] \in MoveWork <=> work'[q] \in MoveWork)
  BY <1>0, <1>c, <1>5 DEF AdvanceWatermark, StepFitsWork, Fits
<1>6. ASSUME NEW p \in Proc, BeginTransition(p)
      PROVE \/ DrawnBy(q)' = DrawnBy(q) /\ work'[q] = work[q]
            \/ DrawnBy(q)' = {} /\ draft[q] = NothingDrafted /\ draft'[q] = draft[q]
  <2>1. PICK o \in Obs, to \in Targets :
          work' = [work EXCEPT ![p] = [kind |-> "move", target |-> o, to |-> to]]
    BY <1>6 DEF BeginTransition
  <2>2. CASE q = p
    <3>1. work[q] = NoWork
      BY <1>0, <1>6, <2>2 DEF BeginTransition, StepFitsWork, Fits
    <3>2. DrawnBy(q)' = {}
      BY <1>0, <2>1, <2>2 DEF DrawnBy
    <3>. QED  BY <1>6, <1>d, <3>1, <3>2 DEF BeginTransition
  <2>3. CASE q # p
    BY <1>0, <1>a, <2>1, <2>3
  <2>. QED  BY <2>2, <2>3
<1>7. ASSUME NEW p \in Proc, RefuseTransition(p) \/ Rollback(p) \/ Commit(p)
      PROVE \/ DrawnBy(q)' = DrawnBy(q) /\ work'[q] = work[q]
            \/ DrawnBy(q)' = {} /\ draft'[q] = NothingDrafted
  BY <1>b, <1>7 DEF RefuseTransition, Rollback, Commit
<1>8. CASE Tick \/ UNCHANGED vars
  BY <1>a, <1>8 DEF Tick, vars
<1>. QED
  BY <1>1, <1>2, <1>3, <1>4, <1>5, <1>6, <1>7, <1>8, <1>a
     DEF Next, StoreStep, MoveStep

\* A commit of q changes no row another process has drafted or drawn.
LEMMA RowEffect ==
    ASSUME LedgerInvariant, [Next]_vars, NEW o \in Obs
    PROVE  \/ row'[o] = row[o]
           \/ \E p \in Proc : /\ Commit(p)
                              /\ draft[p][o] # NoRow
                              /\ row'[o] = draft[p][o]
<1>1. ASSUME NEW p \in Proc, Commit(p)
      PROVE row'[o] = row[o] \/ (draft[p][o] # NoRow /\ row'[o] = draft[p][o])
  BY <1>1 DEF Commit, View
<1>. QED
  BY <1>1 DEF Next, vars, BeginStore, LockStation, LockSnapshot, StoreStep,
     MoveStep, ReadContributorRows, Judge, AdvanceWatermark, BeginTransition,
     MoveObservation, RefuseTransition, Rollback, Tick

LEMMA DrawnInductive == LedgerInvariant /\ [Next]_vars => DrawnKeysAreNew'
<1>. SUFFICES ASSUME LedgerInvariant, [Next]_vars PROVE DrawnKeysAreNew'
  OBVIOUS
<1>1. ASSUME NEW p \in Proc, NEW o \in Obs, o \in DrawnBy(p)' PROVE row'[o] = NoRow
  <2>1. CASE o \in DrawnBy(p)
    <3>1. row[o] = NoRow
      BY <2>1 DEF LedgerInvariant, DrawnKeysAreNew
    <3>2. ASSUME NEW q \in Proc, Commit(q), draft[q][o] # NoRow PROVE FALSE
      <4>1. o \in DrawnBy(q)
        BY <3>1, <3>2 DEF LedgerInvariant, DraftIsOwned
      <4>2. q = p
        BY <2>1, <4>1 DEF LedgerInvariant, DrawnKeysAreNew
      <4>3. work'[p] = NoWork
        BY <3>2, <4>2, FinishEffect DEF Commit, LedgerInvariant
      <4>. QED  BY <1>1, <4>3 DEF DrawnBy, NoWork
    <3>. QED  BY <3>1, <3>2, RowEffect
  <2>2. CASE o \notin DrawnBy(p)
    BY <1>1, <2>2, DrawnEffect DEF Unused
  <2>. QED  BY <2>1, <2>2
<1>2. ASSUME NEW p \in Proc PROVE DrawnBy(p)' \subseteq Obs
  <2>1. work[p] \in StoreWork \/ DrawnBy(p) = {}
    BY WorkKind DEF LedgerInvariant, DrawnBy
  <2>2. DrawnBy(p) \subseteq Obs
    BY <2>1, CurrentType
  <2>. QED  BY <2>2, DrawnEffect DEF Unused
<1>3. ASSUME NEW p \in Proc, NEW q \in Proc, p # q
      PROVE DrawnBy(p)' \intersect DrawnBy(q)' = {}
  <2>1. DrawnBy(p) \intersect DrawnBy(q) = {}
    BY <1>3 DEF LedgerInvariant, DrawnKeysAreNew
  <2>2. \A r \in Proc : DrawnBy(r) \intersect Unused = {}
    BY DEF Unused
  <2>3. \A r, t \in Proc : (r # t /\ work'[r] = work[r]) => DrawnBy(r)' = DrawnBy(r)
    BY DEF DrawnBy
  <2>. QED  BY <1>3, <2>1, <2>2, <2>3, DrawnEffect
<1>. QED  BY <1>1, <1>2, <1>3 DEF DrawnKeysAreNew

--------------------------------------------------------------------------------
\* A lock held by a process stays held until that process's transaction ends.
LEMMA LockEffect ==
    ASSUME LedgerInvariant, [Next]_vars, NEW p \in Proc, NEW k \in LockKey,
           lock[k] = p
    PROVE  lock'[k] = p \/ Finish(p)
<1>0. TypeOK /\ Free \notin Proc
  BY LedgerAssumption DEF LedgerInvariant
<1>1. ASSUME NEW q \in Proc, Finish(q) PROVE lock'[k] = p \/ Finish(p)
  BY <1>0, <1>1, FinishEffect
<1>2. ASSUME NEW q \in Proc, NEW key, Acquire(key, q) PROVE lock'[k] = p
  BY <1>0, <1>2 DEF Acquire, Available, TypeOK
<1>. QED
  BY <1>1, <1>2 DEF Next, vars, BeginStore, LockStation, LockSnapshot, StoreStep,
     MoveStep, ReadContributorRows, Judge, AdvanceWatermark, LockWatermark,
     BeginTransition, MoveObservation, LockObservation, RefuseTransition,
     Rollback, Commit, Tick

\* Whose draft a step changes.
LEMMA DraftEffect ==
    ASSUME LedgerInvariant, [Next]_vars, NEW p \in Proc, NEW o \in Obs
    PROVE  \/ draft'[p][o] = draft[p][o]
           \/ Finish(p)
           \/ Judge(p) /\ o = work[p].ids[work[p].at]
           \/ MoveObservation(p) /\ o = work[p].target
<1>0. TypeOK /\ draft \in [Proc -> [Obs -> Row \union {NoRow}]]
  BY DEF LedgerInvariant, TypeOK
<1>1. ASSUME NEW q \in Proc, Finish(q) PROVE draft'[p][o] = draft[p][o] \/ Finish(p)
  BY <1>0, <1>1, FinishEffect
<1>2. ASSUME NEW q \in Proc, Judge(q)
      PROVE \/ draft'[p][o] = draft[p][o]
            \/ Judge(p) /\ o = work[p].ids[work[p].at]
  BY <1>0, <1>2, JudgeEffect
<1>3. ASSUME NEW q \in Proc, MoveObservation(q)
      PROVE \/ draft'[p][o] = draft[p][o]
            \/ MoveObservation(p) /\ o = work[p].target
  BY <1>0, <1>3 DEF MoveObservation
<1>. QED
  BY <1>1, <1>2, <1>3 DEF Next, vars, BeginStore, LockStation, LockSnapshot,
     StoreStep, MoveStep, ReadContributorRows, AdvanceWatermark,
     BeginTransition, RefuseTransition, Rollback, Commit, Tick

\* A drafted row stays where it was while another process commits.
LEMMA DraftedRowEffect ==
    ASSUME LedgerInvariant, [Next]_vars, NEW p \in Proc, NEW o \in Obs,
           draft[p][o] # NoRow
    PROVE  row'[o] = row[o] \/ Finish(p)
<1>1. ASSUME NEW q \in Proc, Commit(q), draft[q][o] # NoRow PROVE Finish(p)
  BY <1>1, DraftsDisjoint DEF Commit
<1>. QED  BY <1>1, RowEffect

\* The transition of a process is fixed until it ends.
LEMMA MoveEffect ==
    ASSUME LedgerInvariant, [Next]_vars, NEW p \in Proc, work[p] \in MoveWork
    PROVE  work'[p] = work[p] \/ Finish(p)
<1>0. /\ TypeOK /\ Fits(p) /\ DOMAIN work = Proc /\ work[p] # NoWork
      /\ work[p] \notin StoreWork /\ work[p].kind = "move"
  BY StoreKind, MoveType DEF LedgerInvariant, StepFitsWork, TypeOK, NoWork
<1>1. ASSUME NEW q \in Proc, Finish(q) PROVE work'[p] = work[p] \/ Finish(p)
  BY <1>0, <1>1, FinishEffect
<1>2. ASSUME NEW q \in Proc, NextRow(q) PROVE work'[p] = work[p]
  BY <1>0, <1>2 DEF NextRow
<1>3. ASSUME NEW q \in Proc, BeginStore(q) \/ BeginTransition(q)
      PROVE work'[p] = work[p]
  BY <1>0, <1>3 DEF BeginStore, BeginTransition, Fits
<1>4. ASSUME NEW q \in Proc, ReadContributorRows(q) PROVE work'[p] = work[p]
  BY <1>0, <1>4 DEF ReadContributorRows, Fits
<1>. QED
  BY <1>1, <1>2, <1>3, <1>4 DEF Next, vars, LockStation, LockSnapshot, StoreStep,
     MoveStep, Judge, AdvanceWatermark, MoveObservation, RefuseTransition,
     Rollback, Commit, Tick

LEMMA DraftInductive == LedgerInvariant /\ [Next]_vars => DraftIsOwned'
<1>. SUFFICES ASSUME LedgerInvariant, [Next]_vars, NEW p \in Proc, NEW o \in Obs,
                     draft'[p][o] # NoRow
              PROVE  \/ o \in DrawnBy(p)'
                     \/ /\ row'[o] # NoRow
                        /\ work'[p] \in MoveWork
                        /\ work'[p].target = o
                        /\ lock'[<<"observation", o>>] = p
                        /\ draft'[p][o].series = row'[o].series
  BY DEF DraftIsOwned
<1>0. /\ TypeOK /\ Fits(p) /\ <<"observation", o>> \in LockKey
      /\ draft \in [Proc -> [Obs -> Row \union {NoRow}]]
      /\ row[o] \in Row \union {NoRow}
  BY DEF LedgerInvariant, StepFitsWork, TypeOK, LockKey
<1>1. ~Finish(p)
  <2>. SUFFICES ASSUME Finish(p) PROVE FALSE
    OBVIOUS
  <2>. QED  BY <1>0, FinishEffect DEF NothingDrafted
<1>2. CASE draft'[p][o] = draft[p][o]
  <2>1. CASE o \in DrawnBy(p)
    BY <1>0, <1>2, <2>1, DrawnEffect DEF NothingDrafted
  <2>2. CASE o \notin DrawnBy(p)
    <3>1. /\ row[o] # NoRow
          /\ work[p] \in MoveWork
          /\ work[p].target = o
          /\ lock[<<"observation", o>>] = p
          /\ draft[p][o].series = row[o].series
      BY <1>2, <2>2 DEF LedgerInvariant, DraftIsOwned
    <3>2. row'[o] = row[o]
      BY <1>1, <1>2, DraftedRowEffect
    <3>. QED  BY <1>0, <1>1, <1>2, <3>1, <3>2, LockEffect, MoveEffect
  <2>. QED  BY <2>1, <2>2
<1>3. CASE Judge(p) /\ o = work[p].ids[work[p].at]
  <2>1. work[p] \in StoreWork
    BY <1>0, <1>3 DEF Judge, Fits
  <2>2. o \in DrawnBy(p)
    BY <1>3, <2>1, CurrentType
  <2>3. draft[p] # draft'[p] \/ draft'[p] # NothingDrafted
    BY DEF NothingDrafted
  <2>4. work' = work \/ NextRow(p)
    BY <1>3 DEF Judge
  <2>5. DrawnBy(p)' = DrawnBy(p)
    <3>1. CASE work'[p] = work[p]
      BY <3>1 DEF DrawnBy
    <3>2. CASE work'[p] \in StoreWork /\ work'[p].ids = work[p].ids
      <4>1. work[p].kind = "store" /\ work'[p].kind = "store"
        BY <2>1, <3>2, StoreKind
      <4>. QED  BY <3>2, <4>1 DEF DrawnBy
    <3>. QED  BY <2>1, <2>4, <3>1, <3>2, NextRowEffect
  <2>. QED  BY <2>2, <2>5
<1>4. CASE MoveObservation(p) /\ o = work[p].target
  <2>1. work[p] \in MoveWork /\ row[o] # NoRow
    BY <1>0, <1>4 DEF MoveObservation, Fits
  <2>2. work'[p] = work[p] /\ row' = row
    BY <1>4 DEF MoveObservation
  <2>3. lock'[<<"observation", o>>] = p
    BY <1>0, <1>4, AcquireEffect DEF MoveObservation, LockObservation
  <2>4. draft'[p][o] = [row[o] EXCEPT !.state = work[p].to]
    BY <1>0, <1>4 DEF MoveObservation
  <2>5. draft'[p][o].series = row[o].series
    BY <1>0, <2>1, <2>4 DEF Row
  <2>. QED  BY <1>4, <2>1, <2>2, <2>3, <2>5
<1>. QED  BY <1>1, <1>2, <1>3, <1>4, DraftEffect

LEMMA BumpInductive == LedgerInvariant /\ [Next]_vars => BumpIsOwned'
<1>. SUFFICES ASSUME LedgerInvariant, [Next]_vars, NEW p \in Proc, NEW m \in Markets,
                     draftVersion'[p][m] # 0
              PROVE  /\ lock'[<<"watermark", m>>] = p
                     /\ draftVersion'[p][m] > version'[m]
  BY DEF BumpIsOwned
<1>0. /\ TypeOK /\ Fits(p) /\ <<"watermark", m>> \in LockKey
      /\ draftVersion \in [Proc -> [Markets -> Nat]]
      /\ version \in [Markets -> Nat]
      /\ \A q \in Proc : draftVersion[q][m] # 0 =>
            /\ lock[<<"watermark", m>>] = q
            /\ draftVersion[q][m] > version[m]
  BY DEF LedgerInvariant, StepFitsWork, TypeOK, LockKey, BumpIsOwned
<1>a. ~Finish(p)
  <2>. SUFFICES ASSUME Finish(p) PROVE FALSE
    OBVIOUS
  <2>. QED  BY <1>0, FinishEffect DEF NoBump
<1>b. ASSUME draftVersion'[p] = draftVersion[p], version'[m] = version[m]
      PROVE  /\ lock'[<<"watermark", m>>] = p
             /\ draftVersion'[p][m] > version'[m]
  BY <1>0, <1>a, <1>b, LockEffect
<1>1. ASSUME NEW q \in Proc, AdvanceWatermark(q)
      PROVE  /\ lock'[<<"watermark", m>>] = p
             /\ draftVersion'[p][m] > version'[m]
  <2>1. version' = version
    BY <1>1 DEF AdvanceWatermark
  <2>2. CASE q = p /\ Scope(p) = m
    <3>1. lock'[<<"watermark", m>>] = p
      BY <1>0, <1>1, <2>2, AcquireEffect DEF AdvanceWatermark, LockWatermark
    <3>2. draftVersion'[p][m] =
             (IF draftVersion[p][m] = 0 THEN version[m] ELSE draftVersion[p][m]) + 1
      BY <1>0, <1>1, <2>2 DEF AdvanceWatermark
    <3>. QED  BY <1>0, <2>1, <3>1, <3>2
  <2>3. CASE ~(q = p /\ Scope(p) = m)
    <3>1. draftVersion'[p][m] = draftVersion[p][m]
      BY <1>0, <1>1, <2>3 DEF AdvanceWatermark
    <3>. QED  BY <1>0, <1>a, <2>1, <3>1, LockEffect
  <2>. QED  BY <2>2, <2>3
<1>2. ASSUME NEW q \in Proc, Commit(q)
      PROVE  /\ lock'[<<"watermark", m>>] = p
             /\ draftVersion'[p][m] > version'[m]
  <2>1. q # p /\ draftVersion'[p] = draftVersion[p]
    BY <1>0, <1>a, <1>2, FinishEffect DEF Commit
  <2>2. draftVersion[q][m] = 0
    BY <1>0, <2>1
  <2>3. version'[m] = version[m]
    BY <1>2, <2>2 DEF Commit
  <2>. QED  BY <1>b, <2>1, <2>3
<1>3. ASSUME NEW q \in Proc, RefuseTransition(q) \/ Rollback(q)
      PROVE  draftVersion'[p] = draftVersion[p] /\ version' = version
  BY <1>0, <1>a, <1>3, FinishEffect DEF RefuseTransition, Rollback
<1>4. CASE draftVersion' = draftVersion /\ version' = version
  BY <1>b, <1>4
<1>. QED
  BY <1>b, <1>1, <1>2, <1>3, <1>4 DEF Next, vars, BeginStore, LockStation,
     LockSnapshot, StoreStep, MoveStep, ReadContributorRows, Judge,
     BeginTransition, MoveObservation, Tick

\* Once advanced, a transaction's watermark stays advanced until it ends.
LEMMA BumpStays ==
    ASSUME LedgerInvariant, [Next]_vars, NEW p \in Proc, NEW m \in Markets,
           draftVersion[p][m] # 0
    PROVE  draftVersion'[p][m] # 0 \/ Finish(p)
<1>0. TypeOK /\ draftVersion \in [Proc -> [Markets -> Nat]] /\ version \in [Markets -> Nat]
  BY DEF LedgerInvariant, TypeOK
<1>1. ASSUME NEW q \in Proc, Finish(q)
      PROVE draftVersion'[p][m] # 0 \/ Finish(p)
  BY <1>0, <1>1, FinishEffect
<1>2. ASSUME NEW q \in Proc, AdvanceWatermark(q) PROVE draftVersion'[p][m] # 0
  <2>1. CASE q = p /\ Scope(p) = m
    BY <1>0, <1>2, <2>1 DEF AdvanceWatermark
  <2>2. CASE ~(q = p /\ Scope(p) = m)
    BY <1>0, <1>2, <2>2 DEF AdvanceWatermark
  <2>. QED  BY <2>1, <2>2
<1>. QED
  BY <1>1, <1>2 DEF Next, vars, BeginStore, LockStation, LockSnapshot, StoreStep,
     MoveStep, ReadContributorRows, Judge, BeginTransition, MoveObservation,
     RefuseTransition, Rollback, Commit, Tick

\* A process that must advance its watermark does that next, or ends.
LEMMA WatermarkStep ==
    ASSUME LedgerInvariant, [Next]_vars, NEW p \in Proc, pc[p] = "watermark"
    PROVE  \/ AdvanceWatermark(p)
           \/ Finish(p)
           \/ pc'[p] = pc[p] /\ work'[p] = work[p]
<1>0. /\ TypeOK /\ DOMAIN pc = Proc /\ DOMAIN work = Proc
      /\ work[p] \in StoreWork \union MoveWork
      /\ \A q \in Proc : Fits(q)
  BY DEF LedgerInvariant, TypeOK, StepFitsWork, Fits
<1>1. ASSUME NEW q \in Proc, Finish(q)
      PROVE Finish(p) \/ (pc'[p] = pc[p] /\ work'[p] = work[p])
  BY <1>0, <1>1, FinishEffect
<1>2. ASSUME NEW q \in Proc, NextRow(q), q # p, work[q] \in StoreWork \union MoveWork
      PROVE pc'[p] = pc[p] /\ work'[p] = work[p]
  BY <1>2, NextRowEffect
<1>3. ASSUME NEW q \in Proc, AdvanceWatermark(q)
      PROVE AdvanceWatermark(p) \/ (pc'[p] = pc[p] /\ work'[p] = work[p])
  BY <1>0, <1>2, <1>3 DEF AdvanceWatermark, Fits
<1>4. ASSUME NEW q \in Proc, Judge(q) PROVE pc'[p] = pc[p] /\ work'[p] = work[p]
  <2>1. q # p
    BY <1>4 DEF Judge
  <2>2. work[q] \in StoreWork
    BY <1>0, <1>4 DEF Judge, Fits
  <2>3. NextRow(q) \/ (pc' = [pc EXCEPT ![q] = "watermark"] /\ UNCHANGED work)
    BY <1>4 DEF Judge
  <2>. QED  BY <1>0, <1>2, <2>1, <2>2, <2>3
<1>5. ASSUME NEW q \in Proc, BeginStore(q) \/ BeginTransition(q)
      PROVE pc'[p] = pc[p] /\ work'[p] = work[p]
  BY <1>0, <1>5 DEF BeginStore, BeginTransition
<1>6. ASSUME NEW q \in Proc,
             \/ LockStation(q) \/ LockSnapshot(q) \/ ReadContributorRows(q)
             \/ MoveObservation(q)
      PROVE pc'[p] = pc[p] /\ work'[p] = work[p]
  BY <1>0, <1>6 DEF LockStation, LockSnapshot, ReadContributorRows, MoveObservation
<1>. QED
  BY <1>1, <1>3, <1>4, <1>5, <1>6 DEF Next, vars, StoreStep, MoveStep,
     RefuseTransition, Rollback, Commit, Tick

LEMMA CountInductive == LedgerInvariant /\ [Next]_vars => ChangeIsCounted'
<1>. SUFFICES ASSUME LedgerInvariant, [Next]_vars, NEW p \in Proc, NEW o \in Obs,
                     NEW m \in Markets, Touches(p, o, m)'
              PROVE  \/ draftVersion'[p][m] # 0
                     \/ pc'[p] = "watermark" /\ Scope(p)' = m
  BY DEF ChangeIsCounted
<1>0. /\ TypeOK /\ Fits(p) /\ DOMAIN pc = Proc /\ version \in [Markets -> Nat]
      /\ draft \in [Proc -> [Obs -> Row \union {NoRow}]]
      /\ draftVersion \in [Proc -> [Markets -> Nat]]
  BY DEF LedgerInvariant, StepFitsWork, TypeOK
<1>1. draft'[p][o] # NoRow
  BY DEF Touches
<1>2. ~Finish(p)
  BY <1>0, <1>1, FinishEffect DEF NothingDrafted
<1>3. CASE draft'[p][o] = draft[p][o]
  <2>1. row'[o] = row[o]
    BY <1>1, <1>2, <1>3, DraftedRowEffect
  <2>2. Touches(p, o, m)
    BY <1>3, <2>1 DEF Touches
  <2>3. CASE draftVersion[p][m] # 0
    BY <1>2, <2>3, BumpStays
  <2>4. CASE pc[p] = "watermark" /\ Scope(p) = m
    <3>1. CASE AdvanceWatermark(p)
      BY <1>0, <2>4, <3>1 DEF AdvanceWatermark
    <3>2. CASE pc'[p] = pc[p] /\ work'[p] = work[p]
      <4>1. CASE work[p].kind = "store"
        BY <2>4, <3>2, <4>1 DEF Scope, Current
      <4>2. CASE work[p].kind # "store"
        <5>1. o = work[p].target
          BY <1>1, <1>3, <4>2 DEF LedgerInvariant, DraftIsOwned, DrawnBy
        <5>2. View(p)'[o] = View(p)[o]
          BY <1>1, <1>3 DEF View
        <5>. QED  BY <2>4, <3>2, <4>2, <5>1, <5>2 DEF Scope
      <4>. QED  BY <4>1, <4>2
    <3>. QED  BY <1>2, <2>4, <3>1, <3>2, WatermarkStep
  <2>. QED  BY <2>2, <2>3, <2>4 DEF LedgerInvariant, ChangeIsCounted
<1>4. CASE Judge(p) /\ o = work[p].ids[work[p].at]
  <2>1. work[p] \in StoreWork
    BY <1>4, JudgeEffect
  <2>2. PICK state \in {"ACCEPTED", "QUARANTINED", "REJECTED"} :
           /\ draft' = [draft EXCEPT ![p][work[p].ids[work[p].at]] =
                           NewRow(Current(p), state)]
           /\ IF state = "ACCEPTED"
              THEN pc' = [pc EXCEPT ![p] = "watermark"] /\ UNCHANGED work
              ELSE NextRow(p)
    BY <1>4, JudgeEffect
  <2>3. draft'[p][o] = NewRow(Current(p), state)
    BY <1>0, <1>4, <2>2
  <2>4. row[o] = NoRow /\ row' = row
    BY <1>4, <2>1, CurrentType DEF LedgerInvariant, DrawnKeysAreNew, Judge
  <2>5. /\ draft'[p][o].state = state
        /\ draft'[p][o].series = Current(p).series
    BY <2>3 DEF NewRow
  <2>6. state = "ACCEPTED" /\ MarketOf[Current(p).series] = m
    BY <2>4, <2>5 DEF Touches
  <2>7. work' = work /\ pc'[p] = "watermark"
    BY <1>0, <2>2, <2>6
  <2>8. Scope(p)' = MarketOf[Current(p).series]
    BY <2>1, <2>7, StoreKind DEF Scope, Current
  <2>. QED  BY <2>6, <2>7, <2>8
<1>5. CASE MoveObservation(p) /\ o = work[p].target
  <2>1. work[p] \in MoveWork /\ row[o] # NoRow /\ row[o] \in Row
    BY <1>0, <1>5 DEF MoveObservation, Fits, TypeOK
  <2>2. draft'[p][o] = [row[o] EXCEPT !.state = work[p].to]
    BY <1>0, <1>5 DEF MoveObservation
  <2>3. /\ draft'[p][o].state = work[p].to
        /\ draft'[p][o].series = row[o].series
    BY <2>1, <2>2 DEF Row
  <2>4. row' = row /\ work' = work
    BY <1>5 DEF MoveObservation
  <2>5. "ACCEPTED" \in {row[o].state, work[p].to} /\ MarketOf[row[o].series] = m
    BY <2>3, <2>4 DEF Touches
  <2>6. pc'[p] = "watermark"
    BY <1>0, <1>5, <2>5 DEF MoveObservation, ChangesCatalogue
  <2>7. work[p].kind = "move"
    BY <2>1, MoveType
  <2>8. View(p)'[o] = draft'[p][o]
    BY <1>1 DEF View
  <2>9. Scope(p)' = m
    BY <1>5, <2>3, <2>4, <2>5, <2>7, <2>8 DEF Scope
  <2>. QED  BY <2>6, <2>9
<1>. QED  BY <1>2, <1>3, <1>4, <1>5, DraftEffect

--------------------------------------------------------------------------------
\* The inductive invariant holds in every reachable state of the ledger.
THEOREM LedgerInvariantHolds == Spec => []LedgerInvariant
<1>1. Init => LedgerInvariant
  BY InitEstablishes
<1>2. LedgerInvariant /\ [Next]_vars => LedgerInvariant'
  BY TypeInductive, StepInductive, DrawnInductive, DraftInductive, BumpInductive,
     CountInductive DEF LedgerInvariant
<1>. QED  BY <1>1, <1>2, PTL DEF Spec

\* The ledger's variables keep their types, for every value of the constants.
THEOREM TypeCorrect == Spec => []TypeOK
<1>1. LedgerInvariant => TypeOK
  BY DEF LedgerInvariant
<1>. QED  BY <1>1, LedgerInvariantHolds, PTL

\* A step that changes what a market's readers can see advances the market's
\* watermark, and no step moves a watermark back: validate_and_store_observation
\* and transition_observation implement the versioned catalogue.
THEOREM CatalogueImplemented == Spec => ImplementsCatalogue
<1>1. Init => Promise!Init
  BY DEF Init, Promise!Init, Catalogue, Accepted, Stored
<1>2. LedgerInvariant /\ [Next]_vars => [Promise!Publish]_<<Catalogue, version>>
  <2>. SUFFICES ASSUME LedgerInvariant, [Next]_vars
                PROVE  Promise!Publish \/ UNCHANGED <<Catalogue, version>>
    OBVIOUS
  <2>0. version \in [Markets -> Nat] /\ draftVersion \in [Proc -> [Markets -> Nat]]
    BY DEF LedgerInvariant, TypeOK
  <2>1. ASSUME NEW p \in Proc, Commit(p) PROVE Promise!Publish
    <3>1. version' = [m \in Markets |-> IF draftVersion[p][m] = 0
                                        THEN version[m] ELSE draftVersion[p][m]]
      BY <2>1 DEF Commit
    <3>2. ASSUME NEW m \in Markets
          PROVE /\ version'[m] \in Nat
                /\ version'[m] >= version[m]
                /\ draftVersion[p][m] # 0 => version'[m] > version[m]
      <4>1. version'[m] = IF draftVersion[p][m] = 0 THEN version[m]
                                                   ELSE draftVersion[p][m]
        BY <3>1
      <4>2. draftVersion[p][m] \in Nat /\ version[m] \in Nat
        BY <2>0
      <4>3. draftVersion[p][m] # 0 => draftVersion[p][m] > version[m]
        BY DEF LedgerInvariant, BumpIsOwned
      <4>. QED  BY <4>1, <4>2, <4>3
    <3>3. ASSUME NEW m \in Markets, draftVersion[p][m] = 0
          PROVE Catalogue'[m] = Catalogue[m]
      <4>1. ASSUME NEW o \in Obs, draft[p][o] # NoRow
            PROVE  o \notin Accepted(m) /\ o \notin Accepted(m)'
        <5>1. row'[o] = draft[p][o]
          BY <2>1, <4>1 DEF Commit, View
        <5>2. ~Touches(p, o, m)
          <6>1. pc[p] = "commit"
            BY <2>1 DEF Commit
          <6>2. ChangeIsCounted
            BY DEF LedgerInvariant
          <6>. QED  BY <3>3, <6>1, <6>2 DEF ChangeIsCounted
        <5>3. row[o] # NoRow => row[o].series = draft[p][o].series
          <6>1. DraftIsOwned
            BY DEF LedgerInvariant
          <6>2. o \in DrawnBy(p) => row[o] = NoRow
            BY DEF LedgerInvariant, DrawnKeysAreNew
          <6>. QED  BY <4>1, <6>1, <6>2 DEF DraftIsOwned
        <5>. QED  BY <4>1, <5>1, <5>2, <5>3 DEF Touches, Accepted, Stored
      <4>2. ASSUME NEW o \in Obs, draft[p][o] = NoRow PROVE row'[o] = row[o]
        BY <2>1, <4>2 DEF Commit, View
      <4>3. Accepted(m)' = Accepted(m)
        BY <4>1, <4>2 DEF Accepted, Stored
      <4>4. \A o \in Accepted(m) : row'[o] = row[o]
        BY <4>1, <4>2 DEF Accepted, Stored
      <4>. QED  BY <4>3, <4>4 DEF Catalogue
    <3>4. DOMAIN version' = Markets
      BY <3>1
    <3>. QED  BY <3>2, <3>3, <3>4 DEF Promise!Publish
  <2>2. CASE UNCHANGED <<row, version>>
    BY <2>2 DEF Catalogue, Accepted, Stored
  <2>. QED
    BY <2>1, <2>2 DEF Next, vars, BeginStore, LockStation, LockSnapshot, StoreStep,
       MoveStep, ReadContributorRows, Judge, AdvanceWatermark, BeginTransition,
       MoveObservation, RefuseTransition, Rollback, Tick
<1>. QED
  BY <1>1, <1>2, LedgerInvariantHolds, PTL DEF Spec, ImplementsCatalogue, Promise!Spec

--------------------------------------------------------------------------------
\* What a commit writes: the new rows of a batch, or the target of a move and
\* its event.
LEMMA CommitEffect ==
  ASSUME LedgerInvariant, NEW p \in Proc, Commit(p)
  PROVE  \/ /\ work[p] \in StoreWork
            /\ events' = events
            /\ \A o \in Obs : draft[p][o] # NoRow => row[o] = NoRow
         \/ /\ work[p] \in MoveWork /\ pc[p] = "commit"
            /\ \A o \in Obs : o # work[p].target => /\ row'[o] = row[o]
                                                    /\ events'[o] = events[o]
            /\ events'[work[p].target] = events[work[p].target] \o draftEvent[p]
            /\ draft[p][work[p].target] # NoRow
                  => row'[work[p].target] = draft[p][work[p].target]
<1>1. /\ work[p] \in StoreWork \union MoveWork /\ pc[p] = "commit"
      /\ events \in [Obs -> Seq(Event)]
      /\ \A o \in Obs : row'[o] = IF draft[p][o] # NoRow THEN draft[p][o] ELSE row[o]
  BY DEF LedgerInvariant, TypeOK, StepFitsWork, Fits, Commit, View
<1>2. CASE work[p] \in StoreWork
  <2>1. work[p].kind = "store" /\ work[p] \notin MoveWork
    BY <1>2, StoreKind
  <2>2. events' = events
    BY <1>2, <2>1 DEF Commit
  <2>3. \A o \in Obs : draft[p][o] # NoRow => row[o] = NoRow
    BY <2>1 DEF LedgerInvariant, DraftIsOwned, DrawnKeysAreNew
  <2>. QED  BY <1>2, <2>2, <2>3
<1>3. CASE work[p] \in MoveWork
  <2>1. work[p].kind = "move" /\ work[p].target \in Obs
    BY <1>3, MoveType
  <2>2. events' = [events EXCEPT ![work[p].target] = @ \o draftEvent[p]]
    BY <2>1 DEF Commit
  <2>3. \A o \in Obs : o # work[p].target => draft[p][o] = NoRow
    <3>1. DrawnBy(p) = {}
      BY <2>1 DEF DrawnBy
    <3>. QED  BY <3>1 DEF LedgerInvariant, DraftIsOwned
  <2>4. \A o \in Obs : o # work[p].target => row'[o] = row[o]
    BY <1>1, <2>3
  <2>5. \A o \in Obs : o # work[p].target => events'[o] = events[o]
    BY <1>1, <2>2
  <2>6. events'[work[p].target] = events[work[p].target] \o draftEvent[p]
    BY <1>1, <2>1, <2>2
  <2>7. draft[p][work[p].target] # NoRow
           => row'[work[p].target] = draft[p][work[p].target]
    BY <1>1, <2>1
  <2>. QED  BY <1>1, <1>3, <2>4, <2>5, <2>6, <2>7
<1>. QED  BY <1>1, <1>2, <1>3

\* Only a commit writes the committed rows, events and watermarks.
LEMMA OnlyCommitWrites ==
  ASSUME LedgerInvariant, [Next]_vars
  PROVE  UNCHANGED <<row, events, version>> \/ \E p \in Proc : Commit(p)
<1>1. ASSUME NEW p \in Proc, StoreStep(p) \/ MoveStep(p)
      PROVE  UNCHANGED <<row, events, version>>
  BY <1>1 DEF StoreStep, MoveStep, LockStation, LockSnapshot, ReadContributorRows,
     Judge, MoveObservation, RefuseTransition
<1>2. ASSUME NEW p \in Proc,
             BeginStore(p) \/ BeginTransition(p) \/ AdvanceWatermark(p) \/ Rollback(p)
      PROVE  UNCHANGED <<row, events, version>>
  BY <1>2 DEF BeginStore, BeginTransition, AdvanceWatermark, Rollback
<1>3. CASE Tick \/ UNCHANGED vars
  BY <1>3 DEF Tick, vars
<1>. QED  BY <1>1, <1>2, <1>3 DEF Next

--------------------------------------------------------------------------------
(* The moderation trail *)

LEMMA AuditInit == ASSUME Init PROVE AuditInvariant
<1>1. LedgerInvariant
  BY InitEstablishes
<1>2. AuditTrailReplays /\ EventsAreStored
  BY DEF Init, AuditTrailReplays, EventsAreStored, Stored
<1>3. EventTellsMove
  BY DEF Init, EventTellsMove
<1>. QED  BY <1>1, <1>2, <1>3 DEF AuditInvariant

LEMMA EmptyHistory ==
  ASSUME NEW state PROVE LegalHistory(<<>>, state)
BY DEF LegalHistory

\* One legal move from the state a history ends in makes a longer history.
LEMMA HistoryGrows ==
  ASSUME NEW trail \in Seq(Event), NEW from \in States, NEW to \in States,
         to \in Allowed(from),
         LegalHistory(trail, from)
  PROVE  LegalHistory(trail \o <<[from |-> from, to |-> to]>>, to)
<1>. DEFINE last == [from |-> from, to |-> to]
            longer == trail \o <<last>>
            n == Len(trail)
<1>1. /\ n \in Nat /\ Len(longer) = n + 1 /\ longer[n + 1] = last
      /\ \A i \in 1..n : longer[i] = trail[i]
      /\ DOMAIN longer = 1..(n + 1) /\ DOMAIN trail = 1..n
      /\ longer # <<>> /\ trail = <<>> => n = 0
      /\ n > 0 => trail # <<>>
  <2>1. last \in Event
    BY DEF Event
  <2>. HIDE DEF last
  <2>. QED  BY <2>1
<1>2. last.from = from /\ last.to = to
  OBVIOUS
<1>3. /\ \A i \in 1..n : trail[i].to \in Allowed(trail[i].from)
      /\ \A i \in 1..(n - 1) : trail[i].to = trail[i + 1].from
      /\ n > 0 => trail[n].to = from
  BY <1>1 DEF LegalHistory
<1>. HIDE DEF last, longer, n
<1>4. ASSUME NEW i \in 1..(n + 1) PROVE longer[i].to \in Allowed(longer[i].from)
  <2>1. i = n + 1 \/ i \in 1..n
    BY <1>1
  <2>. QED  BY <1>1, <1>2, <1>3, <2>1
<1>5. ASSUME NEW i \in 1..n PROVE longer[i].to = longer[i + 1].from
  <2>1. CASE i = n
    <3>1. n > 0 /\ longer[i] = trail[n] /\ longer[i + 1] = last
      BY <1>1, <2>1
    <3>. QED  BY <1>2, <1>3, <3>1
  <2>2. CASE i # n
    <3>1. i \in 1..(n - 1) /\ i + 1 \in 1..n
      BY <1>1, <2>2
    <3>2. longer[i] = trail[i] /\ longer[i + 1] = trail[i + 1]
      BY <1>1, <3>1
    <3>. QED  BY <1>3, <3>1, <3>2
  <2>. QED  BY <2>1, <2>2
<1>6. longer[Len(longer)].to = to
  BY <1>1, <1>2
<1>7. LegalHistory(longer, to)
  BY <1>1, <1>4, <1>5, <1>6 DEF LegalHistory
<1>. QED  BY <1>7 DEF longer, last

\* An event is drafted with the move, and the locked row waits for it.
LEMMA EventInductive ==
  ASSUME AuditInvariant, [Next]_vars
  PROVE  EventTellsMove'
<1>. SUFFICES ASSUME NEW p \in Proc, work'[p] \in MoveWork,
                     pc'[p] \in {"watermark", "commit"},
                     NEW o, o = work'[p].target
              PROVE  /\ draft'[p][o] # NoRow
                     /\ draftEvent'[p] = <<[from |-> row'[o].state,
                                            to |-> draft'[p][o].state]>>
                     /\ draft'[p][o].state \in Allowed(row'[o].state)
  BY DEF EventTellsMove
<1>0. /\ LedgerInvariant /\ TypeOK /\ Fits(p) /\ LedgerInvariant'
  BY TypeInductive, StepInductive, DrawnInductive, DraftInductive, BumpInductive,
     CountInductive DEF AuditInvariant, LedgerInvariant, StepFitsWork
<1>1. ~Finish(p)
  BY <1>0, FinishEffect
<1>2. CASE MoveObservation(p)
  <2>1. /\ work'[p] = work[p] /\ row' = row
        /\ o \in Obs /\ row[o] \in Row
    BY <1>0, <1>2, MoveType DEF MoveObservation, Fits, TypeOK, LedgerInvariant
  <2>2. /\ draft'[p][o] = [row[o] EXCEPT !.state = work[p].to]
        /\ draftEvent'[p] = <<[from |-> row[o].state, to |-> work[p].to]>>
        /\ work[p].to \in Allowed(row[o].state)
    BY <1>0, <1>2, <2>1 DEF MoveObservation, TypeOK
  <2>3. [row[o] EXCEPT !.state = work[p].to] \in Row
        /\ [row[o] EXCEPT !.state = work[p].to].state = work[p].to
    BY <2>1, MoveType DEF Row
  <2>. QED  BY <2>1, <2>2, <2>3, NoRowAssumption
<1>3. CASE ~MoveObservation(p)
  \* Nothing but MoveObservation moves a transition to these statements, and
  \* its work, draft and event stay as they are.
  <2>1. /\ work[p] \in MoveWork /\ work'[p] = work[p]
        /\ pc[p] \in {"watermark", "commit"}
        /\ draftEvent'[p] = draftEvent[p]
    <3>1. ASSUME NEW q \in Proc, Finish(q)
          PROVE  pc'[p] = pc[p] /\ work'[p] = work[p] /\ draftEvent'[p] = draftEvent[p]
      BY <1>0, <1>1, <3>1, FinishEffect DEF Finish, TypeOK
    <3>2. ASSUME NEW q \in Proc, NextRow(q), work[q] \in StoreWork \union MoveWork,
                 pc[q] \in {"watermark", "judge"}, draftEvent' = draftEvent,
                 pc[q] = "judge" => work[q] \in StoreWork
          PROVE  /\ work[p] \in MoveWork /\ work'[p] = work[p]
                 /\ pc[p] \in {"watermark", "commit"}
                 /\ draftEvent'[p] = draftEvent[p]
      BY <1>0, <3>2, NextRowEffect, StoreKind
    <3>3. ASSUME NEW q \in Proc, AdvanceWatermark(q)
          PROVE  NextRow(q) /\ work[q] \in StoreWork \union MoveWork
                 /\ pc[q] = "watermark" /\ draftEvent' = draftEvent
      BY <1>0, <3>3 DEF AdvanceWatermark, LedgerInvariant, StepFitsWork, Fits
    <3>4. ASSUME NEW q \in Proc, Judge(q)
          PROVE  /\ work[p] \in MoveWork /\ work'[p] = work[p]
                 /\ pc[p] \in {"watermark", "commit"}
                 /\ draftEvent'[p] = draftEvent[p]
      <4>1. work[q] \in StoreWork /\ pc[q] = "judge" /\ draftEvent' = draftEvent
        BY <1>0, <3>4, JudgeEffect DEF Judge
      <4>2. NextRow(q) \/ (pc' = [pc EXCEPT ![q] = "watermark"] /\ UNCHANGED work)
        BY <1>0, <3>4, JudgeEffect
      <4>3. CASE NextRow(q)
        BY <3>2, <4>1, <4>3
      <4>4. CASE pc' = [pc EXCEPT ![q] = "watermark"] /\ UNCHANGED work
        BY <1>0, <4>1, <4>4, StoreKind DEF TypeOK
      <4>. QED  BY <4>2, <4>3, <4>4
    <3>5. ASSUME NEW q \in Proc, BeginStore(q) \/ BeginTransition(q)
          PROVE  pc'[p] = pc[p] /\ work'[p] = work[p] /\ draftEvent'[p] = draftEvent[p]
      <4>1. q # p
        BY <1>0, <3>5 DEF BeginStore, BeginTransition, FirstStep, TypeOK
      <4>. QED  BY <1>0, <3>5, <4>1 DEF BeginStore, BeginTransition, TypeOK
    <3>6. ASSUME NEW q \in Proc, LockStation(q) \/ LockSnapshot(q) \/ ReadContributorRows(q)
          PROVE  pc'[p] = pc[p] /\ work'[p] = work[p] /\ draftEvent'[p] = draftEvent[p]
      <4>1. q # p
        BY <1>0, <3>6 DEF LockStation, LockSnapshot, ReadContributorRows, TypeOK
      <4>. QED
        BY <1>0, <3>6, <4>1 DEF LockStation, LockSnapshot, ReadContributorRows, TypeOK
    <3>7. ASSUME NEW q \in Proc, MoveObservation(q)
          PROVE  pc'[p] = pc[p] /\ work'[p] = work[p] /\ draftEvent'[p] = draftEvent[p]
      BY <1>0, <1>3, <3>7 DEF MoveObservation, TypeOK
    <3>8. CASE Tick \/ UNCHANGED vars
      BY <3>8 DEF Tick, vars
    <3>. QED
      BY <3>1, <3>2, <3>3, <3>4, <3>5, <3>6, <3>7, <3>8
         DEF Next, StoreStep, MoveStep, RefuseTransition, Rollback, Commit
  <2>2. o \in Obs
    BY <2>1, MoveType
  <2>3. /\ draft[p][o] # NoRow
        /\ draftEvent[p] = <<[from |-> row[o].state, to |-> draft[p][o].state]>>
        /\ draft[p][o].state \in Allowed(row[o].state)
    BY <2>1 DEF AuditInvariant, EventTellsMove
  <2>4. draft'[p][o] = draft[p][o]
    <3>1. ~Judge(p)
      BY <2>1 DEF Judge
    <3>. QED  BY <1>0, <1>1, <1>3, <2>2, <3>1, DraftEffect
  <2>5. row'[o] = row[o]
    BY <1>0, <1>1, <2>2, <2>3, DraftedRowEffect
  <2>. QED  BY <2>1, <2>3, <2>4, <2>5
<1>. QED  BY <1>2, <1>3

\* A commit of a move appends its event; nothing else touches a stored trail.
LEMMA TrailInductive ==
  ASSUME AuditInvariant, [Next]_vars
  PROVE  AuditTrailReplays' /\ EventsAreStored'
<1>0. LedgerInvariant /\ TypeOK /\ \A p \in Proc : Fits(p)
  BY DEF AuditInvariant, LedgerInvariant, StepFitsWork
<1>1. CASE UNCHANGED <<row, events>>
  BY <1>1 DEF AuditInvariant, AuditTrailReplays, EventsAreStored, Stored
<1>2. ASSUME NEW p \in Proc, Commit(p), work[p] \in StoreWork, events' = events,
             \A o \in Obs : draft[p][o] # NoRow => row[o] = NoRow
      PROVE  AuditTrailReplays' /\ EventsAreStored'
  <2>1. \A o \in Obs : row'[o] = row[o] \/ (row[o] = NoRow /\ row'[o] # NoRow)
    BY <1>2 DEF Commit, View
  <2>2. \A o \in Obs : row[o] = NoRow => events'[o] = <<>>
    BY <1>2 DEF AuditInvariant, EventsAreStored
  <2>3. EventsAreStored'
    BY <2>1, <2>2 DEF EventsAreStored
  <2>4. ASSUME NEW o \in Stored' PROVE events'[o] = <<>> \/ (o \in Stored /\ row'[o] = row[o])
    BY <2>1, <2>2 DEF Stored
  <2>5. AuditTrailReplays'
    <3>1. AuditTrailReplays
      BY DEF AuditInvariant
    <3>. SUFFICES ASSUME NEW o \in Stored'
                  PROVE  LegalHistory(events'[o], row'[o].state)
      BY DEF AuditTrailReplays
    <3>2. CASE events'[o] = <<>>
      BY <3>2, EmptyHistory
    <3>3. CASE o \in Stored /\ row'[o] = row[o]
      BY <1>2, <3>1, <3>3 DEF AuditTrailReplays
    <3>. QED  BY <2>4, <3>2, <3>3
  <2>. QED  BY <2>3, <2>5
<1>3. ASSUME NEW p \in Proc, Commit(p), work[p] \in MoveWork, pc[p] = "commit",
             \A o \in Obs : o # work[p].target => /\ row'[o] = row[o]
                                                  /\ events'[o] = events[o],
             events'[work[p].target] = events[work[p].target] \o draftEvent[p],
             draft[p][work[p].target] # NoRow
                => row'[work[p].target] = draft[p][work[p].target]
      PROVE  AuditTrailReplays' /\ EventsAreStored'
  <2>. DEFINE t == work[p].target
              from == row[t].state
              to == draft[p][t].state
  <2>1. t \in Obs /\ row[t] # NoRow
    BY <1>0, <1>3, MoveType DEF Fits
  <2>2. /\ draft[p][t] # NoRow
        /\ draftEvent[p] = <<[from |-> from, to |-> to]>>
        /\ to \in Allowed(from)
    BY <1>3 DEF AuditInvariant, EventTellsMove
  <2>3. row'[t] = draft[p][t]
    BY <1>3, <2>2
  <2>4. from \in States /\ to \in States
    BY <1>0, <2>1, <2>2 DEF TypeOK, Row
  <2>5. EventsAreStored'
    BY <1>3, <2>2, <2>3 DEF EventsAreStored, AuditInvariant
  <2>6. ASSUME NEW o \in Stored', o # t
        PROVE  o \in Stored /\ row'[o] = row[o] /\ events'[o] = events[o]
    BY <1>3, <2>6 DEF Stored
  <2>7. LegalHistory(events'[t], row'[t].state)
    <3>1. events[t] \in Seq(Event)
      BY <1>0, <2>1 DEF TypeOK
    <3>2. LegalHistory(events[t], from)
      BY <2>1 DEF AuditInvariant, AuditTrailReplays, Stored
    <3>3. LegalHistory(events[t] \o <<[from |-> from, to |-> to]>>, to)
      <4>. HIDE DEF t, from, to
      <4>. QED  BY <2>2, <2>4, <3>1, <3>2, HistoryGrows
    <3>4. events'[t] = events[t] \o <<[from |-> from, to |-> to]>>
      BY <1>3, <2>2
    <3>5. row'[t].state = to
      BY <2>3
    <3>. HIDE DEF t, from, to
    <3>. QED  BY <3>3, <3>4, <3>5
  <2>8. AuditTrailReplays'
    <3>1. AuditTrailReplays
      BY DEF AuditInvariant
    <3>. HIDE DEF t
    <3>. QED  BY <2>6, <2>7, <3>1 DEF AuditTrailReplays
  <2>. QED  BY <2>5, <2>8
<1>. QED  BY <1>0, <1>1, <1>2, <1>3, OnlyCommitWrites, CommitEffect

LEMMA AuditInductive == AuditInvariant /\ [Next]_vars => AuditInvariant'
BY EventInductive, TrailInductive, TypeInductive, StepInductive, DrawnInductive,
   DraftInductive, BumpInductive, CountInductive DEF AuditInvariant, LedgerInvariant

\* The moderation events of every observation are a legal history that ends in
\* its state, however moderators, reports and imports interleave, and whichever
\* of their transactions fail (transition_observation).
THEOREM TrailsReplay == Spec => []AuditTrailReplays
<1>1. Init => AuditInvariant
  BY AuditInit
<1>2. AuditInvariant => AuditTrailReplays
  BY DEF AuditInvariant
<1>. QED  BY <1>1, <1>2, AuditInductive, PTL DEF Spec

--------------------------------------------------------------------------------
(* The order of the row locks *)

\* The keys of the four tables have ranks one to three.
LEMMA RankType == ASSUME NEW k \in LockKey PROVE Rank(k) \in 1..3
BY DEF LockKey, Rank

\* In its first row a transaction only takes locks below its next statement.
LEMMA StepClimbs ==
  ASSUME LedgerInvariant, [Next]_vars, NEW p \in Proc
  PROVE  \/ /\ PastFirstRow(p) => PastFirstRow(p)'
            /\ Level(p)' >= Level(p)
            /\ \A k \in LockKey : lock'[k] = p => lock[k] = p \/ Rank(k) < Level(p)'
         \/ Finish(p)
         \/ PastFirstRow(p)'
<1>. DEFINE Climbs ==
       /\ PastFirstRow(p) => PastFirstRow(p)'
       /\ Level(p)' >= Level(p)
       /\ \A k \in LockKey : lock'[k] = p => lock[k] = p \/ Rank(k) < Level(p)'
<1>0. /\ TypeOK /\ DOMAIN pc = Proc /\ DOMAIN work = Proc /\ Free \notin Proc
      /\ lock \in [LockKey -> Proc \union {Free}]
      /\ pc \in [Proc -> {"idle", "station", "snapshot", "contributor", "judge",
                          "watermark", "observation", "commit"}]
      /\ \A q \in Proc : Fits(q)
  BY LedgerAssumption DEF LedgerInvariant, TypeOK, StepFitsWork
<1>a. ASSUME work'[p] = work[p] PROVE PastFirstRow(p)' = PastFirstRow(p)
  BY <1>a DEF PastFirstRow
<1>b. ASSUME NEW key, NEW q \in Proc, Acquire(key, q)
      PROVE  \A k \in LockKey : lock'[k] = p => lock[k] = p \/ (q = p /\ k = key)
  BY <1>0, <1>b DEF Acquire
<1>c. Level(p) \in Nat
  BY <1>0 DEF Level
<1>d. ASSUME pc'[p] = pc[p] PROVE Level(p)' >= Level(p)
  BY <1>0, <1>c, <1>d DEF Level
<1>e. ASSUME pc'[p] = pc[p], work'[p] = work[p],
             \A k \in LockKey : lock'[k] = p => lock[k] = p
      PROVE  Climbs
  BY <1>a, <1>d, <1>e
<1>1. ASSUME NEW q \in Proc, Finish(q) PROVE Climbs \/ Finish(p)
  <2>1. CASE q # p
    <3>1. pc'[p] = pc[p] /\ work'[p] = work[p]
      BY <1>0, <1>1, <2>1, FinishEffect
    <3>2. \A k \in LockKey : lock'[k] = p => lock[k] = p
      BY <1>0, <1>1, <2>1 DEF Finish
    <3>. QED  BY <1>e, <3>1, <3>2
  <2>. QED  BY <1>1, <2>1
<1>2. ASSUME NEW q \in Proc, BeginStore(q) \/ BeginTransition(q) PROVE Climbs
  <2>1. lock' = lock
    BY <1>2 DEF BeginStore, BeginTransition
  <2>2. CASE q = p
    <3>1. pc[p] = "idle" /\ work[p] = NoWork
      BY <1>0, <1>2, <2>2 DEF BeginStore, BeginTransition, Fits
    <3>2. Level(p) = 1 /\ ~PastFirstRow(p)
      BY <3>1 DEF Level, PastFirstRow, NoWork
    <3>3. pc'[p] \in {"station", "contributor", "observation"}
      BY <1>0, <1>2, <2>2 DEF BeginStore, BeginTransition, FirstStep
    <3>4. Level(p)' >= 1
      BY <3>3 DEF Level
    <3>. QED  BY <2>1, <3>2, <3>4
  <2>3. CASE q # p
    BY <1>0, <1>2, <1>e, <2>1, <2>3 DEF BeginStore, BeginTransition
  <2>. QED  BY <2>2, <2>3
<1>3. ASSUME NEW q \in Proc, LockStation(q) PROVE Climbs
  <2>1. \A k \in LockKey : lock'[k] = p => lock[k] = p \/ (q = p /\ k[1] = "station")
    BY <1>3, <1>b DEF LockStation
  <2>2. work' = work /\ pc[q] = "station" /\ pc' = [pc EXCEPT ![q] = "snapshot"]
    BY <1>3 DEF LockStation
  <2>. QED  BY <1>0, <1>a, <1>e, <2>1, <2>2 DEF Level, Rank
<1>4. ASSUME NEW q \in Proc, LockSnapshot(q) PROVE Climbs
  <2>1. \A k \in LockKey : lock'[k] = p => lock[k] = p \/ (q = p /\ k[1] = "snapshot")
    BY <1>4, <1>b DEF LockSnapshot
  <2>2. work' = work /\ pc[q] = "snapshot" /\ pc' = [pc EXCEPT ![q] = "contributor"]
    BY <1>4 DEF LockSnapshot
  <2>. QED  BY <1>0, <1>a, <1>e, <2>1, <2>2 DEF Level, Rank
<1>5. ASSUME NEW q \in Proc, MoveObservation(q) PROVE Climbs
  <2>1. \A k \in LockKey : lock'[k] = p => lock[k] = p \/ (q = p /\ k[1] = "observation")
    BY <1>5, <1>b DEF MoveObservation, LockObservation
  <2>2. /\ work' = work /\ pc[q] = "observation"
        /\ \/ pc' = [pc EXCEPT ![q] = "watermark"]
           \/ pc' = [pc EXCEPT ![q] = "commit"]
    BY <1>5 DEF MoveObservation
  <2>. QED  BY <1>0, <1>a, <1>e, <2>1, <2>2 DEF Level, Rank
<1>6. ASSUME NEW q \in Proc, ReadContributorRows(q) PROVE Climbs
  <2>1. work[q] \in StoreWork
    BY <1>0, <1>6 DEF ReadContributorRows, Fits
  <2>2. work'[q].kind = work[q].kind /\ work'[q].at = work[q].at
    BY <1>0, <1>6, <2>1 DEF ReadContributorRows, StoreWork
  <2>3. \A r \in Proc : PastFirstRow(r)' = PastFirstRow(r)
    BY <1>0, <1>6, <2>2 DEF ReadContributorRows, PastFirstRow
  <2>4. lock' = lock /\ pc[q] = "contributor" /\ pc' = [pc EXCEPT ![q] = "judge"]
    BY <1>6 DEF ReadContributorRows
  <2>5. Level(p)' >= Level(p)
    BY <1>0, <1>d, <2>4 DEF Level
  <2>. QED  BY <2>3, <2>4, <2>5
<1>7. ASSUME NEW q \in Proc, NextRow(q), work[q] \in StoreWork \union MoveWork,
             pc[q] \in {"judge", "watermark"},
             \A k \in LockKey : lock'[k] = p => lock[k] = p \/ (q = p /\ k[1] = "watermark")
      PROVE  Climbs \/ PastFirstRow(p)'
  <2>1. CASE q # p
    BY <1>0, <1>7, <1>e, <2>1, NextRowEffect
  <2>2. CASE q = p /\ work[q].kind = "store" /\ work[q].at < Len(work[q].batch)
    <3>1. work[p] \in StoreWork
      BY <1>0, <2>2, WorkKind
    <3>2. work'[p] = AtNextRow(work[p])
      BY <1>0, <1>7, <2>2 DEF NextRow
    <3>3. work'[p].kind = "store" /\ work'[p].at = work[p].at + 1
      BY <3>1, <3>2 DEF AtNextRow, StoreWork
    <3>4. work[p].at \in 1..Len(work[p].batch)
      BY <3>1, CurrentType
    <3>. QED  BY <2>2, <3>3, <3>4 DEF PastFirstRow
  <2>3. CASE q = p /\ ~(work[q].kind = "store" /\ work[q].at < Len(work[q].batch))
    <3>1. pc'[p] = "commit" /\ work'[p] = work[p]
      BY <1>0, <1>7, <2>3 DEF NextRow
    <3>2. Level(p)' = 4 /\ Level(p) = 3
      BY <1>7, <2>3, <3>1 DEF Level
    <3>3. \A k \in LockKey : Rank(k) < 4
      BY RankType
    <3>. QED  BY <1>a, <3>1, <3>2, <3>3
  <2>. QED  BY <2>1, <2>2, <2>3
<1>8. ASSUME NEW q \in Proc, Judge(q) PROVE Climbs \/ PastFirstRow(p)'
  <2>1. /\ work[q] \in StoreWork /\ pc[q] = "judge" /\ lock' = lock
        /\ \/ pc' = [pc EXCEPT ![q] = "watermark"] /\ work' = work
           \/ NextRow(q)
    BY <1>0, <1>8, JudgeEffect DEF Judge
  <2>2. CASE pc' = [pc EXCEPT ![q] = "watermark"] /\ work' = work
    <3>1. Level(p)' >= Level(p)
      BY <1>0, <1>d, <2>1, <2>2 DEF Level
    <3>. QED  BY <1>a, <2>1, <2>2, <3>1
  <2>3. CASE NextRow(q)
    BY <1>7, <2>1, <2>3
  <2>. QED  BY <2>1, <2>2, <2>3
<1>9. ASSUME NEW q \in Proc, AdvanceWatermark(q) PROVE Climbs \/ PastFirstRow(p)'
  <2>1. \A k \in LockKey : lock'[k] = p => lock[k] = p \/ (q = p /\ k[1] = "watermark")
    BY <1>9, <1>b DEF AdvanceWatermark, LockWatermark
  <2>2. NextRow(q) /\ work[q] \in StoreWork \union MoveWork /\ pc[q] = "watermark"
    BY <1>0, <1>9 DEF AdvanceWatermark, Fits
  <2>. QED  BY <1>7, <2>1, <2>2
<1>10. CASE Tick \/ UNCHANGED vars
  BY <1>e, <1>10 DEF Tick, vars
<1>. QED
  BY <1>1, <1>2, <1>3, <1>4, <1>5, <1>6, <1>8, <1>9, <1>10
     DEF Next, StoreStep, MoveStep, RefuseTransition, Rollback, Commit

Statements == {"idle", "station", "snapshot", "contributor", "judge",
               "watermark", "observation", "commit"}

LEMMA OrderInductive ==
  ASSUME LedgerInvariant, LedgerInvariant', LocksInOrder, [Next]_vars
  PROVE  LocksInOrder'
<1>. SUFFICES ASSUME NEW p \in Proc, NEW k \in LockKey, lock'[k] = p,
                     ~PastFirstRow(p)'
              PROVE  Rank(k) < Level(p)'
  BY DEF LocksInOrder
<1>1. ~Finish(p)
  <2>. SUFFICES ASSUME Finish(p) PROVE FALSE
    OBVIOUS
  <2>1. lock'[k] = IF k \in HeldBy(p) THEN Free ELSE lock[k]
    BY DEF Finish
  <2>2. k \in HeldBy(p) <=> lock[k] = p
    BY DEF HeldBy
  <2>. QED  BY <2>1, <2>2, LedgerAssumption
<1>2. Level(p) \in Nat /\ Level(p)' \in Nat /\ Rank(k) \in Nat
  <2>1. pc[p] \in Statements /\ pc'[p] \in Statements
    BY DEF LedgerInvariant, TypeOK, Statements
  <2>2. Level(p) \in Nat
    BY <2>1 DEF Level, Statements
  <2>3. Level(p)' \in Nat
    BY <2>1 DEF Level, Statements
  <2>. QED  BY <2>2, <2>3, RankType
<1>3. /\ PastFirstRow(p) => PastFirstRow(p)'
      /\ Level(p)' >= Level(p)
      /\ lock[k] = p \/ Rank(k) < Level(p)'
  BY <1>1, StepClimbs
<1>. QED  BY <1>2, <1>3 DEF LocksInOrder

LEMMA StationInductive ==
  ASSUME LedgerInvariant, StationIsThere, [Next]_vars
  PROVE  StationIsThere'
<1>. SUFFICES ASSUME NEW p \in Proc, pc'[p] \in {"station", "snapshot"}
              PROVE  StationOf[Current(p)'.series] # NoStation
  BY DEF StationIsThere
<1>0. /\ TypeOK /\ DOMAIN pc = Proc /\ DOMAIN work = Proc
      /\ \A q \in Proc : Fits(q)
  BY DEF LedgerInvariant, TypeOK, StepFitsWork
<1>1. CASE pc'[p] = pc[p] /\ work'[p] = work[p]
  BY <1>1 DEF StationIsThere, Current
<1>2. CASE LockStation(p)
  <2>1. pc[p] = "station" /\ work' = work
    BY <1>2 DEF LockStation
  <2>. QED  BY <2>1 DEF StationIsThere, Current
<1>3. CASE BeginStore(p)
  <2>1. PICK batch \in Batches :
          /\ pc'[p] = FirstStep(batch[1].series)
          /\ Current(p)' = batch[1]
    BY <1>0, <1>3 DEF BeginStore, Current
  <2>. QED  BY <2>1 DEF FirstStep
<1>4. CASE NextRow(p) /\ work[p].kind = "store" /\ work[p].at < Len(work[p].batch)
  <2>1. work[p] \in StoreWork
    BY <1>0, <1>4, WorkKind
  <2>2. work'[p] = AtNextRow(work[p])
        /\ pc'[p] = FirstStep(work[p].batch[work[p].at + 1].series)
    BY <1>0, <1>4 DEF NextRow
  <2>3. work'[p].batch = work[p].batch /\ work'[p].at = work[p].at + 1
    BY <2>1, <2>2 DEF AtNextRow, StoreWork
  <2>. QED  BY <2>2, <2>3 DEF FirstStep, Current
<1>5. ASSUME NEW q \in Proc, NextRow(q), ~(q = p /\ work[q].kind = "store"
                                               /\ work[q].at < Len(work[q].batch))
      PROVE  pc'[p] = pc[p] /\ work'[p] = work[p]
  BY <1>0, <1>5 DEF NextRow
<1>6. ASSUME NEW q \in Proc, Finish(q) PROVE pc'[p] = pc[p] /\ work'[p] = work[p]
  <2>1. q # p
    BY <1>0, <1>6, FinishEffect
  <2>. QED  BY <1>0, <1>6, <2>1, FinishEffect
<1>7. ASSUME NEW q \in Proc, q # p, BeginStore(q) \/ LockStation(q)
      PROVE  pc'[p] = pc[p] /\ work'[p] = work[p]
  BY <1>0, <1>7 DEF BeginStore, LockStation
<1>8. ASSUME NEW q \in Proc, \/ BeginTransition(q) \/ LockSnapshot(q)
                             \/ ReadContributorRows(q) \/ MoveObservation(q)
      PROVE  pc'[p] = pc[p] /\ work'[p] = work[p]
  BY <1>0, <1>8 DEF BeginTransition, LockSnapshot, ReadContributorRows, MoveObservation
<1>9. ASSUME NEW q \in Proc, Judge(q)
      PROVE  NextRow(q) \/ (pc'[p] = pc[p] /\ work'[p] = work[p])
  BY <1>0, <1>9, JudgeEffect
<1>. QED
  BY <1>1, <1>2, <1>3, <1>4, <1>5, <1>6, <1>7, <1>8, <1>9
     DEF Next, vars, StoreStep, MoveStep, AdvanceWatermark, RefuseTransition,
         Rollback, Commit, Tick

\* The lock a process waits for ranks as high as its statement.
LEMMA NeedsLevel ==
  ASSUME OrderInvariant, NEW p \in Proc, Waiting(p)
  PROVE  /\ Needs(p) \in LockKey
         /\ Rank(Needs(p)) = Level(p)
         /\ Level(p) \in 1..3
<1>0. LedgerInvariant /\ TypeOK /\ Fits(p)
  BY DEF OrderInvariant, LedgerInvariant, StepFitsWork
<1>1. pc[p] \in {"station", "snapshot", "observation", "watermark"}
  BY DEF Waiting
<1>2. CASE pc[p] = "station" \/ pc[p] = "snapshot"
  \* FirstStep comes here only with a station to lock.
  <2>1. Current(p) \in Command /\ StationOf[Current(p).series] \in Stations
    <3>1. work[p] \in StoreWork
      BY <1>0, <1>2 DEF Fits
    <3>2. StationOf[Current(p).series] # NoStation
      BY <1>2 DEF OrderInvariant, StationIsThere
    <3>3. Current(p) \in Command /\ Current(p).series \in Series
      BY <1>0, <3>1, CurrentType DEF Command
    <3>. QED  BY <3>2, <3>3, LedgerAssumption
  <2>. QED  BY <2>1, <1>2, LedgerAssumption DEF Needs, Rank, Level, LockKey
<1>3. CASE pc[p] = "observation"
  <2>1. work[p].target \in Obs
    BY <1>0, <1>3, MoveType DEF Fits
  <2>. QED  BY <1>3, <2>1 DEF Needs, Rank, Level, LockKey
<1>4. CASE pc[p] = "watermark"
  <2>1. Scope(p) \in Markets
    BY <1>0, <1>4, ScopeType DEF Fits
  <2>. QED  BY <1>4, <2>1 DEF Needs, Rank, Level, LockKey
<1>. QED  BY <1>1, <1>2, <1>3, <1>4

\* In a cycle of waiting transactions each waits for a lock above all it holds:
\* three locks on there is none left to wait for.
LEMMA OrderBreaksCycles == ASSUME OrderInvariant PROVE DeadlockNeedsBatch
<1>. SUFFICES ASSUME NEW S \in SUBSET Proc, Deadlocked(S),
                     \A p \in S : ~PastFirstRow(p)
              PROVE  FALSE
  BY DEF DeadlockNeedsBatch, PastFirstRow
<1>1. ASSUME NEW p \in S
      PROVE  \E q \in S : Level(q) \in 1..3 /\ Level(p) \in 1..3 /\ Level(q) > Level(p)
  <2>1. Waiting(p) /\ lock[Needs(p)] \in S
    BY DEF Deadlocked
  <2>2. PICK q \in S : lock[Needs(p)] = q
    BY <2>1
  <2>3. Needs(p) \in LockKey /\ Rank(Needs(p)) = Level(p) /\ Level(p) \in 1..3
    BY <2>1, NeedsLevel
  <2>4. Rank(Needs(p)) < Level(q)
    BY <2>2, <2>3 DEF OrderInvariant, LocksInOrder
  <2>5. Level(q) \in 1..3
    BY NeedsLevel DEF Deadlocked
  <2>. QED  BY <2>3, <2>4, <2>5
<1>2. PICK p \in S : TRUE
  BY DEF Deadlocked
<1>3. PICK q \in S : Level(q) \in 1..3 /\ Level(p) \in 1..3 /\ Level(q) > Level(p)
  BY <1>1
<1>4. PICK r \in S : Level(r) \in 1..3 /\ Level(r) > Level(q)
  BY <1>1
<1>5. PICK s \in S : Level(s) \in 1..3 /\ Level(s) > Level(r)
  BY <1>1
<1>. QED  BY <1>3, <1>4, <1>5

\* Transactions of one row, and moves, never wait for each other in a circle:
\* a deadlock needs a batch that is past its first row (_locked_station,
\* advance_observation_watermark, transition_observation).
THEOREM DeadlocksNeedBatches == Spec => []DeadlockNeedsBatch
<1>1. Init => OrderInvariant
  <2>. SUFFICES ASSUME Init PROVE OrderInvariant
    OBVIOUS
  <2>1. LedgerInvariant /\ StationIsThere
    BY InitEstablishes DEF Init, StationIsThere
  <2>2. LocksInOrder
    BY LedgerAssumption DEF Init, LocksInOrder
  <2>. QED  BY <2>1, <2>2 DEF OrderInvariant
<1>2. OrderInvariant /\ [Next]_vars => OrderInvariant'
  BY OrderInductive, StationInductive, TypeInductive, StepInductive, DrawnInductive,
     DraftInductive, BumpInductive, CountInductive DEF OrderInvariant, LedgerInvariant
<1>. QED  BY <1>1, <1>2, OrderBreaksCycles, PTL DEF Spec

--------------------------------------------------------------------------------
(* The duplicate rule: of two equal reports on a station, the second to be judged *)
(* finds the first, because the station's lock keeps everybody else's rows of the *)
(* station away in between.                                                       *)

LEMMA InvariantStays == LedgerInvariant /\ [Next]_vars => LedgerInvariant'
BY TypeInductive, StepInductive, DrawnInductive, DraftInductive, BumpInductive,
   CountInductive DEF LedgerInvariant

\* A station's lock is kept until the transaction ends.
LEMMA LocksStay ==
  ASSUME LedgerInvariant, [Next]_vars, NEW p \in Proc, ~Finish(p),
         NEW series \in Series, Locks(p, series)
  PROVE  Locks(p, series)'
<1>1. CASE StationOf[series] = NoStation
  BY <1>1 DEF Locks
<1>2. CASE StationOf[series] # NoStation
  <2>1. <<"station", StationOf[series]>> \in LockKey
    BY <1>2, LedgerAssumption DEF LockKey
  <2>2. lock[<<"station", StationOf[series]>>] = p
    BY <1>2 DEF Locks
  <2>3. lock'[<<"station", StationOf[series]>>] = p
    BY <2>1, <2>2, LockEffect
  <2>. QED  BY <2>3 DEF Locks
<1>. QED  BY <1>1, <1>2

\* A batch goes on with its row, or begins one with a fresh received_at.
LEMMA RowStep ==
  ASSUME LedgerInvariant, [Next]_vars, NEW p \in Proc, work'[p] \in StoreWork
  PROVE  /\ ~Finish(p)
         /\ \/ /\ work[p] \in StoreWork
               /\ Current(p)' = Current(p)
               /\ work'[p].received = work[p].received
               /\ pc[p] = "station" => pc'[p] = "station" \/ LockStation(p)
               /\ pc'[p] = "judge" => \/ ReadContributorRows(p)
                                      \/ pc[p] = "judge" /\ work'[p] = work[p] /\ ~Judge(p)
            \/ /\ pc'[p] = FirstStep(Current(p)'.series)
               /\ work'[p].received = now /\ now' = now
               /\ work[p] \notin StoreWork => pc[p] = "idle"
<1>. DEFINE Continues == /\ work[p] \in StoreWork
                         /\ Current(p)' = Current(p)
                         /\ work'[p].received = work[p].received
                         /\ pc[p] = "station" => pc'[p] = "station" \/ LockStation(p)
                         /\ pc'[p] = "judge" =>
                               \/ ReadContributorRows(p)
                               \/ pc[p] = "judge" /\ work'[p] = work[p] /\ ~Judge(p)
            Opens == /\ pc'[p] = FirstStep(Current(p)'.series)
                     /\ work'[p].received = now /\ now' = now
                     /\ work[p] \notin StoreWork => pc[p] = "idle"
<1>0. /\ TypeOK /\ DOMAIN pc = Proc /\ DOMAIN work = Proc
      /\ \A q \in Proc : Fits(q)
  BY DEF LedgerInvariant, TypeOK, StepFitsWork
<1>a. ~Finish(p)
  BY <1>0, FinishEffect DEF StoreWork, NoWork
<1>. SUFFICES Continues \/ Opens
  BY <1>a
<1>b. ASSUME work'[p] = work[p], pc'[p] = pc[p], ~Judge(p) PROVE Continues
  BY <1>b DEF Current
<1>1. CASE LockStation(p)
  BY <1>0, <1>1 DEF LockStation, Current
<1>2. CASE LockSnapshot(p)
  BY <1>0, <1>2 DEF LockSnapshot, Current
<1>3. CASE ReadContributorRows(p)
  <2>1. work[p] \in StoreWork /\ pc[p] = "contributor"
    BY <1>0, <1>3 DEF ReadContributorRows, Fits
  <2>2. /\ work'[p].batch = work[p].batch /\ work'[p].at = work[p].at
        /\ work'[p].received = work[p].received
    BY <1>0, <1>3, <2>1 DEF ReadContributorRows, StoreWork
  <2>. QED  BY <1>3, <2>1, <2>2 DEF Current
<1>4. CASE NextRow(p) /\ work[p] \in StoreWork \union MoveWork
             /\ pc[p] \in {"judge", "watermark"} /\ now' = now
  <2>1. CASE work[p].kind = "store" /\ work[p].at < Len(work[p].batch)
    <3>1. work[p] \in StoreWork
      BY <1>0, <2>1, WorkKind
    <3>2. /\ work'[p] = AtNextRow(work[p])
          /\ pc'[p] = FirstStep(work[p].batch[work[p].at + 1].series)
      BY <1>0, <1>4, <2>1 DEF NextRow
    <3>3. /\ work'[p].batch = work[p].batch /\ work'[p].at = work[p].at + 1
          /\ work'[p].received = now
      BY <3>1, <3>2 DEF AtNextRow, StoreWork
    <3>. QED  BY <1>4, <3>1, <3>2, <3>3 DEF Current
  <2>2. CASE ~(work[p].kind = "store" /\ work[p].at < Len(work[p].batch))
    <3>1. pc'[p] = "commit" /\ work'[p] = work[p]
      BY <1>0, <1>4, <2>2 DEF NextRow
    <3>. QED  BY <1>4, <3>1 DEF Current
  <2>. QED  BY <2>1, <2>2
<1>5. CASE BeginStore(p)
  <2>1. PICK batch \in Batches :
          /\ pc'[p] = FirstStep(batch[1].series)
          /\ work'[p].batch = batch /\ work'[p].at = 1 /\ work'[p].received = now
    BY <1>0, <1>5 DEF BeginStore
  <2>2. now' = now /\ pc[p] = "idle"
    BY <1>5 DEF BeginStore
  <2>. QED  BY <2>1, <2>2 DEF Current
<1>6. CASE Judge(p)
  <2>1. /\ work[p] \in StoreWork /\ pc[p] = "judge" /\ now' = now
        /\ \/ pc' = [pc EXCEPT ![p] = "watermark"] /\ work' = work
           \/ NextRow(p)
    BY <1>0, <1>6, JudgeEffect DEF Judge
  <2>2. CASE pc' = [pc EXCEPT ![p] = "watermark"] /\ work' = work
    BY <1>0, <2>1, <2>2 DEF Current
  <2>. QED  BY <1>4, <2>1, <2>2
<1>7. CASE AdvanceWatermark(p)
  BY <1>0, <1>4, <1>7 DEF AdvanceWatermark, Fits
<1>8. ASSUME BeginTransition(p) \/ MoveObservation(p) PROVE FALSE
  <2>1. CASE BeginTransition(p)
    <3>1. work'[p].kind = "move"
      BY <1>0, <2>1 DEF BeginTransition
    <3>. QED  BY <3>1, StoreKind
  <2>2. CASE MoveObservation(p)
    <3>1. work'[p] \in MoveWork
      BY <1>0, <2>2 DEF MoveObservation, Fits
    <3>. QED  BY <3>1, StoreKind
  <2>. QED  BY <1>8, <2>1, <2>2
<1>9. ASSUME NEW q \in Proc, q # p,
             \/ BeginStore(q) \/ BeginTransition(q) \/ StoreStep(q) \/ MoveStep(q)
             \/ AdvanceWatermark(q) \/ Commit(q) \/ Rollback(q)
      PROVE  pc'[p] = pc[p] /\ work'[p] = work[p]
  <2>1. CASE Finish(q)
    BY <1>0, <1>9, <2>1, FinishEffect
  <2>2. CASE NextRow(q)
    BY <1>0, <1>9, <2>2 DEF NextRow
  <2>3. CASE Judge(q)
    BY <1>0, <1>9, <2>2, <2>3, JudgeEffect
  <2>. QED
    BY <1>0, <1>9, <2>1, <2>2, <2>3
       DEF BeginStore, BeginTransition, StoreStep, LockStation, LockSnapshot,
           ReadContributorRows, MoveStep, MoveObservation, RefuseTransition,
           AdvanceWatermark, Commit, Rollback
<1>10. ASSUME Judge(p), pc'[p] = pc[p], work'[p] = work[p]
       PROVE  FALSE
  <2>1. \/ pc' = [pc EXCEPT ![p] = "watermark"] /\ pc[p] = "judge"
        \/ NextRow(p) /\ pc[p] = "judge" /\ work[p] \in StoreWork
    BY <1>0, <1>10, JudgeEffect DEF Judge
  <2>. QED  BY <1>0, <1>10, <2>1, NextRowEffect
<1>11. CASE Tick \/ UNCHANGED vars
  BY <1>b, <1>10, <1>11 DEF Tick, vars
<1>12. ASSUME \/ BeginStore(p) \/ BeginTransition(p) \/ StoreStep(p) \/ MoveStep(p)
              \/ AdvanceWatermark(p) \/ Commit(p) \/ Rollback(p)
       PROVE  Continues \/ Opens
  BY <1>a, <1>1, <1>2, <1>3, <1>5, <1>6, <1>7, <1>8, <1>12
     DEF StoreStep, MoveStep, RefuseTransition, Rollback, Commit
<1>13. ASSUME NEW q \in Proc, q # p,
              \/ BeginStore(q) \/ BeginTransition(q) \/ StoreStep(q) \/ MoveStep(q)
              \/ AdvanceWatermark(q) \/ Commit(q) \/ Rollback(q)
       PROVE  Continues
  BY <1>b, <1>9, <1>10, <1>13
<1>. HIDE DEF Continues, Opens
<1>. QED  BY <1>11, <1>12, <1>13 DEF Next

--------------------------------------------------------------------------------
\* What a process in the middle of a batch has to go by.
LEMMA RowTypes ==
  ASSUME LedgerInvariant, NEW p \in Proc
  PROVE  /\ \A o \in Obs : row[o] # NoRow => row[o] \in Row /\ row[o].series \in Series
         /\ \A o \in Obs : draft[p][o] # NoRow => /\ draft[p][o] \in Row
                                                  /\ draft[p][o].series \in Series
         /\ \A o \in Obs : /\ View(p)[o] = IF draft[p][o] # NoRow THEN draft[p][o] ELSE row[o]
                           /\ View(p)[o] # NoRow => View(p)[o] \in Row
         /\ work[p] \in StoreWork => Current(p).series \in Series
<1>1. \A o \in Obs : row[o] \in Row \union {NoRow} /\ draft[p][o] \in Row \union {NoRow}
  BY DEF LedgerInvariant, TypeOK
<1>2. \A r \in Row : r.series \in Series
  BY DEF Row
<1>3. work[p] \in StoreWork => Current(p).series \in Series
  BY CurrentType DEF LedgerInvariant, Command
<1>. QED  BY <1>1, <1>2, <1>3, ViewType DEF LedgerInvariant

\* A process takes its row's station before anything else, and gives no station
\* back before the transaction ends.
LEMMA StationHeld ==
  ASSUME LedgerInvariant, StationIsHeld, [Next]_vars
  PROVE  StationIsHeld'
<1>. SUFFICES ASSUME NEW p \in Proc, work'[p] \in StoreWork
              PROVE  /\ pc'[p] # "station" => Locks(p, Current(p).series)'
                     /\ \A o \in Obs : draft'[p][o] # NoRow
                                         => Locks(p, draft[p][o].series)'
  BY DEF StationIsHeld
<1>0. /\ TypeOK /\ Fits(p) /\ LedgerInvariant'
  BY InvariantStays DEF LedgerInvariant, StepFitsWork
<1>1. ~Finish(p)
  BY RowStep
<1>2. work[p] \in StoreWork => /\ Current(p).series \in Series
                               /\ pc[p] # "station" => Locks(p, Current(p).series)
                               /\ \A o \in Obs : draft[p][o] # NoRow
                                                   => Locks(p, draft[p][o].series)
  BY RowTypes DEF StationIsHeld
<1>3. ASSUME pc'[p] # "station" PROVE Locks(p, Current(p).series)'
  <2>1. CASE pc'[p] = FirstStep(Current(p)'.series)
    <3>1. StationOf[Current(p)'.series] = NoStation
      BY <1>3, <2>1 DEF FirstStep
    <3>. QED  BY <3>1 DEF Locks
  <2>2. CASE /\ work[p] \in StoreWork /\ Current(p)' = Current(p)
             /\ pc[p] = "station" => pc'[p] = "station" \/ LockStation(p)
    <3>1. CASE pc[p] = "station"
      <4>1. LockStation(p)
        BY <1>3, <2>2, <3>1
      <4>2. Current(p).series \in Series
        BY <1>2, <2>2
      <4>3. CASE StationOf[Current(p).series] = NoStation
        BY <2>2, <4>3 DEF Locks
      <4>4. CASE StationOf[Current(p).series] # NoStation
        <5>1. <<"station", StationOf[Current(p).series]>> \in LockKey
          BY <4>2, <4>4, LedgerAssumption DEF LockKey
        <5>2. lock'[<<"station", StationOf[Current(p).series]>>] = p
          BY <1>0, <4>1, <5>1, AcquireEffect DEF LockStation
        <5>. QED  BY <2>2, <5>2 DEF Locks
      <4>. QED  BY <4>3, <4>4
    <3>2. CASE pc[p] # "station"
      <4>1. Locks(p, Current(p).series)'  <=>
              (StationOf[Current(p).series] # NoStation
                 => lock'[<<"station", StationOf[Current(p).series]>>] = p)
        BY <2>2 DEF Locks
      <4>2. Locks(p, Current(p).series) /\ Current(p).series \in Series
        BY <1>2, <2>2, <3>2
      <4>3. \A s \in Series : Locks(p, s) =>
              (StationOf[s] # NoStation => lock'[<<"station", StationOf[s]>>] = p)
        BY <1>1, LocksStay DEF Locks
      <4>. QED  BY <4>1, <4>2, <4>3
    <3>. QED  BY <3>1, <3>2
  <2>. QED  BY <2>1, <2>2, RowStep
<1>4. ASSUME NEW o \in Obs, draft'[p][o] # NoRow PROVE Locks(p, draft[p][o].series)'
  <2>1. CASE draft'[p][o] = draft[p][o]
    <3>1. work[p] \in StoreWork
      <4>1. work[p] = NoWork => draft[p][o] = NoRow
        <5>. SUFFICES ASSUME work[p] = NoWork, draft[p][o] # NoRow PROVE FALSE
          OBVIOUS
        <5>1. work[p].kind = "none"
          BY DEF NoWork
        <5>2. DrawnBy(p) = {} /\ work[p] \notin MoveWork
          BY <5>1, MoveType DEF DrawnBy
        <5>. QED  BY <5>2 DEF LedgerInvariant, DraftIsOwned
      <4>. QED  BY <1>0, <1>4, <2>1, <4>1, RowStep DEF Fits
    <3>2. Locks(p, draft[p][o].series) /\ draft[p][o].series \in Series
      BY <1>2, <1>4, <2>1, <3>1, RowTypes
    <3>3. \A s \in Series : Locks(p, s) =>
            (StationOf[s] # NoStation => lock'[<<"station", StationOf[s]>>] = p)
      BY <1>1, LocksStay DEF Locks
    <3>. QED  BY <2>1, <3>2, <3>3 DEF Locks
  <2>2. CASE Judge(p) /\ o = work[p].ids[work[p].at]
    <3>1. work[p] \in StoreWork /\ pc[p] = "judge" /\ lock' = lock
      BY <2>2, JudgeEffect DEF Judge
    <3>2. draft'[p][o].series = Current(p).series
      <4>1. o \in Obs /\ DOMAIN draft = Proc /\ DOMAIN draft[p] = Obs
        BY <1>0 DEF TypeOK
      <4>2. PICK state \in States : draft' = [draft EXCEPT ![p][o] = NewRow(Current(p), state)]
        BY <2>2, JudgeEffect DEF States
      <4>3. draft'[p][o] = NewRow(Current(p), state)
        BY <4>1, <4>2
      <4>. QED  BY <4>3 DEF NewRow
    <3>3. Locks(p, Current(p).series)
      BY <1>2, <3>1
    <3>. QED  BY <3>1, <3>2, <3>3 DEF Locks
  <2>3. CASE MoveObservation(p)
    <3>1. work'[p] \in MoveWork
      BY <1>0, <2>3 DEF MoveObservation, Fits
    <3>. QED  BY <3>1, StoreKind
  <2>. QED  BY <1>1, <2>1, <2>2, <2>3, DraftEffect
<1>. QED  BY <1>3, <1>4

\* received_at of a running row lies in the past.
LEMMA ReceivedPast ==
  ASSUME LedgerInvariant, ReceivedIsPast, [Next]_vars
  PROVE  ReceivedIsPast'
<1>. SUFFICES ASSUME NEW p \in Proc, work'[p] \in StoreWork
              PROVE  work'[p].received <= now'
  BY DEF ReceivedIsPast
<1>1. now \in Nat /\ now' >= now
  <2>1. now \in Nat
    BY DEF LedgerInvariant, TypeOK
  <2>2. CASE Tick
    BY <2>1, <2>2 DEF Tick
  <2>3. CASE ~Tick
    <3>1. now' = now
      BY <2>3 DEF Next, vars, BeginStore, LockStation, LockSnapshot, StoreStep,
         MoveStep, ReadContributorRows, Judge, AdvanceWatermark, BeginTransition,
         MoveObservation, RefuseTransition, Rollback, Commit
    <3>. QED  BY <2>1, <3>1
  <2>. QED  BY <2>2, <2>3
<1>2. work[p] \in StoreWork => work[p].received \in Nat /\ work[p].received <= now
  BY DEF ReceivedIsPast, StoreWork
<1>3. now' \in Nat
  BY InvariantStays DEF LedgerInvariant, TypeOK
<1>. QED  BY <1>1, <1>2, <1>3, RowStep

--------------------------------------------------------------------------------
\* Events are never taken back.
LEMMA EventsStay ==
  ASSUME LedgerInvariant, [Next]_vars, NEW o \in Obs, events'[o] = <<>>
  PROVE  events[o] = <<>>
<1>0. events \in [Obs -> Seq(Event)] /\ draftEvent \in [Proc -> Seq(Event)]
  BY DEF LedgerInvariant, TypeOK
<1>1. ASSUME NEW p \in Proc, Commit(p) PROVE events[o] = <<>>
  <2>1. events'[o] = events[o] \/ events'[o] = events[o] \o draftEvent[p]
    BY <1>1, CommitEffect
  <2>2. events[o] \in Seq(Event) /\ draftEvent[p] \in Seq(Event)
    BY <1>0
  <2>3. events[o] \o draftEvent[p] = <<>> => events[o] = <<>>
    BY <2>2
  <2>. QED  BY <2>1, <2>3
<1>. QED  BY <1>1, OnlyCommitWrites

\* A row that a commit leaves without an event is a new row of a batch, or is
\* untouched.
LEMMA BornByBatch ==
  ASSUME AuditInvariant, NEW q \in Proc, Commit(q), NEW x \in Obs, events'[x] = <<>>
  PROVE  row'[x] = row[x] \/ /\ work[q] \in StoreWork
                             /\ draft[q][x] # NoRow /\ row'[x] = draft[q][x]
<1>0. LedgerInvariant /\ events \in [Obs -> Seq(Event)]
  BY DEF AuditInvariant, LedgerInvariant, TypeOK
<1>1. CASE work[q] \in StoreWork
  BY <1>1 DEF Commit, View
<1>2. ASSUME work[q] \in MoveWork, pc[q] = "commit",
             \A o \in Obs : o # work[q].target => row'[o] = row[o] /\ events'[o] = events[o],
             events'[work[q].target] = events[work[q].target] \o draftEvent[q]
      PROVE  row'[x] = row[x]
  <2>1. CASE x = work[q].target
    <3>1. \E e : draftEvent[q] = <<e>>
      BY <1>2 DEF AuditInvariant, EventTellsMove
    <3>2. events[x] \in Seq(Event) /\ draftEvent[q] \in Seq(Event)
      BY <1>0 DEF LedgerInvariant, TypeOK
    <3>3. events[x] \o draftEvent[q] # <<>>
      BY <3>1, <3>2
    <3>. QED  BY <1>2, <2>1, <3>3
  <2>. QED  BY <1>2, <2>1
<1>. QED  BY <1>0, <1>1, <1>2, CommitEffect

\* On a station whose lock p holds nobody else brings a row without an event.
LEMMA SeenRowStays ==
  ASSUME AuditInvariant, StationIsHeld, [Next]_vars,
         NEW p \in Proc, ~Finish(p), NEW x \in Obs, draft'[p][x] = draft[p][x],
         BornAccepted(x, View(p)[x])',
         NEW series \in Series, StationOf[series] # NoStation, Locks(p, series),
         View(p)'[x].series = series
  PROVE  View(p)'[x] = View(p)[x] /\ BornAccepted(x, View(p)[x])
<1>0. LedgerInvariant /\ LedgerInvariant' /\ events'[x] = <<>>
  BY InvariantStays DEF AuditInvariant, BornAccepted
<1>1. events[x] = <<>>
  BY <1>0, EventsStay
<1>2. View(p)[x] = IF draft[p][x] # NoRow THEN draft[p][x] ELSE row[x]
  BY <1>0, RowTypes
<1>3. View(p)'[x] = IF draft'[p][x] # NoRow THEN draft'[p][x] ELSE row'[x]
  BY DEF View
<1>4. ASSUME draft[p][x] = NoRow PROVE row'[x] = row[x]
  <2>1. CASE UNCHANGED row
    BY <2>1
  <2>2. ASSUME NEW q \in Proc, Commit(q), row'[x] # row[x] PROVE FALSE
    <3>1. work[q] \in StoreWork /\ draft[q][x] # NoRow /\ row'[x] = draft[q][x]
      BY <1>0, <2>2, BornByBatch
    <3>2. draft[q][x].series = series
      BY <1>3, <1>4, <3>1
    <3>3. Locks(q, series)
      BY <3>1, <3>2 DEF StationIsHeld
    <3>4. q = p
      BY <3>3 DEF Locks
    <3>. QED  BY <2>2, <3>4 DEF Commit
  <2>. QED  BY <1>0, <2>1, <2>2, OnlyCommitWrites
<1>5. View(p)'[x] = View(p)[x]
  BY <1>2, <1>3, <1>4
<1>. QED  BY <1>1, <1>5 DEF BornAccepted

\* The duplicate query's answer stays right until the row is judged.
LEMMA AnswerStays ==
  ASSUME TwinInvariant, [Next]_vars
  PROVE  AnswerIsCurrent'
<1>. SUFFICES ASSUME NEW p \in Proc, NEW o \in Obs, NEW seen, seen = View(p)'[o],
                     NEW cmd, cmd = Current(p)',
                     work'[p] \in StoreWork, pc'[p] = "judge", ~work'[p].duplicate,
                     StationOf[cmd.series] # NoStation,
                     BornAccepted(o, View(p)[o])',
                     seen.series = cmd.series,
                     cmd.contributor # NoContributor, seen.contributor = cmd.contributor,
                     seen.price = cmd.price
              PROVE  seen.observed < work'[p].received - Policy.duplicateWindow
  BY DEF AnswerIsCurrent
<1>0. /\ AuditInvariant /\ LedgerInvariant /\ TypeOK /\ StationIsHeld /\ AnswerIsCurrent
      /\ LedgerInvariant' /\ Fits(p) /\ DOMAIN work = Proc /\ ~Finish(p)
  <2>1. AuditInvariant /\ LedgerInvariant /\ StationIsHeld /\ AnswerIsCurrent
    BY DEF TwinInvariant, AuditInvariant
  <2>2. LedgerInvariant' /\ ~Finish(p)
    BY <2>1, InvariantStays, RowStep
  <2>3. TypeOK /\ Fits(p) /\ DOMAIN work = Proc
    BY <2>1 DEF LedgerInvariant, StepFitsWork, TypeOK
  <2>. QED  BY <2>1, <2>2, <2>3
<1>1. /\ work[p] \in StoreWork /\ cmd = Current(p)
      /\ work'[p].received = work[p].received
      /\ \/ ReadContributorRows(p)
         \/ pc[p] = "judge" /\ work'[p] = work[p] /\ ~Judge(p)
  BY <1>0, RowStep DEF FirstStep
<1>2. work[p].received \in Nat /\ Policy.duplicateWindow \in Nat
      /\ work'[p].received \in Nat
  BY <1>1, PolicyAssumption DEF StoreWork
<1>3. CASE ReadContributorRows(p)
  <2>1. /\ row' = row /\ draft' = draft /\ events' = events
        /\ work'[p].duplicate = IsDuplicate(View(p), Candidates(p, cmd.series), cmd,
                                            work[p].received)
    BY <1>0, <1>1, <1>3 DEF ReadContributorRows, StoreWork
  <2>2. seen = View(p)[o] /\ seen # NoRow /\ seen.state = "ACCEPTED"
    BY <2>1 DEF BornAccepted, View
  <2>3. seen \in Row
    BY <1>0, <2>2, RowTypes
  <2>4. o \in Candidates(p, cmd.series)
    BY <2>2 DEF Candidates
  <2>5. o \notin ContributorRows(View(p), Candidates(p, cmd.series), cmd, work[p].received)
    BY <2>1, <2>2 DEF IsDuplicate
  <2>6. ~(seen.observed >= work[p].received - Policy.duplicateWindow)
    BY <2>2, <2>4, <2>5 DEF ContributorRows
  <2>7. seen.observed \in Int
    BY <2>3 DEF Row
  <2>. QED  BY <1>1, <1>2, <2>6, <2>7
<1>4. CASE pc[p] = "judge" /\ work'[p] = work[p] /\ ~Judge(p)
  <2>1. draft'[p][o] = draft[p][o]
    <3>1. ~MoveObservation(p)
      BY <1>4 DEF MoveObservation
    <3>. QED  BY <1>0, <1>4, <3>1, DraftEffect
  <2>2. Locks(p, cmd.series) /\ cmd.series \in Series
    BY <1>0, <1>1, <1>4, RowTypes DEF StationIsHeld
  <2>3. seen = View(p)[o] /\ BornAccepted(o, View(p)[o])
    BY <1>0, <2>1, <2>2, SeenRowStays
  <2>. QED  BY <1>0, <1>1, <1>4, <2>3 DEF AnswerIsCurrent
<1>. QED  BY <1>1, <1>3, <1>4

--------------------------------------------------------------------------------
LEMMA TwinsCommute == ASSUME NEW r, NEW s, Twins(r, s) PROVE Twins(s, r)
BY DEF Twins

\* A row is accepted only if the duplicate query found nothing.
LEMMA AcceptedIsNoDuplicate ==
  ASSUME LedgerInvariant, NEW p \in Proc, Judge(p)
  PROVE  LET i == work[p].ids[work[p].at]
         IN  /\ work[p] \in StoreWork /\ pc[p] = "judge"
             /\ i \in Obs
             /\ \A o \in Obs : o # i => draft'[p][o] = draft[p][o]
             /\ draft'[p][i].series = Current(p).series
             /\ draft'[p][i].contributor = Current(p).contributor
             /\ draft'[p][i].price = Current(p).price
             /\ draft'[p][i].received = now
             /\ draft'[p][i].state = "ACCEPTED" => ~work[p].duplicate
             /\ UNCHANGED <<row, events, now>>
<1>. DEFINE i == work[p].ids[work[p].at]
<1>1. work[p] \in StoreWork /\ pc[p] = "judge" /\ UNCHANGED <<row, events, now>>
  BY JudgeEffect DEF Judge
<1>2. i \in Obs
  BY <1>1, CurrentType
<1>3. PICK eligible \in BOOLEAN :
        \E outlier : LET context == [eligible |-> eligible, duplicate |-> work[p].duplicate,
                                     rapid |-> work[p].rapid, outlier |-> outlier]
                         state == Verdict(Current(p), work[p].received, context)
                     IN  draft' = [draft EXCEPT ![p][i] = NewRow(Current(p), state)]
  <2>1. PICK e \in BOOLEAN :
          LET cmd == Current(p)
              received == work[p].received
              compared == ComparableRows(View(p), Candidates(p, cmd.series),
                                         cmd, received)
              context == [eligible |-> e \/ StationOf[cmd.series] = NoStation,
                          duplicate |-> work[p].duplicate,
                          rapid |-> work[p].rapid,
                          outlier |-> Outlier(View(p), compared, cmd.price)]
              state == Verdict(cmd, received, context)
          IN  draft' = [draft EXCEPT ![p][i] = NewRow(Current(p), state)]
    BY DEF Judge
  <2>2. (e \/ StationOf[Current(p).series] = NoStation) \in BOOLEAN
    OBVIOUS
  <2>. HIDE DEF i
  <2>. QED  BY <2>1, <2>2
<1>4. PICK outlier :
        draft' = [draft EXCEPT ![p][i] =
                     NewRow(Current(p), Verdict(Current(p), work[p].received,
                        [eligible |-> eligible, duplicate |-> work[p].duplicate,
                         rapid |-> work[p].rapid, outlier |-> outlier]))]
  BY <1>3
<1>. DEFINE state == Verdict(Current(p), work[p].received,
                        [eligible |-> eligible, duplicate |-> work[p].duplicate,
                         rapid |-> work[p].rapid, outlier |-> outlier])
<1>5. state = "ACCEPTED" => ~work[p].duplicate
  BY DEF Verdict, Rejects
<1>. HIDE DEF state, i
<1>6. draft' = [draft EXCEPT ![p][i] = NewRow(Current(p), state)]
  BY <1>4 DEF state
<1>7. DOMAIN draft = Proc /\ DOMAIN draft[p] = Obs
  BY DEF LedgerInvariant, TypeOK
<1>8. /\ \A o \in Obs : o # i => draft'[p][o] = draft[p][o]
      /\ draft'[p][i] = NewRow(Current(p), state)
  BY <1>2, <1>6, <1>7
<1>9. /\ draft'[p][i].series = Current(p).series
      /\ draft'[p][i].contributor = Current(p).contributor
      /\ draft'[p][i].price = Current(p).price
      /\ draft'[p][i].received = now
      /\ draft'[p][i].state = state
  BY <1>8 DEF NewRow
<1>. QED  BY <1>1, <1>2, <1>5, <1>8, <1>9 DEF i

\* The row just judged is no twin of what its process saw.
LEMMA JudgedHasNoTwin ==
  ASSUME TwinInvariant, NEW p \in Proc, Judge(p),
         NEW x \in Obs, x # work[p].ids[work[p].at],
         draft'[p][work[p].ids[work[p].at]].state = "ACCEPTED",
         BornAccepted(x, View(p)[x])
  PROVE  ~Twins(draft'[p][work[p].ids[work[p].at]], View(p)[x])
<1>. DEFINE n == draft'[p][work[p].ids[work[p].at]]
            s == View(p)[x]
<1>. SUFFICES ASSUME Twins(n, s) PROVE FALSE
  OBVIOUS
<1>0. LedgerInvariant /\ AnswerIsCurrent /\ ReceivedIsPast
  BY DEF TwinInvariant, AuditInvariant
<1>1. /\ work[p] \in StoreWork /\ pc[p] = "judge" /\ ~work[p].duplicate
      /\ n.series = Current(p).series /\ n.contributor = Current(p).contributor
      /\ n.price = Current(p).price /\ n.received = now
  BY <1>0, AcceptedIsNoDuplicate
<1>2. s \in Row
  BY <1>0, RowTypes DEF BornAccepted
<1>. HIDE DEF n, s
<1>3. /\ StationOf[n.series] # NoStation /\ n.series = s.series
      /\ n.contributor # NoContributor /\ n.contributor = s.contributor
      /\ n.price = s.price
      /\ s.observed >= n.received - Policy.duplicateWindow
  BY DEF Twins
<1>4. s.observed < work[p].received - Policy.duplicateWindow
  BY <1>0, <1>1, <1>3 DEF AnswerIsCurrent, s
<1>5. work[p].received <= now
  BY <1>0, <1>1 DEF ReceivedIsPast
<1>6. /\ s.observed \in Int /\ work[p].received \in Nat /\ now \in Nat
      /\ Policy.duplicateWindow \in Nat
  BY <1>0, <1>1, <1>2, PolicyAssumption DEF Row, StoreWork, LedgerInvariant, TypeOK
<1>. QED  BY <1>1, <1>3, <1>4, <1>5, <1>6

LEMMA DraftStays ==
  ASSUME TwinInvariant, [Next]_vars
  PROVE  DraftHasNoTwin'
<1>. SUFFICES ASSUME NEW p \in Proc, NEW o \in Obs, NEW x \in Obs, x # o,
                     work'[p] \in StoreWork, draft'[p][o] # NoRow,
                     BornAccepted(o, draft[p][o])', BornAccepted(x, View(p)[x])',
                     Twins(draft'[p][o], View(p)'[x])
              PROVE  FALSE
  BY DEF DraftHasNoTwin
<1>0. /\ AuditInvariant /\ LedgerInvariant /\ StationIsHeld /\ DraftHasNoTwin
      /\ TypeOK /\ LedgerInvariant' /\ StationIsHeld' /\ ~Finish(p) /\ Fits(p)
  <2>1. AuditInvariant /\ LedgerInvariant /\ StationIsHeld /\ DraftHasNoTwin
    BY DEF TwinInvariant, AuditInvariant
  <2>2. LedgerInvariant' /\ ~Finish(p) /\ StationIsHeld'
    BY <2>1, InvariantStays, RowStep, StationHeld
  <2>3. TypeOK /\ Fits(p)
    BY <2>1 DEF LedgerInvariant, StepFitsWork
  <2>. QED  BY <2>1, <2>2, <2>3
<1>1. CASE Judge(p)
  <2>. DEFINE i == work[p].ids[work[p].at]
  <2>1. /\ work[p] \in StoreWork
        /\ i \in Obs /\ \A y \in Obs : y # i => draft'[p][y] = draft[p][y]
        /\ UNCHANGED <<row, events, now>>
    BY <1>0, <1>1, AcceptedIsNoDuplicate
  <2>2. /\ View(p)'[x] = IF draft'[p][x] # NoRow THEN draft'[p][x] ELSE row'[x]
        /\ View(p)[x] = IF draft[p][x] # NoRow THEN draft[p][x] ELSE row[x]
        /\ View(p)'[o] = draft'[p][o]
        /\ View(p)[o] = IF draft[p][o] # NoRow THEN draft[p][o] ELSE row[o]
    BY DEF View
  <2>3. CASE o = i
    <3>1. View(p)'[x] = View(p)[x] /\ BornAccepted(x, View(p)[x])
      BY <2>1, <2>2, <2>3 DEF BornAccepted
    <3>2. draft'[p][i].state = "ACCEPTED"
      BY <2>3 DEF BornAccepted
    <3>. QED  BY <1>1, <2>3, <3>1, <3>2, JudgedHasNoTwin
  <2>4. CASE x = i
    <3>1. View(p)'[o] = View(p)[o] /\ BornAccepted(o, View(p)[o])
      BY <2>1, <2>2, <2>4 DEF BornAccepted
    <3>2. View(p)'[x] = draft'[p][i] /\ draft'[p][i].state = "ACCEPTED"
      <4>1. draft'[p][i] # NoRow
        <5>1. draft' \in [Proc -> [Obs -> Row \union {NoRow}]] /\ draft'[p][i].series = Current(p).series
          BY <1>0, <1>1, AcceptedIsNoDuplicate DEF LedgerInvariant, TypeOK
        <5>2. PICK st \in States : draft' = [draft EXCEPT ![p][i] = NewRow(Current(p), st)]
          BY <1>0, <1>1, JudgeEffect DEF States
        <5>3. NewRow(Current(p), st) \in Row
          BY <1>0, <2>1, JudgeRow
        <5>4. draft'[p][i] = NewRow(Current(p), st)
          BY <1>0, <2>1, <5>2 DEF TypeOK
        <5>. QED  BY <5>3, <5>4, NoRowAssumption
      <4>. QED  BY <2>2, <2>4, <4>1 DEF BornAccepted
    <3>3. Twins(draft'[p][i], View(p)[o])
      BY <2>2, <3>1, <3>2, TwinsCommute
    <3>. QED  BY <1>1, <2>4, <3>1, <3>2, <3>3, JudgedHasNoTwin
  <2>5. CASE o # i /\ x # i
    <3>1. draft'[p][o] = draft[p][o] /\ View(p)'[x] = View(p)[x]
      BY <2>1, <2>2, <2>5
    <3>2. BornAccepted(o, draft[p][o]) /\ BornAccepted(x, View(p)[x])
      BY <2>1, <3>1 DEF BornAccepted
    <3>. QED  BY <1>0, <2>1, <3>1, <3>2 DEF DraftHasNoTwin
  <2>. QED  BY <2>3, <2>4, <2>5
<1>2. CASE ~Judge(p)
  <2>1. \A y \in Obs : draft'[p][y] = draft[p][y]
    <3>1. ~MoveObservation(p)
      BY <1>0, StoreKind DEF MoveObservation, Fits
    <3>. QED  BY <1>0, <1>2, <3>1, DraftEffect
  <2>2. work[p] \in StoreWork
    <3>1. work[p] # NoWork
      <4>. SUFFICES ASSUME work[p] = NoWork PROVE FALSE
        OBVIOUS
      <4>1. work[p].kind = "none"
        BY DEF NoWork
      <4>2. DrawnBy(p) = {} /\ work[p] \notin MoveWork
        BY <4>1, MoveType DEF DrawnBy
      <4>. QED  BY <1>0, <2>1, <4>2 DEF LedgerInvariant, DraftIsOwned
    <3>. QED  BY <1>0, <3>1, RowStep DEF Fits
  <2>3. /\ draft'[p][o].series \in Series
        /\ Locks(p, draft[p][o].series)
        /\ StationOf[draft[p][o].series] # NoStation
        /\ View(p)'[x].series = draft[p][o].series
    BY <1>0, <2>1, <2>2, RowTypes DEF StationIsHeld, Twins
  <2>4. View(p)'[x] = View(p)[x] /\ BornAccepted(x, View(p)[x])
    BY <1>0, <2>1, <2>3, SeenRowStays
  <2>5. BornAccepted(o, draft[p][o])
    BY <1>0, <2>1, EventsStay DEF BornAccepted
  <2>. QED  BY <1>0, <2>1, <2>2, <2>4, <2>5 DEF DraftHasNoTwin
<1>. QED  BY <1>1, <1>2

\* The twins of NoAcceptedTwins are Twins.
LEMMA TwinsOfLedger ==
  NoAcceptedTwins <=> \A o, x \in Obs :
      o # x /\ BornAccepted(o, row[o]) /\ BornAccepted(x, row[x]) => ~Twins(row[o], row[x])
BY DEF NoAcceptedTwins, BornAccepted, Twins, Stored

LEMMA TwinsStay ==
  ASSUME TwinInvariant, [Next]_vars
  PROVE  NoAcceptedTwins'
<1>0. /\ AuditInvariant /\ LedgerInvariant /\ DraftHasNoTwin
      /\ \A o, x \in Obs : o # x /\ BornAccepted(o, row[o]) /\ BornAccepted(x, row[x])
                             => ~Twins(row[o], row[x])
  BY TwinsOfLedger DEF TwinInvariant, AuditInvariant
<1>. SUFFICES ASSUME NEW o \in Obs, NEW x \in Obs, o # x,
                     BornAccepted(o, row[o])', BornAccepted(x, row[x])',
                     Twins(row'[o], row'[x])
              PROVE  FALSE
  BY DEF NoAcceptedTwins, BornAccepted, Twins, Stored
<1>1. events[o] = <<>> /\ events[x] = <<>> /\ events'[o] = <<>> /\ events'[x] = <<>>
  BY <1>0, EventsStay DEF BornAccepted
<1>2. CASE row'[o] = row[o] /\ row'[x] = row[x]
  BY <1>0, <1>1, <1>2 DEF BornAccepted
<1>3. ASSUME NEW p \in Proc, Commit(p), row'[o] # row[o] \/ row'[x] # row[x]
      PROVE  FALSE
  <2>1. \A y \in {o, x} : row'[y] # row[y] => /\ work[p] \in StoreWork
                                              /\ draft[p][y] # NoRow
                                              /\ row'[y] = draft[p][y]
    BY <1>0, <1>1, <1>3, BornByBatch
  <2>2. work[p] \in StoreWork
    BY <1>3, <2>1
  <2>3. row'[o] = View(p)[o] /\ row'[x] = View(p)[x]
    BY <1>3 DEF Commit
  <2>4. BornAccepted(o, View(p)[o]) /\ BornAccepted(x, View(p)[x])
    BY <1>1, <2>3 DEF BornAccepted
  <2>5. CASE row'[o] # row[o]
    <3>1. draft[p][o] # NoRow /\ draft[p][o] = View(p)[o]
      BY <2>1, <2>3, <2>5
    <3>. QED  BY <1>0, <2>2, <2>3, <2>4, <3>1 DEF DraftHasNoTwin
  <2>6. CASE row'[x] # row[x]
    <3>1. draft[p][x] # NoRow /\ draft[p][x] = View(p)[x]
      BY <2>1, <2>3, <2>6
    <3>2. Twins(draft[p][x], View(p)[o])
      BY <2>3, <3>1, TwinsCommute
    <3>. QED  BY <1>0, <2>2, <2>4, <3>1, <3>2 DEF DraftHasNoTwin
  <2>. QED  BY <1>3, <2>5, <2>6
<1>. QED  BY <1>0, <1>2, <1>3, OnlyCommitWrites

\* Of two equal reports by one contributor, each inside the duplicate window of
\* the other, at most one is accepted without a moderator, for any number of
\* workers, reports and imports (_locked_station, _validation_context).
THEOREM DuplicatesAreFound == Spec => []NoAcceptedTwins
<1>1. Init => TwinInvariant
  <2>. SUFFICES ASSUME Init PROVE TwinInvariant
    OBVIOUS
  <2>1. AuditInvariant
    BY AuditInit
  <2>2. \A p \in Proc : work[p].kind = "none" /\ work[p] \notin StoreWork
    BY StoreKind DEF Init, NoWork
  <2>3. StationIsHeld /\ ReceivedIsPast /\ AnswerIsCurrent /\ DraftHasNoTwin
    BY <2>2 DEF StationIsHeld, ReceivedIsPast, AnswerIsCurrent, DraftHasNoTwin
  <2>4. NoAcceptedTwins
    BY DEF Init, NoAcceptedTwins, Stored
  <2>. QED  BY <2>1, <2>3, <2>4 DEF TwinInvariant
<1>2. TwinInvariant /\ [Next]_vars => TwinInvariant'
  <2>. SUFFICES ASSUME TwinInvariant, [Next]_vars PROVE TwinInvariant'
    OBVIOUS
  <2>1. AuditInvariant /\ LedgerInvariant /\ StationIsHeld /\ ReceivedIsPast
    BY DEF TwinInvariant, AuditInvariant
  <2>. QED
    BY <2>1, AuditInductive, StationHeld, ReceivedPast, AnswerStays, DraftStays,
       TwinsStay DEF TwinInvariant
<1>3. TwinInvariant => NoAcceptedTwins
  BY DEF TwinInvariant
<1>. QED  BY <1>1, <1>2, <1>3, PTL DEF Spec

--------------------------------------------------------------------------------
(* The watermark counts the changes of the catalogue: what a transaction has  *)
(* drafted is counted as the changes its commit will make.                    *)

\* A step of another process leaves p alone.
LEMMA OwnStep ==
  ASSUME LedgerInvariant, [Next]_vars, NEW p \in Proc
  PROVE  \/ /\ pc'[p] = pc[p] /\ work'[p] = work[p] /\ draft'[p] = draft[p]
            /\ draftVersion'[p] = draftVersion[p]
         \/ BeginStore(p) \/ BeginTransition(p) \/ StoreStep(p) \/ MoveStep(p)
         \/ AdvanceWatermark(p) \/ Commit(p) \/ Rollback(p)
<1>0. /\ TypeOK /\ DOMAIN pc = Proc /\ DOMAIN work = Proc /\ DOMAIN draft = Proc
      /\ DOMAIN draftVersion = Proc /\ \A q \in Proc : Fits(q)
  BY DEF LedgerInvariant, TypeOK, StepFitsWork
<1>1. ASSUME NEW q \in Proc, q # p,
             \/ BeginStore(q) \/ BeginTransition(q) \/ StoreStep(q) \/ MoveStep(q)
             \/ AdvanceWatermark(q) \/ Commit(q) \/ Rollback(q)
      PROVE  /\ pc'[p] = pc[p] /\ work'[p] = work[p] /\ draft'[p] = draft[p]
             /\ draftVersion'[p] = draftVersion[p]
  <2>1. CASE Finish(q)
    BY <1>0, <1>1, <2>1, FinishEffect
  <2>2. ASSUME NextRow(q) PROVE pc'[p] = pc[p] /\ work'[p] = work[p]
    BY <1>0, <1>1, <2>2 DEF NextRow
  <2>3. CASE Judge(q)
    BY <1>0, <1>1, <2>2, <2>3, JudgeEffect DEF Judge
  <2>4. CASE AdvanceWatermark(q)
    BY <1>0, <1>1, <2>2, <2>4 DEF AdvanceWatermark
  <2>. QED
    BY <1>0, <1>1, <2>1, <2>3, <2>4
       DEF BeginStore, BeginTransition, StoreStep, LockStation, LockSnapshot,
           ReadContributorRows, MoveStep, MoveObservation, RefuseTransition,
           Commit, Rollback
<1>2. CASE Tick \/ UNCHANGED vars
  BY <1>2 DEF Tick, vars
<1>. QED  BY <1>1, <1>2 DEF Next

LEMMA NothingWithoutWork ==
  ASSUME LedgerInvariant, NEW p \in Proc, work[p] = NoWork
  PROVE  draft[p] = NothingDrafted
<1>1. DrawnBy(p) = {} /\ work[p] \notin MoveWork
  BY MoveType DEF DrawnBy, NoWork
<1>2. /\ \A o \in Obs : draft[p][o] = NoRow
      /\ draft[p] \in [Obs -> Row \union {NoRow}]
  BY <1>1 DEF LedgerInvariant, TypeOK, DraftIsOwned
<1>. QED  BY <1>2 DEF NothingDrafted

\* After a row of a batch comes the next one, or the commit.
LEMMA NextRowTurn ==
  ASSUME LedgerInvariant, NEW p \in Proc, NextRow(p), work[p] \in StoreWork
  PROVE  /\ work'[p].ids = work[p].ids /\ work[p].at \in Nat
         /\ \/ work'[p].at = work[p].at + 1 /\ pc'[p] \in {"station", "contributor"}
            \/ work'[p] = work[p] /\ pc'[p] = "commit"
<1>0. TypeOK /\ DOMAIN pc = Proc /\ DOMAIN work = Proc /\ work[p].at \in Nat
  BY StoreKind DEF LedgerInvariant, TypeOK
<1>1. CASE work[p].kind = "store" /\ work[p].at < Len(work[p].batch)
  <2>1. /\ work'[p] = AtNextRow(work[p])
        /\ pc'[p] = FirstStep(work[p].batch[work[p].at + 1].series)
    BY <1>0, <1>1 DEF NextRow
  <2>2. work'[p].ids = work[p].ids /\ work'[p].at = work[p].at + 1
    BY <2>1 DEF AtNextRow, StoreWork
  <2>. QED  BY <1>0, <2>1, <2>2 DEF FirstStep
<1>2. CASE ~(work[p].kind = "store" /\ work[p].at < Len(work[p].batch))
  BY <1>0, <1>2 DEF NextRow
<1>. QED  BY <1>1, <1>2

LEMMA TurnsStay ==
  ASSUME LedgerInvariant, DraftsInTurn, [Next]_vars
  PROVE  DraftsInTurn'
<1>. DEFINE InTurn(step, w, d) ==
       /\ w \in StoreWork =>
             /\ \A i, j \in DOMAIN w.ids : w.ids[i] = w.ids[j] => i = j
             /\ \A i \in DOMAIN w.ids :
                   \/ i > w.at
                   \/ i = w.at /\ step \notin {"watermark", "commit"}
                   => d[w.ids[i]] = NoRow
       /\ step = "observation" => d = NothingDrafted
<1>. SUFFICES ASSUME NEW p \in Proc PROVE InTurn(pc'[p], work'[p], draft'[p])
  BY DEF DraftsInTurn
<1>0. /\ TypeOK /\ Fits(p) /\ DOMAIN pc = Proc /\ DOMAIN work = Proc
      /\ draft \in [Proc -> [Obs -> Row \union {NoRow}]]
      /\ LedgerInvariant'
  BY InvariantStays DEF LedgerInvariant, TypeOK, StepFitsWork
<1>1. InTurn(pc[p], work[p], draft[p])
  BY DEF DraftsInTurn
<1>2. \A w \in StoreWork : DOMAIN w.ids \subseteq Int /\ w.at \in Int /\ w \notin MoveWork
  <2>. SUFFICES ASSUME NEW w \in StoreWork
                PROVE  DOMAIN w.ids \subseteq Int /\ w.at \in Int /\ w \notin MoveWork
    OBVIOUS
  <2>1. w.ids \in Seq(Obs)
    BY DEF StoreWork
  <2>. QED  BY <2>1, StoreKind
<1>3. CASE Finish(p)
  <2>1. work'[p] = NoWork /\ pc'[p] = "idle" /\ NoWork \notin StoreWork
    BY <1>0, <1>3, FinishEffect, StoreKind DEF NoWork
  <2>. QED  BY <2>1
<1>4. CASE BeginStore(p)
  <2>1. draft'[p] = NothingDrafted
    BY <1>0, <1>4, NothingWithoutWork DEF BeginStore, Fits
  <2>2. pc'[p] # "observation"
    BY <1>0, <1>4 DEF BeginStore, FirstStep
  <2>3. PICK batch \in Batches : \E ids \in [DOMAIN batch -> Unused] :
           /\ \A i, j \in DOMAIN ids : ids[i] = ids[j] => i = j
           /\ work' = [work EXCEPT ![p] =
                 [kind |-> "store", batch |-> batch, ids |-> ids, at |-> 1,
                  received |-> now, duplicate |-> FALSE, rapid |-> FALSE]]
    BY <1>4 DEF BeginStore
  <2>4. PICK ids \in [DOMAIN batch -> Unused] :
           /\ \A i, j \in DOMAIN ids : ids[i] = ids[j] => i = j
           /\ work' = [work EXCEPT ![p] =
                 [kind |-> "store", batch |-> batch, ids |-> ids, at |-> 1,
                  received |-> now, duplicate |-> FALSE, rapid |-> FALSE]]
    BY <2>3
  <2>5. work'[p].ids = ids
    BY <1>0, <2>4
  <2>6. \A i \in DOMAIN ids : NothingDrafted[ids[i]] = NoRow
    BY DEF Unused, NothingDrafted
  <2>. QED  BY <2>1, <2>2, <2>4, <2>5, <2>6
<1>5. CASE BeginTransition(p)
  <2>1. draft'[p] = NothingDrafted
    BY <1>0, <1>5, NothingWithoutWork DEF BeginTransition, Fits
  <2>2. work'[p].kind = "move"
    BY <1>0, <1>5 DEF BeginTransition
  <2>. QED  BY <2>1, <2>2, StoreKind
<1>6. CASE LockStation(p) \/ LockSnapshot(p)
  <2>1. /\ work'[p] = work[p] /\ draft'[p] = draft[p]
        /\ pc[p] \in {"station", "snapshot"} /\ pc'[p] \in {"snapshot", "contributor"}
    BY <1>0, <1>6 DEF LockStation, LockSnapshot
  <2>. QED  BY <1>1, <2>1
<1>7. CASE ReadContributorRows(p)
  <2>1. work[p] \in StoreWork /\ pc[p] = "contributor" /\ pc'[p] = "judge"
        /\ draft' = draft
    BY <1>0, <1>7 DEF ReadContributorRows, Fits
  <2>2. work'[p].ids = work[p].ids /\ work'[p].at = work[p].at
    BY <1>0, <1>7, <2>1 DEF ReadContributorRows, StoreWork
  <2>. QED  BY <1>1, <2>1, <2>2
<1>8. CASE Judge(p)
  <2>1. work[p] \in StoreWork /\ pc[p] = "judge"
    BY <1>8, JudgeEffect DEF Judge
  <2>. DEFINE key == work[p].ids[work[p].at]
  <2>2. PICK state \in {"ACCEPTED", "QUARANTINED", "REJECTED"} :
           /\ draft' = [draft EXCEPT ![p][key] = NewRow(Current(p), state)]
           /\ IF state = "ACCEPTED"
              THEN pc' = [pc EXCEPT ![p] = "watermark"] /\ UNCHANGED work
              ELSE NextRow(p)
    BY <1>8, JudgeEffect
  <2>3. \A o \in Obs : o # key => draft'[p][o] = draft[p][o]
    BY <1>0, <2>2
  <2>4. /\ \A i \in DOMAIN work[p].ids : work[p].ids[i] \in Obs
        /\ work[p].at \in DOMAIN work[p].ids
    BY <1>0, <2>1 DEF StoreWork, Fits
  <2>. HIDE DEF key
  <2>5. \A i \in DOMAIN work[p].ids : i > work[p].at => draft'[p][work[p].ids[i]] = NoRow
    <3>. SUFFICES ASSUME NEW i \in DOMAIN work[p].ids, i > work[p].at
                  PROVE  draft'[p][work[p].ids[i]] = NoRow
      OBVIOUS
    <3>1. i # work[p].at
      BY <1>2, <2>1
    <3>2. work[p].ids[i] # key
      BY <1>1, <2>1, <2>4, <3>1 DEF key
    <3>. QED  BY <1>1, <2>1, <2>3, <2>4, <3>2
  <2>6. \/ work'[p] = work[p] /\ pc'[p] = "watermark"
        \/ /\ work'[p].ids = work[p].ids
           /\ \/ work'[p].at = work[p].at + 1 /\ pc'[p] \in {"station", "contributor"}
              \/ work'[p] = work[p] /\ pc'[p] = "commit"
    BY <1>0, <2>1, <2>2, NextRowTurn
  <2>7. \A i \in DOMAIN work[p].ids :
           i > work[p].at + 1 \/ i = work[p].at + 1 => i > work[p].at
    BY <1>2, <2>1
  <2>. QED  BY <1>1, <2>1, <2>5, <2>6, <2>7
<1>9. CASE AdvanceWatermark(p)
  <2>1. pc[p] = "watermark" /\ draft' = draft /\ NextRow(p)
        /\ work[p] \in StoreWork \union MoveWork
    BY <1>0, <1>9 DEF AdvanceWatermark, Fits
  <2>2. CASE work[p] \in StoreWork
    <3>1. /\ work'[p].ids = work[p].ids
          /\ \/ work'[p].at = work[p].at + 1 /\ pc'[p] \in {"station", "contributor"}
             \/ work'[p] = work[p] /\ pc'[p] = "commit"
      BY <2>1, <2>2, NextRowTurn
    <3>2. \A i \in DOMAIN work[p].ids :
             i > work[p].at + 1 \/ i = work[p].at + 1 => i > work[p].at
      BY <1>2, <2>2
    <3>. QED  BY <1>1, <2>1, <2>2, <3>1, <3>2
  <2>3. CASE work[p] \in MoveWork
    <3>1. work'[p] = work[p] /\ pc'[p] = "commit" /\ work[p] \notin StoreWork
      BY <2>1, <2>3, NextRowEffect, StoreKind
    <3>. QED  BY <3>1
  <2>. QED  BY <2>1, <2>2, <2>3
<1>10. CASE MoveObservation(p)
  <2>1. work'[p] = work[p] /\ work[p] \in MoveWork /\ pc'[p] # "observation"
    BY <1>0, <1>10 DEF MoveObservation, Fits
  <2>. QED  BY <1>2, <2>1
<1>11. CASE /\ pc'[p] = pc[p] /\ work'[p] = work[p] /\ draft'[p] = draft[p]
            /\ draftVersion'[p] = draftVersion[p]
  BY <1>1, <1>11
<1>. HIDE DEF InTurn
<1>. QED
  BY <1>3, <1>4, <1>5, <1>6, <1>7, <1>8, <1>9, <1>10, <1>11, OwnStep
     DEF StoreStep, MoveStep, RefuseTransition, Commit, Rollback

--------------------------------------------------------------------------------
\* A pending change is an observation a draft touches, with its number.
LEMMA PendingIs ==
  \A p, m, c : c \in Pending(p, m) <=>
     \E o \in Obs : /\ Touches(p, o, m)
                    /\ c = <<o, IF row[o] = NoRow THEN 0 ELSE Len(events[o]) + 1>>
BY DEF Pending

\* Nobody else appends to the trail of a row that p has drafted.
LEMMA DraftedTrailStays ==
  ASSUME AuditInvariant, [Next]_vars, NEW p \in Proc, NEW o \in Obs,
         draft[p][o] # NoRow, ~Finish(p)
  PROVE  events'[o] = events[o]
<1>0. LedgerInvariant
  BY DEF AuditInvariant
<1>1. ASSUME NEW q \in Proc, Commit(q) PROVE events'[o] = events[o]
  <2>1. q # p
    BY <1>1 DEF Commit
  <2>2. draft[q][o] = NoRow
    BY <1>0, <2>1, DraftsDisjoint
  <2>3. work[q] \in MoveWork /\ pc[q] = "commit" => draft[q][work[q].target] # NoRow
    BY DEF AuditInvariant, EventTellsMove
  <2>. QED  BY <1>0, <1>1, <2>2, <2>3, CommitEffect
<1>. QED  BY <1>0, <1>1, OnlyCommitWrites

\* As long as its draft is what it was, p will make the same changes.
LEMMA PendingStays ==
  ASSUME AuditInvariant, [Next]_vars, NEW p \in Proc, NEW m \in Markets,
         ~Finish(p), draft'[p] = draft[p]
  PROVE  Pending(p, m)' = Pending(p, m)
<1>1. ASSUME NEW o \in Obs, draft[p][o] # NoRow
      PROVE  row'[o] = row[o] /\ events'[o] = events[o]
  BY <1>1, DraftedRowEffect, DraftedTrailStays DEF AuditInvariant
<1>2. \A o \in Obs : Touches(p, o, m) => draft[p][o] # NoRow
  BY DEF Touches
<1>3. \A o \in Obs : Touches(p, o, m)' <=> Touches(p, o, m)
  BY <1>1 DEF Touches
<1>4. \A c : c \in Pending(p, m)' <=>
         \E o \in Obs : /\ Touches(p, o, m)'
                        /\ c = <<o, IF row'[o] = NoRow THEN 0 ELSE Len(events'[o]) + 1>>
  BY DEF Pending
<1>5. \A c : c \in Pending(p, m)' <=> c \in Pending(p, m)
  BY <1>1, <1>2, <1>3, <1>4, PendingIs
<1>. QED  BY <1>5

\* Only AdvanceWatermark moves an uncommitted watermark, and nobody else the
\* committed one under it.
LEMMA BumpKept ==
  ASSUME LedgerInvariant, [Next]_vars, NEW p \in Proc, NEW m \in Markets,
         ~Finish(p), ~AdvanceWatermark(p)
  PROVE  Bump(p, m)' = Bump(p, m)
<1>1. draftVersion'[p] = draftVersion[p]
  BY OwnStep DEF BeginStore, BeginTransition, StoreStep, MoveStep, LockStation,
     LockSnapshot, ReadContributorRows, Judge, MoveObservation, RefuseTransition,
     Commit, Rollback
<1>2. ASSUME draftVersion[p][m] # 0 PROVE version'[m] = version[m]
  <2>1. ASSUME NEW q \in Proc, Commit(q) PROVE version'[m] = version[m]
    <3>1. q # p
      BY <2>1 DEF Commit
    <3>a. BumpIsOwned
      BY DEF LedgerInvariant
    <3>b. lock[<<"watermark", m>>] = p
      BY <1>2, <3>a DEF BumpIsOwned
    <3>c. draftVersion[q][m] # 0 => lock[<<"watermark", m>>] = q
      BY <3>a DEF BumpIsOwned
    <3>2. draftVersion[q][m] = 0
      BY <3>1, <3>b, <3>c
    <3>. QED  BY <2>1, <3>2 DEF Commit
  <2>. QED  BY <2>1, OnlyCommitWrites
<1>. QED  BY <1>1, <1>2 DEF Bump

\* A process gets to its watermark by accepting a row or moving one only.
LEMMA DueKept ==
  ASSUME AuditInvariant, [Next]_vars, NEW p \in Proc, NEW m \in Markets,
         ~Finish(p), ~AdvanceWatermark(p), ~Judge(p), ~MoveObservation(p)
  PROVE  draft'[p] = draft[p] /\ Due(p, m)' = Due(p, m)
<1>0. /\ LedgerInvariant /\ TypeOK /\ Fits(p) /\ DOMAIN pc = Proc
  BY DEF AuditInvariant, LedgerInvariant, TypeOK, StepFitsWork
<1>1. /\ draft'[p] = draft[p]
      /\ pc[p] # "watermark" => pc'[p] # "watermark"
  <2>1. \/ pc'[p] = pc[p] /\ draft'[p] = draft[p]
        \/ BeginStore(p) \/ BeginTransition(p) \/ LockStation(p) \/ LockSnapshot(p)
        \/ ReadContributorRows(p)
    <3>1. ~Commit(p) /\ ~Rollback(p) /\ ~RefuseTransition(p)
      BY DEF Commit, Rollback, RefuseTransition
    <3>. QED  BY <1>0, <3>1, OwnStep DEF StoreStep, MoveStep
  <2>2. CASE BeginStore(p)
    <3>1. PICK batch \in Batches : pc' = [pc EXCEPT ![p] = FirstStep(batch[1].series)]
      BY <2>2 DEF BeginStore
    <3>. QED  BY <1>0, <2>2, <3>1 DEF BeginStore, FirstStep
  <2>3. CASE BeginTransition(p)
    BY <1>0, <2>3 DEF BeginTransition
  <2>4. CASE LockStation(p) \/ LockSnapshot(p) \/ ReadContributorRows(p)
    BY <1>0, <2>4 DEF LockStation, LockSnapshot, ReadContributorRows
  <2>. QED  BY <2>1, <2>2, <2>3, <2>4
<1>2. ASSUME pc[p] = "watermark" PROVE pc'[p] = "watermark" /\ Scope(p)' = Scope(p)
  <2>1. pc'[p] = pc[p] /\ work'[p] = work[p]
    BY <1>0, <1>2, WatermarkStep
  <2>2. CASE work[p] \in StoreWork
    BY <1>2, <2>1, <2>2, StoreKind DEF Scope, Current
  <2>3. CASE work[p] \in MoveWork
    <3>1. work[p].kind = "move" /\ work[p].target \in Obs /\ draft[p][work[p].target] # NoRow
      BY <1>2, <2>3, MoveType DEF AuditInvariant, EventTellsMove
    <3>2. View(p)'[work[p].target] = View(p)[work[p].target]
      BY <1>1, <3>1 DEF View
    <3>. QED  BY <1>2, <2>1, <3>1, <3>2 DEF Scope
  <2>. QED  BY <1>0, <1>2, <2>1, <2>2, <2>3 DEF Fits
<1>. QED  BY <1>1, <1>2 DEF Due

\* What the counts of an uncommitted watermark are.
LEMMA BumpType ==
  ASSUME LedgerInvariant, NEW p \in Proc, NEW m \in Markets
  PROVE  Bump(p, m) \in Nat /\ version[m] \in Nat /\ draftVersion[p][m] \in Nat
<1>1. /\ version[m] \in Nat /\ draftVersion[p][m] \in Nat
      /\ draftVersion[p][m] # 0 => draftVersion[p][m] > version[m]
  BY DEF LedgerInvariant, TypeOK, BumpIsOwned
<1>. QED  BY <1>1 DEF Bump

\* What p has drafted is counted, its market by market.
Counted(p, m) ==
  IsFiniteSet(Pending(p, m)) /\ Cardinality(Pending(p, m)) = Bump(p, m) + Due(p, m)

LEMMA EndCounts ==
  ASSUME LedgerInvariant, NEW p \in Proc, NEW m \in Markets, Finish(p)
  PROVE  Counted(p, m)'
<1>1. draft'[p] = NothingDrafted /\ draftVersion'[p] = NoBump /\ pc'[p] = "idle"
  BY FinishEffect DEF LedgerInvariant
<1>2. \A o \in Obs : ~Touches(p, o, m)'
  BY <1>1 DEF Touches, NothingDrafted
<1>3. Pending(p, m)' = {}
  BY <1>2 DEF Pending
<1>4. Bump(p, m)' = 0 /\ Due(p, m)' = 0
  BY <1>1 DEF Bump, Due, NoBump
<1>. QED  BY <1>3, <1>4, FS_EmptySet DEF Counted

\* Advancing the watermark counts the change that was due.
LEMMA AdvanceCounts ==
  ASSUME AuditInvariant, [Next]_vars, NEW p \in Proc, NEW m \in Markets,
         AdvanceWatermark(p), Counted(p, m)
  PROVE  Counted(p, m)'
<1>0. /\ LedgerInvariant /\ Fits(p) /\ DOMAIN pc = Proc
      /\ draftVersion \in [Proc -> [Markets -> Nat]]
  BY DEF AuditInvariant, LedgerInvariant, StepFitsWork, TypeOK
<1>1. /\ work[p] \in StoreWork \union MoveWork /\ pc[p] = "watermark"
      /\ draft' = draft /\ version' = version /\ NextRow(p)
  BY <1>0 DEF AdvanceWatermark, Fits
<1>2. pc'[p] \in {"station", "contributor", "commit"}
  BY <1>0, <1>1, NextRowEffect
<1>3. ~Finish(p)
  BY <1>0, <1>2, FinishEffect DEF LedgerInvariant
<1>4. Pending(p, m)' = Pending(p, m)
  BY <1>1, <1>3, PendingStays
<1>5. /\ version[m] \in Nat /\ draftVersion[p][m] \in Nat
      /\ draftVersion[p][m] # 0 => draftVersion[p][m] > version[m]
  BY <1>0, BumpType DEF LedgerInvariant, BumpIsOwned
<1>6. CASE Scope(p) = m
  <2>1. draftVersion'[p][m] = 1 + IF draftVersion[p][m] = 0 THEN version[m]
                                                          ELSE draftVersion[p][m]
    BY <1>0, <1>5, <1>6 DEF AdvanceWatermark
  <2>2. Bump(p, m)' = Bump(p, m) + 1
    BY <1>1, <1>5, <2>1 DEF Bump
  <2>3. Due(p, m) = 1 /\ Due(p, m)' = 0
    BY <1>1, <1>2, <1>6 DEF Due
  <2>4. Bump(p, m) \in Nat
    BY <1>0, BumpType
  <2>. QED  BY <1>4, <2>2, <2>3, <2>4 DEF Counted
<1>7. CASE Scope(p) # m
  <2>1. draftVersion'[p][m] = draftVersion[p][m]
    BY <1>0, <1>7 DEF AdvanceWatermark
  <2>2. Bump(p, m)' = Bump(p, m)
    BY <1>1, <2>1 DEF Bump
  <2>3. Due(p, m) = 0 /\ Due(p, m)' = 0
    BY <1>1, <1>2, <1>7 DEF Due
  <2>. QED  BY <1>4, <2>2, <2>3 DEF Counted
<1>. QED  BY <1>6, <1>7

\* A row judged accepted is one more change, and is due.
LEMMA JudgeCounts ==
  ASSUME CountInvariant, [Next]_vars, NEW p \in Proc, NEW m \in Markets, Judge(p)
  PROVE  Counted(p, m)'
<1>. DEFINE before == Pending(p, m)
<1>0. /\ LedgerInvariant /\ TypeOK /\ DOMAIN pc = Proc
      /\ draft \in [Proc -> [Obs -> Row \union {NoRow}]]
      /\ Counted(p, m)
  BY DEF CountInvariant, AuditInvariant, LedgerInvariant, TypeOK, PendingIsCounted, Counted
<1>1. /\ work[p] \in StoreWork /\ work[p].kind = "store" /\ pc[p] = "judge"
      /\ Current(p) \in Command /\ work[p].ids[work[p].at] \in Obs
      /\ row[work[p].ids[work[p].at]] = NoRow
      /\ UNCHANGED <<row, events, version, draftVersion>>
  <2>1. work[p] \in StoreWork /\ pc[p] = "judge" /\ UNCHANGED <<row, events, version, draftVersion>>
    BY <1>0, JudgeEffect DEF Judge
  <2>. QED
    BY <1>0, <2>1, CurrentType DEF LedgerInvariant, DrawnKeysAreNew
<1>a. PICK key \in Obs : key = work[p].ids[work[p].at] /\ row[key] = NoRow
  BY <1>1
<1>2. draft[p][key] = NoRow
  <2>1. work[p].at \in DOMAIN work[p].ids
    BY <1>0, <1>1 DEF LedgerInvariant, StepFitsWork, Fits
  <2>. QED  BY <1>1, <1>a, <2>1 DEF CountInvariant, DraftsInTurn
<1>3. PICK state \in {"ACCEPTED", "QUARANTINED", "REJECTED"} :
         /\ draft' = [draft EXCEPT ![p][key] = NewRow(Current(p), state)]
         /\ IF state = "ACCEPTED"
            THEN pc' = [pc EXCEPT ![p] = "watermark"] /\ UNCHANGED work
            ELSE NextRow(p)
  BY <1>0, <1>a, JudgeEffect
<1>4. /\ NewRow(Current(p), state) \in Row
      /\ NewRow(Current(p), state).series = Current(p).series
      /\ NewRow(Current(p), state).state = state
  <2>1. state \in States
    BY DEF States
  <2>. QED  BY <1>0, <1>1, <2>1, JudgeRow DEF NewRow
<1>. DEFINE new == NewRow(Current(p), state)
<1>. HIDE DEF new, before
<1>5. /\ draft'[p][key] = new /\ new # NoRow
      /\ \A o \in Obs : o # key => draft'[p][o] = draft[p][o]
  BY <1>0, <1>1, <1>3, <1>4, NoRowAssumption DEF new
<1>6. Bump(p, m)' = Bump(p, m)
  BY <1>1 DEF Bump
<1>7. \A o \in Obs : o # key => (Touches(p, o, m)' <=> Touches(p, o, m))
  BY <1>1, <1>5 DEF Touches
<1>8. /\ ~Touches(p, key, m)
      /\ Touches(p, key, m)' <=> state = "ACCEPTED" /\ MarketOf[Current(p).series] = m
  BY <1>1, <1>a, <1>2, <1>4, <1>5 DEF Touches, new
<1>9. /\ Due(p, m) = 0
      /\ Due(p, m)' = IF state = "ACCEPTED" /\ MarketOf[Current(p).series] = m THEN 1 ELSE 0
  <2>1. CASE state = "ACCEPTED"
    <3>1. pc'[p] = "watermark" /\ work'[p] = work[p]
      BY <1>0, <1>3, <2>1
    <3>2. Scope(p)' = MarketOf[Current(p).series]
      BY <1>1, <3>1 DEF Scope, Current
    <3>. QED  BY <1>1, <2>1, <3>1, <3>2 DEF Due
  <2>2. CASE state # "ACCEPTED"
    <3>1. pc'[p] # "watermark"
      <4>1. NextRow(p)
        BY <1>3, <2>2
      <4>. QED  BY <1>0, <1>1, <4>1, NextRowEffect
    <3>. QED  BY <1>1, <2>2, <3>1 DEF Due
  <2>. QED  BY <2>1, <2>2
<1>10. \A c : c \in Pending(p, m)' <=>
          \E o \in Obs : /\ Touches(p, o, m)'
                         /\ c = <<o, IF row[o] = NoRow THEN 0 ELSE Len(events[o]) + 1>>
  BY <1>1 DEF Pending
<1>11. \A c : c \in before <=>
          \E o \in Obs : /\ Touches(p, o, m)
                         /\ c = <<o, IF row[o] = NoRow THEN 0 ELSE Len(events[o]) + 1>>
  BY PendingIs DEF before
<1>12. /\ IsFiniteSet(before) /\ Cardinality(before) = Bump(p, m) /\ Bump(p, m) \in Nat
  BY <1>0, <1>9, BumpType DEF Counted, before
<1>13. CASE state = "ACCEPTED" /\ MarketOf[Current(p).series] = m
  <2>1. <<key, 0>> \notin before
    <3>. SUFFICES ASSUME NEW o \in Obs, Touches(p, o, m),
                         <<key, 0>> = <<o, IF row[o] = NoRow THEN 0 ELSE Len(events[o]) + 1>>
                  PROVE  FALSE
      BY <1>11
    <3>1. o = key
      OBVIOUS
    <3>. QED  BY <1>8, <3>1
  <2>2. Pending(p, m)' = before \union {<<key, 0>>}
    <3>. DEFINE after == Pending(p, m)'
    <3>1. \A c : c \in after <=>
             \E o \in Obs : /\ (Touches(p, o, m) \/ o = key)
                            /\ c = <<o, IF row[o] = NoRow THEN 0 ELSE Len(events[o]) + 1>>
      BY <1>7, <1>8, <1>10, <1>13
    <3>. HIDE DEF after
    <3>2. \A c : c \in after <=> c \in before \/ c = <<key, 0>>
      BY <1>a, <1>11, <3>1
    <3>3. after = before \union {<<key, 0>>}
      BY <3>2
    <3>. QED  BY <3>3 DEF after
  <2>3. /\ IsFiniteSet(before \union {<<key, 0>>})
        /\ Cardinality(before \union {<<key, 0>>}) = Cardinality(before) + 1
    BY <1>12, <2>1, FS_AddElement
  <2>. QED  BY <1>6, <1>9, <1>12, <1>13, <2>2, <2>3 DEF Counted
<1>14. CASE ~(state = "ACCEPTED" /\ MarketOf[Current(p).series] = m)
  <2>1. Pending(p, m)' = before
    <3>. DEFINE after == Pending(p, m)'
    <3>1. \A c : c \in after <=>
             \E o \in Obs : /\ Touches(p, o, m)
                            /\ c = <<o, IF row[o] = NoRow THEN 0 ELSE Len(events[o]) + 1>>
      BY <1>7, <1>8, <1>10, <1>14
    <3>. HIDE DEF after
    <3>2. after = before
      BY <1>11, <3>1
    <3>. QED  BY <3>2 DEF after
  <2>. QED  BY <1>6, <1>9, <1>12, <1>14, <2>1 DEF Counted
<1>. QED  BY <1>13, <1>14

\* A move into or out of the catalogue is the one change of its transaction.
LEMMA MoveCounts ==
  ASSUME CountInvariant, [Next]_vars, NEW p \in Proc, NEW m \in Markets,
         MoveObservation(p)
  PROVE  Counted(p, m)'
<1>0. /\ LedgerInvariant /\ TypeOK /\ DOMAIN pc = Proc /\ Fits(p)
      /\ draft \in [Proc -> [Obs -> Row \union {NoRow}]]
      /\ row \in [Obs -> Row \union {NoRow}]
      /\ Counted(p, m) /\ Bump(p, m) \in Nat
  <2>1. LedgerInvariant
    BY DEF CountInvariant, AuditInvariant
  <2>. QED
    BY <2>1, BumpType
       DEF CountInvariant, LedgerInvariant, TypeOK, StepFitsWork, PendingIsCounted, Counted
<1>a. PICK t \in Obs : t = work[p].target
  <2>1. work[p] \in MoveWork
    BY <1>0 DEF MoveObservation, Fits
  <2>. QED  BY <2>1, MoveType
<1>. DEFINE from == row[t].state
            to == work[p].to
<1>1. /\ pc[p] = "observation" /\ work[p] \in MoveWork /\ work[p].kind = "move"
      /\ t \in Obs /\ row[t] # NoRow /\ row[t] \in Row /\ to \in States /\ to # from
      /\ UNCHANGED <<row, events, version, work, draftVersion>>
      /\ draft' = [draft EXCEPT ![p][t] = [row[t] EXCEPT !.state = to]]
      /\ pc' = [pc EXCEPT ![p] = IF ChangesCatalogue(from, to) THEN "watermark" ELSE "commit"]
  <2>1. /\ pc[p] = "observation"
        /\ UNCHANGED <<row, events, version, work, draftVersion>>
        /\ draft' = [draft EXCEPT ![p][t] = [row[t] EXCEPT !.state = to]]
        /\ to # from
        /\ pc' = [pc EXCEPT ![p] = IF ChangesCatalogue(from, to) THEN "watermark" ELSE "commit"]
    BY <1>a DEF MoveObservation
  <2>2. work[p] \in MoveWork /\ row[t] # NoRow
    BY <1>0, <1>a, <2>1 DEF Fits
  <2>3. work[p].kind = "move" /\ t \in Obs /\ to \in States
    BY <2>2, MoveType
  <2>. QED  BY <1>0, <2>1, <2>2, <2>3
<1>2. draft[p] = NothingDrafted
  BY <1>1 DEF CountInvariant, DraftsInTurn
<1>. DEFINE new == [row[t] EXCEPT !.state = to]
<1>3. new \in Row /\ new.state = to /\ new.series = row[t].series
  BY <1>1 DEF Row
<1>. HIDE DEF from, to, new
<1>4. /\ draft'[p][t] = new /\ new # NoRow
      /\ \A o \in Obs : o # t => draft'[p][o] = NoRow
  BY <1>0, <1>1, <1>2, <1>3, NoRowAssumption DEF NothingDrafted, new
<1>5. Bump(p, m) = 0 /\ Bump(p, m)' = 0
  <2>1. Pending(p, m) = {}
    BY <1>2 DEF Pending, Touches, NothingDrafted
  <2>2. Due(p, m) = 0
    BY <1>1 DEF Due
  <2>3. Bump(p, m) = 0
    BY <1>0, <2>1, <2>2, FS_EmptySet DEF Counted
  <2>. QED  BY <1>1, <2>3 DEF Bump
<1>. DEFINE counts == ChangesCatalogue(from, to) /\ MarketOf[row[t].series] = m
<1>6. Due(p, m)' = IF counts THEN 1 ELSE 0
  <2>1. pc'[p] = IF ChangesCatalogue(from, to) THEN "watermark" ELSE "commit"
    BY <1>0, <1>1
  <2>2. Scope(p)' = MarketOf[row[t].series]
    <3>1. View(p)'[t] = new
      BY <1>1, <1>4 DEF View
    <3>2. work'[p].kind = "move" /\ work'[p].target = t
      BY <1>1, <1>a
    <3>3. Scope(p)' = MarketOf[View(p)'[t].series]
      BY <3>2 DEF Scope
    <3>. QED  BY <1>3, <3>1, <3>3
  <2>. QED  BY <2>1, <2>2 DEF Due
<1>7. /\ \A o \in Obs : Touches(p, o, m)' => o = t
      /\ Touches(p, t, m)' <=> counts
  BY <1>1, <1>3, <1>4 DEF Touches, ChangesCatalogue, from
<1>8. \A c : c \in Pending(p, m)' <=>
          \E o \in Obs : /\ Touches(p, o, m)'
                         /\ c = <<o, IF row[o] = NoRow THEN 0 ELSE Len(events[o]) + 1>>
  BY <1>1 DEF Pending
<1>. DEFINE after == Pending(p, m)'
<1>9. Counted(p, m)' <=> IsFiniteSet(after) /\ Cardinality(after) = Bump(p, m)' + Due(p, m)'
  BY DEF Counted
<1>10. CASE counts
  <2>1. after = {<<t, Len(events[t]) + 1>>}
    <3>1. \A c : c \in after <=> c = <<t, Len(events[t]) + 1>>
      BY <1>1, <1>7, <1>8, <1>10
    <3>. HIDE DEF after
    <3>. QED  BY <3>1
  <2>2. /\ IsFiniteSet({<<t, Len(events[t]) + 1>>})
        /\ Cardinality({<<t, Len(events[t]) + 1>>}) = 1
    BY FS_Singleton
  <2>. HIDE DEF after, counts
  <2>. QED  BY <1>5, <1>6, <1>9, <1>10, <2>1, <2>2
<1>11. CASE ~counts
  <2>1. after = {}
    <3>1. \A c : c \notin after
      BY <1>7, <1>8, <1>11
    <3>. HIDE DEF after
    <3>. QED  BY <3>1
  <2>. HIDE DEF after, counts
  <2>. QED  BY <1>5, <1>6, <1>9, <1>11, <2>1, FS_EmptySet
<1>. QED  BY <1>10, <1>11

LEMMA PendingCountedStays ==
  ASSUME CountInvariant, [Next]_vars
  PROVE  PendingIsCounted'
<1>. SUFFICES ASSUME NEW p \in Proc, NEW m \in Markets PROVE Counted(p, m)'
  BY DEF PendingIsCounted, Counted
<1>1. AuditInvariant /\ LedgerInvariant /\ Counted(p, m)
  BY DEF CountInvariant, AuditInvariant, PendingIsCounted, Counted
<1>2. CASE /\ ~Finish(p) /\ ~AdvanceWatermark(p) /\ ~Judge(p) /\ ~MoveObservation(p)
  <2>1. draft'[p] = draft[p] /\ Due(p, m)' = Due(p, m)
    BY <1>1, <1>2, DueKept
  <2>2. Pending(p, m)' = Pending(p, m)
    BY <1>1, <1>2, <2>1, PendingStays
  <2>3. Bump(p, m)' = Bump(p, m)
    BY <1>1, <1>2, BumpKept
  <2>. QED  BY <1>1, <2>1, <2>2, <2>3 DEF Counted
<1>. QED  BY <1>1, <1>2, EndCounts, AdvanceCounts, JudgeCounts, MoveCounts

--------------------------------------------------------------------------------
(* A commit turns what was pending into changes. *)

LEMMA ChangesAre ==
  \A m, c : c \in Changes(m) <=>
     \E o \in Stored : /\ MarketOf[row[o].series] = m
                       /\ \E i \in ChangesOf(o) : c = <<o, i>>
BY DEF Changes

\* The changes already made have numbers up to the length of their trail.
LEMMA PendingIsNew ==
  ASSUME LedgerInvariant, NEW p \in Proc, NEW m \in Markets
  PROVE  Changes(m) \intersect Pending(p, m) = {}
<1>. SUFFICES ASSUME NEW c, c \in Changes(m), c \in Pending(p, m) PROVE FALSE
  OBVIOUS
<1>1. PICK o \in Stored : \E i \in ChangesOf(o) : c = <<o, i>>
  BY ChangesAre
<1>2. PICK i \in ChangesOf(o) : c = <<o, i>>
  BY <1>1
<1>3. PICK x \in Obs : c = <<x, IF row[x] = NoRow THEN 0 ELSE Len(events[x]) + 1>>
  BY PendingIs
<1>4. x = o /\ row[o] # NoRow /\ o \in Obs
  BY <1>2, <1>3 DEF Stored
<1>5. i = Len(events[o]) + 1
  BY <1>2, <1>3, <1>4
<1>6. i \in 0..Len(events[o]) /\ Len(events[o]) \in Nat
  <2>1. events[o] \in Seq(Event)
    BY <1>4 DEF LedgerInvariant, TypeOK
  <2>. QED  BY <2>1 DEF ChangesOf
<1>. QED  BY <1>5, <1>6

\* Of a row nobody rewrites the changes stay as they are.
LEMMA ChangesOfStay ==
  ASSUME NEW o \in Obs, row'[o] = row[o], events'[o] = events[o]
  PROVE  ChangesOf(o)' = ChangesOf(o)
BY DEF ChangesOf, BirthState

\* A batch's commit: its accepted rows are born.
LEMMA BatchCommitCounts ==
  ASSUME AuditInvariant, NEW p \in Proc, NEW m \in Markets, Commit(p),
         work[p] \in StoreWork
  PROVE  Changes(m)' = Changes(m) \union Pending(p, m)
<1>0. /\ LedgerInvariant /\ TypeOK /\ EventsAreStored
      /\ events' = events
      /\ \A o \in Obs : draft[p][o] # NoRow => row[o] = NoRow
      /\ \A o \in Obs : row'[o] = IF draft[p][o] # NoRow THEN draft[p][o] ELSE row[o]
  <2>1. LedgerInvariant /\ TypeOK /\ EventsAreStored
    BY DEF AuditInvariant, LedgerInvariant
  <2>. QED  BY <2>1, CommitEffect, StoreKind DEF Commit, View
<1>1. \A c : c \in Changes(m)' <=>
         \E o \in Obs : /\ row'[o] # NoRow
                        /\ MarketOf[row'[o].series] = m
                        /\ \E i \in ChangesOf(o)' : c = <<o, i>>
  BY DEF Changes, Stored
<1>2. \A c : c \in Changes(m) <=>
         \E o \in Obs : /\ row[o] # NoRow
                        /\ MarketOf[row[o].series] = m
                        /\ \E i \in ChangesOf(o) : c = <<o, i>>
  BY ChangesAre DEF Stored
<1>3. \A c : c \in Pending(p, m) <=>
         \E o \in Obs : Touches(p, o, m) /\ c = <<o, 0>>
  BY <1>0, PendingIs DEF Touches
<1>4. ASSUME NEW o \in Obs, draft[p][o] # NoRow
      PROVE  \A i : i \in ChangesOf(o)' <=> i = 0 /\ draft[p][o].state = "ACCEPTED"
  <2>1. events'[o] = <<>> /\ row'[o] = draft[p][o] /\ Len(events'[o]) = 0
    BY <1>0, <1>4 DEF EventsAreStored
  <2>2. BirthState(o)' = draft[p][o].state
    BY <2>1 DEF BirthState
  <2>. QED  BY <2>1, <2>2 DEF ChangesOf
<1>5. \A o \in Obs : draft[p][o] = NoRow => row'[o] = row[o] /\ ChangesOf(o)' = ChangesOf(o)
  BY <1>0, ChangesOfStay
<1>6. \A o \in Obs : Touches(p, o, m) <=>
         /\ draft[p][o] # NoRow
         /\ MarketOf[draft[p][o].series] = m
         /\ draft[p][o].state = "ACCEPTED"
  BY <1>0 DEF Touches
<1>. DEFINE after == Changes(m)'
<1>7. \A c : c \in after <=> c \in Changes(m) \/ c \in Pending(p, m)
  <2>. SUFFICES ASSUME NEW c PROVE c \in after <=> c \in Changes(m) \/ c \in Pending(p, m)
    OBVIOUS
  <2>1. ASSUME c \in after PROVE c \in Changes(m) \/ c \in Pending(p, m)
    <3>1. PICK o \in Obs : /\ row'[o] # NoRow
                           /\ MarketOf[row'[o].series] = m
                           /\ \E i \in ChangesOf(o)' : c = <<o, i>>
      BY <1>1, <2>1
    <3>2. CASE draft[p][o] = NoRow
      BY <1>2, <1>5, <3>1, <3>2
    <3>3. CASE draft[p][o] # NoRow
      BY <1>0, <1>3, <1>4, <1>6, <3>1, <3>3
    <3>. QED  BY <3>2, <3>3
  <2>2. ASSUME c \in Changes(m) PROVE c \in after
    <3>1. PICK o \in Obs : /\ row[o] # NoRow
                           /\ MarketOf[row[o].series] = m
                           /\ \E i \in ChangesOf(o) : c = <<o, i>>
      BY <1>2, <2>2
    <3>. QED  BY <1>0, <1>1, <1>5, <3>1
  <2>3. ASSUME c \in Pending(p, m) PROVE c \in after
    <3>1. PICK o \in Obs : Touches(p, o, m) /\ c = <<o, 0>>
      BY <1>3, <2>3
    <3>. QED  BY <1>0, <1>1, <1>4, <1>6, <3>1
  <2>. QED  BY <2>1, <2>2, <2>3
<1>. HIDE DEF after
<1>8. after = Changes(m) \union Pending(p, m)
  BY <1>7
<1>. QED  BY <1>8 DEF after

\* A transition's commit: the next event of its observation.
LEMMA MoveCommitCounts ==
  ASSUME AuditInvariant, NEW p \in Proc, NEW m \in Markets, Commit(p),
         work[p] \in MoveWork
  PROVE  Changes(m)' = Changes(m) \union Pending(p, m)
<1>a. PICK t \in Obs : t = work[p].target
  BY MoveType
<1>b. PICK from, to, n : /\ from = row[t].state /\ to = draft[p][t].state
                         /\ n = Len(events[t]) + 1
  OBVIOUS
<1>0. /\ LedgerInvariant /\ TypeOK /\ pc[p] = "commit" /\ row[t] # NoRow
      /\ draft[p][t] # NoRow
      /\ \A o \in Obs : o # t => draft[p][o] = NoRow
      /\ \A o \in Obs : o # t => row'[o] = row[o] /\ events'[o] = events[o]
      /\ row'[t] = draft[p][t] /\ row'[t].series = row[t].series
      /\ events'[t] = events[t] \o <<[from |-> from, to |-> to]>>
  <2>1. LedgerInvariant /\ TypeOK /\ pc[p] = "commit" /\ row[t] # NoRow
    BY <1>a DEF AuditInvariant, LedgerInvariant, StepFitsWork, Fits, Commit
  <2>2. /\ draft[p][t] # NoRow
        /\ draftEvent[p] = <<[from |-> from, to |-> to]>>
    BY <1>a, <1>b, <2>1 DEF AuditInvariant, EventTellsMove
  <2>3. DrawnBy(p) = {}
    BY MoveType DEF DrawnBy
  <2>4. /\ \A o \in Obs : o # t => draft[p][o] = NoRow
        /\ draft[p][t].series = row[t].series
    BY <1>a, <2>1, <2>2, <2>3 DEF LedgerInvariant, DraftIsOwned
  <2>5. /\ \A o \in Obs : o # t => row'[o] = row[o] /\ events'[o] = events[o]
        /\ row'[t] = draft[p][t] /\ events'[t] = events[t] \o draftEvent[p]
    BY <1>a, <2>1, <2>2, CommitEffect, StoreKind
  <2>. QED  BY <2>1, <2>2, <2>4, <2>5
<1>1. /\ events[t] \in Seq(Event) /\ [from |-> from, to |-> to] \in Event
      /\ draft[p][t] \in Row
  <2>1. row[t] \in Row /\ draft[p][t] \in Row /\ events[t] \in Seq(Event)
    BY <1>0 DEF TypeOK
  <2>. QED  BY <1>b, <2>1 DEF Row, Event
<1>2. /\ n \in Nat /\ Len(events'[t]) = n /\ n - 1 = Len(events[t]) /\ n # 0
      /\ \A i \in 1..(n - 1) : events'[t][i] = events[t][i]
      /\ events'[t][n] = [from |-> from, to |-> to]
      /\ events'[t] # <<>>
      /\ events[t] = <<>> => n = 1
      /\ events[t] # <<>> => n > 1
  <2>. DEFINE last == [from |-> from, to |-> to]
              trail == events[t]
              longer == events'[t]
  <2>1. trail \in Seq(Event) /\ last \in Event /\ longer = trail \o <<last>> /\ n = Len(trail) + 1
    BY <1>0, <1>1, <1>b
  <2>. HIDE DEF last, trail, longer
  <2>2. /\ n \in Nat /\ Len(longer) = n /\ n - 1 = Len(trail) /\ n # 0
        /\ \A i \in 1..(n - 1) : longer[i] = trail[i]
        /\ longer[n] = last /\ longer # <<>>
        /\ trail = <<>> => n = 1
        /\ trail # <<>> => n > 1
    BY <2>1
  <2>. QED  BY <2>2 DEF last, trail, longer
<1>3. BirthState(t)' = BirthState(t)
  <2>1. CASE events[t] = <<>>
    BY <1>b, <1>2, <2>1 DEF BirthState
  <2>2. CASE events[t] # <<>>
    <3>1. events'[t][1] = events[t][1]
      BY <1>2, <2>2
    <3>. QED  BY <1>2, <2>2, <3>1 DEF BirthState
  <2>. QED  BY <2>1, <2>2
<1>4. \A i : i \in ChangesOf(t)' <=>
         i \in ChangesOf(t) \/ (i = n /\ "ACCEPTED" \in {from, to})
  <2>1. \A i : i \in ChangesOf(t) <=>
           /\ i \in 0..(n - 1)
           /\ IF i = 0 THEN BirthState(t) = "ACCEPTED"
                       ELSE "ACCEPTED" \in {events[t][i].from, events[t][i].to}
    BY <1>2 DEF ChangesOf
  <2>2. \A i : i \in ChangesOf(t)' <=>
           /\ i \in 0..n
           /\ IF i = 0 THEN BirthState(t)' = "ACCEPTED"
                       ELSE "ACCEPTED" \in {events'[t][i].from, events'[t][i].to}
    BY <1>2 DEF ChangesOf
  <2>3. \A i \in 0..n : i = n \/ i \in 0..(n - 1)
    BY <1>2
  <2>4. 0..(n - 1) \subseteq 0..n /\ n \in 0..n /\ n \notin 0..(n - 1)
    BY <1>2
  <2>5. \A i \in 0..(n - 1) : i = 0 \/ i \in 1..(n - 1)
    BY <1>2
  <2>. QED  BY <1>2, <1>3, <2>1, <2>2, <2>3, <2>4, <2>5
<1>5. \A o \in Obs : o # t => ChangesOf(o)' = ChangesOf(o)
  BY <1>0, ChangesOfStay
<1>6. \A c : c \in Changes(m)' <=>
         \E o \in Obs : /\ row'[o] # NoRow
                        /\ MarketOf[row'[o].series] = m
                        /\ \E i \in ChangesOf(o)' : c = <<o, i>>
  BY DEF Changes, Stored
<1>7. \A c : c \in Changes(m) <=>
         \E o \in Obs : /\ row[o] # NoRow
                        /\ MarketOf[row[o].series] = m
                        /\ \E i \in ChangesOf(o) : c = <<o, i>>
  BY ChangesAre DEF Stored
<1>8. \A c : c \in Pending(p, m) <=>
         c = <<t, n>> /\ MarketOf[row[t].series] = m /\ "ACCEPTED" \in {from, to}
  <2>1. \A o \in Obs : Touches(p, o, m) <=>
           o = t /\ MarketOf[row[t].series] = m /\ "ACCEPTED" \in {from, to}
    BY <1>0, <1>b DEF Touches
  <2>2. n = IF row[t] = NoRow THEN 0 ELSE Len(events[t]) + 1
    BY <1>0, <1>b
  <2>. QED  BY <2>1, <2>2, PendingIs
<1>. DEFINE after == Changes(m)'
<1>9. \A c : c \in after <=> c \in Changes(m) \/ c \in Pending(p, m)
  <2>. SUFFICES ASSUME NEW c PROVE c \in after <=> c \in Changes(m) \/ c \in Pending(p, m)
    OBVIOUS
  <2>1. ASSUME c \in after PROVE c \in Changes(m) \/ c \in Pending(p, m)
    <3>1. PICK o \in Obs : /\ row'[o] # NoRow
                           /\ MarketOf[row'[o].series] = m
                           /\ \E i \in ChangesOf(o)' : c = <<o, i>>
      BY <1>6, <2>1
    <3>2. CASE o # t
      BY <1>0, <1>5, <1>7, <3>1, <3>2
    <3>3. CASE o = t
      BY <1>0, <1>4, <1>7, <1>8, <3>1, <3>3
    <3>. QED  BY <3>2, <3>3
  <2>2. ASSUME c \in Changes(m) PROVE c \in after
    <3>1. PICK o \in Obs : /\ row[o] # NoRow
                           /\ MarketOf[row[o].series] = m
                           /\ \E i \in ChangesOf(o) : c = <<o, i>>
      BY <1>7, <2>2
    <3>2. CASE o # t
      BY <1>0, <1>5, <1>6, <3>1, <3>2
    <3>3. CASE o = t
      BY <1>0, <1>4, <1>6, <3>1, <3>3
    <3>. QED  BY <3>2, <3>3
  <2>3. ASSUME c \in Pending(p, m) PROVE c \in after
    BY <1>0, <1>4, <1>6, <1>8, <2>3
  <2>. QED  BY <2>1, <2>2, <2>3
<1>. HIDE DEF after
<1>10. after = Changes(m) \union Pending(p, m)
  BY <1>9
<1>. QED  BY <1>10 DEF after

\* The watermark of each market is advanced by as many as its changes are.
LEMMA CommitCounts ==
  ASSUME CountInvariant, NEW p \in Proc, NEW m \in Markets, Commit(p)
  PROVE  IsFiniteSet(Changes(m)') /\ version'[m] = Cardinality(Changes(m)')
<1>0. /\ AuditInvariant /\ LedgerInvariant /\ Counted(p, m)
      /\ IsFiniteSet(Changes(m)) /\ version[m] = Cardinality(Changes(m))
  BY DEF CountInvariant, AuditInvariant, PendingIsCounted, Counted, WatermarkCountsChanges
<1>1. /\ pc[p] = "commit" /\ work[p] \in StoreWork \union MoveWork
      /\ version'[m] = IF draftVersion[p][m] = 0 THEN version[m] ELSE draftVersion[p][m]
  BY <1>0 DEF Commit, LedgerInvariant, StepFitsWork, Fits
<1>2. Changes(m)' = Changes(m) \union Pending(p, m)
  BY <1>0, <1>1, BatchCommitCounts, MoveCommitCounts
<1>3. Due(p, m) = 0
  BY <1>1 DEF Due
<1>4. /\ Bump(p, m) \in Nat /\ version[m] \in Nat /\ draftVersion[p][m] \in Nat
  BY <1>0, BumpType
<1>5. IsFiniteSet(Pending(p, m)) /\ Cardinality(Pending(p, m)) = Bump(p, m)
  BY <1>0, <1>3, <1>4 DEF Counted
<1>6. version'[m] = version[m] + Bump(p, m)
  BY <1>1, <1>4 DEF Bump
<1>. DEFINE made == Changes(m)
            pending == Pending(p, m)
            both == made \union pending
<1>7. made \intersect pending = {}
  BY <1>0, PendingIsNew
<1>. HIDE DEF made, pending
<1>8. IsFiniteSet(made) /\ IsFiniteSet(pending)
  BY <1>0, <1>5 DEF made, pending
<1>9. IsFiniteSet(both) /\ Cardinality(both) = Cardinality(made) + Cardinality(pending)
  <2>1. /\ IsFiniteSet(both)
        /\ Cardinality(both) = Cardinality(made) + Cardinality(pending)
                               - Cardinality(made \intersect pending)
    BY <1>8, FS_Union
  <2>2. Cardinality(made) \in Nat /\ Cardinality(pending) \in Nat
    BY <1>8, FS_CardinalityType
  <2>3. Cardinality(made \intersect pending) = 0
    BY <1>7, FS_EmptySet
  <2>. HIDE DEF both
  <2>. QED  BY <2>1, <2>2, <2>3
<1>. QED  BY <1>0, <1>2, <1>5, <1>6, <1>9 DEF made, pending

LEMMA CountStays == CountInvariant /\ [Next]_vars => CountInvariant'
<1>. SUFFICES ASSUME CountInvariant, [Next]_vars PROVE CountInvariant'
  OBVIOUS
<1>1. AuditInvariant /\ LedgerInvariant /\ DraftsInTurn
  BY DEF CountInvariant, AuditInvariant
<1>2. AuditInvariant' /\ DraftsInTurn' /\ PendingIsCounted'
  BY <1>1, AuditInductive, TurnsStay, PendingCountedStays
<1>3. ASSUME NEW m \in Markets
      PROVE  IsFiniteSet(Changes(m)') /\ version'[m] = Cardinality(Changes(m)')
  <2>1. CASE \E p \in Proc : Commit(p)
    BY <1>3, <2>1, CommitCounts
  <2>2. CASE ~ \E p \in Proc : Commit(p)
    <3>1. UNCHANGED <<row, events, version>>
      BY <1>1, <2>2, OnlyCommitWrites
    <3>2. Changes(m)' = Changes(m)
      BY <3>1 DEF Changes, ChangesOf, Stored, BirthState
    <3>. QED  BY <1>3, <3>1, <3>2 DEF CountInvariant, WatermarkCountsChanges
  <2>. QED  BY <2>1, <2>2
<1>. QED  BY <1>2, <1>3 DEF CountInvariant, WatermarkCountsChanges

\* The watermark of a market counts, exactly, how often an observation of it
\* became accepted or stopped being so, whatever transactions run beside each
\* other and whichever fail (advance_observation_watermark).
THEOREM WatermarksCount == Spec => []WatermarkCountsChanges
<1>1. Init => CountInvariant
  <2>. SUFFICES ASSUME Init PROVE CountInvariant
    OBVIOUS
  <2>1. AuditInvariant
    BY AuditInit
  <2>2. DraftsInTurn
    BY StoreKind DEF Init, DraftsInTurn, NoWork
  <2>3. \A p \in Proc, m \in Markets : Pending(p, m) = {} /\ Bump(p, m) = 0 /\ Due(p, m) = 0
    BY DEF Init, Pending, Touches, NothingDrafted, Bump, NoBump, Due
  <2>4. \A m \in Markets : Changes(m) = {} /\ version[m] = 0
    BY DEF Init, Changes, Stored
  <2>. QED
    BY <2>1, <2>2, <2>3, <2>4, FS_EmptySet
       DEF CountInvariant, PendingIsCounted, WatermarkCountsChanges
<1>2. CountInvariant => WatermarkCountsChanges
  BY DEF CountInvariant
<1>. QED  BY <1>1, <1>2, CountStays, PTL DEF Spec

================================================================================
