-------------------------------- MODULE ProviderProofs --------------------------------
(***************************************************************************)
(* What is proved of the calls to providers.  ProviderGovernance: for any   *)
(* callers, periods and limits, no window is charged beyond its allowance,  *)
(* and an open circuit stands on failures.  NominatimThrottle: for any      *)
(* threads, processes, interval and lifetime of the lock, requests keep     *)
(* their distance.                                                          *)
(***************************************************************************)
EXTENDS ProviderGovernance, NominatimThrottle, FiniteSetTheorems, TLAPS

--------------------------------------------------------------------------------
(* The quota *)

\* The invariant holds initially: nothing is charged, nobody runs.
LEMMA QuotaInit == Init => GovernanceInvariant
<1>. SUFFICES ASSUME Init PROVE GovernanceInvariant
  OBVIOUS
<1>1. TypeOK
  BY GovernanceAssumption DEF Init, TypeOK, Windows
<1>2. ReadsAreCurrent
  BY DEF Init, ReadsAreCurrent
<1>3. UsageWithinLimits
  BY GovernanceAssumption DEF Init, UsageWithinLimits, Windows
<1>. QED  BY <1>1, <1>2, <1>3 DEF GovernanceInvariant

\* A time on the clock lies in a window that is counted.
LEMMA WindowCounted ==
  ASSUME NEW period \in Periods, NEW t \in Windows
  PROVE  Window(period, t) \in Windows
<1>1. Length[period] \in Nat \ {0} /\ t \in Nat /\ MaxTime \in Nat
  BY GovernanceAssumption DEF Windows
<1>2. t \div Length[period] \in Nat /\ t \div Length[period] <= t
  BY <1>1
<1>. QED  BY <1>1, <1>2 DEF Window, Windows

\* Every step keeps the types.
LEMMA QuotaTypes ==
  ASSUME TypeOK, [Next]_vars
  PROVE  TypeOK'
<1>. USE DEF TypeOK
<1>1. ASSUME NEW p \in Proc, CheckCircuit(p) PROVE TypeOK'
  BY <1>1 DEF CheckCircuit, governed, Goto
<1>2. ASSUME NEW p \in Proc, LockForReserve(p) PROVE TypeOK'
  BY <1>2 DEF LockForReserve, LockSource, Goto
<1>3. ASSUME NEW p \in Proc, ReadUsage(p) PROVE TypeOK'
  <2>1. [period \in Periods |-> Counter(period, p)] \in [Periods -> Nat]
    BY WindowCounted DEF Counter
  <2>. QED  BY <1>3, <2>1 DEF ReadUsage, Goto
<1>4. ASSUME NEW p \in Proc, WriteUsage(p) PROVE TypeOK'
  <2>1. usage' \in [Periods -> [Windows -> Nat]]
    <3>1. ASSUME NEW period \in Periods PROVE Charged(p, period) \in [Windows -> Nat]
      <4>1. usage[period] \in [Windows -> Nat] /\ seen[p][period] \in Nat
        OBVIOUS
      <4>2. Charged(p, period) =
              [w \in Windows |-> IF w = Window(period, at[p])
                                 THEN seen[p][period] + 1 ELSE usage[period][w]]
        BY <4>1 DEF Charged
      <4>. HIDE DEF TypeOK
      <4>. QED  BY <4>1, <4>2
    <3>2. usage' = [period \in Periods |-> Charged(p, period)]
      BY <1>4 DEF WriteUsage
    <3>. QED  BY <3>1, <3>2
  <2>. QED  BY <1>4, <2>1 DEF WriteUsage, Goto
<1>5. ASSUME NEW p \in Proc, CallReturns(p) PROVE TypeOK'
  BY <1>5 DEF CallReturns, governed, Goto
<1>6. ASSUME NEW p \in Proc, RecordOutcome(p) PROVE TypeOK'
  <2>1. blockedUntil' \in Nat
    BY <1>6, GovernanceAssumption DEF RecordOutcome, Block, Windows
  <2>2. failures' \in Nat
    BY <1>6 DEF RecordOutcome
  <2>. QED  BY <1>6, <2>1, <2>2 DEF RecordOutcome, Goto
<1>7. ASSUME NEW p \in Proc, Abandon(p) PROVE TypeOK'
  BY <1>7 DEF Abandon, Goto
<1>8. CASE SwitchSource
  BY <1>8 DEF SwitchSource
<1>9. CASE Tick
  BY <1>9, GovernanceAssumption DEF Tick, governed, Windows
<1>10. CASE UNCHANGED vars
  BY <1>10 DEF vars, governed
<1>. QED
  BY <1>1, <1>2, <1>3, <1>4, <1>5, <1>6, <1>7, <1>8, <1>9, <1>10 DEF Next

\* Every step keeps what the transactions under the lock rely on.
LEMMA QuotaReads ==
  ASSUME GovernanceInvariant, [Next]_vars
  PROVE  ReadsAreCurrent'
<1>. USE DEF GovernanceInvariant, TypeOK
<1>1. ASSUME NEW p \in Proc, CheckCircuit(p) PROVE ReadsAreCurrent'
  BY <1>1 DEF CheckCircuit, governed, Goto, ReadsAreCurrent, Counter
<1>2. ASSUME NEW p \in Proc, LockForReserve(p) PROVE ReadsAreCurrent'
  BY <1>2, GovernanceAssumption
     DEF LockForReserve, LockSource, Goto, ReadsAreCurrent, Counter
<1>3. ASSUME NEW p \in Proc, ReadUsage(p) PROVE ReadsAreCurrent'
  <2>1. \A q \in Proc : q # p => pc[q] \notin {"read", "write"}
    BY <1>3 DEF ReadUsage, ReadsAreCurrent
  <2>2. \A q \in Proc : q # p => pc'[q] = pc[q]
    BY <1>3 DEF ReadUsage, Goto
  <2>3. CASE Allowed(p)
    <3>1. pc'[p] = "write" /\ holder' = p
      BY <1>3, <2>3 DEF ReadUsage, Goto, ReadsAreCurrent
    <3>2. \A period \in Periods : /\ seen'[p][period] = Counter(period, p)
                                  /\ Counter(period, p) < Limit[period]
      BY <1>3, <2>3 DEF ReadUsage, Allowed
    <3>3. \A period \in Periods : Counter(period, p)' = Counter(period, p)
      BY <1>3 DEF ReadUsage, Counter
    <3>. QED  BY <2>1, <2>2, <3>1, <3>2, <3>3 DEF ReadsAreCurrent
  <2>4. CASE ~Allowed(p)
    <3>1. pc'[p] = "idle"
      BY <1>3, <2>4 DEF ReadUsage, Goto
    <3>. QED  BY <2>1, <2>2, <3>1 DEF ReadsAreCurrent
  <2>. QED  BY <2>3, <2>4
<1>4. ASSUME NEW p \in Proc, WriteUsage(p) PROVE ReadsAreCurrent'
  <2>1. \A q \in Proc : q # p => pc[q] \notin {"read", "write"}
    BY <1>4 DEF WriteUsage, ReadsAreCurrent
  <2>2. \A q \in Proc : pc'[q] \notin {"read", "write"}
    BY <1>4, <2>1 DEF WriteUsage, Goto
  <2>. QED  BY <2>2 DEF ReadsAreCurrent
<1>5. ASSUME NEW p \in Proc, CallReturns(p) PROVE ReadsAreCurrent'
  BY <1>5 DEF CallReturns, governed, Goto, ReadsAreCurrent, Counter
<1>6. ASSUME NEW p \in Proc, RecordOutcome(p) PROVE ReadsAreCurrent'
  BY <1>6 DEF RecordOutcome, Goto, ReadsAreCurrent, Counter
<1>7. ASSUME NEW p \in Proc, Abandon(p) PROVE ReadsAreCurrent'
  BY <1>7 DEF Abandon, Goto, ReadsAreCurrent, Counter
<1>8. CASE SwitchSource
  BY <1>8 DEF SwitchSource, ReadsAreCurrent, Counter
<1>9. CASE Tick
  BY <1>9 DEF Tick, governed, ReadsAreCurrent, Counter
<1>10. CASE UNCHANGED vars
  BY <1>10 DEF vars, governed, ReadsAreCurrent, Counter
<1>. QED
  BY <1>1, <1>2, <1>3, <1>4, <1>5, <1>6, <1>7, <1>8, <1>9, <1>10 DEF Next

\* Only a commit that found room under the lock adds to a counter.
LEMMA QuotaKept ==
  ASSUME GovernanceInvariant, [Next]_vars
  PROVE  UsageWithinLimits'
<1>1. ASSUME NEW p \in Proc, WriteUsage(p) PROVE UsageWithinLimits'
  <2>. SUFFICES ASSUME NEW period \in Periods, NEW w \in Windows
                PROVE  usage'[period][w] <= Limit[period]
    BY DEF UsageWithinLimits
  <2>1. usage'[period][w] = IF w = Window(period, at[p]) THEN seen[p][period] + 1
                                                         ELSE usage[period][w]
    BY <1>1 DEF WriteUsage, Charged, GovernanceInvariant, TypeOK
  <2>2. /\ seen[p][period] < Limit[period]
        /\ seen[p][period] \in Nat /\ Limit[period] \in Nat
    BY <1>1, GovernanceAssumption
       DEF WriteUsage, GovernanceInvariant, TypeOK, ReadsAreCurrent
  <2>3. usage[period][w] <= Limit[period]
    BY DEF GovernanceInvariant, UsageWithinLimits
  <2>. QED  BY <2>1, <2>2, <2>3
<1>2. CASE UNCHANGED usage
  BY <1>2 DEF GovernanceInvariant, UsageWithinLimits
<1>. QED
  BY <1>1, <1>2 DEF Next, vars, governed, CheckCircuit, LockForReserve, ReadUsage,
     CallReturns, RecordOutcome, Abandon, SwitchSource, Tick

\* No window of any period is charged beyond its allowance, for any number of
\* callers, interleaved or dying anywhere (reserve_request).
THEOREM QuotaHolds == Spec => []UsageWithinLimits
<1>1. GovernanceInvariant /\ [Next]_vars => GovernanceInvariant'
  BY QuotaTypes, QuotaReads, QuotaKept DEF GovernanceInvariant
<1>2. GovernanceInvariant => UsageWithinLimits
  BY DEF GovernanceInvariant
<1>. QED  BY QuotaInit, <1>1, <1>2, PTL DEF Spec

--------------------------------------------------------------------------------
\* The fact that OpenMeansFailing is about is an invariant by itself: only
\* RecordOutcome moves the count or the block, and it moves them together.
LEMMA CircuitInductive ==
  ASSUME GovernanceInvariant, OpenMeansFailing, [Next]_vars
  PROVE  OpenMeansFailing'
<1>. USE DEF OpenMeansFailing
<1>1. /\ failures \in Nat /\ blockedUntil \in Nat /\ Threshold \in Nat
  BY GovernanceAssumption DEF GovernanceInvariant, TypeOK
<1>2. ASSUME NEW p \in Proc, RecordOutcome(p) PROVE OpenMeansFailing'
  <2>1. CASE ~failed[p]
    \* A success closes the circuit.
    BY <1>2, <2>1 DEF RecordOutcome, Block
  <2>2. CASE failed[p] /\ failures' >= Threshold
    BY <2>2
  <2>3. CASE failed[p] /\ ~(failures' >= Threshold)
    \* One failure more is still below the threshold: the circuit was closed.
    <3>1. failures' = failures + 1 /\ blockedUntil' = blockedUntil
      BY <1>2, <2>3 DEF RecordOutcome, Block
    <3>2. ~(failures >= Threshold)
      BY <1>1, <2>3, <3>1
    <3>. QED  BY <1>1, <3>1, <3>2
  <2>. QED  BY <2>1, <2>2, <2>3
<1>3. CASE UNCHANGED <<failures, blockedUntil>>
  BY <1>3
<1>. QED
  BY <1>2, <1>3 DEF Next, vars, governed, CheckCircuit, LockForReserve, ReadUsage,
     WriteUsage, CallReturns, Abandon, SwitchSource, Tick

\* The circuit is open only on a run of failures that reached the threshold,
\* however the outcomes of concurrent callers are ordered (record_outcome).
THEOREM CircuitTellsFailures == Spec => []OpenMeansFailing
<1>1. Init => OpenMeansFailing
  BY GovernanceAssumption DEF Init, OpenMeansFailing
<1>2. GovernanceInvariant /\ [Next]_vars => GovernanceInvariant'
  BY QuotaTypes, QuotaReads, QuotaKept DEF GovernanceInvariant
<1>. QED  BY QuotaInit, CircuitInductive, <1>1, <1>2, PTL DEF Spec

--------------------------------------------------------------------------------
\* A charge is a window and a number in it.
LEMMA ChargeIs ==
    TypeOK =>
    \A q \in Periods : \A c :
       c \in Charges(q) <=>
          \E w \in Windows, n \in Nat : c = <<w, n>> /\ 1 <= n /\ n <= usage[q][w]
<1> SUFFICES ASSUME TypeOK, NEW period \in Periods, NEW c
             PROVE  c \in Charges(period) <=>
                       \E w \in Windows, n \in Nat : /\ c = <<w, n>> /\ 1 <= n
                                                    /\ n <= usage[period][w]
  OBVIOUS
<1>1. \A w \in Windows : usage[period][w] \in Nat
  BY DEF TypeOK
<1>2. c \in Charges(period) <=>
         \E w \in Windows : \E n \in 1..usage[period][w] : c = <<w, n>>
  BY DEF Charges
<1> QED BY <1>1, <1>2

\* Every call let through is charged in every period, and counted once.
ChargesCounted ==
    \A period \in Periods : /\ IsFiniteSet(Charges(period))
                            /\ Cardinality(Charges(period)) = granted

\* Only WriteUsage charges and lets a call through, a new charge in each period.
LEMMA ChargesInductive ==
    ASSUME GovernanceInvariant, TypeOK', ChargesCounted, [Next]_vars
    PROVE  ChargesCounted'
<1>1. ASSUME NEW p \in Proc, WriteUsage(p) PROVE ChargesCounted'
  <2> SUFFICES ASSUME NEW period \in Periods
               PROVE  /\ IsFiniteSet(Charges(period)')
                      /\ Cardinality(Charges(period)') = granted'
    BY DEF ChargesCounted
  <2> DEFINE w0 == Window(period, at[p])
             charge == <<w0, usage[period][w0] + 1>>
  <2>1. w0 \in Windows /\ usage[period][w0] \in Nat /\ granted \in Nat
    BY WindowCounted DEF GovernanceInvariant, TypeOK
  <2>2. seen[p][period] = usage[period][w0]
    BY <1>1 DEF GovernanceInvariant, ReadsAreCurrent, WriteUsage, Counter
  <2>3. \A w \in Windows : usage'[period][w] = IF w = w0 THEN usage[period][w0] + 1
                                               ELSE usage[period][w]
    BY <1>1, <2>2 DEF WriteUsage, Charged, GovernanceInvariant, TypeOK
  <2>4. \A c : c \in Charges(period) <=>
           \E w \in Windows, n \in Nat : c = <<w, n>> /\ 1 <= n /\ n <= usage[period][w]
    BY ChargeIs DEF GovernanceInvariant
  <2>5. \A c : c \in Charges(period)' <=>
           \E w \in Windows, n \in Nat : c = <<w, n>> /\ 1 <= n /\ n <= usage'[period][w]
    <3>1. (\A q \in Periods : \A c :
              c \in Charges(q) <=>
                 \E w \in Windows, n \in Nat : c = <<w, n>> /\ 1 <= n /\ n <= usage[q][w])'
      BY ChargeIs, PTL
    <3> QED BY <3>1
  <2> HIDE DEF w0
  <2>6. charge \notin Charges(period)
    BY <2>1, <2>4
  <2>7. \A w \in Windows : usage[period][w] \in Nat
    BY DEF GovernanceInvariant, TypeOK
  <2>8. \A c : c \in Charges(period)' <=> c \in Charges(period) \/ c = charge
    BY <2>1, <2>3, <2>4, <2>5, <2>7
  <2>9. Charges(period)' = Charges(period) \union {charge}
    BY <2>8
  <2>10. IsFiniteSet(Charges(period)) /\ Cardinality(Charges(period)) = granted
    BY DEF ChargesCounted
  <2>11. granted' = granted + 1
    BY <1>1 DEF WriteUsage
  <2> QED BY <2>6, <2>9, <2>10, <2>11, FS_AddElement
<1>2. CASE UNCHANGED <<usage, granted>>
  BY <1>2 DEF ChargesCounted, Charges
<1> QED
  BY <1>1, <1>2 DEF Next, vars, governed, CheckCircuit, LockForReserve, ReadUsage,
     CallReturns, RecordOutcome, Abandon, SwitchSource, Tick

\* However callers interleave, fail or die, each period has been charged exactly
\* once for every call that was let through (reserve_request before the request).
THEOREM CallsAreCharged == Spec => []EveryCallIsCharged
<1>1. Init => ChargesCounted
  <2> SUFFICES ASSUME Init PROVE ChargesCounted
    OBVIOUS
  <2>1. \A period \in Periods : Charges(period) = {}
    BY GovernanceAssumption DEF Init, Charges, Windows
  <2> QED BY <2>1, FS_EmptySet DEF Init, ChargesCounted
<1>2. GovernanceInvariant /\ [Next]_vars => GovernanceInvariant'
  BY QuotaTypes, QuotaReads, QuotaKept DEF GovernanceInvariant
<1>3. GovernanceInvariant' => TypeOK'
  BY DEF GovernanceInvariant
<1>4. ChargesCounted => EveryCallIsCharged
  BY DEF ChargesCounted, EveryCallIsCharged
<1> QED BY QuotaInit, ChargesInductive, <1>1, <1>2, <1>3, <1>4, PTL DEF Spec

--------------------------------------------------------------------------------
(* The spacing of geocoding requests *)

\* Nobody is on its way at first, and every interval has passed.
LEMMA ThrottleInitially == ASSUME ThrottleInit PROVE ThrottleInvariant
<1>1. ThrottleTypeOK
  <2>1. Interval \in 0..Interval /\ 0 \in 0..Interval /\ 0 \in 0..WaitSeconds
        /\ 0 \in 0..LockSeconds
    BY ThrottleAssumption
  <2>. QED  BY <2>1 DEF ThrottleInit, ThrottleTypeOK
<1>2. MutexIsKept /\ SleepCoversProcess /\ LockIsKept /\ SleepCoversAll
  BY DEF ThrottleInit, MutexIsKept, SleepCoversProcess, LockIsKept, SleepCoversAll, Busy
<1>3. StampIsLatest
  BY ThrottleAssumption DEF ThrottleInit, StampIsLatest
<1>. QED  BY <1>1, <1>2, <1>3 DEF ThrottleInvariant

\* Every step keeps the types.
LEMMA ThrottleTypes ==
  ASSUME ThrottleTypeOK, [ThrottleNext]_throttleVars
  PROVE  ThrottleTypeOK'
<1>. USE ThrottleAssumption DEF ThrottleTypeOK
<1>1. ASSUME NEW p \in Caller, Enter(p) PROVE ThrottleTypeOK'
  BY <1>1 DEF Enter, TakeMutex, MoveTo
<1>2. ASSUME NEW p \in Caller, AcquireLock(p) PROVE ThrottleTypeOK'
  BY <1>2 DEF AcquireLock, MoveTo
<1>3. ASSUME NEW p \in Caller, GoOnWithoutLock(p) PROVE ThrottleTypeOK'
  BY <1>3 DEF GoOnWithoutLock, MoveTo
<1>4. ASSUME NEW p \in Caller, WaitForSlot(p) PROVE ThrottleTypeOK'
  <2>1. Interval - local[ProcessOf[p]] \in 0..Interval /\ Interval - shared \in 0..Interval
    OBVIOUS
  <2>2. sleep' \in [Caller -> 0..Interval]
    BY <1>4, <2>1 DEF WaitForSlot, Most
  <2>3. UNCHANGED <<mutex, owner, ttl, holds, patience, local, shared>>
        /\ thread' = [thread EXCEPT ![p] = "sleep"] /\ disturbed' \in BOOLEAN
    BY <1>4 DEF WaitForSlot, MoveTo
  <2>. QED  BY <2>2, <2>3
<1>5. ASSUME NEW p \in Caller, Send(p) PROVE ThrottleTypeOK'
  BY <1>5 DEF Send, MoveTo
<1>6. ASSUME NEW p \in Caller, Succeed(p) PROVE ThrottleTypeOK'
  <2>1. 0 \in 0..Interval
    OBVIOUS
  <2>2. local' \in [Process -> 0..Interval]
    BY <1>6, <2>1 DEF Succeed
  <2>3. shared' \in 0..Interval /\ disturbed' \in BOOLEAN
    BY <1>6, <2>1 DEF Succeed, StampShared
  <2>. QED  BY <1>6, <2>2, <2>3 DEF Succeed, MoveTo
<1>7. ASSUME NEW p \in Caller, Fail(p) PROVE ThrottleTypeOK'
  BY <1>7 DEF Fail, MoveTo
<1>8. ASSUME NEW p \in Caller, CheckLock(p) PROVE ThrottleTypeOK'
  BY <1>8 DEF CheckLock, LeaveMutex, MoveTo
<1>9. ASSUME NEW p \in Caller, DeleteLock(p) PROVE ThrottleTypeOK'
  BY <1>9 DEF DeleteLock, LeaveMutex, MoveTo
<1>10. CASE ThrottleTick
  BY <1>10 DEF ThrottleTick, Most, Least
<1>11. CASE UNCHANGED throttleVars
  BY <1>11 DEF throttleVars
<1>. QED
  BY <1>1, <1>2, <1>3, <1>4, <1>5, <1>6, <1>7, <1>8, <1>9, <1>10, <1>11 DEF ThrottleNext

\* Every step keeps what the mutex of a process protects.
LEMMA ProcessPart ==
  ASSUME ThrottleInvariant, [ThrottleNext]_throttleVars
  PROVE  MutexIsKept' /\ SleepCoversProcess'
<1>. USE ThrottleAssumption DEF ThrottleInvariant, ThrottleTypeOK, MutexIsKept, SleepCoversProcess
<1>1. ASSUME NEW p \in Caller, Enter(p) PROVE MutexIsKept' /\ SleepCoversProcess'
  BY <1>1 DEF Enter, TakeMutex, MoveTo
<1>2. ASSUME NEW p \in Caller, AcquireLock(p) PROVE MutexIsKept' /\ SleepCoversProcess'
  BY <1>2 DEF AcquireLock, MoveTo
<1>3. ASSUME NEW p \in Caller, GoOnWithoutLock(p) PROVE MutexIsKept' /\ SleepCoversProcess'
  BY <1>3 DEF GoOnWithoutLock, MoveTo
<1>4. ASSUME NEW p \in Caller, WaitForSlot(p) PROVE MutexIsKept' /\ SleepCoversProcess'
  \* The sleep is at least the process's own wait.
  <2>1. sleep'[p] >= Interval - local[ProcessOf[p]]
    BY <1>4 DEF WaitForSlot, Most
  <2>2. \A q \in Caller \ {p} : sleep'[q] = sleep[q] /\ thread'[q] = thread[q]
    BY <1>4 DEF WaitForSlot, MoveTo
  <2>3. thread[p] # "idle" /\ UNCHANGED <<mutex, local>>
    BY <1>4 DEF WaitForSlot
  <2>4. sleep' \in [Caller -> 0..Interval]
    BY <1>4, ThrottleTypes DEF ThrottleNext
  <2>5. MutexIsKept'
    BY <2>2, <2>3
  <2>6. SleepCoversProcess'
    BY <2>1, <2>2, <2>3, <2>4
  <2>. QED  BY <2>5, <2>6
<1>5. ASSUME NEW p \in Caller, Send(p) PROVE MutexIsKept' /\ SleepCoversProcess'
  BY <1>5 DEF Send, MoveTo
<1>6. ASSUME NEW p \in Caller, Succeed(p) PROVE MutexIsKept' /\ SleepCoversProcess'
  \* Nobody else of the process sleeps: it would have the mutex.
  <2>1. \A q \in Caller \ {p} : thread[q] # "idle" => ProcessOf[q] # ProcessOf[p]
    BY <1>6 DEF Succeed
  <2>. QED  BY <1>6, <2>1 DEF Succeed, MoveTo
<1>7. ASSUME NEW p \in Caller, Fail(p) PROVE MutexIsKept' /\ SleepCoversProcess'
  BY <1>7 DEF Fail, MoveTo
<1>8. ASSUME NEW p \in Caller, CheckLock(p) PROVE MutexIsKept' /\ SleepCoversProcess'
  BY <1>8 DEF CheckLock, LeaveMutex, MoveTo
<1>9. ASSUME NEW p \in Caller, DeleteLock(p) PROVE MutexIsKept' /\ SleepCoversProcess'
  BY <1>9 DEF DeleteLock, LeaveMutex, MoveTo
<1>10. CASE ThrottleTick
  BY <1>10 DEF ThrottleTick, Most, Least
<1>11. CASE UNCHANGED throttleVars
  BY <1>11 DEF throttleVars
<1>. QED
  BY <1>1, <1>2, <1>3, <1>4, <1>5, <1>6, <1>7, <1>8, <1>9, <1>10, <1>11 DEF ThrottleNext

\* Every step keeps what the shared lock protects, or is a disturbance.
LEMMA SharedPart ==
  ASSUME ThrottleInvariant, [ThrottleNext]_throttleVars
  PROVE  LockIsKept' /\ StampIsLatest' /\ SleepCoversAll'
<1>. DEFINE Goal == LockIsKept' /\ StampIsLatest' /\ SleepCoversAll'
<1>. USE ThrottleAssumption DEF ThrottleInvariant, ThrottleTypeOK, LockIsKept, StampIsLatest,
             SleepCoversAll, Busy
<1>1. ASSUME NEW p \in Caller, Enter(p) PROVE Goal
  BY <1>1 DEF Enter, MoveTo
<1>2. ASSUME NEW p \in Caller, AcquireLock(p) PROVE Goal
  \* The lock was free, so nobody relied on it.
  <2>1. ~disturbed => \A q \in Caller : ~Busy(q)
    BY <1>2 DEF AcquireLock
  <2>2. owner' = p /\ ttl' > 0 /\ thread'[p] = "wait" /\ UNCHANGED <<disturbed, shared, local, sleep>>
    BY <1>2 DEF AcquireLock, MoveTo
  <2>3. \A q \in Caller \ {p} : thread'[q] = thread[q]
    BY <1>2 DEF AcquireLock, MoveTo
  <2>. QED  BY <2>1, <2>2, <2>3
<1>3. ASSUME NEW p \in Caller, GoOnWithoutLock(p) PROVE Goal
  BY <1>3 DEF GoOnWithoutLock
<1>4. ASSUME NEW p \in Caller, WaitForSlot(p) PROVE Goal
  <2>1. CASE disturbed'
    BY <2>1
  <2>2. CASE ~disturbed'
    <3>1. sleep'[p] >= Interval - shared /\ ~disturbed
      BY <1>4, <2>2 DEF WaitForSlot, Most
    <3>2. \A q \in Caller \ {p} : sleep'[q] = sleep[q] /\ thread'[q] = thread[q]
      BY <1>4 DEF WaitForSlot, MoveTo
    <3>3. thread[p] = "wait" /\ UNCHANGED <<owner, ttl, shared, local>>
      BY <1>4 DEF WaitForSlot
    <3>4. sleep' \in [Caller -> 0..Interval]
      BY <1>4, ThrottleTypes DEF ThrottleNext
    <3>5. LockIsKept' /\ StampIsLatest'
      BY <3>1, <3>2, <3>3
    <3>6. SleepCoversAll'
      BY <3>1, <3>2, <3>3, <3>4
    <3>. QED  BY <3>5, <3>6
  <2>. QED  BY <2>1, <2>2
<1>5. ASSUME NEW p \in Caller, Send(p) PROVE Goal
  BY <1>5 DEF Send, MoveTo
<1>6. ASSUME NEW p \in Caller, Succeed(p) PROVE Goal
  \* The caller owns the lock: nobody else is on its way.
  <2>1. ~disturbed => \A q \in Caller \ {p} : ~Busy(q)
    BY <1>6 DEF Succeed
  <2>. QED  BY <1>6, <2>1 DEF Succeed, StampShared, MoveTo
<1>7. ASSUME NEW p \in Caller, Fail(p) PROVE Goal
  BY <1>7 DEF Fail, MoveTo
<1>8. ASSUME NEW p \in Caller, CheckLock(p) PROVE Goal
  BY <1>8 DEF CheckLock, MoveTo
<1>9. ASSUME NEW p \in Caller, DeleteLock(p) PROVE Goal
  \* A lock of another caller that is deleted is a disturbance; one's own is
  \* not relied on any more.
  <2>1. ~disturbed' => ~disturbed /\ owner \in {p, Nobody}
    BY <1>9 DEF DeleteLock
  <2>2. ~disturbed' => \A q \in Caller : ~Busy(q)
    BY <1>9, <2>1 DEF DeleteLock
  <2>. QED  BY <1>9, <2>1, <2>2 DEF DeleteLock, MoveTo
<1>10. CASE ThrottleTick
  <2>1. ~disturbed' => ~disturbed /\ \A q \in Caller : owner = q /\ ttl' = 0 => ~Busy(q)
    BY <1>10 DEF ThrottleTick
  <2>2. LockIsKept'
    BY <1>10, <2>1 DEF ThrottleTick, Most
  <2>3. StampIsLatest' /\ SleepCoversAll'
    BY <1>10, <2>1 DEF ThrottleTick, Most, Least
  <2>. QED  BY <2>2, <2>3
<1>11. CASE UNCHANGED throttleVars
  BY <1>11 DEF throttleVars
<1>. QED
  BY <1>1, <1>2, <1>3, <1>4, <1>5, <1>6, <1>7, <1>8, <1>9, <1>10, <1>11 DEF ThrottleNext

LEMMA ThrottleInductive ==
  ASSUME ThrottleInvariant, [ThrottleNext]_throttleVars
  PROVE  ThrottleInvariant'
BY ThrottleTypes, ProcessPart, SharedPart DEF ThrottleInvariant

--------------------------------------------------------------------------------
\* The threads of a process never send a request within the interval of the
\* process's last answer, whatever happens to the shared lock or the cache
\* (_nominatim_request under _nominatim_lock).  A request that fails leaves no
\* stamp and delays nobody.
THEOREM ProcessIsSpaced == ThrottleSpec => ProcessSpacesItself
<1>1. ASSUME ThrottleInvariant, [ThrottleNext]_throttleVars
      PROVE  [\A p \in Caller : Send(p) => local[ProcessOf[p]] = Interval]_throttleVars
  <2>1. ASSUME NEW p \in Caller, Send(p) PROVE local[ProcessOf[p]] = Interval
    BY <1>1, <2>1, ThrottleAssumption DEF ThrottleInvariant, ThrottleTypeOK, SleepCoversProcess, Send
  <2>. QED  BY <2>1
<1>. QED
  BY ThrottleInitially, ThrottleInductive, <1>1, PTL DEF ThrottleSpec, ProcessSpacesItself

\* Undisturbed, no process sends a request within the interval of an answer to
\* any of them (_acquire_nominatim_lock, _wait_for_nominatim_slot).  Here, too, a
\* request that fails delays nobody.
THEOREM ProcessesAreSpaced == ThrottleSpec => LockSpacesProcesses
<1>1. ASSUME ThrottleInvariant, [ThrottleNext]_throttleVars
      PROVE  [\A p \in Caller : Send(p) /\ ~disturbed
                  => \A w \in Process : local[w] = Interval]_throttleVars
  <2>1. ASSUME NEW p \in Caller, Send(p), ~disturbed, NEW w \in Process
        PROVE  local[w] = Interval
    <3>1. shared >= Interval /\ shared <= local[w]
      BY <1>1, <2>1, ThrottleAssumption DEF ThrottleInvariant, ThrottleTypeOK, SleepCoversAll, StampIsLatest, Send
    <3>. QED
      BY <1>1, <3>1, ThrottleAssumption DEF ThrottleInvariant, ThrottleTypeOK
  <2>. QED  BY <2>1
<1>. QED
  BY ThrottleInitially, ThrottleInductive, <1>1, PTL DEF ThrottleSpec, LockSpacesProcesses

================================================================================
