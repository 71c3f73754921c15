--------------------------- MODULE NominatimThrottle ---------------------------
(***************************************************************************)
(* Geocoding requests to the public Nominatim service (_nominatim_request   *)
(* in map_client.py).  The threads of a worker process share a mutex and    *)
(* the time of the process's last request; the processes share a lock with  *)
(* a lifetime and a timestamp in the cache.                                 *)
(*                                                                          *)
(* A caller is a thread whose query the geocode cache does not hold.  Times *)
(* are counted in ticks: what is left of a lock, a deadline or a sleep, and *)
(* what has passed since a request, up to Interval.  A cache that is out of *)
(* reach answers None (or raises, which the code treats alike).             *)
(***************************************************************************)
EXTENDS Integers

CONSTANTS
    Caller, Process, ProcessOf,
    Interval,     \* NOMINATIM_INTERVAL_SECONDS
    LockSeconds,  \* NOMINATIM_LOCK_SECONDS
    WaitSeconds,  \* EXTERNAL_API_TIMEOUT_SECONDS, the deadline of the lock
    Nobody

ASSUME ThrottleAssumption ==
    /\ ProcessOf \in [Caller -> Process]
    /\ Interval \in Nat /\ WaitSeconds \in Nat
    /\ LockSeconds \in Nat \ {0}
    /\ Nobody \notin Caller

VARIABLES
    thread,      \* where a caller is
    mutex,       \* _nominatim_lock of each process
    owner, ttl,  \* fuelup:nominatim:lock, its token's caller, its seconds left
    holds,       \* a caller has a token, not None
    patience,    \* what is left of a caller's wait for the lock
    sleep,       \* what is left of its sleep
    local,       \* ticks since _last_nominatim_request of each process
    shared,      \* ticks since fuelup:nominatim:last-request
    disturbed    \* a caller went on without the lock, or lost it or a stamp

throttleVars == <<thread, mutex, owner, ttl, holds, patience, sleep, local, shared,
                  disturbed>>

MoveTo(p, step) == thread' = [thread EXCEPT ![p] = step]

Busy(p) == thread[p] \in {"wait", "sleep", "request"}

Most(a, b) == IF a >= b THEN a ELSE b
Least(a, b) == IF a <= b THEN a ELSE b

--------------------------------------------------------------------------------
ThrottleInit ==
    /\ thread = [p \in Caller |-> "idle"]
    /\ mutex = [w \in Process |-> Nobody]
    /\ owner = Nobody /\ ttl = 0
    /\ holds = [p \in Caller |-> FALSE]
    /\ patience = [p \in Caller |-> 0]
    /\ sleep = [p \in Caller |-> 0]
    /\ local = [w \in Process |-> Interval]
    /\ shared = Interval
    /\ disturbed = FALSE

\* Mutant: threads of a process are not kept apart.
NoMutex(p) == UNCHANGED mutex

TakeMutex(p) ==
    /\ mutex[ProcessOf[p]] = Nobody
    /\ mutex' = [mutex EXCEPT ![ProcessOf[p]] = p]

\* with _nominatim_lock: the caller starts to poll for the shared lock.
Enter(p) ==
    /\ thread[p] = "idle"
    /\ TakeMutex(p)
    /\ patience' = [patience EXCEPT ![p] = WaitSeconds]
    /\ MoveTo(p, "acquire")
    /\ UNCHANGED <<owner, ttl, holds, sleep, local, shared, disturbed>>

\* cache.add succeeds within the deadline.
AcquireLock(p) ==
    /\ thread[p] = "acquire"
    /\ patience[p] > 0
    /\ ttl = 0
    /\ owner' = p /\ ttl' = LockSeconds
    /\ holds' = [holds EXCEPT ![p] = TRUE]
    /\ MoveTo(p, "wait")
    /\ UNCHANGED <<mutex, patience, sleep, local, shared, disturbed>>

\* The deadline has passed or the cache is out of reach: the caller goes on
\* without the lock.
GoOnWithoutLock(p) ==
    /\ thread[p] = "acquire"
    /\ disturbed' = TRUE
    /\ MoveTo(p, "wait")
    /\ UNCHANGED <<mutex, owner, ttl, holds, patience, sleep, local, shared>>

\* _wait_for_nominatim_slot: the longer of both waits, or the local one when
\* the shared timestamp cannot be read.
WaitForSlot(p) ==
    /\ thread[p] = "wait"
    /\ LET localWait == Interval - local[ProcessOf[p]]
       IN  \/ /\ sleep' = [sleep EXCEPT ![p] = Most(localWait, Interval - shared)]
              /\ UNCHANGED disturbed
           \/ /\ sleep' = [sleep EXCEPT ![p] = localWait]
              /\ disturbed' = TRUE
    /\ MoveTo(p, "sleep")
    /\ UNCHANGED <<mutex, owner, ttl, holds, patience, local, shared>>

Send(p) ==
    /\ thread[p] = "sleep"
    /\ sleep[p] = 0
    /\ MoveTo(p, "request")
    /\ UNCHANGED <<mutex, owner, ttl, holds, patience, sleep, local, shared,
                   disturbed>>

\* Mutant: the shared timestamp is not written.
StampLocally == UNCHANGED <<shared, disturbed>>

\* cache.set of the shared timestamp, which may not reach the cache.
StampShared == \/ shared' = 0 /\ UNCHANGED disturbed
               \/ disturbed' = TRUE /\ UNCHANGED shared

\* The response arrives: its time is noted by the process and in the cache.
Succeed(p) ==
    /\ thread[p] = "request"
    /\ local' = [local EXCEPT ![ProcessOf[p]] = 0]
    /\ StampShared
    /\ MoveTo(p, "release")
    /\ UNCHANGED <<mutex, owner, ttl, holds, patience, sleep>>

\* The request fails or times out: no time is noted.
Fail(p) ==
    /\ thread[p] = "request"
    /\ MoveTo(p, "release")
    /\ UNCHANGED <<mutex, owner, ttl, holds, patience, sleep, local, shared,
                    disturbed>>

LeaveMutex(p) == mutex' = [w \in Process |-> IF mutex[w] = p THEN Nobody
                                             ELSE mutex[w]]

\* finally: a lock whose token is still the caller's is deleted, in a second
\* call; another's, a lapsed one, or one out of reach is left alone.
CheckLock(p) ==
    /\ thread[p] = "release"
    /\ \/ holds[p] /\ owner = p /\ ttl > 0 /\ MoveTo(p, "delete") /\ UNCHANGED mutex
       \/ MoveTo(p, "idle") /\ LeaveMutex(p)
    /\ holds' = [holds EXCEPT ![p] = FALSE]
    /\ UNCHANGED <<owner, ttl, patience, sleep, local, shared, disturbed>>

DeleteLock(p) ==
    /\ thread[p] = "delete"
    /\ owner' = Nobody /\ ttl' = 0
    /\ disturbed' = (disturbed \/ owner \notin {p, Nobody})
    /\ MoveTo(p, "idle")
    /\ LeaveMutex(p)
    /\ UNCHANGED <<holds, patience, sleep, local, shared>>

\* A tick passes.  A lock may lapse under a caller that still relies on it.
ThrottleTick ==
    /\ ttl' = Most(0, ttl - 1)
    /\ owner' = IF ttl' = 0 THEN Nobody ELSE owner
    /\ disturbed' = (disturbed \/ \E p \in Caller : owner = p /\ ttl' = 0 /\ Busy(p))
    /\ patience' = [p \in Caller |-> Most(0, patience[p] - 1)]
    /\ sleep' = [p \in Caller |-> Most(0, sleep[p] - 1)]
    /\ local' = [w \in Process |-> Least(Interval, local[w] + 1)]
    /\ shared' = Least(Interval, shared + 1)
    /\ UNCHANGED <<thread, mutex, holds>>

ThrottleNext ==
    \/ \E p \in Caller :
          \/ Enter(p) \/ AcquireLock(p) \/ GoOnWithoutLock(p)
          \/ WaitForSlot(p) \/ Send(p) \/ Succeed(p) \/ Fail(p)
          \/ CheckLock(p) \/ DeleteLock(p)
    \/ ThrottleTick

ThrottleSpec == ThrottleInit /\ [][ThrottleNext]_throttleVars

--------------------------------------------------------------------------------
(* Properties *)

ThrottleTypeOK ==
    /\ thread \in [Caller -> {"idle", "acquire", "wait", "sleep", "request",
                          "release", "delete"}]
    /\ mutex \in [Process -> Caller \union {Nobody}]
    /\ owner \in Caller \union {Nobody} /\ ttl \in 0..LockSeconds
    /\ holds \in [Caller -> BOOLEAN]
    /\ patience \in [Caller -> 0..WaitSeconds]
    /\ sleep \in [Caller -> 0..Interval]
    /\ local \in [Process -> 0..Interval]
    /\ shared \in 0..Interval
    /\ disturbed \in BOOLEAN

\* The threads of one process never send a request within Interval of the
\* process's last answer, with or without the shared lock and timestamp.
ProcessSpacesItself ==
    [][\A p \in Caller : Send(p) => local[ProcessOf[p]] = Interval]_throttleVars

\* As long as every caller had the shared lock until it gave it up and every
\* timestamp was read and written, no process sends a request within Interval
\* of an answer to any process.
LockSpacesProcesses ==
    [][\A p \in Caller : Send(p) /\ ~disturbed
          => \A w \in Process : local[w] = Interval]_throttleVars

--------------------------------------------------------------------------------
(* The inductive invariant behind both, in named parts.                       *)

\* A caller on its way has the mutex of its process.
MutexIsKept == \A p \in Caller : thread[p] # "idle" => mutex[ProcessOf[p]] = p

\* What is left of a sleep is enough for the process's own interval.
SleepCoversProcess ==
    \A p \in Caller : thread[p] = "sleep" => sleep[p] + local[ProcessOf[p]] >= Interval

\* Undisturbed, only the owner of the shared lock is between its wait and its
\* request, the shared timestamp is the latest of all, and a sleep covers it.
LockIsKept == ~disturbed => \A p \in Caller : Busy(p) => owner = p /\ ttl > 0

StampIsLatest == ~disturbed => \A w \in Process : shared <= local[w]

SleepCoversAll ==
    ~disturbed => \A p \in Caller : thread[p] = "sleep" => sleep[p] + shared >= Interval

ThrottleInvariant ==
    /\ ThrottleTypeOK
    /\ MutexIsKept
    /\ SleepCoversProcess
    /\ LockIsKept
    /\ StampIsLatest
    /\ SleepCoversAll

================================================================================
