-------------------------- MODULE ProviderGovernance ---------------------------
(***************************************************************************)
(* One governed provider call (request_json in provider_http.py): the       *)
(* circuit is consulted, the call is charged to the quota of the current    *)
(* windows (reserve_request), the network is used, and the outcome goes to  *)
(* the circuit (record_outcome).  Workers and commands share the counters   *)
(* through PostgreSQL; charging and recording hold the row lock of the      *)
(* source and are transactions of their own.                                *)
(***************************************************************************)
EXTENDS Integers, FiniteSets

CONSTANTS
    Proc,        \* callers: web workers and management commands
    Periods,     \* the counted periods: minute, day, month
    Length,      \* length of a period; windows start at its multiples
    Limit,       \* PROVIDER_*_LIMITS, the day's cut to the registry's budget
    Threshold,   \* PROVIDER_CIRCUIT_FAILURES
    Cooldown,    \* PROVIDER_CIRCUIT_SECONDS
    MaxTime,
    MaxFailures, \* bound on counted failures
    Free

ASSUME GovernanceAssumption ==
    /\ Length \in [Periods -> Nat \ {0}]
    /\ Limit \in [Periods -> Nat]
    /\ Threshold \in Nat \ {0} /\ Cooldown \in Nat /\ MaxTime \in Nat
    /\ MaxFailures \in Nat
    /\ Free \notin Proc

Window(period, t) == t \div Length[period]

VARIABLES
    enabled,      \* SourceRegistry.can_fetch
    holder,       \* holder of the source's row lock
    usage,        \* ProviderUsage.requests of each period's windows
    failures,     \* ProviderHealth.consecutive_failures
    blockedUntil, \* ProviderHealth.blocked_until; 0 for none
    now, pc,
    at,           \* the time a caller took on entering the transaction
    seen,         \* the counters a caller read under the lock
    failed,       \* its call's outcome
    granted       \* calls let through so far

governed == <<enabled, holder, usage, failures, blockedUntil>>
vars == <<governed, now, pc, at, seen, failed, granted>>

Windows == 0..MaxTime

Goto(p, step) == pc' = [pc EXCEPT ![p] = step]

Counter(period, p) == usage[period][Window(period, at[p])]

--------------------------------------------------------------------------------
Init ==
    /\ enabled = TRUE /\ holder = Free
    /\ usage = [period \in Periods |-> [w \in Windows |-> 0]]
    /\ failures = 0 /\ blockedUntil = 0 /\ now = 0
    /\ pc = [p \in Proc |-> "idle"]
    /\ at = [p \in Proc |-> 0]
    /\ seen = [p \in Proc |-> [period \in Periods |-> 0]]
    /\ failed = [p \in Proc |-> FALSE]
    /\ granted = 0

\* check_circuit, unlocked; then reserve_request takes its time.
CheckCircuit(p) ==
    /\ pc[p] = "idle"
    /\ blockedUntil <= now
    /\ at' = [at EXCEPT ![p] = now]
    /\ Goto(p, "reserve")
    /\ UNCHANGED <<governed, now, seen, failed, granted>>

\* Mutant: get() without select_for_update.
SourceNotLocked(p) == UNCHANGED holder

LockSource(p) ==
    /\ holder = Free
    /\ holder' = p

\* A disabled source ends the transaction at once.
LockForReserve(p) ==
    /\ pc[p] = "reserve"
    /\ IF enabled THEN LockSource(p) /\ Goto(p, "read")
       ELSE holder = Free /\ Goto(p, "idle") /\ UNCHANGED holder
    /\ UNCHANGED <<enabled, usage, failures, blockedUntil, now, at, seen,
                   failed, granted>>

\* Mutant: an allowance is spent when it is exceeded, not when it is reached.
WithinOneMore(p) == \A period \in Periods : Counter(period, p) <= Limit[period]

\* Every window has room (a limit of zero is a quota not configured).
Allowed(p) == \A period \in Periods : Counter(period, p) < Limit[period]

\* The counters of the windows of "at" are read; nothing is written if one of
\* them is exhausted.
ReadUsage(p) ==
    /\ pc[p] = "read"
    /\ IF Allowed(p)
       THEN /\ seen' = [seen EXCEPT ![p] =
                           [period \in Periods |-> Counter(period, p)]]
            /\ Goto(p, "write")
            /\ UNCHANGED holder
       ELSE /\ Goto(p, "idle")
            /\ holder' = Free
            /\ UNCHANGED seen
    /\ UNCHANGED <<enabled, usage, failures, blockedUntil, now, at, failed, granted>>

Charged(p, period) ==
    [usage[period] EXCEPT ![Window(period, at[p])] = seen[p][period] + 1]

\* Each counter is saved as what was read plus one; the commit frees the lock
\* and lets the call through.
WriteUsage(p) ==
    /\ pc[p] = "write"
    /\ usage' = [period \in Periods |-> Charged(p, period)]
    /\ holder' = Free
    /\ granted' = granted + 1
    /\ Goto(p, "call")
    /\ UNCHANGED <<enabled, failures, blockedUntil, now, at, seen, failed>>

\* The call goes out: the response, an HTTP error, a timeout or an unreadable
\* body.
CallReturns(p) ==
    /\ pc[p] = "call"
    /\ \E error \in BOOLEAN : failed' = [failed EXCEPT ![p] = error]
    /\ at' = [at EXCEPT ![p] = now]
    /\ Goto(p, "outcome")
    /\ UNCHANGED <<governed, now, seen, granted>>

\* The worker dies (perhaps between the commit and the call), or an error
\* request_json does not catch (HTTPException of http.client) leaves the outcome
\* unrecorded.  Locks are released.
Abandon(p) ==
    /\ pc[p] # "idle"
    /\ holder' = IF holder = p THEN Free ELSE holder
    /\ Goto(p, "idle")
    /\ UNCHANGED <<enabled, usage, failures, blockedUntil, now, at, seen,
                   failed, granted>>

\* Mutant: a success resets the count but leaves the circuit open.
SuccessKeepsBlock(p) ==
    IF failed[p] THEN blockedUntil' = IF failures' >= Threshold
                                      THEN at[p] + Cooldown ELSE blockedUntil
    ELSE UNCHANGED blockedUntil

\* blocked_until, from the new count.
Block(p) ==
    IF failed[p] THEN blockedUntil' = IF failures' >= Threshold
                                      THEN at[p] + Cooldown ELSE blockedUntil
    ELSE blockedUntil' = 0

\* record_outcome: one transaction under the source's lock.
RecordOutcome(p) ==
    /\ pc[p] = "outcome"
    /\ holder = Free
    /\ failures < MaxFailures
    /\ failures' = IF failed[p] THEN failures + 1 ELSE 0
    /\ Block(p)
    /\ Goto(p, "idle")
    /\ UNCHANGED <<enabled, holder, usage, now, at, seen, failed, granted>>

\* An operator's UPDATE of the registry row.
SwitchSource ==
    /\ holder = Free
    /\ enabled' = ~enabled
    /\ UNCHANGED <<holder, usage, failures, blockedUntil, now, pc, at, seen,
                   failed, granted>>

Tick ==
    /\ now < MaxTime
    /\ now' = now + 1
    /\ UNCHANGED <<governed, pc, at, seen, failed, granted>>

Next == \/ \E p \in Proc : \/ CheckCircuit(p) \/ LockForReserve(p)
                           \/ ReadUsage(p) \/ WriteUsage(p) \/ CallReturns(p)
                           \/ RecordOutcome(p) \/ Abandon(p)
        \/ SwitchSource \/ Tick

Spec == Init /\ [][Next]_vars

--------------------------------------------------------------------------------
(* Properties *)

TypeOK ==
    /\ enabled \in BOOLEAN
    /\ holder \in Proc \union {Free}
    /\ usage \in [Periods -> [Windows -> Nat]]
    /\ failures \in Nat /\ blockedUntil \in Nat /\ now \in Windows
    /\ pc \in [Proc -> {"idle", "reserve", "read", "write", "call", "outcome"}]
    /\ at \in [Proc -> Windows]
    /\ seen \in [Proc -> [Periods -> Nat]]
    /\ failed \in [Proc -> BOOLEAN]
    /\ granted \in Nat

\* No window is charged beyond its allowance, whoever charges it and however
\* the callers interleave (reserve_request).
UsageWithinLimits ==
    \A period \in Periods, w \in Windows : usage[period][w] <= Limit[period]

\* The charges of a period's windows, numbered in each.
Charges(period) == UNION {{w} \X (1..usage[period][w]) : w \in Windows}

\* "Every attempted network request consumes a minute, UTC calendar-day, and
\* UTC calendar-month counter before I/O": each period has as many charges as
\* calls were let through, failed and abandoned ones and those whose caller died
\* before it made them included; no charge is lost to a concurrent one, refunded,
\* or left in one period and not in another.
EveryCallIsCharged == \A period \in Periods : Cardinality(Charges(period)) = granted

\* An open circuit stands on a run of failures that reached the threshold: a
\* success closes it, and no interleaving leaves it open on fewer.
OpenMeansFailing == blockedUntil > 0 => failures >= Threshold

--------------------------------------------------------------------------------
(* The inductive invariant behind UsageWithinLimits.                          *)

\* A transaction between its lock and its commit holds the lock, and what it
\* read is still what the counters say, with room in every window.
ReadsAreCurrent ==
    \A p \in Proc :
        /\ pc[p] \in {"read", "write"} => holder = p
        /\ pc[p] = "write" => \A period \in Periods :
              /\ seen[p][period] = Counter(period, p)
              /\ seen[p][period] < Limit[period]

GovernanceInvariant == TypeOK /\ ReadsAreCurrent /\ UsageWithinLimits

================================================================================
