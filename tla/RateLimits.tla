------------------------------- MODULE RateLimits -------------------------------
(***************************************************************************)
(* The counters that limit clients: RouteRateLimitMiddleware                *)
(* (routes/api/rate_limit.py) and enforce_contribution_rate_limits           *)
(* (routes/application/contribution_rate_limit.py).  A request reads the     *)
(* clock, then charges one counter after another in the shared cache; the    *)
(* name of a counter holds the window of that reading.  Time is in seconds.  *)
(*                                                                           *)
(* The cache (Redis, with exceptions ignored) answers a command or None; a   *)
(* command whose answer is lost may have been carried out.  Nothing bounds    *)
(* the time from the reading to a command: connecting and the socket may each  *)
(* take two seconds, in one dimension after another.                         *)
(***************************************************************************)
EXTENDS Integers, Sequences, FiniteSets

CONSTANTS
    Requests,
    Callers,        \* what identifies a caller: a function of dimensions
    LimitSettings,  \* the configured limits: functions of dimensions
    Window,         \* RATE_LIMIT_WINDOW_SECONDS
    MaxTime         \* bound of the clock

Dimensions == {"client", "network", "device", "contributor", "station"}

ASSUME LimitsAssumption ==
    /\ IsFiniteSet(Requests)
    /\ Callers # {} /\ \A c \in Callers : DOMAIN c = Dimensions
    /\ LimitSettings \subseteq [Dimensions -> Int]
    /\ Window \in Nat \ {0} /\ MaxTime \in Nat

ContributionDimensions == <<"network", "device", "contributor", "station">>

\* The dimensions a request is charged in, in order.
DimensionsOf(kind) ==
    IF kind = "route" THEN <<"client">> ELSE ContributionDimensions

VARIABLES now, limits, counters, requests

limitVars == <<now, limits, counters, requests>>

\* left: the dimensions still to charge.  charged: the counters it added to, and
\* late: the dimensions it did that in when the counter could be gone already.
Fresh == [at |-> "new", kind |-> "route", caller |-> CHOOSE c \in Callers : TRUE,
          read |-> 0, left |-> <<>>, charged |-> {},
          late |-> {}, outcome |-> "none"]

LimitsInit ==
    /\ now = 0
    /\ limits \in LimitSettings
    /\ counters = <<>>
    /\ requests = [r \in Requests |-> Fresh]

Key(r, dimension) ==
    <<dimension, requests[r].caller[dimension], requests[r].read \div Window>>

\* The counter of the dimension a request is at.
KeyAt(r) == Key(r, Head(requests[r].left))

\* When the counter of a window can be gone: a second after the window, for the
\* counter made as the window begins.
Over(key) == (key[3] + 1) * Window + 1

Live(key) == key \in DOMAIN counters /\ now < counters[key].expires

\* Mutant: a counter lasts as long as its window.
WindowOnly == Window

\* timeout=window + 1, from the moment the counter is made.
Lifetime == Window + 1

Stored(key, entry) ==
    [k \in DOMAIN counters \union {key} |-> IF k = key THEN entry ELSE counters[k]]

Added(key) == Stored(key, [count |-> 1, expires |-> now + Lifetime])

Increased(key) == Stored(key, [counters[key] EXCEPT !.count = @ + 1])

Done(request, outcome) == [request EXCEPT !.at = "done", !.outcome = outcome]

\* The route limit lets a request pass it could not count, the contribution
\* limits turn it down.
Uncounted(request) ==
    Done(request, IF request.kind = "route" THEN "unmetered" ELSE "unavailable")

\* After a count: over the limit, on to the next dimension, or through.
Counted(request, count) ==
    IF count > limits[Head(request.left)] THEN Done(request, "rejected")
    ELSE IF Len(request.left) > 1
         THEN [request EXCEPT !.at = "add", !.left = Tail(@)]
         ELSE Done(request, "admitted")

Charging(r) ==
    [requests[r] EXCEPT
        !.charged = @ \union {KeyAt(r)},
        !.late = IF now < Over(KeyAt(r)) THEN @ ELSE @ \union {Head(requests[r].left)}]

\* A limit of zero or less turns the route limit off and contributions away.
Arrive(r, kind, caller) ==
    /\ requests[r].at = "new"
    /\ LET dimensions == DimensionsOf(kind)
           request == [Fresh EXCEPT !.at = "add", !.kind = kind, !.caller = caller,
                                      !.read = now, !.left = dimensions]
           set == \A i \in DOMAIN dimensions : limits[dimensions[i]] > 0
       IN requests' = [requests EXCEPT ![r] = IF set THEN request
                                              ELSE Uncounted(request)]
    /\ UNCHANGED <<now, limits, counters>>

\* cache.add makes the counter, or finds it.
Add(r) ==
    /\ requests[r].at = "add"
    /\ \/ /\ ~Live(KeyAt(r))
          /\ counters' = Added(KeyAt(r))
          /\ requests' = [requests EXCEPT ![r] = Counted(Charging(r), 1)]
       \/ /\ Live(KeyAt(r))
          /\ requests' = [requests EXCEPT ![r].at = "incr"]
          /\ UNCHANGED counters
    /\ UNCHANGED <<now, limits>>

\* Mutant: for contributions, too, no answer means the counter is there.
NoneMeansFound(r, request) == [request EXCEPT !.at = "incr"]

\* add answered None: the route limit takes it for False.
NoAnswer(r, request) ==
    IF request.kind = "route" THEN [request EXCEPT !.at = "incr"]
    ELSE Uncounted(request)

\* The answer of cache.add is lost, with or without the command.
LoseAdd(r) ==
    /\ requests[r].at = "add"
    /\ \/ /\ ~Live(KeyAt(r))
          /\ counters' = Added(KeyAt(r))
          /\ requests' = [requests EXCEPT ![r] = NoAnswer(r, Charging(r))]
       \/ /\ requests' = [requests EXCEPT ![r] = NoAnswer(r, @)]
          /\ UNCHANGED counters
    /\ UNCHANGED <<now, limits>>

\* cache.incr raises on a counter that is not there.
Increase(r) ==
    /\ requests[r].at = "incr"
    /\ \/ /\ Live(KeyAt(r))
          /\ counters' = Increased(KeyAt(r))
          /\ requests' = [requests EXCEPT ![r] =
                             Counted(Charging(r), counters[KeyAt(r)].count + 1)]
       \/ /\ ~Live(KeyAt(r))
          /\ requests' = [requests EXCEPT ![r] = Uncounted(@)]
          /\ UNCHANGED counters
    /\ UNCHANGED <<now, limits>>

LoseIncrease(r) ==
    /\ requests[r].at = "incr"
    /\ \/ /\ Live(KeyAt(r))
          /\ counters' = Increased(KeyAt(r))
          /\ requests' = [requests EXCEPT ![r] = Uncounted(Charging(r))]
       \/ /\ requests' = [requests EXCEPT ![r] = Uncounted(@)]
          /\ UNCHANGED counters
    /\ UNCHANGED <<now, limits>>

\* Expired counters are dropped.
Second ==
    /\ now < MaxTime
    /\ now' = now + 1
    /\ counters' = [k \in {k \in DOMAIN counters : now + 1 < counters[k].expires}
                       |-> counters[k]]
    /\ UNCHANGED <<limits, requests>>

LimitsNext ==
    \/ \E r \in Requests :
          \/ \E kind \in {"route", "contribution"}, caller \in Callers :
                Arrive(r, kind, caller)
          \/ Add(r) \/ LoseAdd(r) \/ Increase(r) \/ LoseIncrease(r)
    \/ Second

LimitsSpec == LimitsInit /\ [][LimitsNext]_limitVars

--------------------------------------------------------------------------------
(* Properties *)

ChargedIn(r) == LET used == DimensionsOf(requests[r].kind)
                IN {used[i] : i \in DOMAIN used}

\* No more requests are admitted on one counter's behalf than its limit, also
\* those counted in the second after the window has ended (timeout=window + 1).
\* Requests counted there later still, which may find the counter gone and begin
\* a new one, are not limited with the others.
WithinLimit ==
    \A r \in Requests, d \in Dimensions :
        LET same == {q \in Requests : /\ requests[q].outcome = "admitted"
                                      /\ d \in ChargedIn(q)
                                      /\ Key(q, d) = Key(r, d)
                                      /\ d \notin requests[q].late}
        IN Cardinality(same) <= limits[d] \/ same = {}

\* A contribution is told that a limit is reached only after as many others as
\* the limit were charged: no answer of the cache is taken for False, which
\* would charge it twice (_increment_or_reject).
RejectionIsEarned ==
    \A r \in Requests :
        requests[r].outcome = "rejected" /\ requests[r].kind = "contribution"
          => LET others == {q \in Requests \ {r} : KeyAt(r) \in requests[q].charged}
             IN Cardinality(others) >= limits[Head(requests[r].left)]

================================================================================
