-------------------------------- MODULE WebProofs --------------------------------
(***************************************************************************)
(* Proofs about the planning page and its proxy, for any number of trips and *)
(* any timeouts the platform's limit leaves room for; and about the backend's *)
(* rate limits, for any requests, callers, limits and window.                *)
(***************************************************************************)
EXTENDS TripPage, RateLimits, FiniteSetTheorems, TLAPS

LEMMA Timeouts ==
  {FirstTimeout, RetryTimeout, PollTime, Deadline, MaxDuration, MaxAge} \subseteq Nat
  BY ProxyAssumption

LEMMA ProxyStarts == OnTime(Idle) /\ OnTime(Asking(Idle))
<1>. USE ProxyAssumption DEF OnTime
<1>1. Idle \in Invocation
  BY DEF Idle, Invocation
<1>2. OnTime(Idle)
  BY <1>1, Timeouts DEF Idle
<1>3. Asking(Idle) = [at |-> "asking", age |-> 0, due |-> FirstTimeout, tries |-> 1,
                      last |-> FALSE, answer |-> "none"]
  <2>1. 0 + 1 = 1 /\ 0 + FirstTimeout = FirstTimeout
    BY Timeouts
  <2>2. Idle.age = 0 /\ Idle.tries = 0
    BY DEF Idle
  <2>3. Asking(Idle) = [Idle EXCEPT !.at = "asking", !.tries = 1, !.due = FirstTimeout]
    BY <2>1, <2>2, Zenon DEF Asking
  <2>. QED  BY <2>3 DEF Idle
<1>4. Asking(Idle) \in Invocation
  BY <1>3, Timeouts DEF Invocation
<1>5. FirstTimeout < MaxDuration /\ 0 < MaxDuration
  BY Timeouts
<1>. QED  BY <1>2, <1>3, <1>4, <1>5, Timeouts

\* Each await of an invocation ends in time for the next.
LEMMA ProxyMoves ==
  ASSUME NEW p \in Invocation, OnTime(p)
  PROVE  /\ p.at = "asking" => OnTime(Caught(p))
         /\ p.at = "asking" /\ p.tries = 1 /\ ~p.last => OnTime(Waiting(p))
         /\ p.at = "asking" => \A answer \in {"plan", "refused", "unavailable", "crash"} :
                                  OnTime(Answering(p, answer))
         /\ p.at = "waiting" => OnTime(IF TooLate(p) THEN Caught(p)
                                       ELSE [p EXCEPT !.at = "polling",
                                                      !.due = p.age + PollTime])
         /\ p.at = "polling" => OnTime(Asking(p)) /\ OnTime(Waiting(p))
         /\ p.at \in {"asking", "polling"} /\ p.age < p.due /\ p.age < MaxAge
               => OnTime([p EXCEPT !.age = @ + 1])
<1>. USE ProxyAssumption DEF Invocation, OnTime
<1>0. /\ {FirstTimeout, RetryTimeout, PollTime, Deadline, MaxDuration, MaxAge} \subseteq Nat
      /\ p.age \in 0..MaxAge /\ p.due \in Nat /\ p.tries \in 0..3
  BY Timeouts
<1>2. ASSUME p.at = "asking" PROVE OnTime(Caught(p))
  BY <1>2 DEF Caught, IsLast, Unavailable, Answering, Waiting
<1>3. ASSUME p.at = "asking", p.tries = 1, ~p.last PROVE OnTime(Waiting(p))
  BY <1>3 DEF Waiting
<1>4. ASSUME p.at = "asking", NEW answer \in {"plan", "refused", "unavailable", "crash"}
      PROVE  OnTime(Answering(p, answer))
  BY <1>4 DEF Answering
<1>5. ASSUME p.at = "waiting", TooLate(p) PROVE OnTime(Caught(p))
  BY <1>5 DEF Caught, IsLast, Unavailable, Answering, Waiting
<1>6. ASSUME p.at = "waiting", ~TooLate(p)
      PROVE  OnTime([p EXCEPT !.at = "polling", !.due = p.age + PollTime])
  <2>. DEFINE q == [p EXCEPT !.at = "polling", !.due = p.age + PollTime]
  <2>1. q \in Invocation
    <3>. DEFINE d == p.age + PollTime
    <3>1. d \in Nat
      BY <1>0
    <3>. HIDE DEF d
    <3>2. [p EXCEPT !.at = "polling", !.due = d] \in Invocation
      BY <3>1
    <3>. QED  BY <3>2 DEF d
  <2>2. /\ q.at = "polling" /\ q.age = p.age /\ q.due = p.age + PollTime
        /\ q.tries = p.tries /\ q.last = p.last
    BY DEF Invocation
  <2>3. p.age < Deadline
    BY <1>0, <1>6 DEF TooLate
  <2>4. q.age <= q.due /\ q.due < Deadline + PollTime
    BY <1>0, <2>2, <2>3
  <2>. QED  BY <1>6, <2>1, <2>2, <2>4
<1>7. ASSUME p.at = "polling" PROVE OnTime(Asking(p))
  <2>. DEFINE q == Asking(p)
  <2>1. p.tries \in 1..2 /\ p.age < Deadline + PollTime
    BY <1>0, <1>7
  <2>2. /\ q.at = "asking" /\ q.age = p.age /\ q.tries = p.tries + 1 /\ q.last = p.last
        /\ q.due = p.age + MaxOf(RetryTimeout, Deadline - p.age)
    BY <2>1 DEF Asking
  <2>3. q.due \in Nat /\ q.age <= q.due /\ q.due < MaxDuration
    BY <1>0, <2>1, <2>2 DEF MaxOf
  <2>4. q.tries \in 1..3 /\ (~q.last => q.tries <= 2)
    BY <1>7, <2>1, <2>2
  <2>5. q \in Invocation
    <3>. DEFINE n == p.tries + 1
                d == p.age + IF p.tries = 0 THEN FirstTimeout
                             ELSE MaxOf(RetryTimeout, Deadline - p.age)
    <3>1. n \in 0..3 /\ d \in Nat
      BY <2>1, <2>2, <2>3, <2>4
    <3>2. q = [p EXCEPT !.at = "asking", !.tries = n, !.due = d]
      BY DEF Asking
    <3>. HIDE DEF n, d, q
    <3>. QED  BY <3>1, <3>2
  <2>. QED  BY <2>2, <2>3, <2>4, <2>5
<1>8. ASSUME p.at = "polling" PROVE OnTime(Waiting(p))
  BY <1>8 DEF Waiting
<1>9. ASSUME p.at \in {"asking", "polling"}, p.age < p.due, p.age < MaxAge
      PROVE  OnTime([p EXCEPT !.age = @ + 1])
  <2>. DEFINE q == [p EXCEPT !.age = @ + 1]
  <2>1. /\ q.at = p.at /\ q.age = p.age + 1 /\ q.due = p.due
        /\ q.tries = p.tries /\ q.last = p.last
    BY DEF Invocation
  <2>2. q \in Invocation
    BY <1>0, <1>9
  <2>3. q.age <= q.due
    BY <1>0, <1>9, <2>1
  <2>4. q.age < MaxDuration
    BY <1>0, <1>9, <2>1, <2>3
  <2>. QED  BY <1>9, <2>1, <2>2, <2>3, <2>4
<1>. QED  BY <1>2, <1>3, <1>4, <1>5, <1>6, <1>7, <1>8, <1>9

LEMMA ProxyInductive ==
  ASSUME ProxyInvariant, [Next]_vars
  PROVE  ProxyInvariant'
<1>0. proxy \in [Trips -> Invocation] /\ \A i \in Trips : OnTime(proxy[i])
  BY DEF ProxyInvariant
<1>a. ASSUME NEW i \in Trips, NEW p, OnTime(p), proxy' = [proxy EXCEPT ![i] = p]
      PROVE  ProxyInvariant'
  BY <1>0, <1>a DEF ProxyInvariant, OnTime
<1>1. ASSUME NEW i \in Trips, ProxyStep(i) PROVE ProxyInvariant'
  <2>1. CASE PassOn(i)
    BY <1>0, <1>a, <2>1, ProxyMoves DEF PassOn
  <2>2. CASE LoseReply(i)
    BY <1>0, <1>a, <2>2, ProxyMoves DEF LoseReply
  <2>3. CASE Wait(i)
    BY <1>0, <1>a, <2>3, ProxyMoves DEF Wait
  <2>4. CASE Poll(i)
    BY <1>0, <1>a, <2>4, ProxyMoves DEF Poll
  <2>. QED  BY <1>1, <2>1, <2>2, <2>3, <2>4 DEF ProxyStep
<1>2. ASSUME NEW i \in Trips, Tick(i) PROVE ProxyInvariant'
  BY <1>0, <1>a, <1>2, ProxyMoves DEF Tick
<1>3. CASE Submit
  BY <1>0, <1>a, <1>3, ProxyStarts DEF Submit, StartProxy
<1>4. CASE UNCHANGED proxy
  BY <1>4 DEF ProxyInvariant
<1>. QED
  BY <1>1, <1>2, <1>3, <1>4 DEF Next, Cancel, Receive, LoseCall, Settle, vars

\* Every invocation answers before the platform ends it, after three requests
\* at the most (requestRoute, waitForBackend, coldStartDeadlineMs).
THEOREM ProxyAnswersInTime == Spec => []AnsweredInTime
<1>1. Init => ProxyInvariant
  <2>1. OnTime(Idle)
    BY ProxyStarts
  <2>. QED  BY <2>1 DEF Init, ProxyInit, ProxyInvariant, OnTime
<1>2. ProxyInvariant => AnsweredInTime
  BY DEF ProxyInvariant, OnTime, AnsweredInTime
<1>. QED  BY <1>1, <1>2, ProxyInductive, PTL DEF Spec

--------------------------------------------------------------------------------
LEMMA PageInductive ==
  ASSUME PageInvariant, [Next]_vars
  PROVE  PageInvariant'
<1>. USE DEF PageInvariant, PageTypes, CallsAreNumbered, PageFollowsLastTrip
<1>0. Trips \subseteq Nat
  BY ProxyAssumption
<1>a. Aborted \in [Trips -> {"none", "sent", "resolved", "rejected", "settled"}]
  BY DEF Aborted
<1>b. \A i \in Trips : Aborted[i] = "none" <=> call[i] = "none"
  BY DEF Aborted
<1>1. CASE Submit
  <2>. DEFINE v == requestVersion + 1
  <2>1. /\ v \in Trips /\ v \in Nat /\ requestVersion' = v /\ isLoading' = TRUE
        /\ shown' = Empty /\ call' = [Aborted EXCEPT ![v] = "sent"]
    BY <1>1 DEF Submit
  <2>2. call'[v] = "sent"
    BY <1>a, <2>1
  <2>3. PageTypes'
    BY <1>a, <2>1
  <2>4. CallsAreNumbered'
    BY <1>0, <1>a, <1>b, <2>1
  <2>5. PageFollowsLastTrip'
    BY <2>1, <2>2 DEF Empty
  <2>. QED  BY <2>3, <2>4, <2>5
<1>2. CASE Cancel
  <2>1. /\ requestVersion' = requestVersion + 1 /\ isLoading' = FALSE /\ isLoading
        /\ shown' = shown /\ call' = Aborted
    BY <1>2 DEF Cancel, NextVersion
  <2>2. PageTypes'
    <3>1. requestVersion + 1 \in Nat
      OBVIOUS
    <3>. QED  BY <1>a, <2>1, <3>1
  <2>3. CallsAreNumbered'
    BY <1>0, <1>b, <2>1
  <2>4. PageFollowsLastTrip'
    <3>1. shown' = Empty
      BY <2>1
    <3>2. requestVersion' \in Trips => call'[requestVersion'] = "none"
      BY <1>b, <2>1
    <3>. QED  BY <2>1, <3>1, <3>2 DEF Empty
  <2>. QED  BY <2>2, <2>3, <2>4
<1>3. ASSUME NEW i \in Trips, Receive(i) PROVE PageInvariant'
  BY <1>0, <1>3 DEF Receive
<1>4. ASSUME NEW i \in Trips, LoseCall(i) PROVE PageInvariant'
  BY <1>0, <1>4 DEF LoseCall
<1>5. ASSUME NEW i \in Trips, Settle(i) PROVE PageInvariant'
  BY <1>0, <1>5 DEF Settle, MayShow, EndsLoading, IsCurrent
<1>6. CASE UNCHANGED pageVars
  BY <1>6 DEF pageVars
<1>. QED
  BY <1>1, <1>2, <1>3, <1>4, <1>5, <1>6 DEF Next, vars

\* What the page shows belongs to the trip submitted last, and it says it loads
\* exactly while that trip is open (requestVersion in handlePlan).
THEOREM PageIsCurrent == Spec => []PageFollowsLastTrip
<1>1. Init => PageInvariant
  <2>. SUFFICES ASSUME PageInit PROVE PageInvariant
    BY DEF Init
  <2>1. /\ requestVersion = 0 /\ isLoading = FALSE /\ shown = Empty
        /\ call = [i \in Trips |-> "none"]
    BY DEF PageInit
  <2>2. PageTypes /\ CallsAreNumbered
    BY <2>1 DEF PageTypes, CallsAreNumbered
  <2>3. PageFollowsLastTrip
    BY <2>1, PageAssumption DEF PageFollowsLastTrip, Empty
  <2>. QED  BY <2>2, <2>3 DEF PageInvariant
<1>2. PageInvariant => PageFollowsLastTrip
  BY DEF PageInvariant
<1>. QED  BY <1>1, <1>2, PageInductive, PTL DEF Spec

--------------------------------------------------------------------------------
(* Rate limits: what a state is *)

Subjects == {c[d] : c \in Callers, d \in Dimensions}

Keys == Dimensions \X Subjects \X Nat

Requesting == [at: {"new", "add", "incr", "done"}, kind: {"route", "contribution"},
               caller: Callers, read: Nat, left: Seq(Dimensions),
               charged: SUBSET Keys, late: SUBSET Dimensions,
               outcome: {"none", "admitted", "rejected", "unmetered", "unavailable"}]

LimitTypes ==
    /\ now \in Nat
    /\ limits \in [Dimensions -> Int]
    /\ DOMAIN counters \subseteq Keys
    /\ \A k \in DOMAIN counters : counters[k] \in [count: Nat, expires: Nat]
    /\ requests \in [Requests -> Requesting]

\* What is left to charge while a request is on its way.
LeftOf(kind) ==
    IF kind = "route" THEN {<<"client">>}
    ELSE {<<"network", "device", "contributor", "station">>,
          <<"device", "contributor", "station">>, <<"contributor", "station">>,
          <<"station">>}

OnItsWay(x) == x.at \in {"add", "incr"}

LeftFits == \A r \in Requests :
               /\ OnItsWay(requests[r]) => /\ requests[r].left \in LeftOf(requests[r].kind)
                                           /\ requests[r].outcome = "none"
               /\ requests[r].at = "new" => requests[r].outcome = "none"
               /\ requests[r].outcome = "rejected" =>
                     requests[r].left \in LeftOf(requests[r].kind)

\* The counter of a dimension of a request, and of the one it is at.
KeyOf(x, d) == <<d, x.caller[d], x.read \div Window>>

LEMMA KeysOf == /\ \A r, d : Key(r, d) = KeyOf(requests[r], d)
                /\ \A r : KeyAt(r) = KeyOf(requests[r], Head(requests[r].left))
  BY DEF Key, KeyAt, KeyOf

LEMMA WindowOf ==
    ASSUME NEW read \in Nat
    PROVE  /\ read \div Window \in Nat
           /\ (read \div Window) * Window <= read
           /\ read < ((read \div Window) + 1) * Window
<1>1. read \div Window \in Nat
  BY LimitsAssumption, Z3
<1>2. read >= (read \div Window) * Window
  BY LimitsAssumption, SMTT(30)
<1>3. read < ((read \div Window) + 1) * Window
  BY LimitsAssumption, SMTT(30)
<1> QED BY <1>1, <1>2, <1>3, LimitsAssumption

LEMMA LeftIs ==
    ASSUME NEW kind \in {"route", "contribution"}, NEW left \in LeftOf(kind)
    PROVE  /\ left \in Seq(Dimensions) /\ Tail(left) \in Seq(Dimensions)
           /\ Head(left) \in Dimensions /\ (Head(left) = "client" <=> kind = "route")
           /\ Len(left) > 1 => Tail(left) \in LeftOf(kind)
           /\ Len(left) <= 1 => Tail(left) = <<>>
           /\ \A i \in DOMAIN Tail(left) : Tail(left)[i] # Head(left)
           /\ \A i \in DOMAIN Tail(left) : \E j \in DOMAIN left : Tail(left)[i] = left[j]
           /\ \E j \in DOMAIN left : Head(left) = left[j]
           /\ \A j \in DOMAIN left : left[j] = Head(left)
                                      \/ \E i \in DOMAIN Tail(left) : left[j] = Tail(left)[i]
<1>0. Tail(<<"client">>) = <<>> /\ Tail(<<"station">>) = <<>>
  OBVIOUS
<1>1. CASE kind = "route" /\ left = <<"client">>
  <2>1. /\ Head(left) = "client" /\ Tail(left) = <<>>
        /\ Len(left) = 1 /\ DOMAIN left = 1..1 /\ DOMAIN Tail(left) = 1..0
    BY <1>0, <1>1
  <2> QED BY <1>1, <2>1 DEF Dimensions, LeftOf
<1>2. CASE kind = "contribution" /\ left = <<"network", "device", "contributor", "station">>
  <2>1. /\ Head(left) = "network" /\ Tail(left) = <<"device", "contributor", "station">>
        /\ Len(left) = 4 /\ DOMAIN left = 1..4 /\ DOMAIN Tail(left) = 1..3
    BY <1>0, <1>2
  <2> QED BY <1>2, <2>1 DEF Dimensions, LeftOf
<1>3. CASE kind = "contribution" /\ left = <<"device", "contributor", "station">>
  <2>1. /\ Head(left) = "device" /\ Tail(left) = <<"contributor", "station">>
        /\ Len(left) = 3 /\ DOMAIN left = 1..3 /\ DOMAIN Tail(left) = 1..2
    BY <1>0, <1>3
  <2> QED BY <1>3, <2>1 DEF Dimensions, LeftOf
<1>4. CASE kind = "contribution" /\ left = <<"contributor", "station">>
  <2>1. /\ Head(left) = "contributor" /\ Tail(left) = <<"station">>
        /\ Len(left) = 2 /\ DOMAIN left = 1..2 /\ DOMAIN Tail(left) = 1..1
    BY <1>0, <1>4
  <2> QED BY <1>4, <2>1 DEF Dimensions, LeftOf
<1>5. CASE kind = "contribution" /\ left = <<"station">>
  <2>1. /\ Head(left) = "station" /\ Tail(left) = <<>>
        /\ Len(left) = 1 /\ DOMAIN left = 1..1 /\ DOMAIN Tail(left) = 1..0
    BY <1>0, <1>5
  <2> QED BY <1>5, <2>1 DEF Dimensions, LeftOf
<1> QED BY <1>1, <1>2, <1>3, <1>4, <1>5 DEF LeftOf

--------------------------------------------------------------------------------
(* Rate limits: what a step does to a request *)

DimsOf(kind) == IF kind = "route" THEN {"client"}
                ELSE {"network", "device", "contributor", "station"}

LeftDims(x) == {x.left[i] : i \in DOMAIN x.left}

\* The dimensions a request has passed.
PassedDims(x) ==
    IF x.outcome = "admitted" THEN DimsOf(x.kind)
    ELSE IF OnItsWay(x) THEN DimsOf(x.kind) \ LeftDims(x) ELSE {}

\* Of the requests let through at a counter in time.
Passed(x, key) == key[1] \in PassedDims(x) \ x.late /\ KeyOf(x, key[1]) = key

\* A request x that is at a counter, charged there.
Paid(x) == [x EXCEPT
    !.charged = @ \union {KeyOf(x, Head(x.left))},
    !.late = IF now < Over(KeyOf(x, Head(x.left))) THEN @ ELSE @ \union {Head(x.left)}]

\* What the charge leaves alone, and that a late one is noted.
PaysFor(x, z) ==
    /\ z \in Requesting
    /\ z.at = x.at /\ z.kind = x.kind /\ z.caller = x.caller /\ z.read = x.read
    /\ z.left = x.left /\ z.outcome = x.outcome
    /\ z.charged = x.charged \union {KeyOf(x, Head(x.left))}
    /\ x.late \subseteq z.late
    /\ (now < Over(KeyOf(x, Head(x.left))) \/ Head(x.left) \in z.late)

\* A contribution charges a dimension once, and its own dimensions only.
ChargedFits(x) ==
    /\ \A k \in x.charged : k[1] = "client" <=> x.kind = "route"
    /\ OnItsWay(x) /\ x.kind = "contribution" =>
          \A k \in x.charged : k[1] \notin LeftDims(x)
    /\ x.at = "new" => x.charged = {}

\* What one step may make of a request x that is at the counter "key".
StillOn(x, y) ==
    /\ y.kind = x.kind /\ y.caller = x.caller /\ y.read = x.read /\ y \in Requesting
    /\ OnItsWay(y) => y.left \in LeftOf(y.kind) /\ y.outcome = "none"
    /\ y.at # "new"

LEMMA LeftDimsShrink ==
    ASSUME NEW x \in Requesting, x.left \in LeftOf(x.kind), NEW y \in Requesting,
           y.left = Tail(x.left)
    PROVE  /\ LeftDims(x) = LeftDims(y) \union {Head(x.left)}
           /\ Head(x.left) \notin LeftDims(y)
           /\ Len(x.left) <= 1 => LeftDims(x) = {Head(x.left)}
           /\ Head(x.left) = "client" <=> x.kind = "route"
<1>1. x.kind \in {"route", "contribution"} /\ x.left \in Seq(Dimensions)
  BY DEF Requesting
<1>2. LeftDims(x) = LeftDims(y) \union {Head(x.left)}
  <2>1. Head(x.left) \in LeftDims(x)
    BY <1>1, LeftIs DEF LeftDims
  <2>2. LeftDims(y) \subseteq LeftDims(x)
    BY <1>1, LeftIs DEF LeftDims
  <2>3. LeftDims(x) \subseteq LeftDims(y) \union {Head(x.left)}
    BY <1>1, LeftIs DEF LeftDims
  <2> QED BY <2>1, <2>2, <2>3
<1>3. Head(x.left) \notin LeftDims(y)
  BY <1>1, LeftIs DEF LeftDims
<1>4. Len(x.left) <= 1 => LeftDims(y) = {}
  <2>1. Len(x.left) <= 1 => Tail(x.left) = <<>>
    BY <1>1, LeftIs
  <2> QED BY <2>1 DEF LeftDims
<1>5. Head(x.left) = "client" <=> x.kind = "route"
  BY <1>1, LeftIs
<1> QED BY <1>2, <1>3, <1>4, <1>5

LEMMA PaidPays ==
    ASSUME NEW x \in Requesting, x.left \in LeftOf(x.kind)
    PROVE  PaysFor(x, Paid(x))
<1> DEFINE d == Head(x.left)
           key0 == KeyOf(x, d)
           late0 == IF now < Over(key0) THEN x.late ELSE x.late \union {d}
<1>1. /\ x.kind \in {"route", "contribution"} /\ x.caller \in Callers /\ x.read \in Nat
      /\ x.charged \in SUBSET Keys /\ x.late \in SUBSET Dimensions
  BY DEF Requesting
<1>2. d \in Dimensions
  BY <1>1, LeftIs
<1>3. key0 \in Keys
  <2>1. x.read \div Window \in Nat
    BY <1>1, WindowOf
  <2>2. x.caller[d] \in Subjects
    <3> HIDE DEF d
    <3> QED BY <1>1, <1>2 DEF Subjects
  <2> QED BY <1>2, <2>1, <2>2 DEF KeyOf, Keys
<1>4. Paid(x) = [x EXCEPT !.charged = x.charged \union {key0}, !.late = late0]
  BY DEF Paid
<1>5. late0 \in SUBSET Dimensions /\ x.late \subseteq late0
      /\ (now < Over(key0) \/ d \in late0)
  BY <1>1, <1>2
<1> DEFINE charged0 == x.charged \union {key0}
<1>6. charged0 \in SUBSET Keys
  BY <1>1, <1>3
<1> HIDE DEF d, key0, late0, charged0
<1>7. Paid(x) = [x EXCEPT !.charged = charged0, !.late = late0]
  BY <1>4 DEF charged0
<1>8. /\ Paid(x) \in Requesting
      /\ Paid(x).at = x.at /\ Paid(x).kind = x.kind /\ Paid(x).caller = x.caller
      /\ Paid(x).read = x.read /\ Paid(x).left = x.left /\ Paid(x).outcome = x.outcome
      /\ Paid(x).charged = charged0 /\ Paid(x).late = late0
  BY <1>5, <1>6, <1>7 DEF Requesting
<1> QED BY <1>5, <1>8 DEF PaysFor, charged0, key0, d

\* What a step may make of a request x that is at a counter, if the count is c.
Onward(x, y, c) ==
    /\ StillOn(x, y) /\ ChargedFits(y)
    /\ \A key : Passed(y, key) =>
          Passed(x, key) \/ (key = KeyOf(x, Head(x.left)) /\ c <= limits[key[1]])
    /\ y.outcome = "rejected" => c > limits[Head(x.left)] /\ y.left = x.left

LEMMA CountedDoes ==
    ASSUME LimitTypes, NEW x \in Requesting, OnItsWay(x), x.outcome = "none",
           x.left \in LeftOf(x.kind), NEW c \in Nat, ChargedFits(x),
           NEW z, PaysFor(x, z), NEW y, y = Counted(z, c)
    PROVE  Onward(x, y, c) /\ y.charged = z.charged /\ y.late = z.late
<1> DEFINE d == Head(x.left)
           key0 == KeyOf(x, d)
<1>1. x.kind \in {"route", "contribution"} /\ x.left \in Seq(Dimensions) /\ x.read \in Nat
      /\ x.caller \in Callers
  BY DEF Requesting
<1>2. d \in Dimensions /\ limits[d] \in Int
  BY <1>1, LeftIs DEF LimitTypes
<1>3. key0 \in Keys /\ key0[1] = d
  <2>1. x.read \div Window \in Nat
    BY <1>1, WindowOf
  <2>2. x.caller[d] \in Subjects
    <3>1. d \in Dimensions /\ x.caller \in Callers
      BY <1>1, <1>2
    <3> HIDE DEF d
    <3> QED BY <3>1 DEF Subjects
  <2> QED BY <1>2, <2>1, <2>2 DEF KeyOf, Keys
<1>k. key0 = KeyOf(x, d)
  OBVIOUS
<1> HIDE DEF key0
<1>4. /\ z \in Requesting
      /\ z.at = x.at /\ z.kind = x.kind /\ z.caller = x.caller /\ z.read = x.read
      /\ z.left = x.left /\ z.outcome = x.outcome /\ z.charged = x.charged \union {key0}
      /\ x.late \subseteq z.late
  BY DEF PaysFor, key0
<1>5. y = IF c > limits[d] THEN Done(z, "rejected")
          ELSE IF Len(z.left) > 1
               THEN [z EXCEPT !.at = "add", !.left = Tail(@)]
               ELSE Done(z, "admitted")
  BY <1>4 DEF Counted, key0
<1> HIDE DEF d
<1> DEFINE Goal ==
             /\ StillOn(x, y) /\ ChargedFits(y) /\ y.charged = z.charged /\ y.late = z.late
             /\ \A key : Passed(y, key) =>
                   Passed(x, key) \/ (key = key0 /\ c <= limits[key[1]])
             /\ y.outcome = "rejected" => c > limits[d] /\ y.left = x.left
<1>6. ASSUME c > limits[d] PROVE Goal
  <2>1. /\ y \in Requesting /\ y.at = "done" /\ y.outcome = "rejected"
        /\ y.kind = x.kind /\ y.caller = x.caller /\ y.read = x.read
        /\ y.left = x.left /\ y.charged = x.charged \union {key0} /\ y.late = z.late
    <3>1. y = [z EXCEPT !.at = "done", !.outcome = "rejected"]
      BY <1>4, <1>5, <1>6 DEF Done
    <3>2. /\ y \in Requesting /\ y.at = "done" /\ y.outcome = "rejected" /\ y.left = z.left
          /\ y.kind = z.kind /\ y.caller = z.caller /\ y.read = z.read
          /\ y.charged = z.charged /\ y.late = z.late
      BY <1>4, <3>1 DEF Requesting
    <3> QED BY <1>4, <3>2
  <2>2. PassedDims(y) = {}
    BY <2>1 DEF PassedDims, OnItsWay
  <2>3. d = "client" <=> x.kind = "route"
    BY <1>1, LeftIs DEF d
  <2>4. ChargedFits(y)
    BY <1>3, <2>1, <2>3 DEF ChargedFits, OnItsWay
  <2>5. StillOn(x, y)
    BY <2>1 DEF StillOn, OnItsWay
  <2> QED BY <1>4, <1>6, <2>1, <2>2, <2>4, <2>5 DEF Passed
<1>7. ASSUME ~(c > limits[d]), Len(z.left) > 1 PROVE Goal
  <2>1. Tail(x.left) \in LeftOf(x.kind) /\ Tail(x.left) \in Seq(Dimensions)
    BY <1>1, <1>4, <1>7, LeftIs
  <2>2. /\ y \in Requesting /\ y.at = "add" /\ y.outcome = "none"
        /\ y.kind = x.kind /\ y.caller = x.caller /\ y.read = x.read
        /\ y.left = Tail(x.left) /\ y.charged = x.charged \union {key0} /\ y.late = z.late
    <3> DEFINE tail == Tail(x.left)
    <3>1. y = [z EXCEPT !.at = "add", !.left = tail]
      BY <1>4, <1>5, <1>7
    <3>2. tail \in Seq(Dimensions)
      BY <2>1
    <3> HIDE DEF tail
    <3>3. /\ y \in Requesting /\ y.at = "add" /\ y.left = tail /\ y.outcome = z.outcome
          /\ y.kind = z.kind /\ y.caller = z.caller /\ y.read = z.read
          /\ y.charged = z.charged /\ y.late = z.late
      BY <1>4, <3>1, <3>2 DEF Requesting
    <3> QED BY <1>4, <3>3 DEF tail
  <2>3. /\ LeftDims(x) = LeftDims(y) \union {d} /\ d \notin LeftDims(y)
        /\ d = "client" <=> x.kind = "route"
    BY <2>2, LeftDimsShrink DEF d
  <2>4. PassedDims(y) \subseteq PassedDims(x) \union {d}
    BY <2>2, <2>3 DEF PassedDims, OnItsWay
  <2>5. \A key : KeyOf(y, key[1]) = KeyOf(x, key[1])
    BY <2>2 DEF KeyOf
  <2>6. \A key : Passed(y, key) => Passed(x, key) \/ (key = key0 /\ c <= limits[key[1]])
    <3> SUFFICES ASSUME NEW key, Passed(y, key), ~Passed(x, key)
                 PROVE  key = key0 /\ c <= limits[key[1]]
      OBVIOUS
    <3>1. key[1] = d
      BY <1>4, <2>2, <2>4, <2>5 DEF Passed
    <3>2. key = key0
      BY <1>k, <2>5, <3>1 DEF Passed
    <3> QED BY <1>2, <1>7, <3>1, <3>2
  <2>7. ChargedFits(y)
    BY <1>3, <2>2, <2>3 DEF ChargedFits, OnItsWay
  <2>8. StillOn(x, y)
    BY <1>1, <2>1, <2>2 DEF StillOn, OnItsWay
  <2> QED BY <1>4, <2>2, <2>6, <2>7, <2>8
<1>8. ASSUME ~(c > limits[d]), ~(Len(z.left) > 1) PROVE Goal
  <2>1. /\ y \in Requesting /\ y.at = "done" /\ y.outcome = "admitted"
        /\ y.kind = x.kind /\ y.caller = x.caller /\ y.read = x.read
        /\ y.left = x.left /\ y.charged = x.charged \union {key0} /\ y.late = z.late
    <3>1. y = [z EXCEPT !.at = "done", !.outcome = "admitted"]
      BY <1>4, <1>5, <1>8 DEF Done
    <3>2. /\ y \in Requesting /\ y.at = "done" /\ y.outcome = "admitted" /\ y.left = z.left
          /\ y.kind = z.kind /\ y.caller = z.caller /\ y.read = z.read
          /\ y.charged = z.charged /\ y.late = z.late
      BY <1>4, <3>1 DEF Requesting
    <3> QED BY <1>4, <3>2
  <2> DEFINE w == [x EXCEPT !.left = Tail(@)]
  <2>2. w \in Requesting /\ w.left = Tail(x.left)
    <3>1. Tail(x.left) \in Seq(Dimensions)
      BY <1>1, LeftIs
    <3> QED BY <3>1 DEF Requesting
  <2>3. LeftDims(x) = {d} /\ (d = "client" <=> x.kind = "route")
    <3>1. Len(x.left) <= 1
      BY <1>1, <1>4, <1>8
    <3> HIDE DEF w
    <3> QED BY <2>2, <3>1, LeftDimsShrink DEF d
  <2>4. PassedDims(y) \subseteq PassedDims(x) \union {d}
    BY <2>1, <2>3 DEF PassedDims, OnItsWay
  <2>5. \A key : KeyOf(y, key[1]) = KeyOf(x, key[1])
    BY <2>1 DEF KeyOf
  <2>6. \A key : Passed(y, key) => Passed(x, key) \/ (key = key0 /\ c <= limits[key[1]])
    <3> SUFFICES ASSUME NEW key, Passed(y, key), ~Passed(x, key)
                 PROVE  key = key0 /\ c <= limits[key[1]]
      OBVIOUS
    <3>1. key[1] = d
      BY <1>4, <2>1, <2>4, <2>5 DEF Passed
    <3>2. key = key0
      BY <1>k, <2>5, <3>1 DEF Passed
    <3> QED BY <1>2, <1>8, <3>1, <3>2
  <2>7. ChargedFits(y)
    BY <1>3, <2>1, <2>3 DEF ChargedFits, OnItsWay
  <2>8. StillOn(x, y)
    BY <2>1 DEF StillOn, OnItsWay
  <2> QED BY <1>4, <2>1, <2>6, <2>7, <2>8
<1>9. Goal
  BY <1>6, <1>7, <1>8
<1> QED BY <1>9 DEF Onward, d, key0

\* A command without an answer, or that finds nothing to increase, or a counter
\* that was there already.
LEMMA UncountedDoes ==
    ASSUME LimitTypes, NEW x \in Requesting, OnItsWay(x), x.outcome = "none",
           x.left \in LeftOf(x.kind), NEW c \in Nat, ChargedFits(x),
           NEW z, z = x \/ PaysFor(x, z),
           NEW y, \/ y = Uncounted(z)
                  \/ y = [z EXCEPT !.at = "incr"] /\ (z = x \/ x.kind = "route")
    PROVE  Onward(x, y, c) /\ y.charged = z.charged /\ y.late = z.late
<1> DEFINE d == Head(x.left)
           more == z.charged \ x.charged
<1>1. x.kind \in {"route", "contribution"} /\ x.caller \in Callers /\ x.read \in Nat
  BY DEF Requesting
<1>2. d \in Dimensions /\ (d = "client" <=> x.kind = "route")
  BY <1>1, LeftIs
<1>m. \A k \in more : k = KeyOf(x, d)
  BY DEF PaysFor
<1>3. \A k \in more : k = KeyOf(x, d) /\ k[1] = d /\ k \in Keys
  <2>1. x.read \div Window \in Nat
    BY <1>1, WindowOf
  <2>2. x.caller[d] \in Subjects
    <3> HIDE DEF d
    <3> QED BY <1>1, <1>2 DEF Subjects
  <2>3. KeyOf(x, d) \in Keys /\ KeyOf(x, d)[1] = d
    BY <1>2, <2>1, <2>2 DEF KeyOf, Keys
  <2> QED BY <1>m, <2>3
<1> HIDE DEF d
<1>4. /\ z \in Requesting
      /\ z.at = x.at /\ z.kind = x.kind /\ z.caller = x.caller /\ z.read = x.read
      /\ z.left = x.left /\ z.outcome = x.outcome /\ z.charged = x.charged \union more
      /\ x.late \subseteq z.late
  BY DEF PaysFor
<1>5. \/ y = Uncounted(z)
      \/ y = [z EXCEPT !.at = "incr"] /\ (more = {} \/ x.kind = "route")
  OBVIOUS
<1> HIDE DEF more
<1>6. \A k \in x.charged \union more : k[1] = "client" <=> x.kind = "route"
  BY <1>2, <1>3 DEF ChargedFits
<1>7. CASE y = Uncounted(z)
  <2>1. /\ y \in Requesting /\ y.at = "done" /\ y.outcome \in {"unmetered", "unavailable"}
        /\ y.kind = x.kind /\ y.caller = x.caller /\ y.read = x.read
        /\ y.charged = x.charged \union more /\ y.late = z.late
    BY <1>4, <1>7 DEF Done, Uncounted, Requesting
  <2>2. PassedDims(y) = {}
    BY <2>1 DEF PassedDims, OnItsWay
  <2>3. ChargedFits(y) /\ StillOn(x, y)
    BY <1>6, <2>1 DEF ChargedFits, StillOn, OnItsWay
  <2> QED BY <1>4, <2>1, <2>2, <2>3 DEF Onward, Passed
<1>8. CASE y = [z EXCEPT !.at = "incr"] /\ (more = {} \/ x.kind = "route")
  <2>1. /\ y \in Requesting /\ y.at = "incr" /\ y.outcome = "none"
        /\ y.kind = x.kind /\ y.caller = x.caller /\ y.read = x.read /\ y.left = x.left
        /\ y.charged = x.charged \union more /\ y.late = z.late
    BY <1>4, <1>8 DEF Requesting
  <2>2. PassedDims(y) = PassedDims(x) /\ \A key : KeyOf(y, key[1]) = KeyOf(x, key[1])
    BY <2>1 DEF PassedDims, OnItsWay, LeftDims, KeyOf
  <2>3. ChargedFits(y)
    BY <1>6, <1>8, <2>1 DEF ChargedFits, OnItsWay, LeftDims
  <2>4. StillOn(x, y)
    BY <2>1 DEF StillOn, OnItsWay
  <2> QED BY <1>4, <2>1, <2>2, <2>3, <2>4 DEF Onward, Passed
<1> QED BY <1>5, <1>7, <1>8
--------------------------------------------------------------------------------
(* Rate limits: the inductive invariant *)

\* The requests let through at a counter, and those it was increased for.
Holders(key) == {q \in Requests : Passed(requests[q], key)}

Payers(key) == {q \in Requests : key \in requests[q].charged}

\* A counter is named for a window that has begun.
WindowsHaveBegun == \A r \in Requests : requests[r].read <= now

\* A counter outlives the requests that are counted in time.
Lasting == \A key \in DOMAIN counters :
              now < counters[key].expires /\ Over(key) <= counters[key].expires

\* A counter counts every request it let through, as long as another can come in
\* time.
HoldersAreCounted ==
    \A key \in Keys :
        /\ Holders(key) = {} \/ Cardinality(Holders(key)) <= limits[key[1]]
        /\ now < Over(key) => IF key \in DOMAIN counters
                              THEN counters[key].count >= Cardinality(Holders(key))
                              ELSE Holders(key) = {}

\* A counter of contributions counts a request once.
CountsArePaid ==
    \A key \in DOMAIN counters :
        key[1] # "client" => counters[key].count <= Cardinality(Payers(key))

EachChargedFits == \A r \in Requests : ChargedFits(requests[r])

LimitsInvariant ==
    /\ LimitTypes /\ LeftFits /\ EachChargedFits
    /\ WindowsHaveBegun /\ Lasting /\ HoldersAreCounted /\ CountsArePaid
    /\ RejectionIsEarned

\* What a step of a request does to the counter it is at.
Quiet(x, y) == counters' = counters /\ y.charged = x.charged

LateIsNoted(x, y) == now < Over(KeyOf(x, Head(x.left))) \/ Head(x.left) \in y.late

Made(x, y) == LET k == KeyOf(x, Head(x.left))
              IN /\ k \notin DOMAIN counters /\ counters' = Added(k)
                 /\ y.charged = x.charged \union {k} /\ LateIsNoted(x, y)
                 /\ Onward(x, y, 1)

Raised(x, y) == LET k == KeyOf(x, Head(x.left))
                IN /\ k \in DOMAIN counters /\ counters' = Increased(k)
                   /\ y.charged = x.charged \union {k} /\ LateIsNoted(x, y)
                   /\ Onward(x, y, counters[k].count + 1)

Moves(r) == \E y : /\ requests' = [requests EXCEPT ![r] = y]
                   /\ \/ Quiet(requests[r], y) /\ \A c \in Nat : Onward(requests[r], y, c)
                      \/ Made(requests[r], y)
                      \/ Raised(requests[r], y)

LEMMA RequestMoves ==
    ASSUME LimitsInvariant, NEW r \in Requests,
           Add(r) \/ LoseAdd(r) \/ Increase(r) \/ LoseIncrease(r)
    PROVE  OnItsWay(requests[r]) /\ Moves(r) /\ UNCHANGED <<now, limits>>
<1> DEFINE x == requests[r]
           k == KeyOf(x, Head(x.left))
           charging == Paid(x)
<1>1. OnItsWay(x) /\ UNCHANGED <<now, limits>>
  BY DEF OnItsWay, Add, LoseAdd, Increase, LoseIncrease
<1>2. /\ x \in Requesting /\ x.outcome = "none" /\ x.left \in LeftOf(x.kind)
      /\ ChargedFits(x) /\ LimitTypes
  BY <1>1 DEF LimitsInvariant, LimitTypes, LeftFits, EachChargedFits
<1>3. KeyAt(r) = k /\ Charging(r) = charging
  BY DEF KeyAt, Key, KeyOf, Charging, Paid
<1>4. Live(k) <=> k \in DOMAIN counters
  BY DEF Live, LimitsInvariant, Lasting
<1>5. PaysFor(x, charging)
  BY <1>1, <1>2, PaidPays
<1>6. x.kind \in {"route", "contribution"}
  BY <1>2 DEF Requesting
<1>7. k \in DOMAIN counters => counters[k].count + 1 \in Nat
  BY <1>2 DEF LimitTypes
<1> DEFINE Still(y) == \/ y = Uncounted(x)
                       \/ y = [x EXCEPT !.at = "incr"]
           Charged(y) == \/ y = Uncounted(charging)
                         \/ y = [charging EXCEPT !.at = "incr"] /\ x.kind = "route"
<1>8. ASSUME NEW y, Still(y), NEW c \in Nat
      PROVE  Onward(x, y, c) /\ y.charged = x.charged
  <2>1. y = Uncounted(x) \/ y = [x EXCEPT !.at = "incr"]
    BY <1>8
  <2> HIDE DEF x, Still
  <2> QED BY <1>1, <1>2, <1>8, <2>1, UncountedDoes
<1>9. ASSUME NEW y, Charged(y), NEW c \in Nat
      PROVE  Onward(x, y, c) /\ y.charged = x.charged \union {k} /\ LateIsNoted(x, y)
  <2>1. \/ y = Uncounted(charging)
        \/ y = [charging EXCEPT !.at = "incr"] /\ (charging = x \/ x.kind = "route")
    BY <1>9
  <2>2. PaysFor(x, charging)
    BY <1>5
  <2> HIDE DEF x, charging, Charged
  <2>3. Onward(x, y, c) /\ y.charged = charging.charged /\ y.late = charging.late
    BY <1>1, <1>2, <1>9, <2>1, <2>2, UncountedDoes
  <2> QED BY <2>2, <2>3 DEF PaysFor, LateIsNoted
<1>10. ASSUME NEW c \in Nat, NEW y, y = Counted(charging, c)
       PROVE  /\ Onward(x, y, c)
              /\ y.charged = x.charged \union {k} /\ LateIsNoted(x, y)
  <2>1. PaysFor(x, charging)
    BY <1>5
  <2> HIDE DEF x, charging
  <2>2. Onward(x, y, c) /\ y.charged = charging.charged /\ y.late = charging.late
    BY <1>1, <1>2, <1>10, <2>1, CountedDoes
  <2> QED BY <2>1, <2>2 DEF PaysFor, LateIsNoted
<1>11. ASSUME NEW y, requests' = [requests EXCEPT ![r] = y], counters' = counters, Still(y)
       PROVE  Moves(r)
  <2>1. Quiet(x, y) /\ \A c \in Nat : Onward(x, y, c)
    <3>1. Still(y)
      BY <1>11
    <3> HIDE DEF x, Still
    <3>2. ASSUME NEW c \in Nat PROVE Onward(x, y, c) /\ y.charged = x.charged
      BY <1>8, <3>1
    <3> QED BY <1>11, <3>2 DEF Quiet
  <2> QED BY <1>11, <2>1 DEF Moves
<1>12. ASSUME NEW y, requests' = [requests EXCEPT ![r] = y], counters' = Added(k),
              k \notin DOMAIN counters, Charged(y) \/ y = Counted(charging, 1)
       PROVE  Moves(r)
  <2>1. Made(x, y)
    BY <1>9, <1>10, <1>12 DEF Made
  <2> QED BY <1>12, <2>1 DEF Moves
<1>13. ASSUME NEW y, requests' = [requests EXCEPT ![r] = y], counters' = Increased(k),
              k \in DOMAIN counters,
              Charged(y) \/ y = Counted(charging, counters[k].count + 1)
       PROVE  Moves(r)
  <2>1. Raised(x, y)
    BY <1>7, <1>9, <1>10, <1>13 DEF Raised
  <2> QED BY <1>13, <2>1 DEF Moves
<1>14. /\ Still(Uncounted(x)) /\ Still([x EXCEPT !.at = "incr"]) /\ Still(NoAnswer(r, x))
       /\ Charged(Uncounted(charging)) /\ Charged(NoAnswer(r, charging))
  <2>1. charging.kind = x.kind
    BY <1>5 DEF PaysFor
  <2> HIDE DEF x, charging
  <2> QED BY <1>6, <2>1 DEF NoAnswer
<1> SUFFICES Moves(r)
  BY <1>1
<1>15. CASE Add(r)
  <2>1. \/ /\ k \notin DOMAIN counters /\ counters' = Added(k)
           /\ requests' = [requests EXCEPT ![r] = Counted(charging, 1)]
        \/ /\ requests' = [requests EXCEPT ![r] = [x EXCEPT !.at = "incr"]]
           /\ counters' = counters
    BY <1>3, <1>4, <1>15, Zenon DEF Add
  <2> HIDE DEF x, k, charging, Still, Charged
  <2> QED BY <1>11, <1>12, <1>14, <2>1
<1>16. CASE LoseAdd(r)
  <2>1. \/ /\ k \notin DOMAIN counters /\ counters' = Added(k)
           /\ requests' = [requests EXCEPT ![r] = NoAnswer(r, charging)]
        \/ /\ requests' = [requests EXCEPT ![r] = NoAnswer(r, x)]
           /\ counters' = counters
    BY <1>3, <1>4, <1>16, Zenon DEF LoseAdd
  <2> HIDE DEF x, k, charging, Still, Charged
  <2> QED BY <1>11, <1>12, <1>14, <2>1
<1>17. CASE Increase(r)
  <2>1. \/ /\ k \in DOMAIN counters /\ counters' = Increased(k)
           /\ requests' = [requests EXCEPT ![r] = Counted(charging, counters[k].count + 1)]
        \/ /\ requests' = [requests EXCEPT ![r] = Uncounted(x)]
           /\ counters' = counters
    BY <1>3, <1>4, <1>17, Zenon DEF Increase
  <2> HIDE DEF x, k, charging, Still, Charged
  <2> QED BY <1>11, <1>13, <1>14, <2>1
<1>18. CASE LoseIncrease(r)
  <2>1. \/ /\ k \in DOMAIN counters /\ counters' = Increased(k)
           /\ requests' = [requests EXCEPT ![r] = Uncounted(charging)]
        \/ /\ requests' = [requests EXCEPT ![r] = Uncounted(x)]
           /\ counters' = counters
    BY <1>3, <1>4, <1>18, Zenon DEF LoseIncrease
  <2> HIDE DEF x, k, charging, Still, Charged
  <2> QED BY <1>11, <1>13, <1>14, <2>1
<1> QED BY <1>15, <1>16, <1>17, <1>18

LEMMA Counting ==
    ASSUME NEW S \in SUBSET Requests, NEW T \in SUBSET Requests
    PROVE  /\ Cardinality(S) \in Nat /\ Cardinality({}) = 0
           /\ S \subseteq T => Cardinality(S) <= Cardinality(T)
           /\ \A r \in Requests : /\ Cardinality(S \union {r}) <= Cardinality(S) + 1
                                  /\ r \notin S => Cardinality(S \union {r}) = Cardinality(S) + 1
<1>1. IsFiniteSet(S) /\ IsFiniteSet(T)
  BY FS_Subset, LimitsAssumption
<1>2. Cardinality(S) \in Nat
  BY <1>1, FS_CardinalityType
<1>3. S \subseteq T => Cardinality(S) <= Cardinality(T)
  BY <1>1, FS_Subset
<1>4. \A r \in Requests : /\ r \notin S => Cardinality(S \union {r}) = Cardinality(S) + 1
                          /\ r \in S => S \union {r} = S
  BY <1>1, FS_AddElement
<1>5. \A r \in Requests : Cardinality(S \union {r}) <= Cardinality(S) + 1
  BY <1>2, <1>4
<1> QED BY <1>2, <1>3, <1>4, <1>5, FS_EmptySet

\* A contribution that is still on its way has not paid at the counter it is at.
LEMMA AtACounter ==
    ASSUME LimitsInvariant, NEW r \in Requests, OnItsWay(requests[r]),
           NEW k, k = KeyOf(requests[r], Head(requests[r].left))
    PROVE  /\ k \in Keys /\ k[1] = Head(requests[r].left) /\ k[1] \in Dimensions
           /\ k[1] = "client" <=> requests[r].kind = "route"
           /\ k[1] # "client" => r \notin Payers(k)
<1> DEFINE x == requests[r]
           d == Head(x.left)
           w == x.read \div Window
<1>1. /\ x \in Requesting /\ x.left \in LeftOf(x.kind) /\ ChargedFits(x)
  BY DEF LimitsInvariant, LimitTypes, LeftFits, EachChargedFits
<1>2. x.kind \in {"route", "contribution"} /\ x.caller \in Callers /\ x.read \in Nat
  BY <1>1 DEF Requesting
<1>3. d \in Dimensions /\ (d = "client" <=> x.kind = "route") /\ d \in LeftDims(x)
  BY <1>1, <1>2, LeftIs DEF LeftDims
<1>4. w \in Nat
  BY <1>2, WindowOf
<1>5. k = <<d, x.caller[d], w>>
  BY DEF KeyOf
<1>6. x.caller[d] \in Subjects
  <2> HIDE DEF d
  <2> QED BY <1>2, <1>3 DEF Subjects
<1>7. k \in Keys /\ k[1] = d /\ k[3] = w
  BY <1>3, <1>4, <1>5, <1>6 DEF Keys
<1>8. k[1] # "client" => r \notin Payers(k)
  BY <1>1, <1>2, <1>3, <1>7 DEF ChargedFits, Payers
<1> QED BY <1>3, <1>7, <1>8

LEMMA RequestKeeps ==
    ASSUME LimitsInvariant, NEW r \in Requests, OnItsWay(requests[r]), Moves(r),
           UNCHANGED <<now, limits>>
    PROVE  LimitsInvariant'
<1> DEFINE x == requests[r]
           k == KeyOf(x, Head(x.left))
<1>1. PICK y : /\ requests' = [requests EXCEPT ![r] = y]
               /\ \/ Quiet(x, y) /\ \A c \in Nat : Onward(x, y, c)
                  \/ Made(x, y)
                  \/ Raised(x, y)
  BY DEF Moves
<1>2. /\ LimitTypes /\ LeftFits /\ EachChargedFits /\ WindowsHaveBegun /\ Lasting
      /\ HoldersAreCounted /\ CountsArePaid /\ RejectionIsEarned
  BY DEF LimitsInvariant
<1>3. /\ k \in Keys /\ k[1] = Head(x.left) /\ k[1] \in Dimensions
      /\ (k[1] = "client" <=> x.kind = "route")
      /\ (k[1] # "client" => r \notin Payers(k))
  BY AtACounter
<1>k. k = KeyOf(x, Head(x.left))
  OBVIOUS
<1>x. x = requests[r] /\ x \in Requesting /\ OnItsWay(x)
  BY <1>2 DEF LimitTypes
<1> HIDE DEF x, k
<1>t. /\ now \in Nat /\ limits \in [Dimensions -> Int] /\ DOMAIN counters \subseteq Keys
      /\ \A key \in DOMAIN counters : counters[key] \in [count: Nat, expires: Nat]
      /\ requests \in [Requests -> Requesting]
  BY <1>2 DEF LimitTypes
<1>c. \A key \in DOMAIN counters : counters[key].count \in Nat /\ counters[key].expires \in Nat
  BY <1>t
<1>4. PICK c \in Nat : /\ Onward(x, y, c)
                       /\ c > limits[k[1]] \/ now < Over(k) \/ k[1] \in y.late
                       /\ \/ /\ counters' = counters /\ y.charged = x.charged /\ c > limits[k[1]]
                             /\ y.outcome = "rejected" => 0 > limits[k[1]]
                          \/ /\ k \notin DOMAIN counters /\ counters' = Added(k) /\ c = 1
                             /\ y.charged = x.charged \union {k}
                          \/ /\ k \in DOMAIN counters /\ counters' = Increased(k)
                             /\ c = counters[k].count + 1
                             /\ y.charged = x.charged \union {k}
  <2>1. CASE Quiet(x, y) /\ \A c \in Nat : Onward(x, y, c)
    <3>1. \E c \in Nat : c > limits[k[1]]
      <4>1. limits[k[1]] \in Int
        BY <1>3, <1>t
      <4>2. \A l \in Int : \E c \in Nat : c > l
        <5> TAKE l \in Int
        <5>1. CASE l < 0
          <6> WITNESS 0 \in Nat
          <6> QED BY <5>1
        <5>2. CASE ~(l < 0)
          <6>1. l + 1 \in Nat /\ l + 1 > l
            BY <5>2
          <6> QED BY <6>1
        <5> QED BY <5>1, <5>2
      <4> QED BY <4>1, <4>2
    <3>2. y.outcome = "rejected" => 0 > limits[k[1]]
      BY <1>3, <2>1 DEF Onward
    <3> QED BY <2>1, <3>1, <3>2 DEF Quiet
  <2>2. CASE Made(x, y)
    BY <1>3, <1>k, <2>2 DEF Made, LateIsNoted
  <2>3. CASE Raised(x, y)
    BY <1>3, <1>k, <1>c, <2>3 DEF Raised, LateIsNoted
  <2> QED BY <1>1, <2>1, <2>2, <2>3
<1>5. /\ y \in Requesting /\ y.kind = x.kind /\ y.caller = x.caller /\ y.read = x.read
      /\ (OnItsWay(y) => y.left \in LeftOf(y.kind) /\ y.outcome = "none")
      /\ y.at # "new" /\ ChargedFits(y)
      /\ x.charged \subseteq y.charged /\ y.charged \subseteq x.charged \union {k}
  BY <1>4 DEF Onward, StillOn
<1>6. /\ requests' \in [Requests -> Requesting] /\ requests'[r] = y
      /\ \A q \in Requests : q # r => requests'[q] = requests[q]
  BY <1>1, <1>5, <1>t
<1>7. /\ DOMAIN counters' \subseteq DOMAIN counters \union {k}
      /\ \A key : key # k => /\ key \in DOMAIN counters' <=> key \in DOMAIN counters
                             /\ key \in DOMAIN counters => counters'[key] = counters[key]
  BY <1>4 DEF Added, Increased, Stored
<1> DEFINE Idles == counters' = counters /\ y.charged = x.charged /\ c > limits[k[1]]
           Counts == /\ y.charged = x.charged \union {k}
                     /\ k \in DOMAIN counters' /\ counters'[k].count = c
                     /\ \/ k \notin DOMAIN counters /\ c = 1
                        \/ k \in DOMAIN counters /\ c = counters[k].count + 1
                     /\ counters'[k] \in [count: Nat, expires: Nat]
                     /\ now < counters'[k].expires /\ Over(k) <= counters'[k].expires
<1>8. Idles \/ Counts
  <2>1. CASE /\ k \notin DOMAIN counters /\ counters' = Added(k) /\ c = 1
             /\ y.charged = x.charged \union {k}
    <3>1. counters'[k] = [count |-> 1, expires |-> now + Window + 1]
      <4>1. now + Lifetime = now + Window + 1
        BY <1>t, LimitsAssumption DEF Lifetime
      <4> QED BY <2>1, <4>1 DEF Added, Stored
    <3>2. x.read \in Nat /\ x.read <= now
      BY <1>2, <1>x DEF WindowsHaveBegun, Requesting
    <3>3. Over(k) <= now + Window + 1
      <4> DEFINE w == x.read \div Window
      <4>1. w \in Nat /\ w * Window <= x.read
        BY <3>2, WindowOf
      <4>2. k[3] = w
        BY <1>k DEF KeyOf
      <4>3. (w + 1) * Window = w * Window + Window /\ w * Window \in Int
        BY <4>1, LimitsAssumption
      <4> QED BY <1>t, <3>2, <4>1, <4>2, <4>3, LimitsAssumption DEF Over
    <3>4. now + Window + 1 \in Nat
      BY <1>t, LimitsAssumption
    <3>5. k \in DOMAIN counters'
      BY <2>1 DEF Added, Stored
    <3> QED BY <1>t, <2>1, <3>1, <3>3, <3>4, <3>5, LimitsAssumption
  <2>2. CASE /\ counters' = Increased(k) /\ k \in DOMAIN counters
             /\ c = counters[k].count + 1 /\ y.charged = x.charged \union {k}
    <3>1. counters[k] \in [count: Nat, expires: Nat]
      BY <1>t, <2>2
    <3>2. k \in DOMAIN counters' /\ counters'[k] = [counters[k] EXCEPT !.count = @ + 1]
      BY <2>2 DEF Increased, Stored
    <3>3. /\ counters'[k].count = c /\ counters'[k].expires = counters[k].expires
          /\ counters'[k] \in [count: Nat, expires: Nat]
      BY <2>2, <3>1, <3>2
    <3> QED BY <1>2, <2>2, <3>2, <3>3 DEF Lasting
  <2> QED BY <1>4, <2>1, <2>2
<1>o. Over(k) \in Int
  <2>1. k[3] \in Nat
    BY <1>3 DEF Keys
  <2> QED BY <2>1, LimitsAssumption DEF Over
<1>9. LimitTypes'
  <2>1. DOMAIN counters' \subseteq Keys
    BY <1>3, <1>7, <1>t
  <2>2. \A key \in DOMAIN counters' : counters'[key] \in [count: Nat, expires: Nat]
    BY <1>7, <1>8, <1>t
  <2> QED BY <1>6, <1>t, <2>1, <2>2 DEF LimitTypes
<1>10. LeftFits' /\ EachChargedFits' /\ WindowsHaveBegun'
  <2>1. LeftFits'
    <3>1. y.outcome = "rejected" => y.left \in LeftOf(y.kind)
      BY <1>2, <1>4, <1>5, <1>x DEF Onward, LeftFits
    <3>2. \A q : OnItsWay(requests[q])' <=> OnItsWay(requests'[q])
      BY DEF OnItsWay
    <3> QED BY <1>2, <1>5, <1>6, <3>1, <3>2 DEF LeftFits
  <2>2. EachChargedFits'
    BY <1>2, <1>5, <1>6 DEF EachChargedFits
  <2>3. WindowsHaveBegun'
    BY <1>2, <1>5, <1>6, <1>x DEF WindowsHaveBegun
  <2> QED BY <2>1, <2>2, <2>3
<1>11. Lasting'
  <2>1. \A key : Over(key)' = Over(key)
    BY DEF Over
  <2>2. \A key \in DOMAIN counters' :
           now < counters'[key].expires /\ Over(key) <= counters'[key].expires
    BY <1>2, <1>7, <1>8 DEF Lasting
  <2> QED BY <2>1, <2>2 DEF Lasting
<1> DEFINE Paying(key) == {q \in Requests : key \in requests'[q].charged}
           Holding(key) == {q \in Requests : Passed(requests'[q], key)}
<1>p. \A key : /\ Payers(key) \in SUBSET Requests /\ Paying(key) \in SUBSET Requests
               /\ Holders(key) \in SUBSET Requests /\ Holding(key) \in SUBSET Requests
  BY DEF Payers, Holders
<1>12. ASSUME NEW key
       PROVE  /\ Payers(key) \subseteq Paying(key)
              /\ Counts => Paying(k) = Payers(k) \union {r}
  <2>1. \A q \in Requests : requests[q].charged \subseteq requests'[q].charged
    BY <1>5, <1>6, <1>x
  <2>2. ASSUME Counts PROVE Paying(k) = Payers(k) \union {r}
    <3>1. \A q \in Requests : k \in requests'[q].charged
                                 <=> k \in requests[q].charged \/ q = r
      BY <1>6, <2>2
    <3> QED BY <3>1 DEF Payers
  <2> QED BY <2>1, <2>2 DEF Payers
<1>13. CountsArePaid'
  <2> SUFFICES ASSUME NEW key \in DOMAIN counters', key[1] # "client"
               PROVE  counters'[key].count <= Cardinality(Paying(key))
    BY DEF CountsArePaid, Payers
  <2> HIDE DEF Paying
  <2>1. CASE key # k \/ Idles
    <3>1. key \in DOMAIN counters /\ counters'[key] = counters[key]
      BY <1>7, <2>1
    <3>2. counters[key].count <= Cardinality(Payers(key))
      BY <1>2, <3>1 DEF CountsArePaid
    <3>3. Cardinality(Payers(key)) <= Cardinality(Paying(key))
      BY <1>12, <1>p, Counting
    <3>4. Cardinality(Payers(key)) \in Nat /\ Cardinality(Paying(key)) \in Nat
      BY <1>p, Counting
    <3> QED BY <1>c, <3>1, <3>2, <3>3, <3>4
  <2>2. CASE key = k /\ Counts
    <3>1. Cardinality(Paying(k)) = Cardinality(Payers(k)) + 1
      BY <1>3, <1>12, <1>p, <2>2, Counting
    <3>2. k \in DOMAIN counters => counters[k].count <= Cardinality(Payers(k))
      BY <1>2, <2>2 DEF CountsArePaid
    <3>3. Cardinality(Payers(k)) \in Nat
      BY <1>p, Counting
    <3> QED BY <1>c, <2>2, <3>1, <3>2, <3>3
  <2> QED BY <1>8, <2>1, <2>2
<1>14. \A key : /\ Holding(key) \subseteq Holders(key) \union {r}
                /\ ~(key = k /\ c <= limits[key[1]] /\ now < Over(k))
                      => Holding(key) \subseteq Holders(key)
  <2> SUFFICES ASSUME NEW key, NEW q \in Holding(key), q \notin Holders(key)
               PROVE  q = r /\ key = k /\ c <= limits[key[1]] /\ now < Over(k)
    OBVIOUS
  <2>1. q \in Requests /\ Passed(requests'[q], key) /\ ~Passed(requests[q], key)
    BY DEF Holders
  <2>2. q = r
    BY <1>6, <2>1
  <2>3. key = k /\ c <= limits[key[1]] /\ Passed(y, key)
    BY <1>4, <1>6, <1>k, <1>x, <2>1, <2>2 DEF Onward
  <2>4. k[1] \notin y.late
    BY <2>3 DEF Passed
  <2>5. limits[k[1]] \in Int
    BY <1>3, <1>t
  <2> QED BY <1>4, <2>2, <2>3, <2>4, <2>5
<1>15. HoldersAreCounted'
  <2> SUFFICES ASSUME NEW key \in Keys
               PROVE  /\ \/ Holding(key) = {}
                         \/ Cardinality(Holding(key)) <= limits[key[1]]
                      /\ now < Over(key) =>
                            IF key \in DOMAIN counters'
                            THEN counters'[key].count >= Cardinality(Holding(key))
                            ELSE Holding(key) = {}
    BY DEF HoldersAreCounted, Over, Keys, Subjects, Holders
  <2> HIDE DEF Holding
  <2>h. /\ Cardinality(Holders(key)) \in Nat /\ Cardinality(Holding(key)) \in Nat
        /\ Holders(key) = {} => Cardinality(Holders(key)) = 0
    BY <1>p, Counting
  <2>i. /\ Holders(key) = {} \/ Cardinality(Holders(key)) <= limits[key[1]]
        /\ now < Over(key) => IF key \in DOMAIN counters
                              THEN counters[key].count >= Cardinality(Holders(key))
                              ELSE Holders(key) = {}
    BY <1>2 DEF HoldersAreCounted
  <2>l. limits[key[1]] \in Int
    <3>1. key[1] \in Dimensions
      BY DEF Keys
    <3> QED BY <1>t, <3>1
  <2>n. key = k /\ k \notin DOMAIN counters /\ now < Over(key) => Holders(key) = {}
    BY <2>i
  <2>1. CASE Holding(key) \subseteq Holders(key)
    <3>1. /\ Cardinality(Holding(key)) <= Cardinality(Holders(key))
          /\ Holders(key) = {} => Holding(key) = {} /\ Cardinality(Holding(key)) = 0
      BY <1>p, <2>1, Counting
    <3>2. \/ Holding(key) = {}
          \/ Cardinality(Holding(key)) <= limits[key[1]]
      BY <2>h, <2>i, <2>l, <3>1
    <3>3. CASE key # k \/ Idles
      <4>1. /\ key \in DOMAIN counters' <=> key \in DOMAIN counters
            /\ key \in DOMAIN counters => counters'[key].count = counters[key].count
        BY <1>7, <3>3
      <4> QED BY <1>c, <2>h, <2>i, <3>1, <3>2, <4>1
    <3>4. CASE key = k /\ Counts
      <4>1. CASE k \in DOMAIN counters /\ c = counters[k].count + 1
        BY <1>c, <2>h, <2>i, <3>1, <3>2, <3>4, <4>1
      <4>2. CASE k \notin DOMAIN counters /\ c = 1
        BY <2>n, <3>1, <3>2, <3>4, <4>2
      <4> QED BY <3>4, <4>1, <4>2
    <3> QED BY <1>8, <3>3, <3>4
  <2>2. CASE ~(Holding(key) \subseteq Holders(key))
    <3>1. /\ key = k /\ c <= limits[key[1]] /\ now < Over(key)
          /\ Holding(key) \subseteq Holders(key) \union {r}
      BY <1>14, <2>2
    <3>2. Counts
      BY <1>8, <2>l, <3>1
    <3>3. Cardinality(Holding(key)) <= Cardinality(Holders(key)) + 1
      <4>1. Holders(key) \union {r} \in SUBSET Requests
        BY <1>p
      <4>2. /\ Cardinality(Holding(key)) <= Cardinality(Holders(key) \union {r})
            /\ Cardinality(Holders(key) \union {r}) <= Cardinality(Holders(key)) + 1
            /\ Cardinality(Holders(key) \union {r}) \in Nat
        BY <1>p, <3>1, <4>1, Counting
      <4> QED BY <2>h, <4>2
    <3>4. Cardinality(Holders(key)) + 1 <= c
      <4>1. CASE k \in DOMAIN counters /\ c = counters[k].count + 1
        BY <1>c, <2>h, <2>i, <3>1, <4>1
      <4>2. CASE k \notin DOMAIN counters /\ c = 1
        BY <2>h, <2>n, <3>1, <4>2
      <4> QED BY <3>2, <4>1, <4>2
    <3> QED BY <2>h, <2>l, <3>1, <3>2, <3>3, <3>4
  <2> QED BY <2>1, <2>2
<1>16. RejectionIsEarned'
  <2> SUFFICES ASSUME NEW q \in Requests, requests'[q].outcome = "rejected",
                      requests'[q].kind = "contribution",
                      NEW key, key = KeyOf(requests'[q], Head(requests'[q].left))
               PROVE  Cardinality({p \in Requests \ {q} : key \in requests'[p].charged})
                        >= limits[Head(requests'[q].left)]
    BY DEF RejectionIsEarned, KeyAt, Key, KeyOf
  <2> DEFINE others == {p \in Requests \ {q} : key \in requests'[p].charged}
             before == {p \in Requests \ {q} : key \in requests[p].charged}
  <2>1. /\ others \in SUBSET Requests /\ before \in SUBSET Requests
        /\ before \subseteq others
    BY <1>12 DEF Payers
  <2>2. /\ Cardinality(others) \in Nat /\ Cardinality(before) \in Nat
        /\ Cardinality(before) <= Cardinality(others)
    BY <2>1, Counting
  <2>3. CASE q # r
    <3>1. requests'[q] = requests[q]
      BY <1>6, <2>3
    <3>2. Cardinality(before) >= limits[Head(requests[q].left)]
      BY <1>2, <3>1 DEF RejectionIsEarned, KeyAt, Key, KeyOf
    <3>3. Head(requests[q].left) \in Dimensions
      BY <1>2, <3>1, LeftIs DEF LeftFits
    <3> QED BY <1>t, <2>2, <3>1, <3>2, <3>3
  <2>4. CASE q = r
    <3>1. c > limits[k[1]] /\ Head(y.left) = k[1] /\ key = k /\ k[1] # "client"
      BY <1>3, <1>4, <1>5, <1>6, <1>k, <2>4 DEF Onward, KeyOf
    <3>2. limits[k[1]] \in Int
      BY <1>3, <1>t
    <3>3. before = Payers(k)
      BY <1>3, <2>4, <3>1 DEF Payers
    <3>4. k \in DOMAIN counters => counters[k].count <= Cardinality(before)
      BY <1>2, <3>1, <3>3 DEF CountsArePaid
    <3>5. 0 > limits[k[1]] \/ c = 1 \/ (k \in DOMAIN counters /\ c = counters[k].count + 1)
      BY <1>4, <1>6, <2>4
    <3> HIDE DEF others, before
    <3>6. Cardinality(others) >= limits[k[1]]
      BY <1>c, <2>2, <3>1, <3>2, <3>4, <3>5
    <3> QED BY <1>6, <2>4, <3>1, <3>6 DEF others
  <2> QED BY <2>3, <2>4
<1> QED BY <1>9, <1>10, <1>11, <1>13, <1>15, <1>16 DEF LimitsInvariant

LEMMA ArrivalKeeps ==
    ASSUME LimitsInvariant, NEW r \in Requests, NEW kind \in {"route", "contribution"},
           NEW caller \in Callers, Arrive(r, kind, caller)
    PROVE  LimitsInvariant'
<1>1. /\ LimitTypes /\ LeftFits /\ EachChargedFits /\ WindowsHaveBegun /\ Lasting
      /\ HoldersAreCounted /\ CountsArePaid /\ RejectionIsEarned
  BY DEF LimitsInvariant
<1>2. requests[r].at = "new" /\ UNCHANGED <<now, limits, counters>>
  BY DEF Arrive
<1>3. /\ now \in Nat /\ limits \in [Dimensions -> Int]
      /\ requests \in [Requests -> Requesting]
  BY <1>1 DEF LimitTypes
<1> DEFINE dimensions == DimensionsOf(kind)
           z == [Fresh EXCEPT !.at = "add", !.kind = kind, !.caller = caller,
                              !.read = now, !.left = dimensions]
<1>4. dimensions \in LeftOf(kind) /\ dimensions \in Seq(Dimensions)
      /\ {dimensions[i] : i \in DOMAIN dimensions} = DimsOf(kind)
  <2>1. CASE kind = "route"
    <3>1. dimensions = <<"client">>
      BY <2>1 DEF DimensionsOf
    <3>2. dimensions \in LeftOf(kind) /\ dimensions \in Seq(Dimensions)
      <4> HIDE DEF dimensions
      <4>1. dimensions \in LeftOf(kind)
        BY <2>1, <3>1 DEF LeftOf
      <4> QED BY <4>1, LeftIs
    <3>3. DOMAIN dimensions = 1..1 /\ dimensions[1] = "client"
      BY <3>1
    <3> HIDE DEF dimensions
    <3> QED BY <2>1, <3>2, <3>3 DEF DimsOf
  <2>2. CASE kind = "contribution"
    <3>1. dimensions = <<"network", "device", "contributor", "station">>
      BY <2>2 DEF DimensionsOf, ContributionDimensions
    <3>2. dimensions \in LeftOf(kind) /\ dimensions \in Seq(Dimensions)
      <4> HIDE DEF dimensions
      <4>1. dimensions \in LeftOf(kind)
        BY <2>2, <3>1 DEF LeftOf
      <4> QED BY <4>1, LeftIs
    <3>3. /\ DOMAIN dimensions = 1..4
          /\ dimensions[1] = "network" /\ dimensions[2] = "device"
          /\ dimensions[3] = "contributor" /\ dimensions[4] = "station"
      BY <3>1
    <3> HIDE DEF dimensions
    <3>4. {dimensions[i] : i \in 1..4}
             = {dimensions[1], dimensions[2], dimensions[3], dimensions[4]}
      OBVIOUS
    <3> QED BY <2>2, <3>2, <3>3, <3>4 DEF DimsOf
  <2> QED BY <2>1, <2>2
<1>5. /\ z \in Requesting /\ z.at = "add" /\ z.kind = kind /\ z.caller = caller
      /\ z.read = now /\ z.left = dimensions /\ z.charged = {} /\ z.outcome = "none"
  <2>1. Fresh \in [at: {"new", "add", "incr", "done"}, kind: {"route", "contribution"},
                   caller: {CHOOSE c \in Callers : TRUE}, read: Nat, left: {<<>>},
                   charged: {{}}, late: {{}}, outcome: {"none"}]
    BY DEF Fresh
  <2> HIDE DEF dimensions
  <2> QED BY <1>3, <1>4, <2>1 DEF Requesting
<1> HIDE DEF z
<1>6. PICK y : /\ requests' = [requests EXCEPT ![r] = y]
               /\ y = z \/ y = Uncounted(z)
  BY Zenon DEF Arrive, z
<1>7. /\ y \in Requesting /\ y.kind = kind /\ y.read = now /\ y.charged = {}
      /\ \/ y.at = "add" /\ y.left = dimensions /\ y.outcome = "none"
         \/ y.at = "done" /\ y.outcome \in {"unmetered", "unavailable"}
  BY <1>5, <1>6 DEF Uncounted, Done, Requesting
<1>8. /\ requests' \in [Requests -> Requesting] /\ requests'[r] = y
      /\ \A q \in Requests : q # r => requests'[q] = requests[q]
  BY <1>3, <1>6, <1>7
<1>9. PassedDims(y) = {}
  BY <1>4, <1>7 DEF PassedDims, OnItsWay, LeftDims
<1>10. requests[r].charged = {}
  BY <1>1, <1>2 DEF EachChargedFits, ChargedFits
<1>11. LimitTypes'
  BY <1>1, <1>2, <1>8 DEF LimitTypes
<1>12. LeftFits'
  <2>1. \A q : OnItsWay(requests[q])' <=> OnItsWay(requests'[q])
    BY DEF OnItsWay
  <2>2. /\ OnItsWay(y) => y.left \in LeftOf(y.kind) /\ y.outcome = "none"
        /\ y.at # "new" /\ y.outcome # "rejected"
    BY <1>4, <1>7 DEF OnItsWay
  <2> QED BY <1>1, <1>8, <2>1, <2>2 DEF LeftFits
<1>13. EachChargedFits'
  <2>1. ChargedFits(y)
    BY <1>7 DEF ChargedFits
  <2> QED BY <1>1, <1>8, <2>1 DEF EachChargedFits
<1>14. WindowsHaveBegun' /\ Lasting'
  <2>1. WindowsHaveBegun'
    BY <1>1, <1>2, <1>3, <1>7, <1>8 DEF WindowsHaveBegun
  <2>2. Lasting'
    BY <1>1, <1>2 DEF Lasting, Over
  <2> QED BY <2>1, <2>2
<1>15. \A key : Holders(key)' \subseteq Holders(key) /\ Payers(key)' = Payers(key)
  <2> TAKE key
  <2>1. \A q \in Requests : Passed(requests'[q], key) => Passed(requests[q], key)
    BY <1>8, <1>9 DEF Passed
  <2>2. \A q \in Requests : requests'[q].charged = requests[q].charged
    BY <1>7, <1>8, <1>10
  <2> QED BY <2>1, <2>2 DEF Holders, Payers
<1> DEFINE Paying(key) == {q \in Requests : key \in requests'[q].charged}
           Holding(key) == {q \in Requests : Passed(requests'[q], key)}
<1>16. \A key : Holding(key) \subseteq Holders(key) /\ Paying(key) = Payers(key)
  BY <1>15 DEF Holders, Payers
<1>17. HoldersAreCounted'
  <2> SUFFICES ASSUME NEW key \in Keys
               PROVE  /\ \/ Holding(key) = {}
                         \/ Cardinality(Holding(key)) <= limits[key[1]]
                      /\ now < Over(key) =>
                            IF key \in DOMAIN counters
                            THEN counters[key].count >= Cardinality(Holding(key))
                            ELSE Holding(key) = {}
    BY <1>2 DEF HoldersAreCounted, Over, Keys, Subjects, Holders
  <2> HIDE DEF Holding
  <2>1. /\ Cardinality(Holders(key)) \in Nat /\ Cardinality(Holding(key)) \in Nat
        /\ Cardinality(Holding(key)) <= Cardinality(Holders(key))
    <3>1. Holders(key) \in SUBSET Requests /\ Holding(key) \in SUBSET Requests
      BY <1>16 DEF Holders
    <3> QED BY <1>16, <3>1, Counting
  <2>2. /\ Holders(key) = {} \/ Cardinality(Holders(key)) <= limits[key[1]]
        /\ now < Over(key) => IF key \in DOMAIN counters
                              THEN counters[key].count >= Cardinality(Holders(key))
                              ELSE Holders(key) = {}
    BY <1>1 DEF HoldersAreCounted
  <2>3. limits[key[1]] \in Int
    <3>1. key[1] \in Dimensions
      BY DEF Keys
    <3> QED BY <1>3, <3>1
  <2>4. key \in DOMAIN counters => counters[key].count \in Nat
    BY <1>1 DEF LimitTypes
  <2>5. Holders(key) = {} => Holding(key) = {}
    BY <1>16
  <2> QED BY <2>1, <2>2, <2>3, <2>4, <2>5
<1>18. CountsArePaid'
  <2> SUFFICES ASSUME NEW key \in DOMAIN counters, key[1] # "client"
               PROVE  counters[key].count <= Cardinality(Paying(key))
    BY <1>2 DEF CountsArePaid, Payers
  <2> HIDE DEF Paying
  <2> QED BY <1>1, <1>16 DEF CountsArePaid
<1>19. RejectionIsEarned'
  <2> SUFFICES ASSUME NEW q \in Requests, requests'[q].outcome = "rejected",
                      requests'[q].kind = "contribution",
                      NEW key, key = KeyOf(requests'[q], Head(requests'[q].left))
               PROVE  Cardinality({p \in Requests \ {q} : key \in requests'[p].charged})
                        >= limits[Head(requests'[q].left)]
    BY <1>2 DEF RejectionIsEarned, KeyAt, Key, KeyOf
  <2>1. requests'[q] = requests[q]
    BY <1>7, <1>8
  <2>2. {p \in Requests \ {q} : key \in requests'[p].charged}
           = {p \in Requests \ {q} : key \in requests[p].charged}
    BY <1>16 DEF Payers
  <2>3. Cardinality({p \in Requests \ {q} : key \in requests[p].charged})
           >= limits[Head(requests[q].left)]
    BY <1>1, <2>1 DEF RejectionIsEarned, KeyAt, Key, KeyOf
  <2> QED BY <2>1, <2>2, <2>3
<1> QED BY <1>11, <1>12, <1>13, <1>14, <1>17, <1>18, <1>19 DEF LimitsInvariant

LEMMA SecondKeeps ==
    ASSUME LimitsInvariant, Second
    PROVE  LimitsInvariant'
<1>1. /\ LimitTypes /\ LeftFits /\ EachChargedFits /\ WindowsHaveBegun /\ Lasting
      /\ HoldersAreCounted /\ CountsArePaid /\ RejectionIsEarned
  BY DEF LimitsInvariant
<1>2. /\ now' = now + 1 /\ UNCHANGED <<limits, requests>>
      /\ DOMAIN counters' = {k \in DOMAIN counters : now + 1 < counters[k].expires}
      /\ \A k \in DOMAIN counters' : counters'[k] = counters[k]
  BY DEF Second
<1>3. /\ now \in Nat /\ requests \in [Requests -> Requesting]
      /\ \A r \in Requests : requests[r].read \in Nat
  BY <1>1 DEF LimitTypes, Requesting
<1>4. LimitTypes'
  BY <1>1, <1>2 DEF LimitTypes
<1>5. LeftFits' /\ EachChargedFits'
  BY <1>1, <1>2 DEF LeftFits, EachChargedFits, OnItsWay
<1>6. WindowsHaveBegun'
  <2>1. \A r \in Requests : requests[r].read <= now + 1
    BY <1>1, <1>3 DEF WindowsHaveBegun
  <2> QED BY <1>2, <2>1 DEF WindowsHaveBegun
<1>7. Lasting'
  BY <1>1, <1>2 DEF Lasting, Over
<1>8. HoldersAreCounted'
  <2>1. ASSUME NEW key \in Keys
        PROVE  /\ Holders(key) = {} \/ Cardinality(Holders(key)) <= limits[key[1]]
               /\ now + 1 < Over(key) =>
                     IF key \in DOMAIN counters'
                     THEN counters'[key].count >= Cardinality(Holders(key))
                     ELSE Holders(key) = {}
    <3>1. /\ Holders(key) = {} \/ Cardinality(Holders(key)) <= limits[key[1]]
          /\ now < Over(key) => IF key \in DOMAIN counters
                                THEN counters[key].count >= Cardinality(Holders(key))
                                ELSE Holders(key) = {}
      BY <1>1 DEF HoldersAreCounted
    <3>2. Over(key) \in Int
      <4>1. key[3] \in Nat
        BY DEF Keys
      <4> QED BY <4>1, LimitsAssumption DEF Over
    <3>3. key \in DOMAIN counters => /\ counters[key].expires \in Nat
                                     /\ Over(key) <= counters[key].expires
      BY <1>1 DEF LimitTypes, Lasting
    <3> QED BY <1>2, <1>3, <3>1, <3>2, <3>3
  <2>2. \A key : Holders(key)' = Holders(key)
    BY <1>2 DEF Holders
  <2> QED BY <1>2, <2>1, <2>2 DEF HoldersAreCounted, Over, Keys, Subjects
<1>9. CountsArePaid'
  BY <1>1, <1>2 DEF CountsArePaid, Payers
<1>10. RejectionIsEarned'
  BY <1>1, <1>2 DEF RejectionIsEarned, KeyAt, Key
<1> QED BY <1>4, <1>5, <1>6, <1>7, <1>8, <1>9, <1>10 DEF LimitsInvariant

LEMMA LimitsInductive == LimitsSpec => []LimitsInvariant
<1>1. LimitsInit => LimitsInvariant
  <2> SUFFICES ASSUME LimitsInit PROVE LimitsInvariant
    OBVIOUS
  <2>1. /\ now = 0 /\ limits \in [Dimensions -> Int] /\ DOMAIN counters = {}
        /\ requests = [r \in Requests |-> Fresh]
    BY LimitsAssumption DEF LimitsInit
  <2>2. /\ Fresh \in Requesting /\ Fresh.at = "new" /\ Fresh.outcome = "none"
        /\ Fresh.charged = {} /\ Fresh.read = 0
    <3>1. (CHOOSE c \in Callers : TRUE) \in Callers
      BY LimitsAssumption
    <3> QED BY <3>1 DEF Fresh, Requesting
  <2>3. \A r \in Requests : requests[r] = Fresh
    BY <2>1
  <2>4. PassedDims(Fresh) = {} /\ ChargedFits(Fresh)
    BY <2>2 DEF PassedDims, OnItsWay, ChargedFits
  <2>5. \A key : Holders(key) = {}
    BY <2>3, <2>4 DEF Holders, Passed
  <2>6. LimitTypes
    BY <2>1, <2>2 DEF LimitTypes
  <2>7. LeftFits /\ EachChargedFits /\ WindowsHaveBegun
    BY <2>1, <2>2, <2>3, <2>4 DEF LeftFits, EachChargedFits, WindowsHaveBegun, OnItsWay
  <2>8. Lasting /\ CountsArePaid
    BY <2>1 DEF Lasting, CountsArePaid
  <2>9. HoldersAreCounted
    BY <2>1, <2>5 DEF HoldersAreCounted
  <2>10. RejectionIsEarned
    BY <2>2, <2>3 DEF RejectionIsEarned
  <2> QED BY <2>6, <2>7, <2>8, <2>9, <2>10 DEF LimitsInvariant
<1>2. LimitsInvariant /\ [LimitsNext]_limitVars => LimitsInvariant'
  <2>1. ASSUME LimitsInvariant, NEW r \in Requests,
               Add(r) \/ LoseAdd(r) \/ Increase(r) \/ LoseIncrease(r)
        PROVE  LimitsInvariant'
    BY <2>1, RequestMoves, RequestKeeps
  <2>2. ASSUME LimitsInvariant, UNCHANGED limitVars PROVE LimitsInvariant'
    <3>1. UNCHANGED <<now, limits, counters, requests>>
      BY <2>2 DEF limitVars
    <3>2. LimitTypes' /\ LeftFits' /\ EachChargedFits' /\ WindowsHaveBegun'
      BY <2>2, <3>1 DEF LimitsInvariant, LimitTypes, LeftFits, EachChargedFits, WindowsHaveBegun, OnItsWay
    <3>3. Lasting'
      BY <2>2, <3>1 DEF LimitsInvariant, Lasting, Over
    <3>4. HoldersAreCounted'
      <4>1. \A key : Holders(key)' = Holders(key)
        BY <3>1 DEF Holders
      <4> QED BY <2>2, <3>1, <4>1
              DEF LimitsInvariant, HoldersAreCounted, Over, Keys, Subjects
    <3>5. CountsArePaid'
      BY <2>2, <3>1 DEF LimitsInvariant, CountsArePaid, Payers
    <3>6. RejectionIsEarned'
      BY <2>2, <3>1 DEF LimitsInvariant, RejectionIsEarned, KeyAt, Key
    <3> QED BY <3>2, <3>3, <3>4, <3>5, <3>6 DEF LimitsInvariant
  <2>3. ASSUME LimitsInvariant, NEW r \in Requests, NEW kind \in {"route", "contribution"},
               NEW caller \in Callers, Arrive(r, kind, caller)
        PROVE  LimitsInvariant'
    BY <2>3, ArrivalKeeps
  <2>4. ASSUME LimitsInvariant, Second PROVE LimitsInvariant'
    BY <2>4, SecondKeeps
  <2> QED BY <2>1, <2>2, <2>3, <2>4 DEF LimitsNext
<1> QED BY <1>1, <1>2, PTL DEF LimitsSpec

\* No counter lets more requests through than its limit, whatever commands and
\* answers the cache loses, of the requests it counts before a second has passed
\* since its window (timeout=window + 1 in rate_limit.py).
THEOREM LimitsHold == LimitsSpec => []WithinLimit
<1>1. LimitsInvariant => WithinLimit
  <2> SUFFICES ASSUME LimitsInvariant, NEW r \in Requests, NEW d \in Dimensions,
                      NEW same, same = {q \in Requests : /\ requests[q].outcome = "admitted"
                                                        /\ d \in ChargedIn(q)
                                                        /\ Key(q, d) = Key(r, d)
                                                        /\ d \notin requests[q].late}
               PROVE  Cardinality(same) <= limits[d] \/ same = {}
    BY DEF WithinLimit
  <2> DEFINE key == KeyOf(requests[r], d)
  <2>1. /\ requests \in [Requests -> Requesting] /\ limits[d] \in Int /\ HoldersAreCounted
    BY DEF LimitsInvariant, LimitTypes
  <2>2. key \in Keys /\ key[1] = d
    <3>1. requests[r].read \in Nat /\ requests[r].caller \in Callers
      BY <2>1 DEF Requesting
    <3>2. requests[r].read \div Window \in Nat
      BY <3>1, WindowOf
    <3>3. requests[r].caller[d] \in Subjects
      BY <3>1 DEF Subjects
    <3> QED BY <3>2, <3>3 DEF KeyOf, Keys
  <2>3. same \subseteq Holders(key)
    <3> SUFFICES ASSUME NEW q \in same PROVE Passed(requests[q], key)
      BY DEF Holders
    <3>1. q \in Requests /\ requests[q].outcome = "admitted" /\ d \in ChargedIn(q)
          /\ KeyOf(requests[q], d) = key /\ d \notin requests[q].late
      BY KeysOf
    <3>2. d \in DimsOf(requests[q].kind)
      <4>1. requests[q].kind \in {"route", "contribution"}
        BY <2>1, <3>1 DEF Requesting
      <4>2. CASE requests[q].kind = "route"
        BY <3>1, <4>2 DEF ChargedIn, DimensionsOf, DimsOf
      <4>3. CASE requests[q].kind = "contribution"
        BY <3>1, <4>3 DEF ChargedIn, DimensionsOf, ContributionDimensions, DimsOf
      <4> QED BY <4>1, <4>2, <4>3
    <3> QED BY <2>2, <3>1, <3>2 DEF Passed, PassedDims
  <2> HIDE DEF key
  <2>4. Holders(key) \in SUBSET Requests /\ same \in SUBSET Requests
    BY DEF Holders
  <2>5. /\ Cardinality(same) <= Cardinality(Holders(key))
        /\ Cardinality(same) \in Nat /\ Cardinality(Holders(key)) \in Nat
    BY <2>3, <2>4, Counting
  <2>6. Holders(key) = {} \/ Cardinality(Holders(key)) <= limits[d]
    BY <2>1, <2>2 DEF HoldersAreCounted
  <2> QED BY <2>1, <2>3, <2>5, <2>6
<1> QED BY <1>1, LimitsInductive, PTL

\* A contribution is told of a limit only after as many others as the limit
\* were charged for, also when answers of the cache are lost
\* (_increment_or_reject in contribution_rate_limit.py).
THEOREM RejectionsAreEarned == LimitsSpec => []RejectionIsEarned
<1>1. LimitsInvariant => RejectionIsEarned
  BY DEF LimitsInvariant
<1> QED BY <1>1, LimitsInductive, PTL

================================================================================
