------------------------------- MODULE RouteProxy -------------------------------
(***************************************************************************)
(* The same-origin proxy of the frontend (frontend/app/api/route/route.ts): *)
(* one invocation of POST per trip submitted.  It asks the backend, and      *)
(* when that looks asleep waits for its readiness and asks again.  Time is   *)
(* counted from the start of the invocation in units; a shorter wait       *)
(* takes at most one.                                                        *)
(*                                                                           *)
(* A reply is what fetch gives: a plan, a refusal (any other readable        *)
(* status, 429 included), a gateway status 502, 503 or 504, a body that is   *)
(* not JSON, or no reply: a network error or the timeout.                    *)
(***************************************************************************)
EXTENDS Integers, FiniteSets

CONSTANTS
    Trips,          \* invocations, by the request version of the page
    FirstTimeout,   \* 15_000 ms
    RetryTimeout,   \* 30_000 ms
    Deadline,       \* coldStartDeadlineMs
    PollTime,       \* one readiness check and the pause after it
    MaxDuration,    \* maxDuration of the function
    MaxAge          \* bound of the clock

ASSUME ProxyAssumption ==
    /\ Trips \subseteq Nat
    /\ {FirstTimeout, RetryTimeout, PollTime} \subseteq Nat \ {0}
    /\ FirstTimeout < Deadline /\ Deadline + PollTime + RetryTimeout <= MaxDuration
    /\ {Deadline, MaxDuration, MaxAge} \subseteq Nat /\ MaxDuration < MaxAge

VARIABLE proxy

\* tries: requests sent.  last: nothing catches a failure of the next request.
\* due: the age at which the call in flight is given up.
Invocation == [at: {"none", "asking", "waiting", "polling", "done"},
               age: 0..MaxAge, due: Nat, tries: 0..3, last: BOOLEAN,
               answer: {"none", "plan", "refused", "unavailable", "crash"}]

Idle == [at |-> "none", age |-> 0, due |-> 0, tries |-> 0, last |-> FALSE,
         answer |-> "none"]

ProxyInit == proxy = [i \in Trips |-> Idle]

MaxOf(a, b) == IF a > b THEN a ELSE b

\* requestRoute, for the first time and again.
Asking(p) ==
    [p EXCEPT !.at = "asking", !.tries = @ + 1,
              !.due = p.age + IF p.tries = 0 THEN FirstTimeout
                              ELSE MaxOf(RetryTimeout, Deadline - p.age)]

Waiting(p) == [p EXCEPT !.at = "waiting", !.due = 0]

Answering(p, answer) == [p EXCEPT !.at = "done", !.due = 0, !.answer = answer]

StartProxy(i) == proxy' = [proxy EXCEPT ![i] = Asking(Idle)]

\* A readable reply is passed on, but for a gateway status of the first
\* request.  proxyResponse is returned without await: a body that is not JSON
\* fails outside of both try blocks, and the page gets the platform's 500.
PassOn(i) ==
    /\ proxy[i].at = "asking"
    /\ \E reply \in {"plan", "refused", "gateway", "unreadable"} :
          \/ /\ reply = "gateway"
             /\ proxy[i].tries = 1
             /\ ~proxy[i].last
             /\ proxy' = [proxy EXCEPT ![i] = Waiting(@)]
          \/ /\ reply # "gateway" \/ proxy[i].tries > 1 \/ proxy[i].last
             /\ proxy' = [proxy EXCEPT ![i] = Answering(@,
                            CASE reply = "plan" -> "plan"
                              [] reply = "unreadable" -> "crash"
                              [] OTHER -> "refused")]

\* Mutant: the outer catch is entered again and again.
NeverLast(p) == FALSE

\* The last try: its failure is answered.
IsLast(p) == p.last

Unavailable(p) == Answering(p, "unavailable")

\* No reply, or a wait that ran out: caught by the outer catch once, which
\* waits and asks once more; the next failure is answered with 503.
Caught(p) == IF IsLast(p) THEN Unavailable(p)
             ELSE [Waiting(p) EXCEPT !.last = TRUE]

LoseReply(i) ==
    /\ proxy[i].at = "asking"
    /\ proxy' = [proxy EXCEPT ![i] = Caught(@)]

TooLate(p) == p.age >= Deadline

\* waitForBackend: the next readiness check, or the deadline's exception.
Wait(i) ==
    /\ proxy[i].at = "waiting"
    /\ proxy' = [proxy EXCEPT ![i] =
          IF TooLate(@) THEN Caught(@)
          ELSE [@ EXCEPT !.at = "polling", !.due = proxy[i].age + PollTime]]

\* The check succeeds and the request is repeated, or it fails and the loop
\* goes on.
Poll(i) ==
    /\ proxy[i].at = "polling"
    /\ \/ proxy' = [proxy EXCEPT ![i] = Asking(@)]
       \/ proxy' = [proxy EXCEPT ![i] = Waiting(@)]

\* Time passes while a call is in flight, never beyond its timeout; the
\* statements between two awaits take none.  Nothing relates the clocks of two
\* invocations.
Tick(i) ==
    /\ proxy[i].at \in {"asking", "polling"}
    /\ proxy[i].age < proxy[i].due
    /\ proxy[i].age < MaxAge
    /\ proxy' = [proxy EXCEPT ![i].age = @ + 1]

ProxyStep(i) == PassOn(i) \/ LoseReply(i) \/ Wait(i) \/ Poll(i)

--------------------------------------------------------------------------------
(* Properties *)

\* Whatever the backend does, an invocation answers before the platform's
\* maxDuration ends it, having asked at most three times: each request is
\* charged to the client's quota (coldStartDeadlineMs, requestRoute).
AnsweredInTime ==
    \A i \in Trips : /\ proxy[i].age < MaxDuration
                     /\ proxy[i].tries <= 3

--------------------------------------------------------------------------------
\* The inductive invariant behind AnsweredInTime: how far an invocation can be,
\* and how often it has asked, at each of its awaits.
OnTime(p) ==
    /\ p \in Invocation
    /\ p.age < MaxDuration /\ p.tries <= 3
    /\ p.at = "asking" => /\ p.age <= p.due /\ p.due < MaxDuration
                          /\ p.tries >= 1 /\ (~p.last => p.tries <= 2)
    /\ p.at \in {"waiting", "polling"} => /\ p.tries >= 1 /\ p.tries <= 2
                                          /\ ~p.last => p.tries = 1
    /\ p.at = "polling" => p.age <= p.due /\ p.due < Deadline + PollTime

ProxyInvariant == /\ proxy \in [Trips -> Invocation]
                  /\ \A i \in Trips : OnTime(proxy[i])

================================================================================
