-------------------------------- MODULE TripPage --------------------------------
(***************************************************************************)
(* The planning page (frontend/components/route-planner/RoutePlanner.tsx,   *)
(* frontend/lib/api.ts) over the proxy.  A visitor submits trips and cancels *)
(* them; aborting a call does not stop the proxy, and the page sets no        *)
(* timeout of its own.  The state setters of one   *)
(* continuation take effect together.                                        *)
(***************************************************************************)
EXTENDS RouteProxy

CONSTANT Nobody

ASSUME PageAssumption == Nobody \notin Trips /\ 0 \notin Trips

VARIABLES
    requestVersion,
    activeRequest,   \* the call whose controller the page holds
    isLoading,
    shown,           \* the plan or the error on the page
    call             \* the page's fetch of each trip

pageVars == <<requestVersion, activeRequest, isLoading, shown, call>>

vars == <<proxy, pageVars>>

Empty == [kind |-> "empty", of |-> Nobody]

PageInit ==
    /\ requestVersion = 0
    /\ activeRequest = Nobody
    /\ isLoading = FALSE
    /\ shown = Empty
    /\ call = [i \in Trips |-> "none"]

Init == ProxyInit /\ PageInit

\* AbortController.abort(): a call in flight is rejected, a settled one is not.
Aborted ==
    [i \in Trips |-> IF i = activeRequest /\ call[i] = "sent"
                     THEN "rejected" ELSE call[i]]

\* cancelPlanning: ++requestVersion.
NextVersion == requestVersion + 1

\* handlePlan up to its await; the form is disabled while a trip is loading.
Submit ==
    /\ ~isLoading
    /\ requestVersion + 1 \in Trips
    /\ requestVersion' = requestVersion + 1
    /\ activeRequest' = requestVersion + 1
    /\ isLoading' = TRUE
    /\ shown' = Empty
    /\ call' = [Aborted EXCEPT ![requestVersion + 1] = "sent"]
    /\ StartProxy(requestVersion + 1)

Cancel ==
    /\ isLoading
    /\ requestVersion' = NextVersion
    /\ activeRequest' = Nobody
    /\ isLoading' = FALSE
    /\ call' = Aborted
    /\ UNCHANGED <<proxy, shown>>

\* planRoute reads a plan out of the proxy's answer, or throws.
Receive(i) ==
    /\ call[i] = "sent"
    /\ proxy[i].at = "done"
    /\ call' = [call EXCEPT ![i] =
                   IF proxy[i].answer = "plan" THEN "resolved" ELSE "rejected"]
    /\ UNCHANGED <<proxy, requestVersion, activeRequest, isLoading, shown>>

\* The connection to the proxy fails; the proxy does not notice.
LoseCall(i) ==
    /\ call[i] = "sent"
    /\ call' = [call EXCEPT ![i] = "rejected"]
    /\ UNCHANGED <<proxy, requestVersion, activeRequest, isLoading, shown>>

IsCurrent(i) == requestVersion = i

\* Mutant: loading ends where a plan is shown, not in finally.
EndsOnPlan(i) == IsCurrent(i) /\ call[i] = "resolved"

\* The test in finally.
EndsLoading(i) == IsCurrent(i)

\* Mutant: a plan is shown as it comes.
ShownAsItComes(i) == call[i] = "resolved" \/ IsCurrent(i)

\* The tests before setRoutePlan and setError.
MayShow(i) == IsCurrent(i)

\* The continuation of handlePlan.
Settle(i) ==
    /\ call[i] \in {"resolved", "rejected"}
    /\ shown' = IF ~MayShow(i) THEN shown
                ELSE [kind |-> IF call[i] = "resolved" THEN "plan" ELSE "error",
                      of |-> i]
    /\ isLoading' = (isLoading /\ ~EndsLoading(i))
    /\ call' = [call EXCEPT ![i] = "settled"]
    /\ UNCHANGED <<proxy, requestVersion, activeRequest>>

Next == \/ Submit \/ Cancel
        \/ \E i \in Trips : \/ Receive(i) \/ LoseCall(i) \/ Settle(i)
                            \/ ProxyStep(i) /\ UNCHANGED pageVars
                            \/ Tick(i) /\ UNCHANGED pageVars

\* The proxy's calls end by their timeouts, time goes on, and the browser runs
\* what is ready; visitors need not do anything.
Fairness ==
    \A i \in Trips : /\ WF_vars(Receive(i)) /\ WF_vars(Settle(i))
                     /\ WF_vars(ProxyStep(i) /\ UNCHANGED pageVars)
                     /\ SF_vars(Tick(i) /\ UNCHANGED pageVars)

Spec == Init /\ [][Next]_vars /\ Fairness

--------------------------------------------------------------------------------
(* Properties *)

\* The plan or error on the page belongs to the trip submitted last, and the
\* page says that it loads exactly while that trip is open: an answer that
\* arrives after its trip was cancelled is dropped, and does not end the
\* loading of its successor (requestVersion in handlePlan).
PageFollowsLastTrip ==
    /\ shown # Empty => shown.of = requestVersion /\ ~isLoading
    /\ isLoading <=> /\ requestVersion \in Trips
                     /\ call[requestVersion] \in {"sent", "resolved", "rejected"}

\* The page never loads for ever, however the backend behaves.
LoadingEnds == isLoading ~> ~isLoading

--------------------------------------------------------------------------------
(* The inductive invariant behind PageFollowsLastTrip.                        *)

PageTypes ==
    /\ requestVersion \in Nat
    /\ isLoading \in BOOLEAN
    /\ call \in [Trips -> {"none", "sent", "resolved", "rejected", "settled"}]

\* No trip is called before its version.
CallsAreNumbered == \A i \in Trips : i > requestVersion => call[i] = "none"

PageInvariant == PageTypes /\ CallsAreNumbered /\ PageFollowsLastTrip

================================================================================
