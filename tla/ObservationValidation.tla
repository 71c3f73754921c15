------------------------- MODULE ObservationValidation -------------------------
(***************************************************************************)
(* The verdict on one submitted price (routes/domain/                      *)
(* observation_validation.py) and the queries that build its context       *)
(* (_validation_context in routes/application/observations.py).            *)
(*                                                                         *)
(* Prices are integers in minor units, times integers.  The reason string  *)
(* of a verdict is left out: every check that rejects precedes every check *)
(* that quarantines, so the state of the verdict is decided by which of    *)
(* the two groups applies.                                                 *)
(***************************************************************************)
EXTENDS Medians

CONSTANTS
    Policy,          \* settings.OBSERVATION_POLICY as an ObservationPolicy
    NoContributor    \* the empty contributor_id of an import

\* ObservationPolicy.__post_init__ refuses any other policy.  Tolerances are
\* in minor units and in percent.
ASSUME PolicyAssumption ==
    /\ Policy \in [minPrice: Nat, maxPrice: Nat, maxAge: Nat, futureSkew: Nat,
                   duplicateWindow: Nat, rapidWindow: Nat,
                   absoluteTolerance: Nat, relativeTolerance: 0..100]
    /\ 0 < Policy.minPrice /\ Policy.minPrice < Policy.maxPrice

States == {"PENDING", "ACCEPTED", "QUARANTINED", "REJECTED", "RETRACTED",
           "SUPERSEDED"}

\* |price - median| > max(absolute, median * relative)
Outlier(view, S, price) ==
    /\ S # {}
    /\ Beyond(price, TwiceMedian(view, S), Policy.absoluteTolerance,
              Policy.relativeTolerance)

\* The contributor's own rows of the series, inside the duplicate window;
\* S is the series' rows visible to the query.
ContributorRows(view, S, cmd, received) ==
    {o \in S : /\ cmd.contributor # NoContributor
               /\ view[o].contributor = cmd.contributor
               /\ view[o].observed >= received - Policy.duplicateWindow
               /\ view[o].state \notin {"RETRACTED", "SUPERSEDED"}}

IsDuplicate(view, S, cmd, received) ==
    \E o \in ContributorRows(view, S, cmd, received) : view[o].price = cmd.price

IsRapidUpdate(view, S, cmd, received) ==
    /\ ~IsDuplicate(view, S, cmd, received)
    /\ \E o \in ContributorRows(view, S, cmd, received) :
           view[o].observed >= received - Policy.rapidWindow

\* The accepted, current prices of others that the submission is compared with.
ComparableRows(view, S, cmd, received) ==
    {o \in S : /\ view[o].state = "ACCEPTED"
               /\ view[o].observed >= received - Policy.maxAge
               /\ view[o].effective <= received
               /\ view[o].expires > received
               /\ \/ view[o].contributor = NoContributor
                  \/ view[o].contributor # cmd.contributor}

\* A context is the outcome of the queries: eligible (compatible fuel, station
\* accepting reports), duplicate, rapid, and outlier against the comparables.
Rejects(cmd, received, context) ==
    \/ ~(Policy.minPrice <= cmd.price /\ cmd.price <= Policy.maxPrice)
    \/ cmd.observed > received + Policy.futureSkew
    \/ cmd.observed < received - Policy.maxAge
    \/ ~context.eligible
    \/ context.duplicate

Quarantines(context) == context.rapid \/ context.outlier

\* Mutant: the reason of a duplicate stored in place of its state.
VerdictReasonAsState(cmd, received, context) ==
    IF context.duplicate THEN "DUPLICATE"
    ELSE IF Rejects(cmd, received, context) THEN "REJECTED"
    ELSE IF Quarantines(context) THEN "QUARANTINED"
    ELSE "ACCEPTED"

Verdict(cmd, received, context) ==
    IF Rejects(cmd, received, context) THEN "REJECTED"
    ELSE IF Quarantines(context) THEN "QUARANTINED"
    ELSE "ACCEPTED"

================================================================================
