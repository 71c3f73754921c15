----------------------------- MODULE PriceResolver -----------------------------
(***************************************************************************)
(* The price a station is given (routes/domain/price_resolver.py) while its *)
(* evidence comes and goes: observations are accepted, are retracted (or    *)
(* lose their source), become effective and expire.                         *)
(*                                                                          *)
(* An observation is named by its place in the order of arrival, which      *)
(* stands for received_at and the primary key in ties.  load passes only    *)
(* accepted rows of the station or of places around it.                     *)
(***************************************************************************)
EXTENDS Medians, Sequences

CONSTANTS
    Reports,           \* observations that may arrive
    MaxReports, MaxTime,
    Grade,             \* the fuel grade asked for
    AllowStale,        \* allow_stale of the request
    AbsoluteTolerance, PercentTolerance,
    NoContributor

Kinds == {"official", "community", "third_party", "model"}

\* PRECISION_RANK: a smaller number is a smaller place.
Station == 0
Precisions == 0..4

ASSUME ResolverAssumption ==
    /\ \A r \in Reports :
          /\ r.source \in Kinds /\ r.precision \in Precisions
          /\ r.price \in Nat \ {0}
          /\ r.observed \in Int /\ r.effective \in Int
          /\ r.expires \in Int /\ r.expires > r.observed
    /\ MaxReports \in Nat /\ MaxTime \in Nat /\ AllowStale \in BOOLEAN
    /\ AbsoluteTolerance \in Nat /\ PercentTolerance \in 0..100

VARIABLES
    report,    \* what arrived, in order
    accepted,  \* which of it the catalogue still reads
    asOf       \* the time of the request

resolverVars == <<report, accepted, asOf>>

\* _matches_request, with the state and the effective date.
Candidates == {o \in accepted : /\ report[o].grade = Grade
                                /\ report[o].effective <= asOf}

\* is_current
CurrentOnes == {o \in Candidates : asOf < report[o].expires}

\* _newer, and the order of max() in _best.
Newer(o, q) == \/ report[o].observed > report[q].observed
               \/ report[o].observed = report[q].observed /\ o > q

\* _best: the newest of the most precise.
Best(S) == CHOOSE o \in S :
              \A q \in S : \/ report[o].precision < report[q].precision
                           \/ /\ report[o].precision = report[q].precision
                              /\ o = q \/ Newer(o, q)

Unavailable == [label |-> "unavailable", ids |-> {}]

SingleQuote(o, label, confidence) ==
    [label |-> label, ids |-> {o}, twicePrice |-> 2 * report[o].price,
     precision |-> report[o].precision, confidence |-> confidence,
     expires |-> report[o].expires]

\* Mutant: every report is a voice of its own.
EveryReport(S) == {o \in S : report[o].contributor # NoContributor}

\* latest_by_contributor
Independent(S) ==
    {o \in S : /\ report[o].contributor # NoContributor
               /\ \A q \in S : report[q].contributor = report[o].contributor
                                 => q = o \/ Newer(o, q)}

\* The independent reports within the tolerance of their median.
Agreeing(S) ==
    LET voices == Independent(S)
    IN  IF Cardinality(voices) < 2 THEN {}
        ELSE {o \in voices : ~Beyond(report[o].price, TwiceMedian(report, voices),
                                     AbsoluteTolerance, PercentTolerance)}

FirstExpiry(S) == CHOOSE t \in {report[o].expires : o \in S} :
                     \A o \in S : t <= report[o].expires

\* _community_consensus, when there is one.
ConsensusQuote(S) ==
    [label |-> "reported", ids |-> S, twicePrice |-> TwiceMedian(report, S),
     precision |-> Station,
     confidence |-> IF Cardinality(S) >= 3 THEN "high" ELSE "medium",
     expires |-> FirstExpiry(S)]

Of(source) == {o \in CurrentOnes : report[o].source = source}
AtStation(S) == {o \in S : report[o].precision = Station}
Expired == {o \in Candidates : report[o].expires <= asOf}

\* Mutant: a third-party city price is tried before an official one.
ThirdPartyFirst ==
    CASE Of("third_party") # {} -> SingleQuote(Best(Of("third_party")), "reference", "low")
      [] OTHER -> SingleQuote(Best(Of("official")), "reference", "low")

\* The best reference of a place: official, else third party.
Reference ==
    CASE Of("official") # {} -> SingleQuote(Best(Of("official")), "reference", "low")
      [] OTHER -> SingleQuote(Best(Of("third_party")), "reference", "low")

\* Mutant: an expired value counts as an estimate when nothing is current.
StaleByDefault ==
    IF Expired # {} THEN SingleQuote(Best(Expired), "estimated", "low")
    ELSE Unavailable

\* Nothing current is left.
StaleQuote ==
    IF AllowStale /\ Expired # {} THEN SingleQuote(Best(Expired), "stale", "low")
    ELSE Unavailable

\* resolve_price_quote
Quote ==
    LET community == AtStation(Of("community"))
        agreeing == Agreeing(community)
    IN  CASE AtStation(Of("official")) # {} ->
                SingleQuote(Best(AtStation(Of("official"))), "reference", "high")
          [] AtStation(Of("official")) = {} /\ Cardinality(agreeing) >= 2 ->
                ConsensusQuote(agreeing)
          [] AtStation(Of("official")) = {} /\ Cardinality(agreeing) < 2
               /\ community # {} ->
                SingleQuote(Best(community), "reported", "low")
          [] AtStation(Of("official")) = {} /\ community = {}
               /\ Of("official") \union Of("third_party") # {} -> Reference
          [] Of("official") \union Of("third_party") \union community = {}
               /\ Of("model") # {} ->
                SingleQuote(Best(Of("model")), "estimated", "low")
          [] OTHER -> StaleQuote

--------------------------------------------------------------------------------
ResolverInit == report = <<>> /\ accepted = {} /\ asOf = 0

Accept ==
    /\ Len(report) < MaxReports
    /\ \E r \in Reports : report' = Append(report, r)
    /\ accepted' = accepted \union {Len(report')}
    /\ UNCHANGED asOf

Retract ==
    /\ \E o \in accepted : accepted' = accepted \ {o}
    /\ UNCHANGED <<report, asOf>>

Advance ==
    /\ asOf < MaxTime
    /\ asOf' = asOf + 1
    /\ UNCHANGED <<report, accepted>>

ResolverNext == Accept \/ Retract \/ Advance

ResolverSpec == ResolverInit /\ [][ResolverNext]_resolverVars

--------------------------------------------------------------------------------
(* Properties *)

\* How strong a piece of evidence is, whatever its label: station references,
\* then station reports, then references of places, then estimates.
Strength(o) ==
    LET r == report[o]
    IN  CASE r.source = "official" -> IF r.precision = Station THEN 5 ELSE 3
          [] r.source = "community" -> IF r.precision = Station THEN 4 ELSE 0
          [] r.source = "third_party" -> 2
          [] r.source = "model" -> 1

\* A quote rests on evidence that is usable now: of the grade asked for, in
\* effect, and current, unless the quote says that it is stale; no evidence is
\* still in use when the quote expires (resolve_price_quote).
QuoteRestsOnUsableEvidence ==
    \A o \in Quote.ids :
        /\ o \in accepted /\ report[o].grade = Grade /\ report[o].effective <= asOf
        /\ (Quote.label # "stale") = (asOf < report[o].expires)
        /\ Quote.expires <= report[o].expires

\* A report above low confidence is the agreement of as many contributors as
\* the quote names observations, each by its latest current report
\* (_community_consensus).
ConsensusIsIndependent ==
    Quote.label = "reported" /\ Quote.confidence # "low" =>
        /\ Cardinality({report[o].contributor : o \in Quote.ids})
              = Cardinality(Quote.ids)
        /\ Cardinality(Quote.ids) >= IF Quote.confidence = "high" THEN 3 ELSE 2
        /\ \A o \in Quote.ids, q \in CurrentOnes :
              report[q].contributor = report[o].contributor
                /\ report[q].precision = Station /\ report[q].source = "community"
              => ~Newer(q, o)

\* Weaker evidence never displaces stronger: what arrives or goes changes a
\* quote only if it is at least as strong as the evidence the quote rests on.
WeakerEvidenceNeverDisplaces ==
    [][asOf' = asOf /\ Quote.label \notin {"stale", "unavailable"} =>
          LET changed == (accepted' \ accepted) \union (accepted \ accepted')
          IN  (\A o \in changed, q \in Quote.ids : Strength(o)' < Strength(q))
                => Quote' = Quote]_resolverVars

\* A new contributor reports a price further than twice the tolerance from
\* any other (the ledger accepts one up to a tenth off).
FarOffReport ==
    LET new == report'[Len(report')]
    IN  /\ Accept
        /\ new.grade = Grade /\ new.source = "community" /\ new.effective <= asOf
        /\ \A o \in accepted :
              /\ new.contributor # report[o].contributor
              /\ Beyond(new.price, 2 * report[o].price, 2 * AbsoluteTolerance,
                        2 * PercentTolerance)

\* test_independent_consensus_excludes_outlier: a report far from what two
\* contributors agree on does not change the quote.
OutlierLeavesConsensus ==
    [][FarOffReport /\ Quote.label = "reported" /\ Quote.confidence # "low"
       => Quote'.twicePrice = Quote.twicePrice]_resolverVars

================================================================================
