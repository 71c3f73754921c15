----------------------------- MODULE ResolverProofs -----------------------------
(***************************************************************************)
(* What is proved of PriceResolver for any reports, in any number: a quote  *)
(* rests on usable evidence, a consensus on independent contributors, and   *)
(* weaker evidence never displaces stronger.                                *)
(*                                                                         *)
(* Quote takes the best of a set of reports, so the proofs need that every  *)
(* non-empty finite set has one (LastExists).                               *)
(***************************************************************************)
EXTENDS PriceResolver, FiniteSetTheorems, TLAPS

--------------------------------------------------------------------------------
(* Orders on finite sets *)

\* A non-empty finite set that R orders totally has a last element: a smallest
\* subset without one would have two elements or more, and dropping one of them
\* leaves a subset that has one.
LEMMA LastExists ==
    ASSUME NEW S, IsFiniteSet(S), S # {}, NEW R,
           \A x \in S, y \in S : <<x, y>> \in R \/ <<y, x>> \in R,
           \A x \in S, y \in S, z \in S :
              <<x, y>> \in R /\ <<y, z>> \in R => <<x, z>> \in R
    PROVE  \E x \in S : \A y \in S : <<y, x>> \in R
<1> DEFINE HasLast(T) == \E x \in T : \A y \in T : <<y, x>> \in R
           Without == {T \in FiniteSubsetsOf(S) : T # {} /\ ~HasLast(T)}
<1>1. S \in FiniteSubsetsOf(S)
  BY DEF FiniteSubsetsOf
<1>2. SUFFICES Without = {}
  BY <1>1
<1>3. SUFFICES ASSUME Without # {} PROVE FALSE
  OBVIOUS
<1> HIDE DEF HasLast
<1>4. Without \subseteq FiniteSubsetsOf(S)
  OBVIOUS
<1>5. IsWellFoundedOn(StrictSubsetOrdering(S), FiniteSubsetsOf(S))
  BY FS_StrictSubsetOrderingWellFounded
<1>6. PICK T \in Without : \A U \in Without : ~(<<U, T>> \in StrictSubsetOrdering(S))
  BY <1>3, <1>4, <1>5, WFMin
<1>7. /\ T \subseteq S /\ IsFiniteSet(T) /\ T # {} /\ ~HasLast(T)
  BY <1>6 DEF FiniteSubsetsOf
<1>8. PICK x \in T : TRUE
  BY <1>7
<1> DEFINE U == T \ {x}
<1>9. /\ U \in SUBSET S /\ IsFiniteSet(U)
  BY <1>7, FS_Subset
<1>10. CASE U = {}
  <2>1. T = {x}
    BY <1>8, <1>10
  <2>2. <<x, x>> \in R
    BY <1>7, <1>8
  <2> QED BY <1>7, <2>1, <2>2 DEF HasLast
<1>11. CASE U # {}
  <2>1. <<U, T>> \in StrictSubsetOrdering(S)
    BY <1>7, <1>8, <1>9 DEF StrictSubsetOrdering
  <2>2. U \notin Without
    BY <1>6, <2>1
  <2>3. U \in FiniteSubsetsOf(S)
    BY <1>9 DEF FiniteSubsetsOf
  <2>4. HasLast(U)
    BY <1>11, <2>2, <2>3
  <2>5. PICK y \in U : \A z \in U : <<z, y>> \in R
    BY <2>4 DEF HasLast
  <2>6. CASE <<x, y>> \in R
    BY <1>7, <2>5, <2>6 DEF HasLast
  <2>7. CASE <<y, x>> \in R
    <3>1. \A z \in T : <<z, x>> \in R
      BY <1>7, <1>8, <2>5, <2>7
    <3> QED BY <1>7, <1>8, <3>1 DEF HasLast
  <2> QED BY <1>7, <1>8, <2>5, <2>6, <2>7
<1> QED BY <1>10, <1>11

--------------------------------------------------------------------------------
(* What a state of the resolver is *)

\* The reports that arrived, those of them still read, and the clock.
ResolverTypes ==
    /\ report \in Seq(Reports)
    /\ accepted \subseteq 1..Len(report)
    /\ asOf \in 0..MaxTime

LEMMA TypesStep == ASSUME ResolverTypes, [ResolverNext]_resolverVars PROVE ResolverTypes'
<1> USE ResolverAssumption DEF ResolverTypes
<1>1. CASE Accept
  <2>1. PICK r \in Reports : report' = Append(report, r)
    BY <1>1 DEF Accept
  <2>2. /\ report' \in Seq(Reports) /\ Len(report') = Len(report) + 1
        /\ accepted' = accepted \union {Len(report')} /\ asOf' = asOf
    BY <1>1, <2>1 DEF Accept
  <2>3. 1..Len(report) \subseteq 1..Len(report') /\ Len(report') \in 1..Len(report')
    BY <2>2
  <2> QED BY <2>2, <2>3
<1>2. CASE Retract
  BY <1>2 DEF Retract
<1>3. CASE Advance
  BY <1>3 DEF Advance
<1>4. CASE UNCHANGED resolverVars
  BY <1>4 DEF resolverVars
<1> QED BY <1>1, <1>2, <1>3, <1>4 DEF ResolverNext

\* The typing of the resolver's state.
THEOREM ResolverTyped == ResolverSpec => []ResolverTypes
<1>1. ResolverInit => ResolverTypes
  BY ResolverAssumption DEF ResolverInit, ResolverTypes
<1>2. ResolverTypes /\ [ResolverNext]_resolverVars => ResolverTypes'
  BY TypesStep
<1> QED BY <1>1, <1>2, PTL DEF ResolverSpec

\* What is read is finite, and each of it a report.
LEMMA ReadOnes ==
    ASSUME ResolverTypes
    PROVE  /\ accepted \subseteq Int /\ IsFiniteSet(accepted)
           /\ \A o \in accepted : report[o] \in Reports
           /\ asOf \in Int
<1>1. Len(report) \in Nat
  BY DEF ResolverTypes
<1>2. IsFiniteSet(1..Len(report))
  BY <1>1, FS_Interval
<1>3. IsFiniteSet(accepted)
  BY <1>2, FS_Subset DEF ResolverTypes
<1> QED BY <1>1, <1>3, ResolverAssumption DEF ResolverTypes

\* The best of some reports is one of them, and none is better.
Preferred(o, q) ==
    \/ report[o].precision < report[q].precision
    \/ /\ report[o].precision = report[q].precision
       /\ o = q \/ Newer(o, q)

LEMMA BestIsPreferred ==
    ASSUME ResolverTypes, NEW S, S \subseteq accepted, S # {}
    PROVE  /\ Best(S) \in S
           /\ \A q \in S : Preferred(Best(S), q)
<1>1. /\ S \subseteq Int
      /\ \A o \in S : report[o].precision \in Int /\ report[o].observed \in Int
  BY ReadOnes, ResolverAssumption DEF Precisions
<1>2. IsFiniteSet(S)
  BY ReadOnes, FS_Subset
<1> DEFINE R == {e \in S \X S : Preferred(e[2], e[1])}
<1>3. \A x \in S, y \in S : <<x, y>> \in R \/ <<y, x>> \in R
  BY <1>1 DEF Preferred, Newer
<1>4. \A x \in S, y \in S : <<x, y>> \in R <=> Preferred(y, x)
  OBVIOUS
<1>5. \A x \in S, y \in S, z \in S :
         Preferred(y, x) /\ Preferred(z, y) => Preferred(z, x)
  BY <1>1 DEF Preferred, Newer
<1> HIDE DEF R
<1>a. \A x \in S, y \in S, z \in S : <<x, y>> \in R /\ <<y, z>> \in R => <<x, z>> \in R
  BY <1>4, <1>5
<1>6. \E o \in S : \A q \in S : <<q, o>> \in R
  BY <1>2, <1>3, <1>a, LastExists
<1>7. \E o \in S : \A q \in S : Preferred(o, q)
  BY <1>4, <1>6
<1> QED BY <1>7 DEF Best, Preferred

LEMMA OnlyOneIsPreferred ==
    ASSUME ResolverTypes, NEW o \in accepted, NEW q \in accepted,
           Preferred(o, q), Preferred(q, o)
    PROVE  o = q
<1>1. /\ o \in Int /\ q \in Int
      /\ report[o].precision \in Int /\ report[o].observed \in Int
      /\ report[q].precision \in Int /\ report[q].observed \in Int
  BY ReadOnes, ResolverAssumption DEF Precisions
<1> QED BY <1>1 DEF Preferred, Newer

--------------------------------------------------------------------------------
(* What a quote can be *)

\* The quote of a request is one of these, by the evidence it rests on.
QuotesBest(S, label, confidence) ==
    /\ S # {} /\ S \subseteq Candidates
    /\ Quote = SingleQuote(Best(S), label, confidence)

ReportsAtStation == AtStation(Of("community"))

QuotesConsensus ==
    /\ Cardinality(Agreeing(ReportsAtStation)) >= 2
    /\ Quote = ConsensusQuote(Agreeing(ReportsAtStation))

\* How many agree is a number.
LEMMA AgreeingFinite ==
    ASSUME ResolverTypes, NEW S, S \subseteq accepted
    PROVE  /\ Agreeing(S) \subseteq Independent(S) /\ Independent(S) \subseteq S
           /\ IsFiniteSet(Independent(S)) /\ IsFiniteSet(Agreeing(S))
           /\ Cardinality(Agreeing(S)) \in Nat
<1>1. Agreeing(S) \subseteq Independent(S) /\ Independent(S) \subseteq S
  BY DEF Agreeing, Independent
<1>2. IsFiniteSet(Independent(S)) /\ IsFiniteSet(Agreeing(S))
  BY <1>1, ReadOnes, FS_Subset
<1> QED BY <1>1, <1>2, FS_CardinalityType

ReferencesAtStation == AtStation(Of("official"))

LEMMA CandidateFacts ==
    /\ Candidates \subseteq accepted
    /\ \A o \in Candidates : report[o].grade = Grade /\ report[o].effective <= asOf
    /\ CurrentOnes \subseteq Candidates /\ Expired \subseteq Candidates
    /\ \A o \in CurrentOnes : asOf < report[o].expires
    /\ \A o \in Expired : report[o].expires <= asOf
    /\ \A source : /\ Of(source) \subseteq CurrentOnes
                   /\ AtStation(Of(source)) \subseteq Of(source)
    /\ ReportsAtStation \subseteq CurrentOnes
  BY DEF Candidates, CurrentOnes, Expired, Of, AtStation, ReportsAtStation

\* The order in which the resolver looks for evidence.
EvidenceInOrder ==
    /\ Cardinality(Agreeing(ReportsAtStation)) \in Nat
    /\ ReferencesAtStation # {} =>
          Quote = SingleQuote(Best(ReferencesAtStation), "reference", "high")
    /\ ReferencesAtStation = {} /\ Cardinality(Agreeing(ReportsAtStation)) >= 2 =>
          Quote = ConsensusQuote(Agreeing(ReportsAtStation))
    /\ /\ ReferencesAtStation = {} /\ ReportsAtStation # {}
       /\ ~(Cardinality(Agreeing(ReportsAtStation)) >= 2)
       => Quote = SingleQuote(Best(ReportsAtStation), "reported", "low")
    /\ ReferencesAtStation = {} /\ ReportsAtStation = {} =>
          /\ ~(Cardinality(Agreeing(ReportsAtStation)) >= 2)
          /\ Of("official") # {} =>
                Quote = SingleQuote(Best(Of("official")), "reference", "low")
          /\ Of("official") = {} /\ Of("third_party") # {} =>
                Quote = SingleQuote(Best(Of("third_party")), "reference", "low")
          /\ Of("official") = {} /\ Of("third_party") = {} /\ Of("model") # {} =>
                Quote = SingleQuote(Best(Of("model")), "estimated", "low")
          /\ Of("official") = {} /\ Of("third_party") = {} /\ Of("model") = {} =>
                Quote = StaleQuote

LEMMA QuoteByEvidence == ResolverTypes => EvidenceInOrder
<1> SUFFICES ASSUME ResolverTypes PROVE EvidenceInOrder
  OBVIOUS
<1> DEFINE community == ReportsAtStation
           agreeing == Agreeing(community)
<1>1. community \subseteq accepted
  BY CandidateFacts
<1>2. Cardinality(agreeing) \in Nat
  BY <1>1, AgreeingFinite
<1>3. ReferencesAtStation # {} => Of("official") # {}
  BY DEF ReferencesAtStation, AtStation
<1>4. Cardinality(agreeing) >= 2 => community # {}
  BY <1>1, AgreeingFinite, FS_EmptySet
<1>5. Quote =
        CASE ReferencesAtStation # {} ->
                SingleQuote(Best(ReferencesAtStation), "reference", "high")
          [] ReferencesAtStation = {} /\ Cardinality(agreeing) >= 2 ->
                ConsensusQuote(agreeing)
          [] ReferencesAtStation = {} /\ Cardinality(agreeing) < 2
               /\ community # {} ->
                SingleQuote(Best(community), "reported", "low")
          [] ReferencesAtStation = {} /\ community = {}
               /\ Of("official") \union Of("third_party") # {} -> Reference
          [] Of("official") \union Of("third_party") \union community = {}
               /\ Of("model") # {} ->
                SingleQuote(Best(Of("model")), "estimated", "low")
          [] OTHER -> StaleQuote
  BY DEF Quote, ReportsAtStation, ReferencesAtStation
<1>6. ReferencesAtStation # {} =>
         Quote = SingleQuote(Best(ReferencesAtStation), "reference", "high")
  BY <1>3, <1>5
<1>7. ReferencesAtStation = {} /\ Cardinality(agreeing) >= 2 =>
         Quote = ConsensusQuote(agreeing)
  BY <1>2, <1>4, <1>5
<1>8. ReferencesAtStation = {} /\ community # {} /\ ~(Cardinality(agreeing) >= 2) =>
         Quote = SingleQuote(Best(community), "reported", "low")
  BY <1>2, <1>5
<1>9. CASE ReferencesAtStation = {} /\ community = {}
  <2>1. Of("official") \union Of("third_party") # {} => Quote = Reference
    BY <1>4, <1>5, <1>9
  <2>2. /\ Of("official") # {} =>
              Reference = SingleQuote(Best(Of("official")), "reference", "low")
        /\ Of("official") = {} =>
              Reference = SingleQuote(Best(Of("third_party")), "reference", "low")
    BY DEF Reference
  <2>3. Of("official") = {} /\ Of("third_party") = {} /\ Of("model") # {} =>
           Quote = SingleQuote(Best(Of("model")), "estimated", "low")
    BY <1>4, <1>5, <1>9
  <2>4. Of("official") = {} /\ Of("third_party") = {} /\ Of("model") = {} =>
           Quote = StaleQuote
    BY <1>4, <1>5, <1>9
  <2> HIDE DEF agreeing
  <2> QED BY <1>2, <1>4, <1>9, <2>1, <2>2, <2>3, <2>4 DEF agreeing, EvidenceInOrder
<1> QED BY <1>2, <1>6, <1>7, <1>8, <1>9 DEF EvidenceInOrder

LEMMA QuoteShapes ==
    ASSUME ResolverTypes
    PROVE
    \/ \E S : /\ S \subseteq CurrentOnes
             /\ \/ \E confidence \in {"high", "low"} : QuotesBest(S, "reference", confidence)
                \/ QuotesBest(S, "reported", "low")
                \/ QuotesBest(S, "estimated", "low")
    \/ QuotesConsensus
    \/ QuotesBest(Expired, "stale", "low")
    \/ Quote = Unavailable
<1>1. /\ ReferencesAtStation \subseteq CurrentOnes
      /\ \A source : Of(source) \subseteq CurrentOnes
      /\ ReportsAtStation \subseteq CurrentOnes
      /\ CurrentOnes \subseteq Candidates /\ Expired \subseteq Candidates
  BY CandidateFacts DEF ReferencesAtStation
<1>2. CASE ReferencesAtStation # {}
  <2>1. QuotesBest(ReferencesAtStation, "reference", "high")
    BY <1>1, <1>2, QuoteByEvidence DEF QuotesBest, EvidenceInOrder
  <2> QED BY <1>1, <2>1
<1>3. CASE ReferencesAtStation = {} /\ Cardinality(Agreeing(ReportsAtStation)) >= 2
  BY <1>3, QuoteByEvidence DEF QuotesConsensus, EvidenceInOrder
<1>4. CASE /\ ReferencesAtStation = {} /\ ReportsAtStation # {}
           /\ ~(Cardinality(Agreeing(ReportsAtStation)) >= 2)
  <2>1. QuotesBest(ReportsAtStation, "reported", "low")
    BY <1>1, <1>4, QuoteByEvidence DEF QuotesBest, EvidenceInOrder
  <2> QED BY <1>1, <2>1
<1>5. CASE ReferencesAtStation = {} /\ ReportsAtStation = {}
  <2>1. ASSUME NEW source \in {"official", "third_party"},
               Quote = SingleQuote(Best(Of(source)), "reference", "low"), Of(source) # {}
        PROVE  \E S : S \subseteq CurrentOnes /\ QuotesBest(S, "reference", "low")
    BY <1>1, <2>1 DEF QuotesBest
  <2>2. ASSUME Quote = SingleQuote(Best(Of("model")), "estimated", "low"), Of("model") # {}
        PROVE  \E S : S \subseteq CurrentOnes /\ QuotesBest(S, "estimated", "low")
    BY <1>1, <2>2 DEF QuotesBest
  <2>3. ASSUME Quote = StaleQuote
        PROVE  QuotesBest(Expired, "stale", "low") \/ Quote = Unavailable
    BY <1>1, <2>3 DEF StaleQuote, QuotesBest
  <2> QED BY <1>5, <2>1, <2>2, <2>3, QuoteByEvidence DEF EvidenceInOrder
<1> QED BY <1>2, <1>3, <1>4, <1>5

--------------------------------------------------------------------------------
(* A quote rests on usable evidence *)

\* A consensus expires with the first of its reports.
LEMMA FirstExpiryIsFirst ==
    ASSUME ResolverTypes, NEW S, S \subseteq accepted, S # {}
    PROVE  \A o \in S : FirstExpiry(S) <= report[o].expires
<1>1. \A o \in S : report[o].expires \in Int
  BY ReadOnes, ResolverAssumption
<1>2. IsFiniteSet(S)
  BY ReadOnes, FS_Subset
<1> DEFINE R == {e \in S \X S : report[e[2]].expires <= report[e[1]].expires}
<1>3. \A x \in S, y \in S : <<x, y>> \in R <=> report[y].expires <= report[x].expires
  OBVIOUS
<1>a. \A x \in S, y \in S : <<x, y>> \in R \/ <<y, x>> \in R
  BY <1>1
<1>b. \A x \in S, y \in S, z \in S : <<x, y>> \in R /\ <<y, z>> \in R => <<x, z>> \in R
  BY <1>1
<1> HIDE DEF R
<1>4. \E o \in S : \A q \in S : <<q, o>> \in R
  BY <1>2, <1>a, <1>b, LastExists
<1>5. PICK o \in S : \A q \in S : report[o].expires <= report[q].expires
  BY <1>3, <1>4
<1>6. \E t \in {report[q].expires : q \in S} : \A q \in S : t <= report[q].expires
  BY <1>5
<1> QED BY <1>6 DEF FirstExpiry

LEMMA UsableEvidence == ASSUME ResolverTypes PROVE QuoteRestsOnUsableEvidence
<1>0. \A o \in accepted : report[o].expires \in Int /\ asOf \in Int
  BY ReadOnes, ResolverAssumption
<1>1. ASSUME NEW S, S \subseteq CurrentOnes, NEW label, NEW confidence,
             QuotesBest(S, label, confidence), label # "stale"
      PROVE  QuoteRestsOnUsableEvidence
  <2>1. Best(S) \in S
    BY <1>1, CandidateFacts, BestIsPreferred DEF QuotesBest
  <2>2. /\ Quote.ids = {Best(S)} /\ Quote.label = label
        /\ Quote.expires = report[Best(S)].expires
    BY <1>1 DEF QuotesBest, SingleQuote
  <2>3. /\ Best(S) \in accepted /\ report[Best(S)].grade = Grade
        /\ report[Best(S)].effective <= asOf /\ asOf < report[Best(S)].expires
    BY <1>1, <2>1, CandidateFacts
  <2> QED BY <1>0, <1>1, <2>2, <2>3 DEF QuoteRestsOnUsableEvidence
<1>2. CASE QuotesConsensus
  <2> DEFINE S == Agreeing(ReportsAtStation)
  <2>1. S \subseteq CurrentOnes
    BY DEF Agreeing, Independent, ReportsAtStation, AtStation, Of
  <2>2. S \subseteq accepted /\ S # {}
    BY <1>2, <2>1, CandidateFacts, FS_EmptySet DEF QuotesConsensus
  <2>3. /\ Quote.ids = S /\ Quote.label = "reported"
        /\ Quote.expires = FirstExpiry(S)
    BY <1>2 DEF QuotesConsensus, ConsensusQuote
  <2>4. \A o \in S : /\ FirstExpiry(S) <= report[o].expires
                     /\ report[o].grade = Grade /\ report[o].effective <= asOf
                     /\ asOf < report[o].expires
    BY <2>1, <2>2, FirstExpiryIsFirst, CandidateFacts
  <2> HIDE DEF S
  <2> QED BY <2>2, <2>3, <2>4 DEF QuoteRestsOnUsableEvidence
<1>3. CASE QuotesBest(Expired, "stale", "low")
  <2>1. Best(Expired) \in Expired
    BY <1>3, CandidateFacts, BestIsPreferred DEF QuotesBest
  <2>2. /\ Quote.ids = {Best(Expired)} /\ Quote.label = "stale"
        /\ Quote.expires = report[Best(Expired)].expires
    BY <1>3 DEF QuotesBest, SingleQuote
  <2>3. /\ Best(Expired) \in accepted /\ report[Best(Expired)].grade = Grade
        /\ report[Best(Expired)].effective <= asOf
        /\ ~(asOf < report[Best(Expired)].expires)
    BY <1>0, <2>1, CandidateFacts
  <2> QED BY <1>0, <2>2, <2>3 DEF QuoteRestsOnUsableEvidence
<1>4. CASE Quote = Unavailable
  BY <1>4 DEF QuoteRestsOnUsableEvidence, Unavailable
<1> QED BY <1>1, <1>2, <1>3, <1>4, QuoteShapes

\* A quote rests on evidence that is usable now, or says that it is stale, and
\* expires no later than any of it (resolve_price_quote).
THEOREM QuotesAreGrounded == ResolverSpec => []QuoteRestsOnUsableEvidence
<1>1. ResolverTypes => QuoteRestsOnUsableEvidence
  BY UsableEvidence
<1> QED BY <1>1, ResolverTyped, PTL

--------------------------------------------------------------------------------
(* A consensus is of independent contributors *)

LEMMA IndependentDiffer ==
    ASSUME ResolverTypes, NEW S, S \subseteq accepted,
           NEW o \in Independent(S), NEW q \in Independent(S),
           report[o].contributor = report[q].contributor
    PROVE  o = q
<1>1. o \in accepted /\ q \in accepted /\ o \in S /\ q \in S
  BY DEF Independent
<1>2. /\ o \in Int /\ q \in Int
      /\ report[o].observed \in Int /\ report[q].observed \in Int
  BY <1>1, ReadOnes, ResolverAssumption
<1>3. o = q \/ (Newer(o, q) /\ Newer(q, o))
  BY <1>1 DEF Independent
<1> QED BY <1>2, <1>3 DEF Newer

\* Reports of different contributors are as many as their contributors.
LEMMA ContributorsCounted ==
    ASSUME NEW S, IsFiniteSet(S),
           \A o \in S, q \in S : report[o].contributor = report[q].contributor => o = q
    PROVE  Cardinality({report[o].contributor : o \in S}) = Cardinality(S)
<1> DEFINE T == {report[o].contributor : o \in S}
           f == [o \in S |-> report[o].contributor]
<1>1. f \in Bijection(S, T)
  BY DEF Bijection, Injection, Surjection, IsInjective
<1> QED BY <1>1, FS_Bijection DEF ExistsBijection

LEMMA IndependentConsensus == ASSUME ResolverTypes PROVE ConsensusIsIndependent
<1>1. SUFFICES ASSUME Quote.label = "reported", Quote.confidence # "low"
               PROVE  ConsensusIsIndependent
  BY DEF ConsensusIsIndependent
<1> DEFINE S == Agreeing(ReportsAtStation)
<1>2. Quote = ConsensusQuote(S) /\ Cardinality(S) >= 2
  <2>1. ASSUME NEW T, NEW label, NEW confidence, QuotesBest(T, label, confidence)
        PROVE  Quote.label = label /\ Quote.confidence = confidence
    BY <2>1 DEF QuotesBest, SingleQuote
  <2>2. Quote # Unavailable
    BY <1>1 DEF Unavailable
  <2>3. QuotesConsensus
    BY <1>1, <2>1, <2>2, QuoteShapes
  <2> QED BY <2>3 DEF QuotesConsensus
<1>3. /\ ReportsAtStation \subseteq accepted
      /\ S \subseteq Independent(ReportsAtStation)
      /\ IsFiniteSet(S) /\ Cardinality(S) \in Nat
  <2>1. ReportsAtStation \subseteq accepted
    BY CandidateFacts DEF ReportsAtStation, AtStation, Of
  <2> QED BY <2>1, AgreeingFinite
<1>4. Cardinality({report[o].contributor : o \in S}) = Cardinality(S)
  BY <1>3, IndependentDiffer, ContributorsCounted
<1>5. /\ Quote.ids = S
      /\ Quote.confidence = IF Cardinality(S) >= 3 THEN "high" ELSE "medium"
  BY <1>2 DEF ConsensusQuote
<1>6. ASSUME NEW o \in S, NEW q \in CurrentOnes,
             report[q].contributor = report[o].contributor,
             report[q].precision = Station, report[q].source = "community"
      PROVE  ~Newer(q, o)
  <2>1. q \in ReportsAtStation
    BY <1>6 DEF ReportsAtStation, AtStation, Of
  <2>2. o \in Independent(ReportsAtStation)
    BY <1>3, <1>6
  <2>3. q = o \/ Newer(o, q)
    BY <1>6, <2>1, <2>2 DEF Independent
  <2>4. /\ o \in Int /\ q \in Int
        /\ report[o].observed \in Int /\ report[q].observed \in Int
    <3>1. o \in accepted /\ q \in accepted
      BY <1>3, <2>1, <2>2, AgreeingFinite
    <3> QED BY <3>1, ReadOnes, ResolverAssumption
  <2> QED BY <2>3, <2>4 DEF Newer
<1> HIDE DEF S
<1>7. Cardinality(S) >= IF Quote.confidence = "high" THEN 3 ELSE 2
  BY <1>2, <1>3, <1>5
<1> QED BY <1>4, <1>5, <1>6, <1>7 DEF ConsensusIsIndependent

\* A report above low confidence is the agreement of as many contributors as the
\* quote names observations, each by its latest current report
\* (_community_consensus, latest_by_contributor).
THEOREM ConsensusOfContributors == ResolverSpec => []ConsensusIsIndependent
<1>1. ResolverTypes => ConsensusIsIndependent
  BY IndependentConsensus
<1> QED BY <1>1, ResolverTyped, PTL

--------------------------------------------------------------------------------
(* Weaker evidence never displaces stronger *)

\* What a quote says depends on nothing but the reports it is taken from: the
\* operators of Quote, of any reports "view".
BestIn(view, S) ==
    CHOOSE o \in S :
       \A q \in S :
          \/ view[o].precision < view[q].precision
          \/ /\ view[o].precision = view[q].precision
             /\ \/ o = q
                \/ view[o].observed > view[q].observed
                \/ view[o].observed = view[q].observed /\ o > q

SingleQuoteIn(view, S, label, confidence) ==
    LET o == BestIn(view, S)
    IN  [label |-> label, ids |-> {o}, twicePrice |-> 2 * view[o].price,
         precision |-> view[o].precision, confidence |-> confidence,
         expires |-> view[o].expires]

IndependentIn(view, S) ==
    {o \in S : /\ view[o].contributor # NoContributor
               /\ \A q \in S :
                     view[q].contributor = view[o].contributor
                     => \/ q = o
                        \/ view[o].observed > view[q].observed
                        \/ view[o].observed = view[q].observed /\ o > q}

AgreeingIn(view, S) ==
    IF Cardinality(IndependentIn(view, S)) < 2 THEN {}
    ELSE {o \in IndependentIn(view, S) :
             ~Beyond(view[o].price, TwiceMedian(view, IndependentIn(view, S)),
                     AbsoluteTolerance, PercentTolerance)}

ConsensusQuoteIn(view, S) ==
    [label |-> "reported", ids |-> S, twicePrice |-> TwiceMedian(view, S),
     precision |-> Station,
     confidence |-> IF Cardinality(S) >= 3 THEN "high" ELSE "medium",
     expires |-> CHOOSE t \in {view[o].expires : o \in S} :
                    \A o \in S : t <= view[o].expires]

LEMMA InView ==
    /\ \A S, label, confidence :
          SingleQuote(Best(S), label, confidence)
             = SingleQuoteIn(report, S, label, confidence)
    /\ \A S : Agreeing(S) = AgreeingIn(report, S)
    /\ \A S : ConsensusQuote(S) = ConsensusQuoteIn(report, S)
<1>1. \A S : Best(S) = BestIn(report, S)
  BY DEF Best, BestIn, Newer
<1>2. \A S : Independent(S) = IndependentIn(report, S)
  BY DEF Independent, IndependentIn, Newer
<1> QED BY <1>1, <1>2
        DEF SingleQuote, SingleQuoteIn, Agreeing, AgreeingIn, ConsensusQuote,
            ConsensusQuoteIn, FirstExpiry

\* The median of some rows is a matter of those rows.
LEMMA MedianOfSame ==
    ASSUME NEW v, NEW w, NEW S, \A o \in S : v[o] = w[o]
    PROVE  TwiceMedian(v, S) = TwiceMedian(w, S)
<1>1. {v[o].price : o \in S} = {w[o].price : o \in S}
  OBVIOUS
<1>2. \A x : /\ {o \in S : v[o].price < x} = {o \in S : w[o].price < x}
             /\ {o \in S : v[o].price <= x} = {o \in S : w[o].price <= x}
  OBVIOUS
<1>3. ASSUME NEW k PROVE OrderStatistic(v, S, k) = OrderStatistic(w, S, k)
  BY <1>1, <1>2 DEF OrderStatistic
<1> QED BY <1>3 DEF TwiceMedian

LEMMA SameInView ==
    ASSUME NEW v, NEW w, NEW S, \A o \in S : v[o] = w[o]
    PROVE  /\ AgreeingIn(v, S) = AgreeingIn(w, S)
           /\ ConsensusQuoteIn(v, S) = ConsensusQuoteIn(w, S)
           /\ BestIn(v, S) = BestIn(w, S)
<1>1. IndependentIn(v, S) = IndependentIn(w, S)
  BY DEF IndependentIn
<1>2. IndependentIn(v, S) \subseteq S
  BY DEF IndependentIn
<1>3. TwiceMedian(v, IndependentIn(v, S)) = TwiceMedian(w, IndependentIn(w, S))
  BY <1>1, <1>2, MedianOfSame
<1> DEFINE Within(view, I, middle) ==
              {o \in I : ~Beyond(view[o].price, middle, AbsoluteTolerance, PercentTolerance)}
<1>a. \A view : AgreeingIn(view, S) =
         IF Cardinality(IndependentIn(view, S)) < 2 THEN {}
         ELSE Within(view, IndependentIn(view, S),
                     TwiceMedian(view, IndependentIn(view, S)))
  BY DEF AgreeingIn
<1>b. \A I, middle : I \subseteq S => Within(v, I, middle) = Within(w, I, middle)
  OBVIOUS
<1> HIDE DEF Within
<1>4. AgreeingIn(v, S) = AgreeingIn(w, S)
  BY <1>1, <1>2, <1>3, <1>a, <1>b
<1>5. TwiceMedian(v, S) = TwiceMedian(w, S)
  BY MedianOfSame
<1>6. {v[o].expires : o \in S} = {w[o].expires : o \in S}
  OBVIOUS
<1>7. ConsensusQuoteIn(v, S) = ConsensusQuoteIn(w, S)
  BY <1>5, <1>6 DEF ConsensusQuoteIn
<1>8. BestIn(v, S) = BestIn(w, S)
  BY DEF BestIn
<1> QED BY <1>4, <1>7, <1>8

\* What a step leaves of the reports.
LEMMA ReportsStay ==
    ASSUME ResolverTypes, ResolverNext
    PROVE  \A o \in accepted : report'[o] = report[o]
<1>1. CASE Accept
  <2>1. PICK r \in Reports : report' = Append(report, r)
    BY <1>1 DEF Accept
  <2> QED BY <2>1 DEF ResolverTypes
<1>2. CASE Retract
  BY <1>2 DEF Retract
<1>3. CASE Advance
  BY <1>3 DEF Advance
<1> QED BY <1>1, <1>2, <1>3 DEF ResolverNext

\* If all that changes is weaker than n, the current evidence of strength n or
\* more stays what it is.
LEMMA StrongEvidenceStays ==
    ASSUME ResolverTypes, ResolverNext, asOf' = asOf, NEW n \in 1..5,
           \A o \in (accepted' \ accepted) \union (accepted \ accepted') :
              ~(Strength(o)' >= n)
    PROVE  \A o : /\ o \in CurrentOnes /\ Strength(o) >= n => o \in CurrentOnes'
                  /\ o \in CurrentOnes' /\ Strength(o)' >= n =>
                        /\ o \in CurrentOnes
                        /\ Strength(o) >= n
                        /\ report'[o] = report[o]
<1>1. \A o \in accepted : report'[o] = report[o] /\ Strength(o)' = Strength(o)
  BY ReportsStay DEF Strength
<1>2. ASSUME NEW o, o \in CurrentOnes, Strength(o) >= n PROVE o \in CurrentOnes'
  <2>1. o \in accepted /\ report'[o] = report[o]
    BY <1>1, <1>2, CandidateFacts
  <2>2. o \in accepted'
    BY <1>1, <1>2, <2>1
  <2> QED BY <1>2, <2>1, <2>2 DEF CurrentOnes, Candidates
<1>3. ASSUME NEW o, o \in CurrentOnes', Strength(o)' >= n
      PROVE  o \in CurrentOnes /\ Strength(o) >= n /\ report'[o] = report[o]
  <2>1. o \in accepted' /\ o \in accepted
    BY <1>3 DEF CurrentOnes, Candidates
  <2>2. report'[o] = report[o] /\ Strength(o) >= n
    BY <1>1, <1>3, <2>1
  <2> QED BY <1>3, <2>1, <2>2 DEF CurrentOnes, Candidates
<1> QED BY <1>2, <1>3

\* The evidence Quote looks at, by its strength.
EvidenceByStrength ==
    \A o \in CurrentOnes :
        /\ Strength(o) \in 0..5
        /\ o \in ReferencesAtStation <=> Strength(o) = 5
        /\ o \in ReportsAtStation <=> Strength(o) = 4
        /\ o \in Of("official") <=> Strength(o) \in {3, 5}
        /\ o \in Of("third_party") <=> Strength(o) = 2
        /\ o \in Of("model") <=> Strength(o) = 1

LEMMA StrengthOfEvidence == ResolverTypes => EvidenceByStrength
<1> SUFFICES ASSUME ResolverTypes, NEW o \in CurrentOnes
             PROVE  /\ Strength(o) \in 0..5
                    /\ o \in ReferencesAtStation <=> Strength(o) = 5
                    /\ o \in ReportsAtStation <=> Strength(o) = 4
                    /\ o \in Of("official") <=> Strength(o) \in {3, 5}
                    /\ o \in Of("third_party") <=> Strength(o) = 2
                    /\ o \in Of("model") <=> Strength(o) = 1
  BY DEF EvidenceByStrength
<1>1. report[o].source \in {"official", "community", "third_party", "model"}
  BY CandidateFacts, ReadOnes, ResolverAssumption DEF Kinds
<1>2. /\ \A source : o \in Of(source) <=> report[o].source = source
      /\ o \in ReferencesAtStation <=>
            report[o].source = "official" /\ report[o].precision = Station
      /\ o \in ReportsAtStation <=>
            report[o].source = "community" /\ report[o].precision = Station
  BY DEF Of, AtStation, ReferencesAtStation, ReportsAtStation
<1>3. /\ report[o].source = "official" =>
            Strength(o) = IF report[o].precision = Station THEN 5 ELSE 3
      /\ report[o].source = "community" =>
            Strength(o) = IF report[o].precision = Station THEN 4 ELSE 0
      /\ report[o].source = "third_party" => Strength(o) = 2
      /\ report[o].source = "model" => Strength(o) = 1
  BY DEF Strength
<1> QED BY <1>1, <1>2, <1>3

LEMMA StrengthType ==
    ResolverTypes => \A o \in accepted : Strength(o) \in 0..5
<1> SUFFICES ASSUME ResolverTypes, NEW o \in accepted
             PROVE  Strength(o) \in 0..5
  OBVIOUS
<1>1. report[o].source \in {"official", "community", "third_party", "model"}
  BY ReadOnes, ResolverAssumption DEF Kinds
<1>2. /\ report[o].source = "official" =>
            Strength(o) = IF report[o].precision = Station THEN 5 ELSE 3
      /\ report[o].source = "community" =>
            Strength(o) = IF report[o].precision = Station THEN 4 ELSE 0
      /\ report[o].source = "third_party" => Strength(o) = 2
      /\ report[o].source = "model" => Strength(o) = 1
  BY DEF Strength
<1> QED BY <1>1, <1>2

\* The sets of evidence a change weaker than n leaves alone.
LEMMA EvidenceStays ==
    ASSUME ResolverTypes, ResolverTypes', ResolverNext, asOf' = asOf, NEW n \in 1..5,
           \A o \in (accepted' \ accepted) \union (accepted \ accepted') :
              ~(Strength(o)' >= n)
    PROVE  /\ ReferencesAtStation' = ReferencesAtStation
           /\ n <= 4 => ReportsAtStation' = ReportsAtStation
           /\ n <= 3 => Of("official")' = Of("official")
           /\ n <= 2 => Of("third_party")' = Of("third_party")
           /\ n <= 1 => Of("model")' = Of("model")
<1>1. \A o : /\ o \in CurrentOnes /\ Strength(o) >= n => o \in CurrentOnes'
             /\ o \in CurrentOnes' /\ Strength(o)' >= n =>
                   o \in CurrentOnes /\ Strength(o) >= n
  BY StrongEvidenceStays
<1>2. \A o \in CurrentOnes : o \in CurrentOnes' => Strength(o)' = Strength(o)
  BY ReportsStay, CandidateFacts DEF Strength
<1>3. EvidenceByStrength'
  BY StrengthOfEvidence, PTL
<1>4. EvidenceByStrength
  BY StrengthOfEvidence
<1>5. /\ ReferencesAtStation \subseteq CurrentOnes
      /\ ReportsAtStation \subseteq CurrentOnes
      /\ \A source : Of(source) \subseteq CurrentOnes
      /\ ReferencesAtStation' \subseteq CurrentOnes'
      /\ ReportsAtStation' \subseteq CurrentOnes'
      /\ \A source : Of(source)' \subseteq CurrentOnes'
  BY DEF ReferencesAtStation, ReportsAtStation, AtStation, Of
<1>6. \A strength \in 1..5 : \A o : strength >= n =>
         ((o \in CurrentOnes /\ Strength(o) = strength)
            <=> (o \in CurrentOnes' /\ Strength(o)' = strength))
  BY <1>1, <1>2
<1>a. \A o \in CurrentOnes :
         /\ o \in ReferencesAtStation <=> Strength(o) = 5
         /\ o \in ReportsAtStation <=> Strength(o) = 4
         /\ o \in Of("official") <=> Strength(o) = 3 \/ Strength(o) = 5
         /\ o \in Of("third_party") <=> Strength(o) = 2
         /\ o \in Of("model") <=> Strength(o) = 1
  BY <1>4 DEF EvidenceByStrength
<1>b. \A o \in CurrentOnes' :
         /\ o \in ReferencesAtStation' <=> Strength(o)' = 5
         /\ o \in ReportsAtStation' <=> Strength(o)' = 4
         /\ o \in Of("official")' <=> Strength(o)' = 3 \/ Strength(o)' = 5
         /\ o \in Of("third_party")' <=> Strength(o)' = 2
         /\ o \in Of("model")' <=> Strength(o)' = 1
  BY <1>3 DEF EvidenceByStrength
<1>7. ReferencesAtStation' = ReferencesAtStation
  BY <1>5, <1>6, <1>a, <1>b
<1>8. n <= 4 => ReportsAtStation' = ReportsAtStation
  BY <1>5, <1>6, <1>a, <1>b
<1>9. n <= 3 => Of("official")' = Of("official")
  <2> SUFFICES ASSUME n <= 3 PROVE Of("official")' = Of("official")
    OBVIOUS
  <2>1. \A o : o \in Of("official") <=>
                 o \in CurrentOnes /\ (Strength(o) = 3 \/ Strength(o) = 5)
    BY <1>5, <1>a
  <2>2. \A o : o \in Of("official")' <=>
                 o \in CurrentOnes' /\ (Strength(o)' = 3 \/ Strength(o)' = 5)
    BY <1>5, <1>b
  <2>3. \A o : o \in Of("official")' <=> o \in Of("official")
    BY <1>6, <2>1, <2>2
  <2> QED BY <2>3
<1>10. n <= 2 => Of("third_party")' = Of("third_party")
  BY <1>5, <1>6, <1>a, <1>b
<1>11. n <= 1 => Of("model")' = Of("model")
  BY <1>5, <1>6, <1>a, <1>b
<1> QED BY <1>7, <1>8, <1>9, <1>10, <1>11

\* The order of evidence, of the reports in view.
EvidenceInView ==
    /\ ReferencesAtStation # {} =>
          Quote = SingleQuoteIn(report, ReferencesAtStation, "reference", "high")
    /\ /\ ReferencesAtStation = {}
       /\ Cardinality(AgreeingIn(report, ReportsAtStation)) >= 2
       => Quote = ConsensusQuoteIn(report, AgreeingIn(report, ReportsAtStation))
    /\ /\ ReferencesAtStation = {} /\ ReportsAtStation # {}
       /\ ~(Cardinality(AgreeingIn(report, ReportsAtStation)) >= 2)
       => Quote = SingleQuoteIn(report, ReportsAtStation, "reported", "low")
    /\ ReferencesAtStation = {} /\ ReportsAtStation = {} =>
          /\ Of("official") # {} =>
                Quote = SingleQuoteIn(report, Of("official"), "reference", "low")
          /\ Of("official") = {} /\ Of("third_party") # {} =>
                Quote = SingleQuoteIn(report, Of("third_party"), "reference", "low")
          /\ Of("official") = {} /\ Of("third_party") = {} /\ Of("model") # {} =>
                Quote = SingleQuoteIn(report, Of("model"), "estimated", "low")
          /\ Of("official") = {} /\ Of("third_party") = {} /\ Of("model") = {} =>
                Quote.label \in {"stale", "unavailable"}

LEMMA QuoteInView == ResolverTypes => EvidenceInView
<1> SUFFICES ASSUME ResolverTypes PROVE EvidenceInView
  OBVIOUS
<1>1. StaleQuote.label \in {"stale", "unavailable"}
  BY DEF StaleQuote, SingleQuote, Unavailable
<1> QED BY <1>1, InView, QuoteByEvidence DEF EvidenceInOrder, EvidenceInView

LEMMA QuoteStays ==
    ASSUME ResolverTypes, ResolverTypes', ResolverNext, asOf' = asOf,
           Quote.label \notin {"stale", "unavailable"},
           \A o \in (accepted' \ accepted) \union (accepted \ accepted'),
             q \in Quote.ids : Strength(o)' < Strength(q)
    PROVE  Quote' = Quote
<1> DEFINE changed == (accepted' \ accepted) \union (accepted \ accepted')
           WeakerThan(n) == \A o \in changed : ~(Strength(o)' >= n)
<1>1. EvidenceInView /\ EvidenceInView'
  <2>1. EvidenceInView
    BY QuoteInView
  <2>2. EvidenceInView'
    BY QuoteInView, PTL
  <2> QED BY <2>1, <2>2
<1>2. \A o \in changed : Strength(o)' \in 0..5
  <2>1. \A o \in accepted : Strength(o)' = Strength(o) /\ Strength(o) \in 0..5
    BY ReportsStay, StrengthType DEF Strength
  <2>2. (\A o \in accepted : Strength(o) \in 0..5)'
    BY StrengthType, PTL
  <2> QED BY <2>1, <2>2
<1>3. \A o \in CurrentOnes : report'[o] = report[o]
  BY CandidateFacts, ReportsStay
<1>4. ASSUME NEW S, S \subseteq CurrentOnes, S # {},
             NEW label, NEW confidence, NEW n \in 1..5,
             \A o \in S : Strength(o) = n,
             Quote = SingleQuoteIn(report, S, label, confidence)
      PROVE  WeakerThan(n) /\ Quote = SingleQuoteIn(report', S, label, confidence)
  <2>1. BestIn(report, S) \in S
    BY <1>4, CandidateFacts, BestIsPreferred DEF Best, BestIn, Newer
  <2>2. BestIn(report, S) \in Quote.ids
    BY <1>4 DEF SingleQuoteIn
  <2>3. \A o \in changed : Strength(o)' < n
    BY <1>4, <2>1, <2>2
  <2>4. BestIn(report', S) = BestIn(report, S)
    BY <1>3, <1>4, SameInView
  <2>5. Quote = SingleQuoteIn(report', S, label, confidence)
    BY <1>3, <1>4, <2>1, <2>4 DEF SingleQuoteIn
  <2> QED BY <1>2, <2>3, <2>5
<1>5. EvidenceByStrength
  BY StrengthOfEvidence
<1>6. /\ ReferencesAtStation \subseteq CurrentOnes
      /\ \A source : Of(source) \subseteq CurrentOnes
      /\ ReportsAtStation \subseteq CurrentOnes
  BY CandidateFacts DEF ReferencesAtStation
<1>7. ASSUME NEW n \in 1..5, WeakerThan(n)
      PROVE  /\ ReferencesAtStation' = ReferencesAtStation
             /\ n <= 4 => ReportsAtStation' = ReportsAtStation
             /\ n <= 3 => Of("official")' = Of("official")
             /\ n <= 2 => Of("third_party")' = Of("third_party")
             /\ n <= 1 => Of("model")' = Of("model")
  BY <1>7, EvidenceStays
<1>8. AgreeingIn(report', ReportsAtStation) = AgreeingIn(report, ReportsAtStation)
  BY <1>3, <1>6, SameInView
<1> HIDE DEF WeakerThan
<1>9. CASE ReferencesAtStation # {}
  <2>1. Quote = SingleQuoteIn(report, ReferencesAtStation, "reference", "high")
    BY <1>1, <1>9 DEF EvidenceInView
  <2>2. \A o \in ReferencesAtStation : Strength(o) = 5
    BY <1>5, <1>6 DEF EvidenceByStrength
  <2>3. /\ WeakerThan(5)
        /\ Quote = SingleQuoteIn(report', ReferencesAtStation, "reference", "high")
    BY <1>4, <1>6, <1>9, <2>1, <2>2
  <2>4. ReferencesAtStation' = ReferencesAtStation
    BY <1>7, <2>3
  <2>5. Quote' = SingleQuoteIn(report', ReferencesAtStation', "reference", "high")
    BY <1>1, <1>9, <2>4 DEF EvidenceInView
  <2> QED BY <2>3, <2>4, <2>5
<1>10. CASE /\ ReferencesAtStation = {}
            /\ Cardinality(AgreeingIn(report, ReportsAtStation)) >= 2
  <2> DEFINE S == AgreeingIn(report, ReportsAtStation)
  <2>1. Quote = ConsensusQuoteIn(report, S)
    BY <1>1, <1>10 DEF EvidenceInView
  <2>2. S \subseteq ReportsAtStation
    BY DEF AgreeingIn, IndependentIn
  <2>3. S # {}
    BY <1>10, FS_EmptySet
  <2>4. \A o \in S : Strength(o) = 4
    BY <1>5, <1>6, <2>2 DEF EvidenceByStrength
  <2>5. Quote.ids = S
    BY <2>1 DEF ConsensusQuoteIn
  <2>6. \A o \in changed : Strength(o)' < 4
    BY <2>3, <2>4, <2>5
  <2>7. WeakerThan(4)
    BY <1>2, <2>6 DEF WeakerThan
  <2>8. ReferencesAtStation' = ReferencesAtStation /\ ReportsAtStation' = ReportsAtStation
    BY <1>7, <2>7
  <2>9. Quote' = ConsensusQuoteIn(report', S)
    BY <1>1, <1>8, <1>10, <2>8 DEF EvidenceInView
  <2>10. ConsensusQuoteIn(report', S) = ConsensusQuoteIn(report, S)
    BY <1>3, <1>6, <2>2, SameInView
  <2> QED BY <2>1, <2>9, <2>10
<1>11. CASE /\ ReferencesAtStation = {} /\ ReportsAtStation # {}
            /\ ~(Cardinality(AgreeingIn(report, ReportsAtStation)) >= 2)
  <2>1. Quote = SingleQuoteIn(report, ReportsAtStation, "reported", "low")
    BY <1>1, <1>11 DEF EvidenceInView
  <2>2. \A o \in ReportsAtStation : Strength(o) = 4
    BY <1>5, <1>6 DEF EvidenceByStrength
  <2>3. /\ WeakerThan(4)
        /\ Quote = SingleQuoteIn(report', ReportsAtStation, "reported", "low")
    BY <1>4, <1>6, <1>11, <2>1, <2>2
  <2>4. ReferencesAtStation' = ReferencesAtStation /\ ReportsAtStation' = ReportsAtStation
    BY <1>7, <2>3
  <2>5. Quote' = SingleQuoteIn(report', ReportsAtStation, "reported", "low")
    BY <1>1, <1>8, <1>11, <2>4 DEF EvidenceInView
  <2> QED BY <2>3, <2>5
<1>12. CASE ReferencesAtStation = {} /\ ReportsAtStation = {}
  <2>1. /\ \A o \in Of("official") : Strength(o) = 3
        /\ \A o \in Of("third_party") : Strength(o) = 2
        /\ \A o \in Of("model") : Strength(o) = 1
    BY <1>5, <1>6, <1>12 DEF EvidenceByStrength
  <2>2. CASE Of("official") # {}
    <3>1. Quote = SingleQuoteIn(report, Of("official"), "reference", "low")
      BY <1>1, <1>12, <2>2 DEF EvidenceInView
    <3>2. /\ WeakerThan(3)
          /\ Quote = SingleQuoteIn(report', Of("official"), "reference", "low")
      BY <1>4, <1>6, <2>1, <2>2, <3>1
    <3>3. /\ ReferencesAtStation' = {} /\ ReportsAtStation' = {}
          /\ Of("official")' = Of("official")
      BY <1>7, <1>12, <3>2
    <3>4. Quote' = SingleQuoteIn(report', Of("official"), "reference", "low")
      BY <1>1, <2>2, <3>3 DEF EvidenceInView
    <3> QED BY <3>2, <3>4
  <2>3. CASE Of("official") = {} /\ Of("third_party") # {}
    <3>1. Quote = SingleQuoteIn(report, Of("third_party"), "reference", "low")
      BY <1>1, <1>12, <2>3 DEF EvidenceInView
    <3>2. /\ WeakerThan(2)
          /\ Quote = SingleQuoteIn(report', Of("third_party"), "reference", "low")
      BY <1>4, <1>6, <2>1, <2>3, <3>1
    <3>3. /\ ReferencesAtStation' = {} /\ ReportsAtStation' = {}
          /\ Of("official")' = {} /\ Of("third_party")' = Of("third_party")
      BY <1>7, <1>12, <2>3, <3>2
    <3>4. Quote' = SingleQuoteIn(report', Of("third_party"), "reference", "low")
      BY <1>1, <2>3, <3>3 DEF EvidenceInView
    <3> QED BY <3>2, <3>4
  <2>4. CASE Of("official") = {} /\ Of("third_party") = {} /\ Of("model") # {}
    <3>1. Quote = SingleQuoteIn(report, Of("model"), "estimated", "low")
      BY <1>1, <1>12, <2>4 DEF EvidenceInView
    <3>2. /\ WeakerThan(1)
          /\ Quote = SingleQuoteIn(report', Of("model"), "estimated", "low")
      BY <1>4, <1>6, <2>1, <2>4, <3>1
    <3>3. /\ ReferencesAtStation' = {} /\ ReportsAtStation' = {}
          /\ Of("official")' = {} /\ Of("third_party")' = {}
          /\ Of("model")' = Of("model")
      BY <1>7, <1>12, <2>4, <3>2
    <3>4. Quote' = SingleQuoteIn(report', Of("model"), "estimated", "low")
      BY <1>1, <2>4, <3>3 DEF EvidenceInView
    <3> QED BY <3>2, <3>4
  <2>5. ~(Of("official") = {} /\ Of("third_party") = {} /\ Of("model") = {})
    BY <1>1, <1>12 DEF EvidenceInView
  <2> QED BY <2>2, <2>3, <2>4, <2>5
<1> QED BY <1>9, <1>10, <1>11, <1>12

\* Weaker evidence never displaces stronger: what arrives or goes changes a quote
\* only if it is at least as strong as the evidence the quote rests on
\* (resolve_price_quote).
THEOREM StrongerEvidencePrevails == ResolverSpec => WeakerEvidenceNeverDisplaces
<1> DEFINE changed == (accepted' \ accepted) \union (accepted \ accepted')
           Kept == asOf' = asOf /\ Quote.label \notin {"stale", "unavailable"} =>
                      ((\A o \in changed, q \in Quote.ids : Strength(o)' < Strength(q))
                         => Quote' = Quote)
<1>1. ResolverTypes /\ ResolverTypes' /\ [ResolverNext]_resolverVars => [Kept]_resolverVars
  BY QuoteStays DEF resolverVars
<1>2. WeakerEvidenceNeverDisplaces <=> [][Kept]_resolverVars
  BY DEF WeakerEvidenceNeverDisplaces
<1> HIDE DEF Kept
<1> QED BY <1>1, <1>2, ResolverTyped, PTL DEF ResolverSpec

================================================================================
