------------------------------- MODULE Imports ---------------------------------
(***************************************************************************)
(* Everything the import commands do: overlapping runs of them, and their    *)
(* two parsers, which are functions of what is read.  A behaviour runs the   *)
(* commands, or is one input of a parser.                                    *)
(***************************************************************************)
EXTENDS PriceImports

CONSTANTS
    NoProduct,      \* a fuel the provider's row has no price of
    FeatureLists,   \* the features of GeoJSON files
    Answers         \* the provider's answers and when they are read

Mitra == INSTANCE MitraPrices

Product == {NoProduct} \union [unit: STRING, price: Int]

ProviderRow == [observed: Int, kind: STRING, hasState: BOOLEAN, name: STRING,
                product: [Mitra!FuelType -> Product]]

Answer == [at: Int, rows: Seq(ProviderRow)]

ASSUME ImportsAssumption ==
    /\ FeatureLists \subseteq Seq(Feature)
    /\ Answers \subseteq Answer

VARIABLE setting

ParsersInit ==
    /\ Init
    /\ \/ setting = [kind |-> "commands"]
       \/ \E features \in FeatureLists, infer \in BOOLEAN :
             setting = [kind |-> "features", features |-> features, infer |-> infer]
       \/ \E answer \in Answers : setting = [kind |-> "answer", answer |-> answer]

ParsersNext == setting.kind = "commands" /\ Next /\ UNCHANGED setting

ParsersSpec == ParsersInit /\ [][ParsersNext]_<<vars, setting>>

--------------------------------------------------------------------------------
(* Properties *)

\* Every file is normalised as NormalizedFits says: _normalize_features keeps
\* the first feature of each stable identity and counts the others.
FilesNormalizeWell ==
    setting.kind = "features" => NormalizedFits(setting.features, setting.infer)

\* Every answer of the provider is parsed as ParsedPricesAreStorable and
\* LastsUntilNextRefresh say: parse_mitra_prices lets nothing through that the
\* ledger would reject, and its prices last as long as stated.
AnswersParseWell ==
    setting.kind = "answer" =>
        /\ Mitra!ParsedPricesAreStorable(setting.answer.rows, setting.answer.at)
        /\ Mitra!LastsUntilNextRefresh(setting.answer.rows, setting.answer.at)

================================================================================
