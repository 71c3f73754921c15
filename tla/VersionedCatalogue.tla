--------------------------- MODULE VersionedCatalogue --------------------------
(***************************************************************************)
(* What the ledger promises its readers: each market has a catalogue of    *)
(* accepted observations and a version, and a catalogue never changes      *)
(* without its version moving up, so that a version names one catalogue.   *)
(***************************************************************************)
EXTENDS Naturals

CONSTANT Markets

VARIABLES catalogue, version

Init == /\ catalogue = [m \in Markets |-> {}]
        /\ version = [m \in Markets |-> 0]

\* One transaction publishes: versions only grow, and grow where it matters.
Publish ==
    /\ DOMAIN version' = Markets
    /\ \A m \in Markets : /\ version'[m] \in Nat
                          /\ version'[m] >= version[m]
                          /\ catalogue'[m] # catalogue[m]
                               => version'[m] > version[m]

Spec == Init /\ [][Publish]_<<catalogue, version>>

================================================================================
