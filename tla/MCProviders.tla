------------------------------- MODULE MCProviders -------------------------------
(* setting "governed": callers across two days, of two minutes of one time unit  *)
(* each.  Setting "geocoder": a process of two threads and a process of one.     *)
EXTENDS ProviderGovernance, NominatimThrottle, TLC

CONSTANTS a1, a2, b1, procA, procB

MCLength == [minute |-> 1, day |-> 2]
MCLimit == [minute |-> 2, day |-> 3]

MCCaller == {a1, a2, b1}
MCProcess == {procA, procB}
MCProcessOf == (a1 :> procA) @@ (a2 :> procA) @@ (b1 :> procB)

VARIABLE setting

MCInit == setting \in {"governed", "geocoder"} /\ Init /\ ThrottleInit

MCNext == /\ \/ setting = "governed" /\ Next /\ UNCHANGED throttleVars
             \/ setting = "geocoder" /\ ThrottleNext /\ UNCHANGED vars
          /\ UNCHANGED setting

MCSpec == MCInit /\ [][MCNext]_<<vars, setting, throttleVars>>

Symmetry == Permutations(Proc)

================================================================================
