---------------------------------- MODULE MCWeb ----------------------------------
(* setting "page": trips of one visitor through the proxy.  Setting "limits":   *)
(* requests at the backend's counters.                                          *)
EXTENDS TripPage, RateLimits

CONSTANTS a, b

VARIABLE setting

\* The contributor is derived from the device.
Caller(client, device, station) ==
    [client |-> client, network |-> client, device |-> device,
     contributor |-> device, station |-> station]

MCCallers == {Caller(a, a, a), Caller(a, b, a)}

MCLimits == {[client |-> 1, network |-> 2, device |-> 1, contributor |-> 1, station |-> 2],
             [client |-> 2, network |-> 2, device |-> 2, contributor |-> 2, station |-> 1],
             [client |-> 0, network |-> 2, device |-> 2, contributor |-> 2, station |-> 0]}

MCInit == /\ setting \in {"page", "limits"}
          /\ Init /\ LimitsInit
          /\ setting = "page" => limits = CHOOSE l \in MCLimits : TRUE

MCNext == /\ \/ setting = "page" /\ Next /\ UNCHANGED limitVars
             \/ setting = "limits" /\ LimitsNext /\ UNCHANGED vars
          /\ UNCHANGED setting

MCSpec == MCInit /\ [][MCNext]_<<vars, setting, limitVars>> /\ Fairness

================================================================================
