---------------------------- MODULE MCPlansAndQuotes ----------------------------
(* The settings of MCFuelPlans, and one more in front of them: what a station  *)
(* is quoted, over the evidence of MCPriceResolver.                            *)
EXTENDS MCFuelPlans, MCPriceResolver

NoPlans ==
    /\ NoVehicle /\ NoRoad /\ NoPlanner /\ NoGeometry
    /\ distance = 0 /\ stations = <<>> /\ at = 0 /\ fuel = 0 /\ bought = <<>>

QuotedPlansInit == /\ ResolverInit
                   /\ PlansInit \/ (setting = "quotes" /\ NoPlans)

QuotedPlansNext ==
    \/ PlansNext /\ UNCHANGED resolverVars
    \/ /\ setting = "quotes" /\ ResolverNext
       /\ UNCHANGED <<setting, vars, onlyFirst, planVars, geometryVars>>

QuotedPlansSpec ==
    /\ QuotedPlansInit
    /\ [][QuotedPlansNext]_<<setting, vars, onlyFirst, planVars, geometryVars,
                             resolverVars>>

================================================================================
