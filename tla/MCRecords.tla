------------------------------ MODULE MCRecords ------------------------------
(***************************************************************************)
(* The components that keep records and files of their own, checked in one *)
(* run: focus is the component a behavior is about, and the variables of   *)
(* the others keep their initial values.                                   *)
(***************************************************************************)
EXTENDS ArtifactRecord, ClosureRecords, Projections, ControlPlane

VARIABLE focus

MCEvaluators == <<"k1", "k2">>
MCCriteria == <<"c1">>
MCVerifierTypes == [c1 |-> {"k1", "k2"}]
MCDeclared == [t \in PlanTaskIds |-> IF t = 1 THEN {"a"} ELSE {"b"}]
MCSteps == <<1, 2>>

mcVars == <<focus, arVars, crVars, pjVars, cpVars>>

mcInit ==
    /\ focus \in {"artifacts", "closures", "projections", "control"}
    /\ arInit /\ crInit /\ pjInit /\ cpInit
    /\ focus # "closures" => stages = NoStages
    /\ focus # "projections" => log = NoLog
    /\ focus # "control" => held = "nothing"

ArtifactStep == focus = "artifacts" /\ arNext /\ UNCHANGED <<focus, crVars, pjVars, cpVars>>
ClosureStep == focus = "closures" /\ crNext /\ UNCHANGED <<focus, arVars, pjVars, cpVars>>
ProjectionStep == focus = "projections" /\ pjNext /\ UNCHANGED <<focus, arVars, crVars, cpVars>>
ControlStep == focus = "control" /\ cpNext /\ UNCHANGED <<focus, arVars, crVars, pjVars>>

mcNext == ArtifactStep \/ ClosureStep \/ ProjectionStep \/ ControlStep

mcSpec == mcInit /\ [][mcNext]_mcVars
=============================================================================
