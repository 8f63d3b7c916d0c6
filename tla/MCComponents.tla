---------------------------- MODULE MCComponents ----------------------------
(***************************************************************************)
(* The components that share no state with each other, and the workflow    *)
(* that leads to an approved plan, checked in one run: focus is the        *)
(* component a behavior is about, and the variables of the others keep     *)
(* their initial values.                                                   *)
(***************************************************************************)
EXTENDS WorktreeLeases, UpdateCheck, Preflight, Handoff, Workflow

VARIABLE focus

MCTaskOf == [u \in Units |-> 1]
MCVersions == {<<1>>, <<1, 0>>, <<1, 1>>}

mcVars == <<focus, wlVars, ucVars, pfVars, hoVars, wfVars>>

mcInit ==
    /\ focus \in {"leases", "update", "preflight", "handoff", "workflow"}
    /\ wlInit /\ ucInit /\ pfInit /\ hoInit /\ wfInit
    /\ focus # "update" => installed = <<1>> /\ state.cache.legacy = NoFile
    /\ focus # "handoff" => ~scoped

LeaseStep ==
    focus = "leases" /\ wlNext /\ UNCHANGED <<focus, ucVars, pfVars, hoVars, wfVars>>
UpdateStep ==
    focus = "update" /\ ucNext /\ UNCHANGED <<focus, wlVars, pfVars, hoVars, wfVars>>
PreflightStep ==
    focus = "preflight" /\ pfNext /\ UNCHANGED <<focus, wlVars, ucVars, hoVars, wfVars>>
HandoffStep ==
    focus = "handoff" /\ hoNext /\ UNCHANGED <<focus, wlVars, ucVars, pfVars, wfVars>>
WorkflowStep ==
    focus = "workflow" /\ wfNext /\ UNCHANGED <<focus, wlVars, ucVars, pfVars, hoVars>>

mcNext == LeaseStep \/ UpdateStep \/ PreflightStep \/ HandoffStep \/ WorkflowStep

mcSpec == mcInit /\ [][mcNext]_mcVars /\ (focus = "workflow" => wfFairness)

\* EventuallyReady, of the behaviors that are about the workflow.
WorkflowGetsReady == focus = "workflow" => EventuallyReady
=============================================================================
