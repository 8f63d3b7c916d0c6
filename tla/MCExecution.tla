----------------------------- MODULE MCExecution -----------------------------
(***************************************************************************)
(* The contract and the topology of a plan, the commands that execute it,  *)
(* and the routes shown for it, checked in one run: focus is what a        *)
(* behavior is about, and the variables of the others keep their initial   *)
(* values.                                                                 *)
(***************************************************************************)
EXTENDS MCStepExecution, PublicRoute, PlanTopology, PlanContract

VARIABLE focus

\* Where routes start from: a plan before its first step; with a step under way;
\* with a finished task to close; with a closed task; with all tasks and the
\* branch closed; with a stale closure; with a task to close ahead of a stale one; with
\* a step interrupted by a reopened task.
Fresh ==
    [started |-> FALSE, mode |-> FALSE, runId |-> FALSE, phase |-> "execution_preflight",
     review |-> "clean", reasons |-> {}, progress |-> [t \in TaskNos |-> "none"],
     closed |-> {}, contributes |-> FALSE, branch |-> FALSE, drift |-> FALSE,
     staleIds |-> FALSE, target |-> 0, bridged |-> FALSE, drivable |-> FALSE,
     staleRecords |-> {}, truth |-> {}, history |-> {}, dispatched |-> {}, cleanup |-> {},
     followUp |-> "none", followTask |-> 0, followHere |-> TRUE, assessment |-> "none",
     release |-> "none", docsFresh |-> FALSE, final |-> "none", finalHere |-> FALSE,
     qaFailed |-> FALSE, finishPassed |-> FALSE, finalDispatch |-> FALSE,
     outcomeRecorded |-> FALSE, external |-> FALSE, handoff |-> FALSE, cycleTask |-> 0,
     active |-> 0, resume |-> 0, block |-> 0, blockStep |-> FALSE]
Started == [Fresh EXCEPT !.started = TRUE, !.mode = TRUE, !.runId = TRUE, !.phase = "executing"]
TaskDone == [Started EXCEPT !.progress[1] = "all", !.block = 1, !.truth = {1},
                            !.reasons = {"missing", "candidate"}]
TaskClosed == [Started EXCEPT !.progress[1] = "all", !.closed = {1}, !.history = {1},
                              !.contributes = TRUE]
BranchClosed == [Started EXCEPT !.progress = [t \in TaskNos |-> "all"], !.closed = TaskNos,
                                !.history = TaskNos, !.contributes = TRUE, !.branch = TRUE,
                                !.phase = "document_release_pending", !.assessment = "supported"]
TaskStale == [TaskClosed EXCEPT !.closed = {}, !.contributes = FALSE, !.target = 1,
                                !.review = "stale_unreviewed", !.staleIds = TRUE,
                                !.drivable = TRUE, !.staleRecords = {1}, !.reasons = {"stale"}]
\* A later task is stale, and an earlier one lost its closure.
BridgeAhead == [Started EXCEPT !.progress = [t \in TaskNos |-> "all"], !.history = TaskNos,
                               !.target = 2, !.drivable = TRUE, !.truth = {1},
                               !.review = "missing_current_closure", !.reasons = {"candidate"},
                               !.assessment = "supported"]
MCFacts == {Fresh, [Started EXCEPT !.active = 1], TaskDone, TaskClosed, BranchClosed, TaskStale,
            BridgeAhead, [Started EXCEPT !.progress[1] = "part", !.resume = 2, !.history = {1}]}

MCLayouts ==
    {[p |-> {1, 2, 3}, q |-> {}], [p |-> {1, 3}, q |-> {}], [p |-> {1, 2}, q |-> {2, 3}]}

mcVars == <<focus, vars, prvars, ptVars, pcVars>>

mcInit ==
    /\ focus \in {"steps", "route", "topology", "contract"}
    /\ Init /\ prInit /\ ptInit /\ pcInit
    /\ focus # "route" => facts = Fresh
    /\ focus # "topology" => writers = CHOOSE l \in Layouts : TRUE

StepsStep == focus = "steps" /\ Next /\ UNCHANGED <<focus, prvars, ptVars, pcVars>>
RouteStep == focus = "route" /\ prNext /\ UNCHANGED <<focus, vars, ptVars, pcVars>>
TopologyStep == focus = "topology" /\ ptNext /\ UNCHANGED <<focus, vars, prvars, pcVars>>
ContractStep == focus = "contract" /\ pcNext /\ UNCHANGED <<focus, vars, prvars, ptVars>>

mcNext == StepsStep \/ RouteStep \/ TopologyStep \/ ContractStep
mcSpec == mcInit /\ [][mcNext]_mcVars
=============================================================================
