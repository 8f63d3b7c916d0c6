----------------------------- MODULE Milestones -----------------------------
(***************************************************************************)
(* The late stage of a branch: branch closure, release readiness, dispatch *)
(* and recording of the final review, browser QA, the finish-review        *)
(* checkpoint and the finish gate, with the repair of a branch whose       *)
(* worktree has drifted from what was reviewed.                            *)
(*                                                                         *)
(* advance-late-stage decides on a route, and binds its milestone to a     *)
(* branch closure, before it claims write authority; the claim, the reload *)
(* of the state and the write are one action (HarnessStore says why).      *)
(* Branch closure and QA claim first and are one action altogether.  The   *)
(* event of each command carries every field its recorder changes, so a    *)
(* write is a write of the whole state.                                    *)
(*                                                                         *)
(* All task closures of the plan are one, the baseline; its reviewed       *)
(* surface is the code, and the late-stage surface (release notes and      *)
(* such) is not part of it.  Edits are committed ones.                     *)
(***************************************************************************)
EXTENDS Naturals, FiniteSets

CONSTANTS
    Procs,        \* processes that run commands
    None,         \* null
    Codes,        \* contents of the reviewed surface
    Lates,        \* contents of the late-stage surface
    QaRequired,   \* the approved plan's QA requirement
    Budgets       \* bound: how many edits of the worktree and how many results
                  \* that are not ready or pass a behaviour has, and which processes

ASSUME MilestonesAssumption ==
    /\ Codes # {} /\ Lates # {}
    /\ QaRequired \in BOOLEAN
    /\ Budgets \subseteq [edits : Nat, negatives : Nat, procs : SUBSET Procs]

VARIABLES
    tree,         \* the worktree
    budget,       \* what is left of the behaviour's budget
    baseline,     \* the current task closure
    closed,       \* history: number of task closures
    branch,       \* branch closures
    release,      \* release-readiness milestones
    final,        \* final-review milestones
    qa,           \* QA milestones
    lineage,      \* final_review_dispatch_lineage
    dispatchId,   \* current_final_review_dispatch_id
    dispatched,   \* history: number of dispatches
    checkpoint,   \* finish_review_gate_pass_branch_closure_id
    followUp,     \* review_state_repair_follow_up (advance_late_stage)
    pend,         \* what a process has decided before its claim
    judged        \* history: the worktrees on which a milestone was decided

records == <<branch, release, final, qa>>
dispatch == <<lineage, dispatchId, dispatched>>
tasks == <<baseline, closed>>
msVars == <<tree, budget, tasks, records, dispatch, checkpoint, followUp, pend, judged>>

Trees == [code : Codes, late : Lates]

(***************************************************************************)
(* The identities of the records: what they are made of, and a number that *)
(* tells apart records that are otherwise the same.                        *)
(***************************************************************************)
Closures == [tree : Trees, source : Nat, n : Nat]
ReleaseIds == [closure : Closures, result : {"ready", "blocked"}, n : Nat]
FinalIds == [closure : Closures, release : ReleaseIds, dispatch : Nat, result : {"pass", "fail"}]
QaIds == [closure : Closures, final : FinalIds, result : {"pass", "fail"}]

ASSUME NoneAssumption ==
    None \notin Closures /\ None \notin ReleaseIds /\ None \notin FinalIds /\ None \notin QaIds

(***************************************************************************)
(* A kind of record: the pointer to the current one, all recorded ids, and *)
(* the ids whose status is "current".                                      *)
(***************************************************************************)
NoRecords == [id |-> None, known |-> {}, live |-> {}]

\* Mutant: the record the pointer named keeps its status.
RetireKeepsStatus(ledger) == [ledger EXCEPT !.id = None]

\* The pointer is set to null and its record marked historical.
Retire(ledger) == [ledger EXCEPT !.id = None, !.live = @ \ {ledger.id}]

\* A record is inserted as the current one; its predecessor is historical.
Install(ledger, id) ==
    [id |-> id, known |-> ledger.known \cup {id}, live |-> (ledger.live \ {ledger.id}) \cup {id}]

\* The record id with the first occurrence number that is free.
next_available_history_record_id(known, id) ==
    LET free == {n \in 1..(Cardinality(known) + 1) : [id EXCEPT !.n = n] \notin known}
    IN  [id EXCEPT !.n = CHOOSE n \in free : \A k \in free : n <= k]

-----------------------------------------------------------------------------
(***************************************************************************)
(* What the runtime makes of the state and the worktree.                   *)
(***************************************************************************)
\* still_current_task_closure_records: there is a task closure, and the code it
\* reviewed is the worktree's.
TaskClosureCurrent == baseline # None /\ baseline.code = tree.code

\* validated_current_branch_closure_identity: the current branch closure, if it
\* was recorded from the task closures that are still current.
CurrentBranchClosure ==
    IF branch.id \in branch.live /\ TaskClosureCurrent /\ branch.id.source = baseline.n
    THEN branch.id
    ELSE None

\* Mutant: changes of the late-stage surface are no drift.
DriftOfCode == branch.id \in branch.live /\ branch.id.tree.code # tree.code

\* current_branch_closure_has_tracked_drift
Drift == branch.id \in branch.live /\ branch.id.tree # tree

(***************************************************************************)
(* current_late_stage_branch_bindings: a milestone counts when its record  *)
(* is current and names the current closure, and the record it builds on.  *)
(***************************************************************************)
CurrentRelease ==
    LET closure == CurrentBranchClosure
    IN  IF release.id \in release.live /\ closure # None /\ release.id.closure = closure
        THEN release.id
        ELSE None

CurrentFinal ==
    LET ready == CurrentRelease
    IN  IF /\ final.id \in final.live
           /\ ready # None
           /\ final.id.closure = ready.closure
           /\ final.id.release = ready
        THEN final.id
        ELSE None

CurrentQa ==
    LET reviewed == CurrentFinal
    IN  IF /\ qa.id \in qa.live
           /\ reviewed # None
           /\ qa.id.closure = reviewed.closure
           /\ qa.id.final = reviewed
        THEN qa.id
        ELSE None

Result(record) == IF record = None THEN "none" ELSE record.result

\* negative_result_requires_execution_reentry
NegativeResult == Result(CurrentFinal) = "fail" \/ Result(CurrentQa) = "fail"

\* Mutant: the follow-up is compared with the reviewed tree.
FollowUpForReviewedTree == branch.id \in branch.live /\ followUp = branch.id.tree

\* A repair's follow-up holds for the worktree it was recorded for.
FollowUpActionable == followUp = tree

\* final_review_outcome_recorded_for_current_dispatch
OutcomeRecorded ==
    lineage # None /\ final.id \in final.live /\ final.id.dispatch = lineage.dispatch

\* current_review_dispatch_id_from_lineage
DispatchCurrent == lineage # None /\ lineage.closure = CurrentBranchClosure

(***************************************************************************)
(* The route the operator derives.  With drift confined to the late-stage  *)
(* surface, a repair leaves a follow-up; after it the final review of the  *)
(* drifted branch may still be recorded, and then a new branch closure.    *)
(***************************************************************************)
RepairedDriftRoute ==
    IF Result(CurrentRelease) = "ready" /\ ~OutcomeRecorded
    THEN IF DispatchCurrent THEN "final_review" ELSE "dispatch"
    ELSE "branch_closure"

\* select_late_stage_public_route
MilestoneRoute ==
    IF Result(CurrentRelease) # "ready" THEN "release_readiness"
    ELSE IF CurrentFinal = None
         THEN IF DispatchCurrent THEN "final_review" ELSE "dispatch"
    ELSE IF QaRequired /\ CurrentQa = None THEN "qa"
    ELSE IF checkpoint # CurrentBranchClosure THEN "finish_review"
    ELSE "finish_completion"

Route ==
    IF baseline = None THEN "execution_reentry"
    ELSE IF ~TaskClosureCurrent THEN "repair"
    ELSE IF NegativeResult THEN "execution_reentry"
    ELSE IF CurrentBranchClosure = None THEN "branch_closure"
    ELSE IF ~Drift THEN MilestoneRoute
    ELSE IF CurrentRelease = None THEN "branch_closure"
    ELSE IF FollowUpActionable THEN RepairedDriftRoute
    ELSE "repair"

(***************************************************************************)
(* The gates look at the records themselves, not at the bindings above.    *)
(***************************************************************************)
\* require_current_release_readiness_ready_for_finish
ReleaseReadyForFinish(closure) ==
    /\ release.id \in release.live
    /\ release.id.closure = closure
    /\ release.id.result = "ready"

\* require_current_final_review_pass_for_finish
FinalReviewPassForFinish(closure) ==
    /\ final.id \in final.live
    /\ final.id.closure = closure
    /\ final.id.release = release.id
    /\ final.id.result = "pass"

\* require_current_browser_qa_pass_for_finish
BrowserQaPassForFinish(closure) ==
    /\ qa.id \in qa.live
    /\ qa.id.closure = closure
    /\ qa.id.final = final.id
    /\ qa.id.result = "pass"

\* evaluate_pre_checkpoint_finish_gate
GateReviewAllowed ==
    /\ CurrentBranchClosure # None
    /\ ~Drift
    /\ ReleaseReadyForFinish(CurrentBranchClosure)
    /\ FinalReviewPassForFinish(CurrentBranchClosure)
    /\ QaRequired => BrowserQaPassForFinish(CurrentBranchClosure)

\* gate_finish: in addition, the finish review was checkpointed for this closure.
GateFinishAllowed == GateReviewAllowed /\ checkpoint = CurrentBranchClosure

-----------------------------------------------------------------------------
(***************************************************************************)
(* The worktree and the task closures (StepExecution has their commands).  *)
(***************************************************************************)
Edit(t) ==
    /\ budget.edits > 0
    /\ t # tree
    /\ tree' = t
    /\ budget' = [budget EXCEPT !.edits = @ - 1]
    /\ UNCHANGED <<tasks, records, dispatch, checkpoint, followUp, pend, judged>>

\* The tasks are worked on and closed again.
CloseTasks ==
    /\ Route = "execution_reentry"
    /\ baseline' = [code |-> tree.code, n |-> closed + 1]
    /\ closed' = closed + 1
    /\ UNCHANGED <<tree, budget, records, dispatch, checkpoint, followUp, pend, judged>>

(***************************************************************************)
(* Branch closure, under one claim.                                        *)
(***************************************************************************)
RetireMilestones == release' = Retire(release) /\ final' = Retire(final) /\ qa' = Retire(qa)

\* What set_current_branch_closure_id and the clearing of a branch closure null.
ResetLateStage ==
    /\ RetireMilestones
    /\ lineage' = None
    /\ dispatchId' = None
    /\ checkpoint' = None
    /\ UNCHANGED dispatched

RecordBranchClosure(p) ==
    LET id == [tree |-> tree, source |-> baseline.n, n |-> 1]
    IN  /\ pend[p] = None
        /\ Route = "branch_closure"
        /\ branch' = Install(branch, next_available_history_record_id(branch.known, id))
        /\ ResetLateStage
        /\ followUp' = None
        /\ UNCHANGED <<tree, budget, tasks, pend, judged>>

-----------------------------------------------------------------------------
(***************************************************************************)
(* Release readiness, dispatch and final review: a process decides on the  *)
(* route it reads, then claims the authority and writes.                   *)
(***************************************************************************)
\* Results other than these come out of the budget.
Affordable(result) ==
    \/ result \in {"none", "ready", "pass"} /\ UNCHANGED budget
    \/ /\ result \in {"blocked", "fail"}
       /\ budget.negatives > 0
       /\ budget' = [budget EXCEPT !.negatives = @ - 1]

Decide(p, stage, result) ==
    /\ pend[p] = None
    /\ Route = stage
    /\ pend' = [pend EXCEPT ![p] =
                  [stage |-> stage,
                   result |-> result,
                   closure |-> CurrentBranchClosure,
                   dispatch |-> IF lineage = None THEN 0 ELSE lineage.dispatch,
                   tree |-> tree]]
    /\ Affordable(result)
    /\ UNCHANGED <<tree, tasks, records, dispatch, checkpoint, followUp, judged>>

ReadRelease(p) == \E result \in {"ready", "blocked"} : Decide(p, "release_readiness", result)
ReadDispatch(p) == Decide(p, "dispatch", "none")
ReadFinalReview(p) == \E result \in {"pass", "fail"} : Decide(p, "final_review", result)

\* The write of a command that has decided on stage.
Writing(p, stage) ==
    /\ pend[p] # None
    /\ pend[p].stage = stage
    /\ pend' = [pend EXCEPT ![p] = None]
    /\ UNCHANGED <<tree, budget, tasks, followUp>>

\* A second result for the same closure is refused, unless it replaces a
\* blocked one; an equal one changes nothing.
ReleaseConflicts(p) ==
    /\ release.id # None
    /\ release.id.closure = pend[p].closure
    /\ release.id.result = pend[p].result \/ release.id.result # "blocked"

record_release_readiness_result(p) ==
    LET first == [closure |-> pend[p].closure, result |-> pend[p].result, n |-> 1]
        id == next_available_history_record_id(release.known, first)
    IN  /\ release' = Install(release, id)
        /\ final' = Retire(final)
        /\ qa' = Retire(qa)
        /\ lineage' = None
        /\ dispatchId' = None
        /\ judged' = judged \cup {<<id, pend[p].tree>>}
        /\ UNCHANGED <<branch, dispatched, checkpoint>>

WriteRelease(p) ==
    /\ Writing(p, "release_readiness")
    /\ \/ /\ ~ReleaseConflicts(p)
          /\ record_release_readiness_result(p)
       \/ /\ ReleaseConflicts(p)
          /\ UNCHANGED <<records, dispatch, checkpoint, judged>>

\* Under the claim only the lineage and the current closure are looked at again.
WriteDispatch(p) ==
    /\ Writing(p, "dispatch")
    /\ \/ /\ ~DispatchCurrent
          /\ branch.id # None
          /\ lineage' = [closure |-> branch.id, dispatch |-> dispatched + 1]
          /\ dispatchId' = dispatched + 1
          /\ dispatched' = dispatched + 1
       \/ /\ DispatchCurrent \/ branch.id = None
          /\ UNCHANGED dispatch
    /\ UNCHANGED <<records, checkpoint, judged>>

\* One outcome per closure and dispatch; a release-readiness record must exist.
FinalReviewRefused(p) ==
    \/ release.id = None
    \/ final.id # None /\ final.id.closure = pend[p].closure /\ dispatchId = pend[p].dispatch

\* The release-readiness record is the one of the state under the claim.
record_final_review_result(p) ==
    LET id == [closure |-> pend[p].closure, release |-> release.id,
               dispatch |-> pend[p].dispatch, result |-> pend[p].result]
    IN  /\ final' = Install(final, id)
        /\ qa' = IF final.id = id THEN qa ELSE Retire(qa)
        /\ dispatchId' = pend[p].dispatch
        /\ judged' = judged \cup {<<id, pend[p].tree>>}
        /\ UNCHANGED <<branch, release, lineage, dispatched, checkpoint>>

WriteFinalReview(p) ==
    /\ Writing(p, "final_review")
    /\ \/ /\ ~FinalReviewRefused(p)
          /\ record_final_review_result(p)
       \/ /\ FinalReviewRefused(p)
          /\ UNCHANGED <<records, dispatch, checkpoint, judged>>

-----------------------------------------------------------------------------
(***************************************************************************)
(* QA and the finish-review checkpoint check everything under the claim.   *)
(***************************************************************************)
RecordQa(p, result) ==
    LET id == [closure |-> CurrentBranchClosure, final |-> CurrentFinal, result |-> result]
    IN  /\ pend[p] = None
        /\ Route = "qa"
        /\ Affordable(result)
        /\ qa' = Install(qa, id)
        /\ judged' = judged \cup {<<id, tree>>}
        /\ UNCHANGED <<tree, tasks, branch, release, final, dispatch, checkpoint, followUp, pend>>

RecordFinishReview(p) ==
    /\ pend[p] = None
    /\ Route = "finish_review"
    /\ GateReviewAllowed
    /\ checkpoint' = CurrentBranchClosure
    /\ UNCHANGED <<tree, budget, tasks, records, dispatch, followUp, pend, judged>>

-----------------------------------------------------------------------------
(***************************************************************************)
(* repair-review-state: drift on the late-stage surface is left to         *)
(* advance-late-stage; for a stale task closure, the task closure and then *)
(* the branch closure are cleared, each under a claim of its own.          *)
(***************************************************************************)
Repairing(p, stage) ==
    pend' = [pend EXCEPT ![p] = [stage |-> stage, result |-> "none", closure |-> None,
                                 dispatch |-> 0, tree |-> tree]]

ReadRepair(p) ==
    /\ pend[p] = None
    /\ Route = "repair"
    /\ Repairing(p, IF TaskClosureCurrent THEN "follow_up" ELSE "clear_task")
    /\ UNCHANGED <<tree, budget, tasks, records, dispatch, checkpoint, followUp, judged>>

ClearTaskClosure(p) ==
    /\ pend[p] # None
    /\ pend[p].stage = "clear_task"
    /\ Repairing(p, "clear_branch")
    /\ baseline' = None
    /\ UNCHANGED <<tree, budget, closed, records, dispatch, checkpoint, followUp, judged>>

\* clear_current_branch_closure_for_structural_repair clears whichever branch
\* closure is current when the repair gets its second claim.
ClearBranchClosure(p) ==
    /\ Writing(p, "clear_branch")
    /\ branch' = Retire(branch)
    /\ ResetLateStage
    /\ UNCHANGED judged

PersistFollowUp(p) ==
    /\ pend[p] # None
    /\ pend[p].stage = "follow_up"
    /\ followUp' = pend[p].tree
    /\ pend' = [pend EXCEPT ![p] = None]
    /\ UNCHANGED <<tree, budget, tasks, records, dispatch, checkpoint, judged>>

\* A claim is refused while another process holds the authority.
ClaimRefused(p) ==
    /\ pend[p] # None
    /\ pend' = [pend EXCEPT ![p] = None]
    /\ UNCHANGED <<tree, budget, tasks, records, dispatch, checkpoint, followUp, judged>>

-----------------------------------------------------------------------------
msInit ==
    /\ tree = CHOOSE t \in Trees : TRUE     \* contents are interchangeable
    /\ budget \in Budgets
    /\ baseline = [code |-> tree.code, n |-> 1]
    /\ closed = 1
    /\ branch = NoRecords
    /\ release = NoRecords
    /\ final = NoRecords
    /\ qa = NoRecords
    /\ lineage = None
    /\ dispatchId = None
    /\ dispatched = 0
    /\ checkpoint = None
    /\ followUp = None
    /\ pend = [p \in Procs |-> None]
    /\ judged = {}

Write(p) ==
    \/ WriteRelease(p) \/ WriteDispatch(p) \/ WriteFinalReview(p)
    \/ ClearTaskClosure(p) \/ ClearBranchClosure(p) \/ PersistFollowUp(p)

Command(p) ==
    \/ RecordBranchClosure(p)
    \/ ReadRelease(p) \/ ReadDispatch(p) \/ ReadFinalReview(p)
    \/ \E result \in {"pass", "fail"} : RecordQa(p, result)
    \/ RecordFinishReview(p)
    \/ ReadRepair(p)

msNext ==
    \/ \E t \in Trees : Edit(t)
    \/ CloseTasks
    \/ \E p \in budget.procs : Command(p) \/ Write(p) \/ ClaimRefused(p)

(***************************************************************************)
(* The operator's recommendation is followed again and again, the work on  *)
(* the tasks is done, and a command that is tried again and again gets the *)
(* authority: claims are only refused while another command holds it.      *)
(***************************************************************************)
msFairness ==
    /\ WF_msVars(CloseTasks)
    /\ WF_msVars(\E p \in budget.procs : Command(p))
    /\ \A p \in Procs : SF_msVars(Write(p))

msSpec == msInit /\ [][msNext]_msVars
msFairSpec == msSpec /\ msFairness

-----------------------------------------------------------------------------
(***************************************************************************)
(* In each kind of record at most one is current, and it is the one the    *)
(* state points to, though commands write for closures that are no longer  *)
(* current and repairs clear what others have recorded.                    *)
(***************************************************************************)
PointerNamesTheCurrentRecord ==
    \A ledger \in {branch, release, final, qa} :
        ledger.live = IF ledger.id = None THEN {} ELSE {ledger.id}

(***************************************************************************)
(* The finish gate opens only on a worktree that was reviewed: a release   *)
(* readiness and, where required, a QA that were decided on this very      *)
(* tree, a final review that was decided on this code, and a task closure  *)
(* of this code, whatever was edited, reverted, reviewed and repaired      *)
(* before, and by whom.                                                    *)
(***************************************************************************)
FinishMeansReviewed ==
    GateFinishAllowed =>
        /\ baseline.code = tree.code
        /\ <<release.id, tree>> \in judged
        /\ \E t \in Trees : t.code = tree.code /\ <<final.id, t>> \in judged
        /\ QaRequired => <<qa.id, tree>> \in judged

(***************************************************************************)
(* Once the worktree is left alone and the reviews are positive, the       *)
(* operator's route leads to an open finish gate that stays open: no       *)
(* route, repair or refusal leaves the branch in a cycle or stuck.         *)
(***************************************************************************)
Finishes == <>[]GateFinishAllowed
=============================================================================
