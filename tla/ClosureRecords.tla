--------------------------- MODULE ClosureRecords ---------------------------
(***************************************************************************)
(* The closure records of a plan's execution as the runtime writes them    *)
(* (the current record of each task beside the history of all, the ids     *)
(* that were superseded, the negative verdicts, the review dispatches, the *)
(* branch closure and its milestones), and the closure graph that status   *)
(* and routing derive from them.                                           *)
(*                                                                         *)
(* The commands are the ones of StepExecution and Milestones, which say    *)
(* what happens when they run side by side; here each is one action, and   *)
(* the question is whether a long sequence of them leaves records that the *)
(* readers of the overlay, the readers of the history and the graph agree  *)
(* on.  One plan revision and one run; no file is a directory of another.  *)
(***************************************************************************)
EXTENDS Naturals, FiniteSets

CONSTANTS
    PlanTaskIds,   \* numbers of the plan's tasks
    Files,         \* tracked files
    LateFiles,     \* the plan's Late-Stage Surface
    DeclaredFiles, \* the files each task declares
    NoId,          \* no record: a model value
    MaxRuns,       \* bound: completions of one task
    MaxTouches,    \* bound: edits outside of the tasks
    MaxClosures    \* bound: commands that record, clear or restore

ASSUME ClosureRecordsAssumption ==
    /\ PlanTaskIds \subseteq Nat \ {0}
    /\ LateFiles \subseteq Files
    /\ DeclaredFiles \in [PlanTaskIds -> SUBSET Files]
    /\ {MaxRuns, MaxTouches, MaxClosures} \subseteq Nat

VARIABLES
    work,       \* per task: its completions, whether it is complete, the files it wrote
    content,    \* the worktree: a version of each file
    contract,   \* the plan: a version of each task's definition
    closures,   \* task closures: overlay, history and superseded ids
    verdicts,   \* negative results: overlay and history
    dispatches, \* review dispatches of the tasks: overlay and history
    stages,     \* branch closure, release readiness, final review, QA
    spent       \* history: commands and edits used up

crVars == <<work, content, contract, closures, verdicts, dispatches, stages, spent>>

Kinds == {"branch", "release", "final", "qa"}
Empty == [x \in {} |-> x]
At(f, x, y) == [k \in DOMAIN f \cup {x} |-> IF k = x THEN y ELSE f[k]]
Without(f, S) == [k \in DOMAIN f \ S |-> f[k]]

\* mark_record_status: the entries of a history with these ids get the status.
mark_record_status(history, ids, status) ==
    [id \in DOMAIN history |->
        IF id \in ids THEN [history[id] EXCEPT !.status = status] ELSE history[id]]

-----------------------------------------------------------------------------
(***************************************************************************)
(* Task closures.                                                          *)
(***************************************************************************)
\* current_task_closure_record_id: determined by the task and the attempts by
\* which it is complete.
ClosureId(t) == [task |-> t, run |-> work[t].run]

\* current_task_effective_reviewed_surface_paths: declared and observed files.
SurfaceOf(t) == DeclaredFiles[t] \cup work[t].seen

\* current_task_closure_results_from_history
FromHistory ==
    LET live == {id \in DOMAIN closures.history : closures.history[id].status = "current"}
    IN  [t \in {id.task : id \in live} |-> CHOOSE id \in live : id.task = t]

\* current_task_closure_results: the history before the overlay.
CurrentClosures ==
    [t \in DOMAIN FromHistory \cup DOMAIN closures.current |->
        IF t \in DOMAIN FromHistory THEN FromHistory[t] ELSE closures.current[t]]

\* task_closure_matches_current_workspace: every change since the review is in
\* the late-stage surface, or none is in the reviewed one.
MatchesWorkspace(id) ==
    LET record == closures.history[id]
        changed == {f \in Files : content[f] # record.tree[f]}
    IN  \/ record.surface = {}
        \/ LateFiles # {} /\ changed \subseteq LateFiles
        \/ changed \cap record.surface = {}

\* validate_current_task_closure_record: reviewed under the task's definition.
ValidClosure(id) == closures.history[id].contract = contract[id.task]

\* structural_current_task_closure_failures_from_authoritative_state
StructuralFailures == {t \in DOMAIN CurrentClosures : ~ValidClosure(CurrentClosures[t])}

\* task_current_closure_status_from_authoritative_state
ClosureStatus(t) ==
    IF t \notin DOMAIN CurrentClosures THEN "missing"
    ELSE IF t \in StructuralFailures THEN "invalid"
    ELSE IF MatchesWorkspace(CurrentClosures[t]) THEN "current" ELSE "stale"

\* still_current_task_closure_records_from_authoritative_state
StillCurrent == {CurrentClosures[t] : t \in {u \in DOMAIN CurrentClosures : ClosureStatus(u) = "current"}}

\* superseded_task_closure_records: every other record of the task, and of any
\* task whose reviewed surface overlaps.
superseded_task_closure_records(t) ==
    {id \in DOMAIN closures.history :
        /\ id # ClosureId(t)
        /\ id.task = t \/ closures.history[id].surface \cap SurfaceOf(t) # {}}

\* remove_current_task_closure_results_with_record_status
RemoveCurrent(ledger, tasks, status) ==
    LET removed == {CurrentClosures[t] : t \in tasks \cap DOMAIN CurrentClosures}
    IN  [ledger EXCEPT !.current = Without(@, tasks),
                       !.history = mark_record_status(@, removed, status)]

\* record_task_closure_result: a record sequence counts the history's entries.
TaskClosureEntry(t, history) ==
    [seq |-> Cardinality(DOMAIN history) + 1, status |-> "current", dispatch |-> dispatches.current[t],
     surface |-> SurfaceOf(t), tree |-> content, contract |-> contract[t]]

\* Mutant: what a closure supersedes is not remembered.
RecordForgetsSuperseded(t) ==
    LET older == superseded_task_closure_records(t)
        ledger == RemoveCurrent(closures, {id.task : id \in older}, "superseded")
    IN  [ledger EXCEPT !.current = At(@, t, ClosureId(t)),
                       !.history = At(@, ClosureId(t), TaskClosureEntry(t, ledger.history))]

\* record_current_task_closure: the tasks of the superseded records lose their
\* current closure, then the record is inserted in overlay and history.
RecordTaskClosure(t) ==
    LET older == superseded_task_closure_records(t)
        ledger == RemoveCurrent(closures, {id.task : id \in older}, "superseded")
    IN  [current |-> At(ledger.current, t, ClosureId(t)),
         history |-> At(ledger.history, ClosureId(t), TaskClosureEntry(t, ledger.history)),
         superseded |-> ledger.superseded \cup older]

\* current_task_closure_overlay_needs_restore
OverlayNeedsRestore == FromHistory # Empty /\ closures.current # FromHistory

(***************************************************************************)
(* Negative results are kept by task and dispatch.  The record carries the *)
(* semantic identity of the reviewed state; a restored overlay does not.   *)
(***************************************************************************)
NegativesFromHistory ==
    LET live == {id \in DOMAIN verdicts.history : verdicts.history[id].status = "current"}
    IN  [t \in {id.task : id \in live} |->
            [id |-> CHOOSE id \in live : id.task = t, semantic |-> TRUE]]

\* task_closure_negative_result
Negative(t) ==
    IF t \in DOMAIN NegativesFromHistory THEN NegativesFromHistory[t].id
    ELSE IF t \in DOMAIN verdicts.current THEN verdicts.current[t].id
    ELSE NoId

\* clear_task_closure_negative_result
ClearNegative(t) ==
    [current |-> Without(verdicts.current, {t}),
     history |-> mark_record_status(verdicts.history, {Negative(t)}, "historical")]

\* record_task_closure_negative_result
RecordNegative(t) ==
    LET id == [task |-> t, dispatch |-> dispatches.current[t]]
    IN  [current |-> At(verdicts.current, t, [id |-> id, semantic |-> TRUE]),
         history |-> At(verdicts.history, id, [status |-> "current", tree |-> content])]

NegativeNeedsRestore == NegativesFromHistory # Empty /\ verdicts.current # NegativesFromHistory

(***************************************************************************)
(* Review dispatches: the overlay names the dispatch of a task, and binds  *)
(* it to the completion it was made for.                                   *)
(***************************************************************************)
\* archive_task_dispatch_lineage_record
ArchiveDispatch(t, status) ==
    IF t \in DOMAIN dispatches.current
    THEN mark_record_status(dispatches.history, {dispatches.current[t]}, status)
    ELSE dispatches.history

\* upsert_task_dispatch_lineage
UpsertDispatch(t) ==
    LET id == [task |-> t, run |-> work[t].run, n |-> Cardinality(DOMAIN dispatches.history) + 1]
    IN  [current |-> At(dispatches.current, t, id),
         history |-> At(ArchiveDispatch(t, "historical"), id, [status |-> "current"])]

\* clear_task_review_dispatch_lineage_with_record_status
ClearDispatch(t, status) ==
    [current |-> Without(dispatches.current, {t}), history |-> ArchiveDispatch(t, status)]

DispatchBinds(t) == t \in DOMAIN dispatches.current /\ dispatches.current[t].run = work[t].run

-----------------------------------------------------------------------------
(***************************************************************************)
(* Branch closure and milestones: the id the overlay binds, and the        *)
(* records, each with what it depends on.                                  *)
(***************************************************************************)
NoStage == [bound |-> NoId, shown |-> NoId, records |-> Empty]

LiveRecords(k) == {id \in DOMAIN stages[k].records : stages[k].records[id].status = "current"}

\* bound_current_branch_closure_identity, current_record_entry: what is bound,
\* if its record is current.  Milestones are never inferred from the history.
Bound(k) == IF stages[k].bound \in LiveRecords(k) THEN stages[k].bound ELSE NoId

\* recoverable_current_branch_closure_identity: without a binding, the only
\* record that is current.
RecoverableBranch ==
    IF Bound("branch") # NoId THEN Bound("branch")
    ELSE IF Cardinality(LiveRecords("branch")) = 1 THEN CHOOSE id \in LiveRecords("branch") : TRUE
    ELSE NoId

\* validated_current_branch_closure_identity: the bound closure, if it was made
\* from the task closures that still are current.
ValidBranch ==
    IF /\ Bound("branch") # NoId
       /\ stages.branch.records[Bound("branch")].deps = StillCurrent
       /\ stages.branch.records[Bound("branch")].contract = contract
    THEN Bound("branch") ELSE NoId

Upstream(k) == CASE k = "release" -> "branch" [] k = "final" -> "release" [] k = "qa" -> "final"
Downstream(k) == CASE k = "release" -> {"final", "qa"} [] k = "final" -> {"qa"} [] k = "qa" -> {}
Dependencies(k) == {Bound("branch"), Bound(Upstream(k))}
NewStageId(k) == [kind |-> k, n |-> Cardinality(DOMAIN stages[k].records) + 1]

Retired(stage, status) ==
    [bound |-> NoId, shown |-> NoId, records |-> mark_record_status(stage.records, {stage.bound}, status)]
Entered(stage, id, deps, tree) ==
    [bound |-> id, shown |-> id,
     records |-> At(stage.records, id, [status |-> "current", deps |-> deps, tree |-> tree,
                                         contract |-> contract])]

\* Mutant: milestones of the old branch closure stay bound.
SetBranchKeepsMilestones ==
    [k \in Kinds |->
        IF k = "branch"
        THEN Entered(Retired(stages.branch, "superseded"), NewStageId("branch"), StillCurrent, content)
        ELSE stages[k]]

\* record_branch_closure, set_current_branch_closure_id: the closure that was
\* bound is superseded, the milestones are historical.
SetBranch ==
    [k \in Kinds |->
        IF k = "branch"
        THEN Entered(Retired(stages.branch, "superseded"), NewStageId("branch"), StillCurrent, content)
        ELSE Retired(stages[k], "historical")]

\* A new record of a milestone ends the milestones that built on the old one.
RecordStage(k) ==
    [j \in Kinds |->
        IF j = k
        THEN Entered(Retired(stages[k], "historical"), NewStageId(k), Dependencies(k),
                     stages.branch.records[Bound("branch")].tree)
        ELSE IF j \in Downstream(k) THEN Retired(stages[j], "historical") ELSE stages[j]]

\* clear_current_branch_closure_for_structural_repair
ClearBranch == [k \in Kinds |-> Retired(stages[k], "historical")]

-----------------------------------------------------------------------------
(***************************************************************************)
(* The closure graph.                                                      *)
(***************************************************************************)
\* ingest_task_closure_history, apply_superseded_task_ids
TaskFreshness(id) ==
    IF id \in closures.superseded THEN "superseded" ELSE closures.history[id].status

\* refresh_current_indexes: of the current records of a task, the latest.
GraphTask(t) ==
    LET live == {id \in DOMAIN closures.history : id.task = t /\ TaskFreshness(id) = "current"}
    IN  IF live = {} THEN NoId
        ELSE CHOOSE id \in live :
                \A other \in live : closures.history[other].seq <= closures.history[id].seq

\* task_closure_surface_is_same_or_broader; an empty surface covers nothing.
SameOrBroader(newer, older) ==
    \/ closures.history[older].surface = {}
    \/ closures.history[older].surface \subseteq closures.history[newer].surface

\* The record that supersedes a task's record that is not current: a stale one
\* needs a later one with the same or a broader surface.
SupersededByTask(id) ==
    LET newer == GraphTask(id.task)
    IN  /\ newer \notin {NoId, id}
        /\ TaskFreshness(id) # "current"
        /\ TaskFreshness(id) = "stale_unreviewed" =>
                /\ closures.history[newer].seq > closures.history[id].seq
                /\ SameOrBroader(newer, id)

\* stale_unreviewed_evaluations, earliest_unresolved_stale_task_number
UnresolvedStaleTasks ==
    {id.task : id \in {i \in DOMAIN closures.history :
        TaskFreshness(i) = "stale_unreviewed" /\ ~SupersededByTask(i)}}

\* ClosureGraphSignals: the ids the overlay binds, which the graph never infers
\* from the history.
Signal(k) == IF stages[k].bound \in DOMAIN stages[k].records THEN stages[k].bound ELSE NoId

\* late_stage_candidate_closure_ids_from_signals: the closures that the branch
\* closure and the milestones name.
LateCandidates ==
    ({Signal("branch")} \cup UNION {stages[k].records[Signal(k)].deps :
                                    k \in {j \in Kinds \ {"branch"} : Signal(j) # NoId}})
        \cap DOMAIN stages.branch.records

\* ingest_branch_closure_history, apply_late_stage_stale_projection
BranchFreshness(id, late) ==
    LET status == stages.branch.records[id].status
    IN  IF late /\ id \in LateCandidates /\ status \in {"current", "superseded"}
        THEN "stale_unreviewed" ELSE status

\* bound_current_record_id
GraphBranch(late) ==
    LET id == Signal("branch")
    IN  IF id # NoId /\ BranchFreshness(id, late) = "current" THEN id ELSE NoId

\* bound_current_milestone_record_id: a milestone counts when it depends on the
\* branch closure and on the milestone before it, which count.
BoundMilestone(k, needs) ==
    LET id == Signal(k)
    IN  IF /\ id # NoId /\ stages[k].records[id].status = "current"
           /\ NoId \notin needs /\ needs \subseteq stages[k].records[id].deps
        THEN id ELSE NoId

GraphRelease(late) == BoundMilestone("release", {GraphBranch(late)})
GraphFinal(late) == BoundMilestone("final", {GraphBranch(late), GraphRelease(late)})
GraphQa(late) == BoundMilestone("qa", {GraphBranch(late), GraphFinal(late)})
GraphStage(k) ==
    CASE k = "branch" -> GraphBranch(FALSE) [] k = "release" -> GraphRelease(FALSE)
      [] k = "final" -> GraphFinal(FALSE) [] k = "qa" -> GraphQa(FALSE)

(***************************************************************************)
(* current_late_stage_branch_bindings, and the overlays that               *)
(* repair-review-state restores.                                           *)
(***************************************************************************)
Binding(k) ==
    LET id == GraphStage(k)
    IN  IF ValidBranch # NoId /\ id # NoId /\ ValidBranch \in stages[k].records[id].deps
        THEN id ELSE NoId

\* restore_current_branch_closure_overlay_fields
RestoredBranch ==
    IF ValidBranch = NoId THEN stages.branch
    ELSE [stages.branch EXCEPT !.bound = ValidBranch, !.shown = ValidBranch]

\* The id of a milestone and then its result fields, which need the branch
\* closure of the record, and the milestone before it.
RestoredStage(k, needs) ==
    [stages[k] EXCEPT
        !.bound = Binding(k),
        !.shown = IF Binding(k) # NoId /\ needs \subseteq stages[k].records[Binding(k)].deps
                  THEN Binding(k) ELSE @]
RestoredRelease == RestoredStage("release", {RecoverableBranch})
RestoredFinal == RestoredStage("final", {RecoverableBranch, RestoredRelease.bound})
RestoredQa == RestoredStage("qa", {RecoverableBranch, RestoredFinal.bound})

\* restore_review_state_projection_overlays
RestoredStages ==
    [branch |-> RestoredBranch, release |-> RestoredRelease, final |-> RestoredFinal, qa |-> RestoredQa]

-----------------------------------------------------------------------------
(***************************************************************************)
(* The operations.                                                         *)
(***************************************************************************)
Charge == spent.records < MaxClosures /\ spent' = [spent EXCEPT !.records = @ + 1]
Bumped(S) == [f \in Files |-> IF f \in S THEN content[f] + 1 ELSE content[f]]
PriorClosed(t) ==
    \A u \in PlanTaskIds : u < t /\ (\A v \in PlanTaskIds : v < t => v <= u) => ClosureStatus(u) = "current"

\* closure_baseline_candidate_task: the last task before the first that is not
\* complete.
CandidateTask(t) ==
    /\ work[t].done
    /\ \A u \in PlanTaskIds : u < t => work[u].done
    /\ \A u \in PlanTaskIds : u > t => \E v \in PlanTaskIds : t < v /\ v <= u /\ ~work[v].done

\* Somebody changes a file outside of the tasks.
Edit(f) ==
    /\ spent.touches < MaxTouches
    /\ spent' = [spent EXCEPT !.touches = @ + 1]
    /\ content' = Bumped({f})
    /\ UNCHANGED <<work, contract, closures, verdicts, dispatches, stages>>

\* Somebody changes the definition of a task in the approved plan.
Revise(t) ==
    /\ spent.touches < MaxTouches
    /\ spent' = [spent EXCEPT !.touches = @ + 1]
    /\ contract' = [contract EXCEPT ![t] = @ + 1]
    /\ UNCHANGED <<work, content, closures, verdicts, dispatches, stages>>

\* A task is begun and completed; begin wants the task before it closed.
Complete(t, seen) ==
    /\ ~work[t].done
    /\ work[t].run < MaxRuns
    /\ PriorClosed(t)
    /\ work' = [work EXCEPT ![t] = [run |-> @.run + 1, done |-> TRUE, seen |-> seen]]
    /\ content' = Bumped(seen)
    /\ UNCHANGED <<contract, closures, verdicts, dispatches, stages, spent>>

\* reopen: the closures it removes from its copy are not in its event.
Reopen(t) ==
    /\ work[t].done
    /\ work[t].run < MaxRuns
    /\ work' = [work EXCEPT ![t].done = FALSE]
    /\ UNCHANGED <<content, contract, closures, verdicts, dispatches, stages, spent>>

\* record_review_dispatch
Dispatch(t) ==
    /\ CandidateTask(t)
    /\ ~DispatchBinds(t)
    /\ Charge
    /\ dispatches' = UpsertDispatch(t)
    /\ verdicts' = ClearNegative(t)
    /\ UNCHANGED <<work, content, contract, closures, stages>>

MayClose(t) ==
    /\ CandidateTask(t)
    /\ DispatchBinds(t)
    /\ t \in DOMAIN CurrentClosures => CurrentClosures[t] # ClosureId(t)

\* close-current-task with passing results, unless a negative result was
\* recorded for this very state.
ClosePass(t) ==
    /\ MayClose(t)
    /\ Negative(t) # NoId => verdicts.history[Negative(t)].tree # content
    /\ Charge
    /\ closures' = RecordTaskClosure(t)
    /\ verdicts' = ClearNegative(t)
    /\ UNCHANGED <<work, content, contract, dispatches, stages>>

CloseFail(t) ==
    /\ MayClose(t)
    /\ Negative(t) # NoId => verdicts.history[Negative(t)].tree # content
    /\ Charge
    /\ verdicts' = RecordNegative(t)
    /\ UNCHANGED <<work, content, contract, closures, dispatches, stages>>

\* repair-review-state of a task whose closure is stale: the closure, the branch
\* closure and the dispatch are cleared.
Repair(t) ==
    /\ ClosureStatus(t) = "stale"
    /\ Charge
    /\ closures' = RemoveCurrent(closures, {t}, "stale_unreviewed")
    /\ stages' = ClearBranch
    /\ dispatches' = ClearDispatch(t, "stale_unreviewed")
    /\ UNCHANGED <<work, content, contract, verdicts>>

\* repair-review-state of closures that are structurally invalid: they are
\* history, and the dispatch of the blocking task is cleared.
RepairStructure(t) ==
    /\ t \in StructuralFailures
    /\ Charge
    /\ closures' = RemoveCurrent(closures, {t}, "historical")
    /\ dispatches' = ClearDispatch(t, "historical")
    /\ UNCHANGED <<work, content, contract, verdicts, stages>>

\* record_current_branch_closure
RecordBranch ==
    /\ \A t \in PlanTaskIds : work[t].done /\ ClosureStatus(t) = "current"
    /\ ValidBranch = NoId
    /\ Charge
    /\ stages' = SetBranch
    /\ UNCHANGED <<work, content, contract, closures, verdicts, dispatches>>

RecordMilestone(k) ==
    /\ ValidBranch # NoId
    /\ Bound(Upstream(k)) # NoId
    /\ Charge
    /\ stages' = RecordStage(k)
    /\ UNCHANGED <<work, content, contract, closures, verdicts, dispatches>>

\* restore_review_state_projection_overlays
Restore ==
    /\ OverlayNeedsRestore \/ NegativeNeedsRestore \/ stages # RestoredStages
    /\ Charge
    /\ closures' = IF OverlayNeedsRestore THEN [closures EXCEPT !.current = FromHistory] ELSE closures
    /\ verdicts' = IF NegativeNeedsRestore
                   THEN [verdicts EXCEPT !.current =
                            [t \in DOMAIN NegativesFromHistory |->
                                [NegativesFromHistory[t] EXCEPT !.semantic = FALSE]]]
                   ELSE verdicts
    /\ stages' = RestoredStages
    /\ UNCHANGED <<work, content, contract, dispatches>>

\* A fresh run, or one whose records were imported without their overlays.
Untouched == [f \in Files |-> 0]
FirstContract == [t \in PlanTaskIds |-> 0]
Imported(t) == [task |-> t, run |-> 1]
NoStages == [k \in Kinds |-> NoStage]
ImportedStages ==
    LET id == [kind |-> "branch", n |-> 1]
    IN  [NoStages EXCEPT !.branch =
            [NoStage EXCEPT !.bound = id,
                !.records = At(Empty, id, [status |-> "current", tree |-> Untouched, contract |-> FirstContract,
                                           deps |-> {Imported(t) : t \in PlanTaskIds}])]]

crInit ==
    /\ content = Untouched
    /\ contract = FirstContract
    /\ verdicts = [current |-> Empty, history |-> Empty]
    /\ dispatches = [current |-> Empty, history |-> Empty]
    /\ spent = [touches |-> 0, records |-> 0]
    /\ \/ /\ work = [t \in PlanTaskIds |-> [run |-> 0, done |-> FALSE, seen |-> {}]]
          /\ closures = [current |-> Empty, history |-> Empty, superseded |-> {}]
          /\ stages = NoStages
       \/ /\ work = [t \in PlanTaskIds |-> [run |-> 1, done |-> TRUE, seen |-> DeclaredFiles[t]]]
          /\ closures = [current |-> Empty, superseded |-> {},
                         history |-> [id \in {Imported(t) : t \in PlanTaskIds} |->
                             [seq |-> id.task, status |-> "current", dispatch |-> NoId,
                              surface |-> DeclaredFiles[id.task], tree |-> Untouched, contract |-> 0]]]
          /\ stages = ImportedStages

crNext ==
    \/ \E f \in Files : Edit(f)
    \/ \E t \in PlanTaskIds :
        \/ \E seen \in SUBSET Files : seen \in {DeclaredFiles[t], Files \ LateFiles} /\ Complete(t, seen)
        \/ Revise(t) \/ Reopen(t) \/ Dispatch(t) \/ ClosePass(t) \/ CloseFail(t)
        \/ Repair(t) \/ RepairStructure(t)
    \/ RecordBranch
    \/ \E k \in Kinds \ {"branch"} : RecordMilestone(k)
    \/ Restore

crSpec == crInit /\ [][crNext]_crVars

-----------------------------------------------------------------------------
(***************************************************************************)
(* A task that the record readers call closed is never the one that status *)
(* sends the agent back to as stale: whatever stale records its history    *)
(* holds, the closure graph sees them superseded by the closure.           *)
(***************************************************************************)
ClosedTaskIsNotStale == DOMAIN CurrentClosures \cap UnresolvedStaleTasks = {}

(***************************************************************************)
(* The milestones that are bound are the ones the closure graph counts: no *)
(* sequence of commands leaves a release readiness, final review or QA     *)
(* bound that belongs to another branch closure or to another milestone.   *)
(***************************************************************************)
BoundMilestonesCount == \A k \in Kinds : Bound(k) = GraphStage(k)
=============================================================================
