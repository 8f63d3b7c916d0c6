---------------------------- MODULE NextAction ----------------------------
(***************************************************************************)
(* The choice of the next public action: the pure function at the centre   *)
(* of status, operator and every command's preflight.                      *)
(*   src/src/execution/route_plan/next_action_choice.rs and its submodules *)
(*   src/src/execution/repair_target_selection.rs,                         *)
(*   resume_stale_precedence.rs, stale_target_selection.rs and             *)
(*   repair_route_decision/baseline_bridge.rs (the "baseline bridge": a    *)
(*   finished task that has lost its closure may be closed again rather    *)
(*   than executed again)                                                  *)
(*                                                                         *)
(* A state of the program is a record f of facts: what PlanExecutionStatus *)
(* and NextActionAuthorityInputs hold when a route is planned.  Task 0 is  *)
(* None.  A step is known by its task, so a marker (active, resume,        *)
(* block) is a task; blockStep says that the blocking marker names a step. *)
(* Two simplifications come from the code.  At planning time the route     *)
(* fields of the status are empty (reset_route_projection_fields_at_       *)
(* status_boundary): every test of status.phase_detail, state_kind,        *)
(* execution_reentry_target_source or public_repair_targets is false and   *)
(* is left out.  And task_review_result_pending_task always answers None,  *)
(* so the task-review waiting lane is left out as well.                    *)
(*                                                                         *)
(*   started, runId    execution_started = "yes"; an execution run id      *)
(*   phase, review     harness phase; review_state_status                  *)
(*   reasons           reason_codes, by their short names                  *)
(*   progress[t]       how many of t's steps are checked: none, part, all  *)
(*   closed            tasks with a current task closure                   *)
(*   contributes       some current closure has a branch surface           *)
(*   branch, drift     a current branch closure; meaningful drift since    *)
(*   staleIds          stale_unreviewed_closures is not empty              *)
(*   target, bridged   the task of the stale target the closure graph      *)
(*                     gives, and whether closing again settles it         *)
(*   drivable          some stale target (or tracked drift) drives repair  *)
(*   staleRecords      tasks with a stale review_state blocking record     *)
(*   truth             tasks whose closure the runtime can record now      *)
(*   history           tasks with closure history                          *)
(*   dispatched        tasks with a still current review dispatch          *)
(*   cleanup           closed tasks that close-current-task would tidy     *)
(*   followUp, followTask   the repair follow-up on record, and its task   *)
(*   followHere        the work tree is as it was when it was recorded     *)
(*   assessment        can the branch closure be recorded again            *)
(***************************************************************************)
EXTENDS Naturals, FiniteSets, FiniteSetsExt

CONSTANT TaskNos        \* the plan's task numbers, 1..n

ASSUME TasksAssumption == TaskNos \subseteq Nat \ {0} /\ TaskNos # {} /\ IsFiniteSet(TaskNos)

LateStages == {"document_release_pending", "final_review_pending", "qa_pending",
               "ready_for_branch_completion"}
ContractPhases == {"contract_drafting", "contract_pending_approval",
                   "contract_approved", "evaluating"}
Recording == {"executing", "execution_preflight"}

\* Option::or on task numbers
Or(t, u) == IF t # 0 THEN t ELSE u
Has(f, codes) == f.reasons \cap codes # {}
Earlier(t, u) == t # 0 /\ t < u

(***************************************************************************)
(* Reason codes (closure_diagnostics/reason_codes.rs)                      *)
(***************************************************************************)
Structural == {"invalid", "malformed"}
RepairReasons == Structural \cup {"stale"}
BoundaryReasons == RepairReasons \cup {"missing", "cycle"}
BeginBlockReasons == RepairReasons \cup {"not_green", "cycle", "overlay"}
RecordingBlockers == {"not_green", "stale"}
BridgeBlockers == Structural \cup {"not_green", "surface"}
StaleTruthReasons == {"missing", "stale", "candidate", "cycle"}
PublicBoundaryReasons == BoundaryReasons \cup {"overlay", "not_green", "candidate"}

task_scope_structural_review_state_reason(f) == Has(f, Structural)

(***************************************************************************)
(* Effective review state                                                  *)
(***************************************************************************)
prerelease_branch_closure_refresh_required(f) ==
    f.phase = "document_release_pending" /\ f.release = "none" /\ f.branch /\ f.drift

effective_review_state_status(f, candidate) ==
    CASE candidate # "clean" -> candidate
      [] prerelease_branch_closure_refresh_required(f) -> "missing_current_closure"
      [] ~f.branch /\ Has(f, {"missing_current_closure"}) -> "missing_current_closure"
      [] f.staleIds -> "stale_unreviewed"
      [] OTHER -> "clean"

canonical_review_state_status(f) == effective_review_state_status(f, f.review)

effective_route_review_state_status(f, detail, candidate) ==
    CASE f.review = "stale_unreviewed" \/ (f.staleIds /\ detail = "task_closure_recording_ready")
           -> "stale_unreviewed"
      [] candidate = "clean" /\ detail = "branch_closure_recording_required"
           -> "missing_current_closure"
      [] OTHER -> effective_review_state_status(f, candidate)

(***************************************************************************)
(* Closures of the tasks and of the branch                                 *)
(***************************************************************************)
set_is_non_branch_contributing(f) == f.closed # {} /\ ~f.contributes
set_should_route_to_branch_closure(f) == ~f.branch /\ f.closed # {} /\ f.contributes
set_is_missing_for_late_stage_reentry(f) == ~f.branch /\ f.closed = {}
set_has_non_branch_contributing_closure_without_branch(f) ==
    ~f.branch /\ set_is_non_branch_contributing(f)
current_closure_scope_empty(f) == ~f.branch /\ f.closed = {}
task_should_route_to_branch_closure(f, t) == set_should_route_to_branch_closure(f) /\ t \in f.closed
completed_execution_missing_branch_closure(f) ==
    /\ f.started /\ ~f.branch
    /\ f.closed = TaskNos
    /\ f.active = 0 /\ f.resume = 0 /\ ~f.blockStep
late_stage_missing_task_closure_baseline_bridge_supported(f) ==
    f.assessment \in {"supported", "missing_baseline"}

negative_result_requires_execution_reentry(f) ==
    f.branch /\ ((f.final = "fail" /\ f.finalHere) \/ f.qaFailed)

stale_provenance_after_authoritative_closure_is_diagnostic(f) ==
    /\ f.closed # {} /\ ~f.staleIds
    /\ f.active = 0 /\ f.block = 0 /\ f.resume = 0
    /\ f.branch /\ ~f.drift
    /\ Has(f, {"stale_provenance"})

(***************************************************************************)
(* The repair follow-up that still counts.  One that sends the user back   *)
(* into a task lapses when the task is closed again, one that asks to      *)
(* close a task when no stale record of it is left; recorded closures have *)
(* passed, so without the gates' stale targets the latter never counts.    *)
(***************************************************************************)
\* mutant: closing the task again does not end its follow-up
FollowUpOutlivesClosure(f) == f.followUp # "close_current_task"

repair_follow_up_exact_target_still_bound(f) ==
    CASE f.followUp = "execution_reentry" -> f.followTask \notin f.closed
      [] f.followUp = "close_current_task" -> FALSE
      [] OTHER -> TRUE

\* resolve_actionable_repair_follow_up_for_status
FollowUp(f) ==
    IF f.followHere /\ repair_follow_up_exact_target_still_bound(f) THEN f.followUp ELSE "none"

\* resolve_actionable_repair_follow_up, with the stale targets of the gates
resolve_actionable_repair_follow_up(f) ==
    IF /\ f.followUp = "close_current_task" /\ f.followHere
       /\ f.drivable /\ f.target = f.followTask
    THEN f.followUp ELSE FollowUp(f)

(***************************************************************************)
(* The step command the markers stand for, and the stale target            *)
(***************************************************************************)
NoTarget == [kind |-> "none", task |-> 0]

resolve_execution_command_route_target(f) ==
    CASE f.active # 0 -> [kind |-> "complete", task |-> f.active]
      [] f.active = 0 /\ f.resume # 0 -> [kind |-> "begin", task |-> f.resume]
      [] f.active = 0 /\ f.resume = 0 /\ f.blockStep -> [kind |-> "begin", task |-> f.block]
      [] OTHER -> NoTarget

begin_route_target_matches_open_step_status(f, r) ==
    r.kind = "begin" /\ f.started /\ f.active = 0 /\ f.blockStep /\ f.block = r.task

authoritative_run_identity_matches_resume_begin_route(f, r) ==
    f.runId /\ f.active = 0 /\ f.resume = r.task

\* repair target candidates are reopen, close and repair targets, never begin,
\* and never complete: they add nothing here
execution_command_route_target_has_authority(f, r) ==
    /\ r.kind = "begin"
    /\ \/ begin_route_target_matches_open_step_status(f, r)
       \/ authoritative_run_identity_matches_resume_begin_route(f, r)

legal_execution_begin_route(f) ==
    execution_command_route_target_has_authority(f, resolve_execution_command_route_target(f))

resolve_execution_command_route_target_for_next_action(f) ==
    LET r == resolve_execution_command_route_target(f)
    IN  IF r.kind = "begin" /\ ~execution_command_route_target_has_authority(f, r)
        THEN NoTarget ELSE r

\* a stale record of an open step, or one that is the task's current closure,
\* is not a target to reenter
select_actionable_stale_reentry_target(f) ==
    IF f.target \in {f.resume, f.active} \cup f.closed THEN 0 ELSE f.target

stale_target_allows_task_closure_bridge_for_task(f, t) ==
    LET s == select_actionable_stale_reentry_target(f)
    IN  s # 0 => s >= t /\ (s > t \/ f.bridged)

select_earliest_stale_boundary_candidate(s, baseline) ==
    IF baseline # 0 /\ (s = 0 \/ baseline < s)
    THEN [task |-> baseline, source |-> "baseline_bridge"]
    ELSE [task |-> s, source |-> "stale_target"]

OpenStepTask(f) == Or(f.active, Or(f.resume, IF f.blockStep THEN f.block ELSE 0))

exact_resume_stale_task(f) ==
    IF f.resume # 0 /\ f.resume \in f.staleRecords \cup {select_actionable_stale_reentry_target(f)}
    THEN f.resume ELSE 0

resume_step_preempts_later_stale_target(f) ==
    LET goal == Or(select_actionable_stale_reentry_target(f), f.block)
    IN  IF f.resume # 0 /\ goal # 0 /\ f.resume < goal THEN f.resume ELSE 0

stale_resume_begin_route_candidate(f, review) ==
    /\ legal_execution_begin_route(f)
    /\ review = "stale_unreviewed"
    /\ f.active = 0 /\ f.resume # 0 /\ exact_resume_stale_task(f) = f.resume

projected_earliest_stale_task(f) ==
    LET known == f.staleRecords \cup ({f.target} \ {0})
    IN  IF known = {} THEN 0 ELSE Min(known)

(***************************************************************************)
(* The baseline bridge: may task t's lost closure be recorded again, given *)
(* that e is the earliest unresolved stale task                            *)
(***************************************************************************)
AllChecked(f, t) == f.progress[t] = "all"
PlanChecked(f) == \A t \in TaskNos : AllChecked(f, t)

closure_baseline_candidate_task(f) ==
    LET open == {t \in TaskNos : ~AllChecked(f, t)}
        before == IF open = {} THEN TaskNos ELSE {t \in TaskNos : t < Min(open)}
    IN  IF before = {} THEN 0 ELSE Max(before)

task_cycle_break_reason_targets_repaired_task(f, t) ==
    Has(f, {"cycle"}) => t = Or(f.cycleTask, f.block)

stale_unreviewed_allows_task_closure_baseline_bridge(f, t, e) ==
    /\ f.review = "stale_unreviewed"
    /\ AllChecked(f, t) /\ ~Earlier(e, t) /\ ~f.blockStep
    /\ ~Has(f, BridgeBlockers)
    /\ t \in f.truth
    /\ task_cycle_break_reason_targets_repaired_task(f, t)
    /\ Has(f, StaleTruthReasons)
    /\ f.active # t

\* the last task, the tasks before the first unchecked one, or a marked one
TaskScopeMatches(f, t) ==
    LET open == {u \in TaskNos : ~AllChecked(f, u)}
    IN  \/ ~f.blockStep /\ f.block = t
        \/ t \in {f.active, f.resume}
        \/ IF open = {} THEN t = Max(TaskNos) ELSE t < Min(open)

late_stage_missing_task_closure_baseline_bridge(f, t, e) ==
    /\ ~f.branch /\ PlanChecked(f)
    /\ e = t \/ f.review = "missing_current_closure"
    /\ late_stage_missing_task_closure_baseline_bridge_supported(f)

ClosureRepairPhase(f, t, e) ==
    \/ f.phase \in Recording
    \/ /\ f.phase \in LateStages /\ ~f.branch
       /\ late_stage_missing_task_closure_baseline_bridge(f, t, e)

task_closure_baseline_repair_candidate(f, t, e) ==
    LET allowed == stale_unreviewed_allows_task_closure_baseline_bridge(f, t, e)
    IN  /\ t # 0
        /\ f.assessment # "none"
        /\ AllChecked(f, t) /\ ~Earlier(e, t)
        /\ f.runId /\ t \notin f.closed
        /\ TaskScopeMatches(f, t) /\ t \in f.truth
        /\ late_stage_missing_task_closure_baseline_bridge(f, t, e) => t \in f.history
        /\ ~Has(f, Structural \cup {"surface"})
        /\ Has(f, RecordingBlockers) => f.review = "stale_unreviewed" /\ allowed
        /\ task_cycle_break_reason_targets_repaired_task(f, t)
        /\ f.review = "stale_unreviewed" /\ ~allowed =>
              t \notin {f.active, f.resume} /\ ~f.blockStep
        /\ ClosureRepairPhase(f, t, e)
        /\ ~set_has_non_branch_contributing_closure_without_branch(f)

task_closure_baseline_candidate_can_preempt_stale_target(f, t, e) ==
    \/ e = 0
    \/ t = e
    \/ t < e /\ ~f.blockStep /\ Has(f, {"missing", "candidate"})

task_closure_baseline_bridge_ready_for_stale_target(f, t, e) ==
    /\ ~Earlier(e, t)
    /\ ~Has(f, BridgeBlockers)
    /\ task_closure_baseline_repair_candidate(f, t, e)
    /\ \/ stale_unreviewed_allows_task_closure_baseline_bridge(f, t, e)
       \/ Has(f, {"cycle"}) /\ task_cycle_break_reason_targets_repaired_task(f, t)

\* a candidate as the route sees it: the stale task is the actionable target
Candidate(f, t) ==
    task_closure_baseline_repair_candidate(f, t, select_actionable_stale_reentry_target(f))

missing_current_closure_allows_task_closure_baseline_route(f, review) ==
    LET finished == ~f.branch /\ PlanChecked(f) /\ f.active = 0 /\ f.resume = 0 /\ ~f.blockStep
    IN  (finished \/ (review = "missing_current_closure" /\ ~f.branch)) =>
            /\ ~set_is_non_branch_contributing(f)
            /\ late_stage_missing_task_closure_baseline_bridge_supported(f)

closure_baseline_routing_reason_codes_compatible(f) ==
    ~Has(f, RecordingBlockers \cup Structural \cup {"cycle"})

non_current_stale_target_can_yield_to_missing_baseline(f, t) ==
    /\ f.block = t /\ ~f.blockStep
    /\ current_closure_scope_empty(f)
    /\ {"missing", "candidate"} \subseteq f.reasons

task_closure_baseline_bridge_ready_for_task(f, review, t) ==
    LET e == select_actionable_stale_reentry_target(f)
        ready == task_closure_baseline_bridge_ready_for_stale_target(f, t, e)
        signalled == /\ closure_baseline_routing_reason_codes_compatible(f)
                     /\ Has(f, {"missing"}) \/ (e = 0 /\ Has(f, {"candidate"}))
        bound == f.block = t /\ f.staleIds /\ t \in f.dispatched
    IN  /\ Candidate(f, t)
        /\ CASE review = "stale_unreviewed" ->
                  \/ ready /\ stale_target_allows_task_closure_bridge_for_task(f, t)
                  \/ non_current_stale_target_can_yield_to_missing_baseline(f, t)
             [] review = "clean" -> f.phase \in Recording /\ (ready \/ signalled \/ bound)
             [] OTHER -> ready \/ signalled \/ bound

task_closure_baseline_bridge_reentry_target(f) ==
    LET t == closure_baseline_candidate_task(f)
        e == select_actionable_stale_reentry_target(f)
    IN  IF /\ Candidate(f, t)
           /\ task_closure_baseline_candidate_can_preempt_stale_target(f, t, e)
           /\ stale_target_allows_task_closure_bridge_for_task(f, t)
        THEN t ELSE 0

task_closure_baseline_bridge_open_step_preempted_by_closure_recording(f, review, t) ==
    /\ missing_current_closure_allows_task_closure_baseline_route(f, review)
    /\ Has(f, {"missing"})
    /\ task_closure_baseline_bridge_ready_for_task(f, review, t)

task_closure_baseline_bridge_allows_stale_boundary_route(f, review, t) ==
    LET e == select_actionable_stale_reentry_target(f)
    IN  /\ \/ /\ task_closure_baseline_bridge_ready_for_stale_target(f, t, e)
              /\ stale_target_allows_task_closure_bridge_for_task(f, t)
           \/ non_current_stale_target_can_yield_to_missing_baseline(f, t) /\ Candidate(f, t)
        /\ missing_current_closure_allows_task_closure_baseline_route(f, review)
        /\ task_closure_baseline_bridge_ready_for_task(f, review, t)

task_closure_baseline_bridge_stale_boundary_route_ready(f, review, t) ==
    /\ ~task_scope_structural_review_state_reason(f)
    /\ \/ /\ task_closure_baseline_bridge_reentry_target(f) = t
          /\ review = "clean" /\ f.closed = {} /\ ~Has(f, {"stale"})
       \/ review # "stale_unreviewed" /\ current_closure_scope_empty(f) /\ Has(f, {"missing"})
       \/ task_closure_baseline_bridge_allows_stale_boundary_route(f, review, t)

(***************************************************************************)
(* A task-scope repair is due before execution may go on                   *)
(***************************************************************************)
task_scope_overlay_repair_required(f) ==
    f.phase = "executing" /\ Has(f, {"overlay"}) /\ ~f.branch

execution_reentry_requires_review_state_repair_with_bridge_allowance(f, allowed) ==
    LET task_scope == \/ task_scope_overlay_repair_required(f)
                      \/ task_scope_structural_review_state_reason(f)
                      \/ f.phase \in Recording /\ Has(f, {"stale"})
    IN  \/ task_scope
        \/ /\ ~(Has(f, {"candidate"}) /\ (f.review = "stale_unreviewed" => allowed))
           /\ Has(f, {"lease"}) \/ (f.branch /\ Has(f, {"branch_malformed"}))

\* without a context the bridge is never allowed
execution_reentry_requires_review_state_repair(f) ==
    execution_reentry_requires_review_state_repair_with_bridge_allowance(f, FALSE)

execution_reentry_requires_review_state_repair_with_authority(f) ==
    execution_reentry_requires_review_state_repair_with_bridge_allowance(f,
        /\ f.block # 0
        /\ stale_unreviewed_allows_task_closure_baseline_bridge(f, f.block,
               projected_earliest_stale_task(f)))

task_boundary_blocking_task(f) ==
    LET t == Or(f.block, f.active)
        begins == f.reasons \cap BeginBlockReasons
        \* the first begin-blocking code decides, and it must be a boundary code
        boundary == IF f.block # 0 /\ ~f.blockStep /\ begins # {}
                    THEN begins \cap BoundaryReasons # {}
                    ELSE Has(f, BoundaryReasons)
    IN  IF boundary THEN t ELSE 0

latest_checked_task(f) ==
    LET begun == {t \in TaskNos : f.progress[t] # "none"}
    IN  IF begun = {} THEN 0 ELSE Max(begun)

\* where execution has to be entered again, 0 if no authority says where
execution_reentry_target(f, negative) ==
    LET route == resolve_execution_command_route_target(f)
        legal == execution_command_route_target_has_authority(f, route)
        last == CASE Has(f, {"not_green"}) /\ f.block # 0 -> f.block
                  [] OTHER -> IF negative \/ Has(f, {"negative"}) THEN latest_checked_task(f) ELSE 0
    IN  Or(task_closure_baseline_bridge_reentry_target(f),
        Or(task_boundary_blocking_task(f),
        Or(f.active,
        Or(IF legal THEN f.resume ELSE 0,
        Or(select_actionable_stale_reentry_target(f),
           IF legal THEN route.task ELSE last)))))

(***************************************************************************)
(* Decisions                                                               *)
(***************************************************************************)
Decision(kind, detail, review, task, step, block, codes) ==
    [kind |-> kind, detail |-> detail, review |-> review, task |-> task,
     step |-> step, block |-> block, codes |-> codes]

None == Decision("none", "none", "clean", 0, FALSE, 0, {})
OrElse(d, e) == IF d # None THEN d ELSE e

MarkedTask(f) == Or(f.block, Or(f.resume, f.active))
MarkedStep(f) == f.blockStep \/ f.resume # 0 \/ f.active # 0

late_stage_decision(f, kind, detail) ==
    Decision(kind, detail, canonical_review_state_status(f), MarkedTask(f), MarkedStep(f),
             f.block, f.reasons)

late_stage_planning_reentry_decision(f, review) ==
    Decision("PlanningReentry", "planning_reentry_required", review, MarkedTask(f),
             MarkedStep(f), MarkedTask(f), f.reasons)

task_scope_handoff_decision(f, review) ==
    Decision("Handoff", "handoff_recording_required", review, MarkedTask(f), MarkedStep(f),
             MarkedTask(f), f.reasons)

missing_execution_reentry_target_decision(f, review) ==
    Decision("RepairReviewState", "runtime_reconcile_required", review, 0, FALSE, 0,
             f.reasons \cup {"targetless", "missing_authority"})

execution_repair_decision_for_task(f, review, t) ==
    Decision("RepairReviewState", "execution_reentry_required", review, t, MarkedStep(f), t,
             f.reasons)

RepairDecisionAt(f, review, t) ==
    CASE t # 0 -> execution_repair_decision_for_task(f, review, t)
      [] t = 0 /\ ~f.drivable /\ "stale_unreviewed" \in {review, f.review} ->
            missing_execution_reentry_target_decision(f, review)
      [] OTHER -> Decision("RepairReviewState", "execution_reentry_required", review, 0,
                           FALSE, 0, f.reasons \cup {"execution_target_missing"})

execution_repair_decision(f, review) ==
    RepairDecisionAt(f, review, execution_reentry_target(f, FALSE))

task_closure_recording_ready_decision(f, t) ==
    IF task_should_route_to_branch_closure(f, t)
    THEN late_stage_decision(f, "AdvanceLateStage", "branch_closure_recording_required")
    ELSE Decision("CloseCurrentTask", "task_closure_recording_ready", "clean", t, FALSE, t,
                  IF f.blockStep THEN {} ELSE f.reasons \cap PublicBoundaryReasons)

decision_from_execution_command_route_target(f, r) ==
    LET kind == CASE r.kind = "complete" -> "CloseCurrentTask"
                  [] r.kind = "begin" /\ f.resume = r.task -> "Resume"
                  [] OTHER -> "Begin"
        in_progress == \/ r.kind = "complete"
                       \/ f.blockStep /\ f.block = r.task
                       \/ /\ f.resume = r.task /\ f.phase = "executing"
                          /\ execution_reentry_requires_review_state_repair(f)
                       \/ f.blockStep /\ ~execution_reentry_requires_review_state_repair(f)
    IN  IF r = NoTarget THEN None
        ELSE Decision(kind,
                      IF in_progress THEN "execution_in_progress" ELSE "execution_reentry_required",
                      canonical_review_state_status(f), r.task, TRUE, f.block, f.reasons)

target_task_missing_current_closure_after_repair(f, t, codes) ==
    /\ f.block = t /\ t # 0 /\ t \notin f.closed
    /\ Has(f, {"missing"}) /\ Has(f, codes)

\* every task of the plan has a first step, so reopening always finds one
execution_reentry_decision_for_task(f, review, t, stale_boundary) ==
    LET r == resolve_execution_command_route_target(f)
        repair == /\ execution_reentry_requires_review_state_repair_with_authority(f)
                  /\ ~stale_boundary /\ ~Has(f, {"surface"})
                  /\ ~target_task_missing_current_closure_after_repair(f, t,
                          {"invalid", "stale_provenance"})
        resumes == /\ ~stale_boundary /\ r.task = t
                   /\ r.kind = "begin" => execution_command_route_target_has_authority(f, r)
    IN  CASE repair -> execution_repair_decision_for_task(f, review, t)
          [] ~repair /\ resumes ->
                LET d == decision_from_execution_command_route_target(f, r)
                IN  [d EXCEPT !.block = Or(d.block, t)]
          [] OTHER -> Decision("Reopen", "execution_reentry_required", review, t, TRUE, t, f.reasons)

\* reenter task t, where the authority says, or fall back to another decision
ReenterOr(f, review, t, fallback) ==
    IF t # 0 THEN execution_reentry_decision_for_task(f, review, t, FALSE) ELSE fallback

(***************************************************************************)
(* Overrides                                                               *)
(***************************************************************************)
late_stage_negative_result_reroute(f, review) ==
    /\ review = "clean" /\ f.branch /\ ~f.blockStep
    /\ Has(f, {"negative"}) \/ negative_result_requires_execution_reentry(f)

persisted_late_stage_reroute_missing_current_closure(f, review) ==
    /\ review = "missing_current_closure" /\ ~f.branch /\ f.closed # {} /\ ~f.blockStep
    /\ FollowUp(f) = "advance_late_stage"
    /\ {"stale_provenance", "missing"} \subseteq f.reasons
    /\ f.assessment # "drift_escapes" /\ ~Has(f, {"surface"})

task_scope_pivot_override_active(f, review) ==
    /\ f.phase \in ContractPhases \cup {"pivot_required"}
    /\ ~(/\ ~f.started /\ f.phase \in ContractPhases
         /\ f.active = 0 /\ f.resume = 0 /\ f.block = 0 /\ f.reasons = {})
    /\ review # "stale_unreviewed" /\ ~Has(f, {"stale_provenance"})

execution_reentry_blocking_task(f) ==
    LET review == canonical_review_state_status(f)
        t == task_boundary_blocking_task(f)
    IN  IF \/ persisted_late_stage_reroute_missing_current_closure(f, review)
           \/ t # 0 /\ task_closure_baseline_bridge_ready_for_task(f, review, t)
        THEN 0 ELSE t

\* well-formed markers come from one open step record each
hard_structural_corruption_detected(f) ==
    /\ task_scope_structural_review_state_reason(f)
    /\ ~target_task_missing_current_closure_after_repair(f, f.block,
            Structural \cup {"stale_provenance"})

(***************************************************************************)
(* The routes, in the order in which they are tried; None goes to the next *)
(***************************************************************************)
handoff_route_active(f) == f.handoff \/ Has(f, {"handoff_required"})

EarliestBoundary(f) ==
    IF handoff_route_active(f) THEN [task |-> 0, source |-> "stale_target"]
    ELSE select_earliest_stale_boundary_candidate(select_actionable_stale_reentry_target(f),
             task_closure_baseline_bridge_reentry_target(f))

missing_authoritative_stale_reentry_target_route(f, review) ==
    IF /\ review = "stale_unreviewed" /\ f.staleIds
       /\ select_actionable_stale_reentry_target(f) = 0 /\ ~f.drivable
    THEN missing_execution_reentry_target_decision(f, review) ELSE None

hard_structural_corruption_route(f, review) ==
    LET stale == EarliestBoundary(f).task
        blocking == execution_reentry_blocking_task(f)
    IN  CASE ~hard_structural_corruption_detected(f) -> None
          [] hard_structural_corruption_detected(f) /\ review = "stale_unreviewed"
             /\ stale # 0 /\ stale # f.block ->
                execution_reentry_decision_for_task(f, review, stale, TRUE)
          [] OTHER -> IF blocking # 0
                      THEN execution_reentry_decision_for_task(f, review, blocking, FALSE)
                      ELSE execution_repair_decision(f, review)

completed_execution_missing_branch_closure_route(f, review) ==
    CASE review # "clean" \/ ~completed_execution_missing_branch_closure(f) -> None
      [] OTHER -> IF set_is_non_branch_contributing(f) THEN execution_repair_decision(f, review)
                  ELSE late_stage_decision(f, "AdvanceLateStage",
                                           "branch_closure_recording_required")

late_stage_bridge_route_task(f, review) ==
    LET allows == missing_current_closure_allows_task_closure_baseline_route(f, review)
        t == closure_baseline_candidate_task(f)
    IN  CASE ~current_closure_scope_empty(f) -> 0
          [] current_closure_scope_empty(f) /\ f.block # 0 /\ allows -> f.block
          [] OTHER -> IF Has(f, {"missing"}) \/ (Candidate(f, t) /\ allows) THEN t ELSE 0

\* target is the task the authority enters again
LateStageDecisionFrom(f, review, target, bridge, baseline) ==
    LET advance == late_stage_decision(f, "AdvanceLateStage", "branch_closure_recording_required")
        repair == RepairDecisionAt(f, review, target)
    IN  IF bridge # 0 THEN task_closure_recording_ready_decision(f, bridge)
        ELSE IF set_is_missing_for_late_stage_reentry(f) THEN ReenterOr(f, review, target, repair)
        ELSE IF set_has_non_branch_contributing_closure_without_branch(f) THEN repair
        ELSE CASE f.assessment = "supported" -> advance
               [] f.assessment = "surface_not_declared" ->
                     late_stage_planning_reentry_decision(f, review)
               [] f.assessment = "drift_escapes" ->
                     ReenterOr(f, review, target, late_stage_planning_reentry_decision(f, review))
               [] f.assessment \in {"missing_baseline", "missing_baseline_drift"} ->
                     IF FollowUp(f) = "advance_late_stage" THEN advance
                     ELSE IF f.branch THEN repair
                     ELSE IF f.assessment = "missing_baseline" /\ Candidate(f, baseline)
                     THEN task_closure_recording_ready_decision(f, baseline)
                     ELSE ReenterOr(f, review, target, repair)

late_stage_missing_current_closure_decision_from_assessment(f, review) ==
    IF task_scope_structural_review_state_reason(f)
    THEN execution_repair_decision(f, canonical_review_state_status(f))
    ELSE LateStageDecisionFrom(f, review, execution_reentry_target(f, FALSE),
             late_stage_bridge_route_task(f, review), closure_baseline_candidate_task(f))

branch_rerecording_route(f, review) ==
    IF /\ ~legal_execution_begin_route(f)
       /\ review = "stale_unreviewed" => FollowUp(f) = "advance_late_stage"
       /\ f.drift \/ (f.branch /\ FollowUp(f) = "advance_late_stage")
       /\ f.assessment # "none"
    THEN late_stage_missing_current_closure_decision_from_assessment(f,
             effective_route_review_state_status(f, "branch_closure_recording_required", review))
    ELSE None

OpenStepPreempted(f, review) ==
    LET open == OpenStepTask(f)
        stale == EarliestBoundary(f).task
        blocking == execution_reentry_blocking_task(f)
    IN  \/ Earlier(stale, open)
        \/ Earlier(blocking, open)
        \/ review = "stale_unreviewed" /\ stale # 0 /\ open > stale
        \/ task_closure_baseline_bridge_open_step_preempted_by_closure_recording(f, review, open)
        \/ task_scope_pivot_override_active(f, review)

open_step_route(f, review) ==
    LET open == OpenStepTask(f)
        stale == EarliestBoundary(f).task
        resume_allowed == /\ review = "stale_unreviewed" /\ stale # 0
                          /\ ~task_scope_structural_review_state_reason(f)
                          /\ (stale = open /\ f.block = 0) \/ open < stale
        repair == /\ execution_reentry_requires_review_state_repair_with_authority(f)
                  /\ ~resume_allowed
                  /\ ~late_stage_negative_result_reroute(f, review)
    IN  IF open = 0 THEN None
        ELSE IF OpenStepPreempted(f, review) THEN None
        ELSE IF /\ review = "stale_unreviewed" /\ f.drivable
                /\ select_actionable_stale_reentry_target(f) = 0
        THEN missing_execution_reentry_target_decision(f, review)
        ELSE IF repair /\ f.reasons # {} THEN execution_repair_decision(f, review)
        ELSE decision_from_execution_command_route_target(f,
                 resolve_execution_command_route_target_for_next_action(f))

\* close-current-task repair targets the authority offers
CloseCandidates(f) ==
    f.cleanup \cup {t \in f.dispatched : t \notin f.closed /\ AllChecked(f, t)}

stale_boundary_route(f, review) ==
    LET boundary == EarliestBoundary(f)
        t == boundary.task
    IN  CASE t = 0 -> None
          [] OTHER ->
             IF \/ task_closure_baseline_bridge_stale_boundary_route_ready(f, review, t)
                \/ boundary.source = "baseline_bridge" /\ t \in CloseCandidates(f)
             THEN task_closure_recording_ready_decision(f, t)
             ELSE IF boundary.source = "baseline_bridge"
             THEN missing_execution_reentry_target_decision(f, review)
             ELSE execution_reentry_decision_for_task(f, review, t, TRUE)

late_stage_execution_reentry_decision(f, review) ==
    LET negative == late_stage_negative_result_reroute(f, review)
        provenance == /\ f.phase \in {"executing", "final_review_pending"}
                      /\ review = "clean" /\ f.branch /\ ~f.blockStep
                      /\ Has(f, {"stale_provenance"})
                      /\ ~stale_provenance_after_authoritative_closure_is_diagnostic(f)
        t == execution_reentry_target(f, negative)
    IN  CASE ~negative /\ ~provenance -> None
          [] OTHER -> IF t # 0 THEN execution_reentry_decision_for_task(f, review, t, negative)
                      ELSE missing_execution_reentry_target_decision(f, review)

\* the three bridges that close a task: the blocking one with its reasons, the
\* blocking one once an external review is in, and the candidate of the plan
ClosureBridgeTask(f, review) ==
    LET t == f.block
        allows == missing_current_closure_allows_task_closure_baseline_route(f, review)
        step_ok == f.blockStep => Has(f, {"missing"}) /\ f.review = "clean"
        blocked == /\ t # 0 /\ step_ok /\ f.phase \in Recording /\ allows
                   /\ {"missing", "candidate"} \subseteq f.reasons
                   /\ Candidate(f, t)
        ready == review = "stale_unreviewed" => task_closure_baseline_bridge_ready_for_task(f, review, t)
        reviewed == f.external /\ closure_baseline_routing_reason_codes_compatible(f)
        c == closure_baseline_candidate_task(f)
        unblocked == /\ t = 0 /\ f.phase \in Recording /\ Candidate(f, c) /\ allows
                     /\ \/ Has(f, {"missing", "candidate", "overlay"})
                        \/ /\ f.active = 0 /\ f.resume = 0 /\ review = "clean"
                           /\ closure_baseline_routing_reason_codes_compatible(f)
    IN  IF blocked /\ (ready \/ reviewed) THEN t
        ELSE IF unblocked THEN c ELSE 0

closure_prerequisite_route(f, review) ==
    LET bridge == ClosureBridgeTask(f, review)
    IN  IF \/ /\ review # "stale_unreviewed"
              /\ execution_reentry_requires_review_state_repair_with_authority(f)
              /\ ~late_stage_negative_result_reroute(f, review)
           \/ /\ f.phase = "executing" /\ review = "missing_current_closure" /\ ~f.branch
              /\ f.block = 0 /\ f.active = 0 /\ f.resume = 0
        THEN execution_repair_decision(f, review)
        ELSE OrElse(late_stage_execution_reentry_decision(f, review),
             IF set_has_non_branch_contributing_closure_without_branch(f)
             THEN execution_repair_decision(f, review)
             ELSE IF bridge # 0 THEN task_closure_recording_ready_decision(f, bridge)
             ELSE ReenterOr(f, review, execution_reentry_blocking_task(f), None))

missing_current_closure_late_stage_route(f, review) ==
    LET early == f.phase # "document_release_pending"
    IN  CASE review # "missing_current_closure" -> None
          [] review = "missing_current_closure" /\ ~early /\ f.branch ->
                late_stage_decision(f, "AdvanceLateStage", "branch_closure_recording_required")
          [] OTHER ->
             ReenterOr(f, review, IF early THEN execution_reentry_blocking_task(f) ELSE 0,
                 IF (early /\ Has(f, RepairReasons)) \/ f.assessment = "none"
                 THEN execution_repair_decision(f, review)
                 ELSE late_stage_missing_current_closure_decision_from_assessment(f, review))

StaleLateStageRepairAt(f, t) ==
    LET open == Or(f.resume, f.active)
        marked(d) == [d EXCEPT !.codes = @ \cup {"stale_unreviewed"}]
    IN  CASE t # 0 /\ (open # 0 => t < open) /\ ~f.blockStep ->
                marked(execution_reentry_decision_for_task(f, "stale_unreviewed", t, FALSE))
          [] OTHER ->
             IF t # 0 THEN marked(execution_repair_decision_for_task(f, "stale_unreviewed", t))
             ELSE IF f.drivable
             THEN marked(Decision("RepairReviewState", "execution_reentry_required",
                                  "stale_unreviewed", 0, FALSE, 0, f.reasons))
             ELSE marked(missing_execution_reentry_target_decision(f, "stale_unreviewed"))

stale_late_stage_repair_decision(f) ==
    IF ~f.branch /\ f.assessment = "supported"
    THEN late_stage_missing_current_closure_decision_from_assessment(f, "stale_unreviewed")
    ELSE StaleLateStageRepairAt(f, execution_reentry_target(f, FALSE))

final_review_dispatch_requires_refresh(f) ==
    Has(f, {"final_refresh"}) \/ (f.final # "none" /\ ~f.finalHere)

FinalReviewRoute(f) ==
    CASE ~f.branch \/ (f.release = "ready" /\ f.outcomeRecorded /\ f.final = "none" /\ f.drift) ->
            late_stage_decision(f, "AdvanceLateStage", "branch_closure_recording_required")
      [] f.branch /\ f.release # "ready" ->
            late_stage_decision(f, "AdvanceLateStage",
                IF f.release = "blocked" THEN "release_blocker_resolution_required"
                ELSE "release_readiness_recording_ready")
      [] OTHER ->
         IF final_review_dispatch_requires_refresh(f) \/ (~f.finalDispatch /\ f.final = "none")
         THEN late_stage_decision(f, "RequestFinalReview", "final_review_dispatch_required")
         ELSE IF f.final # "none" \/ f.external
         THEN late_stage_decision(f, "AdvanceLateStage", "final_review_recording_ready")
         ELSE late_stage_decision(f, "WaitForFinalReviewResult", "final_review_outcome_pending")

document_release_pending_route_phase_detail(f) ==
    CASE f.release = "blocked" -> "release_blocker_resolution_required"
      [] f.release # "blocked" /\ f.docsFresh -> "final_review_dispatch_required"
      [] OTHER -> "release_readiness_recording_ready"

select_late_stage_public_route(f) ==
    CASE f.phase = "document_release_pending" ->
            LET detail == document_release_pending_route_phase_detail(f)
            IN  late_stage_decision(f, IF detail = "final_review_dispatch_required"
                                       THEN "RequestFinalReview" ELSE "AdvanceLateStage", detail)
      [] f.phase = "final_review_pending" -> FinalReviewRoute(f)
      [] f.phase = "qa_pending" ->
            IF Has(f, {"test_plan"})
            THEN late_stage_decision(f, "RefreshTestPlan", "test_plan_refresh_required")
            ELSE late_stage_decision(f, "RunQa", "qa_recording_required")
      [] f.phase = "ready_for_branch_completion" ->
            late_stage_decision(f, "FinishBranch",
                IF f.finishPassed /\ f.branch THEN "finish_completion_gate_ready"
                ELSE "finish_review_gate_ready")
      [] OTHER -> None

late_stage_milestone_route(f, review) ==
    CASE f.phase = "handoff_required" -> task_scope_handoff_decision(f, review)
      [] OTHER ->
         IF persisted_late_stage_reroute_missing_current_closure(f, review)
         THEN late_stage_decision(f, "AdvanceLateStage", "branch_closure_recording_required")
         ELSE IF task_scope_pivot_override_active(f, review)
         THEN late_stage_planning_reentry_decision(f, review)
         ELSE OrElse(missing_current_closure_late_stage_route(f, review),
                     IF review = "stale_unreviewed" THEN stale_late_stage_repair_decision(f)
                     ELSE select_late_stage_public_route(f))

first_unchecked_step_route(f, review) ==
    LET open == {t \in TaskNos : ~AllChecked(f, t) /\ t \notin f.closed}
        t == Min(open)
        unmarked == f.active = 0 /\ f.resume = 0 /\ f.block = 0 /\ f.closed = {}
        marker_loss == f.started /\ unmarked /\ (\E u \in TaskNos : f.progress[u] # "none")
        detail == CASE ~f.started /\ f.mode /\ unmarked -> "execution_in_progress"
                    [] f.started -> "execution_reentry_required"
                    [] OTHER -> "execution_preflight_required"
    IN  CASE open = {} -> None
          [] OTHER -> IF marker_loss THEN execution_repair_decision_for_task(f, review, t)
                      ELSE Decision("Begin", detail, review, t, TRUE,
                                    IF f.started \/ f.closed # {} THEN t ELSE 0, f.reasons)

compute_next_action_decision(f) ==
    LET review == canonical_review_state_status(f)
    IN  OrElse(missing_authoritative_stale_reentry_target_route(f, review),
        OrElse(hard_structural_corruption_route(f, review),
        OrElse(completed_execution_missing_branch_closure_route(f, review),
        OrElse(branch_rerecording_route(f, review),
        OrElse(open_step_route(f, review),
        OrElse(stale_boundary_route(f, review),
        OrElse(closure_prerequisite_route(f, review),
        OrElse(late_stage_milestone_route(f, review),
        OrElse(first_unchecked_step_route(f, review),
               late_stage_decision(f, "PlanningReentry", "planning_reentry_required"))))))))))
=============================================================================
