---------------------------- MODULE PublicRoute ----------------------------
(***************************************************************************)
(* From the next action to the public route, and from the route to what a  *)
(* command may do.                                                         *)
(*   src/src/execution/route_plan.rs and route_plan/*.rs: the route that   *)
(*     status and operator show                                            *)
(*   src/src/execution/public_repair_targets.rs: the further commands the  *)
(*     route allows                                                        *)
(*   src/src/execution/command_eligibility.rs: decide_public_mutation,     *)
(*     which every mutating command asks before it writes                  *)
(*   src/src/execution/invariants.rs: the checks status makes of a route   *)
(*                                                                         *)
(* Every command loads the state again, plans the route again and compares *)
(* its own request with it.  A user runs the command a status showed; the  *)
(* facts may have changed in between.  The facts are those of NextAction.  *)
(* Left out: the hash that binds a follow-up without an exact target to    *)
(* the route it was written for, display text, blockers and the blocking   *)
(* scope.                                                                  *)
(***************************************************************************)
EXTENDS NextAction

CONSTANTS BaseFacts,      \* the facts a run starts from
          MaxFactChanges      \* how many facts change in a run

VARIABLES facts,          \* what the runtime reads
          planned,        \* the route planned from these facts, NoRoute before
          shown,          \* the route the user was shown last
          verdict,        \* what the last command was told
          changes

prvars == <<facts, planned, shown, verdict, changes>>

(***************************************************************************)
(* Commands.  Step commands carry the fingerprint of the execution state,  *)
(* which every step command changes.                                       *)
(***************************************************************************)
ExecutionFingerprint(f) == <<f.progress, f.active, f.resume>>

Command(kind, task, mode, fingerprint) ==
    [kind |-> kind, task |-> task, mode |-> mode, fingerprint |-> fingerprint]

NoCommand == Command("none", 0, "none", <<>>)
repair_review_state_public_command == Command("repair_review_state", 0, "none", <<>>)
close_current_task_public_command(t) == Command("close_current_task", t, "none", <<>>)
StepPublicCommand(f, kind, t) == Command(kind, t, "none", ExecutionFingerprint(f))
StepCommands == {"begin", "complete", "reopen"}

public_advance_late_stage_mode_for_phase_detail(detail) ==
    CASE detail = "branch_closure_recording_required" -> "basic"
      [] detail \in {"release_readiness_recording_ready",
                     "release_blocker_resolution_required"} -> "release_readiness"
      [] detail = "final_review_dispatch_required" -> "final_review_dispatch"
      [] detail = "final_review_recording_ready" -> "final_review"
      [] detail = "qa_recording_required" -> "qa"
      [] detail = "finish_review_gate_ready" -> "finish_review"
      [] detail = "finish_completion_gate_ready" -> "finish_completion"
      [] OTHER -> "none"

public_advance_late_stage_command_for_phase_detail(detail) ==
    LET mode == public_advance_late_stage_mode_for_phase_detail(detail)
    IN  IF mode = "none" THEN NoCommand ELSE Command("advance_late_stage", 0, mode, <<>>)

handoff_decision_scope(f) ==
    IF f.active # 0 \/ f.block # 0 \/ f.resume # 0 THEN "task" ELSE "branch"

\* mutant: the decision to run QA has no command
QaHasNoCommand(f, d) ==
    CASE d.kind \in {"Begin", "Resume"} ->
            IF d.task # 0 /\ d.step THEN StepPublicCommand(f, "begin", d.task) ELSE NoCommand
      [] d.kind = "Reopen" ->
            IF d.task # 0 /\ d.step THEN StepPublicCommand(f, "reopen", d.task) ELSE NoCommand
      [] d.kind = "CloseCurrentTask" ->
            IF d.task # 0 /\ f.active # 0 THEN StepPublicCommand(f, "complete", d.task) ELSE NoCommand
      [] d.kind \in {"AdvanceLateStage", "RequestFinalReview", "FinishBranch"} ->
            public_advance_late_stage_command_for_phase_detail(d.detail)
      [] d.kind = "RepairReviewState" -> repair_review_state_public_command
      [] OTHER -> NoCommand

public_command_from_decision(f, d) ==
    CASE d.kind \in {"Begin", "Resume"} ->
            IF d.task # 0 /\ d.step THEN StepPublicCommand(f, "begin", d.task) ELSE NoCommand
      [] d.kind = "Reopen" ->
            IF d.task # 0 /\ d.step THEN StepPublicCommand(f, "reopen", d.task) ELSE NoCommand
      [] d.kind = "CloseCurrentTask" ->
            IF d.task # 0 /\ f.active # 0 THEN StepPublicCommand(f, "complete", d.task) ELSE NoCommand
      [] d.kind \in {"AdvanceLateStage", "RequestFinalReview", "RunQa", "FinishBranch"} ->
            public_advance_late_stage_command_for_phase_detail(d.detail)
      [] d.kind = "Handoff" -> Command("transfer", 0, handoff_decision_scope(f), <<>>)
      [] d.kind = "RepairReviewState" -> repair_review_state_public_command
      [] OTHER -> NoCommand

\* the step command a decision stands for, with its step if the decision names one
execution_command_route_target_from_decision(f, d) ==
    IF public_command_from_decision(f, d).kind \in StepCommands
    THEN [kind |-> public_command_from_decision(f, d).kind, task |-> d.task, step |-> d.step]
    ELSE [kind |-> "none", task |-> 0, step |-> FALSE]

NoContext == [kind |-> "none", task |-> 0, step |-> FALSE]

(***************************************************************************)
(* Kinds of state                                                          *)
(***************************************************************************)
OmittedDetails == {"blocked_runtime_bug", "task_review_result_pending", "execution_in_progress",
                   "planning_reentry_required", "runtime_reconcile_required",
                   "final_review_outcome_pending", "test_plan_refresh_required"}

classify_state_kind(wait, terminal_phase, detail, command) ==
    CASE wait -> "waiting_external_input"
      [] ~wait /\ command # NoCommand -> "actionable_public_command"
      [] OTHER ->
         CASE terminal_phase /\ detail = "finish_completion_gate_ready" -> "terminal"
           [] detail \in {"blocked_runtime_bug", "planning_reentry_required",
                          "runtime_reconcile_required"} -> detail
           [] OTHER -> IF detail \in OmittedDetails THEN "actionable_public_command"
                       ELSE "blocked_runtime_bug"

state_kind_is_runtime_diagnostic(kind) ==
    kind \in {"blocked_runtime_bug", "runtime_reconcile_required"}

state_kind_or_phase_is_runtime_diagnostic(kind, detail) ==
    \/ state_kind_is_runtime_diagnostic(kind)
    \/ detail \in {"blocked_runtime_bug", "runtime_reconcile_required"}

state_kind_blocks_local_mutation(kind) == kind # "actionable_public_command"

external_wait_state_for_phase_detail(f, detail) ==
    detail = "final_review_outcome_pending" /\ ~f.external

targetless_stale_reconcile_for_phase(detail, codes) ==
    detail = "runtime_reconcile_required" /\ "targetless" \in codes

(***************************************************************************)
(* Reason codes and blocking records of a route                            *)
(***************************************************************************)
compact_operator_reason_codes(f, detail, review, step_named) ==
    LET task_scope == detail \in {"task_closure_recording_ready", "execution_reentry_required"}
    IN  ({review} \ {"clean"})
        \cup (IF task_scope /\ ~step_named THEN f.reasons \cap PublicBoundaryReasons ELSE {})
        \cup (IF detail = "execution_reentry_required"
              THEN f.reasons \cap {"invalid", "malformed", "missing", "stale", "overlay"} ELSE {})

\* closing a task with no marker left repairs its baseline
compact_route_reason_codes(f, detail, review, t) ==
    LET step_named == IF t # 0 THEN FALSE ELSE f.blockStep
        repairs == /\ detail = "task_closure_recording_ready" /\ Or(t, f.block) # 0
                   /\ ~step_named /\ f.active = 0 /\ f.resume = 0
    IN  compact_operator_reason_codes(f, detail, review, step_named)
        \cup (IF repairs THEN {"candidate"} ELSE {})

public_route_blocking_reason_codes(f, detail, t, candidates) ==
    IF /\ t = 0 /\ f.block # 0 /\ ~f.blockStep /\ detail = "task_closure_recording_ready"
    THEN f.reasons \cap PublicBoundaryReasons ELSE candidates

derive_branch_rerecording_blocking_record(f) ==
    LET asked == FollowUp(f) = "advance_late_stage"
        required == IF f.drift THEN ~(asked /\ f.release # "none") ELSE f.branch /\ asked
    IN  IF ~required THEN "none"
        ELSE IF f.assessment = "supported" THEN "branch_closure" ELSE "repair"

derive_public_blocking_records(f, review, detail) ==
    CASE review = "stale_unreviewed" ->
            IF f.staleIds \/ (f.branch /\ Has(f, {"branch_malformed"})) THEN "repair" ELSE "none"
      [] review # "stale_unreviewed" /\ f.branch /\ Has(f, {"branch_malformed"}) -> "repair"
      [] OTHER ->
         CASE review = "missing_current_closure" ->
                 IF \/ execution_reentry_requires_review_state_repair(f)
                    \/ Has(f, {"surface"}) \/ f.assessment = "drift_escapes"
                 THEN "repair" ELSE "branch_closure"
           [] review = "clean" /\ detail = "release_blocker_resolution_required" -> "release_blocker"
           [] review = "clean" /\ detail \in {"release_readiness_recording_ready",
                                              "qa_recording_required"} -> "late_stage"
           [] review = "clean" /\ detail = "final_review_dispatch_required" -> "final_review"
           [] OTHER -> "none"

\* every list of records the code returns is of one kind, which stands for it
compute_status_blocking_records(f, review, detail) ==
    CASE task_scope_structural_review_state_reason(f) -> "repair"
      [] OTHER -> LET rerecord == derive_branch_rerecording_blocking_record(f)
                  IN  IF rerecord # "none" THEN rerecord
                      ELSE derive_public_blocking_records(f, review, detail)

FollowUpOfRecord(record) ==
    CASE record = "repair" -> "repair_review_state"
      [] record \in {"branch_closure", "late_stage"} -> "advance_late_stage"
      [] record = "release_blocker" -> "resolve_release_blocker"
      [] record = "final_review" -> "request_external_review"
      [] OTHER -> "none"

public_command_for_required_follow_up(record, detail) ==
    LET follow == FollowUpOfRecord(record)
    IN  CASE follow = "repair_review_state" -> repair_review_state_public_command
          [] follow = "resolve_release_blocker" ->
                public_advance_late_stage_command_for_phase_detail("release_blocker_resolution_required")
          [] follow = "advance_late_stage" ->
                public_advance_late_stage_command_for_phase_detail(
                    IF /\ record = "branch_closure"
                       /\ public_advance_late_stage_mode_for_phase_detail(detail) = "none"
                    THEN "branch_closure_recording_required" ELSE detail)
          [] follow = "request_external_review" -> Command("operator", 0, "none", <<>>)
          [] OTHER -> NoCommand

follow_up_from_phase_detail(detail) ==
    CASE detail = "branch_closure_recording_required" -> "advance_late_stage"
      [] detail = "final_review_dispatch_required" -> "request_external_review"
      [] detail = "final_review_outcome_pending" -> "wait_for_external_review_result"
      [] detail = "release_blocker_resolution_required" -> "resolve_release_blocker"
      [] detail = "execution_reentry_required" -> "execution_reentry"
      [] detail = "handoff_recording_required" -> "record_handoff"
      [] OTHER -> "none"

route_requires_review_state_repair(f, detail, review, context) ==
    \/ review = "stale_unreviewed"
    \/ /\ detail = "execution_reentry_required"
       /\ \/ context = NoContext
          \/ review # "clean"
          \/ Has(f, RepairReasons)
          \/ f.branch /\ Has(f, {"branch_malformed"})

derive_required_follow_up(f, r) ==
    LET record == compute_status_blocking_records(f, r.review, r.detail)
    IN  CASE targetless_stale_reconcile_for_phase(r.detail, r.codes) -> "none"
          [] OTHER ->
             IF route_requires_review_state_repair(f, r.detail, r.review, r.context)
             THEN "repair_review_state"
             ELSE IF r.review # "clean" /\ record # "none" THEN FollowUpOfRecord(record)
             ELSE follow_up_from_phase_detail(r.detail)

(***************************************************************************)
(* Routes.  recording is the task a closure may be recorded for.           *)
(***************************************************************************)
RouteRecord(detail, review, codes, command, context, recording, kind) ==
    [detail |-> detail, review |-> review, codes |-> codes, command |-> command,
     context |-> context, recording |-> recording, kind |-> kind,
     wait |-> FALSE, follow |-> "none", targets |-> {}]

NoRoute == RouteRecord("none", "clean", {}, NoCommand, NoContext, 0, "none")
OrRoute(r, s) == IF r # NoRoute THEN r ELSE s

close_current_task_route_decision(f, t) ==
    LET detail == "task_closure_recording_ready"
        review == effective_route_review_state_status(f, detail, f.review)
    IN  RouteRecord(detail, review, compact_route_reason_codes(f, detail, review, t),
                    close_current_task_public_command(t), NoContext, t, "actionable_public_command")

repair_review_state_route_decision(f, code) ==
    LET detail == "execution_reentry_required"
        review == effective_route_review_state_status(f, detail, f.review)
    IN  RouteRecord(detail, review,
                    compact_operator_reason_codes(f, detail, review, FALSE) \cup {code},
                    repair_review_state_public_command, NoContext, 0, "actionable_public_command")

\* the route that only says that the stale state has no target
runtime_reconcile_route_decision(f) ==
    RouteRecord("runtime_reconcile_required", f.review,
                ({f.review} \ {"clean"}) \cup {"targetless", "missing_authority"},
                NoCommand, NoContext, 0, "runtime_reconcile_required")

\* mutant: the persisted reopen is recommended without its step
ReopenWithoutContext(f, t) ==
    LET detail == "execution_reentry_required"
        review == effective_route_review_state_status(f, detail, f.review)
    IN  RouteRecord(detail, review, compact_route_reason_codes(f, detail, review, t),
                    StepPublicCommand(f, "reopen", t), NoContext, 0, "actionable_public_command")

execution_reentry_reopen_route_decision(f, t) ==
    LET detail == "execution_reentry_required"
        review == effective_route_review_state_status(f, detail, f.review)
    IN  RouteRecord(detail, review, compact_route_reason_codes(f, detail, review, t),
                    StepPublicCommand(f, "reopen", t), [kind |-> "reopen", task |-> t, step |-> TRUE],
                    0, "actionable_public_command")

branch_closure_recording_route_decision(f) ==
    LET detail == "branch_closure_recording_required"
    IN  RouteRecord(detail,
                    effective_route_review_state_status(f, detail, "missing_current_closure"),
                    {"missing_current_closure"},
                    public_advance_late_stage_command_for_phase_detail(detail), NoContext, 0,
                    "actionable_public_command")

route_decision_for_unroutable_runtime_state(f) ==
    RouteRecord("none", f.review, {f.review} \ {"clean"}, NoCommand, NoContext, 0,
                "blocked_runtime_bug")

close_current_task_or_branch_closure_route_decision(f, t) ==
    IF task_should_route_to_branch_closure(f, t) THEN branch_closure_recording_route_decision(f)
    ELSE close_current_task_route_decision(f, t)

(***************************************************************************)
(* The bridges a route asks about                                          *)
(***************************************************************************)
MissingBaselineYields(f, t, e) ==
    /\ non_current_stale_target_can_yield_to_missing_baseline(f, t)
    /\ task_closure_baseline_repair_candidate(f, t, e)

task_closure_baseline_bridge_target_task_with_authority(f) ==
    LET c == closure_baseline_candidate_task(f)
        e == select_actionable_stale_reentry_target(f)
        t == IF e # 0 /\ c # 0 /\ task_closure_baseline_candidate_can_preempt_stale_target(f, c, e)
             THEN c ELSE Or(e, Or(f.block, Or(f.active, c)))
    IN  CASE f.assessment = "none" -> 0
          [] f.review # "stale_unreviewed" /\ ~f.staleIds /\ c = 0 -> 0
          [] OTHER -> IF t = 0 THEN 0
                      ELSE IF t = e /\ ~f.bridged
                      THEN IF MissingBaselineYields(f, t, e) THEN t ELSE 0
                      ELSE IF task_closure_baseline_bridge_ready_for_stale_target(f, t, e)
                      THEN t ELSE 0

task_closure_baseline_bridge_repair_review_state_route(f) ==
    \/ task_closure_baseline_bridge_target_task_with_authority(f) # 0
    \/ /\ canonical_review_state_status(f) = "clean" /\ f.closed # {}
       /\ {"missing", "candidate"} \subseteq f.reasons
       /\ ~Has(f, RepairReasons)
       /\ closure_baseline_routing_reason_codes_compatible(f)

task_closure_baseline_bridge_route_task(f) ==
    IF /\ f.block # 0 /\ current_closure_scope_empty(f)
       /\ ~f.blockStep /\ f.active = 0 /\ f.resume = 0
       /\ {"missing", "candidate"} \subseteq f.reasons
       /\ Candidate(f, f.block)
    THEN f.block ELSE 0

persisted_close_current_task_bridge_task(f) ==
    LET t == closure_baseline_candidate_task(f)
    IN  IF /\ resolve_actionable_repair_follow_up(f) = "close_current_task"
           /\ current_closure_scope_empty(f)
           /\ t # 0 /\ stale_target_allows_task_closure_bridge_for_task(f, t)
        THEN t ELSE 0

\* here the stale target is the graph's, actionable or not
authoritative_stale_target_allows_task_closure_bridge(f, t) ==
    f.target # 0 => f.target >= t /\ (f.target > t \/ f.bridged)

task_closure_baseline_bridge_route_ready_for_status(f) ==
    /\ ~Has(f, RepairReasons)
    /\ f.block # 0
    /\ \/ MissingBaselineYields(f, f.block, f.target)
       \/ /\ authoritative_stale_target_allows_task_closure_bridge(f, f.block)
          /\ task_closure_baseline_bridge_ready_for_stale_target(f, f.block, f.target)

execution_reentry_task_closure_bridge_route_ready(f, t) ==
    \/ task_closure_baseline_bridge_route_ready_for_status(f)
    \/ /\ authoritative_stale_target_allows_task_closure_bridge(f, t)
       /\ t \in CloseCandidates(f) \/ (f.target = t /\ f.block \in f.dispatched /\ AllChecked(f, t))

execution_reentry_task_closure_bridge_route_task(f, detail, seed, context_task) ==
    LET t == Or(f.block, Or(seed, context_task))
        edge == /\ Has(f, {"missing", "overlay"}) /\ ~Has(f, RepairReasons)
                /\ f.block # 0
                /\ authoritative_stale_target_allows_task_closure_bridge(f, f.block)
    IN  CASE detail # "execution_reentry_required" -> 0
          [] OTHER -> IF /\ t # 0 /\ t \notin f.closed
                         /\ execution_reentry_task_closure_bridge_route_ready(f, t)
                      THEN t ELSE IF edge THEN f.block ELSE 0

\* a finished task's latest attempts are complete: its steps are all checked
completed_task_closure_preempts_execution_reentry(f, t) ==
    LET review == canonical_review_state_status(f)
        stale == /\ review = "stale_unreviewed" /\ f.block = t /\ ~f.blockStep
                 /\ f.active = 0 /\ f.resume = 0 /\ ~Has(f, RepairReasons)
                 /\ select_actionable_stale_reentry_target(f) = t /\ f.bridged
    IN  /\ review = "clean" \/ stale
        /\ ~f.branch /\ t \notin f.closed
        /\ closure_baseline_candidate_task(f) = t /\ AllChecked(f, t)
        /\ stale \/ missing_current_closure_allows_task_closure_baseline_route(f, review)

completed_task_closure_preemption_task(f, preferred) ==
    LET t == Or(preferred, Or(f.active, Or(f.resume, Or(f.block, Max(TaskNos)))))
    IN  IF completed_task_closure_preempts_execution_reentry(f, t) THEN t ELSE 0

(***************************************************************************)
(* The route of a next action (next_action_route.rs).  A finalization z is *)
(* the decision with its command, its step context, the task recorded and  *)
(* the task that blocks.                                                   *)
(***************************************************************************)
RepairReviewStateReentry(d) ==
    LET lane == d.codes \cap Structural # {} \/ ("stale" \in d.codes /\ "negative" \notin d.codes)
    IN  /\ d.kind = "Reopen" /\ d.detail = "execution_reentry_required"
        /\ lane \/ d.review = "missing_current_closure"

ReentryBridge(f, d) ==
    IF d.detail = "execution_reentry_required" /\ d.review = "missing_current_closure"
    THEN task_closure_baseline_bridge_route_task(f) ELSE 0

FromDecision(f, d) ==
    LET bridge == ReentryBridge(f, d)
    IN  [detail |-> IF bridge # 0 THEN "task_closure_recording_ready" ELSE d.detail,
         review |-> IF bridge # 0 THEN "stale_unreviewed" ELSE d.review,
         command |-> IF bridge # 0 THEN close_current_task_public_command(bridge)
                     ELSE IF RepairReviewStateReentry(d) THEN repair_review_state_public_command
                     ELSE public_command_from_decision(f, d),
         recording |-> bridge, context |-> NoContext,
         block |-> IF bridge # 0 THEN bridge ELSE d.block]

RequiresExactCommand(f, d) ==
    \/ d.kind \in {"Begin", "Resume"}
    \/ d.kind = "Reopen" /\ ~RepairReviewStateReentry(d)
    \/ d.kind = "CloseCurrentTask" /\ f.active # 0

bind_exact_execution_context(f, d, z) ==
    LET target == execution_command_route_target_from_decision(f, d)
    IN  IF RequiresExactCommand(f, d) /\ target # NoContext
        THEN [z EXCEPT !.context = target, !.command = public_command_from_decision(f, d),
                       !.block = IF d.kind = "Reopen" THEN target.task ELSE @]
        ELSE z

bind_task_closure_recording(z, t) ==
    [z EXCEPT !.recording = t, !.command = close_current_task_public_command(t), !.block = t]

BindRecording(f, d, z) ==
    LET t == Or(d.task, f.block)
        closes == f.phase \in Recording \/ d.kind = "CloseCurrentTask"
    IN  CASE z.detail = "final_review_recording_ready" ->
                [z EXCEPT !.command = public_advance_late_stage_command_for_phase_detail(z.detail)]
          [] z.detail \notin {"final_review_recording_ready", "task_closure_recording_ready"} -> z
          [] OTHER ->
             IF closes /\ t # 0 THEN bind_task_closure_recording(z, t)
             ELSE IF f.phase \in Recording THEN z
             ELSE IF z.review = "missing_current_closure"
             THEN [z EXCEPT !.command = public_advance_late_stage_command_for_phase_detail(
                                            "branch_closure_recording_required"), !.block = t]
             ELSE [z EXCEPT !.command = repair_review_state_public_command, !.block = t]

BindBranchRefresh(f, z) ==
    IF /\ z.detail = "task_closure_recording_ready"
       /\ f.release = "none" /\ f.branch /\ f.drift
    THEN [z EXCEPT !.detail = "branch_closure_recording_required", !.recording = 0,
                   !.context = NoContext, !.block = 0,
                   !.command = public_advance_late_stage_command_for_phase_detail(
                                   "branch_closure_recording_required")]
    ELSE z

bind_follow_up_command(f, d, z) ==
    IF /\ z.command = NoCommand /\ z.detail \notin OmittedDetails
       /\ ~targetless_stale_reconcile_for_phase(z.detail, d.codes)
    THEN [z EXCEPT !.command = public_command_for_required_follow_up(
                                   compute_status_blocking_records(f, f.review, "none"), z.detail)]
    ELSE z

final_review_dispatch_route_for_repaired_late_stage_drift(f, z) ==
    LET detail == CASE ~f.finalDispatch -> "final_review_dispatch_required"
                    [] f.finalDispatch /\ ~f.external -> "final_review_outcome_pending"
                    [] OTHER -> "final_review_recording_ready"
        waits == detail = "final_review_outcome_pending"
    IN  IF /\ z.detail = "branch_closure_recording_required"
           /\ FollowUp(f) = "advance_late_stage" /\ f.release = "ready" /\ f.drift
           /\ ~f.outcomeRecorded /\ f.branch
        THEN RouteRecord(detail, "clean", {},
                 IF waits THEN NoCommand
                 ELSE public_advance_late_stage_command_for_phase_detail(detail), NoContext, 0,
                 IF waits THEN "waiting_external_input" ELSE "actionable_public_command")
        ELSE NoRoute

command_context_reopens_current_task_closure(f, context) ==
    ~Has(f, {"negative"}) /\ context.kind = "reopen" /\ context.task \in f.closed

RouteFromFinalization(f, d, z) ==
    LET review == effective_route_review_state_status(f, z.detail, z.review)
        codes == public_route_blocking_reason_codes(f, z.detail, z.block, d.codes)
                 \cup compact_route_reason_codes(f, z.detail, review, z.block)
    IN  RouteRecord(z.detail, review, codes, z.command, z.context, z.recording,
            classify_state_kind(external_wait_state_for_phase_detail(f, z.detail),
                f.phase = "ready_for_branch_completion", z.detail, z.command))

\* NoRoute when a step command is due and the decision names no step
RouteOfFinalization(f, d, z) ==
    LET unstarted == \/ ~f.started \/ f.branch
        preempting == IF handoff_route_active(f) \/ z.detail # "execution_reentry_required" THEN 0
                      ELSE completed_task_closure_preemption_task(f, z.context.task)
        bridge == execution_reentry_task_closure_bridge_route_task(f, z.detail, z.block, z.context.task)
    IN  IF /\ RequiresExactCommand(f, d)
           /\ execution_command_route_target_from_decision(f, d) = NoContext
        THEN NoRoute
        ELSE IF z.detail = "planning_reentry_required" /\ ~unstarted
        THEN close_current_task_or_branch_closure_route_decision(f, Or(f.block, Max(TaskNos)))
        ELSE OrRoute(final_review_dispatch_route_for_repaired_late_stage_drift(f, z),
             IF preempting # 0
             THEN close_current_task_or_branch_closure_route_decision(f, preempting)
             ELSE IF command_context_reopens_current_task_closure(f, z.context)
             THEN repair_review_state_route_decision(f, "stale")
             ELSE IF bridge # 0
             THEN close_current_task_or_branch_closure_route_decision(f, bridge)
             ELSE RouteFromFinalization(f, d, z))

route_decision_from_next_action_decision(f, d) ==
    RouteOfFinalization(f, d,
        bind_follow_up_command(f, d,
            BindBranchRefresh(f, BindRecording(f, d,
                bind_exact_execution_context(f, d, FromDecision(f, d))))))

(***************************************************************************)
(* The choice between the routes (route_plan.rs)                           *)
(***************************************************************************)
ConcreteStaleTarget(f) == f.drivable /\ select_actionable_stale_reentry_target(f) # 0

targetless_stale_reconcile_required(f) == Has(f, {"targetless"}) /\ ~ConcreteStaleTarget(f)

\* before a route is planned no blocking scope is set
targetless_stale_lacks_concrete_public_target(f) ==
    LET review == canonical_review_state_status(f)
    IN  /\ review = "stale_unreviewed"
        /\ select_actionable_stale_reentry_target(f) = 0
        /\ ~f.drivable \/ stale_resume_begin_route_candidate(f, review)

BranchClosureComesFirst(f) ==
    /\ canonical_review_state_status(f) = "missing_current_closure"
    /\ set_should_route_to_branch_closure(f) /\ f.assessment = "supported"
    /\ f.phase \in LateStages \cup {"executing"}

\* next is the route of the next action, bridge whether a baseline is repaired
PrimaryRoute(f, next, bridge, persisted) ==
    IF BranchClosureComesFirst(f) THEN branch_closure_recording_route_decision(f)
    ELSE IF stale_resume_begin_route_candidate(f, canonical_review_state_status(f))
            /\ next # NoRoute THEN next
    ELSE IF targetless_stale_reconcile_required(f) THEN runtime_reconcile_route_decision(f)
    ELSE IF task_scope_structural_review_state_reason(f)
    THEN repair_review_state_route_decision(f, CHOOSE c \in f.reasons \cap Structural : TRUE)
    ELSE IF persisted # 0
    THEN close_current_task_or_branch_closure_route_decision(f, persisted)
    ELSE IF targetless_stale_lacks_concrete_public_target(f) /\ ~bridge
    THEN runtime_reconcile_route_decision(f)
    ELSE IF /\ compute_status_blocking_records(f, f.review, "none") = "repair"
            /\ ~bridge /\ ~Has(f, {"negative"})
            /\ select_actionable_stale_reentry_target(f) = 0
    THEN repair_review_state_route_decision(f, f.review)
    ELSE OrRoute(next, route_decision_for_unroutable_runtime_state(f))

select_primary_runtime_route_decision(f) ==
    PrimaryRoute(f, route_decision_from_next_action_decision(f, compute_next_action_decision(f)),
                 task_closure_baseline_bridge_repair_review_state_route(f),
                 persisted_close_current_task_bridge_task(f))

select_route_planning_candidate(f, primary) ==
    IF primary.detail = "runtime_reconcile_required"
       /\ task_closure_baseline_bridge_repair_review_state_route(f)
    THEN repair_review_state_route_decision(f, "candidate")
    ELSE IF primary.command.kind \in {"begin", "reopen"} THEN primary
    ELSE IF resolve_actionable_repair_follow_up(f) = "execution_reentry"
    THEN execution_reentry_reopen_route_decision(f, f.followTask)
    ELSE primary

(***************************************************************************)
(* The further commands a route allows (public_repair_targets.rs)          *)
(***************************************************************************)
Target(kind, t) == [kind |-> kind, task |-> t]

route_decision_exposes_repair_review_state_target(f, r) ==
    LET diagnostic == stale_provenance_after_authoritative_closure_is_diagnostic(f)
    IN  \/ r.command.kind = "repair_review_state"
        \/ r.follow = "repair_review_state"
        \/ r.review # "clean"
        \/ task_scope_structural_review_state_reason(f)
        \/ f.branch /\ Has(f, {"branch_malformed"})
        \/ compute_status_blocking_records(f, r.review, r.detail) = "repair"
        \/ /\ r.detail \in {"execution_reentry_required", "final_review_dispatch_required",
                            "release_readiness_recording_ready", "runtime_reconcile_required"}
           /\ ~(diagnostic /\ r.review = "clean")
        \/ r.codes \cap {"missing", "candidate"} # {}
        \/ "stale_provenance" \in r.codes /\ ~diagnostic

push_route_owned_repair_review_state_target(f, r) ==
    IF /\ \/ r.detail = "task_closure_recording_ready" /\ r.codes \cap {"missing", "candidate"} # {}
          \/ route_decision_exposes_repair_review_state_target(f, r)
       /\ r.detail = "runtime_reconcile_required" \/ ~state_kind_blocks_local_mutation(r.kind)
    THEN {Target("repair_review_state", 0)} ELSE {}

\* what the recorded state offers whatever the route is
public_repair_target_candidates_from_authority(f) ==
    {Target("close_current_task", t) : t \in CloseCandidates(f)}
    \cup (IF FollowUp(f) = "execution_reentry" THEN {Target("reopen", f.followTask)} ELSE {})

RouteOwnedTargets(r) ==
    (IF r.command.kind = "reopen" THEN {Target("reopen", r.command.task)} ELSE {})
    \cup (IF r.detail = "task_closure_recording_ready" /\ r.recording # 0
          THEN {Target("close_current_task", r.recording)} ELSE {})

public_repair_targets_for_route_decision(f, r) ==
    IF \/ state_kind_or_phase_is_runtime_diagnostic(r.kind, r.detail)
       \/ targetless_stale_reconcile_for_phase(r.detail, r.codes)
       \/ r.wait
    THEN {}
    ELSE RouteOwnedTargets(r)
         \cup public_repair_target_candidates_from_authority(f)
         \cup push_route_owned_repair_review_state_target(f, r)

\* a diagnostic route recommends nothing
normalize_diagnostic_route_decision(r) ==
    IF state_kind_or_phase_is_runtime_diagnostic(r.kind, r.detail)
    THEN [r EXCEPT !.follow = "none", !.targets = {}, !.command = NoCommand,
                   !.context = NoContext, !.recording = 0]
    ELSE r

finalize_route_decision_for_route_plan(f, r) ==
    LET kind == IF targetless_stale_reconcile_for_phase(r.detail, r.codes)
                THEN "runtime_reconcile_required" ELSE r.kind
        waits == external_wait_state_for_phase_detail(f, r.detail)
        followed == [r EXCEPT !.kind = kind, !.wait = waits,
                              !.follow = derive_required_follow_up(f, r)]
    IN  normalize_diagnostic_route_decision(
            [followed EXCEPT !.targets = public_repair_targets_for_route_decision(f, followed)])

plan_runtime_route(f) ==
    finalize_route_decision_for_route_plan(f,
        select_route_planning_candidate(f, select_primary_runtime_route_decision(f)))

(***************************************************************************)
(* What a command may do (command_eligibility.rs)                          *)
(***************************************************************************)
Mutations == StepCommands \cup {"close_current_task", "repair_review_state",
                                "advance_late_stage", "transfer"}

request_fingerprint_matches_status(f, c) ==
    c.kind \in StepCommands => c.fingerprint = ExecutionFingerprint(f)

\* a routed advance-late-stage command must have the mode its detail asks for
public_mutation_requests_match(r, c) ==
    /\ r.command.kind = c.kind /\ r.command.task = c.task /\ r.command.mode = c.mode
    /\ LET mode == public_advance_late_stage_mode_for_phase_detail(r.detail)
       IN  c.kind = "advance_late_stage" /\ mode # "none" => r.command.mode = mode

runtime_reconcile_route_is_diagnostic_only(r) ==
    r.detail = "runtime_reconcile_required" /\ r.command = NoCommand /\ r.targets = {}

state_kind_blocks_all_public_mutation(r, c) ==
    /\ state_kind_blocks_local_mutation(r.kind)
    /\ ~(/\ c.kind = "repair_review_state"
         /\ r.detail = "runtime_reconcile_required" /\ r.kind = "runtime_reconcile_required"
         /\ ~runtime_reconcile_route_is_diagnostic_only(r))

external_wait_exact_route_exception(r, c) ==
    /\ r.kind = "waiting_external_input"
    /\ r.detail = "final_review_dispatch_required" /\ c.kind = "advance_late_stage"

public_repair_target_matches_request(r, c) ==
    c.kind # "advance_late_stage" /\ Target(c.kind, c.task) \in r.targets

decide_public_mutation(f, r, c) ==
    LET exact == c.kind \notin StepCommands /\ public_mutation_requests_match(r, c)
        step == /\ c.kind \in StepCommands
                /\ r.context = [kind |-> c.kind, task |-> c.task, step |-> TRUE]
        refused == \/ r.wait
                   \/ state_kind_blocks_all_public_mutation(r, c)
    IN  /\ r.kind # "blocked_runtime_bug"
        /\ r.detail = "runtime_reconcile_required" =>
              c.kind = "repair_review_state" /\ ~runtime_reconcile_route_is_diagnostic_only(r)
        /\ \/ exact /\ external_wait_exact_route_exception(r, c)
           \/ /\ ~refused
              /\ \/ exact
                 \/ /\ request_fingerprint_matches_status(f, c)
                    /\ step \/ public_repair_target_matches_request(r, c)

(***************************************************************************)
(* The checks a status makes of its own route (invariants.rs)              *)
(***************************************************************************)
check_recommended_command_matches_mutation_eligibility(f, r) ==
    r.command.kind \in Mutations => decide_public_mutation(f, r, r.command)

check_execution_reentry_has_concrete_target(r) ==
    /\ r.detail = "execution_reentry_required" /\ r.kind # "blocked_runtime_bug"
    /\ r.command.kind \in StepCommands
    => r.context.task # 0 /\ r.context.step

check_waiting_external_input_does_not_recommend_local_mutation(r) ==
    r.kind = "waiting_external_input" => r.command.kind \notin Mutations

check_runtime_status_invariants(f, r) ==
    /\ check_recommended_command_matches_mutation_eligibility(f, r)
    /\ check_execution_reentry_has_concrete_target(r)
    /\ check_waiting_external_input_does_not_recommend_local_mutation(r)

(***************************************************************************)
(* The facts change one at a time, whoever changes them: a command, an     *)
(* edit of the work tree or of the plan, an agent's review.  Consistent    *)
(* says what the assembly of a status guarantees of them; the rest is left *)
(* open, so that there are more facts here than commands can bring about.  *)
(***************************************************************************)
FactValues ==
    [phase |-> LateStages \cup Recording \cup {"handoff_required", "pivot_required"},
     review |-> {"clean", "stale_unreviewed", "missing_current_closure"},
     closed |-> SUBSET TaskNos, cleanup |-> SUBSET TaskNos, dispatched |-> SUBSET TaskNos,
     truth |-> SUBSET TaskNos, staleRecords |-> SUBSET TaskNos, history |-> SUBSET TaskNos,
     active |-> TaskNos \cup {0}, resume |-> TaskNos \cup {0}, block |-> TaskNos \cup {0},
     target |-> TaskNos \cup {0}, cycleTask |-> TaskNos \cup {0},
     assessment |-> {"none", "supported", "surface_not_declared", "missing_baseline",
                     "missing_baseline_drift", "drift_escapes"},
     release |-> {"none", "ready", "blocked"}, final |-> {"none", "pass", "fail"},
     contributes |-> BOOLEAN, branch |-> BOOLEAN, drift |-> BOOLEAN, staleIds |-> BOOLEAN,
     bridged |-> BOOLEAN, drivable |-> BOOLEAN, blockStep |-> BOOLEAN, docsFresh |-> BOOLEAN,
     finalHere |-> BOOLEAN, qaFailed |-> BOOLEAN, finishPassed |-> BOOLEAN,
     finalDispatch |-> BOOLEAN, outcomeRecorded |-> BOOLEAN, external |-> BOOLEAN,
     handoff |-> BOOLEAN, runId |-> BOOLEAN, mode |-> BOOLEAN, started |-> BOOLEAN,
     followHere |-> BOOLEAN]

ReasonCodes == {"invalid", "malformed", "stale", "missing", "cycle", "overlay", "not_green",
                "candidate", "surface", "lease", "branch_malformed", "negative",
                "stale_provenance", "handoff_required", "final_refresh", "test_plan",
                "missing_current_closure", "targetless"}

OpenSteps(f) == ({f.active, f.resume} \cup (IF f.blockStep THEN {f.block} ELSE {})) \ {0}

\* what the assembly of a status guarantees of its facts
Consistent(f) ==
    LET checked == {t \in TaskNos : AllChecked(f, t)}
    IN  /\ f.active = 0 \/ f.resume = 0
        /\ Cardinality(OpenSteps(f)) <= 1
        /\ \A t \in OpenSteps(f) : ~AllChecked(f, t)
        /\ f.blockStep => f.block # 0
        /\ f.cleanup \subseteq f.closed
        /\ f.closed \subseteq f.history
        /\ f.staleRecords # {} => f.staleIds
        /\ f.target # 0 => f.drivable /\ f.target \in f.history
        /\ ~f.branch => ~f.drift /\ f.release = "none" /\ ~f.finalHere /\ ~f.qaFailed
        /\ f.phase \in LateStages => f.started /\ checked = TaskNos
        /\ ~f.started => f.history = {} /\ f.dispatched = {} /\ OpenSteps(f) = {} /\ ~f.runId
        /\ f.contributes => f.closed # {}
        /\ f.started => f.mode
        /\ f.followUp = "execution_reentry" => f.followTask # 0
        /\ OpenSteps(f) # {} => f.runId

\* A run starts from facts that a status can have.
ASSUME FactsAssumption ==
    \A f \in BaseFacts :
       /\ Consistent(f)
       /\ DOMAIN FactValues \subseteq DOMAIN f
       /\ \A x \in DOMAIN FactValues : f[x] \in FactValues[x]

FollowUps == {<<"none", 0>>, <<"advance_late_stage", 0>>}
             \cup ({"close_current_task", "execution_reentry"} \X TaskNos)

FieldChanged(f) ==
    UNION {{[f EXCEPT ![x] = v] : v \in FactValues[x]} : x \in DOMAIN FactValues}
FollowUpChanged(f) == {[f EXCEPT !.followUp = u[1], !.followTask = u[2]] : u \in FollowUps}
ReasonChanged(f) ==
    {[f EXCEPT !.reasons = v] :
        v \in {f.reasons \cup {c} : c \in ReasonCodes} \cup {f.reasons \ {c} : c \in ReasonCodes}}
ProgressChanged(f) ==
    {[f EXCEPT !.progress[t] = v] : t \in TaskNos, v \in {"none", "part", "all"}}

Changed(f) ==
    FieldChanged(f) \cup FollowUpChanged(f) \cup ReasonChanged(f) \cup ProgressChanged(f)

prInit ==
    /\ facts \in BaseFacts
    /\ planned = NoRoute /\ shown = NoRoute
    /\ verdict = [command |-> NoCommand, allowed |-> FALSE]
    /\ changes = 0

ChangeFact ==
    /\ changes < MaxFactChanges
    /\ \E g \in Changed(facts) \ {facts} : Consistent(g) /\ facts' = g
    /\ planned' = NoRoute
    /\ changes' = changes + 1
    /\ UNCHANGED <<shown, verdict>>

\* what every status and every command begins with
PlanRoute ==
    /\ planned = NoRoute
    /\ planned' = plan_runtime_route(facts)
    /\ UNCHANGED <<facts, shown, verdict, changes>>

ReadStatus ==
    /\ planned # NoRoute
    /\ shown' = planned
    /\ UNCHANGED <<facts, planned, verdict, changes>>

\* the user runs what was shown; the command has planned the route anew and asks
RunCommand ==
    /\ planned # NoRoute /\ shown.command.kind \in Mutations
    /\ verdict' = [command |-> shown.command,
                   allowed |-> decide_public_mutation(facts, planned, shown.command)]
    /\ UNCHANGED <<facts, planned, shown, changes>>

prNext == ChangeFact \/ PlanRoute \/ ReadStatus \/ RunCommand
prSpec == prInit /\ [][prNext]_prvars

-----------------------------------------------------------------------------
(***************************************************************************)
(* The route that status recommends passes the checks status makes of it:  *)
(* the eligibility check, which has its own reading of the facts, accepts  *)
(* the recommended command, a step command comes with its step, and nobody *)
(* who waits is told to write; so status never has to turn a route into    *)
(* blocked_runtime_bug, nor is one planned.                                *)
(***************************************************************************)
RouteIsAccepted ==
    /\ check_runtime_status_invariants(facts, planned)
    /\ planned.kind # "blocked_runtime_bug"

(***************************************************************************)
(* A route that recommends no command that changes the state is one of     *)
(* five: an external review is awaited, the plan has to be changed, the    *)
(* test plan has to be refreshed, the stale state names no task that could *)
(* be entered again, or what has to be settled before the stale task is a  *)
(* finished task that lost its closure and may not be closed now: then     *)
(* stale_boundary_route names no target although there is a stale one.     *)
(***************************************************************************)
OnlyKnownDeadEnds ==
    planned # NoRoute /\ planned.command.kind \notin Mutations =>
        \/ planned.wait
        \/ planned.detail \in {"planning_reentry_required", "test_plan_refresh_required"}
        \/ /\ planned.detail = "runtime_reconcile_required"
           /\ \/ select_actionable_stale_reentry_target(facts) = 0
              \/ EarliestBoundary(facts).source = "baseline_bridge"

(***************************************************************************)
(* A reopen that is accepted does not reopen a task that has a current     *)
(* closure by then (without a negative result), whatever changed since the *)
(* status that recommended it, and whatever follow-up is still on record.  *)
(***************************************************************************)
ReopenSparesClosedTasks ==
    [][RunCommand /\ verdict'.allowed /\ shown.command.kind = "reopen"
       => shown.command.task \notin facts.closed \/ Has(facts, {"negative"})]_prvars
=============================================================================
