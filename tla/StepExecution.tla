--------------------------- MODULE StepExecution ---------------------------
(***************************************************************************)
(* The step commands of a plan's execution (begin, complete, note, reopen, *)
(* transfer of a handoff), close-current-task and the two writes of        *)
(* repair-review-state, over the authoritative state the event log reduces *)
(* to.                                                                     *)
(*                                                                         *)
(* The section a command runs under write authority is one action:         *)
(* WriteAuthority and EventLog say what that rests on.  What a command     *)
(* reads before it claims the authority is an action of its own, and any   *)
(* other command may run in between: begin decides on such a view, and     *)
(* close-current-task even publishes such a copy.                          *)
(*                                                                         *)
(* Which command the public router recommends is left open: an action is   *)
(* guarded by the checks of the handler itself.  A command that fails      *)
(* these checks changes nothing and is not modelled, unless it is already  *)
(* under way.  The expected execution fingerprint only refuses callers     *)
(* that decided on an older state.                                         *)
(***************************************************************************)
EXTENDS Integers, FiniteSets

CONSTANTS
    Procs,         \* processes that run commands
    Steps,         \* steps of the approved plan: pairs of task and step number
    MaxAttempts,   \* bound: completions of one step
    MaxCommands    \* bound: commands begun

ASSUME StepsAssumption == Steps \subseteq (Nat \ {0}) \X (Nat \ {0})
ASSUME StepBounds == MaxAttempts \in Nat /\ MaxCommands \in Nat

VARIABLES
    state,      \* the authoritative state
    pc,         \* what each process is in the middle of
    view,       \* what a process read before it claimed write authority
    stale,      \* history: the commands that acted on a view that was outdated
    commands    \* history: number of commands begun

vars == <<state, pc, view, stale, commands>>

Tasks == {s[1] : s \in Steps}
StepsOf(t) == {s \in Steps : s[1] = t}
Before(a, b) == a[1] < b[1] \/ (a[1] = b[1] /\ a[2] < b[2])

NoTask == 0
NoStep == <<0, 0>>
NoOpenStep == [step |-> NoStep, note |-> "none"]
NoLineage == <<>>

Phases == {"executing", "handoff_required", "pivot_required"}
Notes == {"Active", "Blocked", "Interrupted"}

(***************************************************************************)
(* The fields of the state each kind of event may carry.  `completed` is   *)
(* in none of them: only the complete and reopen events change it.         *)
(***************************************************************************)
\* Mutant: the evidence attempts are left out of the fields of step events.
StepEventFieldsWithoutEvidence == {"open", "phase", "followUp", "strategy"}

STEP_EVENT_FIELDS == {"open", "evidence", "phase", "followUp", "strategy"}
DISPATCH_EVENT_FIELDS == {"dispatch", "negative", "phase", "strategy"}
TASK_CLOSURE_EVENT_FIELDS ==
    {"open", "phase", "closures", "negative", "followUp", "dispatch", "strategy"}
REPAIR_EVENT_FIELDS ==
    {"open", "closures", "negative", "followUp", "phase", "dispatch", "strategy"}
TRANSFER_EVENT_FIELDS == {"open", "phase"}

\* The log after an event with the difference between the state and payload.
Persist(payload, fields) ==
    [f \in DOMAIN state |-> IF f \in fields THEN payload[f] ELSE state[f]]

-----------------------------------------------------------------------------
(***************************************************************************)
(* What the execution context makes of the state.                          *)
(***************************************************************************)
\* A step is checked when it was completed or its task is closed; the open
\* step is not.
Checked(st) ==
    (st.completed \cup {s \in Steps : st.closures[s[1]] # NoLineage}) \ {st.open.step}

\* task_completion_lineage_fingerprint: the attempts by which the task is
\* complete, if it is.
Lineage(st, t) ==
    IF \A s \in StepsOf(t) : s \in Checked(st) /\ st.evidence[s].ok
    THEN [s \in StepsOf(t) |-> st.evidence[s].n]
    ELSE NoLineage

\* enforce_authoritative_phase
PhaseAllows(st) == st.phase \notin {"handoff_required", "pivot_required"}

\* The task before t, if any.
prior_task_number_for_begin(t) == {u \in Tasks : u < t /\ \A v \in Tasks : v < t => v <= u}

\* Mutant: the task before need not be closed.
BoundaryOpenLoose(st, t) ==
    \A u \in prior_task_number_for_begin(t) :
        ~(st.strategy.kind = "cycle_break" /\ st.strategy.cycleTask = u)

\* require_prior_task_closure_for_begin: the task before t is closed and not in
\* cycle-break remediation.
BoundaryOpen(st, t) ==
    \A u \in prior_task_number_for_begin(t) :
        /\ ~(st.strategy.kind = "cycle_break" /\ st.strategy.cycleTask = u)
        /\ st.closures[u] # NoLineage

-----------------------------------------------------------------------------
(***************************************************************************)
(* Strategy checkpoints: the churn of a task is counted in review cycles,  *)
(* and the third one enters cycle-break.  A review dispatch counts a cycle *)
(* and leaves a credit, so that the reopen it leads to is not counted      *)
(* again.                                                                  *)
(***************************************************************************)
CycleLimit == 3

\* record_strategy_checkpoint after a review cycle of t that makes count.
CycleReviewed(strategy, t, count) ==
    IF count >= CycleLimit
    THEN [strategy EXCEPT !.kind = "cycle_break", !.cycleTask = t, !.counts[t] = 0]
    ELSE [strategy EXCEPT !.kind = "review_remediation", !.cycleTask = NoTask,
                          !.counts[t] = count]

ensure_initial_dispatch_strategy_checkpoint(strategy) ==
    IF strategy.checkpointed THEN strategy
    ELSE [strategy EXCEPT !.kind = "initial_dispatch", !.cycleTask = NoTask,
                          !.checkpointed = TRUE]

\* A credited reopen stays in cycle-break; one without credit counts a cycle.
record_reopen_strategy_checkpoint(strategy, t) ==
    LET ready == ensure_initial_dispatch_strategy_checkpoint(strategy)
    IN  IF t \in ready.credits
        THEN CycleReviewed([ready EXCEPT !.credits = @ \ {t}], t,
                           IF ready.kind = "cycle_break" THEN CycleLimit ELSE ready.counts[t])
        ELSE CycleReviewed([ready EXCEPT !.credits = {}], t, ready.counts[t] + 1)

\* A dispatch counts a cycle and replaces every outstanding credit.
record_review_dispatch_strategy_checkpoint(strategy, t) ==
    LET ready == ensure_initial_dispatch_strategy_checkpoint(strategy)
    IN  CycleReviewed([ready EXCEPT !.credits = {t}], t, ready.counts[t] + 1)

\* Mutant: the binding to the task survives the strategy.
ClearKeepsBinding(strategy, t) ==
    IF strategy.cycleTask = t
    THEN [strategy EXCEPT !.kind = "none", !.counts[t] = 0]
    ELSE strategy

\* The closure of the task in cycle-break ends it.
clear_cycle_break_binding_and_strategy(strategy, t) ==
    IF strategy.cycleTask = t
    THEN [strategy EXCEPT !.kind = "none", !.cycleTask = NoTask, !.counts[t] = 0]
    ELSE strategy

\* consume_execution_reentry_repair_follow_up
ConsumeFollowUp(st) ==
    IF st.followUp = NoTask THEN st
    ELSE [st EXCEPT !.followUp = NoTask, !.phase = "executing"]

-----------------------------------------------------------------------------
\* load_or_initialize_authoritative_transition_state, when there is no log.
InitialState ==
    [open |-> NoOpenStep,
     completed |-> {},
     evidence |-> [s \in Steps |-> [n |-> 0, ok |-> FALSE]],
     closures |-> [t \in Tasks |-> NoLineage],
     negative |-> [t \in Tasks |-> NoLineage],
     dispatch |-> [t \in Tasks |-> NoLineage],
     phase |-> "executing",
     strategy |-> [kind |-> "none", cycleTask |-> NoTask, checkpointed |-> FALSE,
                   counts |-> [t \in Tasks |-> 0], credits |-> {}],
     followUp |-> NoTask]

Idle == [step |-> NoStep, task |-> NoTask, lineage |-> NoLineage, copy |-> InitialState]

Begun == commands < MaxCommands /\ commands' = commands + 1

Finish(p) == pc' = [pc EXCEPT ![p] = "idle"] /\ view' = [view EXCEPT ![p] = Idle]

Commit(payload, fields) == state' = Persist(payload, fields)

(***************************************************************************)
(* begin                                                                   *)
(***************************************************************************)
\* The context is loaded, and its fingerprint and route are checked, before
\* the claim.
BeginRead(p, s) ==
    /\ pc[p] = "idle"
    /\ Begun
    /\ pc' = [pc EXCEPT ![p] = "begin"]
    /\ view' = [view EXCEPT ![p] = [Idle EXCEPT !.step = s, !.copy = state]]
    /\ UNCHANGED <<state, stale>>

\* Mutant: a completed step can be begun.
BeginAllowedCompleted(st, s) ==
    /\ st.open.note # "Active"
    /\ st.open.note = "Blocked" => st.open.step = s
    /\ st.open.note = "Interrupted" => ~Before(st.open.step, s)

\* The checks on the view that begin makes once it holds the authority.
BeginAllowed(st, s) ==
    /\ st.open.note # "Active"
    /\ s \notin Checked(st)
    /\ st.open.note = "Blocked" => st.open.step = s
    /\ st.open.note = "Interrupted" => ~Before(st.open.step, s)

\* Under the claim the state is loaded again: the phase and the task boundary
\* are checked on it, the steps on the view.
BeginCommit(p) ==
    LET s == view[p].step
        seen == view[p].copy
    IN  /\ pc[p] = "begin"
        /\ PhaseAllows(state)
        /\ BeginAllowed(seen, s)
        /\ BoundaryOpen(state, s[1])
        /\ Commit(ConsumeFollowUp(
                    [state EXCEPT !.open = [step |-> s, note |-> "Active"],
                                  !.phase = "executing",
                                  !.strategy = ensure_initial_dispatch_strategy_checkpoint(@)]),
                  STEP_EVENT_FIELDS)
        /\ Finish(p)
        /\ stale' = stale \cup {c \in {"begin"} : seen # state}
        /\ UNCHANGED commands

ActiveIn(st, s) == st.open = [step |-> s, note |-> "Active"]

\* A begin of the step that is active already only consumes a follow-up.
BeginAgain(p) ==
    /\ pc[p] = "begin"
    /\ PhaseAllows(state)
    /\ ActiveIn(view[p].copy, view[p].step)
    /\ Commit(ConsumeFollowUp(state), STEP_EVENT_FIELDS)
    /\ Finish(p)
    /\ UNCHANGED <<stale, commands>>

\* begin is refused: by one of the checks above, by the router, because the
\* closure of the task before no longer matches the workspace, or because
\* another process holds the authority.
BeginFails(p) ==
    /\ pc[p] = "begin"
    /\ Finish(p)
    /\ UNCHANGED <<state, stale, commands>>

(***************************************************************************)
(* complete, note, reopen and the transfer of a handoff load everything    *)
(* under the claim.                                                        *)
(***************************************************************************)
Complete(p, s) ==
    LET payload == [state EXCEPT !.open = NoOpenStep,
                                 !.evidence[s] = [n |-> @.n + 1, ok |-> TRUE]]
    IN  /\ pc[p] = "idle"
        /\ Begun
        /\ PhaseAllows(state)
        /\ ActiveIn(state, s)
        /\ state.evidence[s].n < MaxAttempts
        /\ state' = [Persist(ConsumeFollowUp(payload), STEP_EVENT_FIELDS)
                        EXCEPT !.completed = @ \cup {s}]
        /\ UNCHANGED <<pc, view, stale>>

\* A blocked or interrupted step asks for a handoff or a pivot when the active
\* contract's reset policy says so.
apply_note_reset_policy(st) ==
    {[st EXCEPT !.phase = phase] : phase \in {st.phase, "handoff_required", "pivot_required"}}

Note(p, s, note) ==
    /\ pc[p] = "idle"
    /\ Begun
    /\ PhaseAllows(state)
    /\ ActiveIn(state, s)
    /\ \E payload \in apply_note_reset_policy(
                        [state EXCEPT !.open = [step |-> s, note |-> note]]) :
            Commit(payload, STEP_EVENT_FIELDS)
    /\ UNCHANGED <<pc, view, stale>>

(***************************************************************************)
(* reopen also clears the closure of the task in its copy, but closures    *)
(* are no field of a step event.                                           *)
(***************************************************************************)
Reopen(p, s) ==
    LET t == s[1]
        strategy == record_reopen_strategy_checkpoint(state.strategy, t)
        payload == [state EXCEPT !.open = [step |-> s, note |-> "Interrupted"],
                                 !.evidence[s].ok = FALSE,
                                 !.closures[t] = NoLineage,
                                 !.strategy = strategy,
                                 !.phase = IF strategy.kind = "cycle_break" THEN @
                                                                          ELSE "executing"]
    IN  /\ pc[p] = "idle"
        /\ Begun
        /\ PhaseAllows(state)
        /\ state.open.note = "Interrupted" => Before(s, state.open.step)
        /\ s \in Checked(state) \/ state.closures[t] # NoLineage
        /\ state' = [Persist(ConsumeFollowUp(payload), STEP_EVENT_FIELDS)
                        EXCEPT !.completed = @ \ {s}]
        /\ UNCHANGED <<pc, view, stale>>

TransferHandoff(p) ==
    /\ pc[p] = "idle"
    /\ Begun
    /\ state.phase = "handoff_required"
    /\ Commit([state EXCEPT !.phase = "executing"], TRANSFER_EVENT_FIELDS)
    /\ UNCHANGED <<pc, view, stale>>

-----------------------------------------------------------------------------
(***************************************************************************)
(* close-current-task: every stage reads the state again, and only the     *)
(* writes claim the authority.                                             *)
(***************************************************************************)
CloseStages == {"dispatch", "close", "refresh", "load", "record", "negative", "resolve"}

\* A completed task is picked; without a current review dispatch, one is made.
CloseRead(p, t) ==
    /\ pc[p] = "idle"
    /\ Begun
    /\ Lineage(state, t) # NoLineage
    /\ view' = [view EXCEPT ![p] = [Idle EXCEPT !.task = t, !.lineage = Lineage(state, t)]]
    /\ pc' = [pc EXCEPT ![p] = IF state.dispatch[t] = Lineage(state, t)
                               THEN "close" ELSE "dispatch"]
    /\ UNCHANGED <<state, stale>>

\* ensure_current_review_dispatch_id_for_command: binds the lineage that was
\* read, unless another command has bound it meanwhile.
CloseDispatch(p) ==
    LET t == view[p].task
    IN  /\ pc[p] = "dispatch"
        /\ IF state.dispatch[t] = view[p].lineage THEN UNCHANGED state
           ELSE Commit([state EXCEPT !.dispatch[t] = view[p].lineage,
                                     !.strategy = record_review_dispatch_strategy_checkpoint(@, t)],
                       DISPATCH_EVENT_FIELDS)
        /\ pc' = [pc EXCEPT ![p] = "close"]
        /\ UNCHANGED <<view, stale, commands>>

\* The dispatch of t binds the attempts by which t is complete.
DispatchCurrent(st, t) == Lineage(st, t) # NoLineage /\ st.dispatch[t] = Lineage(st, t)

\* The outcome of the review is new to the state; a negative one is final.
Undecided(st, t) == Lineage(st, t) \notin {st.negative[t], st.closures[t]}

\* current_task_closure_postcondition_resolution: what a closure ends.
Postconditions(st, t) ==
    [st EXCEPT !.strategy = clear_cycle_break_binding_and_strategy(@, t),
               !.followUp = IF @ = t THEN NoTask ELSE @]

\* The copy of the state that is changed and published at the end.
Load(p, t, stage) ==
    /\ pc' = [pc EXCEPT ![p] = stage]
    /\ view' = [view EXCEPT ![p] = [Idle EXCEPT !.task = t, !.lineage = Lineage(state, t),
                                               !.copy = state]]

\* The reviewers passed the task (refresh) or did not (negative).
CloseContext(p) ==
    LET t == view[p].task
    IN  /\ pc[p] = "close"
        /\ DispatchCurrent(state, t)
        /\ Undecided(state, t)
        /\ \E stage \in {"refresh", "negative"} : Load(p, t, stage)
        /\ UNCHANGED <<state, stale, commands>>

\* A closure that is current already only ends what it should have ended.
CloseAlreadyCurrent(p) ==
    LET t == view[p].task
    IN  /\ pc[p] \in {"close", "load"}
        /\ DispatchCurrent(state, t)
        /\ state.closures[t] = Lineage(state, t)
        /\ state.negative[t] = NoLineage
        /\ Postconditions(state, t) # state
        /\ Load(p, t, "resolve")
        /\ UNCHANGED <<state, stale, commands>>

\* Any stage may end the command: there is nothing to record, the outcome is
\* no verdict, a check fails, or another process holds the authority.
CloseStops(p) ==
    /\ pc[p] \in CloseStages
    /\ Finish(p)
    /\ UNCHANGED <<state, stale, commands>>

\* refresh_task_closure_authoritative_lineage_with_context
CloseRefresh(p) ==
    LET t == view[p].task
    IN  /\ pc[p] = "refresh"
        /\ IF state.dispatch[t] \in {NoLineage, view[p].lineage} THEN UNCHANGED state
           ELSE Commit([state EXCEPT !.dispatch[t] = view[p].lineage], DISPATCH_EVENT_FIELDS)
        /\ pc' = [pc EXCEPT ![p] = "load"]
        /\ UNCHANGED <<view, stale, commands>>

\* The copy is loaded and checked without the authority.
CloseLoad(p) ==
    LET t == view[p].task
    IN  /\ pc[p] = "load"
        /\ DispatchCurrent(state, t)
        /\ Undecided(state, t)
        /\ Load(p, t, "record")
        /\ UNCHANGED <<state, stale, commands>>

\* An event of close-current-task carries either the dispatch or the closure.
CloseEventFields(payload) ==
    IF payload.dispatch # state.dispatch THEN DISPATCH_EVENT_FIELDS
    ELSE TASK_CLOSURE_EVENT_FIELDS

\* What close-current-task does under its last claim: the copy is published.
Publish(p, payload) ==
    /\ Commit(payload, CloseEventFields(payload))
    /\ stale' = stale \cup {c \in {"close"} : view[p].copy # state}
    /\ Finish(p)
    /\ UNCHANGED commands

\* record_current_task_closure; a closure supersedes those of the tasks whose
\* surface overlaps.
CloseRecord(p) ==
    LET t == view[p].task
    IN  /\ pc[p] = "record"
        /\ \E superseded \in SUBSET (Tasks \ {t}) :
              Publish(p, Postconditions(
                [view[p].copy EXCEPT
                    !.closures = [u \in Tasks |-> IF u = t THEN view[p].lineage
                                                  ELSE IF u \in superseded THEN NoLineage
                                                  ELSE @[u]],
                    !.negative[t] = NoLineage], t))

\* record_negative_task_closure
CloseNegative(p) ==
    /\ pc[p] = "negative"
    /\ Publish(p, [view[p].copy EXCEPT !.negative[view[p].task] = view[p].lineage])

\* resolve_already_current_task_closure_postconditions
CloseResolve(p) ==
    /\ pc[p] = "resolve"
    /\ Publish(p, Postconditions(view[p].copy, view[p].task))

CloseCurrentTask(p) ==
    \/ \E t \in Tasks : CloseRead(p, t)
    \/ CloseDispatch(p) \/ CloseContext(p) \/ CloseAlreadyCurrent(p) \/ CloseStops(p)
    \/ CloseRefresh(p) \/ CloseLoad(p) \/ CloseRecord(p) \/ CloseNegative(p) \/ CloseResolve(p)

-----------------------------------------------------------------------------
(***************************************************************************)
(* repair-review-state for a task whose closure no longer matches the      *)
(* workspace: its writes claim the authority one by one.                   *)
(***************************************************************************)
RepairStages == {"repairOpen", "repairDispatch", "repairFollowUp"}

RepairStep(p, from, to, st) ==
    /\ pc[p] = from
    /\ Commit(st, REPAIR_EVENT_FIELDS)
    /\ pc' = [pc EXCEPT ![p] = to]

\* clear_current_task_closure_results_for_execution_reentry
RepairClosure(p, t) ==
    /\ Begun
    /\ state.closures[t] # NoLineage
    /\ RepairStep(p, "idle", "repairOpen", [state EXCEPT !.closures[t] = NoLineage])
    /\ view' = [view EXCEPT ![p].task = t]
    /\ UNCHANGED stale

\* clear_open_step_state
RepairOpen(p) ==
    /\ RepairStep(p, "repairOpen", "repairDispatch", [state EXCEPT !.open = NoOpenStep])
    /\ UNCHANGED <<view, stale, commands>>

\* clear_task_review_dispatch_lineage, when the plan of the repair asks for it.
RepairDispatch(p) ==
    /\ pc[p] = "repairDispatch"
    /\ \E lineage \in {NoLineage, state.dispatch[view[p].task]} :
          RepairStep(p, "repairDispatch", "repairFollowUp",
                     [state EXCEPT !.dispatch[view[p].task] = lineage])
    /\ UNCHANGED <<view, stale, commands>>

\* persist_review_state_repair_follow_up
RepairFollowUp(p) ==
    /\ \E t \in {NoTask, view[p].task} :
          RepairStep(p, "repairFollowUp", "idle", [state EXCEPT !.followUp = t])
    /\ view' = [view EXCEPT ![p] = Idle]
    /\ UNCHANGED <<stale, commands>>

\* One of the later writes cannot claim the authority: the repair is partial.
RepairStops(p) ==
    /\ pc[p] \in RepairStages
    /\ Finish(p)
    /\ UNCHANGED <<state, stale, commands>>

RepairReviewState(p) ==
    \/ \E t \in Tasks : RepairClosure(p, t)
    \/ RepairOpen(p) \/ RepairDispatch(p) \/ RepairFollowUp(p) \/ RepairStops(p)

-----------------------------------------------------------------------------
Init ==
    /\ state = InitialState
    /\ pc = [p \in Procs |-> "idle"]
    /\ view = [p \in Procs |-> Idle]
    /\ stale = {}
    /\ commands = 0

StepCommand(p, s) ==
    \/ BeginRead(p, s) \/ Complete(p, s) \/ Reopen(p, s)
    \/ \E note \in {"Blocked", "Interrupted"} : Note(p, s, note)

Next ==
    \E p \in Procs :
        \/ \E s \in Steps : StepCommand(p, s)
        \/ BeginCommit(p) \/ BeginAgain(p) \/ BeginFails(p)
        \/ TransferHandoff(p)
        \/ CloseCurrentTask(p)
        \/ RepairReviewState(p)

Spec == Init /\ [][Next]_vars

-----------------------------------------------------------------------------
Lineages == {NoLineage} \cup UNION {[StepsOf(t) -> 1..MaxAttempts] : t \in Tasks}

Strategies ==
    [kind : {"none", "initial_dispatch", "review_remediation", "cycle_break"},
     cycleTask : Tasks \cup {NoTask},
     checkpointed : BOOLEAN,
     counts : [Tasks -> 0..(CycleLimit - 1)],
     credits : SUBSET Tasks]

States ==
    [open : [step : Steps, note : Notes] \cup {NoOpenStep},
     completed : SUBSET Steps,
     evidence : [Steps -> [n : 0..MaxAttempts, ok : BOOLEAN]],
     closures : [Tasks -> Lineages],
     negative : [Tasks -> Lineages],
     dispatch : [Tasks -> Lineages],
     phase : Phases,
     strategy : Strategies,
     followUp : Tasks \cup {NoTask}]

Stages == {"idle", "begin"} \cup CloseStages \cup RepairStages

(***************************************************************************)
(* The state and every copy of it are states; in particular the count of   *)
(* review cycles of a task is reset before it passes the limit.            *)
(***************************************************************************)
TypeOK ==
    /\ state \in States
    /\ pc \in [Procs -> Stages]
    /\ \A p \in Procs :
          /\ view[p].step \in Steps \cup {NoStep}
          /\ view[p].task \in Tasks \cup {NoTask}
          /\ view[p].lineage \in Lineages
          /\ view[p].copy \in States
    /\ stale \subseteq {"begin", "close"}
    /\ commands \in 0..MaxCommands

(***************************************************************************)
(* A step counts as completed only while its latest attempt is valid       *)
(* evidence, whatever copies other commands publish: complete and reopen   *)
(* write the two in one event, and no other event carries either.          *)
(***************************************************************************)
CompletedHasEvidence == \A s \in state.completed : state.evidence[s].ok

(***************************************************************************)
(* A step becomes active only when the task before it is closed and not in *)
(* cycle-break remediation at that moment, though begin decides the rest   *)
(* on a view it read earlier (require_prior_task_closure_for_begin);       *)
(* unless close-current-task published an outdated copy.                   *)
(***************************************************************************)
TaskBoundary ==
    [][\A s \in Steps :
          ActiveIn(state', s) /\ ~ActiveIn(state, s) =>
             \/ "close" \in stale'
             \/ \A u \in prior_task_number_for_begin(s[1]) :
                   /\ state.closures[u] # NoLineage
                   /\ state.strategy.kind = "cycle_break" => state.strategy.cycleTask # u]_vars

(***************************************************************************)
(* Cycle-break remediation is always bound to a task, and a task is bound  *)
(* only during it; so the closure that must end it can be told.            *)
(***************************************************************************)
CycleBreakBound == (state.strategy.kind = "cycle_break") <=> (state.strategy.cycleTask # NoTask)

(***************************************************************************)
(* As long as no command has acted on an outdated view, the open step is   *)
(* not a completed one.                                                    *)
(***************************************************************************)
OpenStepIsIncomplete == stale = {} => state.open.step \notin state.completed

(***************************************************************************)
(* Closing a task leaves the active step of another task alone.            *)
(* close-current-task publishes a copy it loaded before its claim, with    *)
(* the open step of that moment.                                           *)
(***************************************************************************)
CloseKeepsActiveStep ==
    [][\A p \in Procs :
          pc[p] = "record" /\ pc'[p] = "idle" =>
             \A s \in Steps : s[1] # view[p].task /\ ActiveIn(state, s) => ActiveIn(state', s)]_vars
=============================================================================
