-------------------------- MODULE ExecutionProofs --------------------------
(***************************************************************************)
(* Proofs about the execution of a plan: the step commands, close-current- *)
(* task and repair-review-state (StepExecution), for any plan, any number  *)
(* of processes, attempts and commands; and the route that is shown for    *)
(* it (PublicRoute), for any tasks, facts and number of changes.           *)
(*                                                                         *)
(* The invariants of StepExecution are not inductive: they say nothing of  *)
(* the copies other commands hold and publish later. What makes them hold  *)
(* is which fields an event may carry: no event of close-current-task or   *)
(* repair-review-state carries evidence, and only the complete and reopen  *)
(* events change the completion, so of an outdated copy only open step,    *)
(* closures and strategy can come back; the strategy of every copy is      *)
(* bound as the one of the state is (ProcsOK), and an outdated open step   *)
(* shows in stale.                                                         *)
(*                                                                         *)
(* What is planned is always the route of the facts as they are (prInv),   *)
(* so the properties of a route are about one function of the facts. They  *)
(* are followed through its stages: every next action is one whose command *)
(* can be given (Decided), binding step and recording keeps command,       *)
(* detail and context together (Ready, Leads), and no later stage loses    *)
(* that (Showable, Passable).                                              *)
(***************************************************************************)
EXTENDS StepExecution, PublicRoute, ListProofs

(***************************************************************************)
(* The step commands.                                                      *)
(***************************************************************************)
\* Sets the fields of the state and the views range over.
Opens == [step : Steps, note : Notes] \cup {NoOpenStep}
Attempts == [n : 0..MaxAttempts, ok : BOOLEAN]
Views == [step : Steps \cup {NoStep}, task : Tasks \cup {NoTask}, lineage : Lineages, copy : States]

\* Cycle-break and its task go together.
Bound(strategy) == (strategy.kind = "cycle_break") <=> (strategy.cycleTask # NoTask)

\* Valid evidence is that of an attempt.
EvidenceIsOfAttempt == \A s \in Steps : state.evidence[s].ok => state.evidence[s].n # 0

\* What is said of the authoritative state.
StateOK ==
    /\ state \in States
    /\ CycleBreakBound
    /\ EvidenceIsOfAttempt
    /\ CompletedHasEvidence

\* A process that is in the middle of a command knows its step or its task.
ProcsOK ==
    /\ pc \in [Procs -> Stages]
    /\ view \in [Procs -> Views]
    /\ \A p \in Procs :
          /\ pc[p] = "begin" => view[p].step \in Steps
          /\ pc[p] \in CloseStages \cup RepairStages => view[p].task \in Tasks
          /\ Bound(view[p].copy.strategy)

\* The types of the history variables.
HistoryOK == stale \subseteq {"begin", "close"} /\ commands \in 0..MaxCommands

\* The inductive invariant.
seInv == StateOK /\ ProcsOK /\ HistoryOK /\ OpenStepIsIncomplete

\* Tasks and steps are numbered from one; zero is none of them.
LEMMA TasksAre == /\ Tasks \subseteq Nat \ {0} /\ NoTask \notin Tasks /\ NoStep \notin Steps
                  /\ \A s \in Steps : s[1] \in Tasks
  BY StepsAssumption DEF Tasks, NoTask, NoStep

\* The fields of a state have their types, and they are all its fields.
LEMMA FieldsOf ==
    ASSUME NEW st \in States
    PROVE  /\ st.open \in Opens /\ st.completed \in SUBSET Steps /\ st.evidence \in [Steps -> Attempts]
           /\ st.closures \in [Tasks -> Lineages] /\ st.negative \in [Tasks -> Lineages]
           /\ st.dispatch \in [Tasks -> Lineages] /\ st.phase \in Phases
           /\ st.strategy \in Strategies /\ st.followUp \in Tasks \cup {NoTask}
           /\ DOMAIN st = {"open", "completed", "evidence", "closures", "negative", "dispatch", "phase", "strategy", "followUp"}
  BY DEF States, Opens, Attempts

\* A record with these fields is a state.
LEMMA FieldsMake ==
    ASSUME NEW st,
           st = [f \in {"open", "completed", "evidence", "closures", "negative", "dispatch", "phase", "strategy", "followUp"} |-> st[f]],
           st.open \in Opens, st.completed \in SUBSET Steps, st.evidence \in [Steps -> Attempts],
           st.closures \in [Tasks -> Lineages], st.negative \in [Tasks -> Lineages],
           st.dispatch \in [Tasks -> Lineages], st.phase \in Phases,
           st.strategy \in Strategies, st.followUp \in Tasks \cup {NoTask}
    PROVE  st \in States
  BY DEF States, Opens, Attempts

\* An event changes the fields it may carry and no other.
LEMMA PersistTyped ==
    ASSUME state \in States, NEW payload \in States, NEW fields
    PROVE  /\ Persist(payload, fields) \in States
           /\ \A f \in DOMAIN state : Persist(payload, fields)[f] = IF f \in fields THEN payload[f] ELSE state[f]
  <1> DEFINE st == Persist(payload, fields)
             All == {"open", "completed", "evidence", "closures", "negative", "dispatch", "phase", "strategy", "followUp"}
  <1>1. DOMAIN state = All
    BY FieldsOf
  <1>2. st = [f \in All |-> IF f \in fields THEN payload[f] ELSE state[f]]
    BY <1>1 DEF Persist
  <1>3. \A f \in All : st[f] = IF f \in fields THEN payload[f] ELSE state[f]
    BY <1>2
  <1>4. st = [f \in All |-> st[f]]
    BY <1>2
  <1> HIDE DEF st
  <1>5. /\ st.open \in {payload.open, state.open} /\ st.completed \in {payload.completed, state.completed}
        /\ st.evidence \in {payload.evidence, state.evidence} /\ st.closures \in {payload.closures, state.closures}
        /\ st.negative \in {payload.negative, state.negative} /\ st.dispatch \in {payload.dispatch, state.dispatch}
        /\ st.phase \in {payload.phase, state.phase} /\ st.strategy \in {payload.strategy, state.strategy}
        /\ st.followUp \in {payload.followUp, state.followUp}
    BY <1>3
  <1>6. st.open \in Opens /\ st.completed \in SUBSET Steps /\ st.evidence \in [Steps -> Attempts]
    BY <1>5, FieldsOf
  <1>7. st.closures \in [Tasks -> Lineages] /\ st.negative \in [Tasks -> Lineages] /\ st.dispatch \in [Tasks -> Lineages]
    BY <1>5, FieldsOf
  <1>8. st.phase \in Phases /\ st.strategy \in Strategies /\ st.followUp \in Tasks \cup {NoTask}
    BY <1>5, FieldsOf
  <1>9. st \in States
    BY <1>4, <1>6, <1>7, <1>8, FieldsMake
  <1> QED
    BY <1>1, <1>3, <1>9 DEF st

-----------------------------------------------------------------------------
\* A strategy checkpoint sets the kind, the bound task and one count.
SetStrategy(y, k, c, t, m) == [y EXCEPT !.kind = k, !.cycleTask = c, !.counts[t] = m]

\* What a strategy checkpoint leaves is a strategy.
LEMMA StrategySet ==
    ASSUME NEW y \in Strategies, NEW k \in {"none", "initial_dispatch", "review_remediation", "cycle_break"},
           NEW c \in Tasks \cup {NoTask}, NEW t \in Tasks, NEW m \in 0..(CycleLimit - 1)
    PROVE  /\ SetStrategy(y, k, c, t, m) \in Strategies
           /\ SetStrategy(y, k, c, t, m).kind = k /\ SetStrategy(y, k, c, t, m).cycleTask = c
  <1> DEFINE w == [y.counts EXCEPT ![t] = m]
             z == SetStrategy(y, k, c, t, m)
  <1>1. w \in [Tasks -> 0..(CycleLimit - 1)]
    BY DEF Strategies
  <1>2. z = [y EXCEPT !.kind = k, !.cycleTask = c, !.counts = w]
    BY DEF Strategies, SetStrategy
  <1> HIDE DEF w, z
  <1> QED
    BY <1>1, <1>2 DEF Strategies, z

\* The same when it is bound to no task.
LEMMA StrategyFreed ==
    ASSUME NEW y \in Strategies, NEW k \in {"none", "initial_dispatch", "review_remediation", "cycle_break"},
           NEW t \in Tasks, NEW m \in 0..(CycleLimit - 1)
    PROVE  /\ SetStrategy(y, k, NoTask, t, m) \in Strategies
           /\ SetStrategy(y, k, NoTask, t, m).kind = k /\ SetStrategy(y, k, NoTask, t, m).cycleTask = NoTask
  <1> DEFINE w == [y.counts EXCEPT ![t] = m]
             z == SetStrategy(y, k, NoTask, t, m)
  <1>1. w \in [Tasks -> 0..(CycleLimit - 1)]
    BY DEF Strategies
  <1>2. z = [y EXCEPT !.kind = k, !.cycleTask = NoTask, !.counts = w]
    BY DEF Strategies, SetStrategy
  <1> HIDE DEF w, z
  <1> QED
    BY <1>1, <1>2 DEF Strategies, z

\* A counted review cycle keeps the count below the limit, and enters cycle-
\* break bound to the task or leaves it unbound.
LEMMA CycleReviewedTyped ==
    ASSUME NEW y \in Strategies, NEW t \in Tasks, NEW c \in 0..CycleLimit
    PROVE  CycleReviewed(y, t, c) \in Strategies /\ Bound(CycleReviewed(y, t, c))
  <1>1. t # NoTask
    BY TasksAre
  <1>2. CASE c >= CycleLimit
    <2>1. CycleReviewed(y, t, c) = SetStrategy(y, "cycle_break", t, t, 0)
      BY <1>2 DEF CycleReviewed, SetStrategy
    <2>2. 0 \in 0..(CycleLimit - 1)
      BY DEF CycleLimit
    <2> QED
      BY <1>1, <2>1, <2>2, StrategySet DEF Bound
  <1>3. CASE ~(c >= CycleLimit)
    <2>1. CycleReviewed(y, t, c) = SetStrategy(y, "review_remediation", NoTask, t, c)
      BY <1>3 DEF CycleReviewed, SetStrategy
    <2>2. c \in 0..(CycleLimit - 1)
      BY <1>3 DEF CycleLimit
    <2>3. /\ SetStrategy(y, "review_remediation", NoTask, t, c) \in Strategies
          /\ SetStrategy(y, "review_remediation", NoTask, t, c).kind = "review_remediation"
          /\ SetStrategy(y, "review_remediation", NoTask, t, c).cycleTask = NoTask
      BY <2>2, StrategyFreed
    <2> QED
      BY <2>1, <2>3 DEF Bound
  <1> QED
    BY <1>2, <1>3

\* The initial checkpoint keeps the binding.
LEMMA InitialTyped ==
    ASSUME NEW y \in Strategies, Bound(y)
    PROVE  /\ ensure_initial_dispatch_strategy_checkpoint(y) \in Strategies
           /\ Bound(ensure_initial_dispatch_strategy_checkpoint(y))
  BY DEF ensure_initial_dispatch_strategy_checkpoint, Strategies, Bound

\* So does the checkpoint of a reopen,
LEMMA ReopenTyped ==
    ASSUME NEW y \in Strategies, Bound(y), NEW t \in Tasks
    PROVE  /\ record_reopen_strategy_checkpoint(y, t) \in Strategies
           /\ Bound(record_reopen_strategy_checkpoint(y, t))
  <1> DEFINE ready == ensure_initial_dispatch_strategy_checkpoint(y)
  <1>1. ready \in Strategies /\ Bound(ready)
    BY InitialTyped
  <1> HIDE DEF ready
  <1>2. ready.counts[t] \in 0..CycleLimit /\ ready.counts[t] + 1 \in 0..CycleLimit /\ CycleLimit \in 0..CycleLimit
    BY <1>1 DEF Strategies, CycleLimit
  <1>3. [ready EXCEPT !.credits = @ \ {t}] \in Strategies /\ [ready EXCEPT !.credits = {}] \in Strategies
    BY <1>1 DEF Strategies
  <1>4. \E x \in Strategies, c \in 0..CycleLimit : record_reopen_strategy_checkpoint(y, t) = CycleReviewed(x, t, c)
    BY <1>2, <1>3 DEF record_reopen_strategy_checkpoint, ready
  <1> QED
    BY <1>4, CycleReviewedTyped

\* that of a review dispatch,
LEMMA DispatchTyped ==
    ASSUME NEW y \in Strategies, Bound(y), NEW t \in Tasks
    PROVE  /\ record_review_dispatch_strategy_checkpoint(y, t) \in Strategies
           /\ Bound(record_review_dispatch_strategy_checkpoint(y, t))
  <1> DEFINE ready == ensure_initial_dispatch_strategy_checkpoint(y)
  <1>1. ready \in Strategies /\ Bound(ready)
    BY InitialTyped
  <1> HIDE DEF ready
  <1>2. ready.counts[t] + 1 \in 0..CycleLimit
    BY <1>1 DEF Strategies, CycleLimit
  <1>3. [ready EXCEPT !.credits = {t}] \in Strategies
    BY <1>1 DEF Strategies
  <1>4. record_review_dispatch_strategy_checkpoint(y, t)
            = CycleReviewed([ready EXCEPT !.credits = {t}], t, ready.counts[t] + 1)
    BY DEF record_review_dispatch_strategy_checkpoint, ready
  <1> QED
    BY <1>2, <1>3, <1>4, CycleReviewedTyped

\* and the closure that ends the cycle-break.
LEMMA ClearTyped ==
    ASSUME NEW y \in Strategies, Bound(y), NEW t \in Tasks
    PROVE  /\ clear_cycle_break_binding_and_strategy(y, t) \in Strategies
           /\ Bound(clear_cycle_break_binding_and_strategy(y, t))
  <1>1. CASE y.cycleTask # t
    BY <1>1 DEF clear_cycle_break_binding_and_strategy
  <1>2. CASE y.cycleTask = t
    <2>1. clear_cycle_break_binding_and_strategy(y, t) = SetStrategy(y, "none", NoTask, t, 0)
      BY <1>2 DEF clear_cycle_break_binding_and_strategy, SetStrategy
    <2>2. 0 \in 0..(CycleLimit - 1)
      BY DEF CycleLimit
    <2>3. /\ SetStrategy(y, "none", NoTask, t, 0) \in Strategies
          /\ SetStrategy(y, "none", NoTask, t, 0).kind = "none"
          /\ SetStrategy(y, "none", NoTask, t, 0).cycleTask = NoTask
      BY <2>2, StrategyFreed
    <2> QED
      BY <2>1, <2>3 DEF Bound
  <1> QED
    BY <1>1, <1>2

-----------------------------------------------------------------------------
\* Consuming a follow-up touches neither steps, evidence nor strategy.
LEMMA ConsumeTyped ==
    ASSUME NEW st \in States
    PROVE  /\ ConsumeFollowUp(st) \in States
           /\ ConsumeFollowUp(st).strategy = st.strategy /\ ConsumeFollowUp(st).evidence = st.evidence
           /\ ConsumeFollowUp(st).open = st.open
  BY DEF ConsumeFollowUp, States, Phases

\* One field of a state is replaced: the result is a state, and what the
\* invariant reads of the other fields stays.
LEMMA OpenSet ==
    ASSUME NEW st \in States, NEW o \in Opens
    PROVE  /\ [st EXCEPT !.open = o] \in States
           /\ [st EXCEPT !.open = o].strategy = st.strategy /\ [st EXCEPT !.open = o].evidence = st.evidence
           /\ [st EXCEPT !.open = o].open = o
  BY DEF States, Opens

LEMMA StrategyPut ==
    ASSUME NEW st \in States, NEW y \in Strategies
    PROVE  /\ [st EXCEPT !.strategy = y] \in States
           /\ [st EXCEPT !.strategy = y].strategy = y /\ [st EXCEPT !.strategy = y].evidence = st.evidence
           /\ [st EXCEPT !.strategy = y].open = st.open
  BY DEF States

LEMMA PhaseSet ==
    ASSUME NEW st \in States, NEW h \in Phases
    PROVE  /\ [st EXCEPT !.phase = h] \in States
           /\ [st EXCEPT !.phase = h].strategy = st.strategy /\ [st EXCEPT !.phase = h].evidence = st.evidence
           /\ [st EXCEPT !.phase = h].open = st.open
  BY DEF States

LEMMA FollowUpSet ==
    ASSUME NEW st \in States, NEW t \in Tasks \cup {NoTask}
    PROVE  /\ [st EXCEPT !.followUp = t] \in States
           /\ [st EXCEPT !.followUp = t].strategy = st.strategy /\ [st EXCEPT !.followUp = t].evidence = st.evidence
           /\ [st EXCEPT !.followUp = t].open = st.open
  BY DEF States

LEMMA EvidencePut ==
    ASSUME NEW st \in States, NEW e \in [Steps -> Attempts]
    PROVE  /\ [st EXCEPT !.evidence = e] \in States
           /\ [st EXCEPT !.evidence = e].strategy = st.strategy /\ [st EXCEPT !.evidence = e].evidence = e
           /\ [st EXCEPT !.evidence = e].open = st.open
  BY DEF States, Attempts

LEMMA ClosuresPut ==
    ASSUME NEW st \in States, NEW c \in [Tasks -> Lineages]
    PROVE  /\ [st EXCEPT !.closures = c] \in States
           /\ [st EXCEPT !.closures = c].strategy = st.strategy /\ [st EXCEPT !.closures = c].evidence = st.evidence
           /\ [st EXCEPT !.closures = c].open = st.open
  BY DEF States

LEMMA NegativePut ==
    ASSUME NEW st \in States, NEW c \in [Tasks -> Lineages]
    PROVE  /\ [st EXCEPT !.negative = c] \in States
           /\ [st EXCEPT !.negative = c].strategy = st.strategy /\ [st EXCEPT !.negative = c].evidence = st.evidence
           /\ [st EXCEPT !.negative = c].open = st.open
  BY DEF States

LEMMA DispatchPut ==
    ASSUME NEW st \in States, NEW c \in [Tasks -> Lineages]
    PROVE  /\ [st EXCEPT !.dispatch = c] \in States
           /\ [st EXCEPT !.dispatch = c].strategy = st.strategy /\ [st EXCEPT !.dispatch = c].evidence = st.evidence
           /\ [st EXCEPT !.dispatch = c].open = st.open
  BY DEF States

\* The lineage of a task is made of real attempts, because valid evidence is
\* that of an attempt.
LEMMA LineageTyped ==
    ASSUME StateOK, NEW t \in Tasks
    PROVE  Lineage(state, t) \in Lineages
  <1>1. CASE ~(\A s \in StepsOf(t) : s \in Checked(state) /\ state.evidence[s].ok)
    BY <1>1 DEF Lineage, Lineages
  <1>2. CASE \A s \in StepsOf(t) : s \in Checked(state) /\ state.evidence[s].ok
    <2>1. \A s \in StepsOf(t) : state.evidence[s].n \in 1..MaxAttempts
      <3> TAKE s \in StepsOf(t)
      <3>1. s \in Steps
        BY DEF StepsOf
      <3>2. state.evidence[s] \in Attempts
        BY <3>1, FieldsOf DEF StateOK
      <3>3. state.evidence[s].n # 0
        BY <1>2, <3>1 DEF StateOK, EvidenceIsOfAttempt
      <3> QED
        BY <3>2, <3>3, StepBounds DEF Attempts
    <2>2. Lineage(state, t) = [s \in StepsOf(t) |-> state.evidence[s].n]
      BY <1>2 DEF Lineage
    <2>3. Lineage(state, t) \in [StepsOf(t) -> 1..MaxAttempts]
      BY <2>1, <2>2
    <2> QED
      BY <2>3 DEF Lineages
  <1> QED
    BY <1>1, <1>2

\* What a closure ends keeps open step and evidence.
LEMMA PostTyped ==
    ASSUME NEW st \in States, Bound(st.strategy), NEW t \in Tasks
    PROVE  /\ Postconditions(st, t) \in States
           /\ Bound(Postconditions(st, t).strategy)
           /\ Postconditions(st, t).open = st.open
           /\ Postconditions(st, t).evidence = st.evidence
  <1> DEFINE y == clear_cycle_break_binding_and_strategy(st.strategy, t)
             w == IF st.followUp = t THEN NoTask ELSE st.followUp
             u == [st EXCEPT !.strategy = y]
  <1>1. y \in Strategies /\ Bound(y)
    BY ClearTyped, FieldsOf
  <1>2. w \in Tasks \cup {NoTask}
    BY FieldsOf
  <1>3. Postconditions(st, t) = [st EXCEPT !.strategy = y, !.followUp = w]
    BY DEF Postconditions
  <1> HIDE DEF y, w
  <1> QED
    BY <1>1, <1>2, <1>3 DEF States

\* A commit that leaves evidence and completion alone keeps what is said of the
\* state.
LEMMA StateKept ==
    ASSUME StateOK, NEW payload \in States, NEW fields, Bound(payload.strategy),
           "evidence" \in fields => payload.evidence = state.evidence, "completed" \notin fields,
           state' = Persist(payload, fields)
    PROVE  /\ StateOK'
           /\ state'.completed = state.completed
           /\ state'.open = IF "open" \in fields THEN payload.open ELSE state.open
  <1>1. state \in States /\ Bound(state.strategy)
    BY DEF StateOK, CycleBreakBound, Bound
  <1>2. state' \in States /\ \A f \in DOMAIN state : state'[f] = IF f \in fields THEN payload[f] ELSE state[f]
    BY <1>1, PersistTyped
  <1>3. DOMAIN state = {"open", "completed", "evidence", "closures", "negative", "dispatch", "phase", "strategy", "followUp"}
    BY <1>1, FieldsOf
  <1>4. /\ state'.completed = state.completed /\ state'.evidence = state.evidence
        /\ state'.open = IF "open" \in fields THEN payload.open ELSE state.open
        /\ state'.strategy \in {payload.strategy, state.strategy}
    BY <1>2, <1>3
  <1>5. Bound(state'.strategy)
    BY <1>1, <1>4
  <1> QED
    BY <1>2, <1>4, <1>5
      DEF StateOK, CycleBreakBound, Bound, EvidenceIsOfAttempt, CompletedHasEvidence

\* The first state and the view of an idle process.
LEMMA InitialStateTyped == InitialState \in States /\ Bound(InitialState.strategy) /\ Idle \in Views
  <1>1. [kind |-> "none", cycleTask |-> NoTask, checkpointed |-> FALSE,
         counts |-> [t \in Tasks |-> 0], credits |-> {}] \in Strategies
    BY DEF Strategies, CycleLimit
  <1>2. [t \in Tasks |-> NoLineage] \in [Tasks -> Lineages]
    BY DEF Lineages
  <1>3. [s \in Steps |-> [n |-> 0, ok |-> FALSE]] \in [Steps -> Attempts]
    BY StepBounds DEF Attempts
  <1>4. InitialState \in States
    BY <1>1, <1>2, <1>3 DEF InitialState, States, Attempts, Phases
  <1>5. Bound(InitialState.strategy)
    BY DEF InitialState, Bound
  <1>6. NoLineage \in Lineages
    BY DEF Lineages
  <1>7. Idle \in Views
    BY <1>4, <1>6 DEF Idle, Views
  <1> QED
    BY <1>4, <1>5, <1>7

\* A process moves to a stage with a view that fits it.
LEMMA Moved ==
    ASSUME ProcsOK, NEW p \in Procs, NEW x \in Stages, NEW v \in Views, Bound(v.copy.strategy),
           x = "begin" => v.step \in Steps, x \in CloseStages \cup RepairStages => v.task \in Tasks,
           pc' = [pc EXCEPT ![p] = x], view' = [view EXCEPT ![p] = v]
    PROVE  ProcsOK'
  <1>1. pc' \in [Procs -> Stages] /\ view' \in [Procs -> Views]
    BY DEF ProcsOK
  <1>2. \A q \in Procs : (q = p /\ pc'[q] = x /\ view'[q] = v) \/ (q # p /\ pc'[q] = pc[q] /\ view'[q] = view[q])
    BY DEF ProcsOK
  <1>3. ASSUME NEW q \in Procs
        PROVE  /\ pc'[q] = "begin" => view'[q].step \in Steps
               /\ pc'[q] \in CloseStages \cup RepairStages => view'[q].task \in Tasks
               /\ Bound(view'[q].copy.strategy)
    <2>1. CASE q = p /\ pc'[q] = x /\ view'[q] = v
      BY <2>1
    <2>2. CASE q # p /\ pc'[q] = pc[q] /\ view'[q] = view[q]
      BY <2>2 DEF ProcsOK
    <2> QED
      BY <1>2, <2>1, <2>2
  <1> QED
    BY <1>1, <1>3 DEF ProcsOK, Bound

\* A command ends.
LEMMA Finished ==
    ASSUME ProcsOK, NEW p \in Procs, Finish(p)
    PROVE  ProcsOK'
  <1>1. Idle \in Views /\ Bound(Idle.copy.strategy) /\ "idle" \in Stages
    BY InitialStateTyped DEF Idle, Stages
  <1>2. "idle" \notin CloseStages \cup RepairStages
    BY DEF CloseStages, RepairStages
  <1>3. pc' = [pc EXCEPT ![p] = "idle"] /\ view' = [view EXCEPT ![p] = Idle]
    BY DEF Finish
  <1> QED
    BY <1>1, <1>2, <1>3, Moved

\* A process stays in its command.
LEMMA Advanced ==
    ASSUME ProcsOK, NEW p \in Procs, pc[p] \in CloseStages \cup RepairStages,
           NEW x \in CloseStages \cup RepairStages, pc' = [pc EXCEPT ![p] = x], view' = view
    PROVE  ProcsOK'
  <1>1. view[p] \in Views /\ view[p].task \in Tasks /\ Bound(view[p].copy.strategy)
    BY DEF ProcsOK
  <1>2. view' = [view EXCEPT ![p] = view[p]]
    BY DEF ProcsOK
  <1>3. x \in Stages /\ x # "begin"
    BY DEF Stages, CloseStages, RepairStages
  <1> QED
    BY <1>1, <1>2, <1>3, Moved

-----------------------------------------------------------------------------

\* A step that activates no step; or a close that published an outdated copy.
Quiet == state'.open = state.open \/ state'.open.note # "Active" \/ "close" \in stale'

\* The facts about types the actions need.
LEMMA TypesOf ==
    ASSUME seInv
    PROVE  /\ state \in States /\ state.open \in Opens /\ state.strategy \in Strategies /\ Bound(state.strategy)
           /\ \A p \in Procs : view[p] \in Views /\ view[p].copy \in States /\ view[p].copy.strategy \in Strategies
                               /\ Bound(view[p].copy.strategy) /\ view[p].lineage \in Lineages
  <1>1. state \in States /\ Bound(state.strategy)
    BY DEF seInv, StateOK, CycleBreakBound, Bound
  <1>2. \A p \in Procs : view[p] \in Views /\ Bound(view[p].copy.strategy)
    BY DEF seInv, ProcsOK
  <1>3. \A p \in Procs : view[p].copy \in States /\ view[p].lineage \in Lineages
    BY <1>2 DEF Views
  <1> QED
    BY <1>1, <1>2, <1>3, FieldsOf

\* A command is begun.
LEMMA OneMore ==
    ASSUME HistoryOK, Begun, stale' = stale
    PROVE  HistoryOK'
  BY StepBounds DEF HistoryOK, Begun

\* No open step, and an open step.
LEMMA OpensAre ==
    /\ NoOpenStep \in Opens /\ NoOpenStep.step = NoStep /\ NoOpenStep.note = "none"
    /\ \A s \in Steps, note \in Notes : [step |-> s, note |-> note] \in Opens
  BY DEF Opens, NoOpenStep

\* begin loads its view.
LEMMA BeginReadKeeps ==
    ASSUME seInv, NEW p \in Procs, NEW s \in Steps, BeginRead(p, s)
    PROVE  seInv' /\ Quiet
  <1> DEFINE v == [Idle EXCEPT !.step = s, !.copy = state]
  <1>1. pc' = [pc EXCEPT ![p] = "begin"] /\ view' = [view EXCEPT ![p] = v] /\ Begun /\ state' = state /\ stale' = stale
    BY DEF BeginRead
  <1>2. state \in States /\ Bound(state.strategy)
    BY TypesOf
  <1>3. v \in Views /\ v.copy = state /\ v.step = s
    BY <1>2, InitialStateTyped DEF Views
  <1>4. "begin" \in Stages /\ "begin" \notin CloseStages \cup RepairStages
    BY DEF Stages, CloseStages, RepairStages
  <1> HIDE DEF v
  <1>5. ProcsOK'
    BY <1>1, <1>2, <1>3, <1>4, Moved DEF seInv
  <1>6. HistoryOK'
    BY <1>1, OneMore DEF seInv
  <1> QED
    BY <1>1, <1>5, <1>6
      DEF seInv, StateOK, CycleBreakBound, EvidenceIsOfAttempt, CompletedHasEvidence,
          OpenStepIsIncomplete, Quiet

\* begin opens its step: as long as no view was outdated, the step it found
\* unchecked is not completed now.
LEMMA BeginCommitKeeps ==
    ASSUME seInv, NEW p \in Procs, BeginCommit(p)
    PROVE  seInv' /\ state'.open = [step |-> view[p].step, note |-> "Active"]
  <1> DEFINE s == view[p].step
             seen == view[p].copy
             o == [step |-> s, note |-> "Active"]
             y == ensure_initial_dispatch_strategy_checkpoint(state.strategy)
             a == [state EXCEPT !.open = o, !.phase = "executing", !.strategy = y]
             payload == ConsumeFollowUp(a)
  <1>1. /\ pc[p] = "begin" /\ BeginAllowed(seen, s) /\ state' = Persist(payload, STEP_EVENT_FIELDS) /\ Finish(p)
        /\ stale' = stale \cup {c \in {"begin"} : seen # state} /\ commands' = commands
    BY DEF BeginCommit, Commit
  <1>2. s \in Steps
    BY <1>1 DEF seInv, ProcsOK
  <1>3. o \in Opens /\ o.step = s
    BY <1>2, OpensAre DEF Notes
  <1>4. y \in Strategies /\ Bound(y)
    BY TypesOf, InitialTyped
  <1>5. "executing" \in Phases /\ state \in States
    BY TypesOf DEF Phases
  <1> HIDE DEF o, y
  <1>6. a \in States /\ a.open = o /\ a.strategy = y /\ a.evidence = state.evidence
    BY <1>3, <1>4, <1>5 DEF States, Opens
  <1> HIDE DEF a
  <1>7. payload \in States /\ payload.open = o /\ payload.strategy = y /\ payload.evidence = state.evidence
    BY <1>6, ConsumeTyped
  <1>8. "open" \in STEP_EVENT_FIELDS /\ "completed" \notin STEP_EVENT_FIELDS
    BY DEF STEP_EVENT_FIELDS
  <1> HIDE DEF payload
  <1>9. StateOK' /\ state'.completed = state.completed /\ state'.open = o
    BY <1>1, <1>4, <1>7, <1>8, StateKept DEF seInv
  <1>10. ProcsOK' /\ HistoryOK'
    BY <1>1, Finished DEF seInv, HistoryOK
  <1>11. ASSUME stale' = {} PROVE s \notin state.completed
    <2>1. seen = state /\ stale = {}
      BY <1>1, <1>11
    <2>2. s \notin state.completed \/ s = state.open.step
      BY <1>1, <2>1 DEF BeginAllowed, Checked
    <2> QED
      BY <2>1, <2>2 DEF seInv, OpenStepIsIncomplete
  <1> QED
    BY <1>3, <1>9, <1>10, <1>11 DEF seInv, OpenStepIsIncomplete, o

\* begin of the step that is active already.
LEMMA BeginAgainKeeps ==
    ASSUME seInv, NEW p \in Procs, BeginAgain(p)
    PROVE  seInv' /\ Quiet
  <1> DEFINE payload == ConsumeFollowUp(state)
  <1>1. state' = Persist(payload, STEP_EVENT_FIELDS) /\ Finish(p) /\ stale' = stale /\ commands' = commands
    BY DEF BeginAgain, Commit
  <1>2. payload \in States /\ payload.open = state.open /\ payload.strategy = state.strategy /\ payload.evidence = state.evidence
    BY TypesOf, ConsumeTyped
  <1>3. "open" \in STEP_EVENT_FIELDS /\ "completed" \notin STEP_EVENT_FIELDS
    BY DEF STEP_EVENT_FIELDS
  <1> HIDE DEF payload
  <1>4. Bound(payload.strategy)
    BY <1>2, TypesOf
  <1>5. StateOK' /\ state'.completed = state.completed /\ state'.open = state.open
    BY <1>1, <1>2, <1>3, <1>4, StateKept DEF seInv
  <1>6. ProcsOK' /\ HistoryOK'
    BY <1>1, Finished DEF seInv, HistoryOK
  <1> QED
    BY <1>1, <1>5, <1>6 DEF seInv, OpenStepIsIncomplete, Quiet

\* A command ends, or moves on, without a write.
LEMMA NothingWritten ==
    ASSUME seInv, ProcsOK', UNCHANGED <<state, stale, commands>>
    PROVE  seInv' /\ Quiet
  BY
      DEF seInv, StateOK, HistoryOK, CycleBreakBound, EvidenceIsOfAttempt,
          CompletedHasEvidence, OpenStepIsIncomplete, Quiet

\* complete writes the evidence and the completion in one event.
LEMMA CompleteKeeps ==
    ASSUME seInv, NEW p \in Procs, NEW s \in Steps, Complete(p, s)
    PROVE  seInv' /\ Quiet
  <1> DEFINE e == [state.evidence EXCEPT ![s] = [n |-> state.evidence[s].n + 1, ok |-> TRUE]]
             a == [state EXCEPT !.open = NoOpenStep, !.evidence = e]
             payload == ConsumeFollowUp(a)
             q == Persist(payload, STEP_EVENT_FIELDS)
  <1>1. state \in States /\ state.evidence \in [Steps -> Attempts] /\ Bound(state.strategy)
    BY TypesOf, FieldsOf
  <1>2. [state EXCEPT !.open = NoOpenStep, !.evidence[s] = [n |-> @.n + 1, ok |-> TRUE]] = a
    BY <1>1 DEF States
  <1>3. /\ Begun /\ state.evidence[s].n < MaxAttempts
        /\ state' = [q EXCEPT !.completed = @ \cup {s}]
        /\ pc' = pc /\ view' = view /\ stale' = stale
    BY <1>2 DEF Complete
  <1>4. state.evidence[s] \in Attempts /\ state.evidence[s].n + 1 \in 1..MaxAttempts
    BY <1>1, <1>3, StepBounds DEF Attempts
  <1>5. e \in [Steps -> Attempts] /\ e[s].ok /\ e[s].n # 0 /\ \A u \in Steps \ {s} : e[u] = state.evidence[u]
    BY <1>1, <1>4 DEF Attempts
  <1> HIDE DEF e
  <1>6. a \in States /\ a.strategy = state.strategy /\ a.open = NoOpenStep /\ a.evidence = e
    BY <1>1, <1>5 DEF States, Attempts
  <1> HIDE DEF a
  <1>7. payload \in States /\ payload.strategy = state.strategy /\ payload.open = NoOpenStep /\ payload.evidence = e
    BY <1>6, ConsumeTyped
  <1> HIDE DEF payload
  <1>8. q \in States /\ \A f \in DOMAIN state : q[f] = IF f \in STEP_EVENT_FIELDS THEN payload[f] ELSE state[f]
    BY <1>1, <1>7, PersistTyped
  <1>9. DOMAIN state = {"open", "completed", "evidence", "closures", "negative", "dispatch", "phase", "strategy", "followUp"}
    BY <1>1, FieldsOf
  <1> HIDE DEF q
  <1>10. q.open = NoOpenStep /\ q.completed = state.completed /\ q.evidence = e /\ q.strategy = state.strategy
    BY <1>7, <1>8, <1>9 DEF STEP_EVENT_FIELDS
  <1>11. /\ state' \in States /\ state'.open = NoOpenStep /\ state'.completed = state.completed \cup {s}
         /\ state'.evidence = e /\ state'.strategy = state.strategy
    BY <1>3, <1>8, <1>10 DEF States
  <1>12. \A u \in Steps : state'.evidence[u].ok => state'.evidence[u].n # 0
    BY <1>5, <1>11 DEF seInv, StateOK, EvidenceIsOfAttempt
  <1>13. \A u \in state'.completed : state'.evidence[u].ok
    BY <1>1, <1>5, <1>11, FieldsOf DEF seInv, StateOK, CompletedHasEvidence
  <1>14. StateOK'
    BY <1>1, <1>11, <1>12, <1>13
        DEF StateOK, CycleBreakBound, Bound, EvidenceIsOfAttempt, CompletedHasEvidence
  <1>15. state'.open.step \notin state'.completed
    BY <1>11, OpensAre, TasksAre, FieldsOf
  <1>16. ProcsOK' /\ HistoryOK'
    BY <1>3, OneMore DEF seInv, ProcsOK
  <1> QED
    BY <1>11, OpensAre, <1>14, <1>15, <1>16 DEF seInv, OpenStepIsIncomplete, Quiet

\* note keeps the step open.
LEMMA NoteKeeps ==
    ASSUME seInv, NEW p \in Procs, NEW s \in Steps, NEW note \in {"Blocked", "Interrupted"}, Note(p, s, note)
    PROVE  seInv' /\ Quiet
  <1> DEFINE o == [step |-> s, note |-> note]
             a == [state EXCEPT !.open = o]
  <1>1. state \in States /\ Bound(state.strategy) /\ o \in Opens /\ o.step = s
    BY TypesOf, OpensAre DEF Notes
  <1>2. /\ Begun /\ ActiveIn(state, s) /\ pc' = pc /\ view' = view /\ stale' = stale
        /\ \E payload \in apply_note_reset_policy(a) : state' = Persist(payload, STEP_EVENT_FIELDS)
    BY DEF Note, Commit
  <1>3. state.open.step = s
    BY <1>2 DEF ActiveIn
  <1> HIDE DEF o
  <1>4. a \in States /\ a.open = o /\ a.strategy = state.strategy /\ a.evidence = state.evidence
    BY <1>1, OpenSet
  <1> HIDE DEF a
  <1>5. PICK payload \in apply_note_reset_policy(a) : state' = Persist(payload, STEP_EVENT_FIELDS)
    BY <1>2
  <1>6. PICK h \in Phases : payload = [a EXCEPT !.phase = h]
    BY <1>4, FieldsOf DEF apply_note_reset_policy, Phases
  <1>7. payload \in States /\ payload.open = o /\ payload.strategy = state.strategy /\ payload.evidence = state.evidence
    BY <1>4, <1>6, PhaseSet
  <1>8. "open" \in STEP_EVENT_FIELDS /\ "completed" \notin STEP_EVENT_FIELDS
    BY DEF STEP_EVENT_FIELDS
  <1>9. Bound(payload.strategy)
    BY <1>1, <1>7
  <1>10. StateOK' /\ state'.completed = state.completed /\ state'.open = o
    BY <1>5, <1>7, <1>8, <1>9, StateKept DEF seInv
  <1>11. ProcsOK' /\ HistoryOK'
    BY <1>2, OneMore DEF seInv, ProcsOK
  <1>12. o.note # "Active"
    BY DEF o
  <1> QED
    BY <1>1, <1>2, <1>3, <1>10, <1>11, <1>12 DEF seInv, OpenStepIsIncomplete, Quiet

\* reopen invalidates the evidence and takes the completion back in one event.
LEMMA ReopenKeeps ==
    ASSUME seInv, NEW p \in Procs, NEW s \in Steps, Reopen(p, s)
    PROVE  seInv' /\ Quiet
  <1> DEFINE t == s[1]
             y == record_reopen_strategy_checkpoint(state.strategy, t)
             o == [step |-> s, note |-> "Interrupted"]
             e == [state.evidence EXCEPT ![s] = [state.evidence[s] EXCEPT !.ok = FALSE]]
             c == [state.closures EXCEPT ![t] = NoLineage]
             h == IF y.kind = "cycle_break" THEN state.phase ELSE "executing"
             a == [state EXCEPT !.open = o, !.evidence = e, !.closures = c, !.strategy = y, !.phase = h]
             payload == ConsumeFollowUp(a)
             q == Persist(payload, STEP_EVENT_FIELDS)
  <1>1. /\ state \in States /\ state.evidence \in [Steps -> Attempts] /\ state.strategy \in Strategies /\ Bound(state.strategy)
        /\ state.closures \in [Tasks -> Lineages] /\ state.phase \in Phases /\ t \in Tasks
    BY TypesOf, FieldsOf, TasksAre
  <1>2. y \in Strategies /\ Bound(y)
    BY <1>1, ReopenTyped
  <1> HIDE DEF y
  <1>3. [state EXCEPT !.open = o, !.evidence[s].ok = FALSE, !.closures[t] = NoLineage, !.strategy = y,
                      !.phase = IF y.kind = "cycle_break" THEN @ ELSE "executing"] = a
    BY <1>1 DEF States
  <1>4. /\ Begun
        /\ state' = [q EXCEPT !.completed = @ \ {s}]
        /\ pc' = pc /\ view' = view /\ stale' = stale
    BY <1>3 DEF Reopen, y
  <1>5. /\ e \in [Steps -> Attempts] /\ ~e[s].ok /\ \A u \in Steps \ {s} : e[u] = state.evidence[u]
    BY <1>1 DEF Attempts
  <1>6. c \in [Tasks -> Lineages] /\ h \in Phases /\ o \in Opens /\ o.step = s
    BY <1>1, OpensAre DEF Lineages, Phases, Notes
  <1> HIDE DEF e, c, h, o
  <1>7. a \in States /\ a.strategy = y /\ a.open = o /\ a.evidence = e
    BY <1>1, <1>2, <1>5, <1>6 DEF States, Attempts, Opens
  <1> HIDE DEF a
  <1>8. payload \in States /\ payload.strategy = y /\ payload.open = o /\ payload.evidence = e
    BY <1>7, ConsumeTyped
  <1> HIDE DEF payload
  <1>9. q \in States /\ \A f \in DOMAIN state : q[f] = IF f \in STEP_EVENT_FIELDS THEN payload[f] ELSE state[f]
    BY <1>1, <1>8, PersistTyped
  <1>10. DOMAIN state = {"open", "completed", "evidence", "closures", "negative", "dispatch", "phase", "strategy", "followUp"}
    BY <1>1, FieldsOf
  <1> HIDE DEF q
  <1>11. q.open = o /\ q.completed = state.completed /\ q.evidence = e /\ q.strategy = y
    BY <1>8, <1>9, <1>10 DEF STEP_EVENT_FIELDS
  <1>12. /\ state' \in States /\ state'.open = o /\ state'.completed = state.completed \ {s}
         /\ state'.evidence = e /\ state'.strategy = y
    BY <1>4, <1>9, <1>11 DEF States
  <1>13. \A u \in Steps : state'.evidence[u].ok => state'.evidence[u].n # 0
    BY <1>5, <1>12 DEF seInv, StateOK, EvidenceIsOfAttempt
  <1>14. \A u \in state'.completed : state'.evidence[u].ok
    BY <1>1, <1>5, <1>12, FieldsOf DEF seInv, StateOK, CompletedHasEvidence
  <1>15. StateOK'
    BY <1>2, <1>12, <1>13, <1>14
        DEF StateOK, CycleBreakBound, Bound, EvidenceIsOfAttempt, CompletedHasEvidence
  <1>16. ProcsOK' /\ HistoryOK'
    BY <1>4, OneMore DEF seInv, ProcsOK
  <1>17. o.note # "Active"
    BY DEF o
  <1> QED
    BY <1>6, <1>12, <1>15, <1>16, <1>17 DEF seInv, OpenStepIsIncomplete, Quiet

\* The transfer of a handoff changes the phase only.
LEMMA TransferKeeps ==
    ASSUME seInv, NEW p \in Procs, TransferHandoff(p)
    PROVE  seInv' /\ Quiet
  <1> DEFINE payload == [state EXCEPT !.phase = "executing"]
  <1>1. Begun /\ state' = Persist(payload, TRANSFER_EVENT_FIELDS) /\ pc' = pc /\ view' = view /\ stale' = stale
    BY DEF TransferHandoff, Commit
  <1>2. payload \in States /\ payload.open = state.open /\ payload.strategy = state.strategy
    BY TypesOf, PhaseSet DEF Phases
  <1>3. "completed" \notin TRANSFER_EVENT_FIELDS /\ "evidence" \notin TRANSFER_EVENT_FIELDS
    BY DEF TRANSFER_EVENT_FIELDS
  <1> HIDE DEF payload
  <1>4. Bound(payload.strategy)
    BY <1>2, TypesOf
  <1>5. StateOK' /\ state'.completed = state.completed /\ state'.open = state.open
    BY <1>1, <1>2, <1>3, <1>4, StateKept DEF seInv
  <1>6. ProcsOK' /\ HistoryOK'
    BY <1>1, OneMore DEF seInv, ProcsOK
  <1> QED
    BY <1>1, <1>5, <1>6 DEF seInv, OpenStepIsIncomplete, Quiet

-----------------------------------------------------------------------------
\* What close-current-task loads: the state, and the lineage of the task in it.
LEMMA LoadKeeps ==
    ASSUME seInv, NEW p \in Procs, NEW t \in Tasks, NEW stage \in CloseStages, Load(p, t, stage),
           UNCHANGED <<state, stale, commands>>
    PROVE  seInv' /\ Quiet
  <1> DEFINE v == [Idle EXCEPT !.task = t, !.lineage = Lineage(state, t), !.copy = state]
  <1>1. pc' = [pc EXCEPT ![p] = stage] /\ view' = [view EXCEPT ![p] = v]
    BY DEF Load
  <1>2. state \in States /\ Bound(state.strategy) /\ Lineage(state, t) \in Lineages
    BY TypesOf, LineageTyped DEF seInv
  <1>3. v \in Views /\ v.copy = state /\ v.task = t
    BY <1>2, InitialStateTyped DEF Views
  <1>4. stage \in Stages /\ stage # "begin"
    BY DEF Stages, CloseStages
  <1> HIDE DEF v
  <1>5. ProcsOK'
    BY <1>1, <1>2, <1>3, <1>4, Moved DEF seInv
  <1> QED
    BY <1>5, NothingWritten

\* close-current-task picks a completed task.
LEMMA CloseReadKeeps ==
    ASSUME seInv, NEW p \in Procs, NEW t \in Tasks, CloseRead(p, t)
    PROVE  seInv' /\ Quiet
  <1> DEFINE v == [Idle EXCEPT !.task = t, !.lineage = Lineage(state, t)]
             x == IF state.dispatch[t] = Lineage(state, t) THEN "close" ELSE "dispatch"
  <1>1. pc' = [pc EXCEPT ![p] = x] /\ view' = [view EXCEPT ![p] = v] /\ Begun /\ state' = state /\ stale' = stale
    BY DEF CloseRead
  <1>2. Lineage(state, t) \in Lineages
    BY LineageTyped DEF seInv
  <1>3. v \in Views /\ v.copy = Idle.copy /\ v.task = t
    BY <1>2, InitialStateTyped DEF Views
  <1>4. Bound(Idle.copy.strategy)
    BY InitialStateTyped DEF Idle
  <1>5. x \in Stages /\ x # "begin"
    BY DEF Stages, CloseStages
  <1> HIDE DEF v, x
  <1>6. ProcsOK'
    BY <1>1, <1>3, <1>4, <1>5, Moved DEF seInv
  <1>7. HistoryOK'
    BY <1>1, OneMore DEF seInv
  <1> QED
    BY <1>1, <1>6, <1>7
      DEF seInv, StateOK, CycleBreakBound, EvidenceIsOfAttempt, CompletedHasEvidence,
          OpenStepIsIncomplete, Quiet

\* A process that closes or repairs a task knows which.
LEMMA TaskKnown ==
    ASSUME seInv, NEW p \in Procs, pc[p] \in CloseStages \cup RepairStages
    PROVE  view[p].task \in Tasks
  BY DEF seInv, ProcsOK

\* The review dispatch it may make touches no step.
LEMMA CloseDispatchKeeps ==
    ASSUME seInv, NEW p \in Procs, CloseDispatch(p)
    PROVE  seInv' /\ Quiet
  <1> DEFINE t == view[p].task
             y == record_review_dispatch_strategy_checkpoint(state.strategy, t)
             c == [state.dispatch EXCEPT ![t] = view[p].lineage]
             payload == [state EXCEPT !.dispatch = c, !.strategy = y]
  <1>1. pc[p] = "dispatch" /\ pc' = [pc EXCEPT ![p] = "close"] /\ view' = view /\ stale' = stale /\ commands' = commands
    BY DEF CloseDispatch
  <1>2. pc[p] \in CloseStages \cup RepairStages /\ "close" \in CloseStages \cup RepairStages
    BY <1>1 DEF CloseStages
  <1>3. ProcsOK'
    BY <1>1, <1>2, Advanced DEF seInv
  <1>4. t \in Tasks /\ view[p].lineage \in Lineages /\ state \in States /\ state.dispatch \in [Tasks -> Lineages]
    BY <1>2, TaskKnown, TypesOf, FieldsOf
  <1>5. y \in Strategies /\ Bound(y)
    BY <1>4, TypesOf, DispatchTyped
  <1>6. c \in [Tasks -> Lineages]
    BY <1>4
  <1>7. [state EXCEPT !.dispatch[t] = view[p].lineage,
                      !.strategy = record_review_dispatch_strategy_checkpoint(@, t)] = payload
    BY <1>4 DEF States
  <1>8. state' = state \/ state' = Persist(payload, DISPATCH_EVENT_FIELDS)
    BY <1>7 DEF CloseDispatch, Commit
  <1> HIDE DEF y, c
  <1>9. payload \in States /\ payload.strategy = y
    BY <1>4, <1>5, <1>6 DEF States
  <1>10. "open" \notin DISPATCH_EVENT_FIELDS /\ "completed" \notin DISPATCH_EVENT_FIELDS /\ "evidence" \notin DISPATCH_EVENT_FIELDS
    BY DEF DISPATCH_EVENT_FIELDS
  <1> HIDE DEF payload
  <1>11. CASE state' = state
    BY <1>1, <1>3, <1>11, NothingWritten
  <1>12. CASE state' = Persist(payload, DISPATCH_EVENT_FIELDS)
    <2>1. StateOK' /\ state'.completed = state.completed /\ state'.open = state.open
      BY <1>5, <1>9, <1>10, <1>12, StateKept DEF seInv
    <2> QED
      BY <1>1, <1>3, <2>1 DEF seInv, HistoryOK, OpenStepIsIncomplete, Quiet
  <1> QED
    BY <1>8, <1>11, <1>12

\* Neither does the refreshed dispatch lineage.
LEMMA CloseRefreshKeeps ==
    ASSUME seInv, NEW p \in Procs, CloseRefresh(p)
    PROVE  seInv' /\ Quiet
  <1> DEFINE t == view[p].task
             c == [state.dispatch EXCEPT ![t] = view[p].lineage]
             payload == [state EXCEPT !.dispatch = c]
  <1>1. pc[p] = "refresh" /\ pc' = [pc EXCEPT ![p] = "load"] /\ view' = view /\ stale' = stale /\ commands' = commands
    BY DEF CloseRefresh
  <1>2. pc[p] \in CloseStages \cup RepairStages /\ "load" \in CloseStages \cup RepairStages
    BY <1>1 DEF CloseStages
  <1>3. ProcsOK'
    BY <1>1, <1>2, Advanced DEF seInv
  <1>4. t \in Tasks /\ view[p].lineage \in Lineages /\ state \in States /\ state.dispatch \in [Tasks -> Lineages]
    BY <1>2, TaskKnown, TypesOf, FieldsOf
  <1>5. c \in [Tasks -> Lineages]
    BY <1>4
  <1>6. [state EXCEPT !.dispatch[t] = view[p].lineage] = payload
    BY <1>4 DEF States
  <1>7. state' = state \/ state' = Persist(payload, DISPATCH_EVENT_FIELDS)
    BY <1>6 DEF CloseRefresh, Commit
  <1> HIDE DEF c
  <1>8. payload \in States /\ payload.strategy = state.strategy
    BY <1>4, <1>5, DispatchPut
  <1>9. "open" \notin DISPATCH_EVENT_FIELDS /\ "completed" \notin DISPATCH_EVENT_FIELDS /\ "evidence" \notin DISPATCH_EVENT_FIELDS
    BY DEF DISPATCH_EVENT_FIELDS
  <1> HIDE DEF payload
  <1>10. Bound(payload.strategy)
    BY <1>8, TypesOf
  <1>11. CASE state' = state
    BY <1>1, <1>3, <1>11, NothingWritten
  <1>12. CASE state' = Persist(payload, DISPATCH_EVENT_FIELDS)
    <2>1. StateOK' /\ state'.completed = state.completed /\ state'.open = state.open
      BY <1>8, <1>9, <1>10, <1>12, StateKept DEF seInv
    <2> QED
      BY <1>1, <1>3, <2>1 DEF seInv, HistoryOK, OpenStepIsIncomplete, Quiet
  <1> QED
    BY <1>7, <1>11, <1>12

\* Publishing a copy keeps the invariant; an outdated one shows in stale.
LEMMA PublishKeeps ==
    ASSUME seInv, NEW p \in Procs, NEW payload \in States, Bound(payload.strategy),
           payload.open = view[p].copy.open, Publish(p, payload)
    PROVE  seInv' /\ Quiet
  <1>1. /\ state' = Persist(payload, CloseEventFields(payload)) /\ Finish(p) /\ commands' = commands
        /\ stale' = stale \cup {c \in {"close"} : view[p].copy # state}
    BY DEF Publish, Commit
  <1>2. "completed" \notin CloseEventFields(payload) /\ "evidence" \notin CloseEventFields(payload)
    BY DEF CloseEventFields, DISPATCH_EVENT_FIELDS, TASK_CLOSURE_EVENT_FIELDS
  <1>3. /\ StateOK' /\ state'.completed = state.completed
        /\ state'.open = IF "open" \in CloseEventFields(payload) THEN payload.open ELSE state.open
    BY <1>1, <1>2, StateKept DEF seInv
  <1>4. ProcsOK' /\ HistoryOK'
    BY <1>1, Finished DEF seInv, HistoryOK
  <1>5. ASSUME stale' = {} PROVE state'.open = state.open /\ stale = {}
    BY <1>1, <1>3, <1>5
  <1>6. Quiet
    BY <1>1, <1>3 DEF Quiet
  <1> QED
    BY <1>3, <1>4, <1>5, <1>6 DEF seInv, OpenStepIsIncomplete

\* The three copies that are published.
LEMMA RecordPayload ==
    ASSUME seInv, NEW p \in Procs, pc[p] = "record", NEW superseded
    PROVE  LET payload == Postconditions(
                [view[p].copy EXCEPT
                    !.closures = [u \in Tasks |-> IF u = view[p].task THEN view[p].lineage
                                                  ELSE IF u \in superseded THEN NoLineage
                                                  ELSE @[u]],
                    !.negative[view[p].task] = NoLineage], view[p].task)
           IN payload \in States /\ Bound(payload.strategy) /\ payload.open = view[p].copy.open
  <1> DEFINE st == view[p].copy
             t == view[p].task
             c == [u \in Tasks |-> IF u = t THEN view[p].lineage
                                   ELSE IF u \in superseded THEN NoLineage ELSE st.closures[u]]
             n == [st.negative EXCEPT ![t] = NoLineage]
             a == [st EXCEPT !.closures = c, !.negative = n]
  <1>1. /\ st \in States /\ Bound(st.strategy) /\ view[p].lineage \in Lineages
        /\ st.closures \in [Tasks -> Lineages] /\ st.negative \in [Tasks -> Lineages]
    BY TypesOf, FieldsOf
  <1>2. t \in Tasks
    BY TaskKnown DEF CloseStages
  <1>3. NoLineage \in Lineages
    BY DEF Lineages
  <1>4. c \in [Tasks -> Lineages] /\ n \in [Tasks -> Lineages]
    BY <1>1, <1>2, <1>3
  <1>5. [st EXCEPT !.closures = [u \in Tasks |-> IF u = t THEN view[p].lineage
                                                 ELSE IF u \in superseded THEN NoLineage ELSE @[u]],
                   !.negative[t] = NoLineage] = a
    BY <1>1 DEF States
  <1> HIDE DEF c, n
  <1>6. a \in States /\ a.strategy = st.strategy /\ a.open = st.open
    BY <1>1, <1>4 DEF States
  <1> HIDE DEF a
  <1>7. Postconditions(a, t) \in States /\ Bound(Postconditions(a, t).strategy) /\ Postconditions(a, t).open = st.open
    BY <1>1, <1>2, <1>6, PostTyped
  <1> QED
    BY <1>5, <1>7

\* The copy with a negative outcome.
LEMMA NegativePayload ==
    ASSUME seInv, NEW p \in Procs, pc[p] = "negative"
    PROVE  LET payload == [view[p].copy EXCEPT !.negative[view[p].task] = view[p].lineage]
           IN payload \in States /\ Bound(payload.strategy) /\ payload.open = view[p].copy.open
  <1> DEFINE st == view[p].copy
             t == view[p].task
             n == [st.negative EXCEPT ![t] = view[p].lineage]
             a == [st EXCEPT !.negative = n]
  <1>1. st \in States /\ Bound(st.strategy) /\ view[p].lineage \in Lineages /\ st.negative \in [Tasks -> Lineages]
    BY TypesOf, FieldsOf
  <1>2. n \in [Tasks -> Lineages]
    BY <1>1
  <1>3. [st EXCEPT !.negative[t] = view[p].lineage] = a
    BY <1>1 DEF States
  <1> HIDE DEF n
  <1>4. a \in States /\ a.strategy = st.strategy /\ a.open = st.open
    BY <1>1, <1>2, NegativePut
  <1> QED
    BY <1>1, <1>3, <1>4

\* The copy of a closure that is current already.
LEMMA ResolvePayload ==
    ASSUME seInv, NEW p \in Procs, pc[p] = "resolve"
    PROVE  LET payload == Postconditions(view[p].copy, view[p].task)
           IN payload \in States /\ Bound(payload.strategy) /\ payload.open = view[p].copy.open
  <1>1. view[p].copy \in States /\ Bound(view[p].copy.strategy)
    BY TypesOf
  <1>2. view[p].task \in Tasks
    BY TaskKnown DEF CloseStages
  <1> QED
    BY <1>1, <1>2, PostTyped

\* Whichever it is, close-current-task publishes a copy with the open step it loaded.
LEMMA Published ==
    ASSUME seInv, NEW p \in Procs, CloseRecord(p) \/ CloseNegative(p) \/ CloseResolve(p)
    PROVE  \E payload \in States : Bound(payload.strategy) /\ payload.open = view[p].copy.open /\ Publish(p, payload)
  <1>1. CASE CloseRecord(p)
    <2> DEFINE Payload(superseded) ==
                 Postconditions(
                   [view[p].copy EXCEPT
                     !.closures = [u \in Tasks |-> IF u = view[p].task THEN view[p].lineage
                                                   ELSE IF u \in superseded THEN NoLineage
                                                   ELSE @[u]],
                     !.negative[view[p].task] = NoLineage], view[p].task)
    <2>1. pc[p] = "record"
      BY <1>1 DEF CloseRecord
    <2>2. PICK superseded : Publish(p, Payload(superseded))
      BY <1>1 DEF CloseRecord
    <2>3. Payload(superseded) \in States /\ Bound(Payload(superseded).strategy) /\ Payload(superseded).open = view[p].copy.open
      BY <2>1, RecordPayload
    <2> HIDE DEF Payload
    <2> QED
      BY <2>2, <2>3
  <1>2. CASE CloseNegative(p)
    <2> DEFINE payload == [view[p].copy EXCEPT !.negative[view[p].task] = view[p].lineage]
    <2>1. pc[p] = "negative" /\ Publish(p, payload)
      BY <1>2 DEF CloseNegative
    <2>2. payload \in States /\ Bound(payload.strategy) /\ payload.open = view[p].copy.open
      BY <2>1, NegativePayload
    <2> HIDE DEF payload
    <2> QED
      BY <2>1, <2>2
  <1>3. CASE CloseResolve(p)
    <2> DEFINE payload == Postconditions(view[p].copy, view[p].task)
    <2>1. pc[p] = "resolve" /\ Publish(p, payload)
      BY <1>3 DEF CloseResolve
    <2>2. payload \in States /\ Bound(payload.strategy) /\ payload.open = view[p].copy.open
      BY <2>1, ResolvePayload
    <2> HIDE DEF payload
    <2> QED
      BY <2>1, <2>2
  <1> QED
    BY <1>1, <1>2, <1>3

\* Every stage of close-current-task keeps the invariant.
LEMMA CloseKeeps ==
    ASSUME seInv, NEW p \in Procs, CloseCurrentTask(p)
    PROVE  seInv' /\ Quiet
  <1>1. CASE \E t \in Tasks : CloseRead(p, t)
    BY <1>1, CloseReadKeeps
  <1>2. CASE CloseDispatch(p)
    BY <1>2, CloseDispatchKeeps
  <1>3. CASE CloseContext(p)
    <2>1. pc[p] = "close" /\ (\E stage \in {"refresh", "negative"} : Load(p, view[p].task, stage)) /\ UNCHANGED <<state, stale, commands>>
      BY <1>3 DEF CloseContext
    <2>2. view[p].task \in Tasks /\ {"refresh", "negative"} \subseteq CloseStages
      BY <2>1, TaskKnown DEF CloseStages
    <2> QED
      BY <2>1, <2>2, LoadKeeps
  <1>4. CASE CloseAlreadyCurrent(p)
    <2>1. pc[p] \in {"close", "load"} /\ Load(p, view[p].task, "resolve") /\ UNCHANGED <<state, stale, commands>>
      BY <1>4 DEF CloseAlreadyCurrent
    <2>2. view[p].task \in Tasks /\ "resolve" \in CloseStages
      BY <2>1, TaskKnown DEF CloseStages
    <2> QED
      BY <2>1, <2>2, LoadKeeps
  <1>5. CASE CloseStops(p)
    BY <1>5, Finished, NothingWritten DEF CloseStops, seInv
  <1>6. CASE CloseRefresh(p)
    BY <1>6, CloseRefreshKeeps
  <1>7. CASE CloseLoad(p)
    <2>1. pc[p] = "load" /\ Load(p, view[p].task, "record") /\ UNCHANGED <<state, stale, commands>>
      BY <1>7 DEF CloseLoad
    <2>2. view[p].task \in Tasks /\ "record" \in CloseStages
      BY <2>1, TaskKnown DEF CloseStages
    <2> QED
      BY <2>1, <2>2, LoadKeeps
  <1>8. CASE CloseRecord(p) \/ CloseNegative(p) \/ CloseResolve(p)
    BY <1>8, Published, PublishKeeps
  <1> QED
    BY <1>1, <1>2, <1>3, <1>4, <1>5, <1>6, <1>7, <1>8 DEF CloseCurrentTask

-----------------------------------------------------------------------------
\* A write of repair-review-state, from a copy it has just loaded.
LEMMA RepairWritten ==
    ASSUME seInv, NEW payload \in States, Bound(payload.strategy),
           payload.open \in {state.open, NoOpenStep}, state' = Persist(payload, REPAIR_EVENT_FIELDS),
           ProcsOK', HistoryOK', stale' = stale
    PROVE  seInv' /\ Quiet
  <1>1. "open" \in REPAIR_EVENT_FIELDS /\ "completed" \notin REPAIR_EVENT_FIELDS /\ "evidence" \notin REPAIR_EVENT_FIELDS
    BY DEF REPAIR_EVENT_FIELDS
  <1>2. StateOK' /\ state'.completed = state.completed /\ state'.open = payload.open
    BY <1>1, StateKept DEF seInv
  <1>3. NoOpenStep.step \notin state.completed
    BY OpensAre, TasksAre, TypesOf, FieldsOf
  <1> QED
    BY <1>2, <1>3, OpensAre DEF seInv, OpenStepIsIncomplete, Quiet

\* repair-review-state clears the closure,
LEMMA RepairClosureKeeps ==
    ASSUME seInv, NEW p \in Procs, NEW t \in Tasks, RepairClosure(p, t)
    PROVE  seInv' /\ Quiet
  <1> DEFINE c == [state.closures EXCEPT ![t] = NoLineage]
             payload == [state EXCEPT !.closures = c]
             v == [view[p] EXCEPT !.task = t]
  <1>1. state \in States /\ Bound(state.strategy) /\ state.closures \in [Tasks -> Lineages] /\ view[p] \in Views /\ Bound(view[p].copy.strategy)
    BY TypesOf, FieldsOf
  <1>2. [state EXCEPT !.closures[t] = NoLineage] = payload
    BY <1>1 DEF States
  <1>3. /\ Begun /\ state' = Persist(payload, REPAIR_EVENT_FIELDS) /\ stale' = stale
        /\ pc' = [pc EXCEPT ![p] = "repairOpen"] /\ view' = [view EXCEPT ![p].task = t]
    BY <1>2 DEF RepairClosure, RepairStep, Commit
  <1>4. view' = [view EXCEPT ![p] = v]
    BY <1>3 DEF seInv, ProcsOK
  <1>5. v \in Views /\ v.task = t /\ v.copy = view[p].copy
    BY <1>1 DEF Views
  <1>6. "repairOpen" \in Stages
    BY DEF Stages, RepairStages
  <1>7. c \in [Tasks -> Lineages]
    BY <1>1 DEF Lineages
  <1> HIDE DEF c, v
  <1>8. payload \in States /\ payload.strategy = state.strategy /\ payload.open = state.open
    BY <1>1, <1>7, ClosuresPut
  <1> HIDE DEF payload
  <1>9. ProcsOK'
    BY <1>1, <1>3, <1>4, <1>5, <1>6, Moved DEF seInv
  <1>10. HistoryOK'
    BY <1>3, OneMore DEF seInv
  <1>11. Bound(payload.strategy)
    BY <1>1, <1>8
  <1> QED
    BY <1>3, <1>8, <1>9, <1>10, <1>11, RepairWritten

\* the open step,
LEMMA RepairOpenKeeps ==
    ASSUME seInv, NEW p \in Procs, RepairOpen(p)
    PROVE  seInv' /\ Quiet
  <1> DEFINE payload == [state EXCEPT !.open = NoOpenStep]
  <1>1. /\ pc[p] = "repairOpen" /\ state' = Persist(payload, REPAIR_EVENT_FIELDS)
        /\ pc' = [pc EXCEPT ![p] = "repairDispatch"] /\ view' = view /\ stale' = stale /\ commands' = commands
    BY DEF RepairOpen, RepairStep, Commit
  <1>2. pc[p] \in CloseStages \cup RepairStages /\ "repairDispatch" \in CloseStages \cup RepairStages
    BY <1>1 DEF RepairStages
  <1>3. ProcsOK' /\ HistoryOK'
    BY <1>1, <1>2, Advanced DEF seInv, HistoryOK
  <1>4. payload \in States /\ payload.strategy = state.strategy /\ payload.open = NoOpenStep
    BY TypesOf, OpensAre, OpenSet
  <1> HIDE DEF payload
  <1>5. Bound(payload.strategy)
    BY <1>4, TypesOf
  <1> QED
    BY <1>1, <1>3, <1>4, <1>5, RepairWritten

\* the review dispatch,
LEMMA RepairDispatchKeeps ==
    ASSUME seInv, NEW p \in Procs, RepairDispatch(p)
    PROVE  seInv' /\ Quiet
  <1> DEFINE t == view[p].task
  <1>1. pc[p] = "repairDispatch" /\ view' = view /\ stale' = stale /\ commands' = commands
    BY DEF RepairDispatch
  <1>2. PICK lineage \in {NoLineage, state.dispatch[t]} :
            RepairStep(p, "repairDispatch", "repairFollowUp", [state EXCEPT !.dispatch[t] = lineage])
    BY DEF RepairDispatch
  <1> DEFINE c == [state.dispatch EXCEPT ![t] = lineage]
             payload == [state EXCEPT !.dispatch = c]
  <1>3. state \in States /\ Bound(state.strategy) /\ state.dispatch \in [Tasks -> Lineages]
    BY TypesOf, FieldsOf
  <1>4. pc[p] \in CloseStages \cup RepairStages /\ "repairFollowUp" \in CloseStages \cup RepairStages
    BY <1>1 DEF RepairStages
  <1>5. t \in Tasks
    BY <1>4, TaskKnown
  <1>6. lineage \in Lineages
    BY <1>2, <1>3, <1>5 DEF Lineages
  <1>7. c \in [Tasks -> Lineages]
    BY <1>3, <1>6
  <1>8. [state EXCEPT !.dispatch[t] = lineage] = payload
    BY <1>3 DEF States
  <1>9. state' = Persist(payload, REPAIR_EVENT_FIELDS) /\ pc' = [pc EXCEPT ![p] = "repairFollowUp"]
    BY <1>2, <1>8 DEF RepairStep, Commit
  <1> HIDE DEF c
  <1>10. payload \in States /\ payload.strategy = state.strategy /\ payload.open = state.open
    BY <1>3, <1>7, DispatchPut
  <1> HIDE DEF payload
  <1>11. ProcsOK' /\ HistoryOK'
    BY <1>1, <1>4, <1>9, Advanced DEF seInv, HistoryOK
  <1>12. Bound(payload.strategy)
    BY <1>3, <1>10
  <1> QED
    BY <1>1, <1>9, <1>10, <1>11, <1>12, RepairWritten

\* and leaves a follow-up.
LEMMA RepairFollowUpKeeps ==
    ASSUME seInv, NEW p \in Procs, RepairFollowUp(p)
    PROVE  seInv' /\ Quiet
  <1>1. PICK t \in {NoTask, view[p].task} : RepairStep(p, "repairFollowUp", "idle", [state EXCEPT !.followUp = t])
    BY DEF RepairFollowUp
  <1> DEFINE payload == [state EXCEPT !.followUp = t]
  <1>2. /\ pc[p] = "repairFollowUp" /\ state' = Persist(payload, REPAIR_EVENT_FIELDS)
        /\ pc' = [pc EXCEPT ![p] = "idle"] /\ view' = [view EXCEPT ![p] = Idle] /\ stale' = stale /\ commands' = commands
    BY <1>1 DEF RepairFollowUp, RepairStep, Commit
  <1>3. view[p].task \in Tasks
    BY <1>2, TaskKnown DEF RepairStages
  <1>4. payload \in States /\ payload.strategy = state.strategy /\ payload.open = state.open
    BY <1>3, TypesOf, FollowUpSet
  <1> HIDE DEF payload
  <1>5. ProcsOK' /\ HistoryOK'
    BY <1>2, Finished DEF Finish, seInv, HistoryOK
  <1>6. Bound(payload.strategy)
    BY <1>4, TypesOf
  <1> QED
    BY <1>2, <1>4, <1>5, <1>6, RepairWritten

\* Every write of repair-review-state keeps the invariant, wherever it stops.
LEMMA RepairKeeps ==
    ASSUME seInv, NEW p \in Procs, RepairReviewState(p)
    PROVE  seInv' /\ Quiet
  <1>1. CASE \E t \in Tasks : RepairClosure(p, t)
    BY <1>1, RepairClosureKeeps
  <1>2. CASE RepairOpen(p) \/ RepairDispatch(p) \/ RepairFollowUp(p)
    BY <1>2, RepairOpenKeeps, RepairDispatchKeeps, RepairFollowUpKeeps
  <1>3. CASE RepairStops(p)
    BY <1>3, Finished, NothingWritten DEF RepairStops, seInv
  <1> QED
    BY <1>1, <1>2, <1>3 DEF RepairReviewState

-----------------------------------------------------------------------------
\* The invariant holds before the first command.
LEMMA InitInv == Init => seInv
  <1> SUFFICES ASSUME Init PROVE seInv
    OBVIOUS
  <1>1. state = InitialState /\ pc = [p \in Procs |-> "idle"] /\ view = [p \in Procs |-> Idle] /\ stale = {} /\ commands = 0
    BY DEF Init
  <1>2. state.completed = {} /\ state.evidence = [s \in Steps |-> [n |-> 0, ok |-> FALSE]]
    BY <1>1 DEF InitialState
  <1>3. StateOK
    BY <1>1, <1>2, InitialStateTyped
        DEF StateOK, CycleBreakBound, Bound, EvidenceIsOfAttempt, CompletedHasEvidence
  <1>4. ProcsOK
    BY <1>1, InitialStateTyped DEF ProcsOK, Stages, CloseStages, RepairStages, Idle
  <1>5. HistoryOK /\ OpenStepIsIncomplete
    BY <1>1, <1>2, StepBounds DEF HistoryOK, OpenStepIsIncomplete
  <1> QED
    BY <1>3, <1>4, <1>5 DEF seInv

\* Every step keeps the invariant, and a step becomes active only by begin or by
\* a close that published an outdated copy.
LEMMA StepKeeps ==
    ASSUME seInv, [Next]_vars
    PROVE  /\ seInv'
           /\ Quiet \/ \E p \in Procs : BeginCommit(p) /\ state'.open.step = view[p].step
  <1>1. CASE UNCHANGED vars
    BY <1>1
        DEF vars, seInv, StateOK, ProcsOK, HistoryOK, CycleBreakBound, EvidenceIsOfAttempt,
            CompletedHasEvidence, OpenStepIsIncomplete, Quiet
  <1>2. CASE Next
    <2>1. PICK p \in Procs :
              \/ \E s \in Steps : StepCommand(p, s)
              \/ BeginCommit(p) \/ BeginAgain(p) \/ BeginFails(p)
              \/ TransferHandoff(p) \/ CloseCurrentTask(p) \/ RepairReviewState(p)
      BY <1>2 DEF Next
    <2>2. ASSUME NEW s \in Steps, StepCommand(p, s) PROVE seInv' /\ Quiet
      BY <2>2, BeginReadKeeps, CompleteKeeps, ReopenKeeps, NoteKeeps DEF StepCommand
    <2>3. CASE BeginFails(p)
      BY <2>3, Finished, NothingWritten DEF BeginFails, seInv
    <2>4. CASE BeginCommit(p)
      <3>1. seInv' /\ state'.open = [step |-> view[p].step, note |-> "Active"]
        BY <2>4, BeginCommitKeeps
      <3>2. state'.open.step = view[p].step
        BY <3>1
      <3> QED
        BY <2>4, <3>1, <3>2
    <2> QED
      BY <2>1, <2>2, <2>3, <2>4, BeginAgainKeeps, TransferKeeps, CloseKeeps, RepairKeeps
  <1> QED
    BY <1>1, <1>2

\* The invariant holds for any plan and any number of processes, attempts and
\* commands.
THEOREM ExecutionInvariance == Spec => []seInv
  <1>1. Init => seInv
    BY InitInv
  <1>2. seInv /\ [Next]_vars => seInv'
    BY StepKeeps
  <1> QED
    BY <1>1, <1>2, PTL DEF Spec

\* The variables keep their types; in particular the review cycles of a task are
\* reset before they pass the limit, whatever copies are published.
THEOREM TypeCorrect == Spec => []TypeOK
  <1>1. seInv => TypeOK
    BY DEF seInv, StateOK, ProcsOK, HistoryOK, TypeOK, Views
  <1> QED
    BY <1>1, ExecutionInvariance, PTL

\* A step counts as completed only while its latest attempt is valid evidence:
\* complete and reopen write both in one event, and no copy that close-current-
\* task or repair-review-state publishes carries either.
THEOREM EvidenceBehindCompletion == Spec => []CompletedHasEvidence
  <1>1. seInv => CompletedHasEvidence
    BY DEF seInv, StateOK
  <1> QED
    BY <1>1, ExecutionInvariance, PTL

\* Cycle-break remediation is bound to a task, and a task is bound only during
\* it, through reopens, dispatches, closures and outdated copies.
THEOREM BoundCycleBreak == Spec => []CycleBreakBound
  <1>1. seInv => CycleBreakBound
    BY DEF seInv, StateOK
  <1> QED
    BY <1>1, ExecutionInvariance, PTL

\* As long as no command has acted on an outdated view, the open step is not a
\* completed one.
THEOREM OpenIsIncomplete == Spec => []OpenStepIsIncomplete
  <1>1. seInv => OpenStepIsIncomplete
    BY DEF seInv
  <1> QED
    BY <1>1, ExecutionInvariance, PTL

\* A step becomes active only when the task before it is closed and not in
\* cycle-break remediation at that moment, though begin decides the rest on a
\* view it read before the claim; unless close-current-task published an
\* outdated copy.
THEOREM Boundary == Spec => TaskBoundary
  <1>1. ASSUME seInv, [Next]_vars, NEW s \in Steps, ActiveIn(state', s) /\ ~ActiveIn(state, s)
        PROVE  \/ "close" \in stale'
               \/ \A u \in prior_task_number_for_begin(s[1]) :
                     /\ state.closures[u] # NoLineage
                     /\ state.strategy.kind = "cycle_break" => state.strategy.cycleTask # u
    <2>1. state'.open = [step |-> s, note |-> "Active"] /\ state'.open # state.open
      BY <1>1, Zenon DEF ActiveIn
    <2>2. state'.open.step = s /\ state'.open.note = "Active"
      BY <2>1
    <2>3. CASE "close" \in stale'
      BY <2>3
    <2>4. CASE "close" \notin stale'
      <3>1. PICK p \in Procs : BeginCommit(p) /\ state'.open.step = view[p].step
        BY <1>1, <2>1, <2>2, <2>4, StepKeeps DEF Quiet
      <3>2. BoundaryOpen(state, s[1])
        BY <2>2, <3>1 DEF BeginCommit
      <3> QED
        BY <3>2 DEF BoundaryOpen
    <2> QED
      BY <2>3, <2>4
  <1>2. seInv /\ [Next]_vars =>
            [\A s \in Steps :
                ActiveIn(state', s) /\ ~ActiveIn(state, s) =>
                   \/ "close" \in stale'
                   \/ \A u \in prior_task_number_for_begin(s[1]) :
                         /\ state.closures[u] # NoLineage
                         /\ state.strategy.kind = "cycle_break" => state.strategy.cycleTask # u]_vars
    BY <1>1
  <1> QED
    BY <1>2, ExecutionInvariance, PTL DEF Spec, TaskBoundary

-----------------------------------------------------------------------------
(***************************************************************************)
(* The routes.  Reopening spares closed tasks, whatever the next action    *)
(* is.                                                                     *)
(***************************************************************************)
\* The fields of a finalization and of a route.
Finalization(z) == DOMAIN z = {"detail", "review", "command", "recording", "context", "block"}
Route(r) == DOMAIN r = {"detail", "review", "codes", "command", "context", "recording", "kind",
                        "wait", "follow", "targets"}

\* A task that may be reopened, and a route that reopens no other.
Spare(f, t) == t \notin f.closed \/ Has(f, {"negative"})
Sparing(f, r) ==
    /\ Route(r)
    /\ r.command.kind = "reopen" => Spare(f, r.command.task)
    /\ r.context.kind = "reopen" => Spare(f, r.context.task)

\* A command to reopen comes with its task.
Aligned(z) ==
    z.command.kind = "reopen" => z.context.kind = "reopen" /\ z.context.task = z.command.task

LEMMA LateStageCommands ==
    ASSUME NEW detail
    PROVE  public_advance_late_stage_command_for_phase_detail(detail).kind
              \in {"none", "advance_late_stage"}
  BY DEF public_advance_late_stage_command_for_phase_detail, NoCommand, Command

LEMMA FollowUpCommands ==
    ASSUME NEW record, NEW detail
    PROVE  public_command_for_required_follow_up(record, detail).kind
              \in {"none", "advance_late_stage", "repair_review_state", "operator"}
  BY LateStageCommands
     DEF public_command_for_required_follow_up, repair_review_state_public_command,
         NoCommand, Command

LEMMA DecisionCommands ==
    ASSUME NEW f, NEW d
    PROVE  LET c == public_command_from_decision(f, d)
           IN  c.kind = "reopen" <=> d.kind = "Reopen" /\ d.task # 0 /\ d.step
  BY LateStageCommands
     DEF public_command_from_decision, StepPublicCommand, repair_review_state_public_command,
         NoCommand, Command

\* Binding the step keeps command and context together.
LEMMA BoundContext ==
    ASSUME NEW f, NEW d
    PROVE  LET z == bind_exact_execution_context(f, d, FromDecision(f, d))
           IN  Finalization(z) /\ Aligned(z)
<1> DEFINE y == FromDecision(f, d)
           c == public_command_from_decision(f, d)
           t == execution_command_route_target_from_decision(f, d)
<1>1. Finalization(y)
  BY DEF FromDecision, Finalization
<1>2. CASE RequiresExactCommand(f, d) /\ t # NoContext
  <2>1. c.kind = "reopen" => t.kind = "reopen" /\ t.task = c.task
    BY DecisionCommands
       DEF execution_command_route_target_from_decision, StepCommands,
           public_command_from_decision, StepPublicCommand, Command
  <2> HIDE DEF c, t, y
  <2> QED
    BY <1>1, <1>2, <2>1 DEF bind_exact_execution_context, Finalization, Aligned, c, t, y
<1>3. CASE ~(RequiresExactCommand(f, d) /\ t # NoContext)
  <2>1. y.command.kind # "reopen"
    <3>1. c.kind = "reopen" => d.kind = "Reopen" /\ d.task # 0 /\ d.step
      BY DecisionCommands
    <3>2. c.kind = "reopen" => t # NoContext
      BY <3>1 DEF execution_command_route_target_from_decision, StepCommands, NoContext
    <3>3. c.kind = "reopen" => RepairReviewStateReentry(d)
      BY <1>3, <3>1, <3>2 DEF RequiresExactCommand
    <3> HIDE DEF c
    <3> QED
      BY <3>3 DEF FromDecision, c, close_current_task_public_command,
                  repair_review_state_public_command, Command
  <2> HIDE DEF y
  <2> QED
    BY <1>1, <1>3, <2>1 DEF bind_exact_execution_context, Aligned, y
<1> QED
  BY <1>2, <1>3

LEMMA BoundRecording ==
    ASSUME NEW f, NEW d, NEW z, Finalization(z), Aligned(z)
    PROVE  Finalization(BindRecording(f, d, z)) /\ Aligned(BindRecording(f, d, z))
<1>1. \A t : LET y == bind_task_closure_recording(z, t) IN Finalization(y) /\ Aligned(y)
  <2> TAKE t
  <2>1. close_current_task_public_command(t).kind # "reopen"
    BY DEF close_current_task_public_command, Command
  <2> QED
    BY <2>1 DEF bind_task_closure_recording, Finalization, Aligned
<1>2. \A c, b : c.kind # "reopen" => LET y == [z EXCEPT !.command = c, !.block = b]
                                     IN  Finalization(y) /\ Aligned(y)
  BY DEF Finalization, Aligned
<1>3. \A c : c.kind # "reopen" => LET y == [z EXCEPT !.command = c]
                                  IN  Finalization(y) /\ Aligned(y)
  BY DEF Finalization, Aligned
<1>4. repair_review_state_public_command.kind # "reopen"
  BY DEF repair_review_state_public_command, Command
<1>5. \A detail : public_advance_late_stage_command_for_phase_detail(detail).kind # "reopen"
  BY LateStageCommands
<1> QED
  BY <1>1, <1>2, <1>3, <1>4, <1>5 DEF BindRecording

LEMMA BoundRefresh ==
    ASSUME NEW f, NEW z, Finalization(z), Aligned(z)
    PROVE  Finalization(BindBranchRefresh(f, z)) /\ Aligned(BindBranchRefresh(f, z))
  BY LateStageCommands DEF BindBranchRefresh, Finalization, Aligned

LEMMA BoundFollowUp ==
    ASSUME NEW f, NEW d, NEW z, Finalization(z), Aligned(z)
    PROVE  Finalization(bind_follow_up_command(f, d, z)) /\ Aligned(bind_follow_up_command(f, d, z))
<1> DEFINE c == public_command_for_required_follow_up(
                    compute_status_blocking_records(f, f.review, "none"), z.detail)
<1>1. c.kind # "reopen"
  BY FollowUpCommands
<1> HIDE DEF c
<1> QED
  BY <1>1 DEF bind_follow_up_command, Finalization, Aligned, c

\* The routes that are made without a decision reopen nothing.
LEMMA OtherRoutes ==
    ASSUME NEW f
    PROVE  /\ \A t : Sparing(f, close_current_task_or_branch_closure_route_decision(f, t))
           /\ \A c : Sparing(f, repair_review_state_route_decision(f, c))
           /\ Sparing(f, branch_closure_recording_route_decision(f))
           /\ Sparing(f, runtime_reconcile_route_decision(f))
           /\ Sparing(f, route_decision_for_unroutable_runtime_state(f))
           /\ Sparing(f, NoRoute)
           /\ \A z : Sparing(f, final_review_dispatch_route_for_repaired_late_stage_drift(f, z))
<1>1. Sparing(f, branch_closure_recording_route_decision(f))
  BY LateStageCommands
     DEF Sparing, Route, branch_closure_recording_route_decision, RouteRecord, NoContext
<1>2. \A t : Sparing(f, close_current_task_route_decision(f, t))
  BY DEF Sparing, Route, close_current_task_route_decision, RouteRecord, NoContext,
         close_current_task_public_command, Command
<1>3. \A t : Sparing(f, close_current_task_or_branch_closure_route_decision(f, t))
  BY <1>1, <1>2 DEF close_current_task_or_branch_closure_route_decision
<1>4. \A c : Sparing(f, repair_review_state_route_decision(f, c))
  BY DEF Sparing, Route, repair_review_state_route_decision, RouteRecord, NoContext,
         repair_review_state_public_command, Command
<1>5. /\ Sparing(f, runtime_reconcile_route_decision(f))
      /\ Sparing(f, route_decision_for_unroutable_runtime_state(f))
      /\ Sparing(f, NoRoute)
  BY DEF Sparing, Route, runtime_reconcile_route_decision, route_decision_for_unroutable_runtime_state,
         NoRoute, RouteRecord, NoContext, NoCommand, Command
<1>6. \A z : Sparing(f, final_review_dispatch_route_for_repaired_late_stage_drift(f, z))
  BY <1>5, LateStageCommands
     DEF Sparing, Route, final_review_dispatch_route_for_repaired_late_stage_drift, RouteRecord,
         NoContext, NoCommand, Command
<1> QED
  BY <1>1, <1>3, <1>4, <1>5, <1>6

\* The stages keep command and context together, and the last one drops a context
\* that would reopen a closed task.
LEMMA ActionRouteSpares ==
    ASSUME NEW f, NEW d
    PROVE  Sparing(f, route_decision_from_next_action_decision(f, d))
<1> DEFINE z1 == bind_exact_execution_context(f, d, FromDecision(f, d))
           z2 == BindRecording(f, d, z1)
           z3 == BindBranchRefresh(f, z2)
           z == bind_follow_up_command(f, d, z3)
<1>1. Finalization(z1) /\ Aligned(z1)
  BY BoundContext
<1> HIDE DEF z1
<1>2. Finalization(z2) /\ Aligned(z2)
  BY <1>1, BoundRecording
<1> HIDE DEF z2
<1>3. Finalization(z3) /\ Aligned(z3)
  BY <1>2, BoundRefresh
<1> HIDE DEF z3
<1>4. Aligned(z)
  BY <1>3, BoundFollowUp
<1> HIDE DEF z
<1>5. ~command_context_reopens_current_task_closure(f, z.context)
      => Sparing(f, RouteFromFinalization(f, d, z))
  BY <1>4 DEF command_context_reopens_current_task_closure, RouteFromFinalization, RouteRecord,
              Sparing, Route, Spare, Aligned
<1>6. Sparing(f, RouteOfFinalization(f, d, z))
  BY <1>5, OtherRoutes DEF RouteOfFinalization, OrRoute
<1> QED
  BY <1>6 DEF route_decision_from_next_action_decision, z, z3, z2, z1

\* The follow-up that is still on record names a task that is not closed.
LEMMA FollowUpSpares ==
    ASSUME NEW f
    PROVE  /\ FollowUp(f) = "execution_reentry" => Spare(f, f.followTask)
           /\ resolve_actionable_repair_follow_up(f) = "execution_reentry" => Spare(f, f.followTask)
  BY DEF FollowUp, resolve_actionable_repair_follow_up, repair_follow_up_exact_target_still_bound,
         Spare

\* Whichever route is chosen spares the closed tasks.
LEMMA CandidateSpares ==
    ASSUME NEW f
    PROVE  Sparing(f, select_route_planning_candidate(f, select_primary_runtime_route_decision(f)))
<1> DEFINE next == route_decision_from_next_action_decision(f, compute_next_action_decision(f))
           bridge == task_closure_baseline_bridge_repair_review_state_route(f)
           persisted == persisted_close_current_task_bridge_task(f)
           primary == select_primary_runtime_route_decision(f)
<1>1. Sparing(f, next)
  BY ActionRouteSpares
<1> HIDE DEF next, bridge, persisted
<1>2. Sparing(f, PrimaryRoute(f, next, bridge, persisted))
  BY <1>1, OtherRoutes DEF PrimaryRoute, OrRoute
<1>3. Sparing(f, primary)
  BY <1>2 DEF select_primary_runtime_route_decision, next, bridge, persisted
<1> HIDE DEF primary
<1>4. resolve_actionable_repair_follow_up(f) = "execution_reentry"
      => Sparing(f, execution_reentry_reopen_route_decision(f, f.followTask))
  BY FollowUpSpares
     DEF Sparing, Route, execution_reentry_reopen_route_decision, RouteRecord, StepPublicCommand, Command
<1>5. Sparing(f, select_route_planning_candidate(f, primary))
  BY <1>3, <1>4, OtherRoutes DEF select_route_planning_candidate
<1> QED
  BY <1>5 DEF primary

-----------------------------------------------------------------------------
\* What has been planned is the route of the facts as they are.
PlannedForFacts == planned # NoRoute => planned = plan_runtime_route(facts)

LEMMA PlannedStays == prSpec => []PlannedForFacts
<1>1. prInit => PlannedForFacts
  BY DEF prInit, PlannedForFacts
<1>2. PlannedForFacts /\ [prNext]_prvars => PlannedForFacts'
  BY DEF PlannedForFacts, prNext, prvars, ChangeFact, PlanRoute, ReadStatus, RunCommand
<1> QED
  BY <1>1, <1>2, PTL DEF prSpec

\* An accepted reopen is of a task that may be reopened.
LEMMA AcceptedReopenSpares ==
    ASSUME NEW f, NEW c, c.kind = "reopen", decide_public_mutation(f, plan_runtime_route(f), c)
    PROVE  Spare(f, c.task)
<1> DEFINE r == select_route_planning_candidate(f, select_primary_runtime_route_decision(f))
           kind == IF targetless_stale_reconcile_for_phase(r.detail, r.codes)
                   THEN "runtime_reconcile_required" ELSE r.kind
           waits == external_wait_state_for_phase_detail(f, r.detail)
           follow == derive_required_follow_up(f, r)
           followed == [r EXCEPT !.kind = kind, !.wait = waits, !.follow = follow]
           targets == public_repair_targets_for_route_decision(f, followed)
           q == [followed EXCEPT !.targets = targets]
           p == plan_runtime_route(f)
<1>1. Sparing(f, r)
  BY CandidateSpares
<1>2. p = normalize_diagnostic_route_decision(q)
  BY DEF plan_runtime_route, finalize_route_decision_for_route_plan
<1> HIDE DEF r, kind, waits, follow
<1>3. Route(followed) /\ followed.command = r.command /\ followed.context = r.context
  BY <1>1 DEF Sparing, Route
<1> HIDE DEF followed
<1>4. Target("reopen", c.task) \in targets => Spare(f, c.task)
  <2>1. Target("reopen", c.task) \in RouteOwnedTargets(followed) => Spare(f, c.task)
    BY <1>1, <1>3 DEF RouteOwnedTargets, Target, Sparing
  <2>2. Target("reopen", c.task) \in public_repair_target_candidates_from_authority(f)
        => Spare(f, c.task)
    BY FollowUpSpares DEF public_repair_target_candidates_from_authority, Target
  <2>3. Target("reopen", c.task) \notin push_route_owned_repair_review_state_target(f, followed)
    BY DEF push_route_owned_repair_review_state_target, Target
  <2> QED
    BY <2>1, <2>2, <2>3 DEF public_repair_targets_for_route_decision
<1> HIDE DEF targets
<1>5. q.targets = targets /\ q.context = r.context /\ Route(q)
  BY <1>3 DEF Route
<1> HIDE DEF q
<1>6. \/ p.targets = targets /\ p.context = r.context
      \/ p.targets = {} /\ p.context = NoContext
  BY <1>2, <1>5 DEF normalize_diagnostic_route_decision, Route
<1>7. \/ p.context = [kind |-> "reopen", task |-> c.task, step |-> TRUE]
      \/ Target("reopen", c.task) \in p.targets
  BY DEF decide_public_mutation, public_repair_target_matches_request, StepCommands
<1> HIDE DEF p
<1> QED
  BY <1>1, <1>4, <1>6, <1>7 DEF Sparing, NoContext

\* A reopen that is accepted spares the closed tasks, for any plan, facts and
\* follow-ups: the route asks whether the step's task is closed
\* (command_context_reopens_current_task_closure), and a follow-up on record counts
\* only while its task is not.
THEOREM ReopenSpares == prSpec => ReopenSparesClosedTasks
<1>1. PlannedForFacts /\ [prNext]_prvars =>
         (RunCommand /\ verdict'.allowed /\ shown.command.kind = "reopen"
            => shown.command.task \notin facts.closed \/ Has(facts, {"negative"}))
  BY AcceptedReopenSpares DEF PlannedForFacts, RunCommand, Spare
<1> QED
  BY <1>1, PlannedStays, PTL DEF ReopenSparesClosedTasks, prSpec

-----------------------------------------------------------------------------
(***************************************************************************)
(* The next action.                                                        *)
(***************************************************************************)
\* The stale state names no task to enter again, or first of all one that could
\* only be closed again.
Targetless(f) ==
    \/ select_actionable_stale_reentry_target(f) = 0
    \/ EarliestBoundary(f).source = "baseline_bridge"

\* What is read of the markers and of the stale target.
Marked(f) == (f.blockStep => f.block # 0) /\ (f.target # 0 => f.drivable)

\* The details of the late stage with the kinds that have a command.
LateDetails(kind) ==
    CASE kind = "AdvanceLateStage" ->
            {"branch_closure_recording_required", "release_readiness_recording_ready",
             "release_blocker_resolution_required", "final_review_recording_ready"}
      [] kind = "RequestFinalReview" -> {"final_review_dispatch_required"}
      [] kind = "RunQa" -> {"qa_recording_required"}
      [] kind = "FinishBranch" -> {"finish_review_gate_ready", "finish_completion_gate_ready"}
      [] OTHER -> {}

StepDetails == {"execution_in_progress", "execution_reentry_required", "execution_preflight_required"}

\* What a decision of each kind comes with.
Decided(f, d) ==
    /\ DOMAIN d = {"kind", "detail", "review", "task", "step", "block", "codes"}
    /\ \/ d.kind \in {"Begin", "Resume"} /\ d.task # 0 /\ d.step = TRUE /\ d.detail \in StepDetails
       \/ /\ d.kind = "Reopen" /\ d.task # 0 /\ d.step = TRUE
          /\ d.detail = "execution_reentry_required"
       \/ /\ d.kind = "CloseCurrentTask" /\ d.task # 0
          /\ \/ d.detail = "task_closure_recording_ready"
             \/ d.step = TRUE /\ f.active # 0 /\ d.detail = "execution_in_progress"
       \/ d.detail \in LateDetails(d.kind)
       \/ /\ d.kind = "WaitForFinalReviewResult" /\ ~f.external
          /\ d.detail = "final_review_outcome_pending"
       \/ d.kind = "RefreshTestPlan" /\ d.detail = "test_plan_refresh_required"
       \/ d.kind = "PlanningReentry" /\ d.detail = "planning_reentry_required"
       \/ d.kind = "Handoff" /\ d.detail = "handoff_recording_required"
       \/ /\ d.kind = "RepairReviewState"
          /\ \/ d.detail = "execution_reentry_required"
             \/ d.detail = "runtime_reconcile_required" /\ Targetless(f)

\* A route gives its turn away or decides.
Passes(f, d) == d = None \/ Decided(f, d)

LEMMA NextRoute ==
    ASSUME NEW f, NEW d, NEW e, Passes(f, d)
    PROVE  /\ Passes(f, e) => Passes(f, OrElse(d, e))
           /\ Decided(f, e) => Decided(f, OrElse(d, e))
  BY DEF Passes, OrElse

LEMMA LateDecisions ==
    ASSUME NEW f, NEW kind, NEW detail
    PROVE  /\ detail \in LateDetails(kind) => Decided(f, late_stage_decision(f, kind, detail))
           /\ ~f.external => Decided(f, late_stage_decision(f, "WaitForFinalReviewResult",
                                                            "final_review_outcome_pending"))
           /\ Decided(f, late_stage_decision(f, "RefreshTestPlan", "test_plan_refresh_required"))
           /\ Decided(f, late_stage_decision(f, "PlanningReentry", "planning_reentry_required"))
           /\ Decided(f, late_stage_decision(f, "AdvanceLateStage", "branch_closure_recording_required"))
  BY DEF late_stage_decision, Decision, Decided, LateDetails

LEMMA PlainDecisions ==
    ASSUME NEW f, NEW review
    PROVE  /\ Decided(f, late_stage_planning_reentry_decision(f, review))
           /\ Decided(f, task_scope_handoff_decision(f, review))
           /\ Targetless(f) => Decided(f, missing_execution_reentry_target_decision(f, review))
           /\ \A t : Decided(f, execution_repair_decision_for_task(f, review, t))
  BY DEF late_stage_planning_reentry_decision, task_scope_handoff_decision,
         missing_execution_reentry_target_decision, execution_repair_decision_for_task,
         Decision, Decided

LEMMA RepairDecided ==
    ASSUME NEW f, NEW review
    PROVE  /\ \A t : (t = 0 => Targetless(f)) => Decided(f, RepairDecisionAt(f, review, t))
           /\ Decided(f, execution_repair_decision(f, review))
           /\ execution_reentry_target(f, FALSE) = 0 => Targetless(f)
           /\ execution_reentry_target(f, TRUE) = 0 => Targetless(f)
<1>1. \A n : execution_reentry_target(f, n) = 0 => Targetless(f)
  BY DEF execution_reentry_target, Or, Targetless
<1>2. Decided(f, Decision("RepairReviewState", "execution_reentry_required", review, 0,
                           FALSE, 0, f.reasons \cup {"execution_target_missing"}))
  BY DEF Decision, Decided
<1>3. \A t : (t = 0 => Targetless(f)) => Decided(f, RepairDecisionAt(f, review, t))
  BY <1>2, PlainDecisions DEF RepairDecisionAt
<1> QED
  BY <1>1, <1>3 DEF execution_repair_decision

LEMMA CloseDecided ==
    ASSUME NEW f, NEW t, t # 0
    PROVE  Decided(f, task_closure_recording_ready_decision(f, t))
<1>1. \A codes : Decided(f, Decision("CloseCurrentTask", "task_closure_recording_ready", "clean",
                                      t, FALSE, t, codes))
  BY DEF Decision, Decided
<1> QED
  BY <1>1, LateDecisions DEF task_closure_recording_ready_decision

\* The step command the markers stand for.
LEMMA MarkedTarget ==
    ASSUME NEW f, Marked(f)
    PROVE  LET r == resolve_execution_command_route_target(f)
           IN  \/ r = NoTarget
               \/ r.kind = "complete" /\ r.task # 0 /\ f.active # 0
               \/ r.kind = "begin" /\ r.task # 0
  BY DEF resolve_execution_command_route_target, Marked, NoTarget

LEMMA StepDecided ==
    ASSUME NEW f, NEW r,
           \/ r.kind = "complete" /\ r.task # 0 /\ f.active # 0
           \/ r.kind = "begin" /\ r.task # 0
    PROVE  Decided(f, decision_from_execution_command_route_target(f, r))
<1>1. \A review, codes, b :
        /\ r.kind = "complete" => Decided(f, Decision("CloseCurrentTask", "execution_in_progress",
                                                       review, r.task, TRUE, b, codes))
        /\ \A kind \in {"Begin", "Resume"}, detail \in StepDetails :
              Decided(f, Decision(kind, detail, review, r.task, TRUE, b, codes))
  BY DEF Decision, Decided
<1>2. r # NoTarget
  BY DEF NoTarget
<1> QED
  BY <1>1, <1>2 DEF decision_from_execution_command_route_target, StepDetails

LEMMA ReentryDecided ==
    ASSUME NEW f, NEW review, NEW t, NEW again, t # 0, Marked(f)
    PROVE  Decided(f, execution_reentry_decision_for_task(f, review, t, again))
<1> DEFINE r == resolve_execution_command_route_target(f)
           d == decision_from_execution_command_route_target(f, r)
<1>1. r.task = t => Decided(f, d)
  BY MarkedTarget, StepDecided DEF NoTarget
<1>2. \A b : Decided(f, d) => Decided(f, [d EXCEPT !.block = b])
  <2> HIDE DEF d
  <2> QED
    BY DEF Decided
<1>3. Decided(f, Decision("Reopen", "execution_reentry_required", review, t, TRUE, t, f.reasons))
  BY DEF Decision, Decided
<1>4. Decided(f, execution_repair_decision_for_task(f, review, t))
  BY PlainDecisions
<1> HIDE DEF r, d
<1> QED
  BY <1>1, <1>2, <1>3, <1>4 DEF execution_reentry_decision_for_task, r, d

LEMMA ReenterDecided ==
    ASSUME NEW f, NEW review, NEW t, NEW d, Marked(f), t = 0 => Passes(f, d)
    PROVE  /\ Passes(f, ReenterOr(f, review, t, d))
           /\ (t = 0 => Decided(f, d)) => Decided(f, ReenterOr(f, review, t, d))
  BY ReentryDecided DEF ReenterOr, Passes

LEMMA NonePasses ==
    ASSUME NEW f, NEW d
    PROVE  Passes(f, None) /\ (Decided(f, d) => Passes(f, d))
  BY DEF Passes

\* The routes ahead of the execution of a step.
LEMMA EarlyRoutes ==
    ASSUME NEW f, NEW review, Marked(f)
    PROVE  /\ Passes(f, missing_authoritative_stale_reentry_target_route(f, review))
           /\ Passes(f, hard_structural_corruption_route(f, review))
           /\ Passes(f, completed_execution_missing_branch_closure_route(f, review))
<1>1. Passes(f, missing_authoritative_stale_reentry_target_route(f, review))
  BY NonePasses, PlainDecisions DEF missing_authoritative_stale_reentry_target_route, Targetless
<1>2. Passes(f, hard_structural_corruption_route(f, review))
  BY NonePasses, ReentryDecided, RepairDecided DEF hard_structural_corruption_route
<1>3. Passes(f, completed_execution_missing_branch_closure_route(f, review))
  BY NonePasses, RepairDecided, LateDecisions DEF completed_execution_missing_branch_closure_route
<1> QED
  BY <1>1, <1>2, <1>3

\* A late stage whose closure is missing, decided from an assessment there is.
LEMMA AssessedDecided ==
    ASSUME NEW f, NEW review, Marked(f),
           f.assessment \in {"supported", "surface_not_declared", "missing_baseline",
                             "missing_baseline_drift", "drift_escapes"}
    PROVE  Decided(f, late_stage_missing_current_closure_decision_from_assessment(f, review))
<1>1. ASSUME NEW bridge, NEW baseline
      PROVE  Decided(f, LateStageDecisionFrom(f, review, execution_reentry_target(f, FALSE),
                                              bridge, baseline))
  <2> DEFINE target == execution_reentry_target(f, FALSE)
             advance == late_stage_decision(f, "AdvanceLateStage", "branch_closure_recording_required")
             repair == RepairDecisionAt(f, review, target)
             planning == late_stage_planning_reentry_decision(f, review)
  <2>1. Decided(f, repair)
    BY RepairDecided
  <2>2. Decided(f, advance) /\ Decided(f, planning)
    BY LateDecisions, PlainDecisions
  <2>3. Decided(f, ReenterOr(f, review, target, repair))
    BY <2>1, NonePasses, ReenterDecided
  <2>4. Decided(f, ReenterOr(f, review, target, planning))
    BY <2>2, NonePasses, ReenterDecided
  <2>5. bridge # 0 => Decided(f, task_closure_recording_ready_decision(f, bridge))
    BY CloseDecided
  <2>6. Candidate(f, baseline) => Decided(f, task_closure_recording_ready_decision(f, baseline))
    BY CloseDecided DEF Candidate, task_closure_baseline_repair_candidate
  <2> HIDE DEF target, advance, repair, planning
  <2>7. Decided(f, LateStageDecisionFrom(f, review, target, bridge, baseline))
    BY <2>1, <2>2, <2>3, <2>4, <2>5, <2>6
       DEF LateStageDecisionFrom, repair, advance, planning
  <2> QED
    BY <2>7 DEF target
<1> QED
  BY <1>1, RepairDecided DEF late_stage_missing_current_closure_decision_from_assessment

\* Every assessment there is, or none.
Assessed(f) ==
    f.assessment \in {"none", "supported", "surface_not_declared", "missing_baseline",
                      "missing_baseline_drift", "drift_escapes"}

\* The routes of the step under way and of the stale state.
LEMMA StepRoutes ==
    ASSUME NEW f, NEW review, Marked(f), Assessed(f)
    PROVE  /\ Passes(f, branch_rerecording_route(f, review))
           /\ Passes(f, open_step_route(f, review))
           /\ Passes(f, stale_boundary_route(f, review))
<1>1. Passes(f, branch_rerecording_route(f, review))
  BY NonePasses, AssessedDecided DEF branch_rerecording_route, Assessed
<1>2. Passes(f, open_step_route(f, review))
  <2> DEFINE r == resolve_execution_command_route_target_for_next_action(f)
             d == decision_from_execution_command_route_target(f, r)
  <2>1. Passes(f, d)
    <3>1. \/ r = NoTarget
          \/ r.kind = "complete" /\ r.task # 0 /\ f.active # 0
          \/ r.kind = "begin" /\ r.task # 0
      BY MarkedTarget DEF resolve_execution_command_route_target_for_next_action
    <3>2. r = NoTarget => d = None
      BY DEF decision_from_execution_command_route_target
    <3> HIDE DEF r
    <3> QED
      BY <3>1, <3>2, StepDecided, NonePasses
  <2>2. select_actionable_stale_reentry_target(f) = 0
        => Decided(f, missing_execution_reentry_target_decision(f, review))
    BY PlainDecisions DEF Targetless
  <2>3. Decided(f, execution_repair_decision(f, review))
    BY RepairDecided
  <2> HIDE DEF d
  <2> QED
    BY <2>1, <2>2, <2>3, NonePasses DEF open_step_route, d
<1>3. Passes(f, stale_boundary_route(f, review))
  BY NonePasses, CloseDecided, PlainDecisions, ReentryDecided DEF stale_boundary_route, Targetless
<1> QED
  BY <1>1, <1>2, <1>3

\* The routes that record closures.
LEMMA ClosureRoutes ==
    ASSUME NEW f, NEW review, Marked(f)
    PROVE  Passes(f, closure_prerequisite_route(f, review))
<1> DEFINE t == execution_reentry_blocking_task(f)
           n == late_stage_negative_result_reroute(f, review)
           bridge == ClosureBridgeTask(f, review)
<1>1. Passes(f, late_stage_execution_reentry_decision(f, review))
  <2>1. execution_reentry_target(f, n) = 0 => Targetless(f)
    BY DEF execution_reentry_target, Or, Targetless
  <2> QED
    BY <2>1, NonePasses, ReentryDecided, PlainDecisions DEF late_stage_execution_reentry_decision
<1>2. Decided(f, execution_repair_decision(f, review))
  BY RepairDecided
<1>3. bridge # 0 => Decided(f, task_closure_recording_ready_decision(f, bridge))
  BY CloseDecided
<1>4. Passes(f, ReenterOr(f, review, t, None))
  BY NonePasses, ReenterDecided
<1> HIDE DEF t, n, bridge
<1>5. Passes(f, IF set_has_non_branch_contributing_closure_without_branch(f)
                THEN execution_repair_decision(f, review)
                ELSE IF bridge # 0 THEN task_closure_recording_ready_decision(f, bridge)
                ELSE ReenterOr(f, review, t, None))
  BY <1>2, <1>3, <1>4, NonePasses
<1> QED
  BY <1>1, <1>2, <1>5, NonePasses, NextRoute DEF closure_prerequisite_route, t, bridge

\* The routes of the late stages.
LEMMA LateStageRoutes ==
    ASSUME NEW f, NEW review, Marked(f), Assessed(f)
    PROVE  Passes(f, late_stage_milestone_route(f, review))
<1>1. Passes(f, missing_current_closure_late_stage_route(f, review))
  <2> DEFINE early == f.phase # "document_release_pending"
             d == IF (early /\ Has(f, RepairReasons)) \/ f.assessment = "none"
                  THEN execution_repair_decision(f, review)
                  ELSE late_stage_missing_current_closure_decision_from_assessment(f, review)
  <2>1. Decided(f, d)
    BY RepairDecided, AssessedDecided DEF Assessed
  <2> HIDE DEF d
  <2>2. \A t : Passes(f, ReenterOr(f, review, t, d))
    BY <2>1, NonePasses, ReenterDecided
  <2> QED
    BY <2>2, NonePasses, LateDecisions DEF missing_current_closure_late_stage_route, d
<1>2. Passes(f, stale_late_stage_repair_decision(f))
  <2> DEFINE marked(d) == [d EXCEPT !.codes = @ \cup {"stale_unreviewed"}]
             t == execution_reentry_target(f, FALSE)
  <2>1. \A d : Decided(f, d) => Decided(f, marked(d))
    BY DEF Decided
  <2>2. Decided(f, StaleLateStageRepairAt(f, t))
    <3>1. t # 0 => Decided(f, execution_reentry_decision_for_task(f, "stale_unreviewed", t, FALSE))
      BY ReentryDecided
    <3>2. Decided(f, execution_repair_decision_for_task(f, "stale_unreviewed", t))
      BY PlainDecisions
    <3>3. Decided(f, Decision("RepairReviewState", "execution_reentry_required",
                              "stale_unreviewed", 0, FALSE, 0, f.reasons))
      BY DEF Decided, Decision
    <3>4. t = 0 => Decided(f, missing_execution_reentry_target_decision(f, "stale_unreviewed"))
      BY RepairDecided, PlainDecisions
    <3> HIDE DEF t
    <3> QED
      BY <2>1, <3>1, <3>2, <3>3, <3>4 DEF StaleLateStageRepairAt
  <2> QED
    BY <2>2, AssessedDecided, NonePasses DEF stale_late_stage_repair_decision
<1>3. Passes(f, select_late_stage_public_route(f))
  <2>1. Decided(f, FinalReviewRoute(f))
    BY LateDecisions DEF FinalReviewRoute, LateDetails
  <2> QED
    BY <2>1, LateDecisions, NonePasses
       DEF select_late_stage_public_route, document_release_pending_route_phase_detail, LateDetails
<1>4. Passes(f, OrElse(missing_current_closure_late_stage_route(f, review),
                       IF review = "stale_unreviewed" THEN stale_late_stage_repair_decision(f)
                       ELSE select_late_stage_public_route(f)))
  BY <1>1, <1>2, <1>3, NextRoute
<1> QED
  BY <1>4, NonePasses, PlainDecisions, LateDecisions DEF late_stage_milestone_route

\* The first of some tasks is one of them.
LEMMA FirstTask ==
    ASSUME NEW S \in SUBSET TaskNos, S # {}
    PROVE  Min(S) # 0
<1>1. S \subseteq Nat /\ 0 \notin S
  BY TasksAssumption
<1>2. PICK n \in S : \A m \in S : n <= m
  BY <1>1, LeastNat
<1>3. Min(S) \in S
  BY <1>2 DEF Min
<1> QED
  BY <1>1, <1>3

\* The last route: the first task that is neither finished nor closed.
LEMMA UncheckedRoute ==
    ASSUME NEW f, NEW review
    PROVE  Passes(f, first_unchecked_step_route(f, review))
<1> DEFINE open == {t \in TaskNos : ~AllChecked(f, t) /\ t \notin f.closed}
           t == Min(open)
<1>1. open # {} => t # 0
  BY FirstTask
<1>2. \A detail \in StepDetails : \A b : t # 0 =>
        Decided(f, Decision("Begin", detail, review, t, TRUE, b, f.reasons))
  <2> HIDE DEF t
  <2> QED
    BY DEF Decided, Decision
<1>3. Decided(f, execution_repair_decision_for_task(f, review, t))
  BY PlainDecisions
<1> HIDE DEF t
<1> QED
  BY <1>1, <1>2, <1>3, NonePasses DEF first_unchecked_step_route, StepDetails, t

\* There is always a next action.
LEMMA ActionDecided ==
    ASSUME NEW f, Marked(f), Assessed(f)
    PROVE  Decided(f, compute_next_action_decision(f))
<1> DEFINE review == canonical_review_state_status(f)
           d10 == late_stage_decision(f, "PlanningReentry", "planning_reentry_required")
           d9 == OrElse(first_unchecked_step_route(f, review), d10)
           d8 == OrElse(late_stage_milestone_route(f, review), d9)
           d7 == OrElse(closure_prerequisite_route(f, review), d8)
           d6 == OrElse(stale_boundary_route(f, review), d7)
           d5 == OrElse(open_step_route(f, review), d6)
           d4 == OrElse(branch_rerecording_route(f, review), d5)
           d3 == OrElse(completed_execution_missing_branch_closure_route(f, review), d4)
           d2 == OrElse(hard_structural_corruption_route(f, review), d3)
           d1 == OrElse(missing_authoritative_stale_reentry_target_route(f, review), d2)
<1>1. Decided(f, d10)
  BY LateDecisions
<1> HIDE DEF review, d10
<1>2. Decided(f, d9)
  BY <1>1, UncheckedRoute, NextRoute
<1> HIDE DEF d9
<1>3. Decided(f, d8)
  BY <1>2, LateStageRoutes, NextRoute
<1> HIDE DEF d8
<1>4. Decided(f, d7)
  BY <1>3, ClosureRoutes, NextRoute
<1> HIDE DEF d7
<1>5. Decided(f, d6)
  BY <1>4, StepRoutes, NextRoute
<1> HIDE DEF d6
<1>6. Decided(f, d5)
  BY <1>5, StepRoutes, NextRoute
<1> HIDE DEF d5
<1>7. Decided(f, d4)
  BY <1>6, StepRoutes, NextRoute
<1> HIDE DEF d4
<1>8. Decided(f, d3)
  BY <1>7, EarlyRoutes, NextRoute
<1> HIDE DEF d3
<1>9. Decided(f, d2)
  BY <1>8, EarlyRoutes, NextRoute
<1> HIDE DEF d2
<1>10. Decided(f, d1)
  BY <1>9, EarlyRoutes, NextRoute
<1> QED
  BY <1>10 DEF compute_next_action_decision, d1, d2, d3, d4, d5, d6, d7, d8, d9, d10, review

-----------------------------------------------------------------------------
(***************************************************************************)
(* The route of the next action.                                           *)
(***************************************************************************)
\* What is shown when there is nothing to run.
Stops(f, detail) ==
    \/ detail \in {"planning_reentry_required", "test_plan_refresh_required"}
    \/ detail = "final_review_outcome_pending" /\ ~f.external
    \/ detail = "runtime_reconcile_required"

\* A command is one that its detail and its context make acceptable.
Leads(f, detail, c, x) ==
    /\ detail = "runtime_reconcile_required" => Targetless(f)
    /\ \/ /\ detail \notin {"blocked_runtime_bug", "final_review_outcome_pending"}
          /\ \/ /\ c.kind \in StepCommands /\ c.task # 0
                /\ c.fingerprint = ExecutionFingerprint(f)
                /\ x = [kind |-> c.kind, task |-> c.task, step |-> TRUE]
             \/ c.kind \in {"close_current_task", "repair_review_state", "transfer"}
             \/ /\ c.kind = "advance_late_stage"
                /\ public_advance_late_stage_mode_for_phase_detail(detail) \in {"none", c.mode}
       \/ c = NoCommand /\ Stops(f, detail)

Ready(f, z) == Finalization(z) /\ Leads(f, z.detail, z.command, z.context)

LEMMA PlainCommands ==
    ASSUME NEW f, NEW detail, NEW x, NEW t,
           detail \notin {"blocked_runtime_bug", "final_review_outcome_pending",
                          "runtime_reconcile_required"}
    PROVE  /\ Leads(f, detail, close_current_task_public_command(t), x)
           /\ Leads(f, detail, repair_review_state_public_command, x)
           /\ public_advance_late_stage_mode_for_phase_detail(detail) # "none" =>
                 Leads(f, detail, public_advance_late_stage_command_for_phase_detail(detail), x)
  BY DEF Leads, close_current_task_public_command, repair_review_state_public_command,
         public_advance_late_stage_command_for_phase_detail, Command

LEMMA RefreshCommand ==
    ASSUME NEW f, NEW x, NEW detail,
           detail \in {"task_closure_recording_ready", "branch_closure_recording_required"}
    PROVE  Leads(f, detail, public_advance_late_stage_command_for_phase_detail(
                                "branch_closure_recording_required"), x)
<1>1. public_advance_late_stage_command_for_phase_detail("branch_closure_recording_required")
         = Command("advance_late_stage", 0, "basic", <<>>)
  BY DEF public_advance_late_stage_command_for_phase_detail,
         public_advance_late_stage_mode_for_phase_detail
<1>2. public_advance_late_stage_mode_for_phase_detail(detail) \in {"none", "basic"}
  BY DEF public_advance_late_stage_mode_for_phase_detail
<1> QED
  BY <1>1, <1>2 DEF Leads, Command

\* A step command is bound to its step.
LEMMA StepBound ==
    ASSUME NEW f, NEW d, d.task # 0, d.step = TRUE,
           \/ d.kind \in {"Begin", "Resume", "Reopen"}
           \/ d.kind = "CloseCurrentTask" /\ f.active # 0,
           d.detail \in StepDetails
    PROVE  LET t == execution_command_route_target_from_decision(f, d)
               c == public_command_from_decision(f, d)
           IN  t # NoContext /\ Leads(f, d.detail, c, t)
<1> DEFINE c == public_command_from_decision(f, d)
           t == execution_command_route_target_from_decision(f, d)
<1>1. \E k \in StepCommands : c = StepPublicCommand(f, k, d.task)
  BY DEF public_command_from_decision, StepCommands
<1>2. c.kind \in StepCommands /\ c.task = d.task /\ c.fingerprint = ExecutionFingerprint(f)
  BY <1>1 DEF StepPublicCommand, Command
<1>3. t = [kind |-> c.kind, task |-> c.task, step |-> TRUE]
  BY <1>2 DEF execution_command_route_target_from_decision
<1>4. t # NoContext
  BY <1>2, <1>3 DEF NoContext
<1>5. d.detail \notin {"blocked_runtime_bug", "final_review_outcome_pending",
                       "runtime_reconcile_required"}
  BY DEF StepDetails
<1> HIDE DEF c, t
<1>6. t # NoContext /\ Leads(f, d.detail, c, t)
  BY <1>2, <1>3, <1>4, <1>5 DEF Leads
<1> QED
  BY <1>6 DEF c, t

\* Decisions that need no step.
LEMMA StepNotNeeded ==
    ASSUME NEW f, NEW d, NEW x, Decided(f, d), ~RequiresExactCommand(f, d),
           d.detail # "task_closure_recording_ready"
    PROVE  Leads(f, d.detail, IF RepairReviewStateReentry(d) THEN repair_review_state_public_command
                              ELSE public_command_from_decision(f, d), x)
<1> DEFINE c == public_command_from_decision(f, d)
<1>1. CASE d.kind = "Reopen"
  <2>1. RepairReviewStateReentry(d) /\ d.detail = "execution_reentry_required"
    BY <1>1 DEF RequiresExactCommand, Decided, LateDetails
  <2> QED
    BY <2>1, PlainCommands
<1>2. CASE d.kind # "Reopen"
  <2>1. ~RepairReviewStateReentry(d)
    BY <1>2 DEF RepairReviewStateReentry
  <2>2. CASE d.detail \in LateDetails(d.kind)
    <3>1. c = public_advance_late_stage_command_for_phase_detail(d.detail)
      BY <2>2 DEF LateDetails, public_command_from_decision
    <3>2. /\ public_advance_late_stage_mode_for_phase_detail(d.detail) # "none"
          /\ d.detail \notin {"blocked_runtime_bug", "final_review_outcome_pending",
                              "runtime_reconcile_required"}
      BY <2>2 DEF LateDetails, public_advance_late_stage_mode_for_phase_detail
    <3> QED
      BY <2>1, <3>1, <3>2, PlainCommands
  <2>3. CASE d.kind \in {"WaitForFinalReviewResult", "RefreshTestPlan", "PlanningReentry"}
             /\ d.detail \notin LateDetails(d.kind)
    <3>1. c = NoCommand
      BY <2>3 DEF public_command_from_decision
    <3>2. Stops(f, d.detail) /\ d.detail # "runtime_reconcile_required"
      BY <2>3 DEF Decided, Stops
    <3> QED
      BY <2>1, <3>1, <3>2 DEF Leads
  <2>4. CASE d.kind = "Handoff" /\ d.detail \notin LateDetails(d.kind)
    <3>1. c.kind = "transfer"
      BY <2>4 DEF public_command_from_decision, Command
    <3>2. d.detail = "handoff_recording_required"
      BY <2>4 DEF Decided
    <3> HIDE DEF c
    <3> QED
      BY <2>1, <3>1, <3>2 DEF Leads, c
  <2>5. CASE d.kind = "RepairReviewState" /\ d.detail \notin LateDetails(d.kind)
    <3>1. c.kind = "repair_review_state"
      BY <2>5 DEF public_command_from_decision, repair_review_state_public_command, Command
    <3>2. \/ d.detail = "execution_reentry_required"
          \/ d.detail = "runtime_reconcile_required" /\ Targetless(f)
      BY <2>5 DEF Decided
    <3> HIDE DEF c
    <3> QED
      BY <2>1, <3>1, <3>2 DEF Leads, c
  <2> QED
    BY <1>2, <2>2, <2>3, <2>4, <2>5 DEF Decided, RequiresExactCommand
<1> QED
  BY <1>1, <1>2

\* A decision with its step and what it records bound to it is ready.
LEMMA RecordingReady ==
    ASSUME NEW f, NEW d, Decided(f, d)
    PROVE  Ready(f, BindRecording(f, d, bind_exact_execution_context(f, d, FromDecision(f, d))))
<1> DEFINE y == FromDecision(f, d)
           z == bind_exact_execution_context(f, d, y)
           bridge == ReentryBridge(f, d)
           c == public_command_from_decision(f, d)
           t == execution_command_route_target_from_decision(f, d)
           u == Or(d.task, f.block)
<1>1. Finalization(z) /\ z.detail = y.detail
  BY DEF FromDecision, Finalization, bind_exact_execution_context
<1>2. y.detail = IF bridge # 0 THEN "task_closure_recording_ready" ELSE d.detail
  BY DEF FromDecision
<1>3. bridge # 0 => f.block # 0
  BY DEF ReentryBridge, task_closure_baseline_bridge_route_task
<1>4. CASE y.detail = "task_closure_recording_ready"
  <2>1. u # 0
    <3>1. bridge # 0 \/ (d.kind = "CloseCurrentTask" /\ d.task # 0)
      BY <1>2, <1>4 DEF Decided, LateDetails, StepDetails
    <3> QED
      BY <1>3, <3>1 DEF Or
  <2>3. \A b, v :
          LET w == [z EXCEPT !.command = v, !.block = b]
          IN  Finalization(w) /\ w.detail = z.detail /\ w.command = v
    BY <1>1 DEF Finalization
  <2>4. \A x : /\ Leads(f, "task_closure_recording_ready", close_current_task_public_command(u), x)
               /\ Leads(f, "task_closure_recording_ready", repair_review_state_public_command, x)
               /\ Leads(f, "task_closure_recording_ready",
                        public_advance_late_stage_command_for_phase_detail(
                            "branch_closure_recording_required"), x)
    BY PlainCommands, RefreshCommand
  <2>5. z.detail = "task_closure_recording_ready"
    BY <1>1, <1>4
  <2> HIDE DEF z, u
  <2>6. Ready(f, bind_task_closure_recording(z, u))
    <3> DEFINE w == bind_task_closure_recording(z, u)
    <3>1. /\ Finalization(w) /\ w.detail = z.detail
          /\ w.command = close_current_task_public_command(u)
      BY <1>1 DEF bind_task_closure_recording, Finalization
    <3> HIDE DEF w
    <3>2. Ready(f, w)
      BY <2>4, <2>5, <3>1 DEF Ready
    <3> QED
      BY <3>2 DEF w
  <2>7. Ready(f, [z EXCEPT !.command = public_advance_late_stage_command_for_phase_detail(
                                          "branch_closure_recording_required"), !.block = u])
    BY <2>3, <2>4, <2>5 DEF Ready
  <2>8. Ready(f, [z EXCEPT !.command = repair_review_state_public_command, !.block = u])
    BY <2>3, <2>4, <2>5 DEF Ready
  <2>9. Ready(f, BindRecording(f, d, z))
    BY <2>1, <2>5, <2>6, <2>7, <2>8 DEF BindRecording, u
  <2> QED
    BY <2>9 DEF z
<1>5. CASE y.detail # "task_closure_recording_ready"
  <2>1. bridge = 0 /\ y.detail = d.detail
    BY <1>2, <1>5
  <2>2. y.context = NoContext
        /\ y.command = (IF RepairReviewStateReentry(d) THEN repair_review_state_public_command ELSE c)
    BY <2>1 DEF FromDecision
  <2>3. CASE RequiresExactCommand(f, d)
    <3>1. /\ d.task # 0 /\ d.step = TRUE /\ d.detail \in StepDetails
          /\ \/ d.kind \in {"Begin", "Resume", "Reopen"}
             \/ d.kind = "CloseCurrentTask" /\ f.active # 0
      BY <1>5, <2>1, <2>3 DEF RequiresExactCommand, Decided, LateDetails, StepDetails
    <3>2. t # NoContext /\ Leads(f, d.detail, c, t)
      BY <3>1, StepBound
    <3>3. z.command = c /\ z.context = t
      <4> HIDE DEF c, t
      <4>1. z = [y EXCEPT !.context = t, !.command = c,
                          !.block = IF d.kind = "Reopen" THEN t.task ELSE @]
        BY <2>3, <3>2 DEF bind_exact_execution_context, c, t
      <4>2. Finalization(y)
        BY DEF FromDecision, Finalization
      <4> HIDE DEF y, z
      <4> QED
        BY <4>1, <4>2 DEF Finalization
    <3>4. z.detail \notin {"final_review_recording_ready", "task_closure_recording_ready"}
      BY <1>1, <2>1, <3>1 DEF StepDetails
    <3> HIDE DEF z, c, t
    <3>5. Ready(f, z)
      BY <1>1, <2>1, <3>2, <3>3 DEF Ready
    <3>6. BindRecording(f, d, z) = z
      BY <3>4 DEF BindRecording
    <3> QED
      BY <3>5, <3>6 DEF z
  <2>4. CASE ~RequiresExactCommand(f, d)
    <3>1. z = y
      BY <2>4 DEF bind_exact_execution_context
    <3>2. Leads(f, d.detail, y.command, NoContext)
      BY <1>5, <2>1, <2>2, <2>4, StepNotNeeded
    <3>3. Ready(f, z)
      <4> HIDE DEF y, z
      <4> QED
        BY <1>1, <2>1, <2>2, <3>1, <3>2 DEF Ready
    <3>4. CASE z.detail = "final_review_recording_ready"
      <4>1. public_advance_late_stage_mode_for_phase_detail(z.detail) # "none"
        BY <3>4 DEF public_advance_late_stage_mode_for_phase_detail
      <4>2. \A v : LET w == [z EXCEPT !.command = v]
                   IN  Finalization(w) /\ w.detail = z.detail /\ w.command = v /\ w.context = z.context
        BY <1>1 DEF Finalization
      <4> HIDE DEF z
      <4>3. \A x : Leads(f, z.detail, public_advance_late_stage_command_for_phase_detail(z.detail), x)
        BY <3>4, <4>1, PlainCommands
      <4>4. Ready(f, [z EXCEPT !.command =
                         public_advance_late_stage_command_for_phase_detail(z.detail)])
        BY <4>2, <4>3 DEF Ready
      <4>5. Ready(f, BindRecording(f, d, z))
        BY <3>4, <4>4 DEF BindRecording
      <4> QED
        BY <4>5 DEF z
    <3>5. CASE z.detail # "final_review_recording_ready"
      <4>1. z.detail # "task_closure_recording_ready"
        BY <1>1, <1>5
      <4> HIDE DEF z
      <4>2. BindRecording(f, d, z) = z
        BY <3>5, <4>1 DEF BindRecording
      <4> QED
        BY <3>3, <4>2 DEF z
    <3> QED
      BY <3>4, <3>5
  <2> QED
    BY <2>3, <2>4
<1> QED
  BY <1>4, <1>5

\* A route that can be shown: its command is acceptable, and it is no bug.
Showable(f, r) ==
    /\ Route(r) /\ Leads(f, r.detail, r.command, r.context)
    /\ r.command # NoCommand => r.kind = "actionable_public_command"
    /\ r.kind # "blocked_runtime_bug"
    /\ r.kind = "runtime_reconcile_required" => r.detail = "runtime_reconcile_required"

\* Neither the refresh of a branch closure nor a follow-up changes that.
LEMMA BoundReady ==
    ASSUME NEW f, NEW d, NEW z, Ready(f, z)
    PROVE  Ready(f, bind_follow_up_command(f, d, BindBranchRefresh(f, z)))
<1> DEFINE y == BindBranchRefresh(f, z)
<1>1. Ready(f, y)
  <2>1. CASE y = z
    BY <2>1
  <2>2. CASE y # z
    <3> DEFINE w == [z EXCEPT !.detail = "branch_closure_recording_required", !.recording = 0,
                     !.context = NoContext, !.block = 0,
                     !.command = public_advance_late_stage_command_for_phase_detail(
                                     "branch_closure_recording_required")]
    <3>1. y = w
      BY <2>2 DEF BindBranchRefresh
    <3>2. /\ Finalization(w) /\ w.detail = "branch_closure_recording_required"
          /\ w.command = public_advance_late_stage_command_for_phase_detail(
                             "branch_closure_recording_required")
      BY DEF Ready, Finalization
    <3> HIDE DEF y, w
    <3> QED
      BY <3>1, <3>2, RefreshCommand DEF Ready
  <2> QED
    BY <2>1, <2>2
<1> HIDE DEF y
<1>2. y.command # NoCommand \/ y.detail \in OmittedDetails
  <2>1. y.command # NoCommand \/ Stops(f, y.detail)
    BY <1>1 DEF Ready, Leads, NoCommand, Command, StepCommands
  <2> QED
    BY <2>1 DEF Stops, OmittedDetails
<1>3. bind_follow_up_command(f, d, y) = y
  BY <1>2 DEF bind_follow_up_command
<1> QED
  BY <1>1, <1>3 DEF y

\* The routes that are made without a decision.
LEMMA OtherRoutesShowable ==
    ASSUME NEW f
    PROVE  /\ \A t : Showable(f, close_current_task_or_branch_closure_route_decision(f, t))
           /\ \A c : Showable(f, repair_review_state_route_decision(f, c))
           /\ Showable(f, branch_closure_recording_route_decision(f))
           /\ Targetless(f) => Showable(f, runtime_reconcile_route_decision(f))
           /\ \A z : LET r == final_review_dispatch_route_for_repaired_late_stage_drift(f, z)
                     IN  r = NoRoute \/ Showable(f, r)
<1> DEFINE advance(detail) == public_advance_late_stage_command_for_phase_detail(detail)
           actionable == "actionable_public_command"
<1>1. ASSUME NEW detail, NEW review, NEW codes, NEW c, NEW x, NEW t,
             Leads(f, detail, c, x)
      PROVE  Showable(f, RouteRecord(detail, review, codes, c, x, t, actionable))
  BY <1>1 DEF Showable, Route, RouteRecord
<1>2. Showable(f, branch_closure_recording_route_decision(f))
  <2>1. Leads(f, "branch_closure_recording_required", advance("branch_closure_recording_required"),
              NoContext)
    BY RefreshCommand
  <2> HIDE DEF advance
  <2> QED
    BY <1>1, <2>1 DEF branch_closure_recording_route_decision, advance
<1>3. \A t : Showable(f, close_current_task_route_decision(f, t))
  <2> TAKE t
  <2>1. Leads(f, "task_closure_recording_ready", close_current_task_public_command(t), NoContext)
    BY PlainCommands
  <2> QED
    BY <1>1, <2>1 DEF close_current_task_route_decision
<1>4. \A t : Showable(f, close_current_task_or_branch_closure_route_decision(f, t))
  BY <1>2, <1>3 DEF close_current_task_or_branch_closure_route_decision
<1>5. \A c : Showable(f, repair_review_state_route_decision(f, c))
  <2>1. Leads(f, "execution_reentry_required", repair_review_state_public_command, NoContext)
    BY PlainCommands
  <2> QED
    BY <1>1, <2>1 DEF repair_review_state_route_decision
<1>6. Targetless(f) => Showable(f, runtime_reconcile_route_decision(f))
  BY DEF runtime_reconcile_route_decision, Showable, Route, RouteRecord, Leads, Stops
<1>7. ASSUME NEW z
      PROVE  LET r == final_review_dispatch_route_for_repaired_late_stage_drift(f, z)
             IN  r = NoRoute \/ Showable(f, r)
  <2> DEFINE r == final_review_dispatch_route_for_repaired_late_stage_drift(f, z)
  <2>1. \A detail \in {"final_review_dispatch_required", "final_review_recording_ready"} :
           Leads(f, detail, advance(detail), NoContext)
    <3>1. \A detail \in {"final_review_dispatch_required", "final_review_recording_ready"} :
             public_advance_late_stage_mode_for_phase_detail(detail) # "none"
      BY DEF public_advance_late_stage_mode_for_phase_detail
    <3> QED
      BY <3>1, PlainCommands
  <2>2. ~f.external => Showable(f, RouteRecord("final_review_outcome_pending", "clean", {},
                               NoCommand, NoContext, 0, "waiting_external_input"))
    BY DEF Showable, Route, RouteRecord, Leads, Stops
  <2>3. \A detail \in {"final_review_dispatch_required", "final_review_recording_ready"} :
           Showable(f, RouteRecord(detail, "clean", {}, advance(detail), NoContext, 0, actionable))
    <3> HIDE DEF advance, actionable
    <3> QED
      BY <1>1, <2>1
  <2>4. \/ r = NoRoute
        \/ \E detail \in {"final_review_dispatch_required", "final_review_recording_ready"} :
              r = RouteRecord(detail, "clean", {}, advance(detail), NoContext, 0, actionable)
        \/ ~f.external /\ r = RouteRecord("final_review_outcome_pending", "clean", {},
                                          NoCommand, NoContext, 0, "waiting_external_input")
    BY DEF final_review_dispatch_route_for_repaired_late_stage_drift
  <2> HIDE DEF r, advance, actionable
  <2>5. r = NoRoute \/ Showable(f, r)
    BY <2>2, <2>3, <2>4
  <2> QED
    BY <2>5 DEF r
<1> QED
  BY <1>2, <1>4, <1>5, <1>6, <1>7

\* A route of an action is one that can be shown; there is one for every action.
LEMMA ActionRouteShowable ==
    ASSUME NEW f, NEW d, Decided(f, d)
    PROVE  Showable(f, route_decision_from_next_action_decision(f, d))
<1> DEFINE z1 == BindRecording(f, d, bind_exact_execution_context(f, d, FromDecision(f, d)))
           z == bind_follow_up_command(f, d, BindBranchRefresh(f, z1))
<1>1. Ready(f, z1)
  BY RecordingReady
<1> HIDE DEF z1
<1>2. Ready(f, z)
  BY <1>1, BoundReady
<1> HIDE DEF z
<1>3. Showable(f, RouteFromFinalization(f, d, z))
  <2> DEFINE waits == external_wait_state_for_phase_detail(f, z.detail)
             kind == classify_state_kind(waits, f.phase = "ready_for_branch_completion",
                                         z.detail, z.command)
  <2>1. waits => z.command = NoCommand
    BY <1>2 DEF Ready, Leads, external_wait_state_for_phase_detail
  <2>2. z.command # NoCommand => kind = "actionable_public_command"
    BY <2>1 DEF classify_state_kind
  <2>3. z.command = NoCommand => Stops(f, z.detail)
    BY <1>2 DEF Ready, Leads, NoCommand, Command, StepCommands
  <2>4. Stops(f, z.detail) => z.detail \in OmittedDetails \ {"blocked_runtime_bug"}
    BY DEF Stops, OmittedDetails
  <2>5. z.command = NoCommand =>
           /\ kind # "blocked_runtime_bug"
           /\ kind = "runtime_reconcile_required" => z.detail = "runtime_reconcile_required"
    BY <2>3, <2>4 DEF classify_state_kind
  <2> HIDE DEF kind, waits
  <2>6. LET r == RouteFromFinalization(f, d, z)
        IN  /\ Route(r) /\ r.detail = z.detail /\ r.command = z.command /\ r.context = z.context
            /\ r.kind = kind
    BY DEF RouteFromFinalization, RouteRecord, Route, kind, waits
  <2> QED
    BY <1>2, <2>2, <2>5, <2>6 DEF Showable, Ready
<1>4. RequiresExactCommand(f, d) => execution_command_route_target_from_decision(f, d) # NoContext
  <2> DEFINE c == public_command_from_decision(f, d)
  <2>1. RequiresExactCommand(f, d) => d.task # 0 /\ (d.kind # "CloseCurrentTask" => d.step)
    BY DEF RequiresExactCommand, Decided, LateDetails
  <2>2. RequiresExactCommand(f, d) => c.kind \in StepCommands
    BY <2>1 DEF RequiresExactCommand, public_command_from_decision, StepCommands,
                StepPublicCommand, Command
  <2> HIDE DEF c
  <2> QED
    BY <2>2 DEF execution_command_route_target_from_decision, NoContext, StepCommands, c
<1>5. Showable(f, RouteOfFinalization(f, d, z))
  BY <1>3, <1>4, OtherRoutesShowable DEF RouteOfFinalization, OrRoute
<1> QED
  BY <1>5 DEF route_decision_from_next_action_decision, z, z1

\* Whichever route is chosen can be shown.
LEMMA CandidateShowable ==
    ASSUME NEW f, Consistent(f), Assessed(f)
    PROVE  Showable(f, select_route_planning_candidate(f, select_primary_runtime_route_decision(f)))
<1> DEFINE next == route_decision_from_next_action_decision(f, compute_next_action_decision(f))
           bridge == task_closure_baseline_bridge_repair_review_state_route(f)
           persisted == persisted_close_current_task_bridge_task(f)
           primary == select_primary_runtime_route_decision(f)
<1>1. Marked(f)
  BY DEF Consistent, Marked
<1>2. Showable(f, next)
  BY <1>1, ActionDecided, ActionRouteShowable
<1>3. next # NoRoute
  BY <1>2 DEF Showable, Leads, Stops, NoRoute, RouteRecord, NoCommand, Command, StepCommands
<1> HIDE DEF next, bridge, persisted
<1>4. targetless_stale_reconcile_required(f) => Targetless(f)
  BY <1>1 DEF targetless_stale_reconcile_required, ConcreteStaleTarget, Targetless, Marked,
              select_actionable_stale_reentry_target
<1>5. targetless_stale_lacks_concrete_public_target(f) => Targetless(f)
  BY DEF targetless_stale_lacks_concrete_public_target, Targetless
<1>6. Showable(f, PrimaryRoute(f, next, bridge, persisted))
  BY <1>2, <1>3, <1>4, <1>5, OtherRoutesShowable DEF PrimaryRoute, OrRoute
<1>7. Showable(f, primary)
  BY <1>6 DEF select_primary_runtime_route_decision, next, bridge, persisted
<1> HIDE DEF primary
<1>8. resolve_actionable_repair_follow_up(f) = "execution_reentry"
      => Showable(f, execution_reentry_reopen_route_decision(f, f.followTask))
  <2>1. resolve_actionable_repair_follow_up(f) = "execution_reentry" => f.followTask # 0
    BY DEF resolve_actionable_repair_follow_up, FollowUp, Consistent
  <2>2. ASSUME NEW t, t # 0
        PROVE  Showable(f, execution_reentry_reopen_route_decision(f, t))
    <3> DEFINE c == StepPublicCommand(f, "reopen", t)
               x == [kind |-> "reopen", task |-> t, step |-> TRUE]
    <3>1. Leads(f, "execution_reentry_required", c, x)
      BY <2>2 DEF Leads, StepPublicCommand, Command, StepCommands
    <3> HIDE DEF c, x
    <3> QED
      BY <3>1 DEF Showable, execution_reentry_reopen_route_decision, RouteRecord, Route, c, x
  <2> QED
    BY <2>1, <2>2
<1>9. Showable(f, select_route_planning_candidate(f, primary))
  BY <1>7, <1>8, OtherRoutesShowable DEF select_route_planning_candidate
<1> QED
  BY <1>9 DEF primary

\* The route of consistent facts passes its checks.
Passable(f, p) ==
    /\ check_runtime_status_invariants(f, p) /\ p.kind # "blocked_runtime_bug"
    /\ p.command.kind \notin Mutations =>
          \/ p.wait
          \/ p.detail \in {"planning_reentry_required", "test_plan_refresh_required"}
          \/ p.detail = "runtime_reconcile_required" /\ Targetless(f)

\* Completing the chosen route (finalize_route_decision_for_route_plan) keeps it
\* acceptable.
LEMMA PlannedPassable ==
    ASSUME NEW f, Consistent(f), Assessed(f)
    PROVE  Passable(f, plan_runtime_route(f))
<1> DEFINE r == select_route_planning_candidate(f, select_primary_runtime_route_decision(f))
           targetless == targetless_stale_reconcile_for_phase(r.detail, r.codes)
           kind == IF targetless THEN "runtime_reconcile_required" ELSE r.kind
           waits == external_wait_state_for_phase_detail(f, r.detail)
           follow == derive_required_follow_up(f, r)
           followed == [r EXCEPT !.kind = kind, !.wait = waits, !.follow = follow]
           targets == public_repair_targets_for_route_decision(f, followed)
           q == [followed EXCEPT !.targets = targets]
           p == plan_runtime_route(f)
<1>1. Showable(f, r)
  BY CandidateShowable
<1>2. p = normalize_diagnostic_route_decision(q)
  BY DEF plan_runtime_route, finalize_route_decision_for_route_plan
<1>3. targetless => r.detail = "runtime_reconcile_required"
  BY DEF targetless_stale_reconcile_for_phase
<1>4. waits <=> r.detail = "final_review_outcome_pending" /\ ~f.external
  BY DEF external_wait_state_for_phase_detail
<1> HIDE DEF r, targetless, waits, follow, targets
<1>5. /\ Route(q) /\ q.kind = kind /\ q.wait = waits /\ q.detail = r.detail
      /\ q.command = r.command /\ q.context = r.context
  BY <1>1 DEF Showable, Route
<1>6. /\ kind # "blocked_runtime_bug"
      /\ kind = "runtime_reconcile_required" => r.detail = "runtime_reconcile_required"
      /\ r.detail # "blocked_runtime_bug"
      /\ r.detail # "runtime_reconcile_required" /\ r.command # NoCommand
            => kind = "actionable_public_command"
  BY <1>1, <1>3 DEF Showable, Leads, Stops
<1> HIDE DEF kind, q, p
<1>7. CASE r.detail = "runtime_reconcile_required"
  <2>1. p.command = NoCommand /\ p.detail = r.detail /\ p.kind = kind
    BY <1>2, <1>5, <1>7
       DEF normalize_diagnostic_route_decision, state_kind_or_phase_is_runtime_diagnostic, Route
  <2>2. p.command.kind \notin Mutations \cup StepCommands
    BY <2>1 DEF NoCommand, Command, Mutations, StepCommands
  <2> QED
    BY <1>1, <1>6, <1>7, <2>1, <2>2
       DEF p, Passable, check_runtime_status_invariants, Showable, Leads,
           check_recommended_command_matches_mutation_eligibility,
           check_execution_reentry_has_concrete_target,
           check_waiting_external_input_does_not_recommend_local_mutation
<1>8. CASE r.detail # "runtime_reconcile_required"
  <2>1. p = q
    BY <1>2, <1>5, <1>6, <1>8
       DEF normalize_diagnostic_route_decision, state_kind_or_phase_is_runtime_diagnostic,
           state_kind_is_runtime_diagnostic
  <2>2. CASE r.command = NoCommand
    <3>1. p.command.kind \notin Mutations \cup StepCommands
      BY <1>5, <2>1, <2>2 DEF NoCommand, Command, Mutations, StepCommands
    <3>2. Stops(f, p.detail)
      BY <1>1, <1>5, <2>1, <2>2 DEF Showable, Leads, NoCommand, Command, StepCommands
    <3> QED
      BY <1>4, <1>5, <1>6, <1>8, <2>1, <3>1, <3>2
         DEF p, Passable, check_runtime_status_invariants, Stops,
             check_recommended_command_matches_mutation_eligibility,
             check_execution_reentry_has_concrete_target,
             check_waiting_external_input_does_not_recommend_local_mutation
  <2>3. CASE r.command # NoCommand
    <3>1. p.kind = "actionable_public_command"
      BY <1>5, <1>6, <1>8, <2>1, <2>3
    <3>2. r.detail # "final_review_outcome_pending"
      BY <1>1, <2>3 DEF Showable, Leads
    <3>3. ~p.wait
      BY <1>4, <1>5, <2>1, <3>2
    <3>4. \/ /\ p.command.kind \in StepCommands /\ p.command.task # 0
             /\ p.command.fingerprint = ExecutionFingerprint(f)
             /\ p.context = [kind |-> p.command.kind, task |-> p.command.task, step |-> TRUE]
          \/ p.command.kind \in {"close_current_task", "repair_review_state", "transfer"}
          \/ /\ p.command.kind = "advance_late_stage"
             /\ public_advance_late_stage_mode_for_phase_detail(p.detail) \in {"none", p.command.mode}
      BY <1>1, <1>5, <2>1, <2>3 DEF Showable, Leads
    <3>5. p.command.kind \in Mutations
      BY <3>4 DEF Mutations, StepCommands
    <3>6. ~state_kind_blocks_all_public_mutation(p, p.command)
      BY <3>1 DEF state_kind_blocks_all_public_mutation, state_kind_blocks_local_mutation
    <3>7. p.detail # "runtime_reconcile_required"
      BY <1>5, <1>8, <2>1
    <3>8. decide_public_mutation(f, p, p.command)
      BY <3>1, <3>3, <3>4, <3>6, <3>7
         DEF decide_public_mutation, public_mutation_requests_match, StepCommands,
             request_fingerprint_matches_status
    <3>9. check_execution_reentry_has_concrete_target(p)
      BY <3>4 DEF check_execution_reentry_has_concrete_target, StepCommands
    <3> QED
      BY <3>1, <3>5, <3>8, <3>9
         DEF p, Passable, check_runtime_status_invariants,
             check_recommended_command_matches_mutation_eligibility,
             check_waiting_external_input_does_not_recommend_local_mutation
  <2> QED
    BY <2>2, <2>3
<1> QED
  BY <1>7, <1>8 DEF p

-----------------------------------------------------------------------------
\* The facts are consistent and of their kinds, and what is planned is their route.
prInv ==
    /\ Consistent(facts) /\ "assessment" \in DOMAIN facts /\ Assessed(facts)
    /\ PlannedForFacts

\* No change gives the assessment a value of another kind.
LEMMA FactsStay ==
    ASSUME NEW f, NEW g \in Changed(f), "assessment" \in DOMAIN f, Assessed(f)
    PROVE  "assessment" \in DOMAIN g /\ Assessed(g)
<1>1. ASSUME NEW x \in DOMAIN FactValues, NEW v \in FactValues[x], g = [f EXCEPT ![x] = v]
      PROVE  "assessment" \in DOMAIN g /\ Assessed(g)
  <2>1. x = "assessment" => v \in {"none", "supported", "surface_not_declared",
                                   "missing_baseline", "missing_baseline_drift", "drift_escapes"}
    BY <1>1 DEF FactValues
  <2>2. "assessment" \in DOMAIN g
    BY <1>1
  <2>3. g.assessment = IF x = "assessment" THEN v ELSE f.assessment
    BY <1>1
  <2> QED
    BY <2>1, <2>2, <2>3 DEF Assessed
<1>2. CASE g \in FieldChanged(f)
  <2>1. PICK x \in DOMAIN FactValues : g \in {[f EXCEPT ![x] = v] : v \in FactValues[x]}
    BY <1>2 DEF FieldChanged
  <2>2. PICK v \in FactValues[x] : g = [f EXCEPT ![x] = v]
    BY <2>1
  <2> QED
    BY <1>1, <2>2
<1>3. CASE g \in FollowUpChanged(f)
  <2>1. PICK u \in FollowUps : g = [f EXCEPT !.followUp = u[1], !.followTask = u[2]]
    BY <1>3 DEF FollowUpChanged
  <2> QED
    BY <2>1 DEF Assessed
<1>4. CASE g \in ReasonChanged(f)
  <2>1. PICK v : g = [f EXCEPT !.reasons = v]
    BY <1>4 DEF ReasonChanged
  <2> QED
    BY <2>1 DEF Assessed
<1>5. CASE g \in ProgressChanged(f)
  <2>1. PICK t \in TaskNos, v \in {"none", "part", "all"} : g = [f EXCEPT !.progress[t] = v]
    BY <1>5 DEF ProgressChanged
  <2> QED
    BY <2>1 DEF Assessed
<1> QED
  BY <1>2, <1>3, <1>4, <1>5 DEF Changed

\* The invariant holds throughout.
LEMMA RouteInvariance == prSpec => []prInv
<1>1. prInit => prInv
  <2> SUFFICES ASSUME prInit PROVE prInv
    OBVIOUS
  <2>1. facts \in BaseFacts /\ planned = NoRoute
    BY DEF prInit
  <2>2. "assessment" \in DOMAIN FactValues /\ FactValues["assessment"] =
            {"none", "supported", "surface_not_declared",
             "missing_baseline", "missing_baseline_drift", "drift_escapes"}
    BY DEF FactValues
  <2>3. Consistent(facts) /\ "assessment" \in DOMAIN facts
        /\ facts["assessment"] \in FactValues["assessment"]
    BY <2>1, <2>2, FactsAssumption
  <2> QED
    BY <2>1, <2>2, <2>3 DEF prInv, Assessed, PlannedForFacts
<1>2. prInv /\ [prNext]_prvars => prInv'
  <2> SUFFICES ASSUME prInv, [prNext]_prvars PROVE prInv'
    OBVIOUS
  <2>1. CASE ChangeFact
    <3>1. /\ facts' \in Changed(facts) /\ Consistent(facts') /\ planned' = NoRoute
      BY <2>1 DEF ChangeFact
    <3>2. "assessment" \in DOMAIN facts' /\ Assessed(facts')
      BY <3>1, FactsStay DEF prInv
    <3> QED
      BY <3>1, <3>2 DEF prInv, PlannedForFacts, Consistent, AllChecked, OpenSteps, Assessed
  <2>2. CASE PlanRoute
    BY <2>2 DEF prInv, PlanRoute, PlannedForFacts
  <2>3. CASE ReadStatus \/ RunCommand
    BY <2>3 DEF prInv, ReadStatus, RunCommand, PlannedForFacts
  <2>4. CASE UNCHANGED prvars
    BY <2>4 DEF prInv, prvars, PlannedForFacts
  <2> QED
    BY <2>1, <2>2, <2>3, <2>4 DEF prNext
<1> QED
  BY <1>1, <1>2, PTL DEF prSpec

\* The route that status recommends passes the checks status makes of it, for any
\* facts that are consistent: every command of a route is one that decide_public_mutation
\* accepts when it plans the route again, a step command names its step
\* (check_execution_reentry_has_concrete_target), nobody who waits is told to write, and
\* no route is planned as blocked_runtime_bug.
THEOREM RoutesAccepted == prSpec => []RouteIsAccepted
<1>1. prInv => RouteIsAccepted
  <2>1. CASE planned = NoRoute
    BY <2>1 DEF RouteIsAccepted, NoRoute, RouteRecord, NoCommand, Command, Mutations, StepCommands,
                check_runtime_status_invariants,
                check_recommended_command_matches_mutation_eligibility,
                check_execution_reentry_has_concrete_target,
                check_waiting_external_input_does_not_recommend_local_mutation
  <2>2. CASE planned # NoRoute
    BY <2>2, PlannedPassable DEF prInv, PlannedForFacts, Passable, RouteIsAccepted
  <2> QED
    BY <2>1, <2>2
<1> QED
  BY <1>1, RouteInvariance, PTL

\* A route without a command that changes the state is one of the five dead ends, for
\* any consistent facts: compute_next_action_decision decides for all of them, and every
\* decision but those keeps its command through the stages of the route plan.
THEOREM DeadEndsKnown == prSpec => []OnlyKnownDeadEnds
<1>1. prInv => OnlyKnownDeadEnds
  BY PlannedPassable DEF prInv, PlannedForFacts, Passable, OnlyKnownDeadEnds, Targetless
<1> QED
  BY <1>1, RouteInvariance, PTL
=============================================================================
