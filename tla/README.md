# A TLA+ verification of FeatureForge's execution runtime

FeatureForge is a workflow runtime for coding agents. Specs and plans are
Markdown files in the repository that is worked on; a plan is executed by
commands (`featureforge plan execution …`) of which every one is an
operating-system process. The processes of a branch share a directory of files
and coordinate through nothing else. This project models how they share it, what
the commands write, which command the runtime recommends next, and the
components around a run: worktree leases, approvals, preflight, handoff,
projections, plan parsing, the update check. TLC checks the models on small
instances; TLAPS proves most of the safety properties for every value of the
constants.

Paths below are relative to `src/`, the repository; `execution/` stands for
`src/execution/`.

## 1. Inventory of the system

| Part | State | Operations | What is hard |
|---|---|---|---|
| Write authority (`execution/transitions.rs`, `leases.rs`, `authority.rs`) | `write-authority.lock` with the holder's pid | claim, release on drop, inspection and reclaim by preflight | reclaim of a stale lock by several processes, removal by path, crashes, reused pids, an unbounded retry loop |
| Event log (`execution/event_log.rs`) | `events.jsonl`, `events.lock`, legacy `state.json` | append, load, migrate | readers without a lock, torn writes, a crash with the lock held, concurrent migrations |
| Authoritative state (`execution/transitions.rs`, `event_log.rs`) | what the log reduces to; a copy per command | load, change the copy, append the difference | difference against an outdated copy |
| Step commands (`execution/commands/{begin,complete,note,reopen}.rs`) | open step, completed steps, evidence attempts, phase, repair follow-up | the four commands | checks on a reading made before the claim |
| Strategy checkpoints (`execution/transitions.rs`) | checkpoint kind, cycle counts, dispatch credits, cycle-break binding | initial dispatch, review dispatch, reopen, clear | accounting over long alternations |
| close-current-task, review dispatch, repair-review-state | closures, negative results, dispatch lineage, follow-up | dispatch, record, resolve, clear, restore | several readings and claims in one command |
| Closure records and graph (`closure_graph.rs`, `recording.rs`) | overlay, history, superseded ids, milestones | what all commands above leave behind; the graph derived from it | ids that are recorded again |
| Branch milestones (`advance_late_stage.rs`, `transitions.rs`) | branch closure, release readiness, final review, QA, finish checkpoint | record, invalidate, repair drift | decisions made before the claim, joint invalidation |
| Artifact records (`authority.rs`) | contract, evaluation, handoff artifacts, dependency index, sequence | record, replay | five writes published one after the other |
| Worktree leases (`leases.rs`, `state/worktree_lease_truth.rs`) | lease files, active index, release records | publish, release after a closure, gate | an index rewritten from an earlier read |
| Preflight (`state/preflight.rs`, `topology.rs`, `authority.rs`) | acceptance file, run identity | gate, acceptance, bootstrap, begin | identity appended behind the back of a loaded copy |
| Transfer (`handoff.rs`, `commands/transfer.rs`) | record files, checkpoint | transfer, repetition | files left by a dead transfer |
| Routing (`route_plan/`, `next_action.rs`, `command_eligibility.rs`) | none | next action, public route, acceptance of a command | two parts of the code must agree on hundreds of combinations |
| Projections (`projection_renderer.rs`, `context.rs`) | evidence projection and fingerprint file | render, parse, load, materialize | edited, copied or torn files read at every load |
| Workflow status (`workflow/status.rs`, `manifest.rs`) | manifest; documents in the repository | refresh, expect, sync, resolve | edits between review and use |
| Plan contract and topology (`contracts/`) | none | lint, analyze-plan, typed parser, packets; strategy and lanes | three parsers of one text |
| Control plane (`runtime_provenance.rs`, `live_mutation_guard.rs`) | links and directories of an install | classification, guard, diagnosis | paths compared after resolving links |
| Repo safety (`repo_safety/mod.rs`) | approval files | check, approve | shared temporary files, a place that moves with the remote |
| Update check, config (`update_check/mod.rs`, `config/mod.rs`) | cache, marker, snooze, configuration | check, snooze, set | a request that races an upgrade |
| Command line, git calls, text rendering | none | parsing, formatting | text |

How they interact: a command loads the reduced state (event log), decides on
it, claims write authority, loads, changes its copy and calls `persist_if_dirty`
(close-current-task loads before it claims). That takes `events.lock`, reads the log again, and appends an event with those
fields of the copy that differ from the log *and* that this kind of event may
carry. Readers take neither lock. Artifact writers use their own guard type
over the same `write-authority.lock`. Status and operator derive the next
command from the state; the command plans the route again and compares itself
with it before it writes.

What makes each part correct: one writer at a time; an append-only, hash-chained
log with nothing acknowledged lost; no lost update; completion that stays
together with its evidence; a task boundary that holds at the moment a step
starts; review cycles counted once; milestones bound to what was reviewed; a
recommended command that is accepted and leads on; approvals and leases that
mean what they say. `PROJECT.json` lists the hazards at their lines and the
properties that watch them.

## 2. Modules

| Module | Models | Checked in | Proved in |
|---|---|---|---|
| `WriteAuthority` | the lock protocol, one action per file operation | `locks` | `AuthorityProofs` |
| `AppendLog` | abstract specification: what the event log promises | | |
| `EventLog` | the log's files, writers, readers and migration; refines `AppendLog` | `event_log`, `locks` | `EventLogProofs` |
| `HarnessStore` | `WriteAuthority` composed with load, difference and append | `event_log` | `AuthorityProofs` |
| `StepExecution` | the step commands, close-current-task, repair-review-state | `step_execution` | `ExecutionProofs` |
| `NextAction`, `PublicRoute` | the next action, the public route, the acceptance of a command | `step_execution` | `ExecutionProofs` |
| `Milestones` | the late stage of a branch | `milestones` | `MilestonesProofs` |
| `ArtifactRecord` | contract, evaluation and handoff records | `records` | `RecordProofs` |
| `ClosureRecords` | what commands leave in overlay, history and graph | `records` | `RecordProofs` |
| `Lists` | lists filtered by a set of values; used by `ArtifactRecord`, `Projections` | `records` | `ListProofs` |
| `Projections` | the evidence projection, its loads and materialization | `records` | `RecordProofs` |
| `ControlPlane` | which binary may change the live state directory | `records` | `RecordProofs` |
| `WorktreeLeases`, `UpdateCheck`, `Preflight`, `Handoff` | the components around a run | `components` | `ComponentProofs` |
| `RepoSafety` | approvals of several clones | `event_log` | `ComponentProofs` |
| `Workflow` | the way from spec to implementation | `components` | `PlanProofs` |
| `PlanTopology`, `PlanContract` | parallel strategy and lanes; three parsers | `step_execution` | `PlanProofs` |

`MC*` modules give the constants values for TLC. Some check several components
in one run (`MCLocks`, `MCEventLog`, `MCExecution`, `MCRecords`, `MCComponents`):
these components share no state there, `focus` is the one a behaviour is about,
and the others keep their initial state, so that the state space is the sum and
not the product. A mutant of an
operator appears next to it (`ClaimCreateTruncates` beside `ClaimCreate`); no
specification uses it, it shows in `PROJECT.json` what a property would catch.

### The lock, the log and the store

`WriteAuthority`: `lock` is the file at the path: its creator (which file it is)
and the pid written into it. `pc` is where each process is in
`claim_step_write_authority`: `create_new`, `symlink_metadata`,
`read_to_string`, `process_is_running`, `remove_file`, write of the pid. The
pid is written through the open file, so it does not reach a file that has
replaced the creator's own; removals are by path. `WriteAuthorityLock::acquire`
in `authority.rs` is the same loop. `preflight_write_authority_state` reclaims
without claiming. `Start` gives out pids of dead processes again; `Crash`
leaves the file. `robbed` is a history variable: live owners whose file somebody
else removed.

`EventLog`: `lines` and `tail` split the file at its last newline, because an
event and its newline are two writes: an unterminated event loads, and the next
event is glued to it (`Glue`). `legacy` is whether `state.json` exists; artifact
writers publish it after their event (`PublishState`). The lock protocol of
`events.lock` is `create_new` or an immediate conflict. A crash (`evCrash`) or
`WriteFails` may come between any two steps; `killed` is the history of the
processes that were killed. The content of the events is left to the modules
above; the hash of an event is a fresh number.

`HarnessStore`: the state is a natural number per field and a command increments
one field, so that a lost update is a missing increment. `Scope[f]` is what the
event of a command on `f` may carry. The append is atomic, as `AppendLog` says.
The lock is not: every step of `WriteAuthority` is a step here. `LoadState` is a
load under the guard. `LoadEarly` is the load of close-current-task, which comes
before its claim on all its paths (`close_current_task.rs`: loads at 102/230,
270 and 371, claims at 599, 319 and 401); every other command claims first.
`LoadsFirst` are the fields such a command writes. `missed` and `exposed` are
history variables: what others changed since an early load, and which fields an
event carried although its copy had missed a change of them. The
already-current replay of close-current-task clears leases between its load and
its claim (585–597); that write is another process's command here.

### StepExecution

`state` is the reduced authoritative state: `open` (the open step and its note),
`completed`, `evidence` (number of attempts, and whether the last one is valid),
`closures`, `negative` and `dispatch` (each per task, bound to a *lineage*: the
attempts by which the task is complete), `phase`, `strategy`, `followUp`.
`Persist(payload, fields)` is the log after an event that may carry `fields`;
the field sets are those of `event_log.rs:127-414` for the fields modelled.
Commands that load everything under their claim are one action. `begin` is two,
and `close-current-task` is a chain of readings and writes, each an action.

- The public router is left open here: a command is enabled whenever its
  handler's own checks pass, so more behaviours are checked than the router
  lets happen. A command already under way may be refused at any of its stages
  (`BeginFails`, `CloseStops`, `RepairStops`).
- The workspace is identified with the completion lineage; edits between
  commands are the subject of `ClosureRecords` and `Milestones`.
- The reset policy of the active contract, review verdicts and overlaps of task
  surfaces are choices.

### Closure records, milestones, artifacts

`ClosureRecords` asks what a long sequence of commands leaves behind: each
command is one action, and the variables are the records as the code keeps them
(overlay, history, superseded ids, negative verdicts, dispatches, branch closure
with its milestones). The graph, staleness and bindings are operators over them.

`Milestones` has the worktree as two contents (reviewed code and late-stage
files), each recorder of advance-late-stage as an action under the claim, and
`pend`, what a process decided before its claim. `judged` is the history of the
worktrees on which a milestone was decided. The task closures of the plan are
one, the baseline. The operator's route is the guard of the fair part of
the specification.

`ArtifactRecord` has a record's writes as the stages of one process:
artifact, index, observability sink, event, `state.json`, with a failure or a
crash between any two, and the removal of what was written. What an evaluation
does to verdicts, retries and phase is `Verdict`.

### Routing

`NextAction` and `PublicRoute` translate the choice of the next action, the
public route and `decide_public_mutation` as functions of a record of *facts*:
what a status holds when a route is planned. `facts` changes freely within
`Consistent`, the conditions the status guarantees, so combinations no execution
reaches are covered as well; a user runs the command that was shown while the
facts change.

### The components around a run

`WorktreeLeases`: a lease file's name contains its reviewed checkpoint; the index
is rewritten by an agent from what it read earlier (`draft`), and releases happen
under the lock. `RepoSafety`: a rename moves a file and not its name, so `inodes`
are the files, and `approvals` and `temporary` say which paths lead to them; a
process that has opened a temporary file goes on writing to it. `UpdateCheck`: ages in hours, the
request and the write of its answer are two steps. `Preflight`: `begin`'s check,
claim, bootstrap and publication are steps of their own; `preflight_gate` writes
its acceptance without the lock; `bound` are the runs and plan revisions that
task closures were recorded for. `Handoff`: a transfer creates, fills and
publishes its record in three steps and may die between any two.

### Documents

`Workflow`: spec, plan and review files are headers and a text number; the skills
(external) write them, the runtime reads them. `resolve` names one skill;
fairness is that somebody runs it. `PlanTopology`: bullets of the execution
strategy, the edges they imply, the checks, and executors that start what the
accepted plan lets them start. `PlanContract`: what the lines say is a record of
flaws; `validate_contract`, `analyze_contract` and the typed parser read the same
record. `Projections`: a rendered document is the record of what it says, its
fingerprint is the document itself; the renderer groups attempts by step, as the
code does. `ControlPlane`: three spots a binary can be at, each a file, nothing,
or a link to another; `held` is what the live directory holds. A command is
guarded (`MutatingCommand`), writes settings or the update cache without the
guard (`SettingsCommand`), or reads, and so imports an older runtime's state,
without it (`ReadingCommand`).

## 3. Runs

| Run | Instance | Checks |
|---|---|---|
| `event_log` | log: 2 processes, 4 hashes, 4 loads, 1 crash; store: 2 pids, 2 fields, 3 commands, 1 crash; approvals: 2 clones, 2 remotes, 2 approvals | `AckedDurable`, `ImplementsAppendLog`, `ReadFailsOnlyAmidWrites`; `NoLostUpdate`; `AllowedMeansApproved`, `ApprovalHolds` |
| `event_log_torn` | one failed write, no crash | violates `AckedDurable` |
| `locks` | log: 2 processes, 3 hashes, 3 loads, 1 crash, 1 failed or torn write; authority: 3 pids, 1 crash | `ChainValid`, `LockIsGivenBack`; `UnrobbedExclusion`, `RobberyIsStaleReclaim`, `PidlessLockHasAWriter`, `ClaimEndsUnlessOvertaken` |
| `write_authority_single_writer` | 3 pids, no crash | violates `SingleWriter` |
| `step_execution` | 2 processes, tasks of two and of one step, 3 attempts, 10 commands; eight kinds of status, each two changes away; 3 tasks, 3 bullets, 3 layouts; 3 requirements, 2 edits | `CompletedHasEvidence`, `OpenStepIsIncomplete`, `TaskBoundary`, `CycleBreakBound`; `RouteIsAccepted`, `OnlyKnownDeadEnds`, `ReopenSparesClosedTasks`; `LanesAreDisjoint`, `LastRunsLast`; `ParsersAgree` |
| `step_close_race` | 2 processes, 2 tasks of one step, 6 commands | violates `CloseKeepsActiveStep` |
| `milestones` | one process and two edits, or an edit and a negative result, or two processes and an edit | `PointerNamesTheCurrentRecord`, `FinishMeansReviewed`, `Finishes` |
| `records` | two evaluators, sequences to 3, 4 records, a fault; two tasks, 5 closures; 2 step commands and an edit of the projection; 2 links | `PublishedInOrder`, `VerdictsCounted`, `ReplayIsIdempotent`; `ClosedTaskIsNotStale`, `BoundMilestonesCount`; `LogOwnsTheEvidence`, `RefusedMeansTouched`; `LiveBelongsToTheInstall` |
| `artifact_sequence` | 4 records, no fault | violates `SequenceIsMonotonic` |
| `components` | two units of one task; 3 versions; 2 starters, 2 heads, 2 revisions; 2 owners, 2 files; 2 specs, 2 plans, 2 review files, 2 interventions | `GateMeansSettled`, `LeaseIsNotDropped`; `NoticeIsTrue`; `RunKeepsItsIdentity`; `CheckpointIsTheAnswer`; `ReadyMeansReviewed`, `WorkflowGetsReady` |
| `preflight_revision` | one starter, 2 revisions | violates `NewRevisionIsANewRun` |
| `workspace_live_log` | 2 channels, 2 links | violates `WorkspaceKeepsOffTheLiveLog` |

What each property says, and of which code, stands in the comment above it.

**Why the bounds are enough for the questions asked.** Robbing a live owner takes
a holder that is gone, a reclaimer and a new owner, hence three pids; nothing
bounds how often they claim, inspect and release. A command that loads early
loses an update with one other command before it, so three commands leave room
for one more, and two pids suffice: where a live owner was robbed, which takes a
third, `NoLostUpdate` promises nothing. A migration uses two hashes (import and one replay event), so four
leave room for appends before and after it, by both processes; with a failed
write three are enough to glue an event to a torn one. A task boundary
needs two tasks; the race of a close needs complete, close twice, begin: six
commands. Cycle-break needs three counted cycles of one task and then its
closure. A milestone that outlives its worktree needs one edit; a revert, two. A
replay after a fault needs one fault and the record sent again, and four records
leave two more around it. Two approvals are the least that share a temporary
file. Two interventions (an edit after a review, and a verdict "fail") are what
sends a document back through the workflow twice. A chain that orders two tasks
through a third needs three tasks; that longer chains change nothing is proved,
not checked. For most safety properties the bounds no longer carry the argument:
section 4 proves them for all values.

Symmetry over processes is used only for `step_execution` and `step_close_race`,
which have no liveness property. The lock protocol never stops; deadlock is
switched off because a bound on commands, loads, edits or events lets every
other system stop.

**Fairness.** `evFairness` and `waFairness` are weakly fair to the next
step of a process inside an operation: these steps are system calls that return,
and the operating system schedules a runnable process. Nothing is assumed of the
start of an operation, of `Release` (a holder may work for any length of time),
or of crashes. Under this alone a claim need not end: its loop has no bound, and
others may take the lock in every round. `ClaimEndsUnlessOvertaken` says that this
is the only way. `msFairness` is weakly fair to the command the operator's
route names, and to closing the tasks: it says that somebody follows the
recommendations, not that a recommendation is right; it is strongly fair to the
write of a process that has decided, because its claim is refused while another
one writes and is repeated. `Workflow!wfFairness` says that the skill the route
names is run again and again until a route names none; the documents a skill
writes and the verdict of a reviewer remain choices within the bounds.

### What the violations show

- **Single writer.** No crash is needed: a claim reads the holder's pid, the
  holder releases and exits, another process claims, and the first claim, whose
  probe now finds the pid dead, removes the new holder's file and claims as
  well. Removal does not check that the file is the one whose pid was probed
  (`transitions.rs:189`, `leases.rs:610`).
- **Torn newline.** A write failure between an event and its newline is reported
  as a partial mutation, yet the next command loads that log, glues its event to
  it and reports success; the log is unreadable from then on
  (`event_log.rs:1849`).
- **close-current-task.** The copy that is published is loaded before the claim
  (`close_current_task.rs:319`). A duplicate close of a task that another process
  has closed meanwhile wipes the step that process has begun since.
- **Sequence.** The event of a handoff carries neither the authoritative sequence
  nor the open criteria (`event_log.rs:120`): the next evaluation is compared
  with the sequence before the handoff and may repeat it.
- **A run that outlives its plan revision.** REQ-036 of the harness specification
  wants a new `execution_run_id` when execution re-enters through preflight on a
  newly approved plan revision. `authoritative_preflight_acceptance_seed`
  (`topology.rs:506`) gives the new acceptance the id of the run under way, and
  the bootstrap keeps the identity it finds. `RunKeepsItsIdentity` is therefore
  stated within a plan revision.
- **A workspace binary and the live log.** `README.md:63` keeps workspace-local
  runtimes off the live event logs. A load imports the `state.json` of an older
  runtime before it reads (`event_log.rs:1272`), and the reading commands load
  without the guard.

Some hazards are properties that say when they bite. `LockIsGivenBack`: a crash
while `events.lock` is held blocks every later append, because its holder is
never probed (`event_log.rs:1738`); every error path gives the lock back, a
write that fails in any place included. `NoLostUpdate`: a field of the state is
the sum of the acknowledged updates of it, until a live owner is robbed, unless
an event of close-current-task carried it that had missed a change (`exposed`).
`ReplayIsIdempotent`: a report that is recorded again changes nothing; where the
verdicts led to a handoff or a pivot, its replay is refused as an illegal phase
(`authority.rs:724`), although REQ-028 of the harness specification calls the
records idempotent for an identical replay. `LiveBelongsToTheInstall`: settings,
the update cache and the imported log are what others than the install may write
in the live directory, and a path into it whose directory does not exist yet is
taken for another place.
`OpenStepIsIncomplete` and `TaskBoundary`: `begin` checks what it read before the
claim (`commands/begin.rs:49`), so a step completed in between becomes active;
the properties say what holds as long as no such outdated view was acted on
(`stale`) and no outdated copy was published. A claim whose process dies between
`create_new` and the write of its pid leaves a lock no later claim reclaims;
`PidlessLockHasAWriter` says that nothing else does.

## 4. Proofs

All theorems are checked by `tlapm` with Z3, Zenon and LS4. A component's proof is
about its own specification (`wlSpec`, `crSpec`, …). The runs that put several
components side by side keep the variables of all but one, so that a behaviour
of the run is a behaviour of that component's specification.

**Assumptions.** The constants are arbitrary but for the named assumptions of the
modules, which TLC evaluates in every run: bounds are natural numbers; `NoPid`,
`NoProc`, `Garbage`, `NoRun`, `None` are not values of the sets they stand
outside of; steps, tasks and paths are numbers; an event may carry its own field
(`ScopeAssumption`), and the commands that load first are commands on such fields
(`LoadsFirstAssumption`); a criterion is owned by evaluators of the contract, and
evaluators and criteria are finite lists (`ArtifactAssumption`); there is a slug,
and slugs are numbers in the order of their names (`WorkflowAssumption`); a plan
has finitely many tasks (`PlanTasksAssumption`) and steps, each of them once
(`PlanStepsAssumption`); the facts a route starts from are such as the assembly
of a status guarantees (`FactsAssumption`); two requirements exist, because
the plan an author starts from covers two (`ReqIdsAssumption`). `Durability`,
`Refinement` and `ReadersMayFail` assume `MaxFaults = 0`, that is, that no write
of the log fails: `event_log_torn` shows that this is necessary.

| Theorem | Property | The invariant behind it |
|---|---|---|
| `AuthorityProofs!Exclusion`, `Robbery` | `UnrobbedExclusion`, `RobberyIsStaleReclaim` | `OwnsFile`: an owner that was not robbed created the file that is at the path |
| `AuthorityProofs!PidlessLock` | `PidlessLockHasAWriter` | the creator of a file without a pid is about to write it |
| `AuthorityProofs!NoUpdateIsLost`, `CopiesAreCurrent` | `NoLostUpdate` | a guarded copy equals the store while nobody was robbed; an early one does in the fields it has not missed |
| `EventLogProofs!ChainHolds` | `ChainValid` | `evInv`: one holder of `events.lock`; what it has drafted continues the log as it is |
| `EventLogProofs!Durability`, `Refinement` | `AckedDurable`, `ImplementsAppendLog` | `CleanInv`: an unterminated event has its writer, or a dead one's lock, behind it |
| `EventLogProofs!ReadersMayFail` | `ReadFailsOnlyAmidWrites` | `ReadInv`: what a reader has seen is behind the log only if a writer overtook it |
| `ExecutionProofs!EvidenceBehindCompletion`, `BoundCycleBreak`, `OpenIsIncomplete`, `Boundary` | `CompletedHasEvidence`, `CycleBreakBound`, `OpenStepIsIncomplete`, `TaskBoundary` | `seInv`: the state and every copy another process may still publish |
| `ExecutionProofs!ReopenSpares` | `ReopenSparesClosedTasks` | `PlannedForFacts`: what is planned is the route of the facts as they are, and such a route spares closed tasks (`Sparing`) |
| `ExecutionProofs!RoutesAccepted`, `DeadEndsKnown` | `RouteIsAccepted`, `OnlyKnownDeadEnds` | `prInv`: the same, of consistent facts; the stages of the route keep its command acceptable (`Decided`, `Ready`, `Showable`, `Passable`) |
| `MilestonesProofs!Pointers`, `FinishReviewed` | `PointerNamesTheCurrentRecord`, `FinishMeansReviewed` | `msInv`: ledgers, what each record and each pending decision was decided on |
| `RecordProofs!RecordsPublished` | `PublishedInOrder` | `arInv`: what each stage of a record has already written |
| `RecordProofs!ReplaysChangeNothing` | `ReplayIsIdempotent` | `Settled`: the last report's evaluator already stands at the place in each list where its replay would put it, and the state is the one computed from the lists |
| `RecordProofs!LatestReportsCount` | `VerdictsCounted` | `Counted`: reports were recorded in the order of their sequences, and the lists agree with the latest of each evaluator |
| `RecordProofs!ClosedStaysSettled`, `MilestonesCounted` | `ClosedTaskIsNotStale`, `BoundMilestonesCount` | `LedgerOK`, `StagesOK`: overlay, history and superseded ids; what is bound was recorded on top of what is bound |
| `RecordProofs!LogIsAuthority`, `RefusalsAreOfEdits` | `LogOwnsTheEvidence`, `RefusedMeansTouched` | `pjInv`: what is recorded is numbered, so what is rendered of it parses; an untouched projection is the one its fingerprint file is of |
| `RecordProofs!LiveStateGuarded` | `LiveBelongsToTheInstall` | by cases on how a binary is started and classified, and which commands ask |
| `ComponentProofs!LeasesStay`, `GateSettles` | `LeaseIsNotDropped`, `GateMeansSettled` | `Drafting`: what the writer of an index has read covers the index, because releases only take away |
| `ComponentProofs!ApprovedOnly`, `ApprovalsStay` | `AllowedMeansApproved`, `ApprovalHolds` | `rsInv`: every record was asked for (`RecordsAreGenuine`), a file is at one place |
| `ComponentProofs!NoticeHolds` | `NoticeIsTrue` | `CacheIsTrue`: what the cache says was published for the version it names |
| `ComponentProofs!RunIdentity` | `RunKeepsItsIdentity` | `pfInv`: what a process has read is still so where its stage relies on it |
| `ComponentProofs!CheckpointAnswers` | `CheckpointIsTheAnswer` | `CheckpointHolds`, `UnderWay`: the record a transfer works on is its own |
| `PlanProofs!ReadyStaysReviewed` | `ReadyMeansReviewed` | `wfInv`: texts are fresh, and a review that passes names texts that were reviewed |
| `PlanProofs!LanesStayDisjoint`, `LastTaskIsLast` | `LanesAreDisjoint`, `LastRunsLast` | `ptInv`: an accepted analysis is of these bullets and this diagram; what is under way waited |
| `PlanProofs!ParsersStayInAgreement` | `ParsersAgree` | `pcTypeOK`: what an edit can make of a plan |

Five of the arguments in more detail:

*The lock and the store.* `UnrobbedExclusion` is not inductive: it does not say
which file a claim finds. With `OwnsFile`, creating a file needs its absence, so
no unrobbed owner exists then; every removal adds the creator to `robbed` if it
is another live owner; a crash takes the owner out. The step lemmas group the
actions that leave the file alone (`QuietStep`) and those that remove it
(`RemovalStep`). `AuthorityProofs` uses the exclusion: while nobody was robbed,
one process at most has a copy it loaded under the guard, and nobody else
appends, so it equals the state the log reduces to. An early copy may be
outdated, and `missed` collects in what. Its event writes outdated values at
most in the fields of its scope that it has missed, which are the fields that
become `exposed`; in the others the difference it appends is the increment.

*The event log.* The chain needs that one process is in the critical section and
that its draft continues the log. The refinement maps the lines to the abstract
log; an append is the step that writes the event's bytes, a migration the rename.
The mapping holds while no write has failed.

*Outdated copies.* What makes the invariants of `StepExecution` hold is which
fields an event may carry. No event of close-current-task or repair-review-state
carries evidence, and only complete and reopen change the completion; so of an
outdated copy only open step, closures and strategy can come back. The strategy
of every copy is bound as the one of the state is (`ProcsOK`), and an outdated
open step shows in `stale`.

*Verdicts and history.* `VerdictsCounted` speaks of the state completed from the
files (`bootstrap_verdict_buckets_from_legacy_state`). `Counted` says that
reports were recorded in the order of their sequences, none newer than the state
(`ReportsInOrder`), after the contract (`ContractFirst`), and that what is
recorded is indexed (`IndexedOK`), therefore on disk. So, where every report on
disk that is no newer than the state is recorded, the latest file of an evaluator
is its latest recorded report (`FilesAreRecorded`), and completing an older state
gives the same lists as the records did. The state of an older runtime that meets
other files is excepted by the property, and stays excepted (`Excused`). The
lists are filtered by sets (`Kept`, `Dropped`): `SelectSeq` takes an operator as
argument, about which the installed provers prove nothing. `ListProofs` derives
what filtering keeps, preserves and composes to, by an induction over the length
of a list (`ListInduction`) that is itself proved from the least number
principle.

*Routes.* The route is one large function of the facts, which the proof follows
stage by stage. `ActionDecided` goes through the routes of
`compute_next_action_decision` in their order: one of them always decides, and
what it decides has what its kind needs (`Decided`: a step command its task and
step, a late-stage command a detail that has a mode). `Leads` says what the
eligibility check will ask of a command: the detail and the context that belong
to it, and the present fingerprint. Binding the step, the recording, the refresh
and the follow-up keep it (`RecordingReady`, `BoundReady`), and so does every
route that replaces the one of the decision (`CandidateShowable`).
`PlannedPassable` then runs the checks of a status and `decide_public_mutation`
on the result. That the facts need no more than `Consistent` was not clear before:
the attempt found the fifth dead end (section 5), which the run did not reach from
the seven other kinds of status; `BridgeAhead` leads it there.

*Projections.* That the log owns the evidence needs a fact about every attempt
ever recorded: a projection whose text matches the recorded fingerprint is parsed,
and a numbering with a gap would make it unreadable for good. `pjInv` therefore
says that recorded attempts are numbered from 1 within each step (`LogOK`), also
those a command loads from a file (`ReadNumbered`, `LoadNumbered`) and those a
materialization still holds (`JobOK`). Adding under `next_attempt_number` keeps
the numbering (`AppendNumbered`); so does invalidating, which changes a status
only (`InvalidateNumbered`). Rendering groups the attempts by step
(`GroupedKeeps`): `FlattenSeq` is defined by a recursive function, of which
`FlattenStepwise` shows that it is what appending list after list makes, and
`InPlanOrder` that what is written step by step is read back step by step,
because a plan has each step once.

*Chains of dependencies.* `collect_dependencies` is defined as the least closed
set, so that transitivity is a lemma and not an induction. `LastTaskIsLast` needs
that a finite order has a top element (`FiniteOrderHasTop`, from cardinalities),
because the edges to the last task come only from the sinks of the others.
`SetInduction` (over the indexes of the bullets) follows from the least number
principle; it replaces the library's induction theorems, whose operator
parameters the installed provers cannot instantiate.

### What stays with TLC

- **Liveness**: `LockIsGivenBack`, `ClaimEndsUnlessOvertaken`, `Finishes`,
  `WorkflowGetsReady`. TLAPS proves no liveness under fairness here, nor anything
  about `ENABLED`.

## 5. Observations

Behaviour of the code that the models reproduce and a maintainer may want to
know, beside the findings of section 3.

- *Control plane.* `config set` (`config/mod.rs:51`) and `update-check`
  (`lib.rs:292`) write their files in the live state directory without the
  guard. The remedy "run the installed runtime" does not help
  when the installed path links into the repository that is worked on.
- *Leases.* A lease file of stage "open" is removed by no code: after a release
  with an empty index the gate stays closed. With a non-empty index the gate
  ignores files that are not indexed. The writers of leases are library API.
- *Repo safety.* `migrate_legacy_approvals` and `migrate_explicit` of the
  configuration are not called.
- *Update check.* The report "just upgraded" caches `UP_TO_DATE` without having
  asked the server; promoting a cache from its legacy place renews its age; a
  value set under the key `auto_upgrade`, which a skill's text recommends, is
  rejected by `normalize_key`.
- *Workflow.* A spec headed "Implementation Target" never passes the fidelity
  gate. A refresh silently resolves ambiguous specs. Two current reviews that
  disagree cannot be settled by rewriting the template's default file.
- *Topology and contract.* Cycles and dependencies on numbers that are no tasks
  are not reported. The loose reading of tasks includes the text of later
  sections. The typed parser rejects (Engineering Approved, writing-plans) and
  specs without a workflow state that the analysis calls valid; `ParsersAgree`
  excepts them by name. `build-task-packet` reads the plan again after it was
  validated.
- *Artifacts.* A contract or a handoff that is recorded again is refused as an
  illegal phase as soon as the first record has moved the phase on, and so is a
  report that led to a handoff or a pivot. A shared criterion that failed for one evaluator is cleared by the
  pass of another. No code sets the phase `contract_pending_approval`.
- *Closure records.* Superseded ids are append-only, so a closure recorded again
  under its old id is current for the readers of the overlay and superseded in
  the graph. Closing a task removes the current closure of every task that ever
  had an overlapping record. A restored negative overlay lacks its reviewed
  state.
- *Milestones.* A release readiness or final review binds to the branch closure
  read before its claim (`advance_late_stage.rs:2014`).
- *Leases and agents.* An index is published from what one agent has read; two
  agents that publish from reads of their own (`authority.rs:1591`) would each
  drop the other's leases. `WorktreeLeases` has one draft at a time, so
  `LeaseIsNotDropped` is about an agent and the releases that overtake it.
- *Routing.* The task-review waiting lane is never taken; repair candidates never
  contain begin; the reason code `blocked_on_plan_revision` is set nowhere, so
  `RouteOfFinalization` has no guard for it (`next_action_route.rs:216`);
  `explicit_reopen_repair_targets` is read and never written. When the earliest
  boundary of a stale task is an earlier, finished task that lost its closure and
  may not be closed now, `stale_boundary_route` names no target
  (`execution_ordering.rs:345`): the status is `runtime_reconcile_required`, with
  nothing to run, although there is a stale task that could be entered again.
- *Preflight.* State is kept per branch, and a run identity that is present makes
  begin ready for any revision of the plan (`state/preflight.rs:44`), without a
  preflight of it. The
  acceptance records the HEAD of the moment it is written, not of the check. The
  event of begin keeps the bootstrap's identity only because its field set leaves
  the identity out.
- *Handoff.* A torn record without its last header still matches a repeated
  request and is reused under its own fingerprint.
- *Projections.* The renderer groups attempts by step, so order across steps is
  lost. An unbound projection with progress fails the exact load of a plan. Step
  commands import unbound or legacy evidence that the other commands refuse.

## 6. Not modelled, and what is left

Not modelled: wording, rendering and layout of documents; argument parsing and
calls to git; the payload cache keyed by file stamps (`transitions.rs:4795`: file
times are not modelled); field-by-field equality of a replayed legacy payload;
the archive of dispatch lineages; refresh of the test plan for
QA and the publication of late-stage artifacts after their records;
`transfer_repair_step`, which the router never offers; the search for a runtime
root; overlaps between a file and a directory that contains it; five of the
eight checks of `check_runtime_status_invariants` (`invariants.rs:41`: overlap of
current and stale closures, kind of the command context, shape of the public
command, stale without target, terminal state without command), so that a status
these turn into `blocked_runtime_bug` is not watched by `RouteIsAccepted`. `ClosureRecords`
has one plan revision and one run.

Left to prove: nothing but liveness, which the installed provers do not reach.
