---------------------------- MODULE Projections ----------------------------
(***************************************************************************)
(* The execution context and its read models: how the attempts and the     *)
(* step marks are read back from the evidence projection and from the      *)
(* event log (execution/context.rs), how the projections are rendered and  *)
(* written (execution/projection_renderer.rs) and the command              *)
(* materialize-projections, which loads its context before it claims the   *)
(* write authority (commands/materialize_projections.rs).                  *)
(*                                                                         *)
(* A rendered document is the record of what it says; a fingerprint is the *)
(* document it is taken of.                                                *)
(***************************************************************************)
EXTENDS Lists, FiniteSets, SequencesExt

CONSTANTS
    PlanSteps,      \* the steps of the plan, in plan order
    PlanTexts,      \* the texts of the plan contract, by number
    LateKinds,      \* the late-stage projections with an authoritative artifact
    NoDoc,          \* no such document, field or fingerprint
    MaxStepCommands, \* bound on the step commands
    MaxEdits        \* bound on the changes made by hand and on crashes

VARIABLES
    log,        \* the authoritative state: attempts, fp, done, open
    evidence,   \* the state-dir evidence projection, or NoDoc
    sidecar,    \* the fingerprint file beside it
    tracked,    \* the evidence file tracked in the repository
    planText,   \* the approved plan contract, as a number
    shelf,      \* "approved", "unapproved" (the plan or its spec), or "rival" plan
    artifact,   \* the authoritative artifacts: "none", "genuine", "altered", "missing"
    late,       \* the late-stage projections: "none", "genuine", "altered", "rendered"
    receipts,   \* the attempt the review receipt of each step names, or 0
    job,        \* the materialize-projections process
    edits,      \* changes made by hand so far
    touched     \* TRUE iff the evidence file was edited, or split from its sidecar

pjVars == <<log, evidence, sidecar, tracked, planText, shelf, artifact,
            late, receipts, job, edits, touched>>

StepSet == {PlanSteps[i] : i \in 1..Len(PlanSteps)}

\* A plan has steps, each of them once.
ASSUME PlanStepsAssumption ==
    /\ PlanSteps \in Seq(StepSet) /\ PlanSteps # <<>>
    /\ \A i, j \in 1..Len(PlanSteps) : PlanSteps[i] = PlanSteps[j] => i = j
    /\ 1 \in PlanTexts

Idle == [pc |-> "idle", attempts |-> <<>>, mode |-> "state_dir_only", text |-> 1,
         closed |-> {}]

-----------------------------------------------------------------------------
(* Rendering and parsing.                                                  *)

AttemptsOf(s) == [step : {s}, n : Nat, status : {"Completed", "Invalidated"}]
OfStep(attempts, s) == Kept(attempts, AttemptsOf(s))

\* The renderer writes the attempts step by step, in plan order: the order in
\* which they were recorded is kept within a step only.
Grouped(attempts) ==
    FlattenSeq([i \in 1..Len(PlanSteps) |-> OfStep(attempts, PlanSteps[i])])

render_evidence_projection_source(text, attempts) ==
    [fmt |-> "v2", plan |-> text, attempts |-> Grouped(attempts), comment |-> FALSE]

\* Every attempt has its fields, none of them blank, and an invalidated one
\* carries its reason.
FieldsParse(doc) == doc.fmt # "broken"

\* Attempts are numbered from 1 without gaps within a step.
Numbered(attempts) ==
    \A s \in StepSet : \A i \in 1..Len(OfStep(attempts, s)) : OfStep(attempts, s)[i].n = i

parses(doc) == FieldsParse(doc) /\ Numbered(doc.attempts)

\* The text as it is, or without its HTML comments.
projection_source_matches_fingerprint(doc, fp) ==
    doc = fp \/ (doc.comment /\ [doc EXCEPT !.comment = FALSE] = fp)

currentness(doc, l) ==
    IF l.fp = NoDoc THEN "unbound"
    ELSE IF projection_source_matches_fingerprint(doc, l.fp) THEN "current"
    ELSE "stale"

\* A classification without the fingerprint file.
NoSidecar(doc, l, text, side) ==
    IF ~parses(doc) THEN "refused"
    ELSE IF render_evidence_projection_source(text, doc.attempts) = l.fp THEN "evidence"
    ELSE "refused"

\* A projection that is not the recorded one still counts when its attempts
\* render to the recorded one ("evidence"), or when the runtime wrote it
\* ("read model"); anything else is refused.
classify_stale_state_dir_evidence_projection(doc, l, text, side) ==
    IF ~parses(doc) THEN "refused"
    ELSE IF render_evidence_projection_source(text, doc.attempts) = l.fp THEN "evidence"
    ELSE IF side # NoDoc /\ projection_source_matches_fingerprint(doc, side) THEN "read model"
    ELSE "refused"

has_progress(doc) == doc.attempts # <<>>

authoritative_state_owns_evidence_history(l) ==
    l.attempts # NoDoc \/ l.done # {} \/ l.open # NoDoc

\* A projection that carries the fingerprints of its own plan and renders to
\* itself is accepted while the log has recorded none.
self_bound(doc) ==
    /\ doc.fmt = "v2" /\ parses(doc)
    /\ projection_source_matches_fingerprint(
           doc, render_evidence_projection_source(doc.plan, doc.attempts))

-----------------------------------------------------------------------------
(* Loading the context.                                                    *)

Read(attempts) == [ok |-> TRUE, attempts |-> attempts]
Refuse == [ok |-> FALSE, attempts |-> <<>>]

\* The tracked evidence of an execution that predates the harness is noticed
\* only while the log owns no history; step commands import it, the other
\* commands refuse it.
TrackedLegacy(l, mutation) ==
    IF /\ ~authoritative_state_owns_evidence_history(l)
       /\ tracked # NoDoc
       /\ has_progress(tracked) /\ tracked.fmt = "legacy"
    THEN IF mutation THEN Read(tracked.attempts) ELSE Refuse
    ELSE Read(<<>>)

parse_evidence_source(doc) == IF parses(doc) THEN Read(doc.attempts) ELSE Refuse

\* A projection the log has no fingerprint for: its own fingerprints vouch
\* for it, or a step command takes it as it is.
Unbound(l, mutation) ==
    IF self_bound(evidence) THEN Read(evidence.attempts)
    ELSE IF mutation THEN parse_evidence_source(evidence)
    ELSE IF has_progress(evidence) THEN Refuse
    ELSE TrackedLegacy(l, mutation)

\* A reader for which a refused projection is fatal even when the log owns
\* the history.
EveryRefusalIsFatal(l, mutation) ==
    IF evidence = NoDoc THEN TrackedLegacy(l, mutation)
    ELSE LET kind == classify_stale_state_dir_evidence_projection(
                         evidence, l, planText, sidecar)
         IN  CASE currentness(evidence, l) = "current" -> parse_evidence_source(evidence)
               [] currentness(evidence, l) = "stale" ->
                    IF kind = "evidence" THEN Read(evidence.attempts)
                    ELSE IF kind = "refused" THEN Refuse
                    ELSE TrackedLegacy(l, mutation)
               [] currentness(evidence, l) = "unbound" -> Unbound(l, mutation)

parse_execution_evidence_projection(l, mutation) ==
    IF evidence = NoDoc THEN TrackedLegacy(l, mutation)
    ELSE LET kind == classify_stale_state_dir_evidence_projection(
                         evidence, l, planText, sidecar)
         IN  CASE currentness(evidence, l) = "current" -> parse_evidence_source(evidence)
               [] currentness(evidence, l) = "stale" ->
                    IF kind = "evidence" THEN Read(evidence.attempts)
                    ELSE IF kind = "refused" /\ ~authoritative_state_owns_evidence_history(l)
                    THEN Refuse
                    ELSE TrackedLegacy(l, mutation)
               [] currentness(evidence, l) = "unbound" -> Unbound(l, mutation)

\* The completed steps of a state that recorded no attempts, in plan order.
synthesize_legacy_authoritative_evidence_attempts(l) ==
    FlattenSeq([i \in 1..Len(PlanSteps) |->
        IF PlanSteps[i] \in l.done
        THEN <<[step |-> PlanSteps[i], n |-> 1, status |-> "Completed"]>> ELSE <<>>])

\* An overlay that keeps what the projection said when it said something.
OverlayFillsGaps(read, l) ==
    IF read.attempts # <<>> THEN read.attempts
    ELSE IF l.attempts # NoDoc THEN l.attempts
    ELSE synthesize_legacy_authoritative_evidence_attempts(l)

overlay_execution_evidence_attempts_from_authority(read, l) ==
    IF l.attempts # NoDoc THEN l.attempts
    ELSE IF read.attempts = <<>> THEN synthesize_legacy_authoritative_evidence_attempts(l)
    ELSE read.attempts

\* The marks of the plan markdown are cleared; a step is complete when the
\* log or a task closure says so, and the open step is never complete.
overlay_step_state_from_authority(l) == (l.done \cup l.closed) \ {l.open}

\* Every command names its plan exactly, so a second approved plan of the
\* same spec does not stop it; a plan or a spec that lost its approval does.
Admitted == shelf # "unapproved"

\* The context a command works on, once the log it overlays is read.
load_execution_context_with_policies(mutation) ==
    LET read == parse_execution_evidence_projection(log, mutation)
        ok == Admitted /\ read.ok
    IN  [ok |-> ok,
         admitted |-> Admitted,
         attempts |-> IF ok THEN overlay_execution_evidence_attempts_from_authority(read, log)
                      ELSE <<>>,
         checked |-> overlay_step_state_from_authority(log),
         owned |-> log.attempts # NoDoc /\ log.fp # NoDoc,
         mine |-> IF log.attempts = NoDoc THEN <<>> ELSE log.attempts]

load_execution_context_for_mutation == load_execution_context_with_policies(TRUE)
load_execution_context_for_exact_plan == load_execution_context_with_policies(FALSE)

-----------------------------------------------------------------------------
(* Step commands.  They hold the write authority from before they load.    *)

\* materialize-projections does not hold the write authority.
Unclaimed == {"idle", "loaded", "receipts"}

next_attempt_number(attempts, s) ==
    Max({a.n : a \in SetOf(OfStep(attempts, s))} \cup {0}) + 1

Publish(attempts, done, open, recorded) ==
    log' = [attempts |-> IF recorded THEN attempts ELSE log.attempts,
            fp |-> render_evidence_projection_source(planText, attempts),
            done |-> done, open |-> open, closed |-> log.closed \cap done]

\* begin records the open step and the fingerprints, not the attempts.
BeginStep(s) ==
    LET loads == load_execution_context_for_mutation IN
    /\ job.pc \in Unclaimed
    /\ loads.ok
    /\ log.open = NoDoc /\ s \notin loads.checked
    /\ Publish(loads.attempts, log.done, s, FALSE)
    /\ UNCHANGED <<evidence, sidecar, tracked, planText, shelf, artifact, late,
                   receipts, job, edits, touched>>

CompleteStep(s) ==
    LET loads == load_execution_context_for_mutation IN
    /\ job.pc \in Unclaimed
    /\ loads.ok
    /\ log.open = s
    /\ Len(loads.attempts) < MaxStepCommands
    /\ Publish(Append(loads.attempts,
                      [step |-> s, n |-> next_attempt_number(loads.attempts, s),
                       status |-> "Completed"]),
               log.done \cup {s}, NoDoc, TRUE)
    /\ UNCHANGED <<evidence, sidecar, tracked, planText, shelf, artifact, late,
                   receipts, job, edits, touched>>

invalidate_latest_completed_attempt(attempts, s) ==
    [attempts EXCEPT ![Max({i \in 1..Len(attempts) :
        attempts[i].step = s /\ attempts[i].status = "Completed"})].status = "Invalidated"]

ReopenStep(s) ==
    LET loads == load_execution_context_for_mutation IN
    /\ job.pc \in Unclaimed
    /\ loads.ok
    /\ log.open = NoDoc /\ s \in loads.checked
    /\ \E i \in 1..Len(loads.attempts) :
          loads.attempts[i].step = s /\ loads.attempts[i].status = "Completed"
    /\ Publish(invalidate_latest_completed_attempt(loads.attempts, s),
               log.done \ {s}, s, TRUE)
    /\ UNCHANGED <<evidence, sidecar, tracked, planText, shelf, artifact, late,
                   receipts, job, edits, touched>>

\* close-current-task records the closure of a completed task.
CloseTask(s) ==
    /\ job.pc \in Unclaimed
    /\ s \in log.done \ log.closed /\ log.open # s
    /\ log' = [log EXCEPT !.closed = @ \cup {s}]
    /\ UNCHANGED <<evidence, sidecar, tracked, planText, shelf, artifact, late,
                   receipts, job, edits, touched>>

\* A milestone is recorded and its artifact published under its fingerprint.
publish_authoritative_artifact(k) ==
    /\ job.pc \in Unclaimed
    /\ artifact[k] # "genuine"
    /\ artifact' = [artifact EXCEPT ![k] = "genuine"]
    /\ UNCHANGED <<log, evidence, sidecar, tracked, planText, shelf, late,
                   receipts, job, edits, touched>>

-----------------------------------------------------------------------------
(* materialize-projections.                                                *)

\* The context is loaded before the write authority is claimed.
MaterializeLoads ==
    LET loads == load_execution_context_for_exact_plan IN
    /\ job.pc = "idle"
    /\ \E mode \in {"state_dir_only", "projection_export"} :
          job' = IF loads.ok
                 THEN [pc |-> "loaded", attempts |-> loads.attempts, mode |-> mode, text |-> planText,
                       closed |-> {}]
                 ELSE Idle
    /\ UNCHANGED <<log, evidence, sidecar, tracked, planText, shelf, artifact,
                   late, receipts, edits, touched>>

\* The projection found on disk must be one the log or the runtime vouches
\* for before it is replaced.
validate_state_dir_evidence_projection_before_materialization ==
    evidence = NoDoc
    \/ currentness(evidence, log) # "stale"
    \/ classify_stale_state_dir_evidence_projection(
           evidence, log, job.text, sidecar) # "refused"

MaterializeClaims ==
    /\ job.pc = "loaded"
    /\ job' = [job EXCEPT !.pc =
          IF validate_state_dir_evidence_projection_before_materialization
          THEN "claimed" ELSE "refused"]
    /\ UNCHANGED <<log, evidence, sidecar, tracked, planText, shelf, artifact,
                   late, receipts, edits, touched>>

\* The projection, then its fingerprint file; or an export alone, which no
\* command reads.
WriteEvidence ==
    /\ job.pc = "claimed"
    /\ LET doc == render_evidence_projection_source(job.text, job.attempts)
       IN  IF job.mode = "state_dir_only"
           THEN evidence' = doc /\ touched' = FALSE
           ELSE UNCHANGED <<evidence, touched>>
    /\ job' = [job EXCEPT !.pc =
          IF job.mode = "state_dir_only" THEN "evidence written" ELSE "late stage"]
    /\ UNCHANGED <<log, sidecar, tracked, planText, shelf, artifact, late, receipts,
                   edits>>

WriteSidecar ==
    /\ job.pc = "evidence written"
    /\ sidecar' = render_evidence_projection_source(job.text, job.attempts)
    /\ job' = [job EXCEPT !.pc = "late stage"]
    /\ UNCHANGED <<log, evidence, tracked, planText, shelf, artifact, late, receipts,
                   edits, touched>>

\* The artifact under the recorded fingerprint.  An altered final review and
\* a damaged test plan stop the command, any other is passed over.
read_authoritative_projection_file(k) ==
    CASE artifact[k] = "genuine" -> "genuine"
      [] artifact[k] = "missing" -> IF k = "test-plan" THEN "refused" ELSE "absent"
      [] artifact[k] = "altered" ->
            IF k \in {"final-review", "test-plan"} THEN "refused" ELSE "absent"

\* The projection of a milestone is its artifact, or is rendered again from
\* its record.
Regenerated(k) ==
    IF artifact[k] = "none" THEN late[k]
    ELSE IF read_authoritative_projection_file(k) = "absent" THEN "rendered"
    ELSE read_authoritative_projection_file(k)

\* The order in which the projections of the milestones are written.
LateOrder ==
    SelectSeq(<<"branch-closure", "release-docs", "final-review", "test-plan", "browser-qa">>,
              LAMBDA k : k \in LateKinds)

Reached(i) == \A j \in 1..i : Regenerated(LateOrder[j]) # "refused"

\* The projections are written one after the other; the first refusal ends
\* the command, and those written before it stay.
materialize_late_stage_projection_artifacts ==
    /\ job.pc = "late stage"
    /\ late' = [k \in LateKinds |->
                  IF \E i \in 1..Len(LateOrder) : LateOrder[i] = k /\ Reached(i)
                  THEN Regenerated(k) ELSE late[k]]
    /\ job' = IF Reached(Len(LateOrder)) /\ job.mode = "state_dir_only"
              THEN [job EXCEPT !.pc = "receipts", !.closed = log.closed]
              ELSE Idle
    /\ UNCHANGED <<log, evidence, sidecar, tracked, planText, shelf, artifact,
                   receipts, edits, touched>>

\* With the write authority given back, a receipt is written for the latest
\* attempt of every step of a closed task, if the loaded context says it is
\* completed; each step is a task here.
materialize_task_review_receipts ==
    /\ job.pc = "receipts"
    /\ receipts' = [s \in StepSet |->
          LET mine == OfStep(job.attempts, s)
          IN  IF s \in job.closed /\ mine # <<>> /\ Last(mine).status = "Completed"
              THEN Last(mine).n ELSE receipts[s]]
    /\ job' = Idle
    /\ UNCHANGED <<log, evidence, sidecar, tracked, planText, shelf, artifact,
                   late, edits, touched>>

Refused ==
    /\ job.pc = "refused"
    /\ job' = Idle
    /\ UNCHANGED <<log, evidence, sidecar, tracked, planText, shelf, artifact,
                   late, receipts, edits, touched>>

-----------------------------------------------------------------------------
(* Faults and hand edits.                                                  *)

\* Killed between the projection and its fingerprint file, the process leaves
\* the two apart.
Killed ==
    /\ edits < MaxEdits
    /\ job.pc \in {"claimed", "evidence written"}
    /\ touched' = (touched \/ job.pc = "evidence written")
    /\ job' = Idle
    /\ edits' = edits + 1
    /\ UNCHANGED <<log, evidence, sidecar, tracked, planText, shelf, artifact, late,
                   receipts>>

Hand == edits < MaxEdits /\ edits' = edits + 1

\* Someone deletes, comments, trims, reorders or rewrites the evidence file.
EditEvidence ==
    /\ Hand
    /\ evidence # NoDoc
    /\ \/ evidence' = NoDoc
       \/ evidence' = [evidence EXCEPT !.comment = TRUE]
       \/ evidence' = [evidence EXCEPT !.fmt = "broken"]
       \/ evidence' = [evidence EXCEPT !.attempts = Reverse(@)]
       \/ evidence' = [evidence EXCEPT !.attempts = <<>>]
    /\ touched' = TRUE
    /\ UNCHANGED <<log, sidecar, tracked, planText, shelf, artifact, late,
                   receipts, job>>

\* An evidence file appears in the repository, in the old or the new format.
EditTracked ==
    /\ Hand
    /\ \E fmt \in {"legacy", "v2"} :
          tracked' = [fmt |-> fmt, plan |-> planText, comment |-> FALSE,
                      attempts |-> <<[step |-> Head(PlanSteps), n |-> 1,
                                      status |-> "Completed"]>>]
    /\ UNCHANGED <<log, evidence, sidecar, planText, shelf, artifact, late, receipts, job,
                   touched>>

EditPlan ==
    /\ Hand
    /\ planText' \in PlanTexts \ {planText}
    /\ UNCHANGED <<shelf, log, evidence, sidecar, tracked, artifact, late, receipts, job,
                   touched>>

\* The plan or its spec loses its approval, or another plan of the spec is
\* approved too.
EditApproval ==
    /\ Hand
    /\ shelf' \in {"unapproved", "rival", "approved"} \ {shelf}
    /\ UNCHANGED <<log, evidence, sidecar, tracked, planText, artifact, late,
                   receipts, job, touched>>

DamageArtifact(k) ==
    /\ Hand
    /\ artifact[k] # "none"
    /\ \E a \in {"altered", "missing"} : artifact' = [artifact EXCEPT ![k] = a]
    /\ UNCHANGED <<log, evidence, sidecar, tracked, planText, shelf, late, receipts, job,
                   touched>>

-----------------------------------------------------------------------------
NoLog == [attempts |-> NoDoc, fp |-> NoDoc, done |-> {}, open |-> NoDoc, closed |-> {}]

\* A new plan, or one whose completed steps were migrated without attempts.
pjInit ==
    /\ \E done \in {{}, {Head(PlanSteps)}} : log = [NoLog EXCEPT !.done = done]
    /\ evidence = NoDoc /\ sidecar = NoDoc /\ tracked = NoDoc
    /\ planText = 1
    /\ shelf = "approved"
    /\ artifact = [k \in LateKinds |-> "none"]
    /\ late = [k \in LateKinds |-> "none"]
    /\ receipts = [s \in StepSet |-> 0]
    /\ job = Idle
    /\ edits = 0
    /\ touched = FALSE

pjNext ==
    \/ \E s \in StepSet : BeginStep(s) \/ CompleteStep(s) \/ ReopenStep(s) \/ CloseTask(s)
    \/ MaterializeLoads \/ MaterializeClaims \/ WriteEvidence \/ WriteSidecar
    \/ materialize_late_stage_projection_artifacts
    \/ materialize_task_review_receipts \/ Refused \/ Killed
    \/ EditEvidence \/ EditTracked \/ EditPlan \/ EditApproval
    \/ \E k \in LateKinds : publish_authoritative_artifact(k) \/ DamageArtifact(k)

pjSpec == pjInit /\ [][pjNext]_pjVars

-----------------------------------------------------------------------------
(* Properties.                                                             *)

\* Once the log has recorded attempts, the context of an approved plan carries
\* exactly them, and no
\* state of the projection files makes it unloadable: projections are read
\* models, never the authority.
LogOwnsTheEvidence ==
    \A loads \in {load_execution_context_for_mutation, load_execution_context_for_exact_plan} :
        loads.owned /\ loads.admitted => loads.ok /\ loads.attempts = loads.mine

\* materialize-projections refuses the projection it finds only when a person
\* changed it, or when a crash came between the projection and its fingerprint
\* file; a projection that is merely old is replaced.
RefusedMeansTouched ==
    job.pc = "refused" => touched
=============================================================================
