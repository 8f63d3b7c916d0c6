---------------------------- MODULE RecordProofs ----------------------------
(***************************************************************************)
(* Proofs about the components that keep records and files: the guard of   *)
(* the live state directory (ControlPlane), the order in which an artifact *)
(* is published (ArtifactRecord), the closure records and the graph that   *)
(* is derived from them (ClosureRecords), and the evidence projection with *)
(* its readers (Projections).                                              *)
(*                                                                         *)
(* A record is under way in stages; arInv says what each stage has already *)
(* put on disk, which is what a failed or killed record leaves behind.     *)
(* Settled says what the last evaluation left, which is why a replay finds *)
(* nothing to change, and RequiredOK why it is accepted; Counted relates the verdicts in the state to the     *)
(* history: reports are recorded in the order of their sequences, so the   *)
(* latest file of an evaluator is its latest recorded report, unless a     *)
(* file was never recorded.                                                *)
(* LedgerOK says how the overlay, the history and the superseded ids of    *)
(* the task closures hang together, StagesOK that what is bound was        *)
(* recorded on top of what is bound before it.                             *)
(* pjInv says that recorded attempts are numbered, so that what is rendered*)
(* of them parses again, and that a projection nobody touched is the one   *)
(* its fingerprint file is of.                                             *)
(***************************************************************************)
EXTENDS ControlPlane, ArtifactRecord, ClosureRecords, Projections, ListProofs, FiniteSetTheorems

-----------------------------------------------------------------------------
(***************************************************************************)
(* The live state directory.                                               *)
(***************************************************************************)
\* The workflow and execution state in the live directory is changed only by the
\* file the installed path runs, whatever binaries are placed and linked where:
\* classify_control_plane_source calls nothing else installed.  What the commands
\* without a guard write there, for any binary, is preferences, the update cache
\* and the log they import from an older runtime's state.
THEOREM LiveStateGuarded == cpSpec => []LiveBelongsToTheInstall
<1>1. cpInit => LiveBelongsToTheInstall
  BY DEF cpInit, LiveBelongsToTheInstall, NoCommand
<1>2. LiveBelongsToTheInstall /\ [cpNext]_cpVars => LiveBelongsToTheInstall'
  <2> SUFFICES ASSUME LiveBelongsToTheInstall, [cpNext]_cpVars
               PROVE  LiveBelongsToTheInstall'
    OBVIOUS
  <2>1. ASSUME NEW i \in Invocations, MutatingCommand(i)
        PROVE  LiveBelongsToTheInstall'
    <3> DEFINE real == canonicalize_or_self(place, i.by)
               home == canonicalize_or_self(place, "installed")
               source == classify_control_plane_source(place, i)
               kind == classify_state_dir_kind(aliasMade, i.dir)
    <3>1. i.by \in Spots /\ i.exe \in {"as started", "resolved", "none"}
      BY <2>1 DEF Invocations
    <3>2. place[real] = "file"
      BY <2>1 DEF MutatingCommand, Writes
    <3>3. /\ ran'.live = (LiveItself(i) \/ i.dir = "alias")
          /\ ran'.unmade = (i.dir = "alias" /\ ~aliasMade)
          /\ ran'.allow = i.allow
          /\ ran'.file = real
          /\ ran'.installed = home
          /\ ran'.repo = i.repo
      BY <2>1 DEF MutatingCommand, Writes
    <3>4. ASSUME ran'.live, ~ran'.allow, ~ran'.unmade
          PROVE  source = "installed"
      <4>1. kind = "live"
        BY <3>3, <3>4 DEF classify_state_dir_kind, LiveItself
      <4> QED
        BY <2>1, <3>3, <3>4, <4>1
           DEF MutatingCommand, deny_workspace_runtime_live_mutation
    <3>5. ASSUME source = "installed"
          PROVE  real = home /\ (real = "checkout" => i.repo # "checkout")
      <4>1. CASE i.exe = "none"
        BY <3>5, <4>1 DEF classify_control_plane_source, binary_realpath, binary_path
      <4>2. CASE i.exe # "none"
        <5>1. binary_realpath(place, i) = real
          BY <4>2 DEF binary_realpath
        <5>2. real \in Spots \cup {place[i.by], place[place[i.by]]}
          BY <3>1 DEF canonicalize_or_self
        <5>3. CASE real = "installed"
          <6>1. home = "installed"
            BY <3>2, <5>3 DEF canonicalize_or_self, Spots
          <6> QED
            BY <5>3, <6>1
        <5>4. CASE real # "installed"
          <6>1. /\ ~WithinRepo(real, i.repo)
                /\ real = home \/ binary_path(place, i) = "installed"
            BY <3>5, <4>2, <5>1, <5>4, <3>1 DEF classify_control_plane_source
          <6>2. binary_path(place, i) = "installed" => i.by = "installed"
            BY <3>1, <4>2, <5>4 DEF binary_path
          <6> QED
            BY <6>1, <6>2 DEF WithinRepo
        <5> QED
          BY <5>3, <5>4
      <4> QED
        BY <4>1, <4>2
    <3> QED
      BY <3>3, <3>4, <3>5 DEF LiveBelongsToTheInstall, ByTheInstall
  <2>2. ASSUME ran' = NoCommand
        PROVE  LiveBelongsToTheInstall'
    BY <2>2 DEF LiveBelongsToTheInstall, NoCommand
  <2>3. CASE cpNext
    <3>1. ASSUME NEW p \in Spots, PlaceBinary(p)
          PROVE  ran' = NoCommand
      BY <3>1 DEF PlaceBinary
    <3>2. ASSUME NEW c \in Channels, LinkSkills(c)
          PROVE  ran' = NoCommand
      BY <3>2 DEF LinkSkills
    <3>3. CommandOver => ran' = NoCommand
      BY DEF CommandOver
    <3>4. ASSUME NEW i \in Invocations, DoctorSelfHosting(i)
          PROVE  ran' = NoCommand
      BY <3>4 DEF DoctorSelfHosting
    <3>5. ASSUME NEW i \in Invocations, SettingsCommand(i)
          PROVE  LiveBelongsToTheInstall'
      <4>1. ran'.wrote \in {"config", "update_cache"}
        BY <3>5 DEF SettingsCommand, Writes
      <4> QED
        BY <4>1 DEF LiveBelongsToTheInstall
    <3>6. ASSUME NEW i \in Invocations, ReadingCommand(i)
          PROVE  LiveBelongsToTheInstall'
      <4>1. ran'.wrote = "event_log" /\ ran'.over = "older_state"
        BY <3>6 DEF ReadingCommand, Writes
      <4> QED
        BY <4>1 DEF LiveBelongsToTheInstall
    <3> QED
      BY <2>1, <2>2, <2>3, <3>1, <3>2, <3>3, <3>4, <3>5, <3>6 DEF cpNext
  <2>4. CASE UNCHANGED cpVars
    BY <2>4 DEF cpVars, LiveBelongsToTheInstall, ByTheInstall
  <2> QED
    BY <2>3, <2>4
<1> QED
  BY <1>1, <1>2, PTL DEF cpSpec

-----------------------------------------------------------------------------
(***************************************************************************)
(* Artifacts are published in order.                                       *)
(***************************************************************************)
\* The stages of a record under way.
Stages == {"artifact", "index", "observability", "append", "state",
           "replay_artifact", "replay_index"}

\* The fields of the authoritative state that records read and write.
Fields == {"phase", "contract", "required", "completed", "pending", "nonPassing",
           "failed", "blocked", "aggregate", "report", "retry", "threshold",
           "handoffRequired", "open", "seq"}

\* A state with the fields of the authoritative state.
StateLike(s) == DOMAIN s = Fields /\ s = [f \in Fields |-> s[f]]

\* The state keeps its fields; a record under way is one.
ShapeOK ==
    /\ StateLike(st)
    /\ \/ writing = None
       \/ writing \in [artifact : Artifacts, stage : Stages, wrote : BOOLEAN]

\* What a record under way has done: before its artifact is written there is
\* nothing to take back; the artifact it wrote is not indexed before the index
\* is written; after that it is.
StageOK ==
    writing # None =>
        /\ writing.stage \in {"artifact", "replay_artifact"} => ~writing.wrote
        /\ writing.stage \in {"index", "replay_index"} =>
              /\ writing.artifact \in artifacts
              /\ writing.wrote => writing.artifact \notin indexed
        /\ writing.stage \in {"observability", "append", "state"} =>
              writing.artifact \in indexed

\* The inductive invariant; a write that fails after the index ends it.
arInv == ShapeOK /\ PublishedInOrder /\ (takenBack \/ StageOK)

\* The three kinds of artifacts.
LEMMA KindOfArtifact ==
    ASSUME NEW a \in Artifacts
    PROVE  a.kind \in {"contract", "evaluation", "handoff"}
<1>1. CASE a \in Contracts
  BY <1>1 DEF Contracts
<1>2. CASE a \in Handoffs
  BY <1>2 DEF Handoffs
<1>3. CASE a \in Reports
  <2>1. PICK e \in SetOf(Evaluators) :
          a \in [kind : {"evaluation"}, seq : 1..MaxSequence, by : {e},
                 verdict : {"pass"}, failing : {{}}]
                \cup [kind : {"evaluation"}, seq : 1..MaxSequence, by : {e},
                      verdict : {"fail", "blocked"}, failing : (SUBSET CriteriaOf(e)) \ {{}}]
    BY <1>3, Zenon DEF Reports
  <2> QED
    BY <2>1
<1> QED
  BY <1>1, <1>2, <1>3 DEF Artifacts

\* The state with the verdict of an older report of the evaluator taken out.
Superseded(b, a) ==
    [b EXCEPT !.pending = remove_value(@, a.by), !.completed = push_unique(@, a.by),
              !.failed = remove_value(@, a.by), !.blocked = remove_value(@, a.by),
              !.open = Dropped(@, CriteriaOf(a.by)),
              !.report = a]

LEMMA SupersededFields ==
    ASSUME NEW b, StateLike(b), NEW a
    PROVE  /\ StateLike(Superseded(b, a))
           /\ Superseded(b, a).pending = remove_value(b.pending, a.by)
           /\ Superseded(b, a).completed = push_unique(b.completed, a.by)
           /\ Superseded(b, a).failed = remove_value(b.failed, a.by)
           /\ Superseded(b, a).blocked = remove_value(b.blocked, a.by)
           /\ Superseded(b, a).open = Dropped(b.open, CriteriaOf(a.by))
           /\ Superseded(b, a).report = a
           /\ \A f \in {"phase", "contract", "required", "nonPassing", "aggregate", "retry",
                        "threshold", "handoffRequired", "seq"} : Superseded(b, a)[f] = b[f]
  BY DEF Superseded, StateLike, Fields

LEMMA VerdictFields ==
    ASSUME NEW s, StateLike(s), NEW a
    PROVE  /\ StateLike(Verdict(s, a))
           /\ \A f \in Fields \ {"failed", "blocked", "retry", "open"} : Verdict(s, a)[f] = s[f]
           /\ a.verdict = "pass" => Verdict(s, a) = s
           /\ a.verdict # "pass" =>
                 /\ Verdict(s, a).failed =
                       IF a.verdict = "fail" THEN push_unique(s.failed, a.by) ELSE s.failed
                 /\ Verdict(s, a).blocked =
                       IF a.verdict = "blocked" THEN push_unique(s.blocked, a.by) ELSE s.blocked
                 /\ Verdict(s, a).retry =
                       IF a.verdict = "fail" /\ s.seq < a.seq THEN s.retry + 1 ELSE s.retry
                 /\ Verdict(s, a).open = s.open \o Kept(Criteria, a.failing \ SetOf(s.open))
  BY DEF Verdict, StateLike, Fields

LEMMA EvaluationSteps ==
    ASSUME NEW s, NEW a
    PROVE  EvaluationApplied(s, a) =
             recompute_authoritative_evaluator_state(
                 Verdict(Superseded(bootstrap_verdict_buckets_from_legacy_state(s), a), a))
  BY DEF EvaluationApplied, Superseded

\* Two states with the same fields are the same state.
LEMMA SameState ==
    ASSUME NEW s, StateLike(s), NEW t, StateLike(t), \A f \in Fields : s[f] = t[f]
    PROVE  s = t
  BY DEF StateLike

\* What recomputing the state from the verdicts changes.
LEMMA RecomputeFields ==
    ASSUME NEW s, StateLike(s)
    PROVE  LET r == recompute_authoritative_evaluator_state(s) IN
           /\ StateLike(r)
           /\ \A f \in Fields \ {"nonPassing", "phase", "handoffRequired", "aggregate", "open"} :
                 r[f] = s[f]
           /\ r.nonPassing = NonPassing(s)
           /\ r.open = IF s.blocked = <<>> /\ s.failed = <<>> /\ s.pending = <<>>
                       THEN <<>> ELSE s.open
  BY DEF recompute_authoritative_evaluator_state, StateLike, Fields

\* An evaluation keeps the contract and names itself as the report.
LEMMA EvaluationNames ==
    ASSUME NEW s, StateLike(s), NEW a
    PROVE  /\ StateLike(EvaluationApplied(s, a))
           /\ EvaluationApplied(s, a).contract = s.contract
           /\ EvaluationApplied(s, a).required = s.required
           /\ EvaluationApplied(s, a).report = a
<1> DEFINE b == bootstrap_verdict_buckets_from_legacy_state(s)
           u == Superseded(b, a)
           v == Verdict(u, a)
           r == recompute_authoritative_evaluator_state(v)
<1>1. StateLike(b) /\ b.contract = s.contract /\ b.required = s.required
  BY DEF bootstrap_verdict_buckets_from_legacy_state, StateLike, Fields
<1> HIDE DEF b
<1>2. StateLike(u) /\ u.contract = s.contract /\ u.required = s.required /\ u.report = a
  <2>1. StateLike(b)
    BY <1>1
  <2>2. StateLike(u) /\ u.report = a
        /\ \A f \in {"phase", "contract", "required", "nonPassing", "aggregate", "retry",
                     "threshold", "handoffRequired", "seq"} : u[f] = b[f]
    BY <2>1, SupersededFields
  <2> HIDE DEF u
  <2> QED
    BY <1>1, <2>2
<1> HIDE DEF u
<1>3. StateLike(v) /\ v.contract = s.contract /\ v.required = s.required /\ v.report = a
  <2>1. StateLike(u)
    BY <1>2
  <2>2. /\ StateLike(v)
        /\ \A f \in Fields \ {"failed", "blocked", "retry", "open"} : v[f] = u[f]
    BY <2>1, VerdictFields
  <2> HIDE DEF v
  <2> QED
    BY <1>2, <2>2 DEF Fields
<1> HIDE DEF v
<1>4. StateLike(r) /\ r.contract = s.contract /\ r.required = s.required /\ r.report = a
  BY <1>3, RecomputeFields DEF Fields
<1>5. EvaluationApplied(s, a) = r
  BY EvaluationSteps DEF b, u, v
<1> QED
  BY <1>4, <1>5

\* A transition names the artifacts that the state named, or its own.
LEMMA TransitionNames ==
    ASSUME NEW s, StateLike(s), NEW a \in Artifacts
    PROVE  /\ StateLike(apply_transition(s, a))
           /\ apply_transition(s, a).contract \in {s.contract, a}
           /\ apply_transition(s, a).report \in {s.report, None, a}
<1>1. a.kind \in {"contract", "evaluation", "handoff"}
  BY KindOfArtifact
<1>2. CASE a.kind = "contract"
  <2>1. apply_transition(s, a) = ContractApplied(s, a)
    BY <1>2 DEF apply_transition
  <2> QED
    BY <2>1 DEF ContractApplied, StateLike, Fields
<1>3. CASE a.kind = "evaluation"
  <2>1. apply_transition(s, a) = EvaluationApplied(s, a)
    BY <1>3 DEF apply_transition
  <2> QED
    BY <2>1, EvaluationNames
<1>4. CASE a.kind = "handoff"
  <2>1. apply_transition(s, a) = HandoffApplied(s, a)
    BY <1>4 DEF apply_transition
  <2> QED
    BY <2>1 DEF HandoffApplied, StateLike, Fields
<1> QED
  BY <1>1, <1>2, <1>3, <1>4

\* An event changes the names only if it carries their fields.
LEMMA ReducedNames ==
    ASSUME NEW s, StateLike(s), NEW n, NEW fields
    PROVE  /\ StateLike(Reduced(s, n, fields))
           /\ Reduced(s, n, fields).contract = IF "contract" \in fields THEN n.contract ELSE s.contract
           /\ Reduced(s, n, fields).report = IF "report" \in fields THEN n.report ELSE s.report
  BY DEF StateLike, Fields, Reduced

\* The event of a record names what the state named, or its own artifact.
LEMMA AppendedNames ==
    ASSUME StateLike(st), writing.artifact \in Artifacts, Appended
    PROVE  /\ StateLike(st')
           /\ {st'.contract, st'.report} \subseteq
                {st.contract, st.report, None, writing.artifact}
<1> DEFINE a == writing.artifact
           next == [apply_transition(st, a) EXCEPT !.seq = a.seq]
<1>1. /\ StateLike(apply_transition(st, a))
      /\ apply_transition(st, a).contract \in {st.contract, a}
      /\ apply_transition(st, a).report \in {st.report, None, a}
  BY TransitionNames
<1>2. next.contract \in {st.contract, a} /\ next.report \in {st.report, None, a}
  BY <1>1 DEF StateLike, Fields
<1>3. st' = Reduced(st, next, EventFields(a))
  BY DEF Appended
<1> HIDE DEF next
<1> QED
  BY <1>2, <1>3, ReducedNames

\* Every step keeps it.
LEMMA arStep == arInv /\ [arNext]_arVars => arInv'
<1> SUFFICES ASSUME arInv, [arNext]_arVars PROVE arInv'
  OBVIOUS
<1> USE DEF Stages
<1>1. StateLike(st) /\ (writing # None =>
        writing \in [artifact : Artifacts, stage : Stages, wrote : BOOLEAN])
  BY DEF arInv, ShapeOK
<1>2. PublishedInOrder /\ (takenBack \/ StageOK)
  BY DEF arInv
<1>3. ASSUME NEW a \in Artifacts, Begin(a) PROVE arInv'
  <2>1. PICK stage \in {"artifact", "replay_artifact"} :
           writing' = [artifact |-> a, stage |-> stage, wrote |-> FALSE]
    BY <1>3 DEF Begin, Enter
  <2>2. /\ writing' \in [artifact : Artifacts, stage : Stages, wrote : BOOLEAN]
        /\ writing'.stage \in {"artifact", "replay_artifact"}
        /\ ~writing'.wrote
    BY <1>3, <2>1
  <2>3. UNCHANGED <<st, artifacts, indexed, takenBack>>
    BY <1>3 DEF Begin
  <2> QED
    BY <1>1, <1>2, <2>2, <2>3 DEF arInv, ShapeOK, PublishedInOrder, StageOK
<1>4. CASE WriteArtifact
  BY <1>1, <1>2, <1>4 DEF WriteArtifact, arInv, ShapeOK, PublishedInOrder, StageOK
<1>5. CASE persist_dependency_index_after_authoritative_record
  BY <1>1, <1>2, <1>5 DEF persist_dependency_index_after_authoritative_record,
     arInv, ShapeOK, PublishedInOrder, StageOK
<1>6. CASE persist_observability_after_authoritative_record
  BY <1>1, <1>2, <1>6 DEF persist_observability_after_authoritative_record,
     arInv, ShapeOK, PublishedInOrder, StageOK
<1>7. CASE AppendEvent
  <2>1. /\ StateLike(st')
        /\ {st'.contract, st'.report} \subseteq
              {st.contract, st.report, None, writing.artifact}
    BY <1>1, <1>7, AppendedNames DEF AppendEvent
  <2> QED
    BY <1>1, <1>2, <1>7, <2>1 DEF AppendEvent, arInv, ShapeOK, PublishedInOrder, StageOK
<1>8. CASE WriteState
  BY <1>1, <1>2, <1>8 DEF WriteState, arInv, ShapeOK, PublishedInOrder, StageOK
<1>9. CASE WriteFails
  BY <1>1, <1>2, <1>9 DEF WriteFails, Fault, RemoveWritten,
     arInv, ShapeOK, PublishedInOrder, StageOK
<1>10. CASE AppendFails
  <2>1. StateLike(st')
    <3>1. CASE Appended
      BY <1>1, <1>10, <3>1, AppendedNames DEF AppendFails, Fault
    <3> QED
      BY <1>1, <1>10, <3>1 DEF AppendFails
  <2> QED
    BY <1>10, <2>1 DEF AppendFails, Fault, arInv, ShapeOK, PublishedInOrder
<1>11. CASE Interrupted
  BY <1>1, <1>2, <1>11 DEF Interrupted, Fault, arInv, ShapeOK, PublishedInOrder, StageOK
<1>12. ASSUME NEW n, StepCommand(n) PROVE arInv'
  <2>1. /\ StateLike(st')
        /\ st'.contract = st.contract /\ st'.report = st.report
    BY <1>1, <1>12, ReducedNames DEF StepCommand, STEP_EVENT_FIELDS
  <2> QED
    BY <1>1, <1>2, <1>12, <2>1 DEF StepCommand, arInv, ShapeOK, PublishedInOrder, StageOK
<1>13. CASE Execute
  BY <1>12, <1>13 DEF Execute
<1>14. CASE apply_note_reset_policy
  BY <1>12, <1>14, Zenon DEF apply_note_reset_policy
<1>15. CASE OlderRuntime
  <2>1. /\ StateLike(st')
        /\ st'.contract = st.contract /\ st'.report = st.report
    BY <1>1, <1>15 DEF OlderRuntime, StateLike, Fields
  <2> QED
    BY <1>1, <1>2, <1>15, <2>1 DEF OlderRuntime, arInv, ShapeOK, PublishedInOrder, StageOK
<1>16. CASE UNCHANGED arVars
  BY <1>1, <1>2, <1>16 DEF arVars, arInv, ShapeOK, PublishedInOrder, StageOK
<1> QED
  BY <1>3, <1>4, <1>5, <1>6, <1>7, <1>8, <1>9, <1>10, <1>11, <1>13, <1>14, <1>15, <1>16
     DEF arNext

LEMMA arStart == arInit => arInv
  BY DEF arInit, arInv, ShapeOK, StateLike, Fields, PublishedInOrder, StageOK

LEMMA Published == arSpec => []arInv
  BY arStart, arStep, PTL DEF arSpec

\* However many records are interrupted, fail or are replayed, what the state
\* names is indexed and what is indexed is on disk, until a write fails after
\* the index (record_contract, record_evaluation and record_handoff).
THEOREM RecordsPublished == arSpec => []PublishedInOrder
<1>1. arInv => PublishedInOrder
  BY DEF arInv
<1> QED
  BY <1>1, Published, PTL

-----------------------------------------------------------------------------
(***************************************************************************)
(* A record that is sent again changes nothing.                            *)
(***************************************************************************)
\* The lists of a state.
ListsOK(s) ==
    /\ StateLike(s)
    /\ {s.required, s.completed, s.pending, s.nonPassing, s.failed, s.blocked}
          \subseteq Seq(SetOf(Evaluators))
    /\ s.open \in Seq(SetOf(Criteria))

\* A list that ends with v if it has to, and has it nowhere else.
EndsWith(s, v, last) ==
    \E r \in Seq(SetOf(Evaluators)) : v \notin SetOf(r) /\ s = IF last THEN Append(r, v) ELSE r

\* The open criteria are some that others own, and then those of the report.
OpenEndsWith(s, a) ==
    \E o \in Seq(SetOf(Criteria)) :
        SetOf(o) \cap CriteriaOf(a.by) = {} /\ s.open = o \o Kept(Criteria, a.failing)

\* What the last evaluation leaves: its report and its evaluator are in their
\* places, and the state is the one computed from the verdicts.
Settled(s, a) ==
    /\ s.report = a /\ s.seq = a.seq
    /\ a.by \in SetOf(s.completed) /\ a.by \notin SetOf(s.pending)
    /\ EndsWith(s.failed, a.by, a.verdict = "fail")
    /\ EndsWith(s.blocked, a.by, a.verdict = "blocked")
    /\ OpenEndsWith(s, a)
    /\ recompute_authoritative_evaluator_state(s) = s

\* A report is what an evaluator says of criteria it owns.
LEMMA ReportFields ==
    ASSUME NEW a \in Artifacts, a.kind = "evaluation"
    PROVE  /\ a.by \in SetOf(Evaluators) /\ a.seq \in 1..MaxSequence
           /\ a.verdict \in {"pass", "fail", "blocked"}
           /\ a.failing \subseteq CriteriaOf(a.by)
           /\ a.verdict = "pass" => a.failing = {}
<1>1. a \in Reports
  BY DEF Artifacts, Contracts, Handoffs
<1>2. PICK e \in SetOf(Evaluators) :
        a \in [kind : {"evaluation"}, seq : 1..MaxSequence, by : {e},
               verdict : {"pass"}, failing : {{}}]
              \cup [kind : {"evaluation"}, seq : 1..MaxSequence, by : {e},
                    verdict : {"fail", "blocked"}, failing : (SUBSET CriteriaOf(e)) \ {{}}]
  BY <1>1, Zenon DEF Reports
<1> QED
  BY <1>2

LEMMA ReportKind ==
    ASSUME NEW a \in Reports
    PROVE  a.kind = "evaluation"
<1>1. PICK e \in SetOf(Evaluators) :
        a \in [kind : {"evaluation"}, seq : 1..MaxSequence, by : {e},
               verdict : {"pass"}, failing : {{}}]
              \cup [kind : {"evaluation"}, seq : 1..MaxSequence, by : {e},
                    verdict : {"fail", "blocked"}, failing : (SUBSET CriteriaOf(e)) \ {{}}]
  BY Zenon DEF Reports
<1> QED
  BY <1>1

\* What removing an evaluator leaves, and that it leaves the rest in place.
LEMMA RemoveOnce ==
    ASSUME NEW X, NEW s \in Seq(X), NEW v \in X
    PROVE  /\ remove_value(s, v) \in Seq(X)
           /\ SetOf(remove_value(s, v)) = SetOf(s) \ {v}
  BY KeptElements DEF remove_value, Dropped

LEMMA RemoveAgain ==
    ASSUME NEW X, NEW s \in Seq(X), NEW v \in X, v \notin SetOf(s)
    PROVE  /\ remove_value(s, v) = s
           /\ remove_value(Append(s, v), v) = s
<1>1. SetOf(s) \ {v} = SetOf(s) /\ SetOf(Append(s, v)) \ {v} = SetOf(s)
  BY SetOfAppend
<1>2. Kept(s, SetOf(s)) = s
  BY KeptWhole
<1>3. Kept(Append(s, v), SetOf(s)) = Kept(s, SetOf(s))
  BY KeptAppend
<1> QED
  BY <1>1, <1>2, <1>3 DEF remove_value, Dropped

LEMMA PushOnce ==
    ASSUME NEW X, NEW s \in Seq(X), NEW v \in X
    PROVE  /\ push_unique(s, v) \in Seq(X)
           /\ SetOf(push_unique(s, v)) = SetOf(s) \cup {v}
  BY SetOfAppend DEF push_unique

\* The open criteria of others stay when those of an evaluator are dropped.
LEMMA DropOpen ==
    ASSUME NEW s \in Seq(SetOf(Criteria)), NEW C
    PROVE  /\ Dropped(s, C) \in Seq(SetOf(Criteria))
           /\ SetOf(Dropped(s, C)) = SetOf(s) \ C
  BY KeptElements DEF Dropped

LEMMA DropOpenAgain ==
    ASSUME NEW s \in Seq(SetOf(Criteria)), NEW C, SetOf(s) \cap C = {}, NEW F, F \subseteq C
    PROVE  /\ Kept(Criteria, F) \in Seq(SetOf(Criteria))
           /\ s \o Kept(Criteria, F) \in Seq(SetOf(Criteria))
           /\ Dropped(s \o Kept(Criteria, F), C) = s
           /\ F \ SetOf(s) = F
<1> DEFINE k == Kept(Criteria, F)
           D == SetOf(s \o k) \ C
<1>1. k \in Seq(SetOf(Criteria)) /\ SetOf(k) \subseteq C
  BY KeptElements, ArtifactAssumption
<1> HIDE DEF k
<1>2. s \o k \in Seq(SetOf(Criteria)) /\ SetOf(s \o k) = SetOf(s) \cup SetOf(k)
  BY <1>1, SetOfConcat
<1>3. SetOf(s) \subseteq D /\ SetOf(k) \cap D = {}
  BY <1>1, <1>2
<1>4. Kept(s, D) = s /\ Kept(k, D) = <<>>
  <2> HIDE DEF D
  <2> QED
    BY <1>1, <1>3, KeptWhole, KeptNothing
<1>5. Kept(s \o k, D) = Kept(s, D) \o Kept(k, D)
  <2> HIDE DEF D
  <2> QED
    BY <1>1, KeptConcat
<1>6. s \o <<>> = s
  OBVIOUS
<1> QED
  BY <1>1, <1>2, <1>4, <1>5, <1>6 DEF k, Dropped

\* An older state is completed with evaluators it named.
LEMMA BootstrapLists ==
    ASSUME NEW s, ListsOK(s)
    PROVE  ListsOK(bootstrap_verdict_buckets_from_legacy_state(s))
<1> DEFINE f == Kept(s.nonPassing, WithLatest(s, "fail"))
           k == Kept(s.nonPassing, WithLatest(s, "blocked"))
           b == bootstrap_verdict_buckets_from_legacy_state(s)
<1>1. {f, k, s.nonPassing} \subseteq Seq(SetOf(Evaluators))
  BY KeptElements DEF ListsOK
<1>2. \/ b = s
      \/ b = [s EXCEPT !.failed = f, !.blocked = k]
      \/ b = [s EXCEPT !.blocked = s.nonPassing]
      \/ b = [s EXCEPT !.failed = s.nonPassing]
  BY DEF bootstrap_verdict_buckets_from_legacy_state
<1> HIDE DEF f, k, b
<1>3. ListsOK(b)
  BY <1>1, <1>2 DEF ListsOK, StateLike, Fields
<1> QED
  BY <1>3 DEF b

\* The evaluators that have not passed are evaluators, and there are none when
\* none has failed and none is blocked.
LEMMA NonPassingLists ==
    ASSUME NEW s, ListsOK(s)
    PROVE  /\ NonPassing(s) \in Seq(SetOf(Evaluators))
           /\ s.failed = <<>> /\ s.blocked = <<>> => NonPassing(s) = <<>>
<1> DEFINE both == SetOf(s.failed) \cup SetOf(s.blocked)
           fb == s.failed \o s.blocked
           out == SetOf(fb) \ SetOf(s.required)
<1>1. {s.required, s.failed, s.blocked} \subseteq Seq(SetOf(Evaluators))
  BY DEF ListsOK
<1>2. fb \in Seq(SetOf(Evaluators))
  BY <1>1
<1>3. NonPassing(s) = Kept(s.required, both) \o Kept(fb, out)
  BY DEF NonPassing, Dropped
<1>4. Kept(s.required, both) \in Seq(SetOf(Evaluators)) /\ Kept(fb, out) \in Seq(SetOf(Evaluators))
  <2> HIDE DEF fb, both, out
  <2> QED
    BY <1>1, <1>2, KeptElements
<1>5. ASSUME s.failed = <<>>, s.blocked = <<>> PROVE NonPassing(s) = <<>>
  <2>1. both = {} /\ fb = <<>>
    BY <1>5 DEF SetOf
  <2>2. Kept(s.required, both) = <<>>
    <3> HIDE DEF both
    <3> QED
      BY <1>1, <2>1, KeptNothing
  <2>3. Kept(fb, out) = <<>>
    BY <2>1, KeptEmpty
  <2>4. <<>> \o <<>> = <<>>
    OBVIOUS
  <2> QED
    BY <1>3, <2>2, <2>3, <2>4
<1>6. Kept(s.required, both) \o Kept(fb, out) \in Seq(SetOf(Evaluators))
  <2> HIDE DEF fb, both, out
  <2> QED
    BY <1>4
<1> QED
  BY <1>3, <1>5, <1>6

\* They are the evaluators that have failed or are blocked.
LEMMA NonPassingElements ==
    ASSUME NEW s, ListsOK(s)
    PROVE  SetOf(NonPassing(s)) = SetOf(s.failed) \cup SetOf(s.blocked)
<1> DEFINE both == SetOf(s.failed) \cup SetOf(s.blocked)
           fb == s.failed \o s.blocked
           out == SetOf(fb) \ SetOf(s.required)
<1>1. {s.required, s.failed, s.blocked} \subseteq Seq(SetOf(Evaluators))
  BY DEF ListsOK
<1>2. fb \in Seq(SetOf(Evaluators)) /\ SetOf(fb) = both
  BY <1>1, SetOfConcat
<1>3. NonPassing(s) = Kept(s.required, both) \o Kept(fb, out)
  BY DEF NonPassing, Dropped
<1> HIDE DEF fb, both
<1>4. Kept(s.required, both) \in Seq(SetOf(Evaluators))
      /\ SetOf(Kept(s.required, both)) = SetOf(s.required) \cap both
  BY <1>1, KeptElements
<1>5. Kept(fb, out) \in Seq(SetOf(Evaluators)) /\ SetOf(Kept(fb, out)) = SetOf(fb) \cap out
  BY <1>2, KeptElements
<1>6. SetOf(NonPassing(s)) = (SetOf(s.required) \cap both) \cup (SetOf(fb) \cap out)
  <2> DEFINE p == Kept(s.required, both)
             q == Kept(fb, out)
  <2> HIDE DEF p, q
  <2>1. p \in Seq(SetOf(Evaluators)) /\ q \in Seq(SetOf(Evaluators))
    BY <1>4, <1>5 DEF p, q
  <2>2. SetOf(p \o q) = SetOf(p) \cup SetOf(q)
    BY <2>1, SetOfConcat
  <2> QED
    BY <1>3, <1>4, <1>5, <2>2 DEF p, q
<1>7. SetOf(NonPassing(s)) = both
  BY <1>2, <1>6
<1> QED
  BY <1>7 DEF both

\* A state that is as the last evaluation left it stays as it is.
LEMMA SettledStays ==
    ASSUME NEW s, ListsOK(s), NEW a \in Artifacts, a.kind = "evaluation", Settled(s, a)
    PROVE  EvaluationApplied(s, a) = s
<1> DEFINE u == Superseded(s, a)
           v == Verdict(u, a)
<1>0. /\ StateLike(s)
      /\ {s.required, s.completed, s.pending, s.nonPassing, s.failed, s.blocked}
            \subseteq Seq(SetOf(Evaluators))
      /\ s.open \in Seq(SetOf(Criteria))
  BY DEF ListsOK
<1>1. /\ s.report = a /\ s.seq = a.seq
      /\ a.by \in SetOf(s.completed) /\ a.by \notin SetOf(s.pending)
      /\ recompute_authoritative_evaluator_state(s) = s
  BY DEF Settled
<1>2. /\ a.by \in SetOf(Evaluators) /\ a.seq \in 1..MaxSequence
      /\ a.verdict \in {"pass", "fail", "blocked"}
      /\ a.failing \subseteq CriteriaOf(a.by)
      /\ a.verdict = "pass" => a.failing = {}
  BY ReportFields
<1>3. bootstrap_verdict_buckets_from_legacy_state(s) = s
  <2>1. s.nonPassing = NonPassing(s)
    BY <1>0, <1>1, RecomputeFields
  <2> QED
    BY <2>1, NonPassingLists DEF bootstrap_verdict_buckets_from_legacy_state
<1>4. PICK r \in Seq(SetOf(Evaluators)) :
         a.by \notin SetOf(r) /\ s.failed = IF a.verdict = "fail" THEN Append(r, a.by) ELSE r
  BY DEF Settled, EndsWith
<1>5. PICK k \in Seq(SetOf(Evaluators)) :
         a.by \notin SetOf(k) /\ s.blocked = IF a.verdict = "blocked" THEN Append(k, a.by) ELSE k
  BY DEF Settled, EndsWith
<1>6. PICK o \in Seq(SetOf(Criteria)) :
         SetOf(o) \cap CriteriaOf(a.by) = {} /\ s.open = o \o Kept(Criteria, a.failing)
  BY DEF Settled, OpenEndsWith
<1>7. /\ remove_value(s.pending, a.by) = s.pending
      /\ push_unique(s.completed, a.by) = s.completed
      /\ remove_value(s.failed, a.by) = r
      /\ remove_value(s.blocked, a.by) = k
  BY <1>0, <1>1, <1>2, <1>4, <1>5, RemoveAgain DEF push_unique
<1>8. /\ Dropped(s.open, CriteriaOf(a.by)) = o
      /\ a.failing \ SetOf(o) = a.failing
  BY <1>2, <1>6, DropOpenAgain
<1>9. /\ StateLike(u)
      /\ u.failed = r /\ u.blocked = k /\ u.open = o
      /\ \A f \in Fields \ {"failed", "blocked", "open"} : u[f] = s[f]
  <2>1. /\ StateLike(u)
        /\ u.pending = remove_value(s.pending, a.by)
        /\ u.completed = push_unique(s.completed, a.by)
        /\ u.failed = remove_value(s.failed, a.by)
        /\ u.blocked = remove_value(s.blocked, a.by)
        /\ u.open = Dropped(s.open, CriteriaOf(a.by))
        /\ u.report = a
        /\ \A f \in {"phase", "contract", "required", "nonPassing", "aggregate", "retry",
                     "threshold", "handoffRequired", "seq"} : u[f] = s[f]
    BY <1>0, SupersededFields
  <2> HIDE DEF u
  <2>2. u.pending = s.pending /\ u.completed = s.completed /\ u.report = s.report
    BY <1>1, <1>7, <2>1
  <2> QED
    BY <1>7, <1>8, <2>1, <2>2 DEF Fields
<1>10. a.verdict = "pass" => s.open = o
  <2>1. Kept(Criteria, {}) = <<>>
    BY KeptNothing, ArtifactAssumption
  <2>2. o \o <<>> = o
    OBVIOUS
  <2> QED
    BY <1>2, <1>6, <2>1, <2>2
<1>11. StateLike(v) /\ \A f \in Fields : v[f] = s[f]
  <2> HIDE DEF u
  <2>1. StateLike(v)
    BY <1>9, VerdictFields
  <2>0. \A f \in Fields \ {"failed", "blocked", "retry", "open"} : v[f] = u[f]
    BY <1>9, VerdictFields
  <2>2. \A f \in Fields \ {"failed", "blocked", "retry", "open"} : v[f] = s[f]
    <3> HIDE DEF v
    <3> QED
      BY <1>9, <2>0
  <2>3. CASE a.verdict = "pass"
    <3>1. v = u
      BY <1>9, <2>3, VerdictFields
    <3>2. r = s.failed /\ k = s.blocked /\ o = s.open
      BY <1>4, <1>5, <1>10, <2>3
    <3> QED
      BY <1>9, <3>1, <3>2
  <2>4. CASE a.verdict # "pass"
    <3>1. /\ v.failed = IF a.verdict = "fail" THEN push_unique(r, a.by) ELSE r
          /\ v.blocked = IF a.verdict = "blocked" THEN push_unique(k, a.by) ELSE k
          /\ v.retry = IF a.verdict = "fail" /\ u.seq < a.seq THEN u.retry + 1 ELSE u.retry
          /\ v.open = o \o Kept(Criteria, a.failing \ SetOf(o))
      <4>1. /\ v.failed = IF a.verdict = "fail" THEN push_unique(u.failed, a.by) ELSE u.failed
            /\ v.blocked =
                 IF a.verdict = "blocked" THEN push_unique(u.blocked, a.by) ELSE u.blocked
            /\ v.retry = IF a.verdict = "fail" /\ u.seq < a.seq THEN u.retry + 1 ELSE u.retry
            /\ v.open = u.open \o Kept(Criteria, a.failing \ SetOf(u.open))
        BY <1>9, <2>4, VerdictFields
      <4> QED
        BY <1>9, <4>1
    <3>2. u.seq = a.seq /\ u.retry = s.retry
      BY <1>1, <1>9 DEF Fields
    <3>3. v.retry = s.retry
      BY <1>2, <3>1, <3>2
    <3>4. v.failed = s.failed /\ v.blocked = s.blocked
      BY <1>4, <1>5, <3>1 DEF push_unique
    <3>5. v.open = s.open
      BY <1>6, <1>8, <3>1
    <3> QED
      BY <2>1, <2>2, <3>3, <3>4, <3>5 DEF Fields
  <2> QED
    BY <2>3, <2>4, <2>1
<1>12. v = s
  <2> HIDE DEF v
  <2> QED
    BY <1>0, <1>11, SameState
<1> QED
  BY <1>1, <1>3, <1>12, EvaluationSteps

\* Recomputing the state keeps its lists lists.
LEMMA RecomputeLists ==
    ASSUME NEW s, ListsOK(s)
    PROVE  ListsOK(recompute_authoritative_evaluator_state(s))
<1> DEFINE r == recompute_authoritative_evaluator_state(s)
<1>1. StateLike(s)
  BY DEF ListsOK
<1>2. /\ StateLike(r)
      /\ \A f \in Fields \ {"nonPassing", "phase", "handoffRequired", "aggregate", "open"} :
            r[f] = s[f]
      /\ r.nonPassing = NonPassing(s)
      /\ r.open = IF s.blocked = <<>> /\ s.failed = <<>> /\ s.pending = <<>>
                  THEN <<>> ELSE s.open
  BY <1>1, RecomputeFields
<1>3. NonPassing(s) \in Seq(SetOf(Evaluators))
  BY NonPassingLists
<1> HIDE DEF r
<1>4. /\ r.required = s.required /\ r.completed = s.completed /\ r.pending = s.pending
      /\ r.failed = s.failed /\ r.blocked = s.blocked
  BY <1>2 DEF Fields
<1>5. r.open \in Seq(SetOf(Criteria))
  BY <1>2 DEF ListsOK
<1>6. ListsOK(r)
  BY <1>2, <1>3, <1>4, <1>5 DEF ListsOK
<1> QED
  BY <1>6 DEF r

\* Recomputing it once more changes nothing, whatever its sequence.
LEMMA RecomputeAgain ==
    ASSUME NEW s, StateLike(s), NEW q
    PROVE  LET r == [recompute_authoritative_evaluator_state(s) EXCEPT !.seq = q]
           IN  recompute_authoritative_evaluator_state(r) = r
<1> DEFINE e == recompute_authoritative_evaluator_state(s)
           r == [e EXCEPT !.seq = q]
           t == recompute_authoritative_evaluator_state(r)
<1>1. /\ StateLike(e)
      /\ \A f \in Fields \ {"nonPassing", "phase", "handoffRequired", "aggregate", "open"} :
            e[f] = s[f]
      /\ e.nonPassing = NonPassing(s)
  BY RecomputeFields
<1>2. /\ StateLike(r) /\ r.seq = q /\ \A f \in Fields \ {"seq"} : r[f] = e[f]
  <2> HIDE DEF e
  <2> QED
    BY <1>1 DEF StateLike, Fields
<1>3. NonPassing(r) = NonPassing(s)
  <2> HIDE DEF r, e
  <2> QED
    BY <1>1, <1>2 DEF NonPassing, Fields
<1> HIDE DEF r
<1>4. /\ StateLike(t)
      /\ \A f \in Fields \ {"nonPassing", "phase", "handoffRequired", "aggregate", "open"} :
            t[f] = r[f]
      /\ t.nonPassing = NonPassing(r)
  BY <1>2, RecomputeFields
<1>5. /\ t.phase = e.phase /\ t.handoffRequired = e.handoffRequired
      /\ t.aggregate = e.aggregate /\ t.open = e.open
  <2>1. r.threshold = s.threshold /\ r.retry = s.retry /\ r.blocked = s.blocked
        /\ r.failed = s.failed /\ r.pending = s.pending /\ r.open = e.open
    BY <1>1, <1>2 DEF Fields
  <2>2. CASE s.blocked # <<>>
    BY <1>2, <2>1, <2>2 DEF recompute_authoritative_evaluator_state, StateLike, Fields
  <2>3. CASE s.blocked = <<>> /\ s.failed # <<>>
    BY <1>2, <2>1, <2>3 DEF recompute_authoritative_evaluator_state, StateLike, Fields
  <2>4. CASE s.blocked = <<>> /\ s.failed = <<>> /\ s.pending = <<>>
    BY <1>2, <2>1, <2>4 DEF recompute_authoritative_evaluator_state, StateLike, Fields
  <2>5. CASE s.blocked = <<>> /\ s.failed = <<>> /\ s.pending # <<>>
    BY <1>2, <2>1, <2>5 DEF recompute_authoritative_evaluator_state, StateLike, Fields
  <2> QED
    BY <2>2, <2>3, <2>4, <2>5
<1>6. \A f \in Fields : t[f] = r[f]
  <2> HIDE DEF t, e
  <2> QED
    BY <1>1, <1>2, <1>3, <1>4, <1>5 DEF Fields
<1>7. t = r
  <2> HIDE DEF t
  <2> QED
    BY <1>2, <1>4, <1>6, SameState
<1> QED
  BY <1>7 DEF r

\* The state with the verdicts of the reports, before the rest is computed from
\* them.
Rated(s, a) == Verdict(Superseded(bootstrap_verdict_buckets_from_legacy_state(s), a), a)

\* The verdict of a report takes the place of the one its evaluator had.
RatedFrom(b, a, v) ==
    /\ StateLike(v)
    /\ v.report = a
    /\ v.pending = remove_value(b.pending, a.by)
    /\ v.completed = push_unique(b.completed, a.by)
    /\ v.failed = IF a.verdict = "fail" THEN Append(remove_value(b.failed, a.by), a.by)
                  ELSE remove_value(b.failed, a.by)
    /\ v.blocked = IF a.verdict = "blocked" THEN Append(remove_value(b.blocked, a.by), a.by)
                   ELSE remove_value(b.blocked, a.by)
    /\ v.open = Dropped(b.open, CriteriaOf(a.by)) \o Kept(Criteria, a.failing)
    /\ v.retry = IF a.verdict = "fail" /\ b.seq < a.seq THEN b.retry + 1 ELSE b.retry
    /\ v.required = b.required /\ v.nonPassing = b.nonPassing /\ v.contract = b.contract

LEMMA RemovedOrPushed ==
    ASSUME NEW l \in Seq(SetOf(Evaluators)), NEW v \in SetOf(Evaluators)
    PROVE  /\ remove_value(l, v) \in Seq(SetOf(Evaluators))
           /\ SetOf(remove_value(l, v)) = SetOf(l) \ {v}
           /\ push_unique(l, v) \in Seq(SetOf(Evaluators))
           /\ SetOf(push_unique(l, v)) = SetOf(l) \cup {v}
<1>1. /\ remove_value(l, v) \in Seq(SetOf(Evaluators))
      /\ SetOf(remove_value(l, v)) = SetOf(l) \ {v}
  BY RemoveOnce
<1>2. /\ push_unique(l, v) \in Seq(SetOf(Evaluators))
      /\ SetOf(push_unique(l, v)) = SetOf(l) \cup {v}
  BY PushOnce
<1> QED
  BY <1>1, <1>2

LEMMA RatedFields ==
    ASSUME NEW b, ListsOK(b), NEW a \in Artifacts, a.kind = "evaluation"
    PROVE  RatedFrom(b, a, Verdict(Superseded(b, a), a))
<1> DEFINE u == Superseded(b, a)
           v == Verdict(u, a)
           r == remove_value(b.failed, a.by)
           k == remove_value(b.blocked, a.by)
           o == Dropped(b.open, CriteriaOf(a.by))
<1>1. /\ a.by \in SetOf(Evaluators)
      /\ a.verdict \in {"pass", "fail", "blocked"}
      /\ a.failing \subseteq CriteriaOf(a.by)
      /\ a.verdict = "pass" => a.failing = {}
  BY ReportFields
<1>2. /\ StateLike(b) /\ b.open \in Seq(SetOf(Criteria))
      /\ b.failed \in Seq(SetOf(Evaluators)) /\ b.blocked \in Seq(SetOf(Evaluators))
  BY DEF ListsOK
<1>3. a.by \notin SetOf(r) /\ a.by \notin SetOf(k)
  <2>1. SetOf(r) = SetOf(b.failed) \ {a.by}
    BY <1>1, <1>2, RemovedOrPushed
  <2>2. SetOf(k) = SetOf(b.blocked) \ {a.by}
    BY <1>1, <1>2, RemovedOrPushed
  <2> QED
    BY <2>1, <2>2
<1>4. o \in Seq(SetOf(Criteria)) /\ SetOf(o) \cap CriteriaOf(a.by) = {}
  <2>1. o \in Seq(SetOf(Criteria)) /\ SetOf(o) = SetOf(b.open) \ CriteriaOf(a.by)
    BY <1>2, DropOpen
  <2> QED
    BY <2>1
<1>5. /\ StateLike(u)
      /\ u.pending = remove_value(b.pending, a.by)
      /\ u.completed = push_unique(b.completed, a.by)
      /\ u.failed = r /\ u.blocked = k /\ u.open = o
      /\ u.report = a
      /\ \A f \in {"phase", "contract", "required", "nonPassing", "aggregate", "retry",
                   "threshold", "handoffRequired", "seq"} : u[f] = b[f]
  <2>1. StateLike(b)
    BY <1>2
  <2> HIDE DEF r, k, o
  <2>2. /\ StateLike(u)
        /\ u.pending = remove_value(b.pending, a.by)
        /\ u.completed = push_unique(b.completed, a.by)
        /\ u.failed = remove_value(b.failed, a.by)
        /\ u.blocked = remove_value(b.blocked, a.by)
        /\ u.open = Dropped(b.open, CriteriaOf(a.by))
        /\ u.report = a
        /\ \A f \in {"phase", "contract", "required", "nonPassing", "aggregate", "retry",
                     "threshold", "handoffRequired", "seq"} : u[f] = b[f]
    BY <2>1, SupersededFields
  <2> HIDE DEF u
  <2> QED
    BY <2>2 DEF r, k, o
<1> HIDE DEF u
<1>6. StateLike(u) /\ u.retry = b.retry /\ u.seq = b.seq
  BY <1>5
<1>7. a.failing \ SetOf(o) = a.failing
  BY <1>1, <1>4, DropOpenAgain
<1>8. /\ StateLike(v)
      /\ \A f \in Fields \ {"failed", "blocked", "retry", "open"} : v[f] = u[f]
  BY <1>6, VerdictFields
<1>9. /\ v.failed = IF a.verdict = "fail" THEN Append(r, a.by) ELSE r
      /\ v.blocked = IF a.verdict = "blocked" THEN Append(k, a.by) ELSE k
      /\ v.open = o \o Kept(Criteria, a.failing)
      /\ v.retry = IF a.verdict = "fail" /\ b.seq < a.seq THEN b.retry + 1 ELSE b.retry
  <2>1. CASE a.verdict = "pass"
    <3>1. v = u
      BY <1>6, <2>1, VerdictFields
    <3>2. Kept(Criteria, a.failing) = <<>>
      BY <1>1, <2>1, KeptNothing, ArtifactAssumption
    <3>3. o = o \o <<>>
      BY <1>4
    <3> HIDE DEF v, r, k, o
    <3> QED
      BY <1>5, <1>6, <2>1, <3>1, <3>2, <3>3
  <2>2. CASE a.verdict # "pass"
    <3>1. /\ v.failed = IF a.verdict = "fail" THEN push_unique(u.failed, a.by) ELSE u.failed
          /\ v.blocked =
               IF a.verdict = "blocked" THEN push_unique(u.blocked, a.by) ELSE u.blocked
          /\ v.retry = IF a.verdict = "fail" /\ u.seq < a.seq THEN u.retry + 1 ELSE u.retry
          /\ v.open = u.open \o Kept(Criteria, a.failing \ SetOf(u.open))
      BY <1>6, <2>2, VerdictFields
    <3> HIDE DEF v, r, k, o
    <3>2. push_unique(r, a.by) = Append(r, a.by) /\ push_unique(k, a.by) = Append(k, a.by)
      BY <1>3 DEF push_unique
    <3> QED
      BY <1>5, <1>6, <1>7, <3>1, <3>2
  <2> QED
    BY <2>1, <2>2
<1> HIDE DEF v, r, k, o
<1>10. /\ v.report = a
       /\ v.pending = remove_value(b.pending, a.by)
       /\ v.completed = push_unique(b.completed, a.by)
       /\ v.required = b.required /\ v.nonPassing = b.nonPassing /\ v.contract = b.contract
  BY <1>5, <1>8 DEF Fields
<1> QED
  BY <1>8, <1>9, <1>10 DEF RatedFrom, u, v, r, k, o

\* It keeps the lists of the state lists.
LEMMA RatedLists ==
    ASSUME NEW b, ListsOK(b), NEW a \in Artifacts, a.kind = "evaluation",
           NEW v, RatedFrom(b, a, v)
    PROVE  ListsOK(v)
<1> DEFINE r == remove_value(b.failed, a.by)
           k == remove_value(b.blocked, a.by)
           o == Dropped(b.open, CriteriaOf(a.by))
<1>1. a.by \in SetOf(Evaluators) /\ a.failing \subseteq CriteriaOf(a.by)
  BY ReportFields
<1>2. /\ {b.required, b.completed, b.pending, b.nonPassing, b.failed, b.blocked}
            \subseteq Seq(SetOf(Evaluators))
      /\ b.open \in Seq(SetOf(Criteria))
  BY DEF ListsOK
<1>3. \A l \in Seq(SetOf(Evaluators)) :
         /\ remove_value(l, a.by) \in Seq(SetOf(Evaluators))
         /\ push_unique(l, a.by) \in Seq(SetOf(Evaluators))
         /\ Append(l, a.by) \in Seq(SetOf(Evaluators))
  <2> TAKE l \in Seq(SetOf(Evaluators))
  <2>1. remove_value(l, a.by) \in Seq(SetOf(Evaluators)) /\ push_unique(l, a.by) \in Seq(SetOf(Evaluators))
    BY <1>1, RemovedOrPushed
  <2> QED
    BY <1>1, <2>1
<1>4. o \in Seq(SetOf(Criteria)) /\ Kept(Criteria, a.failing) \in Seq(SetOf(Criteria))
  <2>1. o \in Seq(SetOf(Criteria))
    BY <1>2, DropOpen
  <2>2. Kept(Criteria, a.failing) \in Seq(SetOf(Criteria))
    BY KeptElements, ArtifactAssumption
  <2> QED
    BY <2>1, <2>2
<1>5. v.open = o \o Kept(Criteria, a.failing)
  BY DEF RatedFrom
<1>6. /\ v.failed \in {Append(r, a.by), r} /\ v.blocked \in {Append(k, a.by), k}
      /\ v.pending = remove_value(b.pending, a.by)
      /\ v.completed = push_unique(b.completed, a.by)
      /\ v.required = b.required /\ v.nonPassing = b.nonPassing
      /\ StateLike(v)
  BY DEF RatedFrom
<1>7. r \in Seq(SetOf(Evaluators)) /\ k \in Seq(SetOf(Evaluators))
  BY <1>2, <1>3
<1> HIDE DEF r, k, o
<1>8. v.open \in Seq(SetOf(Criteria))
  BY <1>4, <1>5
<1>9. {v.required, v.completed, v.pending, v.nonPassing, v.failed, v.blocked}
        \subseteq Seq(SetOf(Evaluators))
  BY <1>2, <1>3, <1>6, <1>7
<1> QED
  BY <1>6, <1>8, <1>9 DEF ListsOK

\* What an evaluation leaves is settled.
LEMMA EvaluationSettles ==
    ASSUME NEW s, ListsOK(s), NEW a \in Artifacts, a.kind = "evaluation"
    PROVE  LET n == [EvaluationApplied(s, a) EXCEPT !.seq = a.seq]
           IN  ListsOK(n) /\ Settled(n, a)
<1> DEFINE b == bootstrap_verdict_buckets_from_legacy_state(s)
           v == Rated(s, a)
           e == recompute_authoritative_evaluator_state(v)
           n == [e EXCEPT !.seq = a.seq]
           r == remove_value(b.failed, a.by)
           k == remove_value(b.blocked, a.by)
           o == Dropped(b.open, CriteriaOf(a.by))
<1>1. /\ a.by \in SetOf(Evaluators)
      /\ a.verdict \in {"pass", "fail", "blocked"}
      /\ a.verdict = "pass" => a.failing = {}
  BY ReportFields
<1>2. ListsOK(b)
  BY BootstrapLists
<1> HIDE DEF b
<1>3. RatedFrom(b, a, v)
  BY <1>2, RatedFields DEF Rated, b
<1> HIDE DEF v
<1>4. ListsOK(v)
  BY <1>2, <1>3, RatedLists
<1>5. /\ b.failed \in Seq(SetOf(Evaluators)) /\ b.blocked \in Seq(SetOf(Evaluators))
      /\ b.pending \in Seq(SetOf(Evaluators)) /\ b.completed \in Seq(SetOf(Evaluators))
      /\ b.open \in Seq(SetOf(Criteria))
  BY <1>2 DEF ListsOK
<1>6. /\ r \in Seq(SetOf(Evaluators)) /\ SetOf(r) = SetOf(b.failed) \ {a.by}
      /\ k \in Seq(SetOf(Evaluators)) /\ SetOf(k) = SetOf(b.blocked) \ {a.by}
  <2>1. r \in Seq(SetOf(Evaluators)) /\ SetOf(r) = SetOf(b.failed) \ {a.by}
    BY <1>1, <1>5, RemovedOrPushed
  <2>2. k \in Seq(SetOf(Evaluators)) /\ SetOf(k) = SetOf(b.blocked) \ {a.by}
    BY <1>1, <1>5, RemovedOrPushed
  <2> QED
    BY <2>1, <2>2
<1>7. SetOf(v.pending) = SetOf(b.pending) \ {a.by} /\ SetOf(v.completed) = SetOf(b.completed) \cup {a.by}
  <2>1. SetOf(remove_value(b.pending, a.by)) = SetOf(b.pending) \ {a.by}
    BY <1>1, <1>5, RemovedOrPushed
  <2>2. SetOf(push_unique(b.completed, a.by)) = SetOf(b.completed) \cup {a.by}
    BY <1>1, <1>5, RemovedOrPushed
  <2> QED
    BY <1>3, <2>1, <2>2 DEF RatedFrom
<1>8. o \in Seq(SetOf(Criteria)) /\ SetOf(o) \cap CriteriaOf(a.by) = {}
  <2>1. o \in Seq(SetOf(Criteria)) /\ SetOf(o) = SetOf(b.open) \ CriteriaOf(a.by)
    BY <1>5, DropOpen
  <2> QED
    BY <2>1
<1>9. /\ StateLike(v)
      /\ v.failed = IF a.verdict = "fail" THEN Append(r, a.by) ELSE r
      /\ v.blocked = IF a.verdict = "blocked" THEN Append(k, a.by) ELSE k
      /\ v.open = o \o Kept(Criteria, a.failing)
      /\ v.report = a
  BY <1>3 DEF RatedFrom
<1> HIDE DEF r, k, o
<1>10. Append(r, a.by) # <<>> /\ Append(k, a.by) # <<>>
  BY <1>1, <1>6
<1>11. /\ StateLike(e)
       /\ \A f \in Fields \ {"nonPassing", "phase", "handoffRequired", "aggregate", "open"} :
             e[f] = v[f]
       /\ e.open = IF v.blocked = <<>> /\ v.failed = <<>> /\ v.pending = <<>>
                   THEN <<>> ELSE v.open
  BY <1>9, RecomputeFields
<1>12. ListsOK(e)
  BY <1>4, RecomputeLists
<1>13. recompute_authoritative_evaluator_state(n) = n
  BY <1>9, RecomputeAgain
<1> HIDE DEF e
<1>14. StateLike(n) /\ n.seq = a.seq /\ \A f \in Fields \ {"seq"} : n[f] = e[f]
  BY <1>11 DEF StateLike, Fields
<1> HIDE DEF n
<1>15. ListsOK(n)
  BY <1>12, <1>14 DEF ListsOK, Fields
<1>16. OpenEndsWith(n, a)
  <2>1. n.open = e.open
    BY <1>14 DEF Fields
  <2>2. CASE e.open = v.open
    BY <1>8, <1>9, <2>1, <2>2 DEF OpenEndsWith
  <2>3. CASE e.open # v.open
    <3>1. e.open = <<>> /\ v.failed = <<>> /\ v.blocked = <<>>
      BY <1>11, <2>3
    <3>2. a.verdict = "pass"
      BY <1>1, <1>9, <1>10, <3>1
    <3>3. Kept(Criteria, a.failing) = <<>>
      BY <1>1, <3>2, KeptNothing, ArtifactAssumption
    <3>4. SetOf(<<>>) \cap CriteriaOf(a.by) = {} /\ <<>> = <<>> \o <<>>
          /\ <<>> \in Seq(SetOf(Criteria))
      BY DEF SetOf
    <3> QED
      BY <2>1, <3>1, <3>3, <3>4 DEF OpenEndsWith
  <2> QED
    BY <2>2, <2>3
<1>17. /\ n.report = a /\ n.completed = v.completed /\ n.pending = v.pending
       /\ n.failed = v.failed /\ n.blocked = v.blocked
  BY <1>9, <1>11, <1>14 DEF Fields
<1>18. EndsWith(n.failed, a.by, a.verdict = "fail") /\ EndsWith(n.blocked, a.by, a.verdict = "blocked")
  BY <1>6, <1>9, <1>17 DEF EndsWith
<1>19. Settled(n, a)
  BY <1>7, <1>13, <1>14, <1>16, <1>17, <1>18 DEF Settled
<1>20. EvaluationApplied(s, a) = e
  BY EvaluationSteps DEF e, v, Rated
<1> QED
  BY <1>15, <1>19, <1>20 DEF n

\* What an evaluation counts, from what the state counted before it.
LEMMA EvaluationCounts ==
    ASSUME NEW s, ListsOK(s), NEW a \in Artifacts, a.kind = "evaluation"
    PROVE  LET b == bootstrap_verdict_buckets_from_legacy_state(s)
               n == EvaluationApplied(s, a)
           IN  /\ SetOf(n.failed) = (SetOf(b.failed) \ {a.by})
                                       \cup (IF a.verdict = "fail" THEN {a.by} ELSE {})
               /\ SetOf(n.blocked) = (SetOf(b.blocked) \ {a.by})
                                        \cup (IF a.verdict = "blocked" THEN {a.by} ELSE {})
               /\ SetOf(n.nonPassing) = SetOf(n.failed) \cup SetOf(n.blocked)
               /\ SetOf(n.pending) = SetOf(s.pending) \ {a.by}
               /\ n.retry = IF a.verdict = "fail" /\ s.seq < a.seq THEN s.retry + 1 ELSE s.retry
               /\ n.contract = s.contract
               /\ n.phase # "contract_pending_approval"
               /\ n.aggregate = "pass" =>
                     n.failed = <<>> /\ n.blocked = <<>> /\ n.pending = <<>>
<1> DEFINE b == bootstrap_verdict_buckets_from_legacy_state(s)
           v == Rated(s, a)
           n == recompute_authoritative_evaluator_state(v)
           r == remove_value(b.failed, a.by)
           k == remove_value(b.blocked, a.by)
<1>1. a.by \in SetOf(Evaluators)
  BY ReportFields
<1>2. ListsOK(b)
  BY BootstrapLists
<1>3. b.pending = s.pending /\ b.retry = s.retry /\ b.seq = s.seq /\ b.contract = s.contract
  <2>1. StateLike(s)
    BY DEF ListsOK
  <2> QED
    BY <2>1 DEF bootstrap_verdict_buckets_from_legacy_state, StateLike, Fields
<1> HIDE DEF b
<1>4. RatedFrom(b, a, v)
  BY <1>2, RatedFields DEF Rated, b
<1> HIDE DEF v
<1>5. ListsOK(v)
  BY <1>2, <1>4, RatedLists
<1>6. /\ b.failed \in Seq(SetOf(Evaluators)) /\ b.blocked \in Seq(SetOf(Evaluators))
      /\ b.pending \in Seq(SetOf(Evaluators))
  BY <1>2 DEF ListsOK
<1>7. \A l \in Seq(SetOf(Evaluators)) :
         /\ remove_value(l, a.by) \in Seq(SetOf(Evaluators))
         /\ SetOf(remove_value(l, a.by)) = SetOf(l) \ {a.by}
         /\ SetOf(Append(remove_value(l, a.by), a.by)) = (SetOf(l) \ {a.by}) \cup {a.by}
  <2> TAKE l \in Seq(SetOf(Evaluators))
  <2>1. remove_value(l, a.by) \in Seq(SetOf(Evaluators)) /\ SetOf(remove_value(l, a.by)) = SetOf(l) \ {a.by}
    BY <1>1, RemovedOrPushed
  <2>2. SetOf(Append(remove_value(l, a.by), a.by)) = SetOf(remove_value(l, a.by)) \cup {a.by}
    BY <1>1, <2>1, SetOfAppend
  <2> QED
    BY <2>1, <2>2
<1>8. /\ StateLike(v)
      /\ v.pending = remove_value(b.pending, a.by)
      /\ v.failed = IF a.verdict = "fail" THEN Append(r, a.by) ELSE r
      /\ v.blocked = IF a.verdict = "blocked" THEN Append(k, a.by) ELSE k
      /\ v.retry = IF a.verdict = "fail" /\ s.seq < a.seq THEN s.retry + 1 ELSE s.retry
      /\ v.contract = s.contract
  BY <1>3, <1>4 DEF RatedFrom
<1>9. /\ \A f \in Fields \ {"nonPassing", "phase", "handoffRequired", "aggregate", "open"} :
            n[f] = v[f]
      /\ n.nonPassing = NonPassing(v)
  BY <1>8, RecomputeFields
<1>10. SetOf(NonPassing(v)) = SetOf(v.failed) \cup SetOf(v.blocked)
  BY <1>5, NonPassingElements
<1>11. n.aggregate = "pass" => v.failed = <<>> /\ v.blocked = <<>> /\ v.pending = <<>>
  BY <1>8 DEF recompute_authoritative_evaluator_state, StateLike, Fields
<1>12. n.phase # "contract_pending_approval"
  BY <1>8 DEF recompute_authoritative_evaluator_state, StateLike, Fields
<1>13. EvaluationApplied(s, a) = n
  BY EvaluationSteps DEF v, Rated
<1> HIDE DEF n
<1>14. /\ n.failed = v.failed /\ n.blocked = v.blocked /\ n.pending = v.pending
       /\ n.retry = v.retry /\ n.contract = v.contract
  BY <1>9 DEF Fields
<1>15. /\ SetOf(n.failed) = (SetOf(b.failed) \ {a.by}) \cup (IF a.verdict = "fail" THEN {a.by} ELSE {})
       /\ SetOf(n.blocked) = (SetOf(b.blocked) \ {a.by}) \cup (IF a.verdict = "blocked" THEN {a.by} ELSE {})
  BY <1>6, <1>7, <1>8, <1>14
<1>16. SetOf(n.pending) = SetOf(s.pending) \ {a.by}
  BY <1>3, <1>6, <1>7, <1>8, <1>14
<1> HIDE DEF r, k
<1> QED
  BY <1>8, <1>9, <1>10, <1>11, <1>12, <1>13, <1>14, <1>15, <1>16 DEF b

\* An event that carries every field makes the state what the record has computed;
\* one that carries no list leaves the lists as they are.
LEMMA ReducedLists ==
    ASSUME NEW s, StateLike(s), NEW n
    PROVE  /\ StateLike(n) => Reduced(s, n, DOMAIN s) = n
           /\ \A fields : StateLike(Reduced(s, n, fields)) /\
                \A f \in Fields : Reduced(s, n, fields)[f] = IF f \in fields THEN n[f] ELSE s[f]
  BY DEF StateLike, Reduced

\* The event of a record keeps the lists lists; what that of an evaluation leaves
\* is settled.
LEMMA AppendedLists ==
    ASSUME ListsOK(st), writing.artifact \in Artifacts, Appended
    PROVE  /\ ListsOK(st')
           /\ writing.artifact.kind = "evaluation" => Settled(st', writing.artifact)
<1> DEFINE a == writing.artifact
           next == [apply_transition(st, a) EXCEPT !.seq = a.seq]
<1>1. StateLike(st) /\ DOMAIN st = Fields
  BY DEF ListsOK, StateLike
<1>2. st' = Reduced(st, next, EventFields(a))
  BY DEF Appended
<1>3. a.kind \in {"contract", "evaluation", "handoff"}
  BY KindOfArtifact
<1>4. CASE a.kind = "evaluation"
  <2>1. next = [EvaluationApplied(st, a) EXCEPT !.seq = a.seq]
    BY <1>4 DEF apply_transition
  <2>2. ListsOK(next) /\ Settled(next, a)
    BY <1>4, <2>1, EvaluationSettles
  <2>3. EventFields(a) = DOMAIN st
    BY <1>4 DEF EventFields
  <2> HIDE DEF next
  <2>4. st' = next
    BY <1>1, <1>2, <2>2, <2>3, ReducedLists DEF ListsOK
  <2> QED
    BY <2>2, <2>4
<1>5. CASE a.kind = "contract"
  <2>1. next = [ContractApplied(st, a) EXCEPT !.seq = a.seq]
    BY <1>5 DEF apply_transition
  <2>2. ListsOK(next)
    <3>1. /\ StateLike(next)
          /\ next.required = Evaluators /\ next.pending = Evaluators
          /\ \A f \in {"completed", "nonPassing", "failed", "blocked", "open"} : next[f] = <<>>
      BY <1>1, <2>1 DEF ContractApplied, StateLike, Fields
    <3>2. \A X : <<>> \in Seq(X)
      OBVIOUS
    <3> HIDE DEF next
    <3> QED
      BY <3>1, <3>2, ArtifactAssumption DEF ListsOK
  <2>3. EventFields(a) = DOMAIN st
    BY <1>5 DEF EventFields
  <2> HIDE DEF next
  <2>4. st' = next
    BY <1>1, <1>2, <2>2, <2>3, ReducedLists DEF ListsOK
  <2> QED
    BY <1>5, <2>2, <2>4
<1>6. CASE a.kind = "handoff"
  <2>1. EventFields(a) = {"phase", "handoffRequired"}
    BY <1>6 DEF EventFields, HANDOFF_FIELDS
  <2> HIDE DEF next
  <2>2. StateLike(st') /\ \A f \in Fields : st'[f] = IF f \in {"phase", "handoffRequired"} THEN next[f] ELSE st[f]
    BY <1>1, <1>2, <2>1, ReducedLists
  <2> QED
    BY <1>6, <2>2 DEF ListsOK, Fields
<1> QED
  BY <1>3, <1>4, <1>5, <1>6

\* What the last evaluation has left is settled.
ReplayOK ==
    /\ ListsOK(st)
    /\ lastRecord # None =>
          /\ lastRecord.artifact \in Artifacts
          /\ lastRecord.artifact.kind = "evaluation" =>
                ListsOK(lastRecord.after) /\ Settled(lastRecord.after, lastRecord.artifact)

LEMMA ReplayStart == arInit => ReplayOK
<1> SUFFICES ASSUME arInit PROVE ReplayOK
  OBVIOUS
<1>1. StateLike(st)
  BY DEF arInit, StateLike, Fields
<1>2. \A X : <<>> \in Seq(X)
  OBVIOUS
<1> QED
  BY <1>1, <1>2 DEF arInit, ReplayOK, ListsOK

LEMMA ReplayStep == ShapeOK /\ ReplayOK /\ [arNext]_arVars => ReplayOK'
<1> SUFFICES ASSUME ShapeOK, ReplayOK, [arNext]_arVars PROVE ReplayOK'
  OBVIOUS
<1>1. ListsOK(st) /\ StateLike(st)
  BY DEF ReplayOK, ListsOK
<1>2. ASSUME st' = st, lastRecord' = lastRecord PROVE ReplayOK'
  BY <1>2 DEF ReplayOK
<1>3. ASSUME writing # None, Appended PROVE ReplayOK'
  <2>1. writing.artifact \in Artifacts
    BY <1>3 DEF ShapeOK
  <2>2. ListsOK(st') /\ (writing.artifact.kind = "evaluation" => Settled(st', writing.artifact))
    BY <1>1, <1>3, <2>1, AppendedLists
  <2>3. lastRecord' = [artifact |-> writing.artifact, after |-> st']
    BY <1>3 DEF Appended
  <2> QED
    BY <2>1, <2>2, <2>3 DEF ReplayOK
<1>4. ASSUME NEW n, StepCommand(n) PROVE ReplayOK'
  <2>1. /\ StateLike(st')
        /\ \A f \in Fields : st'[f] = IF f \in STEP_EVENT_FIELDS THEN n[f] ELSE st[f]
    BY <1>1, <1>4, ReducedLists DEF StepCommand
  <2>2. ListsOK(st')
    BY <1>1, <2>1 DEF ListsOK, Fields, STEP_EVENT_FIELDS
  <2> QED
    BY <1>4, <2>2 DEF ReplayOK, StepCommand
<1>5. CASE OlderRuntime
  <2>1. /\ StateLike(st') /\ st'.failed = <<>> /\ st'.blocked = <<>>
        /\ \A f \in Fields \ {"failed", "blocked"} : st'[f] = st[f]
    BY <1>1, <1>5 DEF OlderRuntime, StateLike, Fields
  <2>2. \A X : <<>> \in Seq(X)
    OBVIOUS
  <2>3. ListsOK(st')
    BY <1>1, <2>1, <2>2 DEF ListsOK, Fields
  <2> QED
    BY <1>5, <2>3 DEF ReplayOK, OlderRuntime
<1>6. ASSUME NEW a \in Artifacts, Begin(a) PROVE ReplayOK'
  BY <1>2, <1>6 DEF Begin
<1>7. CASE AppendEvent
  BY <1>3, <1>7 DEF AppendEvent
<1>8. CASE AppendFails
  BY <1>2, <1>3, <1>8 DEF AppendFails, Fault
<1>9. CASE \/ WriteArtifact \/ persist_dependency_index_after_authoritative_record
           \/ persist_observability_after_authoritative_record
           \/ WriteState \/ WriteFails \/ Interrupted
  BY <1>2, <1>9 DEF WriteArtifact, persist_dependency_index_after_authoritative_record,
     persist_observability_after_authoritative_record, WriteState, WriteFails, Interrupted
<1>10. CASE Execute
  BY <1>4, <1>10 DEF Execute
<1>11. CASE apply_note_reset_policy
  BY <1>4, <1>11, Zenon DEF apply_note_reset_policy
<1>12. CASE UNCHANGED arVars
  BY <1>2, <1>12 DEF arVars
<1> QED
  BY <1>5, <1>6, <1>7, <1>8, <1>9, <1>10, <1>11, <1>12 DEF arNext

\* A replay of the last evaluation leaves the state as it is.
LEMMA ReplayHolds ==
    ASSUME ReplayOK, lastRecord # None, lastRecord.artifact.kind = "evaluation",
           st = lastRecord.after
    PROVE  apply_transition(st, lastRecord.artifact) = st
<1>1. /\ lastRecord.artifact \in Artifacts
      /\ ListsOK(st) /\ Settled(st, lastRecord.artifact)
  BY DEF ReplayOK
<1>2. EvaluationApplied(st, lastRecord.artifact) = st
  BY <1>1, SettledStays
<1> QED
  BY <1>2 DEF apply_transition

-----------------------------------------------------------------------------
(***************************************************************************)
(* The verdicts that count are those of the latest recorded reports.       *)
(***************************************************************************)
LEMMA LatestIsGreatest ==
    ASSUME NEW n \in Nat, NEW S, S \subseteq 1..n, S # {}
    PROVE  LatestIn(S) \in S /\ \A j \in S : j <= LatestIn(S)
  BY GreatestExists DEF LatestIn

LEMMA LatestIsUnique ==
    ASSUME NEW n \in Nat, NEW S, S \subseteq 1..n, NEW i \in S, \A j \in S : j <= i
    PROVE  LatestIn(S) = i
<1>1. LatestIn(S) \in S /\ \A j \in S : j <= LatestIn(S)
  BY LatestIsGreatest
<1>2. LatestIn(S) \in 1..n /\ i \in 1..n
  BY <1>1
<1> DEFINE l == LatestIn(S)
<1> HIDE DEF l
<1>3. l <= i /\ i <= l /\ l \in Nat /\ i \in Nat
  BY <1>1, <1>2 DEF l
<1>4. l = i
  BY <1>3
<1> QED
  BY <1>4 DEF l

\* The reports of an evaluator are at places of the history, and the last one
\* has the last verdict.
LEMMA LastReport ==
    ASSUME recorded \in Seq(Artifacts), NEW e
    PROVE  /\ RecordedBy(e) \subseteq 1..Len(recorded)
           /\ RecordedBy(e) = {} <=> LastVerdict(e) = "none"
           /\ RecordedBy(e) # {} =>
                 /\ LatestIn(RecordedBy(e)) \in RecordedBy(e)
                 /\ \A j \in RecordedBy(e) : j <= LatestIn(RecordedBy(e))
                 /\ LastVerdict(e) = recorded[LatestIn(RecordedBy(e))].verdict
                 /\ LastVerdict(e) \in {"pass", "fail", "blocked"}
<1> DEFINE S == RecordedBy(e)
<1>1. S \subseteq 1..Len(recorded)
  BY DEF RecordedBy
<1>2. Len(recorded) \in Nat
  OBVIOUS
<1>3. \A i \in S : recorded[i] \in Artifacts /\ recorded[i].kind = "evaluation"
  BY DEF RecordedBy
<1>4. ASSUME S # {} PROVE /\ LatestIn(S) \in S /\ \A j \in S : j <= LatestIn(S)
                          /\ recorded[LatestIn(S)].verdict \in {"pass", "fail", "blocked"}
  <2> HIDE DEF S
  <2>1. LatestIn(S) \in S /\ \A j \in S : j <= LatestIn(S)
    BY <1>1, <1>2, <1>4, LatestIsGreatest
  <2>2. recorded[LatestIn(S)] \in Artifacts /\ recorded[LatestIn(S)].kind = "evaluation"
    BY <1>3, <2>1
  <2> QED
    BY <2>1, <2>2, ReportFields
<1> QED
  BY <1>1, <1>4 DEF LastVerdict

\* What recording one more artifact adds.
LEMMA RecordedMore ==
    ASSUME recorded \in Seq(Artifacts), NEW a \in Artifacts, recorded' = Append(recorded, a),
           NEW e
    PROVE  /\ RecordedBy(e)' = IF a.kind = "evaluation" /\ a.by = e
                               THEN RecordedBy(e) \cup {Len(recorded) + 1} ELSE RecordedBy(e)
           /\ LastVerdict(e)' = IF a.kind = "evaluation" /\ a.by = e
                                THEN a.verdict ELSE LastVerdict(e)
<1> DEFINE n == Len(recorded)
<1>1. /\ DOMAIN recorded' = 1..(n + 1) /\ DOMAIN recorded = 1..n /\ n \in Nat
      /\ recorded'[n + 1] = a /\ \A i \in 1..n : recorded'[i] = recorded[i]
      /\ recorded' \in Seq(Artifacts) /\ Len(recorded') = n + 1
  OBVIOUS
<1> HIDE DEF n
<1>2. RecordedBy(e)' = IF a.kind = "evaluation" /\ a.by = e
                       THEN RecordedBy(e) \cup {n + 1} ELSE RecordedBy(e)
  <2>1. RecordedBy(e)' = {i \in 1..(n + 1) : recorded'[i].kind = "evaluation" /\ recorded'[i].by = e}
    BY <1>1 DEF RecordedBy
  <2>2. RecordedBy(e) = {i \in 1..n : recorded[i].kind = "evaluation" /\ recorded[i].by = e}
    BY <1>1 DEF RecordedBy
  <2>3. 1..(n + 1) = 1..n \cup {n + 1} /\ n + 1 \notin 1..n
    BY <1>1
  <2> QED
    BY <1>1, <2>1, <2>2, <2>3
<1>3. RecordedBy(e) \subseteq 1..n
  BY <1>1 DEF RecordedBy
<1>4. CASE a.kind = "evaluation" /\ a.by = e
  <2> DEFINE S == RecordedBy(e) \cup {n + 1}
  <2>1. S \subseteq 1..(n + 1) /\ n + 1 \in S /\ \A j \in S : j <= n + 1
    BY <1>1, <1>3
  <2>2. LatestIn(S) = n + 1
    <3> HIDE DEF S
    <3>1. n + 1 \in Nat
      BY <1>1
    <3> QED
      BY <2>1, <3>1, LatestIsUnique
  <2>3. RecordedBy(e)' = S /\ S # {}
    BY <1>2, <1>4
  <2>4. LastVerdict(e)' = recorded'[LatestIn(S)].verdict
    <3> HIDE DEF S
    <3> QED
      BY <2>3 DEF LastVerdict, LatestIn
  <2> QED
    BY <1>1, <1>2, <1>4, <2>2, <2>4 DEF n
<1>5. CASE ~(a.kind = "evaluation" /\ a.by = e)
  <2>1. RecordedBy(e)' = RecordedBy(e)
    BY <1>2, <1>5
  <2>2. CASE RecordedBy(e) = {}
    BY <1>5, <2>1, <2>2 DEF LastVerdict
  <2>3. CASE RecordedBy(e) # {}
    <3>1. LatestIn(RecordedBy(e)) \in RecordedBy(e)
      BY <2>3, LastReport
    <3>2. recorded'[LatestIn(RecordedBy(e))] = recorded[LatestIn(RecordedBy(e))]
      BY <1>1, <1>3, <3>1
    <3>3. LastVerdict(e)' = recorded'[LatestIn(RecordedBy(e))].verdict
      <4> DEFINE S == RecordedBy(e)
      <4>1. RecordedBy(e)' = S /\ S # {}
        BY <2>1, <2>3
      <4> HIDE DEF S
      <4>2. LastVerdict(e)' = recorded'[LatestIn(S)].verdict
        BY <4>1 DEF LastVerdict, LatestIn
      <4> QED
        BY <4>2 DEF S
    <3>4. LastVerdict(e) = recorded[LatestIn(RecordedBy(e))].verdict
      BY <2>3 DEF LastVerdict
    <3> QED
      BY <1>5, <2>1, <3>2, <3>3, <3>4
  <2> QED
    BY <2>1, <2>2, <2>3, <1>5
<1> QED
  BY <1>2, <1>4, <1>5 DEF n

\* The failing reports are counted one by one.
LEMMA FailuresMore ==
    ASSUME recorded \in Seq(Artifacts), NEW a \in Artifacts, recorded' = Append(recorded, a)
    PROVE  /\ Cardinality(Failures) \in Nat
           /\ Cardinality(Failures)' = IF a.kind = "evaluation" /\ a.verdict = "fail"
                                       THEN Cardinality(Failures) + 1 ELSE Cardinality(Failures)
<1> DEFINE n == Len(recorded)
<1>1. /\ DOMAIN recorded' = 1..(n + 1) /\ DOMAIN recorded = 1..n /\ n \in Nat
      /\ recorded'[n + 1] = a /\ \A i \in 1..n : recorded'[i] = recorded[i]
  OBVIOUS
<1> HIDE DEF n
<1>2. Failures' = {i \in 1..(n + 1) : recorded'[i].kind = "evaluation" /\ recorded'[i].verdict = "fail"}
  BY <1>1 DEF Failures
<1>3. Failures = {i \in 1..n : recorded[i].kind = "evaluation" /\ recorded[i].verdict = "fail"}
  BY <1>1 DEF Failures
<1>4. 1..(n + 1) = 1..n \cup {n + 1} /\ n + 1 \notin 1..n
  BY <1>1
<1>5. /\ Failures' = IF a.kind = "evaluation" /\ a.verdict = "fail"
                     THEN Failures \cup {n + 1} ELSE Failures
      /\ n + 1 \notin Failures
  BY <1>1, <1>2, <1>3, <1>4
<1>6. IsFiniteSet(Failures)
  <2>1. IsFiniteSet(1..n)
    BY <1>1, FS_Interval
  <2>2. Failures \subseteq 1..n
    BY <1>3
  <2> QED
    BY <2>1, <2>2, FS_Subset
<1>7. Cardinality(Failures) \in Nat
  BY <1>6, FS_CardinalityType
<1>8. Cardinality(Failures \cup {n + 1}) = Cardinality(Failures) + 1
  BY <1>5, <1>6, FS_AddElement
<1> QED
  BY <1>5, <1>7, <1>8

\* The evaluators with a latest recorded verdict.
Latest(verdict) == {e \in SetOf(Evaluators) : LastVerdict(e) = verdict}

\* The reports were recorded in the order of their sequences, none of them newer
\* than the state.
ReportsInOrder ==
    /\ recorded \in Seq(Artifacts) /\ st.seq \in Nat
    /\ \A i \in DOMAIN recorded : recorded[i].kind = "evaluation" => recorded[i].seq <= st.seq
    /\ \A i, j \in DOMAIN recorded :
          i < j /\ recorded[i].kind = "evaluation" /\ recorded[j].kind = "evaluation" =>
             recorded[i].seq < recorded[j].seq

\* There is a contract before there are reports.
ContractFirst ==
    /\ st.contract = None => \A i \in DOMAIN recorded : recorded[i].kind # "evaluation"
    /\ st.phase = "contract_pending_approval" => st.contract = None

\* What was checked of the record under way still holds.
UnderWayOK ==
    writing # None /\ writing.stage \in {"artifact", "index", "observability", "append"} =>
        /\ writing.artifact.seq > st.seq
        /\ writing.artifact.kind = "contract" => st.phase = "contract_pending_approval"
        /\ writing.artifact.kind = "evaluation" => st.contract # None

\* What is recorded is indexed.
IndexedOK == takenBack \/ SetOf(recorded) \subseteq indexed

AttemptsOK == st.retry = Cardinality(Failures)

\* An evaluator is pending until it reports.
PendingOK ==
    st.contract # None => SetOf(st.pending) = {e \in SetOf(Evaluators) : RecordedBy(e) = {}}

\* An older state may have been completed from files that were not recorded.
Excused == legacy /\ (Stray # {} \/ takenBack)

\* The state has the latest verdicts, or an older runtime has left only who has
\* not passed.
BucketsOK ==
    /\ SetOf(st.nonPassing) = Latest("fail") \cup Latest("blocked")
    /\ \/ SetOf(st.failed) = Latest("fail") /\ SetOf(st.blocked) = Latest("blocked")
       \/ legacy /\ st.failed = <<>> /\ st.blocked = <<>>
    /\ st.aggregate = "pass" => Latest("pass") = SetOf(Evaluators)

\* The inductive invariant.
Counted ==
    /\ ReportsInOrder /\ ContractFirst /\ UnderWayOK /\ IndexedOK /\ AttemptsOK /\ PendingOK
    /\ Excused \/ BucketsOK

\* When all files of reports are recorded ones, the latest file of an evaluator is
\* its latest recorded report.
LEMMA FilesAreRecorded ==
    ASSUME ReportsInOrder, SetOf(recorded) \subseteq artifacts, Stray = {},
           NEW e, RecordedBy(e) # {}
    PROVE  LatestReports(st, e) = {recorded[LatestIn(RecordedBy(e))]}
<1> DEFINE l == LatestIn(RecordedBy(e))
           h == History(st, e)
<1>1. recorded \in Seq(Artifacts) /\ st.seq \in Nat
  BY DEF ReportsInOrder
<1>2. l \in RecordedBy(e) /\ \A j \in RecordedBy(e) : j <= l
  BY <1>1, LastReport
<1>3. \A i \in RecordedBy(e) : /\ i \in DOMAIN recorded /\ recorded[i] \in Artifacts
                               /\ recorded[i].kind = "evaluation" /\ recorded[i].by = e
  BY <1>1 DEF RecordedBy
<1>4. \A i \in RecordedBy(e) : recorded[i].seq \in Nat /\ i \in Nat
  <2> TAKE i \in RecordedBy(e)
  <2>1. recorded[i].seq \in 1..MaxSequence
    BY <1>3, ReportFields
  <2>2. i \in 1..Len(recorded)
    BY <1>1, <1>3
  <2> QED
    BY <2>1, <2>2
<1>5. \A i \in RecordedBy(e) : recorded[i] \in h
  <2> TAKE i \in RecordedBy(e)
  <2>1. recorded[i] \in SetOf(recorded) /\ recorded[i].seq <= st.seq
    BY <1>3 DEF SetOf, ReportsInOrder
  <2> QED
    BY <1>3, <2>1 DEF History
<1>6. \A x \in h : \E i \in RecordedBy(e) : x = recorded[i]
  <2> TAKE x \in h
  <2>1. x \in artifacts /\ x.kind = "evaluation" /\ x.by = e /\ x.seq <= st.seq
    BY DEF History
  <2>2. x \in SetOf(recorded)
    BY <2>1 DEF Stray
  <2>3. PICK i \in DOMAIN recorded : x = recorded[i]
    BY <2>2 DEF SetOf
  <2> QED
    BY <2>1, <2>3 DEF RecordedBy
<1> HIDE DEF l, h
<1>7. \A i \in RecordedBy(e) : recorded[i].seq <= recorded[l].seq /\ (i # l => recorded[i].seq < recorded[l].seq)
  <2> TAKE i \in RecordedBy(e)
  <2>1. CASE i = l
    BY <1>4, <2>1
  <2>2. CASE i # l
    <3>1. i < l
      BY <1>2, <1>4, <2>2
    <3>2. recorded[i].seq < recorded[l].seq
      BY <1>2, <1>3, <3>1 DEF ReportsInOrder
    <3> QED
      BY <1>2, <1>4, <3>2
  <2> QED
    BY <2>1, <2>2
<1>8. recorded[l] \in h /\ \A b \in h : b.seq <= recorded[l].seq
  BY <1>2, <1>5, <1>6, <1>7
<1>9. ASSUME NEW a \in h, \A b \in h : b.seq <= a.seq PROVE a = recorded[l]
  <2>1. PICK i \in RecordedBy(e) : a = recorded[i]
    BY <1>6, <1>9
  <2>2. recorded[l].seq <= recorded[i].seq
    BY <1>8, <1>9, <2>1
  <2>3. i = l
    BY <1>2, <1>4, <1>7, <2>2
  <2> QED
    BY <2>1, <2>3
<1>10. LatestReports(st, e) = {a \in h : \A b \in h : b.seq <= a.seq}
  BY DEF LatestReports, h
<1>11. {a \in h : \A b \in h : b.seq <= a.seq} = {recorded[l]}
  BY <1>8, <1>9
<1> QED
  BY <1>10, <1>11 DEF l

\* The verdicts of a state, completed if it is an older one, are the latest.
LEMMA BootstrapCounts ==
    ASSUME ListsOK(st), ReportsInOrder, takenBack \/ SetOf(recorded) \subseteq artifacts,
           ~Excused, BucketsOK
    PROVE  LET b == bootstrap_verdict_buckets_from_legacy_state(st)
           IN  SetOf(b.failed) = Latest("fail") /\ SetOf(b.blocked) = Latest("blocked")
<1> DEFINE b == bootstrap_verdict_buckets_from_legacy_state(st)
<1>1. /\ StateLike(st)
      /\ {st.nonPassing, st.failed, st.blocked} \subseteq Seq(SetOf(Evaluators))
  BY DEF ListsOK
<1>2. SetOf(st.nonPassing) = Latest("fail") \cup Latest("blocked")
  BY DEF BucketsOK
<1>3. \A s \in Seq(SetOf(Evaluators)) : SetOf(s) = {} <=> s = <<>>
  BY NoElements
<1>4. CASE st.failed # <<>> \/ st.blocked # <<>> \/ st.nonPassing = <<>>
  <2>1. b = st
    BY <1>4 DEF bootstrap_verdict_buckets_from_legacy_state
  <2>2. CASE SetOf(st.failed) = Latest("fail") /\ SetOf(st.blocked) = Latest("blocked")
    BY <2>1, <2>2
  <2>3. CASE st.failed = <<>> /\ st.blocked = <<>>
    <3>1. Latest("fail") = {} /\ Latest("blocked") = {}
      BY <1>1, <1>2, <1>3, <1>4, <2>3
    <3> QED
      BY <1>1, <1>3, <2>1, <2>3, <3>1
  <2> QED
    BY <2>2, <2>3 DEF BucketsOK
<1>5. CASE st.failed = <<>> /\ st.blocked = <<>> /\ st.nonPassing # <<>>
  <2>1. Latest("fail") \cup Latest("blocked") # {}
    BY <1>1, <1>2, <1>3, <1>5
  <2>2. SetOf(st.failed) = {} /\ SetOf(st.blocked) = {}
    BY <1>1, <1>3, <1>5
  <2>3. legacy
    BY <2>1, <2>2 DEF BucketsOK
  <2>4. Stray = {} /\ SetOf(recorded) \subseteq artifacts
    BY <2>3 DEF Excused
  <2>5. ASSUME NEW e \in SetOf(st.nonPassing)
        PROVE  Cardinality(LatestReports(st, e)) = 1 /\ LatestVerdict(st, e) = LastVerdict(e)
    <3> DEFINE x == recorded[LatestIn(RecordedBy(e))]
    <3>1. LastVerdict(e) # "none"
      BY <1>2, <2>5 DEF Latest
    <3>2. recorded \in Seq(Artifacts)
      BY DEF ReportsInOrder
    <3>3. RecordedBy(e) # {} /\ LastVerdict(e) = x.verdict
      BY <3>1, <3>2, LastReport
    <3>4. LatestReports(st, e) = {x}
      BY <2>4, <3>3, FilesAreRecorded
    <3> HIDE DEF x
    <3>5. Cardinality(LatestReports(st, e)) = 1
      BY <3>4, FS_Singleton
    <3> QED
      BY <3>3, <3>4, <3>5 DEF LatestVerdict
  <2>6. HistoryDecides(st)
    BY <2>5 DEF HistoryDecides
  <2>7. b = [st EXCEPT !.failed = Kept(st.nonPassing, WithLatest(st, "fail")),
                       !.blocked = Kept(st.nonPassing, WithLatest(st, "blocked"))]
    BY <1>5, <2>6 DEF bootstrap_verdict_buckets_from_legacy_state
  <2>8. /\ b.failed = Kept(st.nonPassing, WithLatest(st, "fail"))
        /\ b.blocked = Kept(st.nonPassing, WithLatest(st, "blocked"))
    BY <1>1, <2>7 DEF StateLike, Fields
  <2>9. \A S : SetOf(Kept(st.nonPassing, S)) = SetOf(st.nonPassing) \cap S
    BY <1>1, KeptElements
  <2>10. WithLatest(st, "fail") = Latest("fail") /\ WithLatest(st, "blocked") = Latest("blocked")
    BY <1>2, <2>5 DEF WithLatest, Latest
  <2> QED
    BY <1>2, <2>8, <2>9, <2>10
<1> QED
  BY <1>4, <1>5

\* So the invariant says what the property says.
LEMMA CountedMeansVerdicts ==
    ASSUME ListsOK(st), Counted, PublishedInOrder
    PROVE  VerdictsCounted
<1> DEFINE b == bootstrap_verdict_buckets_from_legacy_state(st)
<1>1. CASE Excused
  BY <1>1 DEF Excused, VerdictsCounted
<1>2. CASE ~Excused
  <2>1. BucketsOK /\ ReportsInOrder /\ AttemptsOK
    BY <1>2 DEF Counted
  <2>2. takenBack \/ SetOf(recorded) \subseteq artifacts
    BY DEF Counted, IndexedOK, PublishedInOrder
  <2>3. SetOf(b.failed) = Latest("fail") /\ SetOf(b.blocked) = Latest("blocked")
    BY <1>2, <2>1, <2>2, BootstrapCounts
  <2>4. st.aggregate = "pass" => Latest("pass") = SetOf(Evaluators)
    BY <2>1 DEF BucketsOK
  <2> HIDE DEF b
  <2>5. /\ \A e \in SetOf(Evaluators) :
              /\ e \in SetOf(b.failed) <=> LastVerdict(e) = "fail"
              /\ e \in SetOf(b.blocked) <=> LastVerdict(e) = "blocked"
        /\ st.aggregate = "pass" => \A e \in SetOf(Evaluators) : LastVerdict(e) = "pass"
    BY <2>3, <2>4 DEF Latest
  <2> QED
    BY <2>1, <2>5 DEF VerdictsCounted, AttemptsOK, b
<1> QED
  BY <1>1, <1>2

\* A fresh state has no verdicts.
LEMMA CountedStart == arInit => Counted
<1> SUFFICES ASSUME arInit PROVE Counted
  OBVIOUS
<1>1. /\ recorded = <<>> /\ DOMAIN recorded = {} /\ recorded \in Seq(Artifacts)
      /\ SetOf(recorded) = {}
  BY DEF arInit, SetOf
<1>2. st.nonPassing = <<>> /\ st.failed = <<>> /\ st.blocked = <<>> /\ st.contract = None
      /\ st.seq = 0 /\ st.retry = 0 /\ st.aggregate = "pending"
  BY DEF arInit
<1>3. SetOf(<<>>) = {}
  BY DEF SetOf
<1>4. \A e : RecordedBy(e) = {} /\ LastVerdict(e) = "none"
  BY <1>1 DEF RecordedBy, LastVerdict
<1>5. Latest("fail") = {} /\ Latest("blocked") = {}
  BY <1>4 DEF Latest
<1>6. Cardinality(Failures) = 0
  <2>1. Failures = {}
    BY <1>1 DEF Failures
  <2> QED
    BY <2>1, FS_EmptySet
<1>7. ReportsInOrder /\ ContractFirst
  BY <1>1, <1>2 DEF ReportsInOrder, ContractFirst
<1>8. UnderWayOK /\ IndexedOK
  BY <1>1 DEF arInit, UnderWayOK, IndexedOK
<1>9. AttemptsOK /\ PendingOK
  BY <1>2, <1>6 DEF AttemptsOK, PendingOK
<1>10. BucketsOK
  BY <1>2, <1>3, <1>5 DEF BucketsOK
<1> QED
  BY <1>7, <1>8, <1>9, <1>10 DEF Counted

\* The verdicts change only with the history.
LEMMA LatestSame ==
    ASSUME recorded' = recorded
    PROVE  /\ \A e : RecordedBy(e)' = RecordedBy(e) /\ LastVerdict(e)' = LastVerdict(e)
           /\ \A v : Latest(v)' = Latest(v)
<1>1. \A e : RecordedBy(e)' = RecordedBy(e)
  BY DEF RecordedBy
<1>2. ASSUME NEW e PROVE LastVerdict(e)' = LastVerdict(e)
  <2> DEFINE S == RecordedBy(e)
  <2>1. RecordedBy(e)' = S
    BY <1>1
  <2> HIDE DEF S
  <2>2. LastVerdict(e)' = IF S = {} THEN "none" ELSE recorded[LatestIn(S)].verdict
    BY <2>1 DEF LastVerdict, LatestIn
  <2> QED
    BY <2>2 DEF LastVerdict, S
<1>3. \A v : Latest(v)' = Latest(v)
  BY <1>2 DEF Latest
<1> QED
  BY <1>1, <1>2, <1>3

\* A step that leaves the state and the history alone.
LEMMA CountedFrame ==
    ASSUME Counted, st' = st, recorded' = recorded, legacy' = legacy,
           UnderWayOK', IndexedOK', Excused => Excused'
    PROVE  Counted'
<1>1. ReportsInOrder' /\ ContractFirst' /\ AttemptsOK' /\ PendingOK'
  BY DEF Counted, ReportsInOrder, ContractFirst, AttemptsOK, Failures, PendingOK, RecordedBy
<1>2. BucketsOK => BucketsOK'
  BY LatestSame DEF BucketsOK
<1> QED
  BY <1>1, <1>2 DEF Counted

\* A report on disk that is not recorded stays there as long as the state does not
\* change, unless an artifact is taken back after it was indexed.
LEMMA ExcuseStays ==
    ASSUME st'.seq = st.seq, recorded' = recorded, legacy => legacy', takenBack => takenBack',
           ~takenBack' => \A x \in Stray : x \in artifacts'
    PROVE  Excused => Excused'
<1> SUFFICES ASSUME Excused, ~takenBack' PROVE Excused'
  BY DEF Excused
<1>1. PICK x \in Stray : TRUE
  BY DEF Excused
<1>2. x \in Stray'
  BY <1>1 DEF Stray
<1> QED
  BY <1>2 DEF Excused

\* Before a record writes its event, it leaves what is counted alone: what it
\* takes back is not a report that was there before.
LEMMA CountedUnderWay ==
    ASSUME arInv, Counted,
           \/ \E a \in Artifacts : Begin(a)
           \/ WriteArtifact \/ persist_dependency_index_after_authoritative_record
           \/ persist_observability_after_authoritative_record
           \/ WriteState \/ WriteFails \/ Interrupted
           \/ AppendFails /\ UNCHANGED <<st, recorded>>
    PROVE  Counted'
<1> USE DEF Stages
<1>1. /\ UnderWayOK /\ IndexedOK
      /\ writing # None => writing \in [artifact : Artifacts, stage : Stages, wrote : BOOLEAN]
      /\ takenBack \/ (StageOK /\ PublishedInOrder)
  BY DEF Counted, arInv, ShapeOK
<1>2. ASSUME st' = st, recorded' = recorded, legacy' = legacy, takenBack => takenBack',
             artifacts \subseteq artifacts', UnderWayOK', IndexedOK'
      PROVE  Counted'
  <2>1. Excused => Excused'
    BY <1>2, ExcuseStays DEF Stray
  <2> QED
    BY <1>2, <2>1, CountedFrame
<1>3. ASSUME NEW a \in Artifacts, Begin(a) PROVE Counted'
  <2>1. PICK stage \in {"artifact", "replay_artifact"} :
          /\ writing' = [artifact |-> a, stage |-> stage, wrote |-> FALSE]
          /\ stage = "artifact" => a.seq > st.seq
    BY <1>3 DEF Begin, Enter
  <2>2. /\ a.kind = "contract" => st.phase = "contract_pending_approval"
        /\ a.kind = "evaluation" => st.contract # None
    BY <1>3 DEF Begin, Recordable, ContractRecordable, EvaluationRecordable,
       require_active_contract_state
  <2>3. /\ writing'.artifact = a /\ writing'.stage = stage
        /\ UNCHANGED <<st, artifacts, indexed, recorded, legacy, takenBack>>
    BY <1>3, <2>1 DEF Begin
  <2>4. UnderWayOK'
    BY <2>1, <2>2, <2>3 DEF UnderWayOK
  <2> QED
    BY <1>1, <1>2, <2>3, <2>4 DEF IndexedOK
<1>4. CASE WriteArtifact
  <2>1. UnderWayOK' /\ IndexedOK'
    BY <1>1, <1>4 DEF WriteArtifact, UnderWayOK, IndexedOK
  <2> QED
    BY <1>2, <1>4, <2>1 DEF WriteArtifact
<1>5. CASE persist_dependency_index_after_authoritative_record
  <2>1. UnderWayOK' /\ IndexedOK'
    BY <1>1, <1>5 DEF persist_dependency_index_after_authoritative_record, UnderWayOK, IndexedOK
  <2> QED
    BY <1>2, <1>5, <2>1 DEF persist_dependency_index_after_authoritative_record
<1>6. CASE persist_observability_after_authoritative_record
  <2>1. UnderWayOK' /\ IndexedOK'
    BY <1>1, <1>6 DEF persist_observability_after_authoritative_record, UnderWayOK, IndexedOK
  <2> QED
    BY <1>2, <1>6, <2>1 DEF persist_observability_after_authoritative_record
<1>7. CASE WriteState \/ Interrupted
  <2>1. UnderWayOK' /\ IndexedOK'
    BY <1>1, <1>7 DEF WriteState, Interrupted, Fault, UnderWayOK, IndexedOK
  <2> QED
    BY <1>2, <1>7, <2>1 DEF WriteState, Interrupted
<1>8. CASE AppendFails /\ UNCHANGED <<st, recorded>>
  <2>1. UnderWayOK' /\ IndexedOK'
    BY <1>1, <1>8 DEF AppendFails, Fault, UnderWayOK, IndexedOK
  <2>2. takenBack' /\ legacy' = legacy
    BY <1>8 DEF AppendFails
  <2>3. Excused => Excused'
    BY <2>2 DEF Excused
  <2> QED
    BY <1>8, <2>1, <2>2, <2>3, CountedFrame
<1>9. CASE WriteFails
  <2>1. UNCHANGED <<st, recorded, legacy, indexed>> /\ writing # None /\ writing' = None
        /\ takenBack' = (takenBack \/ writing.stage = "observability")
        /\ writing.stage \in {"artifact", "replay_artifact", "index", "observability"}
        /\ artifacts' \in {artifacts, artifacts \ (IF writing.wrote THEN {writing.artifact} ELSE {})}
    BY <1>9 DEF WriteFails, Fault, RemoveWritten
  <2>2. UnderWayOK' /\ IndexedOK'
    BY <1>1, <2>1 DEF UnderWayOK, IndexedOK
  <2>3. ASSUME ~takenBack', NEW x \in Stray PROVE x \in artifacts'
    <3>1. /\ writing.stage \in {"artifact", "replay_artifact", "index"}
          /\ StageOK
      BY <1>1, <2>1, <2>3
    <3>2. x \in artifacts /\ x.kind = "evaluation" /\ x.seq <= st.seq
      BY DEF Stray
    <3>3. CASE writing.stage \in {"artifact", "replay_artifact"}
      BY <2>1, <3>1, <3>2, <3>3 DEF StageOK
    <3>4. CASE writing.stage = "index"
      <4>1. writing.artifact.seq > st.seq
        BY <1>1, <2>1, <3>4 DEF UnderWayOK
      <4>2. x \in Artifacts \/ x # writing.artifact
        BY <1>1, <2>1
      <4>3. x # writing.artifact
        <5> SUFFICES ASSUME x = writing.artifact PROVE FALSE
          OBVIOUS
        <5>1. x.seq \in 1..MaxSequence
          BY <3>2, <4>2, ReportFields
        <5>2. x.seq \in Nat /\ st.seq \in Nat
          BY <5>1 DEF Counted, ReportsInOrder
        <5> QED
          BY <3>2, <4>1, <5>2
      <4> QED
        BY <2>1, <3>2, <4>3
    <3> QED
      BY <3>1, <3>3, <3>4
  <2>4. Excused => Excused'
    BY <2>1, <2>3, ExcuseStays
  <2> QED
    BY <2>1, <2>2, <2>4, CountedFrame
<1> QED
  BY <1>3, <1>4, <1>5, <1>6, <1>7, <1>8, <1>9

\* What the event of a record does to the fields that are counted.
LEMMA AppendedFields ==
    ASSUME ListsOK(st), writing.artifact \in Artifacts, Appended
    PROVE  LET a == writing.artifact
               e == EvaluationApplied(st, a)
           IN  /\ a.kind = "evaluation" =>
                     /\ st'.seq = a.seq
                     /\ \A f \in Fields \ {"seq"} : st'[f] = e[f]
               /\ a.kind = "contract" =>
                     /\ st'.seq = a.seq /\ st'.contract = a /\ st'.pending = Evaluators
                     /\ st'.required = Evaluators
                     /\ st'.nonPassing = <<>> /\ st'.failed = <<>> /\ st'.blocked = <<>>
                     /\ st'.retry = 0 /\ st'.aggregate = "pending"
                     /\ st'.phase = "contract_approved"
               /\ a.kind = "handoff" =>
                     /\ st'.phase = "executing"
                     /\ \A f \in Fields \ {"phase", "handoffRequired"} : st'[f] = st[f]
<1> DEFINE a == writing.artifact
           next == [apply_transition(st, a) EXCEPT !.seq = a.seq]
<1>1. StateLike(st) /\ DOMAIN st = Fields
  BY DEF ListsOK, StateLike
<1>2. st' = Reduced(st, next, EventFields(a))
  BY DEF Appended
<1>3. CASE a.kind = "evaluation"
  <2>1. /\ StateLike(EvaluationApplied(st, a)) /\ EventFields(a) = DOMAIN st
        /\ next = [EvaluationApplied(st, a) EXCEPT !.seq = a.seq]
    BY <1>1, <1>3, EvaluationNames DEF apply_transition, EventFields
  <2>2. /\ StateLike(next) /\ next.seq = a.seq
        /\ \A f \in Fields \ {"seq"} : next[f] = EvaluationApplied(st, a)[f]
    BY <2>1 DEF StateLike, Fields
  <2> HIDE DEF next
  <2>3. st' = next
    BY <1>1, <1>2, <2>1, <2>2, ReducedLists
  <2> QED
    BY <1>3, <2>2, <2>3
<1>4. CASE a.kind = "contract"
  <2>1. EventFields(a) = DOMAIN st /\ next = [ContractApplied(st, a) EXCEPT !.seq = a.seq]
    BY <1>4 DEF apply_transition, EventFields
  <2>2. /\ StateLike(next)
        /\ next.seq = a.seq /\ next.contract = a /\ next.pending = Evaluators
        /\ next.required = Evaluators
        /\ next.nonPassing = <<>> /\ next.failed = <<>> /\ next.blocked = <<>>
        /\ next.retry = 0 /\ next.aggregate = "pending" /\ next.phase = "contract_approved"
    BY <1>1, <2>1 DEF ContractApplied, StateLike, Fields
  <2> HIDE DEF next
  <2>3. st' = next
    BY <1>1, <1>2, <2>1, <2>2, ReducedLists
  <2> QED
    BY <1>4, <2>2, <2>3
<1>5. CASE a.kind = "handoff"
  <2>1. /\ EventFields(a) = {"phase", "handoffRequired"}
        /\ next = [HandoffApplied(st, a) EXCEPT !.seq = a.seq]
    BY <1>5 DEF apply_transition, EventFields, HANDOFF_FIELDS
  <2>2. next.phase = "executing"
    BY <1>1, <2>1 DEF HandoffApplied, StateLike, Fields
  <2> HIDE DEF next
  <2>3. \A f \in Fields : st'[f] = IF f \in {"phase", "handoffRequired"} THEN next[f] ELSE st[f]
    BY <1>1, <1>2, <2>1, ReducedLists
  <2> QED
    BY <1>5, <2>2, <2>3 DEF Fields
<1>6. a.kind \in {"contract", "evaluation", "handoff"}
  BY KindOfArtifact
<1> QED
  BY <1>3, <1>4, <1>5, <1>6

\* The history stays in order when something newer is recorded.
LEMMA OrderMore ==
    ASSUME ReportsInOrder, NEW a \in Artifacts, recorded' = Append(recorded, a),
           a.kind = "handoff" => st'.seq = st.seq,
           a.kind # "handoff" => st'.seq = a.seq /\ a.seq > st.seq
    PROVE  ReportsInOrder' /\ st'.seq >= st.seq
<1> DEFINE n == Len(recorded)
<1>1. /\ recorded \in Seq(Artifacts) /\ st.seq \in Nat
      /\ DOMAIN recorded' = 1..(n + 1) /\ DOMAIN recorded = 1..n /\ n \in Nat
      /\ recorded'[n + 1] = a /\ \A i \in 1..n : recorded'[i] = recorded[i]
      /\ recorded' \in Seq(Artifacts)
  BY DEF ReportsInOrder
<1> HIDE DEF n
<1>2. a.kind \in {"contract", "evaluation", "handoff"}
  BY KindOfArtifact
<1>3. a.kind # "handoff" => a.seq \in Nat
  <2>1. CASE a \in Contracts
    BY <2>1, ArtifactAssumption DEF Contracts
  <2>2. CASE a \in Reports
    <3>1. a.kind = "evaluation" => a.seq \in 1..MaxSequence
      BY ReportFields
    <3> QED
      BY <1>2, <3>1, <2>2, ReportKind
  <2>3. CASE a \in Handoffs
    BY <2>3 DEF Handoffs
  <2> QED
    BY <2>1, <2>2, <2>3 DEF Artifacts
<1>4. st'.seq \in Nat /\ st'.seq >= st.seq
  BY <1>1, <1>3
<1>5. ASSUME NEW i \in 1..n, recorded[i].kind = "evaluation"
      PROVE  recorded[i].seq <= st.seq /\ recorded[i].seq \in Nat
  <2>1. recorded[i] \in Artifacts
    BY <1>1
  <2>2. recorded[i].seq \in 1..MaxSequence
    BY <1>5, <2>1, ReportFields
  <2> QED
    BY <1>1, <1>5, <2>2 DEF ReportsInOrder
<1>6. ASSUME NEW i \in DOMAIN recorded', recorded'[i].kind = "evaluation"
      PROVE  recorded'[i].seq <= st'.seq
  <2>1. CASE i \in 1..n
    BY <1>1, <1>4, <1>5, <1>6, <2>1
  <2>2. CASE i = n + 1
    BY <1>1, <1>3, <1>6, <2>2
  <2> QED
    BY <1>1, <2>1, <2>2
<1>7. ASSUME NEW i \in DOMAIN recorded', NEW j \in DOMAIN recorded', i < j,
             recorded'[i].kind = "evaluation", recorded'[j].kind = "evaluation"
      PROVE  recorded'[i].seq < recorded'[j].seq
  <2>0. i \in 1..n
    BY <1>1, <1>7
  <2>1. CASE j \in 1..n
    BY <1>1, <1>7, <2>0, <2>1 DEF ReportsInOrder
  <2>2. CASE j = n + 1
    <3>1. recorded[i].seq <= st.seq /\ recorded[i].seq \in Nat
      BY <1>1, <1>5, <1>7, <2>0
    <3> QED
      BY <1>1, <1>3, <1>7, <2>0, <2>2, <3>1
  <2> QED
    BY <1>1, <2>1, <2>2
<1> QED
  BY <1>1, <1>4, <1>6, <1>7 DEF ReportsInOrder

\* The event of a record keeps what is counted right.
LEMMA AppendedCounts ==
    ASSUME PublishedInOrder, ListsOK(st), Counted, writing # None, writing.stage = "append",
           writing.artifact \in Artifacts, Appended, legacy' = legacy
    PROVE  /\ ReportsInOrder' /\ ContractFirst' /\ AttemptsOK' /\ PendingOK'
           /\ st'.seq >= st.seq
           /\ ~Excused => BucketsOK'
<1> DEFINE a == writing.artifact
           b == bootstrap_verdict_buckets_from_legacy_state(st)
           e == EvaluationApplied(st, a)
<1>1. a.kind \in {"contract", "evaluation", "handoff"}
  BY KindOfArtifact
<1>2. /\ a.seq > st.seq
      /\ a.kind = "contract" => st.phase = "contract_pending_approval"
      /\ a.kind = "evaluation" => st.contract # None
  BY DEF Counted, UnderWayOK
<1>3. recorded' = Append(recorded, a) /\ recorded \in Seq(Artifacts)
  BY DEF Appended, Counted, ReportsInOrder
<1>4. /\ a.kind = "evaluation" =>
            /\ st'.seq = a.seq
            /\ \A f \in Fields \ {"seq"} : st'[f] = e[f]
      /\ a.kind = "contract" =>
            /\ st'.seq = a.seq /\ st'.contract = a /\ st'.pending = Evaluators
            /\ st'.nonPassing = <<>> /\ st'.failed = <<>> /\ st'.blocked = <<>>
            /\ st'.retry = 0 /\ st'.aggregate = "pending"
            /\ st'.phase = "contract_approved"
      /\ a.kind = "handoff" =>
            /\ st'.phase = "executing"
            /\ \A f \in Fields \ {"phase", "handoffRequired"} : st'[f] = st[f]
  BY AppendedFields
<1>5. /\ \A f : RecordedBy(f)' = IF a.kind = "evaluation" /\ a.by = f
                                 THEN RecordedBy(f) \cup {Len(recorded) + 1} ELSE RecordedBy(f)
      /\ \A f : LastVerdict(f)' = IF a.kind = "evaluation" /\ a.by = f
                                  THEN a.verdict ELSE LastVerdict(f)
  BY <1>3, RecordedMore
<1>6. /\ Cardinality(Failures) \in Nat
      /\ Cardinality(Failures)' = IF a.kind = "evaluation" /\ a.verdict = "fail"
                                  THEN Cardinality(Failures) + 1 ELSE Cardinality(Failures)
  BY <1>3, FailuresMore
<1>7. ReportsInOrder' /\ st'.seq >= st.seq
  <2>1. a.kind = "handoff" => st'.seq = st.seq
    BY <1>4 DEF Fields
  <2>2. a.kind # "handoff" => st'.seq = a.seq /\ a.seq > st.seq
    BY <1>1, <1>2, <1>4
  <2> QED
    BY <1>3, <2>1, <2>2, OrderMore DEF Counted
<1>8. /\ DOMAIN recorded' = 1..(Len(recorded) + 1) /\ DOMAIN recorded = 1..Len(recorded)
      /\ Len(recorded) \in Nat
      /\ recorded'[Len(recorded) + 1] = a
      /\ \A i \in 1..Len(recorded) : recorded'[i] = recorded[i]
  BY <1>3
<1>9. /\ ReportsInOrder /\ ContractFirst /\ AttemptsOK /\ PendingOK /\ (Excused \/ BucketsOK)
      /\ takenBack \/ SetOf(recorded) \subseteq artifacts
  BY DEF Counted, IndexedOK, PublishedInOrder
<1>10. CASE a.kind = "handoff"
  <2>1. /\ st'.phase = "executing" /\ st'.contract = st.contract /\ st'.retry = st.retry
        /\ st'.pending = st.pending /\ st'.nonPassing = st.nonPassing
        /\ st'.failed = st.failed /\ st'.blocked = st.blocked /\ st'.aggregate = st.aggregate
    BY <1>4, <1>10 DEF Fields
  <2>2. (\A f : RecordedBy(f)' = RecordedBy(f)) /\ \A v : Latest(v)' = Latest(v)
    BY <1>5, <1>10 DEF Latest
  <2>3. ContractFirst'
    <3>1. \A i \in DOMAIN recorded' : recorded'[i].kind = "evaluation" =>
             i \in DOMAIN recorded /\ recorded[i].kind = "evaluation"
      BY <1>8, <1>10
    <3> QED
      BY <1>9, <2>1, <3>1 DEF ContractFirst
  <2>4. AttemptsOK'
    BY <1>6, <1>9, <1>10, <2>1 DEF AttemptsOK
  <2>5. PendingOK'
    BY <1>9, <2>1, <2>2 DEF PendingOK
  <2>6. ~Excused => BucketsOK'
    BY <1>9, <2>1, <2>2 DEF BucketsOK
  <2> QED
    BY <1>7, <2>3, <2>4, <2>5, <2>6
<1>11. CASE a.kind = "contract"
  <2>1. \A i \in DOMAIN recorded : recorded[i].kind # "evaluation"
    BY <1>2, <1>9, <1>11 DEF ContractFirst
  <2>2. \A f : RecordedBy(f)' = {} /\ LastVerdict(f)' = "none"
    <3>1. \A f : RecordedBy(f) = {}
      BY <2>1 DEF RecordedBy
    <3>2. \A f : LastVerdict(f) = "none"
      BY <3>1 DEF LastVerdict
    <3> QED
      BY <1>5, <1>11, <3>1, <3>2
  <2>3. ContractFirst'
    <3>1. \A i \in DOMAIN recorded' : recorded'[i].kind # "evaluation"
      BY <1>8, <1>11, <2>1
    <3>2. st'.phase # "contract_pending_approval"
      BY <1>4, <1>11
    <3> QED
      BY <3>1, <3>2 DEF ContractFirst
  <2>4. AttemptsOK'
    <3>1. Failures = {}
      BY <2>1 DEF Failures
    <3>2. Cardinality(Failures) = 0
      BY <3>1, FS_EmptySet
    <3> QED
      BY <1>4, <1>6, <1>11, <3>2 DEF AttemptsOK
  <2>5. PendingOK'
    BY <1>4, <1>11, <2>2 DEF PendingOK
  <2>6. BucketsOK'
    <3>1. SetOf(<<>>) = {}
      BY DEF SetOf
    <3>2. Latest("fail")' = {} /\ Latest("blocked")' = {}
      BY <2>2 DEF Latest
    <3> QED
      BY <1>4, <1>11, <3>1, <3>2 DEF BucketsOK
  <2> QED
    BY <1>7, <2>3, <2>4, <2>5, <2>6
<1>12. CASE a.kind = "evaluation"
  <2>1. /\ a.by \in SetOf(Evaluators) /\ a.verdict \in {"pass", "fail", "blocked"}
    BY <1>12, ReportFields
  <2>2. /\ SetOf(e.failed) = (SetOf(b.failed) \ {a.by})
                                 \cup (IF a.verdict = "fail" THEN {a.by} ELSE {})
        /\ SetOf(e.blocked) = (SetOf(b.blocked) \ {a.by})
                                  \cup (IF a.verdict = "blocked" THEN {a.by} ELSE {})
        /\ SetOf(e.nonPassing) = SetOf(e.failed) \cup SetOf(e.blocked)
        /\ SetOf(e.pending) = SetOf(st.pending) \ {a.by}
        /\ e.retry = IF a.verdict = "fail" /\ st.seq < a.seq THEN st.retry + 1 ELSE st.retry
        /\ e.contract = st.contract
        /\ e.phase # "contract_pending_approval"
        /\ e.aggregate = "pass" => e.failed = <<>> /\ e.blocked = <<>> /\ e.pending = <<>>
    BY <1>12, EvaluationCounts
  <2> HIDE DEF e
  <2>3. /\ st'.failed = e.failed /\ st'.blocked = e.blocked /\ st'.nonPassing = e.nonPassing
        /\ st'.pending = e.pending /\ st'.retry = e.retry /\ st'.contract = e.contract
        /\ st'.phase = e.phase /\ st'.aggregate = e.aggregate
    BY <1>4, <1>12 DEF Fields
  <2>4. ContractFirst'
    BY <1>2, <1>12, <2>2, <2>3 DEF ContractFirst
  <2>5. AttemptsOK'
    <3>1. st.seq < a.seq
      BY <1>2
    <3>2. st'.retry = IF a.verdict = "fail" THEN st.retry + 1 ELSE st.retry
      BY <2>2, <2>3, <3>1
    <3> QED
      BY <1>6, <1>9, <1>12, <3>2 DEF AttemptsOK
  <2>6. SetOf(st'.pending) = {f \in SetOf(Evaluators) : RecordedBy(f)' = {}}
    <3>1. SetOf(st.pending) = {f \in SetOf(Evaluators) : RecordedBy(f) = {}}
      BY <1>2, <1>9, <1>12 DEF PendingOK
    <3>2. \A f : RecordedBy(f)' = {} <=> RecordedBy(f) = {} /\ f # a.by
      BY <1>5, <1>12
    <3> QED
      BY <2>2, <2>3, <3>1, <3>2
  <2>7. PendingOK'
    BY <2>6 DEF PendingOK
  <2>8. ASSUME ~Excused PROVE BucketsOK'
    <3>1. SetOf(b.failed) = Latest("fail") /\ SetOf(b.blocked) = Latest("blocked")
      BY <1>9, <2>8, BootstrapCounts
    <3> HIDE DEF b
    <3>2. /\ Latest("fail")' = (Latest("fail") \ {a.by})
                                  \cup (IF a.verdict = "fail" THEN {a.by} ELSE {})
          /\ Latest("blocked")' = (Latest("blocked") \ {a.by})
                                     \cup (IF a.verdict = "blocked" THEN {a.by} ELSE {})
      BY <1>5, <1>12, <2>1 DEF Latest
    <3>3. SetOf(st'.failed) = Latest("fail")' /\ SetOf(st'.blocked) = Latest("blocked")'
      BY <2>2, <2>3, <3>1, <3>2
    <3>4. SetOf(st'.nonPassing) = Latest("fail")' \cup Latest("blocked")'
      BY <2>2, <2>3, <3>3
    <3>5. ASSUME st'.aggregate = "pass" PROVE Latest("pass")' = SetOf(Evaluators)
      <4>1. SetOf(<<>>) = {}
        BY DEF SetOf
      <4>2. SetOf(st'.failed) = {} /\ SetOf(st'.blocked) = {} /\ SetOf(st'.pending) = {}
        BY <2>2, <2>3, <3>5, <4>1
      <4>3. ASSUME NEW f \in SetOf(Evaluators) PROVE LastVerdict(f)' = "pass"
        <5>1. RecordedBy(f)' # {}
          BY <2>6, <4>2
        <5>2. LastVerdict(f)' # "fail" /\ LastVerdict(f)' # "blocked"
          BY <3>3, <4>2 DEF Latest
        <5>3. LastVerdict(f)' \in {"pass", "fail", "blocked"}
          <6>1. CASE a.by = f
            BY <1>5, <1>12, <2>1, <6>1
          <6>2. CASE a.by # f
            <7>1. RecordedBy(f) # {}
              BY <1>5, <5>1, <6>2
            <7>2. LastVerdict(f) \in {"pass", "fail", "blocked"}
              BY <1>3, <7>1, LastReport
            <7> QED
              BY <1>5, <6>2, <7>2
          <6> QED
            BY <6>1, <6>2
        <5> QED
          BY <5>2, <5>3
      <4> QED
        BY <4>3 DEF Latest
    <3> QED
      BY <3>3, <3>4, <3>5 DEF BucketsOK
  <2> QED
    BY <1>7, <2>4, <2>5, <2>7, <2>8
<1> QED
  BY <1>1, <1>10, <1>11, <1>12

\* A step command leaves what is counted alone.
LEMMA StepCommandCounts ==
    ASSUME ListsOK(st), Counted, NEW n, StepCommand(n),
           n.phase # "contract_pending_approval",
           n.aggregate = st.aggregate \/ n.aggregate # "pass"
    PROVE  Counted'
<1>1. StateLike(st)
  BY DEF ListsOK
<1>2. \A f \in Fields : st'[f] = IF f \in STEP_EVENT_FIELDS THEN n[f] ELSE st[f]
  BY <1>1, ReducedLists DEF StepCommand
<1>3. /\ st'.phase = n.phase /\ st'.aggregate = n.aggregate
      /\ st'.seq = st.seq /\ st'.contract = st.contract /\ st'.retry = st.retry
      /\ st'.pending = st.pending /\ st'.nonPassing = st.nonPassing
      /\ st'.failed = st.failed /\ st'.blocked = st.blocked
  BY <1>2 DEF Fields, STEP_EVENT_FIELDS
<1>4. UNCHANGED <<artifacts, indexed, writing, recorded, legacy, takenBack>> /\ writing = None
  BY DEF StepCommand
<1>5. Excused => Excused'
  BY <1>3, <1>4, ExcuseStays DEF Stray
<1>6. ReportsInOrder' /\ AttemptsOK'
  BY <1>3, <1>4 DEF Counted, ReportsInOrder, AttemptsOK, Failures
<1>7. ContractFirst'
  BY <1>3, <1>4 DEF Counted, ContractFirst
<1>8. UnderWayOK' /\ IndexedOK'
  BY <1>4 DEF Counted, UnderWayOK, IndexedOK
<1>9. PendingOK'
  BY <1>3, <1>4, LatestSame DEF Counted, PendingOK
<1>10. BucketsOK => BucketsOK'
  BY <1>3, <1>4, LatestSame DEF BucketsOK
<1> QED
  BY <1>5, <1>6, <1>7, <1>8, <1>9, <1>10 DEF Counted

\* An older runtime keeps who has not passed.
LEMMA OlderRuntimeCounts ==
    ASSUME ListsOK(st), Counted, OlderRuntime
    PROVE  Counted'
<1>1. /\ StateLike(st)
      /\ st' = [st EXCEPT !.failed = <<>>, !.blocked = <<>>]
      /\ UNCHANGED <<artifacts, indexed, writing, recorded, takenBack>>
      /\ legacy' = TRUE /\ writing = None
  BY DEF ListsOK, OlderRuntime
<1>2. /\ st'.phase = st.phase /\ st'.aggregate = st.aggregate
      /\ st'.seq = st.seq /\ st'.contract = st.contract /\ st'.retry = st.retry
      /\ st'.pending = st.pending /\ st'.nonPassing = st.nonPassing
      /\ st'.failed = <<>> /\ st'.blocked = <<>>
  BY <1>1 DEF StateLike, Fields
<1>3. Excused => Excused'
  BY <1>1, <1>2, ExcuseStays DEF Stray
<1>4. ReportsInOrder' /\ AttemptsOK'
  BY <1>1, <1>2 DEF Counted, ReportsInOrder, AttemptsOK, Failures
<1>5. ContractFirst' /\ UnderWayOK' /\ IndexedOK'
  BY <1>1, <1>2 DEF Counted, ContractFirst, UnderWayOK, IndexedOK
<1>6. PendingOK'
  BY <1>1, <1>2, LatestSame DEF Counted, PendingOK
<1>7. BucketsOK => BucketsOK'
  BY <1>1, <1>2, LatestSame DEF BucketsOK
<1> QED
  BY <1>3, <1>4, <1>5, <1>6, <1>7 DEF Counted

\* The files are artifacts.
FilesOK == artifacts \subseteq Artifacts

LEMMA FilesStep == ShapeOK /\ FilesOK /\ [arNext]_arVars => FilesOK'
<1> SUFFICES ASSUME ShapeOK, FilesOK, [arNext]_arVars PROVE FilesOK'
  OBVIOUS
<1>1. ASSUME artifacts' \subseteq artifacts PROVE FilesOK'
  BY <1>1 DEF FilesOK
<1>2. CASE WriteArtifact
  BY <1>2 DEF WriteArtifact, FilesOK, ShapeOK
<1>3. CASE \/ persist_dependency_index_after_authoritative_record
           \/ persist_observability_after_authoritative_record
           \/ AppendEvent \/ WriteState \/ WriteFails \/ AppendFails \/ Interrupted
  BY <1>1, <1>3 DEF persist_dependency_index_after_authoritative_record,
     persist_observability_after_authoritative_record, AppendEvent, WriteState, WriteFails,
     AppendFails, Interrupted, RemoveWritten
<1>4. CASE \/ \E a \in Artifacts : Begin(a)
           \/ Execute \/ apply_note_reset_policy \/ OlderRuntime
  BY <1>1, <1>4, Zenon DEF Begin, Execute, apply_note_reset_policy, StepCommand, OlderRuntime
<1>5. CASE UNCHANGED arVars
  BY <1>1, <1>5 DEF arVars
<1> QED
  BY <1>2, <1>3, <1>4, <1>5 DEF arNext

\* A report that was not recorded is not recorded later: what is recorded next is
\* newer than the state.
LEMMA AppendedExcuse ==
    ASSUME FilesOK, Counted, writing # None, writing.stage = "append",
           writing.artifact \in Artifacts, Appended,
           st'.seq >= st.seq, st'.seq \in Nat, legacy' = legacy, artifacts' = artifacts,
           takenBack' = takenBack
    PROVE  Excused => Excused'
<1> SUFFICES ASSUME Excused PROVE Excused'
  OBVIOUS
<1>1. CASE takenBack
  BY <1>1 DEF Excused
<1>2. CASE Stray # {}
  <2>1. PICK x \in Stray : TRUE
    BY <1>2
  <2>2. x \in artifacts /\ x.kind = "evaluation" /\ x.seq <= st.seq /\ x \notin SetOf(recorded)
    BY <2>1 DEF Stray
  <2>3. x.seq \in Nat /\ st.seq \in Nat
    <3>1. x.seq \in 1..MaxSequence
      BY <2>2, ReportFields DEF FilesOK
    <3> QED
      BY <3>1 DEF Counted, ReportsInOrder
  <2>4. x # writing.artifact
    BY <2>2, <2>3 DEF Counted, UnderWayOK
  <2>5. SetOf(recorded') = SetOf(recorded) \cup {writing.artifact}
    BY SetOfAppend DEF Appended, Counted, ReportsInOrder
  <2>6. x.seq <= st'.seq
    BY <2>2, <2>3
  <2>7. x \in Stray'
    BY <2>2, <2>4, <2>5, <2>6 DEF Stray
  <2> QED
    BY <2>7 DEF Excused
<1> QED
  BY <1>1, <1>2 DEF Excused

\* Every step keeps what is counted right.
LEMMA CountedStep ==
    arInv /\ FilesOK /\ ListsOK(st) /\ Counted /\ [arNext]_arVars => Counted'
<1> SUFFICES ASSUME arInv, FilesOK, ListsOK(st), Counted, [arNext]_arVars PROVE Counted'
  OBVIOUS
<1>1. PublishedInOrder /\ (takenBack \/ StageOK)
      /\ (writing # None => writing \in [artifact : Artifacts, stage : Stages, wrote : BOOLEAN])
  BY DEF arInv, ShapeOK
<1>2. CASE \/ \E a \in Artifacts : Begin(a)
           \/ WriteArtifact \/ persist_dependency_index_after_authoritative_record
           \/ persist_observability_after_authoritative_record
           \/ WriteState \/ WriteFails \/ Interrupted
           \/ AppendFails /\ UNCHANGED <<st, recorded>>
  BY <1>2, CountedUnderWay
<1>3. CASE AppendEvent
  <2>1. /\ writing # None /\ writing.stage = "append" /\ Appended
        /\ UNCHANGED <<artifacts, indexed, legacy, takenBack>>
        /\ writing' = [writing EXCEPT !.stage = "state"]
    BY <1>3 DEF AppendEvent
  <2>2. writing.artifact \in Artifacts
    BY <1>1, <2>1
  <2>3. /\ ReportsInOrder' /\ ContractFirst' /\ AttemptsOK' /\ PendingOK'
        /\ st'.seq >= st.seq
        /\ ~Excused => BucketsOK'
    BY <1>1, <2>1, <2>2, AppendedCounts
  <2>4. Excused => Excused'
    <3>1. st'.seq \in Nat
      BY <2>3 DEF ReportsInOrder
    <3> QED
      BY <2>1, <2>2, <2>3, <3>1, AppendedExcuse
  <2>5. UnderWayOK'
    BY <1>1, <2>1 DEF UnderWayOK
  <2>6. IndexedOK'
    <3>1. SetOf(recorded') = SetOf(recorded) \cup {writing.artifact}
      BY <2>1, <2>2, SetOfAppend DEF Appended, Counted, ReportsInOrder
    <3> QED
      BY <1>1, <2>1, <3>1 DEF Counted, IndexedOK, StageOK
  <2> QED
    BY <2>3, <2>4, <2>5, <2>6 DEF Counted
<1>4. CASE AppendFails /\ Appended
  <2>1. /\ writing # None /\ writing.stage = "append" /\ Appended
        /\ legacy' = legacy /\ takenBack' = TRUE /\ writing' = None
    BY <1>4 DEF AppendFails, Fault
  <2>2. writing.artifact \in Artifacts
    BY <1>1, <2>1
  <2>3. /\ ReportsInOrder' /\ ContractFirst' /\ AttemptsOK' /\ PendingOK'
        /\ ~Excused => BucketsOK'
    BY <1>1, <2>1, <2>2, AppendedCounts
  <2>4. UnderWayOK' /\ IndexedOK' /\ (Excused => Excused')
    BY <2>1 DEF UnderWayOK, IndexedOK, Excused
  <2> QED
    BY <2>3, <2>4 DEF Counted
<1>5. CASE Execute
  <2> DEFINE n == [st EXCEPT !.phase = "executing"]
  <2>1. n.phase = "executing" /\ n.aggregate = st.aggregate
    BY DEF ListsOK, StateLike, Fields
  <2>2. StepCommand(n)
    BY <1>5 DEF Execute
  <2> HIDE DEF n
  <2> QED
    BY <2>1, <2>2, StepCommandCounts
<1>6. CASE apply_note_reset_policy
  <2>1. PICK p \in {"pivot_required", "handoff_required"} :
          StepCommand([st EXCEPT !.phase = p, !.handoffRequired = TRUE, !.aggregate = "blocked"])
    BY <1>6 DEF apply_note_reset_policy
  <2> DEFINE n == [st EXCEPT !.phase = p, !.handoffRequired = TRUE, !.aggregate = "blocked"]
  <2>2. n.phase = p /\ n.aggregate = "blocked"
    BY DEF ListsOK, StateLike, Fields
  <2>3. p # "contract_pending_approval" /\ StepCommand(n)
    BY <2>1
  <2> HIDE DEF n
  <2> QED
    BY <2>2, <2>3, StepCommandCounts
<1>7. CASE OlderRuntime
  BY <1>7, OlderRuntimeCounts
<1>8. CASE UNCHANGED arVars
  <2>1. UnderWayOK' /\ IndexedOK' /\ (Excused => Excused')
    BY <1>8 DEF arVars, Counted, UnderWayOK, IndexedOK, Excused, Stray
  <2> QED
    BY <1>8, <2>1, CountedFrame DEF arVars
<1> QED
  BY <1>2, <1>3, <1>4, <1>5, <1>6, <1>7, <1>8 DEF arNext, AppendFails

(***************************************************************************)
(* Which replays are accepted.                                             *)
(***************************************************************************)
\* The contract requires its verifiers, and the last evaluation was one of a
\* contract.
RequiredOK ==
    /\ st.contract # None => st.required = Evaluators
    /\ lastRecord # None /\ lastRecord.artifact.kind = "evaluation" =>
          lastRecord.after.contract # None

LEMMA RequiredStart == arInit => RequiredOK
  BY DEF arInit, RequiredOK

\* The event of a record keeps them.
LEMMA AppendedRequires ==
    ASSUME ListsOK(st), Counted, RequiredOK, writing # None, writing.stage = "append",
           writing.artifact \in Artifacts, Appended
    PROVE  RequiredOK'
<1> DEFINE a == writing.artifact
<1>1. lastRecord' = [artifact |-> a, after |-> st']
  BY DEF Appended
<1>2. a.kind \in {"contract", "evaluation", "handoff"}
  BY KindOfArtifact
<1>3. CASE a.kind = "contract"
  <2>1. st'.required = Evaluators
    BY <1>3, AppendedFields
  <2> QED
    BY <1>1, <1>3, <2>1 DEF RequiredOK
<1>4. CASE a.kind = "evaluation"
  <2>1. st'.contract = st.contract /\ st'.required = st.required
    <3>1. \A f \in Fields \ {"seq"} : st'[f] = EvaluationApplied(st, a)[f]
      BY <1>4, AppendedFields
    <3>2. /\ EvaluationApplied(st, a).contract = st.contract
          /\ EvaluationApplied(st, a).required = st.required
      BY EvaluationNames DEF ListsOK
    <3> QED
      BY <3>1, <3>2 DEF Fields
  <2>2. st.contract # None
    BY <1>4 DEF Counted, UnderWayOK
  <2> QED
    BY <1>1, <2>1, <2>2 DEF RequiredOK
<1>5. CASE a.kind = "handoff"
  <2>1. st'.contract = st.contract /\ st'.required = st.required
    BY <1>5, AppendedFields DEF Fields
  <2> QED
    BY <1>1, <1>5, <2>1 DEF RequiredOK
<1> QED
  BY <1>2, <1>3, <1>4, <1>5

LEMMA RequiredStep ==
    ShapeOK /\ ReplayOK /\ Counted /\ RequiredOK /\ [arNext]_arVars => RequiredOK'
<1> SUFFICES ASSUME ShapeOK, ReplayOK, Counted, RequiredOK, [arNext]_arVars PROVE RequiredOK'
  OBVIOUS
<1>1. ListsOK(st) /\ StateLike(st)
  BY DEF ReplayOK, ListsOK
<1>2. ASSUME st'.contract = st.contract, st'.required = st.required, lastRecord' = lastRecord
      PROVE  RequiredOK'
  BY <1>2 DEF RequiredOK
<1>3. ASSUME writing # None, writing.stage = "append", Appended PROVE RequiredOK'
  <2>1. writing.artifact \in Artifacts
    BY <1>3 DEF ShapeOK
  <2> QED
    BY <1>1, <1>3, <2>1, AppendedRequires
<1>4. ASSUME NEW n, StepCommand(n) PROVE RequiredOK'
  <2>1. /\ \A f \in Fields : st'[f] = IF f \in STEP_EVENT_FIELDS THEN n[f] ELSE st[f]
        /\ lastRecord' = lastRecord
    BY <1>1, <1>4, ReducedLists DEF StepCommand
  <2> QED
    BY <1>2, <2>1 DEF Fields, STEP_EVENT_FIELDS
<1>5. CASE OlderRuntime
  <2>1. st'.contract = st.contract /\ st'.required = st.required /\ lastRecord' = lastRecord
    BY <1>1, <1>5 DEF OlderRuntime, StateLike, Fields
  <2> QED
    BY <1>2, <2>1
<1>6. ASSUME NEW a \in Artifacts, Begin(a) PROVE RequiredOK'
  BY <1>2, <1>6 DEF Begin
<1>7. CASE AppendEvent
  BY <1>3, <1>7 DEF AppendEvent
<1>8. CASE AppendFails
  BY <1>2, <1>3, <1>8 DEF AppendFails, Fault
<1>9. CASE \/ WriteArtifact \/ persist_dependency_index_after_authoritative_record
           \/ persist_observability_after_authoritative_record
           \/ WriteState \/ WriteFails \/ Interrupted
  BY <1>2, <1>9 DEF WriteArtifact, persist_dependency_index_after_authoritative_record,
     persist_observability_after_authoritative_record, WriteState, WriteFails, Interrupted
<1>10. CASE Execute
  BY <1>4, <1>10 DEF Execute
<1>11. CASE apply_note_reset_policy
  BY <1>4, <1>11, Zenon DEF apply_note_reset_policy
<1>12. CASE UNCHANGED arVars
  BY <1>2, <1>12 DEF arVars
<1> QED
  BY <1>5, <1>6, <1>7, <1>8, <1>9, <1>10, <1>11, <1>12 DEF arNext

\* The phase that the verdicts call for is one in which reports are accepted unless
\* they call for a handoff or a pivot.
LEMMA PhaseOfVerdicts ==
    ASSUME NEW s, StateLike(s), recompute_authoritative_evaluator_state(s) = s
    PROVE  /\ Halted(s) => s.phase \in {"handoff_required", "pivot_required"}
           /\ ~Halted(s) => s.phase \in {"executing", "repairing"}
<1> DEFINE r == recompute_authoritative_evaluator_state(s)
           pivot == s.threshold > 0 /\ s.retry >= s.threshold
<1>1. /\ s.blocked # <<>> => r.phase = "handoff_required"
      /\ s.blocked = <<>> /\ s.failed # <<>> /\ pivot => r.phase = "pivot_required"
      /\ s.blocked = <<>> /\ s.failed # <<>> /\ ~pivot => r.phase = "repairing"
      /\ s.blocked = <<>> /\ s.failed = <<>> => r.phase = "executing"
  BY DEF recompute_authoritative_evaluator_state, StateLike, Fields
<1>2. r = s
  OBVIOUS
<1> HIDE DEF r
<1> QED
  BY <1>1, <1>2 DEF Halted

LEMMA ReplayAccepted ==
    ASSUME arInv, ReplayOK, Counted, RequiredOK
    PROVE  ReplayIsIdempotent
<1>1. ASSUME NEW i \in DOMAIN recorded, NEW j \in DOMAIN recorded,
             recorded[i].kind = "evaluation", recorded[i] = recorded[j]
      PROVE  i = j
  <2>1. /\ recorded \in Seq(Artifacts)
        /\ i < j => recorded[i].seq < recorded[j].seq
        /\ j < i => recorded[j].seq < recorded[i].seq
    BY <1>1 DEF Counted, ReportsInOrder
  <2>2. i \in Nat /\ j \in Nat /\ recorded[i] \in Artifacts
    BY <2>1
  <2>3. recorded[i].seq \in Nat
    <3>1. recorded[i].seq \in 1..MaxSequence
      BY <1>1, <2>2, ReportFields
    <3> QED
      BY <3>1
  <2>4. recorded[j].seq = recorded[i].seq
    BY <1>1
  <2> QED
    BY <2>1, <2>2, <2>3, <2>4
<1>2. ASSUME lastRecord # None, lastRecord.artifact.kind = "evaluation", st = lastRecord.after
      PROVE  /\ apply_transition(st, lastRecord.artifact) = st
             /\ Recordable(lastRecord.artifact) => ~Halted(st)
             /\ ~Halted(st) /\ ~takenBack => Recordable(lastRecord.artifact)
  <2> DEFINE a == lastRecord.artifact
  <2>1. apply_transition(st, a) = st
    BY <1>2, ReplayHolds
  <2>2. a \in Artifacts /\ StateLike(st) /\ Settled(st, a)
    BY <1>2 DEF ReplayOK, ListsOK
  <2>3. /\ Halted(st) => st.phase \in {"handoff_required", "pivot_required"}
        /\ ~Halted(st) => st.phase \in {"executing", "repairing"}
    BY <2>2, PhaseOfVerdicts DEF Settled
  <2>4. Recordable(a) => ~Halted(st)
    BY <1>2, <2>3 DEF Recordable, EvaluationRecordable
  <2>5. ASSUME ~Halted(st), ~takenBack PROVE Recordable(a)
    <3>1. st.contract # None /\ st.required = Evaluators
      BY <1>2 DEF RequiredOK
    <3>2. st.contract \in artifacts
      BY <2>5, <3>1 DEF arInv, PublishedInOrder
    <3>3. a.by \in SetOf(st.required) /\ a.seq \in 1..MaxSequence
      BY <1>2, <2>2, <3>1, ReportFields
    <3>4. a.seq >= st.seq
      BY <2>2, <3>3 DEF Settled
    <3> QED
      BY <1>2, <2>3, <2>5, <3>1, <3>2, <3>3, <3>4
         DEF Recordable, EvaluationRecordable, require_active_contract_state
  <2> QED
    BY <2>1, <2>4, <2>5
<1> QED
  BY <1>1, <1>2 DEF ReplayIsIdempotent

\* The invariant of the records holds.
LEMMA RecordsKept == arSpec => [](arInv /\ FilesOK /\ ReplayOK /\ Counted /\ RequiredOK)
<1>1. arInit => arInv /\ FilesOK /\ ReplayOK /\ Counted /\ RequiredOK
  <2>1. arInit => FilesOK
    BY DEF arInit, FilesOK
  <2> QED
    BY <2>1, arStart, ReplayStart, CountedStart, RequiredStart
<1>2. arInv /\ FilesOK /\ ReplayOK /\ Counted /\ RequiredOK /\ [arNext]_arVars =>
         (arInv /\ FilesOK /\ ReplayOK /\ Counted /\ RequiredOK)'
  <2>1. arInv => ShapeOK
    BY DEF arInv
  <2>2. ReplayOK => ListsOK(st)
    BY DEF ReplayOK
  <2> QED
    BY <2>1, <2>2, arStep, FilesStep, ReplayStep, CountedStep, RequiredStep
<1> QED
  BY <1>1, <1>2, PTL DEF arSpec

\* However the records before it went, no report is in the log twice, and recording
\* the last evaluation again (record_evaluation with the sequence of the state)
\* changes neither a verdict, nor the order of a list, nor the number of attempts.
\* The replay is accepted exactly when the verdicts call neither for a handoff nor
\* for a pivot, unless the contract was taken back.
THEOREM ReplaysChangeNothing == arSpec => []ReplayIsIdempotent
<1>1. arInv /\ FilesOK /\ ReplayOK /\ Counted /\ RequiredOK => ReplayIsIdempotent
  BY ReplayAccepted
<1> QED
  BY <1>1, RecordsKept, PTL

\* For any verifiers and criteria and any crashes, replays and handoffs, the
\* evaluators that count as failed or blocked are those whose latest recorded
\* report says so, the retries are the failing reports, and the evaluation passes
\* only when every verifier's latest report does; also when an older runtime wrote
\* the state, unless a report on disk was never recorded
\* (recompute_authoritative_evaluator_state,
\* bootstrap_verdict_buckets_from_legacy_state).
THEOREM LatestReportsCount == arSpec => []VerdictsCounted
<1>1. arInv /\ FilesOK /\ ReplayOK /\ Counted /\ RequiredOK => VerdictsCounted
  BY CountedMeansVerdicts DEF arInv, ReplayOK
<1> QED
  BY <1>1, RecordsKept, PTL

-----------------------------------------------------------------------------
(***************************************************************************)
(* Task closures.                                                          *)
(***************************************************************************)
\* The overlay names current records of the history; of a task at most one
\* record is current, and all others of the task then are superseded.
LedgerOK(c) ==
    /\ c = [current |-> c.current, history |-> c.history, superseded |-> c.superseded]
    /\ \A id \in DOMAIN c.history : "status" \in DOMAIN c.history[id]
    /\ \A t \in DOMAIN c.current :
          /\ c.current[t] \in DOMAIN c.history
          /\ c.current[t].task = t
          /\ c.history[c.current[t]].status = "current"
    /\ \A id, other \in DOMAIN c.history :
          c.history[id].status = "current" /\ id.task = other.task /\ id # other =>
              /\ other \in c.superseded
              /\ c.history[other].status # "current"

\* The overlay adds nothing to the history: the current closure of a task is the
\* record that the history calls current.
LEMMA CurrentIsLive ==
    ASSUME LedgerOK(closures), NEW t \in DOMAIN CurrentClosures
    PROVE  /\ t \in DOMAIN FromHistory
           /\ CurrentClosures[t] = FromHistory[t]
           /\ FromHistory[t] \in DOMAIN closures.history
           /\ FromHistory[t].task = t
           /\ closures.history[FromHistory[t]].status = "current"
<1> DEFINE live == {id \in DOMAIN closures.history : closures.history[id].status = "current"}
<1>1. FromHistory = [u \in {id.task : id \in live} |-> CHOOSE id \in live : id.task = u]
  BY DEF FromHistory
<1>2. DOMAIN FromHistory = {id.task : id \in live}
  BY <1>1
<1>3. \A u \in DOMAIN closures.current : u \in {id.task : id \in live}
  BY DEF LedgerOK
<1>4. t \in DOMAIN FromHistory \cup DOMAIN closures.current
  BY DEF CurrentClosures
<1>5. t \in {id.task : id \in live}
  BY <1>2, <1>3, <1>4
<1>6. PICK id \in live : id.task = t
  BY <1>5
<1>7. FromHistory[t] = CHOOSE i \in live : i.task = t
  BY <1>1, <1>5
<1>8. FromHistory[t] \in live /\ FromHistory[t].task = t
  BY <1>6, <1>7
<1> QED
  BY <1>2, <1>5, <1>8 DEF CurrentClosures

\* remove_current_task_closure_results_with_record_status: the tasks lose the
\* record that was current, in overlay and history alike, and no other task
\* does.
LEMMA RemovedLedger ==
    ASSUME LedgerOK(closures), NEW tasks, NEW status, status # "current",
           NEW L, L = RemoveCurrent(closures, tasks, status)
    PROVE  /\ LedgerOK(L)
           /\ L.superseded = closures.superseded
           /\ DOMAIN L.history = DOMAIN closures.history
           /\ \A id \in DOMAIN L.history : L.history[id].status = "current" =>
                 closures.history[id].status = "current" /\ id.task \notin tasks
<1> DEFINE removed == {CurrentClosures[t] : t \in tasks \cap DOMAIN CurrentClosures}
           marked == mark_record_status(closures.history, removed, status)
<1>1. /\ L.current = Without(closures.current, tasks)
      /\ L.history = marked
      /\ L.superseded = closures.superseded
      /\ L = [current |-> L.current, history |-> L.history, superseded |-> L.superseded]
  BY DEF RemoveCurrent, LedgerOK
<1>2. DOMAIN marked = DOMAIN closures.history
  BY DEF mark_record_status
<1>3. ASSUME NEW id \in DOMAIN closures.history
      PROVE  /\ "status" \in DOMAIN marked[id]
             /\ id \in removed => marked[id].status = status
             /\ id \notin removed => marked[id] = closures.history[id]
  <2>1. "status" \in DOMAIN closures.history[id]
    BY DEF LedgerOK
  <2> QED
    BY <2>1 DEF mark_record_status
<1>4. ASSUME NEW id \in DOMAIN closures.history, closures.history[id].status = "current",
             id.task \in tasks
      PROVE  id \in removed
  <2>1. id.task \in DOMAIN CurrentClosures
    BY <1>4 DEF CurrentClosures, FromHistory
  <2>2. /\ CurrentClosures[id.task] \in DOMAIN closures.history
        /\ CurrentClosures[id.task].task = id.task
        /\ closures.history[CurrentClosures[id.task]].status = "current"
    BY <2>1, CurrentIsLive
  <2>3. CurrentClosures[id.task] = id
    BY <1>4, <2>2 DEF LedgerOK
  <2> QED
    BY <1>4, <2>1, <2>3
<1>5. ASSUME NEW id \in removed
      PROVE  id.task \in tasks
  BY <1>5, CurrentIsLive
<1> HIDE DEF removed, marked
<1>6. \A id \in DOMAIN L.history : L.history[id].status = "current" =>
          closures.history[id].status = "current" /\ id.task \notin tasks
  BY <1>1, <1>2, <1>3, <1>4
<1>7. ASSUME NEW t \in DOMAIN L.current
      PROVE  /\ L.current[t] \in DOMAIN L.history
             /\ L.current[t].task = t
             /\ L.history[L.current[t]].status = "current"
  <2>1. t \in DOMAIN closures.current /\ t \notin tasks /\ L.current[t] = closures.current[t]
    BY <1>1, <1>7 DEF Without
  <2>2. /\ closures.current[t] \in DOMAIN closures.history
        /\ closures.current[t].task = t
        /\ closures.history[closures.current[t]].status = "current"
    BY <2>1 DEF LedgerOK
  <2>3. closures.current[t] \notin removed
    BY <1>5, <2>1, <2>2
  <2> QED
    BY <1>1, <1>2, <1>3, <2>1, <2>2, <2>3
<1>8. \A id, other \in DOMAIN L.history :
          L.history[id].status = "current" /\ id.task = other.task /\ id # other =>
              /\ other \in L.superseded
              /\ L.history[other].status # "current"
  BY <1>1, <1>2, <1>6 DEF LedgerOK
<1> QED
  BY <1>1, <1>2, <1>3, <1>6, <1>7, <1>8 DEF LedgerOK

\* record_current_task_closure: the record it enters is the only one of its task
\* that is current, and the others of the task are superseded.
LEMMA RecordedLedger ==
    ASSUME LedgerOK(closures), NEW t
    PROVE  LedgerOK(RecordTaskClosure(t))
<1> DEFINE older == superseded_task_closure_records(t)
           L == RemoveCurrent(closures, {id.task : id \in older}, "superseded")
           own == ClosureId(t)
           entry == TaskClosureEntry(t, L.history)
           N == RecordTaskClosure(t)
<1>1. /\ LedgerOK(L)
      /\ L.superseded = closures.superseded
      /\ DOMAIN L.history = DOMAIN closures.history
      /\ \A id \in DOMAIN L.history : L.history[id].status = "current" =>
            id.task \notin {i.task : i \in older}
  <2> HIDE DEF older
  <2> QED
    BY RemovedLedger
<1>2. N = [current |-> At(L.current, t, own), history |-> At(L.history, own, entry),
           superseded |-> L.superseded \cup older]
  BY DEF RecordTaskClosure
<1>3. own.task = t
  BY DEF ClosureId
<1>4. "status" \in DOMAIN entry /\ entry.status = "current"
  BY DEF TaskClosureEntry
<1>5. \A id \in DOMAIN closures.history : id # own /\ id.task = t => id \in older
  BY DEF superseded_task_closure_records
<1> HIDE DEF older, L, own, entry, N
<1>6. /\ DOMAIN N.history = DOMAIN L.history \cup {own}
      /\ N.history[own] = entry
      /\ \A id \in DOMAIN L.history : id # own => N.history[id] = L.history[id]
      /\ DOMAIN N.current = DOMAIN L.current \cup {t}
      /\ N.current[t] = own
      /\ \A u \in DOMAIN L.current : u # t => N.current[u] = L.current[u]
      /\ N.superseded = L.superseded \cup older
  BY <1>2 DEF At
<1>7. \A id \in DOMAIN N.history : "status" \in DOMAIN N.history[id]
  BY <1>1, <1>4, <1>6 DEF LedgerOK
<1>8. ASSUME NEW u \in DOMAIN N.current
      PROVE  /\ N.current[u] \in DOMAIN N.history
             /\ N.current[u].task = u
             /\ N.history[N.current[u]].status = "current"
  <2>1. CASE u = t
    BY <1>3, <1>4, <1>6, <2>1
  <2>2. CASE u # t
    <3>1. /\ u \in DOMAIN L.current
          /\ N.current[u] = L.current[u]
      BY <1>6, <1>8, <2>2
    <3>2. /\ L.current[u] \in DOMAIN L.history
          /\ L.current[u].task = u
          /\ L.history[L.current[u]].status = "current"
      BY <1>1, <3>1 DEF LedgerOK
    <3> QED
      BY <1>3, <1>6, <2>2, <3>1, <3>2
  <2> QED
    BY <2>1, <2>2
<1>9. ASSUME NEW id \in DOMAIN N.history, NEW other \in DOMAIN N.history,
             N.history[id].status = "current", id.task = other.task, id # other
      PROVE  other \in N.superseded /\ N.history[other].status # "current"
  <2>1. CASE id = own
    <3>1. other \in DOMAIN L.history /\ other \in older
      BY <1>1, <1>3, <1>5, <1>6, <1>9, <2>1
    <3>2. L.history[other].status # "current"
      BY <1>1, <3>1
    <3> QED
      BY <1>6, <1>9, <2>1, <3>1, <3>2
  <2>2. CASE id # own
    <3>1. id \in DOMAIN L.history /\ L.history[id].status = "current"
      BY <1>6, <1>9, <2>2
    <3>2. id \notin older
      BY <1>1, <3>1
    <3>3. id.task # t
      BY <1>1, <1>5, <2>2, <3>1, <3>2
    <3>4. other \in DOMAIN L.history /\ other # own
      BY <1>3, <1>6, <1>9, <3>3
    <3> QED
      BY <1>1, <1>6, <1>9, <3>1, <3>4 DEF LedgerOK
  <2> QED
    BY <2>1, <2>2
<1>10. N = [current |-> N.current, history |-> N.history, superseded |-> N.superseded]
  BY <1>2
<1> QED
  <2>1. LedgerOK(N)
    BY <1>7, <1>8, <1>9, <1>10 DEF LedgerOK
  <2> QED
    BY <2>1 DEF N

\* A closed task has no record that the graph calls stale.
LEMMA LedgerSettles == LedgerOK(closures) => ClosedTaskIsNotStale
<1> SUFFICES ASSUME LedgerOK(closures),
                    NEW t \in DOMAIN CurrentClosures, t \in UnresolvedStaleTasks
             PROVE  FALSE
  BY DEF ClosedTaskIsNotStale
<1>1. PICK id \in DOMAIN closures.history :
        id.task = t /\ TaskFreshness(id) = "stale_unreviewed"
  BY DEF UnresolvedStaleTasks
<1>2. id \notin closures.superseded /\ closures.history[id].status = "stale_unreviewed"
  BY <1>1 DEF TaskFreshness
<1>3. /\ FromHistory[t] \in DOMAIN closures.history
      /\ FromHistory[t].task = t
      /\ closures.history[FromHistory[t]].status = "current"
  BY CurrentIsLive
<1> QED
  BY <1>1, <1>2, <1>3 DEF LedgerOK

\* A fresh run and imported records satisfy the invariant.
LEMMA LedgerStart == crInit => LedgerOK(closures)
<1> SUFFICES ASSUME crInit PROVE LedgerOK(closures)
  OBVIOUS
<1>1. CASE closures = [current |-> Empty, history |-> Empty, superseded |-> {}]
  BY <1>1 DEF LedgerOK, Empty
<1>2. CASE closures = [current |-> Empty, superseded |-> {},
                       history |-> [id \in {Imported(t) : t \in PlanTaskIds} |->
                           [seq |-> id.task, status |-> "current", dispatch |-> NoId,
                            surface |-> DeclaredFiles[id.task], tree |-> Untouched, contract |-> 0]]]
  <2>1. \A id \in DOMAIN closures.history :
          /\ "status" \in DOMAIN closures.history[id]
          /\ \E t \in PlanTaskIds : id = Imported(t)
    BY <1>2
  <2>2. \A t, u \in PlanTaskIds : Imported(t).task = Imported(u).task => Imported(t) = Imported(u)
    BY DEF Imported
  <2>3. DOMAIN closures.current = {}
    BY <1>2 DEF Empty
  <2>4. closures = [current |-> closures.current, history |-> closures.history,
                    superseded |-> closures.superseded]
    BY <1>2
  <2> QED
    BY <2>1, <2>2, <2>3, <2>4 DEF LedgerOK
<1> QED
  BY <1>1, <1>2 DEF crInit

\* Every command and every edit preserves it.
LEMMA LedgerStep == LedgerOK(closures) /\ [crNext]_crVars => LedgerOK(closures')
<1> SUFFICES ASSUME LedgerOK(closures), [crNext]_crVars
             PROVE  LedgerOK(closures')
  OBVIOUS
<1>1. ASSUME closures' = closures PROVE LedgerOK(closures')
  BY <1>1
<1>2. ASSUME NEW t \in PlanTaskIds, ClosePass(t) PROVE LedgerOK(closures')
  BY <1>2, RecordedLedger DEF ClosePass
<1>3. ASSUME NEW t \in PlanTaskIds, Repair(t) \/ RepairStructure(t)
      PROVE  LedgerOK(closures')
  <2>1. PICK status \in {"stale_unreviewed", "historical"} :
          closures' = RemoveCurrent(closures, {t}, status)
    BY <1>3 DEF Repair, RepairStructure
  <2>2. status # "current"
    OBVIOUS
  <2> QED
    BY <2>1, <2>2, RemovedLedger
<1>4. ASSUME Restore PROVE LedgerOK(closures')
  <2>1. CASE closures' = closures
    BY <2>1
  <2>2. CASE closures' = [closures EXCEPT !.current = FromHistory]
    <3>1. /\ closures'.current = FromHistory
          /\ closures'.history = closures.history
          /\ closures'.superseded = closures.superseded
          /\ closures' = [current |-> closures'.current, history |-> closures'.history,
                          superseded |-> closures'.superseded]
      BY <2>2 DEF LedgerOK
    <3>2. ASSUME NEW t \in DOMAIN FromHistory
          PROVE  /\ FromHistory[t] \in DOMAIN closures.history
                 /\ FromHistory[t].task = t
                 /\ closures.history[FromHistory[t]].status = "current"
      <4>1. t \in DOMAIN CurrentClosures
        BY <3>2 DEF CurrentClosures
      <4> QED
        BY <4>1, CurrentIsLive
    <3> QED
      BY <3>1, <3>2 DEF LedgerOK
  <2> QED
    BY <1>4, <2>1, <2>2 DEF Restore
<1>5. ASSUME NEW f \in Files, Edit(f) PROVE closures' = closures
  BY <1>5 DEF Edit
<1>6. ASSUME NEW t \in PlanTaskIds, NEW seen, Complete(t, seen) PROVE closures' = closures
  BY <1>6 DEF Complete
<1>7. ASSUME NEW t \in PlanTaskIds, Revise(t) \/ Reopen(t) \/ Dispatch(t) \/ CloseFail(t)
      PROVE  closures' = closures
  BY <1>7 DEF Revise, Reopen, Dispatch, CloseFail
<1>8. ASSUME RecordBranch \/ \E k \in Kinds \ {"branch"} : RecordMilestone(k)
      PROVE  closures' = closures
  BY <1>8 DEF RecordBranch, RecordMilestone
<1>9. ASSUME UNCHANGED crVars PROVE closures' = closures
  BY <1>9 DEF crVars
<1> QED
  BY <1>1, <1>2, <1>3, <1>4, <1>5, <1>6, <1>7, <1>8, <1>9 DEF crNext

\* A task that the record readers call closed is never the one that status sends
\* the agent back to as stale (current_task_closure_results and the closure
\* graph's earliest_unresolved_stale_task_number), for any plan and any sequence
\* of commands and edits.
THEOREM ClosedStaysSettled == crSpec => []ClosedTaskIsNotStale
<1>1. crInit => LedgerOK(closures)
  BY LedgerStart
<1>2. LedgerOK(closures) /\ [crNext]_crVars => LedgerOK(closures)'
  BY LedgerStep
<1>3. LedgerOK(closures) => ClosedTaskIsNotStale
  BY LedgerSettles
<1> QED
  BY <1>1, <1>2, <1>3, PTL DEF crSpec

-----------------------------------------------------------------------------
(***************************************************************************)
(* The branch closure and the milestones.                                  *)
(***************************************************************************)
\* A milestone that is bound was recorded for the branch closure and the
\* milestone before it that are bound.
StagesOK ==
    /\ DOMAIN stages = Kinds
    /\ \A k \in Kinds : {"bound", "shown", "records"} \subseteq DOMAIN stages[k]
    /\ \A k \in Kinds \ {"branch"} : Bound(k) # NoId =>
          /\ Bound("branch") # NoId
          /\ Bound(Upstream(k)) # NoId
          /\ Bound("branch") \in stages[k].records[Bound(k)].deps
          /\ Bound(Upstream(k)) \in stages[k].records[Bound(k)].deps

\* Then the closure graph counts exactly what is bound.
LEMMA StagesCount == StagesOK => BoundMilestonesCount
<1> SUFFICES ASSUME StagesOK PROVE BoundMilestonesCount
  OBVIOUS
<1>1. ASSUME NEW k \in Kinds
      PROVE  /\ Bound(k) # NoId => /\ Signal(k) = Bound(k)
                                   /\ stages[k].records[Bound(k)].status = "current"
             /\ Bound(k) = NoId /\ Signal(k) # NoId =>
                   stages[k].records[Signal(k)].status # "current"
  BY DEF Bound, Signal, LiveRecords
<1>2. Bound("branch") = GraphBranch(FALSE)
  <2>1. GraphBranch(FALSE) = IF /\ Signal("branch") # NoId
                                /\ stages["branch"].records[Signal("branch")].status = "current"
                             THEN Signal("branch") ELSE NoId
    BY DEF GraphBranch, BranchFreshness
  <2> QED
    BY <1>1, <2>1 DEF Kinds
<1>3. ASSUME NEW k \in Kinds \ {"branch"}, NEW needs,
             needs = {Bound("branch"), Bound(Upstream(k))}
      PROVE  Bound(k) = BoundMilestone(k, needs)
  <2>1. CASE Bound(k) = NoId
    BY <1>1, <2>1 DEF BoundMilestone
  <2>2. CASE Bound(k) # NoId
    <3>1. NoId \notin needs /\ needs \subseteq stages[k].records[Bound(k)].deps
      BY <1>3, <2>2 DEF StagesOK
    <3> QED
      BY <1>1, <2>2, <3>1 DEF BoundMilestone
  <2> QED
    BY <2>1, <2>2
<1>4. Upstream("release") = "branch" /\ Upstream("final") = "release" /\ Upstream("qa") = "final"
  BY DEF Upstream
<1>5. Bound("release") = GraphRelease(FALSE)
  BY <1>2, <1>3, <1>4 DEF GraphRelease, Kinds
<1>6. Bound("final") = GraphFinal(FALSE)
  BY <1>2, <1>3, <1>4, <1>5 DEF GraphFinal, Kinds
<1>7. Bound("qa") = GraphQa(FALSE)
  BY <1>2, <1>3, <1>4, <1>6 DEF GraphQa, Kinds
<1> QED
  BY <1>2, <1>5, <1>6, <1>7 DEF BoundMilestonesCount, GraphStage, Kinds

\* A fresh run and imported records satisfy the invariant.
LEMMA StagesStart == crInit => StagesOK
<1> SUFFICES ASSUME crInit PROVE StagesOK
  OBVIOUS
<1>1. ASSUME DOMAIN stages = Kinds,
             \A k \in Kinds : {"bound", "shown", "records"} \subseteq DOMAIN stages[k],
             \A k \in Kinds \ {"branch"} : stages[k].bound = NoId
      PROVE  StagesOK
  BY <1>1 DEF StagesOK, Bound
<1>2. CASE stages = NoStages
  BY <1>1, <1>2 DEF NoStages, NoStage
<1>3. CASE stages = ImportedStages
  <2>1. DOMAIN stages = Kinds
    BY <1>3 DEF ImportedStages, NoStages, Kinds
  <2>2. \A k \in Kinds \ {"branch"} : stages[k] = NoStage
    BY <1>3 DEF ImportedStages, NoStages, Kinds
  <2>3. {"bound", "shown", "records"} \subseteq DOMAIN stages["branch"]
    BY <1>3 DEF ImportedStages, NoStages, NoStage, Kinds
  <2> QED
    BY <1>1, <2>1, <2>2, <2>3 DEF NoStage
<1> QED
  BY <1>2, <1>3 DEF crInit

\* Every command and every edit preserves it: what is recorded retires what was
\* built on its predecessor.
LEMMA StagesStep == StagesOK /\ [crNext]_crVars => StagesOK'
<1> SUFFICES ASSUME StagesOK, [crNext]_crVars
             PROVE  StagesOK'
  OBVIOUS
<1>1. ASSUME stages' = stages PROVE StagesOK'
  BY <1>1 DEF StagesOK, Bound, LiveRecords
<1>2. ASSUME NEW k \in Kinds, stages'[k].bound = NoId
      PROVE  Bound(k)' = NoId
  BY <1>2 DEF Bound
<1>3. ASSUME RecordBranch PROVE StagesOK'
  <2>1. DOMAIN stages' = Kinds
    BY <1>3 DEF RecordBranch, SetBranch
  <2>2. \A k \in Kinds : {"bound", "shown", "records"} \subseteq DOMAIN stages'[k]
    BY <1>3 DEF RecordBranch, SetBranch, Retired, Entered
  <2>3. \A k \in Kinds \ {"branch"} : stages'[k].bound = NoId
    BY <1>3 DEF RecordBranch, SetBranch, Retired
  <2> QED
    BY <1>2, <2>1, <2>2, <2>3 DEF StagesOK
<1>4. ASSUME NEW t \in PlanTaskIds, Repair(t) PROVE StagesOK'
  <2>1. DOMAIN stages' = Kinds
    BY <1>4 DEF Repair, ClearBranch
  <2>2. \A k \in Kinds : {"bound", "shown", "records"} \subseteq DOMAIN stages'[k]
    BY <1>4 DEF Repair, ClearBranch, Retired
  <2>3. \A k \in Kinds \ {"branch"} : stages'[k].bound = NoId
    BY <1>4 DEF Repair, ClearBranch, Retired
  <2> QED
    BY <1>2, <2>1, <2>2, <2>3 DEF StagesOK
<1>5. ASSUME NEW k \in Kinds \ {"branch"}, RecordMilestone(k) PROVE StagesOK'
  <2> DEFINE id == NewStageId(k)
             deps == Dependencies(k)
             tree == stages.branch.records[Bound("branch")].tree
             own == Entered(Retired(stages[k], "historical"), id, deps, tree)
  <2>1. stages' = [j \in Kinds |->
                     IF j = k THEN own
                     ELSE IF j \in Downstream(k) THEN Retired(stages[j], "historical")
                     ELSE stages[j]]
    BY <1>5 DEF RecordMilestone, RecordStage
  <2>2. Bound("branch") # NoId /\ Bound(Upstream(k)) # NoId
    BY <1>5 DEF RecordMilestone, ValidBranch
  <2>3. deps = {Bound("branch"), Bound(Upstream(k))}
    BY DEF Dependencies
  <2>4. /\ own.bound = id /\ id \in DOMAIN own.records
        /\ own.records[id].status = "current" /\ own.records[id].deps = deps
        /\ {"bound", "shown", "records"} \subseteq DOMAIN own
    BY DEF Entered, At
  <2> HIDE DEF id, deps, tree, own
  <2>5. DOMAIN stages' = Kinds
    BY <2>1
  <2>6. \A j \in Kinds : {"bound", "shown", "records"} \subseteq DOMAIN stages'[j]
    BY <2>1, <2>4 DEF StagesOK, Retired
  <2>7. Bound(k)' = id /\ stages'[k].records[id].deps = deps
    BY <2>1, <2>4 DEF Bound, LiveRecords
  <2>8. \A j \in Downstream(k) : j \in Kinds /\ j # k => Bound(j)' = NoId
    BY <1>2, <2>1 DEF Retired
  <2>9. \A j \in Kinds : j # k /\ j \notin Downstream(k) =>
           stages'[j] = stages[j] /\ Bound(j)' = Bound(j)
    BY <2>1 DEF Bound, LiveRecords
  <2>10. ASSUME NEW j \in Kinds \ {"branch"}, Bound(j)' # NoId
         PROVE  /\ Bound("branch")' # NoId
                /\ Bound(Upstream(j))' # NoId
                /\ Bound("branch")' \in stages'[j].records[Bound(j)'].deps
                /\ Bound(Upstream(j))' \in stages'[j].records[Bound(j)'].deps
    <3>1. Bound("branch")' = Bound("branch")
      BY <2>9 DEF Downstream, Kinds
    <3>2. CASE j = k
      <4>1. Bound(Upstream(k))' = Bound(Upstream(k))
        BY <2>9 DEF Downstream, Upstream, Kinds
      <4> QED
        BY <2>2, <2>3, <2>7, <3>1, <3>2, <4>1
    <3>3. CASE j # k
      <4>1. j \notin Downstream(k)
        BY <2>8, <2>10, <3>3
      <4>2. stages'[j] = stages[j] /\ Bound(j)' = Bound(j)
        BY <2>9, <3>3, <4>1
      <4>3. Bound(Upstream(j))' = Bound(Upstream(j))
        BY <2>9, <3>3, <4>1 DEF Downstream, Upstream, Kinds
      <4> QED
        BY <2>10, <3>1, <4>2, <4>3 DEF StagesOK
    <3> QED
      BY <3>2, <3>3
  <2> QED
    BY <2>5, <2>6, <2>10 DEF StagesOK
<1>6. ASSUME Restore PROVE StagesOK'
  <2>1. BoundMilestonesCount
    BY StagesCount
  <2>2. stages' = RestoredStages
    BY <1>6 DEF Restore
  <2>3. /\ stages'["branch"] = RestoredBranch
        /\ stages'["release"] = RestoredStage("release", {RecoverableBranch})
        /\ stages'["final"] = RestoredStage("final", {RecoverableBranch, RestoredRelease.bound})
        /\ stages'["qa"] = RestoredStage("qa", {RecoverableBranch, RestoredFinal.bound})
        /\ DOMAIN stages' = Kinds
    BY <2>2 DEF RestoredStages, RestoredRelease, RestoredFinal, RestoredQa, Kinds
  <2>4. ASSUME NEW k \in Kinds \ {"branch"}
        PROVE  /\ stages'[k].bound = Binding(k)
               /\ stages'[k].records = stages[k].records
               /\ {"bound", "shown", "records"} \subseteq DOMAIN stages'[k]
    <3>1. PICK needs : stages'[k] = RestoredStage(k, needs)
      BY <2>3 DEF Kinds
    <3>2. {"bound", "shown", "records"} \subseteq DOMAIN stages[k]
      BY DEF StagesOK
    <3> QED
      BY <3>1, <3>2 DEF RestoredStage
  <2>5. /\ stages'["branch"].bound = stages["branch"].bound
        /\ stages'["branch"].records = stages["branch"].records
        /\ {"bound", "shown", "records"} \subseteq DOMAIN stages'["branch"]
    <3>1. {"bound", "shown", "records"} \subseteq DOMAIN stages["branch"]
      BY DEF StagesOK, Kinds
    <3>2. ValidBranch # NoId => ValidBranch = stages["branch"].bound
      BY DEF ValidBranch, Bound
    <3> QED
      BY <2>3, <3>1, <3>2 DEF RestoredBranch
  <2>6. Bound("branch")' = Bound("branch")
    BY <2>5 DEF Bound, LiveRecords
  <2>7. CASE ValidBranch = NoId
    <3>1. \A k \in Kinds \ {"branch"} : stages'[k].bound = NoId
      BY <2>4, <2>7 DEF Binding
    <3> QED
      BY <1>2, <2>3, <2>4, <2>5, <3>1 DEF StagesOK
  <2>8. CASE ValidBranch # NoId
    <3>1. ValidBranch = Bound("branch")
      BY <2>8 DEF ValidBranch
    <3>2. ASSUME NEW k \in Kinds \ {"branch"}
          PROVE  Binding(k) = Bound(k)
      <4>1. GraphStage(k) = Bound(k)
        BY <2>1 DEF BoundMilestonesCount
      <4> QED
        BY <2>8, <3>1, <4>1 DEF Binding, StagesOK
    <3>3. ASSUME NEW k \in Kinds \ {"branch"}
          PROVE  Bound(k)' = Bound(k)
      BY <2>4, <3>2 DEF Bound, LiveRecords
    <3>4. \A k \in Kinds : Bound(k)' = Bound(k) /\ stages'[k].records = stages[k].records
      BY <2>4, <2>5, <2>6, <3>3
    <3>5. \A k \in Kinds \ {"branch"} : Upstream(k) \in Kinds
      BY DEF Upstream, Kinds
    <3> QED
      BY <2>3, <2>4, <2>5, <2>6, <3>4, <3>5 DEF StagesOK
  <2> QED
    BY <2>7, <2>8
<1>7. ASSUME NEW f \in Files, Edit(f) PROVE stages' = stages
  BY <1>7 DEF Edit
<1>8. ASSUME NEW t \in PlanTaskIds, NEW seen, Complete(t, seen) PROVE stages' = stages
  BY <1>8 DEF Complete
<1>9. ASSUME NEW t \in PlanTaskIds,
             \/ Revise(t) \/ Reopen(t) \/ Dispatch(t) \/ ClosePass(t) \/ CloseFail(t)
             \/ RepairStructure(t)
      PROVE  stages' = stages
  BY <1>9 DEF Revise, Reopen, Dispatch, ClosePass, CloseFail, RepairStructure
<1>10. ASSUME UNCHANGED crVars PROVE stages' = stages
  BY <1>10 DEF crVars
<1> QED
  BY <1>1, <1>3, <1>4, <1>5, <1>6, <1>7, <1>8, <1>9, <1>10 DEF crNext

\* The milestones that are bound are the ones the closure graph counts
\* (bound_current_milestone_record_id), for any plan and any sequence of
\* commands and edits.
THEOREM MilestonesCounted == crSpec => []BoundMilestonesCount
<1>1. crInit => StagesOK
  BY StagesStart
<1>2. StagesOK /\ [crNext]_crVars => StagesOK'
  BY StagesStep
<1>3. StagesOK => BoundMilestonesCount
  BY StagesCount
<1> QED
  BY <1>1, <1>2, <1>3, PTL DEF crSpec

-----------------------------------------------------------------------------
(***************************************************************************)
(* The attempts of a projection are read back as they were written.        *)
(***************************************************************************)
\* h[i] is the concatenation of the first i lists.
FlatUpTo(h, ss) ==
    /\ h[0] = <<>> /\ h[Len(ss)] = FlattenSeq(ss)
    /\ \A i \in 1..Len(ss) : h[i] = h[i - 1] \o ss[i]

\* FlattenSeq(ss) is what appending the lists one after the other makes.
LEMMA FlattenStepwise ==
    ASSUME NEW X, NEW ss \in Seq(Seq(X)), Len(ss) # 0
    PROVE  \E h \in [0..Len(ss) -> Seq(X)] : FlatUpTo(h, ss)
<1> DEFINE n == Len(ss)
           F == Seq(X)
           Body(g, i) == IF i = 1 THEN ss[i] ELSE g[i - 1] \o ss[i]
           flat == CHOOSE g : g = [i \in 1..n |-> Body(g, i)]
           step == [p \in Nat \X F |-> IF p[1] + 1 \in 1..n THEN p[2] \o ss[p[1] + 1] ELSE p[2]]
<1>1. n \in Nat /\ n # 0 /\ \A i \in 1..n : ss[i] \in F
  OBVIOUS
<1>2. FlattenSeq(ss) = flat[n]
  BY <1>1 DEF FlattenSeq
<1>3. step \in [Nat \X F -> F]
  <2>1. ASSUME NEW p \in Nat \X F
        PROVE  (IF p[1] + 1 \in 1..n THEN p[2] \o ss[p[1] + 1] ELSE p[2]) \in F
    OBVIOUS
  <2> HIDE DEF F
  <2> QED
    BY <2>1
<1>4. <<>> \in F
  OBVIOUS
<1>5. PICK g \in [Nat -> F] : Follows(g, <<>>, step)
  <2> HIDE DEF F, step
  <2> QED
    BY <1>3, <1>4, Recursion
<1>6. ASSUME NEW i \in 1..n PROVE g[i] = g[i - 1] \o ss[i] /\ g[i - 1] \in F
  <2>1. i - 1 \in Nat /\ (i - 1) + 1 = i /\ i \in Nat
    OBVIOUS
  <2>2. g[i] = step[<<i - 1, g[i - 1]>>] /\ g[i - 1] \in F
    <3> HIDE DEF F, step
    <3>1. g[(i - 1) + 1] = step[<<i - 1, g[i - 1]>>]
      BY <1>5, <2>1, Zenon DEF Follows
    <3>2. g[i - 1] \in F
      BY <1>5, <2>1, Zenon
    <3> QED
      BY <2>1, <3>1, <3>2, Zenon
  <2> HIDE DEF F
  <2> QED
    BY <2>1, <2>2
<1>7. g[0] = <<>>
  BY <1>5 DEF Follows
<1> DEFINE G == [i \in 1..n |-> g[i]]
<1>8. ASSUME NEW i \in 1..n PROVE G[i] = Body(G, i)
  <2>1. CASE i = 1
    <3>0. 1 \in 1..n /\ 1 - 1 = 0
      BY <2>1
    <3>1. g[1] = g[1 - 1] \o ss[1]
      BY <1>6, <3>0
    <3>2. ss[1] \in F /\ <<>> \o ss[1] = ss[1]
      BY <1>1, <3>0
    <3>3. g[1] = ss[1]
      BY <1>7, <3>0, <3>1, <3>2
    <3> QED
      BY <2>1, <3>3
  <2>2. CASE i # 1
    <3>1. i - 1 \in 1..n
      BY <2>2
    <3> QED
      BY <1>6, <2>2, <3>1
  <2> QED
    BY <2>1, <2>2
<1>9. G = [i \in 1..n |-> Body(G, i)]
  <2> HIDE DEF Body
  <2> QED
    BY <1>8
<1>10. flat = [i \in 1..n |-> Body(flat, i)]
  <2> HIDE DEF Body, G
  <2> QED
    BY <1>9
<1>11. \A i \in 1..n : flat[i] = Body(flat, i)
  <2> HIDE DEF Body, flat
  <2> QED
    BY <1>10
<1> DEFINE h == [i \in 0..n |-> IF i = 0 THEN <<>> ELSE flat[i]]
<1>12. \A i \in 1..n : h[i] = h[i - 1] \o ss[i]
  <2> SUFFICES ASSUME NEW i \in 1..n PROVE h[i] = h[i - 1] \o ss[i]
    OBVIOUS
  <2>1. i \in 0..n /\ i - 1 \in 0..n /\ i # 0
    OBVIOUS
  <2>2. CASE i = 1
    <3>1. 1 \in 1..n /\ 1 - 1 = 0
      BY <2>2
    <3>2. flat[1] = ss[1]
      <4> HIDE DEF flat
      <4> QED
        BY <1>11, <3>1
    <3>3. ss[1] \in F /\ <<>> \o ss[1] = ss[1]
      BY <1>1, <3>1
    <3>4. h[1] = flat[1] /\ h[0] = <<>>
      BY <2>1, <2>2
    <3> HIDE DEF flat, h
    <3>5. h[1] = h[1 - 1] \o ss[1]
      BY <3>1, <3>2, <3>3, <3>4
    <3> QED
      BY <2>2, <3>5
  <2>3. CASE i # 1
    <3>1. flat[i] = flat[i - 1] \o ss[i]
      BY <1>11, <2>3
    <3>2. h[i] = flat[i]
      BY <2>1
    <3>3. i - 1 # 0
      BY <2>3
    <3>4. h[i - 1] = flat[i - 1]
      <4> HIDE DEF flat
      <4> QED
        BY <2>1, <3>3
    <3> QED
      BY <3>1, <3>2, <3>4
  <2> QED
    BY <2>2, <2>3
<1> HIDE DEF flat
<1>13. h[0] = <<>> /\ h[n] = FlattenSeq(ss) /\ DOMAIN h = 0..n /\ h = [i \in 0..n |-> h[i]]
  BY <1>1, <1>2
<1> HIDE DEF h
<1> DEFINE P == {k \in Nat : k \in 0..n => h[k] \in F}
<1>14. P = Nat
  <2>1. 0 \in P
    BY <1>4, <1>13
  <2>2. ASSUME NEW k \in P PROVE k + 1 \in P
    <3> SUFFICES ASSUME k + 1 \in 0..n PROVE h[k + 1] \in F
      OBVIOUS
    <3>1. k \in Nat /\ k \in 0..n /\ k + 1 \in 1..n /\ (k + 1) - 1 = k
      OBVIOUS
    <3>2. h[k + 1] = h[k] \o ss[k + 1]
      BY <1>12, <3>1, Zenon
    <3>3. h[k] \in F /\ ss[k + 1] \in F
      BY <1>1, <3>1
    <3> QED
      BY <3>2, <3>3
  <2> HIDE DEF P
  <2>3. P \subseteq Nat
    BY DEF P
  <2> QED
    BY <2>1, <2>2, <2>3, SetInduction
<1>15. ASSUME NEW k \in 0..n PROVE h[k] \in F
  <2>1. k \in P
    <3> HIDE DEF P
    <3> QED
      BY <1>14
  <2> QED
    BY <2>1
<1>16. h \in [0..n -> F]
  <2> HIDE DEF F
  <2> QED
    BY <1>13, <1>15
<1> QED
  BY <1>12, <1>13, <1>16 DEF FlatUpTo

\* The attempts a list may hold.
Attempts == [step : StepSet, n : Nat, status : {"Completed", "Invalidated"}]

LEMMA AttemptIsOf ==
    ASSUME NEW a \in Attempts, NEW s
    PROVE  a \in AttemptsOf(s) <=> a.step = s
  BY DEF Attempts, AttemptsOf

LEMMA OfStepElements ==
    ASSUME NEW a \in Seq(Attempts), NEW s
    PROVE  /\ OfStep(a, s) \in Seq(Attempts)
           /\ SetOf(OfStep(a, s)) = SetOf(a) \cap AttemptsOf(s)
  BY KeptElements DEF OfStep

LEMMA PlanIs ==
    /\ Len(PlanSteps) \in Nat \ {0}
    /\ \A i \in 1..Len(PlanSteps) : PlanSteps[i] \in StepSet
    /\ \A s \in StepSet : \E i \in 1..Len(PlanSteps) : s = PlanSteps[i]
    /\ \A i, j \in 1..Len(PlanSteps) : PlanSteps[i] = PlanSteps[j] => i = j
<1>1. Len(PlanSteps) # 0
  BY PlanStepsAssumption
<1> QED
  BY <1>1, PlanStepsAssumption DEF StepSet

\* What is written step by step is read back step by step.
LEMMA InPlanOrder ==
    ASSUME NEW ps \in [1..Len(PlanSteps) -> Seq(Attempts)],
           \A i \in 1..Len(PlanSteps) : SetOf(ps[i]) \subseteq AttemptsOf(PlanSteps[i])
    PROVE  /\ FlattenSeq(ps) \in Seq(Attempts)
           /\ \A i \in 1..Len(PlanSteps) : OfStep(FlattenSeq(ps), PlanSteps[i]) = ps[i]
<1> DEFINE n == Len(PlanSteps)
           A == Attempts
<1>1. n \in Nat /\ n # 0 /\ \A i \in 1..n : ps[i] \in Seq(A)
  BY PlanIs
<1>2. ps \in Seq(Seq(A)) /\ Len(ps) = n
  BY <1>1
<1>3. PICK h \in [0..n -> Seq(A)] : FlatUpTo(h, ps)
  <2> HIDE DEF A, n
  <2> QED
    BY <1>1, <1>2, FlattenStepwise
<1>4. /\ h[0] = <<>> /\ h[n] = FlattenSeq(ps)
      /\ \A i \in 1..n : h[i] = h[i - 1] \o ps[i]
  BY <1>2, <1>3 DEF FlatUpTo
<1>5. ASSUME NEW j \in 1..n
      PROVE  OfStep(FlattenSeq(ps), PlanSteps[j]) = ps[j]
  <2> DEFINE S == AttemptsOf(PlanSteps[j])
             P == {k \in Nat : k \in 0..n => Kept(h[k], S) = IF j <= k THEN ps[j] ELSE <<>>}
  <2>1. 0 \in P
    BY <1>4, KeptEmpty
  <2>2. ASSUME NEW k \in P PROVE k + 1 \in P
    <3> SUFFICES ASSUME k + 1 \in 0..n
                 PROVE  Kept(h[k + 1], S) = IF j <= k + 1 THEN ps[j] ELSE <<>>
      OBVIOUS
    <3>1. k \in Nat /\ k \in 0..n /\ k + 1 \in 1..n /\ (k + 1) - 1 = k
      BY <1>1
    <3>2. h[k + 1] = h[k] \o ps[k + 1]
      BY <1>4, <3>1, Zenon
    <3>3. h[k] \in Seq(A) /\ ps[k + 1] \in Seq(A)
      <4> HIDE DEF A, n
      <4> QED
        BY <1>1, <3>1
    <3>4. Kept(h[k + 1], S) = Kept(h[k], S) \o Kept(ps[k + 1], S)
      <4> HIDE DEF A, S
      <4> QED
        BY <3>2, <3>3, KeptConcat
    <3>5. Kept(h[k], S) = IF j <= k THEN ps[j] ELSE <<>>
      BY <3>1
    <3>6. CASE k + 1 = j
      <4>1. Kept(ps[k + 1], S) = ps[j]
        BY <3>3, <3>6, KeptWhole
      <4>2. Kept(h[k], S) = <<>>
        BY <3>1, <3>5, <3>6
      <4> QED
        BY <3>3, <3>4, <3>6, <4>1, <4>2
    <3>7. CASE k + 1 # j
      <4>1. PlanSteps[k + 1] # PlanSteps[j]
        BY <3>1, <3>7, PlanIs
      <4>2. SetOf(ps[k + 1]) \cap S = {}
        <5>1. SetOf(ps[k + 1]) \subseteq AttemptsOf(PlanSteps[k + 1])
          BY <3>1
        <5> QED
          BY <4>1, <5>1 DEF AttemptsOf
      <4>3. Kept(ps[k + 1], S) = <<>>
        <5> HIDE DEF A, S
        <5> QED
          BY <3>3, <4>2, KeptNothing
      <4>4. j <= k <=> j <= k + 1
        BY <3>1, <3>7
      <4>5. ps[j] \in Seq(A)
        BY <1>1
      <4> QED
        BY <3>4, <3>5, <4>3, <4>4, <4>5
    <3> QED
      BY <3>6, <3>7
  <2> HIDE DEF P
  <2>3. P \subseteq Nat
    BY DEF P
  <2>4. n \in P
    BY <1>1, <2>1, <2>2, <2>3, SetInduction
  <2>5. Kept(h[n], S) = ps[j]
    BY <1>1, <2>4 DEF P
  <2> QED
    BY <1>4, <2>5 DEF OfStep
<1>6. FlattenSeq(ps) \in Seq(A)
  BY <1>1, <1>3, <1>4
<1> QED
  BY <1>5, <1>6

\* The rendered attempts of a step are those of the list.
LEMMA GroupedKeeps ==
    ASSUME NEW a \in Seq(Attempts)
    PROVE  /\ Grouped(a) \in Seq(Attempts)
           /\ \A s \in StepSet : OfStep(Grouped(a), s) = OfStep(a, s)
<1> DEFINE ps == [i \in 1..Len(PlanSteps) |-> OfStep(a, PlanSteps[i])]
<1>1. ps \in [1..Len(PlanSteps) -> Seq(Attempts)]
  BY OfStepElements
<1>2. \A i \in 1..Len(PlanSteps) : SetOf(ps[i]) \subseteq AttemptsOf(PlanSteps[i])
  BY OfStepElements
<1>3. Grouped(a) = FlattenSeq(ps)
  BY DEF Grouped
<1>4. \A i \in 1..Len(PlanSteps) : ps[i] = OfStep(a, PlanSteps[i])
  OBVIOUS
<1> HIDE DEF ps
<1> QED
  BY <1>1, <1>2, <1>3, <1>4, InPlanOrder, PlanIs

LEMMA GroupedNumbered ==
    ASSUME NEW a \in Seq(Attempts), Numbered(a)
    PROVE  Numbered(Grouped(a))
  BY GroupedKeeps DEF Numbered

\* The synthesized attempts are the first of their steps.
LEMMA SynthesizedNumbered ==
    ASSUME NEW l
    PROVE  /\ synthesize_legacy_authoritative_evidence_attempts(l) \in Seq(Attempts)
           /\ Numbered(synthesize_legacy_authoritative_evidence_attempts(l))
<1> DEFINE first(i) == [step |-> PlanSteps[i], n |-> 1, status |-> "Completed"]
           ps == [i \in 1..Len(PlanSteps) |-> IF PlanSteps[i] \in l.done THEN <<first(i)>> ELSE <<>>]
<1>1. \A i \in 1..Len(PlanSteps) : first(i) \in Attempts /\ first(i) \in AttemptsOf(PlanSteps[i])
                                   /\ first(i).n = 1
  BY PlanIs DEF Attempts, AttemptsOf
<1> HIDE DEF first
<1>2. \A i \in 1..Len(PlanSteps) : ps[i] = <<first(i)>> \/ ps[i] = <<>>
  OBVIOUS
<1>3. ps \in [1..Len(PlanSteps) -> Seq(Attempts)]
  BY <1>1
<1>4. synthesize_legacy_authoritative_evidence_attempts(l) = FlattenSeq(ps)
  BY DEF synthesize_legacy_authoritative_evidence_attempts, first
<1> HIDE DEF ps
<1>5. \A i \in 1..Len(PlanSteps) : SetOf(ps[i]) \subseteq AttemptsOf(PlanSteps[i])
  BY <1>1, <1>2 DEF SetOf
<1>6. /\ FlattenSeq(ps) \in Seq(Attempts)
      /\ \A i \in 1..Len(PlanSteps) : OfStep(FlattenSeq(ps), PlanSteps[i]) = ps[i]
  BY <1>3, <1>5, InPlanOrder
<1>7. \A i \in 1..Len(PlanSteps) : \A k \in 1..Len(ps[i]) : ps[i][k].n = k
  BY <1>1, <1>2
<1> QED
  BY <1>4, <1>6, <1>7, PlanIs DEF Numbered

\* The next number of a step is one more than its attempts.
LEMMA NextNumber ==
    ASSUME NEW a \in Seq(Attempts), Numbered(a), NEW s \in StepSet
    PROVE  next_attempt_number(a, s) = Len(OfStep(a, s)) + 1
<1> DEFINE q == OfStep(a, s)
           N == {x.n : x \in SetOf(q)} \cup {0}
<1>1. q \in Seq(Attempts) /\ Len(q) \in Nat /\ DOMAIN q = 1..Len(q)
  BY OfStepElements
<1>2. \A i \in 1..Len(q) : q[i].n = i
  BY DEF Numbered
<1> HIDE DEF q
<1>3. N = 0..Len(q)
  <2>1. ASSUME NEW k \in N PROVE k \in 0..Len(q)
    BY <1>1, <1>2 DEF SetOf
  <2>2. ASSUME NEW k \in 0..Len(q) PROVE k \in N
    <3>1. CASE k = 0
      BY <3>1
    <3>2. CASE k # 0
      <4>1. k \in 1..Len(q)
        BY <1>1, <3>2
      <4>2. q[k] \in SetOf(q) /\ q[k].n = k
        BY <1>1, <1>2, <4>1 DEF SetOf
      <4> QED
        BY <4>2
    <3> QED
      BY <3>1, <3>2
  <2> QED
    BY <2>1, <2>2
<1>4. Len(q) \in N /\ \A k \in N : k \in Nat /\ Len(q) >= k
  BY <1>1, <1>3
<1> HIDE DEF N
<1>5. Max(N) \in N /\ \A k \in N : Max(N) >= k
  BY <1>4 DEF Max
<1>6. Max(N) = Len(q)
  BY <1>1, <1>4, <1>5
<1> QED
  BY <1>6 DEF next_attempt_number, N, q

\* An attempt that is added under the next number keeps the numbering.
LEMMA AppendNumbered ==
    ASSUME NEW a \in Seq(Attempts), Numbered(a), NEW s \in StepSet
    PROVE  LET x == [step |-> s, n |-> next_attempt_number(a, s), status |-> "Completed"]
           IN  Append(a, x) \in Seq(Attempts) /\ Numbered(Append(a, x))
<1> DEFINE x == [step |-> s, n |-> next_attempt_number(a, s), status |-> "Completed"]
           m == Len(OfStep(a, s)) + 1
<1>1. OfStep(a, s) \in Seq(Attempts) /\ m \in Nat
  BY OfStepElements
<1>2. x.n = m /\ x.step = s /\ x \in Attempts
  BY <1>1, NextNumber DEF Attempts
<1> HIDE DEF x
<1>3. \A r : x \in AttemptsOf(r) <=> r = s
  BY <1>2, AttemptIsOf
<1>4. ASSUME NEW r \in StepSet, NEW i \in 1..Len(OfStep(Append(a, x), r))
      PROVE  OfStep(Append(a, x), r)[i].n = i
  <2>1. OfStep(Append(a, x), r) = IF r = s THEN Append(OfStep(a, r), x) ELSE OfStep(a, r)
    BY <1>2, <1>3, KeptAppend DEF OfStep
  <2>2. OfStep(a, r) \in Seq(Attempts) /\ \A k \in 1..Len(OfStep(a, r)) : OfStep(a, r)[k].n = k
    BY OfStepElements DEF Numbered
  <2> QED
    BY <1>2, <2>1, <2>2
<1> QED
  BY <1>2, <1>4 DEF Numbered, x

\* Two lists whose attempts differ in their status at most.
Alike(u, v) ==
    Len(u) = Len(v) /\ \A i \in 1..Len(v) : u[i].step = v[i].step /\ u[i].n = v[i].n

LEMMA AlikeAppend ==
    ASSUME NEW v \in Seq(Attempts), NEW u \in Seq(Attempts), Alike(u, v),
           NEW x \in Attempts, NEW y \in Attempts, y.step = x.step, y.n = x.n
    PROVE  Alike(Append(u, y), Append(v, x))
<1>1. Len(u) = Len(v) /\ Len(v) \in Nat /\ \A i \in 1..Len(v) : u[i].step = v[i].step /\ u[i].n = v[i].n
  BY DEF Alike
<1>2. Len(Append(u, y)) = Len(v) + 1 /\ Len(Append(v, x)) = Len(v) + 1
  BY <1>1
<1>3. ASSUME NEW i \in 1..(Len(v) + 1)
      PROVE  /\ Append(u, y)[i] = IF i = Len(v) + 1 THEN y ELSE u[i]
             /\ Append(v, x)[i] = IF i = Len(v) + 1 THEN x ELSE v[i]
             /\ i # Len(v) + 1 => i \in 1..Len(v)
  BY <1>1
<1> QED
  BY <1>1, <1>2, <1>3 DEF Alike

LEMMA AlikeOfStep ==
    ASSUME NEW s, NEW v \in Seq(Attempts), NEW u \in Seq(Attempts), Alike(u, v)
    PROVE  Alike(OfStep(u, s), OfStep(v, s))
<1> DEFINE A == Attempts
           Q == {t \in Seq(A) : \A w \in Seq(A) : Alike(w, t) => Alike(OfStep(w, s), OfStep(t, s))}
<1>1. <<>> \in Q
  <2>1. ASSUME NEW w \in Seq(A), Alike(w, <<>>) PROVE w = <<>>
    BY <2>1 DEF Alike
  <2>2. Alike(OfStep(<<>>, s), OfStep(<<>>, s))
    BY DEF Alike
  <2>3. <<>> \in Seq(A)
    OBVIOUS
  <2> HIDE DEF A
  <2> QED
    BY <2>1, <2>2, <2>3
<1>2. ASSUME NEW t \in Q, NEW x \in A PROVE Append(t, x) \in Q
  <2>1. t \in Seq(A) /\ Append(t, x) \in Seq(A)
    OBVIOUS
  <2>2. ASSUME NEW w \in Seq(A), Alike(w, Append(t, x))
        PROVE  Alike(OfStep(w, s), OfStep(Append(t, x), s))
    <3> DEFINE y == w[Len(w)]
               r == Shorter(w)
    <3>1. Len(Append(t, x)) = Len(t) + 1 /\ Len(t) \in Nat /\ Append(t, x)[Len(t) + 1] = x
          /\ \A i \in 1..Len(t) : Append(t, x)[i] = t[i]
      BY <2>1
    <3>2. Len(w) = Len(t) + 1
      BY <2>2, <3>1 DEF Alike
    <3>3. r \in Seq(A) /\ Len(r) = Len(t) /\ y \in A /\ w = Append(r, y)
      <4> HIDE DEF A, y, r
      <4> QED
        BY <3>1, <3>2, ListOfShorter DEF y, r
    <3> HIDE DEF r, y
    <3>4. w[Len(t) + 1] = y /\ \A i \in 1..Len(t) : w[i] = r[i]
      BY <3>1, <3>3
    <3>5. y.step = x.step /\ y.n = x.n
      BY <2>2, <3>1, <3>4 DEF Alike
    <3>6. Alike(r, t)
      BY <2>2, <3>1, <3>3, <3>4 DEF Alike
    <3>7. Alike(OfStep(r, s), OfStep(t, s))
      BY <3>3, <3>6
    <3>8. y \in AttemptsOf(s) <=> x \in AttemptsOf(s)
      BY <3>3, <3>5, AttemptIsOf
    <3>9. /\ OfStep(w, s) = IF y \in AttemptsOf(s) THEN Append(OfStep(r, s), y) ELSE OfStep(r, s)
          /\ OfStep(Append(t, x), s) = IF x \in AttemptsOf(s) THEN Append(OfStep(t, s), x)
                                       ELSE OfStep(t, s)
      BY <2>1, <3>3, KeptAppend DEF OfStep
    <3>10. OfStep(r, s) \in Seq(A) /\ OfStep(t, s) \in Seq(A)
      BY <2>1, <3>3, OfStepElements
    <3>11. Alike(Append(OfStep(r, s), y), Append(OfStep(t, s), x))
      <4> HIDE DEF Q
      <4> QED
        BY <3>3, <3>5, <3>7, <3>10, AlikeAppend
    <3> QED
      BY <3>7, <3>8, <3>9, <3>11
  <2> HIDE DEF A
  <2> QED
    BY <2>1, <2>2
<1>3. Q = Seq(A)
  <2> HIDE DEF A, Q
  <2>1. Q \subseteq Seq(A)
    BY DEF Q
  <2> QED
    BY <1>1, <1>2, <2>1, ListInduction
<1> QED
  BY <1>3

LEMMA AlikeNumbered ==
    ASSUME NEW v \in Seq(Attempts), NEW u \in Seq(Attempts), Alike(u, v), Numbered(v)
    PROVE  Numbered(u)
<1> SUFFICES ASSUME NEW s \in StepSet, NEW i \in 1..Len(OfStep(u, s))
             PROVE  OfStep(u, s)[i].n = i
  BY DEF Numbered
<1>1. Alike(OfStep(u, s), OfStep(v, s))
  BY AlikeOfStep
<1>2. \A k \in 1..Len(OfStep(v, s)) : OfStep(v, s)[k].n = k
  BY DEF Numbered
<1> QED
  BY <1>1, <1>2 DEF Alike

\* Invalidating an attempt keeps the numbering.
LEMMA InvalidateNumbered ==
    ASSUME NEW a \in Seq(Attempts), Numbered(a), NEW s
    PROVE  /\ invalidate_latest_completed_attempt(a, s) \in Seq(Attempts)
           /\ Numbered(invalidate_latest_completed_attempt(a, s))
<1> DEFINE k == Max({i \in 1..Len(a) : a[i].step = s /\ a[i].status = "Completed"})
           b == [a EXCEPT ![k].status = "Invalidated"]
<1>1. Len(a) \in Nat /\ DOMAIN a = 1..Len(a) /\ \A i \in 1..Len(a) : a[i] \in Attempts
  OBVIOUS
<1> HIDE DEF k
<1>2. DOMAIN b = 1..Len(a)
      /\ \A i \in 1..Len(a) : b[i] = IF i = k THEN [a[i] EXCEPT !.status = "Invalidated"] ELSE a[i]
  BY <1>1
<1>3. ASSUME NEW i \in 1..Len(a)
      PROVE  b[i] \in Attempts /\ b[i].step = a[i].step /\ b[i].n = a[i].n
  <2> HIDE DEF b
  <2> QED
    BY <1>1, <1>2 DEF Attempts
<1>4. b = [i \in 1..Len(a) |-> b[i]]
  BY <1>1
<1> HIDE DEF b
<1>5. b \in [1..Len(a) -> Attempts]
  BY <1>3, <1>4
<1>6. b \in Seq(Attempts) /\ Len(b) = Len(a)
  BY <1>1, <1>5
<1>7. Alike(b, a)
  BY <1>3, <1>6 DEF Alike
<1> QED
  BY <1>6, <1>7, AlikeNumbered DEF invalidate_latest_completed_attempt, b, k

-----------------------------------------------------------------------------
(***************************************************************************)
(* The log is the authority, the projections are read models.              *)
(***************************************************************************)
\* The documents there can be.
Docs == [fmt : {"v2", "legacy", "broken"}, plan : PlanTexts, attempts : Seq(Attempts),
         comment : BOOLEAN]

\* What is recorded is numbered, and what was rendered parses.
LogOK ==
    /\ DOMAIN log = {"attempts", "fp", "done", "open", "closed"}
    /\ log.attempts # NoDoc => log.attempts \in Seq(Attempts) /\ Numbered(log.attempts)
    /\ log.fp # NoDoc => log.fp \in Docs /\ parses(log.fp)

DocsOK ==
    /\ evidence # NoDoc => evidence \in Docs
    /\ tracked # NoDoc => tracked \in Docs /\ Numbered(tracked.attempts)
    /\ planText \in PlanTexts

\* What materialize-projections has loaded can be rendered.
JobOK ==
    /\ DOMAIN job = {"pc", "attempts", "mode", "text", "closed"}
    /\ job.pc \in {"loaded", "claimed", "evidence written"} =>
           job.text \in PlanTexts /\ job.attempts \in Seq(Attempts) /\ Numbered(job.attempts)

\* A projection nobody touched is the one that was written last.
UntouchedOK ==
    /\ job.pc = "refused" => touched
    /\ ~touched /\ evidence # NoDoc =>
           parses(evidence) /\ (job.pc # "evidence written" => evidence = sidecar)
    /\ ~touched /\ job.pc = "evidence written" =>
           evidence = render_evidence_projection_source(job.text, job.attempts)

pjInv == LogOK /\ DocsOK /\ JobOK /\ UntouchedOK

LEMMA NothingNumbered == <<>> \in Seq(Attempts) /\ Numbered(<<>>)
  BY KeptEmpty DEF Numbered, OfStep

LEMMA RenderParses ==
    ASSUME NEW text \in PlanTexts, NEW a \in Seq(Attempts), Numbered(a)
    PROVE  /\ render_evidence_projection_source(text, a) \in Docs
           /\ parses(render_evidence_projection_source(text, a))
<1>1. Grouped(a) \in Seq(Attempts) /\ Numbered(Grouped(a))
  BY GroupedKeeps, GroupedNumbered
<1> QED
  BY <1>1 DEF render_evidence_projection_source, Docs, parses, FieldsParse

\* A text that matches a fingerprint parses like the text it is taken of.
LEMMA MatchParses ==
    ASSUME NEW doc \in Docs, NEW fp \in Docs, parses(fp),
           projection_source_matches_fingerprint(doc, fp)
    PROVE  parses(doc)
<1>1. doc.fmt = fp.fmt /\ doc.attempts = fp.attempts
  BY DEF projection_source_matches_fingerprint, Docs
<1> QED
  BY <1>1 DEF parses, FieldsParse

\* Whatever is read is numbered.
LEMMA ReadNumbered ==
    ASSUME DocsOK, LogOK, NEW mutation
    PROVE  LET read == parse_execution_evidence_projection(log, mutation)
           IN  read.attempts \in Seq(Attempts) /\ Numbered(read.attempts)
<1> DEFINE Good(read) == read.attempts \in Seq(Attempts) /\ Numbered(read.attempts)
<1>1. Good(Refuse) /\ Good(Read(<<>>))
  BY NothingNumbered DEF Refuse, Read
<1>2. Good(TrackedLegacy(log, mutation))
  BY <1>1 DEF TrackedLegacy, DocsOK, Docs, Read
<1>3. CASE evidence = NoDoc
  BY <1>2, <1>3 DEF parse_execution_evidence_projection
<1>4. CASE evidence # NoDoc
  <2>1. evidence \in Docs
    BY <1>4 DEF DocsOK
  <2>2. parses(evidence) => Good(Read(evidence.attempts))
    BY <2>1 DEF parses, Read, Docs
  <2>3. Good(parse_evidence_source(evidence))
    BY <1>1, <2>2 DEF parse_evidence_source
  <2>4. Good(Unbound(log, mutation))
    BY <1>1, <1>2, <2>2, <2>3 DEF Unbound, self_bound
  <2>5. classify_stale_state_dir_evidence_projection(evidence, log, planText, sidecar) = "evidence"
        => Good(Read(evidence.attempts))
    BY <2>2 DEF classify_stale_state_dir_evidence_projection
  <2>6. currentness(evidence, log) \in {"current", "stale", "unbound"}
    BY DEF currentness
  <2> HIDE DEF Good
  <2>7. Good(parse_execution_evidence_projection(log, mutation))
    BY <1>1, <1>2, <1>4, <2>3, <2>4, <2>5, <2>6 DEF parse_execution_evidence_projection
  <2> QED
    BY <2>7 DEF Good
<1> QED
  BY <1>3, <1>4

\* Whatever is loaded is numbered.
LEMMA LoadNumbered ==
    ASSUME DocsOK, LogOK, NEW mutation
    PROVE  LET loads == load_execution_context_with_policies(mutation)
           IN  loads.attempts \in Seq(Attempts) /\ Numbered(loads.attempts)
<1> DEFINE read == parse_execution_evidence_projection(log, mutation)
           over == overlay_execution_evidence_attempts_from_authority(read, log)
<1>1. read.attempts \in Seq(Attempts) /\ Numbered(read.attempts)
  BY ReadNumbered
<1> HIDE DEF read
<1>2. over \in Seq(Attempts) /\ Numbered(over)
  BY <1>1, SynthesizedNumbered DEF overlay_execution_evidence_attempts_from_authority, LogOK
<1> HIDE DEF over
<1>3. load_execution_context_with_policies(mutation).attempts = over
      \/ load_execution_context_with_policies(mutation).attempts = <<>>
  BY DEF load_execution_context_with_policies, over, read
<1> QED
  BY <1>2, <1>3, NothingNumbered

\* The log is the authority, whatever the projections say.
LEMMA LogOwns ==
    ASSUME DocsOK, LogOK, NEW mutation
    PROVE  LET loads == load_execution_context_with_policies(mutation)
           IN  loads.owned /\ loads.admitted => loads.ok /\ loads.attempts = loads.mine
<1> DEFINE loads == load_execution_context_with_policies(mutation)
           read == parse_execution_evidence_projection(log, mutation)
<1> SUFFICES ASSUME loads.owned, loads.admitted PROVE loads.ok /\ loads.attempts = loads.mine
  OBVIOUS
<1>1. log.attempts # NoDoc /\ log.fp # NoDoc /\ Admitted
  BY DEF load_execution_context_with_policies
<1>2. authoritative_state_owns_evidence_history(log)
  BY <1>1 DEF authoritative_state_owns_evidence_history
<1>3. TrackedLegacy(log, mutation).ok
  BY <1>2 DEF TrackedLegacy, Read
<1>4. read.ok
  <2>1. CASE evidence = NoDoc
    BY <1>3, <2>1 DEF parse_execution_evidence_projection
  <2>2. CASE evidence # NoDoc
    <3>1. evidence \in Docs /\ log.fp \in Docs /\ parses(log.fp)
      BY <1>1, <2>2 DEF DocsOK, LogOK
    <3>2. currentness(evidence, log) \in {"current", "stale"}
      BY <1>1 DEF currentness
    <3>3. currentness(evidence, log) = "current" => parse_evidence_source(evidence).ok
      BY <1>1, <3>1, MatchParses DEF currentness, parse_evidence_source, Read
    <3>4. Read(evidence.attempts).ok
      BY DEF Read
    <3> QED
      BY <1>2, <1>3, <2>2, <3>2, <3>3, <3>4 DEF parse_execution_evidence_projection
  <2> QED
    BY <2>1, <2>2
<1> HIDE DEF read
<1>5. loads.ok /\ loads.attempts = overlay_execution_evidence_attempts_from_authority(read, log)
      /\ loads.mine = log.attempts
  BY <1>1, <1>4 DEF load_execution_context_with_policies, read
<1> QED
  BY <1>1, <1>5 DEF overlay_execution_evidence_attempts_from_authority

\* What a command records of attempts that are numbered.
LEMMA PublishKeeps ==
    ASSUME DocsOK, LogOK, NEW a \in Seq(Attempts), Numbered(a), NEW done, NEW open, NEW kept,
           Publish(a, done, open, kept)
    PROVE  LogOK'
<1> DEFINE fp == render_evidence_projection_source(planText, a)
<1>1. fp \in Docs /\ parses(fp)
  BY RenderParses DEF DocsOK
<1> HIDE DEF fp
<1>2. log' = [attempts |-> IF kept THEN a ELSE log.attempts, fp |-> fp,
              done |-> done, open |-> open, closed |-> log.closed \cap done]
  BY DEF Publish, fp
<1>3. DOMAIN log' = {"attempts", "fp", "done", "open", "closed"} /\ log'.fp = fp
      /\ log'.attempts = IF kept THEN a ELSE log.attempts
  BY <1>2
<1> QED
  BY <1>1, <1>3 DEF LogOK, parses, FieldsParse, Numbered

\* What an action leaves alone keeps what is said of it.
LEMMA LogKept == ASSUME LogOK, UNCHANGED log PROVE LogOK'
  BY DEF LogOK, parses, FieldsParse, Numbered

LEMMA DocsKept == ASSUME DocsOK, UNCHANGED <<evidence, tracked, planText>> PROVE DocsOK'
  BY DEF DocsOK, Numbered

LEMMA JobKept == ASSUME JobOK, UNCHANGED job PROVE JobOK'
  BY DEF JobOK, Numbered

LEMMA UntouchedKept ==
    ASSUME UntouchedOK, UNCHANGED <<evidence, sidecar, job, touched>> PROVE UntouchedOK'
  BY DEF UntouchedOK, parses, FieldsParse, Numbered, render_evidence_projection_source

\* A step command records what it loaded, one attempt added or invalidated.
LEMMA CommandKeeps ==
    ASSUME pjInv, NEW s \in StepSet, BeginStep(s) \/ CompleteStep(s) \/ ReopenStep(s)
    PROVE  pjInv'
<1> DEFINE loads == load_execution_context_for_mutation
<1>1. UNCHANGED <<evidence, sidecar, tracked, planText, job, touched>>
  BY DEF BeginStep, CompleteStep, ReopenStep
<1>2. DocsOK' /\ JobOK' /\ UntouchedOK'
  BY <1>1, DocsKept, JobKept, UntouchedKept DEF pjInv
<1>3. LogOK /\ DocsOK
  BY DEF pjInv
<1>4. loads.attempts \in Seq(Attempts) /\ Numbered(loads.attempts)
  BY <1>3, LoadNumbered DEF load_execution_context_for_mutation
<1> DEFINE a == loads.attempts
           x == [step |-> s, n |-> next_attempt_number(a, s), status |-> "Completed"]
           b == Append(a, x)
           c == invalidate_latest_completed_attempt(a, s)
<1>5. \/ Publish(a, log.done, s, FALSE)
      \/ Publish(b, log.done \cup {s}, NoDoc, TRUE)
      \/ Publish(c, log.done \ {s}, s, TRUE)
  BY DEF BeginStep, CompleteStep, ReopenStep
<1> HIDE DEF a
<1>6. b \in Seq(Attempts) /\ Numbered(b)
  BY <1>4, AppendNumbered DEF a
<1>7. c \in Seq(Attempts) /\ Numbered(c)
  BY <1>4, InvalidateNumbered DEF a
<1>8. a \in Seq(Attempts) /\ Numbered(a)
  BY <1>4 DEF a
<1> HIDE DEF b, c
<1>9. LogOK'
  BY <1>3, <1>5, <1>6, <1>7, <1>8, PublishKeeps
<1> QED
  BY <1>2, <1>9 DEF pjInv

\* The steps of materialize-projections before it writes: what it loaded is
\* numbered, and a projection nobody touched is not refused.
LEMMA LoadKeeps == ASSUME pjInv, MaterializeLoads PROVE pjInv'
<1>1. UNCHANGED <<log, evidence, sidecar, tracked, planText, touched>>
  BY DEF MaterializeLoads
<1>2. LogOK /\ DocsOK /\ LogOK' /\ DocsOK'
  BY <1>1, LogKept, DocsKept DEF pjInv
<1> DEFINE a == load_execution_context_for_exact_plan.attempts
<1>3. a \in Seq(Attempts) /\ Numbered(a)
  BY <1>2, LoadNumbered DEF load_execution_context_for_exact_plan
<1> HIDE DEF a
<1>4. DOMAIN job' = {"pc", "attempts", "mode", "text", "closed"}
      /\ \/ job'.pc = "idle"
         \/ job'.pc = "loaded" /\ job'.text = planText /\ job'.attempts = a
  <2>1. DOMAIN Idle = {"pc", "attempts", "mode", "text", "closed"} /\ Idle.pc = "idle"
    BY DEF Idle
  <2> QED
    BY <2>1 DEF MaterializeLoads, a
<1>5. JobOK'
  BY <1>2, <1>3, <1>4 DEF JobOK, DocsOK, Numbered
<1>6. UntouchedOK'
  <2>1. job.pc = "idle"
    BY DEF MaterializeLoads
  <2> QED
    BY <1>1, <1>4, <2>1
       DEF pjInv, UntouchedOK, parses, FieldsParse, Numbered, render_evidence_projection_source
<1> QED
  BY <1>2, <1>5, <1>6 DEF pjInv

LEMMA ClaimKeeps == ASSUME pjInv, MaterializeClaims PROVE pjInv'
<1>1. UNCHANGED <<log, evidence, sidecar, tracked, planText, touched>> /\ job.pc = "loaded"
  BY DEF MaterializeClaims
<1>2. LogOK' /\ DocsOK'
  BY <1>1, LogKept, DocsKept DEF pjInv
<1>3. /\ DOMAIN job' = DOMAIN job /\ job'.text = job.text /\ job'.attempts = job.attempts
      /\ job'.pc = IF validate_state_dir_evidence_projection_before_materialization
                   THEN "claimed" ELSE "refused"
  BY DEF MaterializeClaims, pjInv, JobOK
<1>4. JobOK'
  BY <1>1, <1>3 DEF pjInv, JobOK, Numbered
<1>5. ~touched => validate_state_dir_evidence_projection_before_materialization
  <2> SUFFICES ASSUME ~touched, evidence # NoDoc
               PROVE  classify_stale_state_dir_evidence_projection(
                          evidence, log, job.text, sidecar) # "refused"
    BY DEF validate_state_dir_evidence_projection_before_materialization
  <2>1. parses(evidence) /\ evidence = sidecar
    BY <1>1 DEF pjInv, UntouchedOK
  <2>2. projection_source_matches_fingerprint(evidence, sidecar)
    BY <2>1 DEF projection_source_matches_fingerprint
  <2> QED
    BY <2>1, <2>2 DEF classify_stale_state_dir_evidence_projection
<1>6. UntouchedOK'
  BY <1>1, <1>3, <1>5
     DEF pjInv, UntouchedOK, parses, FieldsParse, Numbered, render_evidence_projection_source
<1> QED
  BY <1>2, <1>4, <1>6 DEF pjInv

\* The writes: the projection is rendered from what was loaded, and its
\* fingerprint file is written of the same rendering.
LEMMA WriteKeeps == ASSUME pjInv, WriteEvidence \/ WriteSidecar PROVE pjInv'
<1> DEFINE doc == render_evidence_projection_source(job.text, job.attempts)
<1>1. UNCHANGED <<log, tracked, planText>>
  BY DEF WriteEvidence, WriteSidecar
<1>2. LogOK'
  BY <1>1, LogKept DEF pjInv
<1>3. job.pc \in {"claimed", "evidence written"}
  BY DEF WriteEvidence, WriteSidecar
<1>4. job.text \in PlanTexts /\ job.attempts \in Seq(Attempts) /\ Numbered(job.attempts)
  BY <1>3 DEF pjInv, JobOK
<1>5. doc \in Docs /\ parses(doc)
  BY <1>4, RenderParses
<1>6. DOMAIN job' = DOMAIN job /\ job'.text = job.text /\ job'.attempts = job.attempts
  BY DEF WriteEvidence, WriteSidecar, pjInv, JobOK
<1>7. DOMAIN job = {"pc", "attempts", "mode", "text", "closed"}
  BY DEF pjInv, JobOK
<1>8. JobOK'
  BY <1>4, <1>6, <1>7 DEF JobOK, Numbered
<1>9. evidence' \in {evidence, doc}
  BY DEF WriteEvidence, WriteSidecar
<1>10. DocsOK'
  <2> HIDE DEF doc
  <2> QED
    BY <1>1, <1>5, <1>9 DEF pjInv, DocsOK, Numbered
<1>11. doc' = doc
  BY <1>6 DEF render_evidence_projection_source
<1>12. CASE WriteEvidence /\ job.mode = "state_dir_only"
  <2>1. evidence' = doc /\ ~touched' /\ job'.pc = "evidence written"
    BY <1>7, <1>12 DEF WriteEvidence
  <2>2. parses(evidence')
    BY <1>5, <2>1
  <2>3. parses(evidence)'
    BY <2>2 DEF parses, FieldsParse, Numbered
  <2>4. UntouchedOK'
    BY <1>11, <2>1, <2>3 DEF UntouchedOK
  <2> QED
    BY <1>2, <1>8, <1>10, <2>4 DEF pjInv
<1>13. CASE WriteEvidence /\ job.mode # "state_dir_only"
  <2>1. UNCHANGED <<evidence, touched, sidecar>> /\ job'.pc = "late stage" /\ job.pc = "claimed"
    BY <1>7, <1>13 DEF WriteEvidence
  <2>2. UntouchedOK'
    BY <2>1 DEF pjInv, UntouchedOK, parses, FieldsParse, Numbered
  <2> QED
    BY <1>2, <1>8, <1>10, <2>2 DEF pjInv
<1>14. CASE WriteSidecar
  <2>1. UNCHANGED <<evidence, touched>> /\ sidecar' = doc /\ job'.pc = "late stage"
        /\ job.pc = "evidence written"
    BY <1>7, <1>14 DEF WriteSidecar
  <2>2. ~touched => evidence = doc
    BY <2>1 DEF pjInv, UntouchedOK
  <2>3. UntouchedOK'
    BY <2>1, <2>2 DEF pjInv, UntouchedOK, parses, FieldsParse, Numbered
  <2> QED
    BY <1>2, <1>8, <1>10, <2>3 DEF pjInv
<1> QED
  BY <1>12, <1>13, <1>14

\* A job that ends, or goes on to write what is not evidence.
LEMMA EndKeeps ==
    ASSUME pjInv,
           \/ materialize_late_stage_projection_artifacts
           \/ materialize_task_review_receipts \/ Refused \/ Killed
    PROVE  pjInv'
<1>1. UNCHANGED <<log, evidence, sidecar, tracked, planText>>
  BY DEF materialize_late_stage_projection_artifacts, materialize_task_review_receipts,
         Refused, Killed
<1>2. LogOK' /\ DocsOK'
  BY <1>1, LogKept, DocsKept DEF pjInv
<1>3. DOMAIN job' = {"pc", "attempts", "mode", "text", "closed"} /\ job'.pc \in {"idle", "receipts"}
  <2>1. DOMAIN Idle = {"pc", "attempts", "mode", "text", "closed"} /\ Idle.pc = "idle"
    BY DEF Idle
  <2>2. CASE materialize_late_stage_projection_artifacts
    <3>1. job' = [job EXCEPT !.pc = "receipts", !.closed = log.closed] \/ job' = Idle
      BY <2>2 DEF materialize_late_stage_projection_artifacts
    <3>2. DOMAIN job = {"pc", "attempts", "mode", "text", "closed"}
      BY DEF pjInv, JobOK
    <3> QED
      BY <2>1, <3>1, <3>2
  <2> QED
    BY <2>1, <2>2 DEF materialize_task_review_receipts, Refused, Killed
<1>4. JobOK'
  BY <1>3 DEF JobOK
<1>5. ~touched' => ~touched /\ job.pc # "evidence written"
  BY DEF materialize_late_stage_projection_artifacts, materialize_task_review_receipts,
         Refused, Killed
<1>6. UntouchedOK'
  BY <1>1, <1>3, <1>5 DEF pjInv, UntouchedOK, parses, FieldsParse, Numbered
<1> QED
  BY <1>2, <1>4, <1>6 DEF pjInv

\* A file that is edited by hand may say anything; the edit is remembered.
LEMMA EditKeeps == ASSUME pjInv, EditEvidence PROVE pjInv'
<1>1. UNCHANGED <<log, tracked, planText, job>> /\ touched' = TRUE /\ evidence # NoDoc
  BY DEF EditEvidence
<1>2. LogOK' /\ JobOK'
  BY <1>1, LogKept, JobKept DEF pjInv
<1>3. evidence \in Docs
  BY <1>1 DEF pjInv, DocsOK
<1>4. Reverse(evidence.attempts) \in Seq(Attempts)
  <2>1. evidence.attempts \in Seq(Attempts)
    BY <1>3 DEF Docs
  <2> DEFINE q == evidence.attempts
  <2> HIDE DEF q
  <2>2. q \in Seq(Attempts) /\ Len(q) \in Nat /\ \A i \in 1..Len(q) : q[i] \in Attempts
    BY <2>1 DEF q
  <2>3. \A i \in 1..Len(q) : (Len(q) - i) + 1 \in 1..Len(q)
    BY <2>2
  <2>4. Reverse(q) \in [1..Len(q) -> Attempts]
    BY <2>2, <2>3 DEF Reverse
  <2> QED
    BY <2>2, <2>4 DEF q
<1>5. evidence' = NoDoc \/ evidence' \in Docs
  <2>1. <<>> \in Seq(Attempts)
    OBVIOUS
  <2> QED
    BY <1>3, <1>4, <2>1 DEF EditEvidence, Docs
<1>6. DocsOK'
  BY <1>1, <1>5 DEF pjInv, DocsOK, Numbered
<1>7. UntouchedOK'
  BY <1>1 DEF UntouchedOK
<1> QED
  BY <1>2, <1>6, <1>7 DEF pjInv

\* A single first attempt is numbered.
LEMMA FirstNumbered ==
    LET q == <<[step |-> Head(PlanSteps), n |-> 1, status |-> "Completed"]>>
    IN  q \in Seq(Attempts) /\ Numbered(q)
<1> DEFINE s == Head(PlanSteps)
<1>1. s \in StepSet
  BY PlanStepsAssumption
<1> HIDE DEF s
<1>2. next_attempt_number(<<>>, s) = 1
  <2>1. OfStep(<<>>, s) = <<>>
    BY KeptEmpty DEF OfStep
  <2>2. Len(<<>>) + 1 = 1
    OBVIOUS
  <2> QED
    BY <1>1, <2>1, <2>2, NothingNumbered, NextNumber
<1>3. Append(<<>>, [step |-> s, n |-> 1, status |-> "Completed"])
      = <<[step |-> s, n |-> 1, status |-> "Completed"]>>
  OBVIOUS
<1> QED
  BY <1>1, <1>2, <1>3, NothingNumbered, AppendNumbered DEF s

\* The other changes made by hand, and what records no attempt.
LEMMA OthersKeep ==
    ASSUME pjInv,
           \/ EditTracked \/ EditPlan \/ EditApproval
           \/ \E k \in LateKinds : publish_authoritative_artifact(k) \/ DamageArtifact(k)
           \/ \E s \in StepSet : CloseTask(s)
           \/ UNCHANGED pjVars
    PROVE  pjInv'
<1>1. UNCHANGED <<evidence, sidecar, job, touched>>
  BY DEF EditTracked, EditPlan, EditApproval, publish_authoritative_artifact, DamageArtifact,
         CloseTask, pjVars
<1>2. JobOK' /\ UntouchedOK'
  BY <1>1, JobKept, UntouchedKept DEF pjInv
<1>3. LogOK'
  <2>1. DOMAIN log' = DOMAIN log /\ log'.attempts = log.attempts /\ log'.fp = log.fp
    BY DEF EditTracked, EditPlan, EditApproval, publish_authoritative_artifact, DamageArtifact,
           CloseTask, pjVars, pjInv, LogOK
  <2> QED
    BY <2>1 DEF pjInv, LogOK, parses, FieldsParse, Numbered
<1>4. planText' \in PlanTexts
  BY DEF EditTracked, EditPlan, EditApproval, publish_authoritative_artifact, DamageArtifact,
         CloseTask, pjVars, pjInv, DocsOK
<1>5. tracked' # NoDoc => tracked' \in Docs /\ Numbered(tracked'.attempts)
  <2>1. CASE EditTracked
    <3> DEFINE q == <<[step |-> Head(PlanSteps), n |-> 1, status |-> "Completed"]>>
    <3>1. q \in Seq(Attempts) /\ Numbered(q)
      BY FirstNumbered
    <3> HIDE DEF q
    <3>2. \E fmt \in {"legacy", "v2"} :
            tracked' = [fmt |-> fmt, plan |-> planText, comment |-> FALSE, attempts |-> q]
      BY <2>1 DEF EditTracked, q
    <3>3. planText \in PlanTexts
      BY DEF pjInv, DocsOK
    <3> QED
      BY <3>1, <3>2, <3>3 DEF Docs
  <2>2. CASE ~EditTracked
    <3>1. tracked' = tracked
      BY <2>2 DEF EditPlan, EditApproval, publish_authoritative_artifact, DamageArtifact,
                  CloseTask, pjVars
    <3> QED
      BY <3>1 DEF pjInv, DocsOK
  <2> QED
    BY <2>1, <2>2
<1>6. DocsOK'
  BY <1>1, <1>4, <1>5 DEF pjInv, DocsOK, Numbered
<1> QED
  BY <1>2, <1>3, <1>6 DEF pjInv

\* The invariant holds from the start and through every step.
LEMMA pjStarts == ASSUME pjInit PROVE pjInv
<1>1. DOMAIN log = {"attempts", "fp", "done", "open", "closed"}
      /\ log.attempts = NoDoc /\ log.fp = NoDoc
  BY DEF pjInit, NoLog
<1>2. planText \in PlanTexts
  BY PlanStepsAssumption DEF pjInit
<1>3. DOMAIN job = {"pc", "attempts", "mode", "text", "closed"} /\ job.pc = "idle"
  BY DEF pjInit, Idle
<1> QED
  BY <1>1, <1>2, <1>3 DEF pjInit, pjInv, LogOK, DocsOK, JobOK, UntouchedOK

LEMMA pjSteps == ASSUME pjInv, [pjNext]_pjVars PROVE pjInv'
  BY CommandKeeps, LoadKeeps, ClaimKeeps, WriteKeeps, EndKeeps, EditKeeps, OthersKeep DEF pjNext

\* Once the log has recorded attempts, a context loads exactly them, whatever is
\* left of the projection files (overlay_execution_evidence_attempts_from_authority),
\* for any plan and any number of commands, crashes and edits.
THEOREM LogIsAuthority == pjSpec => []LogOwnsTheEvidence
<1>1. pjInv => LogOwnsTheEvidence
  BY LogOwns DEF pjInv, LogOwnsTheEvidence, load_execution_context_for_mutation,
                 load_execution_context_for_exact_plan
<1> QED
  BY <1>1, pjStarts, pjSteps, PTL DEF pjSpec

\* materialize-projections refuses no projection but one that was edited or split
\* from its fingerprint file by a crash
\* (validate_state_dir_evidence_projection_before_materialization).
THEOREM RefusalsAreOfEdits == pjSpec => []RefusedMeansTouched
<1>1. pjInv => RefusedMeansTouched
  BY DEF pjInv, UntouchedOK, RefusedMeansTouched
<1> QED
  BY <1>1, pjStarts, pjSteps, PTL DEF pjSpec
=============================================================================
