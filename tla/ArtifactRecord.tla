--------------------------- MODULE ArtifactRecord ---------------------------
(***************************************************************************)
(* record-contract, record-evaluation and record-handoff: a Markdown       *)
(* artifact becomes authoritative.  Under write authority the state is     *)
(* loaded and checked, and then the artifact file, the dependency index,   *)
(* the observability sink, the event log and state.json are written one    *)
(* after the other; each write may fail, and the process may be killed     *)
(* between any two.  A record with the sequence of the latest one is a     *)
(* replay and must not change the state.                                   *)
(*                                                                         *)
(* The lock (WriteAuthority) keeps records apart, so that one record is    *)
(* under way at a time; the lock of a killed process is taken over.  What  *)
(* is checked before the lock is checked again under it.  Nothing reads    *)
(* state.json once there is a log (EventLog).                              *)
(***************************************************************************)
EXTENDS Lists, FiniteSets

CONSTANTS
    None,          \* null
    Evaluators,    \* the contract's verifiers, a sequence
    Criteria,      \* the contract's criteria, a sequence
    VerifierTypes, \* the evaluators that own each criterion
    PivotThreshold,
    MaxSequence,   \* bound: authoritative sequences
    MaxRecords,    \* bound: events that records append
    MaxFaults      \* bound: failed writes and killed processes

ASSUME ArtifactAssumption ==
    /\ Evaluators \in Seq(SetOf(Evaluators)) /\ Criteria \in Seq(SetOf(Criteria))
    /\ \A c \in SetOf(Criteria) : VerifierTypes[c] \subseteq SetOf(Evaluators)
    /\ {PivotThreshold, MaxSequence, MaxRecords, MaxFaults} \subseteq Nat

VARIABLES
    st,          \* the state the event log reduces to
    artifacts,   \* the authoritative artifact files
    indexed,     \* the nodes of the dependency index
    writing,     \* the record under way
    recorded,    \* history: the artifacts whose events are in the log
    lastRecord,  \* history: the last artifact recorded, and the state after it
    legacy,      \* history: an older runtime has written the state
    faults,      \* history: number of failed writes and killed processes
    takenBack    \* history: an artifact was taken back after it was indexed

arVars == <<st, artifacts, indexed, writing, recorded, lastRecord, legacy, faults, takenBack>>

Contracts == [kind : {"contract"}, seq : 1..MaxSequence]
CriteriaOf(e) == {c \in SetOf(Criteria) : e \in VerifierTypes[c]}
\* validate_evaluator_semantics: a report covers the criteria its evaluator owns,
\* and passes if and only if all of them do.
Reports ==
    UNION {[kind : {"evaluation"}, seq : 1..MaxSequence, by : {e},
            verdict : {"pass"}, failing : {{}}]
           \cup [kind : {"evaluation"}, seq : 1..MaxSequence, by : {e},
                 verdict : {"fail", "blocked"}, failing : (SUBSET CriteriaOf(e)) \ {{}}] :
           e \in SetOf(Evaluators)}
Handoffs == [kind : {"handoff"}, seq : 1..MaxSequence, open : SUBSET SetOf(Criteria)]
Artifacts == Contracts \cup Reports \cup Handoffs

push_unique(s, v) == IF v \in SetOf(s) THEN s ELSE Append(s, v)
remove_value(s, v) == Dropped(s, {v})

-----------------------------------------------------------------------------
(***************************************************************************)
(* The verdicts in the state.                                              *)
(***************************************************************************)
\* The reports on disk that count: not newer than the state.
History(s, e) == {a \in artifacts : a.kind = "evaluation" /\ a.by = e /\ a.seq <= s.seq}

\* derive_latest_evaluator_verdicts_from_authoritative_history: each evaluator's
\* latest report, unless one has none or two of the same sequence.
LatestReports(s, e) == {a \in History(s, e) : \A b \in History(s, e) : b.seq <= a.seq}
HistoryDecides(s) == \A e \in SetOf(s.nonPassing) : Cardinality(LatestReports(s, e)) = 1
LatestVerdict(s, e) == (CHOOSE a \in LatestReports(s, e) : TRUE).verdict
WithLatest(s, verdict) == {e \in SetOf(s.nonPassing) : LatestVerdict(s, e) = verdict}

\* Mutant: the legacy evaluators all count as failed.
LegacyAsFailed(s) ==
    IF s.failed # <<>> \/ s.blocked # <<>> \/ s.nonPassing = <<>>
    THEN s
    ELSE [s EXCEPT !.failed = s.nonPassing]

\* An older state knows the evaluators that did not pass, but not which of them
\* failed and which are blocked.
bootstrap_verdict_buckets_from_legacy_state(s) ==
    IF s.failed # <<>> \/ s.blocked # <<>> \/ s.nonPassing = <<>>
    THEN s
    ELSE IF HistoryDecides(s)
    THEN [s EXCEPT
            !.failed = Kept(s.nonPassing, WithLatest(s, "fail")),
            !.blocked = Kept(s.nonPassing, WithLatest(s, "blocked"))]
    ELSE IF s.handoffRequired \/ s.phase = "handoff_required" \/ s.aggregate = "blocked"
    THEN [s EXCEPT !.blocked = s.nonPassing]
    ELSE [s EXCEPT !.failed = s.nonPassing]

NonPassing(s) ==
    LET both == SetOf(s.failed) \cup SetOf(s.blocked)
    IN  Kept(s.required, both) \o Dropped(s.failed \o s.blocked, SetOf(s.required))

recompute_authoritative_evaluator_state(s) ==
    LET pivot == s.threshold > 0 /\ s.retry >= s.threshold
        n == [s EXCEPT !.nonPassing = NonPassing(s)]
    IN  IF s.blocked # <<>>
        THEN [n EXCEPT !.phase = "handoff_required", !.handoffRequired = TRUE, !.aggregate = "blocked"]
        ELSE IF s.failed # <<>>
        THEN [n EXCEPT !.phase = IF pivot THEN "pivot_required" ELSE "repairing",
                       !.handoffRequired = FALSE, !.aggregate = "fail"]
        ELSE IF s.pending = <<>>
        THEN [n EXCEPT !.phase = "executing", !.handoffRequired = FALSE, !.aggregate = "pass",
                       !.open = <<>>]
        ELSE [n EXCEPT !.phase = "executing", !.handoffRequired = FALSE, !.aggregate = "pending"]

-----------------------------------------------------------------------------
(***************************************************************************)
(* What each kind of artifact does to the state.                           *)
(***************************************************************************)
ContractApplied(s, a) ==
    [s EXCEPT !.phase = "contract_approved", !.contract = a, !.required = Evaluators,
              !.completed = <<>>, !.pending = Evaluators, !.nonPassing = <<>>,
              !.failed = <<>>, !.blocked = <<>>, !.aggregate = "pending", !.report = None,
              !.retry = 0, !.threshold = PivotThreshold, !.handoffRequired = FALSE,
              !.open = <<>>]

\* Mutant: a replayed failure counts as another attempt.
VerdictCountsReplays(s, a) ==
    IF a.verdict = "pass" THEN s
    ELSE [s EXCEPT
            !.failed = IF a.verdict = "fail" THEN push_unique(@, a.by) ELSE @,
            !.blocked = IF a.verdict = "blocked" THEN push_unique(@, a.by) ELSE @,
            !.retry = IF a.verdict = "fail" THEN @ + 1 ELSE @,
            !.open = @ \o Kept(Criteria, a.failing \ SetOf(@))]

Verdict(s, a) ==
    IF a.verdict = "pass" THEN s
    ELSE [s EXCEPT
            !.failed = IF a.verdict = "fail" THEN push_unique(@, a.by) ELSE @,
            !.blocked = IF a.verdict = "blocked" THEN push_unique(@, a.by) ELSE @,
            !.retry = IF a.verdict = "fail" /\ s.seq < a.seq THEN @ + 1 ELSE @,
            !.open = @ \o Kept(Criteria, a.failing \ SetOf(@))]

EvaluationApplied(s, a) ==
    LET b == bootstrap_verdict_buckets_from_legacy_state(s)
        superseded ==
            [b EXCEPT !.pending = remove_value(@, a.by), !.completed = push_unique(@, a.by),
                      !.failed = remove_value(@, a.by), !.blocked = remove_value(@, a.by),
                      !.open = Dropped(@, CriteriaOf(a.by)),
                      !.report = a]
    IN  recompute_authoritative_evaluator_state(Verdict(superseded, a))

HandoffApplied(s, a) ==
    [s EXCEPT !.phase = "executing", !.handoffRequired = FALSE, !.open = Kept(Criteria, a.open)]

apply_transition(s, a) ==
    CASE a.kind = "contract" -> ContractApplied(s, a)
      [] a.kind = "evaluation" -> EvaluationApplied(s, a)
      [] a.kind = "handoff" -> HandoffApplied(s, a)

(***************************************************************************)
(* What is checked under the lock.                                         *)
(***************************************************************************)
require_active_contract_state == st.contract # None /\ st.contract \in artifacts

ContractRecordable(a) == st.phase = "contract_pending_approval"

EvaluationRecordable(a) ==
    /\ st.phase \in {"executing", "evaluating", "repairing"}
    /\ require_active_contract_state
    /\ a.by \in SetOf(st.required)

\* validate_handoff_semantics: exactly the open criteria are reported as open.
HandoffRecordable(a) ==
    /\ st.phase = "handoff_required"
    /\ st.handoffRequired
    /\ require_active_contract_state
    /\ a.open = SetOf(st.open)

Recordable(a) ==
    /\ a.kind = "contract" => ContractRecordable(a)
    /\ a.kind = "evaluation" => EvaluationRecordable(a)
    /\ a.kind = "handoff" => HandoffRecordable(a)
    /\ a.seq >= st.seq

-----------------------------------------------------------------------------
(***************************************************************************)
(* The events carry the fields that changed, of those their kind may       *)
(* carry; the event of a handoff has neither the sequence nor the criteria.*)
(***************************************************************************)
HANDOFF_FIELDS == {"phase", "handoffRequired"}
STEP_EVENT_FIELDS == {"phase", "handoffRequired", "aggregate"}

Reduced(s, n, fields) == [f \in DOMAIN s |-> IF f \in fields THEN n[f] ELSE s[f]]

EventFields(a) == IF a.kind = "handoff" THEN HANDOFF_FIELDS ELSE DOMAIN st

(***************************************************************************)
(* The steps of a record.                                                  *)
(***************************************************************************)
Enter(a, stage) == writing' = [artifact |-> a, stage |-> stage, wrote |-> FALSE]

\* Refused records change nothing.
Begin(a) ==
    /\ writing = None
    /\ Recordable(a)
    /\ \/ a.seq > st.seq /\ Len(recorded) < MaxRecords /\ Enter(a, "artifact")
       \/ a.seq = st.seq /\ apply_transition(st, a) = st /\ Enter(a, "replay_artifact")
    /\ UNCHANGED <<st, artifacts, indexed, recorded, lastRecord, legacy, faults, takenBack>>

WriteArtifact ==
    /\ writing # None
    /\ writing.stage \in {"artifact", "replay_artifact"}
    /\ artifacts' = artifacts \cup {writing.artifact}
    /\ writing' = [writing EXCEPT !.wrote = writing.artifact \notin artifacts,
                                  !.stage = IF @ = "artifact" THEN "index" ELSE "replay_index"]
    /\ UNCHANGED <<st, indexed, recorded, lastRecord, legacy, faults, takenBack>>

persist_dependency_index_after_authoritative_record ==
    /\ writing # None
    /\ writing.stage \in {"index", "replay_index"}
    /\ indexed' = indexed \cup {writing.artifact}
    /\ writing' = IF writing.stage = "replay_index" THEN None
                  ELSE [writing EXCEPT !.stage = "observability"]
    /\ UNCHANGED <<st, artifacts, recorded, lastRecord, legacy, faults, takenBack>>

persist_observability_after_authoritative_record ==
    /\ writing # None
    /\ writing.stage = "observability"
    /\ writing' = [writing EXCEPT !.stage = "append"]
    /\ UNCHANGED <<st, artifacts, indexed, recorded, lastRecord, legacy, faults, takenBack>>

\* The event is in the log: the state is what the log reduces to.
Appended ==
    LET a == writing.artifact
        next == [apply_transition(st, a) EXCEPT !.seq = a.seq]
    IN  /\ st' = Reduced(st, next, EventFields(a))
        /\ recorded' = Append(recorded, a)
        /\ lastRecord' = [artifact |-> a, after |-> st']

AppendEvent ==
    /\ writing # None
    /\ writing.stage = "append"
    /\ Appended
    /\ writing' = [writing EXCEPT !.stage = "state"]
    /\ UNCHANGED <<artifacts, indexed, legacy, faults, takenBack>>

WriteState ==
    /\ writing # None
    /\ writing.stage = "state"
    /\ writing' = None
    /\ UNCHANGED <<st, artifacts, indexed, recorded, lastRecord, legacy, faults, takenBack>>

(***************************************************************************)
(* Faults.  After a failed write the artifact is removed again if this     *)
(* record wrote it; whether the removal works is not looked at.            *)
(***************************************************************************)
Fault == faults < MaxFaults /\ faults' = faults + 1 /\ writing # None /\ writing' = None

\* Mutant: the artifact is removed although it was there before.
RemoveAlways == artifacts' \in {artifacts, artifacts \ {writing.artifact}}

RemoveWritten ==
    artifacts' \in {artifacts, artifacts \ (IF writing.wrote THEN {writing.artifact} ELSE {})}

WriteFails ==
    /\ Fault
    /\ writing.stage \in {"artifact", "replay_artifact", "index", "observability"}
    /\ RemoveWritten
    /\ takenBack' = (takenBack \/ writing.stage = "observability")
    /\ UNCHANGED <<st, indexed, recorded, lastRecord, legacy>>

\* The event may be in the log although the append has failed (EventLog).
AppendFails ==
    /\ Fault
    /\ writing.stage = "append"
    /\ RemoveWritten
    /\ \/ Appended
       \/ UNCHANGED <<st, recorded, lastRecord>>
    /\ takenBack' = TRUE
    /\ UNCHANGED <<indexed, legacy>>

\* The process is killed, or its last write fails.
Interrupted ==
    /\ Fault
    /\ UNCHANGED <<st, artifacts, indexed, recorded, lastRecord, legacy, takenBack>>

-----------------------------------------------------------------------------
(***************************************************************************)
(* Other writers of these fields.                                          *)
(***************************************************************************)
\* The fields of a step command's event.
StepCommand(n) ==
    /\ writing = None
    /\ st' = Reduced(st, n, STEP_EVENT_FIELDS)
    /\ UNCHANGED <<artifacts, indexed, writing, recorded, lastRecord, legacy, faults, takenBack>>

\* begin and reopen
Execute ==
    /\ st.phase \notin {"handoff_required", "pivot_required", "executing"}
    /\ StepCommand([st EXCEPT !.phase = "executing"])

apply_note_reset_policy ==
    LET pivot == st.threshold > 0 /\ st.retry >= st.threshold
    IN  /\ st.phase = "executing"
        /\ st.contract # None
        /\ StepCommand([st EXCEPT !.phase = IF pivot THEN "pivot_required" ELSE "handoff_required",
                                  !.handoffRequired = TRUE, !.aggregate = "blocked"])

\* An older runtime wrote the state: it has no verdict buckets.
OlderRuntime ==
    /\ writing = None
    /\ ~legacy
    /\ st.nonPassing # <<>>
    /\ legacy' = TRUE
    /\ st' = [st EXCEPT !.failed = <<>>, !.blocked = <<>>]
    /\ UNCHANGED <<artifacts, indexed, writing, recorded, lastRecord, faults, takenBack>>

arInit ==
    /\ st = [phase |-> "contract_pending_approval", contract |-> None, required |-> <<>>,
             completed |-> <<>>, pending |-> <<>>, nonPassing |-> <<>>, failed |-> <<>>,
             blocked |-> <<>>, aggregate |-> "pending", report |-> None, retry |-> 0,
             threshold |-> 0, handoffRequired |-> FALSE, open |-> <<>>, seq |-> 0]
    /\ artifacts = {}
    /\ indexed = {}
    /\ writing = None
    /\ recorded = <<>>
    /\ lastRecord = None
    /\ legacy = FALSE
    /\ faults = 0
    /\ takenBack = FALSE

arNext ==
    \/ \E a \in Artifacts : Begin(a)
    \/ WriteArtifact
    \/ persist_dependency_index_after_authoritative_record
    \/ persist_observability_after_authoritative_record
    \/ AppendEvent
    \/ WriteState
    \/ WriteFails \/ AppendFails \/ Interrupted
    \/ Execute \/ apply_note_reset_policy \/ OlderRuntime

arSpec == arInit /\ [][arNext]_arVars

-----------------------------------------------------------------------------
(***************************************************************************)
(* The contract and the report that the state names are indexed, and what  *)
(* is indexed is on disk, however many records were interrupted, failed or *)
(* replayed; only a write that fails after the index breaks this: it takes *)
(* back the artifact, but not the index node, and not the event if that    *)
(* was written after all.                                                  *)
(***************************************************************************)
PublishedInOrder ==
    \/ takenBack
    \/ /\ {st.contract, st.report} \ {None} \subseteq indexed
       /\ indexed \subseteq artifacts

(***************************************************************************)
(* Reports on disk that are not recorded, and no newer than the state: an  *)
(* older state is completed from the files, these included.                *)
(***************************************************************************)
Stray == {a \in artifacts : a.kind = "evaluation" /\ a.seq <= st.seq} \ SetOf(recorded)

\* The places of e's reports in the order of recording.
RecordedBy(e) ==
    {i \in DOMAIN recorded : recorded[i].kind = "evaluation" /\ recorded[i].by = e}
LatestIn(S) == CHOOSE i \in S : \A j \in S : j <= i
LastVerdict(e) == IF RecordedBy(e) = {} THEN "none" ELSE recorded[LatestIn(RecordedBy(e))].verdict
Failures == {i \in DOMAIN recorded : recorded[i].kind = "evaluation" /\ recorded[i].verdict = "fail"}

(***************************************************************************)
(* The evaluators that count as failed or blocked are those whose latest   *)
(* recorded report says so, and the retries are the failing reports, after *)
(* crashes, replays and handoffs and for a state of an older runtime; so   *)
(* the evaluation passes only when every verifier's latest report does.    *)
(***************************************************************************)
VerdictsCounted ==
    LET b == bootstrap_verdict_buckets_from_legacy_state(st)
    IN  \/ legacy /\ (Stray # {} \/ takenBack)
        \/ /\ \A e \in SetOf(Evaluators) :
                 /\ e \in SetOf(b.failed) <=> LastVerdict(e) = "fail"
                 /\ e \in SetOf(b.blocked) <=> LastVerdict(e) = "blocked"
           /\ st.retry = Cardinality(Failures)
           /\ st.aggregate = "pass" => \A e \in SetOf(Evaluators) : LastVerdict(e) = "pass"

\* The verdicts call for a handoff or a pivot.
Halted(s) ==
    \/ s.blocked # <<>>
    \/ s.failed # <<>> /\ s.threshold > 0 /\ s.retry >= s.threshold

(***************************************************************************)
(* No report is in the log twice.  A replay of the last one, as long as    *)
(* nothing else has changed the state, leaves the state as it is, the      *)
(* order of its lists and the number of attempts included.  It is accepted *)
(* if work goes on after the report; when the verdicts call for a handoff  *)
(* or a pivot, revalidate_evaluation_locked_state refuses the replay of    *)
(* the very report that led there.  The one other replay that is refused   *)
(* is one whose contract a failed write has taken back.                    *)
(***************************************************************************)
ReplayIsIdempotent ==
    /\ \A i, j \in DOMAIN recorded :
          recorded[i].kind = "evaluation" /\ recorded[i] = recorded[j] => i = j
    /\ /\ lastRecord # None
       /\ lastRecord.artifact.kind = "evaluation"
       /\ st = lastRecord.after
       => /\ apply_transition(st, lastRecord.artifact) = st
          /\ Recordable(lastRecord.artifact) => ~Halted(st)
          /\ ~Halted(st) /\ ~takenBack => Recordable(lastRecord.artifact)

(***************************************************************************)
(* "authoritative contracts, evaluations, handoffs, and state transitions  *)
(* carry a monotonic authoritative sequence": what is recorded next is     *)
(* newer than everything that was recorded.                                *)
(***************************************************************************)
SequenceIsMonotonic ==
    \A i, j \in DOMAIN recorded : i < j => recorded[i].seq < recorded[j].seq
=============================================================================
