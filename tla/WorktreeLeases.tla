--------------------------- MODULE WorktreeLeases ---------------------------
(***************************************************************************)
(* Worktree leases.  A unit of a task is worked on in a worktree of its    *)
(* own; the agent that executes the plan publishes the unit's lease as a   *)
(* file and then an index of the active leases in the authoritative state. *)
(* A task closure releases the leases of its units, and the review gate    *)
(* opens only when no lease is left unsettled.                             *)
(*                                                                         *)
(* The name of a lease file contains the reviewed checkpoint, so that a    *)
(* unit's lease is a new file once it was reviewed.  A lease's fingerprint *)
(* is a hash of its content: the model's lease is its own fingerprint.     *)
(* Leases of other runs and plans are ignored by the code and left out.    *)
(***************************************************************************)
EXTENDS Naturals, Sequences, FiniteSets

CONSTANTS
    Units,       \* execution units
    Tasks,
    TaskOf,      \* the task of each unit
    MaxClosures, \* bound: closures recorded for each task
    MaxRewrites  \* bound: how often a merged commit leaves the branch

ASSUME LeaseAssumption ==
    /\ TaskOf \in [Units -> Tasks]
    /\ {MaxClosures, MaxRewrites} \subseteq Nat

VARIABLES
    files,     \* the lease files
    hasRun,    \* the state has a run identity
    active,    \* the bindings of the active leases
    released,  \* the release records
    closure,   \* each task's closure number, 0 if it has none that is current
    closures,  \* the number of closures recorded for each task
    merged,    \* the units whose reconciled commit is in the branch's history
    draft,     \* the agent's copy of the index while it publishes a lease
    cleanup,   \* the task whose close-current-task has to release leases yet
    rewrites   \* history: number of rewrites of the branch

wlVars == <<files, hasRun, active, released, closure, closures, merged, draft, cleanup, rewrites>>

Stages == {"open", "pending", "reconciled", "cleaned"}

\* validate_worktree_lease: the checkpoint and the result are there as soon as
\* the stage needs them.
Leases == [unit : Units, stage : Stages, tidy : BOOLEAN]
Terminal(l) == l.stage \in {"reconciled", "cleaned"}
\* The file name: a lease under review has the checkpoint in it.
FileKey(l) == <<l.unit, l.stage # "open">>

\* A binding has the fields of the review once the lease is reviewed.
Binding(l) == [lease |-> l, task |-> TaskOf[l.unit], reviewed |-> l.stage # "open"]

-----------------------------------------------------------------------------
(***************************************************************************)
(* The proof that a lease needs no more attention.                         *)
(***************************************************************************)
\* The reconciled commit descends from the checkpoint, is in the branch's
\* history, and the worktree is cleaned up.
validate_terminal_worktree_lease_proof(l) == l.unit \in merged /\ l.tidy

\* Mutant: the reconciled commit need not be in the branch's history.
ProofWithoutHistory(b) == b.reviewed /\ b.lease.tidy

\* The checkpoint, the context and the baseline of the binding are the lease's
\* and those of the run: it was reviewed in this state.
ReviewBindingMatches(b) == b.reviewed

validate_terminal_worktree_lease_structured_proof(b) ==
    ReviewBindingMatches(b) /\ validate_terminal_worktree_lease_proof(b.lease)

load_worktree_lease_for_release(b) == b.lease \in files

\* releasable_terminal_worktree_lease_fingerprints_for_task_closure
Releasable(t) ==
    {b \in active :
        /\ b.task = t
        /\ load_worktree_lease_for_release(b)
        /\ Terminal(b.lease)
        /\ validate_terminal_worktree_lease_structured_proof(b)}

(***************************************************************************)
(* The review gate.                                                        *)
(***************************************************************************)
\* Mutant: only leases that are finished are looked at.
TerminalArtifactsExist ==
    \E l \in files : Terminal(l) /\ l.tidy /\ \A r \in released : r.lease # l

\* A lease file of the run that is not released, or cannot be proved.
current_run_worktree_lease_artifacts_exist ==
    \E l \in files :
        \/ ~(Terminal(l) /\ l.tidy)
        \/ ~validate_terminal_worktree_lease_proof(l)
        \/ \A r \in released : r.lease # l

\* The file a binding names has the lease's fingerprint.
LeaseIsIndexed(b) == b.lease \in files

LeaseSettled(b) ==
    Terminal(b.lease) /\ validate_terminal_worktree_lease_structured_proof(b)

enforce_worktree_lease_binding_truth ==
    IF ~hasRun THEN files = {}
    ELSE IF active = {} THEN ~current_run_worktree_lease_artifacts_exist
    ELSE \A b \in active : LeaseIsIndexed(b) /\ LeaseSettled(b)

-----------------------------------------------------------------------------
(***************************************************************************)
(* The agent publishes a lease: it reads the index, writes the file, and   *)
(* replaces the index.  It may stop after any of the three.                *)
(***************************************************************************)
LastStage(u) ==
    LET stages == {l.stage : l \in {f \in files : f.unit = u}}
    IN  IF stages = {} THEN "none"
        ELSE IF stages = {"open"} THEN "open"
        ELSE CHOOSE s \in stages : s # "open"

NextLease(u, l) ==
    /\ l.unit = u
    /\ \/ LastStage(u) = "none" /\ l.stage = "open" /\ ~l.tidy
       \/ LastStage(u) = "open" /\ l.stage = "pending" /\ ~l.tidy
       \/ LastStage(u) = "pending" /\ l.stage = "reconciled"
       \/ LastStage(u) = "reconciled" /\ l.stage = "cleaned" /\ l.tidy
       \/ l \in files /\ LastStage(u) = l.stage

ReadIndex(u) ==
    /\ draft = <<>>
    /\ draft' = <<u, active>>
    /\ UNCHANGED <<files, hasRun, active, released, closure, closures, merged, cleanup, rewrites>>

\* Reconciling merges the unit's commit into the branch.
write_authoritative_worktree_lease_artifact(l) ==
    /\ Len(draft) = 2
    /\ NextLease(draft[1], l)
    /\ files' = {f \in files : FileKey(f) # FileKey(l)} \cup {l}
    /\ draft' = Append(draft, l)
    /\ merged' = IF l.stage = "reconciled" /\ LastStage(l.unit) = "pending" THEN merged \cup {l.unit} ELSE merged
    /\ UNCHANGED <<hasRun, active, released, closure, closures, cleanup, rewrites>>

persist_active_worktree_lease_index ==
    /\ Len(draft) = 3
    /\ hasRun' = TRUE
    /\ active' = {b \in draft[2] : b.lease.unit # draft[1]} \cup {Binding(draft[3])}
    /\ draft' = <<>>
    /\ UNCHANGED <<files, released, closure, closures, merged, cleanup, rewrites>>

AgentStops ==
    /\ draft # <<>>
    /\ draft' = <<>>
    /\ UNCHANGED <<files, hasRun, active, released, closure, closures, merged, cleanup, rewrites>>

(***************************************************************************)
(* Closures and releases.                                                  *)
(***************************************************************************)
\* append_unique_worktree_lease_release_records
AppendUnique(records) ==
    released' = released \cup {r \in records : \A s \in released : s.lease # r.lease}

release_active_worktree_leases_with_locked_index(S) ==
    LET gone == UNION {Releasable(t) : t \in {u \in S : closure[u] # 0}}
    IN  /\ active' = active \ gone
        /\ AppendUnique({[lease |-> b.lease, task |-> b.task, closure |-> closure[b.task]] : b \in gone})

\* record_current_task_closure, of which the release is the last part
CloseTask(t) ==
    /\ cleanup = {}
    /\ closures[t] < MaxClosures
    /\ closures' = [closures EXCEPT ![t] = @ + 1]
    /\ closure' = [closure EXCEPT ![t] = closures'[t]]
    /\ cleanup' = {t}
    /\ UNCHANGED <<files, hasRun, active, released, merged, draft, rewrites>>

ReleaseAfterClosure ==
    /\ cleanup # {}
    /\ release_active_worktree_leases_with_locked_index(cleanup)
    /\ cleanup' = {}
    /\ UNCHANGED <<files, hasRun, closure, closures, merged, draft, rewrites>>

\* The release fails or its process is killed: the closure stays.
CleanupFails ==
    /\ cleanup # {}
    /\ cleanup' = {}
    /\ UNCHANGED <<files, hasRun, active, released, closure, closures, merged, draft, rewrites>>

release_resolved_worktree_leases_for_repair_review_state ==
    /\ ~enforce_worktree_lease_binding_truth
    /\ release_active_worktree_leases_with_locked_index(Tasks)
    /\ UNCHANGED <<files, hasRun, closure, closures, merged, draft, cleanup, rewrites>>

\* A reopened task's closure is no longer current (StepExecution).
ClearClosure(t) ==
    /\ closure[t] # 0
    /\ closure' = [closure EXCEPT ![t] = 0]
    /\ UNCHANGED <<files, hasRun, active, released, closures, merged, draft, cleanup, rewrites>>

\* The user rewrites the branch.
Rewrite(u) ==
    /\ rewrites < MaxRewrites
    /\ u \in merged
    /\ merged' = merged \ {u}
    /\ rewrites' = rewrites + 1
    /\ UNCHANGED <<files, hasRun, active, released, closure, closures, draft, cleanup>>

wlInit ==
    /\ files = {}
    /\ hasRun = FALSE
    /\ active = {}
    /\ released = {}
    /\ closure = [t \in Tasks |-> 0]
    /\ closures = [t \in Tasks |-> 0]
    /\ merged = {}
    /\ draft = <<>>
    /\ cleanup = {}
    /\ rewrites = 0

wlNext ==
    \/ \E u \in Units : ReadIndex(u) \/ Rewrite(u)
    \/ \E l \in Leases : write_authoritative_worktree_lease_artifact(l)
    \/ persist_active_worktree_lease_index
    \/ AgentStops
    \/ \E t \in Tasks : CloseTask(t) \/ ClearClosure(t)
    \/ ReleaseAfterClosure \/ CleanupFails
    \/ release_resolved_worktree_leases_for_repair_review_state

wlSpec == wlInit /\ [][wlNext]_wlVars

-----------------------------------------------------------------------------
(***************************************************************************)
(* A lease leaves the index because a newer lease of its unit takes its    *)
(* place, or because it is released: by a closure of its task that is      *)
(* current then, with a record of it, and when it is merged and cleaned up *)
(* - however the agent's reads of the index, closures, reopens and repairs *)
(* interleave.                                                             *)
(***************************************************************************)
LeaseIsNotDropped ==
    [][\A b \in active \ active' :
          \/ \E c \in active' : c.lease.unit = b.lease.unit
          \/ /\ b.lease.unit \in merged /\ b.lease.tidy
             /\ closure[b.task] # 0
             /\ \E r \in released' : r.lease = b.lease]_wlVars

\* The lease that a unit has published last, its file included.
Published(u) == {l \in files : l.unit = u /\ l.stage = LastStage(u)}

(***************************************************************************)
(* When the gate opens, every unit's lease is merged and cleaned up, or    *)
(* was released; only while leases are active does the gate not see a      *)
(* lease whose publication stopped before the index.                       *)
(***************************************************************************)
GateMeansSettled ==
    enforce_worktree_lease_binding_truth =>
        \A u \in Units : \A l \in Published(u) :
            \/ l.stage \in {"reconciled", "cleaned"} /\ l.tidy /\ (u \in merged \/ \E r \in released : r.lease.unit = u)
            \/ active # {} /\ \A b \in active : b.lease # l
=============================================================================
