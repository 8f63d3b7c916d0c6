------------------------------ MODULE Preflight ------------------------------
(***************************************************************************)
(* The start of a run: the preflight gate, the acceptance file of a        *)
(* branch, the bootstrap of the authoritative state with a run identity,   *)
(* and the begin that needs all three (execution/state/preflight.rs,       *)
(* topology.rs, leases.rs, authority.rs and commands/begin.rs).            *)
(*                                                                         *)
(* begin decides before it claims write authority whether the preflight    *)
(* has to be persisted, loads the authoritative state under the guard,     *)
(* then lets the bootstrap append an event of its own to the log and       *)
(* finally publishes the difference of the older copy.  preflight_gate     *)
(* writes the acceptance file without the guard.                           *)
(*                                                                         *)
(* Abstractions.  repo_root, git_dir and the policy tuple of an acceptance *)
(* are the same in every process and are left out, and so is the chunk id, *)
(* which is drawn and kept with the run id.  handoff_required is the phase *)
(* and the flag of that name, which the code sets and clears together.     *)
(***************************************************************************)
EXTENDS Naturals, FiniteSets, FiniteSetsExt

CONSTANTS
    Starters,       \* processes
    Heads,          \* commits HEAD can name
    Revisions,      \* revisions of the approved plan
    Hindrances,     \* what makes a working tree unsafe: a merge, a dirty file
    MaxRunIds,      \* bound: run ids drawn
    MaxMoves,       \* bound: changes of the working tree
    NoRun

ASSUME TreeAssumption ==
    /\ Heads # {}
    /\ Revisions \subseteq Nat
    /\ \E first \in Revisions : \A r \in Revisions : first <= r
ASSUME IdsAssumption == MaxRunIds \in Nat
ASSUME NoRunAssumption ==
    \A i \in 0..MaxRunIds, r \in Revisions, h \in Heads :
        NoRun \notin {[id |-> i, revision |-> r], [id |-> i, revision |-> r, head |-> h]}

VARIABLES
    acceptance,     \* the acceptance file: [id, revision, head], or NoRun
    harness,        \* the state the event log reduces to
    tree,           \* HEAD, plan revision and hindrances of the working tree
    artifacts,      \* sequences of the authoritative artifact files
    holder,         \* the process with write authority, or NoRun
    doing,          \* where a process is in its command
    seen,           \* what a process has read
    runIds,         \* run ids drawn so far
    moves,
    begun,          \* history: the run under which the first step was begun
    bound           \* history: the run and the plan revision of each closure record

pfVars == <<acceptance, harness, tree, artifacts, holder, doing, seen, runIds, moves,
            begun, bound>>

NothingSeen == [kind |-> "none", revision |-> 0, needed |-> FALSE, accept |-> NoRun,
                copy |-> NoRun]
NoHarness == [run |-> NoRun, phase |-> "none", open |-> FALSE, sequence |-> 0]

-----------------------------------------------------------------------------
\* The gate and the readiness of a command.

\* 0 when there is no artifact; persisted sequences start there as well.
latest_authoritative_artifact_sequence == Max(artifacts \cup {0})
preflight_requires_authoritative_mutation_recovery ==
    latest_authoritative_artifact_sequence > harness.sequence
preflight_requires_authoritative_handoff == harness.phase = "handoff_required"

\* A merge, a rebase or a cherry-pick under way, tracked changes, conflicts in
\* the index, or a branch that repo safety protects.
WorktreeUnsafe == tree.hindrances

\* The reason codes with which the gate fails.
preflight_from_context ==
    {r \in {"write_authority_conflict"} : holder # NoRun}
    \cup {r \in {"authoritative_handoff_required"} : preflight_requires_authoritative_handoff}
    \cup {r \in {"authoritative_mutation_recovery_required"} :
              preflight_requires_authoritative_mutation_recovery}
    \cup {r \in {"active_step_in_progress"} : harness.open}
    \cup WorktreeUnsafe

authoritative_run_identity_present == harness.run # NoRun

\* The revision is the one the process loaded; HEAD is read now.
matches_context(a, revision) == a # NoRun /\ a.revision = revision /\ a.head = tree.head

\* Whether a command may go on: it is "ready", it has to "persist" the
\* preflight first, or it is "refused".
public_intent_preflight_readiness(kind) ==
    CASE authoritative_run_identity_present -> "ready"
      [] ~authoritative_run_identity_present /\ matches_context(acceptance, tree.revision) ->
           IF kind = "begin" THEN "persist" ELSE "refused"
      [] OTHER ->
           IF preflight_from_context = {} THEN "persist" ELSE "refused"

-----------------------------------------------------------------------------
\* Commands.

Go(p, where) == doing' = [doing EXCEPT ![p] = where]
Learn(p, what) == seen' = [seen EXCEPT ![p] = what]
Over(p) == Go(p, "idle") /\ Learn(p, NothingSeen)

\* begin, before the claim: load the context and decide what is needed.
BeginReads(p) ==
    /\ doing[p] = "idle"
    /\ ~harness.open
    /\ public_intent_preflight_readiness("begin") # "refused"
    /\ Go(p, "claim")
    /\ Learn(p, [NothingSeen EXCEPT
                   !.kind = "begin", !.revision = tree.revision,
                   !.needed = public_intent_preflight_readiness("begin") = "persist"])
    /\ UNCHANGED <<acceptance, harness, tree, artifacts, holder, runIds, moves, begun, bound>>

\* preflight_gate: the gate passes, nothing is claimed yet.
GateReads(p) ==
    /\ doing[p] = "idle"
    /\ preflight_from_context = {}
    /\ Go(p, "choose")
    /\ Learn(p, [NothingSeen EXCEPT !.kind = "gate", !.revision = tree.revision])
    /\ UNCHANGED <<acceptance, harness, tree, artifacts, holder, runIds, moves, begun, bound>>

\* ensure_review_dispatch_authoritative_bootstrap of the internal command: it
\* has claimed the authority, there is no run, and no gate is asked.
DispatchReads(p) ==
    /\ doing[p] = "idle"
    /\ holder = NoRun
    /\ ~authoritative_run_identity_present
    /\ holder' = p
    /\ Go(p, "choose")
    /\ Learn(p, [NothingSeen EXCEPT !.kind = "dispatch", !.revision = tree.revision])
    /\ UNCHANGED <<acceptance, harness, tree, artifacts, runIds, moves, begun, bound>>

\* begin claims the authority and loads the state under it.
ClaimForBegin(p) ==
    /\ doing[p] = "claim"
    /\ holder = NoRun
    /\ harness.phase # "handoff_required"
    /\ holder' = p
    /\ Go(p, IF seen[p].needed THEN "choose" ELSE "publish")
    /\ Learn(p, [seen[p] EXCEPT !.copy = harness])
    /\ UNCHANGED <<acceptance, harness, tree, artifacts, runIds, moves, begun, bound>>

\* Phases before the first step of a run.
BeforeExecution(phase) == phase \in {"none", "execution_preflight"}

\* authoritative_preflight_acceptance_seed: the id of the run under way.
authoritative_preflight_acceptance_seed ==
    IF BeforeExecution(harness.phase) \/ harness.run = NoRun THEN {} ELSE {harness.run.id}

\* persist_preflight_acceptance, as far as its write: the matching file, or a
\* new acceptance with the id of the run under way or an id of its own.
\* A begin that finds a run identity needs neither.
ChooseAcceptance(p) ==
    LET new == authoritative_preflight_acceptance_seed = {}
        id == IF new THEN runIds + 1 ELSE harness.run.id
        fresh == [id |-> id, revision |-> seen[p].revision, head |-> tree.head]
        done == seen[p].kind = "begin" /\ authoritative_run_identity_present
        reuse == ~done /\ matches_context(acceptance, seen[p].revision)
    IN  /\ doing[p] = "choose"
        /\ \/ done /\ Go(p, "publish") /\ UNCHANGED <<seen, runIds>>
           \/ /\ reuse
              /\ Go(p, IF seen[p].kind = "gate" THEN "lock" ELSE "bootstrap")
              /\ Learn(p, [seen[p] EXCEPT !.accept = acceptance])
              /\ UNCHANGED runIds
           \/ /\ ~done /\ ~reuse
              /\ new => runIds < MaxRunIds
              /\ runIds' = IF new THEN runIds + 1 ELSE runIds
              /\ Go(p, "write")
              /\ Learn(p, [seen[p] EXCEPT !.accept = fresh])
        /\ UNCHANGED <<acceptance, harness, tree, artifacts, holder, moves, begun, bound>>

\* The acceptance file is replaced atomically.
WriteAcceptance(p) ==
    /\ doing[p] = "write"
    /\ acceptance' = seen[p].accept
    /\ Go(p, IF seen[p].kind = "gate" THEN "lock" ELSE "bootstrap")
    /\ UNCHANGED <<harness, tree, artifacts, holder, seen, runIds, moves, begun, bound>>

\* ensure_preflight_authoritative_bootstrap: preflight_gate takes the lock.
LockForBootstrap(p) ==
    /\ doing[p] = "lock"
    /\ holder = NoRun
    /\ holder' = p
    /\ Go(p, "bootstrap")
    /\ UNCHANGED <<acceptance, harness, tree, artifacts, seen, runIds, moves, begun, bound>>

\* Mutant: the bootstrap replaces the identity of a run under way.
BootstrapReplaces(h, run) ==
    [h EXCEPT !.phase = IF @ = "none" THEN "execution_preflight" ELSE @, !.run = run]

\* The state after the bootstrap's event.
Bootstrapped(h, run) ==
    LET keep == ~BeforeExecution(h.phase) /\ h.run # NoRun
    IN  [h EXCEPT !.phase = IF @ = "none" THEN "execution_preflight" ELSE @,
                  !.run = IF keep THEN @ ELSE run]

Bootstrap(p) ==
    /\ doing[p] = "bootstrap"
    /\ harness' = Bootstrapped(harness, [id |-> seen[p].accept.id, revision |-> seen[p].revision])
    /\ IF seen[p].kind = "begin"
       THEN Go(p, "publish") /\ UNCHANGED <<seen, holder>>
       ELSE Over(p) /\ holder' = NoRun
    /\ UNCHANGED <<acceptance, tree, artifacts, runIds, moves, begun, bound>>

\* The fields an event of begin may carry, of those modelled here: not the
\* run identity, which the bootstrap has written since the copy was loaded.
STEP_EVENT_FIELDS == {"open", "phase"}

\* begin publishes what its copy and the log differ in.
PublishBegin(p) ==
    LET changed == [seen[p].copy EXCEPT !.open = TRUE, !.phase = "executing"]
        after == [f \in DOMAIN harness |->
                    IF f \in STEP_EVENT_FIELDS THEN changed[f] ELSE harness[f]]
    IN  /\ doing[p] = "publish"
        /\ harness' = after
        /\ begun' = IF begun = NoRun THEN after.run ELSE begun
        /\ holder' = NoRun
        /\ Over(p)
        /\ UNCHANGED <<acceptance, tree, artifacts, runIds, moves, bound>>

\* A command meets a conflict, is refused, or its process dies: the lock goes.
Abandon(p) ==
    /\ doing[p] # "idle"
    /\ Over(p)
    /\ holder' = IF holder = p THEN NoRun ELSE holder
    /\ UNCHANGED <<acceptance, harness, tree, artifacts, runIds, moves, begun, bound>>

-----------------------------------------------------------------------------
\* The rest of the run, each command under the guard from load to event.

Alter(new) ==
    /\ holder = NoRun
    /\ harness' = new
    /\ UNCHANGED <<acceptance, tree, artifacts, holder, doing, seen, runIds, moves, begun>>

\* complete closes the step; an evaluation requires a handoff; transfer ends it.
CompleteStep ==
    /\ harness.open /\ harness.phase = "executing"
    /\ Alter([harness EXCEPT !.open = FALSE])
    /\ UNCHANGED bound
RequireHandoff ==
    /\ harness.phase = "executing"
    /\ Alter([harness EXCEPT !.phase = "handoff_required"])
    /\ UNCHANGED bound
record_runtime_handoff_checkpoint ==
    /\ harness.phase = "handoff_required"
    /\ Alter([harness EXCEPT !.phase = "executing"])
    /\ UNCHANGED bound

\* close-current-task: refused unless ready.  Its record names the run of the
\* log and the plan revision of the context: nothing compares the two.
CloseCurrentTask ==
    /\ harness.phase = "executing" /\ ~harness.open
    /\ public_intent_preflight_readiness("close-current-task") = "ready"
    /\ bound' = bound \cup {[run |-> harness.run, revision |-> tree.revision]}
    /\ Alter(harness)

\* An artifact is written before the sequence of the state reaches it.
WriteArtifact ==
    /\ artifacts = {} /\ holder = NoRun
    /\ artifacts' = {harness.sequence + 1}
    /\ UNCHANGED <<acceptance, harness, tree, holder, doing, seen, runIds, moves, begun, bound>>
CatchUp ==
    /\ preflight_requires_authoritative_mutation_recovery
    /\ Alter([harness EXCEPT !.sequence = latest_authoritative_artifact_sequence])
    /\ UNCHANGED bound

\* A commit, a new revision of the plan, a merge begun or resolved.
MoveTree ==
    /\ moves < MaxMoves
    /\ moves' = moves + 1
    /\ \E h \in Heads, r \in Revisions, x \in SUBSET Hindrances :
         /\ r >= tree.revision
         /\ tree' = [head |-> h, revision |-> r, hindrances |-> x]
         /\ tree' # tree
    /\ UNCHANGED <<acceptance, harness, artifacts, holder, doing, seen, runIds, begun, bound>>

pfInit ==
    /\ acceptance = NoRun
    /\ harness = NoHarness
    /\ tree = [head |-> CHOOSE h \in Heads : TRUE, revision |-> Min(Revisions),
               hindrances |-> {}]
    /\ artifacts = {}
    /\ holder = NoRun
    /\ doing = [p \in Starters |-> "idle"]
    /\ seen = [p \in Starters |-> NothingSeen]
    /\ runIds = 0
    /\ moves = 0
    /\ begun = NoRun
    /\ bound = {}

pfNext ==
    \/ \E p \in Starters :
         \/ BeginReads(p) \/ GateReads(p) \/ DispatchReads(p)
         \/ ClaimForBegin(p) \/ ChooseAcceptance(p) \/ WriteAcceptance(p)
         \/ LockForBootstrap(p) \/ Bootstrap(p) \/ PublishBegin(p) \/ Abandon(p)
    \/ CompleteStep \/ RequireHandoff \/ record_runtime_handoff_checkpoint
    \/ CloseCurrentTask \/ WriteArtifact \/ CatchUp \/ MoveTree

pfSpec == pfInit /\ [][pfNext]_pfVars

-----------------------------------------------------------------------------
(***************************************************************************)
(* A run that has begun keeps its identity within its plan revision,       *)
(* whatever preflights, crashes and begins were under way when it began:   *)
(* while the approved plan is at the revision the first begin was made     *)
(* for, the log names the run of that begin, and every task closure        *)
(* recorded for that revision is bound to it (persist_preflight_acceptance *)
(* and the bootstrap of begin and of preflight_gate, which take no lock    *)
(* between the choice of an id and its write).                             *)
(***************************************************************************)
RunKeepsItsIdentity ==
    ~BeforeExecution(harness.phase) =>
        /\ begun # NoRun
        /\ tree.revision = begun.revision => harness.run = begun
        /\ \A c \in bound : c.revision = begun.revision => c.run = begun

(***************************************************************************)
(* REQ-036 of the harness specification: re-entry through preflight on a   *)
(* newly approved plan revision creates a new execution_run_id.  The       *)
(* preflight accepts the new revision under the id of the run under way    *)
(* (authoritative_preflight_acceptance_seed), and its bootstrap keeps the  *)
(* identity it finds.                                                      *)
(***************************************************************************)
NewRevisionIsANewRun ==
    [][\A p \in Starters :
         /\ Bootstrap(p)
         /\ harness.run # NoRun
         /\ seen[p].revision = tree.revision
         /\ seen[p].revision > harness.run.revision
         => harness'.run.id # harness.run.id]_pfVars
=============================================================================
