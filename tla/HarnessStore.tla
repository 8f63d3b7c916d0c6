---------------------------- MODULE HarnessStore ----------------------------
(***************************************************************************)
(* The mutation protocol of the runtime: claim write authority, load the   *)
(* state reduced from the event log, change the copy in memory, and append *)
(* the difference between that copy and the state the log reduces to at    *)
(* the moment of the append.  Composes WriteAuthority, at the granularity  *)
(* of its file operations, with the event log as AppendLog describes it:   *)
(* one atomic append.                                                      *)
(*                                                                         *)
(* close-current-task loads first and claims afterwards: its copy may be   *)
(* outdated when it is published.  What that can cost is stated below.     *)
(*                                                                         *)
(* The authoritative state is a number per field, and a command increments *)
(* one field: an update is lost exactly when an increment is missing.      *)
(***************************************************************************)
EXTENDS WriteAuthority, FiniteSetsExt

CONSTANTS
    Fields,       \* top-level fields of the authoritative state
    Scope,        \* the fields the event of a command on field f may carry
    LoadsFirst,   \* the fields whose command may load before it claims
    MaxCommands   \* bound: commands that report success

ASSUME ScopeAssumption ==
    Scope \in [Fields -> SUBSET Fields] /\ \A f \in Fields : f \in Scope[f]
ASSUME LoadsFirstAssumption == LoadsFirst \subseteq Fields

VARIABLES
    store,      \* the state the event log reduces to
    phase,      \* what a process has done with the state
    payload,    \* the copy of the state a process has loaded
    done,       \* history: increments whose command reported success
    missed,     \* history: fields changed by others since a load before the claim
    exposed,    \* history: fields an event carried whose copy had missed them
    tainted     \* history: some live owner has been robbed of its lock file

hsVars == <<store, phase, payload, done, missed, exposed, tainted>>
vars == <<waVars, hsVars>>

States == [Fields -> Nat]
Zero == [f \in Fields |-> 0]
Phases == {"fresh", "early", "loaded", "persisted"}

\* The number of commands that have reported success.
CommandsDone == MapThenSumSet(LAMBDA f : done[f], Fields)

-----------------------------------------------------------------------------
\* load_or_initialize_authoritative_transition_state, under the guard.
LoadState(p) ==
    /\ pc[p] = "held"
    /\ phase[p] = "fresh"
    /\ phase' = [phase EXCEPT ![p] = "loaded"]
    /\ payload' = [payload EXCEPT ![p] = store]
    /\ UNCHANGED <<store, done, missed, exposed, tainted, waVars>>

\* close_current_task loads the state it will publish, and claims afterwards.
LoadEarly(p) ==
    /\ LoadsFirst # {}
    /\ pc[p] = "running"
    /\ phase[p] = "fresh"
    /\ phase' = [phase EXCEPT ![p] = "early"]
    /\ payload' = [payload EXCEPT ![p] = store]
    /\ UNCHANGED <<store, done, missed, exposed, tainted, waVars>>

\* collect_changed_authoritative_fields: the fields of the event's scope in
\* which the copy and the log's state differ.
ChangedFields(before, after, scope) == {f \in scope : before[f] # after[f]}

\* apply_authoritative_fields: an event overwrites the fields it carries.
ApplyFacts(state, facts) ==
    [f \in Fields |-> IF f \in DOMAIN facts THEN facts[f] ELSE state[f]]

\* persist_if_dirty: the command changes its copy of f and appends the
\* difference to the log.
Persist(p, f) ==
    LET changed == [payload[p] EXCEPT ![f] = @ + 1]
        facts == [g \in ChangedFields(store, changed, Scope[f]) |-> changed[g]]
    IN  /\ CommandsDone < MaxCommands
        /\ pc[p] = "held"
        /\ phase[p] = "loaded" \/ (phase[p] = "early" /\ f \in LoadsFirst)
        /\ store' = ApplyFacts(store, facts)
        /\ payload' = [payload EXCEPT ![p] = changed]
        /\ done' = [done EXCEPT ![f] = @ + 1]
        /\ phase' = [phase EXCEPT ![p] = "persisted"]
        /\ missed' = [q \in Pids |-> IF q # p /\ phase[q] = "early"
                                     THEN missed[q] \cup DOMAIN facts
                                     ELSE {}]
        /\ exposed' = exposed \cup (Scope[f] \cap missed[p])
        /\ UNCHANGED <<tainted, waVars>>

\* Whether p still has its copy after a step of the lock protocol: under the
\* guard, and from a load before the claim until the claim is over.
KeepsCopy(p) == pc'[p] = "held" \/ (phase[p] = "early" /\ pc'[p] \in Claiming)

\* Mutant: the copy survives the guard under which it was loaded.
AuthorityStepKeepsCopy(p) ==
    /\ Start(p) \/ Exit(p) \/ Crash(p) \/ Claim(p) \/ Preflight(p) \/ Release(p)
    /\ phase' = [phase EXCEPT ![p] = IF @ = "persisted" THEN "loaded" ELSE @]
    /\ tainted' = (tainted \/ robbed' # {})
    /\ UNCHANGED <<store, payload, done, missed, exposed>>

\* A step of the lock protocol.  A command that ends, fails to claim or drops
\* the guard drops its copy.
AuthorityStep(p) ==
    /\ Start(p) \/ Exit(p) \/ Crash(p) \/ Claim(p) \/ Preflight(p) \/ Release(p)
    /\ IF KeepsCopy(p)
          THEN UNCHANGED <<phase, payload, missed>>
          ELSE /\ phase' = [phase EXCEPT ![p] = "fresh"]
               /\ payload' = [payload EXCEPT ![p] = Zero]
               /\ missed' = [missed EXCEPT ![p] = {}]
    /\ tainted' = (tainted \/ robbed' # {})
    /\ UNCHANGED <<store, done, exposed>>

Init ==
    /\ waInit
    /\ store = Zero
    /\ phase = [p \in Pids |-> "fresh"]
    /\ payload = [p \in Pids |-> Zero]
    /\ done = Zero
    /\ missed = [p \in Pids |-> {}]
    /\ exposed = {}
    /\ tainted = FALSE

ProcessStep(p) ==
    \/ AuthorityStep(p)
    \/ LoadState(p)
    \/ LoadEarly(p)
    \/ \E f \in Fields : Persist(p, f)

Next == \E p \in Pids : ProcessStep(p)

Spec == Init /\ [][Next]_vars

-----------------------------------------------------------------------------
TypeOK ==
    /\ waTypeOK
    /\ store \in States
    /\ phase \in [Pids -> Phases]
    /\ payload \in [Pids -> States]
    /\ done \in States
    /\ missed \in [Pids -> SUBSET Fields]
    /\ exposed \subseteq Fields
    /\ tainted \in BOOLEAN

(***************************************************************************)
(* Until a live owner is robbed of its lock file an update is lost in one  *)
(* way only.  A field of the state the log reduces to is the sum of the    *)
(* commands on it that reported success, through conflicts, crashes and    *)
(* reclaimed locks, unless a command that had loaded before its claim has  *)
(* published an event that may carry the field, and the field had been     *)
(* changed by another command after that load.  Commands that claim before *)
(* they load lose nothing and revert nothing.                              *)
(***************************************************************************)
NoLostUpdate == ~tainted => \A f \in Fields \ exposed : store[f] = done[f]

(***************************************************************************)
(* The copy a command works on: one loaded under the guard is the current  *)
(* state until it is appended, unless a live owner was robbed; one loaded  *)
(* before the claim differs from the current state at most in the fields   *)
(* that other commands have changed since.                                 *)
(***************************************************************************)
CopyIsCurrent ==
    \A p \in Pids :
        /\ ~tainted /\ phase[p] = "loaded" => payload[p] = store
        /\ phase[p] = "early" =>
               \A f \in Fields \ missed[p] : payload[p][f] = store[f]
=============================================================================
