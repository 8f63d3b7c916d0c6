------------------------------- MODULE Handoff -------------------------------
(***************************************************************************)
(* transfer: the record of a workflow handoff is a new file in the state   *)
(* directory of the project, and its path and fingerprint become the       *)
(* checkpoint in the authoritative state, which ends the demand for a      *)
(* handoff (execution/handoff.rs and commands/transfer.rs).                *)
(*                                                                         *)
(* The command holds write authority throughout, so one transfer runs at a *)
(* time; it may die after it created the file, in the middle of writing it *)
(* or before it published the checkpoint, and then be repeated, by the     *)
(* same or by another request, on the same or on another commit.           *)
(*                                                                         *)
(* Abstractions.  Plan, branch and repository are the same in every record *)
(* and the reason given with a request is part of the owner it names.      *)
(***************************************************************************)
EXTENDS Naturals, FiniteSets

CONSTANTS
    Owners,         \* to whom (and why) work is handed over
    Commits,        \* commits HEAD can name
    Codes,          \* reason codes a handoff decision can have
    Stamps,         \* seconds of the wall clock, which may be set back
    MaxFiles,       \* bound: record files
    MaxShifts,      \* bound: changes of the circumstances
    NoRecord

VARIABLES
    records,        \* the record files: from <<second, suffix>> to content
    checkpoint,     \* last_handoff_path and last_handoff_fingerprint
    demand,         \* why a handoff is due: the flag and phase, a reason code
    scoped,         \* whether a task is active, blocking or to be resumed
    commit, codes,  \* HEAD and the reason codes of the status
    transfer,       \* the command under way
    said,           \* history: the last request that was answered
    shifts

hoVars == <<records, checkpoint, demand, scoped, commit, codes, transfer, said, shifts>>

NoTransfer == [at |-> "idle"]

-----------------------------------------------------------------------------
\* The scope the decision asks for, if it asks for one.
handoff_decision_scope ==
    CASE scoped -> {"task"}
      [] ~scoped /\ "flag" \in demand -> {"branch"}
      [] OTHER -> {}

\* WorkflowTransferRecordIdentity of the decision.
Identity == [commit |-> commit, codes |-> codes, scope |-> handoff_decision_scope]

\* A file that was cut off before its last header still has the headers that
\* count; an empty one has none.
workflow_transfer_record_matches_decision(r, identity) ==
    /\ r.text # "empty"
    /\ identity.scope \subseteq {r.scope}
    /\ r.codes = identity.codes
    /\ r.commit = identity.commit

\* workflow_transfer_record_sort_key: by second, then by suffix.
NotAfter(j, k) == j[1] < k[1] \/ (j[1] = k[1] /\ j[2] <= k[2])

latest_matching_workflow_transfer_record(identity) ==
    LET matching == {k \in DOMAIN records :
                       workflow_transfer_record_matches_decision(records[k], identity)}
    IN  {k \in matching : \A j \in matching : NotAfter(j, k)}

\* Mutant: any record of the decision serves any request.
AnyRequestRecord(identity, request) == latest_matching_workflow_transfer_record(identity)

latest_matching_workflow_transfer_request_record(identity, request) ==
    {k \in latest_matching_workflow_transfer_record(identity) :
        records[k].scope = request.scope /\ records[k].to = request.to}

\* The state names a record, and its path and fingerprint are both there.
authoritative_handoff_checkpoint == checkpoint # NoRecord

\* The checkpoint is current while no handoff is required, and only with the
\* content it was published for.
current_workflow_transfer_record_path(identity) ==
    /\ authoritative_handoff_checkpoint
    /\ "flag" \notin demand
    /\ workflow_transfer_record_matches_decision(records[checkpoint.key], identity)
    /\ records[checkpoint.key] = checkpoint.fingerprint

\* The first name of the second that is not taken.
next_workflow_transfer_record_path(stamp) ==
    {k \in {stamp} \X (0..MaxFiles) :
        /\ k \notin DOMAIN records
        /\ \A i \in 0..(k[2] - 1) : <<stamp, i>> \in DOMAIN records}

-----------------------------------------------------------------------------
\* record_workflow_transfer under write authority, on an exact handoff route.

\* The request has another scope than the decision, or another request has
\* the current checkpoint of this decision.
TransferBlocked(request) ==
    /\ transfer = NoTransfer
    /\ demand # {}
    /\ \/ ~(handoff_decision_scope \subseteq {request.scope})
       \/ /\ latest_matching_workflow_transfer_request_record(Identity, request) = {}
          /\ current_workflow_transfer_record_path(Identity)
    /\ UNCHANGED hoVars

\* An equivalent record is there already: only the checkpoint is published.
TransferReuses(request) ==
    /\ transfer = NoTransfer
    /\ demand # {}
    /\ handoff_decision_scope \subseteq {request.scope}
    /\ \E k \in latest_matching_workflow_transfer_request_record(Identity, request) :
         transfer' = [at |-> "publish", key |-> k, fingerprint |-> records[k],
                      request |-> request, identity |-> Identity]
    /\ UNCHANGED <<records, checkpoint, demand, scoped, commit, codes, said, shifts>>

\* write_workflow_transfer_record creates a file of its own ...
CreateRecord(request) ==
    /\ transfer = NoTransfer
    /\ demand # {}
    /\ handoff_decision_scope \subseteq {request.scope}
    /\ latest_matching_workflow_transfer_request_record(Identity, request) = {}
    /\ ~current_workflow_transfer_record_path(Identity)
    /\ Cardinality(DOMAIN records) < MaxFiles
    /\ \E stamp \in Stamps : \E key \in next_workflow_transfer_record_path(stamp) :
         LET whole == [scope |-> request.scope, to |-> request.to, commit |-> commit,
                       codes |-> codes, text |-> "whole"]
         IN  /\ transfer' = [at |-> "fill", key |-> key, fingerprint |-> whole,
                             request |-> request, identity |-> Identity]
             /\ records' = [k \in DOMAIN records \cup {key} |->
                              IF k = key THEN [whole EXCEPT !.text = "empty"] ELSE records[k]]
    /\ UNCHANGED <<checkpoint, demand, scoped, commit, codes, said, shifts>>

\* ... and fills it.
FillRecord ==
    /\ transfer.at = "fill"
    /\ records' = [records EXCEPT ![transfer.key] = transfer.fingerprint]
    /\ transfer' = [transfer EXCEPT !.at = "publish"]
    /\ UNCHANGED <<checkpoint, demand, scoped, commit, codes, said, shifts>>

\* record_runtime_handoff_checkpoint_and_persist.
PublishCheckpoint ==
    /\ transfer.at = "publish"
    /\ checkpoint' = [key |-> transfer.key, fingerprint |-> transfer.fingerprint]
    /\ demand' = demand \ {"flag"}
    /\ said' = [request |-> transfer.request, identity |-> transfer.identity]
    /\ transfer' = NoTransfer
    /\ UNCHANGED <<records, scoped, commit, codes, shifts>>

\* The process dies; a file it was filling stays empty or is cut off.
TransferDies ==
    /\ transfer # NoTransfer
    /\ transfer' = NoTransfer
    /\ \/ UNCHANGED records
       \/ /\ transfer.at = "fill"
          /\ records' = [records EXCEPT ![transfer.key] =
                           [transfer.fingerprint EXCEPT !.text = "short"]]
    /\ UNCHANGED <<checkpoint, demand, scoped, commit, codes, said, shifts>>

-----------------------------------------------------------------------------
\* What other commands and people change while no transfer is under way.
Change ==
    /\ transfer = NoTransfer
    /\ shifts < MaxShifts
    /\ shifts' = shifts + 1
    /\ \/ /\ \E d \in SUBSET {"flag", "reason"} : d # demand /\ demand' = d
          /\ UNCHANGED <<scoped, commit, codes>>
       \/ scoped' = ~scoped /\ UNCHANGED <<demand, commit, codes>>
       \/ /\ \E c \in Commits, s \in SUBSET Codes :
               <<c, s>> # <<commit, codes>> /\ commit' = c /\ codes' = s
          /\ UNCHANGED <<demand, scoped>>
    /\ UNCHANGED <<records, checkpoint, transfer, said>>

\* reopen forgets the checkpoint (stale_reopen_provenance).
stale_reopen_provenance ==
    /\ transfer = NoTransfer
    /\ checkpoint # NoRecord
    /\ checkpoint' = NoRecord
    /\ UNCHANGED <<records, demand, scoped, commit, codes, transfer, said, shifts>>

hoInit ==
    /\ records = [k \in {} |-> NoRecord]
    /\ checkpoint = NoRecord
    /\ demand = {"flag"}
    /\ scoped \in BOOLEAN
    /\ commit = CHOOSE c \in Commits : TRUE
    /\ codes = {}
    /\ transfer = NoTransfer
    /\ said = NoRecord
    /\ shifts = 0

hoNext ==
    \/ \E scope \in {"task", "branch"}, to \in Owners :
         LET request == [scope |-> scope, to |-> to]
         IN  TransferBlocked(request) \/ TransferReuses(request) \/ CreateRecord(request)
    \/ FillRecord \/ PublishCheckpoint \/ TransferDies
    \/ Change \/ stale_reopen_provenance

hoSpec == hoInit /\ [][hoNext]_hoVars

-----------------------------------------------------------------------------
(***************************************************************************)
(* The checkpoint in the state names a file that still has the recorded    *)
(* fingerprint and hands over to whom, in which scope and on which commit  *)
(* the last transfer that reported success asked for, after transfers that *)
(* died on the way, were repeated or were asked for by someone else.       *)
(***************************************************************************)
CheckpointIsTheAnswer ==
    checkpoint # NoRecord =>
        LET r == records[checkpoint.key]
        IN  /\ r = checkpoint.fingerprint
            /\ r.scope = said.request.scope
            /\ r.to = said.request.to
            /\ workflow_transfer_record_matches_decision(r, said.identity)
=============================================================================
