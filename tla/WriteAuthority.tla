--------------------------- MODULE WriteAuthority ---------------------------
(***************************************************************************)
(* The write-authority lock: the file `write-authority.lock` of a branch's *)
(* harness directory, which every command that mutates the authoritative   *)
(* state claims first and releases when its guard is dropped.              *)
(*                                                                         *)
(* Each command is an operating-system process, known by its pid.  The     *)
(* claim is a sequence of file operations, and every other process may run *)
(* between two of them; a process may also be killed between any two, and  *)
(* a pid may be given to a later process.  The lock file is identified by  *)
(* the process that created it: a creator writes its pid through the open  *)
(* file, so the write does not reach a file that has replaced its own, but *)
(* removal is by path and takes whatever file is there.                    *)
(***************************************************************************)
EXTENDS Integers, FiniteSets

CONSTANTS
    Pids,         \* process identifiers the operating system hands out
    NoPid,        \* the content of a lock file that holds no parsable pid
    MaxCrashes    \* bound: processes killed

ASSUME NoPidAssumption == NoPid \notin Pids
ASSUME BoundsAssumption == MaxCrashes \in Nat

VARIABLES
    lock,      \* the lock file at the path: Absent, or its creator and pid
    pc,        \* where each process is in its command
    seen,      \* the pid a process has read from the lock file and will probe
    robbed,    \* history: live processes whose lock file another one removed
    crashes    \* history: number of processes killed

waVars == <<lock, pc, seen, robbed, crashes>>

Absent == [creator |-> NoPid, pid |-> NoPid]

LockFiles == [creator : Pids, pid : Pids \cup {NoPid}]

(***************************************************************************)
(* "none": no process has this pid.  "running": a process that is in no    *)
(* lock operation.  claim_*: inside the claim loop.  pf_*: inside the      *)
(* preflight inspection of the lock.  "held": holds the guard.             *)
(***************************************************************************)
Controls ==
    {"none", "running", "claim_create", "claim_stat", "claim_read", "claim_probe",
     "claim_reclaim", "claim_write_pid", "held", "pf_stat", "pf_read", "pf_probe",
     "pf_reclaim"}

\* Inside the loop of claim_step_write_authority.
Claiming ==
    {"claim_create", "claim_stat", "claim_read", "claim_probe", "claim_reclaim",
     "claim_write_pid"}

Goto(p, from, to) == pc[p] = from /\ pc' = [pc EXCEPT ![p] = to]

\* A process that owns the right to mutate as far as it can tell.
Owners == {p \in Pids : pc[p] \in {"claim_write_pid", "held"}}

\* kill -0: the pid names a live process (a probe error counts as alive).
process_is_running(pid) == pc[pid] # "none"

-----------------------------------------------------------------------------
(***************************************************************************)
(* Removing the file at the path, and whose live ownership that destroys.  *)
(***************************************************************************)
RobbedBy(p) == robbed \cup ({lock.creator} \cap (Owners \ {p}))

RemoveLockFile(p) == lock' = Absent /\ robbed' = RobbedBy(p)

\* A command starts; the operating system may reuse the pid of a dead process.
Start(p) ==
    /\ Goto(p, "none", "running")
    /\ UNCHANGED <<lock, seen, robbed, crashes>>

\* A command ends, outside any lock operation.
Exit(p) ==
    /\ Goto(p, "running", "none")
    /\ UNCHANGED <<lock, seen, robbed, crashes>>

\* A process is killed: it runs no destructor, so its lock file stays.
Crash(p) ==
    /\ crashes < MaxCrashes
    /\ pc[p] # "none"
    /\ pc' = [pc EXCEPT ![p] = "none"]
    /\ seen' = [seen EXCEPT ![p] = NoPid]
    /\ robbed' = robbed \ {p}
    /\ crashes' = crashes + 1
    /\ UNCHANGED lock

-----------------------------------------------------------------------------
(***************************************************************************)
(* claim_step_write_authority, and WriteAuthorityLock::acquire of the      *)
(* artifact writers, which is the same loop.                               *)
(***************************************************************************)
BeginClaim(p) ==
    /\ Goto(p, "running", "claim_create")
    /\ UNCHANGED <<lock, seen, robbed, crashes>>

\* Mutant: opens the lock file with create instead of create_new.
ClaimCreateTruncates(p) ==
    /\ Goto(p, "claim_create", "claim_write_pid")
    /\ lock' = [creator |-> p, pid |-> NoPid]
    /\ UNCHANGED <<seen, robbed, crashes>>

\* create_new succeeds on an absent file and reports AlreadyExists otherwise.
ClaimCreate(p) ==
    /\ pc[p] = "claim_create"
    /\ \/ /\ lock = Absent
          /\ lock' = [creator |-> p, pid |-> NoPid]
          /\ Goto(p, "claim_create", "claim_write_pid")
       \/ /\ lock # Absent
          /\ Goto(p, "claim_create", "claim_stat")
          /\ UNCHANGED lock
    /\ UNCHANGED <<seen, robbed, crashes>>

\* symlink_metadata: a file that has gone sends the claim back to create_new.
ClaimStat(p) ==
    /\ Goto(p, "claim_stat", IF lock = Absent THEN "claim_create" ELSE "claim_read")
    /\ UNCHANGED <<lock, seen, robbed, crashes>>

\* Mutant: a lock without a pid is retried instead of reported.
ClaimReadRetries(p) ==
    /\ Goto(p, "claim_read", IF lock.pid = NoPid THEN "claim_create" ELSE "claim_probe")
    /\ seen' = [seen EXCEPT ![p] = lock.pid]
    /\ UNCHANGED <<lock, robbed, crashes>>

\* read_to_string: an unreadable file or one without a pid is a conflict, and
\* the command fails.
ClaimRead(p) ==
    /\ Goto(p, "claim_read", IF lock.pid = NoPid THEN "running" ELSE "claim_probe")
    /\ seen' = [seen EXCEPT ![p] = lock.pid]
    /\ UNCHANGED <<lock, robbed, crashes>>

\* Mutant: the guard exists before the probe, and a conflict drops it.
ClaimProbeDropsGuard(p) ==
    /\ pc[p] = "claim_probe"
    /\ \/ /\ process_is_running(seen[p])
          /\ Goto(p, "claim_probe", "running")
          /\ RemoveLockFile(p)
       \/ /\ ~process_is_running(seen[p])
          /\ Goto(p, "claim_probe", "claim_reclaim")
          /\ UNCHANGED <<lock, robbed>>
    /\ UNCHANGED <<seen, crashes>>

\* A live holder is a conflict, and the command fails.
ClaimProbe(p) ==
    /\ Goto(p, "claim_probe",
            IF process_is_running(seen[p]) THEN "running" ELSE "claim_reclaim")
    /\ seen' = [seen EXCEPT ![p] = NoPid]
    /\ UNCHANGED <<lock, robbed, crashes>>

remove_stale_write_authority_lock(p) ==
    /\ Goto(p, "claim_reclaim", "claim_create")
    /\ RemoveLockFile(p)
    /\ UNCHANGED <<seen, crashes>>

\* writeln!(file, "pid="): reaches the path only while the file there is the
\* one this process created.
ClaimWritePid(p) ==
    /\ Goto(p, "claim_write_pid", "held")
    /\ lock' = IF lock.creator = p THEN [lock EXCEPT !.pid = p] ELSE lock
    /\ UNCHANGED <<seen, robbed, crashes>>

\* Mutant: the file whose pid could not be written is left behind.
ClaimWritePidFailsKeepsFile(p) ==
    /\ Goto(p, "claim_write_pid", "running")
    /\ UNCHANGED <<lock, robbed, seen, crashes>>

\* The write of the pid fails: the claim removes the file and reports it.
ClaimWritePidFails(p) ==
    /\ Goto(p, "claim_write_pid", "running")
    /\ lock' = Absent
    /\ robbed' = RobbedBy(p) \ {p}
    /\ UNCHANGED <<seen, crashes>>

\* Drop of the guard: remove_file by path, whatever file is there.
Release(p) ==
    /\ Goto(p, "held", "running")
    /\ lock' = Absent
    /\ robbed' = RobbedBy(p) \ {p}
    /\ UNCHANGED <<seen, crashes>>

-----------------------------------------------------------------------------
(***************************************************************************)
(* preflight_write_authority_state: the preflight gate looks at the lock   *)
(* without claiming it, and reclaims a stale one.                          *)
(***************************************************************************)
BeginPreflight(p) ==
    /\ Goto(p, "running", "pf_stat")
    /\ UNCHANGED <<lock, seen, robbed, crashes>>

PreflightStat(p) ==
    /\ Goto(p, "pf_stat", IF lock = Absent THEN "running" ELSE "pf_read")
    /\ UNCHANGED <<lock, seen, robbed, crashes>>

PreflightRead(p) ==
    /\ Goto(p, "pf_read", IF lock.pid = NoPid THEN "running" ELSE "pf_probe")
    /\ seen' = [seen EXCEPT ![p] = lock.pid]
    /\ UNCHANGED <<lock, robbed, crashes>>

PreflightProbe(p) ==
    /\ Goto(p, "pf_probe",
            IF process_is_running(seen[p]) THEN "running" ELSE "pf_reclaim")
    /\ seen' = [seen EXCEPT ![p] = NoPid]
    /\ UNCHANGED <<lock, robbed, crashes>>

PreflightReclaim(p) ==
    /\ Goto(p, "pf_reclaim", "running")
    /\ RemoveLockFile(p)
    /\ UNCHANGED <<seen, crashes>>

-----------------------------------------------------------------------------
waInit ==
    /\ lock = Absent
    /\ pc = [p \in Pids |-> "none"]
    /\ seen = [p \in Pids |-> NoPid]
    /\ robbed = {}
    /\ crashes = 0

Claim(p) ==
    \/ BeginClaim(p) \/ ClaimCreate(p) \/ ClaimStat(p) \/ ClaimRead(p) \/ ClaimProbe(p)
    \/ remove_stale_write_authority_lock(p) \/ ClaimWritePid(p) \/ ClaimWritePidFails(p)

Preflight(p) ==
    \/ BeginPreflight(p) \/ PreflightStat(p) \/ PreflightRead(p) \/ PreflightProbe(p)
    \/ PreflightReclaim(p)

waNext ==
    \E p \in Pids :
        Start(p) \/ Exit(p) \/ Crash(p) \/ Claim(p) \/ Preflight(p) \/ Release(p)

\* The steps of a lock operation that is under way.
Steps(p) ==
    ClaimCreate(p) \/ ClaimStat(p) \/ ClaimRead(p) \/ ClaimProbe(p)
    \/ remove_stale_write_authority_lock(p) \/ ClaimWritePid(p) \/ PreflightStat(p)
    \/ PreflightRead(p) \/ PreflightProbe(p) \/ PreflightReclaim(p)

waSpec == waInit /\ [][waNext]_waVars

\* A process that has begun a lock operation is scheduled until it is over.
waFairness == \A p \in Pids : WF_waVars(Steps(p))

-----------------------------------------------------------------------------
waTypeOK ==
    /\ lock \in LockFiles \cup {Absent}
    /\ pc \in [Pids -> Controls]
    /\ seen \in [Pids -> Pids \cup {NoPid}]
    /\ robbed \subseteq Pids
    /\ crashes \in 0..MaxCrashes

(***************************************************************************)
(* Single writer: the guard of claim_step_write_authority is held by at    *)
(* most one process of the branch.                                         *)
(***************************************************************************)
SingleWriter ==
    \A p, q \in Pids : pc[p] = "held" /\ pc[q] = "held" => p = q

(***************************************************************************)
(* What the protocol does guarantee: among the owners whose lock file no   *)
(* one else has removed there is at most one, through crashes, retries and *)
(* reused pids.  Two writers at once always involve a removal by path of a *)
(* live owner's file.                                                      *)
(***************************************************************************)
UnrobbedExclusion ==
    \A p, q \in Owners \ robbed : p = q

(***************************************************************************)
(* A live owner loses its lock file only to a process that is between its  *)
(* probe of a dead pid and its removal, or to the guard of an owner that   *)
(* has itself been robbed: a guard in good standing never removes another  *)
(* owner's file when it is dropped.                                        *)
(***************************************************************************)
RobberyIsStaleReclaim ==
    [][\A p \in robbed' \ robbed :
          \E q \in Pids \ {p} : pc[q] \in {"claim_reclaim", "pf_reclaim"}
                               \/ q \in robbed]_waVars

(***************************************************************************)
(* A lock file without a pid, which every claim reports as a conflict and  *)
(* no claim reclaims, is there only while its creator is about to write    *)
(* the pid, or after a process was killed.                                 *)
(***************************************************************************)
PidlessLockHasAWriter ==
    lock # Absent /\ lock.pid = NoPid => pc[lock.creator] = "claim_write_pid" \/ crashes > 0

(***************************************************************************)
(* A claim ends, with the guard or with a conflict, unless it is overtaken *)
(* forever.  The loop of claim_step_write_authority has no bound and no    *)
(* pause, so the commands of others can starve it: each time it goes round *)
(* another process has created the lock anew.  Nothing else keeps it       *)
(* going: no lock without a pid, no dead holder, no crash at any point.    *)
(***************************************************************************)
ClaimEndsUnlessOvertaken ==
    \A p \in Pids :
        <>[](pc[p] \in Claiming)
            => []<><<lock = Absent /\ lock'.creator \in Pids \ {p}>>_waVars
=============================================================================
