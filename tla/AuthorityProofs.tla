-------------------------- MODULE AuthorityProofs --------------------------
(***************************************************************************)
(* Proofs about the write-authority lock, for any set of pids, and about   *)
(* the mutation protocol above it, for any fields and event scopes.        *)
(*                                                                         *)
(* UnrobbedExclusion is not inductive: two owners are excluded because an  *)
(* owner in good standing created the very file that is at the path.       *)
(*                                                                         *)
(* The protocol loses an update in one way only.  A copy loaded under the  *)
(* guard exists only while its process holds it; as long as nobody was     *)
(* robbed there is one such process (Exclusion), so the copy is current    *)
(* when its difference is appended.  A copy loaded before the claim may be *)
(* outdated, but only in the fields recorded in `missed`: outside those,   *)
(* and outside the fields its event may carry, the append adds exactly the *)
(* command's own change.                                                   *)
(***************************************************************************)
EXTENDS HarnessStore, TLAPS

\* Only owners can be robbed, and the file at the path is the one of every
\* owner that has not been.
OwnsFile ==
    /\ robbed \subseteq Owners
    /\ \A p \in Owners \ robbed : lock.creator = p

Inv == waTypeOK /\ OwnsFile

-----------------------------------------------------------------------------
\* A lock file has its fields.
LEMMA LockFields ==
    ASSUME waTypeOK
    PROVE  /\ lock = [creator |-> lock.creator, pid |-> lock.pid]
           /\ lock.creator \in Pids \cup {NoPid}
           /\ lock.pid \in Pids \cup {NoPid}
           /\ lock.creator = NoPid <=> lock = Absent
  BY NoPidAssumption DEF waTypeOK, LockFiles, Absent

\* The lock protocol keeps its variables in their types: every action of
\* claim_step_write_authority, its guard's drop and the preflight inspection.
LEMMA TypeStep == waTypeOK /\ [waNext]_waVars => waTypeOK'
<1> SUFFICES ASSUME waTypeOK, [waNext]_waVars PROVE waTypeOK'
  OBVIOUS
<1> USE NoPidAssumption, BoundsAssumption DEF waTypeOK
<1>1. CASE UNCHANGED waVars
  BY <1>1 DEF waVars
<1>2. ASSUME NEW p \in Pids, Start(p) \/ Exit(p) PROVE waTypeOK'
  BY <1>2 DEF Start, Exit, Goto, Controls
<1>3. ASSUME NEW p \in Pids, Crash(p) PROVE waTypeOK'
  BY <1>3 DEF Crash, Controls
<1>4. ASSUME NEW p \in Pids, Claim(p) PROVE waTypeOK'
  <2>1. CASE BeginClaim(p)
    BY <2>1 DEF BeginClaim, Goto, Controls
  <2>2. CASE ClaimCreate(p)
    BY <2>2 DEF ClaimCreate, Goto, Controls, LockFiles
  <2>3. CASE ClaimStat(p)
    BY <2>3 DEF ClaimStat, Goto, Controls
  <2>4. CASE ClaimRead(p)
    BY <2>4, LockFields DEF ClaimRead, Goto, Controls
  <2>5. CASE ClaimProbe(p)
    BY <2>5 DEF ClaimProbe, Goto, Controls
  <2>6. CASE remove_stale_write_authority_lock(p)
    BY <2>6 DEF remove_stale_write_authority_lock, RemoveLockFile, RobbedBy, Owners, Goto, Controls
  <2>7. CASE ClaimWritePid(p)
    BY <2>7 DEF ClaimWritePid, Goto, Controls, LockFiles, Absent
  <2>8. CASE ClaimWritePidFails(p)
    BY <2>8 DEF ClaimWritePidFails, RobbedBy, Owners, Goto, Controls
  <2> QED
    BY <1>4, <2>1, <2>2, <2>3, <2>4, <2>5, <2>6, <2>7, <2>8 DEF Claim
<1>5. ASSUME NEW p \in Pids, Preflight(p) PROVE waTypeOK'
  <2>1. CASE BeginPreflight(p)
    BY <2>1 DEF BeginPreflight, Goto, Controls
  <2>2. CASE PreflightStat(p)
    BY <2>2 DEF PreflightStat, Goto, Controls
  <2>3. CASE PreflightRead(p)
    BY <2>3, LockFields DEF PreflightRead, Goto, Controls
  <2>4. CASE PreflightProbe(p)
    BY <2>4 DEF PreflightProbe, Goto, Controls
  <2>5. CASE PreflightReclaim(p)
    BY <2>5 DEF PreflightReclaim, RemoveLockFile, RobbedBy, Owners, Goto, Controls
  <2> QED
    BY <1>5, <2>1, <2>2, <2>3, <2>4, <2>5 DEF Preflight
<1>6. ASSUME NEW p \in Pids, Release(p) PROVE waTypeOK'
  BY <1>6 DEF Release, RobbedBy, Owners, Goto, Controls
<1> QED
  BY <1>1, <1>2, <1>3, <1>4, <1>5, <1>6 DEF waNext

\* A step of p that leaves the file and its ownership alone.
LEMMA QuietStep ==
    ASSUME Inv, NEW p \in Pids, NEW to \in Controls \ {"claim_write_pid", "held"},
           pc[p] \notin {"claim_write_pid", "held"},
           pc' = [pc EXCEPT ![p] = to], UNCHANGED <<lock, robbed>>
    PROVE  OwnsFile'
<1>1. Owners' = Owners
  BY DEF Inv, waTypeOK, Owners
<1> QED
  BY <1>1 DEF Inv, OwnsFile

\* p removes the file at the path and is itself no owner afterwards.
LEMMA RemovalStep ==
    ASSUME Inv, NEW p \in Pids, NEW to \in Controls \ {"claim_write_pid", "held"},
           pc' = [pc EXCEPT ![p] = to], lock' = Absent,
           \/ robbed' = RobbedBy(p) \ {p}
           \/ robbed' = RobbedBy(p) /\ p \notin Owners
    PROVE  OwnsFile'
<1>1. Owners' = Owners \ {p}
  BY DEF Inv, waTypeOK, Owners
<1>2. robbed' \subseteq Owners'
  BY <1>1 DEF Inv, OwnsFile, RobbedBy
<1>3. ASSUME NEW q \in Owners' \ robbed' PROVE FALSE
  <2>1. q \in Owners \ {p} /\ q \notin RobbedBy(p)
    BY <1>1, <1>3
  <2>2. lock.creator = q
    BY <2>1 DEF Inv, OwnsFile, RobbedBy
  <2> QED
    BY <2>1, <2>2 DEF RobbedBy
<1> QED
  BY <1>2, <1>3 DEF OwnsFile

\* The file at the path stays the one of the owner in good standing.
LEMMA OwnsFileStep == Inv /\ [waNext]_waVars => OwnsFile'
<1> SUFFICES ASSUME Inv, [waNext]_waVars PROVE OwnsFile'
  OBVIOUS
<1>1. CASE UNCHANGED waVars
  BY <1>1 DEF Inv, waVars, OwnsFile, Owners
<1>2. ASSUME NEW p \in Pids, Start(p) \/ Exit(p) PROVE OwnsFile'
  BY <1>2, QuietStep DEF Start, Exit, Goto, Controls
<1>3. ASSUME NEW p \in Pids, Crash(p) PROVE OwnsFile'
  <2>1. Owners' = Owners \ {p}
    BY <1>3 DEF Crash, Inv, waTypeOK, Owners
  <2> QED
    BY <1>3, <2>1 DEF Crash, Inv, OwnsFile
<1>4. ASSUME NEW p \in Pids, Claim(p) PROVE OwnsFile'
  <2>1. CASE BeginClaim(p)
    BY <2>1, QuietStep DEF BeginClaim, Goto, Controls
  <2>2. CASE ClaimCreate(p) /\ lock = Absent
    <3>1. Owners \ robbed = {}
      BY <2>2, NoPidAssumption DEF Inv, OwnsFile, Absent, Owners
    <3>2. Owners' = Owners \cup {p} /\ lock'.creator = p /\ robbed' = robbed
      BY <2>2 DEF ClaimCreate, Goto, Inv, waTypeOK, Owners
    <3> QED
      BY <3>1, <3>2 DEF Inv, OwnsFile
  <2>3. CASE ClaimCreate(p) /\ lock # Absent
    BY <2>3, QuietStep DEF ClaimCreate, Goto, Controls
  <2>4. CASE ClaimStat(p)
    BY <2>4, QuietStep DEF ClaimStat, Goto, Controls
  <2>5. CASE ClaimRead(p)
    BY <2>5, QuietStep DEF ClaimRead, Goto, Controls
  <2>6. CASE ClaimProbe(p)
    BY <2>6, QuietStep DEF ClaimProbe, Goto, Controls
  <2>7. CASE remove_stale_write_authority_lock(p)
    BY <2>7, RemovalStep
       DEF remove_stale_write_authority_lock, RemoveLockFile, Goto, Controls, Owners
  <2>8. CASE ClaimWritePid(p)
    <3>1. Owners' = Owners /\ robbed' = robbed
      BY <2>8 DEF ClaimWritePid, Goto, Inv, waTypeOK, Owners
    <3>2. lock'.creator = lock.creator
      BY <2>8, LockFields DEF ClaimWritePid, Inv
    <3> QED
      BY <3>1, <3>2 DEF Inv, OwnsFile
  <2>9. CASE ClaimWritePidFails(p)
    BY <2>9, RemovalStep DEF ClaimWritePidFails, Goto, Controls
  <2> QED
    BY <1>4, <2>1, <2>2, <2>3, <2>4, <2>5, <2>6, <2>7, <2>8, <2>9 DEF Claim
<1>5. ASSUME NEW p \in Pids, Preflight(p) PROVE OwnsFile'
  <2>1. CASE BeginPreflight(p)
    BY <2>1, QuietStep DEF BeginPreflight, Goto, Controls
  <2>2. CASE PreflightStat(p)
    BY <2>2, QuietStep DEF PreflightStat, Goto, Controls
  <2>3. CASE PreflightRead(p)
    BY <2>3, QuietStep DEF PreflightRead, Goto, Controls
  <2>4. CASE PreflightProbe(p)
    BY <2>4, QuietStep DEF PreflightProbe, Goto, Controls
  <2>5. CASE PreflightReclaim(p)
    BY <2>5, RemovalStep DEF PreflightReclaim, RemoveLockFile, Goto, Controls, Owners
  <2> QED
    BY <1>5, <2>1, <2>2, <2>3, <2>4, <2>5 DEF Preflight
<1>6. ASSUME NEW p \in Pids, Release(p) PROVE OwnsFile'
  BY <1>6, RemovalStep DEF Release, Goto, Controls
<1> QED
  BY <1>1, <1>2, <1>3, <1>4, <1>5, <1>6 DEF waNext

-----------------------------------------------------------------------------
\* The variables of the lock protocol keep their types.
THEOREM TypeCorrect == waSpec => []waTypeOK
<1>1. waInit => waTypeOK
  BY BoundsAssumption DEF waInit, waTypeOK, Controls
<1> QED
  BY <1>1, TypeStep, PTL DEF waSpec

\* The file at the path is the one of the owner in good standing.
THEOREM Invariance == waSpec => []Inv
<1>1. waInit => Inv
  BY BoundsAssumption DEF waInit, Inv, waTypeOK, Controls, OwnsFile, Owners
<1>2. Inv /\ [waNext]_waVars => Inv'
  BY TypeStep, OwnsFileStep DEF Inv
<1> QED
  BY <1>1, <1>2, PTL DEF waSpec

\* At most one owner of the write authority keeps its lock file, through
\* crashes, reclaims and reused pids of any number of processes.
THEOREM Exclusion == waSpec => []UnrobbedExclusion
<1>1. Inv => UnrobbedExclusion
  BY DEF Inv, OwnsFile, UnrobbedExclusion
<1> QED
  BY <1>1, Invariance, PTL

\* An owner is robbed only by a reclaim in progress or by the guard of an
\* owner that was robbed before; a guard in good standing removes its own file.
THEOREM Robbery == waSpec => RobberyIsStaleReclaim
<1> DEFINE Explained == \A p \in robbed' \ robbed :
                            \E q \in Pids \ {p} : pc[q] \in {"claim_reclaim", "pf_reclaim"}
                                                 \/ q \in robbed
<1>1. Inv /\ [waNext]_waVars => [Explained]_waVars
  <2> SUFFICES ASSUME Inv, waNext PROVE Explained
    OBVIOUS
  <2>1. PICK q \in Pids :
            Start(q) \/ Exit(q) \/ Crash(q) \/ Claim(q) \/ Preflight(q) \/ Release(q)
    BY DEF waNext
  <2>2. CASE robbed' \subseteq robbed
    BY <2>2
  <2>3. CASE pc[q] \in {"claim_reclaim", "pf_reclaim"} /\ robbed' = RobbedBy(q)
    BY <2>3 DEF RobbedBy
  <2>4. CASE q \in Owners /\ robbed' = RobbedBy(q) \ {q}
    BY <2>4 DEF RobbedBy, Inv, OwnsFile
  <2>5. \/ robbed' \subseteq robbed
        \/ pc[q] \in {"claim_reclaim", "pf_reclaim"} /\ robbed' = RobbedBy(q)
        \/ q \in Owners /\ robbed' = RobbedBy(q) \ {q}
    <3>1. CASE Start(q) \/ Exit(q) \/ Crash(q)
      BY <3>1 DEF Start, Exit, Crash
    <3>2. CASE Claim(q)
      BY <3>2 DEF Claim, BeginClaim, ClaimCreate, ClaimStat, ClaimRead, ClaimProbe,
                  remove_stale_write_authority_lock, RemoveLockFile, ClaimWritePid,
                  ClaimWritePidFails, Goto, Owners
    <3>3. CASE Preflight(q)
      BY <3>3 DEF Preflight, BeginPreflight, PreflightStat, PreflightRead, PreflightProbe,
                  PreflightReclaim, RemoveLockFile, Goto
    <3>4. CASE Release(q)
      BY <3>4 DEF Release, Goto, Owners
    <3> QED
      BY <2>1, <3>1, <3>2, <3>3, <3>4
  <2> QED
    BY <2>2, <2>3, <2>4, <2>5
<1> QED
  BY <1>1, Invariance, PTL DEF waSpec, RobberyIsStaleReclaim
-----------------------------------------------------------------------------
\* A step after which the lock file is absent or the same, and after which its
\* creator, if it was about to write the pid, still is.
LEMMA PidlessFrame ==
    ASSUME PidlessLockHasAWriter, crashes' = crashes,
           \/ lock' = Absent
           \/ lock' = lock /\ (pc[lock.creator] = "claim_write_pid"
                                   => pc'[lock.creator] = "claim_write_pid")
    PROVE  PidlessLockHasAWriter'
  BY DEF PidlessLockHasAWriter, Absent

\* p does not leave the write of its pid, and leaves the lock file alone.
LEMMA PidlessQuiet ==
    ASSUME waTypeOK, PidlessLockHasAWriter, NEW p \in Pids, NEW to,
           pc[p] # "claim_write_pid", pc' = [pc EXCEPT ![p] = to],
           UNCHANGED <<lock, crashes>>
    PROVE  PidlessLockHasAWriter'
  BY PidlessFrame, LockFields DEF waTypeOK

\* Every step of the lock protocol keeps a writer behind a lock without a pid.
LEMMA PidlessStep ==
    waTypeOK /\ PidlessLockHasAWriter /\ [waNext]_waVars => PidlessLockHasAWriter'
<1> SUFFICES ASSUME waTypeOK, PidlessLockHasAWriter, [waNext]_waVars
             PROVE  PidlessLockHasAWriter'
  OBVIOUS
<1>1. CASE UNCHANGED waVars
  BY <1>1, PidlessFrame DEF waVars
<1>2. ASSUME NEW p \in Pids, Start(p) \/ Exit(p) PROVE PidlessLockHasAWriter'
  BY <1>2, PidlessQuiet DEF Start, Exit, Goto
<1>3. ASSUME NEW p \in Pids, Crash(p) PROVE PidlessLockHasAWriter'
  BY <1>3 DEF Crash, PidlessLockHasAWriter, waTypeOK
<1>4. ASSUME NEW p \in Pids, Claim(p) PROVE PidlessLockHasAWriter'
  <2>1. CASE BeginClaim(p) \/ ClaimStat(p) \/ ClaimRead(p) \/ ClaimProbe(p)
    BY <2>1, PidlessQuiet DEF BeginClaim, ClaimStat, ClaimRead, ClaimProbe, Goto
  <2>2. CASE ClaimCreate(p) /\ lock = Absent
    BY <2>2 DEF ClaimCreate, Goto, PidlessLockHasAWriter, waTypeOK
  <2>3. CASE ClaimCreate(p) /\ lock # Absent
    BY <2>3, PidlessQuiet DEF ClaimCreate, Goto
  <2>4. CASE remove_stale_write_authority_lock(p) \/ ClaimWritePidFails(p)
    BY <2>4, PidlessFrame
       DEF remove_stale_write_authority_lock, RemoveLockFile, ClaimWritePidFails
  <2>5. CASE ClaimWritePid(p) /\ lock.creator = p
    <3>1. lock'.pid = p
      BY <2>5, LockFields DEF ClaimWritePid
    <3> QED
      BY <3>1, NoPidAssumption DEF PidlessLockHasAWriter
  <2>6. CASE ClaimWritePid(p) /\ lock.creator # p
    BY <2>6, PidlessFrame, LockFields, NoPidAssumption DEF ClaimWritePid, Goto, waTypeOK
  <2> QED
    BY <1>4, <2>1, <2>2, <2>3, <2>4, <2>5, <2>6 DEF Claim
<1>5. ASSUME NEW p \in Pids, Preflight(p) PROVE PidlessLockHasAWriter'
  <2>1. CASE PreflightReclaim(p)
    BY <2>1, PidlessFrame DEF PreflightReclaim, RemoveLockFile
  <2>2. CASE ~PreflightReclaim(p)
    BY <1>5, <2>2, PidlessQuiet
       DEF Preflight, BeginPreflight, PreflightStat, PreflightRead, PreflightProbe, Goto
  <2> QED
    BY <2>1, <2>2
<1>6. ASSUME NEW p \in Pids, Release(p) PROVE PidlessLockHasAWriter'
  BY <1>6, PidlessFrame DEF Release
<1> QED
  BY <1>1, <1>2, <1>3, <1>4, <1>5, <1>6 DEF waNext

\* As long as no process is killed, a lock file without a pid, the one a claim
\* can only report, has its creator behind it, about to write the pid.
THEOREM PidlessLock == waSpec => []PidlessLockHasAWriter
<1>1. waInit => PidlessLockHasAWriter
  BY DEF waInit, PidlessLockHasAWriter
<1> QED
  BY <1>1, PidlessStep, TypeCorrect, PTL DEF waSpec

-----------------------------------------------------------------------------
(***************************************************************************)
(* The mutation protocol.                                                  *)
(***************************************************************************)
\* A process has a copy loaded under the guard only while it holds the guard.
CopyUnderGuard == \A p \in Pids : phase[p] \in {"loaded", "persisted"} => pc[p] = "held"

\* Only a copy loaded before the claim misses what others do.
OnlyEarlyMisses == \A p \in Pids : phase[p] # "early" => missed[p] = {}

\* The history variable notices every robbery.
RobberyTaints == ~tainted => robbed = {}

hsInv ==
    /\ Inv
    /\ TypeOK
    /\ CopyUnderGuard
    /\ OnlyEarlyMisses
    /\ RobberyTaints
    /\ CopyIsCurrent
    /\ NoLostUpdate

-----------------------------------------------------------------------------
\* A step of the store is a step of the lock protocol, or leaves it alone.
LEMMA AuthorityNext == [Next]_vars => [waNext]_waVars
  BY DEF Next, ProcessStep, vars, AuthorityStep, waNext, LoadState, LoadEarly, Persist

LEMMA LockStep == Inv /\ [Next]_vars => Inv'
  BY AuthorityNext, TypeStep, OwnsFileStep DEF Inv

\* While nobody has been robbed, one process at most holds the guard.
LEMMA OneHolder ==
    ASSUME Inv, RobberyTaints, ~tainted, NEW p \in Pids, NEW q \in Pids,
           pc[p] = "held", pc[q] = "held"
    PROVE  p = q
  BY DEF Inv, OwnsFile, RobberyTaints, Owners

\* collect_changed_authoritative_fields and apply_authoritative_fields: whatever
\* copy is published, the log takes it over in the fields of the event's scope
\* and keeps its own values in the others, and wherever the event has no fact.
LEMMA AppendEffect ==
    ASSUME store \in States, NEW f \in Fields, NEW changed \in States,
           NEW facts, facts = [g \in ChangedFields(store, changed, Scope[f]) |-> changed[g]]
    PROVE  /\ DOMAIN facts \subseteq Fields
           /\ ApplyFacts(store, facts) \in States
           /\ \A g \in Fields :
                  /\ g \in Scope[f] => ApplyFacts(store, facts)[g] = changed[g]
                  /\ g \notin Scope[f] => ApplyFacts(store, facts)[g] = store[g]
                  /\ g \notin DOMAIN facts => ApplyFacts(store, facts)[g] = store[g]
<1>1. DOMAIN facts \subseteq Fields
  BY ScopeAssumption DEF ChangedFields
<1>2. \A g \in DOMAIN facts : facts[g] \in Nat
  BY <1>1 DEF States
<1>3. ASSUME NEW g \in Fields
      PROVE  /\ g \in Scope[f] => ApplyFacts(store, facts)[g] = changed[g]
             /\ g \notin Scope[f] => ApplyFacts(store, facts)[g] = store[g]
             /\ g \notin DOMAIN facts => ApplyFacts(store, facts)[g] = store[g]
  <2>1. ApplyFacts(store, facts)[g] = IF g \in DOMAIN facts THEN facts[g] ELSE store[g]
    BY DEF ApplyFacts
  <2>2. g \in DOMAIN facts <=> g \in Scope[f] /\ store[g] # changed[g]
    BY DEF ChangedFields
  <2>3. g \in DOMAIN facts => facts[g] = changed[g]
    OBVIOUS
  <2> QED
    BY <2>1, <2>2, <2>3
<1> QED
  BY <1>1, <1>2, <1>3 DEF ApplyFacts, States

-----------------------------------------------------------------------------
\* What a step of the lock protocol does to the copies.
LEMMA AuthorityStepInv ==
    ASSUME hsInv, Inv', NEW p \in Pids, AuthorityStep(p)
    PROVE  hsInv'
<1>1. /\ \/ UNCHANGED <<phase, payload, missed>> /\ KeepsCopy(p)
         \/ /\ phase' = [phase EXCEPT ![p] = "fresh"]
            /\ payload' = [payload EXCEPT ![p] = Zero]
            /\ missed' = [missed EXCEPT ![p] = {}]
      /\ UNCHANGED <<store, done, exposed>>
      /\ tainted' = (tainted \/ robbed' # {})
  BY DEF AuthorityStep
<1>2. \A q \in Pids \ {p} : pc'[q] = pc[q]
  <2>1. Goto(p, pc[p], pc'[p]) \/ Crash(p)
    BY DEF AuthorityStep, hsInv, Inv, waTypeOK, Start, Exit, Claim, Preflight, Release, Goto,
           BeginClaim, ClaimCreate, ClaimStat, ClaimRead, ClaimProbe, ClaimWritePid,
           remove_stale_write_authority_lock, ClaimWritePidFails, BeginPreflight,
           PreflightStat, PreflightRead, PreflightProbe, PreflightReclaim
  <2> QED
    BY <2>1 DEF Goto, Crash, hsInv, Inv, waTypeOK
<1>3. TypeOK'
  <2>1. tainted' \in BOOLEAN
    BY <1>1 DEF hsInv, TypeOK
  <2>2. Zero \in States
    BY DEF Zero, States
  <2> QED
    BY <1>1, <2>1, <2>2 DEF hsInv, TypeOK, Phases, Inv
<1>4. CopyUnderGuard'
  BY <1>1, <1>2 DEF hsInv, TypeOK, CopyUnderGuard, KeepsCopy
<1>5. OnlyEarlyMisses'
  BY <1>1 DEF hsInv, TypeOK, OnlyEarlyMisses
<1>6. RobberyTaints'
  BY <1>1 DEF RobberyTaints
<1>7. ~tainted' => ~tainted
  BY <1>1
<1>8. CopyIsCurrent'
  BY <1>1, <1>7 DEF hsInv, TypeOK, CopyIsCurrent
<1>9. NoLostUpdate'
  BY <1>1, <1>7 DEF hsInv, NoLostUpdate
<1> QED
  BY <1>3, <1>4, <1>5, <1>6, <1>8, <1>9 DEF hsInv

\* The copy is current when it is loaded, under the guard or before the claim.
LEMMA LoadInv ==
    ASSUME hsInv, Inv', NEW p \in Pids, LoadState(p) \/ LoadEarly(p)
    PROVE  hsInv'
<1>1. \/ pc[p] = "held" /\ phase' = [phase EXCEPT ![p] = "loaded"]
      \/ phase' = [phase EXCEPT ![p] = "early"]
  BY DEF LoadState, LoadEarly
<1>2. /\ payload' = [payload EXCEPT ![p] = store]
      /\ UNCHANGED <<store, done, missed, exposed, tainted, waVars>>
      /\ phase[p] = "fresh"
  BY DEF LoadState, LoadEarly
<1>3. TypeOK'
  BY <1>1, <1>2 DEF hsInv, TypeOK, Phases, Inv
<1>4. CopyUnderGuard' /\ RobberyTaints' /\ NoLostUpdate'
  BY <1>1, <1>2 DEF hsInv, TypeOK, CopyUnderGuard, RobberyTaints, NoLostUpdate, waVars
<1>5. OnlyEarlyMisses'
  BY <1>1, <1>2 DEF hsInv, TypeOK, OnlyEarlyMisses
<1>6. CopyIsCurrent'
  BY <1>1, <1>2 DEF hsInv, TypeOK, CopyIsCurrent
<1> QED
  BY <1>3, <1>4, <1>5, <1>6 DEF hsInv

\* The append adds the command's change to every field it does not expose; no
\* other process has a copy under the guard, and a copy loaded before a claim
\* misses the fields of the event.
LEMMA PersistInv ==
    ASSUME hsInv, Inv', NEW p \in Pids, NEW f \in Fields, Persist(p, f)
    PROVE  hsInv'
<1> DEFINE changed == [payload[p] EXCEPT ![f] = @ + 1]
           facts == [g \in ChangedFields(store, changed, Scope[f]) |-> changed[g]]
<1>1. /\ pc[p] = "held" /\ phase[p] \in {"loaded", "early"}
      /\ store' = ApplyFacts(store, facts)
      /\ payload' = [payload EXCEPT ![p] = changed]
      /\ done' = [done EXCEPT ![f] = @ + 1]
      /\ phase' = [phase EXCEPT ![p] = "persisted"]
      /\ missed' = [q \in Pids |-> IF q # p /\ phase[q] = "early"
                                   THEN missed[q] \cup DOMAIN facts
                                   ELSE {}]
      /\ exposed' = exposed \cup (Scope[f] \cap missed[p])
      /\ UNCHANGED tainted /\ UNCHANGED waVars
  BY DEF Persist
<1>2. changed \in States /\ store \in States /\ done \in States
  BY DEF hsInv, TypeOK, States
<1>3. /\ DOMAIN facts \subseteq Fields
      /\ store' \in States
      /\ \A g \in Fields :
             /\ g \in Scope[f] => store'[g] = changed[g]
             /\ g \notin Scope[f] => store'[g] = store[g]
             /\ g \notin DOMAIN facts => store'[g] = store[g]
  <2> HIDE DEF changed
  <2> QED
    BY <1>1, <1>2, AppendEffect
<1>4. TypeOK'
  <2> HIDE DEF facts, changed
  <2>1. done' \in States
    BY <1>1, <1>2 DEF States
  <2>2. missed' \in [Pids -> SUBSET Fields]
    BY <1>1, <1>3 DEF hsInv, TypeOK
  <2>3. exposed' \subseteq Fields
    BY <1>1 DEF hsInv, TypeOK
  <2>4. payload' \in [Pids -> States] /\ phase' \in [Pids -> Phases]
    BY <1>1, <1>2 DEF hsInv, TypeOK, Phases
  <2> QED
    BY <1>1, <1>3, <2>1, <2>2, <2>3, <2>4 DEF hsInv, TypeOK, Inv
<1>5. CopyUnderGuard' /\ RobberyTaints'
  BY <1>1 DEF hsInv, TypeOK, CopyUnderGuard, RobberyTaints, waVars
<1>6. OnlyEarlyMisses'
  <2> HIDE DEF facts, changed
  <2> QED
    BY <1>1 DEF hsInv, TypeOK, OnlyEarlyMisses
<1>7. NoLostUpdate'
  <2> SUFFICES ASSUME ~tainted', NEW g \in Fields \ exposed' PROVE store'[g] = done'[g]
    BY DEF NoLostUpdate
  <2>1. ~tainted /\ g \in Fields /\ g \notin exposed /\ (g \in Scope[f] => g \notin missed[p])
    BY <1>1
  <2>2. store[g] = done[g]
    BY <2>1 DEF hsInv, NoLostUpdate
  <2>3. g \in Scope[f] => payload[p][g] = store[g]
    BY <1>1, <2>1 DEF hsInv, CopyIsCurrent
  <2>4. store'[g] = IF g = f THEN store[g] + 1 ELSE store[g]
    <3>1. changed[g] = IF g = f THEN payload[p][g] + 1 ELSE payload[p][g]
      BY <2>1 DEF hsInv, TypeOK, States
    <3>2. f \in Scope[f]
      BY ScopeAssumption
    <3> HIDE DEF facts, changed
    <3> QED
      BY <1>3, <2>1, <2>3, <3>1, <3>2
  <2>5. done'[g] = IF g = f THEN done[g] + 1 ELSE done[g]
    BY <1>1, <1>2, <2>1 DEF States
  <2> QED
    BY <2>2, <2>4, <2>5
<1>8. CopyIsCurrent'
  <2> HIDE DEF facts, changed
  <2> SUFFICES ASSUME NEW q \in Pids
               PROVE  /\ ~tainted' => phase'[q] # "loaded"
                      /\ phase'[q] = "early" =>
                            \A g \in Fields \ missed'[q] : payload'[q][g] = store'[g]
    BY DEF CopyIsCurrent
  <2>1. CASE q = p
    BY <1>1, <2>1 DEF hsInv, TypeOK
  <2>2. CASE q # p
    <3>1. phase'[q] = phase[q] /\ payload'[q] = payload[q]
      BY <1>1, <2>2 DEF hsInv, TypeOK
    <3>2. ~tainted' => phase[q] # "loaded"
      BY <1>1, <2>2, OneHolder DEF hsInv, CopyUnderGuard
    <3>3. ASSUME phase[q] = "early", NEW g \in Fields \ missed'[q]
          PROVE  payload[q][g] = store'[g]
      <4>1. g \in Fields \ missed[q] /\ g \notin DOMAIN facts
        BY <1>1, <2>2, <3>3
      <4>2. payload[q][g] = store[g]
        BY <3>3, <4>1 DEF hsInv, CopyIsCurrent
      <4> QED
        BY <1>3, <4>1, <4>2
    <3> QED
      BY <3>1, <3>2, <3>3
  <2> QED
    BY <2>1, <2>2
<1> QED
  BY <1>4, <1>5, <1>6, <1>7, <1>8 DEF hsInv

-----------------------------------------------------------------------------
\* The variables of the store keep their types, copies are what their loads
\* allow them to be, and no update is lost unnoticed.
THEOREM StoreInvariance == Spec => []hsInv
<1>1. Init => hsInv
  <2> SUFFICES ASSUME Init PROVE hsInv
    OBVIOUS
  <2>1. Inv
    BY BoundsAssumption DEF Init, waInit, Inv, waTypeOK, Controls, OwnsFile, Owners
  <2>2. TypeOK
    BY <2>1 DEF Init, Inv, TypeOK, States, Zero, Phases
  <2> QED
    BY <2>1, <2>2 DEF Init, waInit, hsInv, CopyUnderGuard, OnlyEarlyMisses, RobberyTaints,
                      CopyIsCurrent, NoLostUpdate
<1>2. hsInv /\ [Next]_vars => hsInv'
  <2> SUFFICES ASSUME hsInv, [Next]_vars PROVE hsInv'
    OBVIOUS
  <2>1. Inv'
    BY LockStep DEF hsInv
  <2>2. CASE UNCHANGED vars
    BY <2>1, <2>2 DEF vars, hsVars, waVars, hsInv, Inv, TypeOK, CopyUnderGuard, OnlyEarlyMisses,
                      RobberyTaints, CopyIsCurrent, NoLostUpdate
  <2>3. CASE Next
    BY <2>1, <2>3, AuthorityStepInv, LoadInv, PersistInv DEF Next, ProcessStep
  <2> QED
    BY <2>2, <2>3
<1> QED
  BY <1>1, <1>2, PTL DEF Spec

\* Until a live owner is robbed of its lock file, an update of a field is lost
\* only to an event whose copy was loaded before the claim and had missed it.
THEOREM NoUpdateIsLost == Spec => []NoLostUpdate
<1>1. hsInv => NoLostUpdate
  BY DEF hsInv
<1> QED
  BY <1>1, StoreInvariance, PTL

\* Under the same condition a copy loaded under the guard is the current state;
\* one loaded before the claim is, outside the fields changed since.
THEOREM CopiesAreCurrent == Spec => []CopyIsCurrent
<1>1. hsInv => CopyIsCurrent
  BY DEF hsInv
<1> QED
  BY <1>1, StoreInvariance, PTL
=============================================================================
