-------------------------- MODULE ComponentProofs ---------------------------
(***************************************************************************)
(* Proofs about the components around a run: the worktree leases, the      *)
(* approvals of repo safety, the update check, the start of a run          *)
(* (Preflight) and the transfer of its work (Handoff), for any number of   *)
(* processes, leases, tasks, commits, plan revisions, owners and files.    *)
(* Each has its own specification and its own variables.                   *)
(***************************************************************************)
EXTENDS WorktreeLeases, RepoSafety, UpdateCheck, Preflight, Handoff,
        FiniteSetTheorems, TLAPS

(***************************************************************************)
(* Worktree leases.                                                        *)
(***************************************************************************)
\* The entries of the index, and what the process that rewrites a lease has read
\* and written so far.
Bindings == {Binding(l) : l \in Leases}
DraftParts == Units \cup Leases \cup SUBSET Bindings

\* What LeaseIsNotDropped needs: the index holds bindings of leases, and what
\* the process that rewrites a lease read of the index still covers it, because
\* releases only take entries away.
Drafting ==
    /\ active \subseteq Bindings
    /\ draft \in Seq(DraftParts)
    /\ Len(draft) \in {0, 2, 3}
    /\ Len(draft) # 0 => draft[2] \subseteq Bindings /\ active \subseteq draft[2]
    /\ Len(draft) = 3 => draft[3] \in Leases /\ draft[3].unit = draft[1]

\* What appending does to a sequence.
LEMMA Appended ==
    ASSUME NEW S, NEW s \in Seq(S), NEW x \in S
    PROVE  /\ Append(s, x) \in Seq(S)
           /\ Len(Append(s, x)) = Len(s) + 1
           /\ \A i \in 1 .. Len(s) : Append(s, x)[i] = s[i]
           /\ Append(s, x)[Len(s) + 1] = x
  <1>1. Append(s, x) \in Seq(S)
    OBVIOUS
  <1>2. Len(Append(s, x)) = Len(s) + 1
    OBVIOUS
  <1>3. ASSUME NEW i \in 1 .. Len(s) PROVE Append(s, x)[i] = s[i]
    BY <1>3
  <1>4. Append(s, x)[Len(s) + 1] = x
    OBVIOUS
  <1> QED BY <1>1, <1>2, <1>3, <1>4, Zenon

\* A lease that leaves the index by a release has its work merged, its worktree
\* cleaned up, its task closed, and a release record.
LEMMA Release ==
    ASSUME NEW S, release_active_worktree_leases_with_locked_index(S),
           NEW b \in active \ active'
    PROVE  /\ active' \subseteq active
           /\ b.lease.unit \in merged /\ b.lease.tidy
           /\ closure[b.task] # 0
           /\ \E r \in released' : r.lease = b.lease
  <1> DEFINE gone == UNION {Releasable(t) : t \in {u \in S : closure[u] # 0}}
             entries == {[lease |-> x.lease, task |-> x.task, closure |-> closure[x.task]] : x \in gone}
  <1>1. active' = active \ gone /\ AppendUnique(entries)
    BY DEF release_active_worktree_leases_with_locked_index
  <1>2. b \in gone
    BY <1>1
  <1>3. PICK t \in {u \in S : closure[u] # 0} : b \in Releasable(t)
    BY <1>2
  <1>4. b.task = t /\ b.lease.unit \in merged /\ b.lease.tidy
    BY <1>3
        DEF Releasable, validate_terminal_worktree_lease_structured_proof,
            validate_terminal_worktree_lease_proof
  <1> DEFINE r == [lease |-> b.lease, task |-> b.task, closure |-> closure[b.task]]
  <1>5. r \in entries /\ r.lease = b.lease
    BY <1>2
  <1>6. released' = released \cup {x \in entries : \A s \in released : s.lease # x.lease}
    BY <1>1 DEF AppendUnique
  <1> HIDE DEF r, entries, gone
  <1>7. \E x \in released' : x.lease = b.lease
    BY <1>5, <1>6
  <1> QED BY <1>1, <1>3, <1>4, <1>7

\* A release adds nothing to the index.
LEMMA ReleaseShrinks ==
    ASSUME NEW S, release_active_worktree_leases_with_locked_index(S)
    PROVE  active' \subseteq active
  BY DEF release_active_worktree_leases_with_locked_index

\* The drafting invariant holds whatever agents, closures and releases do.
THEOREM DraftInvariance == wlSpec => []Drafting
  <1>1. wlInit => Drafting
    BY DEF wlInit, Drafting
  <1>2. Drafting /\ [wlNext]_wlVars => Drafting'
    <2> SUFFICES ASSUME Drafting, [wlNext]_wlVars PROVE Drafting' OBVIOUS
    <2>1. ASSUME NEW u \in Units, ReadIndex(u) PROVE Drafting'
      <3>1. draft' = <<u, active>> /\ active' = active
        BY <2>1 DEF ReadIndex
      <3>2. u \in DraftParts /\ active \in DraftParts
        BY DEF DraftParts, Drafting
      <3> QED BY <3>1, <3>2 DEF Drafting
    <2>2. ASSUME NEW l \in Leases, write_authoritative_worktree_lease_artifact(l) PROVE Drafting'
      <3>1. /\ Len(draft) = 2 /\ draft' = Append(draft, l) /\ active' = active
            /\ l.unit = draft[1]
        BY <2>2 DEF write_authoritative_worktree_lease_artifact, NextLease
      <3>2. l \in DraftParts /\ draft \in Seq(DraftParts)
        BY DEF DraftParts, Drafting
      <3>3. /\ draft' \in Seq(DraftParts) /\ Len(draft') = 3
            /\ draft'[1] = draft[1] /\ draft'[2] = draft[2] /\ draft'[3] = l
        <4> DEFINE t == Append(draft, l)
        <4>1. /\ t \in Seq(DraftParts)
              /\ Len(t) = Len(draft) + 1
              /\ \A i \in 1 .. Len(draft) : t[i] = draft[i]
              /\ t[Len(draft) + 1] = l
          BY <3>2, Appended, Zenon
        <4> HIDE DEF t
        <4>2. Len(t) = 3 /\ t[1] = draft[1] /\ t[2] = draft[2] /\ t[3] = l
          BY <3>1, <4>1
        <4> QED BY <3>1, <4>1, <4>2 DEF t
      <3> QED BY <3>1, <3>3 DEF Drafting
    <2>3. CASE AgentStops
      BY <2>3 DEF AgentStops, Drafting
    <2>4. ASSUME draft' = draft, active' \subseteq active PROVE Drafting'
      BY <2>4 DEF Drafting
    <2>5. CASE persist_active_worktree_lease_index
      <3>1. /\ Len(draft) = 3 /\ draft' = <<>>
            /\ active' = {x \in draft[2] : x.lease.unit # draft[1]} \cup {Binding(draft[3])}
        BY <2>5 DEF persist_active_worktree_lease_index
      <3>2. draft[2] \subseteq Bindings /\ Binding(draft[3]) \in Bindings
        BY <3>1 DEF Drafting, Bindings
      <3>3. active' \subseteq Bindings
        BY <3>1, <3>2
      <3> QED BY <3>1, <3>3 DEF Drafting
    <2>6. CASE ReleaseAfterClosure \/ release_resolved_worktree_leases_for_repair_review_state
      BY <2>4, <2>6, ReleaseShrinks
          DEF ReleaseAfterClosure, release_resolved_worktree_leases_for_repair_review_state
    <2>7. ASSUME NEW u \in Units, Rewrite(u) PROVE Drafting'
      BY <2>4, <2>7 DEF Rewrite
    <2>8. ASSUME NEW t \in Tasks, CloseTask(t) \/ ClearClosure(t) PROVE Drafting'
      BY <2>4, <2>8 DEF CloseTask, ClearClosure
    <2>9. CASE CleanupFails
      BY <2>4, <2>9 DEF CleanupFails
    <2>10. CASE UNCHANGED wlVars
      BY <2>4, <2>10 DEF wlVars
    <2> QED BY <2>1, <2>2, <2>3, <2>5, <2>6, <2>7, <2>8, <2>9, <2>10 DEF wlNext
  <1> QED BY <1>1, <1>2, PTL DEF wlSpec

\* No lease leaves the index of active worktree leases unless a newer lease of
\* its unit takes its place or its work is settled: merged, cleaned up, its task
\* closed, and a release record kept. It holds although the index is read and
\* written in separate steps and an agent may stop between them.
THEOREM LeasesStay == wlSpec => LeaseIsNotDropped
  <1>1. ASSUME Drafting, [wlNext]_wlVars, NEW b \in active \ active'
        PROVE  \/ \E c \in active' : c.lease.unit = b.lease.unit
               \/ /\ b.lease.unit \in merged /\ b.lease.tidy
                  /\ closure[b.task] # 0
                  /\ \E r \in released' : r.lease = b.lease
    <2>1. CASE persist_active_worktree_lease_index
      <3>1. /\ Len(draft) = 3
            /\ active' = {x \in draft[2] : x.lease.unit # draft[1]} \cup {Binding(draft[3])}
        BY <2>1 DEF persist_active_worktree_lease_index
      <3>2. active \subseteq draft[2] /\ draft[3].unit = draft[1]
        BY <1>1, <3>1 DEF Drafting
      <3>3. b.lease.unit = draft[1]
        BY <1>1, <3>1, <3>2
      <3>4. Binding(draft[3]) \in active' /\ Binding(draft[3]).lease.unit = draft[1]
        BY <3>1, <3>2 DEF Binding
      <3> QED BY <3>3, <3>4
    <2>2. CASE ReleaseAfterClosure
      BY <1>1, <2>2, Release DEF ReleaseAfterClosure
    <2>3. CASE release_resolved_worktree_leases_for_repair_review_state
      BY <1>1, <2>3, Release DEF release_resolved_worktree_leases_for_repair_review_state
    <2>4. CASE active' = active
      BY <1>1, <2>4
    <2>5. ASSUME NEW u \in Units, ReadIndex(u) \/ Rewrite(u) PROVE active' = active
      BY <2>5 DEF ReadIndex, Rewrite
    <2>6. ASSUME NEW l \in Leases, write_authoritative_worktree_lease_artifact(l) PROVE active' = active
      BY <2>6 DEF write_authoritative_worktree_lease_artifact
    <2>7. ASSUME NEW t \in Tasks, CloseTask(t) \/ ClearClosure(t) PROVE active' = active
      BY <2>7 DEF CloseTask, ClearClosure
    <2>8. CASE AgentStops \/ CleanupFails
      BY <2>4, <2>8 DEF AgentStops, CleanupFails
    <2>9. CASE UNCHANGED wlVars
      BY <2>4, <2>9 DEF wlVars
    <2> QED BY <1>1, <2>1, <2>2, <2>3, <2>4, <2>5, <2>6, <2>7, <2>8, <2>9 DEF wlNext
  <1>2. Drafting /\ [wlNext]_wlVars =>
            [\A b \in active \ active' :
                \/ \E c \in active' : c.lease.unit = b.lease.unit
                \/ /\ b.lease.unit \in merged /\ b.lease.tidy
                   /\ closure[b.task] # 0
                   /\ \E r \in released' : r.lease = b.lease]_wlVars
    BY <1>1
  <1> QED BY <1>2, DraftInvariance, PTL DEF wlSpec, LeaseIsNotDropped

\* When the lease gate (enforce_worktree_lease_binding_truth) opens, the lease
\* every unit published last is settled, but for leases the gate cannot see
\* because their publication stopped before the index. It follows from what the
\* gate reads, in any state.
THEOREM GateSettles == wlSpec => []GateMeansSettled
  <1>1. GateMeansSettled
    <2> SUFFICES ASSUME enforce_worktree_lease_binding_truth, NEW u \in Units, NEW l \in Published(u)
                 PROVE  \/ /\ l.stage \in {"reconciled", "cleaned"} /\ l.tidy
                           /\ u \in merged \/ \E r \in released : r.lease.unit = u
                        \/ active # {} /\ \A b \in active : b.lease # l
      BY DEF GateMeansSettled
    <2>1. l \in files /\ l.unit = u
      BY DEF Published
    <2>2. CASE ~hasRun
      BY <2>1, <2>2 DEF enforce_worktree_lease_binding_truth
    <2>3. CASE hasRun /\ active = {}
      BY <2>1, <2>3
          DEF enforce_worktree_lease_binding_truth,
              current_run_worktree_lease_artifacts_exist,
                        validate_terminal_worktree_lease_proof, Terminal
    <2>4. ASSUME hasRun, NEW b \in active, b.lease = l
          PROVE  l.stage \in {"reconciled", "cleaned"} /\ l.tidy /\ u \in merged
      BY <2>1, <2>4 DEF enforce_worktree_lease_binding_truth, LeaseSettled, Terminal,
            validate_terminal_worktree_lease_structured_proof, validate_terminal_worktree_lease_proof
    <2> QED BY <2>2, <2>3, <2>4
  <1> QED BY <1>1, PTL

-----------------------------------------------------------------------------
(***************************************************************************)
(* Repo safety. An approval is written to a temporary file that is         *)
(* renamed, and several approvals may share the temporary file of a path:  *)
(* one may still write to a file that another has renamed.                 *)
(* AllowedMeansApproved and ApprovalHolds rest on what a record can be     *)
(* (RecordsAreGenuine) and on where a file can be (OnePlace).              *)
(***************************************************************************)
\* Sets the variables of repo safety range over.
TaskNames == {derive_task_id(id, s) : id \in TaskIds, s \in Scopes}
Prints == Clones \X Branches \X TaskNames \X Scopes
Paths == Remotes \X Branches \X TaskNames
Requests ==
    [root : Clones, branch : Branches, task : TaskNames, scope : Scopes, print : Prints, path : Paths]
\* An approval under way; open is the set of files that exist.
Approving(open) ==
    {NotApproving} \cup [at : {"open"}, q : Requests] \cup [at : {"write", "rename"}, q : Requests, file : open]

\* Files are numbered in the order they are created.
Numbered(S) == IsFiniteSet(S) /\ S = 1 .. Cardinality(S)

\* The types of the variables of repo safety.
rsTypeOK ==
    /\ remote \in [Clones -> Remotes] /\ branch \in [Clones -> Branches]
    /\ Numbered(DOMAIN inodes)
    /\ inodes \in [DOMAIN inodes -> SUBSET Requests]
    /\ DOMAIN approvals \subseteq Paths /\ approvals \in [DOMAIN approvals -> DOMAIN inodes]
    /\ DOMAIN temporary \subseteq Paths /\ temporary \in [DOMAIN temporary -> DOMAIN inodes]
    /\ approver \in [Approvers -> Approving(DOMAIN inodes)]
    /\ asked \in Seq(Prints)

\* The record is what approve made of a request: its fingerprint is that of its
\* own scope, its path that of its branch and task under some remote, and the
\* request was made.
Genuine(r) ==
    /\ r.print = compute_fingerprint(r.root, r.branch, r.task, r.scope)
    /\ \E s \in Remotes : r.path = <<s, r.branch, r.task>>
    /\ \E i \in DOMAIN asked : asked[i] = r.print

\* Every record on disk or about to be written is genuine.
RecordsAreGenuine ==
    /\ \A n \in DOMAIN inodes : \A r \in inodes[n] : Genuine(r)
    /\ \A p \in Approvers : approver[p] # NotApproving => Genuine(approver[p].q)

\* The process has opened its temporary file.
HasOpen(p) == approver[p].at \in {"write", "rename"}

\* A file is at one path at most, and a process that has a file open can only
\* find it at the path it writes for: so a late write never changes the record
\* of another branch or task.
OnePlace ==
    /\ \A x \in DOMAIN temporary, y \in DOMAIN temporary : temporary[x] = temporary[y] => x = y
    /\ \A x \in DOMAIN temporary, y \in DOMAIN approvals : temporary[x] # approvals[y]
    /\ \A p \in Approvers : HasOpen(p) =>
          /\ \A x \in DOMAIN temporary : temporary[x] = approver[p].file => x = approver[p].q.path
          /\ \A x \in DOMAIN approvals : approvals[x] = approver[p].file => x = approver[p].q.path

\* The inductive invariant of repo safety.
rsInv == rsTypeOK /\ RecordsAreGenuine /\ OnePlace

\* The number of the next file is new.
LEMMA NextNumber ==
    ASSUME NEW S, Numbered(S)
    PROVE  /\ Cardinality(S) + 1 \notin S
           /\ Numbered(S \cup {Cardinality(S) + 1})
  <1>1. Cardinality(S) \in Nat /\ IsFiniteSet(S) /\ S = 1 .. Cardinality(S)
    BY FS_CardinalityType DEF Numbered
  <1> DEFINE n == Cardinality(S)
  <1>2. n + 1 \notin S
    BY <1>1
  <1>3. IsFiniteSet(S \cup {n + 1}) /\ Cardinality(S \cup {n + 1}) = n + 1
    BY <1>1, <1>2, FS_AddElement
  <1>4. S \cup {n + 1} = 1 .. n + 1
    BY <1>1
  <1> QED BY <1>2, <1>3, <1>4 DEF Numbered

\* prepare_scope makes a request whose fingerprint and path are its own.
LEMMA ScopeIsRequest ==
    ASSUME rsTypeOK, NEW c \in Clones, NEW id \in TaskIds, NEW s \in Scopes
    PROVE  LET q == prepare_scope(c, id, s)
           IN  /\ q \in Requests
               /\ q.print = compute_fingerprint(q.root, q.branch, q.task, q.scope)
               /\ q.path = <<remote[c], q.branch, q.task>>
               /\ q.root = c /\ q.branch = branch[c] /\ q.scope = s /\ q.task = derive_task_id(id, s)
  <1> DEFINE t == derive_task_id(id, s)
  <1>1. t \in TaskNames /\ branch[c] \in Branches /\ remote[c] \in Remotes
    BY DEF TaskNames, rsTypeOK
  <1>2. prepare_scope(c, id, s) =
           [root |-> c, branch |-> branch[c], task |-> t, scope |-> s,
            print |-> <<c, branch[c], t, s>>, path |-> <<remote[c], branch[c], t>>]
    BY DEF prepare_scope, compute_fingerprint
  <1> HIDE DEF t
  <1>3. <<c, branch[c], t, s>> \in Prints /\ <<remote[c], branch[c], t>> \in Paths
    BY <1>1 DEF Prints, Paths
  <1> QED BY <1>1, <1>2, <1>3 DEF Requests, compute_fingerprint, t

\* The history of requests only grows.
LEMMA Asking ==
    ASSUME asked \in Seq(Prints), NEW x \in Prints, asked' = Append(asked, x)
    PROVE  /\ asked' \in Seq(Prints)
           /\ \E i \in DOMAIN asked' : asked'[i] = x
           /\ \A i \in DOMAIN asked : i \in DOMAIN asked' /\ asked'[i] = asked[i]
  <1>1. asked' \in Seq(Prints) /\ Len(asked') = Len(asked) + 1
    OBVIOUS
  <1>2. DOMAIN asked' = 1 .. Len(asked) + 1 /\ DOMAIN asked = 1 .. Len(asked) /\ Len(asked) \in Nat
    BY <1>1
  <1>3. asked'[Len(asked) + 1] = x
    OBVIOUS
  <1>4. ASSUME NEW i \in 1 .. Len(asked) PROVE asked'[i] = asked[i]
    BY <1>4
  <1>5. Len(asked) + 1 \in DOMAIN asked'
    BY <1>2
  <1>6. \A i \in DOMAIN asked : i \in DOMAIN asked' /\ asked'[i] = asked[i]
    BY <1>2, <1>4
  <1> QED BY <1>1, <1>3, <1>5, <1>6

\* A genuine record stays genuine.
LEMMA GenuineStays ==
    ASSUME \/ asked' = asked
           \/ \A i \in DOMAIN asked : i \in DOMAIN asked' /\ asked'[i] = asked[i],
           NEW r, Genuine(r)
    PROVE  Genuine(r)'
  BY DEF Genuine

\* The invariant holds before the first approval.
LEMMA rsInitially == rsInit => rsInv
  <1> SUFFICES ASSUME rsInit PROVE rsInv OBVIOUS
  <1>1. DOMAIN inodes = {} /\ DOMAIN approvals = {} /\ DOMAIN temporary = {}
    BY DEF rsInit
  <1>2. Numbered({})
    BY FS_EmptySet DEF Numbered
  <1>3. inodes \in [DOMAIN inodes -> SUBSET Requests]
    BY <1>1 DEF rsInit
  <1>4. approvals \in [DOMAIN approvals -> DOMAIN inodes] /\ temporary \in [DOMAIN temporary -> DOMAIN inodes]
    BY <1>1 DEF rsInit
  <1>5. rsTypeOK
    BY <1>1, <1>2, <1>3, <1>4 DEF rsInit, rsTypeOK, Approving
  <1>6. RecordsAreGenuine
    BY <1>1 DEF rsInit, RecordsAreGenuine, NotApproving
  <1>7. OnePlace
    BY <1>1 DEF rsInit, OnePlace, NotApproving, HasOpen
  <1> QED BY <1>5, <1>6, <1>7 DEF rsInv

\* Starting an approval keeps the invariant.
LEMMA StartKeeps ==
    ASSUME rsInv, NEW p \in Approvers, NEW c \in Clones, NEW id \in TaskIds, NEW s \in Scopes,
           StartApprove(p, c, id, s)
    PROVE  rsInv'
  <1> DEFINE q == prepare_scope(c, id, s)
  <1>0. rsTypeOK /\ RecordsAreGenuine /\ OnePlace BY DEF rsInv
  <1>1. /\ approver' = [approver EXCEPT ![p] = [at |-> "open", q |-> q]]
        /\ asked' = Append(asked, q.print)
        /\ UNCHANGED <<remote, branch, listed, inodes, approvals, temporary>>
    BY DEF StartApprove
  <1>2. /\ q \in Requests
        /\ q.print = compute_fingerprint(q.root, q.branch, q.task, q.scope)
        /\ q.path = <<remote[c], q.branch, q.task>>
    BY <1>0, ScopeIsRequest
  <1>3. q.print \in Prints /\ remote[c] \in Remotes
    BY <1>0, <1>2 DEF Requests, rsTypeOK
  <1> HIDE DEF q
  <1>4. /\ asked' \in Seq(Prints)
        /\ \E i \in DOMAIN asked' : asked'[i] = q.print
        /\ \A i \in DOMAIN asked : i \in DOMAIN asked' /\ asked'[i] = asked[i]
    BY <1>0, <1>1, <1>3, Asking DEF rsTypeOK
  <1>5. \E i \in DOMAIN asked' : asked'[i] = q.print
    BY <1>4
  <1>6. /\ q.print = compute_fingerprint(q.root, q.branch, q.task, q.scope)
        /\ \E x \in Remotes : q.path = <<x, q.branch, q.task>>
        /\ \E i \in DOMAIN asked' : asked'[i] = q.print
    BY <1>2, <1>3, <1>5
  <1>7. [at |-> "open", q |-> q] \in Approving(DOMAIN inodes)
    BY <1>2 DEF Approving
  <1>8. approver' \in [Approvers -> Approving(DOMAIN inodes)]
    BY <1>0, <1>1, <1>7 DEF rsTypeOK
  <1>9. rsTypeOK'
    BY <1>0, <1>1, <1>4, <1>8 DEF rsTypeOK
  <1>10. ASSUME NEW n \in DOMAIN inodes, NEW r \in inodes[n] PROVE Genuine(r)'
    BY <1>0, <1>4, <1>10, GenuineStays DEF RecordsAreGenuine
  <1>11. ASSUME NEW x \in Approvers, approver'[x] # NotApproving PROVE Genuine(approver[x].q)' 
    <2>1. CASE x = p
      <3>1. approver'[x].q = q
        BY <1>0, <1>1, <2>1 DEF rsTypeOK
      <3> QED BY <1>6, <3>1 DEF Genuine
    <2>2. CASE x # p
      <3>1. approver'[x] = approver[x]
        BY <1>0, <1>1, <2>2 DEF rsTypeOK
      <3>2. Genuine(approver[x].q)
        BY <1>0, <1>11, <3>1 DEF RecordsAreGenuine
      <3> QED BY <1>4, <3>1, <3>2 DEF Genuine
    <2> QED BY <2>1, <2>2
  <1>12. RecordsAreGenuine'
    BY <1>1, <1>10, <1>11 DEF RecordsAreGenuine
  <1>13. \A x \in Approvers : HasOpen(x)' => approver'[x] = approver[x] /\ HasOpen(x)
    <2> SUFFICES ASSUME NEW x \in Approvers, HasOpen(x)' PROVE approver'[x] = approver[x] /\ HasOpen(x)
      OBVIOUS
    <2>1. approver \in [Approvers -> Approving(DOMAIN inodes)]
      BY <1>0 DEF rsTypeOK
    <2>2. CASE x = p
      <3>1. approver'[x] = [at |-> "open", q |-> q] BY <1>1, <2>1, <2>2
      <3> QED BY <3>1 DEF HasOpen
    <2>3. CASE x # p
      <3>1. approver'[x] = approver[x] BY <1>1, <2>1, <2>3
      <3> QED BY <3>1 DEF HasOpen
    <2> QED BY <2>2, <2>3
  <1>14. OnePlace'
    BY <1>0, <1>1, <1>13 DEF OnePlace
  <1> QED BY <1>9, <1>12, <1>14 DEF rsInv

\* What opening the temporary file does, whether it is there or not.
LEMMA Opening ==
    ASSUME rsInv, NEW p \in Approvers, OpenTemporary(p)
    PROVE  \E i :
             /\ DOMAIN inodes' = DOMAIN inodes \cup {i} /\ Numbered(DOMAIN inodes')
             /\ inodes' = [n \in DOMAIN inodes \cup {i} |-> IF n = i THEN {} ELSE inodes[n]]
             /\ temporary' = [x \in DOMAIN temporary \cup {approver[p].q.path} |->
                                 IF x = approver[p].q.path THEN i ELSE temporary[x]]
             /\ approver' = [approver EXCEPT ![p] = [at |-> "write", q |-> approver[p].q, file |-> i]]
             /\ \A y \in DOMAIN approvals : approvals[y] # i
             /\ \A x \in DOMAIN temporary : temporary[x] = i => x = approver[p].q.path
             /\ \A x \in Approvers : HasOpen(x) /\ approver[x].file = i => approver[p].q.path = approver[x].q.path
  <1> DEFINE path == approver[p].q.path
             new == Cardinality(DOMAIN inodes) + 1
             i == IF path \in DOMAIN temporary THEN temporary[path] ELSE new
  <1>0. rsTypeOK /\ OnePlace BY DEF rsInv
  <1>1. /\ inodes' = [n \in DOMAIN inodes \cup {i} |-> IF n = i THEN {} ELSE inodes[n]]
        /\ temporary' = [x \in DOMAIN temporary \cup {path} |-> IF x = path THEN i ELSE temporary[x]]
        /\ approver' = [approver EXCEPT ![p] = [at |-> "write", q |-> @.q, file |-> i]]
    BY DEF OpenTemporary
  <1>2. approver' = [approver EXCEPT ![p] = [at |-> "write", q |-> approver[p].q, file |-> i]]
    BY <1>0, <1>1 DEF rsTypeOK
  <1>3. Numbered(DOMAIN inodes) /\ Numbered(DOMAIN inodes \cup {new}) /\ new \notin DOMAIN inodes
    BY <1>0, NextNumber DEF rsTypeOK
  <1>4. ASSUME NEW x \in Approvers, HasOpen(x) PROVE approver[x].file \in DOMAIN inodes
    <2>1. approver[x] \in Approving(DOMAIN inodes) BY <1>0 DEF rsTypeOK
    <2> QED BY <1>4, <2>1 DEF Approving, HasOpen, NotApproving
  <1> HIDE DEF new
  <1>5. CASE path \in DOMAIN temporary
    <2>1. i = temporary[path] /\ i \in DOMAIN inodes
      BY <1>0, <1>5 DEF rsTypeOK
    <2> HIDE DEF i, path
    <2>2. DOMAIN inodes \cup {i} = DOMAIN inodes
      BY <2>1
    <2>3. /\ \A y \in DOMAIN approvals : approvals[y] # i
          /\ \A x \in DOMAIN temporary : temporary[x] = i => x = path
          /\ \A x \in Approvers : HasOpen(x) /\ approver[x].file = i => path = approver[x].q.path
      BY <1>0, <1>5, <2>1 DEF OnePlace
    <2>4. DOMAIN inodes' = DOMAIN inodes \cup {i} /\ Numbered(DOMAIN inodes')
      BY <1>1, <1>3, <2>2
    <2> QED BY <1>1, <1>2, <2>3, <2>4, Zenon DEF path
  <1>6. CASE path \notin DOMAIN temporary
    <2>1. i = new
      BY <1>6
    <2> HIDE DEF i
    <2>2. /\ \A y \in DOMAIN approvals : approvals[y] # i
          /\ \A x \in DOMAIN temporary : temporary[x] # i
          /\ \A x \in Approvers : HasOpen(x) => approver[x].file # i
      BY <1>0, <1>3, <1>4, <2>1 DEF rsTypeOK
    <2>3. DOMAIN inodes' = DOMAIN inodes \cup {i} /\ Numbered(DOMAIN inodes')
      BY <1>1, <1>3, <2>1
    <2> HIDE DEF path
    <2>4. /\ \A x \in DOMAIN temporary : temporary[x] = i => x = path
          /\ \A x \in Approvers : HasOpen(x) /\ approver[x].file = i => path = approver[x].q.path
      BY <2>2
    <2> QED BY <1>1, <1>2, <2>2, <2>3, <2>4, Zenon DEF path
  <1> QED BY <1>5, <1>6

\* Opening the temporary file keeps the invariant.
LEMMA OpenKeeps ==
    ASSUME rsInv, NEW p \in Approvers, OpenTemporary(p)
    PROVE  rsInv'
  <1>0. rsTypeOK /\ RecordsAreGenuine /\ OnePlace BY DEF rsInv
  <1> DEFINE q == approver[p].q
             path == approver[p].q.path
  <1>1. PICK i :
             /\ DOMAIN inodes' = DOMAIN inodes \cup {i} /\ Numbered(DOMAIN inodes')
             /\ inodes' = [n \in DOMAIN inodes \cup {i} |-> IF n = i THEN {} ELSE inodes[n]]
             /\ temporary' = [x \in DOMAIN temporary \cup {path} |-> IF x = path THEN i ELSE temporary[x]]
             /\ approver' = [approver EXCEPT ![p] = [at |-> "write", q |-> q, file |-> i]]
             /\ \A y \in DOMAIN approvals : approvals[y] # i
             /\ \A x \in DOMAIN temporary : temporary[x] = i => x = path
             /\ \A x \in Approvers : HasOpen(x) /\ approver[x].file = i => path = approver[x].q.path
    BY Opening, Zenon
  <1>2. UNCHANGED <<remote, branch, listed, approvals, asked>> /\ approver[p].at = "open"
    BY DEF OpenTemporary
  <1>3. approver \in [Approvers -> Approving(DOMAIN inodes)]
    BY <1>0 DEF rsTypeOK
  <1>4. q \in Requests /\ approver[p] # NotApproving
    <2>1. approver[p] \in Approving(DOMAIN inodes) BY <1>3
    <2> QED BY <1>2, <2>1 DEF Approving, NotApproving
  <1>5. path \in Paths
    BY <1>4 DEF Requests
  <1> DEFINE new == [at |-> "write", q |-> q, file |-> i]
  <1>6. new \in Approving(DOMAIN inodes')
    BY <1>1, <1>4 DEF Approving
  <1>7. Approving(DOMAIN inodes) \subseteq Approving(DOMAIN inodes')
    <2>1. DOMAIN inodes \subseteq DOMAIN inodes' BY <1>1
    <2> QED BY <2>1 DEF Approving
  <1>8. new.q = q /\ new.file = i /\ new # NotApproving
    BY DEF NotApproving
  <1>9. /\ approver'[p] = new
        /\ \A x \in Approvers \ {p} : approver'[x] = approver[x]
        /\ approver' \in [Approvers -> Approving(DOMAIN inodes')]
    <2>1. approver' = [approver EXCEPT ![p] = new] BY <1>1
    <2> HIDE DEF new
    <2> QED BY <1>3, <1>6, <1>7, <2>1
  <1> HIDE DEF new, path, q
  <1>10. inodes' \in [DOMAIN inodes' -> SUBSET Requests]
    BY <1>0, <1>1 DEF rsTypeOK
  <1>11. approvals' \in [DOMAIN approvals' -> DOMAIN inodes'] /\ DOMAIN approvals' \subseteq Paths
    BY <1>0, <1>1, <1>2 DEF rsTypeOK
  <1>12. temporary' \in [DOMAIN temporary' -> DOMAIN inodes'] /\ DOMAIN temporary' \subseteq Paths
    BY <1>0, <1>1, <1>5 DEF rsTypeOK
  <1>13. rsTypeOK'
    BY <1>0, <1>1, <1>2, <1>9, <1>10, <1>11, <1>12 DEF rsTypeOK
  <1>14. ASSUME NEW n \in DOMAIN inodes', NEW r \in inodes'[n] PROVE Genuine(r)'
    <2>1. n \in DOMAIN inodes /\ r \in inodes[n]
      BY <1>1, <1>14
    <2>2. Genuine(r)
      BY <1>0, <2>1 DEF RecordsAreGenuine
    <2> QED BY <1>2, <2>2, GenuineStays
  <1>15. ASSUME NEW x \in Approvers, approver'[x] # NotApproving PROVE Genuine(approver[x].q)'
    <2>1. approver'[x].q = approver[x].q /\ approver[x] # NotApproving
      BY <1>4, <1>8, <1>9, <1>15 DEF q
    <2>2. Genuine(approver[x].q)
      BY <1>0, <2>1 DEF RecordsAreGenuine
    <2> QED BY <1>2, <2>1, <2>2 DEF Genuine
  <1>16. RecordsAreGenuine'
    BY <1>14, <1>15 DEF RecordsAreGenuine
  <1>17. /\ DOMAIN temporary' = DOMAIN temporary \cup {path}
         /\ \A x \in DOMAIN temporary' : temporary'[x] = IF x = path THEN i ELSE temporary[x]
    BY <1>1
  <1>18. \A x \in DOMAIN temporary', y \in DOMAIN temporary' : temporary'[x] = temporary'[y] => x = y
    BY <1>0, <1>1, <1>17 DEF OnePlace
  <1>19. \A x \in DOMAIN temporary', y \in DOMAIN approvals' : temporary'[x] # approvals'[y]
    BY <1>0, <1>1, <1>2, <1>17 DEF OnePlace
  <1>20. ASSUME NEW y \in Approvers, HasOpen(y)'
         PROVE  /\ \A x \in DOMAIN temporary' : temporary'[x] = approver'[y].file => x = approver'[y].q.path
                /\ \A x \in DOMAIN approvals' : approvals'[x] = approver'[y].file => x = approver'[y].q.path
    <2>1. CASE y = p
      <3>1. approver'[y].file = i /\ approver'[y].q.path = path
        BY <1>8, <1>9, <2>1 DEF path, q
      <3> QED BY <1>1, <1>2, <1>17, <3>1
    <2>2. CASE y # p
      <3>1. approver'[y] = approver[y] /\ HasOpen(y)
        BY <1>9, <1>20, <2>2 DEF HasOpen
      <3> QED BY <1>0, <1>1, <1>2, <1>17, <3>1 DEF OnePlace
    <2> QED BY <2>1, <2>2
  <1>21. OnePlace'
    BY <1>18, <1>19, <1>20 DEF OnePlace
  <1> QED BY <1>13, <1>16, <1>21 DEF rsInv

\* Writing the record keeps the invariant, also when the file was renamed
\* meanwhile.
LEMMA WriteKeeps ==
    ASSUME rsInv, NEW p \in Approvers, WriteTemporary(p)
    PROVE  rsInv'
  <1>0. rsTypeOK /\ RecordsAreGenuine /\ OnePlace BY DEF rsInv
  <1> DEFINE q == approver[p].q
             f == approver[p].file
  <1>1. PICK text \in {{q}, {}} : inodes' = [inodes EXCEPT ![f] = text]
    BY DEF WriteTemporary
  <1>2. /\ approver[p].at = "write"
        /\ approver' = [approver EXCEPT ![p].at = "rename"]
        /\ UNCHANGED <<remote, branch, listed, approvals, temporary, asked>>
    BY DEF WriteTemporary
  <1>3. approver \in [Approvers -> Approving(DOMAIN inodes)]
    BY <1>0 DEF rsTypeOK
  <1>4. /\ approver[p] \in [at : {"write", "rename"}, q : Requests, file : DOMAIN inodes]
        /\ approver[p] # NotApproving
    <2>1. approver[p] \in Approving(DOMAIN inodes) BY <1>3
    <2> QED BY <1>2, <2>1 DEF Approving, NotApproving
  <1>5. q \in Requests /\ f \in DOMAIN inodes
    BY <1>4
  <1>6. Genuine(q)
    BY <1>0, <1>4 DEF RecordsAreGenuine
  <1> DEFINE new == [approver[p] EXCEPT !.at = "rename"]
  <1>7. /\ new \in [at : {"write", "rename"}, q : Requests, file : DOMAIN inodes]
        /\ new.q = approver[p].q /\ new.file = approver[p].file
    BY <1>4
  <1>8. /\ approver'[p] = new
        /\ \A x \in Approvers \ {p} : approver'[x] = approver[x]
        /\ approver' \in [Approvers -> Approving(DOMAIN inodes)]
    <2>1. approver' = [approver EXCEPT ![p] = new] BY <1>2
    <2>2. new \in Approving(DOMAIN inodes) BY <1>7 DEF Approving
    <2> HIDE DEF new
    <2> QED BY <1>3, <2>1, <2>2
  <1> HIDE DEF q, f, new
  <1>9. /\ DOMAIN inodes' = DOMAIN inodes
        /\ inodes' \in [DOMAIN inodes -> SUBSET Requests]
        /\ \A n \in DOMAIN inodes : inodes'[n] = IF n = f THEN text ELSE inodes[n]
    BY <1>0, <1>1, <1>5 DEF rsTypeOK
  <1>10. rsTypeOK'
    BY <1>0, <1>2, <1>8, <1>9 DEF rsTypeOK
  <1>11. ASSUME NEW n \in DOMAIN inodes', NEW r \in inodes'[n] PROVE Genuine(r)'
    <2>1. r = q \/ r \in inodes[n]
      BY <1>1, <1>9, <1>11
    <2>2. Genuine(r)
      BY <1>0, <1>6, <1>9, <2>1 DEF RecordsAreGenuine
    <2> QED BY <1>2, <2>2, GenuineStays
  <1>12. ASSUME NEW x \in Approvers PROVE /\ approver'[x].q = approver[x].q
                                          /\ HasOpen(x)' => HasOpen(x) /\ approver'[x].file = approver[x].file
                                          /\ approver'[x] # NotApproving => approver[x] # NotApproving
    <2>1. CASE x = p
      BY <1>2, <1>4, <1>7, <1>8, <2>1 DEF HasOpen
    <2>2. CASE x # p
      BY <1>8, <2>2 DEF HasOpen
    <2> QED BY <2>1, <2>2
  <1>13. ASSUME NEW x \in Approvers, approver'[x] # NotApproving PROVE Genuine(approver[x].q)'
    BY <1>0, <1>2, <1>12, <1>13 DEF RecordsAreGenuine, Genuine
  <1>14. RecordsAreGenuine'
    BY <1>11, <1>13 DEF RecordsAreGenuine
  <1>15. OnePlace'
    BY <1>0, <1>2, <1>12 DEF OnePlace
  <1> QED BY <1>10, <1>14, <1>15 DEF rsInv

\* The rename that publishes the record keeps the invariant.
LEMMA RenameKeeps ==
    ASSUME rsInv, NEW p \in Approvers, RenameTemporary(p)
    PROVE  rsInv'
  <1>0. rsTypeOK /\ RecordsAreGenuine /\ OnePlace BY DEF rsInv
  <1> DEFINE path == approver[p].q.path
  <1>1. /\ approver[p].at = "rename"
        /\ approver' = [approver EXCEPT ![p] = NotApproving]
        /\ UNCHANGED <<remote, branch, listed, inodes, asked>>
    BY DEF RenameTemporary
  <1>2. approver \in [Approvers -> Approving(DOMAIN inodes)]
    BY <1>0 DEF rsTypeOK
  <1>3. /\ approver' \in [Approvers -> Approving(DOMAIN inodes)]
        /\ approver'[p] = NotApproving
        /\ \A x \in Approvers \ {p} : approver'[x] = approver[x]
    <2>1. NotApproving \in Approving(DOMAIN inodes) BY DEF Approving
    <2> QED BY <1>1, <1>2, <2>1
  <1>4. path \in Paths
    <2>1. approver[p] \in Approving(DOMAIN inodes) BY <1>2
    <2>2. approver[p].q \in Requests BY <1>1, <2>1 DEF Approving, NotApproving
    <2> QED BY <2>2 DEF Requests
  <1>5. \A x \in Approvers : approver'[x] # NotApproving => approver'[x] = approver[x] /\ approver[x] # NotApproving
    BY <1>3
  <1>6. ASSUME NEW x \in Approvers, HasOpen(x)' PROVE HasOpen(x) /\ approver'[x] = approver[x]
    BY <1>3, <1>6 DEF HasOpen, NotApproving
  <1>7. RecordsAreGenuine'
    <2>1. ASSUME NEW n \in DOMAIN inodes', NEW r \in inodes'[n] PROVE Genuine(r)'
      BY <1>0, <1>1, <2>1, GenuineStays DEF RecordsAreGenuine
    <2>2. ASSUME NEW x \in Approvers, approver'[x] # NotApproving PROVE Genuine(approver[x].q)'
      BY <1>0, <1>1, <1>5, <2>2 DEF RecordsAreGenuine, Genuine
    <2> QED BY <2>1, <2>2 DEF RecordsAreGenuine
  <1>8. CASE path \in DOMAIN temporary
    <2>1. /\ approvals' = [x \in DOMAIN approvals \cup {path} |-> IF x = path THEN temporary[path] ELSE approvals[x]]
          /\ temporary' = [x \in DOMAIN temporary \ {path} |-> temporary[x]]
      BY <1>8 DEF RenameTemporary
    <2> HIDE DEF path
    <2>2. /\ DOMAIN approvals' = DOMAIN approvals \cup {path}
          /\ \A x \in DOMAIN approvals' : approvals'[x] = IF x = path THEN temporary[path] ELSE approvals[x]
          /\ DOMAIN temporary' = DOMAIN temporary \ {path}
          /\ \A x \in DOMAIN temporary' : temporary'[x] = temporary[x]
      BY <2>1
    <2>3. approvals' \in [DOMAIN approvals' -> DOMAIN inodes'] /\ DOMAIN approvals' \subseteq Paths
      BY <1>0, <1>1, <1>4, <1>8, <2>1 DEF rsTypeOK
    <2>4. temporary' \in [DOMAIN temporary' -> DOMAIN inodes'] /\ DOMAIN temporary' \subseteq Paths
      BY <1>0, <1>1, <2>1 DEF rsTypeOK
    <2>5. rsTypeOK'
      BY <1>0, <1>1, <1>3, <2>3, <2>4 DEF rsTypeOK
    <2>6. \A x \in DOMAIN temporary', y \in DOMAIN temporary' : temporary'[x] = temporary'[y] => x = y
      BY <1>0, <2>2 DEF OnePlace
    <2>7. \A x \in DOMAIN temporary', y \in DOMAIN approvals' : temporary'[x] # approvals'[y]
      BY <1>0, <1>8, <2>2 DEF OnePlace
    <2>8. ASSUME NEW y \in Approvers, HasOpen(y)'
          PROVE  /\ \A x \in DOMAIN temporary' : temporary'[x] = approver'[y].file => x = approver'[y].q.path
                 /\ \A x \in DOMAIN approvals' : approvals'[x] = approver'[y].file => x = approver'[y].q.path
      BY <1>0, <1>6, <1>8, <2>2, <2>8 DEF OnePlace
    <2>9. OnePlace'
      BY <2>6, <2>7, <2>8 DEF OnePlace
    <2> QED BY <1>7, <2>5, <2>9 DEF rsInv
  <1>9. CASE path \notin DOMAIN temporary
    <2>1. UNCHANGED <<approvals, temporary>>
      BY <1>9 DEF RenameTemporary
    <2>2. rsTypeOK'
      BY <1>0, <1>1, <1>3, <2>1 DEF rsTypeOK
    <2>3. OnePlace'
      BY <1>0, <1>6, <2>1 DEF OnePlace
    <2> QED BY <1>7, <2>2, <2>3 DEF rsInv
  <1> QED BY <1>8, <1>9

\* Switching branches, changing the remote and changing the branch policy keep
\* the invariant.
LEMMA ChangeKeeps ==
    ASSUME rsInv, ChangeRepository \/ UNCHANGED rsVars
    PROVE  rsInv'
  <1>0. rsTypeOK /\ RecordsAreGenuine /\ OnePlace BY DEF rsInv
  <1>1. UNCHANGED <<inodes, approvals, temporary, approver, asked>>
    BY DEF ChangeRepository, rsVars
  <1>2. remote' \in [Clones -> Remotes] /\ branch' \in [Clones -> Branches]
    BY <1>0 DEF ChangeRepository, rsVars, rsTypeOK
  <1>3. rsTypeOK'
    BY <1>0, <1>1, <1>2 DEF rsTypeOK
  <1>4. RecordsAreGenuine'
    BY <1>0, <1>1 DEF RecordsAreGenuine, Genuine
  <1>5. OnePlace'
    BY <1>0, <1>1 DEF OnePlace, HasOpen
  <1> QED BY <1>3, <1>4, <1>5 DEF rsInv

\* The invariant of repo safety holds for any number of clones, remotes,
\* branches, scopes and approvals at once.
THEOREM ApprovalInvariance == rsSpec => []rsInv
  <1>1. rsInit => rsInv
    BY rsInitially
  <1>2. rsInv /\ [rsNext]_rsVars => rsInv'
    BY StartKeeps, OpenKeeps, WriteKeeps, RenameKeeps, ChangeKeeps DEF rsNext
  <1> QED BY <1>1, <1>2, PTL DEF rsSpec

\* A record that is read is genuine.
LEMMA ReadIsGenuine ==
    ASSUME rsInv, NEW path, NEW r \in read_approval_record(path)
    PROVE  Genuine(r)
  <1>1. path \in DOMAIN approvals /\ r \in inodes[approvals[path]]
    BY DEF read_approval_record
  <1>2. approvals[path] \in DOMAIN inodes
    BY <1>1 DEF rsInv, rsTypeOK
  <1> QED BY <1>1, <1>2 DEF rsInv, RecordsAreGenuine

\* A write target on a protected branch is allowed only when that very clone,
\* branch, task and scope was approved before, whatever approvals ran at the
\* same time and whatever happened to the remote.
THEOREM ApprovedOnly == rsSpec => []AllowedMeansApproved
  <1>1. rsInv => AllowedMeansApproved
    <2> SUFFICES ASSUME rsInv, NEW a \in Asks,
                        check(ScopeOf(a)), branch_protection(ScopeOf(a).branch)
                 PROVE  \E i \in DOMAIN asked : asked[i] = ScopeOf(a).print
      BY DEF AllowedMeansApproved
    <2> DEFINE q == ScopeOf(a)
    <2>1. q.print = compute_fingerprint(q.root, q.branch, q.task, q.scope)
      BY ScopeIsRequest DEF ScopeOf, Asks, rsInv
    <2> HIDE DEF q
    <2>2. PICK r \in read_approval(q) : record_matches_scope(r, q) /\ record_fingerprint_matches_scope(r, q)
      BY DEF check, q
    <2>3. \E path : r \in read_approval_record(path)
      <3>1. CASE r \in read_approval_record(q.path) BY <3>1
      <3>2. CASE r \in read_legacy_approval(q)
        <4>1. r \in UNION {read_approval_record(<<s, q.branch, q.task>>) : s \in Remotes \ {q.path[1]}}
          BY <3>2 DEF read_legacy_approval
        <4> QED BY <4>1
      <3> QED BY <2>2, <3>1, <3>2 DEF read_approval
    <2>4. \E i \in DOMAIN asked : asked[i] = r.print
      BY <2>3, ReadIsGenuine DEF Genuine
    <2>5. r.print = q.print
      BY <2>1, <2>2 DEF record_matches_scope, record_fingerprint_matches_scope
    <2> QED BY <2>4, <2>5 DEF q
  <1> QED BY <1>1, ApprovalInvariance, PTL

\* A write is allowed by a record at its path or, without one there, by a
\* record of the clone under another remote.
Fits(r, q) == record_matches_scope(r, q) /\ record_fingerprint_matches_scope(r, q)

\* What check reads: the record at the path of the scope or, without one, those
\* under other remotes.
LEMMA AllowedBy ==
    ASSUME NEW q
    PROVE  check(q) <=>
             (branch_protection(q.branch) =>
                 \/ \E r \in read_approval_record(q.path) : Fits(r, q)
                 \/ /\ read_approval_record(q.path) = {}
                    /\ \E s \in Remotes \ {q.path[1]} :
                          \E r \in read_approval_record(<<s, q.branch, q.task>>) : Fits(r, q))
  <1> DEFINE legacy == UNION {read_approval_record(<<s, q.branch, q.task>>) : s \in Remotes \ {q.path[1]}}
  <1>1. read_legacy_approval(q) = {r \in legacy : Fits(r, q)}
    BY DEF read_legacy_approval, Fits
  <1>2. \A r : r \in legacy <=> \E s \in Remotes \ {q.path[1]} : r \in read_approval_record(<<s, q.branch, q.task>>)
    OBVIOUS
  <1> HIDE DEF legacy
  <1>3. check(q) <=> (branch_protection(q.branch) => \E r \in read_approval(q) : Fits(r, q))
    BY DEF check, Fits
  <1>4. CASE read_approval_record(q.path) = {}
    BY <1>1, <1>2, <1>3, <1>4 DEF read_approval
  <1>5. CASE read_approval_record(q.path) # {}
    BY <1>3, <1>5 DEF read_approval
  <1> QED BY <1>4, <1>5

\* The files of a branch and task decide, and they alone.
LEMMA SameFilesSameAnswer ==
    ASSUME NEW q, listed' = listed,
           read_approval_record(q.path)' = read_approval_record(q.path),
           \A s \in Remotes \ {q.path[1]} :
               read_approval_record(<<s, q.branch, q.task>>)' = read_approval_record(<<s, q.branch, q.task>>),
           check(q)
    PROVE  check(q)'
  <1>1. branch_protection(q.branch)' <=> branch_protection(q.branch)
    BY DEF branch_protection
  <1>2. {read_approval_record(<<s, q.branch, q.task>>)' : s \in Remotes \ {q.path[1]}}
            = {read_approval_record(<<s, q.branch, q.task>>) : s \in Remotes \ {q.path[1]}}
    OBVIOUS
  <1>3. read_legacy_approval(q)' = read_legacy_approval(q)
    BY <1>2 DEF read_legacy_approval, record_matches_scope, record_fingerprint_matches_scope
  <1>4. read_approval(q)' = read_approval(q)
    BY <1>3 DEF read_approval
  <1> QED BY <1>1, <1>4 DEF check, record_matches_scope, record_fingerprint_matches_scope

\* The same for a scope that is prepared again.
LEMMA FilesDecide ==
    ASSUME rsInv, NEW a \in Asks, NEW q, q = ScopeOf(a),
           branch' = branch, listed' = listed, remote' = remote,
           \A s \in Remotes :
               read_approval_record(<<s, q.branch, q.task>>)' = read_approval_record(<<s, q.branch, q.task>>),
           Allowed(a)
    PROVE  Allowed(a)'
  <1>1. ScopeOf(a)' = q
    BY DEF ScopeOf, prepare_scope
  <1>2. q.path = <<remote[a[1]], q.branch, q.task>> /\ remote[a[1]] \in Remotes
    BY ScopeIsRequest DEF ScopeOf, Asks, rsInv, rsTypeOK
  <1>3. read_approval_record(q.path)' = read_approval_record(q.path)
    BY <1>2
  <1>4. check(q)
    BY DEF Allowed
  <1>5. check(q)'
    BY <1>3, <1>4, SameFilesSameAnswer
  <1> QED BY <1>1, <1>5 DEF Allowed

\* A file of the branch and task that a step of approve changes is one of the
\* approval that the process is writing.
LEMMA ApproveStep ==
    ASSUME rsInv, NEW p \in Approvers,
           OpenTemporary(p) \/ WriteTemporary(p) \/ RenameTemporary(p),
           NEW a \in Asks, NEW q, q = ScopeOf(a), Allowed(a)
    PROVE  Allowed(a)' \/ Writing(a)
  <1>0. rsTypeOK /\ RecordsAreGenuine /\ OnePlace BY DEF rsInv
  <1>1. branch' = branch /\ listed' = listed /\ remote' = remote
    BY DEF OpenTemporary, WriteTemporary, RenameTemporary
  <1>2. approver[p] # NotApproving
    BY DEF OpenTemporary, WriteTemporary, RenameTemporary, NotApproving
  <1>3. PICK s \in Remotes : approver[p].q.path = <<s, approver[p].q.branch, approver[p].q.task>>
    BY <1>0, <1>2 DEF RecordsAreGenuine, Genuine
  <1>4. ASSUME NEW z \in Remotes, approver[p].q.path = <<z, q.branch, q.task>>
        PROVE  Writing(a)
    <2>1. approver[p].q.branch = q.branch /\ approver[p].q.task = q.task
      BY <1>3, <1>4
    <2> QED BY <1>2, <2>1 DEF Writing
  <1>5. SUFFICES ASSUME \A z \in Remotes : approver[p].q.path # <<z, q.branch, q.task>>
                 PROVE  \A z \in Remotes :
                            read_approval_record(<<z, q.branch, q.task>>)' = read_approval_record(<<z, q.branch, q.task>>)
    BY <1>1, <1>4, FilesDecide
  <1>6. SUFFICES ASSUME NEW z \in Remotes
                 PROVE  read_approval_record(<<z, q.branch, q.task>>)' = read_approval_record(<<z, q.branch, q.task>>)
    OBVIOUS
  <1> DEFINE y == <<z, q.branch, q.task>>
             path == approver[p].q.path
  <1>7. y # path
    BY <1>5
  <1> HIDE DEF y, path
  <1>8. y \in DOMAIN approvals => approvals[y] \in DOMAIN inodes
    BY <1>0 DEF rsTypeOK
  <1>9. CASE OpenTemporary(p)
    <2>1. PICK i : /\ inodes' = [n \in DOMAIN inodes \cup {i} |-> IF n = i THEN {} ELSE inodes[n]]
                   /\ \A x \in DOMAIN approvals : approvals[x] # i
      BY <1>9, Opening, Zenon
    <2>2. approvals' = approvals
      BY <1>9 DEF OpenTemporary
    <2>3. read_approval_record(y)' = read_approval_record(y)
      BY <1>8, <2>1, <2>2 DEF read_approval_record
    <2> QED BY <2>3 DEF y
  <1>10. CASE WriteTemporary(p)
    <2>1. /\ \E text \in {{approver[p].q}, {}} : inodes' = [inodes EXCEPT ![approver[p].file] = text]
          /\ approvals' = approvals
          /\ HasOpen(p)
      BY <1>10 DEF WriteTemporary, HasOpen
    <2>2. y \in DOMAIN approvals => approvals[y] # approver[p].file
      BY <1>0, <1>7, <2>1 DEF OnePlace, path
    <2>3. y \in DOMAIN approvals => inodes'[approvals[y]] = inodes[approvals[y]]
      BY <1>0, <1>8, <2>1, <2>2 DEF rsTypeOK
    <2>4. read_approval_record(y)' = read_approval_record(y)
      BY <2>1, <2>3 DEF read_approval_record
    <2> QED BY <2>4 DEF y
  <1>11. CASE RenameTemporary(p)
    <2>1. inodes' = inodes
      BY <1>11 DEF RenameTemporary
    <2>2. \/ approvals' = approvals
          \/ approvals' = [x \in DOMAIN approvals \cup {path} |-> IF x = path THEN temporary[path] ELSE approvals[x]]
      BY <1>11 DEF RenameTemporary, path
    <2>3. (y \in DOMAIN approvals' <=> y \in DOMAIN approvals) /\ (y \in DOMAIN approvals => approvals'[y] = approvals[y])
      BY <1>7, <2>2
    <2>4. read_approval_record(y)' = read_approval_record(y)
      BY <2>1, <2>3 DEF read_approval_record
    <2> QED BY <2>4 DEF y
  <1> QED BY <1>9, <1>10, <1>11

\* A change of a remote moves no file.
LEMMA RemoteStep ==
    ASSUME rsInv, ChangeRepository, branch' = branch, listed' = listed,
           NEW a \in Asks, Allowed(a)
    PROVE  Allowed(a)' \/ (remote'[a[1]] # remote[a[1]] /\ Recorded(a)')
  <1>0. rsTypeOK /\ rsTypeOK'
    BY ChangeKeeps DEF rsInv
  <1>1. UNCHANGED <<inodes, approvals>>
    BY DEF ChangeRepository
  <1>2. PICK q : q = ScopeOf(a)
    OBVIOUS
  <1>3. PICK w : w = ScopeOf(a)'
    OBVIOUS
  <1>4. a[1] \in Clones /\ a[2] \in TaskIds /\ a[3] \in Scopes
    BY DEF Asks
  <1>5. /\ w.branch = q.branch /\ w.task = q.task /\ w.root = q.root /\ w.scope = q.scope /\ w.print = q.print
        /\ w.path = <<remote'[a[1]], q.branch, q.task>>
        /\ q.path = <<remote[a[1]], q.branch, q.task>>
        /\ q.print = compute_fingerprint(q.root, q.branch, q.task, q.scope)
    BY <1>2, <1>3 DEF ScopeOf, prepare_scope, compute_fingerprint
  <1>6. remote[a[1]] \in Remotes /\ remote'[a[1]] \in Remotes
    BY <1>0, <1>4 DEF rsTypeOK
  <1>7. \A y : read_approval_record(y)' = read_approval_record(y)
    BY <1>1 DEF read_approval_record
  <1>8. check(q)
    BY <1>2 DEF Allowed
  <1>9. \A r : Fits(r, w) <=> Fits(r, q)
    BY <1>5 DEF Fits, record_matches_scope, record_fingerprint_matches_scope
  <1>10. SUFFICES ASSUME ~check(w) PROVE remote'[a[1]] # remote[a[1]] /\ read_approval_record(w.path) # {}
    <2>1. check(w) => check(w)'
      BY <1>7, SameFilesSameAnswer
    <2>2. Recorded(a)' <=> read_approval_record(w.path) # {}
      BY <1>3, <1>7 DEF Recorded
    <2> QED BY <1>3, <2>1, <2>2 DEF Allowed
  <1>11. remote'[a[1]] # remote[a[1]]
    <2> SUFFICES ASSUME remote'[a[1]] = remote[a[1]] PROVE FALSE
      OBVIOUS
    <2>1. w.path = q.path BY <1>5
    <2> QED BY <1>5, <1>8, <1>9, <1>10, <2>1, AllowedBy
  <1>12. ASSUME read_approval_record(w.path) = {} PROVE FALSE
    <2>1. ~ \E s \in Remotes \ {w.path[1]} : \E r \in read_approval_record(<<s, q.branch, q.task>>) : Fits(r, q)
      BY <1>5, <1>9, <1>10, <1>12, AllowedBy
    <2>2. branch_protection(q.branch)
      BY <1>5, <1>10, AllowedBy
    <2>3. w.path[1] = remote'[a[1]] /\ q.path[1] = remote[a[1]]
      BY <1>5
    <2>4. ~ \E r \in read_approval_record(q.path) : Fits(r, q)
      BY <1>5, <1>6, <1>11, <2>1, <2>3
    <2>5. PICK s \in Remotes : \E r \in read_approval_record(<<s, q.branch, q.task>>) : Fits(r, q)
      BY <1>8, <2>2, <2>4, AllowedBy
    <2>6. s # w.path[1]
      BY <1>5, <1>12, <2>3, <2>5
    <2> QED BY <2>1, <2>5, <2>6
  <1> QED BY <1>11, <1>12

\* An approval that was given holds: while branch and policy stay, check stops
\* allowing it only while an approval of the same branch and task is written, or
\* when the remote of the clone becomes one with a record of its own.
THEOREM ApprovalsStay == rsSpec => ApprovalHolds
  <1>1. rsInv /\ [rsNext]_rsVars =>
          [\A a \in Asks :
              Allowed(a) /\ branch' = branch /\ listed' = listed =>
                  Allowed(a)' \/ Writing(a) \/ (remote'[a[1]] # remote[a[1]] /\ Recorded(a)')]_rsVars
    <2> SUFFICES ASSUME rsInv, rsNext, NEW a \in Asks, Allowed(a), branch' = branch, listed' = listed
                 PROVE  Allowed(a)' \/ Writing(a) \/ (remote'[a[1]] # remote[a[1]] /\ Recorded(a)')
      OBVIOUS
    <2>1. PICK q : q = ScopeOf(a)
      OBVIOUS
    <2>2. ASSUME NEW p \in Approvers, NEW c \in Clones, NEW id \in TaskIds, NEW s \in Scopes, StartApprove(p, c, id, s)
          PROVE  Allowed(a)'
      <3>1. UNCHANGED <<remote, branch, listed, inodes, approvals>>
        BY <2>2 DEF StartApprove
      <3>2. \A z \in Remotes :
                read_approval_record(<<z, q.branch, q.task>>)' = read_approval_record(<<z, q.branch, q.task>>)
        BY <3>1 DEF read_approval_record
      <3> QED BY <2>1, <3>1, <3>2, FilesDecide
    <2>3. ASSUME NEW p \in Approvers, OpenTemporary(p) \/ WriteTemporary(p) \/ RenameTemporary(p)
          PROVE  Allowed(a)' \/ Writing(a)
      BY <2>1, <2>3, ApproveStep
    <2>4. CASE ChangeRepository
      BY <2>4, RemoteStep
    <2> QED BY <2>2, <2>3, <2>4 DEF rsNext
  <1> QED BY <1>1, ApprovalInvariance, PTL DEF rsSpec, ApprovalHolds

-----------------------------------------------------------------------------
(***************************************************************************)
(* Update check.                                                           *)
(***************************************************************************)
\* The files of the update check, with their age.
Aged(kinds) == [kind : kinds, local : Versions, remote : Versions, age : Nat]
CacheFile == {NoFile} \cup Aged({"UP_TO_DATE", "UPGRADE_AVAILABLE"})
SnoozeFile == {NoFile} \cup [kind : {"snooze"}, version : Versions, level : 1 .. 3, age : Nat]
MarkerFile == {NoFile} \cup [kind : {"marker"}, age : Nat]

\* What a process that checks for updates is in the middle of.
CheckerState ==
    {Idle} \cup [at : {"asking"}, local : Versions] \cup [at : {"config"}, copy : [Keys -> {"unset", "true", "false"}]]

\* The three state files at their canonical and legacy places.
StateOK(s) ==
    /\ s = [f \in Files |-> s[f]]
    /\ s["cache"] \in [Places -> CacheFile]
    /\ s["snooze"] \in [Places -> SnoozeFile]
    /\ s["marker"] \in [Places -> MarkerFile]

\* The types of the variables of the update check.
ucTypeOK ==
    /\ installed \in Versions /\ published \in Versions
    /\ StateOK(state)
    /\ checker \in [Checkers -> CheckerState]
    /\ config \in [Keys -> {"unset", "true", "false"}]
    /\ notice.said = "UPGRADE_AVAILABLE" => notice.remote \in Versions

\* An upgrade in the cache is one: the remote version is the newer one.
TrueCache(c) == c.kind = "UPGRADE_AVAILABLE" => Upgrade(c.local, c.remote)
CacheIsTrue == \A x \in Places : TrueCache(state["cache"][x])

\* The inductive invariant of the update check: a notice can come from the
\* cache, so what the cache says must be true as well.
ucInv == ucTypeOK /\ CacheIsTrue /\ NoticeIsTrue

\* What the cache file holds after a check.
LEMMA CacheOfIsTyped ==
    ASSUME NEW k \in {"UP_TO_DATE", "UPGRADE_AVAILABLE"}, NEW l \in Versions, NEW r \in Versions
    PROVE  /\ CacheOf(k, l, r) \in CacheFile
           /\ CacheOf(k, l, r).kind = k /\ CacheOf(k, l, r).local = l /\ CacheOf(k, l, r).remote = r
  BY DEF CacheOf, CacheFile, Aged

\* Files keep their contents as time passes.
LEMMA AgedCache ==
    ASSUME NEW c \in CacheFile, c # NoFile, NEW a \in Nat
    PROVE  /\ [c EXCEPT !.age = a] \in CacheFile
           /\ TrueCache(c) => TrueCache([c EXCEPT !.age = a])
  BY DEF CacheFile, Aged, TrueCache

LEMMA AgedSnooze ==
    ASSUME NEW c \in SnoozeFile, c # NoFile, NEW a \in Nat
    PROVE  [c EXCEPT !.age = a] \in SnoozeFile
  BY DEF SnoozeFile

LEMMA AgedMarker ==
    ASSUME NEW c \in MarkerFile, c # NoFile, NEW a \in Nat
    PROVE  [c EXCEPT !.age = a] \in MarkerFile
  BY DEF MarkerFile

\* A missing file is a file that says nothing.
LEMMA NoFileIsTrue == /\ NoFile \in CacheFile /\ NoFile \in SnoozeFile /\ NoFile \in MarkerFile
                      /\ TrueCache(NoFile)
  BY DEF CacheFile, SnoozeFile, MarkerFile, TrueCache, NoFile

\* The cache that is read, at whichever place, is true.
LEMMA ReadCache ==
    ASSUME StateOK(state), CacheIsTrue
    PROVE  /\ read_first_existing("cache") \in CacheFile
           /\ TrueCache(read_first_existing("cache"))
  BY DEF StateOK, CacheIsTrue, read_first_existing, Places

\* Writing a true cache keeps the files in order and drops the legacy one.
LEMMA PutCache ==
    ASSUME StateOK(state), NEW c \in CacheFile, TrueCache(c)
    PROVE  /\ StateOK(Put("cache", c))
           /\ \A x \in Places : TrueCache(Put("cache", c)["cache"][x])
  <1> DEFINE pair == [canonical |-> c, legacy |-> NoFile]
  <1>1. /\ pair \in [Places -> CacheFile]
        /\ \A x \in Places : TrueCache(pair[x])
    BY NoFileIsTrue DEF Places
  <1>2. /\ Put("cache", c) = [f \in Files |-> Put("cache", c)[f]]
        /\ Put("cache", c)["cache"] = pair
        /\ Put("cache", c)["snooze"] = state["snooze"]
        /\ Put("cache", c)["marker"] = state["marker"]
    BY DEF Put, StateOK, Files
  <1> QED BY <1>1, <1>2 DEF StateOK

\* So does promoting the legacy cache to the canonical place.
LEMMA PromoteCache ==
    ASSUME StateOK(state), CacheIsTrue, read_first_existing("cache") # NoFile
    PROVE  /\ StateOK(promote_cache_if_needed)
           /\ \A x \in Places : TrueCache(promote_cache_if_needed["cache"][x])
  <1>1. CASE state["cache"]["canonical"] # NoFile
    BY <1>1 DEF promote_cache_if_needed, CacheIsTrue
  <1>2. CASE state["cache"]["canonical"] = NoFile
    <2> DEFINE c == [read_first_existing("cache") EXCEPT !.age = 0]
    <2>1. c \in CacheFile /\ TrueCache(c)
      BY ReadCache, AgedCache
    <2>2. promote_cache_if_needed = Put("cache", c)
      BY <1>2 DEF promote_cache_if_needed
    <2> HIDE DEF c
    <2> QED BY <2>1, <2>2, PutCache
  <1> QED BY <1>1, <1>2

\* Ages stay numbers.
LEMMA CapIsNat ==
    ASSUME NEW a \in Nat, NEW h \in Ticks, NEW k
    PROVE  Capped(a + h, Oldest(k)) \in Nat
  BY UpdateCheckAssumption DEF Capped, Oldest, UPGRADE_AVAILABLE_TTL

\* Time changes no contents.
LEMMA HoursPass ==
    ASSUME StateOK(state), CacheIsTrue, NEW h \in Ticks, Hours(h)
    PROVE  StateOK(state') /\ CacheIsTrue'
  <1> DEFINE Older(c) == IF c = NoFile THEN NoFile ELSE [c EXCEPT !.age = Capped(@ + h, Oldest(c.kind))]
  <1>1. /\ state' = [f \in Files |-> state'[f]]
        /\ \A f \in Files : state'[f] = [x \in Places |-> Older(state[f][x])]
    BY DEF Hours, Files
  <1>2. ASSUME NEW c \in CacheFile, TrueCache(c) PROVE Older(c) \in CacheFile /\ TrueCache(Older(c))
    <2>1. CASE c = NoFile BY <2>1, NoFileIsTrue
    <2>2. CASE c # NoFile
      <3>1. c.age \in Nat BY <2>2 DEF CacheFile, Aged
      <3> DEFINE a == Capped(c.age + h, Oldest(c.kind))
      <3>2. a \in Nat BY <3>1, CapIsNat
      <3>3. Older(c) = [c EXCEPT !.age = a] BY <2>2
      <3> HIDE DEF a, Older
      <3> QED BY <2>2, <3>2, <3>3, <1>2, AgedCache
    <2> QED BY <2>1, <2>2
  <1>3. ASSUME NEW c \in SnoozeFile PROVE Older(c) \in SnoozeFile
    <2>1. CASE c = NoFile BY <2>1, NoFileIsTrue
    <2>2. CASE c # NoFile
      <3>1. c.age \in Nat BY <2>2 DEF SnoozeFile
      <3> DEFINE a == Capped(c.age + h, Oldest(c.kind))
      <3>2. a \in Nat BY <3>1, CapIsNat
      <3>3. Older(c) = [c EXCEPT !.age = a] BY <2>2
      <3> HIDE DEF a, Older
      <3> QED BY <2>2, <3>2, <3>3, <1>3, AgedSnooze
    <2> QED BY <2>1, <2>2
  <1>4. ASSUME NEW c \in MarkerFile PROVE Older(c) \in MarkerFile
    <2>1. CASE c = NoFile BY <2>1, NoFileIsTrue
    <2>2. CASE c # NoFile
      <3>1. c.age \in Nat BY <2>2 DEF MarkerFile
      <3> DEFINE a == Capped(c.age + h, Oldest(c.kind))
      <3>2. a \in Nat BY <3>1, CapIsNat
      <3>3. Older(c) = [c EXCEPT !.age = a] BY <2>2
      <3> HIDE DEF a, Older
      <3> QED BY <2>2, <3>2, <3>3, <1>4, AgedMarker
    <2> QED BY <2>1, <2>2
  <1> HIDE DEF Older
  <1>5. /\ state'["cache"] = [x \in Places |-> Older(state["cache"][x])]
        /\ state'["snooze"] = [x \in Places |-> Older(state["snooze"][x])]
        /\ state'["marker"] = [x \in Places |-> Older(state["marker"][x])]
    BY <1>1 DEF Files
  <1>6. /\ state'["cache"] \in [Places -> CacheFile]
        /\ CacheIsTrue'
    BY <1>2, <1>5 DEF StateOK, CacheIsTrue
  <1>7. state'["snooze"] \in [Places -> SnoozeFile]
    BY <1>3, <1>5 DEF StateOK
  <1>8. state'["marker"] \in [Places -> MarkerFile]
    BY <1>4, <1>5 DEF StateOK
  <1> QED BY <1>1, <1>6, <1>7, <1>8 DEF StateOK

\* The invariant of the update check holds for any versions and any number of
\* checks at once.
THEOREM NoticeInvariance == ucSpec => []ucInv
  <1>1. ucInit => ucInv
    <2> SUFFICES ASSUME ucInit PROVE ucInv OBVIOUS
    <2>1. PICK c \in {NoFile} \cup {CacheOf("UP_TO_DATE", installed, installed)} :
             state = [cache  |-> [canonical |-> NoFile, legacy |-> c],
                      snooze |-> [x \in Places |-> NoFile],
                      marker |-> [x \in Places |-> NoFile]]
      BY DEF ucInit
    <2>2. c \in CacheFile /\ TrueCache(c)
      BY NoFileIsTrue, CacheOfIsTyped DEF TrueCache, ucInit
    <2>3. StateOK(state)
      BY <2>1, <2>2, NoFileIsTrue DEF StateOK, Places, Files
    <2>4. CacheIsTrue
      BY <2>1, <2>2, NoFileIsTrue DEF CacheIsTrue, Places
    <2>5. ucTypeOK
      BY <2>3 DEF ucInit, ucTypeOK, CheckerState
    <2> QED BY <2>4, <2>5 DEF ucInit, ucInv, NoticeIsTrue
  <1>2. ucInv /\ [ucNext]_ucVars => ucInv'
    <2> SUFFICES ASSUME ucInv, [ucNext]_ucVars PROVE ucInv' OBVIOUS
    <2>0. ucTypeOK /\ StateOK(state) /\ CacheIsTrue /\ NoticeIsTrue BY DEF ucInv, ucTypeOK
    <2>1. ASSUME NEW p \in Checkers, JustUpgraded(p) PROVE ucInv'
      <3> DEFINE c == CacheOf("UP_TO_DATE", installed, installed)
      <3>1. c \in CacheFile /\ TrueCache(c)
        BY <2>0, CacheOfIsTyped DEF ucTypeOK, TrueCache
      <3>2. state' = [ cache  |-> [canonical |-> c, legacy |-> NoFile],
                       snooze |-> [x \in Places |-> NoFile],
                       marker |-> [x \in Places |-> NoFile] ]
        BY <2>1 DEF JustUpgraded
      <3> HIDE DEF c
      <3>3. StateOK(state')
        BY <3>1, <3>2, NoFileIsTrue DEF StateOK, Places, Files
      <3>4. CacheIsTrue'
        BY <3>1, <3>2, NoFileIsTrue DEF CacheIsTrue, Places
      <3>5. notice'.said = "JUST_UPGRADED" /\ checker' = [checker EXCEPT ![p] = Idle]
        BY <2>1 DEF JustUpgraded, Answer
      <3>6. UNCHANGED <<installed, published, config>>
        BY <2>1 DEF JustUpgraded
      <3>7. ucTypeOK'
        BY <2>0, <3>3, <3>5, <3>6 DEF ucTypeOK, CheckerState
      <3> QED BY <3>4, <3>5, <3>7 DEF ucInv, NoticeIsTrue
    <2>2. ASSUME NEW p \in Checkers, CheckFromCache(p) PROVE ucInv'
      <3> DEFINE c == read_first_existing("cache")
      <3>1. c \in CacheFile /\ TrueCache(c) /\ c # NoFile /\ c.local = installed
        BY <2>0, <2>2, ReadCache DEF CheckFromCache, CacheAnswers
      <3>2. state' = promote_cache_if_needed
        BY <2>2 DEF CheckFromCache
      <3>3. StateOK(state') /\ CacheIsTrue'
        BY <2>0, <3>1, <3>2, PromoteCache DEF CacheIsTrue
      <3>4. /\ notice'.said = (IF c.kind = "UP_TO_DATE" \/ snoozed(c.remote) THEN "" ELSE c.kind)
            /\ notice'.local = c.local /\ notice'.remote = c.remote /\ notice'.was = installed
            /\ checker' = [checker EXCEPT ![p] = Idle]
        BY <2>2 DEF CheckFromCache, Answer
      <3>5. UNCHANGED <<installed, published, config>>
        BY <2>2 DEF CheckFromCache
      <3>6. c.remote \in Versions
        BY <3>1 DEF CacheFile, Aged
      <3> HIDE DEF c
      <3>7. notice'.said = "UPGRADE_AVAILABLE" => c.kind = "UPGRADE_AVAILABLE"
        BY <3>4
      <3>8. ucTypeOK'
        BY <2>0, <3>3, <3>4, <3>5, <3>6 DEF ucTypeOK, CheckerState
      <3>9. NoticeIsTrue'
        BY <3>1, <3>4, <3>7 DEF NoticeIsTrue, TrueCache
      <3> QED BY <3>3, <3>8, <3>9 DEF ucInv
    <2>3. ASSUME NEW p \in Checkers, NEW force \in BOOLEAN, CheckAsks(p, force) PROVE ucInv'
      <3>1. /\ checker' = [checker EXCEPT ![p] = [at |-> "asking", local |-> installed]]
            /\ UNCHANGED <<installed, published, state, config, notice>>
        BY <2>3 DEF CheckAsks
      <3> QED BY <2>0, <3>1 DEF ucInv, ucTypeOK, CacheIsTrue, NoticeIsTrue, CheckerState
    <2>4. ASSUME NEW p \in Checkers, fetch_remote_version(p) PROVE ucInv'
      <3> DEFINE local == checker[p].local
                 kind == IF Upgrade(local, published) THEN "UPGRADE_AVAILABLE" ELSE "UP_TO_DATE"
                 c == CacheOf(kind, local, published)
      <3>1. local \in Versions /\ published \in Versions /\ checker[p] # Idle
        <4>1. checker[p] \in CheckerState /\ published \in Versions /\ checker[p].at = "asking"
          BY <2>0, <2>4 DEF ucTypeOK, fetch_remote_version
        <4> QED BY <4>1 DEF CheckerState, Idle
      <3>2. c \in CacheFile /\ c.kind = kind /\ c.local = local /\ c.remote = published
        BY <3>1, CacheOfIsTyped
      <3>3. TrueCache(c)
        BY <3>2 DEF TrueCache
      <3>4. state' = Put("cache", c)
        BY <2>4 DEF fetch_remote_version
      <3>5. /\ notice'.said = (IF kind = "UP_TO_DATE" \/ snoozed(published) THEN "" ELSE kind)
            /\ notice'.local = local /\ notice'.remote = published /\ notice'.waited = (checker[p] # Idle)
            /\ checker' = [checker EXCEPT ![p] = Idle]
        BY <2>4 DEF fetch_remote_version, Answer
      <3>6. UNCHANGED <<installed, published, config>>
        BY <2>4 DEF fetch_remote_version
      <3>7. notice'.said = "UPGRADE_AVAILABLE" => Upgrade(local, published)
        BY <3>5
      <3> HIDE DEF c, kind, local
      <3>8. StateOK(state') /\ CacheIsTrue'
        BY <2>0, <3>2, <3>3, <3>4, PutCache DEF CacheIsTrue
      <3>9. ucTypeOK'
        BY <2>0, <3>1, <3>5, <3>6, <3>8 DEF ucTypeOK, CheckerState
      <3>10. NoticeIsTrue'
        BY <3>1, <3>5, <3>7 DEF NoticeIsTrue
      <3> QED BY <3>8, <3>9, <3>10 DEF ucInv
    <2>5. ASSUME NEW p \in Checkers, fetch_remote_version_fails(p) \/ load_config(p) PROVE ucInv'
      <3>1. /\ \/ checker' = [checker EXCEPT ![p] = Idle]
               \/ checker' = [checker EXCEPT ![p] = [at |-> "config", copy |-> config]]
            /\ UNCHANGED <<installed, published, state, config, notice>>
        BY <2>5 DEF fetch_remote_version_fails, load_config
      <3> QED BY <2>0, <3>1 DEF ucInv, ucTypeOK, CacheIsTrue, NoticeIsTrue, CheckerState
    <2>6. ASSUME NEW p \in Checkers, NEW key \in Keys, NEW v \in {"true", "false"}, set_for_state_dir(p, key, v)
          PROVE  ucInv'
      <3>1. /\ checker' = [checker EXCEPT ![p] = Idle]
            /\ config' = [checker[p].copy EXCEPT ![key] = v]
            /\ checker[p].at = "config"
            /\ UNCHANGED <<installed, published, state, notice>>
        BY <2>6 DEF set_for_state_dir
      <3>2. checker[p].copy \in [Keys -> {"unset", "true", "false"}]
        <4>1. checker[p] \in CheckerState
          BY <2>0 DEF ucTypeOK
        <4> QED BY <3>1, <4>1 DEF CheckerState, Idle
      <3>3. config' \in [Keys -> {"unset", "true", "false"}]
        BY <2>6, <3>1, <3>2
      <3> QED BY <2>0, <3>1, <3>3 DEF ucInv, ucTypeOK, CacheIsTrue, NoticeIsTrue, CheckerState
    <2>7. ASSUME NEW v \in Versions, Publish(v) PROVE ucInv'
      BY <2>0, <2>7 DEF Publish, ucInv, ucTypeOK, CacheIsTrue, NoticeIsTrue
    <2>8. ASSUME InstallUpdate PROVE ucInv'
      <3>1. /\ installed' = published /\ UNCHANGED <<published, config, checker, notice>>
            /\ state' = [state EXCEPT !["cache"]["canonical"] = NoFile,
                              !["snooze"]["canonical"] = NoFile,
                              !["marker"]["canonical"] = [kind |-> "marker", age |-> 0]]
        BY <2>8 DEF InstallUpdate
      <3>2. /\ state'["cache"] = [state["cache"] EXCEPT !["canonical"] = NoFile]
            /\ state'["snooze"] = [state["snooze"] EXCEPT !["canonical"] = NoFile]
            /\ state'["marker"] = [state["marker"] EXCEPT !["canonical"] = [kind |-> "marker", age |-> 0]]
            /\ state' = [f \in Files |-> state'[f]]
        BY <2>0, <3>1 DEF StateOK, Files
      <3>3. [kind |-> "marker", age |-> 0] \in MarkerFile
        BY DEF MarkerFile
      <3>4. StateOK(state')
        <4>1. state'["cache"] \in [Places -> CacheFile]
          <5>1. state["cache"] \in [Places -> CacheFile]
            BY <2>0 DEF StateOK
          <5>2. state'["cache"] = [state["cache"] EXCEPT !["canonical"] = NoFile]
            BY <3>2
          <5>3. NoFile \in CacheFile
            BY NoFileIsTrue
          <5> QED BY <5>1, <5>2, <5>3
        <4>2. state'["snooze"] \in [Places -> SnoozeFile]
          BY <2>0, <3>2, NoFileIsTrue DEF StateOK
        <4>3. state'["marker"] \in [Places -> MarkerFile]
          BY <2>0, <3>2, <3>3 DEF StateOK
        <4> QED BY <3>2, <4>1, <4>2, <4>3 DEF StateOK
      <3>5. CacheIsTrue'
        BY <2>0, <3>2, NoFileIsTrue DEF CacheIsTrue, StateOK, Places
      <3>6. ucTypeOK'
        BY <2>0, <3>1, <3>4 DEF ucTypeOK
      <3> QED BY <2>0, <3>1, <3>5, <3>6 DEF ucInv, NoticeIsTrue
    <2>9. ASSUME Snooze PROVE ucInv'
      <3> DEFINE s == state["snooze"]["canonical"]
                 level == IF s = NoFile \/ s.version # notice.remote THEN 1
                          ELSE IF s.level = 3 THEN 3 ELSE s.level + 1
                 new == [kind |-> "snooze", version |-> notice.remote, level |-> level, age |-> 0]
      <3>1. /\ state' = [state EXCEPT !["snooze"]["canonical"] = new]
            /\ notice.said = "UPGRADE_AVAILABLE"
            /\ UNCHANGED <<installed, published, config, checker, notice>>
        BY <2>9 DEF Snooze
      <3>2. s \in SnoozeFile
        BY <2>0 DEF StateOK, Places
      <3>3. level \in 1 .. 3
        <4>1. CASE s = NoFile BY <4>1
        <4>2. CASE s # NoFile
          <5>1. s.level \in 1 .. 3 BY <3>2, <4>2 DEF SnoozeFile
          <5> HIDE DEF s
          <5> QED BY <5>1
        <4> QED BY <4>1, <4>2
      <3>4. notice.remote \in Versions
        BY <2>0, <3>1 DEF ucTypeOK
      <3> HIDE DEF level
      <3>5. new \in SnoozeFile
        BY <3>3, <3>4 DEF SnoozeFile
      <3> HIDE DEF new
      <3>6. /\ state'["snooze"] = [state["snooze"] EXCEPT !["canonical"] = new]
            /\ state'["cache"] = state["cache"] /\ state'["marker"] = state["marker"]
            /\ state' = [f \in Files |-> state'[f]]
        BY <2>0, <3>1 DEF StateOK, Files
      <3>7. StateOK(state')
        BY <2>0, <3>5, <3>6 DEF StateOK
      <3> QED BY <2>0, <3>1, <3>6, <3>7 DEF ucInv, ucTypeOK, NoticeIsTrue, CacheIsTrue
    <2>10. ASSUME NEW h \in Ticks, Hours(h) PROVE ucInv'
      <3>1. StateOK(state') /\ CacheIsTrue'
        BY <2>0, <2>10, HoursPass
      <3>2. UNCHANGED <<installed, published, config, checker, notice>>
        BY <2>10 DEF Hours
      <3> QED BY <2>0, <3>1, <3>2 DEF ucInv, ucTypeOK, NoticeIsTrue
    <2>11. CASE UNCHANGED ucVars
      BY <2>0, <2>11 DEF ucVars, ucInv, ucTypeOK, CacheIsTrue, NoticeIsTrue
    <2> QED BY <2>1, <2>2, <2>3, <2>4, <2>5, <2>6, <2>7, <2>8, <2>9, <2>10, <2>11 DEF ucNext
  <1> QED BY <1>1, <1>2, PTL DEF ucSpec

\* What check announces is true: the announced version is newer than the local
\* one, and that is the installed one unless an upgrade came while the server
\* was asked - however old the cache, the snooze and the marker are.
THEOREM NoticeHolds == ucSpec => []NoticeIsTrue
  BY NoticeInvariance, PTL DEF ucInv

(***************************************************************************)
(* The start of a run.  RunKeepsItsIdentity is not inductive: it says      *)
(* nothing of a run whose plan revision is not the approved one, and       *)
(* nothing of a begin that is about to publish.  The code keeps the        *)
(* identity whatever the revision is (OneRun).  A begin that is about to   *)
(* publish must find a run identity in the log (the bootstrap or an        *)
(* earlier run put it there, and nothing takes it away), and before the    *)
(* first step nothing may be bound to a run.                               *)
(***************************************************************************)
Runs == [id : 0..MaxRunIds, revision : Revisions]
Acceptances == [id : 0..MaxRunIds, revision : Revisions, head : Heads]
Phases == {"none", "execution_preflight", "executing", "handoff_required"}
Harnesses == [run : Runs \cup {NoRun}, phase : Phases, open : BOOLEAN, sequence : {0, 1}]
Points == {"idle", "claim", "choose", "write", "lock", "bootstrap", "publish"}
Reads == [kind : {"none", "begin", "gate", "dispatch"}, revision : Revisions \cup {0},
          needed : BOOLEAN, accept : Acceptances \cup {NoRun},
          copy : Harnesses \cup {NoRun}]
Trees == [head : Heads, revision : Revisions, hindrances : SUBSET Hindrances]

pfTypeOK ==
    /\ acceptance \in Acceptances \cup {NoRun}
    /\ harness \in Harnesses
    /\ tree \in Trees
    /\ artifacts \in {{}, {1}}
    /\ artifacts = {} => harness.sequence = 0
    /\ doing \in [Starters -> Points]
    /\ seen \in [Starters -> Reads]
    /\ runIds \in 0..MaxRunIds
    /\ begun \in Runs \cup {NoRun}

\* What a command has read by the time it is somewhere.
HasRead(p) ==
    /\ doing[p] # "idle" => seen[p].revision \in Revisions
    /\ doing[p] \in {"write", "lock", "bootstrap"} => seen[p].accept \in Acceptances
    /\ doing[p] \in {"choose", "write", "bootstrap"} /\ seen[p].kind = "begin" =>
           seen[p].copy \in Harnesses
    /\ doing[p] = "publish" => seen[p].copy \in Harnesses
    /\ doing[p] = "claim" => seen[p].kind = "begin"
    /\ doing[p] = "lock" => seen[p].kind = "gate"

\* A begin that will publish without a bootstrap finds a run in the log.
RunIsThere(p) ==
    doing[p] = "publish" \/ (doing[p] = "claim" /\ ~seen[p].needed) => harness.run # NoRun

\* Nothing is begun or bound before the first step.
NothingBound == BeforeExecution(harness.phase) => begun = NoRun /\ bound = {}

\* One run, and every closure is bound to it.
OneRun ==
    ~BeforeExecution(harness.phase) =>
        begun # NoRun /\ harness.run = begun /\ \A c \in bound : c.run = begun

pfInv ==
    /\ pfTypeOK
    /\ \A p \in Starters : HasRead(p) /\ RunIsThere(p)
    /\ NothingBound
    /\ OneRun
-----------------------------------------------------------------------------
\* What the assumption on NoRun is for: no run and no acceptance is NoRun.
LEMMA NoRunIsNoRecord == NoRun \notin Runs /\ NoRun \notin Acceptances
<1>1. ASSUME NEW r \in Runs PROVE r # NoRun
  <2>1. r = [id |-> r.id, revision |-> r.revision] /\ r.id \in 0..MaxRunIds
        /\ r.revision \in Revisions
    BY <1>1 DEF Runs
  <2>2. PICK h \in Heads : TRUE
    BY TreeAssumption
  <2>3. NoRun # [id |-> r.id, revision |-> r.revision]
    BY <2>1, <2>2, NoRunAssumption
  <2> QED
    BY <2>1, <2>3
<1>2. ASSUME NEW a \in Acceptances PROVE a # NoRun
  <2>1. a = [id |-> a.id, revision |-> a.revision, head |-> a.head]
        /\ a.id \in 0..MaxRunIds /\ a.revision \in Revisions /\ a.head \in Heads
    BY <1>2 DEF Acceptances
  <2> QED
    BY <2>1, NoRunAssumption
<1> QED
  BY <1>1, <1>2

\* The state of the log after the event of a begin: the identity of the run
\* is the one of the log, not the one of the begin's older copy.
LEMMA PublishedState ==
    ASSUME NEW h \in Harnesses, NEW c \in Harnesses
    PROVE  [f \in DOMAIN h |->
              IF f \in STEP_EVENT_FIELDS
              THEN [c EXCEPT !.open = TRUE, !.phase = "executing"][f] ELSE h[f]]
           = [run |-> h.run, phase |-> "executing", open |-> TRUE, sequence |-> h.sequence]
<1> DEFINE changed == [c EXCEPT !.open = TRUE, !.phase = "executing"]
           after == [f \in DOMAIN h |-> IF f \in STEP_EVENT_FIELDS THEN changed[f] ELSE h[f]]
           record == [run |-> h.run, phase |-> "executing", open |-> TRUE,
                      sequence |-> h.sequence]
<1>1. DOMAIN h = {"run", "phase", "open", "sequence"} /\ DOMAIN h = DOMAIN record
  BY DEF Harnesses
<1>2. changed["phase"] = "executing" /\ changed["open"] = TRUE
  BY DEF Harnesses
<1> HIDE DEF changed
<1>3. ASSUME NEW f \in DOMAIN h PROVE after[f] = record[f]
  <2>1. CASE f = "run" \/ f = "sequence"
    BY <1>3, <2>1 DEF STEP_EVENT_FIELDS
  <2>2. CASE f = "phase"
    BY <1>2, <1>3, <2>2 DEF STEP_EVENT_FIELDS
  <2>3. CASE f = "open"
    <3>1. f \in STEP_EVENT_FIELDS
      BY <2>3 DEF STEP_EVENT_FIELDS
    <3>2. after[f] = changed[f]
      BY <1>3, <3>1, Zenon
    <3>3. record["open"] = TRUE
      OBVIOUS
    <3> QED
      BY <1>2, <2>3, <3>2, <3>3, Zenon
  <2> QED
    BY <1>1, <1>3, <2>1, <2>2, <2>3
<1>4. after = [f \in DOMAIN h |-> record[f]]
  BY <1>3
<1>5. record = [f \in DOMAIN record |-> record[f]]
  OBVIOUS
<1> QED
  BY <1>1, <1>4, <1>5 DEF changed

\* The bootstrap keeps the shape of the state, gives it a run when it has none
\* and never replaces the run of an execution under way.
LEMMA BootstrapKeepsRun ==
    ASSUME NEW h \in Harnesses, NEW run \in Runs
    PROVE  /\ Bootstrapped(h, run) \in Harnesses
           /\ Bootstrapped(h, run).run # NoRun
           /\ Bootstrapped(h, run).sequence = h.sequence
           /\ BeforeExecution(Bootstrapped(h, run).phase) <=> BeforeExecution(h.phase)
           /\ ~BeforeExecution(h.phase) /\ h.run # NoRun =>
                  Bootstrapped(h, run).run = h.run
  BY NoRunIsNoRecord DEF Bootstrapped, BeforeExecution, Harnesses, Phases

\* The sequence that catches up with the artifacts.
LEMMA LatestSequence ==
    ASSUME pfTypeOK
    PROVE  /\ latest_authoritative_artifact_sequence \in {0, 1}
           /\ artifacts = {} => latest_authoritative_artifact_sequence = 0
<1>1. CASE artifacts = {}
  <2>1. artifacts \cup {0} = {0}
    BY <1>1
  <2>2. Max({0}) = 0
    BY DEF Max
  <2> QED
    BY <2>1, <2>2 DEF latest_authoritative_artifact_sequence
<1>2. CASE artifacts = {1}
  <2>1. \E x \in {0, 1} : \A y \in {0, 1} : x >= y
    OBVIOUS
  <2>2. Max({0, 1}) \in {0, 1}
    BY <2>1 DEF Max
  <2>3. artifacts \cup {0} = {0, 1}
    BY <1>2
  <2> QED
    BY <1>2, <2>2, <2>3 DEF latest_authoritative_artifact_sequence
<1> QED
  BY <1>1, <1>2 DEF pfTypeOK
-----------------------------------------------------------------------------
Moved == \A p \in Starters : HasRead(p) /\ RunIsThere(p)

\* A step of p alone, which takes no run out of the log.
LEMMA OneMoves ==
    ASSUME pfInv, NEW p \in Starters, NEW to \in Points, NEW what \in Reads,
           doing' = [doing EXCEPT ![p] = to], seen' = [seen EXCEPT ![p] = what],
           harness.run # NoRun => harness'.run # NoRun,
           to # "idle" => what.revision \in Revisions,
           to \in {"write", "lock", "bootstrap"} => what.accept \in Acceptances,
           to \in {"choose", "write", "bootstrap"} /\ what.kind = "begin" =>
               what.copy \in Harnesses,
           to = "publish" => what.copy \in Harnesses,
           to = "claim" => what.kind = "begin",
           to = "lock" => what.kind = "gate",
           to = "publish" \/ (to = "claim" /\ ~what.needed) => harness'.run # NoRun
    PROVE  /\ doing' \in [Starters -> Points]
           /\ seen' \in [Starters -> Reads]
           /\ Moved'
<1>1. doing' \in [Starters -> Points] /\ seen' \in [Starters -> Reads]
  BY DEF pfInv, pfTypeOK
<1>2. ASSUME NEW q \in Starters PROVE HasRead(q)' /\ RunIsThere(q)'
  <2>1. CASE q = p
    <3>1. doing'[q] = to /\ seen'[q] = what
      BY <2>1 DEF pfInv, pfTypeOK
    <3> QED
      BY <3>1 DEF HasRead, RunIsThere
  <2>2. CASE q # p
    <3>1. doing'[q] = doing[q] /\ seen'[q] = seen[q]
      BY <2>2 DEF pfInv, pfTypeOK
    <3> QED
      BY <3>1, <1>2 DEF pfInv, HasRead, RunIsThere
  <2> QED
    BY <2>1, <2>2
<1> QED
  BY <1>1, <1>2 DEF Moved

\* No process moves, and no run is taken out of the log.
LEMMA NoneMoves ==
    ASSUME pfInv, UNCHANGED <<doing, seen>>, harness.run # NoRun => harness'.run # NoRun
    PROVE  /\ doing' \in [Starters -> Points]
           /\ seen' \in [Starters -> Reads]
           /\ Moved'
  BY DEF pfInv, pfTypeOK, Moved, HasRead, RunIsThere

\* What a process has read, and its empty hands.
LEMMA ReadFields ==
    ASSUME pfInv, NEW p \in Starters
    PROVE  /\ NothingSeen \in Reads
           /\ seen[p] \in Reads
           /\ doing[p] \in Points
  BY DEF pfInv, pfTypeOK, NothingSeen, Reads

LEMMA OverMoves ==
    ASSUME pfInv, NEW p \in Starters, Over(p), harness.run # NoRun => harness'.run # NoRun
    PROVE  /\ doing' \in [Starters -> Points]
           /\ seen' \in [Starters -> Reads]
           /\ Moved'
<1>1. NothingSeen \in Reads
  BY ReadFields
<1>2. "idle" \in Points
  BY DEF Points
<1> QED
  BY <1>1, <1>2, OneMoves DEF Over, Go, Learn

\* The identity of the run is not at stake in a step that leaves the log and
\* the closure records alone.
LEMMA IdentityStays ==
    ASSUME pfInv, UNCHANGED <<harness, begun, bound>>
    PROVE  NothingBound' /\ OneRun'
  BY DEF pfInv, NothingBound, OneRun

\* Every step keeps the inductive invariant: the steps of a process ...
LEMMA ProcessStep ==
    ASSUME pfInv, NEW p \in Starters,
           \/ BeginReads(p) \/ GateReads(p) \/ DispatchReads(p)
           \/ ClaimForBegin(p) \/ ChooseAcceptance(p) \/ WriteAcceptance(p)
           \/ LockForBootstrap(p) \/ Bootstrap(p) \/ PublishBegin(p) \/ Abandon(p)
    PROVE  pfInv'
<1> USE IdsAssumption DEF Go, Learn
<1>0. /\ pfTypeOK /\ HasRead(p) /\ RunIsThere(p)
      /\ NothingSeen \in Reads /\ seen[p] \in Reads /\ doing[p] \in Points
      /\ tree.revision \in Revisions /\ tree.head \in Heads
  BY ReadFields DEF pfInv, pfTypeOK, Trees
<1>1. CASE BeginReads(p)
  <2> DEFINE what == [NothingSeen EXCEPT
                        !.kind = "begin", !.revision = tree.revision,
                        !.needed = public_intent_preflight_readiness("begin") = "persist"]
  <2>1. public_intent_preflight_readiness("begin") # "persist" => harness.run # NoRun
    BY <1>1 DEF BeginReads, public_intent_preflight_readiness,
                authoritative_run_identity_present
  <2>2. /\ what \in Reads /\ what.kind = "begin" /\ what.revision = tree.revision
        /\ what.needed = (public_intent_preflight_readiness("begin") = "persist")
    BY <1>0 DEF Reads, NothingSeen
  <2> HIDE DEF what
  <2>3. doing' = [doing EXCEPT ![p] = "claim"] /\ seen' = [seen EXCEPT ![p] = what]
    BY <1>1 DEF BeginReads, what
  <2>4. doing' \in [Starters -> Points] /\ seen' \in [Starters -> Reads] /\ Moved'
    BY <1>0, <1>1, <2>1, <2>2, <2>3, OneMoves DEF Points, BeginReads
  <2> QED
    BY <1>0, <1>1, <2>4, IdentityStays DEF BeginReads, pfInv, pfTypeOK, Moved
<1>2. CASE GateReads(p)
  <2> DEFINE what == [NothingSeen EXCEPT !.kind = "gate", !.revision = tree.revision]
  <2>1. what \in Reads /\ what.kind = "gate" /\ what.revision = tree.revision
    BY <1>0 DEF Reads, NothingSeen
  <2> HIDE DEF what
  <2>2. doing' = [doing EXCEPT ![p] = "choose"] /\ seen' = [seen EXCEPT ![p] = what]
    BY <1>2 DEF GateReads, what
  <2>3. doing' \in [Starters -> Points] /\ seen' \in [Starters -> Reads] /\ Moved'
    BY <1>0, <1>2, <2>1, <2>2, OneMoves DEF Points, GateReads
  <2> QED
    BY <1>0, <1>2, <2>3, IdentityStays DEF GateReads, pfInv, pfTypeOK, Moved
<1>3. CASE DispatchReads(p)
  <2> DEFINE what == [NothingSeen EXCEPT !.kind = "dispatch", !.revision = tree.revision]
  <2>1. what \in Reads /\ what.kind = "dispatch" /\ what.revision = tree.revision
    BY <1>0 DEF Reads, NothingSeen
  <2> HIDE DEF what
  <2>2. doing' = [doing EXCEPT ![p] = "choose"] /\ seen' = [seen EXCEPT ![p] = what]
    BY <1>3 DEF DispatchReads, what
  <2>3. doing' \in [Starters -> Points] /\ seen' \in [Starters -> Reads] /\ Moved'
    BY <1>0, <1>3, <2>1, <2>2, OneMoves DEF Points, DispatchReads
  <2> QED
    BY <1>0, <1>3, <2>3, IdentityStays DEF DispatchReads, pfInv, pfTypeOK, Moved
<1>4. CASE ClaimForBegin(p)
  <2> DEFINE what == [seen[p] EXCEPT !.copy = harness]
             to == IF seen[p].needed THEN "choose" ELSE "publish"
  <2>1. /\ what \in Reads /\ what.copy = harness /\ what.revision = seen[p].revision
        /\ what.kind = seen[p].kind
    BY <1>0 DEF Reads, pfTypeOK
  <2>2. to = "publish" => harness.run # NoRun
    BY <1>0, <1>4 DEF RunIsThere, ClaimForBegin
  <2>3. to \in {"choose", "publish"}
    OBVIOUS
  <2> HIDE DEF what, to
  <2>4. doing' = [doing EXCEPT ![p] = to] /\ seen' = [seen EXCEPT ![p] = what]
    BY <1>4 DEF ClaimForBegin, what, to
  <2>5. what.revision \in Revisions /\ what.copy \in Harnesses /\ harness' = harness
    BY <1>0, <1>4, <2>1 DEF ClaimForBegin, HasRead, pfTypeOK
  <2>6. doing' \in [Starters -> Points] /\ seen' \in [Starters -> Reads] /\ Moved'
    BY <2>1, <2>2, <2>3, <2>4, <2>5, OneMoves DEF Points
  <2> QED
    BY <1>0, <1>4, <2>6, IdentityStays DEF ClaimForBegin, pfInv, pfTypeOK, Moved
<1>5. CASE ChooseAcceptance(p)
  <2>1. harness' = harness /\ UNCHANGED <<acceptance, tree, artifacts, begun, bound>>
    BY <1>5 DEF ChooseAcceptance
  <2>2. seen[p].revision \in Revisions
        /\ (seen[p].kind = "begin" => seen[p].copy \in Harnesses)
    BY <1>0, <1>5 DEF ChooseAcceptance, HasRead
  <2>3. CASE /\ seen[p].kind = "begin" /\ authoritative_run_identity_present
             /\ doing' = [doing EXCEPT ![p] = "publish"] /\ UNCHANGED <<seen, runIds>>
    <3>1. seen' = [seen EXCEPT ![p] = seen[p]]
      BY <1>0, <2>3 DEF pfTypeOK
    <3>2. Moved' /\ doing' \in [Starters -> Points] /\ seen' \in [Starters -> Reads]
      BY <1>0, <2>1, <2>2, <2>3, <3>1, OneMoves
         DEF Points, authoritative_run_identity_present
    <3> QED
      BY <1>0, <2>1, <2>3, <3>2, IdentityStays DEF pfInv, pfTypeOK, Moved
  <2>4. CASE /\ matches_context(acceptance, seen[p].revision)
             /\ doing' = [doing EXCEPT ![p] = IF seen[p].kind = "gate" THEN "lock"
                                              ELSE "bootstrap"]
             /\ seen' = [seen EXCEPT ![p] = [seen[p] EXCEPT !.accept = acceptance]]
             /\ UNCHANGED runIds
    <3> DEFINE what == [seen[p] EXCEPT !.accept = acceptance]
               to == IF seen[p].kind = "gate" THEN "lock" ELSE "bootstrap"
    <3>1. acceptance \in Acceptances
      BY <1>0, <2>4 DEF matches_context, pfTypeOK
    <3>2. /\ what \in Reads /\ what.accept = acceptance /\ what.kind = seen[p].kind
          /\ what.revision = seen[p].revision /\ what.copy = seen[p].copy
      BY <1>0, <3>1 DEF Reads
    <3>3. to \in {"lock", "bootstrap"} /\ (to = "lock" => seen[p].kind = "gate")
      OBVIOUS
    <3>4. doing' = [doing EXCEPT ![p] = to] /\ seen' = [seen EXCEPT ![p] = what]
      BY <2>4
    <3> HIDE DEF what, to
    <3>5. Moved' /\ doing' \in [Starters -> Points] /\ seen' \in [Starters -> Reads]
      BY <1>0, <2>1, <2>2, <3>1, <3>2, <3>3, <3>4, OneMoves DEF Points
    <3> QED
      BY <1>0, <2>1, <2>4, <3>5, IdentityStays DEF pfInv, pfTypeOK, Moved
  <2>5. ASSUME NEW id \in 0..MaxRunIds, runIds' \in 0..MaxRunIds,
               doing' = [doing EXCEPT ![p] = "write"],
               seen' = [seen EXCEPT ![p] = [seen[p] EXCEPT !.accept =
                          [id |-> id, revision |-> seen[p].revision, head |-> tree.head]]]
        PROVE  pfInv'
    <3> DEFINE fresh == [id |-> id, revision |-> seen[p].revision, head |-> tree.head]
               what == [seen[p] EXCEPT !.accept = fresh]
    <3>1. fresh \in Acceptances
      BY <1>0, <2>2, <2>5 DEF Acceptances
    <3> HIDE DEF fresh
    <3>2. /\ what \in Reads /\ what.accept = fresh /\ what.kind = seen[p].kind
          /\ what.revision = seen[p].revision /\ what.copy = seen[p].copy
      BY <1>0, <3>1 DEF Reads
    <3>3. doing' = [doing EXCEPT ![p] = "write"] /\ seen' = [seen EXCEPT ![p] = what]
      BY <2>5 DEF fresh
    <3> HIDE DEF what
    <3>4. Moved' /\ doing' \in [Starters -> Points] /\ seen' \in [Starters -> Reads]
      BY <1>0, <2>1, <2>2, <3>1, <3>2, <3>3, OneMoves DEF Points
    <3> QED
      BY <1>0, <2>1, <2>5, <3>4, IdentityStays DEF pfInv, pfTypeOK, Moved
  <2>6. ASSUME authoritative_preflight_acceptance_seed = {}, runIds < MaxRunIds
        PROVE  runIds + 1 \in 0..MaxRunIds
    BY <1>0, <2>6 DEF pfTypeOK
  <2>7. ASSUME authoritative_preflight_acceptance_seed # {}
        PROVE  harness.run.id \in 0..MaxRunIds
    BY <1>0, <2>7 DEF authoritative_preflight_acceptance_seed, pfTypeOK, Harnesses, Runs
  <2>8. runIds \in 0..MaxRunIds
    BY <1>0 DEF pfTypeOK
  <2> QED
    BY <1>5, <2>3, <2>4, <2>5, <2>6, <2>7, <2>8 DEF ChooseAcceptance
<1>6. CASE WriteAcceptance(p)
  <2> DEFINE to == IF seen[p].kind = "gate" THEN "lock" ELSE "bootstrap"
  <2>1. /\ to \in {"lock", "bootstrap"} /\ (to = "lock" => seen[p].kind = "gate")
        /\ doing' = [doing EXCEPT ![p] = to]
    BY <1>6 DEF WriteAcceptance
  <2> HIDE DEF to
  <2>2. seen' = [seen EXCEPT ![p] = seen[p]] /\ doing[p] = "write" /\ harness' = harness
    BY <1>0, <1>6 DEF WriteAcceptance, pfTypeOK
  <2>3. doing' \in [Starters -> Points] /\ seen' \in [Starters -> Reads] /\ Moved'
    BY <1>0, <2>1, <2>2, OneMoves DEF Points, HasRead
  <2>4. acceptance' \in Acceptances
    BY <1>0, <1>6, <2>2 DEF WriteAcceptance, HasRead
  <2> QED
    BY <1>0, <1>6, <2>3, <2>4, IdentityStays DEF WriteAcceptance, pfInv, pfTypeOK, Moved
<1>7. CASE LockForBootstrap(p)
  <2>1. seen' = [seen EXCEPT ![p] = seen[p]] /\ doing[p] = "lock" /\ harness' = harness
    BY <1>0, <1>7 DEF LockForBootstrap, pfTypeOK
  <2>2. doing' = [doing EXCEPT ![p] = "bootstrap"]
    BY <1>7 DEF LockForBootstrap
  <2>3. doing' \in [Starters -> Points] /\ seen' \in [Starters -> Reads] /\ Moved'
    BY <1>0, <2>1, <2>2, OneMoves DEF Points, HasRead
  <2> QED
    BY <1>0, <1>7, <2>3, IdentityStays DEF LockForBootstrap, pfInv, pfTypeOK, Moved
<1>8. CASE Bootstrap(p)
  <2> DEFINE run == [id |-> seen[p].accept.id, revision |-> seen[p].revision]
  <2>1. /\ doing[p] = "bootstrap" /\ run \in Runs /\ harness \in Harnesses
        /\ harness' = Bootstrapped(harness, run)
    BY <1>0, <1>8 DEF Bootstrap, HasRead, Acceptances, Runs, pfTypeOK
  <2> HIDE DEF run
  <2>2. /\ harness' \in Harnesses /\ harness'.run # NoRun
        /\ harness'.sequence = harness.sequence
        /\ BeforeExecution(harness'.phase) <=> BeforeExecution(harness.phase)
        /\ ~BeforeExecution(harness.phase) /\ harness.run # NoRun =>
               harness'.run = harness.run
    BY <2>1, BootstrapKeepsRun
  <2>3. doing' \in [Starters -> Points] /\ seen' \in [Starters -> Reads] /\ Moved'
    <3>1. CASE seen[p].kind = "begin"
      <4>1. seen' = [seen EXCEPT ![p] = seen[p]] /\ doing' = [doing EXCEPT ![p] = "publish"]
        BY <1>0, <1>8, <3>1 DEF Bootstrap, pfTypeOK
      <4>2. "publish" \in Points
        BY DEF Points
      <4> QED
        BY <1>0, <2>1, <2>2, <3>1, <4>1, <4>2, OneMoves DEF HasRead
    <3>2. CASE seen[p].kind # "begin"
      BY <1>8, <2>2, <3>2, OverMoves DEF Bootstrap
    <3> QED
      BY <3>1, <3>2
  <2>4. NothingBound' /\ OneRun'
    BY <1>8, <2>2 DEF Bootstrap, pfInv, NothingBound, OneRun
  <2> QED
    BY <1>0, <1>8, <2>2, <2>3, <2>4 DEF Bootstrap, pfInv, pfTypeOK, Moved
<1>9. CASE PublishBegin(p)
  <2>1. doing[p] = "publish" /\ seen[p].copy \in Harnesses /\ harness \in Harnesses
    BY <1>0, <1>9 DEF PublishBegin, HasRead, pfTypeOK
  <2>2. harness' = [run |-> harness.run, phase |-> "executing", open |-> TRUE,
                    sequence |-> harness.sequence]
    BY <1>9, <2>1, PublishedState DEF PublishBegin
  <2>3. /\ harness' \in Harnesses /\ harness'.run = harness.run
        /\ harness'.phase = "executing" /\ harness'.sequence = harness.sequence
    BY <2>1, <2>2 DEF Harnesses, Phases
  <2>4. /\ begun' = IF begun = NoRun THEN harness.run ELSE begun
        /\ UNCHANGED <<acceptance, tree, artifacts, runIds, moves, bound>>
        /\ Over(p)
    BY <1>9, <2>3 DEF PublishBegin
  <2>5. doing' \in [Starters -> Points] /\ seen' \in [Starters -> Reads] /\ Moved'
    BY <2>3, <2>4, OverMoves
  <2>6. harness.run # NoRun /\ harness.run \in Runs
    BY <1>0, <2>1 DEF RunIsThere, Harnesses
  <2>7. NothingBound' /\ OneRun'
    BY <2>3, <2>4, <2>6 DEF pfInv, NothingBound, OneRun, BeforeExecution
  <2> QED
    BY <1>0, <2>3, <2>4, <2>5, <2>6, <2>7 DEF pfInv, pfTypeOK, Moved
<1>10. CASE Abandon(p)
  <2>1. doing' \in [Starters -> Points] /\ seen' \in [Starters -> Reads] /\ Moved'
    BY <1>10, OverMoves DEF Abandon
  <2> QED
    BY <1>0, <1>10, <2>1, IdentityStays DEF Abandon, pfInv, pfTypeOK, Moved
<1> QED
  BY <1>1, <1>2, <1>3, <1>4, <1>5, <1>6, <1>7, <1>8, <1>9, <1>10

\* ... and the steps of the commands that hold the authority throughout, and
\* of the working tree.
LEMMA OtherStep ==
    ASSUME pfInv,
           \/ CompleteStep \/ RequireHandoff \/ record_runtime_handoff_checkpoint
           \/ CloseCurrentTask \/ WriteArtifact \/ CatchUp \/ MoveTree
    PROVE  pfInv'
<1>0. pfTypeOK /\ harness \in Harnesses
  BY DEF pfInv, pfTypeOK
<1>1. CASE CompleteStep \/ RequireHandoff \/ record_runtime_handoff_checkpoint
  <2>1. /\ harness' \in Harnesses /\ harness'.run = harness.run
        /\ harness'.sequence = harness.sequence
        /\ ~BeforeExecution(harness.phase) /\ ~BeforeExecution(harness'.phase)
    BY <1>0, <1>1 DEF CompleteStep, RequireHandoff, record_runtime_handoff_checkpoint,
                      Alter, Harnesses, Phases, BeforeExecution
  <2>2. UNCHANGED <<acceptance, tree, artifacts, doing, seen, runIds, begun, bound>>
    BY <1>1 DEF CompleteStep, RequireHandoff, record_runtime_handoff_checkpoint, Alter
  <2> QED
    BY <1>0, <2>1, <2>2, NoneMoves
       DEF pfInv, pfTypeOK, Moved, NothingBound, OneRun
<1>2. CASE CloseCurrentTask
  <2>1. /\ harness.phase = "executing" /\ bound' = bound \cup {[run |-> harness.run, revision |-> tree.revision]}
        /\ UNCHANGED <<acceptance, harness, tree, artifacts, doing, seen, runIds, begun>>
    BY <1>2 DEF CloseCurrentTask, Alter
  <2> QED
    BY <1>0, <2>1, NoneMoves
       DEF pfInv, pfTypeOK, Moved, NothingBound, OneRun, BeforeExecution
<1>3. CASE WriteArtifact
  <2>1. artifacts' = {1}
    BY <1>0, <1>3 DEF WriteArtifact, pfTypeOK
  <2>2. UNCHANGED <<acceptance, harness, tree, doing, seen, runIds, begun, bound>>
    BY <1>3 DEF WriteArtifact
  <2> QED
    BY <1>0, <2>1, <2>2, NoneMoves, IdentityStays DEF pfInv, pfTypeOK, Moved
<1>4. CASE CatchUp
  <2>1. /\ harness' \in Harnesses /\ harness'.run = harness.run
        /\ harness'.phase = harness.phase
        /\ artifacts = {} => harness'.sequence = 0
    BY <1>0, <1>4, LatestSequence DEF CatchUp, Alter, Harnesses
  <2>2. UNCHANGED <<acceptance, tree, artifacts, doing, seen, runIds, begun, bound>>
    BY <1>4 DEF CatchUp, Alter
  <2> QED
    BY <1>0, <2>1, <2>2, NoneMoves
       DEF pfInv, pfTypeOK, Moved, NothingBound, OneRun
<1>5. CASE MoveTree
  <2>1. tree' \in Trees
    BY <1>5 DEF MoveTree, Trees
  <2>2. UNCHANGED <<acceptance, harness, artifacts, doing, seen, runIds, begun, bound>>
    BY <1>5 DEF MoveTree
  <2> QED
    BY <1>0, <2>1, <2>2, NoneMoves, IdentityStays DEF pfInv, pfTypeOK, Moved
<1> QED
  BY <1>1, <1>2, <1>3, <1>4, <1>5

-----------------------------------------------------------------------------
\* The inductive invariant holds of the start of a run, whatever preflights,
\* begins, dispatches, deaths and changes of the working tree interleave.
THEOREM RunInvariance == pfSpec => []pfInv
<1>1. pfInit => pfInv
  <2> SUFFICES ASSUME pfInit PROVE pfInv
    OBVIOUS
  <2>1. tree \in Trees
    <3>1. Min(Revisions) \in Revisions
      BY TreeAssumption DEF Min
    <3>2. (CHOOSE h \in Heads : TRUE) \in Heads
      BY TreeAssumption
    <3> QED
      BY <3>1, <3>2 DEF pfInit, Trees
  <2>2. harness \in Harnesses /\ harness.phase = "none" /\ harness.sequence = 0
    BY DEF pfInit, NoHarness, Harnesses, Phases
  <2>3. doing \in [Starters -> Points] /\ \A p \in Starters : doing[p] = "idle"
    BY DEF pfInit, Points
  <2>4. NothingSeen \in Reads
    BY DEF NothingSeen, Reads
  <2>5. pfTypeOK
    BY <2>1, <2>2, <2>3, <2>4, IdsAssumption DEF pfInit, pfTypeOK
  <2> QED
    BY <2>2, <2>3, <2>5
       DEF pfInit, pfInv, HasRead, RunIsThere, NothingBound, OneRun,
           BeforeExecution
<1>2. pfInv /\ [pfNext]_pfVars => pfInv'
  <2> SUFFICES ASSUME pfInv, [pfNext]_pfVars PROVE pfInv'
    OBVIOUS
  <2>1. CASE UNCHANGED pfVars
    BY <2>1, NoneMoves, IdentityStays DEF pfVars, pfInv, pfTypeOK, Moved
  <2>2. CASE pfNext
    BY <2>2, ProcessStep, OtherStep DEF pfNext
  <2> QED
    BY <2>1, <2>2
<1> QED
  BY <1>1, <1>2, PTL DEF pfSpec

\* While the approved plan is at the revision a run was begun for, the log names
\* the run of that first begin, and every task closure of that revision is bound
\* to it, for any number of processes, ids and revisions.
THEOREM RunIdentity == pfSpec => []RunKeepsItsIdentity
<1>1. pfInv => RunKeepsItsIdentity
  BY DEF pfInv, OneRun, RunKeepsItsIdentity
<1> QED
  BY <1>1, RunInvariance, PTL

-----------------------------------------------------------------------------
(***************************************************************************)
(* The transfer of a run.  CheckpointIsTheAnswer is not inductive: it says *)
(* nothing of the transfer under way.  A transfer fills a file of its own, *)
(* never the one the checkpoint names, and publishes a record that answers *)
(* its own request and matches the decision it was made for.               *)
(***************************************************************************)
\* A record answers a request that was made for a decision.
Answers(r, request, identity) ==
    /\ r.scope = request.scope
    /\ r.to = request.to
    /\ workflow_transfer_record_matches_decision(r, identity)

CheckpointHolds ==
    checkpoint # NoRecord =>
        /\ checkpoint.key \in DOMAIN records
        /\ records[checkpoint.key] = checkpoint.fingerprint
        /\ Answers(checkpoint.fingerprint, said.request, said.identity)

UnderWay ==
    transfer # NoTransfer =>
        /\ transfer = [at |-> transfer.at, key |-> transfer.key,
                       fingerprint |-> transfer.fingerprint,
                       request |-> transfer.request, identity |-> transfer.identity]
        /\ transfer.key \in DOMAIN records
        /\ Answers(transfer.fingerprint, transfer.request, transfer.identity)
        /\ \/ /\ transfer.at = "fill"
              /\ checkpoint # NoRecord => transfer.key # checkpoint.key
           \/ /\ transfer.at = "publish"
              /\ records[transfer.key] = transfer.fingerprint

hoInv == CheckpointHolds /\ UnderWay

-----------------------------------------------------------------------------
\* The record a request would write answers the request.
LEMMA NewRecordAnswers ==
    ASSUME NEW request, NEW scope, NEW to, request = [scope |-> scope, to |-> to],
           handoff_decision_scope \subseteq {request.scope},
           NEW r, r = [scope |-> request.scope, to |-> request.to, commit |-> commit,
                       codes |-> codes, text |-> "whole"]
    PROVE  Answers(r, request, Identity)
  BY DEF Answers, workflow_transfer_record_matches_decision, Identity

\* A name of its own.
LEMMA NewName ==
    ASSUME NEW stamp, NEW key \in next_workflow_transfer_record_path(stamp)
    PROVE  key \notin DOMAIN records
  BY DEF next_workflow_transfer_record_path

LEMMA CreateKeeps ==
    ASSUME hoInv, NEW scope, NEW to, NEW request, request = [scope |-> scope, to |-> to],
           CreateRecord(request)
    PROVE  hoInv'
<1> DEFINE whole == [scope |-> request.scope, to |-> request.to, commit |-> commit,
                     codes |-> codes, text |-> "whole"]
<1> DEFINE Created(key) ==
             /\ transfer' = [at |-> "fill", key |-> key, fingerprint |-> whole,
                             request |-> request, identity |-> Identity]
             /\ records' = [k \in DOMAIN records \cup {key} |->
                              IF k = key THEN [whole EXCEPT !.text = "empty"] ELSE records[k]]
<1>0. PICK stamp \in Stamps :
        \E key \in next_workflow_transfer_record_path(stamp) : Created(key)
  BY Zenon DEF CreateRecord
<1>1. PICK key \in next_workflow_transfer_record_path(stamp) : Created(key)
  BY <1>0
<1>2. key \notin DOMAIN records
  BY <1>1, NewName
<1>3. Answers(whole, request, Identity)
  BY NewRecordAnswers DEF CreateRecord
<1>4. UNCHANGED <<checkpoint, said>>
  BY DEF CreateRecord
<1> HIDE DEF whole
<1>5. /\ key \in DOMAIN records' /\ DOMAIN records \subseteq DOMAIN records'
      /\ \A k \in DOMAIN records : records'[k] = records[k]
  BY <1>1, <1>2
<1>6. CheckpointHolds'
  BY <1>4, <1>5 DEF hoInv, CheckpointHolds, Answers, workflow_transfer_record_matches_decision
<1>7. checkpoint' # NoRecord => key # checkpoint'.key
  BY <1>2, <1>4 DEF hoInv, CheckpointHolds
<1>8. /\ transfer'.at = "fill" /\ transfer'.key = key /\ transfer'.fingerprint = whole
      /\ transfer'.request = request /\ transfer'.identity = Identity
  BY <1>1
<1>9. transfer' = [at |-> transfer'.at, key |-> transfer'.key,
                   fingerprint |-> transfer'.fingerprint,
                   request |-> transfer'.request, identity |-> transfer'.identity]
  BY <1>1, <1>8, Zenon
<1>10. UnderWay'
  BY <1>3, <1>5, <1>7, <1>8, <1>9
     DEF UnderWay, Answers, workflow_transfer_record_matches_decision
<1> QED
  BY <1>6, <1>10 DEF hoInv

LEMMA ReuseKeeps ==
    ASSUME hoInv, NEW request, TransferReuses(request)
    PROVE  hoInv'
<1>1. PICK k \in latest_matching_workflow_transfer_request_record(Identity, request) :
        transfer' = [at |-> "publish", key |-> k, fingerprint |-> records[k],
                     request |-> request, identity |-> Identity]
  BY Zenon DEF TransferReuses
<1>2. k \in DOMAIN records /\ Answers(records[k], request, Identity)
  BY <1>1 DEF latest_matching_workflow_transfer_request_record,
              latest_matching_workflow_transfer_record, Answers
<1>3. UNCHANGED <<records, checkpoint, said>>
  BY DEF TransferReuses
<1>4. /\ transfer'.at = "publish" /\ transfer'.key = k /\ transfer'.fingerprint = records[k]
      /\ transfer'.request = request /\ transfer'.identity = Identity
  BY <1>1
<1>5. transfer' = [at |-> transfer'.at, key |-> transfer'.key,
                   fingerprint |-> transfer'.fingerprint,
                   request |-> transfer'.request, identity |-> transfer'.identity]
  BY <1>1, <1>4, Zenon
<1>6. CheckpointHolds'
  BY <1>3 DEF hoInv, CheckpointHolds, Answers, workflow_transfer_record_matches_decision
<1>7. UnderWay'
  BY <1>2, <1>3, <1>4, <1>5
     DEF UnderWay, Answers, workflow_transfer_record_matches_decision
<1> QED
  BY <1>6, <1>7 DEF hoInv

\* A transfer that ends or was not there leaves nothing under way.
LEMMA IdleStays ==
    ASSUME transfer' = NoTransfer
    PROVE  UnderWay'
  BY DEF UnderWay

LEMMA SameCheckpoint ==
    ASSUME CheckpointHolds, UNCHANGED <<checkpoint, said>>, DOMAIN records' = DOMAIN records,
           checkpoint # NoRecord => records'[checkpoint.key] = records[checkpoint.key]
    PROVE  CheckpointHolds'
  BY DEF CheckpointHolds, Answers, workflow_transfer_record_matches_decision

-----------------------------------------------------------------------------
\* The checkpoint and the transfer under way are what they should be.
THEOREM HandoffInvariance == hoSpec => []hoInv
<1>1. hoInit => hoInv
  BY DEF hoInit, hoInv, CheckpointHolds, UnderWay
<1>2. hoInv /\ [hoNext]_hoVars => hoInv'
  <2> SUFFICES ASSUME hoInv, [hoNext]_hoVars PROVE hoInv'
    OBVIOUS
  <2>0. CheckpointHolds /\ UnderWay
    BY DEF hoInv
  <2>1. CASE UNCHANGED hoVars
    BY <2>1 DEF hoVars, hoInv, CheckpointHolds, UnderWay, Answers,
                workflow_transfer_record_matches_decision
  <2>2. ASSUME NEW scope \in {"task", "branch"}, NEW to \in Owners,
               LET request == [scope |-> scope, to |-> to]
               IN  TransferBlocked(request) \/ TransferReuses(request) \/ CreateRecord(request)
        PROVE  hoInv'
    <3> DEFINE request == [scope |-> scope, to |-> to]
    <3>1. CASE TransferBlocked(request)
      BY <2>1, <3>1 DEF TransferBlocked
    <3>2. CASE TransferReuses(request)
      BY <3>2, ReuseKeeps
    <3>3. CASE CreateRecord(request)
      BY <3>3, CreateKeeps
    <3> QED
      BY <2>2, <3>1, <3>2, <3>3
  <2>3. CASE FillRecord
    <3>1. /\ transfer.at = "fill" /\ UNCHANGED <<checkpoint, said>>
          /\ records' = [records EXCEPT ![transfer.key] = transfer.fingerprint]
          /\ transfer' = [transfer EXCEPT !.at = "publish"]
      BY <2>3 DEF FillRecord
    <3>2. transfer # NoTransfer
      BY <3>1 DEF NoTransfer
    <3>3. CheckpointHolds'
      BY <2>0, <3>1, <3>2, SameCheckpoint DEF UnderWay
    <3>4. /\ transfer' = [at |-> "publish", key |-> transfer.key,
                          fingerprint |-> transfer.fingerprint,
                          request |-> transfer.request, identity |-> transfer.identity]
      BY <2>0, <3>1, <3>2 DEF UnderWay
    <3>5. records'[transfer.key] = transfer.fingerprint /\ DOMAIN records' = DOMAIN records
      BY <2>0, <3>1, <3>2 DEF UnderWay
    <3>6. UnderWay'
      BY <2>0, <3>2, <3>4, <3>5 DEF UnderWay, Answers, workflow_transfer_record_matches_decision
    <3> QED
      BY <3>3, <3>6 DEF hoInv
  <2>4. CASE PublishCheckpoint
    <3>1. /\ transfer.at = "publish" /\ UNCHANGED records /\ transfer' = NoTransfer
          /\ checkpoint' = [key |-> transfer.key, fingerprint |-> transfer.fingerprint]
          /\ said' = [request |-> transfer.request, identity |-> transfer.identity]
      BY <2>4 DEF PublishCheckpoint
    <3>2. transfer # NoTransfer
      BY <3>1 DEF NoTransfer
    <3>3. /\ checkpoint'.key = transfer.key /\ checkpoint'.fingerprint = transfer.fingerprint
          /\ said'.request = transfer.request /\ said'.identity = transfer.identity
      BY <3>1
    <3>4. CheckpointHolds'
      BY <2>0, <3>1, <3>2, <3>3
         DEF CheckpointHolds, UnderWay, Answers, workflow_transfer_record_matches_decision
    <3> QED
      BY <3>1, <3>4, IdleStays DEF hoInv
  <2>5. CASE TransferDies
    <3> DEFINE torn == [transfer.fingerprint EXCEPT !.text = "short"]
    <3>1. /\ transfer # NoTransfer /\ transfer' = NoTransfer /\ UNCHANGED <<checkpoint, said>>
          /\ \/ records' = records
             \/ /\ transfer.at = "fill"
                /\ records' = [records EXCEPT ![transfer.key] = torn]
      BY <2>5 DEF TransferDies
    <3> HIDE DEF torn
    <3>2. CheckpointHolds'
      <4>1. CASE records' = records
        BY <2>0, <3>1, <4>1, SameCheckpoint
      <4>2. CASE /\ transfer.at = "fill"
                 /\ records' = [records EXCEPT ![transfer.key] = torn]
        BY <2>0, <3>1, <4>2, SameCheckpoint DEF UnderWay
      <4> QED
        BY <3>1, <4>1, <4>2
    <3> QED
      BY <3>1, <3>2, IdleStays DEF hoInv
  <2>6. CASE Change
    <3>1. transfer' = NoTransfer /\ UNCHANGED <<records, checkpoint, said>>
      BY <2>6 DEF Change
    <3> QED
      BY <2>0, <3>1, SameCheckpoint, IdleStays DEF hoInv
  <2>7. CASE stale_reopen_provenance
    BY <2>7, IdleStays DEF stale_reopen_provenance, hoInv, CheckpointHolds
  <2> QED
    BY <2>1, <2>2, <2>3, <2>4, <2>5, <2>6, <2>7 DEF hoNext
<1> QED
  BY <1>1, <1>2, PTL DEF hoSpec

\* The checkpoint names a file with the recorded fingerprint, which hands over
\* as the last transfer that reported success asked for.
THEOREM CheckpointAnswers == hoSpec => []CheckpointIsTheAnswer
<1>1. hoInv => CheckpointIsTheAnswer
  BY DEF hoInv, CheckpointHolds, Answers, CheckpointIsTheAnswer
<1> QED
  BY <1>1, HandoffInvariance, PTL
=============================================================================
