-------------------------- MODULE MilestonesProofs --------------------------
(***************************************************************************)
(* Proofs about the milestones of a branch, for any worktree contents, any *)
(* number of processes, edits and negative results.                        *)
(*                                                                         *)
(* FinishMeansReviewed is not inductive: the gate compares the records     *)
(* with the worktree, but a record is written for the tree its command saw *)
(* before it claimed the authority. What makes it hold is that every       *)
(* record keeps the tree it was decided on (JudgedOK), that a decision is  *)
(* about the tree of the branch closure it names (DecisionsOK), and that   *)
(* branch closures of one task closure are of its code (SourcesOK).        *)
(* PointerNamesTheCurrentRecord rides along in LedgersOK; that a new       *)
(* record has an id of its own is FreeId.                                  *)
(***************************************************************************)
EXTENDS Milestones, FiniteSetTheorems, WellFoundedInduction, TLAPS

\* The ledgers whose records have their ids in ids.
Ledgers(ids) == [id : {None} \cup ids, known : SUBSET ids, live : SUBSET ids]

\* The pointer names a record, and it is the one whose status is current.
Pointed(ledger) ==
    /\ ledger.id # None => ledger.id \in ledger.known
    /\ ledger.live = IF ledger.id = None THEN {} ELSE {ledger.id}

\* The four ledgers, and what their pointers name.
LedgersOK ==
    /\ branch \in Ledgers(Closures) /\ IsFiniteSet(branch.known) /\ Pointed(branch)
    /\ release \in Ledgers(ReleaseIds) /\ IsFiniteSet(release.known) /\ Pointed(release)
    /\ final \in Ledgers(FinalIds) /\ Pointed(final)
    /\ qa \in Ledgers(QaIds) /\ Pointed(qa)

\* What a process has decided before its claim.
Pending ==
    [stage : {"release_readiness", "dispatch", "final_review", "follow_up", "clear_task", "clear_branch"},
     result : {"none", "ready", "blocked", "pass", "fail"},
     closure : {None} \cup Closures, dispatch : Nat, tree : Trees]

\* What a command has decided before its claim.
Decided(d) ==
    /\ d.stage = "release_readiness" =>
          d.result \in {"ready", "blocked"} /\ d.closure # None /\ d.tree = d.closure.tree
    /\ d.stage = "final_review" =>
          d.result \in {"pass", "fail"} /\ d.closure # None /\ d.tree.code = d.closure.tree.code

\* The types of the other variables.
msTypeOK ==
    /\ tree \in Trees
    /\ budget \in [edits : Nat, negatives : Nat, procs : SUBSET Procs]
    /\ closed \in Nat
    /\ baseline \in {None} \cup [code : Codes, n : Nat]
    /\ lineage \in {None} \cup [closure : Closures, dispatch : Nat]
    /\ dispatched \in Nat
    /\ pend \in [Procs -> {None} \cup Pending]

\* A branch closure is of the code of the task closure it was recorded from.
SourcesOK ==
    /\ baseline # None => baseline.n <= closed
    /\ \A c \in branch.known :
          /\ c.source <= closed
          /\ baseline # None /\ c.source = baseline.n => c.tree.code = baseline.code

\* What a milestone was decided on.
JudgedOK ==
    /\ \A r \in release.known : <<r, r.closure.tree>> \in judged
    /\ \A f \in final.known : \E t \in Trees : t.code = f.closure.tree.code /\ <<f, t>> \in judged
    /\ \A q \in qa.known : <<q, q.closure.tree>> \in judged

\* What every process has decided is about the tree it says.
DecisionsOK == \A p \in Procs : pend[p] # None => Decided(pend[p])

\* The inductive invariant of the milestones.
msInv == msTypeOK /\ LedgersOK /\ SourcesOK /\ JudgedOK /\ DecisionsOK

\* A set of numbers that is not empty has a smallest one.
LEMMA Smallest ==
    ASSUME NEW T, T \subseteq Nat, T # {}
    PROVE  \E x \in T : \A y \in T : x <= y
  <1> DEFINE R == {ss \in Nat \X Nat : ss[1] < ss[2]}
  <1>1. IsWellFoundedOn(R, Nat)
    BY NatLessThanWellFounded, Zenon DEF OpToRel
  <1> HIDE DEF R
  <1>2. PICK x \in T : \A y \in T : ~ (<<y, x>> \in R)
    BY <1>1, WFMin, Zenon
  <1>3. ASSUME NEW y \in T PROVE x <= y
    <2>1. ~ (<<y, x>> \in R) /\ x \in Nat /\ y \in Nat
      BY <1>2, <1>3
    <2> QED BY <2>1 DEF R
  <1> QED BY <1>3

\* The occurrence number is found, and the id is new.
LEMMA FreeId ==
    ASSUME NEW known, IsFiniteSet(known), NEW id,
           \A n \in Nat : [id EXCEPT !.n = n].n = n
    PROVE  \E n \in Nat : /\ next_available_history_record_id(known, id) = [id EXCEPT !.n = n]
                          /\ [id EXCEPT !.n = n] \notin known
  <1> DEFINE k == Cardinality(known)
             free == {n \in 1 .. (k + 1) : [id EXCEPT !.n = n] \notin known}
             g == [n \in 1 .. (k + 1) |-> [id EXCEPT !.n = n]]
  <1>1. k \in Nat
    BY FS_CardinalityType
  <1> HIDE DEF k
  <1>2. free # {}
    <2> SUFFICES ASSUME free = {} PROVE FALSE OBVIOUS
    <2>1. g \in [1 .. (k + 1) -> known]
      OBVIOUS
    <2>2. IsFiniteSet(1 .. (k + 1)) /\ Cardinality(1 .. (k + 1)) = k + 1
      <3>1. k + 1 \in Int /\ 1 \in Int BY <1>1
      <3>2. /\ IsFiniteSet(1 .. (k + 1))
            /\ Cardinality(1 .. (k + 1)) = IF 1 > k + 1 THEN 0 ELSE (k + 1) - 1 + 1
        BY <3>1, FS_Interval, Zenon
      <3> QED BY <1>1, <3>2
    <2>3. Cardinality(known) < Cardinality(1 .. (k + 1))
      BY <1>1, <2>2 DEF k
    <2> HIDE DEF g
    <2>4. \E x, y \in 1 .. (k + 1) : x # y /\ g[x] = g[y]
      <3> DEFINE I == 1 .. (k + 1)
      <3>1. IsFiniteSet(I) /\ g \in [I -> known] /\ Cardinality(known) < Cardinality(I)
        BY <2>1, <2>2, <2>3
      <3> HIDE DEF I
      <3>2. \E x, y \in I : x # y /\ g[x] = g[y]
        BY <3>1, FS_PigeonHole
      <3> QED BY <3>2 DEF I
    <2>5. PICK x \in 1 .. (k + 1), y \in 1 .. (k + 1) : x # y /\ g[x] = g[y]
      BY <2>4
    <2>6. g[x] = [id EXCEPT !.n = x] /\ g[y] = [id EXCEPT !.n = y] /\ x \in Nat /\ y \in Nat
      BY <1>1 DEF g
    <2> QED BY <2>5, <2>6
  <1>3. free \subseteq Nat
    BY <1>1
  <1>4. \E n \in free : \A m \in free : n <= m
    <2> HIDE DEF free
    <2> QED BY <1>2, <1>3, Smallest
  <1> DEFINE least == CHOOSE n \in free : \A m \in free : n <= m
  <1>5. least \in free
    BY <1>4
  <1>6. next_available_history_record_id(known, id) = [id EXCEPT !.n = least]
    BY DEF next_available_history_record_id, k
  <1> HIDE DEF least
  <1> QED BY <1>3, <1>5, <1>6

\* A new record becomes the current one of its ledger.
LEMMA InstallKeeps ==
    ASSUME NEW ids, None \notin ids, NEW ledger \in Ledgers(ids), Pointed(ledger), NEW id \in ids
    PROVE  /\ Install(ledger, id) \in Ledgers(ids)
           /\ Pointed(Install(ledger, id))
           /\ Install(ledger, id).known = ledger.known \cup {id}
           /\ IsFiniteSet(ledger.known) => IsFiniteSet(Install(ledger, id).known)
  <1> DEFINE new == Install(ledger, id)
  <1>1. /\ new.id = id /\ new.known = ledger.known \cup {id}
        /\ new.live = (ledger.live \ {ledger.id}) \cup {id}
        /\ new = [id |-> new.id, known |-> new.known, live |-> new.live]
    BY DEF Install
  <1> HIDE DEF new
  <1>2. ledger.known \subseteq ids /\ ledger.live \subseteq ids
    BY DEF Ledgers
  <1>3. new \in Ledgers(ids)
    BY <1>1, <1>2 DEF Ledgers
  <1>4. new.live = {id}
    BY <1>1 DEF Pointed
  <1>5. Pointed(new)
    BY <1>1, <1>4 DEF Pointed
  <1>6. IsFiniteSet(ledger.known) => IsFiniteSet(ledger.known \cup {id})
    BY FS_AddElement
  <1> QED BY <1>1, <1>3, <1>5, <1>6 DEF new

\* Retiring the current record leaves the ledger without one.
LEMMA RetireKeeps ==
    ASSUME NEW ids, NEW ledger \in Ledgers(ids), Pointed(ledger)
    PROVE  /\ Retire(ledger) \in Ledgers(ids)
           /\ Pointed(Retire(ledger))
           /\ Retire(ledger).known = ledger.known
  <1>1. /\ Retire(ledger).id = None /\ Retire(ledger).known = ledger.known
        /\ Retire(ledger).live = ledger.live \ {ledger.id}
        /\ Retire(ledger) \in Ledgers(ids)
    BY DEF Retire, Ledgers
  <1>2. Retire(ledger).live = {}
    BY <1>1 DEF Pointed
  <1> QED BY <1>1, <1>2 DEF Pointed

\* What a route says of the state it is read in.
LEMMA Routed ==
    /\ Route = "branch_closure" => baseline # None /\ baseline.code = tree.code
    /\ Route \in {"release_readiness", "final_review", "qa", "finish_review"} =>
          CurrentBranchClosure # None /\ baseline # None /\ baseline.code = tree.code
    /\ Route \in {"release_readiness", "qa", "finish_review"} => ~Drift
    /\ Route = "qa" => CurrentFinal # None
  <1> DEFINE R == Route
  <1>1. CASE baseline = None \/ ~TaskClosureCurrent
    BY <1>1 DEF Route
  <1>2. CASE baseline # None /\ TaskClosureCurrent
    <2>0. baseline.code = tree.code
      BY <1>2 DEF TaskClosureCurrent
    <2>1. CASE NegativeResult
      BY <1>2, <2>1 DEF Route
    <2>2. CASE ~NegativeResult /\ CurrentBranchClosure = None
      BY <1>2, <2>0, <2>2 DEF Route
    <2>3. CASE ~NegativeResult /\ CurrentBranchClosure # None /\ ~Drift
      <3>1. Route = MilestoneRoute
        BY <1>2, <2>3 DEF Route
      <3>2. MilestoneRoute = "qa" => CurrentFinal # None
        BY DEF MilestoneRoute
      <3>3. MilestoneRoute # "branch_closure"
        BY DEF MilestoneRoute
      <3> QED BY <1>2, <2>0, <2>3, <3>1, <3>2, <3>3
    <2>4. CASE ~NegativeResult /\ CurrentBranchClosure # None /\ Drift
      <3>1. Route \in {"branch_closure", RepairedDriftRoute, "repair"}
        BY <1>2, <2>4 DEF Route
      <3>2. RepairedDriftRoute \in {"final_review", "dispatch", "branch_closure"}
        BY DEF RepairedDriftRoute
      <3> QED BY <1>2, <2>0, <2>4, <3>1, <3>2
    <2> QED BY <2>1, <2>2, <2>3, <2>4
  <1> QED BY <1>1, <1>2

\* The current records are those the pointers name.
LEMMA CurrentIs ==
    ASSUME LedgersOK
    PROVE  /\ CurrentBranchClosure # None =>
                 /\ CurrentBranchClosure = branch.id /\ branch.id \in branch.known /\ branch.id \in branch.live
                 /\ branch.id \in Closures /\ branch.id.source = baseline.n
           /\ CurrentFinal # None =>
                 CurrentFinal = final.id /\ final.id \in FinalIds
  <1>1. \A id \in branch.live : id = branch.id /\ branch.id # None /\ branch.id \in branch.known
    BY DEF LedgersOK, Pointed
  <1>2. branch.known \subseteq Closures /\ final.live \subseteq FinalIds
    BY DEF LedgersOK, Ledgers
  <1>3. CurrentBranchClosure # None =>
            CurrentBranchClosure = branch.id /\ branch.id \in branch.live /\ branch.id.source = baseline.n
    BY DEF CurrentBranchClosure
  <1>4. CurrentFinal # None => CurrentFinal = final.id /\ final.id \in final.live
    BY DEF CurrentFinal
  <1> QED BY <1>1, <1>2, <1>3, <1>4

\* A process decides, or forgets what it decided.
LEMMA PendSet ==
    ASSUME msTypeOK, DecisionsOK, NEW p \in Procs, NEW d \in {None} \cup Pending,
           d # None => Decided(d),
           pend' = [pend EXCEPT ![p] = d]
    PROVE  /\ pend' \in [Procs -> {None} \cup Pending]
           /\ DecisionsOK'
  <1>1. pend' \in [Procs -> {None} \cup Pending]
    BY DEF msTypeOK
  <1>2. \A x \in Procs : pend'[x] = IF x = p THEN d ELSE pend[x]
    BY DEF msTypeOK
  <1>3. ASSUME NEW x \in Procs, pend'[x] # None PROVE Decided(pend'[x])
    BY <1>2, <1>3 DEF DecisionsOK
  <1> QED BY <1>1, <1>3 DEF DecisionsOK, Decided

\* Processes of the budget are processes.
LEMMA ProcIs ==
    ASSUME msTypeOK, NEW p \in budget.procs
    PROVE  p \in Procs
  BY DEF msTypeOK

\* Steps that leave the records, and what they were judged on, alone.
LEMMA RecordsRest ==
    ASSUME LedgersOK, JudgedOK, UNCHANGED <<records, judged>>
    PROVE  LedgersOK' /\ JudgedOK'
  <1>1. branch' = branch /\ release' = release /\ final' = final /\ qa' = qa /\ judged' = judged
    BY DEF records
  <1>2. LedgersOK'
    BY <1>1 DEF LedgersOK
  <1>3. JudgedOK'
    BY <1>1 DEF JudgedOK
  <1> QED BY <1>2, <1>3

\* Edits keep the invariant.
LEMMA EditKeeps ==
    ASSUME msInv, NEW t \in Trees, Edit(t)
    PROVE  msInv'
  <1>0. msTypeOK /\ LedgersOK /\ SourcesOK /\ JudgedOK /\ DecisionsOK BY DEF msInv
  <1>1. /\ budget.edits > 0 /\ tree' = t
        /\ budget' = [budget EXCEPT !.edits = @ - 1]
        /\ UNCHANGED <<tasks, records, dispatch, pend, judged>>
    BY DEF Edit
  <1>2. budget' \in [edits : Nat, negatives : Nat, procs : SUBSET Procs]
    BY <1>0, <1>1 DEF msTypeOK
  <1>3. msTypeOK'
    BY <1>0, <1>1, <1>2 DEF msTypeOK, tasks, dispatch
  <1>4. LedgersOK' /\ JudgedOK'
    BY <1>0, <1>1, RecordsRest
  <1>5. SourcesOK' /\ DecisionsOK'
    BY <1>0, <1>1 DEF SourcesOK, DecisionsOK, tasks, records
  <1> QED BY <1>3, <1>4, <1>5 DEF msInv

\* So does closing the tasks.
LEMMA CloseKeeps ==
    ASSUME msInv, CloseTasks
    PROVE  msInv'
  <1>0. msTypeOK /\ LedgersOK /\ SourcesOK /\ JudgedOK /\ DecisionsOK BY DEF msInv
  <1>1. /\ baseline' = [code |-> tree.code, n |-> closed + 1] /\ closed' = closed + 1
        /\ UNCHANGED <<tree, budget, records, dispatch, pend, judged>>
    BY DEF CloseTasks
  <1>2. tree.code \in Codes /\ closed \in Nat
    BY <1>0 DEF msTypeOK, Trees
  <1>3. baseline' \in [code : Codes, n : Nat] /\ baseline'.n = closed + 1
    BY <1>1, <1>2
  <1>4. msTypeOK'
    BY <1>0, <1>1, <1>2, <1>3 DEF msTypeOK, dispatch
  <1>5. LedgersOK' /\ JudgedOK'
    BY <1>0, <1>1, RecordsRest
  <1>6. branch' = branch
    BY <1>1 DEF records
  <1>7. \A c \in branch.known : c.source \in Nat /\ c.source <= closed
    BY <1>0 DEF SourcesOK, LedgersOK, Ledgers, Closures
  <1>8. SourcesOK'
    BY <1>1, <1>2, <1>3, <1>6, <1>7 DEF SourcesOK
  <1>9. DecisionsOK'
    BY <1>0, <1>1 DEF DecisionsOK
  <1> QED BY <1>4, <1>5, <1>8, <1>9 DEF msInv

\* The milestones are retired and their dispatch is gone.
LEMMA ResetKeeps ==
    ASSUME LedgersOK, JudgedOK, ResetLateStage, judged' = judged
    PROVE  /\ release' \in Ledgers(ReleaseIds) /\ IsFiniteSet(release'.known) /\ Pointed(release')
           /\ final' \in Ledgers(FinalIds) /\ Pointed(final')
           /\ qa' \in Ledgers(QaIds) /\ Pointed(qa')
           /\ JudgedOK'
           /\ lineage' = None /\ dispatched' = dispatched
  <1>1. /\ release' = Retire(release) /\ final' = Retire(final) /\ qa' = Retire(qa)
        /\ lineage' = None /\ dispatched' = dispatched
    BY DEF ResetLateStage, RetireMilestones
  <1>2. release' \in Ledgers(ReleaseIds) /\ Pointed(release') /\ release'.known = release.known
    BY <1>1, RetireKeeps DEF LedgersOK
  <1>3. final' \in Ledgers(FinalIds) /\ Pointed(final') /\ final'.known = final.known
    BY <1>1, RetireKeeps DEF LedgersOK
  <1>4. qa' \in Ledgers(QaIds) /\ Pointed(qa') /\ qa'.known = qa.known
    BY <1>1, RetireKeeps DEF LedgersOK
  <1>5. IsFiniteSet(release'.known)
    BY <1>2 DEF LedgersOK
  <1>6. JudgedOK'
    BY <1>2, <1>3, <1>4 DEF JudgedOK
  <1> QED BY <1>1, <1>2, <1>3, <1>4, <1>5, <1>6

\* Recording a branch closure keeps the invariant.
LEMMA BranchClosureKeeps ==
    ASSUME msInv, NEW p \in budget.procs, RecordBranchClosure(p)
    PROVE  msInv'
  <1>0. msTypeOK /\ LedgersOK /\ SourcesOK /\ JudgedOK /\ DecisionsOK BY DEF msInv
  <1> DEFINE first == [tree |-> tree, source |-> baseline.n, n |-> 1]
             id == next_available_history_record_id(branch.known, first)
  <1>1. /\ Route = "branch_closure"
        /\ branch' = Install(branch, id)
        /\ ResetLateStage
        /\ UNCHANGED <<tree, budget, tasks, pend, judged>>
    BY DEF RecordBranchClosure
  <1>2. baseline # None /\ baseline.code = tree.code /\ baseline.n \in Nat /\ tree \in Trees
    BY <1>0, <1>1, Routed DEF msTypeOK
  <1>3. first \in Closures /\ \A n \in Nat : [first EXCEPT !.n = n].n = n
    BY <1>2 DEF Closures
  <1>4. \A n \in Nat : LET w == [first EXCEPT !.n = n]
                       IN  w \in Closures /\ w.tree = tree /\ w.source = baseline.n
    BY <1>2 DEF Closures
  <1> HIDE DEF first
  <1>5. id \in Closures /\ id.tree = tree /\ id.source = baseline.n
    <2>1. PICK n \in Nat : id = [first EXCEPT !.n = n]
      BY <1>0, <1>3, FreeId DEF LedgersOK
    <2> HIDE DEF id
    <2> QED BY <1>4, <2>1
  <1> HIDE DEF id
  <1>6. /\ branch' \in Ledgers(Closures) /\ Pointed(branch')
        /\ branch'.known = branch.known \cup {id} /\ IsFiniteSet(branch'.known)
    BY <1>0, <1>1, <1>5, InstallKeeps, NoneAssumption DEF LedgersOK
  <1>7. /\ release' \in Ledgers(ReleaseIds) /\ IsFiniteSet(release'.known) /\ Pointed(release')
        /\ final' \in Ledgers(FinalIds) /\ Pointed(final')
        /\ qa' \in Ledgers(QaIds) /\ Pointed(qa')
        /\ JudgedOK'
        /\ lineage' = None /\ dispatched' = dispatched
    BY <1>0, <1>1, ResetKeeps
  <1>8. LedgersOK'
    BY <1>6, <1>7 DEF LedgersOK
  <1>9. msTypeOK'
    BY <1>0, <1>1, <1>7 DEF msTypeOK, tasks
  <1>10. SourcesOK'
    BY <1>0, <1>1, <1>2, <1>5, <1>6 DEF SourcesOK, tasks
  <1>11. DecisionsOK'
    BY <1>0, <1>1 DEF DecisionsOK
  <1> QED BY <1>7, <1>8, <1>9, <1>10, <1>11 DEF msInv

\* So do the decisions made before a claim.
LEMMA DecideKeeps ==
    ASSUME msInv, NEW p \in budget.procs,
           ReadRelease(p) \/ ReadDispatch(p) \/ ReadFinalReview(p)
    PROVE  msInv'
  <1>0. msTypeOK /\ LedgersOK /\ SourcesOK /\ JudgedOK /\ DecisionsOK BY DEF msInv
  <1>1. p \in Procs
    BY <1>0, ProcIs
  <1>2. PICK stage \in {"release_readiness", "dispatch", "final_review"},
             result \in {"none", "ready", "blocked", "pass", "fail"} :
               /\ Decide(p, stage, result)
               /\ stage = "release_readiness" => result \in {"ready", "blocked"}
               /\ stage = "final_review" => result \in {"pass", "fail"}
    BY DEF ReadRelease, ReadDispatch, ReadFinalReview
  <1> DEFINE d == [stage |-> stage, result |-> result, closure |-> CurrentBranchClosure,
                   dispatch |-> IF lineage = None THEN 0 ELSE lineage.dispatch, tree |-> tree]
  <1>3. /\ Route = stage /\ pend' = [pend EXCEPT ![p] = d] /\ Affordable(result)
        /\ UNCHANGED <<tree, tasks, records, dispatch, judged>>
    BY <1>2 DEF Decide
  <1>4. CurrentBranchClosure \in {None} \cup Closures
    BY <1>0, CurrentIs
  <1>5. (IF lineage = None THEN 0 ELSE lineage.dispatch) \in Nat
    BY <1>0 DEF msTypeOK
  <1>6. d \in Pending
    BY <1>0, <1>4, <1>5 DEF Pending, msTypeOK
  <1>7. Decided(d)
    <2>1. ASSUME stage = "release_readiness"
          PROVE  CurrentBranchClosure # None /\ tree = CurrentBranchClosure.tree
      <3>1. CurrentBranchClosure # None /\ ~Drift
        BY <1>3, <2>1, Routed
      <3> QED BY <1>0, <3>1, CurrentIs DEF Drift
    <2>2. ASSUME stage = "final_review"
          PROVE  CurrentBranchClosure # None /\ tree.code = CurrentBranchClosure.tree.code
      <3>1. CurrentBranchClosure # None /\ baseline # None /\ baseline.code = tree.code
        BY <1>3, <2>2, Routed
      <3>2. branch.id \in branch.known /\ branch.id.source = baseline.n /\ CurrentBranchClosure = branch.id
        BY <1>0, <3>1, CurrentIs
      <3> QED BY <1>0, <3>1, <3>2 DEF SourcesOK
    <2> QED BY <1>2, <2>1, <2>2 DEF Decided
  <1> HIDE DEF d
  <1>8. pend' \in [Procs -> {None} \cup Pending] /\ DecisionsOK'
    BY <1>0, <1>1, <1>3, <1>6, <1>7, PendSet
  <1>9. budget' \in [edits : Nat, negatives : Nat, procs : SUBSET Procs]
    BY <1>0, <1>3 DEF Affordable, msTypeOK
  <1>10. msTypeOK'
    BY <1>0, <1>3, <1>8, <1>9 DEF msTypeOK, tasks, dispatch
  <1>11. LedgersOK' /\ JudgedOK'
    BY <1>0, <1>3, RecordsRest
  <1>12. SourcesOK'
    BY <1>0, <1>3 DEF SourcesOK, tasks, records
  <1> QED BY <1>8, <1>10, <1>11, <1>12 DEF msInv

\* Everything but the records, when a process that has decided writes.
LEMMA WritingKeeps ==
    ASSUME msInv, NEW p \in budget.procs, NEW stage, Writing(p, stage),
           lineage' \in {None} \cup [closure : Closures, dispatch : Nat], dispatched' \in Nat
    PROVE  /\ msTypeOK' /\ DecisionsOK'
           /\ UNCHANGED <<tree, baseline, closed>>
           /\ pend[p] \in Pending /\ Decided(pend[p]) /\ pend[p].stage = stage
  <1>0. msTypeOK /\ DecisionsOK BY DEF msInv
  <1>1. p \in Procs
    BY <1>0, ProcIs
  <1>2. /\ pend[p] # None /\ pend[p].stage = stage /\ pend' = [pend EXCEPT ![p] = None]
        /\ UNCHANGED <<tree, budget, baseline, closed>>
    BY DEF Writing, tasks
  <1>3. pend[p] \in Pending /\ Decided(pend[p])
    BY <1>0, <1>1, <1>2 DEF msTypeOK, DecisionsOK
  <1>4. pend' \in [Procs -> {None} \cup Pending] /\ DecisionsOK'
    BY <1>0, <1>1, <1>2, PendSet
  <1>5. msTypeOK'
    BY <1>0, <1>2, <1>4 DEF msTypeOK
  <1> QED BY <1>2, <1>3, <1>4, <1>5

\* Recording release readiness keeps the invariant, though the decision was made
\* on an earlier state.
LEMMA WriteReleaseKeeps ==
    ASSUME msInv, NEW p \in budget.procs, WriteRelease(p)
    PROVE  msInv'
  <1>0. msTypeOK /\ LedgersOK /\ SourcesOK /\ JudgedOK /\ DecisionsOK BY DEF msInv
  <1>1. Writing(p, "release_readiness")
    BY DEF WriteRelease
  <1>2. CASE ReleaseConflicts(p)
    <2>1. UNCHANGED <<records, dispatch, judged>>
      BY <1>2 DEF WriteRelease, record_release_readiness_result
    <2>2. lineage' = lineage /\ dispatched' = dispatched /\ branch' = branch
      BY <2>1 DEF dispatch, records
    <2>3. msTypeOK' /\ DecisionsOK' /\ UNCHANGED <<tree, baseline, closed>>
      BY <1>0, <1>1, <2>2, WritingKeeps DEF msTypeOK
    <2>4. LedgersOK' /\ JudgedOK'
      BY <1>0, <2>1, RecordsRest
    <2>5. SourcesOK'
      BY <1>0, <2>2, <2>3 DEF SourcesOK
    <2> QED BY <2>3, <2>4, <2>5 DEF msInv
  <1>3. CASE ~ReleaseConflicts(p)
    <2> DEFINE first == [closure |-> pend[p].closure, result |-> pend[p].result, n |-> 1]
               id == next_available_history_record_id(release.known, first)
    <2>1. /\ release' = Install(release, id)
          /\ final' = Retire(final) /\ qa' = Retire(qa)
          /\ lineage' = None
          /\ judged' = judged \cup {<<id, pend[p].tree>>}
          /\ UNCHANGED <<branch, dispatched>>
      BY <1>3 DEF WriteRelease, record_release_readiness_result
    <2>2. /\ msTypeOK' /\ DecisionsOK' /\ UNCHANGED <<tree, baseline, closed>>
          /\ pend[p] \in Pending /\ Decided(pend[p]) /\ pend[p].stage = "release_readiness"
      BY <1>0, <1>1, <2>1, WritingKeeps DEF msTypeOK
    <2>3. /\ pend[p].result \in {"ready", "blocked"} /\ pend[p].closure \in Closures
          /\ pend[p].tree = pend[p].closure.tree
      BY <2>2 DEF Decided, Pending
    <2>4. \A n \in Nat : LET w == [first EXCEPT !.n = n]
                         IN  w \in ReleaseIds /\ w.closure = pend[p].closure /\ w.n = n
      BY <2>3 DEF ReleaseIds
    <2> HIDE DEF first
    <2>5. id \in ReleaseIds /\ id.closure = pend[p].closure
      <3>1. PICK n \in Nat : id = [first EXCEPT !.n = n]
        BY <1>0, <2>4, FreeId DEF LedgersOK
      <3> HIDE DEF id
      <3> QED BY <2>4, <3>1
    <2> HIDE DEF id
    <2>6. /\ release' \in Ledgers(ReleaseIds) /\ Pointed(release')
          /\ release'.known = release.known \cup {id} /\ IsFiniteSet(release'.known)
      BY <1>0, <2>1, <2>5, InstallKeeps, NoneAssumption DEF LedgersOK
    <2>7. final' \in Ledgers(FinalIds) /\ Pointed(final') /\ final'.known = final.known
      BY <1>0, <2>1, RetireKeeps DEF LedgersOK
    <2>8. qa' \in Ledgers(QaIds) /\ Pointed(qa') /\ qa'.known = qa.known
      BY <1>0, <2>1, RetireKeeps DEF LedgersOK
    <2>9. LedgersOK'
      BY <1>0, <2>1, <2>6, <2>7, <2>8 DEF LedgersOK
    <2>10. judged \subseteq judged' /\ <<id, id.closure.tree>> \in judged'
      BY <2>1, <2>3, <2>5
    <2>11. JudgedOK'
      BY <1>0, <2>6, <2>7, <2>8, <2>10 DEF JudgedOK
    <2>12. SourcesOK'
      BY <1>0, <2>1, <2>2 DEF SourcesOK
    <2> QED BY <2>2, <2>9, <2>11, <2>12 DEF msInv
  <1> QED BY <1>2, <1>3

\* So does the dispatch of a final review.
LEMMA WriteDispatchKeeps ==
    ASSUME msInv, NEW p \in budget.procs, WriteDispatch(p)
    PROVE  msInv'
  <1>0. msTypeOK /\ LedgersOK /\ SourcesOK /\ JudgedOK /\ DecisionsOK BY DEF msInv
  <1>1. Writing(p, "dispatch") /\ UNCHANGED <<records, judged>>
    BY DEF WriteDispatch
  <1>2. \/ /\ branch.id # None
           /\ lineage' = [closure |-> branch.id, dispatch |-> dispatched + 1]
           /\ dispatched' = dispatched + 1
        \/ lineage' = lineage /\ dispatched' = dispatched
    BY DEF WriteDispatch, dispatch
  <1>3. branch.id \in {None} \cup Closures
    BY <1>0 DEF LedgersOK, Ledgers
  <1>4. lineage' \in {None} \cup [closure : Closures, dispatch : Nat] /\ dispatched' \in Nat
    BY <1>0, <1>2, <1>3 DEF msTypeOK
  <1>5. msTypeOK' /\ DecisionsOK' /\ UNCHANGED <<tree, baseline, closed>>
    BY <1>1, <1>4, WritingKeeps
  <1>6. LedgersOK' /\ JudgedOK'
    BY <1>0, <1>1, RecordsRest
  <1>7. SourcesOK'
    BY <1>0, <1>1, <1>5 DEF SourcesOK, records
  <1> QED BY <1>5, <1>6, <1>7 DEF msInv

\* So does its result.
LEMMA WriteFinalReviewKeeps ==
    ASSUME msInv, NEW p \in budget.procs, WriteFinalReview(p)
    PROVE  msInv'
  <1>0. msTypeOK /\ LedgersOK /\ SourcesOK /\ JudgedOK /\ DecisionsOK BY DEF msInv
  <1>1. Writing(p, "final_review")
    BY DEF WriteFinalReview
  <1>2. CASE FinalReviewRefused(p)
    <2>1. UNCHANGED <<records, dispatch, judged>>
      BY <1>2 DEF WriteFinalReview, record_final_review_result
    <2>2. lineage' = lineage /\ dispatched' = dispatched /\ branch' = branch
      BY <2>1 DEF dispatch, records
    <2>3. msTypeOK' /\ DecisionsOK' /\ UNCHANGED <<tree, baseline, closed>>
      BY <1>0, <1>1, <2>2, WritingKeeps DEF msTypeOK
    <2>4. LedgersOK' /\ JudgedOK'
      BY <1>0, <2>1, RecordsRest
    <2>5. SourcesOK'
      BY <1>0, <2>2, <2>3 DEF SourcesOK
    <2> QED BY <2>3, <2>4, <2>5 DEF msInv
  <1>3. CASE ~FinalReviewRefused(p)
    <2> DEFINE id == [closure |-> pend[p].closure, release |-> release.id,
                      dispatch |-> pend[p].dispatch, result |-> pend[p].result]
    <2>1. /\ final' = Install(final, id)
          /\ qa' = IF final.id = id THEN qa ELSE Retire(qa)
          /\ judged' = judged \cup {<<id, pend[p].tree>>}
          /\ UNCHANGED <<branch, release, lineage, dispatched>>
      BY <1>3 DEF WriteFinalReview, record_final_review_result
    <2>2. /\ msTypeOK' /\ DecisionsOK' /\ UNCHANGED <<tree, baseline, closed>>
          /\ pend[p] \in Pending /\ Decided(pend[p]) /\ pend[p].stage = "final_review"
      BY <1>0, <1>1, <2>1, WritingKeeps DEF msTypeOK
    <2>3. /\ pend[p].result \in {"pass", "fail"} /\ pend[p].closure \in Closures /\ pend[p].dispatch \in Nat
          /\ pend[p].tree \in Trees /\ pend[p].tree.code = pend[p].closure.tree.code
      BY <2>2 DEF Decided, Pending
    <2>4. release.id \in ReleaseIds
      BY <1>0, <1>3 DEF FinalReviewRefused, LedgersOK, Ledgers
    <2>5. id \in FinalIds /\ id.closure = pend[p].closure
      BY <2>3, <2>4 DEF FinalIds
    <2> HIDE DEF id
    <2>6. final' \in Ledgers(FinalIds) /\ Pointed(final') /\ final'.known = final.known \cup {id}
      BY <1>0, <2>1, <2>5, InstallKeeps, NoneAssumption DEF LedgersOK
    <2>7. qa' \in Ledgers(QaIds) /\ Pointed(qa') /\ qa'.known = qa.known
      BY <1>0, <2>1, RetireKeeps DEF LedgersOK
    <2>8. LedgersOK'
      BY <1>0, <2>1, <2>6, <2>7 DEF LedgersOK
    <2>9. judged \subseteq judged' /\ \E t \in Trees : t.code = id.closure.tree.code /\ <<id, t>> \in judged'
      BY <2>1, <2>3, <2>5
    <2>10. JudgedOK'
      BY <1>0, <2>1, <2>6, <2>7, <2>9 DEF JudgedOK
    <2>11. SourcesOK'
      BY <1>0, <2>1, <2>2 DEF SourcesOK
    <2> QED BY <2>2, <2>8, <2>10, <2>11 DEF msInv
  <1> QED BY <1>2, <1>3

\* So does the result of browser QA.
LEMMA QaKeeps ==
    ASSUME msInv, NEW p \in budget.procs, NEW result \in {"pass", "fail"}, RecordQa(p, result)
    PROVE  msInv'
  <1>0. msTypeOK /\ LedgersOK /\ SourcesOK /\ JudgedOK /\ DecisionsOK BY DEF msInv
  <1> DEFINE id == [closure |-> CurrentBranchClosure, final |-> CurrentFinal, result |-> result]
  <1>1. /\ Route = "qa" /\ Affordable(result)
        /\ qa' = Install(qa, id) /\ judged' = judged \cup {<<id, tree>>}
        /\ UNCHANGED <<tree, tasks, branch, release, final, dispatch, pend>>
    BY DEF RecordQa
  <1>2. CurrentBranchClosure # None /\ CurrentFinal # None /\ ~Drift
    BY <1>1, Routed
  <1>3. /\ CurrentBranchClosure \in Closures /\ CurrentBranchClosure.tree = tree
        /\ CurrentFinal \in FinalIds
    BY <1>0, <1>2, CurrentIs DEF Drift
  <1>4. id \in QaIds /\ id.closure.tree = tree
    BY <1>3 DEF QaIds
  <1> HIDE DEF id
  <1>5. qa' \in Ledgers(QaIds) /\ Pointed(qa') /\ qa'.known = qa.known \cup {id}
    BY <1>0, <1>1, <1>4, InstallKeeps, NoneAssumption DEF LedgersOK
  <1>6. LedgersOK'
    BY <1>0, <1>1, <1>5 DEF LedgersOK
  <1>7. JudgedOK'
    BY <1>0, <1>1, <1>4, <1>5 DEF JudgedOK
  <1>8. budget' \in [edits : Nat, negatives : Nat, procs : SUBSET Procs]
    BY <1>0, <1>1 DEF Affordable, msTypeOK
  <1>9. msTypeOK'
    BY <1>0, <1>1, <1>8 DEF msTypeOK, tasks, dispatch
  <1>10. SourcesOK'
    BY <1>0, <1>1 DEF SourcesOK, tasks
  <1>11. DecisionsOK'
    BY <1>0, <1>1 DEF DecisionsOK
  <1> QED BY <1>6, <1>7, <1>9, <1>10, <1>11 DEF msInv

\* Steps that change neither records nor closures, of a process or of nobody.
LEMMA RestKeeps ==
    ASSUME msInv, UNCHANGED <<tree, budget, records, dispatch, judged>>,
           closed' = closed, baseline' \in {baseline, None},
           pend' \in [Procs -> {None} \cup Pending], DecisionsOK'
    PROVE  msInv'
  <1>0. msTypeOK /\ LedgersOK /\ SourcesOK /\ JudgedOK /\ DecisionsOK BY DEF msInv
  <1>1. msTypeOK'
    BY <1>0 DEF msTypeOK, dispatch
  <1>2. LedgersOK' /\ JudgedOK'
    BY <1>0, RecordsRest
  <1>3. SourcesOK'
    BY <1>0 DEF SourcesOK, records
  <1> QED BY <1>1, <1>2, <1>3 DEF msInv

\* The finish review, the repairs that clear no branch closure and a refused
\* claim are such steps.
LEMMA RepairKeeps ==
    ASSUME msInv, NEW p \in budget.procs,
           \/ RecordFinishReview(p) \/ ReadRepair(p) \/ ClearTaskClosure(p)
           \/ PersistFollowUp(p) \/ ClaimRefused(p)
    PROVE  msInv'
  <1>0. msTypeOK /\ DecisionsOK BY DEF msInv
  <1>1. p \in Procs
    BY <1>0, ProcIs
  <1>2. /\ UNCHANGED <<tree, budget, records, dispatch, judged>>
        /\ closed' = closed /\ baseline' \in {baseline, None}
    BY
        DEF RecordFinishReview, ReadRepair, ClearTaskClosure, PersistFollowUp,
            ClaimRefused, tasks
  <1>3. ASSUME NEW stage \in {"follow_up", "clear_task", "clear_branch"}, Repairing(p, stage)
        PROVE  pend' \in [Procs -> {None} \cup Pending] /\ DecisionsOK'
    <2> DEFINE d == [stage |-> stage, result |-> "none", closure |-> None, dispatch |-> 0, tree |-> tree]
    <2>1. d \in Pending /\ Decided(d)
      BY <1>0 DEF Pending, Decided, msTypeOK
    <2>2. pend' = [pend EXCEPT ![p] = d]
      BY <1>3 DEF Repairing
    <2> HIDE DEF d
    <2> QED BY <1>0, <1>1, <2>1, <2>2, PendSet
  <1>4. CASE pend' = pend
    BY <1>0, <1>2, <1>4, RestKeeps DEF msTypeOK, DecisionsOK
  <1>5. CASE pend' = [pend EXCEPT ![p] = None]
    BY <1>0, <1>1, <1>2, <1>5, PendSet, RestKeeps
  <1>6. CASE \E stage \in {"follow_up", "clear_task", "clear_branch"} : Repairing(p, stage)
    BY <1>2, <1>3, <1>6, RestKeeps
  <1>7. \/ pend' = pend \/ pend' = [pend EXCEPT ![p] = None]
        \/ \E stage \in {"follow_up", "clear_task", "clear_branch"} : Repairing(p, stage)
    BY DEF RecordFinishReview, ReadRepair, ClearTaskClosure, PersistFollowUp, ClaimRefused
  <1> QED BY <1>4, <1>5, <1>6, <1>7

\* Clearing a stale branch closure keeps the invariant.
LEMMA ClearBranchKeeps ==
    ASSUME msInv, NEW p \in budget.procs, ClearBranchClosure(p)
    PROVE  msInv'
  <1>0. msTypeOK /\ LedgersOK /\ SourcesOK /\ JudgedOK /\ DecisionsOK BY DEF msInv
  <1>1. Writing(p, "clear_branch") /\ branch' = Retire(branch) /\ ResetLateStage /\ judged' = judged
    BY DEF ClearBranchClosure
  <1>2. branch' \in Ledgers(Closures) /\ Pointed(branch') /\ branch'.known = branch.known
    BY <1>0, <1>1, RetireKeeps DEF LedgersOK
  <1>3. /\ release' \in Ledgers(ReleaseIds) /\ IsFiniteSet(release'.known) /\ Pointed(release')
        /\ final' \in Ledgers(FinalIds) /\ Pointed(final')
        /\ qa' \in Ledgers(QaIds) /\ Pointed(qa')
        /\ JudgedOK'
        /\ lineage' = None /\ dispatched' = dispatched
    BY <1>0, <1>1, ResetKeeps
  <1>4. LedgersOK'
    BY <1>0, <1>2, <1>3 DEF LedgersOK
  <1>5. msTypeOK' /\ DecisionsOK' /\ UNCHANGED <<tree, baseline, closed>>
    BY <1>0, <1>1, <1>3, WritingKeeps DEF msTypeOK
  <1>6. SourcesOK'
    BY <1>0, <1>2, <1>5 DEF SourcesOK
  <1> QED BY <1>3, <1>4, <1>5, <1>6 DEF msInv

\* The invariant holds before the first milestone.
LEMMA msInitially == msInit => msInv
  <1> SUFFICES ASSUME msInit PROVE msInv OBVIOUS
  <1>1. tree \in Trees
    <2>1. PICK c \in Codes, l \in Lates : TRUE
      BY MilestonesAssumption
    <2>2. [code |-> c, late |-> l] \in Trees
      BY <2>1 DEF Trees
    <2>3. (CHOOSE t \in Trees : TRUE) \in Trees
      BY <2>2, Zenon
    <2> QED BY <2>3 DEF msInit
  <1>2. tree.code \in Codes
    BY <1>1 DEF Trees
  <1>3. msTypeOK
    BY <1>1, <1>2, MilestonesAssumption DEF msInit, msTypeOK
  <1>4. \A ids : NoRecords \in Ledgers(ids)
    BY DEF NoRecords, Ledgers
  <1>5. Pointed(NoRecords) /\ NoRecords.known = {} /\ IsFiniteSet(NoRecords.known)
    BY FS_EmptySet DEF NoRecords, Pointed
  <1>6. LedgersOK
    BY <1>4, <1>5 DEF msInit, LedgersOK
  <1>7. JudgedOK /\ SourcesOK
    BY <1>5 DEF msInit, JudgedOK, SourcesOK
  <1>8. DecisionsOK
    BY DEF msInit, DecisionsOK
  <1> QED BY <1>3, <1>6, <1>7, <1>8 DEF msInv

\* The invariant holds for any number of processes, worktree contents, edits and
\* negative results.
THEOREM MilestoneInvariance == msSpec => []msInv
  <1>1. msInit => msInv
    BY msInitially
  <1>2. msInv /\ [msNext]_msVars => msInv'
    <2> SUFFICES ASSUME msInv, [msNext]_msVars PROVE msInv' OBVIOUS
    <2>1. CASE \E t \in Trees : Edit(t)
      BY <2>1, EditKeeps
    <2>2. CASE CloseTasks
      BY <2>2, CloseKeeps
    <2>3. ASSUME NEW p \in budget.procs, Command(p) PROVE msInv'
      BY <2>3, BranchClosureKeeps, DecideKeeps, QaKeeps, RepairKeeps DEF Command
    <2>4. ASSUME NEW p \in budget.procs, Write(p) PROVE msInv'
      BY <2>4, WriteReleaseKeeps, WriteDispatchKeeps, WriteFinalReviewKeeps, RepairKeeps, ClearBranchKeeps
          DEF Write
    <2>5. ASSUME NEW p \in budget.procs, ClaimRefused(p) PROVE msInv'
      BY <2>5, RepairKeeps
    <2>6. CASE UNCHANGED msVars
      <3>1. UNCHANGED <<tree, budget, records, dispatch, judged>> /\ closed' = closed /\ baseline' = baseline /\ pend' = pend
        BY <2>6 DEF msVars, tasks, dispatch, records
      <3> QED BY <3>1, RestKeeps DEF msInv, msTypeOK, DecisionsOK
    <2> QED BY <2>1, <2>2, <2>3, <2>4, <2>5, <2>6 DEF msNext
  <1> QED BY <1>1, <1>2, PTL DEF msSpec

\* In each kind of record at most one is current, and it is the one the state
\* points to, whichever stale decisions are written and whatever repairs clear.
THEOREM Pointers == msSpec => []PointerNamesTheCurrentRecord
  <1>1. msInv => PointerNamesTheCurrentRecord
    BY DEF msInv, LedgersOK, Pointed, PointerNamesTheCurrentRecord
  <1> QED BY <1>1, MilestoneInvariance, PTL

\* The finish gate opens only on a worktree that was reviewed: release readiness
\* and, where required, QA were decided on this very tree, the final review and
\* the task closure on this code, whatever was edited, reverted, reviewed and
\* repaired before, and by whom.
THEOREM FinishReviewed == msSpec => []FinishMeansReviewed
  <1>1. msInv => FinishMeansReviewed
    <2> SUFFICES ASSUME msInv, GateFinishAllowed
                 PROVE  /\ baseline.code = tree.code
                        /\ <<release.id, tree>> \in judged
                        /\ \E t \in Trees : t.code = tree.code /\ <<final.id, t>> \in judged
                        /\ QaRequired => <<qa.id, tree>> \in judged
      BY DEF FinishMeansReviewed
    <2>0. LedgersOK /\ JudgedOK BY DEF msInv
    <2>1. /\ CurrentBranchClosure # None /\ ~Drift
          /\ ReleaseReadyForFinish(CurrentBranchClosure)
          /\ FinalReviewPassForFinish(CurrentBranchClosure)
          /\ QaRequired => BrowserQaPassForFinish(CurrentBranchClosure)
      BY DEF GateFinishAllowed, GateReviewAllowed
    <2>2. CurrentBranchClosure = branch.id /\ branch.id \in branch.live
      BY <2>0, <2>1, CurrentIs
    <2>3. branch.id.tree = tree
      BY <2>1, <2>2 DEF Drift
    <2>4. baseline.code = tree.code
      BY <2>1 DEF CurrentBranchClosure, TaskClosureCurrent
    <2>5. release.id \in release.known /\ release.id.closure = branch.id
      BY <2>0, <2>1, <2>2 DEF ReleaseReadyForFinish, LedgersOK, Pointed
    <2>6. final.id \in final.known /\ final.id.closure = branch.id
      BY <2>0, <2>1, <2>2 DEF FinalReviewPassForFinish, LedgersOK, Pointed
    <2>7. QaRequired => qa.id \in qa.known /\ qa.id.closure = branch.id
      BY <2>0, <2>1, <2>2 DEF BrowserQaPassForFinish, LedgersOK, Pointed
    <2> QED BY <2>0, <2>3, <2>4, <2>5, <2>6, <2>7 DEF JudgedOK
  <1> QED BY <1>1, MilestoneInvariance, PTL
=============================================================================
