----------------------------- MODULE PlanProofs -----------------------------
(***************************************************************************)
(* Proofs about the components that read specs and plans: the way to an    *)
(* implementation (Workflow), the execution topology (PlanTopology) and    *)
(* the parsers of the contract (PlanContract).                             *)
(*                                                                         *)
(* The invariant of the workflow is about texts: a text belongs to one     *)
(* path, so a review whose documents are the present ones is a review of   *)
(* the present plan against its present spec. The invariant of the         *)
(* topology is that a task under way or finished has every task it depends *)
(* on behind it, directly or not. What the strategy's edges are is defined *)
(* by a recursive function over its bullets, about which ListProofs has an *)
(* induction over numbers.                                                 *)
(***************************************************************************)
EXTENDS Workflow, PlanTopology, PlanContract, ListProofs, FiniteSetTheorems

-----------------------------------------------------------------------------
(***************************************************************************)
(* Numbers and finite sets.                                                *)
(***************************************************************************)
\* Min of a set of natural numbers is one of them.
LEMMA MinOfNats ==
    ASSUME NEW S, S \subseteq Nat, S # {}
    PROVE  Min(S) \in S
  BY LeastNat DEF Min

\* Lowest of a set of natural numbers is one of them.
LEMMA LowestOfNats ==
    ASSUME NEW S, S \subseteq Nat, S # {}
    PROVE  Lowest(S) \in S
<1>1. PICK x \in S : \A y \in S : x <= y
  BY LeastNat
<1>2. S \cap (0..(x - 1)) = {}
  <2> SUFFICES ASSUME NEW y \in S, y \in 0..(x - 1) PROVE FALSE
    OBVIOUS
  <2> QED
    BY <1>1
<1> QED
  BY <1>2 DEF Lowest

\* The image of a finite set is finite.
LEMMA FiniteImage ==
    ASSUME NEW f, IsFiniteSet(DOMAIN f), f = [x \in DOMAIN f |-> f[x]]
    PROVE  IsFiniteSet({f[x] : x \in DOMAIN f})
<1> DEFINE T == {f[x] : x \in DOMAIN f}
<1>1. f \in [DOMAIN f -> T]
  OBVIOUS
<1>2. \A t \in T : \E x \in DOMAIN f : f[x] = t
  OBVIOUS
<1> HIDE DEF T
<1>3. f \in Surjection(DOMAIN f, T)
  BY <1>1, <1>2 DEF Surjection
<1>4. IsFiniteSet(T)
  BY <1>3, FS_Surjection
<1> QED
  BY <1>4 DEF T

-----------------------------------------------------------------------------
(***************************************************************************)
(* The way to an implementation.                                           *)
(***************************************************************************)
\* A record with these fields.
Record(d, fields) == DOMAIN d = fields /\ d = [k \in DOMAIN d |-> d[k]]

\* The documents keep their fields.
SpecDoc(d) == Record(d, {"state", "by", "rev", "text", "index"})
\* The fields of a plan.
PlanDoc(d) == Record(d, {"state", "by", "src", "srcRev", "text", "sound"})
\* The fields of a review.
ReviewDoc(r) == Record(r, {"readable", "plan", "spec", "doc", "specDoc", "verdict", "complete"})
\* A manifest names a plan file or none.
ManifestOK(m) == Record(m, {"here", "spec", "plan"}) /\ m.plan \in Nat

\* The documents are finitely many records at numbered paths.
DocsOK ==
    /\ IsFiniteSet(DOMAIN spec) /\ \A s \in DOMAIN spec : SpecDoc(spec[s])
    /\ IsFiniteSet(DOMAIN plan) /\ DOMAIN plan \subseteq Nat \ {0} /\ \A p \in DOMAIN plan : PlanDoc(plan[p])
    /\ IsFiniteSet(DOMAIN reviews) /\ DOMAIN reviews \subseteq Nat
    /\ \A f \in DOMAIN reviews : ReviewDoc(reviews[f])
    /\ IsFiniteSet(passed)

\* The manifest files are records of a manifest each.
ManifestsOK ==
    /\ slug \in Nat
    /\ DOMAIN manifests \subseteq Nat
    /\ \A g \in DOMAIN manifests :
        /\ Record(manifests[g], {"ok", "m"})
        /\ ManifestOK(manifests[g].m)

\* A text is the text of one spec, and a review of that text is a review of that
\* path.
SpecTexts ==
    /\ \A s, t \in DOMAIN spec : spec[s].text = spec[t].text => s = t
    /\ \A f \in DOMAIN reviews : \A s \in DOMAIN spec :
        reviews[f].specDoc.text = spec[s].text => reviews[f].spec = s

\* A text is the text of one plan, and a review of that text is a review of that
\* path.
PlanTexts ==
    /\ \A p, q \in DOMAIN plan : plan[p].text = plan[q].text => p = q
    /\ \A f \in DOMAIN reviews : \A p \in DOMAIN plan :
        reviews[f].doc.text = plan[p].text => reviews[f].plan = p

\* A review is of the approved form of a plan; one that passes it, and is
\* complete, is remembered.
Reviewed ==
    \A f \in DOMAIN reviews :
        /\ reviews[f].doc.state = "Engineering Approved"
        /\ reviews[f].verdict \in {"pass", "fail"}
        /\ reviews[f].verdict = "pass" /\ reviews[f].complete =>
              <<reviews[f].doc, reviews[f].specDoc>> \in passed

\* The inductive invariant of the workflow.
wfInv == DocsOK /\ ManifestsOK /\ SpecTexts /\ PlanTexts /\ Reviewed

\* An edit makes a text that nothing in use has.
LEMMA NewTextIsNew == ASSUME DocsOK PROVE NewText \notin Used
<1> DEFINE a == [s \in DOMAIN spec |-> spec[s].text]
           b == [p \in DOMAIN plan |-> plan[p].text]
           c == [f \in DOMAIN reviews |-> reviews[f].doc.text]
           d == [f \in DOMAIN reviews |-> reviews[f].specDoc.text]
           e == [r \in passed |-> r[1].text]
           g == [r \in passed |-> r[2].text]
           A == {a[x] : x \in DOMAIN a}
           B == {b[x] : x \in DOMAIN b}
           C == {c[x] : x \in DOMAIN c}
           D == {d[x] : x \in DOMAIN d}
           E == {e[x] : x \in DOMAIN e}
           G == {g[x] : x \in DOMAIN g}
<1>1. Used = A \cup B \cup C \cup D \cup E \cup G
  <2>1. A = {spec[s].text : s \in DOMAIN spec} /\ B = {plan[p].text : p \in DOMAIN plan}
    OBVIOUS
  <2>2. C \cup D = UNION {{reviews[f].doc.text, reviews[f].specDoc.text} : f \in DOMAIN reviews}
    OBVIOUS
  <2>3. E \cup G = UNION {{r[1].text, r[2].text} : r \in passed}
    OBVIOUS
  <2> HIDE DEF A, B, C, D, E, G
  <2> QED
    BY <2>1, <2>2, <2>3 DEF Used
<1>2. /\ IsFiniteSet(DOMAIN a) /\ IsFiniteSet(DOMAIN b) /\ IsFiniteSet(DOMAIN c)
      /\ IsFiniteSet(DOMAIN d) /\ IsFiniteSet(DOMAIN e) /\ IsFiniteSet(DOMAIN g)
  BY DEF DocsOK
<1>3. /\ a = [x \in DOMAIN a |-> a[x]] /\ b = [x \in DOMAIN b |-> b[x]]
      /\ c = [x \in DOMAIN c |-> c[x]] /\ d = [x \in DOMAIN d |-> d[x]]
      /\ e = [x \in DOMAIN e |-> e[x]] /\ g = [x \in DOMAIN g |-> g[x]]
  OBVIOUS
<1>4. /\ IsFiniteSet(A) /\ IsFiniteSet(B) /\ IsFiniteSet(C)
      /\ IsFiniteSet(D) /\ IsFiniteSet(E) /\ IsFiniteSet(G)
  <2> HIDE DEF a, b, c, d, e, g
  <2> QED
    BY <1>2, <1>3, FiniteImage
<1>5. IsFiniteSet(Used)
  <2> HIDE DEF A, B, C, D, E, G
  <2>1. IsFiniteSet(A \cup B)
    BY <1>4, FS_Union
  <2>2. IsFiniteSet((A \cup B) \cup C)
    BY <1>4, <2>1, FS_Union
  <2>3. IsFiniteSet((A \cup B \cup C) \cup D)
    BY <1>4, <2>2, FS_Union
  <2>4. IsFiniteSet((A \cup B \cup C \cup D) \cup E)
    BY <1>4, <2>3, FS_Union
  <2>5. IsFiniteSet((A \cup B \cup C \cup D \cup E) \cup G)
    BY <1>4, <2>4, FS_Union
  <2> QED
    BY <1>1, <2>5
<1> HIDE DEF A, B, C, D, E, G, a, b, c, d, e, g
<1> DEFINE n == Cardinality(Used)
<1>6. n \in Nat
  BY <1>5, FS_CardinalityType
<1>7. (1..(n + 1)) \ Used # {}
  <2> SUFFICES ASSUME (1..(n + 1)) \subseteq Used PROVE FALSE
    OBVIOUS
  <2>1. Cardinality(1..(n + 1)) <= n
    BY <1>5, FS_Subset
  <2>2. Cardinality(1..(n + 1)) = n + 1
    BY <1>6, FS_Interval
  <2> QED
    BY <1>6, <2>1, <2>2
<1>8. (1..(n + 1)) \ Used \subseteq Nat
  BY <1>6
<1>9. Lowest((1..(n + 1)) \ Used) \in (1..(n + 1)) \ Used
  BY <1>7, <1>8, LowestOfNats
<1> QED
  BY <1>9 DEF NewText

\* The document at x is an old one or the only new one.
SameText(t, old, path, x) ==
    (x \in DOMAIN old /\ t = old[x].text) \/ (x = path /\ t \notin Used)

\* Changes to plans preserve the invariant if one text at most is new.
LEMMA PlanMoves ==
    ASSUME wfInv, UNCHANGED <<spec, reviews, manifests, slug, passed>>, NEW path,
           IsFiniteSet(DOMAIN plan'), DOMAIN plan' \subseteq Nat \ {0},
           \A p \in DOMAIN plan' : PlanDoc(plan'[p]) /\ SameText(plan'[p].text, plan, path, p)
    PROVE  wfInv'
<1>1. DocsOK' /\ ManifestsOK' /\ SpecTexts' /\ Reviewed'
  BY DEF wfInv, DocsOK, ManifestsOK, SpecTexts, Reviewed
<1>2. \A p, q \in DOMAIN plan' : plan'[p].text = plan'[q].text => p = q
  BY DEF wfInv, PlanTexts, SameText, Used
<1>3. \A f \in DOMAIN reviews' : \A p \in DOMAIN plan' :
        reviews'[f].doc.text = plan'[p].text => reviews'[f].plan = p
  BY DEF wfInv, PlanTexts, SameText, Used
<1> QED
  BY <1>1, <1>2, <1>3 DEF wfInv, PlanTexts

\* Changes to specs preserve the invariant if one text at most is new.
LEMMA SpecMoves ==
    ASSUME wfInv, UNCHANGED <<plan, reviews, manifests, slug, passed>>, NEW path,
           IsFiniteSet(DOMAIN spec'),
           \A s \in DOMAIN spec' : SpecDoc(spec'[s]) /\ SameText(spec'[s].text, spec, path, s)
    PROVE  wfInv'
<1>1. DocsOK' /\ ManifestsOK' /\ PlanTexts' /\ Reviewed'
  BY DEF wfInv, DocsOK, ManifestsOK, PlanTexts, Reviewed
<1>2. \A p, q \in DOMAIN spec' : spec'[p].text = spec'[q].text => p = q
  BY DEF wfInv, SpecTexts, SameText, Used
<1>3. \A f \in DOMAIN reviews' : \A p \in DOMAIN spec' :
        reviews'[f].specDoc.text = spec'[p].text => reviews'[f].spec = p
  BY DEF wfInv, SpecTexts, SameText, Used
<1> QED
  BY <1>1, <1>2, <1>3 DEF wfInv, SpecTexts

\* Writing a plan file.
LEMMA PlanPut ==
    ASSUME wfInv, UNCHANGED <<spec, reviews, manifests, slug, passed>>,
           NEW p \in Nat \ {0}, NEW d, PlanDoc(d), d.text = NewText, plan' = With(plan, p, d)
    PROVE  wfInv'
<1>1. NewText \notin Used
  BY NewTextIsNew DEF wfInv
<1>2. DOMAIN plan' = DOMAIN plan \cup {p} /\ plan'[p] = d
      /\ \A q \in DOMAIN plan : q # p => plan'[q] = plan[q]
  BY DEF With
<1>3. IsFiniteSet(DOMAIN plan')
  BY <1>2, FS_AddElement DEF wfInv, DocsOK
<1>4. DOMAIN plan' \subseteq Nat \ {0}
  BY <1>2 DEF wfInv, DocsOK
<1>5. \A q \in DOMAIN plan' : PlanDoc(plan'[q]) /\ SameText(plan'[q].text, plan, p, q)
  BY <1>1, <1>2 DEF wfInv, DocsOK, SameText
<1> QED
  BY <1>3, <1>4, <1>5, PlanMoves

\* Editing a plan file.
LEMMA PlanEdit ==
    ASSUME wfInv, UNCHANGED <<spec, reviews, manifests, slug, passed>>,
           NEW p, NEW d, plan' = [plan EXCEPT ![p] = d],
           p \in DOMAIN plan => PlanDoc(d) /\ d.text \in {plan[p].text, NewText}
    PROVE  wfInv'
<1>1. NewText \notin Used
  BY NewTextIsNew DEF wfInv
<1>2. DOMAIN plan' = DOMAIN plan
      /\ \A q \in DOMAIN plan : plan'[q] = IF q = p THEN d ELSE plan[q]
  OBVIOUS
<1>3. \A q \in DOMAIN plan' : PlanDoc(plan'[q]) /\ SameText(plan'[q].text, plan, p, q)
  BY <1>1, <1>2 DEF wfInv, DocsOK, SameText
<1> QED
  BY <1>2, <1>3, PlanMoves DEF wfInv, DocsOK

\* Removing plan files.
LEMMA PlanDrop ==
    ASSUME wfInv, UNCHANGED <<spec, reviews, manifests, slug, passed>>,
           NEW S, plan' = Without(plan, S)
    PROVE  wfInv'
<1>1. DOMAIN plan' = DOMAIN plan \ S /\ \A q \in DOMAIN plan \ S : plan'[q] = plan[q]
  BY DEF Without
<1>2. IsFiniteSet(DOMAIN plan')
  BY <1>1, FS_Subset DEF wfInv, DocsOK
<1>3. \A q \in DOMAIN plan' : PlanDoc(plan'[q]) /\ SameText(plan'[q].text, plan, 0, q)
  BY <1>1 DEF wfInv, DocsOK, SameText
<1> QED
  BY <1>1, <1>2, <1>3, PlanMoves DEF wfInv, DocsOK

\* Writing a spec file.
LEMMA SpecPut ==
    ASSUME wfInv, UNCHANGED <<plan, reviews, manifests, slug, passed>>,
           NEW s, NEW d, SpecDoc(d), d.text = NewText, spec' = With(spec, s, d)
    PROVE  wfInv'
<1>1. NewText \notin Used
  BY NewTextIsNew DEF wfInv
<1>2. DOMAIN spec' = DOMAIN spec \cup {s} /\ spec'[s] = d
      /\ \A q \in DOMAIN spec : q # s => spec'[q] = spec[q]
  BY DEF With
<1>3. IsFiniteSet(DOMAIN spec')
  BY <1>2, FS_AddElement DEF wfInv, DocsOK
<1>5. \A q \in DOMAIN spec' : SpecDoc(spec'[q]) /\ SameText(spec'[q].text, spec, s, q)
  BY <1>1, <1>2 DEF wfInv, DocsOK, SameText
<1> QED
  BY <1>3, <1>5, SpecMoves

\* Editing a spec file.
LEMMA SpecEdit ==
    ASSUME wfInv, UNCHANGED <<plan, reviews, manifests, slug, passed>>,
           NEW s, NEW d, spec' = [spec EXCEPT ![s] = d],
           s \in DOMAIN spec => SpecDoc(d) /\ d.text \in {spec[s].text, NewText}
    PROVE  wfInv'
<1>1. NewText \notin Used
  BY NewTextIsNew DEF wfInv
<1>2. DOMAIN spec' = DOMAIN spec
      /\ \A q \in DOMAIN spec : spec'[q] = IF q = s THEN d ELSE spec[q]
  OBVIOUS
<1>3. \A q \in DOMAIN spec' : SpecDoc(spec'[q]) /\ SameText(spec'[q].text, spec, s, q)
  BY <1>1, <1>2 DEF wfInv, DocsOK, SameText
<1> QED
  BY <1>2, <1>3, SpecMoves DEF wfInv, DocsOK

\* Removing spec files.
LEMMA SpecDrop ==
    ASSUME wfInv, UNCHANGED <<plan, reviews, manifests, slug, passed>>,
           NEW S, spec' = Without(spec, S)
    PROVE  wfInv'
<1>1. DOMAIN spec' = DOMAIN spec \ S /\ \A q \in DOMAIN spec \ S : spec'[q] = spec[q]
  BY DEF Without
<1>2. IsFiniteSet(DOMAIN spec')
  BY <1>1, FS_Subset DEF wfInv, DocsOK
<1>3. \A q \in DOMAIN spec' : SpecDoc(spec'[q]) /\ SameText(spec'[q].text, spec, 0, q)
  BY <1>1 DEF wfInv, DocsOK, SameText
<1> QED
  BY <1>1, <1>2, <1>3, SpecMoves DEF wfInv, DocsOK

\* Writing a review, over another or not.
LEMMA ReviewPut ==
    ASSUME wfInv, UNCHANGED <<spec, plan, manifests, slug>>,
           NEW f \in Nat, NEW p \in DOMAIN plan, NEW s \in DOMAIN spec, NEW verdict \in {"pass", "fail"}, NEW complete,
           reviews' = With(reviews, f, Review(p, s, verdict, complete)),
           \/ passed' = passed \cup {<<plan_source_with_workflow_state(p, "Engineering Approved"), spec[s]>>}
           \/ passed' = passed /\ ~(verdict = "pass" /\ complete)
    PROVE  wfInv'
<1> DEFINE r == Review(p, s, verdict, complete)
<1>1. DOMAIN reviews' = DOMAIN reviews \cup {f} /\ reviews'[f] = r
      /\ \A g \in DOMAIN reviews : g # f => reviews'[g] = reviews[g]
  BY DEF With
<1>2. IsFiniteSet(DOMAIN reviews')
  <2>1. IsFiniteSet(DOMAIN reviews)
    BY DEF wfInv, DocsOK
  <2>2. IsFiniteSet(DOMAIN reviews \cup {f})
    BY <2>1, FS_AddElement
  <2> QED
    BY <1>1, <2>2
<1>3. PlanDoc(plan[p])
  BY DEF wfInv, DocsOK
<1>4. /\ ReviewDoc(r) /\ r.plan = p /\ r.spec = s /\ r.specDoc = spec[s] /\ r.verdict = verdict
      /\ r.complete = complete /\ r.doc = plan_source_with_workflow_state(p, "Engineering Approved")
  BY DEF Review, ReviewDoc, Record
<1>5. r.doc.state = "Engineering Approved" /\ r.doc.text = plan[p].text
  BY <1>3, <1>4 DEF PlanDoc, plan_source_with_workflow_state, Record
<1> HIDE DEF r
<1>6. IsFiniteSet(passed') /\ passed \subseteq passed'
  BY FS_AddElement DEF wfInv, DocsOK
<1>7. DocsOK'
  BY <1>1, <1>2, <1>4, <1>6 DEF wfInv, DocsOK
<1>8. SpecTexts' /\ PlanTexts'
  <2>1. \A g \in DOMAIN reviews' : \A t \in DOMAIN spec :
          reviews'[g].specDoc.text = spec[t].text => reviews'[g].spec = t
    <3> SUFFICES ASSUME NEW g \in DOMAIN reviews', NEW t \in DOMAIN spec,
                        reviews'[g].specDoc.text = spec[t].text
                 PROVE  reviews'[g].spec = t
      OBVIOUS
    <3>1. CASE g = f
      BY <1>1, <1>4, <3>1 DEF wfInv, SpecTexts
    <3>2. CASE g # f
      BY <1>1, <3>2 DEF wfInv, SpecTexts
    <3> QED
      BY <3>1, <3>2
  <2>2. \A g \in DOMAIN reviews' : \A q \in DOMAIN plan :
          reviews'[g].doc.text = plan[q].text => reviews'[g].plan = q
    <3> SUFFICES ASSUME NEW g \in DOMAIN reviews', NEW q \in DOMAIN plan,
                        reviews'[g].doc.text = plan[q].text
                 PROVE  reviews'[g].plan = q
      OBVIOUS
    <3>1. CASE g = f
      BY <1>1, <1>4, <1>5, <3>1 DEF wfInv, PlanTexts
    <3>2. CASE g # f
      BY <1>1, <3>2 DEF wfInv, PlanTexts
    <3> QED
      BY <3>1, <3>2
  <2> QED
    BY <2>1, <2>2 DEF wfInv, SpecTexts, PlanTexts
<1>9. Reviewed'
  <2> SUFFICES ASSUME NEW g \in DOMAIN reviews'
               PROVE  /\ reviews'[g].doc.state = "Engineering Approved"
                      /\ reviews'[g].verdict \in {"pass", "fail"}
                      /\ reviews'[g].verdict = "pass" /\ reviews'[g].complete =>
                            <<reviews'[g].doc, reviews'[g].specDoc>> \in passed'
    BY DEF Reviewed
  <2>1. CASE g = f
    BY <1>1, <1>4, <1>5, <2>1
  <2>2. CASE g # f
    BY <1>1, <1>6, <2>2 DEF wfInv, Reviewed
  <2> QED
    BY <2>1, <2>2
<1> QED
  BY <1>7, <1>8, <1>9 DEF wfInv, ManifestsOK

\* Saving a manifest.
LEMMA ManifestPut ==
    ASSUME wfInv, UNCHANGED <<spec, plan, reviews, passed, slug>>,
           NEW m, ManifestOK(m), manifests' = With(manifests, slug, ManifestFile(m))
    PROVE  wfInv'
<1>1. DOMAIN manifests' = DOMAIN manifests \cup {slug} /\ manifests'[slug] = ManifestFile(m)
      /\ \A g \in DOMAIN manifests : g # slug => manifests'[g] = manifests[g]
  BY DEF With
<1>2. Record(ManifestFile(m), {"ok", "m"}) /\ ManifestFile(m).m = m
  BY DEF ManifestFile, Record
<1>3. DOMAIN manifests' \subseteq Nat /\ slug' \in Nat
  BY <1>1 DEF wfInv, ManifestsOK
<1>4. ASSUME NEW g \in DOMAIN manifests'
      PROVE  /\ Record(manifests'[g], {"ok", "m"})
             /\ ManifestOK(manifests'[g].m)
  <2>1. CASE g = slug
    BY <1>1, <1>2, <2>1
  <2>2. CASE g # slug
    BY <1>1, <2>2 DEF wfInv, ManifestsOK
  <2> QED
    BY <2>1, <2>2
<1>5. ManifestsOK'
  BY <1>3, <1>4 DEF ManifestsOK
<1> QED
  BY <1>5 DEF wfInv, DocsOK, SpecTexts, PlanTexts, Reviewed

\* The manifest that is found is one that was saved, or none.
LEMMA Discovered == ASSUME wfInv PROVE ManifestOK(discover)
<1>1. ManifestOK(NoManifest)
  BY DEF NoManifest, ManifestOK, Record
<1> DEFINE ours == {g \in DOMAIN manifests : manifests[g].ok /\ manifests[g].m.here}
<1>2. ours # {} => Lowest(ours) \in ours
  <2>1. ours \subseteq Nat
    BY DEF wfInv, ManifestsOK
  <2> HIDE DEF ours
  <2> QED
    BY <2>1, LowestOfNats
<1>3. ours # {} => Lowest(ours) \in DOMAIN manifests
  BY <1>2
<1>4. \A g \in DOMAIN manifests : ManifestOK(manifests[g].m)
  BY DEF wfInv, ManifestsOK
<1>5. discover = IF slug \in DOMAIN manifests
        THEN IF manifests[slug].ok THEN manifests[slug].m ELSE NoManifest
        ELSE IF ours # {} THEN manifests[Lowest(ours)].m ELSE NoManifest
  BY DEF discover
<1> HIDE DEF ours
<1> QED
  BY <1>1, <1>3, <1>4, <1>5

\* The route of a plan keeps its spec and plan; it is ready only if the plan is
\* approved, its contract valid and the fidelity gate passed.
LEMMA PlanRoute ==
    ASSUME NEW s, NEW p
    PROVE  LET route == route_for_plan_candidate(s, p) IN
           /\ route.spec = s /\ route.plan = p
           /\ route.skill = "plan-fidelity-review" => contract_valid(s, p)
           /\ route.status = "implementation_ready" =>
                 /\ parse_workflow_plan_candidate(p).state # "Draft"
                 /\ contract_valid(s, p)
                 /\ evaluate_plan_fidelity_gate(s, p).state = "pass"
  BY DEF route_for_plan_candidate, route_for_draft_plan_candidate,
         route_for_engineering_approved_plan_candidate, RouteTo

\* The routes that name a plan file that exists.
Selecting(route) == route.status = "implementation_ready" \/ route.skill = "plan-fidelity-review"

\* The route for an approved spec is the route of a plan of it, or names none to
\* review.
LEMMA SpecRoute ==
    ASSUME wfInv, NEW m, m.plan \in Nat, NEW s
    PROVE  LET route == RouteForApprovedSpec(m, s) IN
           /\ route.plan \in Nat
           /\ Selecting(route) => /\ route.plan \in scan_plans
                                  /\ route = route_for_plan_candidate(route.spec, route.plan)
<1> DEFINE exact == {p \in scan_plans : plan[p].src = s}
           selected == m.plan # 0 /\ m.plan \in scan_plans
           route == RouteForApprovedSpec(m, s)
<1>1. scan_plans \subseteq Nat
  BY DEF wfInv, DocsOK, scan_plans
<1>2. scan_plans # {} => Lowest(scan_plans) \in scan_plans
  BY <1>1, LowestOfNats
<1>3. exact # {} => Lowest(exact) \in exact
  BY <1>1, LowestOfNats
<1>4. exact # {} => Lowest(exact) \in scan_plans
  BY <1>3
<1>5. \/ \E p \in scan_plans : route = route_for_plan_candidate(s, p)
      \/ (route.plan \in {0, m.plan} /\ ~Selecting(route))
  <2>1. route = IF ~selected /\ (Cardinality(exact) > 1 \/ (exact = {} /\ Cardinality(scan_plans) > 1))
        THEN RouteTo("spec_approved_needs_plan", "writing-plans", s, 0, "ambiguous_plan_candidates")
        ELSE IF selected THEN route_for_plan_candidate(s, m.plan)
        ELSE IF exact # {} THEN route_for_plan_candidate(s, Lowest(exact))
        ELSE IF scan_plans # {} THEN route_for_plan_candidate(s, Lowest(scan_plans))
        ELSE RouteTo("spec_approved_needs_plan", "writing-plans", s, m.plan,
                     IF m.plan \notin {0} \cup DOMAIN plan THEN "missing_expected_plan" ELSE "")
    BY DEF RouteForApprovedSpec
  <2>2. \A why, p : LET n == RouteTo("spec_approved_needs_plan", "writing-plans", s, p, why)
                    IN  n.plan = p /\ ~Selecting(n)
    BY DEF RouteTo, Selecting
  <2>3. selected => m.plan \in scan_plans
    OBVIOUS
  <2> HIDE DEF exact, selected, route
  <2> QED
    BY <1>2, <1>4, <2>1, <2>2, <2>3
<1>6. ASSUME NEW p \in scan_plans, route = route_for_plan_candidate(s, p)
      PROVE  /\ route.plan \in Nat
             /\ route.plan \in scan_plans
             /\ route = route_for_plan_candidate(route.spec, route.plan)
  <2> HIDE DEF route
  <2>1. route.spec = s /\ route.plan = p
    BY <1>6, PlanRoute
  <2> QED
    BY <1>1, <1>6, <2>1
<1> HIDE DEF route
<1>7. /\ route.plan \in Nat
      /\ Selecting(route) => /\ route.plan \in scan_plans
                             /\ route = route_for_plan_candidate(route.spec, route.plan)
  BY <1>5, <1>6
<1> QED
  BY <1>7 DEF route

\* So is the route for any manifest.
LEMMA AnyRoute ==
    ASSUME wfInv, NEW loaded, ManifestOK(loaded), NEW refresh
    PROVE  LET route == resolve_route(loaded, refresh) IN
           /\ route.plan \in Nat
           /\ Selecting(route) => /\ route.plan \in scan_plans
                                  /\ route = route_for_plan_candidate(route.spec, route.plan)
<1> DEFINE m == matching_manifest(loaded)
           route == resolve_route(loaded, refresh)
<1>1. m.plan \in Nat
  BY DEF matching_manifest, NoManifest, ManifestOK, Record
<1>2. \/ \E s : route = RouteForApprovedSpec(m, s)
      \/ \E status \in {"needs_brainstorming", "spec_draft"},
            skill \in {"brainstorming", "plan-ceo-review"} : \E s, why :
            route = RouteTo(status, skill, s, 0, why)
  BY Zenon DEF resolve_route
<1>3. \A status \in {"needs_brainstorming", "spec_draft"},
         skill \in {"brainstorming", "plan-ceo-review"} : \A s, why :
            LET n == RouteTo(status, skill, s, 0, why) IN n.plan = 0 /\ ~Selecting(n)
  BY DEF RouteTo, Selecting
<1> HIDE DEF m, route
<1>4. CASE \E s : route = RouteForApprovedSpec(m, s)
  BY <1>1, <1>4, SpecRoute DEF route
<1>5. CASE ~\E s : route = RouteForApprovedSpec(m, s)
  BY <1>2, <1>3, <1>5 DEF route
<1> QED
  BY <1>4, <1>5

\* So is the route that every command sees.
LEMMA PresentRoute ==
    ASSUME wfInv
    PROVE  /\ resolve.plan \in Nat
           /\ Selecting(resolve) => /\ resolve.plan \in scan_plans
                                    /\ resolve = route_for_plan_candidate(resolve.spec, resolve.plan)
  BY Discovered, AnyRoute DEF resolve

\* The file the fidelity gate names is a review's.
LEMMA GateFile ==
    ASSUME wfInv, NEW s, NEW p PROVE evaluate_plan_fidelity_gate(s, p).file \in Nat
<1>1. \A report : LET fs == FilesReported(report, s, p) IN fs # {} => Lowest(fs) \in Nat
  <2> SUFFICES ASSUME NEW report, FilesReported(report, s, p) # {}
               PROVE  Lowest(FilesReported(report, s, p)) \in Nat
    OBVIOUS
  <2>1. FilesReported(report, s, p) \subseteq Nat
    BY DEF FilesReported, wfInv, DocsOK
  <2> QED
    BY <2>1, LowestOfNats
<1> QED
  BY <1>1 DEF evaluate_plan_fidelity_gate, evaluate_plan_fidelity_review

\* Nothing is written.
LEMMA wfStart == wfInit => wfInv
<1> SUFFICES ASSUME wfInit PROVE wfInv
  OBVIOUS
<1>1. DOMAIN spec = {} /\ DOMAIN plan = {} /\ DOMAIN reviews = {} /\ DOMAIN manifests = {} /\ passed = {}
  BY DEF wfInit
<1>2. IsFiniteSet({})
  BY FS_EmptySet
<1>3. slug \in Nat
  <2>1. Slugs \subseteq Nat /\ Slugs # {}
    BY WorkflowAssumption
  <2>2. Lowest(Slugs) \in Slugs
    BY <2>1, LowestOfNats
  <2> QED
    BY <2>1, <2>2 DEF wfInit
<1> QED
  BY <1>1, <1>2, <1>3 DEF wfInv, DocsOK, ManifestsOK, SpecTexts, PlanTexts, Reviewed

\* A new spec is a spec document with a new text.
LEMMA NewSpecIsNew == SpecDoc(NewSpec) /\ NewSpec.text = NewText
  BY DEF SpecDoc, NewSpec, Record

\* Returning a spec to its review keeps its text.
LEMMA ReturnStep ==
    ASSUME wfInv, NEW s, ReturnToCeoReview(s), OnlyDocs PROVE wfInv'
<1> DEFINE d == [spec[s] EXCEPT !.state = "Draft", !.by = "plan-ceo-review", !.rev = @ + 1]
<1>1. spec' = [spec EXCEPT ![s] = d]
  BY DEF ReturnToCeoReview
<1>2. ASSUME s \in DOMAIN spec PROVE SpecDoc(d) /\ d.text = spec[s].text
  <2>1. SpecDoc(spec[s])
    BY <1>2 DEF wfInv, DocsOK
  <2> QED
    BY <2>1 DEF SpecDoc, Record
<1> HIDE DEF d
<1> QED
  BY <1>1, <1>2, SpecEdit DEF ReturnToCeoReview, OnlyDocs

\* A new spec.
LEMMA BrainstormStep == ASSUME wfInv, Brainstorm(resolve) PROVE wfInv'
<1>1. PICK s \in SpecPaths \ DOMAIN spec : spec' = With(spec, s, NewSpec)
  BY DEF Brainstorm
<1> QED
  BY <1>1, NewSpecIsNew, SpecPut DEF Brainstorm, OnlyDocs

\* The review of a spec keeps its text, or gives it an index and a new one.
LEMMA CeoReviewStep == ASSUME wfInv, CeoReview(resolve) PROVE wfInv'
<1>1. UNCHANGED <<plan, reviews, manifests, slug, passed>>
  BY DEF CeoReview, OnlyDocs
<1>2. CASE spec' = spec
  BY <1>1, <1>2 DEF wfInv, DocsOK, ManifestsOK, SpecTexts, PlanTexts, Reviewed
<1>3. CASE spec' # spec
  <2> DEFINE s == resolve.spec
             d == [state |-> "CEO Approved", by |-> "plan-ceo-review",
                   rev |-> IF spec[s].rev = 0 THEN 1 ELSE spec[s].rev,
                   text |-> IF spec[s].index THEN spec[s].text ELSE NewText, index |-> TRUE]
  <2>1. spec' = [spec EXCEPT ![s] = d]
    BY <1>3 DEF CeoReview
  <2>2. SpecDoc(d) /\ d.text \in {spec[s].text, NewText}
    BY DEF SpecDoc, Record
  <2> HIDE DEF d
  <2> QED
    BY <1>1, <2>1, <2>2, SpecEdit
<1> QED
  BY <1>2, <1>3

\* A new plan, in a new file or over an old one.
LEMMA WritePlanStep == ASSUME wfInv, WritePlan(resolve) PROVE wfInv'
<1> DEFINE s == resolve.spec
<1>1. CASE ReturnToCeoReview(s)
  BY <1>1, ReturnStep DEF WritePlan
<1>2. ASSUME NEW p \in scan_plans, plan' = Without(plan, scan_plans \ {p}),
             UNCHANGED <<spec, index, reviews, docEdits, passed>>
      PROVE  wfInv'
  BY <1>2, PlanDrop DEF WritePlan, OnlyDocs
<1>3. ASSUME NEW p \in PlanFilesFor(s, resolve.plan),
             UNCHANGED <<spec, index, reviews, docEdits, passed>>,
             plan' = With(plan, p, [state |-> "Draft", by |-> "writing-plans", src |-> s,
                                    srcRev |-> spec[s].rev, text |-> NewText, sound |-> TRUE])
      PROVE  wfInv'
  <2> DEFINE d == [state |-> "Draft", by |-> "writing-plans", src |-> s,
                   srcRev |-> spec[s].rev, text |-> NewText, sound |-> TRUE]
  <2>1. PlanDoc(d) /\ d.text = NewText
    BY DEF PlanDoc, Record
  <2>2. p \in Nat \ {0}
    <3>1. resolve.plan \in Nat
      BY PresentRoute
    <3>2. PlanPaths \subseteq Nat \ {0}
      BY WorkflowAssumption
    <3>3. (p = resolve.plan /\ p # 0) \/ p \in PlanPaths
      BY <1>3 DEF PlanFilesFor
    <3> QED
      BY <3>1, <3>2, <3>3
  <2> HIDE DEF d
  <2>3. plan' = With(plan, p, d)
    BY <1>3 DEF d
  <2>4. UNCHANGED <<spec, reviews, manifests, slug, passed>>
    BY <1>3 DEF WritePlan, OnlyDocs
  <2> QED
    BY <2>1, <2>2, <2>3, <2>4, PlanPut
<1> QED
  BY <1>1, <1>2, <1>3 DEF WritePlan

\* The engineering review approves, hands over or edits.
LEMMA EngReviewStep == ASSUME wfInv, EngReview(resolve) PROVE wfInv'
<1> DEFINE s == resolve.spec
           p == resolve.plan
           Becomes(state, by) == plan' = [plan EXCEPT ![p].state = state, ![p].by = by]
           Edit == plan' = [plan EXCEPT ![p] = [@ EXCEPT !.state = "Draft", !.by = "writing-plans", !.text = NewText,
                                                         !.sound = TRUE, !.srcRev = spec[s].rev]]
           Rest == UNCHANGED <<spec, reviews, manifests, slug, passed>>
<1>1. CASE ReturnToCeoReview(s)
  BY <1>1, ReturnStep DEF EngReview
<1>2. \/ ReturnToCeoReview(s)
      \/ /\ Edit \/ \E state \in {"Draft", "Engineering Approved"} : Becomes(state, "plan-eng-review")
         /\ Rest
  BY DEF EngReview, OnlyDocs
<1>3. ASSUME NEW state, NEW by, Becomes(state, by), Rest PROVE wfInv'
  <2> DEFINE d == [plan[p] EXCEPT !.state = state, !.by = by]
  <2>1. plan' = [plan EXCEPT ![p] = d]
    BY <1>3
  <2>2. ASSUME p \in DOMAIN plan PROVE PlanDoc(d) /\ d.text = plan[p].text
    <3>1. PlanDoc(plan[p])
      BY <2>2 DEF wfInv, DocsOK
    <3> QED
      BY <3>1 DEF PlanDoc, Record
  <2> HIDE DEF d, p
  <2> QED
    BY <1>3, <2>1, <2>2, PlanEdit
<1>4. ASSUME Edit, Rest PROVE wfInv'
  <2> DEFINE d == [plan[p] EXCEPT !.state = "Draft", !.by = "writing-plans", !.text = NewText,
                                  !.sound = TRUE, !.srcRev = spec[s].rev]
  <2>1. plan' = [plan EXCEPT ![p] = d]
    BY <1>4
  <2>2. ASSUME p \in DOMAIN plan PROVE PlanDoc(d) /\ d.text = NewText
    <3>1. PlanDoc(plan[p])
      BY <2>2 DEF wfInv, DocsOK
    <3> QED
      BY <3>1 DEF PlanDoc, Record
  <2> HIDE DEF d, p
  <2> QED
    BY <1>4, <2>1, <2>2, PlanEdit
<1> HIDE DEF Becomes, Edit, Rest
<1> QED
  BY <1>1, <1>2, <1>3, <1>4

\* The fidelity review writes a review of the route's plan and spec, which
\* exist: the route would not ask for it otherwise.
LEMMA FidelityReviewStep == ASSUME wfInv, FidelityReview(resolve) PROVE wfInv'
<1> DEFINE s == resolve.spec
           p == resolve.plan
<1>1. CASE ReturnToCeoReview(s)
  BY <1>1, ReturnStep DEF FidelityReview
<1>2. p \in DOMAIN plan /\ s \in DOMAIN spec
  <2>1. Selecting(resolve)
    BY DEF FidelityReview, Selecting
  <2>2. resolve.plan \in scan_plans /\ resolve = route_for_plan_candidate(resolve.spec, resolve.plan)
    BY <2>1, PresentRoute
  <2>3. resolve.skill = "plan-fidelity-review"
    BY DEF FidelityReview
  <2>4. contract_valid(resolve.spec, resolve.plan)
    BY <2>2, <2>3, PlanRoute
  <2> QED
    BY <2>2, <2>4 DEF contract_valid, scan_plans
<1>3. TemplatePath(s, p) \in Nat
  BY <1>2, GateFile DEF TemplatePath, wfInv, DocsOK
<1>4. UNCHANGED <<manifests, slug>>
  BY DEF FidelityReview, OnlyDocs
<1>5. Review(p, s, "pass", TRUE).doc = plan_source_with_workflow_state(p, "Engineering Approved")
  BY DEF Review
<1>6. \/ ReturnToCeoReview(s)
      \/ /\ reviews' = With(reviews, TemplatePath(s, p), Review(p, s, "pass", TRUE))
         /\ passed' = passed \cup {<<Review(p, s, "pass", TRUE).doc, spec[s]>>}
         /\ UNCHANGED <<spec, plan>>
      \/ /\ reviews' = With(reviews, TemplatePath(s, p), Review(p, s, "fail", TRUE))
         /\ UNCHANGED <<passed, spec, plan>>
  BY DEF FidelityReview
<1> HIDE DEF s, p
<1>7. ASSUME reviews' = With(reviews, TemplatePath(s, p), Review(p, s, "pass", TRUE)),
             passed' = passed \cup {<<Review(p, s, "pass", TRUE).doc, spec[s]>>},
             UNCHANGED <<spec, plan>>
      PROVE  wfInv'
  BY <1>2, <1>3, <1>4, <1>5, <1>7, ReviewPut
<1>8. ASSUME reviews' = With(reviews, TemplatePath(s, p), Review(p, s, "fail", TRUE)),
             UNCHANGED <<passed, spec, plan>>
      PROVE  wfInv'
  <2>1. ~("fail" = "pass" /\ TRUE)
    OBVIOUS
  <2> QED
    BY <1>2, <1>3, <1>4, <1>8, <2>1, ReviewPut
<1> QED
  BY <1>1, <1>6, <1>7, <1>8

\* People write, edit and remove specs.
LEMMA EditSpecStep ==
    ASSUME wfInv, NEW s, EditSpec(s), UNCHANGED <<manifests, slug, passed>> PROVE wfInv'
<1>1. UNCHANGED <<plan, reviews, manifests, slug, passed>>
  BY DEF EditSpec
<1>2. CASE spec' = With(spec, s, NewSpec)
  BY <1>1, <1>2, NewSpecIsNew, SpecPut
<1>3. CASE spec' = Without(spec, {s})
  BY <1>1, <1>3, SpecDrop
<1> DEFINE ds == {[spec[s] EXCEPT !.text = NewText],
                  [spec[s] EXCEPT !.text = NewText, !.index = FALSE],
                  [spec[s] EXCEPT !.text = NewText, !.rev = @ + 1],
                  [spec[s] EXCEPT !.rev = 0],
                  [spec[s] EXCEPT !.state = "Implementation Target", !.by = "clean-context review loop"]}
<1>4. ASSUME NEW d \in ds, s \in DOMAIN spec, spec' = [spec EXCEPT ![s] = d] PROVE wfInv'
  <2>1. SpecDoc(spec[s])
    BY <1>4 DEF wfInv, DocsOK
  <2>2. SpecDoc(d) /\ d.text \in {spec[s].text, NewText}
    BY <2>1 DEF SpecDoc, Record
  <2> HIDE DEF ds
  <2> QED
    BY <1>1, <1>4, <2>2, SpecEdit
<1>5. \/ spec' = With(spec, s, NewSpec)
      \/ spec' = Without(spec, {s})
      \/ s \in DOMAIN spec /\ \E d \in ds : spec' = [spec EXCEPT ![s] = d]
  BY DEF EditSpec
<1> HIDE DEF ds
<1> QED
  BY <1>2, <1>3, <1>4, <1>5

\* People edit and remove plans.
LEMMA EditPlanStep ==
    ASSUME wfInv, NEW p, EditPlan(p), UNCHANGED <<manifests, slug, passed>> PROVE wfInv'
<1>1. UNCHANGED <<spec, reviews, manifests, slug, passed>>
  BY DEF EditPlan
<1>2. CASE plan' = Without(plan, {p})
  BY <1>1, <1>2, PlanDrop
<1> DEFINE ds == {[plan[p] EXCEPT !.text = NewText], [plan[p] EXCEPT !.text = NewText, !.sound = FALSE],
                  [plan[p] EXCEPT !.by = "none"], [plan[p] EXCEPT !.state = "none"],
                  [plan[p] EXCEPT !.state = "Engineering Approved", !.by = "plan-eng-review"],
                  [plan[p] EXCEPT !.srcRev = 0]}
<1>3. ASSUME NEW d \in ds, p \in DOMAIN plan, plan' = [plan EXCEPT ![p] = d] PROVE wfInv'
  <2>1. PlanDoc(plan[p])
    BY <1>3 DEF wfInv, DocsOK
  <2>2. PlanDoc(d) /\ d.text \in {plan[p].text, NewText}
    BY <2>1 DEF PlanDoc, Record
  <2> HIDE DEF ds
  <2> QED
    BY <1>1, <1>3, <2>2, PlanEdit
<1>4. \/ plan' = Without(plan, {p})
      \/ p \in DOMAIN plan /\ \E d \in ds : plan' = [plan EXCEPT ![p] = d]
  BY DEF EditPlan
<1> HIDE DEF ds
<1> QED
  BY <1>2, <1>3, <1>4

\* A review by another reviewer.
LEMMA OtherReviewStep ==
    ASSUME wfInv, NEW f \in Nat, OtherReview(f), UNCHANGED <<manifests, slug>> PROVE wfInv'
<1>1. PICK p \in DOMAIN plan, verdict \in {"pass", "fail"}, complete \in BOOLEAN :
        /\ plan[p].src \in DOMAIN spec
        /\ reviews' = With(reviews, f, Review(p, plan[p].src, verdict, complete))
        /\ passed' = IF verdict = "pass" /\ complete
                     THEN passed \cup {<<plan_source_with_workflow_state(p, "Engineering Approved"), spec[plan[p].src]>>}
                     ELSE passed
  BY DEF OtherReview
<1>2. UNCHANGED <<spec, plan, manifests, slug>>
  BY DEF OtherReview
<1> DEFINE s == plan[p].src
<1>3. /\ s \in DOMAIN spec
      /\ reviews' = With(reviews, f, Review(p, s, verdict, complete))
      /\ \/ passed' = passed \cup {<<plan_source_with_workflow_state(p, "Engineering Approved"), spec[s]>>}
         \/ passed' = passed /\ ~(verdict = "pass" /\ complete)
  BY <1>1
<1> HIDE DEF s
<1> QED
  BY <1>2, <1>3, ReviewPut

\* A review that no longer reads keeps what it said.
LEMMA BreakReviewStep ==
    ASSUME wfInv, NEW f, BreakReview(f), UNCHANGED <<manifests, slug, passed>> PROVE wfInv'
<1> DEFINE r == [reviews[f] EXCEPT !.readable = FALSE]
<1>1. reviews' = [reviews EXCEPT ![f] = r] /\ f \in DOMAIN reviews /\ UNCHANGED <<spec, plan>>
  BY DEF BreakReview
<1>2. ReviewDoc(reviews[f])
  BY <1>1 DEF wfInv, DocsOK
<1>3. /\ ReviewDoc(r) /\ r.plan = reviews[f].plan /\ r.spec = reviews[f].spec /\ r.doc = reviews[f].doc
      /\ r.specDoc = reviews[f].specDoc /\ r.verdict = reviews[f].verdict
      /\ r.complete = reviews[f].complete
  BY <1>2 DEF ReviewDoc, Record
<1> HIDE DEF r
<1>4. DOMAIN reviews' = DOMAIN reviews
      /\ \A g \in DOMAIN reviews : reviews'[g] = IF g = f THEN r ELSE reviews[g]
  BY <1>1
<1>5. DocsOK'
  BY <1>1, <1>3, <1>4 DEF wfInv, DocsOK
<1>6. \A g \in DOMAIN reviews :
        /\ reviews'[g].plan = reviews[g].plan /\ reviews'[g].spec = reviews[g].spec
        /\ reviews'[g].doc = reviews[g].doc /\ reviews'[g].specDoc = reviews[g].specDoc
        /\ reviews'[g].verdict = reviews[g].verdict /\ reviews'[g].complete = reviews[g].complete
  BY <1>3, <1>4
<1>7. DOMAIN reviews' = DOMAIN reviews /\ UNCHANGED <<spec, plan, passed>>
  BY <1>1, <1>4
<1>8. SpecTexts' /\ PlanTexts' /\ Reviewed'
  <2> HIDE <1>1, <1>4
  <2>1. SpecTexts'
    BY <1>6, <1>7 DEF wfInv, SpecTexts
  <2>2. PlanTexts'
    BY <1>6, <1>7 DEF wfInv, PlanTexts
  <2>3. Reviewed'
    BY <1>6, <1>7 DEF wfInv, Reviewed
  <2> QED
    BY <2>1, <2>2, <2>3
<1> QED
  BY <1>5, <1>8 DEF wfInv, ManifestsOK

\* The remote is renamed, the limit changes, the manifest breaks or is foreign.
LEMMA ManifestStep == ASSUME wfInv, ManifestChanges PROVE wfInv'
<1>1. UNCHANGED <<spec, plan, reviews, passed>>
  BY DEF ManifestChanges, docVars
<1>2. CASE slug' \in Slugs \ {slug} /\ UNCHANGED manifests
  <2>1. slug' \in Nat
    BY <1>2, WorkflowAssumption
  <2> QED
    BY <1>1, <1>2, <2>1 DEF wfInv, DocsOK, ManifestsOK, SpecTexts, PlanTexts, Reviewed
<1>3. CASE UNCHANGED <<manifests, slug>>
  BY <1>1, <1>3 DEF wfInv, DocsOK, ManifestsOK, SpecTexts, PlanTexts, Reviewed
<1>4. CASE slug \in DOMAIN manifests /\ manifests' = [manifests EXCEPT ![slug].ok = FALSE] /\ slug' = slug
  <2> DEFINE n == [manifests[slug] EXCEPT !.ok = FALSE]
  <2>1. manifests' = [manifests EXCEPT ![slug] = n]
    BY <1>4
  <2>2. Record(n, {"ok", "m"}) /\ n.m = manifests[slug].m
    <3>1. Record(manifests[slug], {"ok", "m"})
      BY <1>4 DEF wfInv, ManifestsOK
    <3> QED
      BY <3>1 DEF Record
  <2> HIDE DEF n
  <2>3. ManifestsOK'
    BY <1>4, <2>1, <2>2 DEF wfInv, ManifestsOK
  <2> QED
    BY <1>1, <2>3 DEF wfInv, DocsOK, SpecTexts, PlanTexts, Reviewed
<1>5. ASSUME NEW s \in SpecPaths, slug' = slug,
             manifests' = With(manifests, slug, ManifestFile([here |-> FALSE, spec |-> s, plan |-> 0]))
      PROVE  wfInv'
  <2>1. ManifestOK([here |-> FALSE, spec |-> s, plan |-> 0])
    BY DEF ManifestOK, Record
  <2> QED
    BY <1>1, <1>5, <2>1, ManifestPut
<1> QED
  BY <1>2, <1>3, <1>4, <1>5 DEF ManifestChanges

\* Saving a manifest that names numbered paths.
LEMMA SaveStep == ASSUME wfInv, NEW m, ManifestOK(m), save_manifest(m) PROVE wfInv'
  BY ManifestPut DEF save_manifest, docVars

\* The manifest that expect and sync start from.
LEMMA LoadedIsOK == ASSUME wfInv PROVE ManifestOK(LoadedOrNew)
  BY Discovered DEF LoadedOrNew, NoManifest, ManifestOK, Record

\* Every skill, person and command preserves the invariant.
LEMMA wfStep == wfInv /\ [wfNext]_wfVars => wfInv'
<1> SUFFICES ASSUME wfInv, [wfNext]_wfVars PROVE wfInv'
  OBVIOUS
<1>1. CASE Skills
  BY <1>1, BrainstormStep, CeoReviewStep, WritePlanStep, EngReviewStep, FidelityReviewStep DEF Skills
<1>2. CASE People
  <2>1. UNCHANGED <<manifests, slug>>
    BY <1>2 DEF People
  <2>2. ReviewFiles \subseteq Nat
    BY WorkflowAssumption
  <2>3. CASE \E s \in SpecPaths : EditSpec(s) /\ UNCHANGED passed
    BY <2>1, <2>3, EditSpecStep
  <2>4. CASE \E p \in PlanPaths : EditPlan(p) /\ UNCHANGED passed
    BY <2>1, <2>4, EditPlanStep
  <2>5. CASE \E f \in ReviewFiles : OtherReview(f)
    BY <2>1, <2>2, <2>5, OtherReviewStep
  <2>6. CASE \E f \in ReviewFiles : BreakReview(f) /\ UNCHANGED passed
    BY <2>1, <2>6, BreakReviewStep
  <2>7. CASE ListSpecs /\ UNCHANGED passed
    BY <2>1, <2>7 DEF ListSpecs, wfInv, DocsOK, ManifestsOK, SpecTexts, PlanTexts, Reviewed
  <2> QED
    BY <1>2, <2>3, <2>4, <2>5, <2>6, <2>7 DEF People
<1>3. CASE ManifestChanges
  BY <1>3, ManifestStep
<1>4. CASE Discover
  <2>1. manifests' = Without(manifests, {slug}) /\ UNCHANGED <<spec, plan, reviews, passed, slug>>
    BY <1>4 DEF Discover, docVars
  <2>2. DOMAIN manifests' \subseteq DOMAIN manifests
        /\ \A g \in DOMAIN manifests' : manifests'[g] = manifests[g]
    BY <2>1 DEF Without
  <2>3. ManifestsOK'
    BY <2>1, <2>2 DEF wfInv, ManifestsOK
  <2> QED
    BY <2>1, <2>3 DEF wfInv, DocsOK, SpecTexts, PlanTexts, Reviewed
<1>5. CASE status_refresh
  <2> DEFINE route == resolve_route(discover, TRUE)
             m == [here |-> TRUE, spec |-> route.spec, plan |-> route.plan]
  <2>1. route.plan \in Nat
    BY Discovered, AnyRoute
  <2>2. save_manifest(m)
    BY <1>5 DEF status_refresh
  <2> HIDE DEF route
  <2>3. ManifestOK(m)
    BY <2>1 DEF ManifestOK, Record
  <2> HIDE DEF m
  <2> QED
    BY <2>2, <2>3, SaveStep
<1>6. ASSUME NEW s \in SpecPaths, expect_spec(s) \/ sync_spec(s) PROVE wfInv'
  <2>1. ManifestOK([LoadedOrNew EXCEPT !.spec = s, !.plan = 0]) /\ ManifestOK([LoadedOrNew EXCEPT !.spec = s])
    BY LoadedIsOK DEF ManifestOK, Record
  <2> QED
    BY <1>6, <2>1, SaveStep DEF expect_spec, sync_spec
<1>7. ASSUME NEW p \in PlanPaths, expect_plan(p) \/ sync_plan(p) PROVE wfInv'
  <2>1. p \in Nat
    BY WorkflowAssumption
  <2>2. ManifestOK([LoadedOrNew EXCEPT !.plan = p])
    BY <2>1, LoadedIsOK DEF ManifestOK, Record
  <2> QED
    BY <1>7, <2>2, SaveStep DEF expect_plan, sync_plan
<1>8. CASE UNCHANGED wfVars
  BY <1>8 DEF wfVars, wfInv, DocsOK, ManifestsOK, SpecTexts, PlanTexts, Reviewed
<1> QED
  BY <1>1, <1>2, <1>3, <1>4, <1>5, <1>6, <1>7, <1>8 DEF wfNext

\* Texts identify paths and passing reviews are remembered, whatever skills,
\* people and commands do.
THEOREM WorkflowInvariance == wfSpec => []wfInv
  BY wfStart, wfStep, PTL DEF wfSpec

\* If the fidelity gate passes an approved plan, a reviewer passed exactly the
\* plan and spec that are there, and no other current review disagrees:
\* evaluate_plan_fidelity_review refuses conflicting reports, and of the
\* fingerprints it accepts only the present one is of an approved plan.
LEMMA PassedByReview ==
    ASSUME wfInv, NEW s, NEW p \in DOMAIN plan,
           parse_workflow_plan_candidate(p).state # "Draft",
           evaluate_plan_fidelity_gate(s, p).state = "pass"
    PROVE  /\ spec[s].state = "CEO Approved" /\ spec[s].by = "plan-ceo-review"
           /\ <<plan[p], spec[s]>> \in passed
           /\ \A f \in DOMAIN reviews :
                reviews[f].readable /\ reviews[f].plan = p /\ reviews[f].spec = s
                /\ reviews[f].doc = plan[p] /\ reviews[f].specDoc = spec[s] => reviews[f].verdict = "pass"
<1> DEFINE current == FilesReported({"pass", "fail", "invalid"}, s, p)
           reports == {ReportOf(f, s, p) : f \in current}
<1>1. evaluate_plan_fidelity_review(s, p).state = "pass"
  BY DEF evaluate_plan_fidelity_gate
<1>2. current # {} /\ ReportOf(Lowest(current), s, p) = "pass" /\ ~(Cardinality(reports) > 1)
  BY <1>1 DEF evaluate_plan_fidelity_review
<1>3. current \subseteq DOMAIN reviews /\ current \subseteq Nat
  BY DEF FilesReported, wfInv, DocsOK
<1>4. Lowest(current) \in current
  <2> HIDE DEF current
  <2> QED
    BY <1>2, <1>3, LowestOfNats
<1> DEFINE f == Lowest(current)
           r == reviews[f]
<1>5. f \in DOMAIN reviews /\ ReportOf(f, s, p) = "pass"
  <2> HIDE DEF current
  <2> QED
    BY <1>2, <1>3, <1>4
<1> HIDE DEF f
<1>6. /\ r.readable /\ r.complete /\ r.verdict = "pass"
      /\ spec[s].state = "CEO Approved" /\ spec[s].by = "plan-ceo-review"
      /\ r.doc \in plan_fidelity_accepted_plan_fingerprints(p) /\ r.specDoc = spec[s]
  BY <1>5 DEF ReportOf, evaluate_parsed_plan_fidelity_review_artifact, StaleBinding
<1>7. r.doc.state = "Engineering Approved" /\ <<r.doc, r.specDoc>> \in passed
  BY <1>5, <1>6 DEF wfInv, Reviewed
<1>8. plan[p].state = "Engineering Approved"
  BY DEF parse_workflow_plan_candidate, plan_last_reviewer_is_valid_for_state
<1>9. r.doc = plan[p]
  <2>1. PlanDoc(plan[p])
    BY DEF wfInv, DocsOK
  <2>2. r.doc = plan[p] \/ r.doc = [plan[p] EXCEPT !.state = "Draft"]
        \/ r.doc = [plan[p] EXCEPT !.state = "Engineering Approved"]
    BY <1>6 DEF plan_fidelity_accepted_plan_fingerprints, plan_source_with_workflow_state
  <2> HIDE DEF r
  <2>3. [plan[p] EXCEPT !.state = "Draft"].state = "Draft"
    BY <2>1 DEF PlanDoc, Record
  <2>4. [plan[p] EXCEPT !.state = "Engineering Approved"] = plan[p]
    BY <1>8, <2>1 DEF PlanDoc, Record
  <2> QED
    BY <1>7, <2>2, <2>3, <2>4
<1>10. ASSUME NEW g \in DOMAIN reviews, reviews[g].readable, reviews[g].plan = p, reviews[g].spec = s,
              reviews[g].doc = plan[p], reviews[g].specDoc = spec[s], reviews[g].verdict # "pass"
       PROVE  FALSE
  <2>1. ReportOf(g, s, p) \in {"invalid", reviews[g].verdict}
    BY <1>6, <1>10 DEF ReportOf, evaluate_parsed_plan_fidelity_review_artifact, StaleBinding,
                       plan_fidelity_accepted_plan_fingerprints
  <2>2. reviews[g].verdict = "fail"
    BY <1>10 DEF wfInv, Reviewed
  <2>3. ReportOf(g, s, p) \in {"invalid", "fail"}
    BY <2>1, <2>2
  <2>4. g \in current
    BY <2>3 DEF FilesReported
  <2>5. ReportOf(g, s, p) \in reports
    BY <2>4
  <2>6. "pass" \in reports
    <3>1. ReportOf(Lowest(current), s, p) \in reports
      BY <1>4, Zenon
    <3> HIDE DEF current, reports
    <3> QED
      BY <1>2, <3>1
  <2>7. reports \subseteq {"pass", "fail", "invalid"}
    <3> SUFFICES ASSUME NEW h \in current PROVE ReportOf(h, s, p) \in {"pass", "fail", "invalid"}
      BY Zenon
    <3> QED
      BY DEF FilesReported
  <2> HIDE DEF reports, current
  <2>8. PICK other : other \in reports /\ other # "pass"
    BY <2>3, <2>5
  <2>9. IsFiniteSet({"pass"}) /\ Cardinality({"pass"}) = 1
    BY FS_Singleton
  <2>10. IsFiniteSet({"pass"} \cup {other}) /\ Cardinality({"pass"} \cup {other}) = 2
    <3>1. /\ IsFiniteSet({"pass"} \cup {other})
          /\ Cardinality({"pass"} \cup {other}) =
                IF other \in {"pass"} THEN Cardinality({"pass"}) ELSE Cardinality({"pass"}) + 1
      BY <2>9, FS_AddElement
    <3>2. other \notin {"pass"}
      BY <2>8
    <3> QED
      BY <2>9, <3>1, <3>2
  <2>11. IsFiniteSet(reports)
    <3>1. IsFiniteSet({"pass"} \cup {"fail"})
      BY <2>9, FS_AddElement
    <3>2. IsFiniteSet(({"pass"} \cup {"fail"}) \cup {"invalid"})
      BY <3>1, FS_AddElement
    <3>3. reports \subseteq ({"pass"} \cup {"fail"}) \cup {"invalid"}
      BY <2>7
    <3> QED
      BY <3>2, <3>3, FS_Subset
  <2>12. {"pass"} \cup {other} \subseteq reports
    BY <2>6, <2>8
  <2>13. Cardinality(reports) \in Nat /\ 2 <= Cardinality(reports)
    BY <2>10, <2>11, <2>12, FS_Subset, FS_CardinalityType
  <2> QED
    BY <1>2, <2>13
<1> QED
  BY <1>6, <1>7, <1>9, <1>10

\* A plan whose route is ready is reviewed.
LEMMA ReadyRoute ==
    ASSUME wfInv, NEW s, NEW p, p \in scan_plans,
           route_for_plan_candidate(s, p).status = "implementation_ready"
    PROVE  /\ spec[s].state = "CEO Approved" /\ spec[s].by = "plan-ceo-review" /\ spec[s].index
           /\ plan[p].state = "Engineering Approved" /\ plan[p].by = "plan-eng-review" /\ plan[p].sound
           /\ plan[p].src = s /\ plan[p].srcRev = spec[s].rev
           /\ <<plan[p], spec[s]>> \in passed
           /\ \A f \in DOMAIN reviews :
                reviews[f].readable /\ reviews[f].doc = plan[p] /\ reviews[f].specDoc = spec[s]
                => reviews[f].verdict = "pass"
<1>1. p \in DOMAIN plan
  BY DEF scan_plans
<1>2. /\ parse_workflow_plan_candidate(p).state # "Draft"
      /\ contract_valid(s, p)
      /\ evaluate_plan_fidelity_gate(s, p).state = "pass"
  BY PlanRoute
<1>3. /\ s \in DOMAIN spec /\ spec[s].index /\ plan[p].sound /\ plan[p].src = s
      /\ plan[p].srcRev = spec[s].rev
  BY <1>2 DEF contract_valid
<1>4. plan[p].state = "Engineering Approved" /\ plan[p].by = "plan-eng-review"
  BY <1>2 DEF parse_workflow_plan_candidate, plan_last_reviewer_is_valid_for_state
<1>5. /\ spec[s].state = "CEO Approved" /\ spec[s].by = "plan-ceo-review"
      /\ <<plan[p], spec[s]>> \in passed
      /\ \A f \in DOMAIN reviews :
           reviews[f].readable /\ reviews[f].plan = p /\ reviews[f].spec = s
           /\ reviews[f].doc = plan[p] /\ reviews[f].specDoc = spec[s] => reviews[f].verdict = "pass"
  BY <1>1, <1>2, PassedByReview
<1>6. ASSUME NEW f \in DOMAIN reviews, reviews[f].doc = plan[p], reviews[f].specDoc = spec[s]
      PROVE  reviews[f].plan = p /\ reviews[f].spec = s
  BY <1>1, <1>3, <1>6 DEF wfInv, PlanTexts, SpecTexts
<1> QED
  BY <1>3, <1>4, <1>5, <1>6

\* The invariant implies the property.
LEMMA ReadyIsReviewed == wfInv => ReadyMeansReviewed
<1> SUFFICES ASSUME wfInv,
                    NEW route \in {resolve} \cup {explicit_plan_override_route(p) : p \in scan_plans},
                    route.status = "implementation_ready"
             PROVE  /\ spec[route.spec].state = "CEO Approved" /\ spec[route.spec].by = "plan-ceo-review"
                    /\ spec[route.spec].index
                    /\ plan[route.plan].state = "Engineering Approved"
                    /\ plan[route.plan].by = "plan-eng-review" /\ plan[route.plan].sound
                    /\ plan[route.plan].src = route.spec /\ plan[route.plan].srcRev = spec[route.spec].rev
                    /\ <<plan[route.plan], spec[route.spec]>> \in passed
                    /\ \A f \in DOMAIN reviews :
                        reviews[f].readable /\ reviews[f].doc = plan[route.plan]
                        /\ reviews[f].specDoc = spec[route.spec] => reviews[f].verdict = "pass"
  BY DEF ReadyMeansReviewed, Ready
<1>1. route.plan \in scan_plans /\ route = route_for_plan_candidate(route.spec, route.plan)
  <2>1. CASE route = resolve
    BY <2>1, PresentRoute DEF Selecting
  <2>2. ASSUME NEW p \in scan_plans, route = explicit_plan_override_route(p)
        PROVE  route.plan \in scan_plans /\ route = route_for_plan_candidate(route.spec, route.plan)
    <3>1. route = route_for_plan_candidate(plan[p].src, p)
      BY <2>2 DEF explicit_plan_override_route
    <3>2. route.plan = p /\ route.spec = plan[p].src
      BY <3>1, PlanRoute
    <3> QED
      BY <3>1, <3>2
  <2> QED
    BY <2>1, <2>2
<1> DEFINE s == route.spec
           p == route.plan
<1>2. p \in scan_plans /\ route_for_plan_candidate(s, p).status = "implementation_ready"
  BY <1>1
<1> HIDE DEF s, p
<1>3. /\ spec[s].state = "CEO Approved" /\ spec[s].by = "plan-ceo-review" /\ spec[s].index
      /\ plan[p].state = "Engineering Approved" /\ plan[p].by = "plan-eng-review" /\ plan[p].sound
      /\ plan[p].src = s /\ plan[p].srcRev = spec[s].rev
      /\ <<plan[p], spec[s]>> \in passed
      /\ \A f \in DOMAIN reviews :
           reviews[f].readable /\ reviews[f].doc = plan[p] /\ reviews[f].specDoc = spec[s]
           => reviews[f].verdict = "pass"
  BY <1>2, ReadyRoute
<1> QED
  BY <1>3, Zenon DEF s, p

\* A route that is ready for implementation is one for an approved and sound
\* plan of the present revision of an approved spec, whose present texts an
\* independent reviewer passed (resolve_route, explicit_plan_override_route and
\* evaluate_plan_fidelity_gate), for any number of specs, plans, reviewers and
\* edits.
THEOREM ReadyStaysReviewed == wfSpec => []ReadyMeansReviewed
  BY WorkflowInvariance, ReadyIsReviewed, PTL

-----------------------------------------------------------------------------
(***************************************************************************)
(* The execution topology.                                                 *)
(***************************************************************************)
\* Types.
ptTypeOK ==
    /\ directives \in Seq(ExecutionDirective)
    /\ underway \subseteq PlanTasks
    /\ finished \subseteq PlanTasks

\* What the analysis accepts (analyze_execution_topology).
Accepted ==
    /\ diagram = ExpectedEdges(directives)
    /\ HotspotsOrdered(diagram, writers)

\* A task under way or finished has what it waits for behind it, and no task is
\* both.
Followed ==
    /\ underway \cap finished = {}
    /\ \A e \in diagram : e[2] \in underway \cup finished => e[1] \in finished

\* The inductive invariant of the topology: until the analysis accepts, no task
\* is started.
ptInv ==
    /\ ptTypeOK
    /\ reasons # {} => underway = {} /\ finished = {}
    /\ reasons = {} => Accepted
    /\ Followed

\* An empty list of reasons means that every check passed.
LEMMA AcceptedPlan ==
    ASSUME NEW ds, NEW drawn, NEW scopes, analyze_execution_topology(ds, drawn, scopes) = {}
    PROVE  drawn = ExpectedEdges(ds) /\ HotspotsOrdered(drawn, scopes)
<1> DEFINE edges == ExpectedEdges(ds)
<1>0. {r \in {"dependency_diagram_mismatch"} : drawn # edges}
        \cup {r \in {"parallel_hotspot_conflict"} : ~HotspotsOrdered(edges, scopes)}
      \subseteq analyze_execution_topology(ds, drawn, scopes)
  BY DEF analyze_execution_topology
<1>1. {r \in {"dependency_diagram_mismatch"} : drawn # edges} = {}
  BY <1>0
<1>2. {r \in {"parallel_hotspot_conflict"} : ~HotspotsOrdered(edges, scopes)} = {}
  BY <1>0
<1> QED
  BY <1>1, <1>2, Zenon

\* Nothing is started.
LEMMA ptStart == ptInit => ptInv
<1> SUFFICES ASSUME ptInit PROVE ptInv
  OBVIOUS
<1>1. directives \in Seq(ExecutionDirective)
  BY DEF ptInit
<1>2. reasons # {} /\ underway = {} /\ finished = {} /\ diagram = {}
  BY DEF ptInit, NotAnalyzed
<1> QED
  BY <1>1, <1>2 DEF ptInv, ptTypeOK, Followed

\* Every step of the author, the runtime and the executors preserves it.
LEMMA ptStep == ptInv /\ [ptNext]_ptVars => ptInv'
<1> SUFFICES ASSUME ptInv, [ptNext]_ptVars PROVE ptInv'
  OBVIOUS
<1> USE DEF ptInv, ptTypeOK
<1>1. ASSUME NEW d \in ExecutionDirective, WriteDirective(d) PROVE ptInv'
  <2>1. reasons # {} /\ reasons' = reasons
    BY <1>1 DEF WriteDirective, NotAnalyzed
  <2>2. directives' \in Seq(ExecutionDirective)
    BY <1>1 DEF WriteDirective
  <2>3. UNCHANGED <<writers, diagram, underway, finished>>
    BY <1>1 DEF WriteDirective
  <2> QED
    BY <2>1, <2>2, <2>3 DEF Followed
<1>2. ASSUME NEW drawn, AnalyzePlan(drawn) PROVE ptInv'
  <2>1. underway = {} /\ finished = {} /\ underway' = {} /\ finished' = {}
    BY <1>2 DEF AnalyzePlan, NotAnalyzed
  <2>2. directives' = directives /\ writers' = writers
    BY <1>2 DEF AnalyzePlan
  <2>3. reasons' = {} => Accepted'
    BY <1>2, <2>2, AcceptedPlan DEF AnalyzePlan, Accepted
  <2> QED
    BY <2>1, <2>2, <2>3 DEF Followed
<1>3. ASSUME NEW t \in PlanTasks, StartTask(t) PROVE ptInv'
  <2>1. UNCHANGED <<writers, directives, diagram, reasons, finished>> /\ reasons = {}
    BY <1>3 DEF StartTask
  <2>2. Accepted'
    BY <2>1 DEF Accepted
  <2>3. Followed'
    BY <1>3 DEF StartTask, Followed
  <2> QED
    BY <1>3, <2>1, <2>2, <2>3 DEF StartTask
<1>4. ASSUME NEW t \in PlanTasks, FinishTask(t) PROVE ptInv'
  <2>1. UNCHANGED <<writers, directives, diagram, reasons>> /\ reasons = {}
    BY <1>4 DEF FinishTask
  <2>2. Accepted'
    BY <2>1 DEF Accepted
  <2>3. Followed'
    BY <1>4 DEF FinishTask, Followed
  <2> QED
    BY <1>4, <2>1, <2>2, <2>3 DEF FinishTask
<1>5. CASE UNCHANGED ptVars
  BY <1>5 DEF ptVars, Accepted, Followed
<1>6. TidyDirectives \subseteq ExecutionDirective
  BY DEF TidyDirectives
<1> QED
  <2>1. CASE \E d \in ExecutionDirective : WriteDirective(d)
    BY <1>1, <2>1
  <2>2. CASE \E drawn \in Drawings(directives) : AnalyzePlan(drawn)
    BY <1>2, <2>2
  <2>3. CASE \E t \in PlanTasks : StartTask(t) \/ FinishTask(t)
    BY <1>3, <1>4, <2>3
  <2>4. ptNext => \/ \E d \in ExecutionDirective : WriteDirective(d)
                  \/ \E drawn \in Drawings(directives) : AnalyzePlan(drawn)
                  \/ \E t \in PlanTasks : StartTask(t) \/ FinishTask(t)
    BY <1>6 DEF ptNext
  <2> QED
    BY <1>5, <2>1, <2>2, <2>3, <2>4

\* Tasks run only under a topology that the analysis accepted, each after
\* everything it waits for.
THEOREM TopologyInvariance == ptSpec => []ptInv
  BY ptStart, ptStep, PTL DEF ptSpec

\* What a task under way depends on, directly or not, is finished: finished
\* tasks are closed under the edges of the diagram.
LEMMA StartedTasks ==
    ASSUME ptInv, NEW u \in underway, NEW t, t \in collect_dependencies(diagram, u)
    PROVE  t \in finished
<1>1. {e[1] : e \in {d \in diagram : d[2] \in finished \cup {u}}} \subseteq finished
  BY DEF ptInv, Followed
<1>2. finished \in SUBSET Written
  BY DEF ptInv, ptTypeOK, Written
<1> QED
  BY <1>1, <1>2 DEF collect_dependencies

\* Two tasks of a path are ordered, and of two ordered tasks one is finished
\* when the other runs.
LEMMA LanesAreOrdered == ptInv => LanesAreDisjoint
<1> SUFFICES ASSUME ptInv, NEW p \in DOMAIN writers
             PROVE  Cardinality(writers[p] \cap underway) <= 1
  BY DEF LanesAreDisjoint
<1> DEFINE X == writers[p] \cap underway
<1>1. ASSUME NEW t \in X, NEW u \in X PROVE t = u
  <2> SUFFICES ASSUME t # u PROVE FALSE
    OBVIOUS
  <2>1. HotspotsOrdered(diagram, writers)
    BY DEF ptInv, Accepted
  <2>2. t \in collect_dependencies(diagram, u) \/ u \in collect_dependencies(diagram, t)
    BY <2>1 DEF HotspotsOrdered, Ordered
  <2>3. t \in finished \/ u \in finished
    BY <2>2, StartedTasks
  <2> QED
    BY <2>3 DEF ptInv, Followed
<1>2. X = {} \/ \E t : X = {t}
  BY <1>1
<1>3. Cardinality({}) = 0
  BY FS_EmptySet
<1>4. \A t : Cardinality({t}) = 1
  BY FS_Singleton
<1>5. Cardinality(X) \in {0, 1}
  BY <1>2, <1>3, <1>4
<1> QED
  BY <1>5

\* Tasks that an accepted plan lets run at the same time write no path in common
\* (analyze_execution_topology, parallel_hotspot_conflict), for any plan and any
\* number of bullets.
THEOREM LanesStayDisjoint == ptSpec => []LanesAreDisjoint
  BY TopologyInvariance, LanesAreOrdered, PTL

\* The edges of a strategy, bullet by bullet: the recursive function is defined,
\* and each `last' bullet adds the edges from the sinks of what is before it.
LEMMA FoldedEdges ==
    ASSUME NEW ds \in Seq(ExecutionDirective)
    PROVE  \E h : /\ h[Len(ds)] = ExpectedEdges(ds)
                  /\ \A i \in 1..Len(ds) :
                        h[i] = h[i - 1] \cup (IF ds[i].kind = "last"
                                             THEN SinkEdges(h[i - 1], Min(ds[i].tasks)) ELSE {})
<1> DEFINE n == Len(ds)
           direct == UNION {DirectiveEdges(ds[i]) : i \in DOMAIN ds}
           Last(E, i) == IF ds[i].kind = "last" THEN SinkEdges(E, Min(ds[i].tasks)) ELSE {}
           Body(h, i) == IF i = 0 THEN direct ELSE h[i - 1] \cup Last(h[i - 1], i)
           EdgesUpTo == CHOOSE h : h = [i \in 0..n |-> Body(h, i)]
           Z == direct \cup (PlanTasks \X {Min(ds[i].tasks) : i \in 1..n})
           F == SUBSET Z
           step == [p \in Nat \X F |-> p[2] \cup (IF p[1] + 1 \in 1..n THEN Last(p[2], p[1] + 1) ELSE {})]
<1>0. n \in Nat /\ 0..n \subseteq Nat
  OBVIOUS
<1>1. ExpectedEdges(ds) = EdgesUpTo[n]
  BY DEF ExpectedEdges
<1>2. step \in [Nat \X F -> F]
  <2>1. ASSUME NEW k \in Nat, NEW E \in F
        PROVE  E \cup (IF k + 1 \in 1..n THEN Last(E, k + 1) ELSE {}) \in F
    <3>1. CASE k + 1 \in 1..n
      <4>1. Last(E, k + 1) \subseteq Z
        BY <3>1 DEF SinkEdges
      <4> QED
        BY <3>1, <4>1
    <3>2. CASE k + 1 \notin 1..n
      BY <3>2
    <3> QED
      BY <3>1, <3>2
  <2> HIDE DEF F, Last
  <2> QED
    BY <2>1
<1>3. direct \in F
  OBVIOUS
<1>4. PICK g \in [Nat -> F] : Follows(g, direct, step)
  <2> HIDE DEF F, step, direct
  <2> QED
    BY <1>2, <1>3, Recursion
<1>5. ASSUME NEW i \in 1..n PROVE g[i] = g[i - 1] \cup Last(g[i - 1], i)
  <2>1. i - 1 \in Nat /\ (i - 1) + 1 = i /\ i \in Nat
    OBVIOUS
  <2>2. g[i] = step[<<i - 1, g[i - 1]>>] /\ g[i - 1] \in F
    <3> HIDE DEF F, step
    <3>1. g[(i - 1) + 1] = step[<<i - 1, g[i - 1]>>]
      BY <1>4, <2>1, Zenon DEF Follows
    <3>2. g[i - 1] \in F
      BY <1>4, <2>1, Zenon
    <3> QED
      BY <2>1, <3>1, <3>2, Zenon
  <2> HIDE DEF F, Last
  <2> QED
    BY <2>1, <2>2
<1> DEFINE G == [i \in 0..n |-> g[i]]
<1>6. ASSUME NEW i \in 0..n PROVE G[i] = Body(G, i)
  <2>1. CASE i = 0
    BY <1>4, <2>1 DEF Follows
  <2>2. CASE i # 0
    <3>1. i \in 1..n /\ i - 1 \in 0..n
      BY <2>2
    <3> HIDE DEF Last
    <3> QED
      BY <1>5, <2>2, <3>1
  <2> QED
    BY <2>1, <2>2
<1>7. G = [i \in 0..n |-> Body(G, i)]
  <2> HIDE DEF Body
  <2> QED
    BY <1>6
<1>8. EdgesUpTo = [i \in 0..n |-> Body(EdgesUpTo, i)]
  <2> HIDE DEF Body, G
  <2> QED
    BY <1>7
<1>9. ASSUME NEW i \in 1..n PROVE EdgesUpTo[i] = EdgesUpTo[i - 1] \cup Last(EdgesUpTo[i - 1], i)
  <2>1. i \in 0..n /\ i # 0
    OBVIOUS
  <2>2. EdgesUpTo[i] = Body(EdgesUpTo, i)
    <3> HIDE DEF Body, EdgesUpTo
    <3> QED
      BY <1>8, <2>1
  <2> HIDE DEF EdgesUpTo, Last
  <2> QED
    BY <2>1, <2>2
<1> HIDE DEF EdgesUpTo
<1> QED
  BY <1>1, <1>9

\* The edges a `last' bullet adds are among the strategy's.
LEMMA SinkEdgesStay ==
    ASSUME NEW ds \in Seq(ExecutionDirective), NEW i \in 1..Len(ds), ds[i].kind = "last"
    PROVE  \E E : /\ E \subseteq ExpectedEdges(ds)
                  /\ SinkEdges(E, Min(ds[i].tasks)) \subseteq ExpectedEdges(ds)
<1> DEFINE n == Len(ds)
<1>1. PICK h : /\ h[n] = ExpectedEdges(ds)
               /\ \A j \in 1..n : h[j] = h[j - 1] \cup (IF ds[j].kind = "last"
                                             THEN SinkEdges(h[j - 1], Min(ds[j].tasks)) ELSE {})
  BY FoldedEdges
<1>2. n \in Nat
  OBVIOUS
<1> DEFINE P == {k \in Nat : k <= n => h[n - k] \subseteq h[n]}
<1>3. P = Nat
  <2>1. 0 \in P
    BY <1>2
  <2>2. ASSUME NEW k \in P PROVE k + 1 \in P
    <3> SUFFICES ASSUME k + 1 <= n PROVE h[n - (k + 1)] \subseteq h[n]
      OBVIOUS
    <3>1. n - k \in 1..n /\ n - (k + 1) = (n - k) - 1
      BY <1>2
    <3>2. h[(n - k) - 1] \subseteq h[n - k]
      BY <1>1, <3>1
    <3>3. h[n - k] \subseteq h[n]
      BY <1>2
    <3> QED
      BY <3>1, <3>2, <3>3
  <2> HIDE DEF P
  <2>3. P \subseteq Nat
    BY DEF P
  <2> QED
    BY <2>1, <2>2, <2>3, SetInduction
<1>4. ASSUME NEW j \in 0..n PROVE h[j] \subseteq h[n]
  <2>1. n - j \in Nat /\ n - (n - j) = j /\ n - j <= n
    <3> HIDE DEF P
    <3> QED
      BY <1>2
  <2>2. n - j \in P
    BY <1>3, <2>1, Zenon
  <2>3. h[n - (n - j)] \subseteq h[n]
    BY <2>1, <2>2, Zenon
  <2> QED
    BY <2>1, <2>3, Zenon
<1>5. i \in 0..n /\ i - 1 \in 0..n
  BY <1>2
<1>6. h[i - 1] \subseteq h[n] /\ h[i] \subseteq h[n]
  BY <1>4, <1>5
<1>7. SinkEdges(h[i - 1], Min(ds[i].tasks)) \subseteq h[i]
  BY <1>1
<1> QED
  BY <1>1, <1>6, <1>7

\* A task depends on what an edge says it waits for.
LEMMA DirectDependency ==
    ASSUME NEW edges, NEW e \in edges, e[1] \in Written
    PROVE  e[1] \in collect_dependencies(edges, e[2])
  BY DEF collect_dependencies

\* Dependencies compose.
LEMMA DependenciesCompose ==
    ASSUME NEW edges, NEW c, NEW b \in collect_dependencies(edges, c),
           NEW a \in collect_dependencies(edges, b)
    PROVE  a \in collect_dependencies(edges, c)
<1> SUFFICES ASSUME NEW D \in SUBSET Written,
                    {e[1] : e \in {d \in edges : d[2] \in D \cup {c}}} \subseteq D
             PROVE  a \in D
  BY DEF collect_dependencies
<1>1. b \in D
  BY DEF collect_dependencies
<1>2. {e[1] : e \in {d \in edges : d[2] \in D \cup {b}}} \subseteq D
  BY <1>1
<1> QED
  BY <1>2 DEF collect_dependencies

\* A finite order without cycles has a greatest element.
LEMMA FiniteOrderHasTop ==
    ASSUME NEW U, IsFiniteSet(U), U # {}, NEW R,
           \A u \in U : <<u, u>> \notin R,
           \A u, v, w \in U : <<u, v>> \in R /\ <<v, w>> \in R => <<u, w>> \in R
    PROVE  \E u \in U : \A v \in U : <<u, v>> \notin R
<1> DEFINE Above(u) == {v \in U : <<u, v>> \in R}
           C == {Cardinality(Above(u)) : u \in U}
<1>1. ASSUME NEW u \in U PROVE IsFiniteSet(Above(u)) /\ Cardinality(Above(u)) \in Nat
  BY FS_Subset, FS_CardinalityType
<1>2. PICK c \in C : \A d \in C : c <= d
  <2>1. C \subseteq Nat
    <3> SUFFICES ASSUME NEW d \in C PROVE d \in Nat
      OBVIOUS
    <3>1. PICK u \in U : d = Cardinality(Above(u))
      BY Zenon
    <3> HIDE DEF C, Above
    <3> QED
      BY <1>1, <3>1
  <2>2. C # {}
    <3>1. PICK u : u \in U
      BY Zenon
    <3>2. Cardinality(Above(u)) \in C
      BY <3>1, Zenon
    <3> QED
      BY <3>2, Zenon
  <2> HIDE DEF C
  <2> QED
    BY <2>1, <2>2, LeastNat
<1>3. PICK u \in U : c = Cardinality(Above(u))
  OBVIOUS
<1> SUFFICES ASSUME NEW v \in U, <<u, v>> \in R PROVE FALSE
  OBVIOUS
<1>4. Above(v) \subseteq Above(u) /\ Above(v) # Above(u)
  OBVIOUS
<1>5. Cardinality(Above(v)) < Cardinality(Above(u))
  <2> HIDE DEF Above
  <2> QED
    BY <1>1, <1>4, FS_Subset
<1>6. Cardinality(Above(u)) <= Cardinality(Above(v))
  <2>1. Cardinality(Above(v)) \in C
    BY Zenon
  <2> HIDE DEF C, Above
  <2> QED
    BY <1>2, <1>3, <2>1
<1> QED
  BY <1>1, <1>5, <1>6

\* An unfinished task that no unfinished task waits for would be a sink, and the
\* last task waits for the sinks.
LEMMA LastWaitsForAll == ptInv => LastRunsLast
<1> SUFFICES ASSUME ptInv,
                    NEW i \in Kinds(directives, "last"), NEW t \in directives[i].tasks,
                    t \in underway,
                    ~\E u \in PlanTasks : u \in collect_dependencies(diagram, u)
             PROVE  PlanTasks \ {t} \subseteq finished
  BY DEF LastRunsLast
<1> DEFINE U == {u \in PlanTasks \ {t} : u \notin finished}
<1> SUFFICES ASSUME U # {} PROVE FALSE
  OBVIOUS
<1>1. /\ directives \in Seq(ExecutionDirective)
      /\ diagram = ExpectedEdges(directives)
  BY DEF ptInv, ptTypeOK, Accepted
<1>2. i \in 1..Len(directives) /\ directives[i].kind = "last"
  BY <1>1 DEF Kinds
<1>3. Min(directives[i].tasks) = t
  <2>1. directives[i] \in ExecutionDirective
    BY <1>1, <1>2
  <2>2. \E x \in Written : directives[i].tasks = {x}
    BY <1>2, <2>1 DEF ExecutionDirective
  <2>3. directives[i].tasks = {t} /\ t \in Nat
    BY <2>2, PlanTasksAssumption DEF ptInv, ptTypeOK
  <2>4. Min({t}) = t
    BY <2>3 DEF Min
  <2> QED
    BY <2>3, <2>4
<1>4. PICK E : E \subseteq diagram /\ SinkEdges(E, t) \subseteq diagram
  BY <1>1, <1>2, <1>3, SinkEdgesStay
<1>5. ASSUME NEW u \in U
      PROVE  \E v \in U : u \in collect_dependencies(diagram, v)
  <2>1. <<u, t>> \notin diagram
    BY DEF ptInv, Followed
  <2>2. PICK e \in E : e[1] = u /\ e[2] \in PlanTasks \ {t}
    BY <1>4, <2>1 DEF SinkEdges
  <2>3. e[2] \notin finished
    BY <1>4, <2>2 DEF ptInv, Followed
  <2>4. u \in collect_dependencies(diagram, e[2])
    BY <1>4, <2>2, DirectDependency DEF Written
  <2> QED
    BY <2>2, <2>3, <2>4
<1> DEFINE R == {p \in U \X U : p[1] \in collect_dependencies(diagram, p[2])}
<1>6. IsFiniteSet(U)
  BY PlanTasksAssumption, FS_Subset
<1>7. \A u \in U : <<u, u>> \notin R
  OBVIOUS
<1>8. \A u, v, w \in U : <<u, v>> \in R /\ <<v, w>> \in R => <<u, w>> \in R
  BY DependenciesCompose
<1>9. PICK u \in U : \A v \in U : <<u, v>> \notin R
  <2> HIDE DEF U, R
  <2> QED
    BY <1>6, <1>7, <1>8, FiniteOrderHasTop
<1> QED
  BY <1>5, <1>9

\* In an accepted plan without a cycle the task the strategy executes last
\* starts when every other task is finished (expected_edges of
\* analyze_execution_topology), for any plan and any number of bullets.
THEOREM LastTaskIsLast == ptSpec => []LastRunsLast
  BY TopologyInvariance, LastWaitsForAll, PTL

-----------------------------------------------------------------------------
(***************************************************************************)
(* The parsers of the contract.                                            *)
(***************************************************************************)
\* What a task's lines say.
TaskType == [number : Numbers, goal : {1, 2}, ids : SUBSET ReqIds, flaw : TaskFlaws]

\* The documents keep their fields and values.
pcTypeOK ==
    /\ specDoc \in [revision : {"ok", "missing"}, state : {"ok", "missing"},
                    index : {"ok", "none", "malformed"}, ids : SUBSET ReqIds]
    /\ planDoc \in [headers : {"ok", "malformed"}, reviewer : {"fits the state", "does not fit"},
                    tasks : Seq(TaskType), matrix : {"ok", "none", "malformed"},
                    entries : [ReqIds -> SUBSET Numbers],
                    trailing : {"none", "coverage line", "weaker wording"}]

\* The first documents are well formed.
LEMMA pcStart == pcInit => pcTypeOK
<1> SUFFICES ASSUME pcInit PROVE pcTypeOK
  OBVIOUS
<1> DEFINE r == CHOOSE x \in ReqIds : TRUE
           q == CHOOSE x \in ReqIds : x # r
<1>1. r \in ReqIds /\ q \in ReqIds
  BY ReqIdsAssumption
<1>2. "none" \in TaskFlaws
  BY DEF TaskFlaws
<1>3. [number |-> 1, goal |-> 1, ids |-> {r}, flaw |-> "none"] \in TaskType
  BY <1>1, <1>2 DEF TaskType, Numbers
<1>4. [number |-> 2, goal |-> 2, ids |-> {r, q}, flaw |-> "none"] \in TaskType
  BY <1>1, <1>2 DEF TaskType, Numbers
<1> HIDE DEF r, q
<1>5. <<[number |-> 1, goal |-> 1, ids |-> {r}, flaw |-> "none"],
        [number |-> 2, goal |-> 2, ids |-> {r, q}, flaw |-> "none"]>> \in Seq(TaskType)
  BY <1>3, <1>4
<1> DEFINE es == [x \in ReqIds |-> CASE x = r -> {1, 2}
                                    [] x = q -> {2}
                                    [] OTHER -> NoEntry]
<1>6. es \in [ReqIds -> SUBSET Numbers]
  BY DEF Numbers, NoEntry
<1>7. specDoc = [revision |-> "ok", state |-> "ok", index |-> "ok", ids |-> {r, q}]
  BY DEF pcInit, r, q
<1>8. planDoc = [headers |-> "ok", reviewer |-> "fits the state", matrix |-> "ok",
                 tasks |-> <<[number |-> 1, goal |-> 1, ids |-> {r}, flaw |-> "none"],
                             [number |-> 2, goal |-> 2, ids |-> {r, q}, flaw |-> "none"]>>,
                 entries |-> es, trailing |-> "none"]
  BY DEF pcInit, r, q
<1> HIDE DEF es
<1> QED
  BY <1>1, <1>5, <1>6, <1>7, <1>8 DEF pcTypeOK

\* Every edit keeps them so.
LEMMA pcStep == pcTypeOK /\ [pcNext]_pcVars => pcTypeOK'
<1> SUFFICES ASSUME pcTypeOK, [pcNext]_pcVars PROVE pcTypeOK'
  OBVIOUS
<1>1. CASE ReviseSpec
  BY <1>1 DEF pcTypeOK, ReviseSpec
<1>2. CASE RevisePlan
  <2>1. ASSUME NEW q \in ReqIds, NEW v \in SUBSET Numbers,
               planDoc' = [planDoc EXCEPT !.entries[q] = v]
        PROVE  pcTypeOK'
    <3>1. planDoc' = [planDoc EXCEPT !.entries = [planDoc.entries EXCEPT ![q] = v]]
      BY <2>1
    <3>2. [planDoc.entries EXCEPT ![q] = v] \in [ReqIds -> SUBSET Numbers]
      BY DEF pcTypeOK
    <3>3. specDoc' = specDoc
      BY <1>2 DEF RevisePlan
    <3> QED
      BY <3>1, <3>2, <3>3 DEF pcTypeOK
  <2>2. ASSUME UNCHANGED specDoc,
               \/ \E v \in {"ok", "malformed"} : planDoc' = [planDoc EXCEPT !.headers = v]
               \/ \E v \in {"fits the state", "does not fit"} :
                     planDoc' = [planDoc EXCEPT !.reviewer = v]
               \/ \E v \in {"ok", "none", "malformed"} : planDoc' = [planDoc EXCEPT !.matrix = v]
               \/ \E v \in {"none", "coverage line", "weaker wording"} :
                     planDoc' = [planDoc EXCEPT !.trailing = v]
        PROVE  pcTypeOK'
    BY <2>2 DEF pcTypeOK
  <2> QED
    BY <1>2, <2>1, <2>2 DEF RevisePlan
<1>3. CASE ReviseTask
  <2>1. PICK i \in DOMAIN planDoc.tasks :
        \/ \E v \in Numbers : planDoc' = [planDoc EXCEPT !.tasks[i].number = v]
        \/ \E v \in {1, 2} : planDoc' = [planDoc EXCEPT !.tasks[i].goal = v]
        \/ \E v \in SUBSET ReqIds : planDoc' = [planDoc EXCEPT !.tasks[i].ids = v]
        \/ \E v \in TaskFlaws : planDoc' = [planDoc EXCEPT !.tasks[i].flaw = v]
    BY <1>3 DEF ReviseTask
  <2>2. planDoc.tasks \in Seq(TaskType) /\ planDoc.tasks[i] \in TaskType
    <3>1. planDoc.tasks \in Seq(TaskType)
      BY DEF pcTypeOK
    <3> QED
      BY <2>1, <3>1
  <2> DEFINE task == planDoc.tasks[i]
             Put(t) == [planDoc EXCEPT !.tasks = [planDoc.tasks EXCEPT ![i] = t]]
  <2>4. PICK t \in TaskType : planDoc' = Put(t)
    <3>1. CASE \E v \in Numbers : planDoc' = [planDoc EXCEPT !.tasks[i].number = v]
      <4>1. PICK v \in Numbers : planDoc' = [planDoc EXCEPT !.tasks[i].number = v]
        BY <3>1
      <4>2. planDoc' = Put([task EXCEPT !.number = v])
        BY <4>1
      <4>3. [task EXCEPT !.number = v] \in TaskType
        BY <2>2 DEF TaskType
      <4> HIDE DEF Put, task
      <4> QED
        BY <4>2, <4>3
    <3>2. CASE \E v \in {1, 2} : planDoc' = [planDoc EXCEPT !.tasks[i].goal = v]
      <4>1. PICK v \in {1, 2} : planDoc' = [planDoc EXCEPT !.tasks[i].goal = v]
        BY <3>2
      <4>2. planDoc' = Put([task EXCEPT !.goal = v])
        BY <4>1
      <4>3. [task EXCEPT !.goal = v] \in TaskType
        BY <2>2 DEF TaskType
      <4> HIDE DEF Put, task
      <4> QED
        BY <4>2, <4>3
    <3>3. CASE \E v \in SUBSET ReqIds : planDoc' = [planDoc EXCEPT !.tasks[i].ids = v]
      <4>1. PICK v \in SUBSET ReqIds : planDoc' = [planDoc EXCEPT !.tasks[i].ids = v]
        BY <3>3
      <4>2. planDoc' = Put([task EXCEPT !.ids = v])
        BY <4>1
      <4>3. [task EXCEPT !.ids = v] \in TaskType
        BY <2>2 DEF TaskType
      <4> HIDE DEF Put, task
      <4> QED
        BY <4>2, <4>3
    <3>4. CASE \E v \in TaskFlaws : planDoc' = [planDoc EXCEPT !.tasks[i].flaw = v]
      <4>1. PICK v \in TaskFlaws : planDoc' = [planDoc EXCEPT !.tasks[i].flaw = v]
        BY <3>4
      <4>2. planDoc' = Put([task EXCEPT !.flaw = v])
        BY <4>1
      <4>3. [task EXCEPT !.flaw = v] \in TaskType
        BY <2>2 DEF TaskType
      <4> HIDE DEF Put, task
      <4> QED
        BY <4>2, <4>3
    <3> QED
      BY <2>1, <3>1, <3>2, <3>3, <3>4
  <2>5. [planDoc.tasks EXCEPT ![i] = t] \in Seq(TaskType)
    BY <2>2
  <2>6. specDoc' = specDoc
    BY <1>3 DEF ReviseTask
  <2> QED
    BY <2>4, <2>5, <2>6 DEF pcTypeOK
<1>4. CASE UNCHANGED pcVars
  BY <1>4 DEF pcTypeOK, pcVars
<1> QED
  BY <1>1, <1>2, <1>3, <1>4 DEF pcNext

\* Lint accepts exactly the documents of which every part is right: its first
\* error is an error.
LEMMA LintAccepts ==
    ASSUME NEW sd, NEW pd, pd.tasks \in Seq(TaskType)
    PROVE  validate_contract(sd, pd) = "ok" <=>
           /\ parse_requirement_index(sd) = "ok"
           /\ parse_plan(pd) = "ok"
           /\ parse_coverage_matrix(pd) = "ok"
           /\ \A i \in DOMAIN pd.tasks : TaskError(sd, pd, pd.tasks[i]) = "ok"
           /\ ~DuplicateIntent(pd)
           /\ MatrixError(sd, pd) = "ok"
<1> DEFINE bad == {i \in DOMAIN pd.tasks : TaskError(sd, pd, pd.tasks[i]) # "ok"}
<1>1. bad \subseteq Nat
  OBVIOUS
<1>2. bad # {} => Min(bad) \in bad
  BY <1>1, MinOfNats
<1>3. bad # {} => TaskError(sd, pd, pd.tasks[Min(bad)]) # "ok"
  BY <1>2
<1>4. bad = {} <=> \A i \in DOMAIN pd.tasks : TaskError(sd, pd, pd.tasks[i]) = "ok"
  OBVIOUS
<1> HIDE DEF bad
<1>5. validate_contract(sd, pd) =
          CASE parse_requirement_index(sd) # "ok" -> "RequirementIndex"
          [] parse_plan(pd) # "ok" -> parse_plan(pd)
          [] parse_coverage_matrix(pd) # "ok" -> "CoverageMatrix"
          [] bad # {} -> TaskError(sd, pd, pd.tasks[Min(bad)])
          [] DuplicateIntent(pd) -> "DuplicateTaskIntent"
          [] OTHER -> MatrixError(sd, pd)
  BY DEF validate_contract, bad
<1> QED
  BY <1>3, <1>4, <1>5

\* The plan parses exactly if its headings and every task do.
LEMMA PlanParses ==
    ASSUME NEW pd, pd.tasks \in Seq(TaskType)
    PROVE  parse_plan(pd) = "ok" <=>
           /\ HeadersParse(pd)
           /\ ~SplitFails(pd)
           /\ \A i \in DOMAIN pd.tasks : parse_task_block(pd.tasks[i]) = "ok"
<1> DEFINE bad == {i \in DOMAIN pd.tasks : parse_task_block(pd.tasks[i]) # "ok"}
<1>1. bad \subseteq Nat
  OBVIOUS
<1>2. bad # {} => Min(bad) \in bad
  BY <1>1, MinOfNats
<1>3. bad # {} => parse_task_block(pd.tasks[Min(bad)]) # "ok"
  BY <1>2
<1>4. bad = {} <=> \A i \in DOMAIN pd.tasks : parse_task_block(pd.tasks[i]) = "ok"
  OBVIOUS
<1> HIDE DEF bad
<1>5. parse_plan(pd) = IF ~HeadersParse(pd) \/ SplitFails(pd) THEN "MalformedTaskStructure"
        ELSE IF bad = {} THEN "ok"
        ELSE parse_task_block(pd.tasks[Min(bad)])
  BY DEF parse_plan, bad
<1> QED
  BY <1>3, <1>4, <1>5

\* The analysis is empty exactly if every part of it is.
LEMMA AnalysisIsEmpty ==
    ASSUME NEW sd, NEW pd
    PROVE  analyze_contract(sd, pd) = {} <=>
           /\ sd.revision = "ok"
           /\ HeadersParse(pd)
           /\ PlanReasons(pd) = {}
           /\ parse_requirement_index(sd) = "ok"
           /\ parse_coverage_matrix(pd) = "ok"
           /\ \A i \in LooseTasks(pd) : LooseTaskReasons(sd, pd, i) = {}
           /\ MatrixReasons(sd, pd) = {}
<1> DEFINE A == {r \in {"missing_spec_revision"} : sd.revision # "ok"}
           B == {r \in {"malformed_headers"} : ~HeadersParse(pd)}
           C == {parse_requirement_index(sd)} \ {"ok"}
           D == {parse_coverage_matrix(pd)} \ {"ok"}
           E == UNION {LooseTaskReasons(sd, pd, i) : i \in LooseTasks(pd)}
           G == IF parse_requirement_index(sd) = "ok" /\ parse_coverage_matrix(pd) = "ok"
                THEN E \cup MatrixReasons(sd, pd) ELSE {}
<1>1. A = {} <=> sd.revision = "ok"
  OBVIOUS
<1>2. B = {} <=> HeadersParse(pd)
  OBVIOUS
<1>3. C = {} <=> parse_requirement_index(sd) = "ok"
  OBVIOUS
<1>4. D = {} <=> parse_coverage_matrix(pd) = "ok"
  OBVIOUS
<1>5. E = {} <=> \A i \in LooseTasks(pd) : LooseTaskReasons(sd, pd, i) = {}
  OBVIOUS
<1>6. analyze_contract(sd, pd) = A \cup B \cup PlanReasons(pd) \cup C \cup D \cup G
  BY DEF analyze_contract
<1> HIDE DEF A, B, C, D, E
<1> QED
  BY <1>1, <1>2, <1>3, <1>4, <1>5, <1>6

\* Of a plan that parses, and says nothing after its last task, the loose parser
\* sees the tasks that the strict one sees.
LEMMA SameTasks ==
    ASSUME NEW sd, NEW pd, pd.tasks \in Seq(TaskType), parse_plan(pd) = "ok",
           pd.trailing = "none"
    PROVE  /\ LooseTasks(pd) = DOMAIN pd.tasks
           /\ \A i \in DOMAIN pd.tasks : LooseIds(pd, i) = pd.tasks[i].ids
           /\ \A i \in DOMAIN pd.tasks : LooseWeakens(pd, i) <=> pd.tasks[i].flaw = "weakens"
<1>1. /\ ~SplitFails(pd)
      /\ \A i \in DOMAIN pd.tasks : parse_task_block(pd.tasks[i]) = "ok"
  BY PlanParses
<1>2. \A i \in DOMAIN pd.tasks : pd.tasks[i].flaw \notin HeadingFlaws
  BY <1>1 DEF SplitFails
<1>3. \A i \in DOMAIN pd.tasks : pd.tasks[i].flaw # "no coverage line"
  BY <1>1 DEF parse_task_block, StepFlaws
<1> QED
  BY <1>2, <1>3 DEF LooseTasks, LooseIds, LooseWeakens

\* The two then agree about each task.
LEMMA SameTaskErrors ==
    ASSUME NEW sd, NEW pd, pd.tasks \in Seq(TaskType), parse_plan(pd) = "ok",
           pd.trailing = "none", NEW i \in DOMAIN pd.tasks
    PROVE  TaskError(sd, pd, pd.tasks[i]) = "ok" <=>
           LooseTaskReasons(sd, pd, i) = {} /\ pd.tasks[i].flaw \notin WordingFlaws
<1> DEFINE task == pd.tasks[i]
<1>1. LooseIds(pd, i) = task.ids /\ (LooseWeakens(pd, i) <=> task.flaw = "weakens")
  BY SameTasks
<1>2. LooseTaskReasons(sd, pd, i) = {} <=>
          /\ task.ids # {}
          /\ task.ids \ sd.ids = {}
          /\ ~\E q \in task.ids \cap sd.ids : task.number \notin pd.entries[q]
          /\ ~(task.ids # {} /\ task.ids \subseteq sd.ids /\ task.flaw = "weakens")
  BY <1>1 DEF LooseTaskReasons
<1>3. "ok" \notin WordingFlaws
  BY DEF WordingFlaws
<1>4. TaskError(sd, pd, task) = "ok" <=>
          /\ task.ids # {}
          /\ ~\E r \in task.ids : r \notin sd.ids
          /\ ~\E r \in task.ids : task.number \notin pd.entries[r]
          /\ task.flaw \notin WordingFlaws
          /\ task.flaw # "weakens"
  BY <1>3 DEF TaskError
<1> HIDE DEF task
<1> QED
  BY <1>2, <1>4 DEF task

\* The two then agree about the coverage matrix.
LEMMA SameMatrixErrors ==
    ASSUME NEW sd, NEW pd, pd.tasks \in Seq(TaskType), parse_plan(pd) = "ok",
           pd.trailing = "none"
    PROVE  MatrixError(sd, pd) = "ok" <=> MatrixReasons(sd, pd) = {}
<1> DEFINE numbers == {pd.tasks[i].number : i \in DOMAIN pd.tasks}
           covered == UNION {pd.tasks[i].ids : i \in DOMAIN pd.tasks}
<1>1. LooseNumbers(pd) = numbers
  BY SameTasks DEF LooseNumbers
<1>2. UNION {LooseIds(pd, i) : i \in LooseTasks(pd)} = covered
  BY SameTasks
<1>3. MatrixError(sd, pd) = "ok" <=>
          /\ MatrixIds(pd) \ sd.ids = {}
          /\ ~\E r \in MatrixIds(pd) : pd.entries[r] \ numbers # {}
          /\ sd.ids \ covered = {} /\ sd.ids \ MatrixIds(pd) = {}
  BY DEF MatrixError
<1> HIDE DEF numbers, covered
<1>4. MatrixReasons(sd, pd) = {} <=>
          /\ MatrixIds(pd) \ sd.ids = {}
          /\ ~\E q \in MatrixIds(pd) : pd.entries[q] \ numbers # {}
          /\ sd.ids \ (covered \cap sd.ids) = {} /\ sd.ids \ MatrixIds(pd) = {}
  BY <1>1, <1>2 DEF MatrixReasons
<1>5. sd.ids \ (covered \cap sd.ids) = sd.ids \ covered
  OBVIOUS
<1> QED
  BY <1>3, <1>4, <1>5

\* Documents of the right form satisfy the property.
LEMMA Agreement == pcTypeOK => ParsersAgree
<1> SUFFICES ASSUME pcTypeOK, planDoc.trailing = "none"
             PROVE  /\ (validate_contract(specDoc, planDoc) = "ok") <=>
                       (analyze_contract(specDoc, planDoc) = {})
                    /\ (validate_contract(specDoc, planDoc) = "ok"
                        /\ planDoc.reviewer = "fits the state" /\ specDoc.state = "ok") =>
                            /\ analyze_documents(specDoc, planDoc) = {}
                            /\ \A i \in DOMAIN planDoc.tasks :
                                build_task_packet(specDoc, planDoc, planDoc.tasks[i].number)
  BY DEF ParsersAgree
<1> DEFINE sd == specDoc
           pd == planDoc
           ts == DOMAIN planDoc.tasks
<1>1. pd.tasks \in Seq(TaskType)
  BY DEF pcTypeOK
<1>2. PlanReasons(pd) = {} <=>
          /\ parse_plan(pd) = "ok"
          /\ \A i \in ts : pd.tasks[i].flaw \notin WordingFlaws
          /\ ~DuplicateIntent(pd)
  BY DEF PlanReasons
<1>3. parse_requirement_index(sd) = "ok" => sd.revision = "ok"
  BY DEF parse_requirement_index
<1>4. parse_plan(pd) = "ok" => HeadersParse(pd)
  BY <1>1, PlanParses
<1>5. parse_plan(pd) = "ok" =>
          /\ LooseTasks(pd) = ts
          /\ \A i \in ts : TaskError(sd, pd, pd.tasks[i]) = "ok" <=>
                 LooseTaskReasons(sd, pd, i) = {} /\ pd.tasks[i].flaw \notin WordingFlaws
          /\ MatrixError(sd, pd) = "ok" <=> MatrixReasons(sd, pd) = {}
  BY <1>1, SameTasks, SameTaskErrors, SameMatrixErrors
<1>6. (validate_contract(sd, pd) = "ok") <=> (analyze_contract(sd, pd) = {})
  <2>1. validate_contract(sd, pd) = "ok" <=>
           /\ parse_requirement_index(sd) = "ok"
           /\ parse_plan(pd) = "ok"
           /\ parse_coverage_matrix(pd) = "ok"
           /\ \A i \in ts : TaskError(sd, pd, pd.tasks[i]) = "ok"
           /\ ~DuplicateIntent(pd)
           /\ MatrixError(sd, pd) = "ok"
    BY <1>1, LintAccepts
  <2>2. analyze_contract(sd, pd) = {} <=>
           /\ sd.revision = "ok"
           /\ HeadersParse(pd)
           /\ PlanReasons(pd) = {}
           /\ parse_requirement_index(sd) = "ok"
           /\ parse_coverage_matrix(pd) = "ok"
           /\ \A i \in LooseTasks(pd) : LooseTaskReasons(sd, pd, i) = {}
           /\ MatrixReasons(sd, pd) = {}
    BY AnalysisIsEmpty
  <2> HIDE DEF sd, pd, ts
  <2> QED
    BY <1>2, <1>3, <1>4, <1>5, <2>1, <2>2
<1>7. ASSUME validate_contract(sd, pd) = "ok", pd.reviewer = "fits the state", sd.state = "ok"
      PROVE  /\ analyze_documents(sd, pd) = {}
             /\ \A i \in ts : build_task_packet(sd, pd, pd.tasks[i].number)
  <2>1. /\ parse_requirement_index(sd) = "ok"
        /\ parse_plan(pd) = "ok"
        /\ parse_coverage_matrix(pd) = "ok"
        /\ \A i \in ts : TaskError(sd, pd, pd.tasks[i]) = "ok"
        /\ ~DuplicateIntent(pd)
        /\ MatrixError(sd, pd) = "ok"
    BY <1>1, <1>7, LintAccepts
  <2>2. /\ HeadersParse(pd) /\ ~SplitFails(pd)
        /\ \A i \in ts : parse_task_block(pd.tasks[i]) = "ok"
    BY <1>1, <2>1, PlanParses
  <2>3. MatrixReasons(sd, pd) = {} /\ \A i \in ts : pd.tasks[i].flaw \notin WordingFlaws
    BY <1>5, <2>1
  <2>4. analyze_documents(sd, pd) = {}
    <3>1. sd.ids \ MatrixIds(pd) = {}
      BY <2>3 DEF MatrixReasons
    <3>2. {pd.tasks[i].flaw : i \in ts} \cap WordingFlaws = {}
      BY <2>3
    <3>3. {r \in {"missing_requirement_coverage"} : sd.ids \ MatrixIds(pd) # {}} = {}
      BY <3>1
    <3>4. {r \in {"duplicate_task_intent"} : DuplicateIntent(pd)} = {}
      BY <2>1
    <3> QED
      BY <3>2, <3>3, <3>4 DEF analyze_documents
  <2>5. parse_spec_source(sd)
    <3>1. sd.index \in {"ok", "none", "malformed"}
      BY DEF pcTypeOK
    <3> QED
      BY <1>7, <2>1, <3>1 DEF parse_requirement_index, parse_spec_source
  <2>6. pd.matrix # "malformed"
    BY <2>1 DEF parse_coverage_matrix
  <2>7. parse_plan_source(pd)
    BY <1>7, <2>2, <2>6 DEF parse_plan_source
  <2> QED
    BY <1>7, <2>2, <2>4, <2>5, <2>7 DEF build_task_packet
<1> QED
  BY <1>6, <1>7

\* analyze-plan reports nothing about the text of a plan exactly when lint
\* accepts it, and what lint accepts the typed parser reads and build-task-
\* packet turns into a packet (validate_contract, analyze_contract,
\* parse_plan_source), for any requirements and any number of edits.
THEOREM ParsersStayInAgreement == pcSpec => []ParsersAgree
<1>1. pcSpec => []pcTypeOK
  BY pcStart, pcStep, PTL DEF pcSpec
<1> QED
  BY <1>1, Agreement, PTL
=============================================================================
