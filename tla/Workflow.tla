------------------------------ MODULE Workflow ------------------------------
(***************************************************************************)
(* The way to an implementation.  Specs, plans and review artifacts are    *)
(* documents in the repository; the runtime reads them, and the local      *)
(* manifest, and says which skill the agent has to run next, until the     *)
(* plan is ready to be implemented.  The skills (agents and people) write  *)
(* the documents; the runtime never does.                                  *)
(*                                                                         *)
(* A document is its headers and a text; the text is a number that no      *)
(* other text in use has, and a fingerprint is the document itself.  A     *)
(* file that does not exist is not in the function's domain.  Paths are    *)
(* numbers in the order of their names, 0 is an empty path.                *)
(***************************************************************************)
EXTENDS Naturals, FiniteSets, Sequences

CONSTANTS
    SpecPaths, PlanPaths,
    ReviewFiles,   \* files of .featureforge/reviews; PlanPaths are the plans' own
    Slugs,         \* directories of the manifest, in order: the slug is the remote's name
    Limits,        \* values of the fallback limit, 0 if there is none
    MaxDocEdits    \* bound: things that people do, and verdicts "fail"

ASSUME WorkflowAssumption ==
    /\ SpecPaths \subseteq Nat \ {0}
    /\ PlanPaths \subseteq ReviewFiles
    /\ ReviewFiles \subseteq Nat \ {0}
    /\ Slugs \subseteq Nat
    /\ Slugs # {}
    /\ Limits \subseteq Nat
    /\ MaxDocEdits \in Nat

VARIABLES
    spec,       \* the spec files
    index,      \* the specs ACTIVE_IMPLEMENTATION_TARGETS.md lists
    plan,       \* the plan files
    reviews,    \* the review artifacts
    manifests,  \* the manifest files
    slug,       \* the repository's present slug
    limit,      \* the fallback limit
    turn,       \* alternates with every skill the agent runs
    docEdits,   \* number of things people did and of verdicts "fail"
    passed      \* history: what reviewers have passed

docVars == <<spec, index, plan, reviews>>
wfVars == <<spec, index, plan, reviews, manifests, slug, limit, turn, docEdits, passed>>

NoManifest == [here |-> FALSE, spec |-> 0, plan |-> 0]
Lowest(S) == CHOOSE x \in S : S \cap (0..(x - 1)) = {}
Highest(S) == CHOOSE x \in S : \A y \in S : x >= y
Without(f, S) == [x \in DOMAIN f \ S |-> f[x]]
With(f, x, v) == [y \in DOMAIN f \cup {x} |-> IF y = x THEN v ELSE f[y]]

-----------------------------------------------------------------------------
(***************************************************************************)
(* Reading the documents.                                                  *)
(***************************************************************************)
parse_workflow_spec_candidate(s) ==
    LET reviewed == <<spec[s].state, spec[s].by>> \in
            {<<"Draft", "brainstorming">>, <<"Draft", "plan-ceo-review">>, <<"CEO Approved", "plan-ceo-review">>,
             <<"Implementation Target", "clean-context review loop">>}
    IN  [state |-> IF reviewed THEN spec[s].state ELSE "Draft",
         rev |-> spec[s].rev,
         malformed |-> ~reviewed \/ spec[s].rev = 0]

plan_last_reviewer_is_valid_for_state(state, by) ==
    <<state, by>> \in {<<"Draft", "writing-plans">>, <<"Draft", "plan-eng-review">>,
                       <<"Engineering Approved", "plan-eng-review">>}

parse_workflow_plan_candidate(p) ==
    LET valid == plan_last_reviewer_is_valid_for_state(plan[p].state, plan[p].by)
    IN  [state |-> IF valid THEN plan[p].state ELSE "Draft", by |-> plan[p].by, malformed |-> ~valid]

\* The listed specs that exist, or all of them.
active_implementation_target_spec_paths ==
    IF index \cap DOMAIN spec # {} THEN index \cap DOMAIN spec ELSE DOMAIN spec

malformed_spec_candidates ==
    {s \in active_implementation_target_spec_paths : parse_workflow_spec_candidate(s).malformed}

apply_fallback_limit(S) ==
    IF limit = 0 THEN S ELSE {s \in S : Cardinality({t \in S : t > s}) < limit}

spec_candidates ==
    apply_fallback_limit(active_implementation_target_spec_paths \ malformed_spec_candidates)

\* A plan without a state or a source is not a candidate.
scan_plans == {p \in DOMAIN plan : plan[p].state # "none"}

-----------------------------------------------------------------------------
(***************************************************************************)
(* The fidelity gate.  A review is bound to a plan and a spec by their     *)
(* paths and fingerprints.                                                 *)
(***************************************************************************)
plan_source_with_workflow_state(p, state) == [plan[p] EXCEPT !.state = state]

\* Mutant: a reviewed text stays accepted whatever else changes in the plan.
AcceptedByText(p) ==
    {d \in {reviews[f].doc : f \in DOMAIN reviews} : d.src = plan[p].src} \cup {plan[p]}

\* Mutant: only the plan as it stands, though the approval changes its state.
AcceptedAsItStands(p) == {plan[p]}

\* The approval flips the state of a plan under review and nothing else.
plan_fidelity_accepted_plan_fingerprints(p) ==
    {plan[p]} \cup
    {plan_source_with_workflow_state(p, state) :
        state \in {w \in {"Draft", "Engineering Approved"} : plan[p].by = "plan-eng-review"}}

StaleBinding(r, s, p) ==
    \/ r.plan # p
    \/ r.doc \notin plan_fidelity_accepted_plan_fingerprints(p)
    \/ r.spec # s
    \/ r.specDoc # spec[s]

\* complete: the reviewer's provenance, the surfaces and the requirements.
evaluate_parsed_plan_fidelity_review_artifact(r, s, p) ==
    IF StaleBinding(r, s, p) THEN "stale"
    ELSE IF ~r.complete \/ spec[s].state # "CEO Approved" \/ spec[s].by # "plan-ceo-review" THEN "invalid"
    ELSE r.verdict

\* A plan or spec that does not parse is not evaluated.
Parses(s, p) ==
    /\ s \in DOMAIN spec /\ spec[s].rev # 0 /\ spec[s].index /\ spec[s].state # "none"
    /\ plan_last_reviewer_is_valid_for_state(plan[p].state, plan[p].by)
    /\ plan[p].srcRev # 0
    /\ plan[p].sound

ReportOf(f, s, p) ==
    IF reviews[f].readable THEN evaluate_parsed_plan_fidelity_review_artifact(reviews[f], s, p) ELSE "unreadable"
FilesReported(report, s, p) == {f \in DOMAIN reviews : ReportOf(f, s, p) \in report}

\* file: the artifact the report is about, 0 if none is named.
evaluate_plan_fidelity_review(s, p) ==
    LET current == FilesReported({"pass", "fail", "invalid"}, s, p)
        stale == FilesReported({"stale"}, s, p)
        unreadable == FilesReported({"unreadable"}, s, p)
    IN  IF Cardinality({ReportOf(f, s, p) : f \in current}) > 1 THEN [state |-> "invalid", file |-> 0]
        ELSE IF current # {} THEN [state |-> ReportOf(Lowest(current), s, p), file |-> Lowest(current)]
        ELSE IF stale # {} THEN [state |-> "stale", file |-> Lowest(stale)]
        ELSE IF unreadable # {} THEN [state |-> "invalid", file |-> Lowest(unreadable)]
        ELSE [state |-> "missing", file |-> 0]

evaluate_plan_fidelity_gate(s, p) ==
    IF ~Parses(s, p) THEN [state |-> "invalid", file |-> 0] ELSE evaluate_plan_fidelity_review(s, p)

\* The file the template names for the reviewer.
TemplatePath(s, p) ==
    LET gate == evaluate_plan_fidelity_gate(s, p) IN IF gate.file = 0 THEN p ELSE gate.file

-----------------------------------------------------------------------------
(***************************************************************************)
(* The route.                                                              *)
(***************************************************************************)
RouteTo(status, skill, s, p, why) == [status |-> status, skill |-> skill, spec |-> s, plan |-> p, why |-> why]

stale_source_spec_linkage(s, p) ==
    \/ s \notin DOMAIN spec
    \/ plan[p].src # s
    \/ plan[p].srcRev \notin {0, spec[s].rev}

\* The analysis has no reason against the plan.
contract_valid(s, p) ==
    /\ s \in DOMAIN spec /\ spec[s].rev # 0 /\ spec[s].index
    /\ plan[p].srcRev = spec[s].rev /\ plan[p].src = s
    /\ plan_last_reviewer_is_valid_for_state(plan[p].state, plan[p].by)
    /\ plan[p].sound

route_for_draft_plan_candidate(s, p) ==
    LET gate == evaluate_plan_fidelity_gate(s, p).state
        parsed == parse_workflow_plan_candidate(p)
    IN  IF stale_source_spec_linkage(s, p) \/ parsed.malformed \/ ~contract_valid(s, p)
        THEN RouteTo("plan_draft", "writing-plans", s, p, "contract")
        ELSE IF parsed.by = "plan-eng-review" /\ gate \notin {"pass", "fail"}
        THEN RouteTo("plan_draft", "plan-fidelity-review", s, p, gate)
        ELSE RouteTo("plan_draft", "plan-eng-review", s, p, gate)

route_for_engineering_approved_plan_candidate(s, p) ==
    IF evaluate_plan_fidelity_gate(s, p).state = "pass"
    THEN RouteTo("implementation_ready", "", s, p, "")
    ELSE RouteTo("plan_review_required", "plan-eng-review", s, p, evaluate_plan_fidelity_gate(s, p).state)

route_for_plan_candidate(s, p) ==
    IF parse_workflow_plan_candidate(p).state = "Draft" THEN route_for_draft_plan_candidate(s, p)
    ELSE IF stale_source_spec_linkage(s, p)
    THEN RouteTo("stale_plan", "writing-plans", s, p, "stale_spec_plan_linkage")
    ELSE IF contract_valid(s, p) THEN route_for_engineering_approved_plan_candidate(s, p)
    ELSE RouteTo("plan_draft", "plan-eng-review", s, p, "contract")

\* --plan: the plan's own source spec is taken, approved or not.
explicit_plan_override_route(p) == route_for_plan_candidate(plan[p].src, p)

\* The manifest counts if it is one of this repository and branch.
matching_manifest(m) == IF m.here THEN m ELSE NoManifest

RouteForApprovedSpec(m, s) ==
    LET exact == {p \in scan_plans : plan[p].src = s}
        selected == m.plan # 0 /\ m.plan \in scan_plans
    IN  IF ~selected /\ (Cardinality(exact) > 1 \/ (exact = {} /\ Cardinality(scan_plans) > 1))
        THEN RouteTo("spec_approved_needs_plan", "writing-plans", s, 0, "ambiguous_plan_candidates")
        ELSE IF selected THEN route_for_plan_candidate(s, m.plan)
        ELSE IF exact # {} THEN route_for_plan_candidate(s, Lowest(exact))
        ELSE IF scan_plans # {} THEN route_for_plan_candidate(s, Lowest(scan_plans))
        ELSE RouteTo("spec_approved_needs_plan", "writing-plans", s, m.plan,
                     IF m.plan \notin {0} \cup DOMAIN plan THEN "missing_expected_plan" ELSE "")

resolve_route(loaded, refresh) ==
    LET m == matching_manifest(loaded)
        selected == m.spec \in DOMAIN spec
        s == IF selected THEN m.spec ELSE Highest(spec_candidates)
    IN  IF m.spec \notin {0} \cup DOMAIN spec /\ ~(refresh /\ Cardinality(spec_candidates) = 1)
        THEN RouteTo("needs_brainstorming", "brainstorming", m.spec, 0, "missing_expected_spec")
        ELSE IF spec_candidates = {} /\ malformed_spec_candidates # {}
        THEN RouteTo("spec_draft", "plan-ceo-review", Highest(malformed_spec_candidates), 0, "malformed_spec_headers")
        ELSE IF spec_candidates = {} THEN RouteTo("needs_brainstorming", "brainstorming", 0, 0, "")
        ELSE IF ~selected /\ Cardinality(spec_candidates) > 1
        THEN RouteTo("spec_draft", "plan-ceo-review", s, 0, "ambiguous_spec_candidates")
        ELSE IF parse_workflow_spec_candidate(s).state = "Draft" THEN RouteTo("spec_draft", "plan-ceo-review", s, 0, "")
        ELSE RouteForApprovedSpec(m, s)

\* The manifest at the slug's path, else one of this repository under another
\* slug.
discover ==
    LET ours == {g \in DOMAIN manifests : manifests[g].ok /\ manifests[g].m.here}
    IN  IF slug \in DOMAIN manifests
        THEN IF manifests[slug].ok THEN manifests[slug].m ELSE NoManifest
        ELSE IF ours # {} THEN manifests[Lowest(ours)].m ELSE NoManifest

\* What every command that asks for the route sees.
resolve == resolve_route(discover, FALSE)

-----------------------------------------------------------------------------
(***************************************************************************)
(* The skills.  Each does what its document says to the documents the      *)
(* route names.                                                            *)
(***************************************************************************)
OnlyDocs == turn' = 1 - turn /\ UNCHANGED <<manifests, slug, limit>>

\* A text that no document and no review has.
Used ==
    {spec[s].text : s \in DOMAIN spec} \cup {plan[p].text : p \in DOMAIN plan}
    \cup (UNION {{reviews[f].doc.text, reviews[f].specDoc.text} : f \in DOMAIN reviews})
    \cup (UNION {{r[1].text, r[2].text} : r \in passed})
NewText == Lowest((1..(Cardinality(Used) + 1)) \ Used)

Acts == docEdits < MaxDocEdits /\ docEdits' = docEdits + 1

NewSpec == [state |-> "Draft", by |-> "brainstorming", rev |-> 1, text |-> NewText, index |-> TRUE]

Brainstorm(route) ==
    /\ route.skill = "brainstorming"
    /\ \E s \in SpecPaths \ DOMAIN spec :
        /\ route.spec \in {0, s}
        /\ spec' = With(spec, s, NewSpec)
    /\ UNCHANGED <<index, plan, reviews, docEdits, passed>> /\ OnlyDocs

\* The review picks one of several specs, or settles its headers and approves.
CeoReview(route) ==
    /\ route.skill = "plan-ceo-review"
    /\ IF route.why = "ambiguous_spec_candidates"
       THEN index' = {route.spec} /\ UNCHANGED spec
       ELSE /\ spec' = [spec EXCEPT ![route.spec] =
                    [state |-> "CEO Approved", by |-> "plan-ceo-review", rev |-> IF @.rev = 0 THEN 1 ELSE @.rev,
                     text |-> IF @.index THEN @.text ELSE NewText, index |-> TRUE]]
                    /\ UNCHANGED index
    /\ UNCHANGED <<plan, reviews, docEdits, passed>> /\ OnlyDocs

\* A skill that finds the spec not approved, or without requirements, returns
\* it to its review.
Plannable(s) == spec[s].state = "CEO Approved" /\ spec[s].by = "plan-ceo-review" /\ spec[s].rev # 0 /\ spec[s].index
ReturnToCeoReview(s) ==
    /\ spec' = [spec EXCEPT ![s].state = "Draft", ![s].by = "plan-ceo-review", ![s].rev = @ + 1]
    /\ UNCHANGED <<index, plan, reviews, docEdits, passed>>

\* The plan of the route, or a new file if that is no plan of this spec.
PlanFilesFor(s, p) ==
    IF p # 0 /\ p \notin DOMAIN plan THEN {p}
    ELSE ({p} \ {0}) \cup {q \in PlanPaths \ scan_plans : p = 0 \/ plan[p].src # s}

WritePlan(route) ==
    /\ route.skill = "writing-plans"
    /\ LET s == route.spec IN
        \/ ~Plannable(s) /\ ReturnToCeoReview(s)
        \/ /\ Plannable(s) /\ route.why = "ambiguous_plan_candidates"
           /\ \E p \in scan_plans : plan' = Without(plan, scan_plans \ {p})
           /\ UNCHANGED <<spec, index, reviews, docEdits, passed>>
        \/ /\ Plannable(s) /\ route.why # "ambiguous_plan_candidates"
           /\ \E p \in PlanFilesFor(s, route.plan) :
                plan' = With(plan, p, [state |-> "Draft", by |-> "writing-plans", src |-> s, srcRev |-> spec[s].rev,
                                       text |-> NewText, sound |-> TRUE])
                  /\ UNCHANGED <<spec, index, reviews, docEdits, passed>>
    /\ OnlyDocs

\* Engineering review: hand over to the fidelity review, edit again, or
\* approve after it passed.
EngReview(route) ==
    /\ route.skill = "plan-eng-review"
    /\ LET s == route.spec
           p == route.plan
           Becomes(state, by) == plan' = [plan EXCEPT ![p].state = state, ![p].by = by]
           Edit == plan' = [plan EXCEPT ![p] = [@ EXCEPT !.state = "Draft", !.by = "writing-plans", !.text = NewText,
                                                         !.sound = TRUE, !.srcRev = spec[s].rev]]
       IN  \/ ~Plannable(s) /\ ReturnToCeoReview(s)
           \/ /\ Plannable(s)
              /\ \/ route.status = "plan_review_required" /\ Becomes("Draft", "plan-eng-review")
                 \/ plan[p].state = "Draft" /\ plan[p].by = "writing-plans" /\ Becomes("Draft", "plan-eng-review")
                 \/ plan[p].state = "Draft" /\ plan[p].by # "writing-plans" /\ route.why = "pass"
                    /\ Becomes("Engineering Approved", "plan-eng-review")
                 \/ route.why \in {"fail", "contract"} /\ plan[p].by # "writing-plans" /\ Edit
              /\ UNCHANGED <<spec, index, reviews, docEdits, passed>>
    /\ OnlyDocs

\* The reviewer fills in the template and writes the file it names.
Review(p, s, verdict, complete) ==
    [readable |-> TRUE, plan |-> p, spec |-> s, doc |-> plan_source_with_workflow_state(p, "Engineering Approved"),
     specDoc |-> spec[s], verdict |-> verdict, complete |-> complete]

FidelityReview(route) ==
    /\ route.skill = "plan-fidelity-review"
    /\ LET s == route.spec
           p == route.plan
       IN  \/ ~Plannable(s) /\ ReturnToCeoReview(s)
           \/ /\ Plannable(s)
              /\ \/ /\ reviews' = With(reviews, TemplatePath(s, p), Review(p, s, "pass", TRUE))
                    /\ passed' = passed \cup {<<Review(p, s, "pass", TRUE).doc, spec[s]>>}
                    /\ UNCHANGED docEdits
                 \/ /\ Acts
                    /\ reviews' = With(reviews, TemplatePath(s, p), Review(p, s, "fail", TRUE))
                    /\ UNCHANGED passed
              /\ UNCHANGED <<spec, index, plan>>
    /\ OnlyDocs



-----------------------------------------------------------------------------
(***************************************************************************)
(* What people do to the documents outside of the skills.                  *)
(***************************************************************************)
\* A new feature, a silent edit, a revision, headers that do not read.
EditSpec(s) ==
    /\ \/ s \notin DOMAIN spec /\ spec' = With(spec, s, NewSpec)
       \/ s \in DOMAIN spec /\ \E d \in {[spec[s] EXCEPT !.text = NewText],
                                        [spec[s] EXCEPT !.text = NewText, !.index = FALSE],
                                        [spec[s] EXCEPT !.text = NewText, !.rev = @ + 1],
                                        [spec[s] EXCEPT !.rev = 0],
                                        [spec[s] EXCEPT !.state = "Implementation Target", !.by = "clean-context review loop"]} :
            spec' = [spec EXCEPT ![s] = d]
       \/ s \in DOMAIN spec /\ spec' = Without(spec, {s})
    /\ UNCHANGED <<index, plan, reviews>>

EditPlan(p) ==
    /\ p \in DOMAIN plan
    /\ \/ \E d \in {[plan[p] EXCEPT !.text = NewText], [plan[p] EXCEPT !.text = NewText, !.sound = FALSE],
                     [plan[p] EXCEPT !.by = "none"], [plan[p] EXCEPT !.state = "none"],
                     [plan[p] EXCEPT !.state = "Engineering Approved", !.by = "plan-eng-review"],
                     [plan[p] EXCEPT !.srcRev = 0]} :
            plan' = [plan EXCEPT ![p] = d]
       \/ plan' = Without(plan, {p})
    /\ UNCHANGED <<spec, index, reviews>>

\* Another reviewer's artifact, under any name; one that cannot be read.
OtherReview(f) ==
    /\ \E p \in DOMAIN plan :
        /\ plan[p].src \in DOMAIN spec
        /\ \E verdict \in {"pass", "fail"}, complete \in BOOLEAN :
            /\ reviews' = With(reviews, f, Review(p, plan[p].src, verdict, complete))
            /\ passed' = IF verdict = "pass" /\ complete
                         THEN passed \cup {<<plan_source_with_workflow_state(p, "Engineering Approved"), spec[plan[p].src]>>}
                         ELSE passed
    /\ UNCHANGED <<spec, index, plan>>

BreakReview(f) ==
    /\ f \in DOMAIN reviews
    /\ reviews' = [reviews EXCEPT ![f].readable = FALSE]
    /\ UNCHANGED <<spec, index, plan>>

ListSpecs ==
    /\ index' \in SUBSET SpecPaths
    /\ UNCHANGED <<spec, plan, reviews>>

People ==
    /\ Acts
    /\ \/ (\E s \in SpecPaths : EditSpec(s)) /\ UNCHANGED passed
       \/ (\E p \in PlanPaths : EditPlan(p)) /\ UNCHANGED passed
       \/ \E f \in ReviewFiles : OtherReview(f)
       \/ (\E f \in ReviewFiles : BreakReview(f)) /\ UNCHANGED passed
       \/ ListSpecs /\ UNCHANGED passed
    /\ UNCHANGED <<manifests, slug, limit, turn>>

(***************************************************************************)
(* The manifest: what happens to its file, and the library's operations    *)
(* that write it.  A save that fails twice changes nothing.                *)
(***************************************************************************)
ManifestFile(m) == [ok |-> TRUE, m |-> m]

ManifestChanges ==
    /\ Acts
    /\ \/ slug' \in Slugs \ {slug} /\ UNCHANGED <<manifests, limit>>
       \/ limit' \in Limits \ {limit} /\ UNCHANGED <<manifests, slug>>
       \/ slug \in DOMAIN manifests /\ manifests' = [manifests EXCEPT ![slug].ok = FALSE] /\ UNCHANGED <<slug, limit>>
       \/ /\ \E s \in SpecPaths : manifests' = With(manifests, slug, ManifestFile([here |-> FALSE, spec |-> s, plan |-> 0]))
          /\ UNCHANGED <<slug, limit>>
    /\ UNCHANGED <<docVars, turn, passed>>

\* A corrupt manifest is moved out of the way.
Discover ==
    /\ slug \in DOMAIN manifests /\ ~manifests[slug].ok
    /\ manifests' = Without(manifests, {slug})
    /\ UNCHANGED <<docVars, slug, limit, turn, docEdits, passed>>

save_manifest(m) ==
    /\ Acts
    /\ manifests' = With(manifests, slug, ManifestFile(m))
    /\ UNCHANGED <<docVars, slug, limit, turn, passed>>

\* The route that was found becomes what is expected.
status_refresh ==
    LET route == resolve_route(discover, TRUE)
    IN  save_manifest([here |-> TRUE, spec |-> route.spec, plan |-> route.plan])

\* The manifest that was loaded, one of another repository included.
LoadedOrNew == IF discover = NoManifest THEN [NoManifest EXCEPT !.here = TRUE] ELSE discover

expect_spec(s) == save_manifest([LoadedOrNew EXCEPT !.spec = s, !.plan = 0])
expect_plan(p) == save_manifest([LoadedOrNew EXCEPT !.plan = p])
sync_spec(s) == save_manifest([LoadedOrNew EXCEPT !.spec = s])
sync_plan(p) == save_manifest([LoadedOrNew EXCEPT !.plan = p])

-----------------------------------------------------------------------------
wfInit ==
    /\ spec = <<>> /\ index = {} /\ plan = <<>> /\ reviews = <<>>
    /\ manifests = <<>> /\ slug = Lowest(Slugs) /\ limit = 0
    /\ turn = 0 /\ docEdits = 0 /\ passed = {}

Skills ==
    \E route \in {resolve} :
        Brainstorm(route) \/ CeoReview(route) \/ WritePlan(route) \/ EngReview(route) \/ FidelityReview(route)

wfNext ==
    \/ Skills
    \/ People \/ ManifestChanges \/ Discover \/ status_refresh
    \/ \E s \in SpecPaths : expect_spec(s) \/ sync_spec(s)
    \/ \E p \in PlanPaths : expect_plan(p) \/ sync_plan(p)

\* Weak fairness of Skills, which is possible as long as the route names one.
wfFairness == []<>(resolve.skill = "") \/ []<><<Skills>>_wfVars

wfSpec == wfInit /\ [][wfNext]_wfVars /\ wfFairness

-----------------------------------------------------------------------------
Ready(route) == route.status = "implementation_ready"

\* A route that is ready for implementation, found through the manifest or for
\* a plan that was named, is one for an approved and sound plan of the present
\* revision of a CEO-approved spec, and an independent reviewer has passed
\* exactly this plan and this spec; no review of it says otherwise.
ReadyMeansReviewed ==
    \A route \in {resolve} \cup {explicit_plan_override_route(p) : p \in scan_plans} :
        Ready(route) =>
            LET s == spec[route.spec]
                p == plan[route.plan]
            IN  /\ s.state = "CEO Approved" /\ s.by = "plan-ceo-review" /\ s.index
                /\ p.state = "Engineering Approved" /\ p.by = "plan-eng-review" /\ p.sound
                /\ p.src = route.spec /\ p.srcRev = s.rev
                /\ <<p, s>> \in passed
                /\ \A f \in DOMAIN reviews :
                    reviews[f].readable /\ reviews[f].doc = p /\ reviews[f].specDoc = s => reviews[f].verdict = "pass"

\* Two reviewers disagree about the plan as it stands.
ReviewsDisagree(s, p) ==
    /\ s \in DOMAIN spec /\ p \in DOMAIN plan
    /\ Cardinality({ReportOf(f, s, p) : f \in FilesReported({"pass", "fail", "invalid"}, s, p)}) > 1

\* An agent that always runs the skill the route names gets to the
\* implementation once people leave the documents alone, unless two reviewers
\* disagree: the template then names a file whose rewriting need not settle it.
EventuallyReady == <>[](Ready(resolve) \/ ReviewsDisagree(resolve.spec, resolve.plan))

\* The review of one plan is not written over the passing review of another
\* plan that is ready.
ReviewsAreKept ==
    [][\A p \in scan_plans :
        Ready(explicit_plan_override_route(p)) /\ plan' = plan /\ spec' = spec /\ docEdits' = docEdits
        => Ready(explicit_plan_override_route(p))']_wfVars

=============================================================================
