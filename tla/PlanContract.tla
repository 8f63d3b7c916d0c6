---------------------------- MODULE PlanContract ----------------------------
(***************************************************************************)
(* The contract between a plan and its source spec, read by three parsers: *)
(* plan contract lint (validate_contract, the first error), plan contract  *)
(* analyze-plan (analyze_contract, every reason, over tasks it splits more *)
(* loosely) and the typed parser that build-task-packet and the workflow   *)
(* use (parse_spec_source, parse_plan_source, analyze_documents).          *)
(*                                                                         *)
(* A document is what its lines say, not the lines: a flaw names the line  *)
(* that is wrong.  The author edits the two documents; every parser reads  *)
(* the same text.                                                          *)
(***************************************************************************)
EXTENDS Naturals, Sequences, FiniteSets, FiniteSetsExt

CONSTANTS ReqIds,      \* requirement ids a document may mention
          MaxEdits     \* bound on the author's edits

\* The plan an author starts from covers two requirements.
ASSUME ReqIdsAssumption == \E r, q \in ReqIds : r # q

VARIABLES specDoc,     \* the sd: [revision, state, index, ids]
          planDoc,     \* the pd: [headers, reviewer, tasks, matrix, entries, trailing]
          edits        \* edits so far

pcVars == <<specDoc, planDoc, edits>>

\* Flaws of a task's own lines, by the check that meets them.
HeadingFlaws == {"### heading", "unnumbered heading"}
FieldFlaws == {"TaskMissingGoal", "TaskMissingContext", "TaskMissingConstraints",
               "TaskMissingDoneWhen", "LegacyTaskField", "TaskFieldOrder",
               "DuplicateTaskField", "MalformedTaskContractField"}
StepFlaws == {"step before files", "duplicate step"}
WordingFlaws == {"task_goal_not_atomic", "task_not_self_contained", "ambiguous_task_wording",
                 "missing_spec_context", "task_nondeterministic_done_when"}
TaskFlaws == {"none", "no coverage line", "MalformedFilesBlock", "weakens"}
             \cup HeadingFlaws \cup FieldFlaws \cup StepFlaws \cup WordingFlaws

\* Matrix entries: the tasks an id maps to; an id may be missing.
NoEntry == {}

Numbers == 1 .. 3

----------------------------------------------------------------------------
(* What every parser sees of the documents.                                *)

MatrixIds(pd) == {r \in ReqIds : pd.entries[r] # NoEntry}

HeadersParse(pd) == pd.headers = "ok"

parse_requirement_index(sd) ==
    CASE sd.revision # "ok" -> "unexpected"
      [] sd.index = "none" -> "missing"
      [] sd.index = "malformed" \/ sd.ids = {} -> "malformed"
      [] OTHER -> "ok"

parse_coverage_matrix(pd) ==
    CASE pd.matrix = "malformed" -> "malformed"
      [] pd.matrix = "none" \/ MatrixIds(pd) = {} -> "missing"
      [] OTHER -> "ok"

\* The class of the first error of one task's block.
parse_task_block(task) ==
    CASE task.flaw \in StepFlaws -> "MalformedTaskStructure"
      [] task.flaw = "no coverage line" -> "TaskMissingSpecCoverage"
      [] task.flaw \in FieldFlaws \cup {"MalformedFilesBlock"} -> task.flaw
      [] OTHER -> "ok"

\* split_canonical_task_blocks: headings and numbers before any block.
SplitFails(pd) ==
    \/ \E i \in DOMAIN pd.tasks : pd.tasks[i].flaw \in HeadingFlaws
    \/ \E i, j \in DOMAIN pd.tasks :
        i # j /\ pd.tasks[i].number = pd.tasks[j].number

\* parse_plan: the class of its first error, or ok.
parse_plan(pd) ==
    LET bad == {i \in DOMAIN pd.tasks : parse_task_block(pd.tasks[i]) # "ok"}
    IN  IF ~HeadersParse(pd) \/ SplitFails(pd) THEN "MalformedTaskStructure"
        ELSE IF bad = {} THEN "ok"
        ELSE parse_task_block(pd.tasks[Min(bad)])

DuplicateIntent(pd) ==
    \E i, j \in DOMAIN pd.tasks : i # j /\ pd.tasks[i].goal = pd.tasks[j].goal

----------------------------------------------------------------------------
(* plan contract lint.                                                     *)

\* What is wrong with a task, in the order of the code's loop.
TaskError(sd, pd, task) ==
    CASE task.ids = {} -> "TaskMissingSpecCoverage"
      [] \E r \in task.ids : r \notin sd.ids -> "UnknownRequirementId"
      [] \E r \in task.ids : task.number \notin pd.entries[r] -> "CoverageMatrixMismatch"
      [] task.flaw \in WordingFlaws -> task.flaw
      [] task.flaw = "weakens" -> "RequirementWeakeningDetected"
      [] OTHER -> "ok"

MatrixError(sd, pd) ==
    CASE MatrixIds(pd) \ sd.ids # {} -> "UnknownRequirementId"
      [] \E r \in MatrixIds(pd) :
            pd.entries[r] \ {pd.tasks[i].number : i \in DOMAIN pd.tasks} # {} ->
                "CoverageMatrixMismatch"
      [] sd.ids \ UNION {pd.tasks[i].ids : i \in DOMAIN pd.tasks} # {}
         \/ sd.ids \ MatrixIds(pd) # {} -> "MissingRequirementCoverage"
      [] OTHER -> "ok"

validate_contract(sd, pd) ==
    LET bad == {i \in DOMAIN pd.tasks : TaskError(sd, pd, pd.tasks[i]) # "ok"}
    IN  CASE parse_requirement_index(sd) # "ok" -> "RequirementIndex"
          [] parse_plan(pd) # "ok" -> parse_plan(pd)
          [] parse_coverage_matrix(pd) # "ok" -> "CoverageMatrix"
          [] bad # {} -> TaskError(sd, pd, pd.tasks[Min(bad)])
          [] DuplicateIntent(pd) -> "DuplicateTaskIntent"
          [] OTHER -> MatrixError(sd, pd)

----------------------------------------------------------------------------
(* plan contract analyze-plan.                                             *)

\* parse_loose_tasks: a heading that is not `## Task N:' starts no task, and
\* the last task's block runs to the end of the plan, trailing sections
\* included.
LooseTasks(pd) ==
    {i \in DOMAIN pd.tasks : pd.tasks[i].flaw \notin HeadingFlaws}

LooseIds(pd, i) ==
    CASE i = Len(pd.tasks) /\ pd.trailing = "coverage line" -> {CHOOSE r \in ReqIds : TRUE}
      [] pd.tasks[i].flaw = "no coverage line" -> {}
      [] OTHER -> pd.tasks[i].ids

\* detect_requirement_weakening: weaker wording of a requirement it covers.
LooseWeakens(pd, i) ==
    \/ pd.tasks[i].flaw = "weakens"
    \/ i = Len(pd.tasks) /\ pd.trailing = "weaker wording"

LooseNumbers(pd) == {pd.tasks[i].number : i \in LooseTasks(pd)}

LooseTaskReasons(sd, pd, i) ==
    LET ids == LooseIds(pd, i)
        number == pd.tasks[i].number
    IN  {r \in {"task_missing_spec_coverage"} : ids = {}}
        \cup {r \in {"unknown_requirement_id"} : ids \ sd.ids # {}}
        \cup {r \in {"coverage_matrix_mismatch"} :
                \E q \in ids \cap sd.ids : number \notin pd.entries[q]}
        \cup {r \in {"requirement_weakening_detected"} :
                ids # {} /\ ids \subseteq sd.ids /\ LooseWeakens(pd, i)}

\* A plan analysis that reads the matrix only from the tasks' side.
MatrixReasonsOneWay(sd, pd) ==
    {r \in {"missing_requirement_coverage"} : sd.ids \ MatrixIds(pd) # {}}

MatrixReasons(sd, pd) ==
    LET covered == (UNION {LooseIds(pd, i) : i \in LooseTasks(pd)}) \cap sd.ids
    IN  {r \in {"unknown_requirement_id"} : MatrixIds(pd) \ sd.ids # {}}
        \cup {r \in {"coverage_matrix_mismatch"} :
                \E q \in MatrixIds(pd) : pd.entries[q] \ LooseNumbers(pd) # {}}
        \cup {r \in {"missing_requirement_coverage"} :
                sd.ids \ covered # {} \/ sd.ids \ MatrixIds(pd) # {}}

PlanReasons(pd) ==
    IF parse_plan(pd) # "ok"
    THEN {parse_plan(pd)}
         \cup ({parse_task_block(pd.tasks[i]) : i \in LooseTasks(pd)} \ {"ok"})
    ELSE ({pd.tasks[i].flaw : i \in DOMAIN pd.tasks} \cap WordingFlaws)
         \cup {r \in {"duplicate_task_intent"} : DuplicateIntent(pd)}

analyze_contract(sd, pd) ==
    {r \in {"missing_spec_revision"} : sd.revision # "ok"}
    \cup {r \in {"malformed_headers"} : ~HeadersParse(pd)}
    \cup PlanReasons(pd)
    \cup ({parse_requirement_index(sd)} \ {"ok"})
    \cup ({parse_coverage_matrix(pd)} \ {"ok"})
    \cup (IF parse_requirement_index(sd) = "ok" /\ parse_coverage_matrix(pd) = "ok"
          THEN (UNION {LooseTaskReasons(sd, pd, i) : i \in LooseTasks(pd)})
               \cup MatrixReasons(sd, pd)
          ELSE {})

----------------------------------------------------------------------------
(* The typed parser and what build-task-packet makes of it.                *)

parse_spec_source(sd) ==
    sd.state = "ok" /\ sd.revision = "ok" /\ sd.index = "ok" /\ sd.ids # {}

\* The typed parser also holds the reviewer against the workflow state.
parse_plan_source(pd) ==
    /\ HeadersParse(pd) /\ pd.reviewer = "fits the state"
    /\ pd.matrix # "malformed"
    /\ ~SplitFails(pd)
    /\ \A i \in DOMAIN pd.tasks : parse_task_block(pd.tasks[i]) = "ok"

\* analyze_documents holds the matrix only against the spec's ids.
analyze_documents(sd, pd) ==
    {r \in {"missing_requirement_coverage"} : sd.ids \ MatrixIds(pd) # {}}
    \cup ({pd.tasks[i].flaw : i \in DOMAIN pd.tasks} \cap WordingFlaws)
    \cup {r \in {"duplicate_task_intent"} : DuplicateIntent(pd)}

build_task_packet(sd, pd, number) ==
    /\ HeadersParse(pd)
    /\ validate_contract(sd, pd) = "ok"
    /\ \E i \in DOMAIN pd.tasks : pd.tasks[i].number = number
    /\ parse_spec_source(sd)
    /\ parse_plan_source(pd)

----------------------------------------------------------------------------
(* The author.                                                             *)

\* A plan of two tasks that covers a spec of two requirements.
pcInit ==
    LET r == CHOOSE x \in ReqIds : TRUE
        q == CHOOSE x \in ReqIds : x # r
    IN  /\ specDoc = [revision |-> "ok", state |-> "ok", index |-> "ok", ids |-> {r, q}]
        /\ planDoc = [headers |-> "ok", reviewer |-> "fits the state", matrix |-> "ok",
                      tasks |-> <<[number |-> 1, goal |-> 1, ids |-> {r}, flaw |-> "none"],
                                  [number |-> 2, goal |-> 2, ids |-> {r, q}, flaw |-> "none"]>>,
                      entries |-> [x \in ReqIds |-> CASE x = r -> {1, 2}
                                                      [] x = q -> {2}
                                                      [] OTHER -> NoEntry],
                      trailing |-> "none"]
        /\ edits = 0

ReviseSpec ==
    /\ \/ \E v \in {"ok", "missing"} : specDoc' = [specDoc EXCEPT !.revision = v]
       \/ \E v \in {"ok", "missing"} : specDoc' = [specDoc EXCEPT !.state = v]
       \/ \E v \in {"ok", "none", "malformed"} : specDoc' = [specDoc EXCEPT !.index = v]
       \/ \E v \in SUBSET ReqIds : specDoc' = [specDoc EXCEPT !.ids = v]
    /\ UNCHANGED planDoc

RevisePlan ==
    /\ \/ \E v \in {"ok", "malformed"} : planDoc' = [planDoc EXCEPT !.headers = v]
       \/ \E v \in {"fits the state", "does not fit"} : planDoc' = [planDoc EXCEPT !.reviewer = v]
       \/ \E v \in {"ok", "none", "malformed"} : planDoc' = [planDoc EXCEPT !.matrix = v]
       \/ \E r \in ReqIds, v \in SUBSET Numbers : planDoc' = [planDoc EXCEPT !.entries[r] = v]
       \/ \E v \in {"none", "coverage line", "weaker wording"} :
            planDoc' = [planDoc EXCEPT !.trailing = v]
    /\ UNCHANGED specDoc

ReviseTask ==
    /\ \E i \in DOMAIN planDoc.tasks :
        \/ \E v \in Numbers : planDoc' = [planDoc EXCEPT !.tasks[i].number = v]
        \/ \E v \in {1, 2} : planDoc' = [planDoc EXCEPT !.tasks[i].goal = v]
        \/ \E v \in SUBSET ReqIds : planDoc' = [planDoc EXCEPT !.tasks[i].ids = v]
        \/ \E v \in TaskFlaws : planDoc' = [planDoc EXCEPT !.tasks[i].flaw = v]
    /\ UNCHANGED specDoc

pcNext ==
    /\ edits < MaxEdits
    /\ edits' = edits + 1
    /\ ReviseSpec \/ RevisePlan \/ ReviseTask

pcSpec == pcInit /\ [][pcNext]_pcVars

----------------------------------------------------------------------------
(* Properties.                                                             *)

\* The three parsers agree: analyze-plan reports nothing about the text of a
\* plan exactly when lint accepts it, and what lint accepts the typed parser
\* reads without a reason of its own and build-task-packet turns into a
\* packet for every task.  Excepted are the texts on which they are known to
\* differ: field lines in sections after the last task, a reviewer that does
\* not fit the state, and a spec without a workflow state.  (An edit may leave
\* the text as it was.)
ParsersAgree ==
    edits > 0 /\ planDoc.trailing = "none" =>
        /\ (validate_contract(specDoc, planDoc) = "ok") <=>
           (analyze_contract(specDoc, planDoc) = {})
        /\ (validate_contract(specDoc, planDoc) = "ok"
            /\ planDoc.reviewer = "fits the state" /\ specDoc.state = "ok") =>
                /\ analyze_documents(specDoc, planDoc) = {}
                /\ \A i \in DOMAIN planDoc.tasks :
                    build_task_packet(specDoc, planDoc, planDoc.tasks[i].number)
=============================================================================
