---------------------------- MODULE PlanTopology ----------------------------
(***************************************************************************)
(* The execution topology of a plan: what analyze_execution_topology makes *)
(* of the Execution Strategy, the Dependency Diagram and the write scopes  *)
(* of a plan, and what a plan it accepts lets its executors do at once.    *)
(*                                                                         *)
(* A directive is what the parser returns for one bullet of the strategy:  *)
(* its tasks and dependencies as sets (the code sorts and deduplicates     *)
(* them), its reason, and for a parallel group whether every task has a    *)
(* lane and how many worktrees it declares.  The diagram is the edges it   *)
(* draws.  The executors are the skills that follow the strategy: a task   *)
(* starts when the tasks it depends on are finished.                       *)
(***************************************************************************)
EXTENDS Naturals, Sequences, FiniteSets, FiniteSetsExt

CONSTANTS PlanTasks,       \* the task numbers of the plan
          Layouts,         \* candidate write scopes: path -> tasks that write it
          MaxDirectives    \* bound on the bullets of the strategy

ASSUME PlanTasksAssumption ==
    /\ PlanTasks \subseteq Nat \ {0}
    /\ IsFiniteSet(PlanTasks)

VARIABLES writers,      \* the write scopes of the plan: path -> tasks
          directives,   \* the bullets of its Execution Strategy, in order
          diagram,      \* the edges of its Dependency Diagram
          reasons,      \* the reason codes of its analysis; NotAnalyzed before
          underway,     \* the tasks being executed
          finished      \* the tasks that are done

ptVars == <<writers, directives, diagram, reasons, underway, finished>>

NotAnalyzed == {"not analyzed"}

\* The numbers a bullet may name: the tasks and one that is no task.  (What a
\* bullet depends on is always a task here; the analysis does not look.)
Written == PlanTasks \cup {Max(PlanTasks) + 1}

ExecutionDirective ==
    [kind : {"serial"}, tasks : (SUBSET Written) \ {{}}, deps : SUBSET PlanTasks,
     reason : {"", "plain", "seam"}, owned : {TRUE}, worktrees : {0}]
    \cup
    [kind : {"parallel"}, tasks : (SUBSET Written) \ {{}}, deps : SUBSET PlanTasks,
     reason : {""}, owned : BOOLEAN, worktrees : 0 .. Cardinality(Written)]
    \cup
    [kind : {"last"}, tasks : {{t} : t \in Written}, deps : {{}},
     reason : {"", "plain"}, owned : {TRUE}, worktrees : {0}]

Kinds(ds, kind) == {i \in DOMAIN ds : ds[i].kind = kind}

\* The pairs of neighbours of a set of task numbers in ascending order.
Windows(tasks) ==
    {p \in tasks \X tasks :
        p[1] < p[2] /\ ~\E t \in tasks : p[1] < t /\ t < p[2]}

----------------------------------------------------------------------------
(* The dependency edges the strategy claims.                               *)

\* A serial chain waits in its first task; every lane of a group waits.
DirectiveEdges(d) ==
    CASE d.kind = "serial" -> (d.deps \X {Min(d.tasks)}) \cup Windows(d.tasks)
      [] d.kind = "parallel" -> d.deps \X d.tasks
      [] OTHER -> {}

SourceEdges(edges, task) ==
    LET prior == PlanTasks \ {task}
        sinks == {s \in prior : ~\E e \in edges : e[2] = s /\ e[1] \in prior}
    IN  sinks \X {task}

\* `last' waits for the tasks no other task waits for.
SinkEdges(edges, task) ==
    LET prior == PlanTasks \ {task}
        sinks == {s \in prior : ~\E e \in edges : e[1] = s /\ e[2] \in prior}
    IN  sinks \X {task}

ExpectedEdges(ds) ==
    LET direct == UNION {DirectiveEdges(ds[i]) : i \in DOMAIN ds}
        EdgesUpTo[i \in 0 .. Len(ds)] ==
            IF i = 0 THEN direct
            ELSE EdgesUpTo[i - 1] \cup
                 (IF ds[i].kind = "last"
                  THEN SinkEdges(EdgesUpTo[i - 1], Min(ds[i].tasks))
                  ELSE {})
    IN  EdgesUpTo[Len(ds)]

\* The tasks a task depends on, directly or not: they are in every set that
\* holds what the task and the set's own members wait for.
collect_dependencies(edges, task) ==
    {t \in Written : \A D \in SUBSET Written :
        {e[1] : e \in {d \in edges : d[2] \in D \cup {task}}} \subseteq D => t \in D}

----------------------------------------------------------------------------
(* The checks, each the reason codes it reports.                           *)

Assigned(ds, task) == {i \in DOMAIN ds : task \in ds[i].tasks}

\* The kind the last directive to name a task gave it.
AssignedKind(ds, task) == ds[Max(Assigned(ds, task))].kind

DirectiveReasons(d) ==
    CASE d.kind = "serial" ->
            {r \in {"serial_execution_needs_reason"} : d.reason = ""}
      [] d.kind = "parallel" ->
            {r \in {"parallel_workspace_isolation_mismatch"} :
                d.worktrees # Cardinality(d.tasks)}
            \cup {r \in {"parallel_lane_missing_ownership"} : ~d.owned}
      [] OTHER ->
            {r \in {"serial_execution_needs_reason"} : d.reason = ""}
            \cup {r \in {"last_execution_not_final_task"} :
                    Min(d.tasks) # Max(PlanTasks)}

AssignmentReasons(ds) ==
    {r \in {"execution_topology_unknown_task"} :
        \E i \in DOMAIN ds : ~(ds[i].tasks \subseteq PlanTasks)}
    \cup
    {r \in {"execution_topology_duplicate_task"} :
        \E t \in PlanTasks : Cardinality(Assigned(ds, t)) > 1}
    \cup
    {r \in {"execution_topology_missing_task_coverage"} :
        \E t \in PlanTasks : Assigned(ds, t) = {}}

ShareWriteScope(scopes, left, right) ==
    \E p \in DOMAIN scopes : {left, right} \subseteq scopes[p]

\* Serial work names a real hazard: its neighbours write the same path, it
\* joins parallel lanes, or something depends on it.
SerialJustified(ds, d, edges, scopes) ==
    IF Cardinality(d.tasks) > 1
    THEN \/ \A w \in Windows(d.tasks) : ShareWriteScope(scopes, w[1], w[2])
         \/ /\ d.reason = "seam"
            /\ \E t \in d.deps : /\ Assigned(ds, t) # {}
                                 /\ AssignedKind(ds, t) = "parallel"
    ELSE d.deps # {} \/ \E e \in edges : e[1] \in d.tasks

Ordered(edges, t, u) ==
    t \in collect_dependencies(edges, u) \/ u \in collect_dependencies(edges, t)

HotspotsOrderedByNeighbour(edges, scopes) ==
    \A p \in DOMAIN scopes : \A w \in Windows(scopes[p]) : Ordered(edges, w[1], w[2])

\* A path that several tasks write orders every two of them.
HotspotsOrdered(edges, scopes) ==
    \A p \in DOMAIN scopes : \A t, u \in scopes[p] : t # u => Ordered(edges, t, u)

analyze_execution_topology(ds, drawn, scopes) ==
    LET edges == ExpectedEdges(ds)
    IN  (UNION {DirectiveReasons(ds[i]) : i \in DOMAIN ds})
        \cup AssignmentReasons(ds)
        \cup {r \in {"missing_execution_strategy"} : ds = <<>>}
        \cup {r \in {"serial_execution_unproven"} :
                \E i \in Kinds(ds, "serial") : ~SerialJustified(ds, ds[i], edges, scopes)}
        \cup {r \in {"dependency_diagram_mismatch"} : drawn # edges}
        \cup {r \in {"parallel_hotspot_conflict"} : ~HotspotsOrdered(edges, scopes)}

----------------------------------------------------------------------------
(* The author writes the plan, the runtime analyzes it, executors follow.  *)

ptInit ==
    /\ writers \in Layouts
    /\ directives = <<>>
    /\ diagram = {}
    /\ reasons = NotAnalyzed
    /\ underway = {}
    /\ finished = {}

\* Bullets come in the order of their first tasks, no task twice, at most
\* one of them flawed: a flaw changes reasons and never edges.
Tidy(d) ==
    /\ d.tasks \subseteq PlanTasks
    /\ d.deps \cap d.tasks = {}
    /\ d.kind = "serial" => d.reason # ""
    /\ d.kind = "last" => d.reason # ""
    /\ d.kind = "parallel" => d.owned /\ d.worktrees = Cardinality(d.tasks)

TidyDirectives == {d \in ExecutionDirective : Tidy(d)}

WriteDirective(d) ==
    /\ reasons = NotAnalyzed
    /\ Len(directives) < MaxDirectives
    /\ \A i \in DOMAIN directives :
        /\ Tidy(directives[i])
        /\ directives[i].tasks \cap d.tasks = {}
        /\ Min(directives[i].tasks) < Min(d.tasks)
    /\ directives' = Append(directives, d)
    /\ UNCHANGED <<writers, diagram, reasons, underway, finished>>

\* The author draws what the strategy says, or forgets an edge.
Drawings(ds) ==
    LET edges == ExpectedEdges(ds) IN {edges} \cup {edges \ {e} : e \in edges}

AnalyzePlan(drawn) ==
    /\ reasons = NotAnalyzed
    /\ diagram' = drawn
    /\ reasons' = analyze_execution_topology(directives, drawn, writers)
    /\ UNCHANGED <<writers, directives, underway, finished>>

StartTask(t) ==
    /\ reasons = {}
    /\ t \notin underway \cup finished
    /\ \A e \in diagram : e[2] = t => e[1] \in finished
    /\ underway' = underway \cup {t}
    /\ UNCHANGED <<writers, directives, diagram, reasons, finished>>

FinishTask(t) ==
    /\ t \in underway
    /\ underway' = underway \ {t}
    /\ finished' = finished \cup {t}
    /\ UNCHANGED <<writers, directives, diagram, reasons>>

ptNext ==
    \/ \E d \in IF directives = <<>> THEN ExecutionDirective ELSE TidyDirectives :
        WriteDirective(d)
    \/ \E drawn \in Drawings(directives) : AnalyzePlan(drawn)
    \/ \E t \in PlanTasks : StartTask(t) \/ FinishTask(t)

ptSpec == ptInit /\ [][ptNext]_ptVars

----------------------------------------------------------------------------
(* Properties.                                                             *)

\* Tasks that a plan the analysis accepts lets run at the same time write no
\* path in common, whatever chains and groups order them
\* (analyze_execution_topology, parallel_hotspot_conflict).
LanesAreDisjoint ==
    \A p \in DOMAIN writers : Cardinality(writers[p] \cap underway) <= 1

\* In an accepted plan without a cycle the task the strategy executes last
\* starts when every other task is finished, although its edges come only
\* from the sinks of the other directives.
LastRunsLast ==
    \A i \in Kinds(directives, "last") : \A t \in directives[i].tasks :
        (/\ t \in underway
         /\ ~\E u \in PlanTasks : u \in collect_dependencies(diagram, u))
            => PlanTasks \ {t} \subseteq finished
=============================================================================
