SPECIFICATION mcSpec
CONSTANTS
    Procs = {p1, p2}
    Steps <- MCTwoStepTask
    MaxAttempts = 3
    MaxCommands = 10
    TaskNos = {1, 2}
    BaseFacts <- MCFacts
    MaxFactChanges = 2
    PlanTasks = {1, 2, 3}
    Layouts <- MCLayouts
    MaxDirectives = 3
    ReqIds = {"R1", "R2", "R3"}
    MaxEdits = 2
SYMMETRY MCSymmetry
INVARIANTS
    CycleBreakBound
    CompletedHasEvidence
    OpenStepIsIncomplete
    RouteIsAccepted
    OnlyKnownDeadEnds
    LanesAreDisjoint
    LastRunsLast
    ParsersAgree
PROPERTIES
    TaskBoundary
    ReopenSparesClosedTasks
CHECK_DEADLOCK FALSE
