SPECIFICATION mcSpec
CONSTANTS
    Units = {"a", "b"}
    Tasks = {1}
    TaskOf <- MCTaskOf
    MaxClosures = 2
    MaxRewrites = 1
    Versions <- MCVersions
    Ticks = {1, 12, 36}
    Checkers = {"p1", "p2"}
    MaxChanges = 2
    Starters = {"p1", "p2"}
    Heads = {"h1", "h2"}
    Revisions = {1, 2}
    Hindrances = {"merge_in_progress"}
    MaxRunIds = 2
    MaxMoves = 1
    NoRun = NoRun
    Owners = {"a", "b"}
    Commits = {"h1", "h2"}
    Codes = {}
    Stamps = {1, 2}
    MaxFiles = 2
    MaxShifts = 2
    NoRecord = NoRecord
    SpecPaths = {1, 2}
    PlanPaths = {1, 2}
    ReviewFiles = {1, 2}
    Slugs = {1, 2}
    Limits = {0, 1}
    MaxDocEdits = 2
INVARIANTS
    GateMeansSettled
    NoticeIsTrue
    RunKeepsItsIdentity
    CheckpointIsTheAnswer
    ReadyMeansReviewed
PROPERTIES
    LeaseIsNotDropped
    WorkflowGetsReady
CHECK_DEADLOCK FALSE
