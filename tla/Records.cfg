SPECIFICATION mcSpec
CONSTANTS
    None = None
    Evaluators <- MCEvaluators
    Criteria <- MCCriteria
    VerifierTypes <- MCVerifierTypes
    PivotThreshold = 2
    MaxSequence = 3
    MaxRecords = 4
    MaxFaults = 1
    PlanTaskIds = {1, 2}
    Files = {"a", "b", "l"}
    LateFiles = {"l"}
    DeclaredFiles <- MCDeclared
    NoId = NoId
    MaxRuns = 2
    MaxTouches = 1
    MaxClosures = 5
    PlanSteps <- MCSteps
    PlanTexts = {1, 2}
    LateKinds = {"final-review"}
    NoDoc = NoDoc
    MaxStepCommands = 2
    MaxEdits = 1
    Channels = {"agents", "copilot"}
    MaxLinks = 2
INVARIANTS
    PublishedInOrder
    VerdictsCounted
    ReplayIsIdempotent
    ClosedTaskIsNotStale
    BoundMilestonesCount
    LogOwnsTheEvidence
    RefusedMeansTouched
    LiveBelongsToTheInstall
CHECK_DEADLOCK FALSE
