SPECIFICATION mcSpec
CONSTANTS
    Procs = {p1, p2}
    NoProc = NoProc
    Garbage = Garbage
    ReplayEvents = 1
    MaxEvents = 4
    MaxReads = 4
    MaxKilled = 1
    MaxFaults = 0
    Pids = {p1, p2}
    NoPid = NoPid
    MaxCrashes = 1
    Fields <- MCFields
    Scope <- MCScope
    LoadsFirst <- MCLoadsFirst
    MaxCommands = 3
    Clones = {"c1", "c2"}
    Remotes = {"r1", "r2"}
    Branches = {"topic"}
    DefaultBranches = {}
    Scopes = {"a", "b"}
    TaskIds = {"t", "derived from the scope"}
    Approvers = {"p1", "p2"}
    MaxApprovals = 2
INVARIANTS
    AckedDurable
    NoLostUpdate
    AllowedMeansApproved
PROPERTIES
    ImplementsAppendLog
    ApprovalHolds
    ReadFailsOnlyAmidWrites
CHECK_DEADLOCK FALSE
