SPECIFICATION mcSpec
CONSTANTS
    Procs = {p1, p2}
    NoProc = NoProc
    Garbage = Garbage
    ReplayEvents = 1
    MaxEvents = 3
    MaxReads = 3
    MaxKilled = 1
    MaxFaults = 1
    Pids = {p1, p2, p3}
    NoPid = NoPid
    MaxCrashes = 1
INVARIANTS
    ChainValid
    UnrobbedExclusion
    PidlessLockHasAWriter
PROPERTIES
    LockIsGivenBack
    RobberyIsStaleReclaim
    ClaimEndsUnlessOvertaken
CHECK_DEADLOCK FALSE
