SPECIFICATION evSpec
CONSTANTS
    Procs = {p1, p2}
    NoProc = NoProc
    Garbage = Garbage
    ReplayEvents = 1
    MaxEvents = 4
    MaxReads = 4
    MaxKilled = 0
    MaxFaults = 1
INVARIANT AckedDurable
CHECK_DEADLOCK FALSE
