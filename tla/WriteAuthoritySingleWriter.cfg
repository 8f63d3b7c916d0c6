SPECIFICATION waSpec
CONSTANTS
    p1 = p1
    p2 = p2
    p3 = p3
    Pids = {p1, p2, p3}
    NoPid = NoPid
    MaxCrashes = 0
INVARIANT SingleWriter
