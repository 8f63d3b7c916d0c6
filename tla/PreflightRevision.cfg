SPECIFICATION pfSpec
CONSTANTS
    Starters = {"p1"}
    Heads = {"h1"}
    Revisions = {1, 2}
    Hindrances = {}
    MaxRunIds = 2
    MaxMoves = 1
    NoRun = NoRun
PROPERTY NewRevisionIsANewRun
CHECK_DEADLOCK FALSE
