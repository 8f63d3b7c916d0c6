SPECIFICATION Spec
CONSTANTS
    Procs = {p1, p2}
    Steps <- MCSteps
    MaxAttempts = 1
    MaxCommands = 6
SYMMETRY MCSymmetry
PROPERTY CloseKeepsActiveStep
CHECK_DEADLOCK FALSE
