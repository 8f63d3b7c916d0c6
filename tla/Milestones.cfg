SPECIFICATION msFairSpec
CONSTANTS
    None = None
    Procs = {p1, p2}
    Codes = {c1, c2}
    Lates = {l1, l2}
    QaRequired = TRUE
    Budgets <- MCBudgets
INVARIANTS
    PointerNamesTheCurrentRecord
    FinishMeansReviewed
PROPERTIES
    Finishes
CHECK_DEADLOCK FALSE
