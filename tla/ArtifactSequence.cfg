SPECIFICATION arSpec
CONSTANTS
    None = None
    Evaluators <- MCEvaluators
    Criteria <- MCCriteria
    VerifierTypes <- MCVerifierTypes
    PivotThreshold = 2
    MaxSequence = 4
    MaxRecords = 4
    MaxFaults = 0
INVARIANT SequenceIsMonotonic
CHECK_DEADLOCK FALSE
