SPECIFICATION FairSpec
CONSTANTS
    Callers = {c1, c2, c3}
    MaxCancels = 2
INVARIANTS SingleFlight OwnEntry LegacyResultIsValue
PROPERTIES ValueIsFinal FailureForgotten CallReturns
CHECK_DEADLOCK FALSE
