SPECIFICATION Spec
CONSTANTS
    Fuel = 100
    Params <- MCParams
    Builds <- MCBuilds
INVARIANTS MirPreserves LirPreserves LirAccepted
PROPERTY ExchangeExact
CHECK_DEADLOCK FALSE
