SPECIFICATION ASpec
CONSTANTS
    Names = {"e", "g", "a", "k", "x"}
    NRegs = 4
    MaxConts = 6
    Programs <- MCPrograms
INVARIANTS HandledByNearest AgreesInFragment
PROPERTY Terminates
CHECK_DEADLOCK FALSE
