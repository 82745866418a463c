SPECIFICATION Spec
CONSTANTS
    N = 3
    MaxDepth = 2
INVARIANTS ResultByOutcomes NoOrphans StackBalanced
PROPERTY Terminates
CHECK_DEADLOCK FALSE
