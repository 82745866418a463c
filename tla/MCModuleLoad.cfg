SPECIFICATION Spec
CONSTANTS
    Worlds <- MCWorlds
    MaxDepth = 18
INVARIANTS StagesAgree ExportsRespected CyclesOnlyExhaust
PROPERTY Ends
CHECK_DEADLOCK FALSE
