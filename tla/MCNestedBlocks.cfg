SPECIFICATION Spec
CONSTANTS
    Requests <- MCForgotten
INVARIANT EveryBlockSuitsTarget
CHECK_DEADLOCK FALSE
