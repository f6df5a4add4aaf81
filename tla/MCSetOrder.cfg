SPECIFICATION Spec
CONSTANTS
    Requests <- MCSetOrder
INVARIANT WholeOrderKept
CHECK_DEADLOCK FALSE
