SPECIFICATION Spec
CONSTANTS
    Requests <- MCRequests
INVARIANTS BlocksSuitTarget TemporalsKnown Settles LimitsKept WritesStably GroupingKept ReadsBack
CHECK_DEADLOCK FALSE
