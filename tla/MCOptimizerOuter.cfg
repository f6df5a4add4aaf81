SPECIFICATION OptimizerSpec
CONSTANTS
    Originals <- MCOuterOriginals
    Unqualified = {}
    Registrations = {}
    Inputs <- MCInputs
    ColumnsOf <- MCColumnsOf
    IsPushable <- MCIsPushable
    ContainsWindow <- MCContainsWindow
    Substitute <- MCSubstitute
    RecurseIntoSource <- MCRecurseIntoSource
    PushdownPredicates <- MCPushdownPredicates
INVARIANT SameRows
