SPECIFICATION OptimizerSpec
CONSTANTS
    Originals <- MCExistsOriginals
    Unqualified = {}
    Registrations = {}
    Inputs <- MCInputs
    ColumnsOf <- MCColumnsOf
    IsPushable <- MCIsPushable
    ContainsWindow <- MCContainsWindow
    Substitute <- MCSubstitute
    RecurseIntoSource <- MCRecurseIntoSource
    PushdownPredicates <- MCPushdownPredicates
INVARIANT NamesResolve
