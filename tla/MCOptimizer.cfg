SPECIFICATION OptimizerSpec
CONSTANTS
    Originals <- MCOriginals
    Unqualified <- MCUnqualified
    Registrations <- MCRegistrations
    Inputs <- MCInputs
    ColumnsOf <- MCColumnsOf
    IsPushable <- MCIsPushable
    ContainsWindow <- MCContainsWindow
    Substitute <- MCSubstitute
    RecurseIntoSource <- MCRecurseIntoSource
    PushdownPredicates <- MCPushdownPredicates
INVARIANTS TypeOK ConjunctsKept OnlyConjunctsMove SameRows SameMeaning NamesResolve ColumnsQualified
