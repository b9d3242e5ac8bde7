SPECIFICATION HandlerSpec
CONSTANT MaxStatements = 3
INVARIANTS
    FallingThroughIsBornInitialized
    BootstrapFindsTheStruct
    GateComesFirst
\* A handler returns.
CHECK_DEADLOCK FALSE
