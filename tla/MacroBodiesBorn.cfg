\* A claim of the documentation the code does not meet.
SPECIFICATION HandlerSpec
CONSTANT MaxStatements = 3
INVARIANT BornInitialized
CHECK_DEADLOCK FALSE
