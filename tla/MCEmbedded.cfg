\* The slot after two cells of program state; PDAs hand over to each other.
SPECIFICATION Spec
CONSTANTS
    Default = Default
    Config = Config
    Keys = {k1, k2}
    Pdas = {p1, p2}
    Values = {v1}
    Offset = 2
SYMMETRY AccountSymmetry
INVARIANT TypeOK
PROPERTIES
    FieldsHaveOneWriter
    RenounceIsTerminal
    ImplementsLifecycle
\* The chain may reach a state where every account is stranded.
CHECK_DEADLOCK FALSE
