\* Keys and a PDA that hand the role to each other; no nomination.
SPECIFICATION Spec
CONSTANTS
    Default = Default
    Config = Config
    Keys = {k1, k2, k3}
    Pdas = {p1}
    Values = {v1, v2}
    Offset = 0
SYMMETRY AccountSymmetry
INVARIANTS
    TypeOK
    BornTogether
    GateIsTheHandlersCheck
PROPERTIES
    RenounceIsTerminal
    ImplementsLifecycle
\* The chain may reach a state where every account is stranded.
CHECK_DEADLOCK FALSE
