\* No genesis key: any owned key may win the initialization window.
SPECIFICATION Spec
CONSTANTS
    Default = Default
    Config = Config
    Keys = {k1, k2, k3}
    Pdas = {p1}
    Genesis = NoGenesis
    NoGenesis = NoGenesis
    Values = {v1, v2}
    Offset = 0
SYMMETRY KeySymmetry
INVARIANTS
    TypeOK
    HolderCanAct
    NominationStandsByHolder
    OwnedReadersAgree
    StrictFormsAgree
PROPERTIES
    RenounceIsTerminal
    HandoverByConsent
    ImplementsLifecycle
\* The chain may reach a state where every account is stranded.
CHECK_DEADLOCK FALSE
