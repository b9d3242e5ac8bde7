\* The fixture as CI builds it, without a genesis key: the birth of the role,
\* the two writers of program_config, and the liveness of the two-step
\* handover, which rules out symmetry.
SPECIFICATION FixtureFairSpec
CONSTANTS
    Default = Default
    Config = Config
    Keys = {k1, k2}
    Pdas = {p1}
    Genesis = NoGenesis
    NoGenesis = NoGenesis
    Values = {v0, v1}
    Zero = v0
    Offset = 0
INVARIANTS
    BornOnce
    WindowIsOpen
PROPERTIES
    OnlyAdminChangesValue
    NominationResolves
CHECK_DEADLOCK FALSE
