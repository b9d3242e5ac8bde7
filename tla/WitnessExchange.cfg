\* Partially signed transactions beside everything else the keys do, in a
\* build with a genesis key.
SPECIFICATION ExchangeFairSpec
CONSTANTS
    Default = Default
    Config = Config
    Keys = {k1, k2}
    Pdas = {}
    Genesis = k1
    NoGenesis = NoGenesis
    Values = {v1}
    Offset = 0
    Files = {f1}
    MaxNonce = 4
INVARIANTS
    ExchangeTypeOK
    SignedSlotStands
    WindowIsOpen
PROPERTIES
    CompleteTransferResolves
CHECK_DEADLOCK FALSE
