SPECIFICATION Spec
CONSTANTS
    Default = Default
    Known = {a1, a2}
    Values = {v1}
    MaxLen = 3
SYMMETRY IdSymmetry
INVARIANT TypeOK
PROPERTIES
    SpliceIsLocal
    OnlyRenounceRenounces
    RenouncedWindowIsDead
    CodesTellTheState
