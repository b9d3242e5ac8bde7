\* A claim of the documentation the code does not meet.
SPECIFICATION Spec
CONSTANTS
    Default = Default
    Config = Config
    Keys = {k1, k2}
    Pdas = {p1}
    Values = {v1}
    Offset = 2
INVARIANT NoInitializationWindow
CHECK_DEADLOCK FALSE
