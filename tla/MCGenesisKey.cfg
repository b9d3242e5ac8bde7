SPECIFICATION Spec
CONSTANTS
    Size = 2
    Texts <- MCTexts
INVARIANTS
    KeyIsSpelled
    PanicsForAReason
PROPERTY Decides
\* Decoding ends.
CHECK_DEADLOCK FALSE
