\* A claim of the documentation the code does not meet.
SPECIFICATION Spec
CONSTANTS
    Default = Default
    Known = {a1, a2}
    Values = {v1}
    MaxLen = 3
INVARIANT RenounceIsOneCodePath
