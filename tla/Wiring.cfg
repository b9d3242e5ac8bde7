SPECIFICATION WiringSpec
CONSTANTS
    Names = {"config", "owner"}
    Numbers = {0, 32}
    MaxArgs = 2
INVARIANTS
    GateReadsWhatInitializeWrites
    GateReadsTheSlot
    BootstrapWritesTheSlot
    BareGateExpands
\* The argument list is complete at its bound.
CHECK_DEADLOCK FALSE
