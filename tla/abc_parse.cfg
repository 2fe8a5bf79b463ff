\* Whole, truncated and damaged ABC files.
SPECIFICATION Spec
CONSTANTS
    Inputs <- MCInputs
    Files <- MCFiles
INVARIANTS
    RoundTrip
    WellFormedIsRead
    TruncationThrows
    OnlyOneTableAhead
PROPERTIES
    Terminates
