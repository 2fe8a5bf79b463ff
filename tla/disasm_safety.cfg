\* Safety of the worklist on every code of three encodings of the menu.
SPECIFICATION Spec
CONSTANTS
    StackDepth = 3
    AddrSpace = 1073741824
    Codes <- Three
    Starts <- MCStarts
    MaxCalls = 2
    Lookup <- MCLookup
INVARIANTS
    TypeOK
    UsedInBounds
    UsedIsListed
    NothingLost
    NothingInvented
    ErrorsMeanFailure
    ListingIsExact
    LabelsResolve
    SwitchIsWhole
    WorklistBounded
\* The caller makes its last call, or the process dies.
CHECK_DEADLOCK FALSE
