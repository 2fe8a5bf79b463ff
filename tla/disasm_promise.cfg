\* The worklist implements Listing, keeps its lines and ends every call.
SPECIFICATION FairSpec
CONSTANTS
    StackDepth = 3
    AddrSpace = 1073741824
    Codes <- FewThree
    Starts <- MCStarts
    MaxCalls = 2
    Lookup <- MCLookup
PROPERTIES
    ListingKept
    Terminates
    PromiseKept
\* The caller makes its last call, or the process dies.
CHECK_DEADLOCK FALSE
