\* Two bodies, each with its handlers, listed one after the other.
SPECIFICATION Spec
CONSTANTS
    StackDepth = 3
    AddrSpace = 1073741824
    BodyLists <- MCBodyLists
    MaxHandlers = 2
    Lookup <- MCLookup
INVARIANTS
    HandlersAreListed
    GapsShow
    TargetsAreLabelled
