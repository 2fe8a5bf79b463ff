\* The accessors of the constant pool as they run, on every small pool.
SPECIFICATION Spec
CONSTANTS
    Pools <- MCPools
    Queries <- MCQueries
    StackDepth = 4
INVARIANTS
    EndsAsPromised
    DepthBounded
