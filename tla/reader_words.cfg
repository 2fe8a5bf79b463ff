\* The primitive reads of ABCReader, bit by bit, in every order of two calls.
SPECIFICATION ReaderSpec
CONSTANTS
    Buffers <- MCAllBuffers
    Seeks <- MCSeeks
    MaxCalls = 2
INVARIANTS
    TypeOK
    ReadsInBounds
    VarintExact
    AgreesWithABCReader
\* The client makes its last call, or a read has thrown.
CHECK_DEADLOCK FALSE
