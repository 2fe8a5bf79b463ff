\* readS24 against the comment on its declaration.
SPECIFICATION ReaderSpec
CONSTANTS
    Buffers <- MCAllBuffers
    Seeks <- MCSeeks
    MaxCalls = 2
INVARIANT
    S24IsSigned
\* The client makes its last call, or a read has thrown.
CHECK_DEADLOCK FALSE
