\* Every order of reads of bits and bytes, from every place in a buffer.
SPECIFICATION Spec
CONSTANTS
    Buffers <- MCBuffers
    Behind = {0, 255}
    Sizes <- MCSizes
    Lengths = {0, 2}
INVARIANTS
    CursorExact
    FieldExact
    VarintExact
\* The client stops when it is behind the end.
CHECK_DEADLOCK FALSE
