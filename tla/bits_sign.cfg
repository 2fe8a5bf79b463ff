\* readUB against the format specification.
SPECIFICATION Spec
CONSTANTS
    Buffers <- MCBuffers
    Behind = {0, 255}
    Sizes <- MCSizes
    Lengths = {0, 2}
INVARIANT
    UnsignedIsZeroExtended
\* The client stops when it is behind the end.
CHECK_DEADLOCK FALSE
