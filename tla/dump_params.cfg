\* A file that keeps to the format, with names of parameters.
SPECIFICATION Spec
CONSTANTS
    StackDepth = 2
    TagLists <- MCTagLists
    Junk = {0, 255}
    Readable <- MCReadable
    Parsed <- MCParsed
INVARIANTS
    SoundIsShown
