\* The tags of a file, printed; with all that can be wrong in an ABC file.
SPECIFICATION Spec
CONSTANTS
    StackDepth = 2
    TagLists <- MCTagLists
    Junk = {0, 255}
    Readable <- MCReadable
    Parsed <- MCParsed
INVARIANTS
    AttributesExact
    FindsAbc
    DefaultsBelong
    DiesForCause
    AllShown
