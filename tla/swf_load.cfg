\* Two loads, of good and of damaged files, into one object.
SPECIFICATION Spec
CONSTANTS
    Files <- MCFiles
    Junk = {0, 255}
    Memory <- MCMemory
    MaxLoads = 2
INVARIANTS
    NothingLeaks
    FailureKeepsContent
    UndamagedIsLoaded
    OnlyLastOverruns
PROPERTIES
    Terminates
