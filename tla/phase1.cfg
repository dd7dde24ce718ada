CONSTANTS
    None = None
    NoPch = NoPch
    acpp = acpp
    bcpp = bcpp
    ccpp = ccpp
    h1 = h1
    h2 = h2
    h3 = h3
    w1 = w1
    w2 = w2
    SourceFiles <- MCSourceFiles
    SlashWords <- MCSlashWords
    Posix <- MCPosix
    Slashed <- MCSlashed
    Classes <- MCClasses
    Fields <- MCFields
    Bases <- MCBases
    SizeOf <- MCSizeOf
    Hidden <- MCHidden
    Projects <- MCProjects
    ScanLimit = 3
    MaxEdits = 2
    MaxRuns = 2
    Workers = {w1, w2}
    MinChunk = 1
    MaxDeaths = 1
SPECIFICATION Spec
INVARIANTS TypeOK KeptIsBest NothingDropped NothingInvented FieldsMatchHierarchy
    KeptFlagsMeanTheSame FreshPchMatches PchSeesAllFlags UmbrellaOrder
PROPERTY Phase1Ends
CHECK_DEADLOCK FALSE
