CONSTANTS
    None = None
    Primitives <- MCPrimitives
    Unnamed = {"anon"}
    Simple <- MCSimple
    ArgNames <- MCArgNames
    Symbol <- MCSymbol
    Rank <- MCRank
    Excluded = {"main", "send"}
    BadViews = {"int", "void"}
    WordBits = 4
    Inputs <- MCInputs
SPECIFICATION Spec
INVARIANTS TypeOK RvasAreDefinitions DwarfFieldsRight PdbFieldsRight SignaturesFollowAddresses
    ExactNameWins HeadersStand AddressesNamedOnce ViewsFit BinaryOffsetsWin
    MentionedStructsExist RoundTrip
CHECK_DEADLOCK FALSE
