CONSTANTS
    None = None
    Primitives <- MCPrimitives
    Unnamed = {"anon"}
    Simple <- MCSimple
    ArgNames <- MCArgNames
    Symbol <- MCSymbol
    Rank <- MCRank
    Excluded = {"main", "send"}
    BadViews = {"int", "void"}
    WordBits = 4
    Inputs <- DuplicatesAndPlain
SPECIFICATION Spec
INVARIANT RvasAreAsTested
CHECK_DEADLOCK FALSE
