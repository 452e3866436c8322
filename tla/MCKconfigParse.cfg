SPECIFICATION Spec
CONSTANTS
    Str <- MCStr
    Rank <- MCRank
    Number <- MCNumber
    Wrap = 65536
    ConstSymbols <- MCConsts
    MaxDepth = 16
    ConfigSymbols <- MCSymbols
    ChoiceSymbols = {"ch"}
    TypeOf <- MCTypeOf
    Starts <- MCStarts
    Prompts <- MCPrompts
    ChoiceDefaults = {"A"}
    LongSymbols <- MCLongSymbols
    Deps <- MCDeps
    Relatives <- MCRelatives
    LongExprs <- MCLongExprs
    MaxEntries = 3
    MaxDefs = 1
    HashOrder <- MCHashOrder
INVARIANTS
    ConditionsPropagate
    ReasonsAreComplete
    TreeIsOfFile
    CyclesAreReported
CHECK_DEADLOCK FALSE
