SPECIFICATION Spec
CONSTANTS
    Str <- MCStr
    Rank <- MCRank
    Number <- MCNumber
    Wrap = 65536
    ConstSymbols <- MCConsts
    MaxDepth = 16
    HashOrder <- MCHashOrder
    IntText <- MCInts
    Releases <- NarrowReleases
    FileNames <- MCFileNames
    NoFile = NoFile
    HandEdits <- MCEdits
    OldFiles <- MCOldFiles
    Modes <- MCModes
    Answers <- MCAnswers
    NewValues <- MCNewValues
    Entries <- MCAnswers
    LoadNames = {}
    SaveNames = {}
    MaxKeys = 0
INVARIANT ValidIsFresh
CHECK_DEADLOCK FALSE
