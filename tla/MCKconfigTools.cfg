SPECIFICATION Spec
CONSTANTS
    Str <- MCStr
    Rank <- MCRank
    Number <- MCNumber
    Wrap = 65536
    ConstSymbols <- MCConsts
    MaxDepth = 16
    HashOrder <- MCHashOrder
    IntText <- MCInts
    Releases <- MCReleases
    FileNames <- MCFileNames
    NoFile = NoFile
    HandEdits <- MCEdits
    OldFiles <- MCOldFiles
    Modes <- MCModes
    Answers <- MCAnswers
    NewValues <- MCNewValues
    Entries <- MCAnswers
    LoadNames = {"alt", "defconfig"}
    SaveNames = {"alt"}
    MaxKeys = 3
INVARIANTS
    ValidIsFresh
    WrittenIsStable
    WrittenFollowsRules
    ConfGetsOn
PROPERTIES
    UserIsHeard
    AnswersAreKept
    DefconfigIsComplete
    SilentExitLosesNothing
CHECK_DEADLOCK FALSE
