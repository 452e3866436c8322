SPECIFICATION FairSpec
CONSTANTS
    Factory = Factory
    good = good
    bad = bad
    Torn = Torn
    Absent = Absent
    NoAgent = NoAgent
    Custom <- MCCustom
    Works <- MCWorks
    AutoStart = TRUE
    Timely = TRUE
    ByHand = FALSE
    Trackers = {t1}
    MaxCuts = 2
    MaxOps = 2
INVARIANTS FallbackIsFactory AtMostOneRestore RestoreSticks
PROPERTIES LiveConfigKept RecoverySpec Converges
CHECK_DEADLOCK FALSE
