SPECIFICATION FairSpec
CONSTANTS
    N = 2
    Trackers = {t1}
    Messages = {"timedout", "stuck"}
    Overlap = FALSE
    MaxLives = 3
    MaxCuts = 1
INVARIANTS TypeOK RingKeepsLatest
PROPERTIES ComplaintIsFatal CrashIsKept
CHECK_DEADLOCK FALSE
