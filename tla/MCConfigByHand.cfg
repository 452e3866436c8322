SPECIFICATION Spec
CONSTANTS
    Factory = Factory
    good = good
    bad = bad
    Torn = Torn
    Absent = Absent
    NoAgent = NoAgent
    Custom <- MCCustom
    Works <- MCWorks
    AutoStart = FALSE
    Timely = FALSE
    ByHand = TRUE
    Trackers = {t1, t2}
    MaxCuts = 1
    MaxOps = 2
SYMMETRY Symmetry
INVARIANT LogsHaveAHome
CHECK_DEADLOCK FALSE
