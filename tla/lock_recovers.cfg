SPECIFICATION FairSpec
CONSTANTS
    p1 = p1  p2 = p2  p3 = p3  g1 = g1
    NoProc = NoProc
    Procs = {p1, p2}
    Gone = {g1}
    MaxCalls = 2
    MayAbort = TRUE
    MayCrash = TRUE
PROPERTIES LoneCallerNotRefused AcquireEnds
CHECK_DEADLOCK FALSE
