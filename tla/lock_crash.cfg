SPECIFICATION Spec
CONSTANTS
    p1 = p1  p2 = p2  p3 = p3  g1 = g1
    NoProc = NoProc
    Procs = {p1, p2, p3}
    Gone = {g1}
    MaxCalls = 1
    MayAbort = FALSE
    MayCrash = TRUE
INVARIANTS LeaseKept
PROPERTIES ImplementsMutex
CHECK_DEADLOCK FALSE
