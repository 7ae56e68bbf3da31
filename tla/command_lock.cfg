SPECIFICATION Spec
CONSTANTS
    p1 = p1  p2 = p2  p3 = p3  g1 = g1
    NoProc = NoProc
    Procs = {p1, p2, p3}
    Gone = {g1}
SYMMETRY Symmetry
INVARIANTS TypeInvariant LeaseKept
PROPERTIES LoneCallerServed
CHECK_DEADLOCK FALSE
