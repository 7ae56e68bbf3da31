SPECIFICATION Spec
CONSTANTS
    Ids = {i1, i2}
    Names = {n1, n2}
    MaxInstalls = 2
    MaxFaults = 2
    MaxChanges = 2
    MaxCommands = 4
SYMMETRY Interchangeable
INVARIANTS TypeInvariant LocalAhead AuthorizedTruly RemovedLocally
           RemovedFromCloud
PROPERTIES RevocationStands CloudRevocationStands
CHECK_DEADLOCK FALSE
