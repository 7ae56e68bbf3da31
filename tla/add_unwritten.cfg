SPECIFICATION Spec
CONSTANTS
    Ids = {1}
    Names = {"n1"}
    MaxInstalls = 1
    MaxFaults = 1
    MaxChanges = 0
    MaxCommands = 2
INVARIANTS AuthorizedLocally
CHECK_DEADLOCK FALSE
