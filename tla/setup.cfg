SPECIFICATION FairSpec
CONSTANTS
    Ids = {1}
    Names = {"n1"}
    Installs = {1}
    MaxStops = 3
    MaxDrifts = 1
    MaxRepositories = 2
    MaxServices = 1
INVARIANTS TypeInvariant OneOfEach FinishedWorks
PROPERTIES NeverAuthorizes SetupFinishes
CHECK_DEADLOCK FALSE
