SPECIFICATION Spec
CONSTANTS
    NoContext = NoContext
    Reports <- MCReports
    Legacies <- MCLegacies
    MaxRuns = 4
    Budget = 8
INVARIANTS TypeInvariant ToldTruly FindingsShown
PROPERTIES SameFindingsAreQuiet
