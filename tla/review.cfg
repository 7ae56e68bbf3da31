SPECIFICATION FairSpec
CONSTANTS
    MaxFaults = 4
    MaxMoves = 2
INVARIANTS TypeInvariant NothingIsLeftBehind LeaseCoversWork CancellationWins CheckTellsTheTruth ResultIsWhole
PROPERTIES ConclusionIsStable CallerIsAnswered FinalizationEnds
