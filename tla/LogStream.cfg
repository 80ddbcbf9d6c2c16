SPECIFICATION Spec
CONSTANTS
    NBlobs = 3
    Gz = {3}
    Growing = {1}
    Texts <- MCTexts
    Tails <- MCTails
    Window = 4
    MaxRanges = 3
    MaxRaw = 3
    MaxEntry = 4
    MaxRuns = 2
    MaxFaults = 1
    MaxChanges = 2
INVARIANTS
    NothingLostOrDoubled
    CompleteMeansAll
    LineNumbers
