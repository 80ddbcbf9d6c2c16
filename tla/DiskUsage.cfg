SPECIFICATION FairSpec
CONSTANTS
    Dirs = {"a", "b"}
    Files = {"g", "h"}
    Parent <- MCParent
    Root = "/"
    Extras = {}
    MaxDepth = 2
    MaxEntries = 5
    MaxRows = 1
    PipeCap = 1
    MaxChanges = 1
    MaxErrors = 1
    MaxProgress = 1
INVARIANTS
    NeverOvercounts
    CompleteMissesNothing
PROPERTIES
    ParentEnds
