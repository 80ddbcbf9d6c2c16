SPECIFICATION Spec
CONSTANTS
    MaxOddities = 2
    MaxRuns = 2
    MaxFaults = 1
    MaxChanges = 1
INVARIANTS
    EffectiveVerified
    RetentionOnFreshFacts
    CacheCadence
PROPERTIES
    DryRunTouchesNothing
