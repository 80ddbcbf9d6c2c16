SPECIFICATION NativeFairSpec
CONSTANTS
    Targets = {"proxy", "backend"}
    Configs = {"base", "logs"}
    MaxFaults = 1
    MaxChanges = 2
    Partial = FALSE
INVARIANTS
    VacuumOnProof
    PolicyKept
    TailKept
PROPERTIES
    Converges
