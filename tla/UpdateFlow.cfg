SPECIFICATION FlowSpec
CONSTANTS
  Kinds = {"lxc", "vm", "custom"}
  Attempts = 2
  MaxVersion = 5
INVARIANTS
  ProtectedUnlessWarned
  OwnWorkKept
  ConfirmedRollback
  BrokenMeansReported
