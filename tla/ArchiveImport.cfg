SPECIFICATION Spec
CONSTANTS
  NPaths = 3
  NInodes = 2
  NSlots = 4
  MaxClock = 4
  Rewrites = TRUE
  Interfere = FALSE
CONSTRAINT Bounded
INVARIANTS
  CoveredMeansArchived
  ReleasedMeansArchived
  PendingContinues
  NothingSkipped
