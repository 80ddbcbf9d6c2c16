SPECIFICATION Spec
CONSTANTS
  NPaths = 2
  NInodes = 2
  NSources = 2
  MaxVersion = 2
  BatchSize = 2
CONSTRAINT OneInodeOrCaller
INVARIANTS
  NoUnarchivedErase
  ResolvedMeansGone
  QuarantineRecoverable
CHECK_DEADLOCK FALSE
