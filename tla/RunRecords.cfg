SPECIFICATION Spec
CONSTANTS
  Keep = 2
  KeepDetail = 1
  Threshold = 2
  EventsCap = 2
  Versions = {1, 2, 3, 4}
  Attentions = {1, 2}
  MaxJobs = 4
  MaxFaults = 2
INVARIANTS
  TotalsHonest
  SilenceBounded
  LedgerTellsTruth
