SPECIFICATION ControlFairSpec
CONSTANTS
  Clis = {"shell"}
  Terminals = {"shell"}
  Runs = {"r1", "r2"}
  Pages = {"page"}
  Consoles = {"tail"}
  Nobody = "nobody"
  MaxLines = 1
  MaxMishaps = 2
INVARIANTS
  OneRunAtATime
  OneDashboardRun
  DoneMeansAll
PROPERTIES
  TailEnds
