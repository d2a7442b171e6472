CONSTANTS
  RunId = {r1, r2}
  NoRecord = NoRecord
  Torn = Torn
  NoRun = NoRun
  Poll = {p1, p2}
  Load = {h1}
  MaxFaults = 0
  MaxCrashes = 0
  MaxLeaks = 1
  Short = {r2}
SPECIFICATION PacedSpec
SYMMETRY Symmetry
INVARIANTS
  ShownRunIsReal
CHECK_DEADLOCK FALSE
