CONSTANTS
  RunId = {r1}
  NoRecord = NoRecord
  Torn = Torn
  NoRun = NoRun
  Poll = {p1, p2}
  Load = {h1}
  MaxFaults = 0
  MaxCrashes = 0
  MaxLeaks = 1
  Short = {}
SPECIFICATION FairClientSpec

PROPERTIES
  CompletedRunIsDisplayed
CHECK_DEADLOCK FALSE
