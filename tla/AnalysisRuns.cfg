CONSTANTS
  r1 = r1
  RunId = {r1, r2}
  NoRecord = NoRecord
  Torn = Torn
  NoRun = NoRun
  Poll = {p1, p2}
  Load = {h1}
  MaxFaults = 2
  MaxPageFaults = 1
  MaxCrashes = 1
  MaxLeaks = 1
SPECIFICATION SceneSpec
INVARIANTS
  RegisteredRunIsDurable
  RecordFollowsRegistry
  EndedRunIsConsistent
  CompletedMeansReported
  UnfinishedIsExplained
PROPERTIES
  HistoryIsMonotone
  OutcomeIsFinal
  StartedRunEnds
  ButtonComesBack
CHECK_DEADLOCK FALSE
