CONSTANTS
  s1 = s1
  s2 = s2
  d1 = d1
  d2 = d2
  FlightLog = {f1, f2}
  LocalLog = {u1}
  Source = {s1, s2}
  LogDir <- TwoLogDirs
  Version = {v1, v2}
  Pictured = {v1}
  Tag = {}
  Process = {p1, p2}
  NoDir = NoDir
  NoRow = NoRow
  Absent = Absent
  Unbound = Unbound
  NoImage = NoImage
  Nobody = Nobody
  MaxChanges = 1
SPECIFICATION Spec
SYMMETRY Symmetry
INVARIANTS
  OneInstallation
PROPERTIES
  CatalogSpec
CHECK_DEADLOCK FALSE
