CONSTANTS
  s1 = s1
  s2 = s2
  d1 = d1
  d2 = d2
  FlightLog = {f1}
  LocalLog = {u1}
  Source = {s1}
  LogDir <- OneLogDir
  Version = {v1, v2}
  Pictured = {v1}
  Tag = {t1}
  Process = {p1, p2}
  NoDir = NoDir
  NoRow = NoRow
  Absent = Absent
  Unbound = Unbound
  NoImage = NoImage
  Nobody = Nobody
  MaxChanges = 2
SPECIFICATION Spec
INVARIANTS
  ImageOfAirframe
CHECK_DEADLOCK FALSE
