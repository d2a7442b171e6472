CONSTANTS
  f1 = f1
  f2 = f2
  u1 = u1
  v1 = v1
  v2 = v2
  s1 = s1
  d1 = d1
  FlightLog = {f1, f2}
  LocalLog = {u1}
  Source = {s1}
  LogDir <- OneLogDir
  Version = {v1, v2}
  Tag = {t1}
  NoDir = NoDir
  NoRow = NoRow
  Absent = Absent
  Unbound = Unbound
  Position <- Place
  PageSize = 1
  NoTag = NoTag
  Pictured = {v1}
  Process = {p1, p2}
  NoImage = NoImage
  Nobody = Nobody
  MaxChanges = 2
SPECIFICATION SceneSpec
INVARIANTS
  AnswerIsExplained
PROPERTIES
  RepeatedSyncConverges
  LockIsReleased
CHECK_DEADLOCK FALSE
