CONSTANTS
  Call = {c1, c2, c3}
  Check = {a, b}
  Command = {x, y}
  NoText = NoText
  Absent = Absent
  Nobody = Nobody
  Closed = Closed
  Budget = 3
  MaxTurns = 1
  Consultant = {c1}
  Option = {a}
  MaxConsults = 1
  Luna = Luna
SPECIFICATION ModeSpec
SYMMETRY Symmetry
INVARIANTS
  FollowUpRuns
CHECK_DEADLOCK FALSE
