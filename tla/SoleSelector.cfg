CONSTANTS
  Call = {c1, c2, c3}
  Check = {a, b}
  Command = {x, y}
  NoText = NoText
  Absent = Absent
  Nobody = Nobody
  Closed = Closed
  Budget = 1
  MaxTurns = 1
  Consultant = {c1, c2, c3}
  Option = {a, b}
  MaxConsults = 2
  Luna = Luna
SPECIFICATION ModeSpec
SYMMETRY Symmetry
INVARIANTS
  VotesWithinBudget
  OneRunPerFallback
  RunsOwnProposal
  ConsultsAreAccounted
CHECK_DEADLOCK FALSE
