CONSTANTS
  t1 = t1
  t2 = t2
  Title = {t1, t2}
  Answers <- SomeAnswers
  TurnLimit = 2
  NoReport = NoReport
  Partial = Partial
  Off = Off
  Unknown = Unknown
  SourceSignal <- ReadSignals
  Question <- Questions
  Expansion <- SearchExpansions
  HelperParameter <- Parameter
  MaxDepth = 2
  MaxTotalFiles = 3
  MaxProfileFiles = 2
  MaxExpansions = 1
  NoNumber = NoNumber
  LogCase <- Signatures
  Limit = Limit
  NotLogged = NotLogged
  NoText = NoText
  r1 = r1
  r2 = r2
  sA = sA
  sB = sB
  o1 = o1
  o2 = o2
  LoggedSignal = {sA, sB}
  Output = {o1, o2}
  VerificationCase <- VerificationCases
  a = a
  b = b
  x = x
  SourceSymbol = {a, b, x}
  SampleTime = {1, 2}
  GraphCase <- GraphCases
  Actual = Actual
  Expected = Expected
  Comparison = Comparison
  top = top
  hdr = hdr
  base = base
  impl = impl
  other = other
  cD = cD
  cB = cB
  e1 = e1
  e2 = e2
  Nothing = Nothing
  kx = kx
  ky = ky
  kz = kz
  Blank = Blank
  w1 = w1
  w2 = w2
  b1 = b1
  b2 = b2
  Ghost = Ghost
  Writer = {w1, w2}
  Branch = {b1, b2}
  Gaps = 2
  Graph <- ReplayGraphs
  NoHypothesis = NoHypothesis
  m1 = m1
  m2 = m2
  f1 = f1
  f2 = f2
  y = y
  member = member
  z = z
  Sink = Sink
  Formal = Formal
  Return = Return
  File = {top, hdr, base, impl, other}
  Class = {cD, cB}
  Entity = {e1, e2}
  Bases <- BaseOf
  Tree <- Expansions
  Terminal = {kx, ky, kz}
  Proposals <- SomeProposals
  MaxTerminals = 1
  MaxAttempts = 2
  FlightRun = {r1, r2}
  Mechanism = {"wind"}
  Commit = {"c1", "c2"}
  Checkout = "dir"
  Flight <- Flights
  History <- Histories
  MaxRecords = 1
  MaxCandidates = 1
  Unset = Unset
SPECIFICATION ReplaySpec
INVARIANTS
  ConfirmedIsCompared
CHECK_DEADLOCK FALSE
