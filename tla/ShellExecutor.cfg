CONSTANTS
  c1 = c1
  c2 = c2
  root = root
  sub = sub
  nested = nested
  p = p
  q = q
  show = show
  grep = grep
  Call = {c1, c2}
  Part = {p, q}
  Commit = {root, sub, nested}
  Root = root
  Link <- Gitlinks
  Read = {show, grep}
  Grep = {grep}
  Batches <- SomeBatches
  Timeout = 2
  MaxAttempts = 4
  Texts <- SomeTexts
  LineLimit = 2
  CharLimit = 3
  MaxReads = 4
SPECIFICATION ToolSpec
INVARIANTS
  WithinTimeout
  NoProcessIsLeft
  EarlierResultExists
  AliasIsDenoted
  RangeIsReadable
PROPERTIES
  EveryCallEnds
CHECK_DEADLOCK FALSE
