\* A long sequence of requests while main is rewritten, the cache lost, and the floor damaged or reset by hand.
CONSTANTS
  c1 = c1
  c2 = c2
  c3 = c3
  b = b
  x = x
  migrate = migrate
  identity = identity
  Proc = {p1}
  Dir = {d1, d2, d3}
  Commit = {c1, c2, b}
  StepId = {migrate, identity}
  AllowedSteps = {}
  Source = "remote"
  Seed = None
  PlaybookListed = TRUE
  Ancestry <- MCAncestry
  Signature <- MCSignature
  PlaybookInTree = {c1, c2, b}
  PlaybookOnDisk = {c1, c2, b}
  None = None
  Damaged = Damaged
  Partial = Partial
  MaxKills = 1
  MaxHands = 1
  MaxRewrites = 1

SPECIFICATION Spec
SYMMETRY Symmetry

INVARIANTS
  RunsWhatMainHolds
  CurrentNamesHost

