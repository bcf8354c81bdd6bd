\* Two overlapping requests on a host that fetches main; one of them may be killed.
CONSTANTS
  c1 = c1
  c2 = c2
  c3 = c3
  b = b
  x = x
  migrate = migrate
  identity = identity
  Proc = {p1, p2}
  Dir = {d1, d2, d3}
  Commit = {c1, c2}
  StepId = {migrate, identity}
  AllowedSteps = {}
  Source = "remote"
  Seed = None
  PlaybookListed = TRUE
  Ancestry <- MCAncestry
  Signature <- MCSignature
  PlaybookInTree = {c1, c2}
  PlaybookOnDisk = {c1, c2}
  None = None
  Damaged = Damaged
  Partial = Partial
  MaxKills = 1
  MaxHands = 0
  MaxRewrites = 0

SPECIFICATION Spec
SYMMETRY Symmetry

INVARIANTS
  SingleFlight
  NoStaleRun
  CheckoutsIntact
  SweptIsClean

PROPERTIES
  LedgerSpec
