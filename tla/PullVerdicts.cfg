\* Applies, checks and steps, and every reason to refuse one.
CONSTANTS
  c1 = c1
  c2 = c2
  c3 = c3
  b = b
  x = x
  migrate = migrate
  identity = identity
  Proc = {p1, p2}
  Dir = {d1, d2, d3}
  Commit = {c1, c2, c3, b, x}
  StepId = {migrate, identity}
  AllowedSteps = {migrate}
  Source = "remote"
  Seed = None
  PlaybookListed = TRUE
  Ancestry <- MCAncestry
  Signature <- MCSignature
  PlaybookInTree = {c2, c3, b, x}
  PlaybookOnDisk = {c1, c2, c3, x}
  None = None
  Damaged = Damaged
  Partial = Partial
  MaxKills = 0
  MaxHands = 0
  MaxRewrites = 0

SPECIFICATION Spec
SYMMETRY Symmetry

INVARIANTS
  TypeOK
  VerdictTruthful
  OnlyAcceptableRuns
  FloorCoversHost
  WayForward
