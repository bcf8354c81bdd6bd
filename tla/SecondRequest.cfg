\* README "Lock semantics" on a second request, with two at once and no kill.
CONSTANTS
  c1 = c1
  c2 = c2
  c3 = c3
  b = b
  x = x
  migrate = migrate
  identity = identity
  Proc = {p1, p2}
  Dir = {d1, d2, d3}
  Commit = {c1}
  StepId = {migrate, identity}
  AllowedSteps = {}
  Source = "remote"
  Seed = None
  PlaybookListed = TRUE
  Ancestry <- MCAncestry
  Signature <- MCSignature
  PlaybookInTree = {c1}
  PlaybookOnDisk = {c1}
  None = None
  Damaged = Damaged
  Partial = Partial
  MaxKills = 0
  MaxHands = 0
  MaxRewrites = 0

SPECIFICATION Spec

PROPERTIES
  SecondIsNoError
