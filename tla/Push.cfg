\* Two overlapping uploads to a host that takes bundles; one may be killed, one hand may touch
\* the floor. The seeded commit predates the playbook: a bundle of it is refused.
CONSTANTS
  c1 = c1
  c2 = c2
  c3 = c3
  b = b
  x = x
  migrate = migrate
  identity = identity
  Proc = {p1, p2}
  Dir = {d1, d2, d3}
  Commit = {c1, c2}
  StepId = {migrate, identity}
  AllowedSteps = {}
  Source = "bundle"
  Seed = c1
  PlaybookListed = TRUE
  Ancestry <- MCAncestry
  Signature <- MCSignature
  PlaybookInTree = {c2}
  PlaybookOnDisk = {c2}
  None = None
  Damaged = Damaged
  Partial = Partial
  MaxKills = 1
  MaxHands = 1
  MaxRewrites = 0

SPECIFICATION Spec
SYMMETRY Symmetry

INVARIANTS
  QuarantineOwned
  NothingLeftBehind
  BundleNeedsFloor
