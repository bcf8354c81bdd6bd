\* branchleft_deploy.md on what a rollback goes back to.
CONSTANTS
  Deployer = {p1}
  Image = {i1, i2, i3}
  None = None
  Burst = 5
  MaxKills = 1

SPECIFICATION Spec
SYMMETRY Symmetry

INVARIANTS
  LastWorkedIsBack
