\* Two overlapping deploys of two images; a kill and a reboot may come between.
CONSTANTS
  Deployer = {p1, p2}
  Image = {i1, i2}
  None = None
  Burst = 2
  MaxKills = 2

SPECIFICATION FairSpec

INVARIANTS
  TypeOK
  OneWriter
  ReportTrue
  UnitFollowsPin

PROPERTIES
  PinRegisterSpec
  StackHostSpec
  
