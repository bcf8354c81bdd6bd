\* Plays of the edge role beside image deploys, with faults and hands.
CONSTANTS
  i1 = i1
  i2 = i2
  old = old
  new = new
  bad = bad
  Image = {i1, i2}
  None = None
  Deploy = Deploy
  Play = Play
  Content = {old, new, bad}
  Version <- MCVersion
  CaddyAccepts <- MCCaddyAccepts
  ComposeAccepts = {old, new}
  Other = Other
  Absent = Absent
  Pending = Pending
  MaxFaults = 1

SPECIFICATION EdgeSpec

INVARIANTS
  EdgeTypeOK
  NeverForgotten
  AppliedAsValidated

PROPERTIES
  OnlyValidated
