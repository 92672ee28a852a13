CONSTANTS
  p1 = p1
  p2 = p2
  p3 = p3
  NoRow = NoRow
  Procs = {p1, p2, p3}
  Sizes = {0, 1, 2}
  Default = 2
  Records = 3
  MaxBegun = 3
SPECIFICATION FairSpec
INVARIANT TypeOK
INVARIANT SettingsInForce
INVARIANT PagesCover
INVARIANT Inv
PROPERTY AccessesEnd
