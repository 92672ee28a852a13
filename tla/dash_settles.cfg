CONSTANTS
  b1 = b1
  LastRun = 1
  Browsers = {b1}
  Capacity = 2
  MaxProgress = 1
  MaxRetries = 0
  Given = {1}
  MaxInFlight = 2
SPECIFICATION FairSpec
INVARIANT TypeOK
PROPERTY Settles
