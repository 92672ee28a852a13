CONSTANTS
  b1 = b1
  LastRun = 2
  Browsers = {b1}
  Capacity = 1
  MaxProgress = 1
  MaxRetries = 1
  Given = {1}
SPECIFICATION ChannelSpec
INVARIANT Informed
INVARIANT EventsFollowRow
INVARIANT Inv
PROPERTY AuditSpec
