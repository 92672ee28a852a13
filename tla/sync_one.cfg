CONSTANTS
  t1 = t1
  l1 = l1
  l2 = l2
  NoLog = NoLog
  Tasks = {t1}
  Logs = {l1, l2}
  MaxRetries = 1
  BatchSize = 2
  Catalogue = 3
  ChannelBreaks = TRUE
  MaxKills = 1
SPECIFICATION FairSpec
INVARIANT TypeOK
INVARIANT Stamped
INVARIANT NothingCountedTwice
INVARIANT NothingLost
INVARIANT StatusTellsErrors
INVARIANT Inv
PROPERTY AuditSpec
PROPERTY SyncRunsEnd
