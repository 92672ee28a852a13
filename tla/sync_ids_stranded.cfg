CONSTANTS
  t1 = t1
  l1 = l1
  l2 = l2
  NoLog = NoLog
  Tasks = {t1}
  Logs = {l1, l2}
  MaxRetries = 1
  BatchSize = 1
  Catalogue = 1
  ChannelBreaks = TRUE
  MaxKills = 0
SPECIFICATION FairSpec
PROPERTY ByIdsRunsEnd
