CONSTANTS
  t1 = t1
  t2 = t2
  l1 = l1
  l2 = l2
  l3 = l3
  l4 = l4
  NoLog = NoLog
  Tasks = {t1, t2}
  Logs = {l1, l2, l3, l4}
  MaxRetries = 1
  BatchSize = 1
  Catalogue = 0
  ChannelBreaks = TRUE
  MaxKills = 1
SPECIFICATION Spec
SYMMETRY Symmetry
INVARIANT OneWriter
PROPERTY RetriesFollowFailure
