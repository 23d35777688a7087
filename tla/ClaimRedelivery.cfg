SPECIFICATION FairSpec
CONSTANTS
  s1 = s1
  s2 = s2
  c1 = c1
  NoEvent = NoEvent
  Events = {s1}
  Security = {s1}
  Workers = {w1}
  BatchSize = 2
  ReadCount = 1
  MaxLen = 2
  MaxFaults = 1
  ColdStart = FALSE
  LogSockets = {TRUE}
PROPERTIES PendingIsRedelivered
CHECK_DEADLOCK FALSE
